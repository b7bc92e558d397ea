---------------------------- MODULE ConfigParser ----------------------------
(***************************************************************************)
(* core/ConfigParser: sections of key=value lines, read from a file into a *)
(* map of maps.  A line is a sequence of characters, of which the parser   *)
(* tells apart "[", "#", "=" and " ".  std::map::insert keeps the value    *)
(* that is there.                                                          *)
(***************************************************************************)
EXTENDS Integers, Sequences, SequencesExt, FiniteSetsExt

CONSTANTS
    Lines,      \* the lines that are written to files
    Files,      \* the names of files
    MaxLines    \* bound on the lines that are written

ConfigAssumption == MaxLines \in Nat /\ Lines \subseteq Seq(STRING)

Empty == << >>          \* the empty string, and what a lookup that fails returns
Blank == " "

VARIABLES
    disk,       \* the lines of each file that exists
    filename,
    configMap,
    written,    \* lines written so far (bound)
    text        \* {what was in the file when it was last read}, {} before (history)

vars == <<disk, filename, configMap, written, text>>

insert(map, k, v) ==
    [x \in DOMAIN map \cup {k} |-> IF x \in DOMAIN map THEN map[x] ELSE v]

StartsWith(line, c) == line # Empty /\ line[1] = c

-----------------------------------------------------------------------------
\* line.substr(1, len - 2): all but the first and the last character.  When the line has
\* one character only, len - 2 is the largest size, and the result is empty.
sectionName(line) == SubSeq(line, 2, Len(line) - 1)

\* The type of a line and its content.  Blanks are skipped only to recognise an empty
\* line; the first character then decides.  A line that starts with "[" is a section
\* whatever follows.
decideLineType(line) ==
    IF StartsWith(line, "[") THEN [type |-> "SECTION", content |-> sectionName(line)]
    ELSE IF StartsWith(line, "#") THEN [type |-> "COMMENT", content |-> Empty]
    ELSE IF Contains(line, "=") THEN [type |-> "KEYVAL", content |-> line]
    ELSE [type |-> "ERRLINE", content |-> Empty]

\* The content of a KEYVAL line, split at its first "=".
firstEq(content) == Min({i \in DOMAIN content : content[i] = "="})
keyOf(content) == SubSeq(content, 1, firstEq(content) - 1)
valueOf(content) == SubSeq(content, firstEq(content) + 1, Len(content))

\* Mutant of onSection: the settings of the block before stay in kvMap.
onSectionKept(st, name) ==
    IF st.is1stSec
    THEN [st EXCEPT !.is1stSec = FALSE, !.section = name]
    ELSE [st EXCEPT !.configMap = insert(@, st.section, st.kvMap), !.section = name]

\* A section line: the block before it is complete, except before the first one.
onSection(st, name) ==
    IF st.is1stSec
    THEN [st EXCEPT !.is1stSec = FALSE, !.section = name]
    ELSE [st EXCEPT !.configMap = insert(@, st.section, st.kvMap),
                    !.kvMap = Empty, !.section = name]

onLine(st, line) ==
    LET l == decideLineType(line)
    IN  CASE l.type = "SECTION" -> onSection(st, l.content)
          [] l.type = "KEYVAL" ->
                [st EXCEPT !.kvMap = insert(@, keyOf(l.content), valueOf(l.content))]
          [] OTHER -> st

\* The loop over the lines.
onLines(st, lines) ==
    LET after[n \in 0 .. Len(lines)] ==
            IF n = 0 THEN st ELSE onLine(after[n - 1], lines[n])
    IN  after[Len(lines)]

\* What is left when the lines end belongs to the last section.  A file that cannot be
\* opened has no lines.
loadConfig2Map(lines) ==
    LET end == onLines([configMap |-> Empty, kvMap |-> Empty, section |-> Empty,
                        is1stSec |-> TRUE], lines)
    IN  insert(end.configMap, end.section, end.kvMap)

getValueByKey(map, section, key) ==
    IF section \in DOMAIN map /\ key \in DOMAIN map[section] THEN map[section][key] ELSE Empty

\* What getAllKey prints for one section, in some order of its keys.
dumpSection(map, s) ==
    <<(<<"[", Blank>> \o s \o <<Blank, "]">>)>>
        \o SetToSeq({k \o <<"=">> \o map[s][k] : k \in DOMAIN map[s]})

getAllKey(map) ==
    LET names == SetToSeq(DOMAIN map)
        out[n \in 0 .. Len(names)] ==
            IF n = 0 THEN Empty ELSE out[n - 1] \o dumpSection(map, names[n])
    IN  out[Len(names)]

-----------------------------------------------------------------------------
Contents(f) == IF f \in DOMAIN disk THEN disk[f] ELSE Empty

Init ==
    /\ disk = Empty
    /\ filename = ""
    /\ configMap = Empty
    /\ written = 0
    /\ text = {}

\* access() finds the file, or the call changes nothing that can be read.
load(f) ==
    /\ f \in DOMAIN disk
    /\ filename' = f
    /\ configMap' = loadConfig2Map(disk[f])
    /\ text' = {disk[f]}
    /\ UNCHANGED <<disk, written>>

\* The file of the last load is read again: it may have gone since, or there never was one.
reload ==
    /\ configMap' = loadConfig2Map(Contents(filename))
    /\ text' = {Contents(filename)}
    /\ UNCHANGED <<disk, filename, written>>

\* Somebody writes a line to a file, or removes it.
WriteLine(f, line) ==
    /\ written < MaxLines
    /\ written' = written + 1
    /\ disk' = [g \in DOMAIN disk \cup {f} |->
                   IF g = f THEN Append(Contents(f), line) ELSE disk[g]]
    /\ UNCHANGED <<filename, configMap, text>>

Unlink(f) ==
    /\ f \in DOMAIN disk
    /\ disk' = [g \in DOMAIN disk \ {f} |-> disk[g]]
    /\ UNCHANGED <<filename, configMap, written, text>>

Next ==
    \/ reload
    \/ \E f \in Files : load(f) \/ Unlink(f) \/ \E line \in Lines : WriteLine(f, line)

Spec == Init /\ [][Next]_vars

-----------------------------------------------------------------------------
Headers(lines) == {i \in DOMAIN lines : decideLineType(lines[i]).type = "SECTION"}

\* The header under which line i stands: the last one before it; the first of the file
\* when none is before it; 0 when the file has none.
Header(lines, i) ==
    LET before == {h \in Headers(lines) : h < i}
    IN  IF before # {} THEN Max(before)
        ELSE IF Headers(lines) # {} THEN Min(Headers(lines)) ELSE 0

HeaderName(lines, h) == IF h = 0 THEN Empty ELSE sectionName(lines[h])

\* A file without a header is one block.
Blocks(lines) == IF Headers(lines) = {} THEN {0} ELSE Headers(lines)

\* The positions of key k in the first block that has the name s.
Positions(lines, s, k) ==
    LET hs == {h \in Blocks(lines) : HeaderName(lines, h) = s}
    IN  {i \in DOMAIN lines : /\ hs # {} /\ Header(lines, i) = Min(hs)
                              /\ decideLineType(lines[i]).type = "KEYVAL"
                              /\ keyOf(lines[i]) = k}

Sections == {sectionName(line) : line \in {l \in Lines : l # Empty}} \cup {Empty}
Keys == {keyOf(line) : line \in {l \in Lines : Contains(l, "=")}}

\* Sections and keys come from the lines; a key has no "=" in it.
ConfigTypeOK ==
    /\ DOMAIN configMap \subseteq Sections
    /\ \A s \in DOMAIN configMap : \A k \in DOMAIN configMap[s] : k \in Keys /\ ~Contains(k, "=")
    /\ filename \in Files \cup {""} /\ DOMAIN disk \subseteq Files
    /\ text = {} => configMap = Empty
    /\ written \in 0 .. MaxLines

\* What getValueByKey returns depends on the text that was read last and on nothing
\* before it, and it is the first value of the key in the first block with the section's
\* name; settings above the first header count for the first section.  Settings of a
\* second block with the same name are never seen.
LookupIsFirst ==
    \A lines \in text : \A s \in Sections, k \in Keys :
        LET ps == Positions(lines, s, k)
        IN  getValueByKey(configMap, s, k) = IF ps = {} THEN Empty ELSE valueOf(lines[Min(ps)])

\* What getAllKey prints is a configuration that reads back as the same settings, under
\* section names with the two blanks it prints: no "=", "[" or "#" in a name, a key or a
\* value is taken for something else on the way.
DumpReadsBack ==
    loadConfig2Map(getAllKey(configMap)) =
        IF configMap = Empty THEN insert(Empty, Empty, Empty)
        ELSE [s \in {<<Blank>> \o t \o <<Blank>> : t \in DOMAIN configMap} |->
                 configMap[SubSeq(s, 2, Len(s) - 1)]]

=============================================================================
