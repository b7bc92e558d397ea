----------------------------- MODULE BodyStore ------------------------------
(***************************************************************************)
(* proto/http/HttpBody.h over core/TempFile.h over core/File.h: the body   *)
(* of a message, kept in memory up to kMemoryLimit, then in a temporary    *)
(* file, or in a file the user names.                                      *)
(*                                                                         *)
(* A File keeps its descriptors open for its whole life: unlinking it      *)
(* hides its name (length() becomes zero) but not its bytes.  sendTo()     *)
(* writes to a peer that may fail after any number of bytes, or take none; *)
(* from a file it reads chunk by chunk, and a chunk that was read is gone. *)
(***************************************************************************)
EXTENDS Integers, Sequences

CONSTANTS
    kMemoryLimit,
    Chunk,      \* kFileBufferSize
    Lens,       \* the lengths of writes and reads
    Bytes,      \* the byte values, 0 .. Bytes - 1
    MaxFile     \* bound on the length of a file

BodyAssumption ==
    /\ kMemoryLimit \in Nat /\ Chunk \in Nat \ {0} /\ MaxFile \in Nat
    /\ Lens \subseteq Nat \ {0} /\ Bytes \in Nat \ {0}

VARIABLES
    bodyMode,               \* HttpBody::fMode: "temp" or "disk"
    fMode,                  \* TempFile::fMode: "buffer" or "file"
    fBuf,                   \* the buffer of the TempFile
    tmp, tmpOff, linked,    \* its file, the offset of fReadFd, and whether it has a name
    pFile, pOff,            \* the user's file and the offset of its fReadFd
    next,                   \* the value of the next byte
    expect,                 \* the body as its user sees it: written and not yet read
    whole,                  \* the last successful sendTo wrote the whole body
    stalled,                \* in it a write returned 0
    mixed                   \* clear() or setMemoryMode() has left bytes unread in the file

tvars == <<fMode, fBuf, tmp, tmpOff, linked>>
fvars == <<pFile, pOff>>
vars == <<bodyMode, tvars, fvars, next, expect, whole, stalled, mixed>>

BodyTypeOK ==
    /\ bodyMode \in {"temp", "disk"} /\ fMode \in {"buffer", "file"}
    /\ Len(fBuf) <= kMemoryLimit
    /\ tmpOff \in 0 .. Len(tmp) /\ pOff \in 0 .. Len(pFile)
    /\ linked \in BOOLEAN /\ whole \in BOOLEAN /\ mixed \in BOOLEAN
    /\ stalled \in BOOLEAN /\ next \in 0 .. Bytes - 1

Init ==
    /\ bodyMode = "temp" /\ fMode = "buffer" /\ fBuf = <<>>
    /\ tmp = <<>> /\ tmpOff = 0 /\ linked = TRUE
    /\ pFile = <<>> /\ pOff = 0
    /\ next = 0 /\ expect = <<>> /\ whole = TRUE /\ stalled = FALSE /\ mixed = FALSE

From(s, off) == SubSeq(s, off + 1, Len(s))
Fresh(n) == [i \in 1 .. n |-> (next + i - 1) % Bytes]
Smaller(m, n) == IF m < n THEN m ELSE n

\* What the readers of the body get next.
Unread == IF bodyMode = "disk" THEN From(pFile, pOff)
          ELSE IF fMode = "buffer" THEN fBuf ELSE From(tmp, tmpOff)

\* length(): of a file, the whole of it, and zero once it has no name.
length == IF bodyMode = "disk" THEN Len(pFile)
          ELSE IF fMode = "buffer" THEN Len(fBuf)
          ELSE IF linked THEN Len(tmp) ELSE 0

-----------------------------------------------------------------------------
\* Mutant of dumpToFile: the new bytes get in front of the buffer.
dumpAfter(s) ==
    /\ tmp' = tmp \o s \o fBuf
    /\ fBuf' = <<>>
    /\ fMode' = "file"
    /\ UNCHANGED <<tmpOff, linked>>

\* dumpToFile() moves the buffer to the file; s is what write() appends after it.
dumpToFile(s) ==
    /\ tmp' = tmp \o fBuf \o s
    /\ fBuf' = <<>>
    /\ fMode' = "file"
    /\ UNCHANGED <<tmpOff, linked>>

\* TempFile::write().
tempWrite(s) ==
    \/ fMode = "buffer" /\ Len(fBuf) + Len(s) <= kMemoryLimit /\ fBuf' = fBuf \o s
       /\ UNCHANGED <<fMode, tmp, tmpOff, linked>>
    \/ fMode = "buffer" /\ Len(fBuf) + Len(s) > kMemoryLimit /\ dumpToFile(s)
    \/ fMode = "file" /\ tmp' = tmp \o s /\ UNCHANGED <<fMode, fBuf, tmpOff, linked>>

write(n) ==
    /\ Len(tmp) + Len(fBuf) + n <= MaxFile /\ Len(pFile) + n <= MaxFile
    /\ next' = (next + n) % Bytes
    /\ expect' = expect \o Fresh(n)
    /\ \/ bodyMode = "disk" /\ pFile' = pFile \o Fresh(n) /\ UNCHANGED <<pOff, tvars>>
       \/ bodyMode = "temp" /\ tempWrite(Fresh(n)) /\ UNCHANGED fvars
    /\ UNCHANGED <<bodyMode, whole, stalled, mixed>>

\* n bytes of the body are consumed.
Consume(n) ==
    \/ bodyMode = "disk" /\ pOff' = pOff + n /\ UNCHANGED <<pFile, tvars>>
    \/ /\ bodyMode = "temp" /\ fMode = "buffer" /\ fBuf' = From(fBuf, n)
       /\ UNCHANGED <<fMode, tmp, tmpOff, linked, fvars>>
    \/ /\ bodyMode = "temp" /\ fMode = "file" /\ tmpOff' = tmpOff + n
       /\ UNCHANGED <<fMode, fBuf, tmp, linked, fvars>>

read(n) ==
    LET m == Smaller(n, Len(Unread))
    IN  /\ m > 0
        /\ Consume(m)
        /\ expect' = From(expect, m)
        /\ UNCHANGED <<bodyMode, next, whole, stalled, mixed>>

\* dumpAsFile(): all of the body is read and written to another file.
dumpAsFile ==
    /\ Unread # <<>>
    /\ Consume(Len(Unread))
    /\ expect' = <<>>
    /\ UNCHANGED <<bodyMode, next, whole, stalled, mixed>>

\* sendTo() reaches the end of the body and writes "\r\n" after it.  A buffer keeps
\* its bytes, a file is read to its end; a body of length zero sends nothing.
sendAll ==
    /\ whole' = (IF length = 0 THEN expect = <<>>
                 ELSE Unread = expect)
    /\ stalled' = FALSE
    /\ IF length > 0 /\ (bodyMode = "disk" \/ fMode = "file")
       THEN Consume(Len(Unread)) /\ expect' = <<>>
       ELSE UNCHANGED <<tvars, fvars, expect>>
    /\ UNCHANGED <<bodyMode, next, mixed>>

\* sendTo() fails after k bytes: of a file the chunk with the failure has been read.  When k
\* is all of the body it is the write of "\r\n" that fails.
sendFails(k) ==
    /\ length > 0 /\ k <= Len(Unread)
    /\ IF bodyMode = "disk" \/ fMode = "file"
       THEN LET n == Smaller(Chunk * (1 + k \div Chunk), Len(Unread))
            IN  Consume(n) /\ expect' = From(expect, n)
       ELSE UNCHANGED <<tvars, fvars, expect>>
    /\ UNCHANGED <<bodyMode, next, whole, stalled, mixed>>

\* A write from the buffer returns 0 after k bytes.  Buffer::sendTo() returns that 0, which
\* HttpBody::sendTo() takes for success: "\r\n" follows.  (File::sendTo() tries again.)
sendStalls(k) ==
    /\ bodyMode = "temp" /\ fMode = "buffer" /\ k < Len(fBuf)
    /\ whole' = (SubSeq(fBuf, 1, k) = expect)
    /\ stalled' = TRUE
    /\ UNCHANGED <<bodyMode, tvars, fvars, next, expect, mixed>>

setDiskMode ==
    /\ bodyMode = "temp"
    /\ dumpToFile(<<>>)
    /\ UNCHANGED <<bodyMode, fvars, next, expect, whole, stalled, mixed>>

\* setMemoryMode(): what the file holds is no longer seen.
setMemoryMode ==
    /\ bodyMode = "temp"
    /\ fMode' = "buffer"
    /\ mixed' = (mixed \/ tmpOff < Len(tmp))
    /\ expect' = fBuf
    /\ UNCHANGED <<bodyMode, fBuf, tmp, tmpOff, linked, fvars, next, whole, stalled>>

\* useFile(): a file opened from its start.
useFile ==
    /\ bodyMode' = "disk"
    /\ pOff' = 0
    /\ expect' = pFile
    /\ UNCHANGED <<tvars, pFile, next, whole, stalled, mixed>>

\* reset(): TempFile::clear() unlinks the file, whose descriptors and offsets live on.
reset ==
    /\ bodyMode' = "temp" /\ fMode' = "buffer" /\ fBuf' = <<>> /\ linked' = FALSE
    /\ expect' = <<>>
    /\ mixed' = (mixed \/ tmpOff < Len(tmp))
    /\ UNCHANGED <<tmp, tmpOff, fvars, next, whole, stalled>>

Next ==
    \/ \E n \in Lens : write(n) \/ read(n)
    \/ \E k \in 0 .. MaxFile : sendFails(k) \/ sendStalls(k)
    \/ dumpAsFile \/ sendAll \/ setDiskMode \/ setMemoryMode \/ useFile \/ reset

Spec == Init /\ [][Next]_vars

-----------------------------------------------------------------------------
\* The readers of a body get exactly what was written and not read, in order, across the
\* spill to the file, mode switches, failed sends and resets, as long as no reset or
\* setMemoryMode() left unread bytes in the temporary file (they come back in front of
\* the next body that spills).
BodyInOrder == ~mixed \/ bodyMode = "disk" => Unread = expect

\* A successful sendTo() wrote the whole body, unless the peer took nothing (then the
\* rest of a buffer is dropped), or an earlier reset() has unlinked the temporary file: a
\* body that then spills has length zero and nothing of it is sent.
SentWhole == linked /\ ~mixed /\ ~stalled => whole

\* Memory is bounded: the buffer never holds more than the limit, and a body that has
\* gone to the file leaves nothing behind in the buffer.
SpillEmpties == fMode = "file" => fBuf = <<>>

=============================================================================
