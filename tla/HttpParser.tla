----------------------------- MODULE HttpParser -----------------------------
(***************************************************************************)
(* proto/http/HttpParser.h, HttpHeader.h and HttpBody.h over the parser of *)
(* deps/http-parser: a message that is filled by the callbacks of          *)
(* http_parser_execute() while a stream is fed to it in chunks.            *)
(*                                                                         *)
(* A stream is a sequence of units [k, c, last]: "start" (the method or    *)
(* the protocol), then the characters of the url or of the status, then    *)
(* those of each header field and value, "sep" after each of these tokens, *)
(* "end" with what the parser knows at the end of the header, then the     *)
(* body.  The unit with last = TRUE completes the message.  Left out:      *)
(* values folded over several lines, chunked bodies and upgrades.          *)
(***************************************************************************)
EXTENDS Integers, Sequences, SequencesExt

CONSTANT kMemoryLimit     \* of the TempFile of a body

Nothing == << >>     \* the empty string, the empty map

NewHeader == [uri |-> Nothing, status_desc |-> Nothing, version |-> "HTTP_11",
              status_code |-> 0, fHeaders |-> Nothing]

\* A body, as BodyStore has it: the mode of its TempFile, the buffer, the unread bytes of
\* the file, and whether the file has a name.
NewBody == [mode |-> "buffer", fBuf |-> Nothing, file |-> Nothing, linked |-> TRUE]

\* state is where http_parser is: "new" before a message, "in" it, "dead" after the last
\* message of a connection, or "error"; tok is the token it is in.
NewParser ==
    [bEndOfMessage |-> FALSE, bKeepalive |-> FALSE, bHeadersCompleted |-> FALSE,
     bInited |-> FALSE, fHeaderKey |-> Nothing, header |-> NewHeader, body |-> NewBody,
     state |-> "new", tok |-> "none"]

setHeader(h, key, value) ==
    IF key = Nothing \/ value = Nothing THEN h
    ELSE [h EXCEPT !.fHeaders = [x \in DOMAIN h.fHeaders \cup {key} |->
                                    IF x = key THEN value ELSE h.fHeaders[x]]]

\* Mutant of resetHeader: the headers of the last message stay.
resetHeaderBuffer(h) == h

\* HttpHeader::reset(): version, uri and status_desc keep their values.
resetHeader(h) == [h EXCEPT !.fHeaders = Nothing]

\* HttpBody::write(), into the buffer or, once that is full, into the file.
writeBody(b, s) ==
    IF b.mode = "buffer" /\ Len(b.fBuf) + Len(s) <= kMemoryLimit
    THEN [b EXCEPT !.fBuf = @ \o s]
    ELSE [b EXCEPT !.mode = "file", !.file = @ \o b.fBuf \o s, !.fBuf = Nothing]

\* HttpBody::reset(): the file loses its name, not the bytes that nobody has read.
resetBody(b) == [b EXCEPT !.mode = "buffer", !.fBuf = Nothing, !.linked = FALSE]

\* What a reader of the body gets, the body when it has been read to its end, and length().
Unread(b) == IF b.mode = "buffer" THEN b.fBuf ELSE b.file
readBody(b) == IF b.mode = "buffer" THEN [b EXCEPT !.fBuf = Nothing]
               ELSE [b EXCEPT !.file = Nothing]
lengthBody(b) == IF b.mode = "buffer" THEN Len(b.fBuf)
                 ELSE IF b.linked THEN Len(b.file) ELSE 0

reset(p) ==
    [p EXCEPT !.bEndOfMessage = FALSE, !.bHeadersCompleted = FALSE, !.bKeepalive = FALSE,
              !.bInited = FALSE, !.header = resetHeader(@), !.body = resetBody(@),
              !.fHeaderKey = Nothing]

init(p) ==
    [p EXCEPT !.bHeadersCompleted = FALSE, !.bKeepalive = FALSE, !.bEndOfMessage = FALSE,
              !.bInited = TRUE, !.state = "new", !.tok = "none"]

\* HttpHeader::dumpToBuffer(): the head as it goes out.  The description is looked up
\* once and stays for later status codes.  A head over the limit is sent all the same.
dumpToBuffer(h) ==
    [h EXCEPT !.status_desc = IF @ = Nothing THEN <<h.status_code>> ELSE @]

-----------------------------------------------------------------------------
\* The callbacks; at is the piece of the token that is in this chunk.
on_url(p, at) == [p EXCEPT !.header.uri = at]
on_header_field(p, at) == [p EXCEPT !.fHeaderKey = at]
on_header_value(p, at) == [p EXCEPT !.header = setHeader(@, p.fHeaderKey, at)]

on_status(p, at) == [p EXCEPT !.header.status_desc = at]

on_body(p, at) == [p EXCEPT !.body = writeBody(@, at)]

on_headers_complete(p, about) ==
    [p EXCEPT !.header.status_code = about.status_code,
              !.bKeepalive = about.keepalive,
              !.bHeadersCompleted = TRUE,
              !.header.version = IF about.version = "HTTP_10" THEN "HTTP_10" ELSE @]

on_message_complete(p) == [p EXCEPT !.bEndOfMessage = TRUE]

\* The data callback of the token that the parser is in, with the part of it that is in
\* this chunk.
CALLBACK_DATA(p, at) ==
    CASE p.tok = "url" -> on_url(p, at)
      [] p.tok = "status" -> on_status(p, at)
      [] p.tok = "field" -> on_header_field(p, at)
      [] p.tok = "value" -> on_header_value(p, at)
      [] p.tok = "body" -> on_body(p, at)
      [] OTHER -> p

\* A character of a token, which the mark of the token makes part of the next callback.
MarkToken(a, u) == [a EXCEPT !.p.tok = u.k, !.piece = Append(@, u.c)]

\* The separator after a token: its callback is made, with nothing if the chunk begins here.
EndToken(a) == [a EXCEPT !.p = [CALLBACK_DATA(a.p, a.piece) EXCEPT !.tok = "none"],
                         !.piece = Nothing]

\* The end of the message.  The parser is ready for the next one, or dead when the
\* connection is not kept alive (the strict build).
MessageDone(p) ==
    [on_message_complete(p) EXCEPT !.state = IF p.bKeepalive THEN "new" ELSE "dead"]

\* One unit is taken, or is an error.
feed(a, u) ==
    LET b == CASE u.k \in {"url", "status", "field", "value", "body"} -> MarkToken(a, u)
               [] u.k = "sep" -> EndToken(a)
               [] u.k = "end" -> [a EXCEPT !.p = on_headers_complete(@, u.c)]
               [] OTHER -> a
        c == [b EXCEPT !.p.state = "in", !.n = @ + 1]
    IN  IF \/ a.p.state \in {"error", "dead"}
           \/ a.p.state = "new" /\ u.k # "start"
        THEN [a EXCEPT !.p.state = "error"]
        ELSE IF u.last
        THEN LET d == IF c.p.tok = "body" THEN EndToken(c) ELSE c
             IN  [d EXCEPT !.p = MessageDone(@)]
        ELSE c

\* The token that a chunk ends in has its callback with what the chunk has of it.
EndOfChunk(a) == [a EXCEPT !.p = CALLBACK_DATA(@, a.piece)]

\* The mark of a token that the last chunk ended in, even with its last character, is set
\* again at the start of the next (an empty piece).
http_parser_execute(p, chunk) ==
    LET after[i \in 0 .. Len(chunk)] ==     \* after i units
            IF i = 0 THEN [p |-> p, piece |-> Nothing, n |-> 0]
            ELSE feed(after[i - 1], chunk[i])
    IN  EndOfChunk(after[Len(chunk)])

\* parse(): the message afterwards (p) and the number of units taken (n).
parse(p, chunk) == http_parser_execute(IF p.bInited THEN p ELSE init(p), chunk)

=============================================================================
