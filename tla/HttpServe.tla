----------------------------- MODULE HttpServe ------------------------------
(***************************************************************************)
(* A connection of examples/http_serv.cpp (the recv and send of README.md  *)
(* and of HttpConnection.h): ClientRunner::run reads requests into one     *)
(* HttpRequest and answers them with one HttpResponse, until the client    *)
(* closes or does not want to be kept alive.  The network delivers the     *)
(* bytes of the client in chunks of any size.                              *)
(***************************************************************************)
EXTENDS HttpParser, FiniteSetsExt

CONSTANTS
    Messages,   \* the requests: [uri, headers, body, version, keepalive]
    MaxMsgs,    \* bound on the requests of a connection
    Pipelined   \* the client does not wait for an answer before it sends again

ServeAssumption == MaxMsgs \in Nat /\ Pipelined \in BOOLEAN

VARIABLES
    msgs,       \* the requests the client has sent
    rx,         \* their units that the server has not read
    ceof,       \* the client has closed
    pc,         \* ClientRunner::run: "recv", "send", "close" or "closed"
    request, response,
    out,        \* the responses the client has received
    torn        \* a chunk ended in the url or a field, or inside a value, of the current
                \* request (history)

vars == <<msgs, rx, ceof, pc, request, response, out, torn>>

-----------------------------------------------------------------------------
Unit(k, c) == [k |-> k, c |-> c, last |-> FALSE]
Token(k, s) == [i \in DOMAIN s |-> Unit(k, s[i])] \o <<Unit("sep", "")>>

\* The units of a request.
Encode(m) ==
    LET head == <<Unit("start", "GET")>> \o Token("url", m.uri)
                \o FlattenSeq([i \in DOMAIN m.headers |->
                       Token("field", m.headers[i][1]) \o Token("value", m.headers[i][2])])
                \o <<Unit("end", [version |-> m.version, keepalive |-> m.keepalive,
                                  status_code |-> 0])>>
        all == head \o [i \in DOMAIN m.body |-> Unit("body", m.body[i])]
    IN  [all EXCEPT ![Len(all)].last = TRUE]

Init ==
    /\ msgs = << >> /\ rx = << >> /\ ceof = FALSE
    /\ pc = "recv" /\ request = reset(NewParser) /\ response = reset(NewParser)
    /\ out = << >> /\ torn = FALSE

ClientSend(m) ==
    /\ ~ceof /\ Len(msgs) < MaxMsgs
    /\ Pipelined \/ Len(out) = Len(msgs)
    /\ msgs' = Append(msgs, m)
    /\ rx' = rx \o Encode(m)
    /\ UNCHANGED <<ceof, pc, request, response, out, torn>>

ClientClose ==
    /\ ~ceof
    /\ ceof' = TRUE
    /\ UNCHANGED <<msgs, rx, pc, request, response, out, torn>>

\* The condition of the loop in recv(): it goes on, or returns true and the answer follows.
While(p) == IF p.bEndOfMessage THEN "send" ELSE "recv"

\* A callback is made twice for a token whose characters end the chunk.  That a value has
\* come to its end does no harm: an empty value is ignored.
Tears(n) == /\ n < Len(rx)
            /\ \/ rx[n].k \in {"url", "field"}
               \/ rx[n].k = "value" /\ rx[n + 1].k = "value"

\* One turn of the loop in recv(): n units are read and parsed.  What parse() has not
\* taken is after an error, or after the end of the message; it is not looked at again.
recv(n) ==
    LET r == parse(request, SubSeq(rx, 1, n))
    IN  /\ pc = "recv"
        /\ request' = r.p
        /\ rx' = SubSeq(rx, n + 1, Len(rx))
        /\ pc' = IF r.n = 0 THEN "close" ELSE While(r.p)
        /\ torn' = (torn \/ Tears(n))
        /\ UNCHANGED <<msgs, ceof, response, out>>

\* read() returns 0: recv() fails.
recvEof ==
    /\ pc = "recv" /\ rx = << >> /\ ceof
    /\ pc' = "close"
    /\ UNCHANGED <<msgs, rx, ceof, request, response, out, torn>>

\* The response to the current request.
answer ==
    LET h == [response.header EXCEPT !.status_code = 200]
        body == writeBody(response.body, <<"hello nattan!">>)
    IN  [response EXCEPT
            !.header = setHeader(setHeader(setHeader(h,
                          <<"Connection">>, <<IF request.bKeepalive THEN "close" ELSE "Keep-Alive">>),
                          <<"Host">>, <<"nattan.co">>),
                          <<"Content-length">>, <<lengthBody(body)>>),
            !.body = body]

\* HttpParser::sendTo(): the head, then the body if it has a length.
sendTo(p) == [header |-> dumpToBuffer(p.header),
              body |-> IF lengthBody(p.body) = 0 THEN Nothing ELSE Unread(p.body)]

\* The rest of the loop in run().  send() ignores what sendTo() returns: when the client
\* has gone the response may be lost.
send ==
    /\ pc = "send"
    /\ \/ out' = Append(out, sendTo(answer))
       \/ ceof /\ UNCHANGED out
    /\ IF request.bKeepalive
       THEN /\ pc' = While(reset(request))
            /\ request' = reset(request)
            /\ response' = reset([answer EXCEPT !.header = dumpToBuffer(@)])
            /\ torn' = FALSE
       ELSE pc' = "close" /\ UNCHANGED <<request, response, torn>>
    /\ UNCHANGED <<msgs, rx, ceof>>

close ==
    /\ pc = "close"
    /\ pc' = "closed"
    /\ UNCHANGED <<msgs, rx, ceof, request, response, out, torn>>

Server == (\E n \in 1 .. Len(rx) : recv(n)) \/ recvEof \/ send \/ close

Next == Server \/ ClientClose \/ \E m \in Messages : ClientSend(m)

\* The task of the connection runs whenever it can.
Spec == Init /\ [][Next]_vars /\ WF_vars(Server)

-----------------------------------------------------------------------------
\* The control state agrees with the message: an answer is sent for a complete request.
HttpTypeOK ==
    /\ pc \in {"recv", "send", "close", "closed"}
    /\ request.state \in {"new", "in", "dead", "error"}
    /\ pc = "send" => request.bEndOfMessage /\ request.bHeadersCompleted
    /\ Len(msgs) <= MaxMsgs

Current == Last(msgs)

HeadersOf(m) ==
    LET names == {m.headers[i][1] : i \in DOMAIN m.headers}
    IN  [f \in names |-> m.headers[Max({i \in DOMAIN m.headers : m.headers[i][1] = f})][2]]

\* A client that waits for its answers has its whole head understood, and nothing of the
\* messages before it, if no chunk ends in the url, in a field (their last characters
\* included) or inside a value; only the version may be that of an earlier message, for
\* reset() does not set it back.
RequestIntact ==
    pc = "send" /\ ~Pipelined /\ ~torn =>
        /\ request.header.uri = Current.uri
        /\ request.header.fHeaders = HeadersOf(Current)
        /\ request.bKeepalive = Current.keepalive
        /\ \/ request.header.version = Current.version
           \/ \E i \in DOMAIN msgs : msgs[i].version = "HTTP_10"

\* Wherever the chunks end, a head is never mixed: the url and each header are the ends of
\* tokens of this request (the url perhaps nothing), each value with its own field.
TornToSuffixes ==
    pc = "send" /\ ~Pipelined =>
        /\ IsSuffix(request.header.uri, Current.uri)
        /\ \A f \in DOMAIN request.header.fHeaders : \E i \in DOMAIN Current.headers :
              /\ IsSuffix(f, Current.headers[i][1])
              /\ IsSuffix(request.header.fHeaders[f], Current.headers[i][2])

\* The bodies of earlier requests that went to the file.
Spilled(m) == Len(m.body) > kMemoryLimit
LeftInFile == FlattenSeq([i \in 1 .. Len(msgs) - 1 |->
                             IF Spilled(msgs[i]) THEN msgs[i].body ELSE Nothing])

\* The same client's body is received whole however the network cuts it up.  One that goes
\* to the file comes after those of the earlier requests, which nobody has read there.
BodyWhole ==
    pc = "send" /\ ~Pipelined =>
        Unread(request.body) = (IF Spilled(Current) THEN LeftInFile ELSE Nothing) \o Current.body

\* No request is answered twice, even when requests come in one chunk: those after the
\* first are then swallowed with it, or their rest is taken for a bad request.
OneAnswerEach == Len(out) <= Len(msgs)

\* A request of a client that waits is answered, or the connection is closed.
AnsweredOrClosed ==
    \A i \in 1 .. MaxMsgs : (Len(msgs) >= i) ~> (Len(out) >= i \/ pc = "closed")

\* The connection is closed once the client has closed its side.
SessionEnds == ceof ~> (pc = "closed")

=============================================================================
