----------------------------- MODULE HttpFetch ------------------------------
(***************************************************************************)
(* The client side, proto/http/HttpConnection.h: a task sends a request on *)
(* a connection, receives the response into one HttpResponse that it       *)
(* resets, and so on.  The server (external) answers in order, with bodies *)
(* whose length is known or that last until it closes.                     *)
(***************************************************************************)
EXTENDS HttpParser

CONSTANTS
    Responses,  \* [status, desc, body, delimited]
    MaxAsked    \* bound on the requests of a connection

FetchAssumption == MaxAsked \in Nat

VARIABLES
    asked,      \* requests sent
    told,       \* the responses the server has sent
    rx,         \* their units that have not been read
    seof,       \* the server has closed
    pc,         \* the task: "idle", "recv" or "over"
    response,
    results,    \* what recv() returned, and the message it left
    torn,       \* a chunk ended in the status text of the response (history)
    left        \* the bodies in the file that the task has not read (history)

vars == <<asked, told, rx, seof, pc, response, results, torn, left>>

Unit(k, c) == [k |-> k, c |-> c, last |-> FALSE]

\* The units of a response.
Encode(r) ==
    LET all == <<Unit("start", "HTTP")>>
               \o [i \in DOMAIN r.desc |-> Unit("status", r.desc[i])] \o <<Unit("sep", "")>>
               \o <<Unit("end", [version |-> "HTTP_11", keepalive |-> r.delimited,
                                 status_code |-> r.status])>>
               \o [i \in DOMAIN r.body |-> Unit("body", r.body[i])]
    IN  [all EXCEPT ![Len(all)].last = r.delimited]

Init ==
    /\ asked = 0 /\ told = << >> /\ rx = << >> /\ seof = FALSE
    /\ pc = "idle" /\ response = NewParser /\ results = << >>
    /\ torn = FALSE /\ left = Nothing

Spilled(r) == Len(r.body) > kMemoryLimit

\* The task has read the body of the last response, or not; then send() (what sendTo()
\* returns is ignored), response.reset(), and recv() begins.
send(read) ==
    /\ pc = "idle" /\ asked < MaxAsked
    /\ asked' = asked + 1
    /\ pc' = "recv"
    /\ response' = reset(IF read THEN [response EXCEPT !.body = readBody(@)] ELSE response)
    /\ torn' = FALSE
    /\ left' = IF asked = 0 \/ ~Spilled(told[asked]) THEN left
               ELSE IF read THEN Nothing ELSE left \o told[asked].body
    /\ UNCHANGED <<told, rx, seof, results>>

ServerAnswer(r) ==
    /\ Len(told) < asked /\ ~seof
    /\ told' = Append(told, r)
    /\ rx' = rx \o Encode(r)
    /\ seof' = ~r.delimited
    /\ UNCHANGED <<asked, pc, response, results, torn, left>>

ServerClose ==
    /\ ~seof
    /\ seof' = TRUE
    /\ UNCHANGED <<asked, told, rx, pc, response, results, torn, left>>

\* recv() returns.
Return(ok, message) ==
    /\ results' = Append(results, [ok |-> ok, message |-> message, torn |-> torn', left |-> left])
    /\ pc' = IF ok THEN "idle" ELSE "over"

\* One turn of the loop in recv(): n units are read and parsed.
recv(n) ==
    LET r == parse(response, SubSeq(rx, 1, n))
    IN  /\ pc = "recv"
        /\ response' = r.p
        /\ rx' = SubSeq(rx, n + 1, Len(rx))
        /\ torn' = (torn \/ (n < Len(rx) /\ rx[n].k = "status"))
        /\ \/ r.n > 0 /\ ~r.p.bEndOfMessage /\ UNCHANGED <<results, pc>>
           \/ (r.n = 0 \/ r.p.bEndOfMessage) /\ Return(r.n > 0, r.p)
        /\ UNCHANGED <<asked, told, seof, left>>

\* read() returns 0 and recv() returns false; the parser is not told.
recvEof ==
    /\ pc = "recv" /\ rx = << >> /\ seof
    /\ UNCHANGED torn
    /\ Return(FALSE, response)
    /\ UNCHANGED <<asked, told, rx, seof, response, left>>

Client == (\E read \in BOOLEAN : send(read)) \/ recvEof \/ \E n \in 1 .. Len(rx) : recv(n)

Next == Client \/ ServerClose \/ \E r \in Responses : ServerAnswer(r)

\* The task runs whenever it can; the server answers or closes in the end.
Spec ==
    /\ Init /\ [][Next]_vars
    /\ WF_vars(Client)
    /\ WF_vars(ServerClose \/ \E r \in Responses : ServerAnswer(r))

-----------------------------------------------------------------------------
\* What recv() reports is in step with what was asked.
FetchTypeOK ==
    /\ pc \in {"idle", "recv", "over"} /\ asked <= MaxAsked
    /\ Len(results) = asked - (IF pc = "recv" THEN 1 ELSE 0)
    /\ Len(told) <= asked

\* Every response that recv() reports as received is the answer to that request, with its
\* own status, its whole body, and its own status text unless a chunk ended in that (then
\* an end of it).  Nothing of an earlier response is left in the object, except that a body
\* that goes to the file comes after those that nobody has read there.
ResponseWhole ==
    \A i \in DOMAIN results : results[i].ok =>
        LET got == results[i].message
        IN  /\ Unread(got.body) =
                  (IF Spilled(told[i]) THEN results[i].left ELSE Nothing) \o told[i].body
            /\ got.header.status_code = told[i].status
            /\ IsSuffix(got.header.status_desc, told[i].desc)
            /\ ~results[i].torn => got.header.status_desc = told[i].desc

\* recv() returns.
RecvReturns == \A i \in 1 .. MaxAsked : (asked >= i) ~> (Len(results) >= i)

=============================================================================
