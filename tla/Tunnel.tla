------------------------------- MODULE Tunnel -------------------------------
(***************************************************************************)
(* SocketHelper::tunnel (net/SocketHelper.h) between a client and a server *)
(* connection, both with a TLS handler or both without; net/Unhook.h.      *)
(*                                                                         *)
(* Both entries of the poll set are the client's socket: bytes of the      *)
(* server are never waited for, and the tunnel carries bytes one way.      *)
(* Without TLS the bytes go into the reading end of a pipe, which fails.   *)
(***************************************************************************)
EXTENDS Integers, Sequences

CONSTANTS
    MaxBytes,   \* bound on the bytes the client sends
    MaxCalls    \* bound on the calls of tunnel()

TunnelAssumption == MaxBytes \in Nat /\ MaxCalls \in Nat \ {0}

VARIABLES
    use_ssl,
    sent,       \* bytes sent by the client so far; they are numbered
    closed,     \* the client has closed
    rx, buf,    \* bytes that wait at the client's socket, and in SpliceSSLData's buffer
    out,        \* bytes written to the server's connection
    lost,       \* bytes that were in the buffer when a call gave up
    hooked,     \* the hook flag of the task
    pipes,      \* descriptors of pipes that are open
    calls,      \* calls of tunnel()
    pc, ret     \* "poll", "read", "write", "done" or "crashed", and what tunnel() returned

peer == <<sent, closed>>
vars == <<use_ssl, peer, rx, buf, out, lost, hooked, pipes, calls, pc, ret>>

TunnelTypeOK ==
    /\ {use_ssl, closed, hooked} \subseteq BOOLEAN
    /\ sent \in 0 .. MaxBytes /\ calls \in 1 .. MaxCalls
    /\ pc \in {"poll", "read", "write", "done", "crashed"} /\ ret \in {-1, 0}
    /\ pc \in {"poll", "read"} => buf = << >>
    /\ pc = "write" => use_ssl /\ buf # << >>

Init ==
    /\ use_ssl \in BOOLEAN
    /\ sent = 0 /\ closed = FALSE
    /\ rx = << >> /\ buf = << >> /\ out = << >> /\ lost = {}
    /\ hooked = TRUE /\ pipes = 0 /\ calls = 1 /\ pc = "poll" /\ ret = 0

ClientSends ==
    /\ ~closed /\ sent < MaxBytes
    /\ sent' = sent + 1
    /\ rx' = Append(rx, sent + 1)
    /\ UNCHANGED <<use_ssl, closed, buf, out, lost, hooked, pipes, calls, pc, ret>>

ClientCloses ==
    /\ ~closed
    /\ closed' = TRUE
    /\ UNCHANGED <<use_ssl, sent, rx, buf, out, lost, hooked, pipes, calls, pc, ret>>

\* tunnel() returns r; a buffer goes with the frame that holds it.
Return(r) ==
    /\ pc' = "done" /\ ret' = r
    /\ lost' = lost \cup {buf[i] : i \in DOMAIN buf}
    /\ buf' = << >>

\* co_poll reports the client's socket.
poll ==
    /\ pc = "poll" /\ (rx # << >> \/ closed)
    /\ pc' = "read"
    /\ hooked' = ~use_ssl
    /\ UNCHANGED <<use_ssl, peer, rx, buf, out, lost, pipes, calls, ret>>

\* Bytes that are in the SSL object already do not make the socket readable.
pollTimeout ==
    /\ pc = "poll" /\ (use_ssl \/ rx = << >>) /\ ~closed
    /\ Return(0)
    /\ UNCHANGED <<use_ssl, peer, rx, out, hooked, pipes, calls>>

\* SpliceSocketData: no pipe, or a splice into the end of it that cannot be written to.
\* The pipe is not closed.
SpliceSocketData ==
    /\ pc = "read" /\ ~use_ssl
    /\ \/ UNCHANGED pipes
       \/ pipes' = pipes + 2
    /\ Return(-1)
    /\ UNCHANGED <<use_ssl, peer, rx, out, hooked, calls>>

\* SpliceSSLData reads k bytes.
sslRead(k) ==
    /\ pc = "read" /\ use_ssl /\ k \in 1 .. Len(rx)
    /\ buf' = SubSeq(rx, 1, k)
    /\ rx' = SubSeq(rx, k + 1, Len(rx))
    /\ pc' = "write"
    /\ UNCHANGED <<use_ssl, peer, out, lost, hooked, pipes, calls, ret>>

\* ~Unhook() at every return of SpliceSSLData.
Rehook == hooked' = TRUE

\* The end of the stream, an error, or a record that does not get complete in time.
sslReadFails ==
    /\ pc = "read" /\ use_ssl
    /\ Return(-1)
    /\ Rehook
    /\ UNCHANGED <<use_ssl, peer, rx, out, pipes, calls>>

\* A record that was not complete gets so: the loop condition compares the function recv
\* with 0 and the loop ends with recvn = -1, for which no buffer is large enough.
sslReadAgain ==
    /\ pc = "read" /\ use_ssl /\ rx # << >>
    /\ pc' = "crashed"
    /\ UNCHANGED <<use_ssl, peer, rx, buf, out, lost, hooked, pipes, calls, ret>>

\* k bytes are written; the function returns when the buffer is empty.  (A write that would
\* block waits for the wrong socket and is tried again.)
sslWrite(k) ==
    /\ pc = "write" /\ k \in 1 .. Len(buf)
    /\ out' = out \o SubSeq(buf, 1, k)
    /\ buf' = SubSeq(buf, k + 1, Len(buf))
    /\ \/ k < Len(buf) /\ UNCHANGED <<pc, hooked>>
       \/ k = Len(buf) /\ pc' = "poll" /\ Rehook
    /\ UNCHANGED <<use_ssl, peer, rx, lost, pipes, calls, ret>>

\* An error, or the wait fails.
sslWriteFails ==
    /\ pc = "write"
    /\ Return(-1)
    /\ Rehook
    /\ UNCHANGED <<use_ssl, peer, rx, out, pipes, calls>>

\* The caller calls tunnel() again.
tunnelAgain ==
    /\ pc = "done" /\ calls < MaxCalls
    /\ calls' = calls + 1
    /\ pc' = "poll" /\ ret' = 0
    /\ UNCHANGED <<use_ssl, peer, rx, buf, out, lost, hooked, pipes>>

Step ==
    \/ poll \/ pollTimeout \/ SpliceSocketData
    \/ sslReadFails \/ sslReadAgain \/ sslWriteFails
    \/ \E k \in 1 .. MaxBytes : sslRead(k) \/ sslWrite(k)

Next == Step \/ tunnelAgain \/ ClientSends \/ ClientCloses

\* The task runs whenever it can, and the server takes the bytes it is sent.
Spec == Init /\ [][Next]_vars /\ WF_vars(Step)

-----------------------------------------------------------------------------
\* No byte is lost, doubled or moved while calls succeed, however reads and writes cut the
\* stream; a call that gives up loses at most what it held in its buffer.
CarriedInOrder ==
    LET all == out \o buf \o rx
    IN  /\ \A i, j \in DOMAIN all : i < j => all[i] < all[j]
        /\ {all[i] : i \in DOMAIN all} \cup lost = 1 .. sent
        /\ lost \cap {all[i] : i \in DOMAIN all} = {}

\* The task's reads and writes are hooked again whenever it polls or has returned: on every
\* path out of SpliceSSLData, the failing ones included.
HookedOutside == pc \in {"poll", "done"} => hooked

\* A call of tunnel() ends once the client has closed.
TunnelEnds == closed ~> pc \in {"done", "crashed"}

=============================================================================
