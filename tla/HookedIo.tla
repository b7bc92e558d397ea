------------------------------ MODULE HookedIo ------------------------------
(***************************************************************************)
(* Socket::read, readTill and the hook flag of a task: co_read_till        *)
(* (sys_helper.c) turns the flag off, polls with a timer of its own        *)
(* (co_poll), and turns it on again before its last return only.  The      *)
(* write side is the same code.  The descriptor is non-blocking throughout.*)
(*                                                                         *)
(* Bytes are numbered in the order the peer sends them.                    *)
(***************************************************************************)
EXTENDS Integers, Sequences

CONSTANTS
    MaxBytes,   \* bound on the bytes the peer sends
    MaxCalls    \* bound on the calls of the task

IoAssumption == MaxBytes \in Nat /\ MaxCalls \in Nat

VARIABLES
    hooked,     \* co_self()->hook
    sent,       \* bytes the peer has sent
    ended,      \* the peer has closed, or the connection has failed
    inbox,      \* bytes that wait at the descriptor
    got,        \* bytes the task has read
    pc,         \* "run", "read" or "till": the task is in that call and sleeps
    fired,      \* the timer of co_poll has expired and the task is in the run queue
    ret,        \* what the last call returned: "bytes", "timeout", "EAGAIN" or "end" (0 or
                \* -1 when nothing is left to read)
    calls,      \* calls so far
    expiries    \* how many readTill calls have timed out

vars == <<hooked, sent, ended, inbox, got, pc, fired, ret, calls, expiries>>

Init ==
    /\ hooked = TRUE /\ sent = 0 /\ ended = FALSE /\ inbox = <<>> /\ got = <<>>
    /\ pc = "run" /\ fired = FALSE /\ ret = "none" /\ calls = 0 /\ expiries = 0

PeerSends ==
    /\ ~ended /\ sent < MaxBytes /\ sent' = sent + 1 /\ inbox' = Append(inbox, sent + 1)
    /\ UNCHANGED <<hooked, ended, got, pc, fired, ret, calls, expiries>>

PeerEnds ==
    /\ ~ended /\ ended' = TRUE
    /\ UNCHANGED <<hooked, sent, inbox, got, pc, fired, ret, calls, expiries>>

Called == pc = "run" /\ calls < MaxCalls /\ calls' = calls + 1

\* The system call read(): at most n bytes.
SysRead(n) ==
    /\ inbox # <<>> /\ n \in 1 .. Len(inbox)
    /\ got' = got \o SubSeq(inbox, 1, n) /\ inbox' = SubSeq(inbox, n + 1, Len(inbox))
    /\ ret' = "bytes"

SysReadEnds == inbox = <<>> /\ ended /\ ret' = "end" /\ UNCHANGED <<got, inbox>>
Nothing == inbox = <<>> /\ ~ended /\ UNCHANGED <<got, inbox>>

\* The hooked read(): an answer at once, or a sleep in event_poll.
read(n) ==
    /\ Called
    /\ \/ (SysRead(n) \/ SysReadEnds) /\ UNCHANGED pc
       \/ Nothing /\ hooked /\ pc' = "read" /\ UNCHANGED ret
       \/ Nothing /\ ~hooked /\ ret' = "EAGAIN" /\ UNCHANGED pc
    /\ UNCHANGED <<hooked, sent, ended, fired, expiries>>

ReadWakes(n) ==
    /\ pc = "read" /\ (SysRead(n) \/ SysReadEnds) /\ pc' = "run"
    /\ UNCHANGED <<hooked, sent, ended, fired, calls, expiries>>

\* event_poll timed out: -1, and what came in the meantime stays.
ReadTimesOut ==
    /\ pc = "read" /\ pc' = "run" /\ ret' = "timeout"
    /\ UNCHANGED <<hooked, sent, ended, inbox, got, fired, calls, expiries>>

\* co_read_till up to its first return or to the yield of co_poll.
co_read_till(n) ==
    /\ Called
    /\ \/ (SysRead(n) \/ SysReadEnds) /\ hooked' = TRUE /\ UNCHANGED pc
       \/ Nothing /\ hooked' = FALSE /\ pc' = "till" /\ UNCHANGED ret
    /\ UNCHANGED <<sent, ended, fired, expiries>>

\* The timer expires: the task is in the run queue, and bytes may come before it runs.
TimerFires ==
    /\ pc = "till" /\ ~fired /\ fired' = TRUE
    /\ UNCHANGED <<hooked, sent, ended, inbox, got, pc, ret, calls, expiries>>

\* Mutant of TillReads: a timer that has expired hides the bytes that came in time, and the
\* first of them is consumed.
TillDrops(n) ==
    /\ pc = "till" /\ inbox # <<>> /\ n \in 1 .. Len(inbox)
    /\ inbox' = SubSeq(inbox, n + 1, Len(inbox)) /\ ret' = "bytes"
    /\ got' = IF fired THEN got ELSE got \o SubSeq(inbox, 1, n)
    /\ hooked' = TRUE /\ pc' = "run" /\ fired' = FALSE
    /\ UNCHANGED <<sent, ended, calls, expiries>>

\* co_poll reports the descriptor, whether or not the timer has expired as well.
TillReads(n) ==
    /\ pc = "till" /\ (SysRead(n) \/ SysReadEnds)
    /\ hooked' = TRUE /\ pc' = "run" /\ fired' = FALSE
    /\ UNCHANGED <<sent, ended, calls, expiries>>

\* co_poll reports nothing: co_read_till returns 0 at once.  Bytes that came after the
\* events were collected stay at the descriptor.
TillExpires ==
    /\ pc = "till" /\ fired
    /\ ret' = "timeout" /\ pc' = "run" /\ fired' = FALSE /\ expiries' = expiries + 1
    /\ UNCHANGED <<hooked, sent, ended, inbox, got, calls>>

Next ==
    \/ PeerSends \/ PeerEnds \/ ReadTimesOut \/ TimerFires \/ TillExpires
    \/ \E n \in 1 .. MaxBytes : read(n) \/ ReadWakes(n) \/ co_read_till(n) \/ TillReads(n)

Spec == Init /\ [][Next]_vars

-----------------------------------------------------------------------------
\* The task reads what the peer sends, in order, nothing twice and nothing skipped, though
\* bytes and the timer race.
ReadInOrder == got \o inbox = [i \in 1 .. sent |-> i]

\* Outside a call the hook is off only when a readTill has timed out, and a read that finds
\* nothing then returns at once; with the hook on no call ever returns EAGAIN.
UnhookedByExpiry ==
    pc = "run" /\ (~hooked \/ ret = "EAGAIN") => expiries > 0

=============================================================================
