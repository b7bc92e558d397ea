------------------------------ MODULE CaskChan ------------------------------
(***************************************************************************)
(* The C channel of libcask, chan.c, with the waits and signals of its two *)
(* conditions (co_cond.c).  A call holds the channel's mutex except while  *)
(* it waits, so every stretch between two waits is one step.  A channel    *)
(* without a buffer (nelems = 0) is a rendezvous: the sender waits until   *)
(* its message is taken, and others wait for their turn.                   *)
(*                                                                         *)
(* A message is the sender that sends it; each task makes one call.        *)
(***************************************************************************)
EXTENDS CaskList, FiniteSets

CONSTANTS Senders, Receivers, nelems

ChanAssumption == nelems \in Nat /\ Senders \cap Receivers = {}

VARIABLES
    msgs,       \* chan->msgs
    not_full, not_empty,    \* the wait lists of the conditions
    pc,         \* "new", "asleep", "woken" or "done"
    sent,       \* the senders that have pushed their message
    pushed,     \* the messages pushed, in order
    taken       \* the messages received, in order

vars == <<msgs, not_full, not_empty, pc, sent, pushed, taken>>

Tasks == Senders \cup Receivers

ChanTypeOK ==
    /\ msgs \in Seq(Senders) /\ Len(msgs) <= IF nelems = 0 THEN 1 ELSE nelems
    /\ not_full \in Seq(Senders) /\ not_empty \in Seq(Receivers)
    /\ pc \in [Tasks -> {"new", "asleep", "woken", "done"}] /\ sent \subseteq Senders

Init ==
    /\ msgs = list_init /\ not_full = list_init /\ not_empty = list_init
    /\ pc = [t \in Tasks |-> "new"] /\ sent = {} /\ pushed = <<>> /\ taken = <<>>

Runs(t) == pc[t] \in {"new", "woken"}

\* co_cond_signal, n times: the first n waiters of a list are woken.
Signalled(list, n) == {list[i] : i \in {j \in 1 .. n : j <= Len(list)}}
Rest(list, n) == IF n >= Len(list) THEN <<>> ELSE SubSeq(list, n + 1, Len(list))

\* The task goes to p, and the tasks that were signalled wake up.
Steps(t, p, woken) ==
    pc' = [x \in Tasks |-> IF x = t THEN p ELSE IF x \in woken THEN "woken" ELSE pc[x]]

chan_push_msg(t) == msgs' = Append(msgs, t) /\ pushed' = Append(pushed, t)

Push(t, p) ==
    /\ chan_push_msg(t) /\ Steps(t, p, Signalled(not_empty, 1))
    /\ not_empty' = Rest(not_empty, 1)
    /\ sent' = sent \cup {t} /\ UNCHANGED taken

\* chan_nobuffer_send from one wait to the next.  Woken after it has sent, it returns;
\* otherwise it sends if the channel is empty, and waits in any case.
nobuffer_send(t) ==
    /\ nelems = 0 /\ Runs(t)
    /\ \/ /\ t \in sent /\ Steps(t, "done", {})
          /\ UNCHANGED <<msgs, not_full, not_empty, sent, pushed, taken>>
       \/ /\ t \notin sent /\ msgs = <<>>
          /\ Push(t, "asleep") /\ not_full' = list_add_before(not_full, t)
       \/ /\ t \notin sent /\ msgs # <<>>
          /\ Steps(t, "asleep", {}) /\ not_full' = list_add_before(not_full, t)
          /\ UNCHANGED <<msgs, not_empty, sent, pushed, taken>>

chan_msgs_full == Len(msgs) = nelems

buffer_send(t) ==
    /\ nelems > 0 /\ Runs(t)
    /\ \/ chan_msgs_full /\ Steps(t, "asleep", {}) /\ not_full' = list_add_before(not_full, t)
          /\ UNCHANGED <<msgs, not_empty, sent, pushed, taken>>
       \/ ~chan_msgs_full /\ Push(t, "done") /\ UNCHANGED not_full

Pop(t, n) ==
    /\ msgs' = Tail(msgs) /\ taken' = Append(taken, Head(msgs))
    /\ Steps(t, "done", Signalled(not_full, n)) /\ not_full' = Rest(not_full, n)
    /\ UNCHANGED <<not_empty, sent, pushed>>

WaitForMessage(t) ==
    /\ msgs = <<>> /\ Steps(t, "asleep", {})
    /\ not_empty' = list_add_before(not_empty, t)
    /\ UNCHANGED <<msgs, not_full, sent, pushed, taken>>

\* Mutant of nobuffer_recv: one signal.
nobuffer_recv_one(t) ==
    nelems = 0 /\ Runs(t) /\ (WaitForMessage(t) \/ (msgs # <<>> /\ Pop(t, 1)))

\* chan_nobuffer_recv wakes two senders: the one whose message it took, and a successor.
nobuffer_recv(t) ==
    nelems = 0 /\ Runs(t) /\ (WaitForMessage(t) \/ (msgs # <<>> /\ Pop(t, 2)))

buffer_recv(t) ==
    nelems > 0 /\ Runs(t) /\ (WaitForMessage(t) \/ (msgs # <<>> /\ Pop(t, 1)))

Send(t) == nobuffer_send(t) \/ buffer_send(t)
Recv(t) == nobuffer_recv(t) \/ buffer_recv(t)

Next == (\E t \in Senders : Send(t)) \/ (\E t \in Receivers : Recv(t))

\* Every task that can run has its turn.
Spec ==
    /\ Init /\ [][Next]_vars
    /\ \A t \in Senders : WF_vars(Send(t))
    /\ \A t \in Receivers : WF_vars(Recv(t))

-----------------------------------------------------------------------------
\* Messages come out in the order they went in, none twice and none lost.
ChanInOrder == pushed = taken \o msgs

\* Without a buffer, chan_send returns only when its message has been received.
Rendezvous ==
    nelems = 0 => \A t \in Senders : pc[t] = "done" => t \in ToSet(taken)

\* With as many receivers as senders every call returns: no signal goes to waste, though a
\* task that comes in between may take the message or the room a wake-up was meant for.
\* Without a buffer this takes at most three senders: with four, the two signals of a
\* receiver may both miss the sender whose message it took.
CallsReturn ==
    Cardinality(Senders) = Cardinality(Receivers) /\ (nelems = 0 => Cardinality(Senders) <= 3)
        => <>(\A t \in Tasks : pc[t] = "done")

=============================================================================
