-------------------------------- MODULE Chan --------------------------------
(***************************************************************************)
(* sync/Chan.h: the channel of the tasks of one thread, a ring buffer      *)
(* behind a TaskMutex and two TaskConds.  A task gives up the processor    *)
(* only inside a wait, and a wait releases the mutex, so everything a call *)
(* does between two waits is one action.  signalAll makes every waiter     *)
(* runnable; a timed waiter is also made runnable by its timer, which      *)
(* takes it off the wait list (co_resume unlinks run_link).                *)
(***************************************************************************)
EXTENDS Integers, Sequences

CONSTANTS
    Tasks,      \* the tasks that use the channel
    Elems,      \* what they send
    capacity,
    Ops         \* Ops[t]: the operations task t calls

Calls == {"send", "sendTill", "recv", "recvTill"}

ChanAssumption ==
    /\ capacity \in Nat \ {0}
    /\ Elems # {}
    /\ Ops \in [Tasks -> SUBSET Calls]

VARIABLES messages, putIndex, takeIndex, count, closed,
          pc,         \* where a task stands; "c_wait": asleep in call c,
                      \* "c_back": back from the timed wait of call c
          arg, got    \* what a task sends, and what it received last

ring == <<messages, putIndex, takeIndex, count>>
vars == <<ring, closed, pc, arg, got>>

Slots == 0 .. (capacity - 1)
Returned == {"idle", "refused"}

ChanTypeOK ==
    /\ messages \in [Slots -> Elems]
    /\ putIndex \in Slots /\ takeIndex \in Slots /\ count \in 0 .. capacity
    /\ closed \in BOOLEAN
    /\ pc \in [Tasks -> Returned \cup Calls \cup
                 {"send_wait", "sendTill_wait", "recv_wait", "recvTill_wait",
                  "sendTill_back", "recvTill_back"}]
    /\ arg \in [Tasks -> Elems] /\ got \in [Tasks -> Elems]

Init ==
    /\ \E e \in Elems : /\ messages = [i \in Slots |-> e]
                        /\ arg = [t \in Tasks |-> e]
                        /\ got = [t \in Tasks |-> e]
    /\ putIndex = 0 /\ takeIndex = 0 /\ count = 0
    /\ closed = FALSE
    /\ pc = [t \in Tasks |-> "idle"]

isFull == count = capacity

isEmpty == count = 0

After(i) == IF i + 1 = capacity THEN 0 ELSE i + 1

\* Where a task goes on when its wait ends: send and recv look again in their loop.
Resumed(p) ==
    CASE p = "send_wait" -> "send"
      [] p = "recv_wait" -> "recv"
      [] p = "sendTill_wait" -> "sendTill_back"
      [] p = "recvTill_wait" -> "recvTill_back"

\* Mutant of signalAll: signal(), the first waiter found only.
signalOne(waits, t) ==
    IF \E u \in Tasks : pc[u] \in waits
    THEN LET w == CHOOSE u \in Tasks : pc[u] \in waits
         IN  pc' = [pc EXCEPT ![t] = "idle", ![w] = Resumed(pc[w])]
    ELSE pc' = [pc EXCEPT ![t] = "idle"]

\* signalAll() by task t, which then returns from its call.
signalAll(waits, t) ==
    pc' = [u \in Tasks |-> IF u = t THEN "idle"
                           ELSE IF pc[u] \in waits THEN Resumed(pc[u]) ELSE pc[u]]

enqueue(t) ==
    /\ messages' = [messages EXCEPT ![putIndex] = arg[t]]
    /\ putIndex' = After(putIndex)
    /\ count' = count + 1
    /\ signalAll({"recv_wait", "recvTill_wait"}, t)
    /\ UNCHANGED <<takeIndex, closed, arg, got>>

\* Mutant of dequeue: the index moves before the read.
dequeueAhead(t) ==
    /\ got' = [got EXCEPT ![t] = messages[After(takeIndex)]]
    /\ takeIndex' = After(takeIndex)
    /\ count' = count - 1
    /\ signalAll({"send_wait", "sendTill_wait"}, t)
    /\ UNCHANGED <<messages, putIndex, closed, arg>>

dequeue(t) ==
    /\ got' = [got EXCEPT ![t] = messages[takeIndex]]
    /\ takeIndex' = After(takeIndex)
    /\ count' = count - 1
    /\ signalAll({"send_wait", "sendTill_wait"}, t)
    /\ UNCHANGED <<messages, putIndex, closed, arg>>

Goto(t, l) ==
    /\ pc' = [pc EXCEPT ![t] = l]
    /\ UNCHANGED <<ring, closed, arg, got>>

-----------------------------------------------------------------------------
CallSend(t, op, e) ==
    /\ op \in Ops[t] \cap {"send", "sendTill"}
    /\ pc[t] \in Returned
    /\ pc' = [pc EXCEPT ![t] = op]
    /\ arg' = [arg EXCEPT ![t] = e]
    /\ UNCHANGED <<ring, closed, got>>

CallRecv(t, op) ==
    /\ op \in Ops[t] \cap {"recv", "recvTill"}
    /\ pc[t] \in Returned
    /\ Goto(t, op)

send(t) ==
    /\ pc[t] = "send"
    /\ IF isFull THEN Goto(t, "send_wait") ELSE enqueue(t)

sendTill(t) ==
    \/ pc[t] = "sendTill" /\ isFull /\ Goto(t, "sendTill_wait")
    \/ pc[t] = "sendTill_back" /\ isFull /\ Goto(t, "refused")
    \/ pc[t] \in {"sendTill", "sendTill_back"} /\ ~isFull /\ enqueue(t)

recv(t) ==
    /\ pc[t] = "recv"
    /\ IF isEmpty THEN Goto(t, "recv_wait") ELSE dequeue(t)

recvTill(t) ==
    \/ pc[t] = "recvTill" /\ isEmpty /\ Goto(t, "recvTill_wait")
    \/ pc[t] = "recvTill_back" /\ isEmpty /\ Goto(t, "refused")
    \/ pc[t] \in {"recvTill", "recvTill_back"} /\ ~isEmpty /\ dequeue(t)

\* The timer of a timed wait expires.
Timeout(t) ==
    /\ pc[t] \in {"sendTill_wait", "recvTill_wait"}
    /\ Goto(t, Resumed(pc[t]))

\* close() empties the ring.  It takes no lock and wakes nobody.
close ==
    /\ putIndex' = 0 /\ takeIndex' = 0 /\ count' = 0
    /\ closed' = TRUE
    /\ UNCHANGED <<messages, pc, arg, got>>

Step(t) == send(t) \/ sendTill(t) \/ recv(t) \/ recvTill(t)

Next ==
    \/ \E t \in Tasks : \/ Step(t) \/ Timeout(t)
                        \/ \E op \in Calls, e \in Elems : CallSend(t, op, e)
                        \/ \E op \in Calls : CallRecv(t, op)
    \/ close

Spec == Init /\ [][Next]_vars

\* The round-robin scheduler runs every runnable task, an armed timer expires, and a
\* receiver calls recv again and again.
FairSpec ==
    /\ Spec
    /\ \A t \in Tasks : /\ WF_vars(Step(t))
                        /\ WF_vars(Timeout(t))
                        /\ WF_vars(\E op \in Calls : CallRecv(t, op))

-----------------------------------------------------------------------------
contents == [i \in 1 .. count |-> messages[(takeIndex + i - 1) % capacity]]

Fifo == INSTANCE BoundedFifo WITH Threads <- Tasks, Capacity <- capacity

\* The channel is a bounded FIFO that close() may empty: whatever timers expire in whatever
\* order, every message is received once and in the order it was sent, or is discarded by
\* close() together with all the others that are in the channel.
RefinesFifo ==
    /\ Fifo!Init
    /\ [][Fifo!Next \/ (contents' = <<>> /\ UNCHANGED <<arg, got>>)]_<<contents, arg, got>>

\* Nobody sleeps in a channel that could serve it: a task waits in recv only while the
\* channel is empty, and in send only while it is full or after close(), which empties
\* the channel under the sleeping senders without waking them.
SleepersJustified ==
    \A t \in Tasks :
        /\ pc[t] \in {"recv_wait", "recvTill_wait"} => isEmpty
        /\ pc[t] \in {"send_wait", "sendTill_wait"} => isFull \/ closed

\* The ring stays consistent, across close() too.
RingConsistent == putIndex = (takeIndex + count) % capacity

\* The oldest message is taken in the end, or discarded by close(): no wake-up is lost
\* between send and recv.
HeadTaken == \A i \in Slots : (takeIndex = i /\ count > 0) ~> (takeIndex # i \/ count = 0)

=============================================================================
