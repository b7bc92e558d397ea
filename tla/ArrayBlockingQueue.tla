------------------------- MODULE ArrayBlockingQueue -------------------------
(***************************************************************************)
(* thread/ArrayBlockingQueue.h: a ring buffer behind one pthread mutex and *)
(* two condition variables.  put and take block; offer and poll look at    *)
(* the counter without the lock, try the lock, and look again.             *)
(*                                                                         *)
(* Each operation is cut where another thread can see a difference: the    *)
(* unlocked look, the (try-)lock, the body under the lock, the unlock.     *)
(* The second look of offer and poll returns false without an unlock; the  *)
(* model keeps that: the calling thread goes idle and stays the holder.    *)
(***************************************************************************)
EXTENDS Integers, Sequences, FiniteSets

CONSTANTS
    Threads,    \* the threads that use the queue
    Elems,      \* what they put into it
    Capacity,   \* capcity_
    NoThread,   \* nobody
    Uses        \* the ways the threads may use the queue

ASSUME CapacityAssumption == Capacity \in Nat \ {0}
ASSUME ThreadAssumption == NoThread \notin Threads
ASSUME ElemAssumption == Elems # {}
ASSUME UseAssumption == Uses \subseteq [Threads -> SUBSET {"put", "take", "offer", "poll"}]

VARIABLES
    use,        \* use[t]: which of put, take, offer and poll thread t calls
    items_, putIndex_, takeIndex_, count_,
    holder,     \* the thread that has lock_
    qpc,        \* where a thread stands in the queue's code
    arg,        \* the element it inserts
    got         \* the element it last received

qvars == <<use, items_, putIndex_, takeIndex_, count_, holder, qpc, arg, got>>
ring == <<items_, putIndex_, takeIndex_, count_>>

Slots == 0 .. (Capacity - 1)

\* "idle" is also a return of true, "refused" a return of false.
Returned == {"idle", "refused"}

QPc == Returned \cup
       {"put_lock", "put", "put_wait", "take_lock", "take", "take_wait",
        "offer_look", "offer_try", "offer", "poll_look", "poll_try", "poll", "unlock"}

TypeOK ==
    /\ use \in [Threads -> SUBSET {"put", "take", "offer", "poll"}]
    /\ items_ \in [Slots -> Elems]
    /\ putIndex_ \in Slots
    /\ takeIndex_ \in Slots
    /\ count_ \in 0 .. Capacity
    /\ holder \in Threads \cup {NoThread}
    /\ qpc \in [Threads -> QPc]
    /\ arg \in [Threads -> Elems]
    /\ got \in [Threads -> Elems]

isFull == count_ = Capacity
isEmpty == count_ = 0

-----------------------------------------------------------------------------
QueueInit ==
    /\ use \in Uses
    /\ \E e \in Elems :
         /\ items_ = [i \in Slots |-> e]
         /\ arg = [t \in Threads |-> e]
         /\ got = [t \in Threads |-> e]
    /\ putIndex_ = 0
    /\ takeIndex_ = 0
    /\ count_ = 0
    /\ holder = NoThread
    /\ qpc = [t \in Threads |-> "idle"]

\* Thread t goes on at l; what the threads call does not change.
Goto(t, l) == qpc' = [qpc EXCEPT ![t] = l] /\ UNCHANGED use

\* Mutant of After: the index does not wrap.
AfterNoWrap(i) == i + 1

\* The next slot of the ring.
After(i) == IF i + 1 = Capacity THEN 0 ELSE i + 1

\* notifyAll: every thread in this wait set goes on to take the lock again.
NotifyAll(wait, lock, t, l) ==
    /\ qpc' = [u \in Threads |-> IF u = t THEN l
                                 ELSE IF qpc[u] = wait THEN lock ELSE qpc[u]]
    /\ UNCHANGED use

\* Mutant of enqueue: the index moves before the store.
EnqueueAhead(t, l) ==
    /\ items_' = [items_ EXCEPT ![After(putIndex_)] = arg[t]]
    /\ putIndex_' = After(putIndex_)
    /\ count_' = count_ + 1
    /\ NotifyAll("take_wait", "take_lock", t, l)
    /\ UNCHANGED <<takeIndex_, holder, arg, got>>

\* Mutant of enqueue: nobody is notified.
EnqueueQuietly(t, l) ==
    /\ items_' = [items_ EXCEPT ![putIndex_] = arg[t]]
    /\ putIndex_' = After(putIndex_)
    /\ count_' = count_ + 1
    /\ Goto(t, l)
    /\ UNCHANGED <<takeIndex_, holder, arg, got>>

\* enqueue(e), after which thread t stands at l.
enqueue(t, l) ==
    /\ items_' = [items_ EXCEPT ![putIndex_] = arg[t]]
    /\ putIndex_' = After(putIndex_)
    /\ count_' = count_ + 1
    /\ NotifyAll("take_wait", "take_lock", t, l)
    /\ UNCHANGED <<takeIndex_, holder, arg, got>>

\* Mutants of dequeue: the commented-out notification of one thread, and none at all.
DequeueNotifyOne(t, l) ==
    /\ got' = [got EXCEPT ![t] = items_[takeIndex_]]
    /\ takeIndex_' = After(takeIndex_)
    /\ count_' = count_ - 1
    /\ IF count_' < Capacity - 1 \/ \A u \in Threads : qpc[u] # "put_wait"
       THEN NotifyAll("put_wait", "put_lock", t, l)
       ELSE \E u \in Threads : /\ qpc[u] = "put_wait"
                               /\ qpc' = [qpc EXCEPT ![t] = l, ![u] = "put_lock"]
                               /\ UNCHANGED use
    /\ UNCHANGED <<items_, putIndex_, holder, arg>>

DequeueQuietly(t, l) ==
    /\ got' = [got EXCEPT ![t] = items_[takeIndex_]]
    /\ takeIndex_' = After(takeIndex_)
    /\ count_' = count_ - 1
    /\ Goto(t, l)
    /\ UNCHANGED <<items_, putIndex_, holder, arg>>

\* dequeue().
dequeue(t, l) ==
    /\ got' = [got EXCEPT ![t] = items_[takeIndex_]]
    /\ takeIndex_' = After(takeIndex_)
    /\ count_' = count_ - 1
    /\ NotifyAll("put_wait", "put_lock", t, l)
    /\ UNCHANGED <<items_, putIndex_, holder, arg>>

-----------------------------------------------------------------------------
\* A thread calls one of the operations.
CallPut(t, e) ==
    /\ qpc[t] \in Returned
    /\ arg' = [arg EXCEPT ![t] = e]
    /\ Goto(t, "put_lock")
    /\ UNCHANGED <<ring, holder, got>>

CallOffer(t, e) ==
    /\ qpc[t] \in Returned
    /\ arg' = [arg EXCEPT ![t] = e]
    /\ Goto(t, "offer_look")
    /\ UNCHANGED <<ring, holder, got>>

CallTake(t) ==
    /\ qpc[t] \in Returned
    /\ Goto(t, "take_lock")
    /\ UNCHANGED <<ring, holder, arg, got>>

CallPoll(t) ==
    /\ qpc[t] \in Returned
    /\ Goto(t, "poll_look")
    /\ UNCHANGED <<ring, holder, arg, got>>

\* LockGuard, and the way out of pthread_cond_wait.
Lock(t) ==
    /\ qpc[t] \in {"put_lock", "take_lock"}
    /\ holder = NoThread
    /\ holder' = t
    /\ Goto(t, IF qpc[t] = "put_lock" THEN "put" ELSE "take")
    /\ UNCHANGED <<ring, arg, got>>

\* pthread_cond_wait lets the lock go.
Wait(t, l) ==
    /\ holder' = NoThread
    /\ Goto(t, l)
    /\ UNCHANGED <<ring, arg, got>>

\* The body of put.
Put(t) ==
    /\ qpc[t] = "put"
    /\ \/ isFull /\ Wait(t, "put_wait")
       \/ ~isFull /\ enqueue(t, "unlock")

\* The body of take.
Take(t) ==
    /\ qpc[t] = "take"
    /\ \/ isEmpty /\ Wait(t, "take_wait")
       \/ ~isEmpty /\ dequeue(t, "unlock")

\* pthread_cond_wait may return without a notification.
SpuriousWakeup(t) ==
    /\ qpc[t] \in {"put_wait", "take_wait"}
    /\ Goto(t, IF qpc[t] = "put_wait" THEN "put_lock" ELSE "take_lock")
    /\ UNCHANGED <<ring, holder, arg, got>>

\* return false from offer or poll.
Refuse(t) == Goto(t, "refused")

\* The first, unlocked look of offer and poll.
Look(t) ==
    /\ \/ qpc[t] = "offer_look" /\ isFull /\ Refuse(t)
       \/ qpc[t] = "offer_look" /\ ~isFull /\ Goto(t, "offer_try")
       \/ qpc[t] = "poll_look" /\ isEmpty /\ Refuse(t)
       \/ qpc[t] = "poll_look" /\ ~isEmpty /\ Goto(t, "poll_try")
    /\ UNCHANGED <<ring, holder, arg, got>>

\* Mutant of TryLock: the result of try_lock is not looked at.
TryLockAlways(t) ==
    /\ qpc[t] \in {"offer_try", "poll_try"}
    /\ holder' = IF holder = NoThread THEN t ELSE holder
    /\ Goto(t, IF qpc[t] = "offer_try" THEN "offer" ELSE "poll")
    /\ UNCHANGED <<ring, arg, got>>

\* try_lock of offer and poll.
TryLock(t) ==
    /\ qpc[t] \in {"offer_try", "poll_try"}
    /\ \/ /\ holder # NoThread
          /\ Refuse(t)
          /\ UNCHANGED holder
       \/ /\ holder = NoThread
          /\ holder' = t
          /\ Goto(t, IF qpc[t] = "offer_try" THEN "offer" ELSE "poll")
    /\ UNCHANGED <<ring, arg, got>>

\* The rest of offer: a full queue ends it with the lock held.
Offer(t) ==
    /\ qpc[t] = "offer"
    /\ \/ /\ isFull
          /\ Refuse(t)
          /\ UNCHANGED <<ring, holder, arg, got>>
       \/ ~isFull /\ enqueue(t, "unlock")

\* Mutant of Poll: no unlock after a successful dequeue.
PollKeepsLock(t) ==
    /\ qpc[t] = "poll"
    /\ \/ /\ isEmpty
          /\ Refuse(t)
          /\ UNCHANGED <<ring, holder, arg, got>>
       \/ ~isEmpty /\ dequeue(t, "idle")

\* The rest of poll: an empty queue ends it with the lock held.
Poll(t) ==
    /\ qpc[t] = "poll"
    /\ \/ /\ isEmpty
          /\ Refuse(t)
          /\ UNCHANGED <<ring, holder, arg, got>>
       \/ ~isEmpty /\ dequeue(t, "unlock")

Unlock(t) ==
    /\ qpc[t] = "unlock"
    /\ holder' = NoThread
    /\ Goto(t, "idle")
    /\ UNCHANGED <<ring, arg, got>>

-----------------------------------------------------------------------------
\* What a thread inside the queue's code does next.
QueueStep(t) ==
    Lock(t) \/ Put(t) \/ Take(t) \/ Look(t) \/ TryLock(t) \/ Offer(t) \/ Poll(t) \/ Unlock(t)

Call(t) ==
    \/ "put" \in use[t] /\ \E e \in Elems : CallPut(t, e)
    \/ "offer" \in use[t] /\ \E e \in Elems : CallOffer(t, e)
    \/ "take" \in use[t] /\ CallTake(t)
    \/ "poll" \in use[t] /\ CallPoll(t)

QueueNext == \E t \in Threads : Call(t) \/ QueueStep(t) \/ SpuriousWakeup(t)

QueueSpec == QueueInit /\ [][QueueNext]_qvars

-----------------------------------------------------------------------------
\* The elements in the ring, oldest first.
Slot(i) == IF takeIndex_ + i < Capacity THEN takeIndex_ + i ELSE takeIndex_ + i - Capacity

Contents == [i \in 1 .. count_ |-> items_[Slot(i - 1)]]

Fifo == INSTANCE BoundedFifo WITH contents <- Contents

\* The ring buffer, its two indices and its counter behave as one bounded FIFO whose
\* elements go to exactly one thread each, whatever mix of put, take, offer and poll
\* runs, and whatever offer and poll do to the lock.
IsFifo == Fifo!Spec

\* Nobody sleeps on a condition that holds: enqueue and dequeue notify all.
NoStaleWait ==
    \A t \in Threads :
        /\ qpc[t] = "put_wait" => isFull
        /\ qpc[t] = "take_wait" => isEmpty

Inside(t) == qpc[t] \in {"put", "take", "offer", "poll", "unlock"}

\* The ring is touched under the lock only, also after offer or poll has gone and
\* left the lock to itself: the bodies of the operations are atomic to each other.
LockHeld == \A t \in Threads : Inside(t) => holder = t

\* The lock is held exactly while some thread is between its lock and its unlock.
LockedInside == \A t \in Threads : Inside(t) <=> holder = t

\* One thread at most inserts, and one at most removes.
Inserts(t) == use[t] \cap {"put", "offer"} # {}
Removes(t) == use[t] \cap {"take", "poll"} # {}

OneEach ==
    \A t, u \in Threads : /\ Inserts(t) /\ Inserts(u) => t = u
                          /\ Removes(t) /\ Removes(u) => t = u

\* With one producer and one consumer the second look of offer and poll never fails, so
\* that neither returns with the lock held.
LockGivenBack == OneEach => LockedInside

\* The queue never gets stuck full or empty while threads go on calling put and
\* take: whoever can move it is told so.
QueueMoves == (isFull ~> ~isFull) /\ (isEmpty ~> ~isEmpty)

=============================================================================
