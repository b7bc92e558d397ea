---------------------- MODULE ArrayBlockingQueueProofs ----------------------
(***************************************************************************)
(* The ring buffer of ArrayBlockingQueue implements a bounded FIFO, for    *)
(* every capacity, every number of threads and every mix of calls.         *)
(***************************************************************************)
EXTENDS ArrayBlockingQueue, ListLemmas

USE CapacityAssumption, ThreadAssumption, ElemAssumption

-----------------------------------------------------------------------------
\* The slot i places after slot k, and the n elements from slot k on: the lemmas on rings,
\* for this ring.
Place(k, i) == RingPlace(Capacity, k, i)

Run(f, k, n) == RingRun(Capacity, f, k, n)

\* The elements of the queue are a run of the ring.
LEMMA ContentsRun == Contents = Run(items_, takeIndex_, count_)
BY DEF Contents, Run, RingRun, Slot, RingPlace

\* inc() goes to the next place.
LEMMA PlaceAfter ==
    ASSUME NEW k \in Slots, NEW i \in 0 .. (Capacity - 1)
    PROVE  /\ After(k) \in Slots
           /\ After(Place(k, i)) = Place(k, i + 1)
           /\ Place(After(k), i) = Place(k, i + 1)
BY DEF Place, RingPlace, Slots, After

\* A run is a sequence of its elements.
LEMMA RunType ==
    ASSUME NEW f \in [Slots -> Elems], NEW k \in Slots, NEW n \in 0 .. Capacity
    PROVE  /\ Run(f, k, n) \in Seq(Elems)
           /\ Len(Run(f, k, n)) = n
<1>1. IsRun(Capacity, Elems, f, k, n, RingRun(Capacity, f, k, n))
  BY RingRunType DEF Slots, RingSlots
<1> QED BY <1>1 DEF IsRun, Run

\* Moving the first slot on drops the head.
LEMMA RunTail ==
    ASSUME NEW f \in [Slots -> Elems], NEW k \in Slots, NEW n \in 1 .. Capacity
    PROVE  /\ Run(f, k, n) # <<>>
           /\ Head(Run(f, k, n)) = f[k]
           /\ Run(f, After(k), n - 1) = Tail(Run(f, k, n))
<1>1. f \in [RingSlots(Capacity) -> Elems] /\ k \in RingSlots(Capacity)
  BY DEF Slots, RingSlots
<1>2. RingAfter(Capacity, k) = After(k)
  BY DEF After, RingAfter
<1>3. /\ RingRun(Capacity, f, k, n) # <<>>
      /\ Head(RingRun(Capacity, f, k, n)) = f[k]
      /\ RingRun(Capacity, f, RingAfter(Capacity, k), n - 1) = Tail(RingRun(Capacity, f, k, n))
  BY <1>1, RingRunTail
<1> QED BY <1>2, <1>3 DEF Run

-----------------------------------------------------------------------------
\* The next free slot is count_ places after the oldest element.
RingOK == putIndex_ = Place(takeIndex_, count_)

QInv == TypeOK /\ RingOK /\ LockHeld /\ NoStaleWait

\* An empty ring.
LEMMA QInit == QueueInit => QInv
<1> SUFFICES ASSUME QueueInit PROVE QInv
  OBVIOUS
<1>1. 0 \in Slots
  BY DEF Slots
<1>2. TypeOK
  BY <1>1, UseAssumption DEF QueueInit, TypeOK, QPc, Returned
<1>3. RingOK
  BY DEF QueueInit, RingOK, Place, RingPlace
<1>4. LockHeld /\ NoStaleWait
  BY DEF QueueInit, LockHeld, NoStaleWait, Inside
<1> QED BY <1>2, <1>3, <1>4 DEF QInv

\* A step that stores an element.
LEMMA EnqueueStep ==
    ASSUME QInv, NEW t \in Threads, holder = t, ~isFull, enqueue(t, "unlock")
    PROVE  /\ QInv'
           /\ Contents' = Append(Contents, arg[t])
           /\ UNCHANGED <<arg, got>>
<1> USE DEF QInv
<1>1. /\ items_' = [items_ EXCEPT ![putIndex_] = arg[t]]
      /\ putIndex_' = After(putIndex_) /\ count_' = count_ + 1
      /\ UNCHANGED <<use, takeIndex_, holder, arg, got>>
      /\ qpc' = [u \in Threads |-> IF u = t THEN "unlock"
                              ELSE IF qpc[u] = "take_wait" THEN "take_lock" ELSE qpc[u]]
  BY DEF enqueue, NotifyAll
<1>2. count_ \in 0 .. (Capacity - 1) /\ takeIndex_ \in Slots
  BY DEF isFull, TypeOK
<1>3. putIndex_' = Place(takeIndex_, count_ + 1) /\ putIndex_' \in Slots
  <2>1. putIndex_ \in Slots
    BY DEF TypeOK
  <2>2. After(putIndex_) \in Slots
    BY <2>1 DEF After, Slots
  <2>3. After(Place(takeIndex_, count_)) = Place(takeIndex_, count_ + 1)
    BY <1>2, PlaceAfter
  <2> QED BY <1>1, <2>2, <2>3 DEF RingOK
<1>4. TypeOK'
  <2>1. items_' \in [Slots -> Elems]
    BY <1>1 DEF TypeOK
  <2>2. count_' \in 0 .. Capacity
    BY <1>1, <1>2
  <2>3. qpc' \in [Threads -> QPc]
    BY <1>1 DEF TypeOK, QPc
  <2> QED BY <1>1, <1>3, <2>1, <2>2, <2>3 DEF TypeOK
<1>5. RingOK'
  BY <1>1, <1>3 DEF RingOK
<1>6. LockHeld'
  BY <1>1 DEF LockHeld, Inside, TypeOK
<1>7. NoStaleWait'
  BY <1>1, <1>2 DEF NoStaleWait, TypeOK, isFull, isEmpty
<1>8. Contents' = Append(Contents, arg[t])
  <2>1. items_ \in [Slots -> Elems] /\ arg[t] \in Elems
    BY DEF TypeOK
  <2>2. items_' = [items_ EXCEPT ![Place(takeIndex_, count_)] = arg[t]]
    BY <1>1 DEF RingOK
  <2>3. Run(items_', takeIndex_, count_ + 1) = Append(Run(items_, takeIndex_, count_), arg[t])
    <3>1. Stored(Capacity, Elems, items_, takeIndex_, count_, arg[t], items_')
      BY <1>2, <2>1, <2>2 DEF Stored, Slots, RingSlots, Place
    <3>2. RingRun(Capacity, items_', takeIndex_, count_ + 1)
            = Append(RingRun(Capacity, items_, takeIndex_, count_), arg[t])
      BY <3>1, RingRunAppend
    <3> QED BY <3>2 DEF Run
  <2>4. Contents' = Run(items_', takeIndex_', count_')
    BY DEF Contents, Run, RingRun, Slot, RingPlace
  <2> QED BY <1>1, <2>3, <2>4, ContentsRun
<1> QED BY <1>1, <1>4, <1>5, <1>6, <1>7, <1>8

\* A step that hands out the oldest element.
LEMMA DequeueStep ==
    ASSUME QInv, NEW t \in Threads, holder = t, ~isEmpty, dequeue(t, "unlock")
    PROVE  /\ QInv'
           /\ Contents # <<>>
           /\ Contents' = Tail(Contents)
           /\ got' = [got EXCEPT ![t] = Head(Contents)]
           /\ UNCHANGED arg
<1> USE DEF QInv
<1>1. /\ got' = [got EXCEPT ![t] = items_[takeIndex_]]
      /\ takeIndex_' = After(takeIndex_) /\ count_' = count_ - 1
      /\ UNCHANGED <<use, items_, putIndex_, holder, arg>>
      /\ qpc' = [u \in Threads |-> IF u = t THEN "unlock"
                              ELSE IF qpc[u] = "put_wait" THEN "put_lock" ELSE qpc[u]]
  BY DEF dequeue, NotifyAll
<1>2. count_ \in 1 .. Capacity /\ takeIndex_ \in Slots
  BY DEF isEmpty, TypeOK
<1>3. putIndex_ = Place(After(takeIndex_), count_ - 1) /\ After(takeIndex_) \in Slots
  <2>1. count_ - 1 \in 0 .. (Capacity - 1) /\ (count_ - 1) + 1 = count_
    BY <1>2
  <2>2. Place(After(takeIndex_), count_ - 1) = Place(takeIndex_, (count_ - 1) + 1)
        /\ After(takeIndex_) \in Slots
    BY <1>2, <2>1, PlaceAfter
  <2> QED BY <2>1, <2>2 DEF RingOK
<1>4. TypeOK'
  <2>1. got' \in [Threads -> Elems]
    BY <1>1, <1>2 DEF TypeOK
  <2>2. count_' \in 0 .. Capacity
    BY <1>1, <1>2
  <2>3. qpc' \in [Threads -> QPc]
    BY <1>1 DEF TypeOK, QPc
  <2> QED BY <1>1, <1>3, <2>1, <2>2, <2>3 DEF TypeOK
<1>5. RingOK'
  BY <1>1, <1>3 DEF RingOK
<1>6. LockHeld'
  BY <1>1 DEF LockHeld, Inside, TypeOK
<1>7. NoStaleWait'
  BY <1>1, <1>2 DEF NoStaleWait, TypeOK, isFull, isEmpty
<1>8. /\ Contents # <<>>
      /\ Contents' = Tail(Contents)
      /\ Head(Contents) = items_[takeIndex_]
  <2>1. items_ \in [Slots -> Elems]
    BY DEF TypeOK
  <2>2. /\ Run(items_, takeIndex_, count_) # <<>>
        /\ Head(Run(items_, takeIndex_, count_)) = items_[takeIndex_]
        /\ Run(items_, After(takeIndex_), count_ - 1) = Tail(Run(items_, takeIndex_, count_))
    BY <1>2, <2>1, RunTail
  <2>3. Contents' = Run(items_', takeIndex_', count_')
    BY DEF Contents, Run, RingRun, Slot, RingPlace
  <2> QED BY <1>1, <2>2, <2>3, ContentsRun
<1> QED BY <1>1, <1>4, <1>5, <1>6, <1>7, <1>8

\* Every other step leaves the ring alone; some change arg, the lock or a position.
LEMMA QuietStep ==
    ASSUME QInv, NEW t \in Threads,
           \/ \E e \in Elems : CallPut(t, e) \/ CallOffer(t, e)
           \/ CallTake(t) \/ CallPoll(t) \/ Lock(t) \/ SpuriousWakeup(t) \/ Look(t)
           \/ TryLock(t) \/ Unlock(t)
           \/ qpc[t] = "put" /\ isFull /\ Wait(t, "put_wait")
           \/ qpc[t] = "take" /\ isEmpty /\ Wait(t, "take_wait")
           \/ /\ qpc[t] \in {"offer", "poll"} /\ Refuse(t)
              /\ UNCHANGED <<ring, holder, arg, got>>
    PROVE  QInv' /\ Contents' = Contents /\ UNCHANGED got
<1> USE DEF QInv
<1>1. UNCHANGED <<use, items_, putIndex_, takeIndex_, count_, got>>
  BY DEF Goto, CallPut, CallOffer, CallTake, CallPoll, Lock, SpuriousWakeup, Look, TryLock,
         Unlock, Wait, Refuse, ring
<1>2. Contents' = Contents
  BY <1>1 DEF Contents, Slot
<1>3. \/ /\ UNCHANGED <<qpc, holder, arg>>
      \/ \E l \in QPc :
           /\ qpc' = [qpc EXCEPT ![t] = l]
           /\ \/ UNCHANGED <<holder, arg>> /\ l \notin {"put", "take", "offer", "poll",
                                                       "unlock", "put_wait", "take_wait"}
              \/ /\ l \in Returned \cup {"put_lock", "offer_look"}
                 /\ UNCHANGED holder /\ arg' \in [Threads -> Elems]
              \/ /\ l \in {"put", "take", "offer", "poll"} /\ holder = NoThread
                 /\ holder' = t /\ UNCHANGED arg
              \/ /\ l \in {"idle", "put_wait", "take_wait"} /\ holder = t /\ holder' = NoThread
                 /\ (l = "put_wait" => isFull) /\ (l = "take_wait" => isEmpty)
                 /\ UNCHANGED arg
  <2>1. CASE \E e \in Elems : CallPut(t, e) \/ CallOffer(t, e)
    BY <2>1 DEF CallPut, CallOffer, Goto, QPc, Returned, TypeOK
  <2>2. CASE CallTake(t) \/ CallPoll(t) \/ SpuriousWakeup(t) \/ Look(t)
    BY <2>2 DEF CallTake, CallPoll, SpuriousWakeup, Look, Refuse, Goto, QPc, Returned
  <2>3. CASE Lock(t) \/ TryLock(t)
    BY <2>3 DEF Lock, TryLock, Refuse, Goto, QPc, Returned
  <2>4. CASE Unlock(t)
    <3>1. holder = t
      BY <2>4 DEF Unlock, LockHeld, Inside
    <3> QED BY <2>4, <3>1 DEF Unlock, Goto, QPc, Returned
  <2>5. CASE \/ qpc[t] = "put" /\ isFull /\ Wait(t, "put_wait")
             \/ qpc[t] = "take" /\ isEmpty /\ Wait(t, "take_wait")
    <3>1. holder = t
      BY <2>5 DEF LockHeld, Inside
    <3> QED BY <2>5, <3>1 DEF Wait, Goto, QPc, Returned
  <2>6. CASE /\ qpc[t] \in {"offer", "poll"} /\ Refuse(t)
             /\ UNCHANGED <<ring, holder, arg, got>>
    BY <2>6 DEF Refuse, Goto, QPc, Returned
  <2> QED BY <2>1, <2>2, <2>3, <2>4, <2>5, <2>6
<1>4. CASE UNCHANGED <<qpc, holder, arg>>
  BY <1>1, <1>2, <1>4 DEF TypeOK, RingOK, LockHeld, NoStaleWait, Inside, isFull, isEmpty
<1>5. ASSUME NEW l \in QPc, qpc' = [qpc EXCEPT ![t] = l],
             \/ UNCHANGED <<holder, arg>> /\ l \notin {"put", "take", "offer", "poll",
                                                      "unlock", "put_wait", "take_wait"}
             \/ /\ l \in Returned \cup {"put_lock", "offer_look"}
                /\ UNCHANGED holder /\ arg' \in [Threads -> Elems]
             \/ /\ l \in {"put", "take", "offer", "poll"} /\ holder = NoThread
                /\ holder' = t /\ UNCHANGED arg
             \/ /\ l \in {"idle", "put_wait", "take_wait"} /\ holder = t
                /\ holder' = NoThread
                /\ (l = "put_wait" => isFull) /\ (l = "take_wait" => isEmpty)
                /\ UNCHANGED arg
      PROVE  QInv'
  <2>1. TypeOK'
    BY <1>1, <1>5 DEF TypeOK
  <2>2. RingOK'
    BY <1>1 DEF RingOK
  <2>3. LockHeld'
    BY <1>5 DEF LockHeld, Inside, TypeOK, Returned
  <2>4. NoStaleWait'
    BY <1>1, <1>5 DEF NoStaleWait, TypeOK, isFull, isEmpty, Returned
  <2> QED BY <2>1, <2>2, <2>3, <2>4
<1> QED BY <1>1, <1>2, <1>3, <1>4, <1>5

\* The three kinds of steps are all there is.
LEMMA StepKinds ==
    ASSUME QInv, NEW t \in Threads, Call(t) \/ QueueStep(t) \/ SpuriousWakeup(t)
    PROVE  \/ holder = t /\ ~isFull /\ enqueue(t, "unlock")
           \/ holder = t /\ ~isEmpty /\ dequeue(t, "unlock")
           \/ \E e \in Elems : CallPut(t, e) \/ CallOffer(t, e)
           \/ CallTake(t) \/ CallPoll(t) \/ Lock(t) \/ SpuriousWakeup(t) \/ Look(t)
           \/ TryLock(t) \/ Unlock(t)
           \/ qpc[t] = "put" /\ isFull /\ Wait(t, "put_wait")
           \/ qpc[t] = "take" /\ isEmpty /\ Wait(t, "take_wait")
           \/ /\ qpc[t] \in {"offer", "poll"} /\ Refuse(t)
              /\ UNCHANGED <<ring, holder, arg, got>>
<1>1. qpc[t] \in {"put", "take", "offer", "poll"} => holder = t
  BY DEF QInv, LockHeld, Inside
<1>2. CASE Put(t) \/ Take(t) \/ Offer(t) \/ Poll(t)
  BY <1>1, <1>2 DEF Put, Take, Offer, Poll
<1>3. CASE Call(t)
  BY <1>3 DEF Call
<1> QED BY <1>2, <1>3 DEF QueueStep

\* Every step keeps QInv.
LEMMA QNext == QInv /\ [QueueNext]_qvars => QInv'
<1> SUFFICES ASSUME QInv, [QueueNext]_qvars PROVE QInv'
  OBVIOUS
<1>1. CASE UNCHANGED qvars
  BY <1>1 DEF qvars, QInv, TypeOK, RingOK, LockHeld, NoStaleWait, Inside, isFull, isEmpty
<1>2. CASE QueueNext
  BY <1>2, StepKinds, EnqueueStep, DequeueStep, QuietStep DEF QueueNext
<1> QED BY <1>1, <1>2

\* The ring is consistent, its lock is respected and nobody sleeps on a condition
\* that holds, in every reachable state.
THEOREM QueueInvariance == QueueSpec => []QInv
<1> QED BY QInit, QNext, PTL DEF QueueSpec

\* The variables keep their types: the indices stay in the ring and the counter
\* between 0 and the capacity.
THEOREM QueueTypeCorrect == QueueSpec => []TypeOK
<1>1. QInv => TypeOK
  BY DEF QInv
<1> QED BY QueueInvariance, <1>1, PTL

\* No two threads are in the bodies of put, take, offer and poll at a time.
THEOREM QueueLockRespected == QueueSpec => []LockHeld
<1>1. QInv => LockHeld
  BY DEF QInv
<1> QED BY QueueInvariance, <1>1, PTL

\* A thread in notFull_.wait() or notEmpty_.wait() never misses the change it waits
\* for.
THEOREM QueueWakesWaiters == QueueSpec => []NoStaleWait
<1>1. QInv => NoStaleWait
  BY DEF QInv
<1> QED BY QueueInvariance, <1>1, PTL

\* Every step of the ring is a step of the bounded FIFO or leaves it alone.
LEMMA FifoStep ==
    QInv /\ [QueueNext]_qvars => [Fifo!Next]_<<Contents, arg, got>>
<1> SUFFICES ASSUME QInv, [QueueNext]_qvars
             PROVE  [Fifo!Next]_<<Contents, arg, got>>
  OBVIOUS
<1>1. CASE UNCHANGED qvars
  BY <1>1 DEF qvars, Contents, Slot
<1>2. CASE QueueNext
  <2> PICK t \in Threads : Call(t) \/ QueueStep(t) \/ SpuriousWakeup(t)
    BY <1>2 DEF QueueNext
  <2>1. CASE holder = t /\ ~isFull /\ enqueue(t, "unlock")
    <3>1. Contents' = Append(Contents, arg[t]) /\ UNCHANGED <<arg, got>>
      BY <2>1, EnqueueStep
    <3>2. Len(Contents) < Capacity
      <4>1. Len(Run(items_, takeIndex_, count_)) = count_
        BY RunType DEF QInv, TypeOK
      <4>2. count_ < Capacity
        BY <2>1 DEF QInv, TypeOK, isFull
      <4> QED BY <4>1, <4>2, ContentsRun
    <3>3. Fifo!Insert(t)
      BY <3>1, <3>2 DEF Fifo!Insert
    <3> QED BY <3>3 DEF Fifo!Next
  <2>2. CASE holder = t /\ ~isEmpty /\ dequeue(t, "unlock")
    <3>1. Fifo!Remove(t)
      BY <2>2, DequeueStep DEF Fifo!Remove
    <3> QED BY <3>1 DEF Fifo!Next
  <2>3. CASE \E e \in Elems : CallPut(t, e) \/ CallOffer(t, e)
    <3> PICK e \in Elems : CallPut(t, e) \/ CallOffer(t, e)
      BY <2>3
    <3>1. Contents' = Contents /\ UNCHANGED got
      BY QuietStep
    <3>2. arg' = [arg EXCEPT ![t] = e]
      BY DEF CallPut, CallOffer
    <3>3. Fifo!Ask(t, e)
      BY <3>1, <3>2 DEF Fifo!Ask
    <3> QED BY <3>3 DEF Fifo!Next
  <2>4. CASE \/ CallTake(t) \/ CallPoll(t) \/ Lock(t) \/ SpuriousWakeup(t) \/ Look(t)
             \/ TryLock(t) \/ Unlock(t)
             \/ qpc[t] = "put" /\ isFull /\ Wait(t, "put_wait")
             \/ qpc[t] = "take" /\ isEmpty /\ Wait(t, "take_wait")
             \/ /\ qpc[t] \in {"offer", "poll"} /\ Refuse(t)
                /\ UNCHANGED <<ring, holder, arg, got>>
    <3>1. Contents' = Contents /\ UNCHANGED got
      BY <2>4, QuietStep
    <3>2. UNCHANGED arg
      BY <2>4 DEF CallTake, CallPoll, Lock, SpuriousWakeup, Look, TryLock, Unlock, Wait
    <3> QED BY <3>1, <3>2
  <2> QED BY <2>1, <2>2, <2>3, <2>4, StepKinds
<1> QED BY <1>1, <1>2

\* ArrayBlockingQueue implements the bounded FIFO.
THEOREM QueueIsFifo == QueueSpec => IsFifo
<1>1. QueueInit => Fifo!Init
  <2> SUFFICES ASSUME QueueInit PROVE Fifo!Init
    OBVIOUS
  <2>1. Contents = <<>>
    <3>1. QInv /\ count_ = 0
      BY QInit DEF QueueInit
    <3>2. /\ Run(items_, takeIndex_, count_) \in Seq(Elems)
          /\ Len(Run(items_, takeIndex_, count_)) = 0
      BY <3>1, RunType DEF QInv, TypeOK
    <3> QED BY <3>2, ContentsRun, EmptySeq
  <2>2. arg \in [Threads -> Elems] /\ got \in [Threads -> Elems]
    BY DEF QueueInit
  <2> QED BY <2>1, <2>2 DEF Fifo!Init
<1> QED BY <1>1, QueueInvariance, FifoStep, PTL DEF QueueSpec, IsFifo, Fifo!Spec

-----------------------------------------------------------------------------
\* With one thread that inserts and one that removes, what the first look of offer or poll
\* has seen is still so at the second.
Roles ==
    \A t \in Threads :
        /\ qpc[t] \in {"put_lock", "put", "put_wait", "offer_look", "offer_try", "offer"} => Inserts(t)
        /\ qpc[t] \in {"take_lock", "take", "take_wait", "poll_look", "poll_try", "poll"} => Removes(t)

LooksHold ==
    \A t \in Threads :
        /\ qpc[t] \in {"offer_try", "offer"} => ~isFull
        /\ qpc[t] \in {"poll_try", "poll"} => ~isEmpty

OneEachInv == QInv /\ Roles /\ LooksHold /\ LockedInside

\* Nobody inside.
LEMMA OneEachInit == QueueInit => OneEachInv
BY QInit, ThreadAssumption DEF OneEachInv, QueueInit, Roles, LooksHold, LockedInside, Inside

\* What a thread calls stays what it is.
LEMMA UseStays ==
    ASSUME [QueueNext]_qvars
    PROVE  use' = use
<1>1. CASE UNCHANGED qvars
  BY <1>1 DEF qvars
<1>2. ASSUME NEW t \in Threads, Call(t) PROVE use' = use
  BY <1>2 DEF Call, CallPut, CallOffer, CallTake, CallPoll, Goto
<1>3. ASSUME NEW t \in Threads, QueueStep(t) \/ SpuriousWakeup(t) PROVE use' = use
  BY <1>3 DEF QueueStep, SpuriousWakeup, Lock, Put, Take, Look, TryLock, Offer, Poll, Unlock,
              Wait, enqueue, dequeue, NotifyAll, Refuse, Goto
<1> QED BY <1>1, <1>2, <1>3 DEF QueueNext

\* With one producer and one consumer every step keeps OneEachInv.
LEMMA OneEachNext ==
    ASSUME OneEach, OneEachInv, [QueueNext]_qvars, use' = use
    PROVE  OneEachInv'
<1> USE DEF OneEachInv
<1>0. QInv'
  BY QNext
<1>a. /\ qpc \in [Threads -> QPc] /\ count_ \in 0 .. Capacity /\ Capacity \in Nat /\ Capacity # 0
      /\ holder \in Threads \cup {NoThread} /\ NoThread \notin Threads
  BY CapacityAssumption, ThreadAssumption DEF QInv, TypeOK
<1>b. \A u \in Threads : (Inserts(u)' <=> Inserts(u)) /\ (Removes(u)' <=> Removes(u))
  BY DEF Inserts, Removes
<1>1. CASE UNCHANGED qvars
  BY <1>0, <1>b, <1>1 DEF qvars, Roles, LooksHold, LockedInside, Inside, isFull, isEmpty
<1>2. ASSUME NEW t \in Threads, Call(t) PROVE OneEachInv'
  <2>1. PICK l \in {"put_lock", "offer_look", "take_lock", "poll_look"} :
          /\ qpc[t] \in Returned /\ qpc' = [qpc EXCEPT ![t] = l]
          /\ l \in {"put_lock", "offer_look"} => Inserts(t)
          /\ l \in {"take_lock", "poll_look"} => Removes(t)
          /\ UNCHANGED <<count_, holder>>
    BY <1>2 DEF Call, CallPut, CallOffer, CallTake, CallPoll, Goto, ring, Inserts, Removes
  <2>2. Roles' /\ LooksHold'
    BY <1>a, <1>b, <2>1 DEF Roles, LooksHold, isFull, isEmpty
  <2>3. LockedInside'
    BY <1>a, <2>1 DEF LockedInside, Inside, Returned
  <2> QED BY <1>0, <2>2, <2>3
<1>3. ASSUME NEW t \in Threads, Lock(t) \/ SpuriousWakeup(t) \/ Look(t) \/ TryLock(t) \/ Unlock(t)
      PROVE  OneEachInv'
  <2>1. UNCHANGED count_
    BY <1>3 DEF Lock, SpuriousWakeup, Look, TryLock, Unlock, ring
  <2>2. Roles' /\ LooksHold'
    BY <1>3, <1>a, <1>b, <2>1 DEF Roles, LooksHold, isFull, isEmpty, Lock, SpuriousWakeup, Look, TryLock, Unlock,
       Goto, Refuse
  <2>3. LockedInside'
    BY <1>3, <1>a DEF LockedInside, Inside, Lock, SpuriousWakeup, Look, TryLock, Unlock, Goto, Refuse
  <2> QED BY <1>0, <2>2, <2>3
<1>4. ASSUME NEW t \in Threads, Put(t) \/ Take(t) \/ Offer(t) \/ Poll(t) PROVE OneEachInv'
  <2>0. Inside(t) /\ holder = t
    BY <1>4 DEF Put, Take, Offer, Poll, Inside, LockedInside
  <2>1. CASE \/ qpc[t] = "put" /\ Wait(t, "put_wait")
             \/ qpc[t] = "take" /\ Wait(t, "take_wait")
    <3>1. UNCHANGED count_ /\ holder' = NoThread
      BY <2>1 DEF Wait, ring
    <3>2. Roles' /\ LooksHold'
      BY <1>a, <1>b, <2>1, <3>1 DEF Roles, LooksHold, isFull, isEmpty, Wait, Goto
    <3>3. LockedInside'
      BY <1>a, <2>0, <2>1, <3>1 DEF LockedInside, Inside, Wait, Goto
    <3> QED BY <1>0, <3>2, <3>3
  <2>2. CASE qpc[t] \in {"put", "offer"} /\ enqueue(t, "unlock")
    <3>1. /\ count_' = count_ + 1 /\ UNCHANGED holder
          /\ qpc' = [u \in Threads |-> IF u = t THEN "unlock"
                                       ELSE IF qpc[u] = "take_wait" THEN "take_lock" ELSE qpc[u]]
      BY <2>2 DEF enqueue, NotifyAll
    <3>2. Inserts(t)
      BY <2>2 DEF Roles
    <3>3. Roles'
      BY <1>a, <1>b, <3>1 DEF Roles
    <3>4. LooksHold'
      <4> SUFFICES ASSUME NEW u \in Threads
                   PROVE  /\ qpc'[u] \in {"offer_try", "offer"} => count_' # Capacity
                          /\ qpc'[u] \in {"poll_try", "poll"} => count_' # 0
        BY DEF LooksHold, isFull, isEmpty
      <4>1. qpc'[u] \notin {"offer_try", "offer"}
        BY <1>a, <3>1, <3>2 DEF Roles, OneEach
      <4> QED BY <1>a, <3>1, <4>1
    <3>5. LockedInside'
      BY <1>a, <2>0, <3>1 DEF LockedInside, Inside
    <3> QED BY <1>0, <3>3, <3>4, <3>5
  <2>3. CASE qpc[t] \in {"take", "poll"} /\ dequeue(t, "unlock")
    <3>1. /\ count_' = count_ - 1 /\ UNCHANGED holder
          /\ qpc' = [u \in Threads |-> IF u = t THEN "unlock"
                                       ELSE IF qpc[u] = "put_wait" THEN "put_lock" ELSE qpc[u]]
      BY <2>3 DEF dequeue, NotifyAll
    <3>2. Removes(t)
      BY <2>3 DEF Roles
    <3>3. Roles'
      BY <1>a, <1>b, <3>1 DEF Roles
    <3>4. LooksHold'
      <4> SUFFICES ASSUME NEW u \in Threads
                   PROVE  /\ qpc'[u] \in {"offer_try", "offer"} => count_' # Capacity
                          /\ qpc'[u] \in {"poll_try", "poll"} => count_' # 0
        BY DEF LooksHold, isFull, isEmpty
      <4>1. qpc'[u] \notin {"poll_try", "poll"}
        BY <1>a, <3>1, <3>2 DEF Roles, OneEach
      <4> QED BY <1>a, <3>1, <4>1
    <3>5. LockedInside'
      BY <1>a, <2>0, <3>1 DEF LockedInside, Inside
    <3> QED BY <1>0, <3>3, <3>4, <3>5
  <2>4. ~(qpc[t] = "offer" /\ isFull) /\ ~(qpc[t] = "poll" /\ isEmpty)
    BY DEF LooksHold
  <2> QED BY <1>4, <2>1, <2>2, <2>3, <2>4 DEF Put, Take, Offer, Poll
<1> QED BY <1>1, <1>2, <1>3, <1>4 DEF QueueNext, QueueStep

\* With at most one thread that inserts and one that removes, the lock is held exactly
\* while a thread is inside: the return of offer and poll that forgets the lock needs a
\* second thread between their two looks.
THEOREM QueueGivesLockBack == QueueSpec => []LockGivenBack
<1> DEFINE J == QInv /\ (OneEach => OneEachInv)
<1>1. QueueInit => J
  BY QInit, OneEachInit
<1>2. J /\ [QueueNext]_qvars => J'
  <2> SUFFICES ASSUME J, [QueueNext]_qvars PROVE J'
    OBVIOUS
  <2>1. QInv'
    BY QNext
  <2>2. use' = use
    BY UseStays
  <2>3. OneEach' => OneEach
    BY <2>2 DEF OneEach, Inserts, Removes
  <2> QED BY <2>1, <2>2, <2>3, OneEachNext
<1>3. J => LockGivenBack
  BY DEF OneEachInv, LockGivenBack
<1> QED BY <1>1, <1>2, <1>3, PTL DEF QueueSpec

=============================================================================
