--------------------------- MODULE CoMutexProofs ----------------------------
(***************************************************************************)
(* The safety of the coroutine mutex, for any number of tasks and threads. *)
(*                                                                         *)
(* Inv is inductive for every placement of the tasks on the threads; Solo  *)
(* is inductive, relative to Inv, when all tasks live on one thread.       *)
(***************************************************************************)
EXTENDS CoMutex, ListLemmas

USE NoTaskAssumption

-----------------------------------------------------------------------------
\* The lists are well formed, and a task is queued and run by its own thread only.
Lists ==
    /\ WellLinked(wait_list)
    /\ \A h \in Threads : WellLinked(rq[h])
    /\ \A h \in Threads : \A t \in Members(rq[h]) : ThreadOf[t] = h
    /\ \A h \in Threads : current[h] # NoTask => ThreadOf[current[h]] = h

\* A task is in the wait list only on its way into, or inside, its sleep.
Waiters ==
    /\ \A t \in Tasks : Waiting(t) => pc[t] \in {"park", "swap", "cas"}
    /\ \A t \in Tasks : Waiting(t) /\ Running(t) => pc[t] # "cas"

\* A task that is about to switch out is still known to somebody.
Parked ==
    \A t \in Tasks :
        pc[t] \in {"park", "swap"} =>
            Running(t) /\ (Waiting(t) \/ Queued(t) \/ Targeted(t))

\* A waker that has taken a task off the list runs, and knows whom it took.
Wakers ==
    \A t \in Tasks :
        pc[t] \in {"mark", "link"} => Running(t) /\ target[t] \in Tasks

Inv ==
    /\ TypeOK
    /\ Lists
    /\ Waiters
    /\ Parked
    /\ Wakers
    /\ MutualExclusion
    /\ NoLostWakeup
    /\ NoTaskForgotten

-----------------------------------------------------------------------------
\* RR_enqueue on the run queues: the task joins its own thread's queue, once.
LEMMA EnqueuedFacts ==
    ASSUME TypeOK, Lists, NEW t \in Tasks
    PROVE  /\ Enqueued(t) \in [Threads -> Seq(Tasks)]
           /\ \A h \in Threads : WellLinked(Enqueued(t)[h])
           /\ \A h \in Threads :
                Members(Enqueued(t)[h]) =
                    Members(rq[h]) \cup (IF h = ThreadOf[t] THEN {t} ELSE {})
<1>1. \A h \in Threads : rq[h] \in Seq(Tasks) /\ WellLinked(rq[h])
  BY DEF TypeOK, Lists
<1> DEFINE Q(h) == list_add_before(list_delete(rq[h], t), t)
<1>2. \A h \in Threads :
        Q(h) \in Seq(Tasks) /\ WellLinked(Q(h)) /\ ToSet(Q(h)) = ToSet(rq[h]) \cup {t}
  BY <1>1, Requeue
<1>3. \A h \in Threads : Enqueued(t)[h] = IF h = ThreadOf[t] THEN Q(h) ELSE rq[h]
  BY DEF Enqueued, TypeOK
<1>4. Enqueued(t) \in [Threads -> Seq(Tasks)]
  BY <1>1, <1>2, <1>3 DEF Enqueued, TypeOK
<1> HIDE DEF Q
<1>5. ASSUME NEW h \in Threads
      PROVE  Members(Enqueued(t)[h]) =
                Members(rq[h]) \cup (IF h = ThreadOf[t] THEN {t} ELSE {})
  BY <1>2, <1>3, <1>5 DEF Members
<1>6. \A h \in Threads : WellLinked(Enqueued(t)[h])
  BY <1>1, <1>2, <1>3
<1> QED BY <1>4, <1>5, <1>6

\* Init establishes the invariant: every list is empty.
LEMMA InitInv == Init => Inv
<1> SUFFICES ASSUME Init PROVE Inv
  OBVIOUS
<1>1. list_init \in Seq(Tasks) /\ WellLinked(list_init) /\ ToSet(list_init) = {}
  BY EmptyList
<1>2. TypeOK
  BY <1>1, PlacementAssumption DEF Init, TypeOK, Status, PC
<1>3. Lists /\ Waiters
  BY <1>1 DEF Init, Lists, Waiters, Waiting, Members
<1>4. Parked /\ Wakers /\ MutualExclusion /\ NoTaskForgotten
  BY DEF Init, Parked, Wakers, MutualExclusion, NoTaskForgotten
<1>5. NoLostWakeup
  BY DEF Init, NoLostWakeup, list_init
<1> QED BY <1>2, <1>3, <1>4, <1>5 DEF Inv

-----------------------------------------------------------------------------
\* Steps that move neither a link nor a thread: they change the lock, a status
\* and the stepping task's program counter.
LEMMA LocalStep ==
    ASSUME Inv, ThreadOf \in [Tasks -> Threads], ThreadOf' = ThreadOf,
           NEW t \in Tasks,
           TryLock(t) \/ Lock(t) \/ AtomicLock(t) \/ StoreBlocked(t) \/ Unlock(t)
             \/ ResumeMark(t)
    PROVE  Inv'
<1> USE DEF Inv
<1>1. UNCHANGED <<wait_list, rq, current, target>> /\ Running(t)
  BY DEF TryLock, Lock, AtomicLock, StoreBlocked, Unlock, ResumeMark
<1>2. \A x \in Tasks : /\ Running(x)' <=> Running(x)
                       /\ Waiting(x)' <=> Waiting(x)
                       /\ Queued(x)' <=> Queued(x)
  BY <1>1 DEF Running, Waiting, Queued
<1>3. TypeOK'
  BY <1>1 DEF TypeOK, Wakers, Status, PC, TryLock, Lock, AtomicLock, StoreBlocked,
              Unlock, ResumeMark
<1>4. Lists'
  BY <1>1 DEF Lists
<1>5. \E from \in PC, to \in PC :
        /\ pc[t] = from
        /\ pc' = [pc EXCEPT ![t] = to]
        /\ <<from, to>> \in
             {<<"idle", "cs">>, <<"idle", "cas">>, <<"cas", "cs">>, <<"cas", "wait">>,
              <<"park", "swap">>, <<"cs", "wake">>, <<"mark", "link">>}
  BY DEF TryLock, Lock, AtomicLock, StoreBlocked, Unlock, ResumeMark, PC
<1>6. pc \in [Tasks -> PC]
  BY DEF TypeOK
<1>7. \A x \in Tasks : Targeted(x)' <=> Targeted(x)
  BY <1>1, <1>5, <1>6 DEF Targeted
<1>8. Waiters'
  BY <1>1, <1>2, <1>5, <1>6 DEF Waiters
<1>9. Parked'
  BY <1>2, <1>5, <1>6, <1>7 DEF Parked
<1>10. Wakers'
  BY <1>1, <1>2, <1>5, <1>6 DEF Wakers
<1>11. NoTaskForgotten'
  BY <1>2, <1>5, <1>6, <1>7 DEF NoTaskForgotten
<1>12. MutualExclusion'
  <2>1. CASE TryLock(t) \/ AtomicLock(t)
    BY <1>6, <2>1, NoTaskAssumption DEF MutualExclusion, TryLock, AtomicLock
  <2>2. CASE Unlock(t)
    BY <1>6, <2>2, NoTaskAssumption DEF MutualExclusion, Unlock
  <2>3. CASE Lock(t) \/ StoreBlocked(t) \/ ResumeMark(t)
    BY <1>6, <2>3 DEF MutualExclusion, Lock, StoreBlocked, ResumeMark
  <2> QED BY <2>1, <2>2, <2>3
<1>13. NoLostWakeup'
  <2>1. CASE Unlock(t)
    BY <1>6, <2>1 DEF NoLostWakeup, Unlock
  <2>2. CASE TryLock(t) \/ AtomicLock(t)
    <3>1. lock' # NoTask
      BY <2>2 DEF TryLock, AtomicLock
    <3> QED BY <3>1 DEF NoLostWakeup
  <2>3. CASE Lock(t) \/ StoreBlocked(t) \/ ResumeMark(t)
    <3>1. UNCHANGED <<lock, wait_list>>
      BY <2>3 DEF Lock, StoreBlocked, ResumeMark
    <3> QED BY <1>2, <1>5, <1>6, <2>3, <3>1
            DEF NoLostWakeup, Lock, StoreBlocked, ResumeMark
  <2> QED BY <2>1, <2>2, <2>3
<1> QED BY <1>3, <1>4, <1>8, <1>9, <1>10, <1>11, <1>12, <1>13

\* task_wait_mutex: the task's own link joins the wait list, under a taken lock.
LEMMA WaitStep ==
    ASSUME Inv, ThreadOf \in [Tasks -> Threads], ThreadOf' = ThreadOf,
           NEW t \in Tasks, task_wait_mutex(t)
    PROVE  Inv'
<1> USE DEF Inv
<1>1. /\ UNCHANGED <<lock, rq, current, status, target>>
      /\ Running(t) /\ pc[t] = "wait" /\ ~Waiting(t)
  BY DEF task_wait_mutex, Waiters
<1>2. pc \in [Tasks -> PC] /\ wait_list \in Seq(Tasks)
  BY DEF TypeOK
<1>3. CASE lock = NoTask /\ pc' = [pc EXCEPT ![t] = "cas"] /\ UNCHANGED wait_list
  <2>1. \A x \in Tasks : /\ Running(x)' <=> Running(x)
                         /\ Waiting(x)' <=> Waiting(x)
                         /\ Queued(x)' <=> Queued(x)
                         /\ Targeted(x)' <=> Targeted(x)
    BY <1>1, <1>2, <1>3 DEF Running, Waiting, Queued, Targeted
  <2>2. TypeOK' /\ Lists'
    BY <1>1, <1>2, <1>3 DEF TypeOK, PC, Lists
  <2>3. Waiters' /\ Parked' /\ Wakers'
    BY <1>1, <1>2, <1>3, <2>1 DEF Waiters, Parked, Wakers
  <2>4. MutualExclusion' /\ NoTaskForgotten'
    BY <1>1, <1>2, <1>3, <2>1 DEF MutualExclusion, NoTaskForgotten
  <2>5. NoLostWakeup'
    BY <1>1, <1>2, <1>3, <2>1 DEF NoLostWakeup
  <2> QED BY <2>2, <2>3, <2>4, <2>5
<1>4. CASE /\ lock # NoTask
           /\ wait_list' = list_add_before(wait_list, t)
           /\ pc' = [pc EXCEPT ![t] = "park"]
  <2>1. /\ wait_list' \in Seq(Tasks)
        /\ Members(wait_list') = Members(wait_list) \cup {t}
        /\ WellLinked(wait_list')
    BY <1>1, <1>2, <1>4, AddLast DEF Lists, Waiting, Members
  <2>2. \A x \in Tasks : /\ Running(x)' <=> Running(x)
                         /\ Waiting(x)' <=> (Waiting(x) \/ x = t)
                         /\ Queued(x)' <=> Queued(x)
                         /\ Targeted(x)' <=> Targeted(x)
    BY <1>1, <1>2, <1>4, <2>1 DEF Running, Waiting, Queued, Targeted
  <2>3. TypeOK' /\ Lists'
    BY <1>1, <1>2, <1>4, <2>1 DEF TypeOK, PC, Lists
  <2>4. Waiters' /\ Parked' /\ Wakers'
    BY <1>1, <1>2, <1>4, <2>2 DEF Waiters, Parked, Wakers
  <2>5. MutualExclusion' /\ NoTaskForgotten'
    BY <1>1, <1>2, <1>4, <2>2 DEF MutualExclusion, NoTaskForgotten
  <2>6. NoLostWakeup'
    BY <1>1, <1>4 DEF NoLostWakeup
  <2> QED BY <2>3, <2>4, <2>5, <2>6
<1> QED BY <1>3, <1>4 DEF task_wait_mutex

\* mutex_wakeup_task: the first waiter leaves the list for the waker's hands.
LEMMA WakeStep ==
    ASSUME Inv, ThreadOf \in [Tasks -> Threads], ThreadOf' = ThreadOf,
           NEW t \in Tasks, mutex_wakeup_task(t)
    PROVE  Inv'
<1> USE DEF Inv
<1>1. /\ UNCHANGED <<lock, rq, current, status>>
      /\ Running(t) /\ pc[t] = "wake"
  BY DEF mutex_wakeup_task
<1>2. pc \in [Tasks -> PC] /\ wait_list \in Seq(Tasks)
      /\ target \in [Tasks -> Tasks \cup {NoTask}]
  BY DEF TypeOK
<1>3. CASE /\ lock # NoTask \/ list_empty(wait_list)
           /\ pc' = [pc EXCEPT ![t] = "idle"]
           /\ UNCHANGED <<wait_list, target>>
  <2>1. \A x \in Tasks : /\ Running(x)' <=> Running(x)
                         /\ Waiting(x)' <=> Waiting(x)
                         /\ Queued(x)' <=> Queued(x)
                         /\ Targeted(x)' <=> Targeted(x)
    BY <1>1, <1>2, <1>3 DEF Running, Waiting, Queued, Targeted
  <2>2. TypeOK' /\ Lists'
    BY <1>1, <1>2, <1>3 DEF TypeOK, PC, Lists
  <2>3. Waiters' /\ Parked' /\ Wakers'
    BY <1>1, <1>2, <1>3, <2>1 DEF Waiters, Parked, Wakers
  <2>4. MutualExclusion' /\ NoTaskForgotten'
    BY <1>1, <1>2, <1>3, <2>1 DEF MutualExclusion, NoTaskForgotten
  <2>5. NoLostWakeup'
    BY <1>1, <1>3 DEF NoLostWakeup, list_empty
  <2> QED BY <2>2, <2>3, <2>4, <2>5
<1>4. CASE /\ lock = NoTask
           /\ ~list_empty(wait_list)
           /\ target' = [target EXCEPT ![t] = list_next(wait_list)]
           /\ wait_list' = Tail(wait_list)
           /\ pc' = [pc EXCEPT ![t] = "mark"]
  <2>0. list_next(wait_list) \in Tasks
    BY <1>2, <1>4, TakeFirst
  <2> PICK w \in Tasks : w = list_next(wait_list)
    BY <2>0
  <2>1. /\ w \in Members(wait_list)
        /\ wait_list' \in Seq(Tasks)
        /\ Members(wait_list) = Members(wait_list') \cup {w}
        /\ WellLinked(wait_list') /\ w \notin Members(wait_list')
    BY <1>2, <1>4, TakeFirst DEF Lists, Members
  <2>2. Waiting(w) /\ pc[w] \in {"park", "swap", "cas"} /\ w # t
    BY <1>1, <2>1 DEF Waiters, Waiting
  <2>3. target' = [target EXCEPT ![t] = w]
    BY <1>4
  <2>4. \A x \in Tasks : /\ Running(x)' <=> Running(x)
                         /\ Waiting(x)' <=> (Waiting(x) /\ x # w)
                         /\ Queued(x)' <=> Queued(x)
                         /\ Targeted(x) => Targeted(x)'
    BY <1>1, <1>2, <1>4, <2>1, <2>3 DEF Running, Waiting, Queued, Targeted
  <2>5. Targeted(w)'
    BY <1>2, <1>4, <2>3 DEF Targeted
  <2>6. TypeOK' /\ Lists'
    BY <1>1, <1>2, <1>4, <2>1, <2>3 DEF TypeOK, PC, Lists
  <2>7. Waiters'
    BY <1>1, <1>2, <1>4, <2>1, <2>4 DEF Waiters
  <2>8. Parked'
    BY <1>1, <1>2, <1>4, <2>1, <2>4, <2>5 DEF Parked
  <2>9. Wakers'
    BY <1>1, <1>2, <1>4, <2>1, <2>3, <2>4 DEF Wakers
  <2>10. MutualExclusion' /\ NoTaskForgotten'
    BY <1>1, <1>2, <1>4, <2>1, <2>4, <2>5 DEF MutualExclusion, NoTaskForgotten
  <2>11. NoLostWakeup'
    <3>1. pc'[w] \in {"cas", "park", "swap"} /\ ~Waiting(w)'
      BY <1>2, <1>4, <2>1, <2>2, <2>4
    <3> QED BY <2>1, <3>1 DEF NoLostWakeup
  <2> QED BY <2>6, <2>7, <2>8, <2>9, <2>10, <2>11
<1> QED BY <1>3, <1>4 DEF mutex_wakeup_task

\* RR_enqueue by a waker: the waiter, wherever its link is by now, gets queued.
LEMMA ResumeStep ==
    ASSUME Inv, ThreadOf \in [Tasks -> Threads], ThreadOf' = ThreadOf,
           NEW t \in Tasks, ResumeLink(t)
    PROVE  Inv'
<1> USE DEF Inv
<1> DEFINE w == target[t]
<1>1. /\ UNCHANGED <<lock, current, status>>
      /\ Running(t) /\ pc[t] = "link" /\ w \in Tasks
      /\ target' = [target EXCEPT ![t] = NoTask]
      /\ pc' = [pc EXCEPT ![t] = "idle"]
      /\ rq' = Enqueued(w)
      /\ wait_list' = list_delete(wait_list, w)
  BY DEF ResumeLink, Wakers
<1>2. pc \in [Tasks -> PC] /\ wait_list \in Seq(Tasks)
      /\ target \in [Tasks -> Tasks \cup {NoTask}]
  BY DEF TypeOK
<1>3. /\ rq' \in [Threads -> Seq(Tasks)]
      /\ \A h \in Threads : WellLinked(rq'[h])
      /\ \A h \in Threads :
           Members(rq'[h]) = Members(rq[h]) \cup (IF h = ThreadOf[w] THEN {w} ELSE {})
  BY <1>1, EnqueuedFacts
<1>4. /\ wait_list' \in Seq(Tasks)
      /\ WellLinked(wait_list')
      /\ Members(wait_list') = Members(wait_list) \ {w}
  BY <1>1, <1>2, DeleteElement DEF Lists, Members
<1> HIDE DEF w
<1>5. \A x \in Tasks : /\ Running(x)' <=> Running(x)
                       /\ Waiting(x)' <=> (Waiting(x) /\ x # w)
                       /\ Queued(x)' <=> (Queued(x) \/ x = w)
                       /\ Targeted(x) => (Targeted(x)' \/ x = w)
  BY <1>1, <1>2, <1>3, <1>4 DEF Running, Waiting, Queued, Targeted, w
<1>6. TypeOK'
  BY <1>1, <1>2, <1>3, <1>4 DEF TypeOK, PC
<1>7. Lists'
  BY <1>1, <1>3, <1>4 DEF Lists
<1>8. Waiters'
  BY <1>1, <1>2, <1>5 DEF Waiters
<1>9. Parked'
  BY <1>1, <1>2, <1>5 DEF Parked
<1>10. Wakers'
  BY <1>1, <1>2, <1>5 DEF Wakers
<1>11. MutualExclusion' /\ NoTaskForgotten'
  BY <1>1, <1>2, <1>5 DEF MutualExclusion, NoTaskForgotten
<1>12. NoLostWakeup'
  <2>1. ASSUME lock = NoTask, wait_list # <<>>, wait_list' # <<>> PROVE NoLostWakeup'
    <3>1. PICK x \in Tasks : \/ pc[x] = "wake"
                             \/ pc[x] \in {"cas", "wait", "park", "swap"} /\ ~Waiting(x)
      BY <2>1 DEF NoLostWakeup
    <3>2. x # t
      BY <1>1, <3>1
    <3>3. pc'[x] = pc[x] /\ (~Waiting(x) => ~Waiting(x)')
      BY <1>1, <1>2, <1>5, <3>2
    <3> QED BY <3>1, <3>3 DEF NoLostWakeup
  <2>2. wait_list = <<>> => wait_list' = <<>>
    BY <1>1 DEF list_delete, RemoveFirst
  <2> QED BY <1>1, <2>1, <2>2 DEF NoLostWakeup
<1> QED BY <1>6, <1>7, <1>8, <1>9, <1>10, <1>11, <1>12

\* co_create, and a voluntary yield: the task is queued on its own thread.
LEMMA CreateStep ==
    ASSUME Inv, ThreadOf \in [Tasks -> Threads], ThreadOf' = ThreadOf,
           NEW t \in Tasks, Create(t)
    PROVE  Inv'
<1> USE DEF Inv
<1>1. /\ UNCHANGED <<lock, wait_list, current, target>>
      /\ pc[t] = "new" /\ pc' = [pc EXCEPT ![t] = "idle"]
      /\ rq' = Enqueued(t)
  BY DEF Create
<1>2. pc \in [Tasks -> PC]
  BY DEF TypeOK
<1>3. /\ rq' \in [Threads -> Seq(Tasks)]
      /\ \A h \in Threads : WellLinked(rq'[h])
      /\ \A h \in Threads :
           Members(rq'[h]) = Members(rq[h]) \cup (IF h = ThreadOf[t] THEN {t} ELSE {})
  BY <1>1, EnqueuedFacts
<1>4. \A x \in Tasks : /\ Running(x)' <=> Running(x)
                       /\ Waiting(x)' <=> Waiting(x)
                       /\ Queued(x)' <=> (Queued(x) \/ x = t)
                       /\ Targeted(x)' <=> Targeted(x)
  BY <1>1, <1>2, <1>3 DEF Running, Waiting, Queued, Targeted
<1>5. TypeOK'
  BY <1>1, <1>2, <1>3 DEF TypeOK, PC, Status, Create
<1>6. Lists'
  BY <1>1, <1>3 DEF Lists
<1>7. Waiters' /\ Parked' /\ Wakers'
  BY <1>1, <1>2, <1>4 DEF Waiters, Parked, Wakers
<1>8. MutualExclusion' /\ NoTaskForgotten'
  BY <1>1, <1>2, <1>4 DEF MutualExclusion, NoTaskForgotten
<1>9. NoLostWakeup'
  BY <1>1, <1>2, <1>4 DEF NoLostWakeup
<1> QED BY <1>5, <1>6, <1>7, <1>8, <1>9

LEMMA YieldStep ==
    ASSUME Inv, ThreadOf \in [Tasks -> Threads], ThreadOf' = ThreadOf,
           NEW t \in Tasks, Yield(t)
    PROVE  Inv'
<1> USE DEF Inv
<1>1. /\ UNCHANGED <<lock, wait_list, status, pc, target>>
      /\ Running(t) /\ pc[t] \in {"idle", "cs"}
      /\ current' = [current EXCEPT ![ThreadOf[t]] = NoTask]
      /\ rq' = Enqueued(t)
  BY DEF Yield
<1>2. pc \in [Tasks -> PC] /\ current \in [Threads -> Tasks \cup {NoTask}]
  BY DEF TypeOK
<1>3. /\ rq' \in [Threads -> Seq(Tasks)]
      /\ \A h \in Threads : WellLinked(rq'[h])
      /\ \A h \in Threads :
           Members(rq'[h]) = Members(rq[h]) \cup (IF h = ThreadOf[t] THEN {t} ELSE {})
  BY <1>1, EnqueuedFacts
<1>4. \A x \in Tasks : /\ Running(x)' <=> (Running(x) /\ x # t)
                       /\ Waiting(x)' <=> Waiting(x)
                       /\ Queued(x)' <=> (Queued(x) \/ x = t)
                       /\ Targeted(x)' <=> Targeted(x)
  BY <1>1, <1>2, <1>3 DEF Running, Waiting, Queued, Targeted
<1>5. TypeOK'
  BY <1>1, <1>2, <1>3 DEF TypeOK
<1>6. Lists'
  BY <1>1, <1>2, <1>3 DEF Lists
<1>7. Waiters' /\ Parked' /\ Wakers'
  BY <1>1, <1>2, <1>4 DEF Waiters, Parked, Wakers
<1>8. MutualExclusion' /\ NoTaskForgotten'
  BY <1>1, <1>2, <1>4 DEF MutualExclusion, NoTaskForgotten
<1>9. NoLostWakeup'
  BY <1>1, <1>2, <1>4 DEF NoLostWakeup
<1> QED BY <1>5, <1>6, <1>7, <1>8, <1>9

\* task_exit and task_destory: the task leaves its run queue, if it is in it.
LEMMA ExitStep ==
    ASSUME Inv, ThreadOf \in [Tasks -> Threads], ThreadOf' = ThreadOf,
           NEW t \in Tasks, Exit(t)
    PROVE  Inv'
<1> USE DEF Inv
<1>1. /\ UNCHANGED <<lock, wait_list, target>>
      /\ Running(t) /\ pc[t] = "idle"
      /\ pc' = [pc EXCEPT ![t] = "dead"]
      /\ current' = [current EXCEPT ![ThreadOf[t]] = NoTask]
      /\ rq' = [rq EXCEPT ![ThreadOf[t]] = list_delete(@, t)]
  BY DEF Exit
<1>2. /\ pc \in [Tasks -> PC] /\ current \in [Threads -> Tasks \cup {NoTask}]
      /\ rq \in [Threads -> Seq(Tasks)]
  BY DEF TypeOK
<1>3. \A h \in Threads : /\ list_delete(rq[h], t) \in Seq(Tasks)
                         /\ WellLinked(list_delete(rq[h], t))
                         /\ Members(list_delete(rq[h], t)) = Members(rq[h]) \ {t}
  BY <1>2, DeleteElement DEF Lists, Members
<1>4. /\ rq' \in [Threads -> Seq(Tasks)]
      /\ \A h \in Threads : WellLinked(rq'[h])
      /\ \A h \in Threads :
           Members(rq'[h]) = Members(rq[h]) \ (IF h = ThreadOf[t] THEN {t} ELSE {})
  BY <1>1, <1>2, <1>3 DEF Lists
<1>5. \A x \in Tasks : /\ Running(x)' <=> (Running(x) /\ x # t)
                       /\ Waiting(x)' <=> Waiting(x)
                       /\ Queued(x)' <=> (Queued(x) /\ x # t)
                       /\ Targeted(x)' <=> Targeted(x)
  <2> TAKE x \in Tasks
  <2>1. ThreadOf[x] \in Threads /\ ThreadOf[t] \in Threads
    OBVIOUS
  <2>2. Running(x)' <=> (Running(x) /\ x # t)
    BY <1>1, <1>2, <2>1 DEF Running
  <2>3. Queued(x)' <=> (Queued(x) /\ x # t)
    BY <1>4, <2>1 DEF Queued
  <2>4. (Waiting(x)' <=> Waiting(x)) /\ (Targeted(x)' <=> Targeted(x))
    BY <1>1, <1>2 DEF Waiting, Targeted
  <2> QED BY <2>2, <2>3, <2>4
<1>6. TypeOK'
  BY <1>1, <1>2, <1>4 DEF TypeOK, PC, Status, Exit
<1>7. Lists'
  BY <1>1, <1>2, <1>4 DEF Lists
<1>8. Waiters' /\ Parked' /\ Wakers'
  BY <1>1, <1>2, <1>5 DEF Waiters, Parked, Wakers
<1>9. MutualExclusion' /\ NoTaskForgotten'
  BY <1>1, <1>2, <1>5 DEF MutualExclusion, NoTaskForgotten
<1>10. NoLostWakeup'
  BY <1>1, <1>2, <1>5 DEF NoLostWakeup
<1> QED BY <1>6, <1>7, <1>8, <1>9, <1>10

\* The switch to schedule(): Parked says that somebody still knows the task.
LEMMA SwitchStep ==
    ASSUME Inv, ThreadOf \in [Tasks -> Threads], ThreadOf' = ThreadOf,
           NEW t \in Tasks, SwitchOut(t)
    PROVE  Inv'
<1> USE DEF Inv
<1>1. /\ UNCHANGED <<lock, status, target>>
      /\ Running(t) /\ pc[t] = "swap"
      /\ pc' = [pc EXCEPT ![t] = "cas"]
      /\ current' = [current EXCEPT ![ThreadOf[t]] = NoTask]
      /\ \/ rq' = Enqueued(t) /\ wait_list' = list_delete(wait_list, t)
         \/ rq' = rq /\ wait_list' = wait_list
  BY DEF SwitchOut
<1>2. pc \in [Tasks -> PC] /\ current \in [Threads -> Tasks \cup {NoTask}]
  BY DEF TypeOK
<1>3. /\ rq' \in [Threads -> Seq(Tasks)]
      /\ \A h \in Threads : WellLinked(rq'[h])
      /\ \A h \in Threads :
           /\ Members(rq[h]) \subseteq Members(rq'[h])
           /\ \A x \in Members(rq'[h]) :
                x \in Members(rq[h]) \/ (x = t /\ h = ThreadOf[t])
  <2>1. CASE rq' = rq
    BY <2>1 DEF TypeOK, Lists
  <2>2. CASE rq' = Enqueued(t)
    <3>1. /\ rq' \in [Threads -> Seq(Tasks)]
          /\ \A h \in Threads : WellLinked(rq'[h])
          /\ \A h \in Threads : Members(rq'[h]) =
                Members(rq[h]) \cup (IF h = ThreadOf[t] THEN {t} ELSE {})
      BY <2>2, EnqueuedFacts
    <3> QED BY <3>1
  <2> QED BY <1>1, <2>1, <2>2
<1>a. /\ wait_list' \in Seq(Tasks) /\ WellLinked(wait_list')
      /\ \/ Members(wait_list') = Members(wait_list)
         \/ Members(wait_list') = Members(wait_list) \ {t} /\ t \in Members(rq'[ThreadOf[t]])
  <2>1. wait_list \in Seq(Tasks) /\ WellLinked(wait_list)
    BY DEF TypeOK, Lists
  <2>2. CASE rq' = Enqueued(t) /\ wait_list' = list_delete(wait_list, t)
    <3>1. t \in Members(rq'[ThreadOf[t]])
      BY <2>2, EnqueuedFacts
    <3> QED BY <2>1, <2>2, <3>1, DeleteElement DEF Members
  <2> QED BY <1>1, <2>1, <2>2
<1>4. \A x \in Tasks : /\ Running(x)' <=> (Running(x) /\ x # t)
                       /\ Waiting(x)' => Waiting(x)
                       /\ Waiting(x) => Waiting(x)' \/ (x = t /\ Queued(x)')
                       /\ Queued(x) => Queued(x)'
                       /\ Targeted(x)' <=> Targeted(x)
  <2>1. \A x \in Tasks : /\ Running(x)' <=> (Running(x) /\ x # t)
                         /\ Queued(x) => Queued(x)'
    BY <1>1, <1>2, <1>3 DEF Running, Queued
  <2>2. \A x \in Tasks : /\ Waiting(x)' => Waiting(x)
                         /\ Waiting(x) => Waiting(x)' \/ (x = t /\ Queued(x)')
    BY <1>a DEF Waiting, Queued
  <2>3. \A x \in Tasks : Targeted(x)' <=> Targeted(x)
    BY <1>1, <1>2 DEF Targeted
  <2> QED BY <2>1, <2>2, <2>3
<1>5. TypeOK'
  BY <1>1, <1>2, <1>3, <1>a DEF TypeOK, PC
<1>6. Lists'
  BY <1>1, <1>2, <1>3, <1>a DEF Lists
<1>7. Waiters' /\ Parked' /\ Wakers'
  BY <1>1, <1>2, <1>4 DEF Waiters, Parked, Wakers
<1>8. MutualExclusion' /\ NoTaskForgotten'
  BY <1>1, <1>2, <1>4 DEF MutualExclusion, NoTaskForgotten, Parked
<1>9. NoLostWakeup'
  <2>1. wait_list' # <<>> => wait_list # <<>>
    BY <1>1 DEF list_delete, RemoveFirst
  <2>2. ~Waiting(t)' => pc'[t] \in {"cas", "wait", "park", "swap"} /\ ~Waiting(t)'
    BY <1>1, <1>2
  <2>3. CASE Members(wait_list') = Members(wait_list)
    <3>1. \A x \in Tasks : Waiting(x)' <=> Waiting(x)
      BY <2>3 DEF Waiting
    <3> QED BY <1>1, <1>2, <2>1, <3>1 DEF NoLostWakeup
  <2>4. CASE Members(wait_list') = Members(wait_list) \ {t}
    <3>1. ~Waiting(t)'
      BY <2>4 DEF Waiting
    <3> QED BY <2>2, <3>1 DEF NoLostWakeup
  <2> QED BY <1>a, <2>3, <2>4
<1> QED BY <1>5, <1>6, <1>7, <1>8, <1>9

\* schedule(): the head of a run queue becomes the thread's current task.
LEMMA DispatchStep ==
    ASSUME Inv, Intact, ThreadOf \in [Tasks -> Threads], ThreadOf' = ThreadOf,
           NEW h \in Threads, Dispatch(h)
    PROVE  Inv'
<1> USE DEF Inv
<1>1. rq[h] \in Seq(Tasks) /\ ~list_empty(rq[h]) /\ WellLinked(rq[h])
  BY DEF TypeOK, Lists, Dispatch
<1>2. list_next(rq[h]) \in Tasks
  BY <1>1, TakeFirst
<1> PICK t \in Tasks : t = list_next(rq[h])
  BY <1>2
<1>3. /\ t \in Members(rq[h])
      /\ Tail(rq[h]) \in Seq(Tasks)
      /\ Members(rq[h]) = Members(Tail(rq[h])) \cup {t}
      /\ WellLinked(Tail(rq[h])) /\ t \notin Members(Tail(rq[h]))
  BY <1>1, TakeFirst DEF Members
<1>4. /\ UNCHANGED <<lock, wait_list, pc, target>>
      /\ current[h] = NoTask
      /\ current' = [current EXCEPT ![h] = t]
      /\ status' = [status EXCEPT ![t] = "RUNNABLE"]
      /\ rq' = [rq EXCEPT ![h] = Tail(rq[h])]
  BY DEF Dispatch
<1>5. /\ current \in [Threads -> Tasks \cup {NoTask}]
      /\ rq \in [Threads -> Seq(Tasks)]
      /\ status \in [Tasks -> Status]
      /\ ThreadOf[t] = h
  BY <1>3 DEF TypeOK, Lists
<1>6. /\ rq' \in [Threads -> Seq(Tasks)]
      /\ \A k \in Threads : WellLinked(rq'[k])
      /\ \A k \in Threads :
           Members(rq'[k]) = Members(rq[k]) \ (IF k = h THEN {t} ELSE {})
  BY <1>3, <1>4, <1>5 DEF Lists
<1>7. \A x \in Tasks : /\ Running(x)' <=> (Running(x) \/ x = t)
                       /\ Waiting(x)' <=> Waiting(x)
                       /\ Queued(x)' <=> (Queued(x) /\ x # t)
                       /\ Targeted(x)' <=> Targeted(x)
  <2> TAKE x \in Tasks
  <2>0. ThreadOf[x] \in Threads /\ ThreadOf' = ThreadOf /\ x # NoTask
    BY NoTaskAssumption
  <2>1. Running(x)' <=> (Running(x) \/ x = t)
    BY <1>4, <1>5, <2>0 DEF Running
  <2>2. Queued(x)' <=> (Queued(x) /\ x # t)
    BY <1>5, <1>6, <2>0 DEF Queued
  <2>3. (Waiting(x)' <=> Waiting(x)) /\ (Targeted(x)' <=> Targeted(x))
    BY <1>4 DEF Waiting, Targeted
  <2> QED BY <2>1, <2>2, <2>3
<1>8. ~Waiting(t) /\ ~Running(t)
  BY <1>3, <1>4, <1>5 DEF Intact, DoublyLinked, Queued, Running
<1>9. TypeOK'
  BY <1>4, <1>5, <1>6 DEF TypeOK, Status
<1>10. Lists'
  BY <1>4, <1>5, <1>6 DEF Lists
<1>11. Waiters' /\ Parked' /\ Wakers'
  BY <1>4, <1>7, <1>8 DEF Waiters, Parked, Wakers
<1>12. MutualExclusion' /\ NoTaskForgotten' /\ NoLostWakeup'
  BY <1>4, <1>7, <1>8 DEF MutualExclusion, NoTaskForgotten, NoLostWakeup
<1> QED BY <1>9, <1>10, <1>11, <1>12

-----------------------------------------------------------------------------
\* No step moves a task to another thread.
LEMMA NextStays ==
    ASSUME Inv, [Next]_vars
    PROVE  ThreadOf \in [Tasks -> Threads] /\ ThreadOf' = ThreadOf
BY DEF Inv, TypeOK, vars, Next, Dispatch, Create, TaskStep, TryLock, Lock, AtomicLock, task_wait_mutex,
   StoreBlocked, SwitchOut, Unlock, mutex_wakeup_task, ResumeMark, ResumeLink, Yield, Exit

\* Every step keeps the invariant.
LEMMA NextInv == Inv /\ [Next]_vars => Inv'
<1> SUFFICES ASSUME Inv, [Next]_vars PROVE Inv'
  OBVIOUS
<1>0. ThreadOf \in [Tasks -> Threads] /\ ThreadOf' = ThreadOf
  BY NextStays
<1>1. CASE UNCHANGED vars
  BY <1>1 DEF vars, Inv, TypeOK, Lists, Waiters, Parked, Wakers, MutualExclusion,
              NoLostWakeup, NoTaskForgotten, Running, Queued, Waiting, Targeted
<1>2. ASSUME Intact, NEW h \in Threads, Dispatch(h) PROVE Inv'
  BY <1>0, <1>2, DispatchStep
<1>3. ASSUME NEW t \in Tasks, Create(t) \/ TaskStep(t) PROVE Inv'
  BY <1>0, <1>3, LocalStep, WaitStep, WakeStep, ResumeStep, CreateStep, YieldStep, ExitStep,
     SwitchStep DEF TaskStep
<1> QED BY <1>1, <1>2, <1>3 DEF Next

\* Every state the mutex can reach satisfies the invariant.
THEOREM Invariance == Spec => []Inv
<1> QED BY InitInv, NextInv, PTL DEF Spec

\* The variables keep their types.
THEOREM TypeCorrect == Spec => []TypeOK
<1>1. Inv => TypeOK
  BY DEF Inv
<1> QED BY Invariance, <1>1, PTL

\* ATOMIC_LOCK and ATOMIC_UNLOCK give mutual exclusion, for any number of tasks on
\* any number of threads.
THEOREM MutexIsExclusive == Spec => []MutualExclusion
<1>1. Inv => MutualExclusion
  BY DEF Inv
<1> QED BY Invariance, <1>1, PTL

\* The recheck in task_wait_mutex and the early return of mutex_wakeup_task never
\* leave a free mutex with sleepers and nobody about to serve them.
THEOREM MutexLosesNoWakeup == Spec => []NoLostWakeup
<1>1. Inv => NoLostWakeup
  BY DEF Inv
<1> QED BY Invariance, <1>1, PTL

\* Whatever the interleaving of a switch-out with a remote co_resume, a live task
\* stays in a run queue, the wait list or a waker's hands.
THEOREM MutexForgetsNoTask == Spec => []NoTaskForgotten
<1>1. Inv => NoTaskForgotten
  BY DEF Inv
<1> QED BY Invariance, <1>1, PTL

-----------------------------------------------------------------------------
\* With one scheduler a task's link is in the list its program counter says.
Solo ==
    /\ \A t \in Tasks : ~DoublyLinked(t)
    /\ \A t \in Tasks : Running(t) => ~Queued(t)
    /\ \A t \in Tasks : pc[t] = "new" => ~Queued(t) /\ ~Running(t)
    /\ \A t \in Tasks : pc[t] \in {"park", "swap"} => Waiting(t)
    /\ \A t \in Tasks : pc[t] = "swap" => status[t] = "SYS_BLOCK"
    /\ \A t, w \in Tasks :
         pc[t] \in {"mark", "link"} /\ target[t] = w =>
            pc[w] = "cas" /\ ~Queued(w) /\ ~Waiting(w) /\ ~Running(w)

\* Running tasks are unique when there is one scheduler.
LEMMA OneRunner ==
    ASSUME OneScheduler, NEW t \in Tasks, NEW u \in Tasks, Running(t), Running(u)
    PROVE  t = u
BY DEF OneScheduler, Running

\* RR_enqueue queues the task it is given and no other.
LEMMA EnqueueEffect ==
    ASSUME Inv, ThreadOf \in [Tasks -> Threads], ThreadOf' = ThreadOf,
           NEW t \in Tasks, rq' = Enqueued(t)
    PROVE  \A x \in Tasks : Queued(x)' <=> (Queued(x) \/ x = t)
<1>1. \A h \in Threads :
        Members(rq'[h]) = Members(rq[h]) \cup (IF h = ThreadOf[t] THEN {t} ELSE {})
  BY EnqueuedFacts DEF Inv
<1> QED BY <1>1 DEF Queued

\* Init has no link anywhere.
LEMMA InitSolo == Init => Solo
<1> SUFFICES ASSUME Init PROVE Solo
  OBVIOUS
<1>1. ToSet(list_init) = {}
  BY EmptyList
<1>2. \A t \in Tasks : ~Queued(t) /\ ~Waiting(t) /\ ~Running(t) /\ pc[t] = "new"
  BY <1>1, PlacementAssumption DEF Init, Queued, Waiting, Running, Members
<1> QED BY <1>2 DEF Solo, DoublyLinked

\* Steps of a task, other than the ones that move another task's link.
LEMMA OwnStepSolo ==
    ASSUME Inv, Solo, OneScheduler, ThreadOf \in [Tasks -> Threads], ThreadOf' = ThreadOf,
           NEW t \in Tasks,
           TryLock(t) \/ Lock(t) \/ AtomicLock(t) \/ StoreBlocked(t) \/ Unlock(t)
             \/ ResumeMark(t) \/ task_wait_mutex(t)
    PROVE  Solo'
<1>1. UNCHANGED <<rq, current, target>> /\ Running(t)
  BY DEF TryLock, Lock, AtomicLock, StoreBlocked, Unlock, ResumeMark, task_wait_mutex
<1>2. /\ pc \in [Tasks -> PC] /\ status \in [Tasks -> Status]
      /\ target \in [Tasks -> Tasks \cup {NoTask}]
      /\ wait_list \in Seq(Tasks)
  BY DEF Inv, TypeOK
<1>3. \A x \in Tasks : (Queued(x)' <=> Queued(x)) /\ (Running(x)' <=> Running(x))
  BY <1>1 DEF Queued, Running
<1>4. \A x \in Tasks : x # t => (Waiting(x)' <=> Waiting(x))
  <2>1. CASE UNCHANGED wait_list
    BY <2>1 DEF Waiting
  <2>2. CASE wait_list' = list_add_before(wait_list, t)
    BY <1>2, <2>2, AddLast DEF Waiting, Members
  <2> QED BY <2>1, <2>2 DEF TryLock, Lock, AtomicLock, StoreBlocked, Unlock, ResumeMark,
             task_wait_mutex
<1>5. \A x \in Tasks : x # t => /\ pc'[x] = pc[x]
                                /\ pc[x] \notin {"mark", "link", "park", "swap"}
  <2>1. \A x \in Tasks : x # t => ~Running(x)
    BY <1>1, OneRunner
  <2> QED BY <1>2, <2>1 DEF Inv, Wakers, Parked, TryLock, Lock, AtomicLock, StoreBlocked,
             Unlock, ResumeMark, task_wait_mutex
<1>6. ~Queued(t) /\ ~Queued(t)' /\ pc'[t] # "new"
  BY <1>1, <1>2, <1>3 DEF Solo, TryLock, Lock, AtomicLock, StoreBlocked, Unlock, ResumeMark,
     task_wait_mutex
<1>7. pc'[t] \in {"park", "swap"} => Waiting(t)'
  <2>1. CASE StoreBlocked(t)
    BY <1>2, <2>1 DEF StoreBlocked, Solo, Waiting
  <2>2. CASE task_wait_mutex(t)
    BY <1>2, <2>2, AddLast DEF task_wait_mutex, Waiting, Members
  <2>3. CASE TryLock(t) \/ Lock(t) \/ AtomicLock(t) \/ Unlock(t) \/ ResumeMark(t)
    BY <1>2, <2>3 DEF TryLock, Lock, AtomicLock, Unlock, ResumeMark
  <2> QED BY <2>1, <2>2, <2>3
<1>8. pc'[t] = "swap" => status'[t] = "SYS_BLOCK"
  BY <1>2 DEF TryLock, Lock, AtomicLock, StoreBlocked, Unlock, ResumeMark, task_wait_mutex
<1>9. pc'[t] \in {"mark", "link"} =>
        \A w \in Tasks : target[t] = w =>
            pc'[w] = "cas" /\ w # t /\ ~Queued(w) /\ ~Waiting(w) /\ ~Running(w)
  BY <1>2 DEF Inv, Wakers, Solo, TryLock, Lock, AtomicLock, StoreBlocked, Unlock,
              ResumeMark, task_wait_mutex
<1>10. \A x \in Tasks : ~DoublyLinked(x)'
  BY <1>3, <1>4, <1>6 DEF Solo, DoublyLinked
<1>11. \A x \in Tasks : /\ Running(x)' => ~Queued(x)'
                        /\ pc'[x] = "new" => ~Queued(x)' /\ ~Running(x)'
  BY <1>3, <1>5, <1>6 DEF Solo
<1>12. \A x \in Tasks : /\ pc'[x] \in {"park", "swap"} => Waiting(x)'
                        /\ pc'[x] = "swap" => status'[x] = "SYS_BLOCK"
  BY <1>5, <1>7, <1>8
<1>13. ASSUME NEW x \in Tasks, NEW w \in Tasks, pc'[x] \in {"mark", "link"}, target'[x] = w
       PROVE  pc'[w] = "cas" /\ ~Queued(w)' /\ ~Waiting(w)' /\ ~Running(w)'
  <2>1. x = t /\ target[t] = w
    BY <1>1, <1>5, <1>13
  <2> QED BY <1>3, <1>4, <1>9, <1>13, <2>1
<1> QED BY <1>10, <1>11, <1>12, <1>13 DEF Solo

\* co_create, yield, exit and the switch-out: the thread or its own link moves.
LEMMA SwitchSolo ==
    ASSUME Inv, Solo, OneScheduler, ThreadOf \in [Tasks -> Threads], ThreadOf' = ThreadOf,
           NEW t \in Tasks,
           Create(t) \/ Yield(t) \/ Exit(t) \/ SwitchOut(t)
    PROVE  Solo'
<1>1. /\ pc \in [Tasks -> PC] /\ status \in [Tasks -> Status]
      /\ current \in [Threads -> Tasks \cup {NoTask}]
      /\ rq \in [Threads -> Seq(Tasks)]
  BY DEF Inv, TypeOK
<1>2. UNCHANGED <<wait_list, target>>
      /\ \A x \in Tasks : Waiting(x)' <=> Waiting(x)
  BY DEF Create, Yield, Exit, SwitchOut, Waiting, Solo
<1>3. CASE Create(t)
  <2>1. /\ UNCHANGED current /\ pc[t] = "new" /\ rq' = Enqueued(t)
        /\ pc' = [pc EXCEPT ![t] = "idle"]
        /\ status' = [status EXCEPT ![t] = "RUNNABLE"]
    BY <1>3 DEF Create
  <2>2. \A x \in Tasks : /\ Queued(x)' <=> (Queued(x) \/ x = t)
                         /\ Running(x)' <=> Running(x)
    BY <2>1, EnqueueEffect DEF Running
  <2>3. ~Waiting(t) /\ ~Running(t)
    BY <2>1 DEF Inv, Waiters, Solo
  <2> QED BY <1>1, <1>2, <2>1, <2>2, <2>3 DEF Solo, DoublyLinked
<1>4. CASE Yield(t)
  <2>1. /\ UNCHANGED <<pc, status>> /\ pc[t] \in {"idle", "cs"} /\ rq' = Enqueued(t)
        /\ Running(t)
        /\ current' = [current EXCEPT ![ThreadOf[t]] = NoTask]
    BY <1>4 DEF Yield
  <2>2. \A x \in Tasks : /\ Queued(x)' <=> (Queued(x) \/ x = t)
                         /\ ~Running(x)'
    BY <1>1, <2>1, EnqueueEffect DEF Running, OneScheduler
  <2>3. ~Waiting(t)
    BY <2>1 DEF Inv, Waiters
  <2>4. \A x \in Tasks : pc[x] \notin {"mark", "link"}
    BY <2>1, OneRunner DEF Inv, Wakers
  <2> QED BY <1>2, <2>1, <2>2, <2>3, <2>4 DEF Solo, DoublyLinked
<1>5. CASE Exit(t)
  <2>1. /\ UNCHANGED <<wait_list, target>>
        /\ Running(t)
        /\ pc' = [pc EXCEPT ![t] = "dead"]
        /\ status' = [status EXCEPT ![t] = "KILLED"]
        /\ current' = [current EXCEPT ![ThreadOf[t]] = NoTask]
        /\ rq' = [rq EXCEPT ![ThreadOf[t]] = list_delete(@, t)]
        /\ pc[t] = "idle"
    BY <1>5 DEF Exit
  <2>2. \A h \in Threads : Members(list_delete(rq[h], t)) = Members(rq[h]) \ {t}
    BY <1>1, DeleteElement DEF Inv, Lists, Members
  <2>3. \A x \in Tasks : Queued(x)' => Queued(x)
    BY <1>1, <2>1, <2>2 DEF Queued
  <2>4. \A x \in Tasks : ~Running(x)'
    BY <1>1, <2>1 DEF Running, OneScheduler
  <2>5. \A x \in Tasks : pc[x] \notin {"mark", "link"}
    BY <2>1, OneRunner DEF Inv, Wakers
  <2> QED BY <1>1, <1>2, <2>1, <2>3, <2>4, <2>5 DEF Solo, DoublyLinked
<1>6. CASE SwitchOut(t)
  <2>1. /\ UNCHANGED <<rq, status>>
        /\ Running(t) /\ pc[t] = "swap"
        /\ pc' = [pc EXCEPT ![t] = "cas"]
        /\ current' = [current EXCEPT ![ThreadOf[t]] = NoTask]
    BY <1>6 DEF SwitchOut, Solo
  <2>2. \A x \in Tasks : (Queued(x)' <=> Queued(x)) /\ ~Running(x)'
    BY <1>1, <2>1 DEF Queued, Running, OneScheduler
  <2>3. \A x \in Tasks : pc[x] \notin {"mark", "link"}
    BY <2>1, OneRunner DEF Inv, Wakers
  <2> QED BY <1>1, <1>2, <2>1, <2>2, <2>3 DEF Solo, DoublyLinked
<1> QED BY <1>3, <1>4, <1>5, <1>6

\* schedule(): no waker is active while the thread is between tasks.
LEMMA DispatchSolo ==
    ASSUME Inv, Solo, OneScheduler, ThreadOf \in [Tasks -> Threads], ThreadOf' = ThreadOf,
           NEW h \in Threads, Dispatch(h)
    PROVE  Solo'
<1>1. /\ rq[h] \in Seq(Tasks) /\ ~list_empty(rq[h]) /\ WellLinked(rq[h])
      /\ current \in [Threads -> Tasks \cup {NoTask}]
      /\ rq \in [Threads -> Seq(Tasks)]
      /\ status \in [Tasks -> Status]
  BY DEF Inv, TypeOK, Lists, Dispatch
<1>2. list_next(rq[h]) \in Tasks
  BY <1>1, TakeFirst
<1> PICK t \in Tasks : t = list_next(rq[h])
  BY <1>2
<1>3. /\ t \in Members(rq[h])
      /\ Members(rq[h]) = Members(Tail(rq[h])) \cup {t}
      /\ t \notin Members(Tail(rq[h]))
  BY <1>1, TakeFirst DEF Members
<1>4. /\ UNCHANGED <<lock, wait_list, pc, target>>
      /\ current[h] = NoTask
      /\ current' = [current EXCEPT ![h] = t]
      /\ status' = [status EXCEPT ![t] = "RUNNABLE"]
      /\ rq' = [rq EXCEPT ![h] = Tail(rq[h])]
  BY DEF Dispatch
<1>5. \A x \in Tasks : ThreadOf[x] = h
  BY <1>3 DEF Inv, Lists, OneScheduler
<1>6. \A x \in Tasks : /\ Queued(x)' <=> (Queued(x) /\ x # t)
                       /\ Running(x)' <=> x = t
                       /\ Waiting(x)' <=> Waiting(x)
                       /\ ~Running(x)
  BY <1>1, <1>3, <1>4, <1>5 DEF Queued, Running, Waiting
<1>7. \A x \in Tasks : pc[x] \notin {"mark", "link", "park", "swap"}
  BY <1>6 DEF Inv, Wakers, Parked
<1>8. Queued(t)
  BY <1>3, <1>5 DEF Queued
<1> QED BY <1>4, <1>6, <1>7, <1>8 DEF Solo, DoublyLinked

\* mutex_wakeup_task and RR_enqueue: the waiter is asleep, in no list, when it is
\* queued.
LEMMA WakeSolo ==
    ASSUME Inv, Solo, OneScheduler, ThreadOf \in [Tasks -> Threads], ThreadOf' = ThreadOf,
           NEW t \in Tasks,
           mutex_wakeup_task(t) \/ ResumeLink(t)
    PROVE  Solo'
<1>1. /\ pc \in [Tasks -> PC] /\ target \in [Tasks -> Tasks \cup {NoTask}]
      /\ wait_list \in Seq(Tasks) /\ WellLinked(wait_list)
  BY DEF Inv, TypeOK, Lists
<1>2. /\ UNCHANGED <<lock, current, status>> /\ Running(t)
      /\ pc[t] \in {"wake", "link"}
      /\ \A x \in Tasks : Running(x)' <=> Running(x)
  BY DEF mutex_wakeup_task, ResumeLink, Running
<1>3. \A x \in Tasks : x # t =>
        ~Running(x) /\ pc[x] \notin {"mark", "link", "park", "swap"}
  BY <1>2, OneRunner DEF Inv, Wakers, Parked
<1>4. CASE mutex_wakeup_task(t) /\ UNCHANGED wait_list
  <2>1. UNCHANGED rq /\ pc' = [pc EXCEPT ![t] = "idle"]
    <3>1. CASE list_empty(wait_list) \/ lock # NoTask
      BY <1>4, <3>1 DEF mutex_wakeup_task
    <3>2. CASE ~(list_empty(wait_list) \/ lock # NoTask)
      <4>1. wait_list' = Tail(wait_list)
        BY <1>4, <3>2 DEF mutex_wakeup_task
      <4>2. Tail(wait_list) # wait_list
        BY <1>1, <3>2, TakeFirst
      <4> QED BY <1>4, <4>1, <4>2
    <3> QED BY <3>1, <3>2
  <2>2. \A x \in Tasks : (Queued(x)' <=> Queued(x)) /\ (Waiting(x)' <=> Waiting(x))
    BY <1>4, <2>1 DEF Queued, Waiting
  <2> QED BY <1>1, <1>2, <1>3, <2>1, <2>2 DEF Solo, DoublyLinked
<1>5. CASE mutex_wakeup_task(t) /\ wait_list' # wait_list
  <2>1. /\ UNCHANGED rq
        /\ ~list_empty(wait_list)
        /\ target' = [target EXCEPT ![t] = list_next(wait_list)]
        /\ wait_list' = Tail(wait_list)
        /\ pc' = [pc EXCEPT ![t] = "mark"]
        /\ pc[t] = "wake"
    BY <1>5 DEF mutex_wakeup_task
  <2>2. list_next(wait_list) \in Tasks
    BY <1>1, <2>1, TakeFirst
  <2> PICK w \in Tasks : w = list_next(wait_list)
    BY <2>2
  <2>3. /\ Members(wait_list) = Members(wait_list') \cup {w}
        /\ w \notin Members(wait_list')
    BY <1>1, <2>1, TakeFirst DEF Members
  <2>4. \A x \in Tasks : /\ Queued(x)' <=> Queued(x)
                         /\ Waiting(x)' <=> (Waiting(x) /\ x # w)
    BY <2>1, <2>3 DEF Queued, Waiting
  <2>5. Waiting(w) /\ w # t
    BY <2>1, <2>3 DEF Waiting, Inv, Waiters
  <2>6. pc[w] = "cas" /\ ~Queued(w) /\ ~Running(w)
    BY <1>3, <2>5 DEF Inv, Waiters, Solo, DoublyLinked
  <2>7. pc'[w] = "cas" /\ target'[t] = w /\ pc'[t] = "mark"
    BY <1>1, <2>1, <2>5, <2>6
  <2>8. \A x \in Tasks : x # t => pc'[x] = pc[x]
    BY <1>1, <2>1
  <2>9. \A x \in Tasks : /\ ~DoublyLinked(x)'
                         /\ Running(x)' => ~Queued(x)'
                         /\ pc'[x] = "new" => ~Queued(x)' /\ ~Running(x)'
                         /\ pc'[x] \notin {"park", "swap"}
    BY <1>2, <1>3, <2>4, <2>7, <2>8 DEF Solo, DoublyLinked
  <2>10. ASSUME NEW x \in Tasks, NEW y \in Tasks,
                pc'[x] \in {"mark", "link"}, target'[x] = y
         PROVE  pc'[y] = "cas" /\ ~Queued(y)' /\ ~Waiting(y)' /\ ~Running(y)'
    <3>1. x = t /\ y = w
      BY <1>3, <2>7, <2>8, <2>10
    <3> QED BY <1>2, <2>4, <2>6, <2>7, <3>1
  <2> QED BY <2>9, <2>10 DEF Solo
<1>6. CASE ResumeLink(t)
  <2> PICK w \in Tasks : w = target[t]
    BY <1>6 DEF Inv, Wakers, ResumeLink
  <2>1. /\ rq' = Enqueued(w)
        /\ wait_list' = list_delete(wait_list, w)
        /\ pc' = [pc EXCEPT ![t] = "idle"]
        /\ pc[t] = "link"
    BY <1>6 DEF ResumeLink
  <2>2. \A x \in Tasks : Queued(x)' <=> (Queued(x) \/ x = w)
    BY <2>1, EnqueueEffect
  <2>3. pc[w] = "cas" /\ ~Queued(w) /\ ~Waiting(w) /\ ~Running(w) /\ w # t
    BY <2>1 DEF Solo
  <2>4. Members(wait_list') = Members(wait_list) \ {w}
    BY <1>1, <2>1, DeleteElement DEF Members
  <2>5. \A x \in Tasks : Waiting(x)' <=> Waiting(x)
    BY <2>3, <2>4 DEF Waiting
  <2>6. \A x \in Tasks : x # t => pc'[x] = pc[x]
    BY <1>1, <2>1
  <2>7. pc'[t] = "idle"
    BY <1>1, <2>1
  <2> QED BY <1>2, <1>3, <2>2, <2>3, <2>5, <2>6, <2>7 DEF Solo, DoublyLinked
<1> QED BY <1>4, <1>5, <1>6

\* Every step keeps Solo, given Inv and one scheduler.
LEMMA NextSolo ==
    ASSUME OneScheduler, Inv, Solo, [Next]_vars
    PROVE  Solo'
<1>0. ThreadOf \in [Tasks -> Threads] /\ ThreadOf' = ThreadOf
  BY NextStays
<1>1. CASE UNCHANGED vars
  BY <1>1 DEF vars, Solo, DoublyLinked, Running, Queued, Waiting
<1>2. ASSUME NEW h \in Threads, Dispatch(h) PROVE Solo'
  BY <1>0, <1>2, DispatchSolo
<1>3. ASSUME NEW t \in Tasks, Create(t) \/ TaskStep(t) PROVE Solo'
  BY <1>0, <1>3, OwnStepSolo, SwitchSolo, WakeSolo DEF TaskStep
<1> QED BY <1>1, <1>2, <1>3 DEF Next

\* When every user of the mutex lives on one thread, the single link of a task is
\* never in two lists and no waker holds a freed task: the two halves of co_resume
\* cannot be separated by a step of the resumed task.
THEOREM OneSchedulerIsSafe == Spec => []OneThreadSafe
<1> DEFINE J == Inv /\ (OneScheduler => Solo)
<1>1. Init => J
  BY InitInv, InitSolo
<1>2. J /\ [Next]_vars => J'
  <2> SUFFICES ASSUME J, [Next]_vars PROVE J'
    OBVIOUS
  <2>1. Inv'
    BY NextInv
  <2>2. ThreadOf' = ThreadOf
    BY NextStays
  <2>3. OneScheduler' => OneScheduler
    BY <2>2 DEF OneScheduler
  <2> QED BY <2>1, <2>3, NextSolo
<1>3. J => OneThreadSafe
  BY DEF Inv, Wakers, Solo, OneThreadSafe, LinkInOneList, Intact, WakerTargetAlive
<1> QED BY <1>1, <1>2, <1>3, PTL DEF Spec

=============================================================================
