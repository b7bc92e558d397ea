------------------------------ MODULE CoMutex -------------------------------
(***************************************************************************)
(* The coroutine mutex of libcask (co_mutex.c) and the part of the         *)
(* scheduler it stands on (task_sched.c, sched_RR.c): tasks are bound to   *)
(* threads, every thread runs one task at a time from its own run queue,   *)
(* and a task that finds the mutex taken parks its only link in the        *)
(* mutex's wait list.                                                      *)
(*                                                                         *)
(* One action is one step another thread can observe: a compare-and-swap,  *)
(* a section under a spin lock, or a single store.  The run queue of a     *)
(* thread and the wait list share the task's link, so co_resume, which is  *)
(* a store to the status followed by an insertion, is two actions.         *)
(***************************************************************************)
EXTENDS CaskList, FiniteSets

CONSTANTS
    Tasks,      \* the coroutines that use the mutex
    Threads,    \* the threads that run a scheduler
    Placements, \* on which threads the tasks may be created
    NoTask      \* NULL

ASSUME PlacementAssumption == Placements \subseteq [Tasks -> Threads]
ASSUME NoTaskAssumption == NoTask \notin Tasks

VARIABLES
    ThreadOf,   \* t->sched: the scheduler a task is bound to for life
    lock,       \* mutex->lock: the owner, or NULL
    wait_list,  \* mutex->wait_list
    rq,         \* sched->rq.run_list of every thread
    current,    \* g_current of every thread: NULL while it is in schedule()
    status,     \* t->status
    pc,         \* where a task stands in its calls on the mutex
    target      \* the task a mutex_wakeup_task call has taken off the list

vars == <<ThreadOf, lock, wait_list, rq, current, status, pc, target>>

\* The statuses a task that uses the mutex can have; the enumeration also has IO_BLOCK
\* and others for tasks that wait for descriptors.
Status == {"READY", "RUNNABLE", "SYS_BLOCK", "KILLED"}

\* new: not created; idle: outside the mutex; cas: at ATOMIC_LOCK; wait: entering
\* task_wait_mutex; park: linked in the wait list, status not yet stored; swap:
\* status stored, still on its stack; cs: holds the mutex; wake: unlocked it and
\* about to look for a waiter; mark and link: the two halves of co_resume.
PC == {"new", "idle", "cas", "wait", "park", "swap", "cs", "wake", "mark",
       "link", "dead"}

Members(list) == ToSet(list)

TypeOK ==
    /\ ThreadOf \in [Tasks -> Threads]
    /\ lock \in Tasks \cup {NoTask}
    /\ wait_list \in Seq(Tasks)
    /\ rq \in [Threads -> Seq(Tasks)]
    /\ current \in [Threads -> Tasks \cup {NoTask}]
    /\ status \in [Tasks -> Status]
    /\ pc \in [Tasks -> PC]
    /\ target \in [Tasks -> Tasks \cup {NoTask}]

-----------------------------------------------------------------------------
Running(t) == current[ThreadOf[t]] = t

Queued(t) == t \in Members(rq[ThreadOf[t]])

Waiting(t) == t \in Members(wait_list)

\* The single link of t is threaded through two lists at once: from here on the
\* pointers of both lists are garbage, and the model stops.
DoublyLinked(t) == Queued(t) /\ Waiting(t)

Intact == \A t \in Tasks : ~DoublyLinked(t)

\* Run queue of t's thread after RR_enqueue(t).
Enqueued(t) ==
    [rq EXCEPT ![ThreadOf[t]] = list_add_before(list_delete(@, t), t)]

-----------------------------------------------------------------------------
Init ==
    /\ ThreadOf \in Placements
    /\ lock = NoTask
    /\ wait_list = list_init
    /\ rq = [h \in Threads |-> list_init]
    /\ current = [h \in Threads |-> NoTask]
    /\ status = [t \in Tasks |-> "READY"]
    /\ pc = [t \in Tasks |-> "new"]
    /\ target = [t \in Tasks |-> NoTask]

\* co_create: task_create and sched_rq_enqueue on the creating thread.
Create(t) ==
    /\ pc[t] = "new"
    /\ pc' = [pc EXCEPT ![t] = "idle"]
    /\ status' = [status EXCEPT ![t] = "RUNNABLE"]
    /\ rq' = Enqueued(t)
    /\ UNCHANGED <<ThreadOf, lock, wait_list, current, target>>

\* Faulty variant of Dispatch: without sched_rq_dequeue.
DispatchStillQueued(h) ==
    /\ current[h] = NoTask
    /\ ~list_empty(rq[h])
    /\ LET t == list_next(rq[h]) IN
        /\ current' = [current EXCEPT ![h] = t]
        /\ status' = [status EXCEPT ![t] = "RUNNABLE"]
    /\ UNCHANGED <<ThreadOf, lock, wait_list, rq, pc, target>>

\* schedule(): pick the head of the run queue, dequeue it, switch to it.
Dispatch(h) ==
    /\ current[h] = NoTask
    /\ ~list_empty(rq[h])
    /\ LET t == list_next(rq[h]) IN
        /\ current' = [current EXCEPT ![h] = t]
        /\ status' = [status EXCEPT ![t] = "RUNNABLE"]
        /\ rq' = [rq EXCEPT ![h] = Tail(@)]
    /\ UNCHANGED <<ThreadOf, lock, wait_list, pc, target>>

\* co_yield by a task that stays runnable: schedule() enqueues it again.
Yield(t) ==
    /\ Running(t)
    /\ pc[t] \in {"idle", "cs"}
    /\ current' = [current EXCEPT ![ThreadOf[t]] = NoTask]
    /\ rq' = Enqueued(t)
    /\ UNCHANGED <<ThreadOf, lock, wait_list, status, pc, target>>

\* task_exit and the scheduler's task_destory, which unlinks the task.
Exit(t) ==
    /\ Running(t)
    /\ pc[t] = "idle"
    /\ pc' = [pc EXCEPT ![t] = "dead"]
    /\ status' = [status EXCEPT ![t] = "KILLED"]
    /\ current' = [current EXCEPT ![ThreadOf[t]] = NoTask]
    /\ rq' = [rq EXCEPT ![ThreadOf[t]] = list_delete(@, t)]
    /\ UNCHANGED <<ThreadOf, lock, wait_list, target>>

-----------------------------------------------------------------------------
\* Faulty variant of TryLock: a plain store in place of the compare-and-swap.
TryLockByStore(t) ==
    /\ Running(t)
    /\ pc[t] = "idle"
    /\ lock' = t
    /\ pc' = [pc EXCEPT ![t] = "cs"]
    /\ UNCHANGED <<ThreadOf, wait_list, rq, current, status, target>>

\* co_mutex_try_lock by a task that does not own the mutex.
TryLock(t) ==
    /\ Running(t)
    /\ pc[t] = "idle"
    /\ lock = NoTask
    /\ lock' = t
    /\ pc' = [pc EXCEPT ![t] = "cs"]
    /\ UNCHANGED <<ThreadOf, wait_list, rq, current, status, target>>

\* co_mutex_lock: entry, up to the loop.
Lock(t) ==
    /\ Running(t)
    /\ pc[t] = "idle"
    /\ pc' = [pc EXCEPT ![t] = "cas"]
    /\ UNCHANGED <<ThreadOf, lock, wait_list, rq, current, status, target>>

\* ATOMIC_LOCK in the loop of co_mutex_lock.
AtomicLock(t) ==
    /\ Running(t)
    /\ pc[t] = "cas"
    /\ \/ /\ lock = NoTask
          /\ lock' = t
          /\ pc' = [pc EXCEPT ![t] = "cs"]
       \/ /\ lock # NoTask
          /\ pc' = [pc EXCEPT ![t] = "wait"]
          /\ UNCHANGED lock
    /\ UNCHANGED <<ThreadOf, wait_list, rq, current, status, target>>

\* Faulty variant of task_wait_mutex: no second look at the mutex.
WaitWithoutRecheck(t) ==
    /\ Running(t)
    /\ pc[t] = "wait"
    /\ wait_list' = list_add_before(wait_list, t)
    /\ pc' = [pc EXCEPT ![t] = "park"]
    /\ UNCHANGED <<ThreadOf, lock, rq, current, status, target>>

\* The section of task_wait_mutex under wait_lock: test the mutex again, and
\* queue the task only if it is still taken.
task_wait_mutex(t) ==
    /\ Running(t)
    /\ pc[t] = "wait"
    /\ \/ /\ lock = NoTask
          /\ pc' = [pc EXCEPT ![t] = "cas"]
          /\ UNCHANGED wait_list
       \/ /\ lock # NoTask
          /\ wait_list' = list_add_before(wait_list, t)
          /\ pc' = [pc EXCEPT ![t] = "park"]
    /\ UNCHANGED <<ThreadOf, lock, rq, current, status, target>>

\* Faulty variant of StoreBlocked: co_io_yield in place of co_sync_yield.
StoreIoBlocked(t) ==
    /\ Running(t)
    /\ pc[t] = "park"
    /\ status' = [status EXCEPT ![t] = "IO_BLOCK"]
    /\ pc' = [pc EXCEPT ![t] = "swap"]
    /\ UNCHANGED <<ThreadOf, lock, wait_list, rq, current, target>>

\* co_sync_yield, first half: the task stores its own status.
StoreBlocked(t) ==
    /\ Running(t)
    /\ pc[t] = "park"
    /\ status' = [status EXCEPT ![t] = "SYS_BLOCK"]
    /\ pc' = [pc EXCEPT ![t] = "swap"]
    /\ UNCHANGED <<ThreadOf, lock, wait_list, rq, current, target>>

\* co_sync_yield, second half: switch to schedule(), which looks at the status
\* the task has by then and enqueues it if a waker has made it runnable, out of any list
\* its link has got into.
SwitchOut(t) ==
    /\ Running(t)
    /\ pc[t] = "swap"
    /\ current' = [current EXCEPT ![ThreadOf[t]] = NoTask]
    /\ pc' = [pc EXCEPT ![t] = "cas"]
    /\ \/ /\ status[t] = "RUNNABLE"
          /\ rq' = Enqueued(t)
          /\ wait_list' = list_delete(wait_list, t)
       \/ /\ status[t] # "RUNNABLE"
          /\ UNCHANGED <<rq, wait_list>>
    /\ UNCHANGED <<ThreadOf, lock, status, target>>

\* Faulty variant of Unlock: returns without mutex_wakeup_task.
UnlockOnly(t) ==
    /\ Running(t)
    /\ pc[t] = "cs"
    /\ lock = t
    /\ lock' = NoTask
    /\ pc' = [pc EXCEPT ![t] = "idle"]
    /\ UNCHANGED <<ThreadOf, wait_list, rq, current, status, target>>

\* co_mutex_unlock: ATOMIC_UNLOCK.
Unlock(t) ==
    /\ Running(t)
    /\ pc[t] = "cs"
    /\ lock = t
    /\ lock' = NoTask
    /\ pc' = [pc EXCEPT ![t] = "wake"]
    /\ UNCHANGED <<ThreadOf, wait_list, rq, current, status, target>>

\* The section of mutex_wakeup_task under wait_lock: leave the waiters alone if
\* somebody took the mutex meanwhile, else take the first one off the list.
mutex_wakeup_task(t) ==
    /\ Running(t)
    /\ pc[t] = "wake"
    /\ \/ /\ lock # NoTask \/ list_empty(wait_list)
          /\ pc' = [pc EXCEPT ![t] = "idle"]
          /\ UNCHANGED <<wait_list, target>>
       \/ /\ lock = NoTask
          /\ ~list_empty(wait_list)
          /\ target' = [target EXCEPT ![t] = list_next(wait_list)]
          /\ wait_list' = Tail(wait_list)
          /\ pc' = [pc EXCEPT ![t] = "mark"]
    /\ UNCHANGED <<ThreadOf, lock, rq, current, status>>

\* co_resume, first half: t->status = RUNNABLE.
ResumeMark(t) ==
    /\ Running(t)
    /\ pc[t] = "mark"
    /\ status' = [status EXCEPT ![target[t]] = "RUNNABLE"]
    /\ pc' = [pc EXCEPT ![t] = "link"]
    /\ UNCHANGED <<ThreadOf, lock, wait_list, rq, current, target>>

\* Faulty variant of ResumeLink: a waiter still on its stack is not enqueued.
ResumeSleepersOnly(t) ==
    /\ Running(t)
    /\ pc[t] = "link"
    /\ rq' = IF Running(target[t]) THEN rq ELSE Enqueued(target[t])
    /\ wait_list' = list_delete(wait_list, target[t])
    /\ target' = [target EXCEPT ![t] = NoTask]
    /\ pc' = [pc EXCEPT ![t] = "idle"]
    /\ UNCHANGED <<ThreadOf, lock, current, status>>

\* co_resume, second half: RR_enqueue on the queue of the waiter's own thread.
\* list_delete takes its link out of any list it has got into since the first
\* half; a task that has exited since then is freed memory, and stops the model.
ResumeLink(t) ==
    /\ Running(t)
    /\ pc[t] = "link"
    /\ pc[target[t]] # "dead"
    /\ rq' = Enqueued(target[t])
    /\ wait_list' = list_delete(wait_list, target[t])
    /\ target' = [target EXCEPT ![t] = NoTask]
    /\ pc' = [pc EXCEPT ![t] = "idle"]
    /\ UNCHANGED <<ThreadOf, lock, current, status>>

-----------------------------------------------------------------------------
TaskStep(t) ==
    \/ TryLock(t) \/ Lock(t) \/ AtomicLock(t) \/ task_wait_mutex(t)
    \/ StoreBlocked(t) \/ SwitchOut(t) \/ Unlock(t) \/ mutex_wakeup_task(t)
    \/ ResumeMark(t) \/ ResumeLink(t) \/ Yield(t) \/ Exit(t)

Next ==
    /\ Intact
    /\ \/ \E h \in Threads : Dispatch(h)
       \/ \E t \in Tasks : Create(t) \/ TaskStep(t)

\* What a task inside an operation of the mutex does next.
MutexStep(t) ==
    \/ AtomicLock(t) \/ task_wait_mutex(t) \/ StoreBlocked(t) \/ SwitchOut(t)
    \/ Unlock(t) \/ mutex_wakeup_task(t) \/ ResumeMark(t) \/ ResumeLink(t)

Spec == Init /\ [][Next]_vars

\* Every thread keeps dispatching, a task inside an operation of the mutex runs on
\* to its end, and a task outside the mutex gives its thread back in the end (the
\* scheduler never preempts).  Nothing makes a task lock or try to lock.
FairSpec ==
    /\ Spec
    /\ \A h \in Threads : WF_vars(Intact /\ Dispatch(h))
    /\ \A t \in Tasks : WF_vars(Intact /\ MutexStep(t))
    /\ \A t \in Tasks : WF_vars(Intact /\ pc[t] = "idle" /\ (Yield(t) \/ Exit(t)))

-----------------------------------------------------------------------------
\* At most one task believes it holds the mutex, and it is the one whose address
\* the lock word holds (ATOMIC_LOCK, ATOMIC_UNLOCK, co_mutex_try_lock).
MutualExclusion ==
    \A t \in Tasks : (pc[t] = "cs") <=> (lock = t)

\* A free mutex with waiters always has somebody who will serve them: the task
\* that unlocked it has not looked at the list yet, or a task that is not on the
\* list is about to try the lock and will look when it unlocks.  The two early
\* returns (task_wait_mutex's recheck, mutex_wakeup_task's "relief competition")
\* must not both decide to leave it to the other side.
NoLostWakeup ==
    (lock = NoTask /\ wait_list # <<>>) =>
        \E t \in Tasks :
            \/ pc[t] = "wake"
            \/ pc[t] \in {"cas", "wait", "park", "swap"} /\ ~Waiting(t)

\* The waker that will call RR_enqueue(t).
Targeted(t) ==
    \E u \in Tasks : target[u] = t /\ pc[u] \in {"mark", "link"}

\* No live task is forgotten by everybody: it runs, or a run queue, the wait list
\* or a waker in the middle of co_resume still knows it, whatever the order in
\* which its own switch-out and a remote wake-up take effect.
NoTaskForgotten ==
    \A t \in Tasks :
        \/ pc[t] \in {"new", "dead"}
        \/ Running(t)
        \/ Queued(t)
        \/ Waiting(t)
        \/ Targeted(t)

\* A task's only link is in one list at a time: a task never joins the wait list
\* while a late RR_enqueue has it in a run queue.
LinkInOneList == Intact

\* A waker in the middle of co_resume never holds a task that has exited and been
\* freed by its own scheduler.
WakerTargetAlive ==
    \A t \in Tasks : pc[t] = "link" => pc[target[t]] # "dead"

\* All tasks are on one thread.
OneScheduler == \A t, u \in Tasks : ThreadOf[t] = ThreadOf[u]

\* On one thread a task's only link is in one list at a time, and no waker in the middle of
\* co_resume holds a task that has exited and been freed: nothing comes between the two
\* halves of co_resume.
OneThreadSafe == OneScheduler => LinkInOneList /\ WakerTargetAlive

Locking(t) == pc[t] \in {"cas", "wait", "park", "swap"}

Outside(t) == pc[t] \in {"new", "idle", "dead"}

\* On one thread, if the other tasks stop using the mutex, a task in co_mutex_lock gets
\* it: no unlock forgets the last waiter.
OneThreadServes ==
    OneScheduler =>
        \A t \in Tasks :
            <>[](\A u \in Tasks \ {t} : Outside(u)) =>
                (Locking(t) ~> pc[t] = "cs")

=============================================================================
