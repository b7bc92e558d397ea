-------------------------------- MODULE CoSem --------------------------------
(***************************************************************************)
(* The coroutine semaphore of libcask, co_sem.c: a count that is changed   *)
(* with atomic instructions and a list of waiters under a spin lock.       *)
(* Tasks of different threads wait, try and post; every atomic instruction *)
(* is a step of its own, and so is every section under the lock.  A post   *)
(* resumes the task it took off the list after it has given the lock back, *)
(* with a store to the status and an insertion into the run queue, which   *)
(* other threads may come between (see CoMutex).                           *)
(***************************************************************************)
EXTENDS CaskList, Integers, FiniteSets

CONSTANTS
    Tasks,      \* the tasks, each on a thread of its own
    NoTask,     \* NULL
    Count,      \* the initial count
    MaxPosts,   \* bound on the posts
    MaxTakes    \* bound on the waits and tries

SemAssumption ==
    /\ Count \in Nat /\ MaxPosts \in Nat /\ MaxTakes \in Nat
    /\ NoTask \notin Tasks

VARIABLES
    sem,        \* s->sem
    wait_list,  \* s->wait_list
    rq,         \* the tasks whose link is in the run queue of their thread
    running,    \* the tasks that are on the processor of their thread
    blocked,    \* the tasks whose status is SYS_BLOCK; the others are RUNNABLE
    pc,         \* program counter of the tasks
    target,     \* the task a post has taken off the list and is about to resume
    posts,      \* posts so far
    calls,      \* waits and tries so far
    takes,      \* the waits that returned and the tries that returned 1
    sleeps      \* how often a task was put on the list

vars == <<sem, wait_list, rq, running, blocked, pc, target, posts, calls, takes, sleeps>>

Init ==
    /\ sem = Count /\ wait_list = list_init
    /\ rq = {} /\ running = Tasks /\ blocked = {}
    /\ pc = [t \in Tasks |-> "idle"] /\ target = [t \in Tasks |-> NoTask]
    /\ posts = 0 /\ calls = 0 /\ takes = 0 /\ sleeps = 0

Go(t, p) == pc' = [pc EXCEPT ![t] = p]

\* The only link of a task is threaded through the run queue and the wait list at once: from
\* here on the pointers of both are garbage, and the model stops.
Intact == rq \cap ToSet(wait_list) = {}

\* RR_enqueue: list_delete takes the link out of any list it is in, then it is queued.
RR_enqueue(t) ==
    /\ wait_list' = list_delete(wait_list, t)
    /\ rq' = rq \cup {t}

-----------------------------------------------------------------------------
\* atomic_dec_and_negative, in a wait or in a try: the unit is taken, or not.
Decrement(t, p) ==
    /\ sem' = sem - 1
    /\ IF sem - 1 < 0 THEN Go(t, p) /\ UNCHANGED takes
                      ELSE Go(t, "idle") /\ takes' = takes + 1

\* co_sem_wait is called, or goes round its loop after a wake-up.
co_sem_wait(t) ==
    /\ t \in running
    /\ \/ pc[t] = "idle" /\ calls < MaxTakes /\ calls' = calls + 1
       \/ pc[t] = "again" /\ UNCHANGED calls
    /\ Decrement(t, "waiting")
    /\ UNCHANGED <<wait_list, rq, running, blocked, target, posts, sleeps>>

\* Mutant of WaitLocked: the count is not looked at again under the lock, and the unit that
\* was posted meanwhile is taken as one of its own.
WaitUnchecked(t) ==
    /\ pc[t] = "waiting" /\ Go(t, "idle") /\ takes' = takes + 1
    /\ UNCHANGED <<sem, wait_list, rq, running, blocked, target, posts, calls, sleeps>>

\* Under the lock: a unit was posted meanwhile, or the task goes on the list.
WaitLocked(t) ==
    /\ pc[t] = "waiting"
    /\ IF sem >= 0
       THEN Go(t, "idle") /\ takes' = takes + 1 /\ UNCHANGED <<wait_list, sleeps>>
       ELSE /\ wait_list' = list_add_before(wait_list, t) /\ Go(t, "park")
            /\ sleeps' = sleeps + 1 /\ UNCHANGED takes
    /\ UNCHANGED <<sem, rq, running, blocked, target, posts, calls>>

\* co_sync_yield, first half: the task stores its own status.
StoreBlocked(t) ==
    /\ pc[t] = "park" /\ Go(t, "swap")
    /\ blocked' = blocked \cup {t}
    /\ UNCHANGED <<sem, wait_list, rq, running, target, posts, calls, takes, sleeps>>

\* co_sync_yield, second half: schedule() looks at the status the task has by then, and
\* enqueues it if a post has made it runnable.
SwitchOut(t) ==
    /\ pc[t] = "swap" /\ Go(t, "again")
    /\ running' = running \ {t}
    /\ IF t \in blocked THEN UNCHANGED <<wait_list, rq>> ELSE RR_enqueue(t)
    /\ UNCHANGED <<sem, blocked, target, posts, calls, takes, sleeps>>

\* co_yield by a task outside the semaphore: schedule() enqueues it again.
Yield(t) ==
    /\ pc[t] = "idle" /\ t \in running
    /\ running' = running \ {t} /\ RR_enqueue(t)
    /\ UNCHANGED <<sem, blocked, pc, target, posts, calls, takes, sleeps>>

\* schedule() of the task's thread: dequeue it and switch to it.
Dispatch(t) ==
    /\ t \in rq /\ t \notin running
    /\ rq' = rq \ {t} /\ running' = running \cup {t} /\ blocked' = blocked \ {t}
    /\ UNCHANGED <<sem, wait_list, pc, target, posts, calls, takes, sleeps>>

-----------------------------------------------------------------------------
co_sem_try_wait(t) ==
    /\ t \in running /\ pc[t] = "idle" /\ calls < MaxTakes /\ calls' = calls + 1
    /\ Decrement(t, "trying")
    /\ UNCHANGED <<wait_list, rq, running, blocked, target, posts, sleeps>>

TryLocked(t) ==
    /\ pc[t] = "trying" /\ Go(t, "idle")
    /\ IF sem >= 0 THEN takes' = takes + 1 /\ UNCHANGED sem
                   ELSE sem' = sem + 1 /\ UNCHANGED takes
    /\ UNCHANGED <<wait_list, rq, running, blocked, target, posts, calls, sleeps>>

\* atomic_inc_and_negative: only a count that is still negative makes it look for a waiter.
co_sem_post(t) ==
    /\ t \in running /\ pc[t] = "idle" /\ posts < MaxPosts /\ posts' = posts + 1
    /\ sem' = sem + 1
    /\ Go(t, IF sem + 1 < 0 THEN "posting" ELSE "idle")
    /\ UNCHANGED <<wait_list, rq, running, blocked, target, calls, takes, sleeps>>

\* Under the lock: the first task comes off the list, unless the count has recovered.
PostLocked(t) ==
    /\ pc[t] = "posting"
    /\ IF sem < 0 /\ ~list_empty(wait_list)
       THEN /\ target' = [target EXCEPT ![t] = list_next(wait_list)]
            /\ wait_list' = Tail(wait_list) /\ Go(t, "mark")
       ELSE Go(t, "idle") /\ UNCHANGED <<wait_list, target>>
    /\ UNCHANGED <<sem, rq, running, blocked, posts, calls, takes, sleeps>>

\* co_resume without the lock, first half: t->status = RUNNABLE.
ResumeMark(t) ==
    /\ pc[t] = "mark" /\ Go(t, "link")
    /\ blocked' = blocked \ {target[t]}
    /\ UNCHANGED <<sem, wait_list, rq, running, target, posts, calls, takes, sleeps>>

\* co_resume, second half: RR_enqueue, even if the task has run since and is on the wait
\* list again.
ResumeLink(t) ==
    /\ pc[t] = "link" /\ Go(t, "idle")
    /\ RR_enqueue(target[t]) /\ target' = [target EXCEPT ![t] = NoTask]
    /\ UNCHANGED <<sem, running, blocked, posts, calls, takes, sleeps>>

WaitStep(t) ==
    co_sem_wait(t) \/ WaitLocked(t) \/ StoreBlocked(t) \/ SwitchOut(t)

TryStep(t) == co_sem_try_wait(t) \/ TryLocked(t)

PostStep(t) == co_sem_post(t) \/ PostLocked(t) \/ ResumeMark(t) \/ ResumeLink(t)

Next ==
    /\ Intact
    /\ \E t \in Tasks : WaitStep(t) \/ TryStep(t) \/ PostStep(t) \/ Yield(t) \/ Dispatch(t)

Spec == Init /\ [][Next]_vars

-----------------------------------------------------------------------------
\* The tasks that have decremented the count and not yet looked at it under the lock.
Undecided == {t \in Tasks : pc[t] \in {"waiting", "trying"}}

\* The semaphore never lets more tasks through than its initial count and its posts allow,
\* however tries, their undoing and the checks under the lock interleave.
SemSafe == takes <= Count + posts

\* Where the units are: the count is what is left after the takes, the decrements that are
\* still undecided, and one for every time a task went to sleep.  The last is a drift:
\* a task that is woken decrements again and the first decrement is never given back.
SemAccount == sem = Count + posts - takes - Cardinality(Undecided) - sleeps

\* The task has decided to sleep and has not been dispatched since.
Asleep(t) == pc[t] \in {"park", "swap"} \/ (pc[t] = "again" /\ t \notin running)

\* A post is about to resume the task.
Targeted(t) == \E u \in Tasks : pc[u] \in {"mark", "link"} /\ target[u] = t

\* The list holds sleepers only, each once, so that no post is spent on a task that does not
\* wait; and a sleeper is never forgotten: it is on the list, in its run queue, in the
\* hands of a post, or runnable in time for its own switch-out to enqueue it.
SleepersListed ==
    /\ WellLinked(wait_list)
    /\ \A t \in ToSet(wait_list) : Asleep(t)
    /\ \A t \in Tasks :
          Asleep(t) => \/ t \in ToSet(wait_list) \cup rq
                       \/ Targeted(t)
                       \/ pc[t] = "swap" /\ t \notin blocked

=============================================================================
