------------------------------ MODULE CoSched -------------------------------
(***************************************************************************)
(* One scheduler thread of libcask: the run queue and epoll loop of        *)
(* RR_picknext (sched_RR.c), the event dispatch of event_wait (event.c),   *)
(* the active task that owns the wake-up pipe (task_sched.c), and the      *)
(* threads of the await pool that run blocking jobs for tasks and put the  *)
(* tasks back into the run queue (Task::await, Task::wakeup).              *)
(*                                                                         *)
(* The question is the one a scheduler must answer: can it fall asleep in  *)
(* epoll_wait while a task it should run is in its queue?  The one-second  *)
(* timer of the time wheel would hide such a sleep, so it is left out; so  *)
(* is the 60-second limit of the sleep as a source of progress.            *)
(***************************************************************************)
EXTENDS CaskList, FiniteSets

CONSTANTS
    Tasks,      \* the user's coroutines on this thread
    Act,        \* the active task
    NoTask,     \* NULL
    Workers,    \* the threads of the await pool
    PipeCap,    \* bytes the pipe holds
    ReadMax     \* sizeof buffer in _active_task

ASSUME TaskAssumption == Act \notin Tasks /\ NoTask \notin Tasks \cup {Act}
ASSUME PipeAssumption == PipeCap \in Nat \ {0} /\ ReadMax \in Nat \ {0}

VARIABLES
    rq,         \* sched->rq.run_list
    current,    \* g_current
    spc,        \* where schedule() and RR_picknext stand
    timeout,    \* ep->timeout: "poll" is 0, "block" is 60 seconds
    events,     \* what epoll_wait returned and event_wait has yet to resume
    registered, \* the tasks whose descriptor is in the epoll set
    readable,   \* the user descriptors (one per task) that are readable
    bytes,      \* bytes in the wake-up pipe
    apc,        \* program counter of the active task
    pc,         \* program counter of the user's tasks
    jobs,       \* the pool's queue: the tasks whose AwaitRunner it holds
    ran,        \* the tasks with fRetCode = 0: their job has run
    wpc, wjob   \* program counter and job of the pool's threads

svars == <<spc, timeout, events>>
pvars == <<bytes, apc>>
wvars == <<wpc, wjob>>
vars == <<rq, current, svars, registered, readable, pvars, pc, jobs, ran, wvars>>

AllTasks == Tasks \cup {Act}

TypeOK ==
    /\ rq \in Seq(AllTasks)
    /\ current \in AllTasks \cup {NoTask}
    /\ spc \in {"boot", "wait", "drain", "test1", "test2", "run"}
    /\ timeout \in {"poll", "block"}
    /\ events \subseteq AllTasks
    /\ registered \subseteq AllTasks
    /\ readable \subseteq Tasks
    /\ bytes \in 0..PipeCap
    /\ apc \in {"open", "read", "poll", "back", "dead"}
    /\ pc \in [Tasks -> {"new", "user", "submitted", "await", "io"}]
    /\ jobs \in Seq(Tasks)
    /\ ran \subseteq Tasks
    /\ wpc \in [Workers -> {"idle", "run", "link", "write"}]
    /\ wjob \in [Workers -> Tasks \cup {NoTask}]

-----------------------------------------------------------------------------
\* sched->active[1] >= 0: the active task has opened the pipe and not closed it.
PipeOpen == apc \in {"read", "poll", "back"}

Queued(x) == x \in ToSet(rq)

\* RR_enqueue(x).
Enqueued(x) == list_add_before(list_delete(rq, x), x)

\* What epoll_wait would report now: level-triggered readability.
Ready ==
    {t \in Tasks : t \in registered /\ t \in readable}
    \cup {x \in {Act} : x \in registered /\ bytes > 0}

\* current_sched() has created the scheduler and its active task.
Init ==
    /\ rq = <<Act>>
    /\ current = NoTask
    /\ spc = "boot"
    /\ timeout = "poll"
    /\ events = {}
    /\ registered = {}
    /\ readable = {}
    /\ bytes = 0
    /\ apc = "open"
    /\ pc = [t \in Tasks |-> "new"]
    /\ jobs = <<>>
    /\ ran = {}
    /\ wpc = [w \in Workers |-> "idle"]
    /\ wjob = [w \in Workers |-> NoTask]

\* co_create, before schedule() or from a running task.
Create(t) ==
    /\ pc[t] = "new"
    /\ spc = "boot" \/ current \in Tasks
    /\ pc' = [pc EXCEPT ![t] = "user"]
    /\ rq' = Enqueued(t)
    /\ UNCHANGED <<current, svars, registered, readable, pvars, jobs, ran, wvars>>

\* schedule() enters its loop.
Schedule ==
    /\ spc = "boot"
    /\ spc' = "wait"
    /\ UNCHANGED <<rq, current, timeout, events, registered, readable, pvars, pc, jobs,
                   ran, wvars>>

-----------------------------------------------------------------------------
\* epoll_wait returns some events.
EpollEvents ==
    /\ spc = "wait"
    /\ Ready # {}
    /\ events' = Ready
    /\ spc' = "drain"
    /\ UNCHANGED <<rq, current, timeout, registered, readable, pvars, pc, jobs, ran,
                   wvars>>

\* epoll_wait returns 0 at once because its timeout is 0.
EpollPolled ==
    /\ spc = "wait"
    /\ Ready = {}
    /\ timeout = "poll"
    /\ spc' = "test1"
    /\ UNCHANGED <<rq, current, timeout, events, registered, readable, pvars, pc, jobs,
                   ran, wvars>>

\* epoll_wait returns 0 after 60 seconds.
EpollExpired ==
    /\ spc = "wait"
    /\ Ready = {}
    /\ timeout = "block"
    /\ spc' = "test1"
    /\ UNCHANGED <<rq, current, timeout, events, registered, readable, pvars, pc, jobs,
                   ran, wvars>>

\* One turn of the loop of event_wait: forget the descriptor, resume its task.
\* After the last one RR_picknext asks for a poll next time: num is not 0.
ResumeEvent(x) ==
    /\ spc = "drain"
    /\ x \in events
    /\ events' = events \ {x}
    /\ registered' = registered \ {x}
    /\ rq' = Enqueued(x)
    /\ IF events' = {}
       THEN timeout' = "poll" /\ spc' = "test2"
       ELSE UNCHANGED <<timeout, spc>>
    /\ UNCHANGED <<current, readable, pvars, pc, jobs, ran, wvars>>

\* Mutant of DelayEvent: always ask for the long timeout.
DelayAlways ==
    /\ spc = "test1"
    /\ timeout' = "block"
    /\ spc' = "test2"
    /\ UNCHANGED <<rq, current, events, registered, readable, pvars, pc, jobs, ran,
                   wvars>>

\* RR_picknext after 0 events: the first look at the run queue decides how long the
\* next epoll_wait may sleep.
DelayEvent ==
    /\ spc = "test1"
    /\ timeout' = IF list_empty(rq) THEN "block" ELSE "poll"
    /\ spc' = "test2"
    /\ UNCHANGED <<rq, current, events, registered, readable, pvars, pc, jobs, ran,
                   wvars>>

\* Mutant of PickNext: the loop ends without the second look, and list_to_task makes a task
\* of the head of an empty queue.
PickUnchecked ==
    /\ spc = "test2"
    /\ spc' = "run"
    /\ current' = IF list_empty(rq) THEN "run_list" ELSE list_next(rq)
    /\ rq' = IF list_empty(rq) THEN rq ELSE Tail(rq)
    /\ UNCHANGED <<timeout, events, registered, readable, pvars, pc, jobs, ran, wvars>>

\* The second look decides whether there is a next epoll_wait at all.  Another
\* thread can fill the queue between the two; then the long timeout stays for the
\* epoll_wait after this task.
PickNext ==
    /\ spc = "test2"
    /\ \/ /\ list_empty(rq)
          /\ spc' = "wait"
          /\ UNCHANGED <<rq, current>>
       \/ /\ ~list_empty(rq)
          /\ spc' = "run"
          /\ current' = list_next(rq)
          /\ rq' = Tail(rq)
    /\ UNCHANGED <<timeout, events, registered, readable, pvars, pc, jobs, ran, wvars>>

\* The running task switches back to schedule(), which goes on to RR_picknext.
SwitchBack == current' = NoTask /\ spc' = "wait"

-----------------------------------------------------------------------------
\* _active_task: open the pipe.
ActiveOpen ==
    /\ current = Act
    /\ apc = "open"
    /\ apc' = "read"
    /\ UNCHANGED <<rq, current, svars, registered, readable, bytes, pc, jobs, ran, wvars>>

\* Bytes left after one read of at most ReadMax bytes.
AfterRead == IF bytes > ReadMax THEN bytes - ReadMax ELSE 0

\* read() on the pipe: bytes, or EAGAIN and on to event_poll.
ActiveRead ==
    /\ current = Act
    /\ apc = "read"
    /\ \/ /\ bytes > 0
          /\ bytes' = AfterRead
          /\ UNCHANGED apc
       \/ /\ bytes = 0
          /\ apc' = "poll"
          /\ UNCHANGED bytes
    /\ UNCHANGED <<rq, current, svars, registered, readable, pc, jobs, ran,
                   wvars>>

\* Mutant of ActivePoll: co_yield, which also leaves the task runnable.
PollRunnable ==
    /\ current = Act
    /\ apc = "poll"
    /\ registered' = registered \cup {Act}
    /\ apc' = "back"
    /\ rq' = Enqueued(Act)
    /\ SwitchBack
    /\ UNCHANGED <<timeout, events, readable, bytes, pc, jobs, ran, wvars>>

\* event_poll on the pipe: register, then co_io_yield.
ActivePoll ==
    /\ current = Act
    /\ apc = "poll"
    /\ registered' = registered \cup {Act}
    /\ apc' = "back"
    /\ SwitchBack
    /\ UNCHANGED <<rq, timeout, events, readable, bytes, pc, jobs, ran, wvars>>

\* The rest of read() after event_poll returned: it reads once more, and a read that
\* finds nothing now ends the loop of _active_task, which closes the pipe and exits.
ActiveBack ==
    /\ current = Act
    /\ apc = "back"
    /\ \/ /\ bytes > 0
          /\ bytes' = AfterRead
          /\ apc' = "read"
          /\ UNCHANGED <<current, spc>>
       \/ /\ bytes = 0
          /\ apc' = "dead"
          /\ SwitchBack
          /\ UNCHANGED bytes
    /\ UNCHANGED <<rq, timeout, events, registered, readable, pc, jobs, ran, wvars>>

-----------------------------------------------------------------------------
\* co_yield.
Yield(t) ==
    /\ current = t
    /\ pc[t] = "user"
    /\ rq' = Enqueued(t)
    /\ SwitchBack
    /\ UNCHANGED <<timeout, events, registered, readable, pvars, pc, jobs, ran, wvars>>

\* Task::await: put the runner into the pool's queue.
AwaitPut(t) ==
    /\ current = t
    /\ pc[t] = "user"
    /\ jobs' = Append(jobs, t)
    /\ ran' = ran \ {t}
    /\ pc' = [pc EXCEPT ![t] = "submitted"]
    /\ UNCHANGED <<rq, current, svars, registered, readable, pvars, wvars>>

\* Mutant of AwaitYield: co_yield instead of co_sys_yield.
YieldRunnable(t) ==
    /\ current = t
    /\ pc[t] = "submitted"
    /\ pc' = [pc EXCEPT ![t] = "await"]
    /\ rq' = Enqueued(t)
    /\ SwitchBack
    /\ UNCHANGED <<timeout, events, registered, readable, pvars, jobs, ran, wvars>>

\* Task::await: co_sys_yield.
AwaitYield(t) ==
    /\ current = t
    /\ pc[t] = "submitted"
    /\ pc' = [pc EXCEPT ![t] = "await"]
    /\ SwitchBack
    /\ UNCHANGED <<rq, timeout, events, registered, readable, pvars, jobs, ran, wvars>>

\* Task::await returns the result.
AwaitReturn(t) ==
    /\ current = t
    /\ pc[t] = "await"
    /\ pc' = [pc EXCEPT ![t] = "user"]
    /\ UNCHANGED <<rq, current, svars, registered, readable, pvars, jobs, ran, wvars>>

\* A hooked read or write on the task's own descriptor that would block: event_poll.
IoPoll(t) ==
    /\ current = t
    /\ pc[t] = "user"
    /\ registered' = registered \cup {t}
    /\ pc' = [pc EXCEPT ![t] = "io"]
    /\ SwitchBack
    /\ UNCHANGED <<rq, timeout, events, readable, pvars, jobs, ran, wvars>>

\* event_poll returns and the descriptor is read empty.
IoReturn(t) ==
    /\ current = t
    /\ pc[t] = "io"
    /\ pc' = [pc EXCEPT ![t] = "user"]
    /\ registered' = registered \ {t}
    /\ readable' = readable \ {t}
    /\ UNCHANGED <<rq, current, svars, pvars, jobs, ran, wvars>>

\* The peer of the task's descriptor sends something.
PeerSends(t) ==
    /\ t \notin readable
    /\ readable' = readable \cup {t}
    /\ UNCHANGED <<rq, current, svars, registered, pvars, pc, jobs, ran, wvars>>

-----------------------------------------------------------------------------
\* A thread of the pool takes a runner.
WorkerTake(w) ==
    /\ wpc[w] = "idle"
    /\ jobs # <<>>
    /\ jobs' = Tail(jobs)
    /\ wjob' = [wjob EXCEPT ![w] = Head(jobs)]
    /\ wpc' = [wpc EXCEPT ![w] = "run"]
    /\ UNCHANGED <<rq, current, svars, registered, readable, pvars, pc, ran>>

\* AwaitRunner::run up to the result.
WorkerRun(w) ==
    /\ wpc[w] = "run"
    /\ ran' = ran \cup {wjob[w]}
    /\ wpc' = [wpc EXCEPT ![w] = "link"]
    /\ UNCHANGED <<rq, current, svars, registered, readable, pvars, pc, jobs, wjob>>

\* Mutant of WorkerLink: a task that has not switched out yet is not queued.
LinkSleepersOnly(w) ==
    /\ wpc[w] = "link"
    /\ rq' = IF current = wjob[w] THEN rq ELSE Enqueued(wjob[w])
    /\ wpc' = [wpc EXCEPT ![w] = "write"]
    /\ UNCHANGED <<current, svars, registered, readable, pvars, pc, jobs, ran, wjob>>

\* Task::wakeup, first half: RR_enqueue.
WorkerLink(w) ==
    /\ wpc[w] = "link"
    /\ rq' = Enqueued(wjob[w])
    /\ wpc' = [wpc EXCEPT ![w] = "write"]
    /\ UNCHANGED <<current, svars, registered, readable, pvars, pc, jobs, ran, wjob>>

\* Mutant of WorkerWrite: do not write at all.
WriteNothing(w) ==
    /\ wpc[w] = "write"
    /\ wpc' = [wpc EXCEPT ![w] = "idle"]
    /\ wjob' = [wjob EXCEPT ![w] = NoTask]
    /\ UNCHANGED <<rq, current, svars, registered, readable, pvars, pc, jobs, ran>>

\* Task::wakeup, second half: sched_active_event.  A full pipe drops the byte.
WorkerWrite(w) ==
    /\ wpc[w] = "write"
    /\ bytes' = IF PipeOpen /\ bytes < PipeCap THEN bytes + 1 ELSE bytes
    /\ wpc' = [wpc EXCEPT ![w] = "idle"]
    /\ wjob' = [wjob EXCEPT ![w] = NoTask]
    /\ UNCHANGED <<rq, current, svars, registered, readable, apc, pc, jobs, ran>>

-----------------------------------------------------------------------------
SchedulerStep ==
    \/ Schedule \/ EpollEvents \/ EpollPolled \/ DelayEvent \/ PickNext
    \/ \E x \in AllTasks : ResumeEvent(x)

ActiveStep == ActiveOpen \/ ActiveRead \/ ActivePoll \/ ActiveBack

WorkerStep(w) == WorkerTake(w) \/ WorkerRun(w) \/ WorkerLink(w) \/ WorkerWrite(w)

TaskStep(t) ==
    Yield(t) \/ AwaitPut(t) \/ AwaitYield(t) \/ AwaitReturn(t) \/ IoPoll(t) \/ IoReturn(t)

Next ==
    \/ SchedulerStep
    \/ EpollExpired
    \/ ActiveStep
    \/ \E t \in Tasks : Create(t) \/ TaskStep(t) \/ PeerSends(t)
    \/ \E w \in Workers : WorkerStep(w)

Spec == Init /\ [][Next]_vars

\* The scheduler thread and the pool's threads keep running; a task that has the
\* thread takes its next step (cooperative tasks that never let go of it stop
\* everything by design).  Nothing makes the 60 seconds pass.
FairSpec ==
    /\ Spec
    /\ WF_vars(SchedulerStep)
    /\ WF_vars(ActiveStep)
    /\ \A t \in Tasks : WF_vars(TaskStep(t))
    /\ \A w \in Workers : WF_vars(WorkerStep(w))

-----------------------------------------------------------------------------
\* A thread of the pool that has queued a task and has yet to write to the pipe.
WritePending == \E w \in Workers : wpc[w] = "write"

\* The scheduler never sleeps on work: while it sits in the 60-second epoll_wait
\* with a task in its queue, the pipe is registered and has a byte in it, or the
\* thread that queued the task is about to write one.  RR_picknext looks at the
\* queue twice, so the long timeout can outlive the empty queue it was chosen for.
NoSleepOnWork ==
    (spc = "wait" /\ timeout = "block" /\ ~list_empty(rq)) =>
        \/ Act \in registered /\ bytes > 0
        \/ Act \in registered /\ PipeOpen /\ WritePending

\* The active task is never resumed with an empty pipe: it would take the empty
\* read for the end of its work and close the pipe for good.
ActiveNeverDies == apc # "dead" /\ (current = Act /\ apc = "back" => bytes > 0)

\* Task::await returns only after its job has run, although the wake-up can come
\* before the task has even switched out.
AwaitAfterRun ==
    \A t \in Tasks : (current = t /\ pc[t] = "await") => t \in ran

\* A task that sleeps in await is always in somebody's hands: the pool's queue, one of
\* its threads, the run queue or the processor.
AwaitRemembered ==
    \A t \in Tasks :
        pc[t] = "await" =>
            \/ current = t
            \/ Queued(t)
            \/ t \in ToSet(jobs)
            \/ \E w \in Workers : wjob[w] = t /\ wpc[w] \in {"run", "link"}

\* Every await returns, without the help of the 60-second timeout.
AwaitReturns ==
    \A t \in Tasks : pc[t] = "submitted" ~> pc[t] = "user"

=============================================================================
