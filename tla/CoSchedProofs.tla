--------------------------- MODULE CoSchedProofs ----------------------------
(***************************************************************************)
(* The scheduler loop never sleeps on work, never loses its active task,   *)
(* and never lets an await return early, for any number of tasks, pool     *)
(* threads and bytes in the pipe.                                          *)
(***************************************************************************)
EXTENDS CoSched, ListLemmas

USE TaskAssumption, PipeAssumption

-----------------------------------------------------------------------------
\* Control of the scheduler: it runs a task exactly when it is in "run", and holds
\* undelivered events only while it delivers them.
Control ==
    /\ WellLinked(rq)
    /\ spc = "run" <=> current # NoTask
    /\ spc # "drain" => events = {}
    /\ events \subseteq registered
    /\ spc = "boot" => timeout = "poll"

\* The active task is in one place, and that place fits its program counter.
ActivePlace ==
    /\ apc # "dead"
    /\ apc = "open" => Queued(Act) \/ current = Act
    /\ apc \in {"read", "poll"} => current = Act
    /\ apc = "back" => Act \in registered \/ Queued(Act) \/ current = Act
    /\ apc = "back" /\ Act \notin registered => bytes > 0
    /\ Act \in registered => apc = "back" /\ ~Queued(Act) /\ current # Act
    /\ Act \in events => bytes > 0
    /\ Queued(Act) => current # Act

\* The long timeout is in force only with the pipe registered, and only with a byte
\* on its way as soon as there is anything to run.
LongSleep ==
    (timeout = "block" /\ spc \in {"wait", "test2", "run"}) =>
        /\ Act \in registered
        /\ ~list_empty(rq) \/ spc = "run" => bytes > 0 \/ WritePending

\* A pool thread that is not idle has a job.
Busy == \A w \in Workers : wpc[w] # "idle" => wjob[w] \in Tasks

LoopInv == TypeOK /\ Control /\ ActivePlace /\ LongSleep /\ Busy

-----------------------------------------------------------------------------
\* RR_enqueue on this thread's queue.
LEMMA EnqueueFacts ==
    ASSUME TypeOK, Control, NEW x \in AllTasks, rq' = Enqueued(x)
    PROVE  /\ rq' \in Seq(AllTasks)
           /\ WellLinked(rq')
           /\ \A y : Queued(y)' <=> (Queued(y) \/ y = x)
           /\ ~list_empty(rq')
<1>1. /\ rq' \in Seq(AllTasks) /\ WellLinked(rq')
      /\ ToSet(rq') = ToSet(rq) \cup {x}
  BY Requeue DEF TypeOK, Control, Enqueued
<1>2. rq' # <<>>
  BY <1>1, EmptyList DEF list_init
<1> QED BY <1>1, <1>2 DEF Queued, list_empty

\* An empty run queue holds nobody.
LEMMA EmptyQueue == list_empty(rq) => \A y : ~Queued(y)
BY EmptyList DEF list_empty, Queued, list_init

\* RR_picknext and RR_dequeue take one task off the queue.
LEMMA PickFacts ==
    ASSUME TypeOK, Control, ~list_empty(rq), rq' = Tail(rq), current' = list_next(rq)
    PROVE  /\ rq' \in Seq(AllTasks)
           /\ WellLinked(rq')
           /\ current' \in AllTasks
           /\ Queued(current')
           /\ \A y : Queued(y)' <=> (Queued(y) /\ y # current')
<1>1. /\ list_next(rq) \in AllTasks
      /\ list_next(rq) \in ToSet(rq)
      /\ Tail(rq) \in Seq(AllTasks)
      /\ ToSet(rq) = ToSet(Tail(rq)) \cup {list_next(rq)}
      /\ WellLinked(Tail(rq)) /\ list_next(rq) \notin ToSet(Tail(rq))
  BY TakeFirst DEF TypeOK, Control
<1> QED BY <1>1 DEF Queued

LEMMA InitLoop == Init => LoopInv
<1> SUFFICES ASSUME Init PROVE LoopInv
  OBVIOUS
<1>1. rq \in Seq(AllTasks) /\ WellLinked(rq) /\ Queued(Act)
  BY DEF Init, AllTasks, WellLinked, IsInjective, Queued, ToSet
<1>2. TypeOK
  BY <1>1 DEF Init, TypeOK, AllTasks
<1>3. Control /\ ActivePlace /\ LongSleep /\ Busy
  BY <1>1 DEF Init, Control, ActivePlace, LongSleep, Busy
<1> QED BY <1>2, <1>3 DEF LoopInv

\* Steps that leave the run queue, the processor and the active task alone.
LEMMA QuietLoop ==
    ASSUME LoopInv,
           \/ Schedule \/ EpollEvents \/ EpollPolled \/ EpollExpired \/ DelayEvent
           \/ \E t \in Tasks : AwaitPut(t) \/ AwaitReturn(t) \/ IoReturn(t) \/ PeerSends(t)
           \/ \E w \in Workers : WorkerTake(w) \/ WorkerRun(w) \/ WorkerWrite(w)
    PROVE  LoopInv'
<1> USE DEF LoopInv
<1>1. UNCHANGED <<rq, current, apc>> /\ \A y : Queued(y)' <=> Queued(y)
  BY DEF Schedule, EpollEvents, EpollPolled, EpollExpired, DelayEvent, AwaitPut,
         AwaitReturn, IoReturn, PeerSends, WorkerTake, WorkerRun, WorkerWrite, pvars,
         Queued
<1>2. CASE Schedule \/ EpollEvents \/ EpollPolled \/ EpollExpired \/ DelayEvent
  <2>1. UNCHANGED <<registered, readable, bytes, pc, jobs, ran, wpc, wjob>>
    BY <1>2 DEF Schedule, EpollEvents, EpollPolled, EpollExpired, DelayEvent, pvars, wvars
  <2>2. TypeOK'
    BY <1>1, <1>2, <2>1 DEF TypeOK, AllTasks, Ready, Schedule, EpollEvents, EpollPolled,
                            EpollExpired, DelayEvent
  <2>3. Control'
    BY <1>1, <1>2, <2>1 DEF Control, Ready, Schedule, EpollEvents, EpollPolled,
                            EpollExpired, DelayEvent
  <2>4. ActivePlace'
    BY <1>1, <1>2, <2>1 DEF ActivePlace, Control, Ready, Schedule, EpollEvents,
                            EpollPolled, EpollExpired, DelayEvent
  <2>5. LongSleep'
    <3>1. CASE DelayEvent
      BY <1>1, <2>1, <3>1, EmptyQueue DEF LongSleep, DelayEvent, Control, ActivePlace, TypeOK
    <3>2. CASE Schedule
      BY <1>1, <2>1, <3>2 DEF LongSleep, Schedule, Control
    <3>3. CASE EpollEvents \/ EpollPolled \/ EpollExpired
      BY <3>3 DEF LongSleep, EpollEvents, EpollPolled, EpollExpired
    <3> QED BY <1>2, <3>1, <3>2, <3>3
  <2>6. Busy'
    BY <2>1 DEF Busy
  <2> QED BY <2>2, <2>3, <2>4, <2>5, <2>6
<1>3. ASSUME NEW t \in Tasks,
             AwaitPut(t) \/ AwaitReturn(t) \/ IoReturn(t) \/ PeerSends(t)
      PROVE  LoopInv'
  <2>1. /\ UNCHANGED <<spc, timeout, events, bytes, wpc, wjob>>
        /\ registered' = registered \/ registered' = registered \ {t}
        /\ t # Act /\ t \in Tasks
        /\ registered' # registered => spc = "run"
    BY <1>3 DEF AwaitPut, AwaitReturn, IoReturn, PeerSends, pvars, svars, wvars, Control
  <2>2. TypeOK'
    <3>1. Append(jobs, t) \in Seq(Tasks)
      BY AddLast DEF TypeOK, list_add_before
    <3> QED BY <1>1, <1>3, <2>1, <3>1 DEF TypeOK, AwaitPut, AwaitReturn, IoReturn,
               PeerSends
  <2>3. Control' /\ ActivePlace' /\ LongSleep' /\ Busy'
    BY <1>1, <2>1 DEF Control, ActivePlace, LongSleep, WritePending, Busy
  <2> QED BY <2>2, <2>3
<1>4. ASSUME NEW w \in Workers, WorkerTake(w) \/ WorkerRun(w)
      PROVE  LoopInv'
  <2>1. /\ UNCHANGED <<spc, timeout, events, registered, readable, bytes>>
        /\ WritePending => WritePending'
    BY <1>4 DEF WorkerTake, WorkerRun, pvars, svars, WritePending, TypeOK
  <2>2. TypeOK' /\ Busy'
    <3>1. CASE WorkerTake(w)
      <4>1. Head(jobs) \in Tasks /\ Tail(jobs) \in Seq(Tasks)
        BY <3>1, TakeFirst DEF WorkerTake, TypeOK, list_empty, list_next
      <4> QED BY <1>1, <2>1, <3>1, <4>1 DEF TypeOK, WorkerTake, Busy
    <3>2. CASE WorkerRun(w)
      BY <1>1, <2>1, <3>2 DEF TypeOK, WorkerRun, Busy
    <3> QED BY <1>4, <3>1, <3>2
  <2>3. Control' /\ ActivePlace' /\ LongSleep'
    BY <1>1, <2>1 DEF Control, ActivePlace, LongSleep
  <2> QED BY <2>2, <2>3
<1>5. ASSUME NEW w \in Workers, WorkerWrite(w) PROVE LoopInv'
  <2>1. /\ UNCHANGED <<spc, timeout, events, registered, readable, pc, jobs, ran>>
        /\ bytes' = IF PipeOpen /\ bytes < PipeCap THEN bytes + 1 ELSE bytes
    BY <1>5 DEF WorkerWrite, svars
  <2>2. bytes' \in 0..PipeCap /\ bytes' >= bytes /\ (PipeOpen => bytes' > 0)
    BY <2>1 DEF TypeOK
  <2>3. TypeOK' /\ Busy'
    BY <1>1, <1>5, <2>1, <2>2 DEF TypeOK, WorkerWrite, Busy
  <2>4. Control'
    BY <1>1, <2>1 DEF Control
  <2>5. ActivePlace'
    BY <1>1, <2>1, <2>2 DEF ActivePlace, TypeOK
  <2>6. LongSleep'
    BY <1>1, <2>1, <2>2 DEF LongSleep, ActivePlace, PipeOpen
  <2> QED BY <2>3, <2>4, <2>5, <2>6
<1> QED BY <1>2, <1>3, <1>4, <1>5

\* Steps that put a task into the run queue.
LEMMA EnqueueLoop ==
    ASSUME LoopInv,
           \/ \E x \in AllTasks : ResumeEvent(x)
           \/ \E t \in Tasks : Create(t) \/ Yield(t)
           \/ \E w \in Workers : WorkerLink(w)
    PROVE  LoopInv'
<1> USE DEF LoopInv
<1>1. ASSUME NEW x \in AllTasks, ResumeEvent(x) PROVE LoopInv'
  <2>1. /\ UNCHANGED <<current, readable, bytes, apc, pc, jobs, ran, wpc, wjob>>
        /\ spc = "drain" /\ x \in events
        /\ events' = events \ {x} /\ registered' = registered \ {x}
        /\ \/ events' = {} /\ timeout' = "poll" /\ spc' = "test2"
           \/ events' # {} /\ UNCHANGED <<timeout, spc>>
        /\ rq' = Enqueued(x)
    BY <1>1 DEF ResumeEvent, pvars, wvars
  <2>2. /\ rq' \in Seq(AllTasks) /\ WellLinked(rq')
        /\ \A y : Queued(y)' <=> (Queued(y) \/ y = x)
    BY <2>1, EnqueueFacts
  <2>3. TypeOK'
    BY <2>1, <2>2 DEF TypeOK
  <2>4. Control'
    BY <2>1, <2>2 DEF Control
  <2>5. ActivePlace'
    BY <2>1, <2>2 DEF ActivePlace, Control
  <2>6. LongSleep' /\ Busy'
    BY <2>1 DEF LongSleep, Busy
  <2> QED BY <2>3, <2>4, <2>5, <2>6
<1>2. ASSUME NEW t \in Tasks, Create(t) \/ Yield(t) PROVE LoopInv'
  <2>1. /\ UNCHANGED <<timeout, events, registered, readable, bytes, apc, jobs, ran, wpc,
                       wjob>>
        /\ \/ UNCHANGED <<current, spc>> /\ (spc = "boot" \/ spc = "run")
           \/ current = t /\ current' = NoTask /\ spc' = "wait" /\ spc = "run"
        /\ pc' \in [Tasks -> {"new", "user", "submitted", "await", "io"}]
        /\ rq' = Enqueued(t) /\ t # Act
    BY <1>2 DEF Create, Yield, SwitchBack, svars, pvars, wvars, TypeOK, Control
  <2>2. /\ rq' \in Seq(AllTasks) /\ WellLinked(rq')
        /\ \A y : Queued(y)' <=> (Queued(y) \/ y = t)
    BY <2>1, t \in AllTasks, EnqueueFacts DEF AllTasks
  <2>3. TypeOK'
    BY <2>1, <2>2 DEF TypeOK
  <2>4. Control'
    BY <2>1, <2>2 DEF Control
  <2>5. ActivePlace'
    BY <2>1, <2>2 DEF ActivePlace, Control
  <2>6. LongSleep' /\ Busy'
    BY <2>1 DEF LongSleep, Busy, WritePending, Control
  <2> QED BY <2>3, <2>4, <2>5, <2>6
<1>3. ASSUME NEW w \in Workers, WorkerLink(w) PROVE LoopInv'
  <2>1. /\ UNCHANGED <<current, spc, timeout, events, registered, readable, bytes, apc, pc,
                       jobs, ran, wjob>>
        /\ wpc' = [wpc EXCEPT ![w] = "write"] /\ wpc[w] = "link"
        /\ rq' = Enqueued(wjob[w]) /\ wjob[w] \in Tasks
    BY <1>3 DEF WorkerLink, svars, pvars, Busy
  <2> PICK t \in Tasks : t = wjob[w]
    BY <2>1
  <2>2. /\ rq' \in Seq(AllTasks) /\ WellLinked(rq')
        /\ \A y : Queued(y)' <=> (Queued(y) \/ y = t)
    BY <2>1, t \in AllTasks, EnqueueFacts DEF AllTasks
  <2>3. WritePending' /\ t # Act
    BY <2>1 DEF WritePending, TypeOK
  <2>4. TypeOK' /\ Busy'
    BY <2>1, <2>2 DEF TypeOK, Busy
  <2>5. Control' /\ ActivePlace'
    BY <2>1, <2>2, <2>3 DEF Control, ActivePlace
  <2>6. LongSleep'
    BY <2>1, <2>3 DEF LongSleep
  <2> QED BY <2>4, <2>5, <2>6
<1> QED BY <1>1, <1>2, <1>3

\* RR_picknext hands a task to schedule(), or goes back to epoll_wait.
LEMMA PickLoop ==
    ASSUME LoopInv, PickNext
    PROVE  LoopInv'
<1> USE DEF LoopInv
<1>1. /\ UNCHANGED <<timeout, events, registered, readable, bytes, apc, pc, jobs, ran, wpc,
                     wjob>>
      /\ spc = "test2" /\ current = NoTask
  BY DEF PickNext, pvars, wvars, Control, TypeOK
<1>2. CASE list_empty(rq) /\ spc' = "wait" /\ UNCHANGED <<rq, current>>
  <2>1. \A y : Queued(y)' <=> Queued(y)
    BY <1>2 DEF Queued
  <2> QED BY <1>1, <1>2, <2>1 DEF TypeOK, Control, ActivePlace, LongSleep, Busy, WritePending,
          list_empty
<1>3. CASE /\ ~list_empty(rq) /\ spc' = "run" /\ current' = list_next(rq)
           /\ rq' = Tail(rq)
  <2>1. /\ rq' \in Seq(AllTasks)
        /\ WellLinked(rq')
        /\ current' \in AllTasks
        /\ Queued(current')
        /\ \A y : Queued(y)' <=> (Queued(y) /\ y # current')
    BY <1>3, PickFacts
  <2>2. TypeOK' /\ Busy'
    BY <1>1, <1>3, <2>1 DEF TypeOK, Busy
  <2>3. Control'
    BY <1>1, <1>3, <2>1 DEF Control, AllTasks
  <2>4. ActivePlace'
    BY <1>1, <1>3, <2>1 DEF ActivePlace
  <2>5. LongSleep'
    BY <1>1, <1>3 DEF LongSleep, WritePending
  <2> QED BY <2>2, <2>3, <2>4, <2>5
<1> QED BY <1>2, <1>3 DEF PickNext

\* Steps of the active task: it runs only under the short timeout.
LEMMA ActiveLoop ==
    ASSUME LoopInv, ActiveStep
    PROVE  LoopInv'
<1> USE DEF LoopInv
<1>1. /\ UNCHANGED <<rq, timeout, events, readable, pc, jobs, ran, wpc, wjob>>
      /\ current = Act /\ spc = "run"
  BY DEF ActiveStep, ActiveOpen, ActiveRead, ActivePoll, ActiveBack, svars, wvars, Control
<1>2. Act \notin registered /\ timeout = "poll" /\ Act \notin events
  BY <1>1 DEF ActivePlace, LongSleep, TypeOK, Control
<1>3. \A y : Queued(y)' <=> Queued(y)
  BY <1>1 DEF Queued
<1>4. AfterRead \in 0..PipeCap
  BY DEF AfterRead, TypeOK
<1>5. CASE ActiveOpen \/ ActiveRead
  <2>1. UNCHANGED <<current, spc, registered>> /\ bytes' \in 0..PipeCap
        /\ apc' \in {"read", "poll"}
    BY <1>4, <1>5 DEF ActiveOpen, ActiveRead, svars, TypeOK
  <2>2. TypeOK' /\ Busy' /\ Control' /\ LongSleep'
    BY <1>1, <1>2, <2>1 DEF TypeOK, Busy, Control, LongSleep
  <2>3. ActivePlace'
    BY <1>1, <1>2, <1>3, <2>1 DEF ActivePlace
  <2> QED BY <2>2, <2>3
<1>6. CASE ActivePoll
  <2>1. /\ registered' = registered \cup {Act} /\ apc' = "back" /\ bytes' = bytes
        /\ current' = NoTask /\ spc' = "wait"
    BY <1>6 DEF ActivePoll, SwitchBack
  <2>2. TypeOK' /\ Busy' /\ LongSleep'
    BY <1>1, <1>2, <2>1 DEF TypeOK, Busy, LongSleep, AllTasks
  <2>3. Control'
    BY <1>1, <1>2, <2>1 DEF Control
  <2>4. ActivePlace'
    BY <1>1, <1>2, <1>3, <2>1 DEF ActivePlace
  <2> QED BY <2>2, <2>3, <2>4
<1>7. CASE ActiveBack
  <2>1. /\ bytes' \in 0..PipeCap /\ apc' = "read"
        /\ UNCHANGED <<current, spc, registered>>
    BY <1>1, <1>2, <1>4, <1>7 DEF ActiveBack, ActivePlace
  <2>2. TypeOK' /\ Busy' /\ Control' /\ LongSleep'
    BY <1>1, <1>2, <2>1 DEF TypeOK, Busy, Control, LongSleep
  <2>3. ActivePlace'
    BY <1>1, <1>2, <1>3, <2>1 DEF ActivePlace
  <2> QED BY <2>2, <2>3
<1> QED BY <1>5, <1>6, <1>7 DEF ActiveStep

\* A task blocks: in await, or on its own descriptor.
LEMMA BlockLoop ==
    ASSUME LoopInv, NEW t \in Tasks, AwaitYield(t) \/ IoPoll(t)
    PROVE  LoopInv'
<1> USE DEF LoopInv
<1>1. /\ UNCHANGED <<rq, timeout, events, readable, bytes, apc, jobs, ran, wpc, wjob>>
      /\ current = t /\ spc = "run" /\ current' = NoTask /\ spc' = "wait"
      /\ registered' = registered \/ registered' = registered \cup {t}
      /\ pc' \in [Tasks -> {"new", "user", "submitted", "await", "io"}]
      /\ t # Act
  BY DEF AwaitYield, IoPoll, SwitchBack, pvars, wvars, Control, TypeOK
<1>2. \A y : Queued(y)' <=> Queued(y)
  BY <1>1 DEF Queued
<1>3. TypeOK' /\ Busy'
  BY <1>1 DEF TypeOK, Busy, AllTasks
<1>4. Control'
  BY <1>1 DEF Control
<1>5. ActivePlace'
  BY <1>1, <1>2 DEF ActivePlace
<1>6. LongSleep'
  BY <1>1 DEF LongSleep, WritePending
<1> QED BY <1>3, <1>4, <1>5, <1>6

LEMMA NextLoop == LoopInv /\ [Next]_vars => LoopInv'
<1> SUFFICES ASSUME LoopInv, [Next]_vars PROVE LoopInv'
  OBVIOUS
<1>1. CASE UNCHANGED vars
  BY <1>1 DEF vars, svars, pvars, wvars, LoopInv, TypeOK, Control, ActivePlace, LongSleep,
              Busy, Queued, WritePending
<1>2. CASE Next
  BY <1>2, QuietLoop, EnqueueLoop, PickLoop, ActiveLoop, BlockLoop
     DEF Next, SchedulerStep, TaskStep, WorkerStep
<1> QED BY <1>1, <1>2

\* The control state of the scheduler, the place of its active task and the
\* long timeout fit together in every reachable state.
THEOREM LoopInvariance == Spec => []LoopInv
<1> QED BY InitLoop, NextLoop, PTL DEF Spec

\* The variables keep their types: what schedule() switches to, what event_wait resumes and
\* what a pool thread wakes is always one of the thread's tasks.
THEOREM SchedTypeCorrect == Spec => []TypeOK
<1>1. LoopInv => TypeOK
  BY DEF LoopInv
<1> QED BY LoopInvariance, <1>1, PTL

\* RR_picknext never blocks in epoll_wait on a non-empty run queue without a byte
\* in the registered pipe or a thread about to write one.
THEOREM SchedulerNeverSleepsOnWork == Spec => []NoSleepOnWork
<1>1. LoopInv => NoSleepOnWork
  BY DEF LoopInv, LongSleep, NoSleepOnWork, ActivePlace, PipeOpen
<1> QED BY LoopInvariance, <1>1, PTL

\* _active_task never leaves its loop: every read after event_poll finds a byte.
THEOREM ActiveTaskLives == Spec => []ActiveNeverDies
<1>1. LoopInv => ActiveNeverDies
  BY DEF LoopInv, ActivePlace, ActiveNeverDies
<1> QED BY LoopInvariance, <1>1, PTL

-----------------------------------------------------------------------------
\* A pool thread has the job of t and has not queued t yet.
Holds(w, t) == wjob[w] = t /\ wpc[w] \in {"run", "link"}

InPool(t) == t \in ToSet(jobs) \/ \E w \in Workers : Holds(w, t)

\* The job of a task is in one place, and its task sleeps or is about to.
JobPlace ==
    /\ WellLinked(jobs)
    /\ \A t \in Tasks :
         InPool(t) => /\ pc[t] \in {"submitted", "await"}
                      /\ ~Queued(t)
                      /\ current = t => pc[t] = "submitted"
    /\ \A t \in Tasks, w \in Workers : t \in ToSet(jobs) => ~Holds(w, t)
    /\ \A t \in Tasks, w, v \in Workers : Holds(w, t) /\ Holds(v, t) => w = v
    /\ \A w \in Workers : wpc[w] = "link" => wjob[w] \in ran

\* A task whose job has left the pool is back in the scheduler's hands.
TaskPlace ==
    /\ \A t \in Tasks : pc[t] = "submitted" => current = t
    /\ \A t \in Tasks :
         pc[t] \in {"submitted", "await"} /\ ~InPool(t) =>
            t \in ran /\ (Queued(t) \/ (current = t /\ pc[t] = "await"))
    /\ \A t \in Tasks : t \in registered => pc[t] = "io" /\ current # t /\ ~Queued(t)
    /\ \A t \in Tasks : current = t /\ Queued(t) => pc[t] = "submitted"
    /\ \A t \in Tasks : pc[t] = "new" => ~Queued(t) /\ current # t

AwaitInv == JobPlace /\ TaskPlace

LEMMA InitAwait == Init => AwaitInv
<1> SUFFICES ASSUME Init PROVE AwaitInv
  OBVIOUS
<1>1. \A t \in Tasks : ~Queued(t)
  BY DEF Init, Queued, ToSet
<1>2. WellLinked(jobs) /\ ToSet(jobs) = {}
  BY EmptyList DEF Init, list_init
<1> QED BY <1>1, <1>2 DEF Init, AwaitInv, JobPlace, TaskPlace, InPool, Holds

\* Steps of the scheduler and of the active task.
LEMMA SchedulerAwait ==
    ASSUME LoopInv, AwaitInv, SchedulerStep \/ EpollExpired \/ ActiveStep
    PROVE  AwaitInv'
<1> USE DEF AwaitInv
<1>1. UNCHANGED <<pc, jobs, ran, wpc, wjob>>
  BY DEF SchedulerStep, EpollExpired, ActiveStep, Schedule, EpollEvents, EpollPolled,
         DelayEvent, PickNext, ResumeEvent, ActiveOpen, ActiveRead, ActivePoll, ActiveBack,
         wvars
<1>2. /\ \A t : (InPool(t)' <=> InPool(t))
      /\ \A w \in Workers : \A t : (Holds(w, t)' <=> Holds(w, t))
  BY <1>1 DEF InPool, Holds
<1>3. CASE PickNext /\ ~list_empty(rq)
  <2>1. UNCHANGED registered /\ current = NoTask /\ current' = list_next(rq) /\ rq' = Tail(rq)
    BY <1>3 DEF PickNext, LoopInv, Control, TypeOK
  <2>2. /\ current' \in AllTasks
        /\ Queued(current')
        /\ \A y : Queued(y)' <=> (Queued(y) /\ y # current')
    BY <1>3, <2>1, PickFacts DEF LoopInv
  <2>3. \A t \in Tasks : pc[t] # "submitted"
    BY <2>1 DEF TaskPlace
  <2>4. \A t \in Tasks : t \in registered => ~Queued(t)
    BY <2>1 DEF TaskPlace
  <2> QED BY <1>1, <1>2, <2>1, <2>2, <2>3, <2>4 DEF JobPlace, TaskPlace
<1>4. ASSUME NEW x \in AllTasks, ResumeEvent(x) PROVE AwaitInv'
  <2>1. /\ UNCHANGED current /\ registered' = registered \ {x} /\ x \in registered
        /\ rq' = Enqueued(x)
    BY <1>4 DEF ResumeEvent, LoopInv, Control
  <2>2. \A y : Queued(y)' <=> (Queued(y) \/ y = x)
    BY <2>1, EnqueueFacts DEF LoopInv
  <2>3. x \in Tasks => pc[x] = "io"
    BY <2>1 DEF TaskPlace
  <2> QED BY <1>1, <1>2, <2>1, <2>2, <2>3 DEF JobPlace, TaskPlace
<1>5. CASE \/ Schedule \/ EpollEvents \/ EpollPolled \/ EpollExpired \/ DelayEvent
           \/ PickNext /\ list_empty(rq)
  <2>1. UNCHANGED <<rq, current, registered>> /\ \A y : Queued(y)' <=> Queued(y)
    BY <1>5 DEF Schedule, EpollEvents, EpollPolled, EpollExpired, DelayEvent, PickNext,
                Queued
  <2> QED BY <1>1, <1>2, <2>1 DEF JobPlace, TaskPlace
<1>6. CASE ActiveStep
  <2>1. /\ UNCHANGED rq /\ current = Act /\ current' \in {Act, NoTask}
        /\ \A t \in Tasks : t \in registered' <=> t \in registered
    BY <1>6 DEF ActiveStep, ActiveOpen, ActiveRead, ActivePoll, ActiveBack, SwitchBack, svars
  <2>2. \A y : Queued(y)' <=> Queued(y)
    BY <2>1 DEF Queued
  <2> QED BY <1>1, <1>2, <2>1, <2>2 DEF JobPlace, TaskPlace
<1> QED BY <1>3, <1>4, <1>5, <1>6 DEF SchedulerStep

\* Steps of the user's tasks.
LEMMA TaskAwait ==
    ASSUME LoopInv, AwaitInv, NEW t \in Tasks, Create(t) \/ TaskStep(t) \/ PeerSends(t)
    PROVE  AwaitInv'
<1> USE DEF AwaitInv
<1>1. UNCHANGED <<wpc, wjob>> /\ pc \in [Tasks -> {"new", "user", "submitted", "await", "io"}]
      /\ jobs \in Seq(Tasks)
  BY DEF Create, TaskStep, PeerSends, Yield, AwaitPut, AwaitYield, AwaitReturn, IoPoll,
         IoReturn, wvars, LoopInv, TypeOK
<1>2. \A w \in Workers : \A x : (Holds(w, x)' <=> Holds(w, x))
  BY <1>1 DEF Holds
<1>3. CASE AwaitPut(t)
  <2>1. /\ current = t /\ pc[t] = "user" /\ jobs' = Append(jobs, t) /\ ran' = ran \ {t}
        /\ pc' = [pc EXCEPT ![t] = "submitted"]
        /\ UNCHANGED <<rq, current, registered>>
    BY <1>3 DEF AwaitPut
  <2>2. ~InPool(t)
    BY <2>1 DEF JobPlace
  <2>3. ToSet(jobs') = ToSet(jobs) \cup {t} /\ WellLinked(jobs')
    BY <1>1, <2>1, <2>2, AddLast DEF list_add_before, InPool, JobPlace
  <2>4. \A x \in Tasks : /\ InPool(x)' <=> (InPool(x) \/ x = t)
                         /\ Queued(x)' <=> Queued(x)
    BY <1>2, <2>1, <2>3 DEF InPool, Queued
  <2>5. \A w \in Workers : ~Holds(w, t) /\ (wpc[w] = "link" => wjob[w] # t)
    BY <2>2 DEF InPool, Holds
  <2>6. ~Queued(t)
    BY <2>1 DEF TaskPlace
  <2>7. JobPlace'
    BY <1>1, <1>2, <2>1, <2>2, <2>3, <2>4, <2>5, <2>6 DEF JobPlace
  <2>8. TaskPlace'
    BY <1>1, <2>1, <2>4 DEF TaskPlace
  <2> QED BY <2>7, <2>8
<1>4. CASE ~AwaitPut(t)
  <2>1. UNCHANGED <<jobs, ran>>
    BY <1>4 DEF Create, TaskStep, PeerSends, Yield, AwaitYield, AwaitReturn, IoPoll,
                IoReturn
  <2>2. \A x : InPool(x)' <=> InPool(x)
    BY <1>2, <2>1 DEF InPool
  <2>3. CASE Create(t) \/ Yield(t)
    <3>1. /\ rq' = Enqueued(t) /\ UNCHANGED registered
          /\ pc[t] \in {"new", "user"} /\ pc' = [pc EXCEPT ![t] = "user"]
          /\ \/ pc[t] = "new" /\ current' = current
             \/ current = t /\ current' = NoTask
      BY <1>1, <2>3 DEF Create, Yield, SwitchBack
    <3>2. \A y : Queued(y)' <=> (Queued(y) \/ y = t)
      BY <3>1, t \in AllTasks, EnqueueFacts DEF AllTasks, LoopInv
    <3>3. ~InPool(t) /\ t \notin registered
      BY <3>1 DEF JobPlace, TaskPlace
    <3>4. JobPlace'
      BY <1>1, <1>2, <2>1, <2>2, <3>1, <3>2, <3>3 DEF JobPlace
    <3>5. \A x \in Tasks : pc[x] = "submitted" => current' = x
      BY <3>1 DEF TaskPlace
    <3>6. TaskPlace'
      BY <1>1, <2>1, <2>2, <3>1, <3>2, <3>3, <3>5 DEF TaskPlace
    <3> QED BY <3>4, <3>6
  <2>4. CASE ~(Create(t) \/ Yield(t))
    <3>1. UNCHANGED rq
      BY <1>4, <2>4 DEF TaskStep, PeerSends, AwaitYield, AwaitReturn, IoPoll, IoReturn
    <3>2. \A y : Queued(y)' <=> Queued(y)
      BY <3>1 DEF Queued
    <3>3. CASE PeerSends(t)
      <4>1. UNCHANGED <<pc, current, registered>>
        BY <3>3 DEF PeerSends
      <4> QED BY <1>1, <1>2, <2>1, <2>2, <3>2, <4>1 DEF JobPlace, TaskPlace
    <3>4. CASE AwaitYield(t)
      <4>1. /\ current = t /\ pc[t] = "submitted" /\ pc' = [pc EXCEPT ![t] = "await"]
            /\ current' = NoTask /\ UNCHANGED registered
        BY <3>4 DEF AwaitYield, SwitchBack
      <4>2. JobPlace'
        BY <1>1, <1>2, <2>1, <2>2, <3>2, <4>1 DEF JobPlace
      <4>3. TaskPlace'
        BY <1>1, <2>1, <2>2, <3>2, <4>1 DEF TaskPlace
      <4> QED BY <4>2, <4>3
    <3>5. CASE AwaitReturn(t) \/ IoReturn(t)
      <4>1. /\ current = t /\ pc[t] \in {"await", "io"} /\ pc' = [pc EXCEPT ![t] = "user"]
            /\ UNCHANGED current /\ registered' \subseteq registered
        BY <3>5 DEF AwaitReturn, IoReturn
      <4>2. ~InPool(t)
        BY <4>1 DEF JobPlace
      <4>3. JobPlace'
        BY <1>1, <1>2, <2>1, <2>2, <3>2, <4>1, <4>2 DEF JobPlace
      <4>4. TaskPlace'
        BY <1>1, <2>1, <2>2, <3>2, <4>1 DEF TaskPlace
      <4> QED BY <4>3, <4>4
    <3>6. CASE IoPoll(t)
      <4>1. /\ current = t /\ pc[t] = "user" /\ pc' = [pc EXCEPT ![t] = "io"]
            /\ current' = NoTask /\ registered' = registered \cup {t}
        BY <3>6 DEF IoPoll, SwitchBack
      <4>2. ~InPool(t) /\ ~Queued(t)
        BY <4>1 DEF JobPlace, TaskPlace
      <4>3. JobPlace'
        BY <1>1, <1>2, <2>1, <2>2, <3>2, <4>1, <4>2 DEF JobPlace
      <4>4. TaskPlace'
        BY <1>1, <2>1, <2>2, <3>2, <4>1, <4>2 DEF TaskPlace
      <4> QED BY <4>3, <4>4
    <3> QED BY <1>4, <2>4, <3>3, <3>4, <3>5, <3>6 DEF TaskStep
  <2> QED BY <2>3, <2>4
<1> QED BY <1>3, <1>4

\* Steps of the pool's threads.
LEMMA WorkerAwait ==
    ASSUME LoopInv, AwaitInv, NEW w \in Workers, WorkerStep(w)
    PROVE  AwaitInv'
<1> USE DEF AwaitInv
<1>1. /\ UNCHANGED <<current, registered, pc>>
      /\ wpc \in [Workers -> {"idle", "run", "link", "write"}]
      /\ wjob \in [Workers -> Tasks \cup {NoTask}]
      /\ jobs \in Seq(Tasks) /\ ran \subseteq Tasks
  BY DEF WorkerStep, WorkerTake, WorkerRun, WorkerLink, WorkerWrite, LoopInv, TypeOK
<1>2. CASE WorkerTake(w)
  <2>1. /\ wpc[w] = "idle" /\ jobs # <<>> /\ jobs' = Tail(jobs) /\ UNCHANGED <<rq, ran>>
        /\ wjob' = [wjob EXCEPT ![w] = Head(jobs)] /\ wpc' = [wpc EXCEPT ![w] = "run"]
    BY <1>2 DEF WorkerTake
  <2>2. /\ Head(jobs) \in Tasks /\ Head(jobs) \in ToSet(jobs)
        /\ ToSet(jobs) = ToSet(Tail(jobs)) \cup {Head(jobs)}
        /\ WellLinked(Tail(jobs)) /\ Head(jobs) \notin ToSet(Tail(jobs))
    BY <1>1, <2>1, TakeFirst DEF JobPlace, list_empty, list_next
  <2> PICK h \in Tasks : h = Head(jobs)
    BY <2>2
  <2>3. \A x \in Tasks, v \in Workers :
           Holds(v, x)' <=> (Holds(v, x) \/ (v = w /\ x = h))
    BY <1>1, <2>1 DEF Holds
  <2>4. \A x \in Tasks : /\ x \in ToSet(jobs') <=> x \in ToSet(jobs) /\ x # h
                         /\ InPool(x)' <=> InPool(x)
                         /\ Queued(x)' <=> Queued(x)
    BY <2>1, <2>2, <2>3 DEF InPool, Queued
  <2>5. \A v \in Workers : ~Holds(v, h)
    BY <2>2 DEF JobPlace
  <2>6. JobPlace'
    <3>1. \A x \in Tasks, v, u \in Workers : Holds(v, x)' /\ Holds(u, x)' => v = u
      BY <2>3, <2>5 DEF JobPlace
    <3>2. \A x \in Tasks, v \in Workers : x \in ToSet(jobs') => ~Holds(v, x)'
      BY <2>3, <2>4 DEF JobPlace
    <3>3. \A v \in Workers : wpc'[v] = "link" => wjob'[v] \in ran'
      BY <1>1, <2>1 DEF JobPlace
    <3>4. WellLinked(jobs')
      BY <2>1, <2>2
    <3> QED BY <1>1, <2>4, <3>1, <3>2, <3>3, <3>4 DEF JobPlace
  <2>7. TaskPlace'
    BY <1>1, <2>1, <2>4 DEF TaskPlace
  <2> QED BY <2>6, <2>7
<1>3. CASE WorkerRun(w)
  <2>1. /\ wpc[w] = "run" /\ ran' = ran \cup {wjob[w]} /\ UNCHANGED <<rq, jobs, wjob>>
        /\ wpc' = [wpc EXCEPT ![w] = "link"]
    BY <1>3 DEF WorkerRun
  <2>2. \A x \in Tasks, v \in Workers : Holds(v, x)' <=> Holds(v, x)
    BY <1>1, <2>1 DEF Holds
  <2>3. \A x \in Tasks : (InPool(x)' <=> InPool(x)) /\ (Queued(x)' <=> Queued(x))
    BY <2>1, <2>2 DEF InPool, Queued
  <2>4. JobPlace'
    BY <1>1, <2>1, <2>2, <2>3 DEF JobPlace
  <2>5. TaskPlace'
    BY <1>1, <2>1, <2>3 DEF TaskPlace
  <2> QED BY <2>4, <2>5
<1>4. CASE WorkerLink(w)
  <2>1. /\ wpc[w] = "link" /\ rq' = Enqueued(wjob[w]) /\ UNCHANGED <<ran, jobs, wjob>>
        /\ wpc' = [wpc EXCEPT ![w] = "write"] /\ wjob[w] \in Tasks
    BY <1>4 DEF WorkerLink, LoopInv, Busy
  <2> PICK h \in Tasks : h = wjob[w]
    BY <2>1
  <2>2. \A y : Queued(y)' <=> (Queued(y) \/ y = h)
    BY <2>1, h \in AllTasks, EnqueueFacts DEF AllTasks, LoopInv
  <2>3. \A x \in Tasks, v \in Workers : Holds(v, x)' <=> (Holds(v, x) /\ v # w)
    BY <1>1, <2>1 DEF Holds
  <2>4. Holds(w, h) /\ h \in ran
    BY <2>1 DEF Holds, JobPlace
  <2>5. h \notin ToSet(jobs) /\ \A v \in Workers : Holds(v, h) => v = w
    BY <2>4 DEF JobPlace
  <2>6. \A x \in Tasks : x # h => ~Holds(w, x)
    BY <2>1 DEF Holds
  <2>7. \A x \in Tasks : InPool(x)' <=> (InPool(x) /\ x # h)
    BY <2>1, <2>3, <2>5, <2>6 DEF InPool
  <2>8. InPool(h)
    BY <2>4 DEF InPool
  <2>9. pc[h] \in {"submitted", "await"} /\ (current = h => pc[h] = "submitted")
    BY <2>8 DEF JobPlace
  <2>10. JobPlace'
    BY <1>1, <2>1, <2>2, <2>3, <2>7 DEF JobPlace
  <2>11. TaskPlace'
    BY <1>1, <2>1, <2>2, <2>4, <2>7, <2>9 DEF TaskPlace
  <2> QED BY <2>10, <2>11
<1>5. CASE WorkerWrite(w)
  <2>1. /\ wpc[w] = "write" /\ UNCHANGED <<rq, ran, jobs>>
        /\ wpc' = [wpc EXCEPT ![w] = "idle"] /\ wjob' = [wjob EXCEPT ![w] = NoTask]
    BY <1>5 DEF WorkerWrite
  <2>2. \A x \in Tasks, v \in Workers : Holds(v, x)' <=> Holds(v, x)
    BY <1>1, <2>1 DEF Holds
  <2>3. \A x \in Tasks : (InPool(x)' <=> InPool(x)) /\ (Queued(x)' <=> Queued(x))
    BY <2>1, <2>2 DEF InPool, Queued
  <2>4. JobPlace'
    BY <1>1, <2>1, <2>2, <2>3 DEF JobPlace
  <2>5. TaskPlace'
    BY <1>1, <2>1, <2>3 DEF TaskPlace
  <2> QED BY <2>4, <2>5
<1> QED BY <1>2, <1>3, <1>4, <1>5 DEF WorkerStep

LEMMA NextAwait == LoopInv /\ AwaitInv /\ [Next]_vars => AwaitInv'
<1> SUFFICES ASSUME LoopInv, AwaitInv, [Next]_vars PROVE AwaitInv'
  OBVIOUS
<1>1. CASE UNCHANGED vars
  <2>1. /\ UNCHANGED <<rq, current, registered, pc, jobs, ran, wpc, wjob>>
        /\ \A x : InPool(x)' <=> InPool(x)
        /\ \A x : Queued(x)' <=> Queued(x)
        /\ \A w, x : Holds(w, x)' <=> Holds(w, x)
    BY <1>1 DEF vars, svars, pvars, wvars, InPool, Holds, Queued
  <2> QED BY <2>1 DEF AwaitInv, JobPlace, TaskPlace
<1>2. CASE Next
  BY <1>2, SchedulerAwait, TaskAwait, WorkerAwait DEF Next
<1> QED BY <1>1, <1>2

\* A job is in one place, and a task whose job has left the pool is queued or running.
THEOREM AwaitInvariance == Spec => []AwaitInv
<1> QED BY InitLoop, NextLoop, InitAwait, NextAwait, PTL DEF Spec

\* Task::await never returns before AwaitRunner::run has stored the result.
THEOREM AwaitIsSynchronous == Spec => []AwaitAfterRun
<1>1. AwaitInv => AwaitAfterRun
  BY DEF AwaitInv, JobPlace, TaskPlace, AwaitAfterRun
<1> QED BY AwaitInvariance, <1>1, PTL

\* No task sleeps in Task::await with nobody left to wake it.
THEOREM AwaitLosesNoTask == Spec => []AwaitRemembered
<1>1. AwaitInv => AwaitRemembered
  BY DEF AwaitInv, TaskPlace, AwaitRemembered, InPool, Holds
<1> QED BY AwaitInvariance, <1>1, PTL

=============================================================================
