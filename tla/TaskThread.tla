----------------------------- MODULE TaskThread -----------------------------
(***************************************************************************)
(* task/TaskThread.h: a thread that keeps a pool of tasks.  A boss task    *)
(* polls the thread's queue, otherwise receives from its channel, and      *)
(* hands each runner to an idle worker task, or to a new one; a worker     *)
(* that receives nothing for the keep-alive time takes itself out of the   *)
(* idle set and dies.                                                      *)
(*                                                                         *)
(* Boss and workers are tasks of one thread: a stretch between two waits   *)
(* is one action.  submit() is called by tasks of this or other threads    *)
(* (it sends to the boss) and by threads without tasks (it offers to the   *)
(* queue).                                                                 *)
(***************************************************************************)
EXTENDS Integers, Sequences, FiniteSets

CONSTANTS
    Runners,    \* what is submitted, each once
    Inside,     \* the runners submitted by a task
    Workers,    \* the worker tasks the boss may create
    ChanSize,   \* capacity of the boss's channel
    KeepAlive   \* fTimeout > 0

TaskThreadAssumption ==
    /\ Inside \subseteq Runners
    /\ ChanSize \in Nat \ {0}
    /\ KeepAlive \in BOOLEAN

VARIABLES
    threadState, fBoss,     \* fBoss: the pointer is set
    fTasks, bossChan,       \* the runners offered, and the runners sent to the boss
    bpc,                    \* "none", "poll", "recv" or "asleep" in recv
    wpc, fChan,             \* the workers, and their channels of size one
    fIdleWorkers,
    job,                    \* job[w]: the runners w is running
    st                      \* what became of a runner

tvars == <<threadState, fBoss>>
bvars == <<fTasks, bossChan, bpc>>
wvars == <<wpc, fChan, fIdleWorkers, job>>
vars == <<tvars, bvars, wvars, st>>

TaskThreadTypeOK ==
    /\ threadState \in {"init", "running"} /\ fBoss \in BOOLEAN
    /\ fTasks \in Seq(Runners) /\ bossChan \in Seq(Runners) /\ Len(bossChan) <= ChanSize
    /\ bpc \in {"none", "poll", "recv", "asleep"}
    /\ wpc \in [Workers -> {"none", "recv", "asleep", "back", "run", "dead"}]
    /\ fChan \in [Workers -> Seq(Runners)] /\ \A w \in Workers : Len(fChan[w]) <= 1
    /\ fIdleWorkers \subseteq Workers
    /\ job \in [Workers -> SUBSET Runners]
    /\ st \in [Runners -> {"new", "accepted", "refused", "crashed", "ran"}]

Init ==
    /\ threadState = "init" /\ fBoss = FALSE
    /\ fTasks = <<>> /\ bossChan = <<>> /\ bpc = "none"
    /\ wpc = [w \in Workers |-> "none"]
    /\ fChan = [w \in Workers |-> <<>>]
    /\ fIdleWorkers = {}
    /\ job = [w \in Workers |-> {}]
    /\ st = [r \in Runners |-> "new"]

-----------------------------------------------------------------------------
\* _thread_run: the new thread is RUNNING before run() has begun.
_thread_run ==
    /\ threadState = "init"
    /\ threadState' = "running"
    /\ UNCHANGED <<fBoss, bvars, wvars, st>>

\* run(): creates the boss; then starts it, sets fSched and schedules.
run ==
    /\ threadState = "running" /\ ~fBoss
    /\ fBoss' = TRUE
    /\ UNCHANGED <<threadState, bvars, wvars, st>>

sched ==
    /\ fBoss /\ bpc = "none"
    /\ bpc' = "poll"
    /\ UNCHANGED <<tvars, fTasks, bossChan, wvars, st>>

Outcome(r, o) == st' = [st EXCEPT ![r] = o]

\* submit() by a task: refused before the thread runs, a null boss or a null scheduler for
\* activeSched() until run() has set both, and otherwise a send that blocks while the
\* boss's channel is full.
submitByTask(r) ==
    /\ r \in Inside /\ st[r] = "new"
    /\ UNCHANGED <<tvars, fTasks, wvars>>
    /\ \/ /\ threadState # "running"
          /\ Outcome(r, "refused")
          /\ UNCHANGED <<bossChan, bpc>>
       \/ /\ threadState = "running" /\ bpc = "none"
          /\ Outcome(r, "crashed")
          /\ UNCHANGED <<bossChan, bpc>>
       \/ /\ bpc # "none" /\ Len(bossChan) < ChanSize
          /\ bossChan' = Append(bossChan, r)
          /\ bpc' = IF bpc = "asleep" THEN "recv" ELSE bpc
          /\ Outcome(r, "accepted")

\* submit() by a thread without tasks: offer() takes the runner or refuses it (a full
\* queue or a busy lock).  Nobody wakes the boss.
submitByThread(r) ==
    /\ r \notin Inside /\ st[r] = "new"
    /\ UNCHANGED <<tvars, bossChan, bpc, wvars>>
    /\ \/ Outcome(r, "refused") /\ UNCHANGED fTasks
       \/ /\ threadState = "running"
          /\ fTasks' = Append(fTasks, r)
          /\ Outcome(r, "accepted")

\* The state of a worker whose channel has just been filled.
Woken(w) == IF wpc[w] # "asleep" THEN wpc[w] ELSE IF KeepAlive THEN "back" ELSE "recv"

\* The boss hands r to an idle worker, or to a new one, and starts its next turn.
Dispatch(r) ==
    \E w \in Workers :
        /\ \/ fIdleWorkers = {} /\ wpc[w] = "none" /\ wpc' = [wpc EXCEPT ![w] = "recv"]
           \/ w \in fIdleWorkers /\ wpc' = [wpc EXCEPT ![w] = Woken(w)]
        /\ fIdleWorkers' = fIdleWorkers \ {w}
        /\ fChan' = [fChan EXCEPT ![w] = Append(@, r)]
        /\ bpc' = "poll"
        /\ UNCHANGED <<tvars, job, st>>

\* The boss finds a runner in the queue of the thread, or finds none (or the lock of
\* the queue taken by a thread that is just offering).
bossPoll ==
    /\ bpc = "poll"
    /\ \/ /\ fTasks # <<>>
          /\ fTasks' = Tail(fTasks)
          /\ Dispatch(Head(fTasks))
          /\ UNCHANGED bossChan
       \/ /\ fTasks = <<>> \/ \E r \in Runners \ Inside : st[r] = "new"
          /\ bpc' = "recv"
          /\ UNCHANGED <<tvars, fTasks, bossChan, wvars, st>>

bossRecv ==
    /\ bpc = "recv"
    /\ \/ /\ bossChan = <<>>
          /\ bpc' = "asleep"
          /\ UNCHANGED <<tvars, fTasks, bossChan, wvars, st>>
       \/ /\ bossChan # <<>>
          /\ bossChan' = Tail(bossChan)
          /\ Dispatch(Head(bossChan))
          /\ UNCHANGED fTasks

\* A worker has received a runner and begins to run it.
Take(w) ==
    /\ wpc' = [wpc EXCEPT ![w] = "run"]
    /\ job' = [job EXCEPT ![w] = {Head(fChan[w])}]
    /\ fChan' = [fChan EXCEPT ![w] = <<>>]
    /\ UNCHANGED <<tvars, bvars, fIdleWorkers, st>>

workerRecv(w) ==
    \/ /\ wpc[w] = "recv" /\ fChan[w] = <<>>
       /\ wpc' = [wpc EXCEPT ![w] = "asleep"]
       /\ UNCHANGED <<tvars, bvars, fChan, fIdleWorkers, job, st>>
    \/ wpc[w] \in {"recv", "back"} /\ fChan[w] # <<>> /\ Take(w)

\* The keep-alive timer expires: the worker is runnable but has not looked yet.
KeepAliveTimer(w) ==
    /\ KeepAlive /\ wpc[w] = "asleep"
    /\ wpc' = [wpc EXCEPT ![w] = "back"]
    /\ UNCHANGED <<tvars, bvars, fChan, fIdleWorkers, job, st>>

\* Mutant of workerDies: what came in during the time-out is not looked at.
DiesUnlooked(w) ==
    /\ wpc[w] = "back"
    /\ wpc' = [wpc EXCEPT ![w] = "dead"]
    /\ fIdleWorkers' = fIdleWorkers \ {w}
    /\ UNCHANGED <<tvars, bvars, fChan, job, st>>

\* recvTill returned false: removeWorker, and the task ends.
workerDies(w) ==
    /\ wpc[w] = "back" /\ fChan[w] = <<>>
    /\ wpc' = [wpc EXCEPT ![w] = "dead"]
    /\ fIdleWorkers' = fIdleWorkers \ {w}
    /\ UNCHANGED <<tvars, bvars, fChan, job, st>>

\* runner->run() has returned; rest() puts the worker into the idle set.
workerRest(w) ==
    /\ wpc[w] = "run"
    /\ st' = [r \in Runners |-> IF r \in job[w] THEN "ran" ELSE st[r]]
    /\ job' = [job EXCEPT ![w] = {}]
    /\ fIdleWorkers' = fIdleWorkers \cup {w}
    /\ wpc' = [wpc EXCEPT ![w] = "recv"]
    /\ UNCHANGED <<tvars, bvars, fChan>>

-----------------------------------------------------------------------------
\* The process is up.
Alive == \A r \in Runners : st[r] # "crashed"

BossStep == bossPoll \/ bossRecv
WorkerStep(w) == workerRecv(w) \/ workerDies(w) \/ workerRest(w)

Step ==
    \/ _thread_run \/ run \/ sched \/ BossStep
    \/ \E r \in Runners : submitByTask(r) \/ submitByThread(r)
    \/ \E w \in Workers : WorkerStep(w) \/ KeepAliveTimer(w)

Next == Alive /\ Step

\* The thread is scheduled, its round-robin scheduler runs every runnable task, timers
\* expire and runners return.  Nobody is obliged to submit.
Spec ==
    /\ Init /\ [][Next]_vars
    /\ WF_vars(Alive /\ (run \/ sched)) /\ WF_vars(Alive /\ BossStep)
    /\ \A w \in Workers : /\ WF_vars(Alive /\ WorkerStep(w))
                          /\ WF_vars(Alive /\ KeepAliveTimer(w))

-----------------------------------------------------------------------------
\* The boss can always hand a runner to an idle worker at once: idle workers are alive,
\* at or in their recv, and their channels are empty.
IdleReady ==
    \A w \in fIdleWorkers : wpc[w] \in {"recv", "asleep", "back"} /\ fChan[w] = <<>>

Occurs(r, s) == Cardinality({i \in DOMAIN s : s[i] = r})
Holders(r) == Cardinality({w \in Workers : r \in job[w]})
InChannels(r) == Cardinality({w \in Workers : fChan[w] = <<r>>})

\* No runner is lost or run twice, even when the keep-alive timer of a worker expires as
\* the boss sends to it: an accepted runner is in exactly one place, and never with a
\* worker that died.
RunnerKept ==
    /\ \A r \in Runners :
         Occurs(r, fTasks) + Occurs(r, bossChan) + InChannels(r) + Holders(r)
           = IF st[r] = "accepted" THEN 1 ELSE 0
    /\ \A w \in Workers : wpc[w] \in {"none", "dead"} => fChan[w] = <<>> /\ job[w] = {}

\* A runner that a task submitted runs in the end (unless the process is gone).
InsideRuns == \A r \in Inside : st[r] = "accepted" ~> (st[r] = "ran" \/ ~Alive)

\* With a keep-alive time no worker stays for ever: they are killed when idle.
IdleKilled == KeepAlive /\ [](Alive) => <>[](\A w \in Workers : wpc[w] \in {"none", "dead"})

\* What the README promises of pool.submit(runnerPtr): a runner that was accepted is run
\* by one of the pool's tasks, whoever submitted it.
SubmittedRuns == \A r \in Runners : st[r] = "accepted" ~> (st[r] = "ran" \/ ~Alive)

=============================================================================
