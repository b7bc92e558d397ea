----------------------------- MODULE ThreadPool -----------------------------
(***************************************************************************)
(* thread/ThreadPool.h on top of ArrayBlockingQueue, driven the way        *)
(* Task::await drives it: every await calls start(), puts its runner into  *)
(* the queue and waits until a worker has run it; the destructor calls     *)
(* stop(), which clears running, offers one empty runner per worker and    *)
(* joins the workers.                                                      *)
(*                                                                         *)
(* A user is a thread that awaits: a scheduler thread on behalf of one of  *)
(* its tasks, or a thread without tasks.  Its runner is named after it.    *)
(***************************************************************************)
EXTENDS ArrayBlockingQueue

CONSTANTS
    Users,      \* threads that call Task::await
    Workers,    \* threads the pool may create
    Main,       \* the thread that stops the pool
    Pill,       \* an EmptyRunner
    threadNum,  \* workers per start()
    Casts       \* the sets of threads that may be the ones that ever await or stop

ASSUME PoolAssumption ==
    /\ Threads = Users \cup Workers \cup {Main}
    /\ Users \cap Workers = {} /\ Main \notin Users \cup Workers
    /\ Elems = Users \cup {Pill} /\ Pill \notin Users
    /\ threadNum \in Nat \ {0} /\ threadNum <= Cardinality(Workers)
    /\ Casts \subseteq SUBSET (Users \cup {Main})

VARIABLES
    running, bStarted,
    workers,    \* the threads in the vector of workers
    wpc,        \* program counter of Worker::run; "none" before it is created
    upc,        \* program counter of Task::await and start()
    ran,        \* the users whose runner has run
    mpc,        \* program counter of stop()
    left        \* turns left in the loop of start() or stop()

pvars == <<running, bStarted, workers, wpc, upc, ran, mpc, left>>
vars == <<qvars, pvars>>

PoolTypeOK ==
    /\ TypeOK
    /\ running \in BOOLEAN /\ bStarted \in BOOLEAN
    /\ workers \subseteq Workers
    /\ wpc \in [Workers -> {"none", "loop", "take", "run", "dead"}]
    /\ upc \in [Users -> {"gone", "out", "test", "set", "on", "spawn", "put", "putting", "wait", "dropped"}]
    /\ ran \subseteq Users
    /\ mpc \in {"gone", "up", "offer", "offered", "join", "stopped"}
    /\ left \in [Users \cup {Main} -> 0 .. threadNum]

\* running has no initialiser: it holds anything until start() sets it.  Nothing has
\* been put into the queue or taken from it.  A thread outside the cast is "gone".
Init ==
    /\ QueueInit
    /\ got = [t \in Threads |-> Pill]
    /\ ran = {}
    /\ left = [x \in Users \cup {Main} |-> 0]
    /\ \E cast \in Casts :
         /\ upc = [u \in Users |-> IF u \in cast THEN "out" ELSE "gone"]
         /\ mpc = IF Main \in cast THEN "up" ELSE "gone"
    /\ running \in BOOLEAN
    /\ bStarted = FALSE
    /\ workers = {}
    /\ wpc = [w \in Workers |-> "none"]

UserAt(u, l) == upc' = [upc EXCEPT ![u] = l]
WorkerAt(w, l) == wpc' = [wpc EXCEPT ![w] = l]

-----------------------------------------------------------------------------
\* Task::await is called.
Await(u) ==
    /\ upc[u] = "out"
    /\ UserAt(u, "test")
    /\ ran' = ran \ {u}
    /\ UNCHANGED <<qvars, running, bStarted, workers, wpc, mpc, left>>

\* start(): if (bStarted) return.
StartTest(u) ==
    /\ upc[u] = "test"
    /\ UserAt(u, IF bStarted THEN "put" ELSE "set")
    /\ UNCHANGED <<qvars, running, bStarted, workers, wpc, ran, mpc, left>>

\* start(): bStarted = true.
StartSet(u) ==
    /\ upc[u] = "set"
    /\ bStarted' = TRUE
    /\ UserAt(u, "on")
    /\ UNCHANGED <<qvars, running, workers, wpc, ran, mpc, left>>

\* start(): running = true.
StartOn(u) ==
    /\ upc[u] = "on"
    /\ running' = TRUE
    /\ left' = [left EXCEPT ![u] = threadNum]
    /\ UserAt(u, "spawn")
    /\ UNCHANGED <<qvars, bStarted, workers, wpc, ran, mpc>>

\* One turn of the loop of start().  Two threads that push into the vector at the
\* same time may lose an entry; stop(), which clears it, may race with them too.
StartSpawn(u) ==
    /\ upc[u] = "spawn"
    /\ \E w \in Workers :
         /\ wpc[w] = "none"
         /\ WorkerAt(w, "loop")
         /\ \/ workers' = workers \cup {w}
            \/ /\ \E v \in Users \ {u} : upc[v] = "spawn"
               /\ UNCHANGED workers
    /\ left' = [left EXCEPT ![u] = @ - 1]
    /\ UserAt(u, IF left[u] = 1 THEN "put" ELSE "spawn")
    /\ UNCHANGED <<qvars, running, bStarted, ran, mpc>>

\* put(): a pool that is not running drops the runner; await waits all the same.
PoolPut(u) ==
    /\ upc[u] = "put"
    /\ \/ /\ running
          /\ CallPut(u, u)
          /\ UserAt(u, "putting")
       \/ /\ ~running
          /\ UserAt(u, "dropped")
          /\ UNCHANGED qvars
    /\ UNCHANGED <<running, bStarted, workers, wpc, ran, mpc, left>>

\* put() returns; await waits.
PutReturns(u) ==
    /\ upc[u] = "putting"
    /\ qpc[u] = "idle"
    /\ UserAt(u, "wait")
    /\ UNCHANGED <<qvars, running, bStarted, workers, wpc, ran, mpc, left>>

\* Mutant of AwaitReturn: any wake-up is taken for the end of the runner.
ReturnEarly(u) ==
    /\ upc[u] = "wait"
    /\ UserAt(u, "out")
    /\ UNCHANGED <<qvars, running, bStarted, workers, wpc, ran, mpc, left>>

\* await returns; from here on the caller's Runnable may be gone.
AwaitReturn(u) ==
    /\ upc[u] = "wait"
    /\ u \in ran
    /\ UserAt(u, "out")
    /\ UNCHANGED <<qvars, running, bStarted, workers, wpc, ran, mpc, left>>

-----------------------------------------------------------------------------
\* Worker::run: while (pool.running) take().
WorkerLoop(w) ==
    /\ wpc[w] = "loop"
    /\ \/ running /\ CallTake(w) /\ WorkerAt(w, "take")
       \/ ~running /\ WorkerAt(w, "dead") /\ UNCHANGED qvars
    /\ UNCHANGED <<running, bStarted, workers, upc, ran, mpc, left>>

\* take() returns.
WorkerTaken(w) ==
    /\ wpc[w] = "take"
    /\ qpc[w] = "idle"
    /\ WorkerAt(w, "run")
    /\ UNCHANGED <<qvars, running, bStarted, workers, upc, ran, mpc, left>>

\* Mutant of WorkerRun: the user is not woken.
RunWithoutWakeup(w) ==
    /\ wpc[w] = "run"
    /\ WorkerAt(w, "loop")
    /\ UNCHANGED <<qvars, running, bStarted, workers, upc, ran, mpc, left>>

\* r->run(): an AwaitRunner wakes its user, an EmptyRunner does nothing.
WorkerRun(w) ==
    /\ wpc[w] = "run"
    /\ ran' = ran \cup ({got[w]} \ {Pill})
    /\ WorkerAt(w, "loop")
    /\ UNCHANGED <<qvars, running, bStarted, workers, upc, mpc, left>>

-----------------------------------------------------------------------------
\* stop(): running = false.
Stop ==
    /\ mpc = "up"
    /\ running' = FALSE
    /\ left' = [left EXCEPT ![Main] = threadNum]
    /\ mpc' = "offer"
    /\ UNCHANGED <<qvars, bStarted, workers, wpc, upc, ran>>

\* stop(): tasks.offer(runner), once per worker; the result is not looked at.
StopOffer ==
    /\ mpc = "offer"
    /\ CallOffer(Main, Pill)
    /\ mpc' = "offered"
    /\ UNCHANGED <<running, bStarted, workers, wpc, upc, ran, left>>

\* stop(): offer() returns, whatever it returns.
StopOffered ==
    /\ mpc = "offered"
    /\ qpc[Main] \in Returned
    /\ left' = [left EXCEPT ![Main] = @ - 1]
    /\ mpc' = IF left[Main] = 1 THEN "join" ELSE "offer"
    /\ UNCHANGED <<qvars, running, bStarted, workers, wpc, upc, ran>>

\* stop(): join every worker, then workers.clear().
StopJoin ==
    /\ mpc = "join"
    /\ \A w \in workers : wpc[w] = "dead"
    /\ mpc' = "stopped"
    /\ workers' = {}
    /\ UNCHANGED <<qvars, running, bStarted, wpc, upc, ran, left>>

-----------------------------------------------------------------------------
InAwait(u) ==
    \/ StartTest(u) \/ StartSet(u) \/ StartOn(u) \/ StartSpawn(u)
    \/ PoolPut(u) \/ PutReturns(u) \/ AwaitReturn(u)

WorkerStep(w) == WorkerLoop(w) \/ WorkerTaken(w) \/ WorkerRun(w)

StopStep == StopOffer \/ StopOffered \/ StopJoin

InQueue(t) == QueueStep(t) /\ UNCHANGED pvars

Next ==
    \/ \E u \in Users : Await(u) \/ InAwait(u)
    \/ \E w \in Workers : WorkerStep(w)
    \/ Stop \/ StopStep
    \/ \E t \in Threads : InQueue(t) \/ (SpuriousWakeup(t) /\ UNCHANGED pvars)

Spec == Init /\ [][Next]_vars

\* Every thread runs, and a thread that wants the queue's lock gets it sooner or
\* later.  Nothing makes a user await again, or makes anybody stop the pool.
FairSpec ==
    /\ Spec
    /\ \A u \in Users : WF_vars(InAwait(u))
    /\ \A w \in Workers : WF_vars(WorkerStep(w))
    /\ WF_vars(StopStep)
    /\ \A t \in Threads :
         WF_vars(InQueue(t)) /\ SF_vars(Lock(t) /\ UNCHANGED pvars)

-----------------------------------------------------------------------------
\* A worker has the runner of u and has not run it to its end.
HasJob(w, u) ==
    /\ got[w] = u
    /\ wpc[w] = "run" \/ (wpc[w] = "take" /\ qpc[w] \in Returned \cup {"unlock"})

\* stop() has been called.
Stopped == mpc \notin {"gone", "up"}

\* A thread is inside start().
Starting == \E u \in Users : upc[u] \in {"set", "on", "spawn"}

\* An accepted runner is never lost, whether the pool is still being started or has been
\* stopped since: while its await waits, it has run, or it is in the queue, or a worker
\* has it.
JobKept ==
    \A u \in Users :
        upc[u] = "wait" =>
            \/ u \in ran
            \/ \E i \in 1 .. count_ : Contents[i] = u
            \/ \E w \in Workers : HasJob(w, u)

\* A worker runs a runner only while the await that owns the Runnable is still
\* inside: AwaitRunner keeps a reference to the caller's object.
RunnableAlive ==
    \A w \in Workers, u \in Users :
        (wpc[w] = "run" /\ got[w] = u) => upc[u] \in {"putting", "wait"} /\ u \notin ran

\* Every await returns, unless the pool is stopped while it is under way.
AwaitReturns == \A u \in Users : upc[u] = "test" ~> upc[u] = "out" \/ Stopped

\* An await that finds both flags of start() set returns, even while the first start()
\* is still creating the workers, unless the pool is stopped while it is under way.
StartedAwaitReturns ==
    \A u \in Users :
        upc[u] = "test" /\ bStarted /\ running ~> upc[u] = "out" \/ Stopped

\* Once the pool is up and stop() has cleared running, stop() returns: the empty
\* runners keep every worker from staying blocked in take().
StopReturns == mpc = "offer" /\ bStarted /\ ~running /\ ~Starting ~> mpc = "stopped"

=============================================================================
