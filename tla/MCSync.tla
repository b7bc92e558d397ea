------------------------------- MODULE MCSync -------------------------------
(***************************************************************************)
(* What tasks and threads wait on: the channel of the tasks of a thread,   *)
(* the C channel with and without a buffer, the semaphore, the pool of     *)
(* tasks, the future and the singleton.  They do not touch each other's    *)
(* state, and a behaviour moves one of them: part says which.  TLC runs    *)
(* the instance of MCSync.cfg; SyncProofs is about every instance.         *)
(***************************************************************************)
EXTENDS Integers, Sequences, FiniteSets

VARIABLE part    \* the component that moves

\* sync/Chan.h: the channel of the tasks of one thread.
CONSTANTS ChanTasks, ChanElems, capacity, ChanOps
VARIABLES messages, putIndex, takeIndex, count, closed, pc_ch, arg, got_ch
Ch == INSTANCE Chan WITH
    Tasks <- ChanTasks, Elems <- ChanElems, Ops <- ChanOps, pc <- pc_ch, got <- got_ch

\* For TLC: a task that sends, one that receives and one that receives with a time-out.
SmallOps ==
    [t \in ChanTasks |-> CASE t = "s" -> {"send", "sendTill"}
                           [] t = "r1" -> {"recv"} [] t = "r2" -> {"recvTill"}]
chanVars == <<messages, putIndex, takeIndex, count, closed, pc_ch, arg, got_ch>>

\* chan.c with a buffer.
CONSTANTS Senders, Receivers, nelems
VARIABLES msgs, not_full, not_empty, pc_cc, sent, pushed, taken
Buffered == INSTANCE CaskChan WITH pc <- pc_cc
caskVars == <<msgs, not_full, not_empty, pc_cc, sent, pushed, taken>>

\* chan.c without a buffer; it has the variables of Buffered.
Meeting == INSTANCE CaskChan WITH nelems <- 0, pc <- pc_cc

\* co_sem.c: tasks, each on a thread of its own.
CONSTANTS SemTasks, NoTask, Count, MaxPosts, MaxTakes
VARIABLES sem, wait_list, rq, running, blocked, pc_sem, target, posts, calls_sem, takes, sleeps
Sem == INSTANCE CoSem WITH
    Tasks <- SemTasks, pc <- pc_sem, calls <- calls_sem
semVars == <<sem, wait_list, rq, running, blocked, pc_sem, target, posts, calls_sem, takes, sleeps>>

\* task/TaskThread.h: runners from tasks (Inside) and from threads without tasks.
CONSTANTS Runners, Inside, Workers, ChanSize, KeepAlive
VARIABLES threadState, fBoss, fTasks, bossChan, bpc, wpc, fChan, fIdleWorkers, job, st
Pool == INSTANCE TaskThread
poolVars == <<threadState, fBoss, fTasks, bossChan, bpc, wpc, fChan, fIdleWorkers, job, st>>

\* thread/Future.h: threads that get one result.
CONSTANTS Getters, Runner, Nobody, MaxSpurious
VARIABLES fMutex, bFinished, fResult, asleep, pc_fut, got_fut, rpc, left, spurious
Fut == INSTANCE Future WITH pc <- pc_fut, got <- got_fut
futureVars == <<fMutex, bFinished, fResult, asleep, pc_fut, got_fut, rpc, left, spurious>>

\* base/Singleton.h: threads that look for the instance.
CONSTANTS Threads, MaxCalls
VARIABLES pInstance, built, destroyed, spinLock, pc_sin, calls_sin, held
Single == INSTANCE Singleton WITH pc <- pc_sin, calls <- calls_sin
singleVars == <<pInstance, built, destroyed, spinLock, pc_sin, calls_sin, held>>

ASSUME SyncAssumption ==
    /\ Ch!ChanAssumption
    /\ Buffered!ChanAssumption
    /\ Meeting!ChanAssumption
    /\ Sem!SemAssumption
    /\ Pool!TaskThreadAssumption
    /\ Fut!FutureAssumption
    /\ Single!SingletonAssumption

allVars == <<part, chanVars, caskVars, semVars, poolVars, futureVars, singleVars>>

Init ==
    /\ part \in {"chan", "buffered", "meeting", "sem", "pool", "future", "singleton"}
    /\ Ch!Init
    /\ Buffered!Init
    /\ Sem!Init
    /\ Pool!Init
    /\ Fut!Init
    /\ Single!Init
    /\ part # "chan" => \A i \in DOMAIN messages : messages[i] = CHOOSE e \in ChanElems : TRUE

\* One component takes a step; the others stay as they are.
Next ==
    \/ /\ part = "chan" /\ Ch!Next
       /\ UNCHANGED <<part, caskVars, semVars, poolVars, futureVars, singleVars>>
    \/ /\ part = "buffered" /\ Buffered!Next
       /\ UNCHANGED <<part, chanVars, semVars, poolVars, futureVars, singleVars>>
    \/ /\ part = "meeting" /\ Meeting!Next
       /\ UNCHANGED <<part, chanVars, semVars, poolVars, futureVars, singleVars>>
    \/ /\ part = "sem" /\ Sem!Next
       /\ UNCHANGED <<part, chanVars, caskVars, poolVars, futureVars, singleVars>>
    \/ /\ part = "pool" /\ Pool!Next
       /\ UNCHANGED <<part, chanVars, caskVars, semVars, futureVars, singleVars>>
    \/ /\ part = "future" /\ Fut!Next
       /\ UNCHANGED <<part, chanVars, caskVars, semVars, poolVars, singleVars>>
    \/ /\ part = "singleton" /\ Single!Next
       /\ UNCHANGED <<part, chanVars, caskVars, semVars, poolVars, futureVars>>

\* What the components say of their scheduling, each for its own part.
Spec ==
    /\ Init /\ [][Next]_allVars
    /\ \A t \in ChanTasks :
         /\ WF_chanVars(part = "chan" /\ Ch!Step(t))
         /\ WF_chanVars(part = "chan" /\ Ch!Timeout(t))
         /\ WF_chanVars(part = "chan" /\ \E op \in Ch!Calls : Ch!CallRecv(t, op))
    /\ \A t \in Senders : /\ WF_caskVars(part = "buffered" /\ Buffered!Send(t))
                                     /\ WF_caskVars(part = "meeting" /\ Meeting!Send(t))
    /\ \A t \in Receivers : /\ WF_caskVars(part = "buffered" /\ Buffered!Recv(t))
                                     /\ WF_caskVars(part = "meeting" /\ Meeting!Recv(t))
    /\ WF_poolVars(part = "pool" /\ Pool!Alive /\ (Pool!run \/ Pool!sched))
    /\ WF_poolVars(part = "pool" /\ Pool!Alive /\ Pool!BossStep)
    /\ \A w \in Workers :
         /\ WF_poolVars(part = "pool" /\ Pool!Alive /\ Pool!WorkerStep(w))
         /\ WF_poolVars(part = "pool" /\ Pool!Alive /\ Pool!KeepAliveTimer(w))
    /\ \A t \in Getters : WF_futureVars(part = "future" /\ Fut!Getting(t))
    /\ \A t \in Threads : WF_singleVars(part = "singleton" /\ Single!Step(t))
    /\ WF_futureVars(part = "future" /\ Fut!Running)

-----------------------------------------------------------------------------
\* The channel of a thread's tasks is a bounded FIFO that close() may empty: whatever timers
\* expire in whatever order, every message is received once and in order, or discarded by
\* close().
RefinesFifo == Ch!RefinesFifo

\* Nobody sleeps in Chan.h's channel while it could serve it, but a sender after close(), and
\* its indices agree with its count.  Messages come out of the C channel in the order they
\* went in, none twice and none lost, and without a buffer chan_send returns only when its
\* message has been received.
ChannelsSafe ==
    /\ Ch!ChanTypeOK /\ Ch!SleepersJustified /\ Ch!RingConsistent
    /\ Buffered!ChanInOrder
    /\ part = "buffered" => Buffered!ChanTypeOK
    /\ part = "meeting" => Meeting!Rendezvous

\* The semaphore lets no more tasks through than its initial count and its posts allow,
\* however tries, their undoing and the checks under the lock interleave; its count is short
\* by exactly one for every time a task went to sleep; its list holds sleepers only, and no
\* sleeper is forgotten, whatever comes between a post's look at the list and the two halves
\* of its co_resume, up to the first link that is in two lists.
SemaphoreExact == Sem!SemSafe /\ Sem!SemAccount /\ Sem!SleepersListed

\* No runner of a task thread is lost or run twice, even when the keep-alive timer of a worker
\* expires as the boss sends to it: idle workers are alive, at or in their recv, with
\* nothing in their channels.
RunnersKept == Pool!TaskThreadTypeOK /\ Pool!IdleReady /\ Pool!RunnerKept

\* A flag or a pointer read without the lock is never ahead of what it stands for: get() does
\* not return before the result is there, and every getInstance() gives the one instance,
\* built, and not destroyed by another thread's first call.
PublishedOnce == Fut!GotResult /\ Single!OneInstance

\* No wake-up is lost: the oldest message of the channel is taken or discarded; every call of
\* the C channel returns, with up to three senders when it has no buffer; a runner that a
\* task submitted runs; a worker that has nothing to do dies; every get() returns, unless
\* two or more threads were asleep when run() signalled one; no getInstance() spins for ever.
WaitsEnd ==
    /\ part = "chan" => Ch!HeadTaken
    /\ part = "buffered" => Buffered!CallsReturn
    /\ part = "meeting" => Meeting!CallsReturn
    /\ part = "pool" => Pool!InsideRuns /\ Pool!IdleKilled
    /\ part = "future" => Fut!GetReturns
    /\ part = "singleton" => Single!EveryCallReturns
=============================================================================
