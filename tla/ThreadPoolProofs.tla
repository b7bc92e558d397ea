-------------------------- MODULE ThreadPoolProofs --------------------------
(***************************************************************************)
(* The thread pool loses no runner and runs none whose await has returned, *)
(* for any number of threads that await, of workers and of slots, while    *)
(* start() races with itself and with stop().  The argument: between the   *)
(* moment put() stores it and the moment it has run, a runner is in one    *)
(* place, the ring or one worker, and its await is inside all that time.   *)
(***************************************************************************)
EXTENDS ThreadPool, ArrayBlockingQueueProofs

\* Where the threads are in the queue's code: a thread is there only during its own call.
UserPlaces ==
    \A u \in Users :
        /\ qpc[u] \in {"idle", "put_lock", "put", "put_wait", "unlock"}
        /\ upc[u] # "putting" => qpc[u] = "idle"
        /\ upc[u] = "putting" => arg[u] = u

WorkerPlaces ==
    \A w \in Workers :
        /\ qpc[w] \in {"idle", "take_lock", "take", "take_wait", "unlock"}
        /\ wpc[w] # "take" => qpc[w] = "idle"

MainPlaces ==
    /\ qpc[Main] \in Returned \cup {"offer_look", "offer_try", "offer", "unlock"}
    /\ mpc # "offered" => qpc[Main] \in Returned
    /\ mpc = "offered" => arg[Main] = Pill

Turns ==
    /\ \A u \in Users : upc[u] = "spawn" => left[u] # 0
    /\ mpc \in {"offer", "offered"} => left[Main] # 0

\* The users whose runner is in the queue or beyond, and the runners of a worker.
Before == {"put_lock", "put", "put_wait"}
Enqueued == {u \in Users : upc[u] = "wait" \/ (upc[u] = "putting" /\ qpc[u] \notin Before)}
HeldBy == [w \in Workers |-> {u \in Users : HasJob(w, u)}]
Queued == {u \in Users : u \in ToSet(Contents)}

\* A runner that was enqueued and has not run is in one place: the queue, or one worker.
OnePlace(C, H, E, R) ==
    /\ \A u \in E : u \in R \/ u \in C \/ \E w \in Workers : u \in H[w]
    /\ \A u \in C : u \in E /\ u \notin R /\ \A w \in Workers : u \notin H[w]
    /\ \A w \in Workers : \A u \in H[w] : u \in E /\ u \notin R
    /\ \A w, v \in Workers : w # v => H[w] \cap H[v] = {}

\* An await that has not enqueued its runner is one whose runner has not run.
Fresh ==
    \A u \in Users :
        /\ upc[u] \in {"test", "set", "on", "spawn", "put"} => u \notin ran
        /\ upc[u] = "putting" /\ qpc[u] \in Before => u \notin ran

\* No user is in the queue twice.
Once(s) == \A i, j \in 1 .. Len(s) : s[i] = s[j] /\ s[i] \in Users => i = j

Places == UserPlaces /\ WorkerPlaces /\ MainPlaces /\ Turns
Jobs == OnePlace(Queued, HeldBy, Enqueued, ran) /\ Fresh /\ Once(Contents)

PoolInv == QInv /\ PoolTypeOK /\ Places /\ Jobs

-----------------------------------------------------------------------------
\* How a runner moves.
LEMMA MoveIn ==
    ASSUME NEW C, NEW H, NEW E, NEW R, OnePlace(C, H, E, R), NEW u, u \notin E, u \notin R
    PROVE  OnePlace(C \cup {u}, H, E \cup {u}, R)
BY DEF OnePlace

\* take() moves a job from the queue to a worker.
LEMMA MoveToWorker ==
    ASSUME NEW C, NEW H \in [Workers -> SUBSET Users], NEW E, NEW R, OnePlace(C, H, E, R),
           NEW w \in Workers, H[w] = {}, NEW u \in C, NEW K, K = [H EXCEPT ![w] = {u}]
    PROVE  OnePlace(C \ {u}, K, E, R)
<1>1. K[w] = {u} /\ \A v \in Workers \ {w} : K[v] = H[v]
  OBVIOUS
<1> QED BY <1>1 DEF OnePlace

\* A job that has run leaves its worker.
LEMMA MoveOut ==
    ASSUME NEW C, NEW H \in [Workers -> SUBSET Users], NEW E, NEW R, OnePlace(C, H, E, R),
           NEW w \in Workers, NEW K, K = [H EXCEPT ![w] = {}]
    PROVE  OnePlace(C, K, E, R \cup H[w])
<1>1. K[w] = {} /\ \A v \in Workers \ {w} : K[v] = H[v]
  OBVIOUS
<1> QED BY <1>1 DEF OnePlace

\* An await begins, and one whose runner has run ends.
LEMMA MoveOn ==
    ASSUME NEW C, NEW H, NEW E, NEW R, OnePlace(C, H, E, R), NEW u
    PROVE  /\ u \notin E => OnePlace(C, H, E, R \ {u})
           /\ u \in R => OnePlace(C, H, E \ {u}, R)
<1>1. u \notin E => OnePlace(C, H, E, R \ {u})
  BY DEF OnePlace
<1>2. u \in R => OnePlace(C, H, E \ {u}, R)
  BY DEF OnePlace
<1> QED BY <1>1, <1>2

\* A put of a job that is not queued keeps every job once.
LEMMA OnceAppend ==
    ASSUME NEW s \in Seq(Elems), Once(s), NEW e \in Elems, e \in Users => e \notin ToSet(s)
    PROVE  Once(Append(s, e))
<1> DEFINE r == Append(s, e)
<1>1. /\ Len(s) \in Nat /\ Len(r) = Len(s) + 1 /\ r[Len(s) + 1] = e
      /\ \A i \in 1 .. Len(s) : r[i] = s[i] /\ s[i] \in ToSet(s)
  BY DEF ToSet
<1> HIDE DEF r
<1>2. ASSUME NEW i \in 1 .. Len(r), NEW j \in 1 .. Len(r), r[i] = r[j], r[i] \in Users PROVE i = j
  <2>1. (i \in 1 .. Len(s) \/ i = Len(s) + 1) /\ (j \in 1 .. Len(s) \/ j = Len(s) + 1)
    BY <1>1
  <2> QED BY <1>1, <1>2, <2>1 DEF Once
<1> QED BY <1>2 DEF Once, r

\* A take leaves no second copy behind.
LEMMA OnceTail ==
    ASSUME NEW s \in Seq(Elems), Once(s), s # <<>>
    PROVE  Once(Tail(s)) /\ (Head(s) \in Users => Head(s) \notin ToSet(Tail(s)))
<1> DEFINE r == Tail(s)
<1>1. /\ Len(s) \in Nat /\ Len(s) > 0 /\ Len(r) = Len(s) - 1 /\ Head(s) = s[1]
      /\ r \in Seq(Elems) /\ \A i \in 1 .. Len(r) : r[i] = s[i + 1]
  BY HeadTailProperties
<1> HIDE DEF r
<1>2. ToSet(r) = {r[i] : i \in 1 .. Len(r)}
  BY <1>1 DEF ToSet
<1>3. \A i \in 1 .. Len(r) : i + 1 \in 1 .. Len(s) /\ i + 1 # 1
  BY <1>1
<1>4. 1 \in 1 .. Len(s)
  BY <1>1
<1>5. Once(r)
  BY <1>1, <1>3 DEF Once
<1>6. Head(s) \in Users => Head(s) \notin ToSet(r)
  BY <1>1, <1>2, <1>3, <1>4 DEF Once
<1> QED BY <1>5, <1>6 DEF r

-----------------------------------------------------------------------------
\* The type invariant in two parts.
Flags == running \in BOOLEAN /\ bStarted \in BOOLEAN

PoolVars ==
    /\ workers \in SUBSET Workers
    /\ wpc \in [Workers -> {"none", "loop", "take", "run", "dead"}]
    /\ upc \in [Users -> {"gone", "out", "test", "set", "on", "spawn", "put", "putting", "wait", "dropped"}]
    /\ ran \in SUBSET Users
    /\ mpc \in {"gone", "up", "offer", "offered", "join", "stopped"}
    /\ left \in [Users \cup {Main} -> 0 .. threadNum]

\* The type invariant in parts.
LEMMA PoolTypes == PoolTypeOK <=> TypeOK /\ Flags /\ PoolVars
BY DEF PoolTypeOK, Flags, PoolVars

\* The same after a step.
LEMMA PoolTypesNext == PoolTypeOK' <=> TypeOK' /\ Flags' /\ PoolVars'
BY DEF PoolTypeOK, Flags, PoolVars

\* A step that leaves the queue alone.
LEMMA QueueSame ==
    ASSUME QInv, UNCHANGED qvars
    PROVE  QInv' /\ Contents' = Contents /\ TypeOK'
BY DEF QInv, qvars, TypeOK, RingOK, LockHeld, NoStaleWait, Inside, isFull, isEmpty, Contents, Slot

\* What the ring holds is a sequence of count_ elements.
LEMMA ContentsType ==
    ASSUME QInv
    PROVE  Contents \in Seq(Elems) /\ Len(Contents) = count_
BY RunType, ContentsRun DEF QInv, TypeOK

\* An unstarted pool with an empty queue.
LEMMA PoolInit == Init => PoolInv
<1> SUFFICES ASSUME Init PROVE PoolInv
  OBVIOUS
<1>1. QInv /\ TypeOK
  BY QInit DEF Init, QInv
<1>2. Flags
  BY DEF Init, Flags
<1>3. PoolVars
  BY PoolAssumption DEF Init, PoolVars
<1>4. Contents = <<>>
  <2>1. count_ = 0
    BY DEF Init, QueueInit
  <2> QED BY <1>1, <2>1, ContentsType, EmptySeq
<1>5. Places
  BY PoolAssumption DEF Init, QueueInit, Places, UserPlaces, WorkerPlaces, MainPlaces, Turns, Returned
<1>6. Enqueued = {} /\ Queued = {} /\ HeldBy = [w \in Workers |-> {}]
  <2>1. ToSet(Contents) = {}
    BY <1>4, EmptyList DEF list_init
  <2> QED BY <2>1 DEF Init, Enqueued, Queued, HeldBy, HasJob
<1>7. Jobs
  <2>1. OnePlace(Queued, HeldBy, Enqueued, ran)
    BY <1>6 DEF Init, OnePlace
  <2>2. Fresh /\ Once(Contents)
    BY <1>4 DEF Init, Fresh, Once
  <2> QED BY <2>1, <2>2 DEF Jobs
<1> QED BY <1>1, <1>2, <1>3, <1>5, <1>7, PoolTypes DEF PoolInv

\* The steps of an await outside the queue.
LEMMA UserSteps ==
    ASSUME PoolInv, NEW u \in Users,
           \/ Await(u) \/ StartTest(u) \/ StartSet(u) \/ StartOn(u) \/ StartSpawn(u)
           \/ (PoolPut(u) /\ ~running) \/ PutReturns(u) \/ AwaitReturn(u)
    PROVE  PoolInv'
<1> USE DEF PoolInv
<1>0. Flags /\ PoolVars
  BY PoolTypes
<1>1. UNCHANGED qvars
  BY DEF Await, StartTest, StartSet, StartOn, StartSpawn, PoolPut, PutReturns, AwaitReturn
<1>2. QInv' /\ Contents' = Contents /\ TypeOK' /\ Queued' = Queued
  BY <1>1, QueueSame DEF Queued
<1>3. UNCHANGED <<qpc, arg, got>>
  BY <1>1 DEF qvars
<1>4. Flags'
  BY <1>0 DEF Flags, Await, StartTest, StartSet, StartOn, StartSpawn, PoolPut, PutReturns, AwaitReturn
<1>5. PoolVars'
  BY <1>0, PoolAssumption DEF PoolVars, Turns, Places, UserAt, WorkerAt, Await, StartTest, StartSet, StartOn,
     StartSpawn, PoolPut, PutReturns, AwaitReturn
<1>6. Places'
  <2>1. UserPlaces'
    <3> SUFFICES ASSUME NEW v \in Users
                 PROVE  upc'[v] = upc[v] \/ (upc'[v] # "putting" /\ qpc[v] = "idle")
      BY <1>3 DEF Places, UserPlaces
    <3>1. PICK l \in {"test", "set", "on", "spawn", "put", "wait", "out", "dropped"} : upc' = [upc EXCEPT ![u] = l]
      BY DEF UserAt, Await, StartTest, StartSet, StartOn, StartSpawn, PoolPut, PutReturns, AwaitReturn
    <3>2. qpc[u] = "idle"
      BY DEF Places, UserPlaces, Await, StartTest, StartSet, StartOn, StartSpawn, PoolPut, PutReturns,
         AwaitReturn
    <3> QED BY <1>0, <3>1, <3>2 DEF PoolVars
  <2>2. WorkerPlaces'
    <3> SUFFICES ASSUME NEW w \in Workers
                 PROVE  wpc'[w] = wpc[w] \/ (wpc'[w] # "take" /\ wpc[w] = "none")
      BY <1>3 DEF Places, WorkerPlaces
    <3> QED BY <1>0 DEF PoolVars, WorkerAt, Await, StartTest, StartSet, StartOn, StartSpawn, PoolPut,
               PutReturns, AwaitReturn
  <2>3. UNCHANGED mpc
    BY DEF Await, StartTest, StartSet, StartOn, StartSpawn, PoolPut, PutReturns, AwaitReturn
  <2>4. MainPlaces'
    BY <1>3, <2>3 DEF Places, MainPlaces
  <2>5. left'[Main] = left[Main]
    BY <1>0, PoolAssumption DEF PoolVars, Await, StartTest, StartSet, StartOn, StartSpawn, PoolPut,
       PutReturns, AwaitReturn
  <2>6. \A v \in Users : upc'[v] = "spawn" => left'[v] # 0
    <3> SUFFICES ASSUME NEW v \in Users, upc'[v] = "spawn" PROVE left'[v] # 0
      OBVIOUS
    <3>1. CASE StartOn(u)
      BY <1>0, <3>1, PoolAssumption DEF PoolVars, Places, Turns, StartOn, UserAt
    <3>2. CASE StartSpawn(u)
      <4>1. left[u] \in 0 .. threadNum /\ left[u] # 0
        BY <1>0, <3>2 DEF PoolVars, Places, Turns, StartSpawn
      <4>2. left' = [left EXCEPT ![u] = left[u] - 1] /\ upc' = [upc EXCEPT ![u] = IF left[u] = 1 THEN "put" ELSE "spawn"]
        BY <3>2 DEF StartSpawn, UserAt
      <4> QED BY <1>0, <4>1, <4>2, PoolAssumption DEF PoolVars, Places, Turns
    <3>3. CASE ~StartOn(u) /\ ~StartSpawn(u)
      <4>1. left' = left /\ upc[v] = "spawn"
        BY <1>0, <3>3 DEF PoolVars, UserAt, Await, StartTest, StartSet, PoolPut, PutReturns, AwaitReturn
      <4> QED BY <4>1 DEF Places, Turns
    <3> QED BY <3>1, <3>2, <3>3
  <2> QED BY <2>1, <2>2, <2>3, <2>4, <2>5, <2>6 DEF Places, Turns
<1>7. HeldBy' = HeldBy
  BY <1>0, <1>3 DEF PoolVars, HeldBy, HasJob, WorkerAt, Await, StartTest, StartSet, StartOn, StartSpawn,
     PoolPut, PutReturns, AwaitReturn
<1>8. Jobs'
  <2>1. CASE Await(u)
    <3>1. upc[u] = "out" /\ upc' = [upc EXCEPT ![u] = "test"] /\ ran' = ran \ {u}
      BY <2>1 DEF Await, UserAt
    <3>2. Enqueued' = Enqueued /\ u \notin Enqueued
      BY <1>0, <1>3, <3>1 DEF Enqueued, PoolVars
    <3>3. OnePlace(Queued', HeldBy', Enqueued', ran')
      BY <1>2, <1>7, <3>1, <3>2, MoveOn DEF Jobs
    <3>4. Fresh'
      BY <1>0, <1>3, <3>1 DEF Jobs, Fresh, PoolVars
    <3> QED BY <1>2, <3>3, <3>4 DEF Jobs, OnePlace, Once
  <2>2. CASE AwaitReturn(u)
    <3>1. upc[u] = "wait" /\ upc' = [upc EXCEPT ![u] = "out"] /\ ran' = ran /\ u \in ran
      BY <2>2 DEF AwaitReturn, UserAt
    <3>2. Enqueued' = Enqueued \ {u}
      BY <1>0, <1>3, <3>1 DEF Enqueued, PoolVars
    <3>3. OnePlace(Queued', HeldBy', Enqueued', ran')
      BY <1>2, <1>7, <3>1, <3>2, MoveOn DEF Jobs
    <3>4. Fresh'
      BY <1>0, <1>3, <3>1 DEF Jobs, Fresh, PoolVars
    <3> QED BY <1>2, <3>3, <3>4 DEF Jobs, OnePlace, Once
  <2>3. CASE PutReturns(u)
    <3>1. upc[u] = "putting" /\ qpc[u] = "idle" /\ upc' = [upc EXCEPT ![u] = "wait"] /\ ran' = ran
      BY <2>3 DEF PutReturns, UserAt
    <3>2. Enqueued' = Enqueued
      BY <1>0, <1>3, <3>1 DEF Enqueued, PoolVars, Before
    <3>3. OnePlace(Queued', HeldBy', Enqueued', ran')
      BY <1>2, <1>7, <3>1, <3>2 DEF Jobs
    <3>4. Fresh'
      BY <1>0, <1>3, <3>1 DEF Jobs, Fresh, PoolVars
    <3> QED BY <1>2, <3>3, <3>4 DEF Jobs, OnePlace, Once
  <2>4. CASE StartTest(u) \/ StartSet(u) \/ StartOn(u) \/ StartSpawn(u) \/ (PoolPut(u) /\ ~running)
    <3>1. /\ ran' = ran /\ upc[u] \in {"test", "set", "on", "spawn", "put"}
          /\ \E l \in {"set", "on", "spawn", "put", "dropped"} : upc' = [upc EXCEPT ![u] = l]
      BY <2>4 DEF UserAt, StartTest, StartSet, StartOn, StartSpawn, PoolPut
    <3>2. Enqueued' = Enqueued
      BY <1>0, <1>3, <3>1 DEF Enqueued, PoolVars
    <3>3. OnePlace(Queued', HeldBy', Enqueued', ran')
      BY <1>2, <1>7, <3>1, <3>2 DEF Jobs
    <3>4. Fresh'
      BY <1>0, <1>3, <3>1 DEF Jobs, Fresh, PoolVars
    <3> QED BY <1>2, <3>3, <3>4 DEF Jobs, OnePlace, Once
  <2> QED BY <2>1, <2>2, <2>3, <2>4
<1> QED BY <1>2, <1>4, <1>5, <1>6, <1>8, PoolTypesNext

\* put() of a running pool enters the queue.
LEMMA PutStep ==
    ASSUME PoolInv, NEW u \in Users, PoolPut(u), running
    PROVE  PoolInv'
<1> USE DEF PoolInv
<1>0. Flags /\ PoolVars /\ u \in Threads /\ u \in Elems /\ qpc \in [Threads -> QPc] /\ arg \in [Threads -> Elems]
  BY PoolTypes, PoolAssumption DEF QInv, TypeOK
<1>1. /\ upc[u] = "put" /\ upc' = [upc EXCEPT ![u] = "putting"]
      /\ qpc' = [qpc EXCEPT ![u] = "put_lock"] /\ arg' = [arg EXCEPT ![u] = u]
      /\ UNCHANGED <<running, bStarted, workers, wpc, ran, mpc, left>>
  BY DEF PoolPut, CallPut, Goto, UserAt
<1>2. QInv' /\ Contents' = Contents /\ got' = got
  BY <1>0, QuietStep DEF PoolPut
<1>3. PoolTypeOK'
  BY <1>0, <1>1, <1>2, PoolTypesNext DEF QInv, Flags, PoolVars
<1>4. Places'
  <2>1. UserPlaces'
    BY <1>0, <1>1, PoolAssumption DEF PoolVars, Places, UserPlaces
  <2>2. WorkerPlaces'
    BY <1>0, <1>1, PoolAssumption DEF Places, WorkerPlaces
  <2>3. MainPlaces'
    BY <1>0, <1>1, PoolAssumption DEF Places, MainPlaces
  <2>4. Turns'
    BY <1>0, <1>1 DEF PoolVars, Places, Turns
  <2> QED BY <2>1, <2>2, <2>3, <2>4 DEF Places
<1>5. HeldBy' = HeldBy
  BY <1>0, <1>1, <1>2, PoolAssumption DEF HeldBy, HasJob
<1>6. Enqueued' = Enqueued
  BY <1>0, <1>1, PoolAssumption DEF PoolVars, Enqueued, Before
<1>7. Fresh'
  BY <1>0, <1>1, PoolAssumption DEF PoolVars, Jobs, Fresh, Before
<1> QED BY <1>1, <1>2, <1>3, <1>4, <1>5, <1>6, <1>7 DEF Jobs, Queued, Once

\* The steps of a worker outside the queue.
LEMMA WorkerSteps ==
    ASSUME PoolInv, NEW w \in Workers, WorkerStep(w)
    PROVE  PoolInv'
<1> USE DEF PoolInv
<1>0. Flags /\ PoolVars /\ w \in Threads /\ qpc \in [Threads -> QPc] /\ got \in [Threads -> Elems]
  BY PoolTypes, PoolAssumption DEF QInv, TypeOK
<1>1. PICK l \in {"take", "dead", "run", "loop"} : wpc' = [wpc EXCEPT ![w] = l]
  BY DEF WorkerStep, WorkerLoop, WorkerTaken, WorkerRun, WorkerAt
<1>2. UNCHANGED <<running, bStarted, workers, upc, mpc, left>>
  BY DEF WorkerStep, WorkerLoop, WorkerTaken, WorkerRun
<1>3. QInv' /\ Contents' = Contents /\ got' = got /\ arg' = arg
  <2>1. CASE WorkerLoop(w) /\ running
    BY <1>0, <2>1, QuietStep DEF WorkerLoop, CallTake
  <2>2. CASE UNCHANGED qvars
    BY <2>2, QueueSame DEF qvars
  <2> QED BY <2>1, <2>2 DEF WorkerStep, WorkerLoop, WorkerTaken, WorkerRun
<1>4. \/ l = "take" /\ wpc[w] = "loop" /\ qpc' = [qpc EXCEPT ![w] = "take_lock"] /\ ran' = ran
      \/ l = "dead" /\ wpc[w] = "loop" /\ qpc' = qpc /\ ran' = ran
      \/ l = "run" /\ wpc[w] = "take" /\ qpc[w] = "idle" /\ qpc' = qpc /\ ran' = ran
      \/ l = "loop" /\ wpc[w] = "run" /\ qpc' = qpc /\ ran' = ran \cup ({got[w]} \ {Pill})
  BY <1>0, <1>1 DEF WorkerStep, WorkerLoop, WorkerTaken, WorkerRun, WorkerAt, CallTake, Goto, qvars, PoolVars
<1>5. ran' \in SUBSET Users
  BY <1>0, <1>4, PoolAssumption DEF PoolVars
<1>6. PoolTypeOK'
  <2>1. Flags'
    BY <1>0, <1>2 DEF Flags
  <2>2. PoolVars'
    BY <1>0, <1>1, <1>2, <1>5 DEF PoolVars
  <2> QED BY <1>3, <2>1, <2>2, PoolTypesNext DEF QInv
<1>7. Places'
  <2>1. UserPlaces'
    BY <1>0, <1>2, <1>3, <1>4, PoolAssumption DEF Places, UserPlaces
  <2>2. WorkerPlaces'
    BY <1>0, <1>1, <1>4, PoolAssumption DEF PoolVars, Places, WorkerPlaces
  <2>3. MainPlaces'
    BY <1>0, <1>2, <1>3, <1>4, PoolAssumption DEF Places, MainPlaces
  <2>4. Turns'
    BY <1>2 DEF Places, Turns
  <2> QED BY <2>1, <2>2, <2>3, <2>4 DEF Places
<1>8. Enqueued' = Enqueued
  BY <1>0, <1>2, <1>4, PoolAssumption DEF Enqueued
<1>9. OnePlace(Queued, HeldBy', Enqueued, ran')
  <2>1. CASE l # "loop"
    <3>1. HeldBy' = HeldBy
      BY <1>0, <1>1, <1>3, <1>4, <2>1, PoolAssumption DEF PoolVars, HeldBy, HasJob, Returned
    <3> QED BY <1>4, <2>1, <3>1 DEF Jobs
  <2>2. CASE l = "loop"
    <3>1. HeldBy' = [HeldBy EXCEPT ![w] = {}]
      BY <1>0, <1>1, <1>3, <1>4, <2>2 DEF PoolVars, HeldBy, HasJob
    <3>2. ran' = ran \cup HeldBy[w]
      BY <1>0, <1>4, <2>2, PoolAssumption DEF HeldBy, HasJob
    <3>3. HeldBy \in [Workers -> SUBSET Users]
      BY DEF HeldBy
    <3> QED BY <3>1, <3>2, <3>3, MoveOut DEF Jobs
  <2> QED BY <2>1, <2>2
<1>10. Fresh'
  <2> SUFFICES ASSUME NEW u \in Users,
                      \/ upc[u] \in {"test", "set", "on", "spawn", "put"}
                      \/ upc[u] = "putting" /\ qpc[u] \in Before
               PROVE  u \notin ran'
    BY <1>0, <1>2, <1>4, PoolAssumption DEF Fresh
  <2>1. u \notin ran /\ u \notin Enqueued
    BY DEF Jobs, Fresh, Enqueued
  <2>2. ~HasJob(w, u)
    BY <2>1 DEF Jobs, OnePlace, HeldBy
  <2> QED BY <1>4, <2>1, <2>2 DEF HasJob
<1> QED BY <1>2, <1>3, <1>6, <1>7, <1>8, <1>9, <1>10 DEF Jobs, Queued, Once

\* The steps of stop().
LEMMA MainSteps ==
    ASSUME PoolInv, Stop \/ StopStep
    PROVE  PoolInv'
<1> USE DEF PoolInv
<1>0. /\ Flags /\ PoolVars /\ Main \in Threads /\ Pill \in Elems
      /\ qpc \in [Threads -> QPc] /\ arg \in [Threads -> Elems]
  BY PoolTypes, PoolAssumption DEF QInv, TypeOK
<1>1. UNCHANGED <<bStarted, wpc, upc, ran>>
  BY DEF Stop, StopStep, StopOffer, StopOffered, StopJoin
<1>2. QInv' /\ Contents' = Contents /\ got' = got
  <2>1. CASE StopOffer
    BY <1>0, <2>1, QuietStep DEF StopOffer
  <2>2. CASE UNCHANGED qvars
    BY <2>2, QueueSame DEF qvars
  <2> QED BY <2>1, <2>2 DEF Stop, StopStep, StopOffered, StopJoin
<1>3. \A t \in Threads \ {Main} : qpc'[t] = qpc[t] /\ arg'[t] = arg[t]
  BY <1>0 DEF Stop, StopStep, StopOffer, StopOffered, StopJoin, qvars, CallOffer, Goto
<1>4. left' \in [Users \cup {Main} -> 0 .. threadNum] /\ \A u \in Users : left'[u] = left[u]
  BY <1>0, PoolAssumption DEF PoolVars, Places, Turns, Stop, StopStep, StopOffer, StopOffered, StopJoin
<1>5. PoolTypeOK'
  <2>1. Flags'
    BY <1>0, <1>1 DEF Flags, Stop, StopStep, StopOffer, StopOffered, StopJoin
  <2>2. mpc' \in {"gone", "up", "offer", "offered", "join", "stopped"} /\ workers' \in SUBSET Workers
    BY <1>0 DEF PoolVars, Stop, StopStep, StopOffer, StopOffered, StopJoin
  <2>3. PoolVars'
    BY <1>0, <1>1, <1>4, <2>2 DEF PoolVars
  <2> QED BY <1>2, <2>1, <2>3, PoolTypesNext DEF QInv
<1>6. Places'
  <2>1. UserPlaces'
    BY <1>1, <1>3, PoolAssumption DEF Places, UserPlaces
  <2>2. WorkerPlaces'
    BY <1>1, <1>3, PoolAssumption DEF Places, WorkerPlaces
  <2>3. MainPlaces'
    BY <1>0 DEF Places, MainPlaces, Stop, StopStep, StopOffer, StopOffered, StopJoin, qvars, CallOffer, Goto
  <2>4. mpc' \in {"offer", "offered"} => left'[Main] # 0
    BY <1>0, PoolAssumption DEF PoolVars, Places, Turns, Stop, StopStep, StopOffer, StopOffered, StopJoin
  <2> QED BY <1>1, <1>4, <2>1, <2>2, <2>3, <2>4 DEF Places, Turns
<1>7. HeldBy' = HeldBy
  BY <1>1, <1>2, <1>3, PoolAssumption DEF HeldBy, HasJob
<1>8. Enqueued' = Enqueued
  BY <1>1, <1>3, PoolAssumption DEF Enqueued
<1>9. Fresh'
  BY <1>1, <1>3, PoolAssumption DEF Jobs, Fresh
<1> QED BY <1>1, <1>2, <1>5, <1>6, <1>7, <1>8, <1>9 DEF Jobs, Queued, Once

-----------------------------------------------------------------------------
\* Who may be where in the queue's code: users put, workers take, stop() offers.
LEMMA WhoIsWhere ==
    ASSUME PoolInv, NEW t \in Threads
    PROVE  /\ qpc[t] \in Before => t \in Users /\ upc[t] = "putting" /\ arg[t] = t
           /\ qpc[t] \in {"take_lock", "take", "take_wait"} => t \in Workers /\ wpc[t] = "take"
           /\ qpc[t] \in {"offer_look", "offer_try", "offer"} => t = Main /\ mpc = "offered" /\ arg[t] = Pill
           /\ qpc[t] \notin {"poll_look", "poll_try", "poll"}
<1> USE DEF PoolInv, Places, Before
<1>1. CASE t \in Users
  BY <1>1 DEF UserPlaces
<1>2. CASE t \in Workers
  BY <1>2 DEF WorkerPlaces
<1>3. CASE t = Main
  BY <1>3 DEF MainPlaces, Returned
<1> QED BY <1>1, <1>2, <1>3, PoolAssumption

\* A step in the queue's code that leaves the ring alone.
LEMMA QuietMove ==
    ASSUME PoolInv, NEW t \in Threads, UNCHANGED pvars, QInv', Contents' = Contents,
           UNCHANGED <<arg, got>>, NEW l, qpc' = [qpc EXCEPT ![t] = l],
           \/ qpc[t] \in Before /\ l \in Before
           \/ qpc[t] \in {"take_lock", "take", "take_wait"} /\ l \in {"take_lock", "take", "take_wait"}
           \/ qpc[t] \in {"offer_look", "offer_try", "offer"} /\ l \in {"offer_try", "offer", "refused"}
           \/ qpc[t] = "unlock" /\ l = "idle"
    PROVE  PoolInv'
<1> USE DEF PoolInv
<1>0. /\ Flags /\ PoolVars /\ qpc \in [Threads -> QPc]
      /\ Users \subseteq Threads /\ Workers \subseteq Threads /\ Main \in Threads
  BY PoolTypes, PoolAssumption DEF QInv, TypeOK
<1>1. UNCHANGED <<running, bStarted, workers, wpc, upc, ran, mpc, left>>
  BY DEF pvars
<1>2. PoolTypeOK'
  BY <1>0, <1>1, PoolTypesNext DEF QInv, Flags, PoolVars
<1>3. /\ qpc'[t] = l /\ \A s \in Threads \ {t} : qpc'[s] = qpc[s]
      /\ qpc[t] # "idle" /\ qpc[t] # "refused"
  BY <1>0 DEF Before
<1>4. Places'
  <2>1. UserPlaces'
    BY <1>0, <1>1, <1>3, WhoIsWhere, PoolAssumption DEF Places, UserPlaces, Before
  <2>2. WorkerPlaces'
    BY <1>0, <1>1, <1>3, WhoIsWhere, PoolAssumption DEF Places, WorkerPlaces, Before
  <2>3. MainPlaces'
    BY <1>0, <1>1, <1>3, WhoIsWhere, PoolAssumption DEF Places, MainPlaces, Before, Returned
  <2>4. Turns'
    BY <1>1 DEF Places, Turns
  <2> QED BY <2>1, <2>2, <2>3, <2>4 DEF Places
<1>5. HeldBy' = HeldBy
  <2>1. ASSUME NEW w \in Workers
        PROVE  qpc'[w] \in Returned \cup {"unlock"} <=> qpc[w] \in Returned \cup {"unlock"}
    BY <1>0, <1>3, WhoIsWhere, PoolAssumption DEF Before, Returned
  <2> QED BY <1>1, <2>1 DEF HeldBy, HasJob
<1>6. \A u \in Users : qpc'[u] \in Before <=> qpc[u] \in Before
  BY <1>0, <1>3, WhoIsWhere, PoolAssumption DEF Before
<1>7. Enqueued' = Enqueued
  BY <1>1, <1>6 DEF Enqueued
<1>8. Fresh'
  BY <1>1, <1>6 DEF Jobs, Fresh
<1> QED BY <1>1, <1>2, <1>4, <1>5, <1>7, <1>8 DEF Jobs, Queued, Once

\* A runner, or an empty runner of stop(), enters the ring.
LEMMA EnqueueMove ==
    ASSUME PoolInv, NEW t \in Threads, UNCHANGED pvars, qpc[t] \in {"put", "offer"}, ~isFull,
           enqueue(t, "unlock")
    PROVE  PoolInv'
<1> USE DEF PoolInv
<1>0. /\ Flags /\ PoolVars /\ qpc \in [Threads -> QPc] /\ arg[t] \in Elems
      /\ Users \subseteq Threads /\ Workers \subseteq Threads /\ Main \in Threads
  BY PoolTypes, PoolAssumption DEF QInv, TypeOK
<1>1. UNCHANGED <<running, bStarted, workers, wpc, upc, ran, mpc, left>>
  BY DEF pvars
<1>2. QInv' /\ Contents' = Append(Contents, arg[t]) /\ UNCHANGED <<arg, got>>
  <2>1. holder = t
    BY DEF QInv, LockHeld, Inside
  <2> QED BY <2>1, EnqueueStep
<1>3. qpc' = [s \in Threads |-> IF s = t THEN "unlock"
                                ELSE IF qpc[s] = "take_wait" THEN "take_lock" ELSE qpc[s]]
  BY DEF enqueue, NotifyAll
<1>4. PoolTypeOK'
  BY <1>0, <1>1, <1>2, PoolTypesNext DEF QInv, Flags, PoolVars
<1>5. \/ t \in Users /\ upc[t] = "putting" /\ arg[t] = t /\ qpc[t] = "put"
      \/ t = Main /\ mpc = "offered" /\ arg[t] = Pill
  BY WhoIsWhere DEF Before
<1>6. Places'
  <2>1. UserPlaces'
    BY <1>0, <1>1, <1>2, <1>3, <1>5, PoolAssumption DEF Places, UserPlaces
  <2>2. WorkerPlaces'
    BY <1>0, <1>1, <1>3, <1>5, PoolAssumption DEF Places, WorkerPlaces
  <2>3. MainPlaces'
    BY <1>0, <1>1, <1>2, <1>3, <1>5, PoolAssumption DEF Places, MainPlaces, Returned
  <2>4. Turns'
    BY <1>1 DEF Places, Turns
  <2> QED BY <2>1, <2>2, <2>3, <2>4 DEF Places
<1>7. HeldBy' = HeldBy
  <2>1. ASSUME NEW w \in Workers
        PROVE  qpc'[w] \in Returned \cup {"unlock"} <=> qpc[w] \in Returned \cup {"unlock"}
    BY <1>0, <1>3, <1>5, PoolAssumption DEF Returned
  <2> QED BY <1>1, <1>2, <2>1 DEF HeldBy, HasJob
<1>8. Contents \in Seq(Elems) /\ ToSet(Contents') = ToSet(Contents) \cup {arg[t]}
  BY <1>0, <1>2, ContentsType, AddLast DEF list_add_before
<1>9. \A u \in Users \ {t} : qpc'[u] \in Before <=> qpc[u] \in Before
  BY <1>0, <1>3 DEF Before
<1>10. Fresh'
  BY <1>0, <1>1, <1>3, <1>9 DEF Jobs, Fresh, Before
<1>11. CASE t \in Users
  <2>1. upc[t] = "putting" /\ arg[t] = t /\ qpc[t] \in Before /\ qpc'[t] \notin Before
    BY <1>3, <1>5, <1>11, PoolAssumption DEF Before
  <2>2. t \notin Enqueued /\ t \notin ran
    BY <1>11, <2>1 DEF Enqueued, Jobs, Fresh
  <2>3. Enqueued' = Enqueued \cup {t}
    BY <1>1, <1>9, <1>11, <2>1 DEF Enqueued
  <2>4. Queued' = Queued \cup {t}
    BY <1>8, <1>11, <2>1 DEF Queued
  <2>5. OnePlace(Queued', HeldBy', Enqueued', ran')
    BY <1>1, <1>7, <2>2, <2>3, <2>4, MoveIn DEF Jobs
  <2>6. t \notin ToSet(Contents)
    BY <1>11, <2>2 DEF Jobs, OnePlace, Queued
  <2>7. Once(Contents)'
    BY <1>0, <1>2, <1>8, <2>1, <2>6, OnceAppend DEF Jobs, Once
  <2> QED BY <1>2, <1>4, <1>6, <1>10, <2>5, <2>7 DEF Jobs
<1>12. CASE t = Main
  <2>1. arg[t] = Pill /\ Pill \notin Users /\ t \notin Users
    BY <1>5, <1>12, PoolAssumption
  <2>2. Enqueued' = Enqueued
    BY <1>1, <1>9, <2>1 DEF Enqueued
  <2>3. Queued' = Queued
    BY <1>8, <2>1 DEF Queued
  <2>4. OnePlace(Queued', HeldBy', Enqueued', ran')
    BY <1>1, <1>7, <2>2, <2>3 DEF Jobs
  <2>5. Once(Contents)'
    BY <1>0, <1>2, <1>8, <2>1, OnceAppend DEF Jobs, Once
  <2> QED BY <1>2, <1>4, <1>6, <1>10, <2>4, <2>5 DEF Jobs
<1> QED BY <1>5, <1>11, <1>12

\* A worker takes the oldest runner out of the ring.
LEMMA DequeueMove ==
    ASSUME PoolInv, NEW t \in Threads, UNCHANGED pvars, qpc[t] = "take", ~isEmpty,
           dequeue(t, "unlock")
    PROVE  PoolInv'
<1> USE DEF PoolInv
<1>0. /\ Flags /\ PoolVars /\ qpc \in [Threads -> QPc] /\ got \in [Threads -> Elems]
      /\ Users \subseteq Threads /\ Workers \subseteq Threads /\ Main \in Threads
  BY PoolTypes, PoolAssumption DEF QInv, TypeOK
<1>1. UNCHANGED <<running, bStarted, workers, wpc, upc, ran, mpc, left>>
  BY DEF pvars
<1> DEFINE e == Head(Contents)
<1>2. /\ QInv' /\ Contents # <<>> /\ Contents' = Tail(Contents) /\ UNCHANGED arg
      /\ got' = [got EXCEPT ![t] = e]
  <2>1. holder = t
    BY DEF QInv, LockHeld, Inside
  <2> QED BY <2>1, DequeueStep
<1>3. qpc' = [s \in Threads |-> IF s = t THEN "unlock"
                                ELSE IF qpc[s] = "put_wait" THEN "put_lock" ELSE qpc[s]]
  BY DEF dequeue, NotifyAll
<1>4. PoolTypeOK'
  BY <1>0, <1>1, <1>2, PoolTypesNext DEF QInv, Flags, PoolVars
<1>5. t \in Workers /\ wpc[t] = "take"
  BY WhoIsWhere
<1>6. Places'
  <2>1. UserPlaces'
    BY <1>0, <1>1, <1>2, <1>3, <1>5, PoolAssumption DEF Places, UserPlaces
  <2>2. WorkerPlaces'
    BY <1>0, <1>1, <1>3, <1>5, PoolAssumption DEF Places, WorkerPlaces
  <2>3. MainPlaces'
    BY <1>0, <1>1, <1>2, <1>3, <1>5, PoolAssumption DEF Places, MainPlaces, Returned
  <2>4. Turns'
    BY <1>1 DEF Places, Turns
  <2> QED BY <2>1, <2>2, <2>3, <2>4 DEF Places
<1>7. /\ Contents \in Seq(Elems) /\ e \in Elems /\ e \in ToSet(Contents)
      /\ ToSet(Contents) = ToSet(Tail(Contents)) \cup {e}
      /\ Once(Tail(Contents)) /\ (e \in Users => e \notin ToSet(Tail(Contents)))
  BY <1>2, ContentsType, TakeFirst, OnceTail DEF list_empty, list_next, Jobs
<1> HIDE DEF e
<1>8. \A u \in Users : qpc'[u] \in Before <=> qpc[u] \in Before
  BY <1>0, <1>3, <1>5, PoolAssumption DEF Before
<1>9. Enqueued' = Enqueued /\ Fresh'
  BY <1>1, <1>8 DEF Jobs, Enqueued, Fresh
<1>10. HeldBy[t] = {} /\ HeldBy' = [HeldBy EXCEPT ![t] = {e} \cap Users]
  <2>1. HeldBy[t] = {}
    BY <1>5 DEF HeldBy, HasJob, Returned
  <2>2. ASSUME NEW w \in Workers \ {t}
        PROVE  /\ qpc'[w] \in Returned \cup {"unlock"} <=> qpc[w] \in Returned \cup {"unlock"}
               /\ got'[w] = got[w]
    BY <1>0, <1>2, <1>3 DEF Returned
  <2>3. qpc'[t] = "unlock" /\ got'[t] = e
    BY <1>0, <1>2, <1>3
  <2> QED BY <1>1, <1>5, <2>1, <2>2, <2>3, ZenonT(40) DEF HeldBy, HasJob
<1>11. HeldBy \in [Workers -> SUBSET Users]
  BY DEF HeldBy
<1>12. OnePlace(Queued', HeldBy', Enqueued', ran')
  <2>1. CASE e \in Users
    <3>1. Queued' = Queued \ {e} /\ e \in Queued
      BY <1>2, <1>7, <2>1 DEF Queued
    <3>2. HeldBy' = [HeldBy EXCEPT ![t] = {e}]
      BY <1>10, <2>1
    <3>3. OnePlace(Queued \ {e}, HeldBy', Enqueued, ran)
      BY <1>5, <1>10, <1>11, <3>1, <3>2, MoveToWorker DEF Jobs
    <3> QED BY <1>1, <1>9, <3>1, <3>3
  <2>2. CASE e \notin Users
    <3>1. Queued' = Queued
      BY <1>2, <1>7, <2>2 DEF Queued
    <3>2. HeldBy' = HeldBy
      BY <1>10, <1>11, <2>2
    <3> QED BY <1>1, <1>9, <3>1, <3>2 DEF Jobs
  <2> QED BY <2>1, <2>2
<1> QED BY <1>2, <1>4, <1>6, <1>7, <1>9, <1>12 DEF Jobs, Once

\* The steps inside the queue.
LEMMA QueueSteps ==
    ASSUME PoolInv, NEW t \in Threads, QueueStep(t) \/ SpuriousWakeup(t), UNCHANGED pvars
    PROVE  PoolInv'
<1>1. CASE qpc[t] \in {"put", "offer"} /\ ~isFull /\ enqueue(t, "unlock")
  BY <1>1, EnqueueMove
<1>2. CASE qpc[t] = "take" /\ ~isEmpty /\ dequeue(t, "unlock")
  BY <1>2, DequeueMove
<1>3. CASE \/ Lock(t) \/ SpuriousWakeup(t) \/ Look(t) \/ TryLock(t) \/ Unlock(t)
           \/ qpc[t] = "put" /\ isFull /\ Wait(t, "put_wait")
           \/ qpc[t] = "take" /\ isEmpty /\ Wait(t, "take_wait")
           \/ /\ qpc[t] = "offer" /\ Refuse(t)
              /\ UNCHANGED <<ring, holder, arg, got>>
  <2>1. QInv' /\ Contents' = Contents
    BY <1>3, QuietStep DEF PoolInv
  <2>2. UNCHANGED <<arg, got>>
    BY <1>3 DEF Lock, SpuriousWakeup, Look, TryLock, Unlock, Wait
  <2>3. \E l :
          /\ qpc' = [qpc EXCEPT ![t] = l]
          /\ \/ qpc[t] \in Before /\ l \in Before
             \/ /\ qpc[t] \in {"take_lock", "take", "take_wait"}
                /\ l \in {"take_lock", "take", "take_wait"}
             \/ /\ qpc[t] \in {"offer_look", "offer_try", "offer"}
                /\ l \in {"offer_try", "offer", "refused"}
             \/ qpc[t] = "unlock" /\ l = "idle"
    BY <1>3, WhoIsWhere DEF Lock, SpuriousWakeup, Look, TryLock, Unlock, Wait, Refuse, Goto, Before
  <2> QED BY <2>1, <2>2, <2>3, QuietMove
<1> QED BY <1>1, <1>2, <1>3, WhoIsWhere DEF QueueStep, Put, Take, Offer, Poll

\* Every step keeps PoolInv.
LEMMA PoolNext == PoolInv /\ [Next]_vars => PoolInv'
<1> SUFFICES ASSUME PoolInv, [Next]_vars PROVE PoolInv'
  OBVIOUS
<1>1. ASSUME NEW u \in Users, Await(u) \/ InAwait(u) PROVE PoolInv'
  BY <1>1, UserSteps, PutStep DEF InAwait, PoolPut
<1>2. ASSUME NEW w \in Workers, WorkerStep(w) PROVE PoolInv'
  BY <1>2, WorkerSteps
<1>3. CASE Stop \/ StopStep
  BY <1>3, MainSteps
<1>4. ASSUME NEW t \in Threads, InQueue(t) \/ (SpuriousWakeup(t) /\ UNCHANGED pvars) PROVE PoolInv'
  BY <1>4, QueueSteps DEF InQueue
<1>5. CASE UNCHANGED vars
  <2>1. UNCHANGED qvars /\ UNCHANGED pvars
    BY <1>5 DEF vars
  <2>2. QInv' /\ Contents' = Contents
    BY <2>1, QueueSame DEF PoolInv
  <2>3. PoolTypeOK'
    BY <2>1, <2>2, PoolTypes, PoolTypesNext DEF PoolInv, pvars, QInv, Flags, PoolVars
  <2>4. Places'
    BY <2>1 DEF PoolInv, qvars, pvars, Places, UserPlaces, WorkerPlaces, MainPlaces, Turns
  <2>5. Jobs'
    BY <2>1, <2>2 DEF PoolInv, qvars, pvars, Jobs, Queued, HeldBy, HasJob, Enqueued, Fresh, Once
  <2> QED BY <2>2, <2>3, <2>4, <2>5 DEF PoolInv
<1> QED BY <1>1, <1>2, <1>3, <1>4, <1>5 DEF Next

-----------------------------------------------------------------------------
\* The queue is consistent, every thread is where its call put it, and every runner is in
\* one place, in every reachable state of the pool.
THEOREM PoolInvariance == Spec => []PoolInv
<1>1. PoolInv /\ [Next]_vars => PoolInv'
  BY PoolNext
<1> QED BY PoolInit, <1>1, PTL DEF Spec

\* Every variable of the pool and of its queue keeps its type: start() never counts below
\* zero and stop() never offers more empty runners than it has turns.
THEOREM PoolTypeCorrect == Spec => []PoolTypeOK
<1>1. PoolInv => PoolTypeOK
  BY DEF PoolInv
<1> QED BY PoolInvariance, <1>1, PTL

\* An await that waits has its runner in the queue or with a worker until it has run,
\* though start() may run twice at once and stop() clears running at any moment.
THEOREM PoolKeepsJobs == Spec => []JobKept
<1>1. PoolInv => JobKept
  <2> SUFFICES ASSUME PoolInv, NEW u \in Users, upc[u] = "wait"
               PROVE  \/ u \in ran
                      \/ \E i \in 1 .. count_ : Contents[i] = u
                      \/ \E w \in Workers : HasJob(w, u)
    BY DEF JobKept
  <2>1. u \in Enqueued
    BY DEF Enqueued
  <2>2. u \in ran \/ u \in Queued \/ \E w \in Workers : u \in HeldBy[w]
    BY <2>1 DEF PoolInv, Jobs, OnePlace
  <2>3. Contents \in Seq(Elems) /\ Len(Contents) = count_
    BY ContentsType DEF PoolInv
  <2>4. u \in Queued => \E i \in 1 .. count_ : Contents[i] = u
    BY <2>3 DEF Queued, ToSet
  <2> QED BY <2>2, <2>4 DEF HeldBy
<1> QED BY PoolInvariance, <1>1, PTL

\* A worker that runs a runner runs it for an await that is still inside and whose runner
\* has not run before: the reference AwaitRunner keeps is good, and is used once.
THEOREM PoolRunsLiveRunners == Spec => []RunnableAlive
<1>1. PoolInv => RunnableAlive
  <2> SUFFICES ASSUME PoolInv, NEW w \in Workers, NEW u \in Users, wpc[w] = "run", got[w] = u
               PROVE  upc[u] \in {"putting", "wait"} /\ u \notin ran
    BY DEF RunnableAlive
  <2>1. u \in HeldBy[w]
    BY DEF HeldBy, HasJob
  <2>2. u \in Enqueued /\ u \notin ran
    BY <2>1 DEF PoolInv, Jobs, OnePlace
  <2> QED BY <2>2 DEF Enqueued
<1> QED BY PoolInvariance, <1>1, PTL

=============================================================================
