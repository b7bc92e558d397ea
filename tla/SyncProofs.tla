----------------------------- MODULE SyncProofs -----------------------------
(***************************************************************************)
(* What MCSync's components promise, for every number of tasks, threads,   *)
(* workers and messages and for every capacity.  A step of MCSync is a     *)
(* step of one component or leaves it alone, so each component has an      *)
(* inductive invariant of its own.                                         *)
(***************************************************************************)
EXTENDS MCSync, ListLemmas, FiniteSetTheorems

\* A step of the whole is a step of each component, or leaves it alone.
LEMMA StepOfParts ==
    ASSUME [Next]_allVars
    PROVE  /\ part' = part
           /\ [Ch!Next]_chanVars
           /\ [(part = "buffered" /\ Buffered!Next) \/ (part = "meeting" /\ Meeting!Next)]_caskVars
           /\ [Sem!Next]_semVars
           /\ [Pool!Next]_poolVars
           /\ [Fut!Next]_futureVars
           /\ [Single!Next]_singleVars
BY DEF Next, allVars

-----------------------------------------------------------------------------
\* The singleton.  At most one thread is between the lock and the unlock, the one that holds
\* the lock; an instance is built only when there is none, and whoever returns finds it.
SinglePcs == {"idle", "lock", "look", "build", "assign", "unlock", "return"}

SingleInv ==
    /\ pInstance \in {0, 1} /\ built \in {0, 1} /\ destroyed = {}
    /\ pc_sin \in [Threads -> SinglePcs]
    /\ held \in [Threads -> SUBSET {1}]
    /\ \A t \in Threads : pc_sin[t] \in {"look", "build", "assign", "unlock"} => spinLock = t
    /\ \A t \in Threads : pc_sin[t] = "build" => built = 0
    /\ \A t \in Threads : pc_sin[t] = "assign" => built = 1 /\ pInstance = 0
    /\ \A t \in Threads : pc_sin[t] \in {"unlock", "return"} => pInstance = 1
    /\ pInstance = 1 => built = 1
    /\ built = 1 /\ pInstance = 0 => \E t \in Threads : pc_sin[t] = "assign"

\* No instance, nobody inside.
LEMMA SingleInit == Single!Init => SingleInv
BY DEF Single!Init, SingleInv, SinglePcs

\* Every step of getInstance() keeps SingleInv.
LEMMA SingleNext == SingleInv /\ [Single!Next]_singleVars => SingleInv'
<1> SUFFICES ASSUME SingleInv, [Single!Next]_singleVars PROVE SingleInv'
  OBVIOUS
<1>a. Nobody \notin Threads
  BY SyncAssumption DEF Single!SingletonAssumption
<1> USE DEF SingleInv, SinglePcs, Single!At
<1>1. CASE UNCHANGED singleVars
  BY <1>1 DEF singleVars
<1>2. ASSUME NEW t \in Threads, Single!getInstance(t) PROVE SingleInv'
  BY <1>2 DEF Single!getInstance
<1>3. ASSUME NEW t \in Threads, Single!SpinLock(t) PROVE SingleInv'
  BY <1>3, <1>a DEF Single!SpinLock
<1>4. ASSUME NEW t \in Threads, Single!Look(t) PROVE SingleInv'
  BY <1>4 DEF Single!Look
<1>5. ASSUME NEW t \in Threads, Single!Build(t) PROVE SingleInv'
  BY <1>5 DEF Single!Build
<1>6. ASSUME NEW t \in Threads, Single!Assign(t) PROVE SingleInv'
  BY <1>6 DEF Single!Assign
<1>7. ASSUME NEW t \in Threads, Single!Unlock(t) PROVE SingleInv'
  BY <1>7, <1>a DEF Single!Unlock
<1>8. ASSUME NEW t \in Threads, Single!Return(t) PROVE SingleInv'
  BY <1>8 DEF Single!Return
<1> QED BY <1>1, <1>2, <1>3, <1>4, <1>5, <1>6, <1>7, <1>8 DEF Single!Next, Single!Step

-----------------------------------------------------------------------------
\* The future.  The flag is set after the result, and a getter is on its way out only when
\* the flag is set.
FutureInv ==
    /\ bFinished \in BOOLEAN /\ fResult \in BOOLEAN
    /\ pc_fut \in [Getters -> {"get", "lock", "loop", "asleep", "return", "done"}]
    /\ bFinished => fResult
    /\ rpc = "flag" => fResult
    /\ \A g \in Getters : pc_fut[g] = "return" => bFinished
    /\ Fut!GotResult

\* No result yet.
LEMMA FutureInit == Fut!Init => FutureInv
BY DEF Fut!Init, FutureInv, Fut!GotResult

\* Every step of run() and get() keeps FutureInv.
LEMMA FutureNext == FutureInv /\ [Fut!Next]_futureVars => FutureInv'
<1> SUFFICES ASSUME FutureInv, [Fut!Next]_futureVars PROVE FutureInv'
  OBVIOUS
<1> USE DEF FutureInv, Fut!GotResult, Fut!At
<1>1. CASE UNCHANGED futureVars
  BY <1>1 DEF futureVars
<1>2. CASE Fut!Running
  <2>1. UNCHANGED <<pc_fut, got_fut>>
    BY <1>2 DEF Fut!Running, Fut!RunLock, Fut!Call, Fut!notify
  <2>2. CASE Fut!RunLock \/ Fut!notify
    <3>1. UNCHANGED <<bFinished, fResult>> /\ rpc' # "flag"
      BY <2>2 DEF Fut!RunLock, Fut!notify
    <3> QED BY <2>1, <3>1
  <2>3. CASE Fut!Call
    <3>1. fResult' = TRUE /\ bFinished' \in BOOLEAN /\ (bFinished => bFinished')
      BY <2>3 DEF Fut!Call
    <3> QED BY <2>1, <3>1
  <2> QED BY <1>2, <2>2, <2>3 DEF Fut!Running
<1>3. ASSUME NEW g \in Getters, Fut!get(g) \/ Fut!Lock(g) \/ Fut!wait(g) PROVE FutureInv'
  BY <1>3 DEF Fut!get, Fut!Lock, Fut!wait
<1>4. ASSUME NEW g \in Getters, Fut!Signalled(g) \/ Fut!Spurious(g) PROVE FutureInv'
  BY <1>4 DEF Fut!Signalled, Fut!Spurious, Fut!Awakes
<1>5. ASSUME NEW g \in Getters, Fut!Return(g) PROVE FutureInv'
  BY <1>5 DEF Fut!Return
<1> QED BY <1>1, <1>2, <1>3, <1>4, <1>5 DEF Fut!Next, Fut!Getting

\* No getInstance() returns anything but the one instance, fully built and not destroyed, and no get()
\* returns before its result is there, for any number of threads: the unlocked first looks of
\* Singleton.h and Future.h are safe.
THEOREM PublishedSafely == Spec => []PublishedOnce
<1>1. Init => SingleInv /\ FutureInv
  BY SingleInit, FutureInit DEF Init
<1>2. SingleInv /\ FutureInv /\ [Next]_allVars => (SingleInv /\ FutureInv)'
  BY SingleNext, FutureNext, StepOfParts
<1>3. SingleInv /\ FutureInv => PublishedOnce
  <2> SUFFICES ASSUME SingleInv, FutureInv PROVE PublishedOnce
    OBVIOUS
  <2>1. Single!OneInstance
    BY DEF SingleInv, Single!OneInstance
  <2> QED BY <2>1 DEF FutureInv, PublishedOnce
<1> QED BY <1>1, <1>2, <1>3, PTL DEF Spec

-----------------------------------------------------------------------------
\* Instances keep their own copies of the library's operators.
LEMMA SemLibrary ==
    /\ \A S : Sem!Cardinality(S) = Cardinality(S)
    /\ \A s : Sem!ToSet(s) = ToSet(s)
    /\ \A s : Sem!WellLinked(s) = WellLinked(s)
    /\ \A s, e : Sem!list_delete(s, e) = list_delete(s, e)
<1>1. \A S : Sem!Cardinality(S) = Cardinality(S)
  BY DEF Sem!Cardinality, Cardinality
<1>2. \A s : Sem!ToSet(s) = ToSet(s)
  BY DEF Sem!ToSet, ToSet
<1>3. \A s : Sem!WellLinked(s) = WellLinked(s)
  BY Zenon DEF Sem!WellLinked, WellLinked, Sem!IsInjective, IsInjective
<1>4. \A s, e : Sem!list_delete(s, e) = list_delete(s, e)
  BY Zenon DEF Sem!list_delete, list_delete, Sem!RemoveFirst, RemoveFirst, Sem!RemoveAt, RemoveAt,
         Sem!SelectInSeq, SelectInSeq, Sem!Min, Min
<1> QED BY <1>1, <1>2, <1>3, <1>4

\* The semaphore.  The count may fall below zero by no more than the decrements that are
\* undecided and the units lost to sleepers: that is what keeps the takes in bounds.
Undecided == {t \in SemTasks : pc_sem[t] \in {"waiting", "trying"}}

SemPcs == {"idle", "waiting", "trying", "park", "swap", "again", "posting", "mark", "link"}

SemTypes ==
    /\ sem \in Int /\ posts \in Nat /\ takes \in Nat /\ sleeps \in Nat
    /\ pc_sem \in [SemTasks -> SemPcs]

SemUnits ==
    /\ IsFiniteSet(Undecided)
    /\ sem + Cardinality(Undecided) + sleeps >= 0
    /\ sem = Count + posts - takes - Cardinality(Undecided) - sleeps

SemCounts == SemTypes /\ SemUnits

\* The initial count is all there is.
LEMMA SemCountsInit == Sem!Init => SemCounts
<1> SUFFICES ASSUME Sem!Init PROVE SemCounts
  OBVIOUS
<1>1. Count \in Nat
  BY SyncAssumption DEF Sem!SemAssumption
<1>2. SemTypes
  BY <1>1 DEF Sem!Init, SemTypes, SemPcs
<1>3. Undecided = {}
  BY DEF Sem!Init, Undecided
<1>4. SemUnits
  BY <1>1, <1>3, FS_EmptySet DEF Sem!Init, SemUnits
<1> QED BY <1>2, <1>4 DEF SemCounts

\* What a decrement does, in a wait or in a try.
LEMMA SemDecrement ==
    ASSUME SemCounts, NEW t \in SemTasks, NEW p \in {"waiting", "trying"},
           pc_sem[t] \in {"idle", "again"}, Sem!Decrement(t, p), UNCHANGED <<posts, sleeps>>
    PROVE  SemCounts'
<1> USE DEF SemCounts
<1>a. Count \in Nat
  BY SyncAssumption DEF Sem!SemAssumption
<1>b. Cardinality(Undecided) \in Nat
  BY FS_CardinalityType DEF SemUnits
<1>1. SemTypes'
  BY DEF SemTypes, SemPcs, Sem!Decrement, Sem!Go
<1>2. SemUnits'
  <2>1. CASE sem - 1 < 0
    <3>1. /\ sem' = sem - 1 /\ takes' = takes
          /\ pc_sem' = [pc_sem EXCEPT ![t] = p]
      BY <2>1 DEF Sem!Decrement, Sem!Go
    <3>2. Undecided' = Undecided \cup {t} /\ t \notin Undecided
      BY <3>1 DEF Undecided, SemTypes
    <3>3. /\ IsFiniteSet(Undecided')
          /\ Cardinality(Undecided') = Cardinality(Undecided) + 1
      BY <3>2, FS_AddElement DEF SemUnits
    <3> QED BY <1>a, <1>b, <3>1, <3>3 DEF SemUnits, SemTypes
  <2>2. CASE ~(sem - 1 < 0)
    <3>1. /\ sem' = sem - 1 /\ takes' = takes + 1
          /\ pc_sem' = [pc_sem EXCEPT ![t] = "idle"]
      BY <2>2 DEF Sem!Decrement, Sem!Go
    <3>2. Undecided' = Undecided
      BY <3>1 DEF Undecided, SemTypes
    <3> QED BY <1>a, <1>b, <2>2, <3>1, <3>2 DEF SemUnits, SemTypes
  <2> QED BY <2>1, <2>2
<1> QED BY <1>1, <1>2

\* Under the lock an undecided decrement is settled.
LEMMA SemSettle ==
    ASSUME SemCounts, NEW t \in SemTasks, Sem!WaitLocked(t) \/ Sem!TryLocked(t)
    PROVE  SemCounts'
<1> USE DEF SemCounts
<1>a. Count \in Nat
  BY SyncAssumption DEF Sem!SemAssumption
<1>b. Cardinality(Undecided) \in Nat
  BY FS_CardinalityType DEF SemUnits
<1>1. SemTypes'
  BY DEF SemTypes, SemPcs, Sem!WaitLocked, Sem!TryLocked, Sem!Go
<1>2. SemUnits'
  <2>1. t \in Undecided /\ Undecided' = Undecided \ {t}
    BY DEF Undecided, SemTypes, Sem!WaitLocked, Sem!TryLocked, Sem!Go
  <2>2. /\ IsFiniteSet(Undecided')
        /\ Cardinality(Undecided') = Cardinality(Undecided) - 1
    BY <2>1, FS_RemoveElement DEF SemUnits
  <2>3. Cardinality(Undecided') \in Nat
    BY <2>2, FS_CardinalityType
  <2>4. /\ posts' = posts
        /\ \/ sem >= 0 /\ sem' = sem /\ takes' = takes + 1 /\ sleeps' = sleeps
           \/ sem < 0 /\ sem' = sem /\ takes' = takes /\ sleeps' = sleeps + 1
           \/ sem < 0 /\ sem' = sem + 1 /\ takes' = takes /\ sleeps' = sleeps
    BY DEF SemTypes, Sem!WaitLocked, Sem!TryLocked
  <2> QED BY <1>a, <1>b, <2>2, <2>3, <2>4 DEF SemUnits, SemTypes
<1> QED BY <1>1, <1>2

\* A post adds a unit.
LEMMA SemPost ==
    ASSUME SemCounts, NEW t \in SemTasks, Sem!co_sem_post(t)
    PROVE  SemCounts'
<1> USE DEF SemCounts
<1>a. Count \in Nat
  BY SyncAssumption DEF Sem!SemAssumption
<1>b. Cardinality(Undecided) \in Nat
  BY FS_CardinalityType DEF SemUnits
<1>1. SemTypes'
  BY DEF SemTypes, SemPcs, Sem!co_sem_post, Sem!Go
<1>2. Undecided' = Undecided
  BY DEF Undecided, SemTypes, Sem!co_sem_post, Sem!Go
<1>3. sem' = sem + 1 /\ posts' = posts + 1 /\ UNCHANGED <<takes, sleeps>>
  BY DEF Sem!co_sem_post
<1>4. SemUnits'
  BY <1>a, <1>b, <1>2, <1>3 DEF SemUnits, SemTypes
<1> QED BY <1>1, <1>4

\* The steps that only move tasks between the lists and the processors.
LEMMA SemMoves ==
    ASSUME SemCounts, NEW t \in SemTasks, NEW p \in SemPcs \ {"waiting", "trying"},
           pc_sem[t] \notin {"waiting", "trying"},
           pc_sem' = [pc_sem EXCEPT ![t] = p] \/ pc_sem' = pc_sem,
           UNCHANGED <<sem, posts, takes, sleeps>>
    PROVE  SemCounts'
<1> USE DEF SemCounts
<1>1. SemTypes'
  BY DEF SemTypes, SemPcs
<1>2. Undecided' = Undecided
  BY DEF Undecided, SemTypes
<1> QED BY <1>1, <1>2 DEF SemUnits

\* Every instruction keeps SemCounts.
LEMMA SemCountsNext == SemCounts /\ [Sem!Next]_semVars => SemCounts'
<1> SUFFICES ASSUME SemCounts, [Sem!Next]_semVars PROVE SemCounts'
  OBVIOUS
<1>1. CASE UNCHANGED semVars
  BY <1>1 DEF semVars, SemCounts, SemTypes, SemUnits, Undecided
<1>2. ASSUME NEW t \in SemTasks, Sem!co_sem_wait(t) \/ Sem!co_sem_try_wait(t) PROVE SemCounts'
  BY <1>2, SemDecrement DEF Sem!co_sem_wait, Sem!co_sem_try_wait
<1>3. ASSUME NEW t \in SemTasks, Sem!StoreBlocked(t) \/ Sem!SwitchOut(t) PROVE SemCounts'
  BY <1>3, SemMoves DEF Sem!StoreBlocked, Sem!SwitchOut, Sem!Go, SemPcs
<1>4. ASSUME NEW t \in SemTasks, Sem!Yield(t) PROVE SemCounts'
  BY <1>4, SemMoves DEF Sem!Yield, SemPcs
<1>5. ASSUME NEW t \in SemTasks, Sem!Dispatch(t) PROVE SemCounts'
  BY <1>5 DEF Sem!Dispatch, SemCounts, SemTypes, SemUnits, Undecided
<1>6. ASSUME NEW t \in SemTasks, Sem!PostLocked(t) \/ Sem!ResumeMark(t) \/ Sem!ResumeLink(t)
      PROVE  SemCounts'
  BY <1>6, SemMoves DEF Sem!PostLocked, Sem!ResumeMark, Sem!ResumeLink, Sem!Go, SemPcs
<1> QED
  BY <1>1, <1>2, <1>3, <1>4, <1>5, <1>6, SemSettle, SemPost
     DEF Sem!Next, Sem!WaitStep, Sem!TryStep, Sem!PostStep

\* Where the tasks are.  A task in the middle of an operation is on its processor; one that
\* has decided to sleep is known to somebody who will enqueue it.
Listed == ToSet(wait_list)

Resting(t) == pc_sem[t] \in {"park", "swap"} \/ (pc_sem[t] = "again" /\ t \notin running)

Held(t) == \E u \in SemTasks : pc_sem[u] \in {"mark", "link"} /\ target[u] = t

SemList == wait_list \in Seq(SemTasks) /\ WellLinked(wait_list)

SemSets ==
    /\ pc_sem \in [SemTasks -> SemPcs]
    /\ rq \subseteq SemTasks /\ running \subseteq SemTasks
    /\ target \in [SemTasks -> SemTasks \cup {NoTask}]

SemPlaces ==
    /\ \A t \in SemTasks : pc_sem[t] \notin {"idle", "again"} => t \in running
    /\ \A t \in SemTasks : pc_sem[t] \in {"mark", "link"} => target[t] \in SemTasks
    /\ \A t \in Listed : Resting(t)
    /\ \A t \in SemTasks : Resting(t) => \/ t \in Listed \cup rq
                                         \/ Held(t)
                                         \/ pc_sem[t] = "swap" /\ t \notin blocked

SemLinks == SemList /\ SemSets /\ SemPlaces

\* Everybody is on a processor and nobody is linked.
LEMMA SemLinksInit == Sem!Init => SemLinks
<1> SUFFICES ASSUME Sem!Init PROVE SemLinks
  OBVIOUS
<1>1. SemList /\ Listed = {}
  BY EmptyList DEF Sem!Init, Sem!list_init, list_init, SemList, Listed
<1>2. SemSets
  BY DEF Sem!Init, SemSets, SemPcs
<1>3. SemPlaces
  BY <1>1 DEF Sem!Init, SemPlaces, Resting
<1> QED BY <1>1, <1>2, <1>3 DEF SemLinks

\* RR_enqueue leaves a task in its run queue only.
LEMMA SemEnqueue ==
    ASSUME SemLinks, NEW t \in SemTasks, Sem!RR_enqueue(t)
    PROVE  SemList' /\ Listed' = Listed \ {t} /\ rq' = rq \cup {t}
<1>1. wait_list' = list_delete(wait_list, t) /\ rq' = rq \cup {t}
  BY SemLibrary DEF Sem!RR_enqueue
<1>2. /\ list_delete(wait_list, t) \in Seq(SemTasks)
      /\ WellLinked(list_delete(wait_list, t))
      /\ ToSet(list_delete(wait_list, t)) = ToSet(wait_list) \ {t}
  BY DeleteElement DEF SemLinks, SemList
<1> QED BY <1>1, <1>2 DEF SemList, Listed

\* A wait puts the task on the list once, and knows it is there.
LEMMA SemLinksWait ==
    ASSUME SemLinks, NEW t \in SemTasks, Sem!WaitLocked(t)
    PROVE  SemLinks'
<1> USE DEF SemLinks
<1>1. CASE sem >= 0
  <2>1. /\ pc_sem[t] = "waiting" /\ pc_sem' = [pc_sem EXCEPT ![t] = "idle"]
        /\ UNCHANGED <<wait_list, rq, running, blocked, target>>
    BY <1>1 DEF Sem!WaitLocked, Sem!Go
  <2>2. SemSets'
    BY <2>1 DEF SemSets, SemPcs
  <2>3. SemPlaces'
    BY <2>1 DEF SemSets, SemPlaces, Resting, Held, Listed
  <2> QED BY <2>1, <2>2, <2>3 DEF SemList
<1>2. CASE ~(sem >= 0)
  <2>1. /\ pc_sem[t] = "waiting" /\ pc_sem' = [pc_sem EXCEPT ![t] = "park"]
        /\ wait_list' = list_add_before(wait_list, t)
        /\ UNCHANGED <<rq, running, blocked, target>>
    BY <1>2 DEF Sem!WaitLocked, Sem!Go, Sem!list_add_before, list_add_before
  <2>2. t \notin Listed
    BY <2>1 DEF SemPlaces, Resting
  <2>3. SemList' /\ Listed' = Listed \cup {t}
    BY <2>1, <2>2, AddLast DEF SemList, Listed
  <2>4. SemSets'
    BY <2>1 DEF SemSets, SemPcs
  <2>5. SemPlaces'
    BY <2>1, <2>3 DEF SemSets, SemPlaces, Resting, Held
  <2> QED BY <2>3, <2>4, <2>5
<1> QED BY <1>1, <1>2

\* The two halves of co_sync_yield.
LEMMA SemLinksYield ==
    ASSUME SemLinks, NEW t \in SemTasks, Sem!StoreBlocked(t) \/ Sem!SwitchOut(t)
    PROVE  SemLinks'
<1> USE DEF SemLinks
<1>1. CASE Sem!StoreBlocked(t)
  <2>1. /\ pc_sem[t] = "park" /\ pc_sem' = [pc_sem EXCEPT ![t] = "swap"]
        /\ blocked' = blocked \cup {t}
        /\ UNCHANGED <<wait_list, rq, running, target>>
    BY <1>1 DEF Sem!StoreBlocked, Sem!Go
  <2>2. SemSets'
    BY <2>1 DEF SemSets, SemPcs
  <2>3. SemPlaces'
    BY <2>1 DEF SemSets, SemPlaces, Resting, Held, Listed
  <2> QED BY <2>1, <2>2, <2>3 DEF SemList
<1>2. CASE Sem!SwitchOut(t) /\ t \in blocked
  <2>1. /\ pc_sem[t] = "swap" /\ pc_sem' = [pc_sem EXCEPT ![t] = "again"]
        /\ running' = running \ {t} /\ t \in blocked
        /\ UNCHANGED <<wait_list, rq, blocked, target>>
    BY <1>2 DEF Sem!SwitchOut, Sem!Go
  <2>2. SemSets'
    BY <2>1 DEF SemSets, SemPcs
  <2>3. SemPlaces'
    BY <2>1 DEF SemSets, SemPlaces, Resting, Held, Listed
  <2> QED BY <2>1, <2>2, <2>3 DEF SemList
<1>3. CASE Sem!SwitchOut(t) /\ t \notin blocked
  <2>1. /\ pc_sem[t] = "swap" /\ pc_sem' = [pc_sem EXCEPT ![t] = "again"]
        /\ running' = running \ {t} /\ Sem!RR_enqueue(t)
        /\ UNCHANGED <<blocked, target>>
    BY <1>3 DEF Sem!SwitchOut, Sem!Go
  <2>2. SemList' /\ Listed' = Listed \ {t} /\ rq' = rq \cup {t}
    BY <2>1, SemEnqueue
  <2>3. SemSets'
    BY <2>1, <2>2 DEF SemSets, SemPcs
  <2>4. SemPlaces'
    BY <2>1, <2>2 DEF SemSets, SemPlaces, Resting, Held
  <2> QED BY <2>2, <2>3, <2>4
<1> QED BY <1>1, <1>2, <1>3

\* A task leaves its processor and comes back to it.
LEMMA SemLinksTurn ==
    ASSUME SemLinks, Sem!Intact, NEW t \in SemTasks, Sem!Yield(t) \/ Sem!Dispatch(t)
    PROVE  SemLinks'
<1> USE DEF SemLinks
<1>1. CASE Sem!Yield(t)
  <2>1. /\ pc_sem[t] = "idle" /\ running' = running \ {t} /\ Sem!RR_enqueue(t)
        /\ UNCHANGED <<pc_sem, blocked, target>>
    BY <1>1 DEF Sem!Yield
  <2>2. SemList' /\ Listed' = Listed \ {t} /\ rq' = rq \cup {t}
    BY <2>1, SemEnqueue
  <2>3. SemSets'
    BY <2>1, <2>2 DEF SemSets
  <2>4. SemPlaces'
    BY <2>1, <2>2 DEF SemSets, SemPlaces, Resting, Held
  <2> QED BY <2>2, <2>3, <2>4
<1>2. CASE Sem!Dispatch(t)
  <2>1. /\ t \in rq /\ t \notin running
        /\ rq' = rq \ {t} /\ running' = running \cup {t} /\ blocked' = blocked \ {t}
        /\ UNCHANGED <<wait_list, pc_sem, target>>
    BY <1>2 DEF Sem!Dispatch
  <2>2. t \notin Listed
    BY <2>1, SemLibrary DEF Sem!Intact, Listed
  <2>3. SemSets'
    BY <2>1 DEF SemSets
  <2>4. SemPlaces'
    BY <2>1, <2>2 DEF SemSets, SemPlaces, Resting, Held, Listed
  <2> QED BY <2>1, <2>3, <2>4 DEF SemList
<1> QED BY <1>1, <1>2

\* A post takes the first of the list in its hands.
LEMMA SemLinksPop ==
    ASSUME SemLinks, NEW t \in SemTasks, Sem!PostLocked(t)
    PROVE  SemLinks'
<1> USE DEF SemLinks
<1>1. CASE sem < 0 /\ ~list_empty(wait_list)
  <2>a. PICK h \in SemTasks : h = list_next(wait_list)
    BY <1>1, TakeFirst DEF SemList
  <2>1. /\ pc_sem[t] = "posting" /\ pc_sem' = [pc_sem EXCEPT ![t] = "mark"]
        /\ target' = [target EXCEPT ![t] = h] /\ wait_list' = Tail(wait_list)
        /\ UNCHANGED <<rq, running, blocked>>
    BY <1>1, <2>a DEF Sem!PostLocked, Sem!Go, Sem!list_empty, list_empty, Sem!list_next, list_next
  <2>2. /\ h \in SemTasks /\ h \in ToSet(wait_list) /\ h \notin ToSet(Tail(wait_list))
        /\ Tail(wait_list) \in Seq(SemTasks) /\ WellLinked(Tail(wait_list))
        /\ ToSet(wait_list) = ToSet(Tail(wait_list)) \cup {h}
    BY <1>1, <2>a, TakeFirst DEF SemList
  <2>3. SemList' /\ h \in Listed /\ Listed' = Listed \ {h}
    BY <2>1, <2>2 DEF SemList, Listed
  <2>4. SemSets'
    BY <2>1, <2>2 DEF SemSets, SemPcs
  <2>5. /\ \A x \in SemTasks : x # t => pc_sem'[x] = pc_sem[x] /\ target'[x] = target[x]
        /\ pc_sem'[t] = "mark" /\ target'[t] = h
    BY <2>1 DEF SemSets
  <2>6. \A x \in SemTasks : Held(x) => Held(x)'
    BY <2>1, <2>5 DEF Held
  <2>7. Held(h)'
    BY <2>5 DEF Held
  <2>8. \A x \in SemTasks : Resting(x)' <=> Resting(x)
    BY <2>1, <2>5 DEF Resting
  <2>9. SemPlaces'
    <3>1. \A x \in SemTasks : pc_sem'[x] \notin {"idle", "again"} => x \in running'
      BY <2>1, <2>5 DEF SemPlaces
    <3>2. \A x \in SemTasks : pc_sem'[x] \in {"mark", "link"} => target'[x] \in SemTasks
      BY <2>2, <2>5 DEF SemPlaces
    <3>3. Listed \subseteq SemTasks
      BY DEF SemList, Listed, ToSet
    <3>4. \A x \in Listed' : Resting(x)'
      BY <2>3, <2>8, <3>3 DEF SemPlaces
    <3>5. \A x \in SemTasks :
             Resting(x)' => \/ x \in Listed' \cup rq'
                            \/ Held(x)'
                            \/ pc_sem'[x] = "swap" /\ x \notin blocked'
      BY <2>1, <2>3, <2>5, <2>6, <2>7, <2>8 DEF SemPlaces
    <3> QED BY <3>1, <3>2, <3>4, <3>5 DEF SemPlaces
  <2> QED BY <2>3, <2>4, <2>9
<1>2. CASE ~(sem < 0 /\ ~list_empty(wait_list))
  <2>1. /\ pc_sem[t] = "posting" /\ pc_sem' = [pc_sem EXCEPT ![t] = "idle"]
        /\ UNCHANGED <<wait_list, rq, running, blocked, target>>
    BY <1>2 DEF Sem!PostLocked, Sem!Go, Sem!list_empty, list_empty
  <2>2. SemSets'
    BY <2>1 DEF SemSets, SemPcs
  <2>3. SemPlaces'
    BY <2>1 DEF SemSets, SemPlaces, Resting, Held, Listed
  <2> QED BY <2>1, <2>2, <2>3 DEF SemList
<1> QED BY <1>1, <1>2

\* The two halves of co_resume: the task is in the post's hands until it is in its run queue.
LEMMA SemLinksResume ==
    ASSUME SemLinks, NEW t \in SemTasks, Sem!ResumeMark(t) \/ Sem!ResumeLink(t)
    PROVE  SemLinks'
<1> USE DEF SemLinks
<1>1. CASE Sem!ResumeMark(t)
  <2>1. /\ pc_sem[t] = "mark" /\ pc_sem' = [pc_sem EXCEPT ![t] = "link"]
        /\ blocked' = blocked \ {target[t]}
        /\ UNCHANGED <<wait_list, rq, running, target>>
    BY <1>1 DEF Sem!ResumeMark, Sem!Go
  <2>2. SemSets'
    BY <2>1 DEF SemSets, SemPcs
  <2>3. SemPlaces'
    BY <2>1 DEF SemSets, SemPlaces, Resting, Held, Listed
  <2> QED BY <2>1, <2>2, <2>3 DEF SemList
<1>2. CASE Sem!ResumeLink(t)
  <2> DEFINE h == target[t]
  <2>1. /\ pc_sem[t] = "link" /\ pc_sem' = [pc_sem EXCEPT ![t] = "idle"]
        /\ Sem!RR_enqueue(h) /\ target' = [target EXCEPT ![t] = NoTask]
        /\ UNCHANGED <<running, blocked>>
    BY <1>2 DEF Sem!ResumeLink, Sem!Go
  <2>2. h \in SemTasks
    BY <2>1 DEF SemPlaces
  <2>3. SemList' /\ Listed' = Listed \ {h} /\ rq' = rq \cup {h}
    BY <2>1, <2>2, SemEnqueue
  <2>4. SemSets'
    BY <2>1, <2>2, <2>3 DEF SemSets, SemPcs
  <2>5. SemPlaces'
    BY <2>1, <2>2, <2>3 DEF SemSets, SemPlaces, Resting, Held
  <2> QED BY <2>3, <2>4, <2>5
<1> QED BY <1>1, <1>2

\* The instructions that change the count and leave the lists alone.
LEMMA SemLinksCount ==
    ASSUME SemLinks, NEW t \in SemTasks, NEW p \in {"idle", "waiting", "trying", "posting"},
           t \in running, pc_sem[t] \in {"idle", "again", "trying"},
           pc_sem' = [pc_sem EXCEPT ![t] = p],
           UNCHANGED <<wait_list, rq, running, blocked, target>>
    PROVE  SemLinks'
<1> USE DEF SemLinks
<1>1. SemSets'
  BY DEF SemSets, SemPcs
<1>2. SemPlaces'
  BY DEF SemSets, SemPlaces, Resting, Held, Listed
<1> QED BY <1>1, <1>2 DEF SemList

\* Every step keeps SemLinks, as long as no link is in two lists.
LEMMA SemLinksNext == SemLinks /\ [Sem!Next]_semVars => SemLinks'
<1> SUFFICES ASSUME SemLinks, [Sem!Next]_semVars PROVE SemLinks'
  OBVIOUS
<1>1. CASE UNCHANGED semVars
  BY <1>1 DEF semVars, SemLinks, SemList, SemSets, SemPlaces, Listed, Resting, Held
<1>2. ASSUME NEW t \in SemTasks, Sem!co_sem_wait(t) \/ Sem!co_sem_try_wait(t) PROVE SemLinks'
  BY <1>2, SemLinksCount DEF Sem!co_sem_wait, Sem!co_sem_try_wait, Sem!Decrement, Sem!Go
<1>3. ASSUME NEW t \in SemTasks, Sem!TryLocked(t) PROVE SemLinks'
  <2>1. t \in running
    BY <1>3 DEF Sem!TryLocked, SemLinks, SemPlaces
  <2> QED BY <1>3, <2>1, SemLinksCount DEF Sem!TryLocked, Sem!Go
<1>4. ASSUME NEW t \in SemTasks, Sem!co_sem_post(t) PROVE SemLinks'
  BY <1>4, SemLinksCount DEF Sem!co_sem_post, Sem!Go
<1> QED
  BY <1>1, <1>2, <1>3, <1>4, SemLinksWait, SemLinksYield, SemLinksTurn, SemLinksPop, SemLinksResume
     DEF Sem!Next, Sem!WaitStep, Sem!TryStep, Sem!PostStep

\* However waits, tries and posts of any number of tasks, each on its thread, interleave,
\* co_sem.c lets no more of them through than its count and its posts allow and loses exactly
\* one unit per sleep; its list holds sleepers only, and no sleeper is forgotten between the
\* list, the hands of a post and the run queue, up to the first link that is in two lists.
THEOREM SemaphoreCounts == Spec => []SemaphoreExact
<1>1. Init => SemCounts /\ SemLinks
  BY SemCountsInit, SemLinksInit DEF Init
<1>2. SemCounts /\ SemLinks /\ [Next]_allVars => (SemCounts /\ SemLinks)'
  BY SemCountsNext, SemLinksNext, StepOfParts
<1>3. SemCounts /\ SemLinks => SemaphoreExact
  <2> SUFFICES ASSUME SemCounts, SemLinks PROVE SemaphoreExact
    OBVIOUS
  <2>1. Cardinality(Undecided) \in Nat
    BY FS_CardinalityType DEF SemCounts, SemUnits
  <2>2. Sem!SemAccount
    BY SemLibrary DEF SemCounts, SemUnits, Undecided, Sem!SemAccount, Sem!Undecided
  <2>3. Sem!SemSafe
    <3>1. Count \in Nat
      BY SyncAssumption DEF Sem!SemAssumption
    <3> QED BY <2>1, <3>1 DEF SemCounts, SemTypes, SemUnits, Sem!SemSafe
  <2>4. Sem!SleepersListed
    <3>1. Sem!WellLinked(wait_list)
      BY SemLibrary DEF SemLinks, SemList
    <3>2. Sem!ToSet(wait_list) = Listed
      BY SemLibrary DEF Listed
    <3>3. \A t : (Sem!Asleep(t) <=> Resting(t)) /\ (Sem!Targeted(t) <=> Held(t))
      BY DEF Sem!Asleep, Resting, Sem!Targeted, Held
    <3> QED BY <3>1, <3>2, <3>3 DEF SemLinks, SemPlaces, Sem!SleepersListed
  <2> QED BY <2>2, <2>3, <2>4 DEF SemaphoreExact
<1> QED BY <1>1, <1>2, <1>3, PTL DEF Spec

-----------------------------------------------------------------------------
\* The channel of a thread's tasks.  Its contents are a run of its ring.
ChanInv == Ch!ChanTypeOK /\ Ch!RingConsistent /\ Ch!SleepersJustified

ChanRun == RingRun(capacity, messages, takeIndex, count)

\* The slots of the channel are those of a ring.
LEMMA ChanSize0 == capacity \in Nat \ {0} /\ Ch!Slots = RingSlots(capacity)
BY SyncAssumption DEF Ch!ChanAssumption, Ch!Slots, RingSlots

\* The index arithmetic of Chan.h counts places of the ring.
LEMMA ChanPlaces ==
    ASSUME NEW k \in RingSlots(capacity), NEW i \in 1 .. capacity
    PROVE  (k + i - 1) % capacity = RingPlace(capacity, k, i - 1)
<1>1. i - 1 \in 0 .. capacity
  BY ChanSize0
<1>2. (k + (i - 1)) % capacity = RingPlace(capacity, k, i - 1)
  BY <1>1, ChanSize0, RingPlaceMod
<1>3. k + (i - 1) = k + i - 1
  BY <1>1, ChanSize0 DEF RingSlots
<1> QED BY <1>2, <1>3

\* The lemmas on rings, for the ring of the channel.
LEMMA ChanRunType ==
    ASSUME NEW f \in [RingSlots(capacity) -> ChanElems], NEW k \in RingSlots(capacity),
           NEW m \in 0 .. capacity
    PROVE  RingRun(capacity, f, k, m) \in Seq(ChanElems) /\ Len(RingRun(capacity, f, k, m)) = m
<1>1. IsRun(capacity, ChanElems, f, k, m, RingRun(capacity, f, k, m))
  BY ChanSize0, RingRunType
<1> QED BY <1>1 DEF IsRun

\* recv() takes the head of the run.
LEMMA ChanRunTail ==
    ASSUME NEW f \in [RingSlots(capacity) -> ChanElems], NEW k \in RingSlots(capacity),
           NEW m \in 1 .. capacity
    PROVE  /\ RingRun(capacity, f, k, m) # <<>>
           /\ Head(RingRun(capacity, f, k, m)) = f[k]
           /\ RingRun(capacity, f, RingAfter(capacity, k), m - 1) = Tail(RingRun(capacity, f, k, m))
BY ChanSize0, RingRunTail

\* An empty ring.
LEMMA ChanInit == Ch!Init => ChanInv
<1> SUFFICES ASSUME Ch!Init PROVE ChanInv
  OBVIOUS
<1>1. Ch!ChanTypeOK
  <2>1. closed \in BOOLEAN
    BY DEF Ch!Init
  <2>2. /\ putIndex \in Ch!Slots /\ takeIndex \in Ch!Slots /\ count \in 0 .. capacity
        /\ messages \in [Ch!Slots -> ChanElems]
        /\ arg \in [ChanTasks -> ChanElems] /\ got_ch \in [ChanTasks -> ChanElems]
    BY ChanSize0 DEF Ch!Init, Ch!Slots
  <2>3. pc_ch \in [ChanTasks -> Ch!Returned]
    BY DEF Ch!Init, Ch!Returned
  <2> QED BY <2>1, <2>2, <2>3 DEF Ch!ChanTypeOK
<1>2. Ch!RingConsistent
  <2>1. 0 \in RingSlots(capacity) /\ 0 \in 0 .. capacity
    BY ChanSize0 DEF RingSlots
  <2>2. (0 + 0) % capacity = RingPlace(capacity, 0, 0)
    BY <2>1, ChanSize0, RingPlaceMod
  <2> QED BY <2>2, ChanSize0 DEF RingPlace, Ch!Init, Ch!RingConsistent
<1>3. Ch!SleepersJustified
  BY DEF Ch!Init, Ch!SleepersJustified
<1> QED BY <1>1, <1>2, <1>3 DEF ChanInv

ChanWaits == {"send_wait", "sendTill_wait", "recv_wait", "recvTill_wait"}

\* signalAll leaves no task in the waits it is for, and sends no other task to sleep.
LEMMA ChanSignal ==
    ASSUME Ch!ChanTypeOK, NEW t \in ChanTasks, NEW W \in SUBSET ChanWaits, Ch!signalAll(W, t)
    PROVE  /\ pc_ch' \in [ChanTasks -> Ch!Returned \cup Ch!Calls \cup ChanWaits \cup
                                         {"sendTill_back", "recvTill_back"}]
           /\ \A u \in ChanTasks : pc_ch'[u] \in ChanWaits => pc_ch'[u] = pc_ch[u] /\ pc_ch[u] \notin W
<1>1. \A p \in W : Ch!Resumed(p) \in {"send", "recv", "sendTill_back", "recvTill_back"}
  BY DEF ChanWaits, Ch!Resumed
<1> QED BY <1>1 DEF Ch!signalAll, ChanWaits, Ch!ChanTypeOK, Ch!Returned, Ch!Calls

\* What the body of a send does to the ring.
LEMMA ChanEnqueue ==
    ASSUME ChanInv, NEW t \in ChanTasks, ~Ch!isFull, Ch!enqueue(t)
    PROVE  ChanInv' /\ Ch!Fifo!Insert(t)
<1> USE DEF ChanInv
<1>1. /\ takeIndex \in RingSlots(capacity) /\ count \in 0 .. (capacity - 1)
      /\ count \in 0 .. capacity /\ arg[t] \in ChanElems
      /\ messages \in [RingSlots(capacity) -> ChanElems]
  BY ChanSize0 DEF Ch!ChanTypeOK, Ch!isFull
<1>2. putIndex = RingPlace(capacity, takeIndex, count)
  BY <1>1, ChanSize0, RingPlaceMod DEF Ch!RingConsistent
<1>3. putIndex' = RingPlace(capacity, takeIndex, count + 1)
  BY <1>1, <1>2, ChanSize0, RingPlaceAfter DEF Ch!enqueue, Ch!After, RingAfter
<1>4. count' = count + 1 /\ count' \in 0 .. capacity /\ takeIndex' = takeIndex
      /\ UNCHANGED <<closed, arg, got_ch>>
  BY <1>1, ChanSize0 DEF Ch!enqueue
<1>5. Ch!RingConsistent'
  BY <1>1, <1>3, <1>4, ChanSize0, RingPlaceMod DEF Ch!RingConsistent
<1>6. messages' = [messages EXCEPT ![RingPlace(capacity, takeIndex, count)] = arg[t]]
  BY <1>2 DEF Ch!enqueue
<1>7. Ch!signalAll({"recv_wait", "recvTill_wait"}, t)
  BY DEF Ch!enqueue
<1>8. /\ pc_ch' \in [ChanTasks -> Ch!Returned \cup Ch!Calls \cup ChanWaits \cup
                                    {"sendTill_back", "recvTill_back"}]
      /\ \A u \in ChanTasks : pc_ch'[u] \in ChanWaits =>
           pc_ch'[u] = pc_ch[u] /\ pc_ch[u] \notin {"recv_wait", "recvTill_wait"}
  <2>1. {"recv_wait", "recvTill_wait"} \in SUBSET ChanWaits
    BY DEF ChanWaits
  <2> QED BY <1>7, <2>1, ChanSignal
<1>9. Ch!ChanTypeOK'
  <2>1. putIndex' \in Ch!Slots
    <3>1. putIndex \in RingSlots(capacity)
      BY ChanSize0 DEF Ch!ChanTypeOK
    <3> QED BY <3>1, ChanSize0 DEF Ch!enqueue, Ch!After, RingSlots
  <2>2. messages' \in [Ch!Slots -> ChanElems]
    BY <1>1, <1>6, ChanSize0
  <2>3. closed' \in BOOLEAN
    BY <1>4 DEF Ch!ChanTypeOK
  <2> QED BY <1>4, <1>8, <2>1, <2>2, <2>3 DEF Ch!ChanTypeOK, ChanWaits
<1>10. Ch!SleepersJustified'
  <2>1. \A u \in ChanTasks : pc_ch'[u] \notin {"recv_wait", "recvTill_wait"}
    BY <1>8 DEF ChanWaits
  <2>2. ASSUME NEW u \in ChanTasks, pc_ch'[u] \in {"send_wait", "sendTill_wait"} PROVE closed'
    <3>1. pc_ch[u] \in {"send_wait", "sendTill_wait"}
      BY <1>8, <2>2 DEF ChanWaits
    <3>2. closed
      BY <3>1 DEF Ch!SleepersJustified
    <3> QED BY <1>4, <3>2
  <2> QED BY <2>1, <2>2 DEF Ch!SleepersJustified
<1>11. ChanRun' = Append(ChanRun, arg[t])
  <2>1. Stored(capacity, ChanElems, messages, takeIndex, count, arg[t], messages')
    BY <1>1, <1>6 DEF Stored
  <2>2. RingRun(capacity, messages', takeIndex, count + 1)
          = Append(RingRun(capacity, messages, takeIndex, count), arg[t])
    BY <2>1, ChanSize0, RingRunAppend
  <2> QED BY <1>4, <2>2 DEF ChanRun
<1>12. Len(ChanRun) < capacity
  BY <1>1, ChanRunType, ChanSize0 DEF ChanRun
<1>13. Ch!Fifo!Insert(t)
  <2>1. Ch!contents = ChanRun
    BY <1>1, ChanPlaces, ChanSize0 DEF Ch!contents, ChanRun, RingRun
  <2>2. Ch!contents' = ChanRun'
    BY <1>1, <1>4, ChanPlaces, ChanSize0 DEF Ch!contents, ChanRun, RingRun
  <2> QED BY <1>4, <1>11, <1>12, <2>1, <2>2 DEF Ch!Fifo!Insert
<1> QED BY <1>5, <1>9, <1>10, <1>13

\* What the body of a receive does to the ring.
LEMMA ChanDequeue ==
    ASSUME ChanInv, NEW t \in ChanTasks, ~Ch!isEmpty, Ch!dequeue(t)
    PROVE  ChanInv' /\ Ch!Fifo!Remove(t)
<1> USE DEF ChanInv
<1>1. /\ takeIndex \in RingSlots(capacity) /\ count \in 1 .. capacity
      /\ messages \in [RingSlots(capacity) -> ChanElems]
  BY ChanSize0 DEF Ch!ChanTypeOK, Ch!isEmpty
<1>2. /\ takeIndex' = RingAfter(capacity, takeIndex) /\ count' = count - 1
      /\ got_ch' = [got_ch EXCEPT ![t] = messages[takeIndex]]
      /\ UNCHANGED <<messages, putIndex, closed, arg>>
  BY DEF Ch!dequeue, Ch!After, RingAfter
<1>3. count' \in 0 .. (capacity - 1) /\ count' \in 0 .. capacity /\ count' + 1 = count
  BY <1>1, <1>2, ChanSize0
<1>4. takeIndex' \in RingSlots(capacity)
  BY <1>1, <1>2, ChanSize0 DEF RingAfter, RingSlots
<1>5. Ch!RingConsistent'
  <2>1. putIndex = RingPlace(capacity, takeIndex, count)
    <3>1. count \in 0 .. capacity
      BY <1>1
    <3> QED BY <1>1, <3>1, ChanSize0, RingPlaceMod DEF Ch!RingConsistent
  <2>2. RingPlace(capacity, takeIndex', count') = RingPlace(capacity, takeIndex, count)
    BY <1>1, <1>2, <1>3, ChanSize0 DEF RingPlace, RingAfter, RingSlots
  <2>3. (takeIndex' + count') % capacity = RingPlace(capacity, takeIndex', count')
    BY <1>3, <1>4, ChanSize0, RingPlaceMod
  <2> QED BY <1>2, <2>1, <2>2, <2>3 DEF Ch!RingConsistent
<1>6. /\ pc_ch' \in [ChanTasks -> Ch!Returned \cup Ch!Calls \cup ChanWaits \cup
                                    {"sendTill_back", "recvTill_back"}]
      /\ \A u \in ChanTasks : pc_ch'[u] \in ChanWaits =>
           pc_ch'[u] = pc_ch[u] /\ pc_ch[u] \notin {"send_wait", "sendTill_wait"}
  <2>1. {"send_wait", "sendTill_wait"} \in SUBSET ChanWaits
    BY DEF ChanWaits
  <2>2. Ch!signalAll({"send_wait", "sendTill_wait"}, t)
    BY DEF Ch!dequeue
  <2> QED BY <2>1, <2>2, ChanSignal
<1>7. Ch!ChanTypeOK'
  <2>1. got_ch' \in [ChanTasks -> ChanElems]
    BY <1>1, <1>2 DEF Ch!ChanTypeOK
  <2>2. closed' \in BOOLEAN
    BY <1>2 DEF Ch!ChanTypeOK
  <2> QED BY <1>2, <1>3, <1>4, <1>6, <2>1, <2>2, ChanSize0 DEF Ch!ChanTypeOK, ChanWaits
<1>8. Ch!SleepersJustified'
  <2>1. ASSUME NEW u \in ChanTasks PROVE pc_ch'[u] \notin ChanWaits
    <3> SUFFICES ASSUME pc_ch'[u] \in ChanWaits PROVE FALSE
      OBVIOUS
    <3>1. pc_ch[u] \in {"recv_wait", "recvTill_wait"}
      BY <1>6 DEF ChanWaits
    <3> QED BY <3>1 DEF Ch!SleepersJustified
  <2> QED BY <2>1 DEF Ch!SleepersJustified, ChanWaits
<1>9. /\ ChanRun # <<>> /\ Head(ChanRun) = messages[takeIndex]
      /\ ChanRun' = Tail(ChanRun)
  BY <1>1, <1>2, ChanRunTail DEF ChanRun
<1>10. Ch!contents = ChanRun
  BY <1>1, ChanPlaces, ChanSize0 DEF Ch!contents, ChanRun, RingRun
<1>11. Ch!contents' = ChanRun'
  BY <1>3, <1>4, ChanPlaces, ChanSize0 DEF Ch!contents, ChanRun, RingRun
<1>12. Ch!Fifo!Remove(t)
  BY <1>2, <1>9, <1>10, <1>11 DEF Ch!Fifo!Remove
<1> QED BY <1>5, <1>7, <1>8, <1>12

\* The steps that leave the ring alone: a task goes to sleep only when it has to.
LEMMA ChanQuiet ==
    ASSUME ChanInv, NEW t \in ChanTasks, NEW p,
           p \in Ch!Returned \cup Ch!Calls \cup ChanWaits \cup {"sendTill_back", "recvTill_back"},
           p \in {"recv_wait", "recvTill_wait"} => Ch!isEmpty,
           p \in {"send_wait", "sendTill_wait"} => Ch!isFull,
           pc_ch' = [pc_ch EXCEPT ![t] = p], arg' \in [ChanTasks -> ChanElems],
           UNCHANGED <<Ch!ring, closed, got_ch>>
    PROVE  ChanInv' /\ Ch!contents' = Ch!contents
<1> USE DEF ChanInv
<1>1. UNCHANGED <<messages, putIndex, takeIndex, count, closed, got_ch>>
  BY DEF Ch!ring
<1>2. Ch!contents' = Ch!contents /\ Ch!RingConsistent'
  BY <1>1 DEF Ch!contents, Ch!RingConsistent
<1>3. pc_ch' \in [ChanTasks -> Ch!Returned \cup Ch!Calls \cup ChanWaits \cup
                                 {"sendTill_back", "recvTill_back"}]
  BY DEF Ch!ChanTypeOK, ChanWaits
<1>4. closed' \in BOOLEAN
  BY <1>1 DEF Ch!ChanTypeOK
<1>5. Ch!ChanTypeOK'
  BY <1>1, <1>3, <1>4 DEF Ch!ChanTypeOK, ChanWaits
<1>6. ASSUME NEW u \in ChanTasks
      PROVE  /\ pc_ch'[u] \in {"recv_wait", "recvTill_wait"} => Ch!isEmpty
             /\ pc_ch'[u] \in {"send_wait", "sendTill_wait"} => Ch!isFull \/ closed
  <2>1. pc_ch'[u] = IF u = t THEN p ELSE pc_ch[u]
    BY DEF Ch!ChanTypeOK
  <2> QED BY <2>1 DEF Ch!SleepersJustified
<1>7. Ch!SleepersJustified'
  <2>1. (Ch!isEmpty <=> Ch!isEmpty') /\ (Ch!isFull <=> Ch!isFull') /\ (closed <=> closed')
    BY <1>1 DEF Ch!isEmpty, Ch!isFull
  <2> QED BY <1>6, <2>1 DEF Ch!SleepersJustified
<1> QED BY <1>2, <1>5, <1>7

\* close() leaves an empty ring behind.
LEMMA ChanClose ==
    ASSUME ChanInv, Ch!close
    PROVE  ChanInv' /\ Ch!contents' = <<>> /\ UNCHANGED <<arg, got_ch>>
<1> USE DEF ChanInv
<1>1. /\ putIndex' = 0 /\ takeIndex' = 0 /\ count' = 0 /\ closed' = TRUE
      /\ UNCHANGED <<messages, pc_ch, arg, got_ch>>
  BY DEF Ch!close
<1>2. 0 \in RingSlots(capacity) /\ 0 \in 0 .. capacity
  BY ChanSize0 DEF RingSlots
<1>3. Ch!RingConsistent'
  <2>1. (0 + 0) % capacity = RingPlace(capacity, 0, 0)
    BY <1>2, ChanSize0, RingPlaceMod
  <2> QED BY <1>1, <2>1, ChanSize0 DEF RingPlace, Ch!RingConsistent
<1>4. closed' \in BOOLEAN
  BY <1>1
<1>5. Ch!ChanTypeOK'
  BY <1>1, <1>2, <1>4, ChanSize0 DEF Ch!ChanTypeOK
<1>6. Ch!SleepersJustified'
  <2>1. Ch!isEmpty' /\ closed'
    BY <1>1 DEF Ch!isEmpty
  <2> QED BY <2>1 DEF Ch!SleepersJustified
<1>7. Ch!contents' = <<>>
  BY <1>1 DEF Ch!contents
<1> QED BY <1>1, <1>3, <1>5, <1>6, <1>7

\* Every step keeps the invariant and is a step of the FIFO, empties it or leaves it alone.
ChanFifoStep ==
    [Ch!Fifo!Next \/ (Ch!contents' = <<>> /\ UNCHANGED <<arg, got_ch>>)]_<<Ch!contents, arg, got_ch>>

\* Every step keeps ChanInv and is a step of the abstract FIFO, or none.
LEMMA ChanNext == ChanInv /\ [Ch!Next]_chanVars => ChanInv' /\ ChanFifoStep
<1> SUFFICES ASSUME ChanInv, [Ch!Next]_chanVars PROVE ChanInv' /\ ChanFifoStep
  OBVIOUS
<1>1. CASE UNCHANGED chanVars
  BY <1>1 DEF chanVars, ChanInv, ChanFifoStep, Ch!ChanTypeOK, Ch!RingConsistent,
              Ch!SleepersJustified, Ch!isEmpty, Ch!isFull, Ch!contents
<1>2. CASE Ch!close
  BY <1>2, ChanClose DEF ChanFifoStep
<1>3. ASSUME NEW t \in ChanTasks, NEW p,
             p \in Ch!Returned \cup Ch!Calls \cup ChanWaits \cup {"sendTill_back", "recvTill_back"},
             p \in {"recv_wait", "recvTill_wait"} => Ch!isEmpty,
             p \in {"send_wait", "sendTill_wait"} => Ch!isFull,
             Ch!Goto(t, p)
      PROVE  ChanInv' /\ ChanFifoStep
  <2>1. pc_ch' = [pc_ch EXCEPT ![t] = p] /\ UNCHANGED <<Ch!ring, closed, arg, got_ch>>
    BY <1>3 DEF Ch!Goto
  <2>2. arg' \in [ChanTasks -> ChanElems]
    BY <2>1 DEF ChanInv, Ch!ChanTypeOK
  <2>3. ChanInv' /\ Ch!contents' = Ch!contents
    BY <1>3, <2>1, <2>2, ChanQuiet
  <2> QED BY <2>1, <2>3 DEF ChanFifoStep
<1>4. ASSUME NEW t \in ChanTasks, ~Ch!isFull, Ch!enqueue(t) PROVE ChanInv' /\ ChanFifoStep
  BY <1>4, ChanEnqueue DEF ChanFifoStep, Ch!Fifo!Next
<1>5. ASSUME NEW t \in ChanTasks, ~Ch!isEmpty, Ch!dequeue(t) PROVE ChanInv' /\ ChanFifoStep
  BY <1>5, ChanDequeue DEF ChanFifoStep, Ch!Fifo!Next
<1> USE DEF Ch!Returned, Ch!Calls, ChanWaits
<1>6. ASSUME NEW t \in ChanTasks, Ch!send(t) PROVE ChanInv' /\ ChanFifoStep
  BY <1>3, <1>4, <1>6 DEF Ch!send
<1>7. ASSUME NEW t \in ChanTasks, Ch!recv(t) PROVE ChanInv' /\ ChanFifoStep
  BY <1>3, <1>5, <1>7 DEF Ch!recv
<1>8. ASSUME NEW t \in ChanTasks, Ch!sendTill(t) PROVE ChanInv' /\ ChanFifoStep
  BY <1>3, <1>4, <1>8 DEF Ch!sendTill
<1>9. ASSUME NEW t \in ChanTasks, Ch!recvTill(t) PROVE ChanInv' /\ ChanFifoStep
  BY <1>3, <1>5, <1>9 DEF Ch!recvTill
<1>10. ASSUME NEW t \in ChanTasks, Ch!Timeout(t) PROVE ChanInv' /\ ChanFifoStep
  <2>1. Ch!Resumed(pc_ch[t]) \in {"sendTill_back", "recvTill_back"}
    BY <1>10 DEF Ch!Timeout, Ch!Resumed
  <2>2. Ch!Goto(t, Ch!Resumed(pc_ch[t]))
    BY <1>10 DEF Ch!Timeout
  <2> QED BY <1>3, <2>1, <2>2
<1>11. ASSUME NEW t \in ChanTasks, NEW op \in Ch!Calls, NEW e \in ChanElems, Ch!CallSend(t, op, e)
       PROVE  ChanInv' /\ ChanFifoStep
  <2>1. /\ pc_ch' = [pc_ch EXCEPT ![t] = op] /\ arg' = [arg EXCEPT ![t] = e]
        /\ UNCHANGED <<Ch!ring, closed, got_ch>>
    BY <1>11 DEF Ch!CallSend
  <2>2. arg' \in [ChanTasks -> ChanElems]
    BY <2>1 DEF ChanInv, Ch!ChanTypeOK
  <2>3. ChanInv' /\ Ch!contents' = Ch!contents
    BY <2>1, <2>2, ChanQuiet
  <2>4. Ch!Fifo!Ask(t, e)
    BY <2>1, <2>3 DEF Ch!Fifo!Ask
  <2> QED BY <2>3, <2>4 DEF ChanFifoStep, Ch!Fifo!Next
<1>12. ASSUME NEW t \in ChanTasks, NEW op \in Ch!Calls, Ch!CallRecv(t, op)
       PROVE  ChanInv' /\ ChanFifoStep
  BY <1>3, <1>12 DEF Ch!CallRecv
<1> QED BY <1>1, <1>2, <1>6, <1>7, <1>8, <1>9, <1>10, <1>11, <1>12 DEF Ch!Next, Ch!Step

\* For every capacity and any number of senders, receivers, timers and calls of close(),
\* Chan.h's ring implements a bounded FIFO that close() may empty: each message is received
\* once and in order, or discarded by close().
THEOREM ChannelIsFifo == Spec => RefinesFifo
<1>1. Init => ChanInv
  BY ChanInit DEF Init
<1>2. ChanInv /\ [Next]_allVars => ChanInv' /\ ChanFifoStep
  BY ChanNext, StepOfParts
<1>3. Init => Ch!Fifo!Init
  <2> SUFFICES ASSUME Init PROVE Ch!Fifo!Init
    OBVIOUS
  <2>1. Ch!contents = <<>>
    BY DEF Init, Ch!Init, Ch!contents
  <2>2. arg \in [ChanTasks -> ChanElems] /\ got_ch \in [ChanTasks -> ChanElems]
    BY DEF Init, Ch!Init
  <2> QED BY <2>1, <2>2 DEF Ch!Fifo!Init
<1> QED BY <1>1, <1>2, <1>3, PTL DEF Spec, RefinesFifo, Ch!RefinesFifo, ChanFifoStep

-----------------------------------------------------------------------------
\* The C channel.  A message that was pushed is in the channel or was received.  Without a
\* buffer the channel holds one message, and its sender sleeps until a receiver takes it.
CaskTasks == Senders \cup Receivers
CaskRoom == IF part = "meeting" \/ nelems = 0 THEN 1 ELSE nelems

CaskTypes ==
    /\ msgs \in Seq(Senders) /\ taken \in Seq(Senders)
    /\ not_full \in Seq(Senders) /\ not_empty \in Seq(Receivers)
    /\ pc_cc \in [CaskTasks -> {"new", "asleep", "woken", "done"}] /\ sent \in SUBSET Senders

CaskHeld == Len(msgs) <= CaskRoom /\ pushed = taken \o msgs

CaskMet ==
    /\ \A t \in sent : t \in ToSet(taken) \/ (t \in ToSet(msgs) /\ pc_cc[t] = "asleep")
    /\ \A t \in Senders : pc_cc[t] = "done" => t \in sent

CaskInv == CaskTypes /\ CaskHeld /\ (part = "meeting" => CaskMet)

CaskWaits(t) ==
    /\ Buffered!Steps(t, "asleep", {})
    /\ \/ t \in Senders /\ not_full' = Append(not_full, t) /\ UNCHANGED not_empty
       \/ t \in Receivers /\ not_empty' = Append(not_empty, t) /\ UNCHANGED not_full
    /\ UNCHANGED <<msgs, sent, pushed, taken>>

CaskReturns(t) ==
    /\ t \in sent /\ Buffered!Runs(t) /\ Buffered!Steps(t, "done", {})
    /\ UNCHANGED <<msgs, not_full, not_empty, sent, pushed, taken>>

CaskPushes(t) ==
    \/ msgs = <<>> /\ Buffered!Push(t, "asleep") /\ not_full' = Append(not_full, t)
    \/ /\ part = "buffered" /\ nelems # 0 /\ Len(msgs) # nelems
       /\ Buffered!Push(t, "done") /\ UNCHANGED not_full

\* The steps of the channel, with a buffer and without.
LEMMA CaskKinds ==
    ASSUME (part = "buffered" /\ Buffered!Next) \/ (part = "meeting" /\ Meeting!Next)
    PROVE  \/ \E t \in CaskTasks : CaskWaits(t)
           \/ \E t \in Senders : CaskReturns(t) \/ CaskPushes(t)
           \/ \E t \in Receivers, n \in {1, 2} : msgs # <<>> /\ Buffered!Pop(t, n)
<1> USE DEF CaskTasks, CaskWaits, CaskReturns, CaskPushes
<1>1. CASE part = "buffered" /\ Buffered!Next
  <2> USE DEF Buffered!Send, Buffered!Recv, Buffered!list_add_before
  <2>1. ASSUME NEW t \in Senders, Buffered!Send(t)
        PROVE  CaskWaits(t) \/ CaskReturns(t) \/ CaskPushes(t)
    BY <1>1, <2>1, SyncAssumption DEF Buffered!nobuffer_send, Buffered!buffer_send,
       Buffered!chan_msgs_full, Buffered!ChanAssumption
  <2>2. ASSUME NEW t \in Receivers, Buffered!Recv(t)
        PROVE  CaskWaits(t) \/ \E n \in {1, 2} : msgs # <<>> /\ Buffered!Pop(t, n)
    BY <2>2 DEF Buffered!nobuffer_recv, Buffered!buffer_recv, Buffered!WaitForMessage
  <2> QED BY <1>1, <2>1, <2>2 DEF Buffered!Next
<1>2. CASE part = "meeting" /\ Meeting!Next
  <2> USE DEF Meeting!list_add_before, Meeting!Steps, Buffered!Steps, Meeting!Runs, Buffered!Runs
  <2>1. ASSUME NEW t \in Senders, Meeting!Send(t)
        PROVE  CaskWaits(t) \/ CaskReturns(t) \/ CaskPushes(t)
    <3>1. ~Meeting!buffer_send(t)
      BY DEF Meeting!buffer_send
    <3>2. Meeting!Push(t, "asleep") => Buffered!Push(t, "asleep")
      BY DEF Meeting!Push, Buffered!Push, Meeting!chan_push_msg, Buffered!chan_push_msg,
             Meeting!Rest, Buffered!Rest, Meeting!Signalled, Buffered!Signalled,
             Meeting!Tasks, Buffered!Tasks
    <3> QED BY <1>2, <2>1, <3>1, <3>2 DEF Meeting!Send, Meeting!nobuffer_send,
               Meeting!Tasks, Buffered!Tasks
  <2>2. ASSUME NEW t \in Receivers, Meeting!Recv(t)
        PROVE  CaskWaits(t) \/ \E n \in {1, 2} : msgs # <<>> /\ Buffered!Pop(t, n)
    <3>1. ~Meeting!buffer_recv(t)
      BY DEF Meeting!buffer_recv
    <3>2. Meeting!Pop(t, 2) => Buffered!Pop(t, 2)
      BY DEF Meeting!Pop, Buffered!Pop, Meeting!Rest, Buffered!Rest, Meeting!Signalled,
             Buffered!Signalled, Meeting!Tasks, Buffered!Tasks
    <3> QED BY <2>2, <3>1, <3>2 DEF Meeting!Recv, Meeting!nobuffer_recv, Meeting!WaitForMessage,
               Meeting!Tasks, Buffered!Tasks
  <2> QED BY <1>2, <2>1, <2>2 DEF Meeting!Next
<1> QED BY <1>1, <1>2

\* Nothing sent, nobody waiting.
LEMMA CaskInit ==
    ASSUME Buffered!Init
    PROVE  CaskInv
<1>1. CaskTypes
  BY DEF Buffered!Init, CaskTypes, CaskTasks, Buffered!Tasks, Buffered!list_init
<1>2. CaskRoom \in Nat
  BY SyncAssumption DEF CaskRoom, Buffered!ChanAssumption
<1>3. CaskHeld
  BY <1>2 DEF Buffered!Init, CaskHeld, Buffered!list_init
<1>4. CaskMet
  BY DEF Buffered!Init, CaskMet, Buffered!Tasks
<1> QED BY <1>1, <1>3, <1>4 DEF CaskInv

\* The tasks that a signal wakes come off the list.
LEMMA CaskSignals ==
    ASSUME NEW S, NEW list \in Seq(S), NEW n \in {1, 2}
    PROVE  Buffered!Rest(list, n) \in Seq(S) /\ Buffered!Signalled(list, n) \in SUBSET S
<1>1. Len(list) \in Nat
  OBVIOUS
<1>2. Buffered!Signalled(list, n) \in SUBSET S
  BY <1>1 DEF Buffered!Signalled
<1>3. CASE n >= Len(list)
  BY <1>2, <1>3 DEF Buffered!Rest
<1>4. CASE ~(n >= Len(list))
  <2>1. n + 1 \in 1 .. Len(list) + 1 /\ Len(list) \in n .. Len(list)
    BY <1>1, <1>4
  <2>2. SubSeq(list, n + 1, Len(list)) \in Seq(S)
    BY <1>1, <2>1, SubSeqProperties
  <2> QED BY <1>2, <1>4, <2>2 DEF Buffered!Rest
<1> QED BY <1>3, <1>4

\* A task that goes to sleep or returns leaves the messages where they are.
LEMMA CaskQuiet ==
    ASSUME CaskInv, part' = part,
           \/ \E t \in CaskTasks : CaskWaits(t)
           \/ \E t \in Senders : CaskReturns(t)
    PROVE  CaskInv'
<1> USE DEF CaskInv
<1>1. PICK t \in CaskTasks : CaskWaits(t) \/ (t \in Senders /\ CaskReturns(t))
  BY DEF CaskTasks
<1>2. UNCHANGED <<msgs, sent, pushed, taken>>
  BY <1>1 DEF CaskWaits, CaskReturns
<1>3. CaskTypes'
  <2>1. pc_cc' \in [CaskTasks -> {"new", "asleep", "woken", "done"}]
    BY <1>1 DEF CaskTypes, CaskTasks, CaskWaits, CaskReturns, Buffered!Steps, Buffered!Tasks
  <2>2. not_full' \in Seq(Senders) /\ not_empty' \in Seq(Receivers)
    <3>1. CASE UNCHANGED <<not_full, not_empty>>
      BY <3>1 DEF CaskTypes
    <3>2. CASE t \in Senders /\ not_full' = Append(not_full, t) /\ UNCHANGED not_empty
      BY <3>2, AddLast DEF CaskTypes, list_add_before
    <3>3. CASE t \in Receivers /\ not_empty' = Append(not_empty, t) /\ UNCHANGED not_full
      BY <3>3, AddLast DEF CaskTypes, list_add_before
    <3> QED BY <1>1, <3>1, <3>2, <3>3 DEF CaskWaits, CaskReturns
  <2> QED BY <1>2, <2>1, <2>2 DEF CaskTypes
<1>4. CaskHeld'
  BY <1>2 DEF CaskHeld, CaskRoom
<1>5. ASSUME part = "meeting" PROVE CaskMet'
  <2>1. CASE CaskWaits(t)
    BY <1>1, <1>2, <1>5, <2>1 DEF CaskMet, CaskTypes, CaskTasks, CaskWaits, Buffered!Steps, Buffered!Tasks
  <2>2. CASE CaskReturns(t)
    <3>1. t \in ToSet(taken)
      BY <1>5, <2>2 DEF CaskMet, CaskReturns, Buffered!Runs
    <3> QED BY <1>1, <1>2, <1>5, <2>2, <3>1 DEF CaskMet, CaskTypes, CaskTasks, CaskReturns,
               Buffered!Steps, Buffered!Tasks
  <2> QED BY <1>1, <2>1, <2>2
<1> QED BY <1>3, <1>4, <1>5

\* A message goes in at the end.
LEMMA CaskPush ==
    ASSUME CaskInv, part' = part, NEW t \in Senders, CaskPushes(t)
    PROVE  CaskInv'
<1> USE DEF CaskInv
<1>a. nelems \in Nat /\ Senders \cap Receivers = {}
  BY SyncAssumption DEF Buffered!ChanAssumption
<1>b. msgs \in Seq(Senders) /\ taken \in Seq(Senders) /\ not_full \in Seq(Senders)
  BY DEF CaskTypes
<1>1. PICK p \in {"asleep", "done"} : /\ Buffered!Push(t, p)
                                      /\ p = "asleep" => msgs = <<>>
                                      /\ p = "done" => part = "buffered" /\ nelems # 0 /\ Len(msgs) # nelems
                                      /\ not_full' = not_full \/ not_full' = Append(not_full, t)
  BY DEF CaskPushes
<1> DEFINE W == Buffered!Signalled(not_empty, 1)
<1>2. /\ msgs' = Append(msgs, t) /\ pushed' = Append(pushed, t) /\ taken' = taken
      /\ sent' = sent \cup {t} /\ not_empty' = Buffered!Rest(not_empty, 1)
      /\ pc_cc' = [x \in CaskTasks |-> IF x = t THEN p ELSE IF x \in W THEN "woken" ELSE pc_cc[x]]
  BY <1>1 DEF Buffered!Push, Buffered!chan_push_msg, Buffered!Steps, Buffered!Tasks, CaskTasks
<1>3. not_empty' \in Seq(Receivers) /\ W \in SUBSET Receivers
  BY <1>2, CaskSignals DEF CaskTypes
<1> HIDE DEF W
<1>4. CaskTypes'
  <2>1. pc_cc' \in [CaskTasks -> {"new", "asleep", "woken", "done"}]
    BY <1>2 DEF CaskTypes
  <2>2. msgs' \in Seq(Senders) /\ not_full' \in Seq(Senders)
    <3>1. \A s \in Seq(Senders) : Append(s, t) \in Seq(Senders)
      OBVIOUS
    <3> QED BY <1>b, <1>1, <1>2, <3>1
  <2> QED BY <1>2, <1>3, <2>1, <2>2 DEF CaskTypes
<1>5. Len(msgs') <= CaskRoom'
  <2>1. Len(msgs') = Len(msgs) + 1 /\ Len(msgs) \in Nat
    BY <1>2 DEF CaskTypes
  <2>2. msgs = <<>> => Len(msgs) = 0
    OBVIOUS
  <2>3. CaskRoom' = CaskRoom /\ CaskRoom \in Nat /\ CaskRoom >= 1
    BY <1>a DEF CaskRoom
  <2>4. p = "done" => CaskRoom = nelems
    BY <1>1 DEF CaskRoom
  <2> QED BY <1>1, <2>1, <2>2, <2>3, <2>4 DEF CaskHeld
<1>6. pushed' = taken' \o msgs'
  <2>1. Append(taken \o msgs, t) = taken \o Append(msgs, t)
    BY <1>b, AppendConcat
  <2> QED BY <1>2, <2>1 DEF CaskHeld
<1>7. ASSUME part = "meeting" PROVE CaskMet'
  <2>1. msgs = <<>> /\ p = "asleep"
    BY <1>1, <1>7
  <2>2. ToSet(msgs) = {} /\ t \in ToSet(msgs')
    BY <1>2, <2>1 DEF ToSet
  <2>3. \A x \in sent : x \in ToSet(taken)
    BY <1>7, <2>2 DEF CaskMet
  <2>4. \A x \in sent' : x \in ToSet(taken') \/ (x \in ToSet(msgs') /\ pc_cc'[x] = "asleep")
    BY <1>2, <2>1, <2>2, <2>3 DEF CaskTasks
  <2>5. \A x \in Senders : pc_cc'[x] = "done" => x \in sent'
    BY <1>2, <1>7, <2>1 DEF CaskMet, CaskTasks
  <2> QED BY <2>4, <2>5 DEF CaskMet
<1> QED BY <1>4, <1>5, <1>6, <1>7 DEF CaskHeld

\* A message comes out at the front.
LEMMA CaskPop ==
    ASSUME CaskInv, part' = part, NEW t \in Receivers, NEW n \in {1, 2}, msgs # <<>>,
           Buffered!Pop(t, n)
    PROVE  CaskInv'
<1> USE DEF CaskInv
<1>a. nelems \in Nat /\ Senders \cap Receivers = {}
  BY SyncAssumption DEF Buffered!ChanAssumption
<1> DEFINE W == Buffered!Signalled(not_full, n)
<1>1. /\ msgs' = Tail(msgs) /\ taken' = Append(taken, Head(msgs))
      /\ not_full' = Buffered!Rest(not_full, n) /\ UNCHANGED <<not_empty, sent, pushed>>
      /\ pc_cc' = [x \in CaskTasks |-> IF x = t THEN "done" ELSE IF x \in W THEN "woken" ELSE pc_cc[x]]
  BY DEF Buffered!Pop, Buffered!Steps, Buffered!Tasks, CaskTasks
<1>2. not_full' \in Seq(Senders)
  BY <1>1, CaskSignals DEF CaskTypes
<1> HIDE DEF W
<1>3. Head(msgs) \in Senders /\ msgs' \in Seq(Senders) /\ Len(msgs') = Len(msgs) - 1 /\ Len(msgs) \in Nat
  BY <1>1 DEF CaskTypes
<1>4. CaskTypes'
  <2>1. pc_cc' \in [CaskTasks -> {"new", "asleep", "woken", "done"}]
    BY <1>1 DEF CaskTypes
  <2> QED BY <1>1, <1>2, <1>3, <2>1 DEF CaskTypes
<1>5. Len(msgs') <= CaskRoom'
  <2>1. CaskRoom' = CaskRoom /\ CaskRoom \in Nat
    BY <1>a DEF CaskRoom
  <2> QED BY <1>3, <2>1 DEF CaskHeld
<1>6. pushed' = taken' \o msgs'
  <2>1. taken \o msgs = Append(taken, Head(msgs)) \o Tail(msgs)
    BY DEF CaskTypes
  <2> QED BY <1>1, <2>1 DEF CaskHeld
<1>7. ASSUME part = "meeting" PROVE CaskMet'
  <2>1. Len(msgs) = 1
    BY <1>7, <1>3 DEF CaskHeld, CaskRoom, CaskTypes
  <2>2. ToSet(msgs) = {Head(msgs)}
    BY <2>1 DEF ToSet, CaskTypes
  <2>3. ToSet(taken) \cup {Head(msgs)} \subseteq ToSet(taken')
    BY <1>1, <1>3, AddLast DEF list_add_before, CaskTypes
  <2>4. \A x \in sent' : x \in ToSet(taken')
    BY <1>1, <1>7, <2>2, <2>3 DEF CaskMet
  <2>5. \A x \in Senders : pc_cc'[x] = "done" => x \in sent'
    BY <1>a, <1>1, <1>7 DEF CaskMet, CaskTasks
  <2> QED BY <2>4, <2>5 DEF CaskMet
<1> QED BY <1>4, <1>5, <1>6, <1>7 DEF CaskHeld

CaskNext == (part = "buffered" /\ Buffered!Next) \/ (part = "meeting" /\ Meeting!Next)

\* Every step, of either kind of channel, keeps CaskInv.
LEMMA CaskStep == CaskInv /\ part' = part /\ [CaskNext]_caskVars => CaskInv'
<1> SUFFICES ASSUME CaskInv, part' = part, [CaskNext]_caskVars PROVE CaskInv'
  OBVIOUS
<1>1. CASE UNCHANGED caskVars
  BY <1>1 DEF caskVars, CaskInv, CaskTypes, CaskHeld, CaskMet, CaskRoom
<1>2. CASE CaskNext
  BY <1>2, CaskKinds, CaskQuiet, CaskPush, CaskPop DEF CaskNext
<1> QED BY <1>1, <1>2

\* Both channels are safe with any number of tasks and any capacity: nobody sleeps in Chan.h's
\* channel while it could serve it (but a sender after close()) and its ring stays consistent;
\* the C channel keeps the order of its messages and loses none, and chan_send without a
\* buffer returns only after its message was received.
THEOREM ChannelsKeepOrder == Spec => []ChannelsSafe
<1>1. Init => ChanInv /\ CaskInv
  BY ChanInit, CaskInit DEF Init
<1>2. ChanInv /\ CaskInv /\ [Next]_allVars => (ChanInv /\ CaskInv)'
  BY ChanNext, CaskStep, StepOfParts DEF CaskNext
<1>3. ChanInv /\ CaskInv => ChannelsSafe
  <2> SUFFICES ASSUME ChanInv, CaskInv PROVE ChannelsSafe
    OBVIOUS
  <2>1. Buffered!ChanInOrder
    BY DEF CaskInv, CaskHeld, Buffered!ChanInOrder
  <2>2. ASSUME part = "buffered" PROVE Buffered!ChanTypeOK
    BY <2>2 DEF CaskInv, CaskHeld, CaskTypes, CaskRoom, CaskTasks, Buffered!ChanTypeOK, Buffered!Tasks
  <2>3. ASSUME part = "meeting" PROVE Meeting!Rendezvous
    <3>1. \A S : Meeting!ToSet(S) = ToSet(S)
      BY DEF Meeting!ToSet, ToSet
    <3>2. ASSUME NEW t \in Senders, pc_cc[t] = "done" PROVE t \in ToSet(taken)
      BY <2>3, <3>2 DEF CaskInv, CaskMet
    <3> QED BY <3>1, <3>2 DEF Meeting!Rendezvous
  <2> QED BY <2>1, <2>2, <2>3 DEF ChannelsSafe, ChanInv
<1> QED BY <1>1, <1>2, <1>3, PTL DEF Spec

-----------------------------------------------------------------------------
\* The pool of tasks.  A runner is in the queue, in the boss's channel, in a worker's channel
\* or in a worker's hands, and in one of these at a time.
Apart(F, B, C, J, A) ==
    /\ \A r \in Runners : r \in A <=> \/ r \in F \/ r \in B
                                      \/ \E w \in Workers : r \in C[w] \/ r \in J[w]
    /\ \A r \in F : r \notin B /\ \A w \in Workers : r \notin C[w] /\ r \notin J[w]
    /\ \A r \in B : \A w \in Workers : r \notin C[w] /\ r \notin J[w]
    /\ \A w, v \in Workers : C[w] \cap J[v] = {}
    /\ \A w, v \in Workers : w # v => C[w] \cap C[v] = {} /\ J[w] \cap J[v] = {}

\* submit() puts a new runner into the queue or sends it to the boss.
LEMMA ApartAccept ==
    ASSUME NEW F, NEW B, NEW C, NEW J, NEW A, Apart(F, B, C, J, A), NEW r \in Runners, r \notin A
    PROVE  /\ Apart(F \cup {r}, B, C, J, A \cup {r})
           /\ Apart(F, B \cup {r}, C, J, A \cup {r})
<1>1. r \notin F /\ r \notin B /\ \A w \in Workers : r \notin C[w] /\ r \notin J[w]
  BY DEF Apart
<1>2. Apart(F \cup {r}, B, C, J, A \cup {r})
  BY <1>1 DEF Apart
<1>3. Apart(F, B \cup {r}, C, J, A \cup {r})
  BY <1>1 DEF Apart
<1> QED BY <1>2, <1>3

\* The boss hands a runner over to a worker whose channel is empty.
LEMMA ApartHandOver ==
    ASSUME NEW F, NEW B, NEW C \in [Workers -> SUBSET Runners], NEW J, NEW A,
           Apart(F, B, C, J, A), NEW r \in Runners, NEW w \in Workers, C[w] = {},
           NEW D, D = [C EXCEPT ![w] = {r}]
    PROVE  /\ r \in F => Apart(F \ {r}, B, D, J, A)
           /\ r \in B => Apart(F, B \ {r}, D, J, A)
<1>1. /\ D[w] = {r} /\ \A v \in Workers \ {w} : D[v] = C[v]
  OBVIOUS
<1>2. r \in F => Apart(F \ {r}, B, D, J, A)
  BY <1>1 DEF Apart
<1>3. r \in B => Apart(F, B \ {r}, D, J, A)
  BY <1>1 DEF Apart
<1> QED BY <1>2, <1>3

\* A worker receives what is in its channel, and when it has run it nobody has it.
LEMMA ApartTake ==
    ASSUME NEW F, NEW B, NEW C \in [Workers -> SUBSET Runners], NEW J \in [Workers -> SUBSET Runners],
           NEW A, Apart(F, B, C, J, A), NEW w \in Workers, J[w] = {},
           NEW D, D = [C EXCEPT ![w] = {}], NEW K, K = [J EXCEPT ![w] = C[w]]
    PROVE  Apart(F, B, D, K, A)
<1>1. /\ D[w] = {} /\ \A v \in Workers \ {w} : D[v] = C[v]
      /\ K[w] = C[w] /\ \A v \in Workers \ {w} : K[v] = J[v]
  OBVIOUS
<1> QED BY <1>1 DEF Apart

\* A job that is run leaves its worker and the accepted ones together.
LEMMA ApartRun ==
    ASSUME NEW F, NEW B, NEW C, NEW J \in [Workers -> SUBSET Runners], NEW A,
           Apart(F, B, C, J, A), NEW w \in Workers, NEW K, K = [J EXCEPT ![w] = {}]
    PROVE  Apart(F, B, C, K, A \ J[w])
<1>1. /\ K[w] = {} /\ \A v \in Workers \ {w} : K[v] = J[v]
  OBVIOUS
<1> QED BY <1>1 DEF Apart

Accepted == {r \in Runners : st[r] = "accepted"}
ChanIn == [w \in Workers |-> ToSet(fChan[w])]

PoolLinked == WellLinked(fTasks) /\ WellLinked(bossChan)

PoolWorkers ==
    \A w \in Workers : /\ wpc[w] # "run" => job[w] = {}
                       /\ wpc[w] \in {"none", "dead", "run"} => fChan[w] = <<>>

PoolApart == Apart(ToSet(fTasks), ToSet(bossChan), ChanIn, job, Accepted)

PoolInv == Pool!TaskThreadTypeOK /\ Pool!IdleReady /\ PoolLinked /\ PoolWorkers /\ PoolApart

\* The parts of the type invariant, by who changes them.
PoolThread == threadState \in {"init", "running"} /\ fBoss \in BOOLEAN
PoolQueues ==
    /\ fTasks \in Seq(Runners) /\ bossChan \in Seq(Runners) /\ Len(bossChan) <= ChanSize
    /\ bpc \in {"none", "poll", "recv", "asleep"}
PoolTasks ==
    /\ wpc \in [Workers -> {"none", "recv", "asleep", "back", "run", "dead"}]
    /\ fChan \in [Workers -> Seq(Runners)] /\ \A w \in Workers : Len(fChan[w]) <= 1
    /\ fIdleWorkers \in SUBSET Workers
    /\ job \in [Workers -> SUBSET Runners]
PoolStates == st \in [Runners -> {"new", "accepted", "refused", "crashed", "ran"}]

\* The type invariant in parts.
LEMMA PoolTypes ==
    Pool!TaskThreadTypeOK <=> PoolThread /\ PoolQueues /\ PoolTasks /\ PoolStates
BY DEF Pool!TaskThreadTypeOK, PoolThread, PoolQueues, PoolTasks, PoolStates

\* The same after a step.
LEMMA PoolTypesNext ==
    Pool!TaskThreadTypeOK' <=> PoolThread' /\ PoolQueues' /\ PoolTasks' /\ PoolStates'
BY DEF Pool!TaskThreadTypeOK, PoolThread, PoolQueues, PoolTasks, PoolStates

\* What is in the channel of a worker.
LEMMA PoolChan ==
    ASSUME PoolTasks
    PROVE  /\ ChanIn \in [Workers -> SUBSET Runners]
           /\ \A w \in Workers : fChan[w] = <<>> => ChanIn[w] = {}
           /\ \A w \in Workers : fChan[w] # <<>> => ChanIn[w] = {Head(fChan[w])} /\ Head(fChan[w]) \in Runners
           /\ \A w \in Workers : \A r \in Runners : fChan[w] = <<r>> <=> r \in ChanIn[w]
<1> SUFFICES ASSUME NEW w \in Workers
             PROVE  /\ ToSet(fChan[w]) \in SUBSET Runners
                    /\ fChan[w] = <<>> => ToSet(fChan[w]) = {}
                    /\ fChan[w] # <<>> => ToSet(fChan[w]) = {Head(fChan[w])} /\ Head(fChan[w]) \in Runners
                    /\ \A r \in Runners : fChan[w] = <<r>> <=> r \in ToSet(fChan[w])
  BY DEF ChanIn
<1> DEFINE s == fChan[w]
<1>1. s \in Seq(Runners) /\ Len(s) <= 1 /\ Len(s) \in Nat /\ DOMAIN s = 1 .. Len(s)
  BY DEF PoolTasks
<1> HIDE DEF s
<1>2. CASE s = <<>>
  BY <1>2 DEF ToSet, s
<1>3. CASE s # <<>>
  <2>1. Len(s) = 1
    BY <1>1, <1>3
  <2>2. ToSet(s) = {s[1]} /\ Head(s) = s[1] /\ s[1] \in Runners
    <3>1. DOMAIN s = {1}
      BY <1>1, <2>1
    <3>2. ToSet(s) = {s[1]}
      BY <3>1 DEF ToSet
    <3>3. Head(s) = s[1] /\ s[1] \in Runners
      BY <1>1, <2>1, <1>3
    <3> QED BY <3>2, <3>3
  <2>3. s = <<s[1]>>
    BY <1>1, <2>1
  <2>4. \A r \in Runners : s = <<r>> <=> r = s[1]
    BY <2>3
  <2> QED BY <1>3, <2>2, <2>4 DEF s
<1> QED BY <1>2, <1>3

\* No runner, no worker.
LEMMA PoolInit == Pool!Init => PoolInv
<1> SUFFICES ASSUME Pool!Init PROVE PoolInv
  OBVIOUS
<1>1. PoolThread
  BY DEF Pool!Init, PoolThread
<1>2. PoolQueues /\ PoolStates
  BY SyncAssumption DEF Pool!Init, PoolQueues, PoolStates, Pool!TaskThreadAssumption
<1>3. PoolTasks
  BY DEF Pool!Init, PoolTasks
<1>4. Pool!IdleReady /\ PoolWorkers
  BY DEF Pool!Init, Pool!IdleReady, PoolWorkers
<1>5. PoolLinked /\ ToSet(fTasks) = {} /\ ToSet(bossChan) = {}
  BY EmptyList DEF Pool!Init, PoolLinked, list_init
<1>6. ChanIn = [w \in Workers |-> {}] /\ Accepted = {}
  BY EmptyList DEF Pool!Init, ChanIn, Accepted, list_init
<1>7. PoolApart
  BY <1>5, <1>6 DEF Pool!Init, PoolApart, Apart
<1> QED BY <1>1, <1>2, <1>3, <1>4, <1>5, <1>7, PoolTypes DEF PoolInv

\* The steps that move no runner.
LEMMA PoolQuiet ==
    ASSUME PoolInv, PoolThread', bpc' \in {"none", "poll", "recv", "asleep"},
           UNCHANGED <<fTasks, bossChan, fChan, job, st>>, fIdleWorkers' \in SUBSET fIdleWorkers,
           NEW w, NEW p \in {"asleep", "back", "dead"},
           \/ wpc' = wpc
           \/ /\ w \in Workers /\ wpc[w] \in {"recv", "asleep", "back"}
              /\ wpc' = [wpc EXCEPT ![w] = p]
              /\ p = "dead" => fChan[w] = <<>> /\ w \notin fIdleWorkers'
    PROVE  PoolInv'
<1> USE DEF PoolInv
<1>0. PoolQueues /\ PoolTasks /\ PoolStates
  BY PoolTypes
<1>1. PoolQueues' /\ PoolStates'
  BY <1>0 DEF PoolQueues, PoolStates
<1>2. PoolTasks'
  BY <1>0 DEF PoolTasks
<1>3. Pool!IdleReady'
  BY <1>0 DEF PoolTasks, Pool!IdleReady
<1>4. PoolWorkers'
  BY <1>0 DEF PoolTasks, PoolWorkers
<1>5. PoolLinked' /\ PoolApart'
  BY DEF PoolLinked, PoolApart, ChanIn, Accepted
<1> QED BY <1>1, <1>2, <1>3, <1>4, <1>5, PoolTypesNext

\* submit(): a new runner is refused, or goes to the end of one of the queues.
LEMMA PoolSubmit ==
    ASSUME PoolInv, NEW r \in Runners, Pool!submitByTask(r) \/ Pool!submitByThread(r)
    PROVE  PoolInv'
<1> USE DEF PoolInv
<1>0. PoolThread /\ PoolQueues /\ PoolTasks /\ PoolStates
  BY PoolTypes
<1>1. st[r] = "new" /\ r \notin Accepted
  BY DEF Pool!submitByTask, Pool!submitByThread, Accepted
<1>2. PoolThread' /\ PoolTasks' /\ UNCHANGED <<wpc, fChan, fIdleWorkers, job>>
  BY <1>0 DEF Pool!submitByTask, Pool!submitByThread, Pool!tvars, Pool!wvars, PoolThread, PoolTasks
<1>3. Pool!IdleReady' /\ PoolWorkers' /\ ChanIn' = ChanIn
  BY <1>2 DEF Pool!IdleReady, PoolWorkers, ChanIn
<1>4. bpc' \in {"none", "poll", "recv", "asleep"}
  BY <1>0 DEF Pool!submitByTask, Pool!submitByThread, PoolQueues
<1>5. CASE \E o \in {"refused", "crashed"} : /\ st' = [st EXCEPT ![r] = o]
                                             /\ UNCHANGED <<fTasks, bossChan>>
  <2>1. PoolStates' /\ Accepted' = Accepted
    BY <1>0, <1>1, <1>5 DEF PoolStates, Accepted
  <2>2. PoolQueues' /\ PoolLinked'
    BY <1>0, <1>4, <1>5 DEF PoolQueues, PoolLinked
  <2>3. PoolApart'
    BY <1>2, <1>3, <1>5, <2>1 DEF PoolApart
  <2> QED BY <1>2, <1>3, <2>1, <2>2, <2>3, PoolTypesNext
<1>6. CASE st' = [st EXCEPT ![r] = "accepted"]
  <2>1. PoolStates' /\ Accepted' = Accepted \cup {r}
    BY <1>0, <1>6 DEF PoolStates, Accepted
  <2>2. CASE Len(bossChan) < ChanSize /\ bossChan' = Append(bossChan, r) /\ UNCHANGED fTasks
    <3>1. bossChan \in Seq(Runners) /\ fTasks \in Seq(Runners)
      BY <1>0 DEF PoolQueues
    <3>2. r \notin ToSet(bossChan)
      BY <1>1 DEF PoolApart, Apart
    <3>3. /\ bossChan' \in Seq(Runners) /\ ToSet(bossChan') = ToSet(bossChan) \cup {r}
          /\ WellLinked(bossChan')
      BY <2>2, <3>1, <3>2, AddLast DEF list_add_before, PoolLinked
    <3>4. Len(bossChan') <= ChanSize
      BY <2>2, <3>1, SyncAssumption DEF Pool!TaskThreadAssumption
    <3>5. PoolQueues' /\ PoolLinked'
      BY <1>4, <2>2, <3>1, <3>3, <3>4 DEF PoolQueues, PoolLinked
    <3>6. PoolApart'
      <4>1. Apart(ToSet(fTasks), ToSet(bossChan) \cup {r}, ChanIn, job, Accepted \cup {r})
        BY <1>1, ApartAccept DEF PoolApart
      <4> QED BY <1>2, <1>3, <2>1, <2>2, <3>3, <4>1 DEF PoolApart
    <3> QED BY <1>2, <1>3, <2>1, <3>5, <3>6, PoolTypesNext
  <2>3. CASE fTasks' = Append(fTasks, r) /\ UNCHANGED bossChan
    <3>1. bossChan \in Seq(Runners) /\ fTasks \in Seq(Runners)
      BY <1>0 DEF PoolQueues
    <3>2. r \notin ToSet(fTasks)
      BY <1>1 DEF PoolApart, Apart
    <3>3. /\ fTasks' \in Seq(Runners) /\ ToSet(fTasks') = ToSet(fTasks) \cup {r}
          /\ WellLinked(fTasks')
      BY <2>3, <3>1, <3>2, AddLast DEF list_add_before, PoolLinked
    <3>4. PoolQueues' /\ PoolLinked'
      BY <1>0, <1>4, <2>3, <3>1, <3>3 DEF PoolQueues, PoolLinked
    <3>5. PoolApart'
      <4>1. Apart(ToSet(fTasks) \cup {r}, ToSet(bossChan), ChanIn, job, Accepted \cup {r})
        BY <1>1, ApartAccept DEF PoolApart
      <4> QED BY <1>2, <1>3, <2>1, <2>3, <3>3, <4>1 DEF PoolApart
    <3> QED BY <1>2, <1>3, <2>1, <3>4, <3>5, PoolTypesNext
  <2>4. st'[r] = "accepted"
    BY <1>0, <1>6 DEF PoolStates
  <2> QED BY <1>0, <2>2, <2>3, <2>4 DEF PoolStates, Pool!submitByTask, Pool!submitByThread, Pool!Outcome
<1> QED BY <1>5, <1>6 DEF Pool!submitByTask, Pool!submitByThread, Pool!Outcome

\* Dispatch: the runner leaves its queue for the empty channel of a worker that is alive.
LEMMA PoolDispatch ==
    ASSUME PoolInv, NEW r, Pool!Dispatch(r),
           \/ fTasks # <<>> /\ r = Head(fTasks) /\ fTasks' = Tail(fTasks) /\ UNCHANGED bossChan
           \/ bossChan # <<>> /\ r = Head(bossChan) /\ bossChan' = Tail(bossChan) /\ UNCHANGED fTasks
    PROVE  PoolInv'
<1> USE DEF PoolInv
<1>0. PoolThread /\ PoolQueues /\ PoolTasks /\ PoolStates
  BY PoolTypes
<1>1. PICK w \in Workers : /\ \/ wpc[w] = "none" /\ wpc' = [wpc EXCEPT ![w] = "recv"]
                              \/ w \in fIdleWorkers /\ wpc' = [wpc EXCEPT ![w] = Pool!Woken(w)]
                           /\ fIdleWorkers' = fIdleWorkers \ {w}
                           /\ fChan' = [fChan EXCEPT ![w] = Append(@, r)]
                           /\ bpc' = "poll" /\ UNCHANGED <<Pool!tvars, job, st>>
  BY DEF Pool!Dispatch
<1>2. fChan[w] = <<>> /\ wpc[w] # "run"
  BY <1>0, <1>1 DEF Pool!IdleReady, PoolWorkers
<1>3. PICK p \in {"recv", "asleep", "back"} : wpc' = [wpc EXCEPT ![w] = p]
  BY <1>0, <1>1 DEF Pool!IdleReady, Pool!Woken
<1>4. PoolThread' /\ PoolStates' /\ Accepted' = Accepted /\ job' = job
  <2>1. UNCHANGED <<threadState, fBoss, job, st>>
    BY <1>1 DEF Pool!tvars
  <2> QED BY <1>0, <2>1 DEF PoolThread, PoolStates, Accepted
<1>5. /\ r \in Runners
      /\ PoolQueues' /\ PoolLinked'
      /\ \/ /\ r \in ToSet(fTasks) /\ ToSet(fTasks') = ToSet(fTasks) \ {r} /\ UNCHANGED bossChan
         \/ /\ r \in ToSet(bossChan) /\ ToSet(bossChan') = ToSet(bossChan) \ {r} /\ UNCHANGED fTasks
  <2>1. CASE fTasks # <<>> /\ r = Head(fTasks) /\ fTasks' = Tail(fTasks) /\ UNCHANGED bossChan
    <3>1. /\ r \in Runners /\ r \in ToSet(fTasks) /\ fTasks' \in Seq(Runners)
          /\ ToSet(fTasks) = ToSet(fTasks') \cup {r}
          /\ WellLinked(fTasks') /\ r \notin ToSet(fTasks')
      BY <1>0, <2>1, TakeFirst DEF list_empty, list_next, PoolLinked, PoolQueues
    <3>2. PoolQueues' /\ PoolLinked'
      BY <1>0, <1>1, <2>1, <3>1 DEF PoolQueues, PoolLinked
    <3> QED BY <2>1, <3>1, <3>2
  <2>2. CASE bossChan # <<>> /\ r = Head(bossChan) /\ bossChan' = Tail(bossChan) /\ UNCHANGED fTasks
    <3>1. /\ r \in Runners /\ r \in ToSet(bossChan) /\ bossChan' \in Seq(Runners)
          /\ ToSet(bossChan) = ToSet(bossChan') \cup {r}
          /\ WellLinked(bossChan') /\ r \notin ToSet(bossChan')
      BY <1>0, <2>2, TakeFirst DEF list_empty, list_next, PoolLinked, PoolQueues
    <3>2. Len(bossChan') <= ChanSize
      BY <1>0, <2>2, SyncAssumption DEF PoolQueues, Pool!TaskThreadAssumption
    <3>3. PoolQueues' /\ PoolLinked'
      BY <1>0, <1>1, <2>2, <3>1, <3>2 DEF PoolQueues, PoolLinked
    <3> QED BY <2>2, <3>1, <3>3
  <2> QED BY <2>1, <2>2
<1>6. fChan' = [fChan EXCEPT ![w] = <<r>>]
  <2>1. Append(<<>>, r) = <<r>>
    BY <1>5
  <2> QED BY <1>0, <1>1, <1>2, <2>1 DEF PoolTasks
<1>7. PoolTasks'
  <2>1. <<r>> \in Seq(Runners) /\ Len(<<r>>) = 1
    BY <1>5
  <2> QED BY <1>0, <1>1, <1>3, <1>4, <1>6, <2>1 DEF PoolTasks
<1>8. Pool!IdleReady' /\ PoolWorkers'
  BY <1>0, <1>1, <1>2, <1>3, <1>4, <1>6 DEF PoolTasks, Pool!IdleReady, PoolWorkers
<1>9. ChanIn' = [ChanIn EXCEPT ![w] = {r}]
  <2>1. ToSet(<<r>>) = {r}
    BY DEF ToSet
  <2> QED BY <1>0, <1>6, <2>1 DEF ChanIn, PoolTasks
<1>10. PoolApart'
  <2>1. ChanIn \in [Workers -> SUBSET Runners] /\ ChanIn[w] = {}
    BY <1>0, <1>2, PoolChan
  <2>2. /\ r \in ToSet(fTasks) => Apart(ToSet(fTasks) \ {r}, ToSet(bossChan), ChanIn', job, Accepted)
        /\ r \in ToSet(bossChan) => Apart(ToSet(fTasks), ToSet(bossChan) \ {r}, ChanIn', job, Accepted)
    BY <1>5, <1>9, <2>1, ApartHandOver DEF PoolApart
  <2> QED BY <1>4, <1>5, <2>2 DEF PoolApart
<1> QED BY <1>4, <1>5, <1>7, <1>8, <1>10, PoolTypesNext

\* A worker takes the runner out of its channel, and rests when it has run it.
LEMMA PoolWork ==
    ASSUME PoolInv, NEW w \in Workers,
           (fChan[w] # <<>> /\ Pool!Take(w)) \/ Pool!workerRest(w)
    PROVE  PoolInv'
<1> USE DEF PoolInv
<1>0. PoolThread /\ PoolQueues /\ PoolTasks /\ PoolStates
  BY PoolTypes
<1>1. PoolThread' /\ PoolQueues' /\ PoolLinked' /\ UNCHANGED <<fTasks, bossChan>>
  <2>1. UNCHANGED <<threadState, fBoss, fTasks, bossChan, bpc>>
    BY DEF Pool!Take, Pool!workerRest, Pool!tvars, Pool!bvars
  <2> QED BY <1>0, <2>1 DEF PoolThread, PoolQueues, PoolLinked
<1>2. CASE fChan[w] # <<>> /\ Pool!Take(w)
  <2> DEFINE h == Head(fChan[w])
  <2>1. /\ wpc' = [wpc EXCEPT ![w] = "run"] /\ job' = [job EXCEPT ![w] = {h}]
        /\ fChan' = [fChan EXCEPT ![w] = <<>>] /\ UNCHANGED <<fIdleWorkers, st>>
    BY <1>2 DEF Pool!Take
  <2>2. /\ ChanIn \in [Workers -> SUBSET Runners] /\ ChanIn[w] = {h} /\ h \in Runners
    BY <1>0, <1>2, PoolChan
  <2> HIDE DEF h
  <2>3. job[w] = {} /\ w \notin fIdleWorkers
    BY <1>0, <1>2 DEF PoolWorkers, Pool!IdleReady
  <2>4. PoolTasks' /\ PoolStates' /\ Accepted' = Accepted
    BY <1>0, <2>1, <2>2 DEF PoolTasks, PoolStates, Accepted
  <2>5. Pool!IdleReady' /\ PoolWorkers'
    BY <1>0, <2>1, <2>3 DEF PoolTasks, Pool!IdleReady, PoolWorkers
  <2>6. ChanIn' = [ChanIn EXCEPT ![w] = {}]
    <3>1. ToSet(<<>>) = {}
      BY DEF ToSet
    <3> QED BY <1>0, <2>1, <3>1 DEF ChanIn, PoolTasks
  <2>7. PoolApart'
    <3>1. job' = [job EXCEPT ![w] = ChanIn[w]] /\ job \in [Workers -> SUBSET Runners]
      BY <1>0, <2>1, <2>2 DEF PoolTasks
    <3>2. Apart(ToSet(fTasks), ToSet(bossChan), ChanIn', job', Accepted)
      BY <2>2, <2>3, <2>6, <3>1, ApartTake DEF PoolApart
    <3> QED BY <1>1, <2>4, <3>2 DEF PoolApart
  <2> QED BY <1>1, <2>4, <2>5, <2>7, PoolTypesNext
<1>3. CASE Pool!workerRest(w)
  <2>1. /\ wpc[w] = "run" /\ wpc' = [wpc EXCEPT ![w] = "recv"]
        /\ st' = [r \in Runners |-> IF r \in job[w] THEN "ran" ELSE st[r]]
        /\ job' = [job EXCEPT ![w] = {}] /\ fIdleWorkers' = fIdleWorkers \cup {w}
        /\ fChan' = fChan
    BY <1>3 DEF Pool!workerRest
  <2>2. PoolTasks' /\ PoolStates' /\ ChanIn' = ChanIn
    BY <1>0, <2>1 DEF PoolTasks, PoolStates, ChanIn
  <2>3. Accepted' = Accepted \ job[w]
    BY <1>0, <2>1 DEF PoolStates, Accepted
  <2>4. Pool!IdleReady' /\ PoolWorkers'
    BY <1>0, <2>1 DEF PoolTasks, Pool!IdleReady, PoolWorkers
  <2>5. PoolApart'
    <3>1. job \in [Workers -> SUBSET Runners]
      BY <1>0 DEF PoolTasks
    <3>2. Apart(ToSet(fTasks), ToSet(bossChan), ChanIn, job', Accepted \ job[w])
      BY <2>1, <3>1, ApartRun DEF PoolApart
    <3> QED BY <1>1, <2>2, <2>3, <3>2 DEF PoolApart
  <2> QED BY <1>1, <2>2, <2>4, <2>5, PoolTypesNext
<1> QED BY <1>2, <1>3

\* Every step keeps PoolInv.
LEMMA PoolNext == PoolInv /\ [Pool!Next]_poolVars => PoolInv'
<1> SUFFICES ASSUME PoolInv, [Pool!Next]_poolVars PROVE PoolInv'
  OBVIOUS
<1> USE DEF Pool!tvars, Pool!bvars, Pool!wvars
<1>0. PoolThread /\ PoolQueues /\ PoolTasks
  BY PoolTypes DEF PoolInv
<1>1. CASE UNCHANGED poolVars
  <2>1. PoolThread' /\ bpc' \in {"none", "poll", "recv", "asleep"}
    BY <1>0, <1>1 DEF poolVars, PoolThread, PoolQueues
  <2>2. UNCHANGED <<fTasks, bossChan, fChan, job, st>> /\ fIdleWorkers' \in SUBSET fIdleWorkers
        /\ wpc' = wpc
    BY <1>1 DEF poolVars
  <2> QED BY <2>1, <2>2, PoolQuiet
<1>2. CASE Pool!_thread_run \/ Pool!run \/ Pool!sched
  <2>1. fBoss' \in BOOLEAN
    BY <1>0, <1>2 DEF PoolThread, Pool!_thread_run, Pool!run, Pool!sched, Pool!tvars, Pool!bvars, Pool!wvars
  <2>2. threadState' \in {"init", "running"} /\ bpc' \in {"none", "poll", "recv", "asleep"}
    BY <1>0, <1>2 DEF PoolThread, PoolQueues, Pool!_thread_run, Pool!run, Pool!sched, Pool!tvars, Pool!bvars, Pool!wvars
  <2>3. UNCHANGED <<fTasks, bossChan, fChan, job, st>> /\ fIdleWorkers' \in SUBSET fIdleWorkers
        /\ wpc' = wpc
    BY <1>2 DEF Pool!_thread_run, Pool!run, Pool!sched, Pool!tvars, Pool!bvars, Pool!wvars
  <2>4. PoolThread'
    BY <2>1, <2>2 DEF PoolThread
  <2> QED BY <2>2, <2>3, <2>4, PoolQuiet
<1>3. CASE Pool!BossStep
  <2>1. CASE \E r : /\ Pool!Dispatch(r)
                    /\ \/ fTasks # <<>> /\ r = Head(fTasks) /\ fTasks' = Tail(fTasks) /\ UNCHANGED bossChan
                       \/ bossChan # <<>> /\ r = Head(bossChan) /\ bossChan' = Tail(bossChan) /\ UNCHANGED fTasks
    BY <2>1, PoolDispatch
  <2>2. CASE /\ bpc' \in {"recv", "asleep"}
             /\ UNCHANGED <<Pool!tvars, fTasks, bossChan, Pool!wvars, st>>
    <3>1. PoolThread'
      BY <1>0, <2>2 DEF PoolThread
    <3>2. /\ UNCHANGED <<fTasks, bossChan, fChan, job, st>> /\ fIdleWorkers' \in SUBSET fIdleWorkers
          /\ wpc' = wpc
      BY <2>2
    <3> QED BY <2>2, <3>1, <3>2, PoolQuiet
  <2> QED BY <1>3, <2>1, <2>2 DEF Pool!BossStep, Pool!bossPoll, Pool!bossRecv
<1>4. ASSUME NEW w \in Workers, Pool!WorkerStep(w) \/ Pool!KeepAliveTimer(w) PROVE PoolInv'
  <2>1. CASE (fChan[w] # <<>> /\ Pool!Take(w)) \/ Pool!workerRest(w)
    BY <2>1, PoolWork
  <2>2. CASE \E p \in {"asleep", "back", "dead"} :
               /\ wpc[w] \in {"recv", "asleep", "back"} /\ wpc' = [wpc EXCEPT ![w] = p]
               /\ p = "dead" => fChan[w] = <<>> /\ w \notin fIdleWorkers'
               /\ fIdleWorkers' \in SUBSET fIdleWorkers
               /\ UNCHANGED <<Pool!tvars, Pool!bvars, fChan, job, st>>
    <3>1. PoolThread' /\ bpc' \in {"none", "poll", "recv", "asleep"}
      BY <1>0, <2>2 DEF PoolThread, PoolQueues
    <3> QED BY <2>2, <3>1, PoolQuiet
  <2> QED BY <1>4, <2>1, <2>2 DEF Pool!WorkerStep, Pool!workerRecv, Pool!workerDies, Pool!KeepAliveTimer
<1> QED BY <1>1, <1>2, <1>3, <1>4, PoolSubmit DEF Pool!Next, Pool!Step

\* Instances keep their own copies of the library's operators.
LEMMA PoolLibrary == \A S : Pool!Cardinality(S) = Cardinality(S)
BY DEF Pool!Cardinality, Cardinality

\* What is nowhere or in one place is there no times or once.
LEMMA CountOnce ==
    ASSUME NEW S, \A x, y \in S : x = y
    PROVE  Cardinality(S) = IF S = {} THEN 0 ELSE 1
<1>1. CASE S = {}
  BY <1>1, FS_EmptySet
<1>2. CASE S # {}
  <2>1. PICK x : S = {x}
    BY <1>2
  <2> QED BY <1>2, <2>1, FS_Singleton
<1> QED BY <1>1, <1>2

\* No runner that a task thread accepted is lost or run twice, for any number of submitters and
\* workers and however the keep-alive timers race the boss's sends, and the workers that the
\* boss finds idle can take a runner at once.
THEOREM RunnersSafe == Spec => []RunnersKept
<1>1. Init => PoolInv
  BY PoolInit DEF Init
<1>2. PoolInv /\ [Next]_allVars => PoolInv'
  BY PoolNext, StepOfParts
<1>3. PoolInv => RunnersKept
  <2> SUFFICES ASSUME PoolInv PROVE RunnersKept
    OBVIOUS
  <2>0. PoolQueues /\ PoolTasks /\ PoolStates
    BY PoolTypes DEF PoolInv
  <2>1. ASSUME NEW r \in Runners
        PROVE  Pool!Occurs(r, fTasks) + Pool!Occurs(r, bossChan) + Pool!InChannels(r) + Pool!Holders(r)
                 = IF st[r] = "accepted" THEN 1 ELSE 0
    <3>1. ASSUME NEW s \in Seq(Runners), WellLinked(s)
          PROVE  Pool!Occurs(r, s) = IF r \in ToSet(s) THEN 1 ELSE 0
      <4> DEFINE P == {i \in DOMAIN s : s[i] = r}
      <4>1. \A x, y \in P : x = y
        BY <3>1 DEF WellLinked, IsInjective
      <4>2. P = {} <=> r \notin ToSet(s)
        BY DEF ToSet
      <4>3. Pool!Occurs(r, s) = Cardinality(P)
        BY PoolLibrary DEF Pool!Occurs
      <4> QED BY <4>1, <4>2, <4>3, CountOnce
    <3> DEFINE C == {w \in Workers : fChan[w] = <<r>>}
               J == {w \in Workers : r \in job[w]}
    <3>2. C = {w \in Workers : r \in ChanIn[w]}
      BY <2>0, PoolChan
    <3>3. (\A x, y \in C : x = y) /\ (\A x, y \in J : x = y)
      BY <3>2 DEF PoolInv, PoolApart, Apart
    <3>4. /\ Pool!InChannels(r) = IF C = {} THEN 0 ELSE 1
          /\ Pool!Holders(r) = IF J = {} THEN 0 ELSE 1
      BY <3>3, CountOnce, PoolLibrary DEF Pool!InChannels, Pool!Holders
    <3>5. /\ Pool!Occurs(r, fTasks) = IF r \in ToSet(fTasks) THEN 1 ELSE 0
          /\ Pool!Occurs(r, bossChan) = IF r \in ToSet(bossChan) THEN 1 ELSE 0
      BY <2>0, <3>1 DEF PoolInv, PoolLinked, PoolQueues
    <3>6. /\ st[r] = "accepted" <=> r \in ToSet(fTasks) \/ r \in ToSet(bossChan) \/ C # {} \/ J # {}
          /\ r \in ToSet(fTasks) => r \notin ToSet(bossChan) /\ C = {} /\ J = {}
          /\ r \in ToSet(bossChan) => C = {} /\ J = {}
          /\ C # {} => J = {}
      BY <3>2 DEF PoolInv, PoolApart, Apart, Accepted
    <3> QED BY <3>4, <3>5, <3>6
  <2>2. ASSUME NEW w \in Workers, wpc[w] \in {"none", "dead"} PROVE fChan[w] = <<>> /\ job[w] = {}
    BY <2>2 DEF PoolInv, PoolWorkers
  <2>3. Pool!RunnerKept
    BY <2>1, <2>2 DEF Pool!RunnerKept
  <2> QED BY <2>3 DEF PoolInv, RunnersKept
<1> QED BY <1>1, <1>2, <1>3, PTL DEF Spec

=============================================================================
