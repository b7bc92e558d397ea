----------------------------- MODULE Singleton -----------------------------
(***************************************************************************)
(* base/Singleton.h: the instance is built by the first getInstance(),     *)
(* under a spin lock that is only taken when the unlocked look at the      *)
(* pointer finds nothing.  Task::await() reaches the thread pool this way  *)
(* from any thread.  destory() does not compile for a shared_ptr and is    *)
(* never instantiated.  A new pointer is seen after what it points to:     *)
(* x86 keeps the order of stores.                                          *)
(***************************************************************************)
EXTENDS Naturals

CONSTANTS
    Threads,    \* the threads that call getInstance()
    MaxCalls,   \* bound: calls of a thread
    Nobody      \* the spin lock is free

SingletonAssumption == Nobody \notin Threads /\ MaxCalls \in Nat

VARIABLES
    pInstance,  \* 0, or the number of the instance
    built,      \* instances constructed
    destroyed,  \* instances the shared_ptr released
    spinLock,   \* who holds it
    pc,         \* program counters
    calls,      \* calls begun by each thread
    held        \* the pointers each thread was given

vars == <<pInstance, built, destroyed, spinLock, pc, calls, held>>

Init ==
    /\ pInstance = 0 /\ built = 0 /\ destroyed = {} /\ spinLock = Nobody
    /\ pc = [t \in Threads |-> "idle"] /\ calls = [t \in Threads |-> 0]
    /\ held = [t \in Threads |-> {}]

At(t, p, q) == pc[t] = p /\ pc' = [pc EXCEPT ![t] = q]

\* The look without the lock.
getInstance(t) ==
    /\ calls[t] < MaxCalls /\ calls' = [calls EXCEPT ![t] = @ + 1]
    /\ At(t, "idle", IF pInstance = 0 THEN "lock" ELSE "return")
    /\ UNCHANGED <<pInstance, built, destroyed, spinLock, held>>

SpinLock(t) ==
    /\ spinLock = Nobody /\ spinLock' = t /\ At(t, "lock", "look")
    /\ UNCHANGED <<pInstance, built, destroyed, calls, held>>

\* Mutant of Look: the pointer is not looked at again.
LookOnce(t) ==
    /\ At(t, "look", "build")
    /\ UNCHANGED <<pInstance, built, destroyed, spinLock, calls, held>>

\* The look with the lock.
Look(t) ==
    /\ At(t, "look", IF pInstance = 0 THEN "build" ELSE "unlock")
    /\ UNCHANGED <<pInstance, built, destroyed, spinLock, calls, held>>

\* new T(): the instance of this construction has the number of the construction.
Build(t) ==
    /\ At(t, "build", "assign") /\ built' = built + 1
    /\ UNCHANGED <<pInstance, destroyed, spinLock, calls, held>>

\* The shared_ptr is assigned, and releases what it had.
Assign(t) ==
    /\ At(t, "assign", "unlock") /\ pInstance' = built
    /\ destroyed' = destroyed \cup ({pInstance} \ {0})
    /\ UNCHANGED <<built, spinLock, calls, held>>

Unlock(t) ==
    /\ spinLock' = Nobody /\ At(t, "unlock", "return")
    /\ UNCHANGED <<pInstance, built, destroyed, calls, held>>

\* The pointer is read once more, without the lock.
Return(t) ==
    /\ At(t, "return", "idle") /\ held' = [held EXCEPT ![t] = @ \cup {pInstance}]
    /\ UNCHANGED <<pInstance, built, destroyed, spinLock, calls>>

Step(t) == getInstance(t) \/ SpinLock(t) \/ Look(t) \/ Build(t) \/ Assign(t) \/ Unlock(t) \/ Return(t)

Next == \E t \in Threads : Step(t)

\* Threads run; nothing is assumed of who gets the spin lock, as calls are bounded.
Spec == Init /\ [][Next]_vars /\ \A t \in Threads : WF_vars(Step(t))

-----------------------------------------------------------------------------
\* Whatever a thread was given is the one instance, was there when it was given, and is not
\* destroyed under it by another thread's first call.
OneInstance ==
    \A s, t \in Threads : \A p \in held[s], q \in held[t] : p = q /\ p # 0 /\ p \notin destroyed

\* No call of getInstance() spins for ever, the ones that lost the race included.
EveryCallReturns == []<>(\A t \in Threads : pc[t] = "idle")

=============================================================================
