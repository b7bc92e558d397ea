------------------------------- MODULE Future -------------------------------
(***************************************************************************)
(* thread/Future.h: run() computes a result under a mutex and signals one  *)
(* waiter; get() looks at the flag without the mutex first.  Threads other *)
(* than the runner call get() at any time.  The two stores of run() are    *)
(* seen in program order: the flag is volatile and x86 keeps the order of  *)
(* stores.                                                                 *)
(***************************************************************************)
EXTENDS Naturals, FiniteSets

CONSTANTS
    Getters,    \* the threads that call get()
    Runner,     \* the thread that calls run()
    Nobody,     \* the mutex is free
    MaxSpurious \* bound on the wake-ups without a signal

FutureAssumption == Runner \notin Getters /\ Nobody \notin Getters \cup {Runner} /\ MaxSpurious \in Nat

VARIABLES
    fMutex,     \* who holds it
    bFinished,
    fResult,    \* the result has been assigned
    asleep,     \* the getters in pthread_cond_wait
    pc,         \* program counter of the getters
    got,        \* the getters that returned a result that had been assigned
    rpc,        \* program counter of the runner
    left,       \* the getters that were asleep when run() signalled and were not woken
    spurious    \* wake-ups without a signal

vars == <<fMutex, bFinished, fResult, asleep, pc, got, rpc, left, spurious>>

Init ==
    /\ fMutex = Nobody /\ bFinished = FALSE /\ fResult = FALSE /\ asleep = {}
    /\ pc = [g \in Getters |-> "get"] /\ got = {} /\ rpc = "lock" /\ left = 0 /\ spurious = 0

At(g, p, q) == pc[g] = p /\ pc' = [pc EXCEPT ![g] = q]

\* get() without the mutex: either the result is there, or wait() is called.
get(g) ==
    /\ IF bFinished THEN At(g, "get", "return") ELSE At(g, "get", "lock")
    /\ UNCHANGED <<fMutex, bFinished, fResult, asleep, got, rpc, left, spurious>>

\* The mutex is taken, by LockGuard or by pthread_cond_wait on its way out.
Lock(g) ==
    /\ fMutex = Nobody /\ At(g, "lock", "loop") /\ fMutex' = g
    /\ UNCHANGED <<bFinished, fResult, asleep, got, rpc, left, spurious>>

\* The loop of wait(): the flag is looked at under the mutex.
wait(g) ==
    /\ fMutex = g /\ fMutex' = Nobody
    /\ IF bFinished THEN At(g, "loop", "return") /\ UNCHANGED asleep
                    ELSE At(g, "loop", "asleep") /\ asleep' = asleep \cup {g}
    /\ UNCHANGED <<bFinished, fResult, got, rpc, left, spurious>>

\* A waiter comes out of pthread_cond_wait: signalled, or for no reason at all.
Awakes(g) ==
    /\ At(g, "asleep", "lock") /\ asleep' = asleep \ {g}
    /\ UNCHANGED <<fMutex, bFinished, fResult, got, rpc, left>>

Signalled(g) == g \notin asleep /\ Awakes(g) /\ UNCHANGED spurious

Spurious(g) ==
    g \in asleep /\ Awakes(g) /\ spurious < MaxSpurious /\ spurious' = spurious + 1

Return(g) ==
    /\ At(g, "return", "done") /\ got' = IF fResult THEN got \cup {g} ELSE got
    /\ UNCHANGED <<fMutex, bFinished, fResult, asleep, rpc, left, spurious>>

RunLock ==
    /\ rpc = "lock" /\ fMutex = Nobody /\ fMutex' = Runner /\ rpc' = "call"
    /\ UNCHANGED <<bFinished, fResult, asleep, pc, got, left, spurious>>

\* The result is assigned, and then the flag.
Call ==
    \/ /\ rpc = "call" /\ fResult' = TRUE /\ rpc' = "flag"
       /\ UNCHANGED <<fMutex, bFinished, asleep, pc, got, left, spurious>>
    \/ /\ rpc = "flag" /\ bFinished' = TRUE /\ rpc' = "notify"
       /\ UNCHANGED <<fMutex, fResult, asleep, pc, got, left, spurious>>

\* One waiter is signalled and the mutex released.
notify ==
    /\ rpc = "notify" /\ rpc' = "done" /\ fMutex' = Nobody
    /\ IF asleep = {} THEN UNCHANGED <<asleep, left>>
       ELSE \E g \in asleep : asleep' = asleep \ {g} /\ left' = Cardinality(asleep) - 1
    /\ UNCHANGED <<bFinished, fResult, pc, got, spurious>>

Getting(g) == get(g) \/ Lock(g) \/ wait(g) \/ Signalled(g) \/ Return(g)

Running == RunLock \/ Call \/ notify

Next == Running \/ \E g \in Getters : Getting(g) \/ Spurious(g)

\* Threads run.  Nothing is assumed of who gets the mutex: only wake-ups without a signal
\* could take it again and again, and they are bounded.
Spec ==
    /\ Init /\ [][Next]_vars
    /\ \A g \in Getters : WF_vars(Getting(g))
    /\ WF_vars(Running)

-----------------------------------------------------------------------------
\* get() never returns before the result is there, though it looks at the flag without the
\* mutex.
GotResult == \A g \in Getters : pc[g] = "done" => g \in got

\* Every get() returns, unless two or more threads were asleep when run() signalled: it
\* wakes one of them, and nobody ever wakes the others.
GetReturns == <>(\A g \in Getters : pc[g] = "done" \/ (left > 0 /\ pc[g] = "asleep"))

=============================================================================
