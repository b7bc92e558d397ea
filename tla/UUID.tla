-------------------------------- MODULE UUID --------------------------------
(***************************************************************************)
(* util/UUID.h: ids made of the time in milliseconds, the thread and a     *)
(* sequence number, from two variables that all threads share without a    *)
(* lock: every access of them is a step.  In the code TimeShift = 22,      *)
(* TidShift = 12 and SEQUENCE_MASK is 2^13 - 1.  The clock is the wall     *)
(* clock, which can be set back.                                           *)
(***************************************************************************)
EXTENDS Integers, FiniteSets

CONSTANTS
    Crews,      \* sets of threads that may call get(), by the numbers that tid() gives
    SEQUENCE_MASK, TidShift, TimeShift,
    MaxClock, MaxCalls

UUIDAssumption ==
    /\ \A crew \in Crews : crew \subseteq Nat /\ IsFiniteSet(crew)
    /\ {SEQUENCE_MASK, TidShift, TimeShift, MaxClock, MaxCalls} \subseteq Nat
    /\ \E n \in 0 .. SEQUENCE_MASK : SEQUENCE_MASK = 2^n - 1

VARIABLES
    tids,               \* the threads of this behaviour; it never changes
    clock,
    LAST_TIME_STAMP, SEQUENCE,
    pc, current, seq,   \* per thread: where it is in get(), its local variable, and the
                        \* value of SEQUENCE that it has loaded
    calls,              \* calls made (bound)
    ids,                \* the ids returned
    repeated,           \* an id was returned twice (history)
    overlapped,         \* two calls of get() were under way at once (history)
    spilt,              \* a number covered bits of another field (history)
    setBack             \* the clock has gone back (history)

shared == <<LAST_TIME_STAMP, SEQUENCE>>
history == <<ids, repeated, overlapped, spilt, setBack>>
vars == <<tids, clock, shared, pc, current, seq, calls, history>>

\* A number as the set of its bits that are 1: a | b is a union, a << k moves every bit.
Bits(n) ==
    LET half[k \in 0 .. n] == IF k = 0 THEN n ELSE half[k - 1] \div 2
    IN  {k \in 0 .. n : half[k] % 2 = 1}
Shift(bits, k) == {b + k : b \in bits}

Places == {"idle", "compare", "load", "increment", "reload", "mask", "check", "till", "zero",
           "store", "return"}

\* SEQUENCE passes the mask inside get(), and by more than one when calls overlap; between
\* calls that never did it is within the mask.
UUIDTypeOK ==
    /\ tids \in Crews /\ clock \in 0 .. MaxClock /\ LAST_TIME_STAMP \in -1 .. MaxClock
    /\ SEQUENCE \in Nat /\ seq \in [tids -> Nat] /\ pc \in [tids -> Places]
    /\ current \in [tids -> 0 .. MaxClock] /\ calls \in 0 .. MaxCalls
    /\ ~overlapped /\ (\A t \in tids : pc[t] = "idle") => SEQUENCE <= SEQUENCE_MASK

Init ==
    /\ tids \in Crews
    /\ clock = 0 /\ LAST_TIME_STAMP = -1 /\ SEQUENCE = 0
    /\ pc = [t \in tids |-> "idle"] /\ current = [t \in tids |-> 0]
    /\ seq = [t \in tids |-> 0] /\ calls = 0 /\ ids = {}
    /\ repeated = FALSE /\ overlapped = FALSE /\ spilt = FALSE /\ setBack = FALSE

\* The clock goes on, or is set back.
Tick ==
    /\ clock' \in 0 .. MaxClock /\ clock' # clock
    /\ clock' > clock => clock' = clock + 1
    /\ setBack' = (setBack \/ clock' < clock)
    /\ UNCHANGED <<tids, shared, pc, current, seq, calls, ids, repeated, overlapped, spilt>>

Goto(t, l) == pc' = [pc EXCEPT ![t] = l]

\* long current = getTimeStamp().
getTimeStamp(t) ==
    /\ pc[t] = "idle" /\ calls * Cardinality(tids) < MaxCalls
    /\ calls' = calls + 1
    /\ current' = [current EXCEPT ![t] = clock]
    /\ Goto(t, "compare")
    /\ overlapped' = (overlapped \/ \E u \in tids : pc[u] # "idle")
    /\ UNCHANGED <<tids, clock, shared, seq, ids, repeated, spilt, setBack>>

\* if (current == LAST_TIME_STAMP).
compare(t) ==
    /\ pc[t] = "compare"
    /\ Goto(t, IF current[t] = LAST_TIME_STAMP THEN "load" ELSE "zero")
    /\ UNCHANGED <<tids, clock, shared, current, seq, calls, history>>

\* SEQUENCE is loaded, for the increment and again for the mask.
load(t) ==
    /\ pc[t] \in {"load", "reload"}
    /\ seq' = [seq EXCEPT ![t] = SEQUENCE]
    /\ Goto(t, IF pc[t] = "load" THEN "increment" ELSE "mask")
    /\ UNCHANGED <<tids, clock, shared, current, calls, history>>

\* The store of ++SEQUENCE.
increment(t) ==
    /\ pc[t] = "increment"
    /\ SEQUENCE' = seq[t] + 1
    /\ Goto(t, "reload")
    /\ UNCHANGED <<tids, clock, LAST_TIME_STAMP, current, seq, calls, history>>

\* The store of the masked value.
mask(t) ==
    /\ pc[t] = "mask"
    /\ SEQUENCE' = seq[t] % (SEQUENCE_MASK + 1)
    /\ Goto(t, "check")
    /\ UNCHANGED <<tids, clock, LAST_TIME_STAMP, current, seq, calls, history>>

\* if (SEQUENCE == 0), read again.
check(t) ==
    /\ pc[t] = "check"
    /\ Goto(t, IF SEQUENCE = 0 THEN "till" ELSE "store")
    /\ UNCHANGED <<tids, clock, shared, current, seq, calls, history>>

\* A new time starts with number 0.
zero(t) ==
    /\ pc[t] = "zero"
    /\ SEQUENCE' = 0
    /\ Goto(t, "store")
    /\ UNCHANGED <<tids, clock, LAST_TIME_STAMP, current, seq, calls, history>>

\* All sequence numbers of this millisecond are used: spin until the clock has moved.
tillNextMillis(t) ==
    /\ pc[t] = "till" /\ clock > current[t]
    /\ current' = [current EXCEPT ![t] = clock]
    /\ Goto(t, "store")
    /\ UNCHANGED <<tids, clock, shared, seq, calls, history>>

store(t) ==
    /\ pc[t] = "store"
    /\ LAST_TIME_STAMP' = current[t]
    /\ Goto(t, "return")
    /\ UNCHANGED <<tids, clock, SEQUENCE, current, seq, calls, history>>

\* (time << TimeShift) | (tid << TidShift) | sequence.
Id(time, tid, sequence) ==
    Shift(Bits(time), TimeShift) \cup Shift(Bits(tid), TidShift) \cup Bits(sequence)

\* The number of the thread or the sequence number covers bits of the time, or the sequence
\* number bits of the thread; one thread alone can bear that where its own bits are 0.
Spills(tid, sequence) ==
    LET T == Shift(Bits(tid), TidShift)  S == Bits(sequence)
    IN  \/ \E b \in T \cup S : b >= TimeShift
        \/ (\E b \in S : b >= TidShift) /\ (tids # {tid} \/ S \cap T # {})

\* The id, with the sequence number that is there now.
get(t) ==
    LET id == Id(current[t], t, SEQUENCE)
    IN  /\ pc[t] = "return"
        /\ ids' = ids \cup {id}
        /\ repeated' = (repeated \/ id \in ids)
        /\ spilt' = (spilt \/ Spills(t, SEQUENCE))
        /\ Goto(t, "idle")
        /\ UNCHANGED <<tids, clock, shared, current, seq, calls, overlapped, setBack>>

Next ==
    \/ Tick
    \/ \E t \in tids : \/ getTimeStamp(t) \/ compare(t) \/ load(t) \/ increment(t) \/ mask(t)
                       \/ check(t) \/ zero(t) \/ tillNextMillis(t) \/ store(t) \/ get(t)

Spec == Init /\ [][Next]_vars

-----------------------------------------------------------------------------
\* An id is never returned twice while calls do not overlap, the clock does not go back and
\* no number covers bits of another.  Each condition is needed: overlapping calls mix up the
\* shared variables, a clock that was set back gives the same times again, the sequence
\* number has one bit more than its field (13 bits and TidShift = 12, which only a single
\* thread with an even number can bear), and a thread number above 1023 covers bits of the
\* time, so that one thread repeats its ids.
UniqueUnlessMixed == repeated => overlapped \/ spilt \/ setBack

=============================================================================
