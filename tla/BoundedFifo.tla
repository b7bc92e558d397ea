---------------------------- MODULE BoundedFifo -----------------------------
(***************************************************************************)
(* What a blocking queue promises: a bounded first-in first-out sequence   *)
(* from which every element is handed to exactly one thread.               *)
(***************************************************************************)
EXTENDS Sequences, Naturals

CONSTANTS Threads, Elems, Capacity

VARIABLES
    contents,   \* the queue, oldest element first
    arg,        \* the element a thread last asked to insert
    got         \* the element a thread last received

\* A thread names the element it wants to insert.
Ask(t, e) ==
    /\ arg' = [arg EXCEPT ![t] = e]
    /\ UNCHANGED <<contents, got>>

Insert(t) ==
    /\ Len(contents) < Capacity
    /\ contents' = Append(contents, arg[t])
    /\ UNCHANGED <<arg, got>>

Remove(t) ==
    /\ contents # <<>>
    /\ got' = [got EXCEPT ![t] = Head(contents)]
    /\ contents' = Tail(contents)
    /\ UNCHANGED arg

Init ==
    /\ contents = <<>>
    /\ arg \in [Threads -> Elems]
    /\ got \in [Threads -> Elems]

Next ==
    \E t \in Threads : (\E e \in Elems : Ask(t, e)) \/ Insert(t) \/ Remove(t)

Spec == Init /\ [][Next]_<<contents, arg, got>>

=============================================================================
