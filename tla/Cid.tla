-------------------------------- MODULE Cid --------------------------------
(***************************************************************************)
(* The identifiers of the tasks of one thread (libcask cid.c) and the heap *)
(* the freed ones wait in (heap.c).  Identifiers are given out in order    *)
(* until MaxId, and from then on the smallest freed one is.  With none     *)
(* left alloc_cid() answers -1, an unsigned long that no caller looks at   *)
(* and that free_cid() reduces modulo MaxId.                               *)
(***************************************************************************)
EXTENDS Integers, Sequences, FiniteSets

CONSTANTS
    Tasks,      \* the tasks the thread may have at a time
    MaxId,      \* THREAD_MAX_TASK_SIZE
    None        \* a task that does not exist

CidAssumption ==
    IsFiniteSet(Tasks) /\ MaxId \in Nat \ {0} /\ None \notin -1 .. (MaxId - 1)

VARIABLES
    base,       \* the next identifier never used
    recycle,    \* the heap: element i of the array is recycle[i + 1]
    cid,        \* the identifier of every task
    failed      \* an allocation has failed

vars == <<base, recycle, cid, failed>>

Swap(h, l, r) == [h EXCEPT ![l + 1] = h[r + 1], ![r + 1] = h[l + 1]]

parent(i) == IF i <= 0 THEN 0 ELSE (i - 1) \div 2

\* The index heapify() returns: the least of the root and its children, the left one of two.
Least(h, root) ==
    LET kids == {k \in {2 * root + 1, 2 * root + 2} : k < Len(h) /\ h[k + 1] < h[root + 1]}
    IN  IF kids = {} THEN root
        ELSE CHOOSE k \in kids : \A j \in kids :
                h[k + 1] < h[j + 1] \/ (h[k + 1] = h[j + 1] /\ k <= j)

heapify(h, root) == Swap(h, Least(h, root), root)

\* Mutant of heap_fixup: the loop ends before the root.
heap_fixupShort(h) ==
    LET last == parent(Len(h) - 1)
        fix[n \in 0 .. last] == IF n = 0 THEN h ELSE heapify(fix[n - 1], last + 1 - n)
    IN  fix[last]

\* heapify() at every parent, the last one first: the heap after n of them.
heap_fixup(h) ==
    LET last == parent(Len(h) - 1)
        fix[n \in 0 .. last + 1] == IF n = 0 THEN h ELSE heapify(fix[n - 1], last + 1 - n)
    IN  fix[last + 1]

\* heapify() down from the root, until nothing is swapped.
heap_fixdown(h) ==
    LET down[n \in 0 .. Len(h)] ==     \* the heap and the root after n rounds
            IF n = 0 THEN [heap |-> h, root |-> 0]
            ELSE LET at == down[n - 1]
                     to == Least(at.heap, at.root)
                 IN  IF at.root > parent(Len(h) - 1) \/ to = at.root THEN at
                     ELSE [heap |-> heapify(at.heap, at.root), root |-> to]
    IN  down[Len(h)].heap

heap_push(h, id) == heap_fixup(Append(h, id))

\* The first element goes and the last one takes its place.
heap_pop(h) ==
    IF Len(h) = 1 THEN <<>>
    ELSE heap_fixdown([SubSeq(h, 1, Len(h) - 1) EXCEPT ![1] = h[Len(h)]])

\* What the unsigned long of an identifier leaves modulo MaxId: -1 is 2^64 - 1.
Reduced(id) ==
    LET pow[n \in 0 .. 64] == IF n = 0 THEN 1 % MaxId ELSE (2 * pow[n - 1]) % MaxId
    IN  IF id = -1 THEN (pow[64] + MaxId - 1) % MaxId ELSE id % MaxId

Init == base = 0 /\ recycle = <<>> /\ cid = [t \in Tasks |-> None] /\ failed = FALSE

\* A task is created: a new identifier, the smallest freed one, or -1.
alloc_cid(t) ==
    /\ cid[t] = None
    /\ \/ /\ base < MaxId /\ base' = base + 1
          /\ cid' = [cid EXCEPT ![t] = base] /\ UNCHANGED <<recycle, failed>>
       \/ /\ base >= MaxId /\ recycle # <<>> /\ recycle' = heap_pop(recycle)
          /\ cid' = [cid EXCEPT ![t] = recycle[1]] /\ UNCHANGED <<base, failed>>
       \/ /\ base >= MaxId /\ recycle = <<>>
          /\ cid' = [cid EXCEPT ![t] = -1] /\ failed' = TRUE /\ UNCHANGED <<base, recycle>>

\* A task is destroyed.
free_cid(t) ==
    /\ cid[t] # None
    /\ cid' = [cid EXCEPT ![t] = None]
    /\ recycle' = heap_push(recycle, Reduced(cid[t]))
    /\ UNCHANGED <<base, failed>>

Next == \E t \in Tasks : alloc_cid(t) \/ free_cid(t)

Spec == Init /\ [][Next]_vars

-----------------------------------------------------------------------------
Live == {t \in Tasks : cid[t] # None}

\* Until an allocation fails, two tasks that are alive never have the same identifier, and
\* none of theirs is waiting in the heap to be given out again.
IdsDistinct ==
    ~failed =>
        /\ \A s, t \in Live : s # t => cid[s] # cid[t]
        /\ \A t \in Live, i \in 1 .. Len(recycle) : cid[t] # recycle[i]

\* No identifier is lost: those in use and those in the heap are the ones made.  A failed
\* allocation puts one in circulation a second time when its task ends, but this does not go
\* on for ever: there are never more in circulation than there are tasks.
IdsConserved ==
    LET circulating == Len(recycle) + Cardinality({t \in Live : cid[t] # -1})
    IN  circulating = base \/ (failed /\ circulating \in base .. Cardinality(Tasks))

\* The sweep of heap_push and the walk of heap_pop keep the array a heap, whatever the order
\* in which tasks end: its first element, the one alloc_cid() takes, is the smallest.
SmallestFirst == \A i \in 1 .. Len(recycle) : recycle[1] <= recycle[i]

=============================================================================
