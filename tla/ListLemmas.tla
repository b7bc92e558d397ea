--------------------------- MODULE ListLemmas ---------------------------
(***************************************************************************)
(* What the list operations do to the elements of a list, how the runs of  *)
(* a ring buffer follow one another, how a stream splits into a part read  *)
(* and a part to come, and, by the least-number principle, what every turn *)
(* of a loop keeps: the facts that the other proof modules cite.           *)
(***************************************************************************)
EXTENDS CaskList, SequenceTheorems, WellFoundedInduction, TLAPS

\* list_add_before keeps a list well linked when the element is not in it yet, and
\* adds that element only.
LEMMA AddLast ==
    ASSUME NEW S, NEW list \in Seq(S), NEW e \in S
    PROVE  /\ list_add_before(list, e) \in Seq(S)
           /\ ToSet(list_add_before(list, e)) = ToSet(list) \cup {e}
           /\ WellLinked(list) /\ e \notin ToSet(list)
                => WellLinked(list_add_before(list, e))
<1> DEFINE r == Append(list, e)
<1>1. /\ r \in Seq(S)
      /\ Len(r) = Len(list) + 1
      /\ DOMAIN r = 1..(Len(list) + 1)
      /\ DOMAIN list = 1..Len(list)
      /\ \A i \in 1..Len(list) : r[i] = list[i]
      /\ r[Len(list) + 1] = e
      /\ Len(list) \in Nat
  OBVIOUS
<1> HIDE DEF r
<1>2. ToSet(r) = ToSet(list) \cup {e}
  <2>1. ASSUME NEW x \in ToSet(r) PROVE x \in ToSet(list) \cup {e}
    <3>1. PICK i \in 1..(Len(list) + 1) : r[i] = x
      BY <1>1, <2>1 DEF ToSet
    <3>2. i \in 1..Len(list) \/ i = Len(list) + 1
      BY <1>1, <3>1
    <3> QED BY <1>1, <3>1, <3>2 DEF ToSet
  <2>2. ASSUME NEW x \in ToSet(list) \cup {e} PROVE x \in ToSet(r)
    <3>1. CASE x = e
      BY <1>1, <3>1, Len(list) + 1 \in DOMAIN r DEF ToSet
    <3>2. CASE x \in ToSet(list)
      <4>1. PICK i \in 1..Len(list) : list[i] = x
        BY <1>1, <3>2 DEF ToSet
      <4>2. i \in DOMAIN r /\ r[i] = x
        BY <1>1, <4>1
      <4> QED BY <4>2 DEF ToSet
    <3> QED BY <2>2, <3>1, <3>2
  <2> QED BY <2>1, <2>2
<1>3. ASSUME WellLinked(list), e \notin ToSet(list) PROVE WellLinked(r)
  <2>1. \A i \in 1..Len(list) : list[i] # e
    BY <1>1, <1>3 DEF ToSet
  <2> QED BY <1>1, <1>3, <2>1 DEF WellLinked, IsInjective
<1> QED BY <1>1, <1>2, <1>3 DEF list_add_before, r

\* Taking the head off a list: the picknext and pop of the callers.
LEMMA TakeFirst ==
    ASSUME NEW S, NEW list \in Seq(S), ~list_empty(list)
    PROVE  /\ list_next(list) \in S
           /\ list_next(list) \in ToSet(list)
           /\ Tail(list) \in Seq(S)
           /\ ToSet(Tail(list)) \subseteq ToSet(list)
           /\ ToSet(list) = ToSet(Tail(list)) \cup {list_next(list)}
           /\ WellLinked(list)
                => WellLinked(Tail(list)) /\ list_next(list) \notin ToSet(Tail(list))
<1> DEFINE r == Tail(list)
<1>1. /\ r \in Seq(S)
      /\ Len(list) \in Nat /\ Len(list) > 0
      /\ DOMAIN r = 1..(Len(list) - 1)
      /\ DOMAIN list = 1..Len(list)
      /\ \A i \in 1..(Len(list) - 1) : r[i] = list[i + 1]
      /\ Head(list) = list[1]
      /\ Head(list) \in S
  BY DEF list_empty
<1> HIDE DEF r
<1>2. ToSet(r) \subseteq ToSet(list)
  <2>1. ASSUME NEW i \in DOMAIN r PROVE r[i] \in ToSet(list)
    <3>1. i + 1 \in DOMAIN list /\ r[i] = list[i + 1]
      BY <1>1
    <3> QED BY <3>1 DEF ToSet
  <2> QED BY <2>1 DEF ToSet
<1>3. Head(list) \in ToSet(list)
  BY <1>1, 1 \in DOMAIN list DEF ToSet
<1>4. ToSet(list) \subseteq ToSet(r) \cup {Head(list)}
  <2>1. ASSUME NEW i \in DOMAIN list, i # 1 PROVE list[i] \in ToSet(r)
    <3>1. i - 1 \in DOMAIN r /\ r[i - 1] = list[i]
      BY <1>1, <2>1
    <3> QED BY <3>1 DEF ToSet
  <2> QED BY <1>1, <2>1 DEF ToSet
<1>5. ASSUME WellLinked(list) PROVE WellLinked(r) /\ Head(list) \notin ToSet(r)
  <2>1. WellLinked(r)
    BY <1>1, <1>5 DEF WellLinked, IsInjective
  <2>2. ASSUME NEW i \in DOMAIN r PROVE r[i] # Head(list)
    BY <1>1, <1>5 DEF WellLinked, IsInjective
  <2> QED BY <2>1, <2>2 DEF ToSet
<1> QED BY <1>1, <1>2, <1>3, <1>4, <1>5 DEF list_next, r

\* list_delete takes the element out of a well-linked list and nothing else.
LEMMA DeleteElement ==
    ASSUME NEW S, NEW list \in Seq(S), NEW e, WellLinked(list)
    PROVE  /\ list_delete(list, e) \in Seq(S)
           /\ WellLinked(list_delete(list, e))
           /\ ToSet(list_delete(list, e)) = ToSet(list) \ {e}
<1>1. CASE ~ \E i \in 1..Len(list) : list[i] = e
  BY <1>1 DEF list_delete, RemoveFirst, ToSet
<1>2. CASE \E i \in 1..Len(list) : list[i] = e
  <2> DEFINE I == {i \in 1..Len(list) : list[i] = e}
             k == Min(I)
  <2>1. k \in 1..Len(list) /\ list[k] = e
    <3>1. PICK j \in 1..Len(list) : list[j] = e
      BY <1>2
    <3>2. I = {j}
      BY <3>1 DEF WellLinked, IsInjective
    <3>3. j \in I /\ \A y \in I : j =< y
      BY <3>1, <3>2
    <3>4. k \in I
      BY <3>3 DEF Min
    <3> QED BY <3>4
  <2>2. list_delete(list, e) = SubSeq(list, 1, k - 1) \o SubSeq(list, k + 1, Len(list))
    BY <1>2 DEF list_delete, RemoveFirst, RemoveAt, SelectInSeq
  <2> HIDE DEF k
  <2> DEFINE r == SubSeq(list, 1, k - 1) \o SubSeq(list, k + 1, Len(list))
  <2>3. /\ r \in Seq(S)
        /\ DOMAIN r = 1..(Len(list) - 1)
        /\ DOMAIN list = 1..Len(list)
        /\ Len(list) \in Nat
        /\ \A i \in 1..(Len(list) - 1) : r[i] = IF i < k THEN list[i] ELSE list[i + 1]
    <3> DEFINE p == SubSeq(list, 1, k - 1)
               q == SubSeq(list, k + 1, Len(list))
    <3>1. Len(list) \in Nat /\ DOMAIN list = 1..Len(list)
      OBVIOUS
    <3>2. p \in Seq(S) /\ Len(p) = k - 1 /\ \A i \in 1..(k - 1) : p[i] = list[i]
      BY <2>1, <3>1
    <3>3. /\ q \in Seq(S)
          /\ Len(q) = Len(list) - k
          /\ \A i \in 1..(Len(list) - k) : q[i] = list[k + i]
      <4>1. \A i \in (k + 1)..Len(list) : list[i] \in S
        BY <2>1, <3>1
      <4>2. /\ q \in Seq(S)
            /\ Len(q) = IF k + 1 <= Len(list) THEN Len(list) - (k + 1) + 1 ELSE 0
            /\ \A i \in 1..(Len(list) - (k + 1) + 1) : q[i] = list[(k + 1) + i - 1]
        BY <2>1, <3>1, <4>1, k + 1 \in Int, Len(list) \in Int, SubSeqProperties
      <4>3. /\ Len(list) - (k + 1) + 1 = Len(list) - k
            /\ k + 1 > Len(list) => Len(list) - k = 0
            /\ ~(k + 1 > Len(list)) <=> k + 1 <= Len(list)
        <5>1. \A n \in Nat : \A m \in 1..n :
                /\ n - (m + 1) + 1 = n - m
                /\ m + 1 > n => n - m = 0
                /\ ~(m + 1 > n) <=> m + 1 <= n
          OBVIOUS
        <5> QED BY <2>1, <3>1, <5>1
      <4>4. \A i \in 1..(Len(list) - k) : (k + 1) + i - 1 = k + i
        BY <2>1, <3>1
      <4> HIDE DEF q
      <4>5. Len(q) = Len(list) - k
        BY <4>2, <4>3
      <4> QED BY <4>2, <4>3, <4>4, <4>5
    <3> HIDE DEF p, q
    <3>4. /\ p \o q \in Seq(S)
          /\ Len(p \o q) = Len(p) + Len(q)
          /\ \A i \in 1..(Len(p) + Len(q)) :
                (p \o q)[i] = IF i <= Len(p) THEN p[i] ELSE q[i - Len(p)]
      BY <3>2, <3>3, ConcatProperties
    <3>5. Len(p \o q) = Len(list) - 1 /\ DOMAIN (p \o q) = 1..(Len(list) - 1)
      <4>1. Len(p \o q) = Len(list) - 1
        BY <2>1, <3>1, <3>2, <3>3, <3>4
      <4>2. DOMAIN (p \o q) = 1..Len(p \o q)
        BY <3>4, LenProperties
      <4> QED BY <4>1, <4>2
    <3>6. ASSUME NEW i \in 1..(Len(list) - 1)
          PROVE  (p \o q)[i] = IF i < k THEN list[i] ELSE list[i + 1]
      <4>1. i \in 1..(Len(p) + Len(q))
        BY <2>1, <3>1, <3>2, <3>3, <3>6
      <4>2. CASE i < k
        BY <2>1, <3>1, <3>2, <3>4, <4>1, <4>2
      <4>3. CASE ~(i < k)
        <5>1. i - (k - 1) \in 1..(Len(list) - k) /\ k + (i - (k - 1)) = i + 1
          BY <2>1, <3>1, <3>6, <4>3
        <5>2. (p \o q)[i] = q[i - (k - 1)]
          BY <2>1, <3>1, <3>2, <3>4, <4>1, <4>3
        <5> QED BY <3>3, <4>3, <5>1, <5>2
      <4> QED BY <4>2, <4>3
    <3> QED BY <3>1, <3>4, <3>5, <3>6 DEF p, q
  <2> HIDE DEF r
  <2>4. WellLinked(r)
    <3> SUFFICES ASSUME NEW i \in DOMAIN r, NEW j \in DOMAIN r, r[i] = r[j]
                 PROVE  i = j
      BY DEF WellLinked, IsInjective
    <3>1. \A x, y \in 1..Len(list) : list[x] = list[y] => x = y
      BY <2>3 DEF WellLinked, IsInjective
    <3> QED BY <2>1, <2>3, <3>1
  <2>5. ASSUME NEW i \in DOMAIN r PROVE r[i] \in ToSet(list) /\ r[i] # e
    <3>1. CASE i < k
      <4>1. i \in DOMAIN list /\ r[i] = list[i] /\ i # k
        BY <2>1, <2>3, <2>5, <3>1
      <4> QED BY <2>1, <2>3, <4>1 DEF ToSet, WellLinked, IsInjective
    <3>2. CASE ~(i < k)
      <4>1. i + 1 \in DOMAIN list /\ r[i] = list[i + 1] /\ i + 1 # k
        BY <2>1, <2>3, <2>5, <3>2
      <4> QED BY <2>1, <2>3, <4>1 DEF ToSet, WellLinked, IsInjective
    <3> QED BY <3>1, <3>2
  <2>6. ASSUME NEW i \in DOMAIN list, list[i] # e PROVE list[i] \in ToSet(r)
    <3>1. CASE i < k
      <4>1. i \in DOMAIN r /\ r[i] = list[i]
        BY <2>1, <2>3, <2>6, <3>1
      <4> QED BY <4>1 DEF ToSet
    <3>2. CASE i > k
      <4>1. i - 1 \in DOMAIN r /\ r[i - 1] = list[i]
        BY <2>1, <2>3, <2>6, <3>2
      <4> QED BY <4>1 DEF ToSet
    <3> QED BY <2>1, <2>3, <2>6, <3>1, <3>2
  <2>7. ToSet(r) = ToSet(list) \ {e}
    BY <2>5, <2>6 DEF ToSet
  <2> QED BY <2>2, <2>3, <2>4, <2>7 DEF r
<1> QED BY <1>1, <1>2

\* RR_enqueue's delete-then-append on one list: the element ends up in it once.
LEMMA Requeue ==
    ASSUME NEW S, NEW list \in Seq(S), NEW e \in S, WellLinked(list)
    PROVE  LET r == list_add_before(list_delete(list, e), e) IN
           /\ r \in Seq(S)
           /\ WellLinked(r)
           /\ ToSet(r) = ToSet(list) \cup {e}
<1> DEFINE d == list_delete(list, e)
<1>1. d \in Seq(S) /\ WellLinked(d) /\ ToSet(d) = ToSet(list) \ {e}
  BY DeleteElement
<1> HIDE DEF d
<1>2. /\ list_add_before(d, e) \in Seq(S)
      /\ ToSet(list_add_before(d, e)) = ToSet(d) \cup {e}
      /\ WellLinked(d) /\ e \notin ToSet(d) => WellLinked(list_add_before(d, e))
  BY <1>1, AddLast
<1> QED BY <1>1, <1>2 DEF d

\* Appending to the second of two sequences appends to both.
LEMMA AppendConcat ==
    ASSUME NEW S, NEW a \in Seq(S), NEW b \in Seq(S), NEW e \in S
    PROVE  Append(a \o b, e) = a \o Append(b, e)
<1>1. <<e>> \in Seq(S)
  OBVIOUS
<1>2. Append(b, e) = b \o <<e>> /\ Append(a \o b, e) = (a \o b) \o <<e>>
  <2>1. Append(b, e) = b \o <<e>>
    OBVIOUS
  <2>2. a \o b \in Seq(S)
    BY ConcatProperties
  <2> QED BY <2>1, <2>2
<1>3. (a \o b) \o <<e>> = a \o (b \o <<e>>)
  BY <1>1, ConcatAssociative
<1> QED BY <1>2, <1>3

\* The list q is what is left of r when its first n elements have gone to the end of s.
Splits(S, s, r, n, p, q) ==
    /\ s \in Seq(S) /\ r \in Seq(S) /\ n \in 1 .. Len(r)
    /\ p = s \o SubSeq(r, 1, n) /\ q = SubSeq(r, n + 1, Len(r))

\* Moving a prefix from one sequence to the end of another keeps their concatenation.
LEMMA SplitConcat ==
    ASSUME NEW S, NEW s, NEW r, NEW n, NEW p, NEW q, Splits(S, s, r, n, p, q)
    PROVE  p \in Seq(S) /\ q \in Seq(S) /\ p \o q = s \o r
<1> DEFINE a == SubSeq(r, 1, n)
<1>0. /\ s \in Seq(S) /\ r \in Seq(S) /\ Len(r) \in Nat /\ n \in 1 .. Len(r)
      /\ p = s \o a /\ q = SubSeq(r, n + 1, Len(r))
  BY DEF Splits
<1>1. a \in Seq(S) /\ Len(a) = n /\ (\A i \in 1 .. n : a[i] = r[i])
  BY <1>0, SubSeqProperties
<1>2. q \in Seq(S) /\ Len(q) = Len(r) - n /\ (\A i \in 1 .. Len(r) - n : q[i] = r[n + i])
  <2>1. q \in Seq(S) /\ Len(q) = Len(r) - n
    BY <1>0, SubSeqProperties
  <2>2. \A i \in 1 .. Len(r) - n : q[i] = r[n + 1 + i - 1]
    BY <1>0, <2>1, SubSeqProperties
  <2> QED BY <1>0, <2>1, <2>2
<1> HIDE DEF a
<1>3. a \o q = r
  <2>1. /\ a \o q \in Seq(S) /\ Len(a \o q) = Len(a) + Len(q)
        /\ \A i \in 1 .. Len(a) + Len(q) : (a \o q)[i] = IF i <= Len(a) THEN a[i] ELSE q[i - Len(a)]
    BY ONLY <1>1, <1>2, ConcatProperties
  <2>2. \A i \in 1 .. Len(r) : (a \o q)[i] = r[i]
    <3> SUFFICES ASSUME NEW i \in 1 .. Len(r) PROVE (a \o q)[i] = r[i]
      OBVIOUS
    <3>0. Len(a) + Len(q) = Len(r)
      BY <1>0, <1>1, <1>2
    <3>1. CASE i <= n
      BY <1>0, <1>1, <2>1, <3>0, <3>1
    <3>2. CASE ~(i <= n)
      <4>1. i - n \in 1 .. Len(r) - n /\ n + (i - n) = i
        BY <1>0, <3>2
      <4>2. q[i - n] = r[n + (i - n)]
        BY <1>2, <4>1
      <4> QED BY <1>1, <2>1, <3>0, <3>2, <4>1, <4>2
    <3> QED BY <3>1, <3>2
  <2>3. Len(a \o q) = Len(r)
    <3>1. n \in Int /\ Len(r) \in Int
      BY <1>0
    <3>2. Len(a \o q) = n + (Len(r) - n)
      BY ONLY <1>1, <1>2, <2>1
    <3> QED BY ONLY <3>1, <3>2
  <2> QED BY ONLY <1>0, <2>1, <2>2, <2>3, SeqEqual
<1>4. (s \o a) \o q = s \o (a \o q)
  <2>1. s \in Seq(S) /\ a \in Seq(S) /\ q \in Seq(S)
    BY <1>0, <1>1, <1>2
  <2> QED BY ONLY <2>1, ConcatAssociative
<1>5. s \o a \in Seq(S)
  BY ONLY <1>0, <1>1, ConcatProperties
<1> QED BY <1>0, <1>2, <1>3, <1>4, <1>5

\* A list no element is linked in.
LEMMA EmptyList ==
    ASSUME NEW S
    PROVE  list_init \in Seq(S) /\ WellLinked(list_init) /\ ToSet(list_init) = {}
BY DEF list_init, WellLinked, IsInjective, ToSet

-----------------------------------------------------------------------------
\* A ring of n slots: its slots, the slot i places after slot k, the slot after slot k,
\* and the m elements from slot k on.
RingSlots(n) == 0 .. (n - 1)

RingPlace(n, k, i) == IF k + i < n THEN k + i ELSE k + i - n

RingAfter(n, k) == IF k + 1 = n THEN 0 ELSE k + 1

RingRun(n, f, k, m) == [i \in 1 .. m |-> f[RingPlace(n, k, i - 1)]]

\* A place of the ring is one of its slots.
LEMMA RingPlaceType ==
    ASSUME NEW n \in Nat \ {0}, NEW k \in RingSlots(n), NEW i \in 0 .. (n - 1)
    PROVE  RingPlace(n, k, i) \in RingSlots(n)
BY DEF RingPlace, RingSlots

\* Fewer than n steps never return to a slot.
LEMMA RingPlaceInjective ==
    ASSUME NEW n \in Nat \ {0}, NEW k \in RingSlots(n), NEW i \in 0 .. (n - 1), NEW j \in 0 .. (n - 1),
           i # j
    PROVE  RingPlace(n, k, i) # RingPlace(n, k, j)
BY DEF RingPlace, RingSlots

\* The place, counted with a remainder.
LEMMA RingPlaceMod ==
    ASSUME NEW n \in Nat \ {0}, NEW k \in RingSlots(n), NEW i \in 0 .. n
    PROVE  (k + i) % n = RingPlace(n, k, i)
<1>1. CASE k + i < n
  BY <1>1 DEF RingPlace, RingSlots
<1>2. CASE k + i \in n .. (2 * n - 1)
  <2> DEFINE x == k + i
  <2> HIDE DEF x
  <2>0. x \in n .. (2 * n - 1)
    BY <1>2 DEF x
  <2>1. x % n = x - n
    BY <2>0, SMTT(30)
  <2> QED BY <1>2, <2>1 DEF RingPlace, RingSlots, x
<1> QED BY <1>1, <1>2 DEF RingSlots

\* The slot after a place, from either end.
LEMMA RingPlaceAfter ==
    ASSUME NEW n \in Nat \ {0}, NEW k \in RingSlots(n), NEW i \in 0 .. (n - 1)
    PROVE  /\ RingAfter(n, k) \in RingSlots(n)
           /\ RingAfter(n, RingPlace(n, k, i)) = RingPlace(n, k, i + 1)
           /\ RingPlace(n, RingAfter(n, k), i) = RingPlace(n, k, i + 1)
BY DEF RingPlace, RingSlots, RingAfter

\* r is the sequence of the m elements from slot k on.
IsRun(n, S, f, k, m, r) ==
    /\ r \in Seq(S) /\ Len(r) = m
    /\ \A i \in 1 .. m : r[i] = f[RingPlace(n, k, i - 1)]

\* A run is a sequence of its elements.
LEMMA RingRunType ==
    ASSUME NEW n \in Nat \ {0}, NEW S,
           NEW f \in [RingSlots(n) -> S], NEW k \in RingSlots(n), NEW m \in 0 .. n
    PROVE  IsRun(n, S, f, k, m, RingRun(n, f, k, m))
<1>1. \A i \in 1 .. m : f[RingPlace(n, k, i - 1)] \in S
  BY RingPlaceType
<1>2. RingRun(n, f, k, m) \in [1 .. m -> S]
  BY <1>1 DEF RingRun
<1>3. m \in Nat
  OBVIOUS
<1> HIDE DEF RingRun
<1>4. RingRun(n, f, k, m) \in Seq(S) /\ Len(RingRun(n, f, k, m)) = m
  BY <1>2, <1>3, SeqDef
<1> QED BY <1>4 DEF RingRun, IsRun

\* Storing into the first free slot appends.
Stored(n, S, f, k, m, e, g) ==
    /\ f \in [RingSlots(n) -> S] /\ k \in RingSlots(n) /\ m \in 0 .. (n - 1) /\ e \in S
    /\ g = [f EXCEPT ![RingPlace(n, k, m)] = e]

\* A store behind a run appends to it.
LEMMA RingRunAppend ==
    ASSUME NEW n \in Nat \ {0}, NEW S, NEW f, NEW k, NEW m, NEW e, NEW g,
           Stored(n, S, f, k, m, e, g)
    PROVE  RingRun(n, g, k, m + 1) = Append(RingRun(n, f, k, m), e)
<1>a. /\ f \in [RingSlots(n) -> S] /\ k \in RingSlots(n) /\ m \in 0 .. (n - 1) /\ e \in S
      /\ g = [f EXCEPT ![RingPlace(n, k, m)] = e]
  BY DEF Stored
<1> DEFINE s == RingRun(n, f, k, m)
           r == RingRun(n, g, k, m + 1)
<1>0. ASSUME NEW h \in [RingSlots(n) -> S], NEW j \in RingSlots(n), NEW l \in 0 .. n
      PROVE  IsRun(n, S, h, j, l, RingRun(n, h, j, l))
  BY RingRunType
<1>1. g \in [RingSlots(n) -> S] /\ RingPlace(n, k, m) \in RingSlots(n)
  BY <1>a, RingPlaceType
<1>2. m \in 0 .. n /\ m + 1 \in 0 .. n
  BY <1>a
<1>3. s \in Seq(S) /\ Len(s) = m /\ \A i \in 1 .. m : s[i] = f[RingPlace(n, k, i - 1)]
  BY <1>a, <1>0, <1>2 DEF IsRun
<1>4. /\ r \in Seq(S) /\ Len(r) = m + 1
      /\ \A i \in 1 .. m + 1 : r[i] = g[RingPlace(n, k, i - 1)]
  <2>1. IsRun(n, S, g, k, m + 1, r)
    BY <1>a, <1>0, <1>1, <1>2
  <2> HIDE DEF r
  <2> QED BY <2>1 DEF IsRun
<1>5. \A i \in 1 .. m : g[RingPlace(n, k, i - 1)] = f[RingPlace(n, k, i - 1)]
  <2> SUFFICES ASSUME NEW i \in 1 .. m PROVE g[RingPlace(n, k, i - 1)] = f[RingPlace(n, k, i - 1)]
    OBVIOUS
  <2>1. i - 1 \in 0 .. (n - 1) /\ i - 1 # m
    BY <1>a
  <2>2. RingPlace(n, k, i - 1) # RingPlace(n, k, m) /\ RingPlace(n, k, i - 1) \in RingSlots(n)
    BY <1>a, <2>1, RingPlaceInjective, RingPlaceType
  <2> QED BY <1>a, <1>1, <2>2
<1>6. g[RingPlace(n, k, m)] = e
  BY <1>a, <1>1
<1> HIDE DEF s, r
<1>7. Append(s, e) \in Seq(S) /\ Len(Append(s, e)) = m + 1
      /\ (\A i \in 1 .. m : Append(s, e)[i] = s[i]) /\ Append(s, e)[m + 1] = e
  BY <1>a, <1>2, <1>3
<1>8. \A i \in 1 .. m + 1 : r[i] = Append(s, e)[i]
  <2> SUFFICES ASSUME NEW i \in 1 .. m + 1 PROVE r[i] = Append(s, e)[i]
    OBVIOUS
  <2>1. CASE i = m + 1
    <3>1. i - 1 = m
      BY <1>a, <2>1
    <3> QED BY <1>4, <1>6, <1>7, <2>1, <3>1
  <2>2. CASE i \in 1 .. m
    BY <1>3, <1>4, <1>5, <1>7, <2>2
  <2>3. i = m + 1 \/ i \in 1 .. m
    BY <1>a
  <2> QED BY <2>1, <2>2, <2>3
<1>9. r = Append(s, e)
  BY <1>a, <1>4, <1>7, <1>8, SeqEqual
<1> QED BY <1>9 DEF s, r

\* Moving the first slot on drops the head.
LEMMA RingRunTail ==
    ASSUME NEW n \in Nat \ {0}, NEW S,
           NEW f \in [RingSlots(n) -> S], NEW k \in RingSlots(n), NEW m \in 1 .. n
    PROVE  /\ RingRun(n, f, k, m) # <<>>
           /\ Head(RingRun(n, f, k, m)) = f[k]
           /\ RingRun(n, f, RingAfter(n, k), m - 1) = Tail(RingRun(n, f, k, m))
<1> DEFINE s == RingRun(n, f, k, m)
           r == RingRun(n, f, RingAfter(n, k), m - 1)
<1>0. ASSUME NEW h \in [RingSlots(n) -> S], NEW j \in RingSlots(n), NEW l \in 0 .. n
      PROVE  IsRun(n, S, h, j, l, RingRun(n, h, j, l))
  BY RingRunType
<1>1. RingAfter(n, k) \in RingSlots(n)
  BY DEF RingSlots, RingAfter
<1>2. m \in 0 .. n /\ m - 1 \in 0 .. n
  OBVIOUS
<1>3. s \in Seq(S) /\ Len(s) = m /\ \A i \in 1 .. m : s[i] = f[RingPlace(n, k, i - 1)]
  BY <1>0, <1>2 DEF IsRun
<1>4. /\ r \in Seq(S) /\ Len(r) = m - 1
      /\ \A i \in 1 .. m - 1 : r[i] = f[RingPlace(n, RingAfter(n, k), i - 1)]
  BY <1>0, <1>1, <1>2 DEF IsRun
<1>5. \A i \in 1 .. m - 1 : RingPlace(n, RingAfter(n, k), i - 1) = RingPlace(n, k, i)
  <2> SUFFICES ASSUME NEW i \in 1 .. m - 1 PROVE RingPlace(n, RingAfter(n, k), i - 1) = RingPlace(n, k, i)
    OBVIOUS
  <2>1. i - 1 \in 0 .. (n - 1) /\ (i - 1) + 1 = i
    OBVIOUS
  <2>2. RingPlace(n, RingAfter(n, k), i - 1) = RingPlace(n, k, (i - 1) + 1)
    BY <2>1, RingPlaceAfter
  <2> QED BY <2>1, <2>2
<1>6. RingPlace(n, k, 0) = k
  BY DEF RingPlace, RingSlots
<1> HIDE DEF s, r
<1>7. s # <<>>
  BY <1>3
<1>8. Head(s) = s[1] /\ s[1] = f[k]
  BY <1>3, <1>6, <1>7
<1>9. /\ Tail(s) \in Seq(S) /\ Len(Tail(s)) = m - 1
      /\ \A i \in 1 .. m - 1 : Tail(s)[i] = s[i + 1]
  BY <1>3, <1>7, HeadTailProperties
<1>10. \A i \in 1 .. m - 1 : r[i] = Tail(s)[i]
  <2> SUFFICES ASSUME NEW i \in 1 .. m - 1 PROVE r[i] = Tail(s)[i]
    OBVIOUS
  <2>1. i + 1 \in 1 .. m /\ (i + 1) - 1 = i
    OBVIOUS
  <2>2. s[i + 1] = f[RingPlace(n, k, i)]
    BY <1>3, <2>1
  <2> QED BY <1>4, <1>5, <1>9, <2>2
<1>11. r = Tail(s)
  BY <1>4, <1>9, <1>10, SeqEqual
<1> QED BY <1>7, <1>8, <1>11 DEF s, r

-----------------------------------------------------------------------------
\* A set of numbers has a least one.
LEMMA LeastNumber ==
    ASSUME NEW T \in SUBSET Nat, T # {}
    PROVE  \E m \in T : \A k \in T : m <= k
<1> DEFINE R == OpToRel(<, Nat)
<1>1. IsWellFoundedOn(R, Nat)
  BY NatLessThanWellFounded
<1> HIDE DEF R
<1>2. PICK m \in T : \A k \in T : ~ (<<k, m>> \in R)
  BY <1>1, WFMin
<1>3. ASSUME NEW k \in T PROVE m <= k
  <2>1. \A x, y \in Nat : x < y => <<x, y>> \in R
    BY DEF R, OpToRel
  <2>2. m \in Nat /\ k \in Nat /\ ~(k < m)
    BY <1>2, <2>1
  <2> QED BY ONLY <2>2
<1> QED BY <1>3

\* Induction up to N: a set with 0 and with every successor has them all.
LEMMA UpTo ==
    ASSUME NEW N \in Nat, NEW S, 0 \in S, \A n \in 0 .. N - 1 : n \in S => n + 1 \in S
    PROVE  0 .. N \subseteq S
<1> DEFINE T == {n \in 0 .. N : n \notin S}
<1> SUFFICES ASSUME T # {} PROVE FALSE
  OBVIOUS
<1>0. T \in SUBSET Nat
  OBVIOUS
<1> HIDE DEF T
<1>1. PICK m \in T : \A k \in T : m <= k
  BY <1>0, LeastNumber
<1>2. m \in 1 .. N /\ m - 1 \notin T
  BY <1>1 DEF T
<1> QED BY <1>1, <1>2 DEF T

\* The turns of a loop: turn 0 is x, and turn n makes its value from the one before.
IsLoop(f, N, x, step) == f = [n \in 0 .. N |-> IF n = 0 THEN x ELSE step[n][f[n - 1]]]

\* A loop whose turns stay in a set has its turns.
LEMMA LoopExists ==
    ASSUME NEW N \in Nat, NEW X, NEW x \in X, NEW step \in [1 .. N -> [X -> X]]
    PROVE  \E f \in [0 .. N -> X] : IsLoop(f, N, x, step)
<1> DEFINE S == {n \in Nat : \E f \in [0 .. n -> X] : IsLoop(f, n, x, step)}
<1>1. 0 \in S
  <2> DEFINE f == [n \in 0 .. 0 |-> x]
  <2>1. f \in [0 .. 0 -> X] /\ IsLoop(f, 0, x, step)
    BY DEF IsLoop
  <2> QED BY <2>1
<1>2. ASSUME NEW n \in 0 .. N - 1, n \in S PROVE n + 1 \in S
  <2>1. PICK f \in [0 .. n -> X] : IsLoop(f, n, x, step)
    BY <1>2
  <2> DEFINE g == [i \in 0 .. n + 1 |-> IF i = n + 1 THEN step[n + 1][f[n]] ELSE f[i]]
  <2>2. g \in [0 .. n + 1 -> X]
    <3>1. step[n + 1] \in [X -> X] /\ f[n] \in X
      BY <2>1
    <3> QED BY <2>1, <3>1
  <2>3. ASSUME NEW i \in 0 .. n + 1 PROVE g[i] = IF i = 0 THEN x ELSE step[i][g[i - 1]]
    <3>1. CASE i = n + 1
      BY <3>1
    <3>2. CASE i # n + 1 /\ i # 0
      <4>1. i \in 0 .. n /\ i - 1 \in 0 .. n /\ i - 1 # n + 1 /\ i - 1 \in 0 .. n + 1
        BY <3>2
      <4>2. f[i] = step[i][f[i - 1]]
        BY <2>1, <3>2, <4>1 DEF IsLoop
      <4> QED BY <3>2, <4>1, <4>2
    <3>3. CASE i # n + 1 /\ i = 0
      <4>1. f[0] = x
        BY <2>1 DEF IsLoop
      <4> QED BY <3>3, <4>1
    <3> QED BY <3>1, <3>2, <3>3
  <2>4. IsLoop(g, n + 1, x, step)
    <3> HIDE DEF g
    <3>1. g = [i \in 0 .. n + 1 |-> g[i]]
      BY <2>2
    <3> QED BY <2>3, <3>1 DEF IsLoop
  <2> QED BY <2>2, <2>4
<1> HIDE DEF S
<1>3. 0 .. N \subseteq S
  BY <1>1, <1>2, UpTo
<1>4. N \in S
  BY <1>3
<1> QED BY <1>4 DEF S

\* The turns of f stay in X.
Stays(f, N, X) == f[0] \in X /\ \A n \in 0 .. N - 1 : f[n] \in X => f[n + 1] \in X

\* They are in X to the last.
LEMMA LoopStays ==
    ASSUME NEW N \in Nat, NEW X, NEW f, Stays(f, N, X)
    PROVE  \A n \in 0 .. N : f[n] \in X
<1> DEFINE S == {n \in Nat : f[n] \in X}
<1>1. 0 \in S
  BY DEF Stays
<1>2. \A n \in 0 .. N - 1 : n \in S => n + 1 \in S
  BY DEF Stays
<1> HIDE DEF S
<1>3. 0 .. N \subseteq S
  BY <1>1, <1>2, UpTo
<1> QED BY <1>3 DEF S

=============================================================================
