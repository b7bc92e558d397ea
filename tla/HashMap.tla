------------------------------ MODULE HashMap ------------------------------
(***************************************************************************)
(* libcask hash_map.c, the map of the storage of a task (co_specs.c):      *)
(* chained buckets, doubled when three quarters of the capacity are used.  *)
(* Names are model values with a hash; strncmp() of two names with the     *)
(* same hash is taken to tell them apart.                                  *)
(***************************************************************************)
EXTENDS Naturals, Sequences, SequencesExt, FiniteSets

CONSTANTS
    Names,      \* the names of the entries
    Values,
    Hash(_),    \* string_hash
    Capacity,   \* HASH_MAP_DEFALUT_CAPCITY
    MaxCapacity,\* bound: the map does not grow beyond
    Missing     \* the answer of a get that fails

HashMapAssumption ==
    /\ Capacity \in Nat \ {0} /\ Missing \notin Values
    /\ \A n \in Names : Hash(n) \in Nat

VARIABLES
    table,      \* the buckets, sequences of [name, value]; bucket i is table[i + 1]
    count,      \* the number of entries
    meant       \* what has been put and not deleted, by name

vars == <<table, count, meant>>

capcity == Len(table)

\* The bucket of a name in a table of a capacity.
Home(name, cap) == (Hash(name) % cap) + 1

Bucket(name) == Home(name, capcity)

Init ==
    /\ table = [i \in 1 .. Capacity |-> <<>>] /\ count = 0
    /\ meant = [n \in Names |-> Missing]

\* The first entry of a bucket with a name, 0 when there is none.
Place(bucket, name) ==
    SelectInSeq(bucket, LAMBDA entry : entry.name = name)

hash_map_get(name) ==
    LET bucket == table[Bucket(name)]
        at == Place(bucket, name)
    IN  IF at = 0 THEN Missing ELSE bucket[at].value

\* The entries of a bucket that belong to bucket i under the new capacity, in order.
Moved(bucket, i, cap) ==
    LET moved[n \in 0 .. Len(bucket)] ==
            IF n = 0 THEN <<>>
            ELSE IF Home(bucket[n].name, cap) = i THEN Append(moved[n - 1], bucket[n])
            ELSE moved[n - 1]
    IN  moved[Len(bucket)]

\* Every bucket keeps the entries that still belong to it and the others go to the bucket of
\* the same rest in the new half.
hash_map_resize(tab) ==
    LET old == Len(tab)
    IN  [i \in 1 .. 2 * old |-> Moved(tab[IF i <= old THEN i ELSE i - old], i, 2 * old)]

Mean(name, v) == meant' = [meant EXCEPT ![name] = v]

\* Put over an entry that is there.
PutOver(name, v) ==
    LET b == Bucket(name)
        at == Place(table[b], name)
    IN  /\ at # 0 /\ table' = [table EXCEPT ![b][at].value = v]
        /\ Mean(name, v) /\ UNCHANGED count

\* Put a new entry: the map grows first when it is full enough, and the bucket is looked up again.
PutNew(name, v) ==
    LET full == 4 * count >= 3 * capcity
        tab  == IF full THEN hash_map_resize(table) ELSE table
        b    == Home(name, Len(tab))
    IN  /\ Place(table[Bucket(name)], name) = 0
        /\ full => 2 * capcity <= MaxCapacity
        /\ table' = [tab EXCEPT ![b] = Append(@, [name |-> name, value |-> v])]
        /\ count' = count + 1 /\ Mean(name, v)

hash_map_put(name, v) == PutOver(name, v) \/ PutNew(name, v)

hash_map_del(name) ==
    LET b == Bucket(name)
        at == Place(table[b], name)
    IN  /\ at # 0 /\ table' = [table EXCEPT ![b] = RemoveAt(@, at)]
        /\ count' = count - 1 /\ Mean(name, Missing)

\* All the entries go; the buckets stay.
hash_map_clear ==
    /\ count # 0
    /\ table' = [i \in 1 .. capcity |-> <<>>] /\ count' = 0
    /\ meant' = [n \in Names |-> Missing]

Next ==
    \/ \E n \in Names : hash_map_del(n) \/ \E v \in Values : hash_map_put(n, v)
    \/ hash_map_clear

Spec == Init /\ [][Next]_vars

-----------------------------------------------------------------------------
\* A get finds what was last put under a name, and only that, however often the map has grown
\* since and whatever shares its bucket.
GetsWhatWasPut == \A n \in Names : hash_map_get(n) = meant[n]

\* The count, which decides when the map grows, is the number of names put and not deleted.
CountRight == count = Cardinality({n \in Names : meant[n] # Missing})

=============================================================================
