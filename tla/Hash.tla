-------------------------------- MODULE Hash --------------------------------
(***************************************************************************)
(* Hash tables, src/sqlite4-build/src/hash.c: all elements are on one      *)
(* doubly linked list, here a sequence of their keys, and a bucket is a    *)
(* pointer into this list with the number of elements from there on.       *)
(* Small tables, and those for which malloc has failed, have no buckets    *)
(* and are searched from the front.                                        *)
(***************************************************************************)
EXTENDS Naturals, Sequences, SequencesExt, FiniteSets

CONSTANTS
    HashKey,        \* keys that do not compare equal
    HashOf,         \* xHash: a function from keys to numbers
    Nil,            \* NULL
    Threshold,      \* elements from which on buckets are used, 10 in hash.c
    MaxBucket       \* SQLITE4_MALLOC_SOFT_LIMIT in buckets

VARIABLES
    list,       \* first and the next of each element
    ht,         \* the buckets: count and chain; <<>> for NULL
    stored      \* the keys that the caller has put there

vars == <<list, ht, stored>>

EmptyBucket == [count |-> 0, chain |-> Nil]

\* sqlite4HashInit.
Init ==
    /\ list = <<>>
    /\ ht = <<>>
    /\ stored = {}

\* The bucket of a key, counted from 1.
BucketOf(k, size) == 1 + (HashOf[k] % size)

-----------------------------------------------------------------------------
(* The static functions, over a record with list and ht.                   *)

At(t, k) == SelectInSeq(t.list, LAMBDA x : x = k)

\* insertElement: in front of the bucket's first element, or of all.
InsertElement(t, k) ==
    IF t.ht = <<>> THEN [t EXCEPT !.list = <<k>> \o @]
    ELSE LET i == BucketOf(k, Len(t.ht))
             at == IF t.ht[i].count = 0 THEN 1 ELSE At(t, t.ht[i].chain)
         IN [t EXCEPT !.ht[i] = [count |-> @.count + 1, chain |-> k],
                      !.list = InsertAt(@, at, k)]

\* rehash, into the buckets of the block that malloc gave.
Rehash(t, size) ==
    FoldLeft(InsertElement, [list |-> <<>>, ht |-> [i \in 1..size |-> EmptyBucket]], t.list)

\* The keys that findElementGivenHash compares with k.
Searched(t, k) ==
    IF t.ht = <<>> THEN ToSet(t.list)
    ELSE LET bucket == t.ht[BucketOf(k, Len(t.ht))]
             at == At(t, bucket.chain)
         IN IF bucket.count = 0 THEN {}
            ELSE {t.list[i] : i \in {j \in at..(at + bucket.count - 1) : j <= Len(t.list)}}

Found(t, k) == k \in Searched(t, k)

\* removeElementGivenHash; the last element takes the buckets with it.
RemoveElement(t, k) ==
    LET at == At(t, k)
        i == BucketOf(k, Len(t.ht))
        next == IF at < Len(t.list) THEN t.list[at + 1] ELSE Nil
    IN IF Len(t.list) = 1 THEN [list |-> <<>>, ht |-> <<>>]
       ELSE [list |-> RemoveAt(t.list, at),
             ht |-> IF t.ht = <<>> THEN <<>>
                    ELSE [t.ht EXCEPT ![i] = [count |-> @.count - 1,
                                              chain |-> IF @.chain = k THEN next ELSE @.chain]]]

-----------------------------------------------------------------------------
(* The functions of hash.c.                                                *)

Table == [list |-> list, ht |-> ht]

Becomes(t) == list' = t.list /\ ht' = t.ht

\* sqlite4HashInsert of a new element; for one that is there it only replaces the
\* data.  More buckets are asked for when there are two elements for each, as
\* many as the limit allows; malloc may fail, or give one more.
HashInsert(k) ==
    LET n == Len(list) + 1
        size == IF 2 * n > MaxBucket THEN MaxBucket ELSE 2 * n
        grows == n >= Threshold /\ n > 2 * Len(ht) /\ size # Len(ht)
    IN /\ ~Found(Table, k)
       /\ \/ Becomes(InsertElement(Table, k))
          \/ grows /\ \E given \in {size, size + 1} :
                         Becomes(InsertElement(Rehash(Table, given), k))
       /\ stored' = stored \cup {k}

\* sqlite4HashInsert of NULL.
HashRemove(k) ==
    /\ stored' = stored \ {k}
    /\ IF Found(Table, k) THEN Becomes(RemoveElement(Table, k)) ELSE UNCHANGED <<list, ht>>

\* sqlite4HashClear.
HashClear == list' = <<>> /\ ht' = <<>> /\ stored' = {}

Next ==
    \/ \E k \in HashKey : HashInsert(k) \/ HashRemove(k)
    \/ HashClear

Spec == Init /\ [][Next]_vars

-----------------------------------------------------------------------------
(* Properties.                                                             *)

\* sqlite4HashFind: a key is found exactly if it has been stored and not removed,
\* whatever has been moved to other buckets since (hash.c:224-226).
FindsWhatIsStored == \A k \in HashKey : Found(Table, k) <=> k \in stored

\* A loop over all elements comes to each of them once (hash.h:77-86).
ListsEachOnce ==
    IsInjective(list) /\ ToSet(list) = stored

\* A bucket is the part of the list with its hash value, nothing else is
\* between (hash.h:31-33).
BucketsAreConnected ==
    \A i \in DOMAIN ht :
        LET mine == {j \in DOMAIN list : BucketOf(list[j], Len(ht)) = i}
            n == ht[i].count
        IN /\ n = Cardinality(mine)
           /\ n > 0 => \E first \in mine : list[first] = ht[i].chain
                                          /\ mine = first..(first + n - 1)

HashIsSound == FindsWhatIsStored /\ ListsEachOnce /\ BucketsAreConnected
=============================================================================
