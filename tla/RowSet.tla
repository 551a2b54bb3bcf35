------------------------------- MODULE RowSet -------------------------------
(***************************************************************************)
(* Row sets, src/sqlite4-build/src/rowset.c, as the opcodes of vdbe.c use  *)
(* them for two kinds of program: the scan of the terms of an OR, which    *)
(* tests each row and adds it if it is new (where.c), and DELETE or        *)
(* UPDATE, which add all rows and then read them (delete.c, update.c).     *)
(*                                                                         *)
(* Keys are compared as byte strings, a total order: here they are         *)
(* numbers.  A list linked by pRight is a sequence, a tree is <<>> or      *)
(* <<left, key, right>>.                                                   *)
(***************************************************************************)
EXTENDS Naturals, Sequences, SequencesExt

CONSTANTS
    RowKey,         \* the keys, a set of numbers
    MaxTerm,        \* bound on the terms of an OR
    Batches,        \* the values of a batch number, an u8
    MaxAdd          \* bound on the rows that DELETE or UPDATE adds

VARIABLES
    set,        \* the register with the row set
    nTerm,      \* the terms of the OR; 0 for a program without OR
    term,       \* the term that is scanned
    scanned,    \* the keys that the scan of this term has come to
    passed,     \* the keys given to the body of the loop, in their order
    added,      \* all keys that were inserted, in their order
    earlier,    \* those of earlier batches
    out         \* the keys that were read

vars == <<set, nTerm, term, scanned, passed, added, earlier, out>>

\* sqlite4RowSetInit, when the register gets its first key.
Null == [made |-> FALSE, list |-> <<>>, tree |-> <<>>, isSorted |-> TRUE, iBatch |-> 0]

Init ==
    /\ nTerm \in 0..MaxTerm
    /\ set = Null
    /\ term = 0 /\ scanned = {} /\ passed = <<>>
    /\ added = <<>> /\ earlier = {} /\ out = <<>>

-----------------------------------------------------------------------------
(* Lists and trees.                                                        *)

\* rowSetMerge: of two equal keys the one of the second list stays.
RECURSIVE Merge(_, _)
Merge(a, b) ==
    IF a = <<>> THEN b
    ELSE IF b = <<>> THEN a
    ELSE IF Head(a) < Head(b) THEN <<Head(a)>> \o Merge(Tail(a), b)
    ELSE IF Head(a) > Head(b) THEN <<Head(b)>> \o Merge(a, Tail(b))
    ELSE Merge(Tail(a), b)

\* One key is put into the buckets: bucket i is empty or holds 2^i of them,
\* less those that were equal.
RECURSIVE Carry(_, _, _)
Carry(bucket, i, list) ==
    IF i > Len(bucket) THEN Append(bucket, list)
    ELSE IF bucket[i] = <<>> THEN [bucket EXCEPT ![i] = list]
    ELSE Carry([bucket EXCEPT ![i] = <<>>], i + 1, Merge(bucket[i], list))

\* rowSetSort.
Sort(list) ==
    FoldLeft(LAMBDA merged, b : Merge(merged, b), <<>>,
             FoldLeft(LAMBDA bucket, k : Carry(bucket, 1, <<k>>), <<>>, list))

\* rowSetTreeToList.
RECURSIVE TreeToList(_)
TreeToList(t) ==
    IF t = <<>> THEN <<>> ELSE TreeToList(t[1]) \o <<t[2]>> \o TreeToList(t[3])

\* rowSetNDeepTree: a tree of this depth from the first keys of the list, and
\* the rest of the list.
RECURSIVE NDeepTree(_, _)
NDeepTree(list, depth) ==
    IF list = <<>> THEN [tree |-> <<>>, rest |-> <<>>]
    ELSE IF depth = 1
    THEN [tree |-> <<<<>>, Head(list), <<>>>>, rest |-> Tail(list)]
    ELSE LET left == NDeepTree(list, depth - 1)
         IN IF left.rest = <<>> THEN left
            ELSE LET right == NDeepTree(Tail(left.rest), depth - 1)
                 IN [tree |-> <<left.tree, Head(left.rest), right.tree>>,
                     rest |-> right.rest]

\* rowSetListToTree.
RECURSIVE Deepen(_, _, _)
Deepen(tree, list, depth) ==
    IF list = <<>> THEN tree
    ELSE LET right == NDeepTree(Tail(list), depth)
         IN Deepen(<<tree, Head(list), right.tree>>, right.rest, depth + 1)

ListToTree(list) == Deepen(<<<<>>, Head(list), <<>>>>, Tail(list), 1)

RECURSIVE Find(_, _)
Find(t, k) ==
    /\ t # <<>>
    /\ \/ t[2] = k
       \/ t[2] < k /\ Find(t[3], k)
       \/ t[2] > k /\ Find(t[1], k)

\* rowSetToList.
ToList(s) ==
    [s EXCEPT !.list = Merge(IF s.isSorted THEN @ ELSE Sort(@), TreeToList(s.tree)),
              !.tree = <<>>,
              !.isSorted = TRUE]

-----------------------------------------------------------------------------
(* The functions of rowset.c.                                              *)

\* Wrong on purpose: a key is only compared with the first one.
Insert_First(s, k) ==
    [s EXCEPT !.made = TRUE,
              !.list = Append(@, k),
              !.isSorted = @ /\ (s.list = <<>> \/ k >= Head(s.list))]

\* sqlite4RowSetInsert.
Insert(s, k) ==
    [s EXCEPT !.made = TRUE,
              !.list = Append(@, k),
              !.isSorted = @ /\ (s.list = <<>> \/ k >= Last(s.list))]

\* The first half of sqlite4RowSetTest: a new batch makes a tree of all that is
\* there.
NewBatch(s, b) ==
    IF b = s.iBatch THEN s
    ELSE IF s.list = <<>> THEN [s EXCEPT !.iBatch = b]
    ELSE LET l == ToList(s)
         IN [l EXCEPT !.tree = ListToTree(l.list), !.list = <<>>, !.iBatch = b]

-----------------------------------------------------------------------------
(* The programs.                                                           *)

\* The batch number of a term: -1 for the last, which an u8 cannot hold.
Batch(t) == IF t = nTerm - 1 THEN Batches - 1 ELSE t % Batches

\* OP_RowSetTest: a register without row set is not tested.  A key that is not
\* found is added and goes to the body of the loop.
RowSetTest(k) ==
    LET b == Batch(term)
        s == IF set.made THEN NewBatch(set, b) ELSE set
        seen == IF set.made /\ b # set.iBatch THEN ToSet(added) ELSE earlier
    IN /\ nTerm > 0 /\ out = <<>>
       /\ k \notin scanned
       /\ scanned' = scanned \cup {k}
       /\ earlier' = seen
       /\ IF Find(s.tree, k)
          THEN set' = s /\ UNCHANGED <<passed, added>>
          ELSE /\ set' = Insert(s, k)
               /\ added' = Append(added, k)
               /\ passed' = Append(passed, k)
       /\ UNCHANGED <<nTerm, term, out>>

\* The end of the scan of a term.
NextTerm ==
    /\ term + 1 < nTerm /\ out = <<>>
    /\ term' = term + 1
    /\ scanned' = {}
    /\ UNCHANGED <<set, nTerm, passed, added, earlier, out>>

\* OP_RowSetAdd.
RowSetAdd(k) ==
    /\ nTerm = 0 /\ out = <<>> /\ Len(added) < MaxAdd
    /\ set' = Insert(set, k)
    /\ added' = Append(added, k)
    /\ UNCHANGED <<nTerm, term, scanned, passed, earlier, out>>

\* OP_RowSetRead with sqlite4RowSetRead and sqlite4RowSetNext; an empty set is
\* cleared.
RowSetRead ==
    LET s == ToList(set)
    IN /\ set.made
       /\ IF s.list # <<>>
          THEN /\ out' = Append(out, Head(s.list))
               /\ set' = [s EXCEPT !.list = Tail(@)]
               /\ UNCHANGED <<nTerm, term, scanned, passed, added, earlier>>
          ELSE /\ set' = Null
               /\ term' = 0 /\ scanned' = {} /\ passed' = <<>>
               /\ added' = <<>> /\ earlier' = {} /\ out' = <<>>
               /\ UNCHANGED nTerm

Next ==
    \/ \E k \in RowKey : RowSetTest(k) \/ RowSetAdd(k)
    \/ NextTerm
    \/ RowSetRead

Spec == Init /\ [][Next]_vars

-----------------------------------------------------------------------------
(* Properties.                                                             *)

\* Nothing is lost: what was read and what is left are what was inserted, in
\* ascending order, whether it is on the unsorted list, in the tree, or both
\* (rowset.c:45: "extract the elements of the RowSet in sorted order").
ReadsAllInOrder ==
    LET rest == out \o ToList(set).list
    IN /\ ToSet(rest) = ToSet(added)
       /\ \A i \in 1..(Len(rest) - 1) : rest[i] <= rest[i + 1]

\* A test sees what was inserted before the batch number last changed, nothing
\* else (rowset.c:36-43).
SeesEarlierBatches == out = <<>> => \A k \in RowKey : Find(set.tree, k) <=> k \in earlier

\* A row that several terms of an OR find goes to the body of the loop once
\* (where.c:3747-3750).
PassesOnce == IsInjective(passed)

RowSetIsSound == ReadsAllInOrder /\ SeesEarlierBatches /\ PassesOnce

\* Each key is read once, however often it was inserted (rowset.c:229-232: "Merge
\* two lists of RowSetEntry objects. Remove duplicates").
ReadsEachOnce == IsInjective(out)
=============================================================================
