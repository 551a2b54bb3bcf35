----------------------------- MODULE KVMemTree -----------------------------
(***************************************************************************)
(* The in-memory key-value store of src/sqlite4-build/src/kvmem.c with its *)
(* memory: the nodes of the balanced tree and the pointers between them,   *)
(* the reference counts of nodes and payloads, the linked list of change   *)
(* records of every transaction level, and the cursors.  The loops over    *)
(* lists and tree are the code's.  Module KVMem is what remains when the   *)
(* shape of the tree, the counts and the cursors are forgotten.            *)
(*                                                                         *)
(* The address of a node or payload is a pair <<k, i>>: one of the places  *)
(* where sqlite4_malloc may put an object of key k.  The code never looks  *)
(* at addresses except for equality, so the lowest free i is as good as    *)
(* any.  Every payload is its own value.  Reading a node that is free, or  *)
(* unlinking one that the tree does not hold, has no defined outcome: it   *)
(* sets fault, and nothing happens afterwards.                             *)
(***************************************************************************)
EXTENDS Integers, SequencesExt, FiniteSetsExt

CONSTANTS
    Key,            \* the keys, numbers: kvmemKeyCompare is their order
    Cursor,         \* the cursors that may be open at the same time
    MaxLevel,       \* bound on the transaction level
    MaxChng,        \* bound on the number of change records of one node
    MaxCopy,        \* bound on the nodes, and on the payloads, of one key
    Transactional   \* FALSE with SQLITE4_KVOPEN_NO_TRANSACTIONS

ASSUME KVMemTreeAssumption ==
    /\ Key \subseteq Nat \ {0} /\ IsFiniteSet(Key)
    /\ IsFiniteSet(Cursor)
    /\ {MaxLevel, MaxChng, MaxCopy} \subseteq Nat \ {0} /\ MaxLevel >= 2
    /\ Transactional \in BOOLEAN

Levels == 0..MaxLevel
WriteLevels == 2..MaxLevel
Address == Key \X (1..MaxCopy)
Null == <<0, 0>>
Wild == <<0, 1>>                    \* what is read from freed memory
Pointer == Address \cup {Null}
Side == {"before", "after"}         \* the fields pBefore and pAfter
Other(d) == IF d = "before" THEN "after" ELSE "before"
aKey(n) == n[1]                     \* the key of node n

VARIABLES
    iTransLevel,
    heap,       \* the tree, the nodes' other fields, the payloads' nRef, fault
    apLog,      \* apLog[l]: the change records of level l, newest first
    cursor      \* for each cursor: open or not, pNode, pData

vars == <<iTransLevel, heap, apLog, cursor>>

Closed == [open |-> FALSE, pNode |-> Null, pData |-> Null]

NoChild == [d \in Side |-> Null]

\* The pointers and heights of the nodes; those of a free node are reset.
EmptyTree == [pRoot |-> Null, child |-> [n \in Address |-> NoChild],
              up |-> [n \in Address |-> Null], height |-> [n \in Address |-> 0],
              imbalance |-> [n \in Address |-> 0]]

\* A count of 0: the node or payload is free.
EmptyHeap == [tree |-> EmptyTree, pData |-> [n \in Address |-> Null],
              mxTrans |-> [n \in Address |-> 0], nRef |-> [n \in Address |-> 0],
              payRef |-> [d \in Address |-> 0], fault |-> "none"]

\* sqlite4KVStoreOpenMem
Init ==
    /\ iTransLevel = 0
    /\ heap = EmptyHeap
    /\ apLog = [l \in WriteLevels |-> <<>>]
    /\ cursor = [c \in Cursor |-> Closed]

-----------------------------------------------------------------------------
(* Memory and reference counts.                                            *)

Allocated(h, n) == n \in Address /\ h.nRef[n] > 0
FreeNodes(h, k) == {i \in 1..MaxCopy : h.nRef[<<k, i>>] = 0}
FreePayloads(h, k) == {i \in 1..MaxCopy : h.payRef[<<k, i>>] = 0}

DataRef(h, d) == IF d = Null THEN h ELSE [h EXCEPT !.payRef[d] = @ + 1]
DataUnref(h, d) == IF d = Null THEN h ELSE [h EXCEPT !.payRef[d] = @ - 1]

FreeNode(h, n) ==
    [h EXCEPT !.pData[n] = Null, !.mxTrans[n] = 0, !.nRef[n] = 0,
              !.tree = [@ EXCEPT !.child[n] = NoChild, !.up[n] = Null,
                                 !.height[n] = 0, !.imbalance[n] = 0]]

NodeRef(h, n) == IF n = Null THEN h ELSE [h EXCEPT !.nRef[n] = @ + 1]
NodeUnref(h, n) ==
    IF n = Null THEN h
    ELSE IF h.nRef[n] > 1 THEN [h EXCEPT !.nRef[n] = @ - 1]
    ELSE DataUnref(FreeNode(h, n), h.pData[n])

-----------------------------------------------------------------------------
(* The balanced tree t of a heap.                                          *)

Height(t, n) == IF n = Null THEN 0 ELSE t.height[n]

RecomputeHeight(t, n) ==
    LET hBefore == Height(t, t.child[n]["before"])
        hAfter == Height(t, t.child[n]["after"])
    IN [t EXCEPT !.imbalance[n] = hBefore - hAfter,
                 !.height[n] = (IF hBefore > hAfter THEN hBefore ELSE hAfter) + 1]

\* Make q's parent n, unless q is NULL.
SetUp(t, q, n) == IF q = Null THEN t ELSE [t EXCEPT !.up[q] = n]

\* kvmemRotateBefore (d = "before") and kvmemRotateAfter: p's child on side d
\* takes p's place, p becomes its child on the other side.
Rotate(t, p, d) ==
    LET c == t.child[p][d]
        y == t.child[c][Other(d)]
        turned == [t EXCEPT
                     !.up = [@ EXCEPT ![c] = t.up[p], ![p] = c],
                     !.child = [@ EXCEPT ![c][Other(d)] = p, ![p][d] = y]]
    IN RecomputeHeight(RecomputeHeight(SetUp(turned, y, p), p), c)

\* Write q through kvmemFromPtr(n, &pRoot): to the pointer that leads to n.
SetFromPtr(t, n, q) ==
    LET up == t.up[n]
    IN IF up = Null THEN [t EXCEPT !.pRoot = q]
       ELSE IF t.child[up]["after"] = n THEN [t EXCEPT !.child[up]["after"] = q]
       ELSE [t EXCEPT !.child[up]["before"] = q]

\* The loop of kvmemBalance at node n: the tree it leaves, and where it goes on.
BalanceAt(t0, n) ==
    LET t == RecomputeHeight(t0, n)
        d == IF t.imbalance[n] > 0 THEN "before" ELSE "after"
        c == t.child[n][d]
        zigzag == IF d = "before" THEN t.imbalance[c] < 0 ELSE t.imbalance[c] > 0
        straight == IF zigzag
                    THEN [Rotate(t, c, Other(d)) EXCEPT
                            !.child[n][d] = t.child[c][Other(d)]]
                    ELSE t
        top == straight.child[n][d]
        turned == Rotate(SetFromPtr(straight, n, top), n, d)
    IN IF t.imbalance[n] \in -1..1 THEN [tree |-> t, at |-> t.up[n]]
       ELSE [tree |-> turned, at |-> turned.up[top]]

\* kvmemBalance from n up to the root, which becomes pRoot.  No way up is longer
\* than there are nodes.
Balance(t, n) ==
    LET way[i \in 0..Cardinality(Address)] ==
          IF i = 0 THEN [tree |-> t, at |-> n]
          ELSE IF way[i - 1].at = Null THEN way[i - 1]
          ELSE BalanceAt(way[i - 1].tree, way[i - 1].at)
    IN way[Cardinality(Address)].tree

\* kvmemFirst (d = "before") and kvmemLast (d = "after")
Extreme(h, n, d) ==
    LET end[m \in Pointer] ==
          IF ~Allocated(h, m) THEN Wild
          ELSE IF h.tree.child[m][d] = Null THEN m
          ELSE end[h.tree.child[m][d]]
    IN end[n]

\* Wrong on purpose: up a single level.
Climb_Once(h, n, from, d) ==
    IF ~Allocated(h, n) THEN Wild
    ELSE IF h.tree.child[n][d] = from THEN h.tree.up[n]
    ELSE Extreme(h, h.tree.child[n][d], Other(d))

\* kvmemNext (d = "after") and kvmemPrev (d = "before"), at node n and coming
\* from a node: up as long as that is on side d, or down.
Climb(h, n, from, d) ==
    LET to[w \in Pointer \X Pointer] ==
          IF w[1] = Null THEN Null
          ELSE IF ~Allocated(h, w[1]) THEN Wild
          ELSE IF h.tree.child[w[1]][d] = w[2] THEN to[<<h.tree.up[w[1]], w[1]>>]
          ELSE IF w[2] # Null THEN w[1]
          ELSE Extreme(h, h.tree.child[w[1]][d], Other(d))
    IN to[<<n, from>>]
Step(h, n, d) == Climb(h, n, Null, d)

\* The loop of kvmemNextEntry and kvmemPrevEntry: to the next node with data.
StepEntry(h, n, d) ==
    LET entry[m \in Address] ==
          LET e == Step(h, m, d)
          IN IF e \notin Address \/ h.pData[e] # Null THEN e ELSE entry[e]
    IN entry[n]

\* Where the search for key k from node n ends: at k's node or at the node that
\* would be its parent.
Descend(t, n, k) ==
    LET place[m \in Address] ==
          LET d == IF k < aKey(m) THEN "before" ELSE "after"
          IN IF k = aKey(m) \/ t.child[m][d] = Null THEN m
             ELSE place[t.child[m][d]]
    IN place[n]

\* Wrong on purpose: balances from where x goes, not from where it was.
pBalance_Above(h, n) ==
    LET b == h.tree.child[n]["before"]
        a == h.tree.child[n]["after"]
    IN IF a # Null /\ b # Null THEN Extreme(h, a, "before")
       ELSE IF a # Null THEN a ELSE IF b # Null THEN b ELSE h.tree.up[n]

\* The lowest node whose height may change when n is removed.
pBalance(h, n) ==
    LET b == h.tree.child[n]["before"]
        a == h.tree.child[n]["after"]
        x == Extreme(h, a, "before")
    IN IF a # Null /\ b # Null THEN IF x = a THEN x ELSE h.tree.up[x]
       ELSE IF a # Null THEN a ELSE IF b # Null THEN b ELSE h.tree.up[n]

\* Put x, the first node of n's pAfter subtree, in the place of n, which has two
\* children.
PutFirstAfter(t, n, x) ==
    LET b == t.child[n]["before"]
        a == t.child[n]["after"]
        y == t.child[x]["after"]
        unlinked == SetUp(SetFromPtr(t, x, y), y, t.up[x])
        lifted == IF x = a THEN t
                  ELSE SetUp([unlinked EXCEPT !.child[x]["after"] = a], a, x)
        joined == SetUp([lifted EXCEPT !.child[x]["before"] = b], b, x)
    IN SetFromPtr(SetUp(joined, x, t.up[n]), n, x)

\* Put n's only child, or NULL, in the place of n.
PutOnly(t, n) ==
    LET b == t.child[n]["before"]
        q == IF b = Null THEN t.child[n]["after"] ELSE b
    IN SetUp(SetFromPtr(t, n, q), q, t.up[n])

\* The tree without n, not yet balanced.
Unlink(h, n) ==
    IF Null \in {h.tree.child[n][d] : d \in Side} THEN PutOnly(h.tree, n)
    ELSE PutFirstAfter(h.tree, n,
                       Extreme(h, h.tree.child[n]["after"], "before"))

(***************************************************************************)
(* kvmemRemoveNode of a node that is in the tree.  A node that a cursor    *)
(* points to stays allocated, with the pointers it had.                    *)
(***************************************************************************)
RemoveNode(h, n) ==
    NodeUnref([DataUnref(h, h.pData[n]) EXCEPT
                 !.pData[n] = Null,
                 !.tree = Balance(Unlink(h, n), pBalance(h, n))], n)

Subtree(t, n) ==
    LET in[m \in Pointer] ==
          IF m = Null THEN {}
          ELSE {m} \cup in[t.child[m]["before"]] \cup in[t.child[m]["after"]]
    IN in[n]
InTree(h) == Subtree(h.tree, h.tree.pRoot)

-----------------------------------------------------------------------------
(* Transactions.                                                           *)

Ok == heap.fault = "none"

\* The change records of the levels above l, in the order in which
\* kvmemCommitPhaseTwo and kvmemRollback take them: newest first.
LogsAbove(lists, l) ==
    LET upTo[m \in 0..MaxLevel] ==
          IF m <= l \/ m <= 1 THEN <<>> ELSE lists[m] \o upTo[m - 1]
    IN upTo[MaxLevel]
RecordsOf(k, log) == SelectSeq(log, LAMBDA r : aKey(r.node) = k)

\* kvmemBegin
Begin(l) ==
    /\ Ok
    /\ l = iTransLevel + 1 \/ (iTransLevel = 0 /\ l = 2)
    /\ l \in Levels
    /\ iTransLevel' = l
    /\ apLog' = IF l \in WriteLevels THEN [apLog EXCEPT ![l] = <<>>] ELSE apLog
    /\ UNCHANGED <<heap, cursor>>

\* kvmemNewChng: the node's payload moves into a new record, d takes its place.
NewChng(h, n, d) ==
    /\ Len(RecordsOf(aKey(n), LogsAbove(apLog, 1))) < MaxChng
    /\ apLog' = [apLog EXCEPT ![iTransLevel] =
                   <<[node |-> n, pData |-> h.pData[n],
                      oldTrans |-> h.mxTrans[n]]>> \o @]
    /\ heap' = [h EXCEPT !.mxTrans[n] = iTransLevel, !.pData[n] = d]

\* Wrong on purpose: the payload of a row already logged is not released.
ReplaceOld_Leaks(h, n, d) ==
    IF Transactional /\ h.mxTrans[n] # iTransLevel
    THEN NewChng(h, n, d)
    ELSE heap' = [h EXCEPT !.pData[n] = d] /\ UNCHANGED apLog

\* A new payload for a node that exists.
ReplaceOld(h, n, d) ==
    IF Transactional /\ h.mxTrans[n] # iTransLevel
    THEN NewChng(h, n, d)
    ELSE /\ heap' = [DataUnref(h, h.pData[n]) EXCEPT !.pData[n] = d]
         /\ UNCHANGED apLog

\* The tree t with a leaf n under the node up, not yet balanced.
AddLeaf(t, n, up) ==
    LET side == IF aKey(n) < aKey(up) THEN "before" ELSE "after"
        made == [t EXCEPT !.child[n] = NoChild, !.up[n] = up,
                          !.height[n] = 1, !.imbalance[n] = 0]
    IN IF up = Null THEN [made EXCEPT !.pRoot = n]
       ELSE [made EXCEPT !.child[up][side] = n]

\* A new leaf n under the node up, and its payload.  kvmemNewNode logs it as a
\* row that had no data and was not logged.
ReplaceNew(h, n, up, d) ==
    /\ heap' = [h EXCEPT !.pData[n] = d, !.nRef[n] = 1,
                         !.mxTrans[n] = IF Transactional THEN iTransLevel ELSE 0,
                         !.tree = Balance(AddLeaf(@, n, up), n)]
    /\ apLog' = IF ~Transactional THEN apLog
                ELSE [apLog EXCEPT ![iTransLevel] =
                        <<[node |-> n, pData |-> Null, oldTrans |-> 0]>> \o @]

\* kvmemReplace, with a new payload d
Replace(k) ==
    /\ Ok
    /\ iTransLevel >= 2
    /\ FreePayloads(heap, k) # {} /\ FreeNodes(heap, k) # {}
    /\ LET d == <<k, Min(FreePayloads(heap, k))>>
           n == <<k, Min(FreeNodes(heap, k))>>
           h == [heap EXCEPT !.payRef[d] = 1]
           at == IF h.tree.pRoot = Null THEN Null
                 ELSE Descend(h.tree, h.tree.pRoot, k)
       IN IF aKey(at) = k THEN ReplaceOld(h, at, d) ELSE ReplaceNew(h, n, at, d)
    /\ UNCHANGED <<iTransLevel, cursor>>

(***************************************************************************)
(* One record in the loop of kvmemCommitPhaseTwo to level 0 or 1.  A       *)
(* record of a node that is not in the tree any more has no defined        *)
(* outcome: the fault is noted, and the loop goes on without it.           *)
(***************************************************************************)
CommitRecord(h, r) ==
    DataUnref(IF r.node \notin InTree(h) THEN [h EXCEPT !.fault = "log"]
              ELSE IF h.pData[r.node] # Null
              THEN [h EXCEPT !.mxTrans[r.node] = r.oldTrans]
              ELSE RemoveNode(h, r.node),
              r.pData)
CommitRecords(h, log) ==
    LET done[i \in 0..Len(log)] ==
          IF i = 0 THEN h ELSE CommitRecord(done[i - 1], log[i])
    IN done[Len(log)]

CommitOutermost(l) ==
    /\ Ok /\ Transactional
    /\ l \in 0..1 /\ l < iTransLevel
    /\ iTransLevel' = l
    /\ heap' = CommitRecords(heap, LogsAbove(apLog, l))
    /\ apLog' = [m \in WriteLevels |-> <<>>]
    /\ UNCHANGED cursor

\* The nodes of a list's records belong to level l.
Relabelled(h, log, l) ==
    [h EXCEPT !.mxTrans = [n \in Address |->
        IF \E i \in DOMAIN log : log[i].node = n THEN l ELSE @[n]]]

\* Wrong on purpose: the older records come first.
CommitNested_Appends(l) ==
    /\ Ok /\ Transactional
    /\ l \in WriteLevels /\ l < iTransLevel
    /\ iTransLevel' = l
    /\ heap' = Relabelled(heap, LogsAbove(apLog, l), l)
    /\ apLog' = [m \in WriteLevels |->
                   IF m < l THEN apLog[m]
                   ELSE IF m = l THEN apLog[l] \o LogsAbove(apLog, l) ELSE <<>>]
    /\ UNCHANGED cursor

\* kvmemCommitPhaseTwo to a level above 1: list after list is put in front of
\* the list of the level below.
CommitNested(l) ==
    /\ Ok /\ Transactional
    /\ l \in WriteLevels /\ l < iTransLevel
    /\ iTransLevel' = l
    /\ heap' = Relabelled(heap, LogsAbove(apLog, l), l)
    /\ apLog' = [m \in WriteLevels |->
                   IF m < l THEN apLog[m]
                   ELSE IF m = l THEN LogsAbove(apLog, l) \o apLog[l] ELSE <<>>]
    /\ UNCHANGED cursor

\* One record in the loop of kvmemRollback.
UndoRecord(h, r) ==
    IF r.node \notin InTree(h) THEN [h EXCEPT !.fault = "log"]
    ELSE IF r.pData # Null \/ r.oldTrans > 0
    THEN [DataUnref(h, h.pData[r.node]) EXCEPT !.pData[r.node] = r.pData,
                                               !.mxTrans[r.node] = r.oldTrans]
    ELSE RemoveNode(h, r.node)
UndoRecords(h, log) ==
    LET done[i \in 0..Len(log)] ==
          IF i = 0 THEN h ELSE UndoRecord(done[i - 1], log[i])
    IN done[Len(log)]

UndoTo(l) ==
    /\ heap' = UndoRecords(heap, LogsAbove(apLog, l))
    /\ apLog' = [m \in WriteLevels |-> IF m <= l THEN apLog[m] ELSE <<>>]

\* kvmemRollback
Rollback(l) ==
    /\ Ok /\ Transactional
    /\ l \in Levels /\ l <= iTransLevel
    /\ iTransLevel' = l
    /\ UndoTo(l)
    /\ UNCHANGED cursor

\* kvmemRevert
Revert(l) ==
    /\ Ok /\ Transactional
    /\ l \in Levels \ {0} /\ l <= iTransLevel
    /\ iTransLevel' = l
    /\ UndoTo(l - 1)
    /\ UNCHANGED cursor

\* kvmemClose once every cursor is closed: kvmemCommitPhaseTwo to level 0, then
\* everything is freed.  A new store is opened.
Reopen ==
    /\ Ok
    /\ \A c \in Cursor : ~cursor[c].open
    /\ heap' = [EmptyHeap EXCEPT !.fault =
                  CommitRecords(heap, LogsAbove(apLog, 0)).fault]
    /\ iTransLevel' = 0
    /\ apLog' = [m \in WriteLevels |-> <<>>]
    /\ UNCHANGED cursor

-----------------------------------------------------------------------------
(* Cursors.                                                                *)

\* kvmemReset of a cursor, as far as the heap is concerned
ResetHeap(h, cur) == NodeUnref(DataUnref(h, cur.pData), cur.pNode)

\* Point cursor c, which holds nothing, to node n of heap h or to nothing.
PointTo(c, h, n) ==
    LET d == IF n = Null THEN Null ELSE h.pData[n]
    IN /\ heap' = NodeRef(DataRef(h, d), n)
       /\ cursor' = [cursor EXCEPT ![c] = [open |-> TRUE, pNode |-> n,
                                           pData |-> d]]

OpenCursor(c) ==
    /\ Ok /\ ~cursor[c].open
    /\ cursor' = [cursor EXCEPT ![c].open = TRUE]
    /\ UNCHANGED <<iTransLevel, heap, apLog>>

CloseCursor(c) ==
    /\ Ok /\ cursor[c].open
    /\ heap' = ResetHeap(heap, cursor[c])
    /\ cursor' = [cursor EXCEPT ![c] = Closed]
    /\ UNCHANGED <<iTransLevel, apLog>>

Reset(c) ==
    /\ Ok /\ cursor[c].open
    /\ PointTo(c, ResetHeap(heap, cursor[c]), Null)
    /\ UNCHANGED <<iTransLevel, apLog>>

\* kvmemNextEntry (d = "after") and kvmemPrevEntry (d = "before")
StepCursor(c, d) ==
    /\ Ok /\ iTransLevel >= 1
    /\ cursor[c].pNode # Null
    /\ LET h == ResetHeap(heap, cursor[c])
           m == StepEntry(h, cursor[c].pNode, d)
       IN IF m \notin Pointer
          THEN /\ heap' = [h EXCEPT !.fault = "cursor"]
               /\ cursor' = [cursor EXCEPT ![c].pNode = Null, ![c].pData = Null]
          ELSE PointTo(c, h, m)
    /\ UNCHANGED <<iTransLevel, apLog>>

\* The node that the search of kvmemSeek for key k passes last among those of
\* smaller key (dir < 0), of larger key (dir > 0), or k's own.
Best(t, k, dir) ==
    LET to[w \in Pointer \X Pointer] ==
          IF w[1] = Null THEN w[2]
          ELSE IF k = aKey(w[1]) THEN w[1]
          ELSE IF k > aKey(w[1])
          THEN to[<<t.child[w[1]]["after"], IF dir < 0 THEN w[1] ELSE w[2]>>]
          ELSE to[<<t.child[w[1]]["before"], IF dir > 0 THEN w[1] ELSE w[2]>>]
    IN to[<<t.pRoot, Null>>]

\* Where kvmemSeek leaves the cursor: on a node without data it goes on to the
\* next entry in the direction sought, unless the match must be exact.
SeekNode(h, k, dir) ==
    LET best == Best(h.tree, k, dir)
    IN IF best = Null \/ h.pData[best] # Null \/ dir = 0 THEN best
       ELSE StepEntry(h, best, IF dir > 0 THEN "after" ELSE "before")

\* What kvmemSeek returns then.
SeekResult(h, k, dir) ==
    LET n == SeekNode(h, k, dir)
    IN IF n = Null \/ h.pData[n] = Null THEN "NOTFOUND"
       ELSE IF aKey(n) = k THEN "OK" ELSE "INEXACT"

\* kvmemSeek
Seek(c, k, dir) ==
    /\ Ok /\ iTransLevel >= 1
    /\ cursor[c].open
    /\ LET h == ResetHeap(heap, cursor[c]) IN PointTo(c, h, SeekNode(h, k, dir))
    /\ UNCHANGED <<iTransLevel, apLog>>

(***************************************************************************)
(* kvmemDelete.  With transactions the node stays in the tree without      *)
(* data; without them it is removed, and the cursor points to nothing.     *)
(***************************************************************************)
DeleteLogged(n) ==
    /\ heap.pData[n] # Null
    /\ IF heap.mxTrans[n] < iTransLevel THEN NewChng(heap, n, Null)
       ELSE /\ heap' = [DataUnref(heap, heap.pData[n]) EXCEPT
                          !.pData[n] = Null]
            /\ UNCHANGED apLog
    /\ UNCHANGED cursor

DeleteNow(c, n) ==
    /\ LET h == NodeUnref(heap, n)
       IN heap' = IF n \in InTree(heap) THEN RemoveNode(h, n)
                  ELSE [h EXCEPT !.fault = "cursor"]
    /\ cursor' = [cursor EXCEPT ![c].pNode = Null]
    /\ UNCHANGED apLog

Delete(c) ==
    /\ Ok
    /\ iTransLevel >= 2
    /\ cursor[c].pNode # Null
    /\ IF Transactional THEN DeleteLogged(cursor[c].pNode)
       ELSE DeleteNow(c, cursor[c].pNode)
    /\ UNCHANGED iTransLevel

Next ==
    \/ \E l \in Levels : Begin(l)
    \/ \E k \in Key : Replace(k)
    \/ \E l \in 0..1 : CommitOutermost(l)
    \/ \E l \in WriteLevels : CommitNested(l)
    \/ \E l \in Levels : Rollback(l)
    \/ \E l \in Levels : Revert(l)
    \/ Reopen
    \/ \E c \in Cursor : OpenCursor(c)
    \/ \E c \in Cursor : CloseCursor(c)
    \/ \E c \in Cursor : Reset(c)
    \/ \E c \in Cursor, k \in Key, dir \in -1..1 : Seek(c, k, dir)
    \/ \E c \in Cursor, d \in Side : StepCursor(c, d)
    \/ \E c \in Cursor : Delete(c)

Spec == Init /\ [][Next]_vars

-----------------------------------------------------------------------------
TypeOK ==
    /\ iTransLevel \in Levels
    /\ heap \in [tree : [pRoot : Pointer, child : [Address -> [Side -> Pointer]],
                          up : [Address -> Pointer], height : [Address -> Nat],
                          imbalance : [Address -> -2..2]],
                 pData : [Address -> Pointer], mxTrans : [Address -> Levels],
                 nRef : [Address -> Nat], payRef : [Address -> Nat],
                 fault : {"none", "log", "cursor"}]
    /\ apLog \in [WriteLevels -> Seq([node : Address, pData : Pointer,
                                      oldTrans : Levels])]
    /\ cursor \in [Cursor -> [open : BOOLEAN, pNode : Pointer, pData : Pointer]]

Live(h) == {n \in InTree(h) : h.pData[n] # Null}
NodeOf(h, k) == CHOOSE n \in InTree(h) : aKey(n) = k

(***************************************************************************)
(* The nodes form an AVL tree: keys in order, every pUp the inverse of a   *)
(* pBefore or pAfter (assertUpPointers), heights and imbalances exact, no  *)
(* imbalance beyond one, after every rotation and removal.                 *)
(***************************************************************************)
TreeSound ==
    LET t == heap.tree
        In(n, d) == Subtree(t, t.child[n][d])
        High(n, d) == Height(t, t.child[n][d])
    IN /\ t.pRoot # Null => t.up[t.pRoot] = Null
       /\ \A n \in InTree(heap) :
            /\ \A d \in Side : t.child[n][d] # Null => t.up[t.child[n][d]] = n
            /\ \A m \in In(n, "before") : aKey(m) < aKey(n)
            /\ \A m \in In(n, "after") : aKey(m) > aKey(n)
            /\ t.height[n] = 1 + Max({High(n, "before"), High(n, "after")})
            /\ t.imbalance[n] = High(n, "before") - High(n, "after")
            /\ t.imbalance[n] \in -1..1

(***************************************************************************)
(* Until a fault, every count is the number of references there are: a     *)
(* node's from the tree and the cursors, a payload's from nodes, change    *)
(* records and cursors.  So nothing is freed while it is in use (kv.h:104  *)
(* promises that what xKey and xData returned stays), nothing leaks, and a *)
(* change record never keeps a node alive.                                 *)
(***************************************************************************)
RefCountsExact ==
    LET log == LogsAbove(apLog, 1)
        Of(S) == Cardinality(S)
        CursorsAt(n) == {c \in Cursor : cursor[c].pNode = n}
    IN Ok =>
       /\ \A n \in Address :
            heap.nRef[n] = Of({n} \cap InTree(heap)) + Of(CursorsAt(n))
       /\ \A d \in Address :
            heap.payRef[d] =
                Of({n \in Address : heap.pData[n] = d})
                  + Of({i \in DOMAIN log : log[i].pData = d})
                  + Of({c \in Cursor : cursor[c].pData = d})

\* Among the nodes S the nearest in direction dir whose key satisfies P.
Nearest(S, dir) ==
    IF S = {} THEN Null
    ELSE CHOOSE n \in S : \A m \in S :
           IF dir > 0 THEN aKey(n) <= aKey(m) ELSE aKey(n) >= aKey(m)

(***************************************************************************)
(* kv.h:69-95: xSeek finds the entry of the key, or the nearest one in the *)
(* direction sought, however many deleted rows are in between, and returns *)
(* OK, INEXACT or NOTFOUND accordingly.                                    *)
(***************************************************************************)
SeekFindsNearest ==
    \A k \in Key, dir \in -1..1 :
        LET S == {n \in Live(heap) :
                    aKey(n) = k \/ (aKey(n) > k /\ dir > 0)
                                \/ (aKey(n) < k /\ dir < 0)}
            n == SeekNode(heap, k, dir)
        IN /\ SeekResult(heap, k, dir) =
                IF S = {} THEN "NOTFOUND"
                ELSE IF \E m \in S : aKey(m) = k THEN "OK" ELSE "INEXACT"
           /\ S # {} => n = Nearest(S, IF dir = 0 THEN 1 ELSE dir)
           /\ S = {} /\ dir # 0 => n = Null

\* Where xNext (d = "after") or xPrev must lead from a node of key k.
Neighbour(k, d) ==
    IF d = "after" THEN Nearest({m \in Live(heap) : aKey(m) > k}, 1)
    ELSE Nearest({m \in Live(heap) : aKey(m) < k}, -1)

(***************************************************************************)
(* From every node that is in the tree, deleted or not, xNext and xPrev    *)
(* lead to the nearest row there is, whatever was rotated, inserted or     *)
(* undone since a cursor came to the node.                                 *)
(***************************************************************************)
ScanVisitsNeighbour ==
    \A n \in InTree(heap), d \in Side :
        StepEntry(heap, n, d) = Neighbour(aKey(n), d)

\* A cursor finds every row that is there and none that is not.
CursorsFindRows == SeekFindsNearest /\ ScanVisitsNeighbour

\* The nodes, payloads and records of each key, in the terms of KVMem.
Keys(S) == {aKey(n) : n \in S}
AtNode(k, field, default) ==
    IF k \in Keys(InTree(heap)) THEN field[NodeOf(heap, k)] ELSE default
Tagged(l, k) ==
    LET s == RecordsOf(k, Reverse(apLog[l]))
    IN [i \in DOMAIN s |-> [lvl |-> l, pData |-> s[i].pData,
                            oldTrans |-> s[i].oldTrans]]

KVM == INSTANCE KVMem WITH
    Val <- Address, NoVal <- Null,
    tree <- Keys(InTree(heap)),
    pData <- [k \in Key |-> AtNode(k, heap.pData, Null)],
    mxTrans <- [k \in Key |-> AtNode(k, heap.mxTrans, 0)],
    chng <- [k \in Key |-> FlattenSeq([i \in 1..(MaxLevel - 1) |->
                                         Tagged(i + 1, k)])],
    freedUse <- heap.fault = "log"

(***************************************************************************)
(* The tree, the counts, the lists and the cursors implement KVMem, hence  *)
(* (by the theorem about KVMem) the nested transactions of KVStore.        *)
(***************************************************************************)
ImplementsKVMem == KVM!Spec

-----------------------------------------------------------------------------
(* Statements of the documentation that the code does not keep.            *)

(***************************************************************************)
(* kv.h:115-123, of a cursor on a row that was deleted: "Subsequent xNext  *)
(* or xPrev calls on that cursor will work the same as if the entry had    *)
(* not been deleted", also after the commit that removes deleted rows from *)
(* the tree.                                                               *)
(***************************************************************************)
CommitKeepsScans ==
    [][(\E l \in 0..1 : CommitOutermost(l)) =>
         \A c \in Cursor, d \in Side :
           LET n == cursor[c].pNode
           IN Ok' /\ n # Null =>
                StepEntry(ResetHeap(heap', cursor[c]), n, d)
                  = (Neighbour(aKey(n), d))']_vars

(***************************************************************************)
(* kv.h:69-72, of xSeek with dir 0: "the match must be exact or else the   *)
(* seek fails and the cursor is left pointing to EOF".                     *)
(***************************************************************************)
FailedSeekIsAtEOF ==
    \A k \in Key, dir \in -1..1 :
        SeekResult(heap, k, dir) = "NOTFOUND" => SeekNode(heap, k, dir) = Null

-----------------------------------------------------------------------------
(***************************************************************************)
(* The state up to the addresses of payloads of the same key: which nodes, *)
(* records and cursors each payload belongs to, and its count.  Only the   *)
(* equality of these addresses is ever used, so states that agree here     *)
(* have the same behaviours up to renaming (a VIEW for model checking).    *)
(***************************************************************************)
Owners(d) ==
    [nodes |-> {n \in Address : heap.pData[n] = d},
     records |-> [l \in WriteLevels |->
                    {i \in DOMAIN apLog[l] : apLog[l][i].pData = d}],
     cursors |-> {c \in Cursor : cursor[c].pData = d},
     nRef |-> heap.payRef[d]]

UpToPayloadNames ==
    [iTransLevel |-> iTransLevel,
     payloads |-> {<<d[1], Owners(d)>> :
                     d \in {e \in Address : heap.payRef[e] # 0}},
     tree |-> heap.tree,
     fault |-> heap.fault,
     mxTrans |-> heap.mxTrans,
     nRef |-> heap.nRef,
     apLog |-> [l \in WriteLevels |-> [i \in DOMAIN apLog[l] |->
                                    [apLog[l][i] EXCEPT !.pData = Null]]],
     cursor |-> [c \in Cursor |-> [cursor[c] EXCEPT !.pData = Null]]]
=============================================================================
