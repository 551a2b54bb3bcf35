------------------------------- MODULE KVMem -------------------------------
(***************************************************************************)
(* The in-memory key-value store of src/sqlite4-build/src/kvmem.c, seen    *)
(* through its transactions: which keys have a node in the tree, what each *)
(* node holds, and the change records from which a rollback restores it.   *)
(*                                                                         *)
(* The code keeps one linked list of KVMemChng records per transaction     *)
(* level (apLog[l-2] for level l, newest record first) over all nodes.     *)
(* Here the same records are kept per node, oldest first, each tagged with *)
(* the level whose list it is in: prepending a record to apLog[l-2] is     *)
(* appending one with tag l to its node's sequence, and splicing the list  *)
(* of level l in front of that of level l-1 is changing tags from l to     *)
(* l-1.  Records of different nodes do not influence each other.  Module   *)
(* KVMemTree keeps the lists, the loops over them and the balanced tree as *)
(* the code has them, and is checked to implement this module.             *)
(*                                                                         *)
(* A connection's mutex is held around every call, so each interface       *)
(* routine is one step.  The allocation failures of xBegin, xReplace and   *)
(* xDelete leave the store as it was, and are not steps here.  No routine  *)
(* has defined behaviour once one of them has used freed memory.           *)
(***************************************************************************)
EXTENDS Naturals, Sequences

CONSTANTS
    Key,        \* the keys
    Val,        \* the payloads (KVMemData)
    NoVal,      \* the NULL payload of a deleted row
    MaxLevel,   \* bound on the transaction level
    MaxChng     \* bound on the number of change records of one node

ASSUME KVMemAssumption ==
    /\ NoVal \notin Val
    /\ MaxLevel \in Nat /\ MaxLevel >= 2
    /\ MaxChng \in Nat \ {0}

Levels == 0..MaxLevel
WriteLevels == 2..MaxLevel
Data == Val \cup {NoVal}
KVMemChng == [lvl : WriteLevels, pData : Data, oldTrans : Levels]

VARIABLES
    iTransLevel,    \* KVStore.iTransLevel
    tree,           \* the keys of the nodes reachable from pRoot
    pData,          \* pData[k]: the payload of k's node, NoVal without a node
    mxTrans,        \* mxTrans[k]: "maximum transaction for which this row is
                    \* logged", 0 without a node
    chng,           \* chng[k]: the change records of k's node, oldest first
    freedUse        \* a change record was followed to a node already freed

vars == <<iTransLevel, tree, pData, mxTrans, chng, freedUse>>

TypeOK ==
    /\ iTransLevel \in Levels
    /\ tree \subseteq Key
    /\ pData \in [Key -> Data]
    /\ mxTrans \in [Key -> Levels]
    /\ chng \in [Key -> Seq(KVMemChng)]
    /\ freedUse \in BOOLEAN

\* sqlite4KVStoreOpenMem
Init ==
    /\ iTransLevel = 0
    /\ tree = {}
    /\ pData = [k \in Key |-> NoVal]
    /\ mxTrans = [k \in Key |-> 0]
    /\ chng = [k \in Key |-> <<>>]
    /\ freedUse = FALSE

-----------------------------------------------------------------------------
Logged(k) == chng[k] # <<>>

\* The levels in a node's records never decrease from older to newer ones.
Ascending(s) == \A i, j \in DOMAIN s : i <= j => s[i].lvl <= s[j].lvl

\* How many of the records s survive a rollback to level l: those in the lists
\* of the levels up to l.
Kept(s, l) == CHOOSE n \in 0..Len(s) : \A i \in DOMAIN s :
                                         i <= n <=> s[i].lvl <= l

\* The oldest of the records that do not survive.
Undone(s, l) == Kept(s, l) < Len(s)
Oldest(s, l) == s[Kept(s, l) + 1]

\* A record that says the node did not exist before: undoing it removes the
\* node from the tree and frees it.
Creates(c) == c.pData = NoVal /\ c.oldTrans = 0

(***************************************************************************)
(* kvmemBegin.  The two ways to raise the level are those kv.h allows.  A  *)
(* new write level starts with an empty list of records.                   *)
(***************************************************************************)
Begin(l) ==
    /\ ~freedUse
    /\ l = iTransLevel + 1 \/ (iTransLevel = 0 /\ l = 2)
    /\ l \in Levels
    /\ iTransLevel' = l
    /\ UNCHANGED <<tree, pData, mxTrans, chng, freedUse>>

\* Wrong on purpose: the record forgets that the row was logged before.
NewChng_ForgetsOldTrans(k) ==
    /\ Len(chng[k]) < MaxChng
    /\ chng' = [chng EXCEPT ![k] = Append(@,
                  [lvl |-> iTransLevel, pData |-> pData[k], oldTrans |-> 0])]
    /\ mxTrans' = [mxTrans EXCEPT ![k] = iTransLevel]

\* Wrong on purpose: the row does not remember that it is logged.
NewChng_KeepsMxTrans(k) ==
    /\ Len(chng[k]) < MaxChng
    /\ chng' = [chng EXCEPT ![k] = Append(@,
                  [lvl |-> iTransLevel, pData |-> pData[k],
                   oldTrans |-> mxTrans[k]])]
    /\ UNCHANGED mxTrans

\* kvmemNewChng: log the present state of k's node at the present level.
NewChng(k) ==
    /\ Len(chng[k]) < MaxChng
    /\ chng' = [chng EXCEPT ![k] = Append(@,
                  [lvl |-> iTransLevel, pData |-> pData[k],
                   oldTrans |-> mxTrans[k]])]
    /\ mxTrans' = [mxTrans EXCEPT ![k] = iTransLevel]

(***************************************************************************)
(* kvmemReplace.  A new node is logged (by kvmemNewNode) as having no data *)
(* and mxTrans 0.  An existing one is logged only the first time it        *)
(* changes at this transaction level.                                      *)
(***************************************************************************)
Replace(k, v) ==
    /\ ~freedUse
    /\ iTransLevel >= 2
    /\ IF k \notin tree \/ mxTrans[k] # iTransLevel
       THEN NewChng(k)
       ELSE UNCHANGED <<chng, mxTrans>>
    /\ tree' = tree \cup {k}
    /\ pData' = [pData EXCEPT ![k] = v]
    /\ UNCHANGED <<iTransLevel, freedUse>>

\* Wrong on purpose: a row logged at any level is not logged again.
Delete_LogsOnce(k) ==
    /\ ~freedUse
    /\ iTransLevel >= 2
    /\ k \in tree /\ pData[k] # NoVal
    /\ IF mxTrans[k] = 0 THEN NewChng(k) ELSE UNCHANGED <<chng, mxTrans>>
    /\ pData' = [pData EXCEPT ![k] = NoVal]
    /\ UNCHANGED <<iTransLevel, tree, freedUse>>

(***************************************************************************)
(* kvmemDelete through a cursor on k's node.  The node stays in the tree   *)
(* as a phantom without data.                                              *)
(***************************************************************************)
Delete(k) ==
    /\ ~freedUse
    /\ iTransLevel >= 2
    /\ k \in tree /\ pData[k] # NoVal
    /\ IF mxTrans[k] < iTransLevel
       THEN NewChng(k)
       ELSE UNCHANGED <<chng, mxTrans>>
    /\ pData' = [pData EXCEPT ![k] = NoVal]
    /\ UNCHANGED <<iTransLevel, tree, freedUse>>

\* The records s once the lists of the levels above l have been spliced in front
\* of the list of l.
Spliced(s, l) == [i \in DOMAIN s |->
                    [lvl |-> IF s[i].lvl > l THEN l ELSE s[i].lvl,
                     pData |-> s[i].pData, oldTrans |-> s[i].oldTrans]]

(***************************************************************************)
(* kvmemCommitPhaseTwo to a level above 1: the lists of the levels that    *)
(* end are spliced, one after the other, in front of the list of l.        *)
(***************************************************************************)
CommitNested(l) ==
    /\ ~freedUse
    /\ l \in WriteLevels /\ l < iTransLevel
    /\ iTransLevel' = l
    /\ chng' = [k \in Key |-> Spliced(chng[k], l)]
    /\ mxTrans' = [k \in Key |->
                     IF \E i \in DOMAIN chng[k] : chng[k][i].lvl > l
                     THEN l ELSE mxTrans[k]]
    /\ UNCHANGED <<tree, pData, freedUse>>

\* Wrong on purpose: the phantoms stay in the tree.
CommitOutermost_KeepsPhantoms(l) ==
    /\ ~freedUse
    /\ l \in 0..1 /\ l < iTransLevel
    /\ iTransLevel' = l
    /\ mxTrans' = [k \in Key |-> IF Logged(k) THEN chng[k][1].oldTrans
                                 ELSE mxTrans[k]]
    /\ chng' = [k \in Key |-> <<>>]
    /\ UNCHANGED <<tree, pData, freedUse>>

(***************************************************************************)
(* kvmemCommitPhaseTwo to level 0 or 1.  Each record, from the newest to   *)
(* the oldest, removes and frees its node when the node has no data, and   *)
(* lowers mxTrans to oldTrans otherwise.  A second record of a node that   *)
(* the first one freed is followed to freed memory.                        *)
(***************************************************************************)
CommitOutermost(l) ==
    /\ ~freedUse
    /\ l \in 0..1 /\ l < iTransLevel
    /\ iTransLevel' = l
    /\ tree' = {k \in tree : ~Logged(k) \/ pData[k] # NoVal}
    /\ mxTrans' = [k \in Key |->
                     IF ~Logged(k) THEN mxTrans[k]
                     ELSE IF pData[k] = NoVal THEN 0
                     ELSE chng[k][1].oldTrans]
    /\ chng' = [k \in Key |-> <<>>]
    /\ freedUse' = \E k \in Key : pData[k] = NoVal /\ Len(chng[k]) > 1
    /\ UNCHANGED pData

\* What is left of the nodes when their records above level l have been undone,
\* newest first: the oldest of them has the last word.
UndoTo(l) ==
    /\ tree' = {k \in tree : Undone(chng[k], l)
                               => ~Creates(Oldest(chng[k], l))}
    /\ pData' = [k \in Key |-> IF Undone(chng[k], l)
                               THEN Oldest(chng[k], l).pData ELSE pData[k]]
    /\ mxTrans' = [k \in Key |-> IF Undone(chng[k], l)
                                 THEN Oldest(chng[k], l).oldTrans
                                 ELSE mxTrans[k]]
    /\ chng' = [k \in Key |-> SubSeq(chng[k], 1, Kept(chng[k], l))]
    /\ freedUse' = \E k \in Key : \E i \in DOMAIN chng[k] :
                     i > Kept(chng[k], l) + 1 /\ Creates(chng[k][i])

\* Wrong on purpose: the level rolled back to is left as well.
Rollback_OneTooMany(l) ==
    /\ ~freedUse
    /\ l \in Levels /\ l <= iTransLevel
    /\ iTransLevel' = l - 1
    /\ UndoTo(l)

\* kvmemRollback
Rollback(l) ==
    /\ ~freedUse
    /\ l \in Levels /\ l <= iTransLevel
    /\ iTransLevel' = l
    /\ UndoTo(l)

\* kvmemRevert: kvmemRollback to l-1, then kvmemBegin of l
Revert(l) ==
    /\ ~freedUse
    /\ l \in Levels \ {0} /\ l <= iTransLevel
    /\ iTransLevel' = l
    /\ UndoTo(l - 1)

(***************************************************************************)
(* kvmemClose, which commits to level 0 what is still open before it frees *)
(* everything, and sqlite4KVStoreOpenMem of a new store.                   *)
(***************************************************************************)
Reopen ==
    /\ ~freedUse
    /\ iTransLevel' = 0
    /\ tree' = {}
    /\ pData' = [k \in Key |-> NoVal]
    /\ mxTrans' = [k \in Key |-> 0]
    /\ chng' = [k \in Key |-> <<>>]
    /\ freedUse' = \E k \in Key : pData[k] = NoVal /\ Len(chng[k]) > 1

Next ==
    \/ \E l \in Levels : Begin(l)
    \/ \E k \in Key, v \in Val : Replace(k, v)
    \/ \E k \in Key : Delete(k)
    \/ \E l \in WriteLevels : CommitNested(l)
    \/ \E l \in 0..1 : CommitOutermost(l)
    \/ \E l \in Levels : Rollback(l)
    \/ \E l \in Levels : Revert(l)
    \/ Reopen

Spec == Init /\ [][Next]_vars

-----------------------------------------------------------------------------
\* The records s of one node whose mxTrans is mx, at transaction level top.
ConsistentLog(s, mx, top) ==
    /\ mx = IF s = <<>> THEN 0 ELSE s[Len(s)].lvl
    /\ Ascending(s)
    /\ \A i \in DOMAIN s :
         /\ s[i].lvl <= top
         /\ i = 1 => s[i].oldTrans = 0
         /\ i > 1 => /\ s[i - 1].lvl <= s[i].oldTrans
                     /\ s[i - 1].lvl < s[i].lvl => s[i].oldTrans = s[i - 1].lvl

(***************************************************************************)
(* The change records of every node tell, level by level, a consistent     *)
(* story: the first says whether the row existed before the transaction;   *)
(* levels only go up along the sequence; where a level ends, the next      *)
(* record remembers it as the row's mxTrans (kvmemNewChng), whatever       *)
(* levels kvmemCommitPhaseTwo has merged since; and mxTrans itself is the  *)
(* newest record's level.  kvmemReplace and kvmemDelete decide from        *)
(* mxTrans alone whether the row must be logged.                           *)
(***************************************************************************)
LogConsistent ==
    \A k \in Key : ConsistentLog(chng[k], mxTrans[k], iTransLevel)

(***************************************************************************)
(* A row without data is in the tree only while a change record can still  *)
(* bring it back, and every key outside the tree is blank: outside a write *)
(* transaction the tree holds the content and nothing else (kvmemRollback  *)
(* and kvmemCommitPhaseTwo together remove every phantom).                 *)
(***************************************************************************)
PhantomsAreLogged ==
    \A k \in Key :
      /\ k \in tree => (pData[k] # NoVal \/ Logged(k))
      /\ k \notin tree => (pData[k] = NoVal /\ ~Logged(k))

(***************************************************************************)
(* kv.h:50 "An xRollback to level N causes the database to revert to the   *)
(* state it was in on the most recent xBegin to level N+1", and all else   *)
(* that KVStore promises, hold of the store.                               *)
(***************************************************************************)
atBegin == [l \in WriteLevels |-> [k \in Key |->
              IF Undone(chng[k], l - 1) THEN Oldest(chng[k], l - 1).pData
              ELSE pData[k]]]

KVS == INSTANCE KVStore WITH content <- pData, atBegin <- atBegin

ImplementsKVStore == KVS!Spec

(***************************************************************************)
(* Undoing the records newest first never removes a node that an older     *)
(* record still points to: the record of a node's creation is the oldest   *)
(* it has, however many levels were merged (kvmem.c:572 tells the two      *)
(* kinds of record apart by pData and oldTrans alone).                     *)
(***************************************************************************)
RollbackFollowsLiveNodes ==
    [][(\E l \in Levels : Rollback(l) \/ Revert(l)) => ~freedUse']_vars

-----------------------------------------------------------------------------
(* A statement of the documentation that the code does not keep.           *)

(***************************************************************************)
(* kvmemCommitPhaseTwo and kvmemRollback never follow a change record to a *)
(* node that a newer record made them free: kvmem.c:395 demands of a node  *)
(* that is removed that it is in the tree, and the record, which keeps the *)
(* pointer (kvmem.c:324), holds no reference to the node.                  *)
(***************************************************************************)
NoUseAfterFree == ~freedUse
=============================================================================
