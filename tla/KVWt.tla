-------------------------------- MODULE KVWt --------------------------------
(***************************************************************************)
(* The WiredTiger storage engine, src/kvwt-build/kvwt/kvwt_common.c.  A    *)
(* session of the library has one transaction at a time; the engine keeps  *)
(* the array pTxnCsr of the BerkeleyDB engine, with a cursor in place of   *)
(* each nested transaction.                                                *)
(*                                                                         *)
(* The library is modelled from its use: a write outside a transaction is  *)
(* permanent at once; a second begin_transaction fails, and so does the    *)
(* end of a transaction when there is none; a commit that fails has        *)
(* rolled back.  The cursors of clients are left out.                      *)
(***************************************************************************)
EXTENDS KVEngine

VARIABLES
    wt,         \* the store and its session, see TypeOK
    between     \* the level of a commit between its phases, or MaxLevel

vars == <<wt, between>>

Init ==
    /\ wt = [iTransLevel |-> 0, pTxnCsr |-> [l \in Level |-> FALSE], pCsr |-> FALSE,
             txn |-> "none", view |-> Empty, stored |-> Empty,
             rc |-> "OK", crash |-> FALSE]
    /\ between = MaxLevel

Visible(s) == IF s.txn = "none" THEN s.stored ELSE s.view

\* WT_SESSION->begin_transaction, ->commit_transaction, ->rollback_transaction.
LibBegin(s) == [s EXCEPT !.txn = "active", !.view = s.stored]
LibCommit(s) == [s EXCEPT !.txn = "none", !.stored = s.view, !.view = Empty]
LibRollback(s) == [s EXCEPT !.txn = "none", !.view = Empty]

-----------------------------------------------------------------------------
(* The methods, as functions to the set of states they may leave behind.   *)

OpenRead(s) ==
    IF s.pCsr THEN {s}
    ELSE {[s EXCEPT !.pCsr = (rc = "OK"), !.rc = rc] : rc \in Outcomes("open_cursor")}

\* The level has its cursor.
LevelOpened(s, l) == [s EXCEPT !.iTransLevel = l, !.pTxnCsr[l] = TRUE]

\* The error of begin_transaction is overwritten by the success of open_cursor.
OpenTxn(s, l) ==
    IF s.rc # "OK" \/ l < 2 \/ l <= s.iTransLevel \/ s.pTxnCsr[l] THEN {s}
    ELSE LET begun == IF s.txn # "none" THEN {s}
                      ELSE {IF rc = "OK" THEN LibBegin(s) ELSE s
                            : rc \in Outcomes("begin_transaction")}
         IN {IF rc = "OK" THEN LevelOpened(b, l) ELSE [b EXCEPT !.rc = rc]
             : b \in begun, rc \in Outcomes("open_cursor")}

kvwtBegin(s, l) ==
    {IF o.rc = "OK" THEN [o EXCEPT !.iTransLevel = IF l > @ THEN l ELSE @]
     ELSE IF o.iTransLevel = 0 THEN [o EXCEPT !.pCsr = FALSE] ELSE o
     : o \in UNION {OpenTxn(r, l) : r \in OpenRead([s EXCEPT !.rc = "OK"])}}

\* Only the lowest level with a cursor is prepared.
kvwtCommitPhaseOne(s, l) ==
    IF s.iTransLevel < 2 \/ ~s.pTxnCsr[l + 1] \/ (\E i \in 0..l : s.pTxnCsr[i])
    THEN {[s EXCEPT !.rc = "OK"]}
    ELSE IF s.txn # "active" THEN {[s EXCEPT !.rc = "MISUSE"]}
    ELSE {[s EXCEPT !.rc = rc, !.txn = IF rc = "OK" THEN "prepared" ELSE @]
          : rc \in Outcomes("prepare_transaction")}

\* The whole transaction of the session is committed, whatever the level; each
\* of the cursors above l is closed, without asking whether it is there.
kvwtCommitPhaseTwo(s, l) ==
    LET ends == (l + 1)..s.iTransLevel
        done(r) == IF l = 0 THEN [r EXCEPT !.pCsr = FALSE] ELSE r
    IN IF s.iTransLevel < 2 \/ ~s.pTxnCsr[l + 1]
       THEN {[s EXCEPT !.rc = "OK", !.iTransLevel = l]}
       ELSE IF s.txn = "none" THEN {done([s EXCEPT !.rc = "MISUSE"])}
       ELSE {IF rc = "OK"
             THEN done([LibCommit(s) EXCEPT
                          !.rc = rc, !.iTransLevel = l,
                          !.pTxnCsr = [i \in Level |-> @[i] /\ i \notin ends],
                          !.crash = \E i \in ends : ~s.pTxnCsr[i]])
             ELSE done([LibRollback(s) EXCEPT !.rc = rc])
             : rc \in Outcomes("commit_transaction")}

\* Every level from l on that has a cursor rolls back the transaction of the
\* session: all but the first fail, and then the level is not lowered.  The
\* error is overwritten by that of kvwtBegin.
kvwtRollback(s, l) ==
    LET ends == {i \in l..s.iTransLevel : i >= 0 /\ s.pTxnCsr[i]}
        ended == IF s.iTransLevel < 2 THEN s
                 ELSE [(IF ends # {} THEN LibRollback(s) ELSE s) EXCEPT
                         !.pTxnCsr = [i \in Level |-> @[i] /\ i \notin ends]]
        fails == s.iTransLevel >= 2
                   /\ Cardinality(ends) > IF s.txn = "none" THEN 0 ELSE 1
    IN kvwtBegin([ended EXCEPT !.iTransLevel = IF fails THEN @ ELSE l - 1,
                               !.pCsr = @ /\ l > 0], l)

kvwtRevert(s, l) ==
    UNION {IF r.rc = "OK" THEN kvwtBegin(r, l) ELSE {r} : r \in kvwtRollback(s, l - 1)}

\* Whatever is written goes to the transaction of the session, if it has one.
Put(s, k, v) == IF s.txn = "none" THEN [s EXCEPT !.stored[k] = v]
                ELSE [s EXCEPT !.view[k] = v]

\* Wrong on purpose: written beside the transaction.
kvwtReplace_Autocommit(s, k, v) ==
    IF s.iTransLevel < 2 \/ ~s.pTxnCsr[s.iTransLevel] THEN {[s EXCEPT !.rc = "INTERNAL"]}
    ELSE {[s EXCEPT !.rc = "OK", !.stored[k] = v]}

\* A key that is there already is refused ("overwrite=false").
kvwtReplace(s, k, v) ==
    IF s.iTransLevel < 2 \/ ~s.pTxnCsr[s.iTransLevel] THEN {[s EXCEPT !.rc = "INTERNAL"]}
    ELSE IF Visible(s)[k] # NoVal THEN {[s EXCEPT !.rc = "CONSTRAINT"]}
    ELSE {[(IF rc = "OK" THEN Put(s, k, v) ELSE s) EXCEPT !.rc = rc]
          : rc \in Outcomes("insert")}

\* kvwtDelete of a cursor on the row of key k.
kvwtDelete(s, k) ==
    IF s.iTransLevel < 2 \/ ~s.pTxnCsr[s.iTransLevel] THEN {[s EXCEPT !.rc = "INTERNAL"]}
    ELSE {[(IF rc = "OK" THEN Put(s, k, NoVal) ELSE s) EXCEPT !.rc = rc]
          : rc \in Outcomes("remove")}

-----------------------------------------------------------------------------
(* The clients, as those of KVBdb; levels above 2 are for what the engine  *)
(* is not good for.                                                        *)

Between == between # MaxLevel
MayCommitTo(l) ==
    l < wt.iTransLevel /\ (l > 0 \/ wt.iTransLevel < 2 \/ "commit_to_0" \in Calls)

Begin(l) ==
    /\ ~Between /\ (l <= 2 \/ "nested" \in Calls)
    /\ l = wt.iTransLevel + 1 \/ (wt.iTransLevel = 0 /\ l = 2)
    /\ wt' \in kvwtBegin(wt, l)
    /\ UNCHANGED between

PhaseOne(l) ==
    /\ ~Between /\ MayCommitTo(l) /\ l + 1 = wt.iTransLevel
    /\ wt' \in kvwtCommitPhaseOne(wt, l)
    /\ between' = IF wt'.rc = "OK" THEN l ELSE MaxLevel

PhaseTwo(l) ==
    /\ Between /\ between = l
    /\ wt' \in kvwtCommitPhaseTwo(wt, l)
    /\ between' = MaxLevel

Commit(l) ==
    /\ ~Between /\ MayCommitTo(l)
    /\ \E one \in kvwtCommitPhaseOne(wt, l) :
        IF one.rc = "OK" THEN wt' \in kvwtCommitPhaseTwo(one, l) ELSE wt' = one
    /\ UNCHANGED between

Rollback(l) ==
    /\ l <= wt.iTransLevel
    /\ wt' \in kvwtRollback(wt, l)
    /\ between' = MaxLevel

Revert(l) ==
    /\ ~Between /\ 0 < l /\ l <= wt.iTransLevel
    /\ wt' \in kvwtRevert(wt, l)
    /\ UNCHANGED between

Write(k, v) ==
    /\ ~Between /\ wt.iTransLevel >= 2
    /\ wt' \in kvwtReplace(wt, k, v)
    /\ UNCHANGED between

Delete(k) ==
    /\ ~Between /\ wt.iTransLevel >= 2 /\ Visible(wt)[k] # NoVal
    /\ wt' \in kvwtDelete(wt, k)
    /\ UNCHANGED between

Next ==
    \/ \E l \in Level \ {0} : Begin(l)
    \/ \E l \in Level : PhaseOne(l) \/ PhaseTwo(l) \/ Commit(l)
    \/ \E l \in Level : Rollback(l)
    \/ \E l \in Level : Revert(l)
    \/ \E k \in Key, v \in Val : Write(k, v)
    \/ \E k \in Key : Delete(k)

Spec == Init /\ [][Next]_vars

-----------------------------------------------------------------------------
(* Properties.                                                             *)

\* The values the variables may have.
TypeOK ==
    /\ wt.iTransLevel \in Level
    /\ wt.pTxnCsr \in [Level -> BOOLEAN]
    /\ {wt.pCsr, wt.crash} \subseteq BOOLEAN
    /\ wt.txn \in {"none", "active", "prepared"}
    /\ {wt.view, wt.stored} \subseteq Content
    /\ wt.rc \in {"OK", "ERROR", "INTERNAL", "MISUSE", "CONSTRAINT"}
    /\ between \in Level

\* The session has a transaction exactly while the store is at level 2, the
\* array holds a cursor for that level alone, the transaction is prepared only
\* between the phases of its commit, and no NULL cursor is closed: no write is
\* ever permanent by itself, and no transaction outlives its level.
SessionFollowsLevel ==
    /\ wt.txn # "none" <=> wt.iTransLevel = 2
    /\ \A l \in Level : wt.pTxnCsr[l] <=> l >= 2 /\ l <= wt.iTransLevel
    /\ wt.txn = "prepared" => Between
    /\ wt.iTransLevel > 0 => wt.pCsr
    /\ ~wt.crash

\* The store keeps the promises of kv.h, as far as level 2.  kvwtRollback of
\* level 2 does what kv.h calls xRevert.
Contract ==
    INSTANCE KVStore WITH
        iTransLevel <- wt.iTransLevel,
        content <- Visible(wt),
        atBegin <- [l \in 2..MaxLevel |->
                      IF l > wt.iTransLevel THEN Visible(wt) ELSE wt.stored]
ImplementsKVStore == Contract!Spec

\* kv.h:58 "The xReplace method replaces the value for an existing entry with the
\* given key".
ReplaceReplaces ==
    [][\A k \in Key, v \in Val :
        Write(k, v) /\ wt'.rc \in {"OK", "CONSTRAINT"} => Visible(wt')[k] = v]_vars
=============================================================================
