------------------------------- MODULE KVBdb -------------------------------
(***************************************************************************)
(* The BerkeleyDB storage engine, src/kvbdb-build/kvbdb/kvbdb_common.c:    *)
(* the transaction levels of kv.h on nested transactions of the library,   *)
(* one DB_TXN for each level from 2 on, kept in the array pTxn.  The build *)
(* is the default one, without assertions (NDEBUG).                        *)
(*                                                                         *)
(* The library is modelled from its use: a transaction sees the content    *)
(* of its parent and its own changes; to commit it commits its children    *)
(* and hands everything to the parent, to abort it aborts its children; a  *)
(* handle is dead after either.  Addresses of dead handles are used again. *)
(*                                                                         *)
(* All state is one record, so that methods compose as functions from a    *)
(* state to the set of states they may leave behind.                       *)
(***************************************************************************)
EXTENDS KVEngine

CONSTANTS
    Handle,             \* addresses of DB_TXN
    Dbc                 \* addresses of DBC, the library's cursors

ASSUME KVBdbAssumption ==
    /\ NULL \notin Handle /\ NULL \notin Dbc
    /\ Failing \subseteq {"cursor", "txn_begin", "prepare", "commit", "put"}
    /\ Calls \subseteq {"skip", "commit_to_0", "nested_prepare", "nested_revert",
                        "shared_cursors", "cursors_survive"}

VARIABLES
    kv,         \* the store and the library, see TypeOK
    committing  \* the level of a commit between its phases, or MaxLevel

vars == <<kv, committing>>

NoTxn == [state |-> "free", above |-> {}, view |-> Empty]
NoDbc == [open |-> FALSE, txn |-> NULL, pos |-> NULL]

Init ==
    /\ kv = [iTransLevel |-> 0, pTxn |-> [l \in Level |-> NULL], pCsr |-> NULL,
             txn |-> [h \in Handle |-> NoTxn], stored |-> Empty,
             dbc |-> [d \in Dbc |-> NoDbc], rc |-> "OK", stale |-> FALSE]
    /\ committing = MaxLevel

-----------------------------------------------------------------------------
(* The library.                                                            *)

Live(s) == {h \in Handle : s.txn[h].state # "free"}
Below(s, h) == {g \in Live(s) : h \in s.txn[g].above}
Innermost(s, h) ==
    CHOOSE g \in Below(s, h) \cup {h} : Below(s, g) = {}

\* What an operation with transaction h sees; NULL is no transaction.
View(s, h) == IF h = NULL THEN s.stored ELSE s.txn[h].view

\* DB_ENV->txn_begin.
LibBegin(s, parent, h) ==
    [s EXCEPT !.txn[h] = [state |-> "active", view |-> View(s, parent),
                          above |-> IF parent = NULL THEN {}
                                    ELSE s.txn[parent].above \cup {parent}]]

\* The handles hs are dead, and the cursors opened with them are closed.
LibEnd(s, hs) ==
    [s EXCEPT !.txn = [h \in Handle |-> IF h \in hs THEN NoTxn ELSE @[h]],
              !.dbc = [d \in Dbc |-> IF @[d].txn \in hs THEN NoDbc ELSE @[d]]]

\* DB_TXN->commit, DB_TXN->prepare and DB_TXN->abort.
LibCommit(s, h) ==
    LET result == View(s, Innermost(s, h))
        ended == LibEnd(s, Below(s, h) \cup {h})
        parent == CHOOSE g \in s.txn[h].above :
                    \A f \in s.txn[h].above : f = g \/ f \in s.txn[g].above
    IN IF h \notin Live(s) THEN [s EXCEPT !.stale = TRUE]
       ELSE IF s.txn[h].above = {} THEN [ended EXCEPT !.stored = result]
       ELSE [ended EXCEPT !.txn[parent].view = result]

LibPrepare(s, h) ==
    [LibEnd(s, Below(s, h)) EXCEPT !.txn[h].state = "prepared",
                                   !.txn[h].view = View(s, Innermost(s, h))]

LibAbort(s, h) ==
    IF h \notin Live(s) THEN [s EXCEPT !.stale = TRUE]
    ELSE LibEnd(s, Below(s, h) \cup {h})

\* DB->cursor and DBC->close.
LibOpen(s, d, h) == [s EXCEPT !.dbc[d] = [open |-> TRUE, txn |-> h, pos |-> NULL]]
LibClose(s, d) == IF s.dbc[d].open THEN [s EXCEPT !.dbc[d] = NoDbc]
                  ELSE [s EXCEPT !.stale = TRUE]

FreeHandle(s) == CHOOSE h \in Handle : h \notin Live(s)
FreeDbc(s) == CHOOSE d \in Dbc : ~s.dbc[d].open

-----------------------------------------------------------------------------
(* The methods.                                                            *)

CloseRead(s) ==
    IF s.pCsr = NULL THEN s ELSE [LibClose(s, s.pCsr) EXCEPT !.pCsr = NULL]

\* The cursor for reading is opened if there is none.
OpenRead(s) ==
    IF s.pCsr # NULL THEN {s}
    ELSE {IF rc = "OK" THEN [LibOpen(s, FreeDbc(s), NULL) EXCEPT !.pCsr = FreeDbc(s)]
          ELSE [s EXCEPT !.rc = rc] : rc \in Outcomes("cursor")}

\* Wrong on purpose: the new transaction gets no parent.
OpenTxn_NoParent(s, l) ==
    IF s.rc # "OK" \/ l < 2 \/ l <= s.iTransLevel \/ s.pTxn[l] # NULL THEN {s}
    ELSE {IF rc = "OK"
          THEN [LibBegin(s, NULL, FreeHandle(s))
                  EXCEPT !.iTransLevel = l, !.pTxn[l] = FreeHandle(s)]
          ELSE [s EXCEPT !.rc = rc] : rc \in Outcomes("txn_begin")}

\* A level from 2 on gets a transaction in that of the present level.
OpenTxn(s, l) ==
    IF s.rc # "OK" \/ l < 2 \/ l <= s.iTransLevel \/ s.pTxn[l] # NULL THEN {s}
    ELSE {IF rc = "OK"
          THEN [LibBegin(s, s.pTxn[s.iTransLevel], FreeHandle(s))
                  EXCEPT !.iTransLevel = l, !.pTxn[l] = FreeHandle(s)]
          ELSE [s EXCEPT !.rc = rc] : rc \in Outcomes("txn_begin")}

kvbdbBegin(s, l) ==
    LET opened == OpenRead([s EXCEPT !.rc = "OK"])
        begun == UNION {OpenTxn(o, l) : o \in opened}
    IN {IF o.rc = "OK"
        THEN [o EXCEPT !.iTransLevel = IF l > @ THEN l ELSE @]
        ELSE IF o.iTransLevel = 0 THEN CloseRead(o) ELSE o : o \in begun}

\* Only an outermost transaction can be prepared.
kvbdbCommitPhaseOne(s, l) ==
    LET h == s.pTxn[l + 1]
    IN IF s.iTransLevel < 2 \/ h = NULL \/ (\E i \in 0..l : s.pTxn[i] # NULL)
       THEN {[s EXCEPT !.rc = "OK"]}
       ELSE {[(IF rc = "OK" THEN LibPrepare(s, h) ELSE s) EXCEPT !.rc = rc]
             : rc \in Outcomes("prepare")}

\* Wrong on purpose: only the handle that was committed is forgotten.
kvbdbCommitPhaseTwo_KeepsInner(s, l) ==
    LET h == s.pTxn[l + 1]
        done(r) == IF l = 0 THEN CloseRead(r) ELSE r
    IN IF s.iTransLevel < 2 \/ h = NULL
       THEN {[s EXCEPT !.rc = "OK", !.iTransLevel = l]}
       ELSE {IF rc = "OK"
             THEN done([LibCommit(s, h) EXCEPT !.rc = rc, !.iTransLevel = l,
                                               !.pTxn[l + 1] = NULL])
             ELSE done([LibAbort(s, h) EXCEPT !.rc = rc])
             : rc \in Outcomes("commit")}

\* The handle of the lowest level to end is committed; when there is none,
\* nothing is, but the level is lowered all the same.  A handle whose commit
\* failed is dead and stays in the array.
kvbdbCommitPhaseTwo(s, l) ==
    LET h == s.pTxn[l + 1]
        done(r) == IF l = 0 THEN CloseRead(r) ELSE r
    IN IF s.iTransLevel < 2 \/ h = NULL
       THEN {[s EXCEPT !.rc = "OK", !.iTransLevel = l]}
       ELSE {IF rc = "OK"
             THEN done([LibCommit(s, h) EXCEPT
                          !.rc = rc, !.iTransLevel = l,
                          !.pTxn = [i \in Level |-> IF i > l /\ i <= s.iTransLevel
                                                    THEN NULL ELSE @[i]]])
             ELSE done([LibAbort(s, h) EXCEPT !.rc = rc])
             : rc \in Outcomes("commit")}

\* The transactions from the present level down to level l itself are aborted,
\* the level becomes l - 1 and level l is begun again: for level 0 this only
\* opens the cursor that has just been closed.
kvbdbRollback(s, l) ==
    LET ends == {s.pTxn[i] : i \in l..s.iTransLevel} \ {NULL}
        aborted == IF s.iTransLevel < 2 THEN s
                   ELSE [LibEnd(s, ends \cup UNION {Below(s, h) : h \in ends}) EXCEPT
                           !.stale = @ \/ ~(ends \subseteq Live(s)),
                           !.pTxn = [i \in Level |-> IF i \in l..s.iTransLevel
                                                     THEN NULL ELSE @[i]]]
        closed == IF l = 0 THEN CloseRead(aborted) ELSE aborted
    IN kvbdbBegin([closed EXCEPT !.iTransLevel = l - 1], l)

kvbdbRevert(s, l) ==
    UNION {IF r.rc = "OK" THEN kvbdbBegin(r, l) ELSE {r} : r \in kvbdbRollback(s, l - 1)}

\* The library refuses to write in a transaction that has a child.
kvbdbReplace(s, k, v) ==
    LET h == s.pTxn[s.iTransLevel]
    IN IF s.iTransLevel < 2 \/ h = NULL THEN {[s EXCEPT !.rc = "INTERNAL"]}
       ELSE IF h \notin Live(s) THEN {[s EXCEPT !.stale = TRUE]}
       ELSE IF Below(s, h) # {} THEN {[s EXCEPT !.rc = "MISUSE"]}
       ELSE {IF rc = "OK" THEN [s EXCEPT !.rc = rc, !.txn[h].view[k] = v]
             ELSE [s EXCEPT !.rc = rc] : rc \in Outcomes("put")}

-----------------------------------------------------------------------------
(* The clients: sqlite4KVStoreBegin and its neighbours in kv.c, called by  *)
(* the rules of kv.h.  Between the phases of a commit only its second      *)
(* phase or a rollback may be called.                                      *)

Now(l) == kv.iTransLevel = l
Between == committing # MaxLevel

Begin(l) ==
    /\ ~Between /\ l > kv.iTransLevel
    /\ l = kv.iTransLevel + 1 \/ (Now(0) /\ l = 2) \/ "skip" \in Calls
    /\ kv' \in kvbdbBegin(kv, l)
    /\ UNCHANGED committing

\* Commits to level 0 go through level 1, see VdbeCommit and VdbeHalt.
MayCommitTo(l) ==
    /\ l < kv.iTransLevel
    /\ l > 0 \/ kv.iTransLevel < 2 \/ "commit_to_0" \in Calls

PhaseOne(l) ==
    /\ ~Between /\ MayCommitTo(l)
    /\ l + 1 = kv.iTransLevel \/ "nested_prepare" \in Calls
    /\ kv' \in kvbdbCommitPhaseOne(kv, l)
    /\ committing' = IF kv'.rc = "OK" THEN l ELSE MaxLevel

PhaseTwo(l) ==
    /\ committing = l /\ Between
    /\ kv' \in kvbdbCommitPhaseTwo(kv, l)
    /\ committing' = MaxLevel

\* sqlite4KVStoreCommit: both phases at once.
Commit(l) ==
    /\ ~Between /\ MayCommitTo(l)
    /\ \E one \in kvbdbCommitPhaseOne(kv, l) :
        IF one.rc = "OK" THEN kv' \in kvbdbCommitPhaseTwo(one, l) ELSE kv' = one
    /\ UNCHANGED committing

Rollback(l) ==
    /\ l <= kv.iTransLevel
    /\ kv' \in kvbdbRollback(kv, l)
    /\ committing' = MaxLevel

Revert(l) ==
    /\ ~Between /\ 0 < l /\ l <= kv.iTransLevel
    /\ l <= 2 \/ "nested_revert" \in Calls
    /\ kv' \in kvbdbRevert(kv, l)
    /\ UNCHANGED committing

Write(k, v) ==
    /\ ~Between /\ kv.iTransLevel >= 2
    /\ kv' \in kvbdbReplace(kv, k, v)
    /\ UNCHANGED committing

Next ==
    \/ \E l \in Level \ {0} : Begin(l)
    \/ \E l \in Level : PhaseOne(l) \/ PhaseTwo(l) \/ Commit(l)
    \/ \E l \in Level : Rollback(l)
    \/ \E l \in Level : Revert(l)
    \/ \E k \in Key, v \in Val : Write(k, v)

Spec == Init /\ [][Next]_vars

-----------------------------------------------------------------------------
(* Properties.                                                             *)

Txn == [state : {"free", "active", "prepared"}, above : SUBSET Handle, view : Content]
Cursor == [open : BOOLEAN, txn : Handle \cup {NULL}, pos : Key \cup {NULL}]

\* The values the variables may have.  The level is never negative, although
\* kvbdbRollback(0) makes it so for a while (kvbdb_common.c:3235).
TypeOK ==
    /\ kv.iTransLevel \in Level
    /\ kv.pTxn \in [Level -> Handle \cup {NULL}]
    /\ kv.pCsr \in Dbc \cup {NULL}
    /\ kv.txn \in [Handle -> Txn]
    /\ kv.stored \in Content
    /\ kv.dbc \in [Dbc -> Cursor]
    /\ kv.rc \in {"OK", "INEXACT", "NOTFOUND", "ERROR", "INTERNAL", "MISUSE", "MISMATCH"}
    /\ kv.stale \in BOOLEAN
    /\ committing \in Level

\* No method uses a handle of the library after the call that ended it
\* (the remarks at kvbdb_common.c:2712-2724 and 2944-2947 say when that is).
NoStaleHandle == ~kv.stale

\* The array holds a live transaction for each level from 2 up to the present
\* one, each in the one below it, and nothing else; the library has no other:
\* none is leaked, and none is missing where a write needs it.
HandlesFollowLevels ==
    /\ \A l \in Level :
        IF l < 2 \/ l > kv.iTransLevel THEN kv.pTxn[l] = NULL
        ELSE /\ kv.pTxn[l] \in Live(kv)
             /\ kv.txn[kv.pTxn[l]].above = {kv.pTxn[i] : i \in 2..(l - 1)}
    /\ Live(kv) \subseteq {kv.pTxn[l] : l \in Level}

\* Only the outermost transaction is ever prepared, and only between the
\* phases of its commit: no prepared transaction is left for recovery.
PreparedOnlyBetween ==
    \A h \in Handle : kv.txn[h].state = "prepared" =>
        Between /\ h = kv.pTxn[2]

\* A commit to level 0 that reports success has made the changes permanent
\* (kv.h:38-40, kvbdb_common.c:2858): nothing is left to a transaction.
CommitToZeroIsPermanent ==
    [][(Commit(0) \/ PhaseTwo(0)) /\ kv'.rc = "OK"
         => kv'.stored = View(kv, kv.pTxn[kv.iTransLevel])]_vars

\* The store keeps the promises of kv.h.  kvbdbRollback of a level from 2 on
\* does what kv.h calls xRevert.
Visible ==
    LET l == kv.iTransLevel
    IN IF l < 2 THEN kv.stored ELSE View(kv, kv.pTxn[l])
Contract ==
    INSTANCE KVStore WITH
        iTransLevel <- kv.iTransLevel,
        content <- Visible,
        atBegin <- [l \in 2..MaxLevel |->
                      IF l > kv.iTransLevel THEN Visible
                      ELSE IF l = 2 THEN kv.stored ELSE View(kv, kv.pTxn[l - 1])]
ImplementsKVStore == Contract!Spec
=============================================================================
