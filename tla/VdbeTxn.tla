------------------------------ MODULE VdbeTxn ------------------------------
(***************************************************************************)
(* The transactions of one database connection: how the virtual machine    *)
(* (vdbe.c, vdbeaux.c, vdbeapi.c of src/sqlite4-build/src) turns BEGIN,    *)
(* SAVEPOINT, RELEASE, ROLLBACK, statements that read or write, and the    *)
(* sqlite4_txn_ functions into calls of xBegin, xCommitPhaseOne,           *)
(* xCommitPhaseTwo and xRollback of the stores of all its databases.       *)
(*                                                                         *)
(* The connection's mutex is held during a call of sqlite4_step.  A SELECT *)
(* returns to its caller at every row, so any number of them are active    *)
(* between two steps; a statement that writes returns no rows and runs to  *)
(* its end, one opcode per step here, and the other programs are single    *)
(* steps.  SQL functions that use the connection while a statement writes  *)
(* are left out.                                                           *)
(*                                                                         *)
(* Rows stand for what foreign keys make of them: a row of Deferred is a   *)
(* child without parent of a deferred key, one of Immediate of a key       *)
(* checked at the end of the statement.  OP_FkCounter and the insertion or *)
(* deletion it goes with are one step.                                     *)
(***************************************************************************)
EXTENDS Integers, FiniteSets, SequencesExt

CONSTANTS
    Db,             \* the databases: the numbers of their places in sqlite4.aDb
    Row,            \* the rows a database may hold
    Deferred, Immediate,    \* rows that violate a foreign key, see above
    Name,           \* the names of savepoints
    NoName,         \* the NULL name of the savepoint that BEGIN opens
    Reader,         \* the SELECT statements
    MaxSavepoint,   \* bound on the number of savepoints
    MaxCons,        \* bound on the size of the counter of deferred violations
    UndoesOwnLevel, \* xRollback(N) also undoes level N and leaves it open, as
                    \* that of kvbdb does; FALSE for kvmem and for kv.h
    PhaseOneFails,  \* xCommitPhaseOne may fail; it cannot in kvmem
    TxnApi          \* the application calls the sqlite4_txn_ functions

ASSUME VdbeTxnAssumption ==
    /\ Db \subseteq Nat /\ IsFiniteSet(Db)
    /\ IsFiniteSet(Row) /\ IsFiniteSet(Reader)
    /\ Deferred \subseteq Row /\ Immediate \subseteq Row
    /\ NoName \notin Name
    /\ {MaxSavepoint, MaxCons} \subseteq Nat
    /\ {UndoesOwnLevel, PhaseOneFails, TxnApi} \subseteq BOOLEAN

MaxLevel == MaxSavepoint + 2
Levels == 0..MaxLevel
WriteLevels == 2..MaxLevel

VARIABLES
    db,         \* sqlite4: pSavepoint (outermost first), nDeferredCons, and store,
                \* for each database its transaction level, its content, and what
                \* its content was when each level began
    reader,     \* for each SELECT the databases it reads, {} when it is not active
    p,          \* the statement that writes
    result,     \* what the last statement or command returned to the application
    fault       \* xBegin was called in a way the store does not provide for

vars == <<db, reader, p, result, fault>>

NewStore == [iTransLevel |-> 0, content |-> {},
             atBegin |-> [l \in WriteLevels |-> {}]]

NoStmt == [runs |-> FALSE]
Running == p.runs

Init ==
    /\ db = [pSavepoint |-> <<>>, nDeferredCons |-> 0,
             store |-> [d \in Db |-> NewStore]]
    /\ reader = [r \in Reader |-> {}]
    /\ p = NoStmt
    /\ result = "ok"
    /\ fault = FALSE

-----------------------------------------------------------------------------
(* The calls of a store, as functions of its state (see KVStore).          *)

KvBegin(s, l) == [s EXCEPT !.iTransLevel = l]

KvWrite(s, c) == [s EXCEPT !.content = c,
                           !.atBegin = [l \in WriteLevels |->
                             IF l <= s.iTransLevel THEN @[l] ELSE c]]

KvCommit(s, l) == [s EXCEPT !.iTransLevel = l,
                            !.atBegin = [m \in WriteLevels |->
                              IF m <= l THEN @[m] ELSE s.content]]

\* The lowest write level whose changes xRollback(l) undoes.
UndoneFrom(l) == Max({2, IF UndoesOwnLevel THEN l ELSE l + 1})

\* Wrong on purpose: the level rolled back to is left as well.
KvRollback_OneTooMany(s, l) == [s EXCEPT !.iTransLevel = l - 1]

KvRollback(s, l) ==
    LET c == IF UndoneFrom(l) \in WriteLevels THEN s.atBegin[UndoneFrom(l)]
             ELSE s.content
    IN KvWrite([s EXCEPT !.iTransLevel = l], c)

\* The ways of raising the level that kv.h allows.
LegalBegin(s, l) == l = s.iTransLevel + 1 \/ (s.iTransLevel = 0 /\ l = 2)

-----------------------------------------------------------------------------
(* vdbeaux.c: the same for all databases of a connection c.                *)

\* Wrong on purpose: the savepoint rolled back to is closed as well.
FreeSavepoints_OneMore(c, l) ==
    [c EXCEPT !.pSavepoint = SubSeq(@, 1, Min({Len(@), Max({l - 1, 1}) - 1}))]

\* freeSavepoints
FreeSavepoints(c, l) ==
    [c EXCEPT !.pSavepoint = SubSeq(@, 1, Min({Len(@), Max({l, 1}) - 1}))]

\* Wrong on purpose: the counter is not restored.
VdbeRollback_KeepsCounter(c, l) ==
    FreeSavepoints([c EXCEPT !.store = [d \in Db |->
                      IF @[d].iTransLevel >= l THEN KvRollback(@[d], l) ELSE @[d]]], l)

\* sqlite4VdbeRollback
VdbeRollback(c, l) ==
    LET undone == [d \in Db |-> IF c.store[d].iTransLevel >= l
                                THEN KvRollback(c.store[d], l) ELSE c.store[d]]
        freed == FreeSavepoints([c EXCEPT !.store = undone], l)
    IN [freed EXCEPT !.nDeferredCons =
          IF freed.pSavepoint = <<>> THEN 0 ELSE Last(freed.pSavepoint).nDeferredCons]

\* The databases above level l, on which a commit to level l calls the store.
Above(c, l) == {d \in Db : c.store[d].iTransLevel > l}

\* Wrong on purpose: only the first database is committed.
VdbeCommit_First(c, l, bad) ==
    FreeSavepoints([c EXCEPT !.store = [d \in Db |->
                      IF d = Min(Db) THEN KvCommit(@[d], l) ELSE @[d]]], l)

\* sqlite4VdbeCommit.  The databases are committed one after the other, each with
\* both phases, until phase one fails on one of the set bad.
VdbeCommit(c, l, bad) ==
    LET failed == bad \cap Above(c, l)
        done == {d \in Above(c, l) : \A f \in failed : d < f}
        committed == [c EXCEPT !.store = [d \in Db |->
                        IF d \in done THEN KvCommit(@[d], l) ELSE @[d]]]
    IN IF failed = {} THEN FreeSavepoints(committed, l)
       ELSE VdbeRollback(committed, 1)

\* sqlite4VdbeCommitPhaseOne: the stores keep their level.
VdbeCommitPhaseOne(c, l, bad) ==
    IF bad \cap Above(c, l) = {} THEN FreeSavepoints(c, l) ELSE VdbeRollback(c, 1)

\* sqlite4VdbeBegin
VdbeBegin(c, l) ==
    [c EXCEPT !.store = [d \in Db |-> IF @[d].iTransLevel < l
                                      THEN KvBegin(@[d], l) ELSE @[d]]]

\* vdbeCloseStatement of the statement q.
CloseStatement(c, q, bRollback, bad) ==
    LET Top(d) == c.store[d].iTransLevel
        Closed(d) == KvCommit(IF bRollback THEN KvRollback(c.store[d], Top(d))
                              ELSE c.store[d], Top(d) - 1)
        failed == bad \cap q.stmtTransMask
        done == {d \in q.stmtTransMask : \A f \in failed : d < f}
        closed == [c EXCEPT
                     !.store = [d \in Db |-> IF d \in done THEN Closed(d) ELSE @[d]],
                     !.nDeferredCons = IF bRollback THEN q.nStmtDefCons ELSE @]
    IN IF failed = {} THEN closed ELSE VdbeRollback(closed, 1)

\* Wrong on purpose: a statement that does not write ends the transaction too.
VdbeHalt_IgnoresSavepoints(c, q, rc, others, writers, bad) ==
    [db |-> IF q.readOnly THEN VdbeCommit(c, 1, bad)
            ELSE IF rc = "ok" THEN CloseStatement(c, q, FALSE, bad)
            ELSE CloseStatement(c, q, TRUE, bad),
     rc |-> rc]

\* Wrong on purpose: an error never ends the transaction of the statement.
VdbeHalt_Keeps(c, q, rc, others, writers, bad) ==
    LET c1 == IF c.pSavepoint = <<>> THEN VdbeCommit(c, 1, bad)
              ELSE CloseStatement(c, q, rc # "ok", bad)
    IN [db |-> IF c1.pSavepoint = <<>> /\ others = 0 THEN VdbeRollback(c1, 0) ELSE c1,
        rc |-> rc]

(***************************************************************************)
(* sqlite4VdbeHalt of the statement q, others being the number of active   *)
(* statements besides it, writers that of the statements that write, q     *)
(* among them.  The result is the connection afterwards, and what q        *)
(* returns: "ok", "error", or the conflict clause that was followed.       *)
(***************************************************************************)
VdbeHalt(c, q, rc, others, writers, bad) ==
    LET fkNow == rc \in {"ok", "fail"} /\ q.nFkConstraint > 0
        rc1 == IF fkNow THEN "abort" ELSE rc
        whole == rc1 = "rollback"
                   \/ (writers = (IF q.readOnly THEN 0 ELSE 1) /\ c.pSavepoint = <<>>)
        fkEnd == whole /\ rc1 \in {"ok", "fail"} /\ c.nDeferredCons > 0
        rc2 == IF fkEnd THEN "abort" ELSE rc1
        commits == rc2 \in {"ok", "fail"}
        failed == commits /\ bad \cap (IF whole THEN Above(c, 1)
                                       ELSE q.stmtTransMask) # {}
        c1 == IF whole
              THEN [(IF commits THEN VdbeCommit(c, 1, bad)
                     ELSE VdbeRollback(c, 1)) EXCEPT !.nDeferredCons = 0]
              ELSE IF q.stmtTransMask # {}
              THEN CloseStatement(c, q, ~commits, bad)
              ELSE c
    IN [db |-> IF c1.pSavepoint = <<>> /\ others = 0
               THEN VdbeRollback(c1, 0) ELSE c1,
        rc |-> IF failed /\ whole THEN "error" ELSE rc2]

-----------------------------------------------------------------------------
Idle == ~Running /\ ~fault

\* Any set of stores whose phase one fails, if it may.
Bad == IF PhaseOneFails THEN SUBSET Db ELSE {{}}

ActiveReaders == {r \in Reader : reader[r] # {}}
activeVdbeCnt == Cardinality(ActiveReaders) + (IF Running THEN 1 ELSE 0)
writeVdbeCnt == IF Running THEN 1 ELSE 0

\* A statement that does not write, when it halts.
ReadOnly == [readOnly |-> TRUE, nFkConstraint |-> 0, stmtTransMask |-> {},
             nStmtDefCons |-> 0]

(***************************************************************************)
(* A SELECT: its first step, with an OP_Transaction for every database it  *)
(* reads, and its end, after its last row, an error or a reset.            *)
(***************************************************************************)
SelectBegin(r, ds) ==
    /\ Idle
    /\ reader[r] = {} /\ ds # {}
    /\ reader' = [reader EXCEPT ![r] = ds]
    /\ db' = [db EXCEPT !.store = [d \in Db |->
                IF d \in ds /\ @[d].iTransLevel = 0 THEN KvBegin(@[d], 1) ELSE @[d]]]
    /\ UNCHANGED <<p, result, fault>>

SelectEnd(r, rc, bad) ==
    /\ Idle
    /\ reader[r] # {}
    /\ db' = VdbeHalt(db, ReadOnly, rc, activeVdbeCnt - 1, writeVdbeCnt, bad).db
    /\ reader' = [reader EXCEPT ![r] = {}]
    /\ UNCHANGED <<p, result, fault>>

\* The place of the savepoint a command means: the innermost of the name; the
\* outermost of all without name; 0 if there is none.
Meant(c, n) ==
    IF n = NoName THEN Min({Len(c.pSavepoint), 1})
    ELSE Max({0} \cup {i \in DOMAIN c.pSavepoint : c.pSavepoint[i].zName = n})

\* The end of the program of a transaction command.
CommandEnd(c, rc, bad) ==
    LET h == VdbeHalt(c, ReadOnly, rc, activeVdbeCnt, writeVdbeCnt, bad)
    IN db' = h.db /\ result' = h.rc /\ UNCHANGED <<reader, p, fault>>

\* OP_Savepoint with P1 SAVEPOINT_BEGIN: BEGIN without, SAVEPOINT with a name.
SavepointBegin(n, bad) ==
    /\ Idle
    /\ Len(db.pSavepoint) < MaxSavepoint
    /\ IF n = NoName /\ db.pSavepoint # <<>> THEN CommandEnd(db, "error", bad)
       ELSE CommandEnd([db EXCEPT !.pSavepoint = Append(@,
              [zName |-> n, nDeferredCons |-> db.nDeferredCons])], "ok", bad)

\* Wrong on purpose: COMMIT does not look for deferred violations.
SavepointRelease_Unchecked(n, bad) ==
    LET i == Meant(db, n)
    IN /\ Idle
       /\ IF i = 0 THEN CommandEnd(db, "error", bad)
          ELSE CommandEnd(VdbeCommit(db, i, bad),
                          IF bad \cap Above(db, i) = {} THEN "ok" ELSE "error", bad)

\* SAVEPOINT_RELEASE: COMMIT and RELEASE.  The i-th savepoint is level i+1 of the
\* stores.
SavepointRelease(n, bad) ==
    LET i == Meant(db, n)
    IN /\ Idle
       /\ IF i = 0 \/ (i = 1 /\ db.nDeferredCons > 0)
          THEN CommandEnd(db, "error", bad)
          ELSE CommandEnd(VdbeCommit(db, i, bad),
                          IF bad \cap Above(db, i) = {} THEN "ok" ELSE "error", bad)

\* SAVEPOINT_ROLLBACK: ROLLBACK and ROLLBACK TO.
SavepointRollback(n, bad) ==
    LET i == Meant(db, n)
    IN /\ Idle
       /\ IF i = 0 THEN CommandEnd(db, "error", bad)
          ELSE CommandEnd(VdbeRollback(db, IF n = NoName THEN i ELSE i + 1),
                          "ok", bad)

-----------------------------------------------------------------------------
(* A statement that writes.                                                *)

\* Its first step.  needSavepoint: it may write several rows and may be aborted.
WriteBegin(needSavepoint, ds) ==
    /\ Idle
    /\ ds # {}
    /\ p' = [runs |-> TRUE, readOnly |-> FALSE, needSavepoint |-> needSavepoint,
             todo |-> ds, dbs |-> ds, wrote |-> FALSE, failed |-> FALSE,
             nFkConstraint |-> 0, stmtTransMask |-> {}, nStmtDefCons |-> 0,
             start |-> [content |-> [d \in Db |-> db.store[d].content],
                        cons |-> db.nDeferredCons]]
    /\ UNCHANGED <<db, reader, result, fault>>

\* Wrong on purpose: other active statements do not matter, and neither does
\* that the statement may be aborted.
OpTransaction_NoStatement(d, fails) ==
    LET s == db.store[d]
        iLevel == Max({2, Len(db.pSavepoint) + 1})
    IN /\ Running /\ ~fault /\ ~p.failed /\ fails = "no"
       /\ p.todo # {} /\ d = Min(p.todo)
       /\ fault' = (~UndoesOwnLevel /\ s.iTransLevel < iLevel
                      /\ ~LegalBegin(s, iLevel))
       /\ db' = [db EXCEPT !.store[d] = IF @.iTransLevel < iLevel
                                        THEN KvBegin(@, iLevel) ELSE @]
       /\ p' = [p EXCEPT !.todo = @ \ {d}]
       /\ UNCHANGED <<reader, result>>

(***************************************************************************)
(* OP_Transaction with P2 set, database after database: up to the level of *)
(* the innermost savepoint, and one more for the statement transaction.    *)
(* Either xBegin may fail.  kvmemBegin asserts that the level rises as     *)
(* kv.h allows.                                                            *)
(***************************************************************************)
OpTransaction(d, fails) ==
    LET s == db.store[d]
        iLevel == Max({2, Len(db.pSavepoint) + 1})
        bStmt == db.pSavepoint # <<>> /\ (p.needSavepoint \/ activeVdbeCnt > 1)
        first == IF s.iTransLevel < iLevel THEN KvBegin(s, iLevel) ELSE s
        both == bStmt /\ fails = "no"
    IN /\ Running /\ ~fault /\ ~p.failed
       /\ p.todo # {} /\ d = Min(p.todo)
       /\ fails = "first" => s.iTransLevel < iLevel
       /\ fails = "second" => bStmt
       /\ fault' = (~UndoesOwnLevel /\ fails # "first" /\ s.iTransLevel < iLevel
                      /\ ~LegalBegin(s, iLevel))
       /\ db' = [db EXCEPT !.store[d] =
                   IF fails = "first" THEN s
                   ELSE IF both THEN KvBegin(first, first.iTransLevel + 1)
                   ELSE first]
       /\ p' = [p EXCEPT !.todo = @ \ {d},
                         !.failed = fails # "no",
                         !.stmtTransMask = IF both THEN @ \cup {d} ELSE @,
                         !.nStmtDefCons = IF bStmt /\ fails # "first"
                                          THEN db.nDeferredCons ELSE @]
       /\ UNCHANGED <<reader, result>>

(***************************************************************************)
(* A row is inserted or deleted, and counted by OP_FkCounter.  A statement *)
(* that writes a single row aborts at once instead of counting an          *)
(* immediate violation.                                                    *)
(***************************************************************************)
Write(d, r) ==
    LET s == db.store[d]
        n == IF r \in s.content THEN -1 ELSE 1
    IN /\ Running /\ ~fault /\ ~p.failed
       /\ p.todo = {} /\ d \in p.dbs
       /\ r \in Immediate => p.needSavepoint
       /\ r \in Deferred => db.nDeferredCons + n \in -MaxCons..MaxCons
       /\ db' = [db EXCEPT
                   !.store[d] = KvWrite(@, SymDiff(s.content, {r})),
                   !.nDeferredCons = IF r \in Deferred THEN @ + n ELSE @]
       /\ p' = [p EXCEPT !.wrote = TRUE,
                         !.nFkConstraint = IF r \in Immediate THEN @ + n ELSE @]
       /\ UNCHANGED <<reader, result, fault>>

(***************************************************************************)
(* OP_Halt, an error or an interrupt.  A constraint is resolved by ABORT   *)
(* after a row was written only if the statement has needSavepoint.        *)
(***************************************************************************)
WriteEnd(rc, bad) ==
    LET h == VdbeHalt(db, p, rc, activeVdbeCnt - 1, writeVdbeCnt, bad)
    IN /\ Running /\ ~fault
       /\ p.failed => rc = "error"
       /\ p.todo # {} => rc = "error"
       /\ rc = "abort" => p.needSavepoint \/ ~p.wrote
       /\ db' = h.db
       /\ result' = h.rc
       /\ p' = NoStmt
       /\ UNCHANGED <<reader, fault>>

-----------------------------------------------------------------------------
(* vdbeapi.c: the functions an application calls between statements.       *)

Api(c) == Idle /\ TxnApi /\ db' = c /\ UNCHANGED <<reader, p, result, fault>>

sqlite4_txn_begin == Api(VdbeBegin(db, 2))
sqlite4_txn_rollback(l) == Api(VdbeRollback(db, l))
sqlite4_txn_commit_phase_one(bad) == Api(VdbeCommitPhaseOne(db, 1, bad))
sqlite4_txn_commit_phase_two == Api(VdbeCommit(db, 1, {}))
sqlite4_txn_commit(bad) == Api(VdbeCommit(db, 1, bad))

Names == Name \cup {NoName}

Next ==
    \/ \E r \in Reader, ds \in SUBSET Db : SelectBegin(r, ds)
    \/ \E r \in Reader, rc \in {"ok", "error"}, bad \in Bad : SelectEnd(r, rc, bad)
    \/ \E n \in Names, bad \in Bad : SavepointBegin(n, bad)
    \/ \E n \in Names, bad \in Bad : SavepointRelease(n, bad)
    \/ \E n \in Names, bad \in Bad : SavepointRollback(n, bad)
    \/ \E need \in BOOLEAN, ds \in SUBSET Db : WriteBegin(need, ds)
    \/ \E d \in Db, fails \in {"no", "first", "second"} : OpTransaction(d, fails)
    \/ \E d \in Db, r \in Row : Write(d, r)
    \/ \E rc \in {"ok", "abort", "fail", "rollback", "error"}, bad \in Bad :
         WriteEnd(rc, bad)
    \/ sqlite4_txn_begin
    \/ \E l \in 0..1 : sqlite4_txn_rollback(l)
    \/ \E bad \in Bad : sqlite4_txn_commit_phase_one(bad)
    \/ sqlite4_txn_commit_phase_two
    \/ \E bad \in Bad : sqlite4_txn_commit(bad)

Spec == Init /\ [][Next]_vars

-----------------------------------------------------------------------------
Savepoint == [zName : Names, nDeferredCons : Int]
Store == [iTransLevel : Levels, content : SUBSET Row,
          atBegin : [WriteLevels -> SUBSET Row]]
Statement == [runs : {TRUE}, readOnly : {FALSE}, needSavepoint : BOOLEAN,
              todo : SUBSET Db, dbs : SUBSET Db, wrote : BOOLEAN, failed : BOOLEAN,
              nFkConstraint : Int, stmtTransMask : SUBSET Db, nStmtDefCons : Int,
              start : [content : [Db -> SUBSET Row], cons : Int]]

TypeOK ==
    /\ db.pSavepoint \in Seq(Savepoint) /\ Len(db.pSavepoint) <= MaxSavepoint
    /\ db.nDeferredCons \in Int
    /\ db.store \in [Db -> Store]
    /\ reader \in [Reader -> SUBSET Db]
    /\ p \in Statement \cup {NoStmt}
    /\ result \in {"ok", "abort", "fail", "rollback", "error"}
    /\ fault \in BOOLEAN

\* The level a store of database d may have at most, going by the savepoints and
\* the statement that writes.
TopLevel(d) ==
    LET n == Len(db.pSavepoint)
    IN IF ~Running \/ d \notin p.dbs \ p.todo THEN n + 1
       ELSE IF d \in p.stmtTransMask THEN n + 2 ELSE Max({2, n + 1})

(***************************************************************************)
(* The levels of all stores follow the savepoints (vdbe.c takes the i-th   *)
(* for level i+1, and vdbeCloseStatement the top level for that of the     *)
(* statement): none is higher, a store that is written is exactly there,   *)
(* statement transactions are nested, one that is read is open, and with   *)
(* no savepoint and no active statement none is.                           *)
(***************************************************************************)
LevelsFollowSavepoints ==
    \A d \in Db :
      LET level == db.store[d].iTransLevel
          written == Running /\ d \in p.dbs \ p.todo /\ ~p.failed
      IN /\ level <= TopLevel(d)
         /\ written => level = TopLevel(d)
         /\ Running /\ d \in p.stmtTransMask => level > 2
         /\ (\E r \in Reader : d \in reader[r]) => level >= 1
         /\ activeVdbeCnt = 0 /\ db.pSavepoint = <<>> => level = 0

\* The rows of S in all databases.
Count(S) == Cardinality({x \in Db \X S : x[2] \in db.store[x[1]].content})

(***************************************************************************)
(* The counters agree with the rows whatever was rolled back in between:   *)
(* nDeferredCons always (vdbeaux.c:1709 "Restore the deferred FK           *)
(* constraint counter to the value consistent with the restored database   *)
(* state"), nFkConstraint while the statement runs, after which no         *)
(* immediate violation is left.                                            *)
(***************************************************************************)
FkCountersExact ==
    /\ db.nDeferredCons = Count(Deferred)
    /\ Count(Immediate) = IF Running THEN p.nFkConstraint ELSE 0

\* What is left of a database when the transaction is rolled back.
Committed(d) == db.store[d].atBegin[2]

(***************************************************************************)
(* Nothing that violates a foreign key is ever committed, by COMMIT, by    *)
(* RELEASE of the outermost savepoint or by the end of a statement outside *)
(* a transaction (sqlite4VdbeCheckFk before each of them).                 *)
(***************************************************************************)
CommittedIsConsistent ==
    \A d \in Db : Committed(d) \cap (Deferred \cup Immediate) = {}

\* The writing statement ends.
Ends == Running /\ ~Running'

(***************************************************************************)
(* Nothing becomes permanent but by a COMMIT or RELEASE of the outermost   *)
(* savepoint, or by the success of a statement outside a transaction:      *)
(* neither by the end of another statement, which halts the same way, nor  *)
(* by a statement or command that returns an error.                        *)
(***************************************************************************)
OnlySuccessPublishes ==
    [][(\E d \in Db : Committed(d)' # Committed(d)) =>
         \/ /\ \E n \in Names : Meant(db, n) = 1 /\ SavepointRelease(n, {})
            /\ result' = "ok"
         \/ Ends /\ db.pSavepoint = <<>> /\ result' \in {"ok", "fail"}]_vars

(***************************************************************************)
(* A statement outside a transaction that ends with an error, other than   *)
(* by conflict clause FAIL, leaves all databases as it found them, however *)
(* many it wrote and whichever statements are active (OP_Halt).            *)
(***************************************************************************)
FailedStatementLeavesNoTrace ==
    [][Ends /\ db.pSavepoint = <<>> /\ result' \notin {"ok", "fail"} =>
         \A d \in Db : db'.store[d].content = p.start.content[d]]_vars

\* No snapshot taken by the stores is lost: the content a store had at savepoint i.
AtSavepoint(i) == [d \in Db |-> db.store[d].atBegin[i + 1]]

Sql == INSTANCE SqlTxn WITH
    Content <- [Db -> SUBSET Row],
    content <- [d \in Db |-> db.store[d].content],
    cons <- db.nDeferredCons,
    stack <- [i \in DOMAIN db.pSavepoint |->
                [name |-> db.pSavepoint[i].zName, content |-> AtSavepoint(i),
                 cons |-> db.pSavepoint[i].nDeferredCons]],
    stmt <- IF Running THEN [runs |-> TRUE, content |-> p.start.content,
                             cons |-> p.start.cons] ELSE p

(***************************************************************************)
(* The virtual machine keeps the promises of the SQL commands, given that  *)
(* xRollback(N) of every store undoes level N as well, as the comment of   *)
(* sqlite4VdbeRollback and vdbeCloseStatement expect.                      *)
(***************************************************************************)
ImplementsSqlTxn == Sql!Spec

(***************************************************************************)
(* Every step makes the changes of all databases permanent, or of none.    *)
(* kv.h:42, of phase one: errors reported there let "a multiple-database   *)
(* transaction ... still be rolled back if the phase one fails on a        *)
(* different database".                                                    *)
(***************************************************************************)
CommitIsAtomic ==
    [][\/ \A d \in Db : Committed(d)' = Committed(d)
       \/ \A d \in Db : Committed(d)' = db.store[d].content]_vars

-----------------------------------------------------------------------------
(* Statements of documents and tests that the code does not keep.          *)

(***************************************************************************)
(* test/savepoint.test:115 (savepoint-2.2): after ROLLBACK TO a savepoint  *)
(* the content is that at the savepoint.                                   *)
(***************************************************************************)
RollbackToRestores ==
    [][\A n \in Name : Meant(db, n) > 0 /\ SavepointRollback(n, {}) =>
         \A d \in Db : db'.store[d].content = AtSavepoint(Meant(db, n))[d]]_vars

(***************************************************************************)
(* kv.h:27-29, and an assertion of kvmemBegin: xBegin raises the level by  *)
(* one, or from 0 to 2.                                                    *)
(***************************************************************************)
StoreBeginsAreLegal == ~fault

(***************************************************************************)
(* sqlite.h.in:959: if an interrupted statement that writes "is inside an  *)
(* explicit transaction, then the entire transaction will be rolled back   *)
(* automatically".                                                         *)
(***************************************************************************)
InterruptRollsBack ==
    [][Ends /\ result' = "error" => db'.pSavepoint = <<>>]_vars

(***************************************************************************)
(* kv.h:41 "A rollback is still possible following phase one": the end of  *)
(* a SELECT makes nothing permanent.                                       *)
(***************************************************************************)
SelectPublishesNothing ==
    [][(\E r \in Reader, rc \in {"ok", "error"} : SelectEnd(r, rc, {})) =>
         \A d \in Db : Committed(d)' = Committed(d)]_vars

(***************************************************************************)
(* kv.h:23 "The transaction level must be at least 1 in order for content  *)
(* to be read": as long as a SELECT is active.                             *)
(***************************************************************************)
ReadersStayOpen ==
    \A r \in Reader : \A d \in reader[r] : db.store[d].iTransLevel >= 1

(***************************************************************************)
(* A statement that writes and succeeds inside a transaction leaves the    *)
(* transaction open: sqlite4VdbeHalt returns an error code otherwise.      *)
(***************************************************************************)
SuccessKeepsTransaction ==
    [][Ends /\ result' = "ok" => db'.pSavepoint = db.pSavepoint]_vars
=============================================================================
