------------------------------- MODULE Schema -------------------------------
(***************************************************************************)
(* The schema of a database and the statements compiled against it: the    *)
(* rows of sqlite_master in the store, the copy of them that a connection  *)
(* keeps in memory, the schema cookie and the generation by which a        *)
(* program notices that it is out of date, the retries of sqlite4_step,    *)
(* and what commits and rollbacks of schema changes do to all of them      *)
(* (build.c, prepare.c, callback.c, vdbe.c, vdbeapi.c and vdbeaux.c of     *)
(* src/sqlite4-build/src).                                                 *)
(*                                                                         *)
(* A table is what its row of sqlite_master says: its number, which is the *)
(* prefix of the keys of its rows.  Statements are those the four kinds    *)
(* stand for; indexes, triggers, views and the TEMP database are left out. *)
(***************************************************************************)
EXTENDS Naturals, Sequences, FiniteSets, FiniteSetsExt

CONSTANTS
    Conn,           \* the connections to one database
    NoConn,         \* no connection has a transaction open
    MaxStmt,        \* bound on the prepared statements of a connection
    Table,          \* the names of tables
    NoTable,        \* the table of no statement
    NoStmt,         \* no statement is being stepped
    MaxSavepoint,   \* bound on nested savepoints
    MaxChange,      \* bound on the cookie and on the generation
    ParseFaults     \* where OP_ParseSchema may fail: "autocommit", "transaction"

Stmt == Conn \X (1..MaxStmt)       \* handles, by connection
OwnerOf(s) == s[1]

ASSUME SchemaAssumption ==
    /\ IsFiniteSet(Conn) /\ NoConn \notin Conn
    /\ IsFiniteSet(Table) /\ NoTable \notin Table
    /\ MaxStmt \in Nat /\ NoStmt \notin Stmt
    /\ MaxSavepoint \in Nat /\ MaxChange \in Nat
    /\ ParseFaults \subseteq {"autocommit", "transaction"}

VARIABLES
    disk,       \* the store: sqlite_master and the tables that have rows
    saved,      \* the store when each open savepoint was opened
    owner,      \* the connection whose savepoints these are
    conn,       \* what each connection keeps in memory
    stmt,       \* the prepared statements
    call        \* the sqlite4_step that each connection is executing

vars == <<disk, saved, owner, conn, stmt, call>>

Number == 0..(2 + MaxChange)        \* numbers of tables; 0: no table
MaxRetry == 5                       \* SQLITE4_MAX_SCHEMA_RETRY

Kind == {"select", "insert", "create", "drop"}
NoProgram == [state |-> "none", kind |-> "select", table |-> NoTable,
              cookie |-> 0, gen |-> 0, num |-> 0, expired |-> FALSE]
NoTables == [t \in Table |-> 0]
NoCall == [stmt |-> NoStmt, at |-> "idle", cnt |-> 0]

Init ==
    /\ disk = [master |-> NoTables, rows |-> {}]
    /\ saved = <<>>
    /\ owner = NoConn
    /\ conn = [c \in Conn |-> [iMeta |-> 0, tables |-> NoTables, schema_cookie |-> 0,
                               iGeneration |-> 0, loaded |-> FALSE, intern |-> FALSE]]
    /\ stmt = [s \in Stmt |-> NoProgram]
    /\ call = [c \in Conn |-> NoCall]

Idle(c) == call[c].at = "idle"
InTransaction(c) == owner = c
View(c) == IF owner \in {c, NoConn} THEN disk ELSE saved[1]
CanChange(c) == conn[c].iMeta < MaxChange /\ conn[c].iGeneration < MaxChange

-----------------------------------------------------------------------------
(* The schema in memory.                                                   *)

\* sqlite4SchemaClear.
SchemaClear(m) ==
    [m EXCEPT !.tables = NoTables, !.loaded = FALSE,
              !.iGeneration = IF m.loaded THEN @ + 1 ELSE @]

\* sqlite4Init: the schema is read unless it is there.
ReadSchema(c, m) ==
    IF m.loaded THEN m
    ELSE [m EXCEPT !.tables = View(c).master, !.loaded = TRUE, !.schema_cookie = m.iMeta]

\* Wrong on purpose: changes of the schema are not undone in memory.
RollbackSchema_Keeps(c, iLevel) ==
    /\ conn' = [conn EXCEPT ![c].intern = iLevel > 2 /\ @]
    /\ UNCHANGED stmt

\* What sqlite4VdbeRollback does to the schema and the statements of c.
RollbackSchema(c, iLevel) ==
    IF conn[c].intern
    THEN /\ conn' = [conn EXCEPT ![c] = [SchemaClear(@) EXCEPT !.intern = iLevel > 2]]
         /\ stmt' = [s \in Stmt |-> IF OwnerOf(s) = c
                                    THEN [stmt[s] EXCEPT !.expired = TRUE] ELSE stmt[s]]
    ELSE UNCHANGED <<conn, stmt>>

-----------------------------------------------------------------------------
(* Compilation.                                                            *)

\* The statement compiles: its table is known, or is not known yet.
Compiles(m, kind, t) == (kind = "create") = (m.tables[t] = 0)

\* Wrong on purpose: the new program is as expired as the old one.
Program_Expired(m, kind, t) ==
    [state |-> "ready", kind |-> kind, table |-> t, expired |-> TRUE,
     cookie |-> m.schema_cookie, gen |-> m.iGeneration,
     num |-> IF kind = "create" THEN Max({1} \cup {m.tables[u] : u \in Table})
             ELSE m.tables[t]]

\* The program: the cookie and the generation that OP_VerifyCookie expects and
\* the number of its table; a CREATE starts from the largest number known.
Program(m, kind, t) ==
    [state |-> "ready", kind |-> kind, table |-> t, expired |-> FALSE,
     cookie |-> m.schema_cookie, gen |-> m.iGeneration,
     num |-> IF kind = "create" THEN Max({1} \cup {m.tables[u] : u \in Table})
             ELSE m.tables[t]]

\* sqlite4Prepare, tried again once when schemaIsValid finds another cookie:
\* the schema then is cleared and read again.
SchemaToCompile(c, kind, t) ==
    LET m == ReadSchema(c, conn[c])
    IN IF ~Compiles(m, kind, t) /\ m.schema_cookie # m.iMeta
       THEN ReadSchema(c, SchemaClear(m)) ELSE m

\* sqlite4_prepare; a statement that does not compile leaves no handle.
Prepare(s, kind, t) ==
    LET c == OwnerOf(s)
        m == SchemaToCompile(c, kind, t)
    IN /\ Idle(c) /\ stmt[s].state = "none"
       /\ conn' = [conn EXCEPT ![c] = m]
       /\ stmt' = IF Compiles(m, kind, t)
                  THEN [stmt EXCEPT ![s] = Program(m, kind, t)] ELSE stmt
       /\ UNCHANGED <<disk, saved, owner, call>>

-----------------------------------------------------------------------------
(* sqlite4_step: steps of the statement and retries.                       *)

CallStep(s) ==
    LET c == OwnerOf(s)
    IN /\ Idle(c) /\ stmt[s].state # "none"
       /\ stmt[s].kind \in {"create", "drop"} => CanChange(c)
       /\ call' = [call EXCEPT ![c] = [stmt |-> s, at |-> "step", cnt |-> 0]]
       /\ UNCHANGED <<disk, saved, owner, conn, stmt>>

Stepping(c, s) == call[c].at = "step" /\ call[c].stmt = s
Return(c) == call' = [call EXCEPT ![c] = NoCall]
ToRetry(c) == call' = [call EXCEPT ![c].at = "retry"]

\* A statement that is not running and has expired: SQLITE4_SCHEMA.
StepExpired(c, s) ==
    /\ Stepping(c, s) /\ stmt[s].state = "ready" /\ stmt[s].expired
    /\ ToRetry(c)
    /\ UNCHANGED <<disk, saved, owner, conn, stmt>>

\* A SELECT that is running yields another row or ends.
StepRow(c, s) ==
    /\ Stepping(c, s) /\ stmt[s].state = "active"
    /\ \/ UNCHANGED <<stmt, conn>>
       \/ /\ stmt' = [stmt EXCEPT ![s].state = "ready"]
          /\ conn' = [conn EXCEPT ![c].intern = InTransaction(c) /\ @]
    /\ Return(c)
    /\ UNCHANGED <<disk, saved, owner>>

Starts(c, s) ==
    /\ Stepping(c, s) /\ stmt[s].state = "ready" /\ ~stmt[s].expired
    /\ stmt[s].kind = "select" \/ owner \in {c, NoConn}

\* Wrong on purpose: the cookie is not compared.
Verified_GenerationOnly(c, s) == stmt[s].gen = conn[c].iGeneration

\* OP_VerifyCookie lets the program run.
Verified(c, s) == stmt[s].cookie = conn[c].iMeta /\ stmt[s].gen = conn[c].iGeneration

\* OP_VerifyCookie does not: SQLITE4_SCHEMA, after a rollback that in
\* autocommit mode undoes nothing.
StepStale(c, s) ==
    /\ Starts(c, s) /\ ~Verified(c, s)
    /\ conn' = [conn EXCEPT ![c] = IF @.schema_cookie # @.iMeta THEN SchemaClear(@) ELSE @]
    /\ stmt' = [stmt EXCEPT ![s].expired = TRUE]
    /\ ToRetry(c)
    /\ UNCHANGED <<disk, saved, owner>>

\* sqlite4VdbeHalt of a statement that succeeded: in autocommit mode the schema
\* changes are committed.
Halted(c, m) == [m EXCEPT !.intern = InTransaction(c) /\ @]

\* A SELECT returns its first row, or there is none.
StepSelect(c, s) ==
    /\ Starts(c, s) /\ Verified(c, s) /\ stmt[s].kind = "select"
    /\ \/ /\ stmt' = [stmt EXCEPT ![s].state = "active"]
          /\ stmt[s].num \in View(c).rows
          /\ UNCHANGED conn
       \/ /\ conn' = [conn EXCEPT ![c] = Halted(c, @)]
          /\ UNCHANGED stmt
    /\ Return(c)
    /\ UNCHANGED <<disk, saved, owner>>

\* An INSERT writes a row under the number that was compiled into it.
StepInsert(c, s) ==
    /\ Starts(c, s) /\ Verified(c, s) /\ stmt[s].kind = "insert"
    /\ disk' = [disk EXCEPT !.rows = @ \cup {stmt[s].num}]
    /\ conn' = [conn EXCEPT ![c] = Halted(c, @)]
    /\ Return(c)
    /\ UNCHANGED <<saved, owner, stmt>>

\* OP_SetCookie, with the value computed when the program was compiled.
SetCookie(m, s) == [m EXCEPT !.iMeta = stmt[s].cookie + 1,
                             !.schema_cookie = stmt[s].cookie + 1, !.intern = TRUE]

\* Wrong on purpose: only tables that have rows count.
NewNumber_FromRows(s) == Max({1} \cup disk.rows) + 1

\* OP_NewIdxid: above the largest number that was known to the compiler and
\* above the largest that has a row.
NewNumber(s) == Max({stmt[s].num} \cup disk.rows) + 1

\* CREATE TABLE: the row of sqlite_master, the cookie, and OP_ParseSchema.
StepCreate(c, s) ==
    LET t == stmt[s].table
        n == NewNumber(s)
    IN /\ Starts(c, s) /\ Verified(c, s) /\ stmt[s].kind = "create"
       /\ disk' = [disk EXCEPT !.master[t] = n]
       /\ conn' = [conn EXCEPT ![c] = Halted(c, [SetCookie(@, s) EXCEPT !.tables[t] = n])]
       /\ Return(c)
       /\ UNCHANGED <<saved, owner, stmt>>

\* DROP TABLE: OP_Clear of its rows, its row of sqlite_master, OP_DropTable
\* and the cookie.
StepDrop(c, s) ==
    LET t == stmt[s].table
    IN /\ Starts(c, s) /\ Verified(c, s) /\ stmt[s].kind = "drop"
       /\ disk' = [master |-> [disk.master EXCEPT ![t] = 0],
                   rows |-> disk.rows \ {stmt[s].num}]
       /\ conn' = [conn EXCEPT ![c] = Halted(c, [SetCookie(@, s) EXCEPT !.tables[t] = 0])]
       /\ Return(c)
       /\ UNCHANGED <<saved, owner, stmt>>

\* OP_ParseSchema of a CREATE TABLE fails, out of memory or interrupted.  In
\* autocommit mode everything is rolled back; in a transaction the statement
\* has no transaction of its own, and only memory lacks the table.
StepParseFails(c, s) ==
    LET m == SetCookie(conn[c], s)
    IN /\ Starts(c, s) /\ Verified(c, s) /\ stmt[s].kind = "create"
       /\ \/ /\ ~InTransaction(c) /\ "autocommit" \in ParseFaults
             /\ conn' = [conn EXCEPT ![c] = [SchemaClear(m) EXCEPT !.intern = FALSE]]
             /\ stmt' = [x \in Stmt |-> IF OwnerOf(x) = c
                                        THEN [stmt[x] EXCEPT !.expired = TRUE] ELSE stmt[x]]
             /\ UNCHANGED disk
          \/ /\ InTransaction(c) /\ "transaction" \in ParseFaults
             /\ conn' = [conn EXCEPT ![c] = m]
             /\ disk' = [disk EXCEPT !.master[stmt[s].table] = NewNumber(s)]
             /\ UNCHANGED stmt
       /\ Return(c)
       /\ UNCHANGED <<saved, owner>>

\* sqlite4Reprepare and the next turn of the loop, or the end of it: too many
\* retries, or the statement does not compile any more.
Retry(c, s) ==
    LET m == SchemaToCompile(c, stmt[s].kind, stmt[s].table)
    IN /\ call[c].at = "retry" /\ call[c].stmt = s
       /\ IF call[c].cnt = MaxRetry
          THEN Return(c) /\ UNCHANGED <<conn, stmt>>
          ELSE /\ conn' = [conn EXCEPT ![c] = m]
               /\ IF Compiles(m, stmt[s].kind, stmt[s].table)
                  THEN /\ stmt' = [stmt EXCEPT ![s] = Program(m, @.kind, @.table)]
                       /\ call' = [call EXCEPT ![c].at = "step", ![c].cnt = @ + 1]
                  ELSE Return(c) /\ UNCHANGED stmt
       /\ UNCHANGED <<disk, saved, owner>>

\* sqlite4_reset: a statement that is running ends.
Reset(s) ==
    LET c == OwnerOf(s)
    IN /\ Idle(c) /\ stmt[s].state = "active"
       /\ stmt' = [stmt EXCEPT ![s].state = "ready"]
       /\ conn' = [conn EXCEPT ![c] = Halted(c, @)]
       /\ UNCHANGED <<disk, saved, owner, call>>

\* sqlite4_finalize.
Finalize(s) ==
    LET c == OwnerOf(s)
    IN /\ Idle(c) /\ stmt[s].state # "none"
       /\ stmt' = [stmt EXCEPT ![s] = NoProgram]
       /\ conn' = IF stmt[s].state = "active"
                  THEN [conn EXCEPT ![c] = Halted(c, @)] ELSE conn
       /\ UNCHANGED <<disk, saved, owner, call>>

-----------------------------------------------------------------------------
(* Transactions: BEGIN and SAVEPOINT, COMMIT and RELEASE, ROLLBACK and     *)
(* ROLLBACK TO.  The store keeps others from writing while one is open.    *)

Savepoint(c) ==
    /\ Idle(c) /\ owner \in {c, NoConn} /\ Len(saved) < MaxSavepoint
    /\ saved' = Append(saved, disk)
    /\ owner' = c
    /\ UNCHANGED <<disk, conn, stmt, call>>

\* The k-th savepoint is released; the first one is the transaction.
Release(c, k) ==
    /\ Idle(c) /\ InTransaction(c)
    /\ saved' = SubSeq(saved, 1, k - 1)
    /\ IF k = 1
       THEN /\ owner' = NoConn
            /\ conn' = [conn EXCEPT ![c].intern = FALSE]
       ELSE UNCHANGED <<owner, conn>>
    /\ UNCHANGED <<disk, stmt, call>>

\* ROLLBACK TO the k-th savepoint, which stays open.
RollbackTo(c, k) ==
    /\ Idle(c) /\ InTransaction(c) /\ CanChange(c)
    /\ disk' = saved[k]
    /\ saved' = SubSeq(saved, 1, k)
    /\ RollbackSchema(c, k + 1)
    /\ UNCHANGED <<owner, call>>

\* ROLLBACK.
Rollback(c) ==
    /\ Idle(c) /\ InTransaction(c) /\ CanChange(c)
    /\ disk' = saved[1]
    /\ saved' = <<>>
    /\ owner' = NoConn
    /\ RollbackSchema(c, 1)
    /\ UNCHANGED call

-----------------------------------------------------------------------------
Step(c, s) ==
    \/ StepExpired(c, s) \/ StepRow(c, s) \/ StepStale(c, s)
    \/ StepSelect(c, s) \/ StepInsert(c, s)
    \/ StepCreate(c, s) \/ StepParseFails(c, s) \/ StepDrop(c, s)
    \/ Retry(c, s)

Next ==
    \/ \E s \in Stmt, kind \in Kind, t \in Table : Prepare(s, kind, t)
    \/ \E s \in Stmt : CallStep(s) \/ Reset(s) \/ Finalize(s)
    \/ \E c \in Conn, s \in Stmt : Step(c, s)
    \/ \E c \in Conn : Savepoint(c) \/ Rollback(c)
    \/ \E c \in Conn : \E k \in 1..Len(saved) : Release(c, k) \/ RollbackTo(c, k)

Spec == Init /\ [][Next]_vars

-----------------------------------------------------------------------------
(* Properties.                                                             *)

Disk == [master : [Table -> Number], rows : SUBSET Number]

\* The values the variables may have; there are savepoints exactly while a
\* connection has a transaction open.
TypeOK ==
    /\ disk \in Disk
    /\ saved \in Seq(Disk) /\ Len(saved) <= MaxSavepoint
    /\ owner \in Conn \cup {NoConn} /\ (owner = NoConn) = (saved = <<>>)
    /\ conn \in [Conn -> [iMeta : Nat, tables : [Table -> Number], schema_cookie : Nat,
                          iGeneration : Nat, loaded : BOOLEAN, intern : BOOLEAN]]
    /\ stmt \in [Stmt -> [state : {"none", "ready", "active"}, kind : Kind,
                          table : Table \cup {NoTable}, num : Number,
                          cookie : Nat, gen : Nat, expired : BOOLEAN]]
    /\ call \in [Conn -> [stmt : Stmt \cup {NoStmt}, at : {"idle", "step", "retry"},
                          cnt : 0..MaxRetry]]

\* The schema in memory is the one in the store, whatever was created, dropped
\* and rolled back: OP_DropTable and OP_ParseSchema keep "the internal
\* representation of the schema consistent with what is on disk"
\* (vdbe.c:3952-3956), and a rollback reloads it (vdbeaux.c:1697-1704).
SchemaMatchesStore ==
    \A c \in Conn : conn[c].loaded => conn[c].tables = View(c).master

\* A program that OP_VerifyCookie would let run was compiled for the schema as
\* it is: its table is there under the number it knows, or is not there when
\* the program creates it (vdbe.c:2522-2560).  This rests on the cookie going
\* on when a change is rolled back: the generation is then superfluous.
VerifiedProgramsAreCurrent ==
    \A s \in Stmt :
        LET c == OwnerOf(s)
        IN stmt[s].state = "ready" /\ ~stmt[s].expired /\ Verified(c, s) =>
            View(c).master[stmt[s].table] =
                IF stmt[s].kind = "create" THEN 0 ELSE stmt[s].num

\* No two tables have the same number, although a CREATE takes the largest
\* number in use when it was compiled, and a table without rows leaves nothing
\* in the store to see it by (build.c:134-159, vdbe.c:3219-3256).
NumbersAreDistinct ==
    \A t, u \in Table : t # u /\ disk.master[t] # 0 => disk.master[t] # disk.master[u]

\* Every row belongs to a table: a new table does not start with the rows of
\* one that was dropped, and no program writes under a number of the past.
RowsBelongToTables == disk.rows \subseteq {disk.master[t] : t \in Table}

\* A table owns the rows under its number, and no other does.
TablesOwnTheirRows == NumbersAreDistinct /\ RowsBelongToTables

\* sqlite4_step recompiles an expired statement at most once: the limit of
\* five retries (vdbeapi.c:424) is never reached and SQLITE4_SCHEMA never
\* returned to the application.
OneRetryIsEnough == \A c \in Conn : call[c].cnt <= 1
=============================================================================
