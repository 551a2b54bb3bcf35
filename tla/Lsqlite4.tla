------------------------------ MODULE Lsqlite4 ------------------------------
(***************************************************************************)
(* The Lua binding, src/lsqlite4-build/lsqlite4/lsqlite4.c: who keeps what *)
(* alive.  A connection and its statements live in C; the userdata sdb and *)
(* sdb_vm that a script holds are freed by Lua's collector, which knows    *)
(* the registry and nothing of the pointers in C.                          *)
(*                                                                         *)
(* A member of Sdb, Svm or Conn is an address, used again after it has     *)
(* been freed.                                                             *)
(***************************************************************************)
EXTENDS Naturals, Sequences

CONSTANTS
    Sdb,        \* addresses of userdata of databases
    Svm,        \* addresses of userdata of virtual machines
    Conn,       \* addresses of connections (sqlite4)
    None,       \* NULL
    Uses,       \* what the script does besides the rest, see MayEnd
    MaxDepth    \* bound on SQL functions that are running inside each other

ASSUME Lsqlite4Assumption ==
    /\ None \notin Conn /\ None \notin Sdb /\ Sdb \cap Svm = {}
    /\ Uses \subseteq {"open_ptr", "close_vm", "end_in_function"}
    /\ MaxDepth \in Nat

VARIABLES
    db,         \* the databases: sdb
    vm,         \* the virtual machines: sdb_vm
    listed,     \* of each database the keys of its table in the registry
    conn,       \* the connections
    kept,       \* the userdata that the script can reach
    running,    \* the calls that an SQL function in Lua is running inside of
    fault       \* the first thing that C leaves undefined, or "none"

vars == <<db, vm, listed, conn, kept, running, fault>>

NoDb == [live |-> FALSE, db |-> None, func |-> FALSE]
NoVm == [live |-> FALSE, db |-> None, stmt |-> None, temp |-> FALSE]

Init ==
    /\ db = [w \in Sdb |-> NoDb]
    /\ vm = [v \in Svm |-> NoVm]
    /\ listed = [w \in Sdb |-> {}]
    /\ conn = [c \in Conn |-> [open |-> FALSE, func |-> FALSE]]
    /\ kept = {}
    /\ running = <<>>
    /\ fault = "none"

Running == {running[k] : k \in 1..Len(running)}
OnStack(x) == \E r \in Running : r.who = x

\* Well-behaved scripts end nothing in an SQL function that is used by the
\* statement they are called from.
MayEnd(c) == "end_in_function" \in Uses \/ \A r \in Running : r.conn # c

Undefined(what) ==
    /\ fault' = what
    /\ UNCHANGED <<db, vm, listed, conn, kept, running>>

-----------------------------------------------------------------------------
(* Opening and preparing.                                                  *)

\* newdb and sqlite4_open.  If it fails the new userdata is cleaned up again
\* and left to the collector.
Open(w, c) ==
    /\ ~db[w].live /\ ~conn[c].open
    /\ \/ /\ db' = [db EXCEPT ![w] = [live |-> TRUE, db |-> c, func |-> FALSE]]
          /\ conn' = [conn EXCEPT ![c].open = TRUE]
          /\ kept' = kept \cup {w}
       \/ /\ db' = [db EXCEPT ![w] = [live |-> TRUE, db |-> None, func |-> FALSE]]
          /\ UNCHANGED <<conn, kept>>
    /\ listed' = [listed EXCEPT ![w] = {}]
    /\ UNCHANGED <<vm, running, fault>>

\* db:get_ptr and lsqlite4.open_ptr: another database with the same connection.
OpenPtr(w, old) ==
    LET c == db[old].db
    IN /\ "open_ptr" \in Uses
       /\ ~db[w].live /\ old \in kept /\ c # None
       /\ IF conn[c].open
          THEN /\ db' = [db EXCEPT ![w] = [live |-> TRUE, db |-> c, func |-> FALSE]]
               /\ listed' = [listed EXCEPT ![w] = {}]
               /\ kept' = kept \cup {w}
               /\ UNCHANGED <<vm, conn, running, fault>>
          ELSE Undefined("freed connection")

\* db:prepare, and db:rows, db:nrows and db:urows with temp: newvm enters the
\* new userdata in the table of its database, which keeps the database.  If
\* sqlite4_prepare fails cleanupvm removes it again.
Prepare(w, v, temp) ==
    LET c == db[w].db
    IN /\ w \in kept /\ c # None /\ ~vm[v].live
       /\ IF conn[c].open
          THEN /\ \/ /\ vm' = [vm EXCEPT ![v] = [live |-> TRUE, db |-> w,
                                                 stmt |-> c, temp |-> temp]]
                     /\ listed' = [listed EXCEPT ![w] = @ \cup {v}]
                     /\ kept' = kept \cup {v}
                  \/ /\ vm' = [vm EXCEPT ![v] = [live |-> TRUE, db |-> w,
                                                 stmt |-> None, temp |-> temp]]
                     /\ listed' = [listed EXCEPT ![w] = @ \ {v}]
                     /\ UNCHANGED kept
               /\ UNCHANGED <<db, conn, running, fault>>
          ELSE Undefined("freed connection")

\* db:create_function: an sdb_func is put on the list of this database and
\* registered in place of the one before; sqlite4_create_function refuses that
\* while a statement is running.
CreateFunction(w) ==
    LET c == db[w].db
    IN /\ w \in kept /\ c # None
       /\ \A r \in Running : r.conn # c
       /\ IF conn[c].open
          THEN /\ db' = [x \in Sdb |-> [db[x] EXCEPT !.func =
                                          IF x = w THEN TRUE ELSE @ /\ db[x].db # c]]
               /\ conn' = [conn EXCEPT ![c].func = TRUE]
               /\ UNCHANGED <<vm, listed, kept, running, fault>>
          ELSE Undefined("freed connection")

-----------------------------------------------------------------------------
(* SQL functions.  A step of a statement, or db:exec, calls the function   *)
(* registered with the connection, and the script goes on inside of it.    *)

ConnOf(x) == IF x \in Sdb THEN db[x].db ELSE vm[x].stmt

CallFunction(x) ==
    LET c == ConnOf(x)
    IN /\ x \in kept /\ c # None
       /\ Len(running) < MaxDepth /\ ~OnStack(x)
       /\ IF ~conn[c].open
          THEN Undefined("freed connection")
          ELSE /\ conn[c].func
               /\ IF \E w \in Sdb : db[w].db = c /\ db[w].func
                  THEN /\ running' = Append(running, [who |-> x, conn |-> c])
                       /\ UNCHANGED <<db, vm, listed, conn, kept, fault>>
                  ELSE Undefined("freed function")

\* The function returns, then the step or db:exec.
FunctionReturns ==
    /\ running # <<>>
    /\ running' = SubSeq(running, 1, Len(running) - 1)
    /\ UNCHANGED <<db, vm, listed, conn, kept, fault>>

-----------------------------------------------------------------------------
(* Ending.                                                                 *)

\* sqlite4_finalize and cleanupvm for some virtual machines.
Cleaned(V) == [v \in Svm |-> IF v \in V THEN [vm[v] EXCEPT !.stmt = None] ELSE vm[v]]

\* Wrong on purpose: the entry stays in the table.
Cleanup_Stays(v) ==
    IF OnStack(v) THEN Undefined("finalized while running")
    ELSE /\ vm' = Cleaned({v})
         /\ UNCHANGED listed
         /\ UNCHANGED <<db, conn, kept, running, fault>>

\* cleanupvm.
Cleanup(v) ==
    IF OnStack(v) THEN Undefined("finalized while running")
    ELSE /\ vm' = Cleaned({v})
         /\ listed' = [listed EXCEPT ![vm[v].db] = @ \ {v}]
         /\ UNCHANGED <<db, conn, kept, running, fault>>

\* vm:finalize, or the end of the rows of db:rows.
Finalize(v) ==
    /\ v \in kept /\ vm[v].stmt # None
    /\ MayEnd(vm[v].stmt)
    /\ Cleanup(v)

\* db:close_vm finalizes the virtual machines of a database, or the temporary
\* ones, and leaves them in the table.
CloseVm(w, temp) ==
    LET V == {v \in listed[w] : (temp => vm[v].temp) /\ vm[v].stmt # None}
    IN /\ "close_vm" \in Uses
       /\ w \in kept /\ db[w].db # None
       /\ MayEnd(db[w].db)
       /\ IF \E v \in listed[w] : ~vm[v].live THEN Undefined("freed virtual machine")
          ELSE IF \E v \in V : OnStack(v) THEN Undefined("finalized while running")
          ELSE /\ vm' = Cleaned(V)
               /\ UNCHANGED <<db, listed, conn, kept, running, fault>>

\* sqlite4_close frees the connection, or answers SQLITE4_BUSY if there are
\* other statements than those of V.
AfterClose(c, V) ==
    IF \/ \E v \in Svm \ V : vm[v].stmt = c
       \/ \E r \in Running : r.conn = c
    THEN conn
    ELSE [conn EXCEPT ![c] = [open |-> FALSE, func |-> FALSE]]

\* cleanupdb: the virtual machines of the table are finalized, the table goes,
\* sqlite4_close frees the connection unless it has other statements, and the
\* functions go whether or not it has.
CloseDb(w) ==
    LET c == db[w].db
    IN IF \E v \in listed[w] : ~vm[v].live THEN Undefined("freed virtual machine")
       ELSE IF \E v \in listed[w] : vm[v].db # w THEN Undefined("endless loop")
       ELSE IF \E v \in listed[w] : OnStack(v) THEN Undefined("finalized while running")
       ELSE IF ~conn[c].open THEN Undefined("freed connection")
       ELSE /\ vm' = Cleaned(listed[w])
            /\ listed' = [listed EXCEPT ![w] = {}]
            /\ db' = [db EXCEPT ![w].db = None, ![w].func = FALSE]
            /\ conn' = AfterClose(c, listed[w])
            /\ UNCHANGED <<kept, running, fault>>

\* db:close.
Close(w) ==
    /\ w \in kept /\ db[w].db # None
    /\ MayEnd(db[w].db)
    /\ CloseDb(w)

-----------------------------------------------------------------------------
(* The collector.                                                          *)

\* The script forgets a userdata.
Drop(x) ==
    /\ x \in kept
    /\ kept' = kept \ {x}
    /\ UNCHANGED <<db, vm, listed, conn, running, fault>>

\* dbvm_gc cleans up a virtual machine that has not been closed; then its
\* memory is freed.
CollectVm(v) ==
    /\ vm[v].live /\ v \notin kept /\ ~OnStack(v)
    /\ vm' = [vm EXCEPT ![v] = NoVm]
    /\ listed' = IF vm[v].stmt = None THEN listed
                 ELSE [listed EXCEPT ![vm[v].db] = @ \ {v}]
    /\ UNCHANGED <<db, conn, kept, running, fault>>

\* db_gc, for a database that neither the script nor an entry of its table can
\* reach: a connection that is still open is closed.
CollectDb(w) ==
    LET c == db[w].db
    IN /\ db[w].live /\ w \notin kept /\ ~OnStack(w) /\ listed[w] = {}
       /\ IF c = None
          THEN db' = [db EXCEPT ![w] = NoDb] /\ UNCHANGED <<conn, fault>>
          ELSE IF ~conn[c].open
          THEN fault' = "freed connection" /\ UNCHANGED <<db, conn>>
          ELSE /\ db' = [db EXCEPT ![w] = NoDb]
               /\ conn' = AfterClose(c, {})
               /\ UNCHANGED fault
       /\ UNCHANGED <<vm, listed, kept, running>>

Next ==
    /\ fault = "none"
    /\ \/ \E w \in Sdb :
            \/ \E c \in Conn : Open(w, c)
            \/ \E old \in Sdb : OpenPtr(w, old)
            \/ \E v \in Svm, temp \in BOOLEAN : Prepare(w, v, temp)
            \/ CreateFunction(w) \/ Close(w) \/ CollectDb(w)
            \/ \E temp \in BOOLEAN : CloseVm(w, temp)
            \/ CallFunction(w) \/ Drop(w)
       \/ \E v \in Svm :
            \/ CallFunction(v) \/ Finalize(v) \/ Drop(v) \/ CollectVm(v)
       \/ FunctionReturns

Spec == Init /\ [][Next]_vars

-----------------------------------------------------------------------------
(* Properties.                                                             *)

Database == [live : BOOLEAN, db : Conn \cup {None}, func : BOOLEAN]
VirtualMachine == [live : BOOLEAN, db : Sdb \cup {None},
                   stmt : Conn \cup {None}, temp : BOOLEAN]
Connection == [open : BOOLEAN, func : BOOLEAN]
Caller == [who : Sdb \cup Svm, conn : Conn]

\* The values the variables may have.
TypeOK ==
    /\ db \in [Sdb -> Database]
    /\ vm \in [Svm -> VirtualMachine]
    /\ listed \in [Sdb -> SUBSET Svm]
    /\ conn \in [Conn -> Connection]
    /\ kept \subseteq Sdb \cup Svm
    /\ running \in Seq(Caller)
    /\ fault \in {"none", "freed connection", "freed function",
                  "freed virtual machine", "finalized while running", "endless loop"}

\* No pointer to something freed is followed, no statement is finalized while it
\* runs, and closing a database ends (lsqlite4.c:683-744, 247-265, 1047-1107).
NothingFreedIsUsed == fault = "none"

\* An entry of a database's table is a virtual machine of this database that is
\* still there: the entry would otherwise keep the database for ever, and
\* closing it would follow the entry (lsqlite4.c:240-246, 696-703).
ListedVmsAreLive ==
    \A w \in Sdb : \A v \in listed[w] :
        /\ db[w].live /\ vm[v].live /\ vm[v].db = w

\* A statement that is not finalized belongs to a virtual machine that closing
\* its database will find, and the database is there, with the statement's own
\* connection (lsqlite4.c:240: "to keep db live while svm is live").
StatementsAreListed ==
    \A v \in Svm : vm[v].stmt # None =>
        /\ vm[v].live /\ vm[v].db \in Sdb /\ v \in listed[vm[v].db]
        /\ db[vm[v].db].live /\ db[vm[v].db].db = vm[v].stmt

\* A connection is open exactly while one database has it: closing a database,
\* or collecting it, never leaves its connection open for ever, although
\* sqlite4_close may answer SQLITE4_BUSY, which cleanupdb does not look at
\* (lsqlite4.c:729-730).
ConnectionsAreOwned ==
    /\ \A w \in Sdb : db[w].db # None => conn[db[w].db].open
    /\ \A c \in Conn : conn[c].open =>
        \E w \in Sdb : db[w].live /\ \A x \in Sdb : db[x].db = c <=> x = w

LifetimesAreSound ==
    /\ NothingFreedIsUsed
    /\ ListedVmsAreLive
    /\ StatementsAreListed
    /\ ConnectionsAreOwned
=============================================================================
