------------------------------- MODULE SqlTxn -------------------------------
(***************************************************************************)
(* What the SQL commands BEGIN, COMMIT, ROLLBACK, SAVEPOINT, RELEASE and   *)
(* ROLLBACK TO, and the conflict clauses of a statement that writes,       *)
(* promise of the content of a connection's databases and of its count of  *)
(* deferred foreign key violations.  The commands are those that the       *)
(* comment of OP_Savepoint (vdbe.c) tabulates.  How transactions of the    *)
(* stores are used to keep these promises is the subject of VdbeTxn.       *)
(***************************************************************************)
EXTENDS Integers, Sequences

CONSTANTS
    Content,    \* what the databases together may hold
    Name,       \* the names of savepoints
    NoName      \* stands for the name of the transaction BEGIN opens

VARIABLES
    content,    \* what a query would see
    cons,       \* the deferred foreign key violations not yet resolved
    stack,      \* the open savepoints, outermost first
    stmt,       \* the statement that writes: running or not, and where it began
    result      \* what the last command returned

vars == <<content, cons, stack, stmt, result>>

NoStmt == [runs |-> FALSE]
Began == [runs |-> TRUE, content |-> content, cons |-> cons]

Init ==
    /\ content \in Content
    /\ cons = 0
    /\ stack = <<>>
    /\ stmt = NoStmt
    /\ result = "ok"

\* The innermost savepoint of the name; the transaction itself is the outermost.
Meant(i, n) ==
    /\ i \in DOMAIN stack
    /\ IF n = NoName THEN i = 1
       ELSE /\ stack[i].name = n
            /\ \A j \in i+1..Len(stack) : stack[j].name # n

Savepoint(n) ==
    /\ ~stmt.runs
    /\ n = NoName => stack = <<>>
    /\ stack' = Append(stack, [name |-> n, content |-> content, cons |-> cons])
    /\ result' = "ok"
    /\ UNCHANGED <<content, cons, stmt>>

\* RELEASE keeps the changes; that of the outermost savepoint, and COMMIT, end
\* the transaction, which no violation may survive.
Release(n) ==
    /\ ~stmt.runs
    /\ \E i \in DOMAIN stack : /\ Meant(i, n)
                               /\ i = 1 => cons = 0
                               /\ stack' = SubSeq(stack, 1, i - 1)
    /\ result' = "ok"
    /\ UNCHANGED <<content, cons, stmt>>

\* ROLLBACK TO goes back to the savepoint and leaves it open.
RollbackTo(n) ==
    /\ ~stmt.runs /\ n # NoName
    /\ \E i \in DOMAIN stack : /\ Meant(i, n)
                               /\ content' = stack[i].content
                               /\ cons' = stack[i].cons
                               /\ stack' = SubSeq(stack, 1, i)
    /\ result' = "ok"
    /\ UNCHANGED stmt

\* The end of the transaction without any of its changes.
Undone ==
    /\ content' = stack[1].content
    /\ cons' = 0
    /\ stack' = <<>>

Rollback ==
    /\ ~stmt.runs /\ stack # <<>>
    /\ Undone
    /\ result' = "ok"
    /\ UNCHANGED stmt

\* A command that fails changes nothing.
Refuse ==
    /\ ~stmt.runs
    /\ result' = "error"
    /\ UNCHANGED <<content, cons, stack, stmt>>

StmtBegin ==
    /\ ~stmt.runs
    /\ stmt' = Began
    /\ UNCHANGED <<content, cons, stack, result>>

Write ==
    /\ stmt.runs
    /\ content' \in Content
    /\ cons' \in Int
    /\ UNCHANGED <<stack, stmt, result>>

Keep == UNCHANGED <<content, cons, stack>>
Undo == content' = stmt.content /\ cons' = stmt.cons /\ UNCHANGED stack

(***************************************************************************)
(* The statement ends.  Outside a transaction it must not leave a deferred *)
(* violation behind.  ABORT undoes the statement, FAIL keeps what it did,  *)
(* ROLLBACK ends the transaction; after any other error the statement is   *)
(* undone, but inside a transaction possibly not.                          *)
(***************************************************************************)
StmtEnd(rc) ==
    /\ stmt.runs
    /\ \/ rc \in {"ok", "fail"} /\ (stack = <<>> => cons = 0) /\ Keep
       \/ rc \in {"abort", "error"} /\ Undo
       \/ rc = "error" /\ stack # <<>> /\ Keep
       \/ rc = "rollback" /\ IF stack = <<>> THEN Undo ELSE Undone
    /\ stmt' = NoStmt
    /\ result' = rc

Next ==
    \/ \E n \in Name \cup {NoName} : Savepoint(n)
    \/ \E n \in Name \cup {NoName} : Release(n)
    \/ \E n \in Name : RollbackTo(n)
    \/ Rollback
    \/ Refuse
    \/ StmtBegin
    \/ Write
    \/ \E rc \in {"ok", "abort", "fail", "rollback", "error"} : StmtEnd(rc)

Spec == Init /\ [][Next]_vars
=============================================================================
