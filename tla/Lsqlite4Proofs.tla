--------------------------- MODULE Lsqlite4Proofs ---------------------------
(***************************************************************************)
(* Proofs about Lsqlite4: whatever databases, statements and functions a   *)
(* script uses and whenever Lua collects, nothing that C still refers to   *)
(* is freed and nothing stays open without owner, if the script does not   *)
(* use open_ptr and close_vm and ends nothing in an SQL function that the  *)
(* statement it is called from still needs.                                *)
(***************************************************************************)
EXTENDS Lsqlite4, SequenceTheorems, TLAPS

USE Lsqlite4Assumption

WellBehaved == Uses = {}

-----------------------------------------------------------------------------
(* The inductive invariant.                                                *)

\* Two databases never share a connection, and a connection is open exactly
\* while a database has it.
OneOwner ==
    /\ \A w, x \in Sdb : db[w].db # None /\ db[w].db = db[x].db => w = x
    /\ \A c \in Conn : conn[c].open <=> \E w \in Sdb : db[w].db = c
    /\ \A w \in Sdb : db[w].db # None => db[w].live

\* The callers of a running function keep their connection.
CallersAreOpen ==
    \A k \in 1..Len(running) :
        /\ running[k].who \in Sdb => db[running[k].who].db = running[k].conn
        /\ running[k].who \in Svm => vm[running[k].who].stmt = running[k].conn

\* A registered function is on the list of the database of its connection.
FunctionsAreListed ==
    \A c \in Conn : conn[c].func => \E w \in Sdb : db[w].db = c /\ db[w].func

\* No entry outlives its statement.
EntriesAreOpen == \A w \in Sdb : \A v \in listed[w] : vm[v].stmt # None

IInv ==
    /\ TypeOK
    /\ NothingFreedIsUsed
    /\ ListedVmsAreLive
    /\ StatementsAreListed
    /\ OneOwner
    /\ CallersAreOpen
    /\ FunctionsAreListed
    /\ EntriesAreOpen

\* The invariant holds before the script starts.
LEMMA InitIInv == Init => IInv
<1> SUFFICES ASSUME Init PROVE IInv
  OBVIOUS
<1>1. TypeOK
  <2>1. NoDb \in Database
    BY DEF NoDb, Database
  <2>2. NoVm \in VirtualMachine
    BY DEF NoVm, VirtualMachine
  <2>3. [open |-> FALSE, func |-> FALSE] \in Connection
    BY DEF Connection
  <2> QED BY <2>1, <2>2, <2>3 DEF TypeOK, Init
<1>2. NothingFreedIsUsed /\ ListedVmsAreLive /\ StatementsAreListed
  BY DEF NothingFreedIsUsed, ListedVmsAreLive, StatementsAreListed, Init, NoVm
<1>3. OneOwner /\ CallersAreOpen /\ FunctionsAreListed /\ EntriesAreOpen
  BY DEF OneOwner, CallersAreOpen, FunctionsAreListed, EntriesAreOpen, Init, NoDb
<1> QED BY <1>1, <1>2, <1>3 DEF IInv

-----------------------------------------------------------------------------
(* Facts of a single state.                                                *)

\* The types of the fields.
LEMMA Fields ==
  ASSUME TypeOK
  PROVE  /\ \A w \in Sdb : db[w].live \in BOOLEAN /\ db[w].db \in Conn \cup {None}
                            /\ db[w].func \in BOOLEAN /\ listed[w] \subseteq Svm
         /\ \A v \in Svm : vm[v].live \in BOOLEAN /\ vm[v].db \in Sdb \cup {None}
                            /\ vm[v].stmt \in Conn \cup {None}
         /\ \A c \in Conn : conn[c].open \in BOOLEAN /\ conn[c].func \in BOOLEAN
         /\ \A k \in 1..Len(running) :
                running[k].who \in Sdb \cup Svm /\ running[k].conn \in Conn
<1>1. \A w \in Sdb : db[w] \in Database /\ listed[w] \subseteq Svm
  BY DEF TypeOK
<1>2. \A v \in Svm : vm[v] \in VirtualMachine
  BY DEF TypeOK
<1>3. \A c \in Conn : conn[c] \in Connection
  BY DEF TypeOK
<1>4. \A k \in 1..Len(running) : running[k] \in Caller
  <2>1. running \in Seq(Caller)
    BY DEF TypeOK
  <2> QED BY <2>1
<1>5. \A d \in Database : d.live \in BOOLEAN /\ d.db \in Conn \cup {None} /\ d.func \in BOOLEAN
  BY DEF Database
<1>6. \A v \in VirtualMachine :
        v.live \in BOOLEAN /\ v.db \in Sdb \cup {None} /\ v.stmt \in Conn \cup {None}
  BY DEF VirtualMachine
<1>7. \A c \in Connection : c.open \in BOOLEAN /\ c.func \in BOOLEAN
  BY DEF Connection
<1>8. \A r \in Caller : r.who \in Sdb \cup Svm /\ r.conn \in Conn
  BY DEF Caller
<1> QED BY <1>1, <1>2, <1>3, <1>4, <1>5, <1>6, <1>7, <1>8

\* The owner of a connection, in the form of ConnectionsAreOwned.
LEMMA OwnersAreUnique == IInv => ConnectionsAreOwned
<1> SUFFICES ASSUME IInv PROVE ConnectionsAreOwned
  OBVIOUS
<1>1. \A w \in Sdb : db[w].db # None => conn[db[w].db].open
  BY Fields DEF IInv, OneOwner
<1>2. ASSUME NEW c \in Conn, conn[c].open
      PROVE \E w \in Sdb : db[w].live /\ \A x \in Sdb : db[x].db = c <=> x = w
  <2>1. PICK w \in Sdb : db[w].db = c
    BY <1>2 DEF IInv, OneOwner
  <2> QED BY <2>1 DEF IInv, OneOwner
<1> QED BY <1>1, <1>2 DEF ConnectionsAreOwned

\* A statement that is not finalized is on an open connection.
LEMMA StatementsAreOpen ==
  ASSUME IInv, NEW v \in Svm, vm[v].stmt # None
  PROVE  vm[v].stmt \in Conn /\ conn[vm[v].stmt].open
BY Fields DEF IInv, StatementsAreListed, OneOwner

\* The table of a database holds the statements of its connection, no others.
LEMMA TableIsComplete ==
  ASSUME IInv, NEW w \in Sdb, db[w].db # None, NEW v \in Svm
  PROVE  v \in listed[w] <=> vm[v].stmt = db[w].db
BY Fields DEF IInv, ListedVmsAreLive, StatementsAreListed, OneOwner, EntriesAreOpen

\* What a well-behaved script ends is not in use.
LEMMA EndsAreNotInUse ==
  ASSUME WellBehaved, IInv, NEW c \in Conn, MayEnd(c)
  PROVE  /\ \A k \in 1..Len(running) : running[k].conn # c
         /\ \A r \in Running : r.conn # c
         /\ \A v \in Svm : vm[v].stmt = c => ~OnStack(v)
<1>1. \A r \in Running : r.conn # c
  BY DEF WellBehaved, MayEnd
<1>2. \A k \in 1..Len(running) : running[k].conn # c
  BY <1>1 DEF Running
<1>3. \A v \in Svm : vm[v].stmt = c => ~OnStack(v)
  BY <1>2 DEF OnStack, Running, IInv, CallersAreOpen
<1> QED BY <1>1, <1>2, <1>3

-----------------------------------------------------------------------------
(* One lemma per action.                                                   *)

\* Taking out of a set what is not in it.
LEMMA AbsentMember ==
  ASSUME NEW S, NEW x, x \notin S
  PROVE  S \ {x} = S
OBVIOUS

\* A new database has nothing yet, whether or not its connection opens.
LEMMA OpenKeeps ==
  ASSUME IInv, NEW w \in Sdb, NEW c \in Conn, Open(w, c)
  PROVE  IInv'
<1> USE Fields
<1>0. /\ TypeOK /\ db[w].db = None /\ listed[w] = {}
      /\ \A x \in Sdb : db[x].db # c
  BY DEF IInv, OneOwner, ListedVmsAreLive, Open
<1>a. \A v \in Svm : vm[v].stmt # None => vm[v].db # w
  BY <1>0 DEF IInv, StatementsAreListed
<1>b. \A k \in 1..Len(running) : running[k].who # w
  BY <1>0 DEF IInv, CallersAreOpen
<1>c. UNCHANGED <<vm, running, fault>> /\ \A x \in Sdb : listed'[x] = listed[x]
  BY <1>0 DEF Open, TypeOK
<1>1. CASE /\ db' = [db EXCEPT ![w] = [live |-> TRUE, db |-> c, func |-> FALSE]]
           /\ conn' = [conn EXCEPT ![c].open = TRUE]
           /\ kept' = kept \cup {w}
  <2>1. db' \in [Sdb -> Database]
    <3>1. [live |-> TRUE, db |-> c, func |-> FALSE] \in Database
      BY DEF Database
    <3> QED BY <3>1, <1>1, <1>0 DEF TypeOK
  <2>2. conn' \in [Conn -> Connection]
    <3>1. [conn[c] EXCEPT !.open = TRUE] \in Connection
      <4>1. conn[c] \in Connection
        BY <1>0 DEF TypeOK
      <4> QED BY <4>1 DEF Connection
    <3> QED BY <3>1, <1>1, <1>0 DEF TypeOK
  <2>3. TypeOK' /\ NothingFreedIsUsed'
    BY <2>1, <2>2, <1>0, <1>1, <1>c DEF IInv, TypeOK, NothingFreedIsUsed, Open
  <2>4. /\ \A x \in Sdb : x # w => db'[x] = db[x]
        /\ db'[w].live /\ db'[w].db = c
        /\ \A d \in Conn : d # c => conn'[d] = conn[d]
        /\ conn'[c].open /\ conn'[c].func = conn[c].func
    <3>1. conn[c] \in Connection
      BY <1>0 DEF TypeOK
    <3> QED BY <1>1, <1>0, <3>1 DEF TypeOK, Connection
  <2>5. ListedVmsAreLive' /\ StatementsAreListed' /\ EntriesAreOpen'
    BY <1>0, <1>a, <1>c, <2>4 DEF IInv, ListedVmsAreLive, StatementsAreListed, EntriesAreOpen
  <2>6. OneOwner'
    BY <1>0, <2>4 DEF IInv, OneOwner
  <2>7. CallersAreOpen' /\ FunctionsAreListed'
    BY <1>0, <1>b, <1>c, <2>4 DEF IInv, CallersAreOpen, FunctionsAreListed
  <2> QED BY <2>3, <2>5, <2>6, <2>7 DEF IInv
<1>2. CASE /\ db' = [db EXCEPT ![w] = [live |-> TRUE, db |-> None, func |-> FALSE]]
           /\ UNCHANGED <<conn, kept>>
  <2>1. db' \in [Sdb -> Database]
    <3>1. [live |-> TRUE, db |-> None, func |-> FALSE] \in Database
      BY DEF Database
    <3> QED BY <3>1, <1>2, <1>0 DEF TypeOK
  <2>3. TypeOK' /\ NothingFreedIsUsed'
    BY <2>1, <1>0, <1>2, <1>c DEF IInv, TypeOK, NothingFreedIsUsed, Open
  <2>4. /\ \A x \in Sdb : x # w => db'[x] = db[x]
        /\ db'[w].live /\ db'[w].db = None
    BY <1>2, <1>0 DEF TypeOK
  <2>5. ListedVmsAreLive' /\ StatementsAreListed' /\ EntriesAreOpen'
    BY <1>0, <1>a, <1>c, <2>4 DEF IInv, ListedVmsAreLive, StatementsAreListed, EntriesAreOpen
  <2>6. OneOwner'
    BY <1>0, <1>2, <2>4 DEF IInv, OneOwner
  <2>7. CallersAreOpen' /\ FunctionsAreListed'
    BY <1>0, <1>b, <1>c, <1>2, <2>4 DEF IInv, CallersAreOpen, FunctionsAreListed
  <2> QED BY <2>3, <2>5, <2>6, <2>7 DEF IInv
<1> QED BY <1>1, <1>2 DEF Open

\* A new statement is in the table of its database; a failed one is not.
LEMMA PrepareKeeps ==
  ASSUME IInv, NEW w \in Sdb, NEW v \in Svm, NEW temp \in BOOLEAN, Prepare(w, v, temp)
  PROVE  IInv'
<1> USE Fields
<1>0. /\ TypeOK /\ db[w].db \in Conn /\ conn[db[w].db].open /\ db[w].live
      /\ ~vm[v].live /\ vm[v].stmt = None /\ \A x \in Sdb : v \notin listed[x]
  BY DEF IInv, OneOwner, StatementsAreListed, ListedVmsAreLive, Prepare
<1>a. UNCHANGED <<db, conn, running, fault>>
  BY <1>0 DEF Prepare
<1>b. \A k \in 1..Len(running) : running[k].who # v
  BY <1>0 DEF IInv, CallersAreOpen
<1> DEFINE m(stmt) == [live |-> TRUE, db |-> w, stmt |-> stmt, temp |-> temp]
<1>c. m(db[w].db) \in VirtualMachine /\ m(None) \in VirtualMachine
  BY <1>0 DEF VirtualMachine
<1>1. CASE /\ vm' = [vm EXCEPT ![v] = m(db[w].db)]
           /\ listed' = [listed EXCEPT ![w] = @ \cup {v}]
           /\ kept' = kept \cup {v}
  <2>1. vm' \in [Svm -> VirtualMachine]
    BY <1>1, <1>0, <1>c DEF TypeOK
  <2>2. TypeOK' /\ NothingFreedIsUsed'
    BY <2>1, <1>0, <1>1, <1>a DEF IInv, TypeOK, NothingFreedIsUsed
  <2>3. /\ \A x \in Svm : x # v => vm'[x] = vm[x]
        /\ vm'[v].live /\ vm'[v].db = w /\ vm'[v].stmt = db[w].db
        /\ \A x \in Sdb : x # w => listed'[x] = listed[x]
        /\ listed'[w] = listed[w] \cup {v}
    BY <1>1, <1>0 DEF TypeOK
  <2>4. ListedVmsAreLive' /\ EntriesAreOpen'
    BY <1>0, <1>a, <2>3 DEF IInv, ListedVmsAreLive, EntriesAreOpen
  <2>5. StatementsAreListed'
    BY <1>0, <1>a, <2>3 DEF IInv, StatementsAreListed
  <2>6. OneOwner' /\ FunctionsAreListed'
    BY <1>a DEF IInv, OneOwner, FunctionsAreListed
  <2>7. CallersAreOpen'
    BY <1>a, <1>b, <2>3 DEF IInv, CallersAreOpen
  <2> QED BY <2>2, <2>4, <2>5, <2>6, <2>7 DEF IInv
<1>2. CASE /\ vm' = [vm EXCEPT ![v] = m(None)]
           /\ listed' = [listed EXCEPT ![w] = @ \ {v}]
           /\ UNCHANGED kept
  <2>1. vm' \in [Svm -> VirtualMachine]
    BY <1>2, <1>0, <1>c DEF TypeOK
  <2>2. TypeOK' /\ NothingFreedIsUsed'
    BY <2>1, <1>0, <1>2, <1>a DEF IInv, TypeOK, NothingFreedIsUsed
  <2>3. /\ \A x \in Svm : x # v => vm'[x] = vm[x]
        /\ vm'[v].stmt = None
        /\ \A x \in Sdb : listed'[x] = listed[x]
    <3>1. \A x \in Svm : vm'[x] = IF x = v THEN m(None) ELSE vm[x]
      BY <1>2, <1>0 DEF TypeOK
    <3>2. \A x \in Sdb : listed'[x] = IF x = w THEN listed[w] \ {v} ELSE listed[x]
      BY <1>2, <1>0 DEF TypeOK
    <3>3. listed[w] \ {v} = listed[w]
      <4>1. v \notin listed[w]
        BY <1>0
      <4> QED BY <4>1, AbsentMember
    <3>4. \A x \in Sdb : listed'[x] = listed[x]
      BY <3>2, <3>3
    <3>5. \A x \in Svm : x # v => vm'[x] = vm[x]
      BY <3>1
    <3>6. vm'[v] = m(None)
      BY <3>1
    <3> QED BY <3>4, <3>5, <3>6
  <2>4. ListedVmsAreLive' /\ EntriesAreOpen'
    BY <1>0, <1>a, <2>3 DEF IInv, ListedVmsAreLive, EntriesAreOpen
  <2>5. StatementsAreListed'
    BY <1>0, <1>a, <2>3 DEF IInv, StatementsAreListed
  <2>6. OneOwner' /\ FunctionsAreListed'
    BY <1>a DEF IInv, OneOwner, FunctionsAreListed
  <2>7. CallersAreOpen'
    BY <1>a, <1>b, <2>3 DEF IInv, CallersAreOpen
  <2> QED BY <2>2, <2>4, <2>5, <2>6, <2>7 DEF IInv
<1> QED BY <1>0, <1>1, <1>2 DEF Prepare

\* The newest function of a connection is on the list of its database.
LEMMA CreateFunctionKeeps ==
  ASSUME IInv, NEW w \in Sdb, CreateFunction(w)
  PROVE  IInv'
<1> USE Fields
<1> DEFINE c == db[w].db
<1>0. TypeOK /\ c \in Conn /\ conn[c].open
  BY DEF IInv, OneOwner, CreateFunction
<1>1. /\ db' = [x \in Sdb |-> [db[x] EXCEPT !.func = IF x = w THEN TRUE ELSE @ /\ db[x].db # c]]
      /\ conn' = [conn EXCEPT ![c].func = TRUE]
      /\ UNCHANGED <<vm, listed, kept, running, fault>>
  BY <1>0 DEF CreateFunction
<1>2. \A x \in Sdb : /\ db'[x] \in Database
                     /\ db'[x].live = db[x].live /\ db'[x].db = db[x].db
                     /\ db'[x].func = IF x = w THEN TRUE ELSE db[x].func /\ db[x].db # c
  <2> SUFFICES ASSUME NEW x \in Sdb
               PROVE  /\ db'[x] \in Database
                      /\ db'[x].live = db[x].live /\ db'[x].db = db[x].db
                      /\ db'[x].func = IF x = w THEN TRUE ELSE db[x].func /\ db[x].db # c
    OBVIOUS
  <2>1. db[x] \in Database
    BY <1>0 DEF TypeOK
  <2> DEFINE f == IF x = w THEN TRUE ELSE db[x].func /\ db[x].db # c
  <2>2. db'[x] = [db[x] EXCEPT !.func = f]
    BY <1>1
  <2>3. f \in BOOLEAN
    BY <1>0
  <2> QED BY <2>1, <2>2, <2>3 DEF Database
<1>3. /\ db' \in [Sdb -> Database]
      /\ \A x \in Sdb : db'[x].live = db[x].live /\ db'[x].db = db[x].db
  BY <1>1, <1>2
<1>4. /\ conn' \in [Conn -> Connection]
      /\ \A d \in Conn : conn'[d].open = conn[d].open
      /\ \A d \in Conn : d # c => conn'[d].func = conn[d].func
  <2>1. conn[c] \in Connection /\ conn \in [Conn -> Connection]
    BY <1>0 DEF TypeOK
  <2>2. /\ [conn[c] EXCEPT !.func = TRUE] \in Connection
        /\ [conn[c] EXCEPT !.func = TRUE].open = conn[c].open
    BY <2>1 DEF Connection
  <2>3. conn' = [conn EXCEPT ![c] = [conn[c] EXCEPT !.func = TRUE]]
    BY <1>1
  <2> QED BY <1>0, <2>1, <2>2, <2>3
<1>5. TypeOK' /\ NothingFreedIsUsed'
  BY <1>0, <1>1, <1>3, <1>4 DEF IInv, TypeOK, NothingFreedIsUsed
<1>u. vm' = vm /\ listed' = listed /\ running' = running
  BY <1>1
<1>6. ListedVmsAreLive' /\ StatementsAreListed' /\ EntriesAreOpen'
  <2> HIDE DEF c
  <2>1. ListedVmsAreLive'
    BY <1>u, <1>3 DEF IInv, ListedVmsAreLive
  <2>2. StatementsAreListed'
    <3>1. StatementsAreListed /\ vm' = vm /\ listed' = listed
      BY <1>u DEF IInv
    <3>2. ASSUME NEW v \in Svm, vm[v].stmt # None
          PROVE  /\ vm[v].live /\ vm[v].db \in Sdb /\ v \in listed[vm[v].db]
                 /\ db'[vm[v].db].live /\ db'[vm[v].db].db = vm[v].stmt
      <4>1. /\ vm[v].live /\ vm[v].db \in Sdb /\ v \in listed[vm[v].db]
            /\ db[vm[v].db].live /\ db[vm[v].db].db = vm[v].stmt
        BY <3>1, <3>2 DEF StatementsAreListed
      <4> QED BY <4>1, <1>3
    <3> QED BY <3>1, <3>2 DEF StatementsAreListed
  <2>3. EntriesAreOpen'
    BY <1>u, <1>3 DEF IInv, EntriesAreOpen
  <2> QED BY <2>1, <2>2, <2>3
<1>7. OneOwner'
  <2> HIDE DEF c
  <2>1. \A x, y \in Sdb : db'[x].db # None /\ db'[x].db = db'[y].db => x = y
    BY <1>3 DEF IInv, OneOwner
  <2>2. \A d \in Conn : conn'[d].open <=> \E x \in Sdb : db'[x].db = d
    BY <1>3, <1>4 DEF IInv, OneOwner
  <2>3. \A x \in Sdb : db'[x].db # None => db'[x].live
    BY <1>3 DEF IInv, OneOwner
  <2> QED BY <2>1, <2>2, <2>3 DEF OneOwner
<1>8. CallersAreOpen'
  BY <1>u, <1>3 DEF IInv, CallersAreOpen
<1>9. FunctionsAreListed'
  <2> SUFFICES ASSUME NEW d \in Conn, conn'[d].func
               PROVE  \E x \in Sdb : db'[x].db = d /\ db'[x].func
    BY DEF FunctionsAreListed
  <2>1. CASE d = c
    BY <2>1, <1>2
  <2>2. CASE d # c
    <3>1. PICK x \in Sdb : db[x].db = d /\ db[x].func
      BY <2>2, <1>4 DEF IInv, FunctionsAreListed
    <3>2. db'[x].func
      BY <3>1, <2>2, <1>2
    <3> QED BY <3>1, <3>2, <1>3
  <2> QED BY <2>1, <2>2
<1> QED BY <1>5, <1>6, <1>7, <1>8, <1>9 DEF IInv

\* A function is there when it is called, and its caller keeps the connection.
LEMMA CallFunctionKeeps ==
  ASSUME IInv, NEW x \in Sdb \cup Svm, CallFunction(x)
  PROVE  IInv'
<1> USE Fields
<1> DEFINE c == ConnOf(x)
           r == [who |-> x, conn |-> c]
<1>0. TypeOK /\ c \in Conn /\ conn[c].open
  BY StatementsAreOpen DEF IInv, OneOwner, CallFunction, ConnOf
<1>1. /\ running' = Append(running, r)
      /\ UNCHANGED <<db, vm, listed, conn, kept, fault>>
  BY <1>0 DEF IInv, FunctionsAreListed, CallFunction
<1>2. running \in Seq(Caller) /\ r \in Caller
  BY <1>0 DEF TypeOK, Caller
<1>3. /\ running' \in Seq(Caller)
      /\ Len(running') = Len(running) + 1
      /\ \A k \in 1..Len(running) : running'[k] = running[k]
      /\ running'[Len(running) + 1] = r
  <2> HIDE DEF r
  <2> QED BY <1>1, <1>2
<1>4. TypeOK'
  BY <1>0, <1>1, <1>3 DEF TypeOK
<1>5. CallersAreOpen'
  <2> SUFFICES ASSUME NEW k \in 1..(Len(running) + 1)
               PROVE  /\ running'[k].who \in Sdb => db[running'[k].who].db = running'[k].conn
                      /\ running'[k].who \in Svm => vm[running'[k].who].stmt = running'[k].conn
    BY <1>1, <1>3 DEF CallersAreOpen
  <2>1. CASE k \in 1..Len(running)
    BY <1>3, <2>1 DEF IInv, CallersAreOpen
  <2>2. CASE k = Len(running) + 1
    <3>1. running'[k].who = x /\ running'[k].conn = ConnOf(x)
      BY <1>3, <2>2
    <3> QED BY <3>1 DEF ConnOf
  <2>3. Len(running) \in Nat
    BY <1>2
  <2> QED BY <2>1, <2>2, <2>3
<1> QED BY <1>1, <1>4, <1>5 DEF IInv, NothingFreedIsUsed, ListedVmsAreLive,
              StatementsAreListed, OneOwner, FunctionsAreListed, EntriesAreOpen

\* A return leaves the outer callers as they are.
LEMMA FunctionReturnsKeeps ==
  ASSUME IInv, FunctionReturns
  PROVE  IInv'
<1>0. TypeOK /\ running \in Seq(Caller) /\ running # <<>>
  BY DEF IInv, TypeOK, FunctionReturns
<1>1. /\ running' \in Seq(Caller)
      /\ Len(running') = Len(running) - 1
      /\ \A k \in 1..Len(running') : k \in 1..Len(running) /\ running'[k] = running[k]
  <2>1. running' = SubSeq(running, 1, Len(running) - 1)
    BY DEF FunctionReturns
  <2>2. Len(running) \in Nat \ {0}
    BY <1>0
  <2> DEFINE n == Len(running) - 1
             s == SubSeq(running, 1, n)
  <2>3. n \in Nat /\ \A k \in 1..n : k \in 1..Len(running)
    BY <2>2
  <2>4. \A k \in 1..n : running[k] \in Caller
    BY <1>0, <2>3
  <2>5. /\ s \in Seq(Caller)
        /\ Len(s) = IF 1 <= n THEN n - 1 + 1 ELSE 0
        /\ \A k \in 1..(n - 1 + 1) : s[k] = running[1 + k - 1]
    <3> HIDE DEF n
    <3>1. n \in Int
      BY <2>3
    <3> QED BY ONLY <3>1, <2>4, SubSeqProperties
  <2>6. Len(s) = n /\ \A k \in 1..n : s[k] = running[k]
    <3> HIDE DEF n, s
    <3> QED BY <2>3, <2>5
  <2> QED BY <2>1, <2>3, <2>5, <2>6
<1>2. UNCHANGED <<db, vm, listed, conn, kept, fault>>
  BY DEF FunctionReturns
<1>3. CallersAreOpen'
  BY <1>1, <1>2 DEF IInv, CallersAreOpen
<1>4. TypeOK'
  BY <1>0, <1>1, <1>2 DEF TypeOK
<1> QED BY <1>2, <1>3, <1>4 DEF IInv, NothingFreedIsUsed, ListedVmsAreLive,
              StatementsAreListed, OneOwner, FunctionsAreListed, EntriesAreOpen

\* A virtual machine that nobody is running goes, from its table too.
LEMMA VmGoesKeeps ==
  ASSUME IInv, TypeOK', NEW v \in Svm,
         \A k \in 1..Len(running) : running[k].who # v,
         UNCHANGED <<db, conn, running, fault>>,
         \A x \in Svm : x # v => vm'[x] = vm[x],
         vm'[v].stmt = None,
         \A w \in Sdb : listed'[w] = listed[w] \ {v}
  PROVE  IInv'
<1>1. NothingFreedIsUsed' /\ OneOwner' /\ FunctionsAreListed'
  BY DEF IInv, NothingFreedIsUsed, OneOwner, FunctionsAreListed
<1>2. ListedVmsAreLive' /\ EntriesAreOpen'
  BY Fields DEF IInv, ListedVmsAreLive, EntriesAreOpen
<1>3. StatementsAreListed'
  BY DEF IInv, StatementsAreListed
<1>4. CallersAreOpen'
  BY DEF IInv, CallersAreOpen
<1> QED BY <1>1, <1>2, <1>3, <1>4 DEF IInv

\* A database goes with its connection and the statements of that connection.
LEMMA DbGoesKeeps ==
  ASSUME IInv, TypeOK', NEW w \in Sdb, NEW c \in Conn, db[w].db = c,
         \A k \in 1..Len(running) : running[k].conn # c,
         UNCHANGED <<running, fault>>,
         \A x \in Sdb : x # w => db'[x] = db[x] /\ listed'[x] = listed[x],
         db'[w].db = None, listed'[w] = {},
         \A v \in Svm : vm[v].stmt # c => vm'[v] = vm[v],
         \A v \in Svm : vm[v].stmt = c => vm'[v].stmt = None,
         \A d \in Conn : d # c => conn'[d] = conn[d],
         ~conn'[c].open, ~conn'[c].func
  PROVE  IInv'
<1>1. NothingFreedIsUsed'
  BY DEF IInv, NothingFreedIsUsed
<1>2. \A x \in Sdb : x # w => db[x].db # c
  BY DEF IInv, OneOwner
<1>3. \A x \in Sdb : x # w => \A v \in listed[x] : v \in Svm /\ vm[v].stmt # c
  BY <1>2, Fields DEF IInv, ListedVmsAreLive, EntriesAreOpen, StatementsAreListed
<1>4. ListedVmsAreLive' /\ EntriesAreOpen'
  BY <1>3 DEF IInv, ListedVmsAreLive, EntriesAreOpen
<1>5. StatementsAreListed'
  <2>1. ASSUME NEW v \in Svm, vm'[v].stmt # None
        PROVE  /\ vm'[v].live /\ vm'[v].db \in Sdb /\ v \in listed'[vm'[v].db]
               /\ db'[vm'[v].db].live /\ db'[vm'[v].db].db = vm'[v].stmt
    <3>1. vm[v].stmt # c /\ vm'[v] = vm[v]
      BY <2>1
    <3>2. /\ vm[v].live /\ vm[v].db \in Sdb /\ v \in listed[vm[v].db]
          /\ db[vm[v].db].live /\ db[vm[v].db].db = vm[v].stmt
      BY <2>1, <3>1 DEF IInv, StatementsAreListed
    <3> QED BY <3>1, <3>2
  <2> QED BY <2>1 DEF StatementsAreListed
<1>6. OneOwner'
  <2>1. \A x, y \in Sdb : db'[x].db # None /\ db'[x].db = db'[y].db => x = y
    BY DEF IInv, OneOwner
  <2>2. \A d \in Conn : conn'[d].open <=> \E x \in Sdb : db'[x].db = d
    <3>1. ASSUME NEW d \in Conn, d # c
          PROVE  conn'[d].open <=> \E x \in Sdb : db'[x].db = d
      BY <3>1 DEF IInv, OneOwner
    <3>2. ~ \E x \in Sdb : db'[x].db = c
      BY <1>2
    <3> QED BY <3>1, <3>2
  <2>3. \A x \in Sdb : db'[x].db # None => db'[x].live
    BY DEF IInv, OneOwner
  <2> QED BY <2>1, <2>2, <2>3 DEF OneOwner
<1>7. CallersAreOpen'
  <2>1. ASSUME NEW k \in 1..Len(running)
        PROVE  /\ running[k].who \in Sdb => db'[running[k].who].db = running[k].conn
               /\ running[k].who \in Svm => vm'[running[k].who].stmt = running[k].conn
    BY DEF IInv, CallersAreOpen
  <2> QED BY <2>1 DEF CallersAreOpen
<1>8. FunctionsAreListed'
  <2>1. ASSUME NEW d \in Conn, conn'[d].func
        PROVE  \E x \in Sdb : db'[x].db = d /\ db'[x].func
    <3>1. d # c /\ conn[d].func
      BY <2>1
    <3>2. PICK x \in Sdb : db[x].db = d /\ db[x].func
      BY <3>1 DEF IInv, FunctionsAreListed
    <3> QED BY <3>1, <3>2
  <2> QED BY <2>1 DEF FunctionsAreListed
<1> QED BY <1>1, <1>4, <1>5, <1>6, <1>7, <1>8 DEF IInv

\* What finalizing some virtual machines does.
LEMMA CleanedFacts ==
  ASSUME TypeOK, NEW V
  PROVE  /\ Cleaned(V) \in [Svm -> VirtualMachine]
         /\ \A v \in Svm : v \notin V => Cleaned(V)[v] = vm[v]
         /\ \A v \in V \cap Svm : Cleaned(V)[v].stmt = None
<1>1. \A v \in Svm : vm[v] \in VirtualMachine
  BY DEF TypeOK
<1>2. \A m \in VirtualMachine : /\ [m EXCEPT !.stmt = None] \in VirtualMachine
                                /\ [m EXCEPT !.stmt = None].stmt = None
  BY DEF VirtualMachine
<1>3. \A v \in Svm : Cleaned(V)[v] = IF v \in V THEN [vm[v] EXCEPT !.stmt = None] ELSE vm[v]
  BY DEF Cleaned
<1>4. Cleaned(V) \in [Svm -> VirtualMachine]
  BY <1>1, <1>2 DEF Cleaned
<1> QED BY <1>1, <1>2, <1>3, <1>4

\* sqlite4_close frees a connection that has nothing else.
LEMMA AfterCloseFacts ==
  ASSUME TypeOK, NEW c \in Conn, NEW V,
         \A v \in Svm \ V : vm[v].stmt # c,
         \A r \in Running : r.conn # c
  PROVE  /\ AfterClose(c, V) \in [Conn -> Connection]
         /\ \A d \in Conn : d # c => AfterClose(c, V)[d] = conn[d]
         /\ ~AfterClose(c, V)[c].open /\ ~AfterClose(c, V)[c].func
<1> DEFINE closed == [open |-> FALSE, func |-> FALSE]
<1>1. AfterClose(c, V) = [conn EXCEPT ![c] = closed]
  BY DEF AfterClose
<1>2. closed \in Connection /\ ~closed.open /\ ~closed.func
  BY DEF Connection
<1>3. conn \in [Conn -> Connection]
  BY DEF TypeOK
<1> HIDE DEF closed
<1> QED BY <1>1, <1>2, <1>3

\* A statement that no function runs inside of leaves its table.
LEMMA FinalizeKeeps ==
  ASSUME WellBehaved, IInv, NEW v \in Svm, Finalize(v)
  PROVE  IInv'
<1>1. TypeOK /\ vm[v].stmt \in Conn /\ MayEnd(vm[v].stmt) /\ Cleanup(v)
  BY StatementsAreOpen DEF IInv, Finalize
<1>2. ~OnStack(v) /\ \A k \in 1..Len(running) : running[k].who # v
  BY <1>1, EndsAreNotInUse DEF OnStack, Running
<1>3. /\ vm' = Cleaned({v})
      /\ listed' = [listed EXCEPT ![vm[v].db] = @ \ {v}]
      /\ UNCHANGED <<db, conn, kept, running, fault>>
  BY <1>1, <1>2 DEF Cleanup
<1>4. /\ vm' \in [Svm -> VirtualMachine]
      /\ \A x \in Svm : x # v => vm'[x] = vm[x]
      /\ vm'[v].stmt = None
  BY <1>1, <1>3, CleanedFacts
<1>5. listed \in [Sdb -> SUBSET Svm]
  BY <1>1 DEF TypeOK
<1>6. \A w \in Sdb : listed'[w] = listed[w] \ {v}
  <2>1. vm[v].db \in Sdb /\ \A w \in Sdb : w # vm[v].db => v \notin listed[w]
    BY <1>1 DEF IInv, StatementsAreListed, ListedVmsAreLive
  <2>2. listed'[vm[v].db] = listed[vm[v].db] \ {v}
    BY <1>3, <1>5, <2>1
  <2>3. ASSUME NEW w \in Sdb, w # vm[v].db
        PROVE  listed'[w] = listed[w] \ {v}
    <3>1. listed'[w] = listed[w]
      BY <1>3, <1>5, <2>3
    <3>2. v \notin listed[w]
      BY <2>1, <2>3
    <3> QED BY <3>1, <3>2, AbsentMember
  <2> QED BY <2>2, <2>3
<1>7. TypeOK'
  BY <1>1, <1>3, <1>4, <1>5 DEF TypeOK
<1> QED BY <1>2, <1>3, <1>4, <1>6, <1>7, VmGoesKeeps

\* db:close finds all statements of the connection, so that it is freed.
LEMMA CloseKeeps ==
  ASSUME WellBehaved, IInv, NEW w \in Sdb, Close(w)
  PROVE  IInv'
<1> DEFINE c == db[w].db
<1>1. TypeOK /\ c \in Conn /\ conn[c].open /\ MayEnd(c) /\ CloseDb(w)
  BY Fields DEF IInv, OneOwner, Close
<1>2. /\ \A k \in 1..Len(running) : running[k].conn # c
      /\ \A r \in Running : r.conn # c
      /\ \A v \in Svm : vm[v].stmt = c => ~OnStack(v)
  <2> HIDE DEF c
  <2> QED BY <1>1, EndsAreNotInUse
<1>3. \A v \in Svm : v \in listed[w] <=> vm[v].stmt = c
  BY <1>1, TableIsComplete
<1>4. \A v \in listed[w] : v \in Svm /\ vm[v].live /\ vm[v].db = w /\ ~OnStack(v)
  BY <1>1, <1>2, <1>3, Fields DEF IInv, ListedVmsAreLive
<1>5. /\ vm' = Cleaned(listed[w])
      /\ listed' = [listed EXCEPT ![w] = {}]
      /\ db' = [db EXCEPT ![w].db = None, ![w].func = FALSE]
      /\ conn' = AfterClose(c, listed[w])
      /\ UNCHANGED <<kept, running, fault>>
  BY <1>1, <1>4 DEF CloseDb
<1>6. /\ vm' \in [Svm -> VirtualMachine]
      /\ \A v \in Svm : vm[v].stmt # c => vm'[v] = vm[v]
      /\ \A v \in Svm : vm[v].stmt = c => vm'[v].stmt = None
  BY <1>1, <1>3, <1>5, CleanedFacts
<1>7. /\ conn' \in [Conn -> Connection]
      /\ \A d \in Conn : d # c => conn'[d] = conn[d]
      /\ ~conn'[c].open /\ ~conn'[c].func
  <2>1. \A v \in Svm \ listed[w] : vm[v].stmt # c
    BY <1>3
  <2>2. conn' = AfterClose(c, listed[w])
    BY <1>5
  <2> HIDE DEF c
  <2> QED BY <1>1, <1>2, <2>1, <2>2, AfterCloseFacts
<1>8. /\ listed' \in [Sdb -> SUBSET Svm] /\ listed'[w] = {}
      /\ \A x \in Sdb : x # w => listed'[x] = listed[x]
  BY <1>1, <1>5 DEF TypeOK
<1>9. /\ db' \in [Sdb -> Database] /\ db'[w].db = None
      /\ \A x \in Sdb : x # w => db'[x] = db[x]
  <2>1. db \in [Sdb -> Database] /\ db[w] \in Database
    BY <1>1 DEF TypeOK
  <2> DEFINE gone == [db[w] EXCEPT !.db = None, !.func = FALSE]
  <2>2. gone \in Database /\ gone.db = None
    BY <2>1 DEF Database
  <2>3. db' = [db EXCEPT ![w] = gone]
    BY <1>5
  <2> HIDE DEF gone
  <2> QED BY <2>1, <2>2, <2>3
<1>10. TypeOK'
  BY <1>1, <1>5, <1>6, <1>7, <1>8, <1>9 DEF TypeOK
<1>11. UNCHANGED <<running, fault>>
  BY <1>5
<1>12. /\ \A x \in Sdb : x # w => db'[x] = db[x] /\ listed'[x] = listed[x]
       /\ db[w].db = c
  BY <1>8, <1>9
<1> HIDE DEF c
<1> QED BY <1>1, <1>2, <1>6, <1>7, <1>8, <1>9, <1>10, <1>11, <1>12, DbGoesKeeps

\* What the script forgets changes nothing in C.
LEMMA DropKeeps ==
  ASSUME IInv, NEW x \in Sdb \cup Svm, Drop(x)
  PROVE  IInv'
<1>1. UNCHANGED <<db, vm, listed, conn, running, fault>>
  BY DEF Drop
<1>2. TypeOK'
  BY <1>1 DEF IInv, TypeOK, Drop
<1> QED BY <1>1, <1>2 DEF IInv, NothingFreedIsUsed, ListedVmsAreLive, StatementsAreListed,
              OneOwner, CallersAreOpen, FunctionsAreListed, EntriesAreOpen

\* A collected virtual machine is in no table any more.
LEMMA CollectVmKeeps ==
  ASSUME IInv, NEW v \in Svm, CollectVm(v)
  PROVE  IInv'
<1>1. /\ TypeOK /\ ~OnStack(v)
      /\ vm' = [vm EXCEPT ![v] = NoVm]
      /\ UNCHANGED <<db, conn, kept, running, fault>>
  BY DEF IInv, CollectVm
<1>2. \A k \in 1..Len(running) : running[k].who # v
  BY <1>1 DEF OnStack, Running
<1>3. /\ vm' \in [Svm -> VirtualMachine]
      /\ \A x \in Svm : x # v => vm'[x] = vm[x]
      /\ vm'[v].stmt = None
  <2>1. vm \in [Svm -> VirtualMachine]
    BY <1>1 DEF TypeOK
  <2>2. NoVm \in VirtualMachine /\ NoVm.stmt = None
    BY DEF NoVm, VirtualMachine
  <2> QED BY <1>1, <2>1, <2>2
<1>4. listed \in [Sdb -> SUBSET Svm]
  BY <1>1 DEF TypeOK
<1>5. listed' \in [Sdb -> SUBSET Svm] /\ \A w \in Sdb : listed'[w] = listed[w] \ {v}
  <2>1. CASE vm[v].stmt = None
    <3>1. listed' = listed
      BY <2>1 DEF CollectVm
    <3>2. \A w \in Sdb : v \notin listed[w]
      BY <2>1 DEF IInv, EntriesAreOpen
    <3> QED BY <3>1, <3>2, <1>4, AbsentMember
  <2>2. CASE vm[v].stmt # None
    <3>1. listed' = [listed EXCEPT ![vm[v].db] = @ \ {v}]
      BY <2>2 DEF CollectVm
    <3>2. vm[v].db \in Sdb /\ \A w \in Sdb : w # vm[v].db => v \notin listed[w]
      BY <2>2 DEF IInv, StatementsAreListed, ListedVmsAreLive
    <3>3. listed' \in [Sdb -> SUBSET Svm] /\ listed'[vm[v].db] = listed[vm[v].db] \ {v}
      BY <1>4, <3>1, <3>2
    <3>4. ASSUME NEW w \in Sdb, w # vm[v].db
          PROVE  listed'[w] = listed[w] \ {v}
      <4>1. listed'[w] = listed[w]
        BY <1>4, <3>1, <3>4
      <4>2. v \notin listed[w]
        BY <3>2, <3>4
      <4> QED BY <4>1, <4>2, AbsentMember
    <3> QED BY <3>3, <3>4
  <2> QED BY <2>1, <2>2
<1>6. TypeOK'
  BY <1>1, <1>3, <1>5 DEF TypeOK
<1>7. UNCHANGED <<db, conn, running, fault>>
  BY <1>1
<1> QED BY <1>2, <1>3, <1>5, <1>6, <1>7, VmGoesKeeps

\* A collected database has no statements and no running callers.
LEMMA CollectDbKeeps ==
  ASSUME IInv, NEW w \in Sdb, CollectDb(w)
  PROVE  IInv'
<1> DEFINE c == db[w].db
<1>1. /\ TypeOK /\ ~OnStack(w) /\ listed[w] = {} /\ db \in [Sdb -> Database]
      /\ UNCHANGED <<vm, listed, kept, running>>
  BY DEF IInv, TypeOK, CollectDb
<1>2. \A v \in Svm : vm[v].stmt # None => vm[v].db # w
  BY <1>1 DEF IInv, StatementsAreListed
<1>3. \A k \in 1..Len(running) : running[k].who # w
  BY <1>1 DEF OnStack, Running
<1>4. NoDb \in Database /\ NoDb.db = None /\ NoDb.func = FALSE
  BY DEF NoDb, Database
<1>5. CASE c = None
  <2>1. db' = [db EXCEPT ![w] = NoDb] /\ UNCHANGED <<conn, fault>>
    BY <1>5 DEF CollectDb
  <2>2. /\ db' \in [Sdb -> Database] /\ db'[w].db = None
        /\ \A x \in Sdb : x # w => db'[x] = db[x]
    BY <1>1, <1>4, <2>1
  <2>3. TypeOK' /\ NothingFreedIsUsed'
    BY <1>1, <2>1, <2>2 DEF IInv, TypeOK, NothingFreedIsUsed
  <2>4. ListedVmsAreLive' /\ EntriesAreOpen'
    BY <1>1, <2>2 DEF IInv, ListedVmsAreLive, EntriesAreOpen
  <2>5. StatementsAreListed'
    BY <1>1, <1>2, <2>2 DEF IInv, StatementsAreListed
  <2>6. OneOwner'
    <3>1. \A x \in Sdb : db'[x].db = db[x].db
      BY <1>5, <2>2
    <3>2. \A x \in Sdb : db'[x].db # None => db'[x].live
      BY <2>2 DEF IInv, OneOwner
    <3> QED BY <3>1, <3>2, <2>1 DEF IInv, OneOwner
  <2>7. CallersAreOpen'
    BY <1>1, <1>3, <2>2 DEF IInv, CallersAreOpen
  <2>8. FunctionsAreListed'
    <3>1. ASSUME NEW d \in Conn, conn[d].func
          PROVE  \E x \in Sdb : db'[x].db = d /\ db'[x].func
      <4>1. PICK x \in Sdb : db[x].db = d /\ db[x].func
        BY <3>1 DEF IInv, FunctionsAreListed
      <4>2. x # w
        BY <4>1, <1>5
      <4> QED BY <4>1, <4>2, <2>2
    <3> QED BY <3>1, <2>1 DEF FunctionsAreListed
  <2> QED BY <2>3, <2>4, <2>5, <2>6, <2>7, <2>8 DEF IInv
<1>6. CASE c # None
  <2>1. c \in Conn /\ conn[c].open
    BY <1>1, <1>6, Fields DEF IInv, OneOwner
  <2>2. /\ db' = [db EXCEPT ![w] = NoDb]
        /\ conn' = AfterClose(c, {})
        /\ fault' = fault
    BY <1>6, <2>1 DEF CollectDb
  <2>3. \A v \in Svm : vm[v].stmt # c
    BY <1>1, <1>6, TableIsComplete
  <2>4. \A k \in 1..Len(running) : running[k].conn # c
    <3> SUFFICES ASSUME NEW k \in 1..Len(running), running[k].conn = c PROVE FALSE
      OBVIOUS
    <3>1. running[k].who \in Sdb \cup Svm
      BY <1>1, Fields
    <3>2. CASE running[k].who \in Sdb
      BY <1>3, <1>6, <3>2 DEF IInv, CallersAreOpen, OneOwner
    <3>3. CASE running[k].who \in Svm
      BY <2>3, <3>3 DEF IInv, CallersAreOpen
    <3> QED BY <3>1, <3>2, <3>3
  <2>5. /\ conn' \in [Conn -> Connection]
        /\ \A d \in Conn : d # c => conn'[d] = conn[d]
        /\ ~conn'[c].open /\ ~conn'[c].func
    <3>1. \A r \in Running : r.conn # c
      BY <2>4 DEF Running
    <3>2. \A v \in Svm \ {} : vm[v].stmt # c
      BY <2>3
    <3> HIDE DEF c
    <3> QED BY <1>1, <2>1, <2>2, <3>1, <3>2, AfterCloseFacts
  <2>6. /\ db' \in [Sdb -> Database] /\ db'[w].db = None
        /\ \A x \in Sdb : x # w => db'[x] = db[x] /\ listed'[x] = listed[x]
    BY <1>1, <1>4, <2>2
  <2>7. TypeOK'
    BY <1>1, <2>2, <2>5, <2>6 DEF TypeOK
  <2>8. /\ UNCHANGED <<running, fault>> /\ listed'[w] = {} /\ db[w].db = c
        /\ \A v \in Svm : vm'[v] = vm[v]
    BY <1>1, <2>2
  <2> HIDE DEF c
  <2> QED BY <2>1, <2>3, <2>4, <2>5, <2>6, <2>7, <2>8, DbGoesKeeps
<1> QED BY <1>5, <1>6

-----------------------------------------------------------------------------
(* The theorems.                                                           *)

\* Every step of a well-behaved script keeps the invariant.
LEMMA NextIInv ==
  ASSUME WellBehaved, IInv, [Next]_vars
  PROVE  IInv'
<1>1. CASE UNCHANGED vars
  BY <1>1 DEF vars, IInv, TypeOK, NothingFreedIsUsed, ListedVmsAreLive, StatementsAreListed,
              OneOwner, CallersAreOpen, FunctionsAreListed, EntriesAreOpen
<1>2. CASE Next
  <2>1. ASSUME NEW w \in Sdb, NEW c \in Conn, Open(w, c) PROVE IInv'
    BY <2>1, OpenKeeps
  <2>2. ASSUME NEW w \in Sdb, NEW old \in Sdb, OpenPtr(w, old) PROVE IInv'
    BY <2>2 DEF WellBehaved, OpenPtr
  <2>3. ASSUME NEW w \in Sdb, NEW v \in Svm, NEW temp \in BOOLEAN, Prepare(w, v, temp)
        PROVE  IInv'
    BY <2>3, PrepareKeeps
  <2>4. ASSUME NEW w \in Sdb, CreateFunction(w) PROVE IInv'
    BY <2>4, CreateFunctionKeeps
  <2>5. ASSUME NEW w \in Sdb, Close(w) PROVE IInv'
    BY <2>5, CloseKeeps
  <2>6. ASSUME NEW w \in Sdb, CollectDb(w) PROVE IInv'
    BY <2>6, CollectDbKeeps
  <2>7. ASSUME NEW w \in Sdb, NEW temp \in BOOLEAN, CloseVm(w, temp) PROVE IInv'
    BY <2>7 DEF WellBehaved, CloseVm
  <2>8. ASSUME NEW x \in Sdb \cup Svm, CallFunction(x) PROVE IInv'
    BY <2>8, CallFunctionKeeps
  <2>9. ASSUME NEW x \in Sdb \cup Svm, Drop(x) PROVE IInv'
    BY <2>9, DropKeeps
  <2>10. ASSUME NEW v \in Svm, Finalize(v) PROVE IInv'
    BY <2>10, FinalizeKeeps
  <2>11. ASSUME NEW v \in Svm, CollectVm(v) PROVE IInv'
    BY <2>11, CollectVmKeeps
  <2>12. ASSUME FunctionReturns PROVE IInv'
    BY <2>12, FunctionReturnsKeeps
  <2> QED BY <1>2, <2>1, <2>2, <2>3, <2>4, <2>5, <2>6, <2>7, <2>8, <2>9, <2>10, <2>11,
             <2>12 DEF Next
<1> QED BY <1>1, <1>2

\* The variables keep their types whatever a well-behaved script does
\* (lsqlite4.c).
THEOREM TypeCorrect ==
  ASSUME WellBehaved
  PROVE  Spec => []TypeOK
<1>1. Init => IInv
  BY InitIInv
<1>2. IInv /\ [Next]_vars => IInv'
  BY NextIInv
<1>3. IInv => TypeOK
  BY DEF IInv
<1> QED BY <1>1, <1>2, <1>3, PTL DEF Spec

\* However a well-behaved script opens, prepares, steps, finalizes, closes and
\* forgets, and whenever Lua collects, no pointer to freed memory is followed,
\* every open statement is found by closing its database, and no connection is
\* left open without a database (lsqlite4.c:240-265, 683-744, 1047-1107).
THEOREM LifetimesStaySound ==
  ASSUME WellBehaved
  PROVE  Spec => []LifetimesAreSound
<1>1. Init => IInv
  BY InitIInv
<1>2. IInv /\ [Next]_vars => IInv'
  BY NextIInv
<1>3. IInv => LifetimesAreSound
  BY OwnersAreUnique DEF IInv, LifetimesAreSound
<1> QED BY <1>1, <1>2, <1>3, PTL DEF Spec
=============================================================================
