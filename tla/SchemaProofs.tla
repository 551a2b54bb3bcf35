---------------------------- MODULE SchemaProofs ----------------------------
(***************************************************************************)
(* Theorems about Schema for any tables, statements and savepoints, when   *)
(* one connection uses the database and no OP_ParseSchema fails inside a   *)
(* transaction.  Both conditions are needed: a second connection does not  *)
(* see the cookie, which is kept in memory, and an OP_ParseSchema that     *)
(* fails leaves the memory without a table that the store has.             *)
(*                                                                         *)
(* The invariant is about everything that a rollback may bring back: the   *)
(* stores at the open savepoints are as sound as the present one, and as   *)
(* long as the connection has changed nothing since the first of them      *)
(* their tables are those in memory.  The cookie only goes on, so that a   *)
(* program with the present cookie that has not expired was compiled for   *)
(* the tables as they are.                                                 *)
(***************************************************************************)
EXTENDS Schema, SequenceTheorems, WellFoundedInduction, TLAPS

USE SchemaAssumption

OneConnection == \E c : Conn = {c}
NoLateFault == "transaction" \notin ParseFaults

-----------------------------------------------------------------------------
(* The inductive invariant, of the connection c.                           *)

Memory == [iMeta : Nat, tables : [Table -> Number], schema_cookie : Nat,
           iGeneration : Nat, loaded : BOOLEAN, intern : BOOLEAN]
Compiled == [state : {"none", "ready", "active"}, kind : Kind,
             table : Table \cup {NoTable}, num : Number,
             cookie : Nat, gen : Nat, expired : BOOLEAN]
Call == [stmt : Stmt \cup {NoStmt}, at : {"idle", "step", "retry"}, cnt : 0..MaxRetry]

\* Tables have distinct numbers up to b and own all rows.
DiskSound(d, b) ==
    /\ d \in Disk
    /\ \A t \in Table : d.master[t] <= b
    /\ \A t, u \in Table : t # u /\ d.master[t] # 0 => d.master[t] # d.master[u]
    /\ d.rows \subseteq {d.master[t] : t \in Table} /\ 0 \notin d.rows

\* Every change of the schema has taken a cookie of its own.
MemorySound(m, M) ==
    /\ m \in Memory
    /\ m.schema_cookie = m.iMeta /\ m.iMeta <= MaxChange
    /\ m.loaded => m.tables = M

\* What a rollback to an open savepoint brings back.
SavedSound(c) ==
    \A k \in 1..Len(saved) :
        /\ DiskSound(saved[k], 1 + conn[c].iMeta)
        /\ ~conn[c].intern => saved[k].master = disk.master

\* The program q was compiled for the tables M.
Current(q, M) ==
    IF q.kind = "create"
    THEN M[q.table] = 0 /\ q.num >= 1 /\ \A u \in Table : q.num >= M[u]
    ELSE M[q.table] = q.num /\ q.num # 0

\* A program that has not expired is current if it has the present cookie.
ProgramSound(q, iMeta, M) ==
    q.state # "none" =>
        /\ q.table \in Table /\ q.cookie <= iMeta /\ q.num <= 1 + iMeta
        /\ ~q.expired /\ q.cookie = iMeta => Current(q, M)

\* A program that was compiled again runs.
CallSound(c) ==
    LET q == stmt[call[c].stmt]
    IN /\ Idle(c) => call[c].cnt = 0
       /\ ~Idle(c) =>
            /\ call[c].stmt \in Stmt /\ q.state # "none"
            /\ q.kind \in {"create", "drop"} => conn[c].iMeta < MaxChange
            /\ call[c].cnt # 0 =>
                 /\ call[c].cnt = 1 /\ call[c].at = "step"
                 /\ q.state = "ready" /\ ~q.expired /\ Verified(c, call[c].stmt)

SInv(c) ==
    /\ TypeOK
    /\ MemorySound(conn[c], disk.master)
    /\ DiskSound(disk, 1 + conn[c].iMeta)
    /\ SavedSound(c)
    /\ \A s \in Stmt : ProgramSound(stmt[s], conn[c].iMeta, disk.master)
    /\ CallSound(c)

-----------------------------------------------------------------------------
(* The largest number.                                                     *)

LEMMA LargestOf ==
  ASSUME NEW S, NEW b \in Nat, S \subseteq 0..b, S # {}
  PROVE  \E m \in S : \A n \in S : m >= n
<1>. DEFINE T == {b - x : x \in S}
<1>1. T \subseteq Nat /\ T # {}
  <2>1. PICK x \in S : TRUE
    OBVIOUS
  <2>2. b - x \in T
    BY <2>1
  <2>3. \A y \in S : b - y \in Nat
    OBVIOUS
  <2>. QED BY <2>2, <2>3
<1>2. PICK m \in T : \A n \in T : <<n, m>> \notin OpToRel(<, Nat)
  <2>. HIDE DEF T
  <2>. QED BY <1>1, NatLessThanWellFounded, WFMin
<1>3. \A n \in T : ~(n < m)
  <2>. HIDE DEF T
  <2>. QED BY <1>1, <1>2 DEF OpToRel
<1>4. PICK x \in S : m = b - x
  BY <1>2
<1>5. \A y \in S : x >= y
  <2>. TAKE y \in S
  <2>1. b - y \in T /\ x \in 0..b /\ y \in 0..b
    OBVIOUS
  <2>2. ~(b - y < m)
    BY <1>3, <2>1
  <2>. QED BY <1>4, <2>1, <2>2
<1>. QED BY <1>5

LEMMA MaxIs ==
  ASSUME NEW S, NEW b \in Nat, S \subseteq 0..b, S # {}
  PROVE  Max(S) \in S /\ Max(S) <= b /\ \A n \in S : Max(S) >= n
<1>1. \E m \in S : \A n \in S : m >= n
  BY LargestOf
<1>2. Max(S) \in S /\ \A n \in S : Max(S) >= n
  BY <1>1 DEF Max
<1>3. Max(S) \in 0..b
  BY <1>2
<1>4. Max(S) <= b
  BY <1>3
<1>. QED BY <1>2, <1>4

-----------------------------------------------------------------------------
(* The functions of build.c, prepare.c and callback.c.                     *)

\* All that the steps read of the state.
LEMMA StateIs ==
  ASSUME NEW c, Conn = {c}, SInv(c)
  PROVE  /\ disk \in Disk /\ saved \in Seq(Disk) /\ Len(saved) \in Nat
         /\ owner \in {c, NoConn} /\ View(c) = disk
         /\ conn \in [Conn -> Memory] /\ conn[c] \in Memory
         /\ stmt \in [Stmt -> Compiled] /\ call \in [Conn -> Call] /\ call[c] \in Call
         /\ \A s \in Stmt : stmt[s] \in Compiled /\ OwnerOf(s) = c
<1>1. /\ disk \in Disk /\ saved \in Seq(Disk) /\ owner \in Conn \cup {NoConn}
      /\ conn \in [Conn -> Memory] /\ stmt \in [Stmt -> Compiled] /\ call \in [Conn -> Call]
  BY DEF SInv, TypeOK, Memory, Compiled, Call
<1>2. \A s \in Stmt : OwnerOf(s) = c
  BY DEF Stmt, OwnerOf
<1>. QED BY <1>1, <1>2, LenProperties DEF View

LEMMA Reads ==
  ASSUME NEW c, Conn = {c}, SInv(c), NEW kind, NEW t
  PROVE  LET m == SchemaToCompile(c, kind, t)
         IN /\ MemorySound(m, disk.master) /\ m.loaded /\ m.tables = disk.master
            /\ m.iMeta = conn[c].iMeta /\ m.iGeneration = conn[c].iGeneration
            /\ m.intern = conn[c].intern
<1>. DEFINE r == ReadSchema(c, conn[c])
<1>1. /\ conn[c] \in Memory /\ View(c) = disk /\ disk.master \in [Table -> Number]
      /\ MemorySound(conn[c], disk.master)
  BY StateIs DEF SInv, Disk
<1>2. /\ MemorySound(r, disk.master) /\ r.loaded /\ r.tables = disk.master
      /\ r.iMeta = conn[c].iMeta /\ r.iGeneration = conn[c].iGeneration
      /\ r.intern = conn[c].intern
  <2>1. CASE conn[c].loaded
    BY <1>1, <2>1 DEF ReadSchema, MemorySound
  <2>2. CASE ~conn[c].loaded
    BY <1>1, <2>2 DEF ReadSchema, MemorySound, Memory
  <2>. QED BY <2>1, <2>2
<1>3. SchemaToCompile(c, kind, t) = r
  BY <1>2 DEF SchemaToCompile, MemorySound
<1>. QED BY <1>2, <1>3

\* A program is current when it is compiled.
LEMMA ProgramIs ==
  ASSUME NEW M \in [Table -> Number], NEW m, MemorySound(m, M), m.tables = M,
         NEW kind \in Kind, NEW t \in Table, Compiles(m, kind, t),
         \A u \in Table : M[u] <= 1 + m.iMeta
  PROVE  LET q == Program(m, kind, t)
         IN /\ q \in Compiled /\ q.state = "ready" /\ q.kind = kind /\ ~q.expired
            /\ q.cookie = m.iMeta /\ q.gen = m.iGeneration
            /\ ProgramSound(q, m.iMeta, M)
<1>. DEFINE q == Program(m, kind, t)
            S == {1} \cup {M[u] : u \in Table}
<1>1. m \in Memory /\ m.schema_cookie = m.iMeta /\ m.iMeta <= MaxChange /\ m.iMeta \in Nat
  BY DEF MemorySound, Memory
<1>2. Max(S) \in S /\ Max(S) <= 1 + m.iMeta /\ Max(S) \in Nat /\ \A n \in S : Max(S) >= n
  <2>. DEFINE b == 1 + m.iMeta
  <2>1. S \subseteq 0..b /\ S # {} /\ b \in Nat
    BY <1>1 DEF Number
  <2>. HIDE DEF S, b
  <2>2. Max(S) \in S /\ Max(S) <= b /\ \A n \in S : Max(S) >= n
    BY <2>1, MaxIs
  <2>3. Max(S) \in 0..b
    BY <2>1, <2>2
  <2>. QED BY <2>1, <2>2, <2>3 DEF b
<1>3. q = [state |-> "ready", kind |-> kind, table |-> t, expired |-> FALSE,
           cookie |-> m.schema_cookie, gen |-> m.iGeneration,
           num |-> IF kind = "create" THEN Max(S) ELSE M[t]]
  BY DEF Program
<1>4. q.num \in Number /\ q.num <= 1 + m.iMeta
  BY <1>1, <1>2, <1>3 DEF Number
<1>. HIDE DEF q
<1>5. q \in Compiled
  <2>1. kind \in Kind /\ t \in Table \cup {NoTable} /\ m.schema_cookie \in Nat
          /\ m.iGeneration \in Nat
    BY <1>1 DEF Memory
  <2>. QED BY <1>3, <1>4, <2>1 DEF Compiled
<1>6. Current(q, M)
  BY <1>2, <1>3 DEF Current, Compiles
<1>. QED BY <1>1, <1>3, <1>4, <1>5, <1>6 DEF q, ProgramSound

LEMMA HaltedIs ==
  ASSUME NEW c, NEW m \in Memory
  PROVE  /\ Halted(c, m) \in Memory
         /\ Halted(c, m).iMeta = m.iMeta /\ Halted(c, m).schema_cookie = m.schema_cookie
         /\ Halted(c, m).tables = m.tables /\ Halted(c, m).loaded = m.loaded
         /\ Halted(c, m).iGeneration = m.iGeneration
         /\ Halted(c, m).intern = (InTransaction(c) /\ m.intern)
<1>1. (InTransaction(c) /\ m.intern) \in BOOLEAN
  OBVIOUS
<1>2. Halted(c, m) = [m EXCEPT !.intern = InTransaction(c) /\ m.intern]
  BY DEF Halted
<1>. HIDE DEF Halted
<1>. QED BY <1>1, <1>2 DEF Memory

LEMMA SetCookieIs ==
  ASSUME NEW m \in Memory, NEW s, stmt[s].cookie = m.iMeta
  PROVE  LET x == SetCookie(m, s)
         IN /\ x \in Memory /\ x.iMeta = m.iMeta + 1 /\ x.schema_cookie = x.iMeta
            /\ x.intern /\ x.tables = m.tables /\ x.loaded = m.loaded
<1>. DEFINE k == m.iMeta + 1
<1>1. k \in Nat
  BY DEF Memory
<1>2. SetCookie(m, s) = [m EXCEPT !.iMeta = k, !.schema_cookie = k, !.intern = TRUE]
  BY DEF SetCookie
<1>. HIDE DEF k
<1>3. LET x == SetCookie(m, s)
      IN /\ x \in Memory /\ x.iMeta = k /\ x.schema_cookie = k
         /\ x.intern /\ x.tables = m.tables /\ x.loaded = m.loaded
  BY <1>1, <1>2 DEF Memory
<1>. QED BY <1>3 DEF k

\* sqlite4VdbeRollback of what c changed.
LEMMA ClearedIs ==
  ASSUME NEW m \in Memory
  PROVE  /\ SchemaClear(m) \in Memory /\ ~SchemaClear(m).loaded
         /\ SchemaClear(m).iMeta = m.iMeta /\ SchemaClear(m).schema_cookie = m.schema_cookie
         /\ SchemaClear(m).intern = m.intern
<1>1. NoTables \in [Table -> Number]
  BY DEF NoTables, Number
<1>2. (IF m.loaded THEN m.iGeneration + 1 ELSE m.iGeneration) \in Nat
  BY DEF Memory
<1>. QED BY <1>1, <1>2 DEF SchemaClear, Memory

-----------------------------------------------------------------------------
(* Steps that leave the store alone.                                       *)

LEMMA DiskLater ==
  ASSUME NEW d, NEW b \in Nat, DiskSound(d, b), NEW a \in Nat, a >= b
  PROVE  DiskSound(d, a)
<1>1. \A t \in Table : d.master[t] \in Nat
  BY DEF DiskSound, Disk, Number
<1>. QED BY <1>1 DEF DiskSound

\* A change of the schema outdates every program.
LEMMA ProgramLater ==
  ASSUME NEW q \in Compiled, NEW i \in Nat, NEW M, ProgramSound(q, i, M)
  PROVE  \A N : ProgramSound(q, i + 1, N)
BY DEF ProgramSound, Compiled, Number

LEMMA ProgramExpires ==
  ASSUME NEW q \in Compiled, NEW i \in Nat, NEW M, ProgramSound(q, i, M)
  PROVE  LET x == [q EXCEPT !.expired = TRUE]
         IN x \in Compiled /\ x.state = q.state /\ x.kind = q.kind
              /\ \A N : ProgramSound(x, i, N)
BY DEF ProgramSound, Compiled

LEMMA ProgramMoves ==
  ASSUME NEW q \in Compiled, NEW i \in Nat, NEW M, ProgramSound(q, i, M),
         q.state # "none", NEW state \in {"ready", "active"}
  PROVE  LET x == [q EXCEPT !.state = state]
         IN x \in Compiled /\ x.kind = q.kind /\ x.state # "none" /\ ProgramSound(x, i, M)
BY DEF ProgramSound, Compiled, Current

\* The call returns, or there is none.
LEMMA ReturnIs ==
  ASSUME NEW c, Conn = {c}, SInv(c), Return(c) \/ (Idle(c) /\ call' = call)
  PROVE  call' \in [Conn -> Call] /\ CallSound(c)'
<1>1. call \in [Conn -> Call]
  BY StateIs
<1>2. CASE Return(c)
  <2>1. NoCall \in Call /\ NoCall.at = "idle" /\ NoCall.cnt = 0
    BY DEF NoCall, Call, MaxRetry
  <2>2. call' \in [Conn -> Call] /\ call'[c] = NoCall
    BY <1>1, <1>2, <2>1 DEF Return
  <2>. QED BY <2>1, <2>2 DEF CallSound, Idle
<1>3. CASE Idle(c) /\ call' = call
  BY <1>1, <1>3 DEF SInv, CallSound, Idle
<1>. QED BY <1>2, <1>3

LEMMA StoreKept ==
  ASSUME NEW c, Conn = {c}, SInv(c), disk' = disk, saved' = saved, owner' = owner,
         NEW m, conn' = [conn EXCEPT ![c] = m], MemorySound(m, disk.master),
         m.iMeta >= conn[c].iMeta, conn[c].intern => m.intern \/ saved = <<>>,
         stmt' \in [Stmt -> Compiled],
         \A s \in Stmt : ProgramSound(stmt'[s], m.iMeta, disk.master),
         call' \in [Conn -> Call], CallSound(c)'
  PROVE  SInv(c)'
<1>1. /\ conn \in [Conn -> Memory] /\ disk \in Disk /\ saved \in Seq(Disk)
      /\ conn[c] \in Memory /\ m \in Memory
      /\ DiskSound(disk, 1 + conn[c].iMeta) /\ SavedSound(c) /\ TypeOK
  BY StateIs DEF SInv, MemorySound
<1>2. conn' \in [Conn -> Memory] /\ conn'[c] = m
  BY <1>1
<1>3. TypeOK'
  BY <1>1, <1>2 DEF TypeOK, Memory, Compiled, Call
<1>4. 1 + conn[c].iMeta \in Nat /\ 1 + m.iMeta \in Nat /\ 1 + m.iMeta >= 1 + conn[c].iMeta
  BY <1>1 DEF Memory
<1>5. DiskSound(disk, 1 + m.iMeta)
  BY <1>1, <1>4, DiskLater
<1>6. SavedSound(c)'
  <2>. SUFFICES ASSUME NEW k \in 1..Len(saved)
                PROVE  /\ DiskSound(saved[k], 1 + m.iMeta)
                       /\ ~m.intern => saved[k].master = disk.master
    BY <1>2 DEF SavedSound
  <2>1. /\ DiskSound(saved[k], 1 + conn[c].iMeta)
        /\ ~conn[c].intern => saved[k].master = disk.master
    BY <1>1 DEF SavedSound
  <2>2. saved # <<>>
    BY <1>1, EmptySeq
  <2>. QED BY <1>4, <2>1, <2>2, DiskLater
<1>7. MemorySound(conn[c], disk.master)'
  BY <1>2 DEF MemorySound
<1>8. DiskSound(disk, 1 + conn[c].iMeta)'
  BY <1>2, <1>5 DEF DiskSound
<1>9. (\A s \in Stmt : ProgramSound(stmt[s], conn[c].iMeta, disk.master))'
  BY <1>2 DEF ProgramSound
<1>. QED BY <1>3, <1>6, <1>7, <1>8, <1>9 DEF SInv

\* The memory, when only the end of a program is marked in it.
LEMMA HaltedIsSound ==
  ASSUME NEW c, Conn = {c}, SInv(c)
  PROVE  LET m == Halted(c, conn[c])
         IN /\ MemorySound(m, disk.master) /\ m.iMeta = conn[c].iMeta
            /\ conn[c].intern => m.intern \/ saved = <<>>
<1>1. conn[c] \in Memory /\ owner \in {c, NoConn} /\ MemorySound(conn[c], disk.master)
  BY StateIs DEF SInv
<1>2. owner = NoConn => saved = <<>>
  BY DEF SInv, TypeOK
<1>3. NoConn # c
  OBVIOUS
<1>. DEFINE m == Halted(c, conn[c])
<1>4. /\ m \in Memory
      /\ m.iMeta = conn[c].iMeta /\ m.schema_cookie = conn[c].schema_cookie
      /\ m.tables = conn[c].tables /\ m.loaded = conn[c].loaded
      /\ m.intern = (InTransaction(c) /\ conn[c].intern)
  BY <1>1, HaltedIs
<1>. HIDE DEF m
<1>5. MemorySound(m, disk.master)
  BY <1>1, <1>4 DEF MemorySound
<1>6. conn[c].intern => m.intern \/ saved = <<>>
  BY <1>1, <1>2, <1>4 DEF InTransaction
<1>. QED BY <1>4, <1>5, <1>6 DEF m

\* Nothing changes in memory.
LEMMA MemoryKept ==
  ASSUME NEW c, Conn = {c}, SInv(c)
  PROVE  /\ conn = [conn EXCEPT ![c] = conn[c]]
         /\ MemorySound(conn[c], disk.master) /\ conn[c].iMeta >= conn[c].iMeta
         /\ conn[c].iMeta \in Nat
         /\ \A s \in Stmt : ProgramSound(stmt[s], conn[c].iMeta, disk.master)
<1>1. conn \in [Conn -> Memory] /\ conn[c] \in Memory
  BY StateIs
<1>. QED BY <1>1 DEF SInv, Memory

LEMMA PrepareKeeps ==
  ASSUME NEW c, Conn = {c}, SInv(c), NEW s \in Stmt, NEW kind \in Kind, NEW t \in Table,
         Prepare(s, kind, t)
  PROVE  SInv(c)'
<1>. DEFINE m == SchemaToCompile(c, kind, t)
            q == Program(m, kind, t)
<1>1. /\ disk \in Disk /\ conn[c] \in Memory /\ stmt \in [Stmt -> Compiled]
      /\ OwnerOf(s) = c
  BY StateIs
<1>2. /\ MemorySound(m, disk.master) /\ m.tables = disk.master
      /\ m.iMeta = conn[c].iMeta /\ m.intern = conn[c].intern
  BY Reads
<1>3. /\ Idle(c) /\ conn' = [conn EXCEPT ![c] = m]
      /\ stmt' = IF Compiles(m, kind, t) THEN [stmt EXCEPT ![s] = q] ELSE stmt
      /\ disk' = disk /\ saved' = saved /\ owner' = owner /\ call' = call
  BY <1>1 DEF Prepare
<1>4. Compiles(m, kind, t) => q \in Compiled /\ ProgramSound(q, m.iMeta, disk.master)
  <2>1. disk.master \in [Table -> Number] /\ \A u \in Table : disk.master[u] <= 1 + m.iMeta
    BY <1>1, <1>2 DEF Disk, SInv, DiskSound
  <2>. HIDE DEF m
  <2>. QED BY <1>2, <2>1, ProgramIs
<1>. HIDE DEF m, q
<1>5. /\ stmt' \in [Stmt -> Compiled]
      /\ \A x \in Stmt : ProgramSound(stmt'[x], m.iMeta, disk.master)
  BY <1>1, <1>2, <1>3, <1>4 DEF SInv
<1>6. call' \in [Conn -> Call] /\ CallSound(c)'
  BY <1>3, ReturnIs
<1>7. m.iMeta >= conn[c].iMeta
  BY <1>1, <1>2 DEF Memory
<1>. QED BY <1>2, <1>3, <1>5, <1>6, <1>7, StoreKept

LEMMA CallStepKeeps ==
  ASSUME NEW c, Conn = {c}, SInv(c), NEW s \in Stmt, CallStep(s)
  PROVE  SInv(c)'
<1>. DEFINE k == [stmt |-> s, at |-> "step", cnt |-> 0]
<1>1. /\ call \in [Conn -> Call] /\ stmt \in [Stmt -> Compiled]
      /\ OwnerOf(s) = c /\ conn[c].iMeta \in Nat
  BY StateIs DEF Memory
<1>2. /\ stmt[s].state # "none"
      /\ stmt[s].kind \in {"create", "drop"} => CanChange(c)
      /\ call' = [call EXCEPT ![c] = k]
      /\ disk' = disk /\ saved' = saved /\ owner' = owner /\ conn' = conn /\ stmt' = stmt
  BY <1>1 DEF CallStep
<1>3. k \in Call /\ k.stmt = s /\ k.at = "step" /\ k.cnt = 0
  BY DEF Call, MaxRetry
<1>. HIDE DEF k
<1>4. call' \in [Conn -> Call] /\ call'[c] = k
  BY <1>1, <1>2, <1>3
<1>5. CallSound(c)'
  BY <1>2, <1>3, <1>4 DEF CallSound, Idle, CanChange
<1>. QED BY <1>1, <1>2, <1>4, <1>5, MemoryKept, StoreKept

\* The call goes on to compile the statement again.
LEMMA ToRetryIs ==
  ASSUME NEW c, Conn = {c}, SInv(c), NEW s \in Stmt, Stepping(c, s), call[c].cnt = 0,
         ToRetry(c), stmt'[s].state # "none", stmt'[s].kind = stmt[s].kind,
         conn'[c].iMeta = conn[c].iMeta
  PROVE  call' \in [Conn -> Call] /\ CallSound(c)'
<1>. DEFINE k == [call[c] EXCEPT !.at = "retry"]
<1>1. call \in [Conn -> Call] /\ call[c] \in Call /\ call[c].stmt = s /\ ~Idle(c)
  BY StateIs DEF Stepping, Idle
<1>2. /\ k \in Call /\ k.stmt = s /\ k.at = "retry" /\ k.cnt = 0
      /\ call' \in [Conn -> Call] /\ call'[c] = k
  BY <1>1 DEF ToRetry, Call
<1>3. stmt[s].kind \in {"create", "drop"} => conn[c].iMeta < MaxChange
  BY <1>1 DEF SInv, CallSound
<1>. HIDE DEF k
<1>. QED BY <1>2, <1>3 DEF CallSound, Idle

LEMMA StepExpiredKeeps ==
  ASSUME NEW c, Conn = {c}, SInv(c), NEW s \in Stmt, StepExpired(c, s)
  PROVE  SInv(c)'
<1>1. stmt \in [Stmt -> Compiled]
  BY StateIs
<1>2. /\ Stepping(c, s) /\ stmt[s].state = "ready" /\ stmt[s].expired /\ ToRetry(c)
      /\ disk' = disk /\ saved' = saved /\ owner' = owner /\ conn' = conn /\ stmt' = stmt
  BY DEF StepExpired
<1>3. call[c].cnt = 0
  BY <1>2 DEF SInv, CallSound, Stepping, Idle
<1>4. call' \in [Conn -> Call] /\ CallSound(c)'
  BY <1>2, <1>3, ToRetryIs
<1>. QED BY <1>1, <1>2, <1>4, MemoryKept, StoreKept

LEMMA StepStaleKeeps ==
  ASSUME NEW c, Conn = {c}, SInv(c), NEW s \in Stmt, StepStale(c, s)
  PROVE  SInv(c)'
<1>. DEFINE q == [stmt[s] EXCEPT !.expired = TRUE]
<1>1. /\ stmt \in [Stmt -> Compiled] /\ conn[c].iMeta \in Nat /\ conn \in [Conn -> Memory]
  BY StateIs DEF Memory
<1>2. /\ Stepping(c, s) /\ stmt[s].state = "ready" /\ ~Verified(c, s) /\ ToRetry(c)
      /\ conn' = [conn EXCEPT ![c] = IF @.schema_cookie # @.iMeta THEN SchemaClear(@) ELSE @]
      /\ stmt' = [stmt EXCEPT ![s] = q]
      /\ disk' = disk /\ saved' = saved /\ owner' = owner
  BY DEF StepStale, Starts
<1>3. conn' = conn
  BY <1>1, <1>2 DEF SInv, MemorySound
<1>4. call[c].cnt = 0
  BY <1>2 DEF SInv, CallSound, Stepping, Idle
<1>5. /\ q \in Compiled /\ q.state = stmt[s].state /\ q.kind = stmt[s].kind
      /\ ProgramSound(q, conn[c].iMeta, disk.master)
  <2>1. stmt[s] \in Compiled /\ ProgramSound(stmt[s], conn[c].iMeta, disk.master)
    BY <1>1, MemoryKept
  <2>. QED BY <1>1, <2>1, ProgramExpires
<1>. HIDE DEF q
<1>6. /\ stmt' \in [Stmt -> Compiled] /\ stmt'[s] = q
      /\ \A x \in Stmt : ProgramSound(stmt'[x], conn[c].iMeta, disk.master)
  BY <1>1, <1>2, <1>5, MemoryKept
<1>7. call' \in [Conn -> Call] /\ CallSound(c)'
  BY <1>2, <1>3, <1>4, <1>5, <1>6, ToRetryIs
<1>. QED BY <1>2, <1>3, <1>6, <1>7, MemoryKept, StoreKept

\* The program of s moves to another state, or ends.
LEMMA MovesKeep ==
  ASSUME NEW c, Conn = {c}, SInv(c), NEW s \in Stmt,
         disk' = disk, saved' = saved, owner' = owner,
         conn' = conn \/ conn' = [conn EXCEPT ![c] = Halted(c, conn[c])],
         \/ stmt' = stmt
         \/ stmt[s].state # "none" /\ stmt' = [stmt EXCEPT ![s].state = "ready"]
         \/ stmt[s].state # "none" /\ stmt' = [stmt EXCEPT ![s].state = "active"]
         \/ stmt' = [stmt EXCEPT ![s] = NoProgram],
         Return(c) \/ (Idle(c) /\ call' = call)
  PROVE  SInv(c)'
<1>. DEFINE m == IF conn' = conn THEN conn[c] ELSE Halted(c, conn[c])
<1>1. stmt \in [Stmt -> Compiled] /\ conn[c].iMeta \in Nat
  BY StateIs DEF Memory
<1>2. /\ conn' = [conn EXCEPT ![c] = m] /\ MemorySound(m, disk.master)
      /\ m.iMeta = conn[c].iMeta
      /\ conn[c].intern => m.intern \/ saved = <<>>
  BY MemoryKept, HaltedIsSound
<1>. HIDE DEF m
<1>3. /\ stmt' \in [Stmt -> Compiled]
      /\ \A x \in Stmt : ProgramSound(stmt'[x], conn[c].iMeta, disk.master)
  <2>1. stmt[s] \in Compiled /\ ProgramSound(stmt[s], conn[c].iMeta, disk.master)
    BY <1>1, MemoryKept
  <2>2. CASE stmt' = stmt
    BY <1>1, <2>2, MemoryKept
  <2>3. ASSUME NEW state \in {"ready", "active"}, stmt[s].state # "none",
               stmt' = [stmt EXCEPT ![s].state = state]
        PROVE  /\ stmt' \in [Stmt -> Compiled]
               /\ \A x \in Stmt : ProgramSound(stmt'[x], conn[c].iMeta, disk.master)
    <3>. DEFINE q == [stmt[s] EXCEPT !.state = state]
    <3>1. q \in Compiled /\ ProgramSound(q, conn[c].iMeta, disk.master)
      BY <1>1, <2>1, <2>3, ProgramMoves
    <3>2. stmt' = [stmt EXCEPT ![s] = q]
      BY <2>3
    <3>. HIDE DEF q
    <3>. QED BY <1>1, <3>1, <3>2, MemoryKept
  <2>4. CASE stmt' = [stmt EXCEPT ![s] = NoProgram]
    <3>1. NoProgram \in Compiled /\ NoProgram.state = "none"
      BY DEF NoProgram, Compiled, Kind, Number
    <3>2. ProgramSound(NoProgram, conn[c].iMeta, disk.master)
      BY <3>1 DEF ProgramSound
    <3>. QED BY <1>1, <2>4, <3>1, <3>2, MemoryKept
  <2>. QED BY <2>2, <2>3, <2>4
<1>4. call' \in [Conn -> Call] /\ CallSound(c)'
  BY ReturnIs
<1>5. m.iMeta >= conn[c].iMeta /\ \A x \in Stmt : ProgramSound(stmt'[x], m.iMeta, disk.master)
  BY <1>1, <1>2, <1>3
<1>. QED BY <1>2, <1>3, <1>4, <1>5, StoreKept

LEMMA RetryKeeps ==
  ASSUME NEW c, Conn = {c}, SInv(c), NEW s \in Stmt, Retry(c, s)
  PROVE  SInv(c)'
<1>. DEFINE kind == stmt[s].kind
            t == stmt[s].table
            m == SchemaToCompile(c, kind, t)
            q == Program(m, kind, t)
            begun == [call[c] EXCEPT !.at = "step"]
            k == [begun EXCEPT !.cnt = begun.cnt + 1]
<1>1. /\ disk \in Disk /\ conn[c] \in Memory /\ stmt \in [Stmt -> Compiled]
      /\ call \in [Conn -> Call] /\ call[c] \in Call /\ conn \in [Conn -> Memory]
  BY StateIs
<1>2. call[c].at = "retry" /\ call[c].stmt = s /\ ~Idle(c)
  BY DEF Retry, Idle
<1>3. /\ call[c].cnt = 0 /\ stmt[s].state # "none" /\ kind \in Kind /\ t \in Table
      /\ kind \in {"create", "drop"} => conn[c].iMeta < MaxChange
  <2>1. /\ call[c].cnt = 0 /\ stmt[s].state # "none"
        /\ kind \in {"create", "drop"} => conn[c].iMeta < MaxChange
    BY <1>2 DEF SInv, CallSound
  <2>. QED BY <1>1, <2>1, MemoryKept DEF ProgramSound, Compiled
<1>4. /\ conn' = [conn EXCEPT ![c] = m]
      /\ IF Compiles(m, kind, t)
         THEN stmt' = [stmt EXCEPT ![s] = q] /\ call' = [call EXCEPT ![c] = k]
         ELSE Return(c) /\ stmt' = stmt
      /\ disk' = disk /\ saved' = saved /\ owner' = owner
  <2>1. [call EXCEPT ![c].at = "step", ![c].cnt = @ + 1] = [call EXCEPT ![c] = k]
    BY <1>1, ZenonT(40)
  <2>2. call[c].cnt # MaxRetry
    BY <1>3 DEF MaxRetry
  <2>. HIDE DEF k
  <2>. QED BY <2>1, <2>2 DEF Retry
<1>5. /\ MemorySound(m, disk.master) /\ m.tables = disk.master
      /\ m.iMeta = conn[c].iMeta /\ m.intern = conn[c].intern
  BY Reads
<1>6. Compiles(m, kind, t) =>
        /\ q \in Compiled /\ q.state = "ready" /\ q.kind = kind /\ ~q.expired
        /\ q.cookie = m.iMeta /\ q.gen = m.iGeneration
        /\ ProgramSound(q, m.iMeta, disk.master)
  <2>1. disk.master \in [Table -> Number] /\ \A u \in Table : disk.master[u] <= 1 + m.iMeta
    BY <1>1, <1>5 DEF Disk, SInv, DiskSound
  <2>. HIDE DEF m, kind, t
  <2>. QED BY <1>3, <1>5, <2>1, ProgramIs
<1>7. k \in Call /\ k.stmt = s /\ k.at = "step" /\ k.cnt = 1
  <2>1. /\ call[c].stmt = s /\ call[c].cnt = 0
        /\ call[c] \in [stmt : Stmt \cup {NoStmt}, at : {"idle", "step", "retry"}, cnt : 0..5]
    BY <1>1, <1>2, <1>3 DEF Call, MaxRetry
  <2>2. k = [stmt |-> s, at |-> "step", cnt |-> 1]
    <3>1. begun = [stmt |-> s, at |-> "step", cnt |-> 0]
      BY <2>1
    <3>. HIDE DEF begun
    <3>. QED BY <3>1
  <2>. HIDE DEF k
  <2>. QED BY <2>2 DEF Call, MaxRetry
<1>. HIDE DEF m, q, k, kind, t
<1>8. /\ stmt' \in [Stmt -> Compiled]
      /\ \A x \in Stmt : ProgramSound(stmt'[x], m.iMeta, disk.master)
  BY <1>1, <1>4, <1>5, <1>6, MemoryKept
<1>9. call' \in [Conn -> Call] /\ CallSound(c)'
  <2>1. CASE Compiles(m, kind, t)
    <3>1. /\ call' \in [Conn -> Call] /\ call'[c] = k /\ stmt'[s] = q /\ conn'[c] = m
      BY <1>1, <1>4, <1>7, <2>1
    <3>2. Verified(c, s)'
      BY <1>6, <2>1, <3>1 DEF Verified
    <3>. QED BY <1>3, <1>5, <1>6, <1>7, <2>1, <3>1, <3>2 DEF CallSound, Idle
  <2>2. CASE ~Compiles(m, kind, t)
    BY <1>4, <2>2, ReturnIs
  <2>. QED BY <2>1, <2>2
<1>10. m.iMeta >= conn[c].iMeta
  BY <1>1, <1>5 DEF Memory
<1>. QED BY <1>4, <1>5, <1>8, <1>9, <1>10, StoreKept

\* OP_ParseSchema fails in autocommit mode: everything is rolled back but the cookie.
LEMMA StepParseFailsKeeps ==
  ASSUME NEW c, Conn = {c}, NoLateFault, SInv(c), NEW s \in Stmt, StepParseFails(c, s)
  PROVE  SInv(c)'
<1>. DEFINE set == SetCookie(conn[c], s)
            m == [SchemaClear(set) EXCEPT !.intern = FALSE]
            all == [x \in Stmt |-> IF OwnerOf(x) = c
                                   THEN [stmt[x] EXCEPT !.expired = TRUE] ELSE stmt[x]]
<1>1. /\ conn[c] \in Memory /\ stmt \in [Stmt -> Compiled] /\ conn[c].iMeta \in Nat
      /\ \A x \in Stmt : OwnerOf(x) = c
      /\ conn[c].schema_cookie = conn[c].iMeta /\ conn[c].iMeta <= MaxChange
  BY StateIs DEF Memory, SInv, MemorySound
<1>2. /\ ~InTransaction(c) /\ Stepping(c, s) /\ Verified(c, s) /\ stmt[s].kind = "create"
      /\ conn' = [conn EXCEPT ![c] = m] /\ stmt' = all /\ Return(c)
      /\ disk' = disk /\ saved' = saved /\ owner' = owner
  BY DEF StepParseFails, Starts, NoLateFault
<1>3. conn[c].iMeta < MaxChange /\ stmt[s].cookie = conn[c].iMeta
  BY <1>2 DEF SInv, CallSound, Stepping, Idle, Verified
<1>4. /\ set \in Memory /\ set.iMeta = conn[c].iMeta + 1 /\ set.schema_cookie = set.iMeta
  BY <1>1, <1>3, SetCookieIs
<1>. HIDE DEF set
<1>5. MemorySound(m, disk.master) /\ m.iMeta = conn[c].iMeta + 1
  <2>1. /\ SchemaClear(set) \in Memory /\ ~SchemaClear(set).loaded
        /\ SchemaClear(set).iMeta = conn[c].iMeta + 1
        /\ SchemaClear(set).schema_cookie = conn[c].iMeta + 1
    BY <1>4, ClearedIs
  <2>2. /\ m \in Memory /\ ~m.loaded /\ m.iMeta = conn[c].iMeta + 1
        /\ m.schema_cookie = conn[c].iMeta + 1
    BY <2>1 DEF Memory
  <2>3. conn[c].iMeta + 1 <= MaxChange
    BY <1>1, <1>3
  <2>. HIDE DEF m
  <2>. QED BY <2>2, <2>3 DEF MemorySound
<1>6. owner = NoConn /\ saved = <<>>
  BY <1>2, StateIs DEF InTransaction, SInv, TypeOK
<1>7. \A x \in Stmt : all[x] \in Compiled /\ ProgramSound(all[x], m.iMeta, disk.master)
  <2>. TAKE x \in Stmt
  <2>. DEFINE q == [stmt[x] EXCEPT !.expired = TRUE]
  <2>1. stmt[x] \in Compiled /\ ProgramSound(stmt[x], conn[c].iMeta, disk.master)
    BY <1>1, MemoryKept
  <2>2. q \in Compiled /\ ProgramSound(q, conn[c].iMeta, disk.master)
    BY <1>1, <2>1, ProgramExpires
  <2>3. all[x] = q
    BY <1>1
  <2>. HIDE DEF q, m, all
  <2>. QED BY <1>1, <1>5, <2>2, <2>3, ProgramLater
<1>. HIDE DEF m
<1>8. /\ stmt' \in [Stmt -> Compiled]
      /\ \A x \in Stmt : ProgramSound(stmt'[x], m.iMeta, disk.master)
  BY <1>2, <1>7
<1>9. call' \in [Conn -> Call] /\ CallSound(c)'
  BY <1>2, ReturnIs
<1>10. m.iMeta >= conn[c].iMeta
  BY <1>1, <1>5
<1>. QED BY <1>2, <1>5, <1>6, <1>8, <1>9, <1>10, StoreKept

-----------------------------------------------------------------------------
(* Steps that change the store.                                            *)

LEMMA StoreChanged ==
  ASSUME NEW c, Conn = {c}, SInv(c),
         owner' \in Conn \cup {NoConn}, (owner' = NoConn) = (saved' = <<>>),
         saved' \in Seq(Disk), Len(saved') <= MaxSavepoint,
         NEW m, conn' = [conn EXCEPT ![c] = m], MemorySound(m, disk'.master),
         DiskSound(disk', 1 + m.iMeta),
         \A k \in 1..Len(saved') : /\ DiskSound(saved'[k], 1 + m.iMeta)
                                   /\ ~m.intern => saved'[k].master = disk'.master,
         stmt' \in [Stmt -> Compiled],
         \A s \in Stmt : ProgramSound(stmt'[s], m.iMeta, disk'.master),
         call' \in [Conn -> Call], CallSound(c)'
  PROVE  SInv(c)'
<1>1. conn \in [Conn -> Memory] /\ m \in Memory /\ disk' \in Disk
  BY StateIs DEF MemorySound, DiskSound
<1>2. conn' \in [Conn -> Memory] /\ conn'[c] = m
  BY <1>1
<1>3. TypeOK'
  BY <1>1, <1>2 DEF TypeOK, Memory, Compiled, Call
<1>4. /\ MemorySound(conn[c], disk.master)' /\ DiskSound(disk, 1 + conn[c].iMeta)'
      /\ (\A s \in Stmt : ProgramSound(stmt[s], conn[c].iMeta, disk.master))'
  BY <1>2 DEF MemorySound, DiskSound, ProgramSound
<1>5. SavedSound(c)'
  BY <1>2 DEF SavedSound, DiskSound
<1>. QED BY <1>3, <1>4, <1>5 DEF SInv

\* Every program that is not outdated by the step m is as it was.
LEMMA StepChanged ==
  ASSUME NEW c, Conn = {c}, SInv(c), saved' = saved, owner' = owner,
         NEW m, conn' = [conn EXCEPT ![c] = m], MemorySound(m, disk'.master),
         DiskSound(disk', 1 + m.iMeta), stmt' = stmt, Return(c),
         conn[c].intern => m.intern \/ saved = <<>>,
         \/ m.iMeta = conn[c].iMeta /\ disk'.master = disk.master
         \/ m.iMeta = conn[c].iMeta + 1 /\ (m.intern \/ saved = <<>>)
  PROVE  SInv(c)'
<1>1. /\ conn[c].iMeta \in Nat /\ m.iMeta \in Nat /\ m.iMeta >= conn[c].iMeta
      /\ stmt \in [Stmt -> Compiled] /\ saved \in Seq(Disk)
  BY StateIs DEF Memory, MemorySound
<1>2. \A k \in 1..Len(saved) : /\ DiskSound(saved[k], 1 + m.iMeta)
                               /\ ~m.intern => saved[k].master = disk'.master
  <2>. TAKE k \in 1..Len(saved)
  <2>1. /\ DiskSound(saved[k], 1 + conn[c].iMeta)
        /\ ~conn[c].intern => saved[k].master = disk.master
    BY DEF SInv, SavedSound
  <2>2. saved # <<>>
    BY <1>1, EmptySeq
  <2>3. 1 + conn[c].iMeta \in Nat /\ 1 + m.iMeta \in Nat /\ 1 + m.iMeta >= 1 + conn[c].iMeta
    BY <1>1
  <2>4. DiskSound(saved[k], 1 + m.iMeta)
    BY <2>1, <2>3, DiskLater
  <2>. QED BY <2>1, <2>2, <2>4
<1>3. \A s \in Stmt : ProgramSound(stmt[s], m.iMeta, disk'.master)
  <2>. TAKE s \in Stmt
  <2>1. stmt[s] \in Compiled /\ ProgramSound(stmt[s], conn[c].iMeta, disk.master)
    BY <1>1, MemoryKept
  <2>. QED BY <1>1, <2>1, ProgramLater
<1>4. call' \in [Conn -> Call] /\ CallSound(c)'
  BY ReturnIs
<1>5. /\ owner \in Conn \cup {NoConn} /\ (owner = NoConn) = (saved = <<>>)
      /\ Len(saved) <= MaxSavepoint
  BY DEF SInv, TypeOK
<1>. QED BY <1>1, <1>2, <1>3, <1>4, <1>5, StoreChanged

\* What OP_VerifyCookie lets run.
LEMMA StartsIs ==
  ASSUME NEW c, Conn = {c}, SInv(c), NEW s \in Stmt, Starts(c, s), Verified(c, s)
  PROVE  /\ stmt[s] \in Compiled /\ stmt[s].table \in Table
         /\ Current(stmt[s], disk.master)
         /\ stmt[s].cookie = conn[c].iMeta /\ stmt[s].num <= 1 + conn[c].iMeta
         /\ stmt[s].kind \in {"create", "drop"} => conn[c].iMeta < MaxChange
         /\ conn[c] \in Memory /\ conn[c].iMeta \in Nat /\ MemorySound(conn[c], disk.master)
         /\ disk \in Disk /\ DiskSound(disk, 1 + conn[c].iMeta)
<1>1. /\ Stepping(c, s) /\ stmt[s].state = "ready" /\ ~stmt[s].expired
      /\ stmt[s].cookie = conn[c].iMeta
  BY DEF Starts, Verified
<1>2. stmt[s].kind \in {"create", "drop"} => conn[c].iMeta < MaxChange
  BY <1>1 DEF SInv, CallSound, Stepping, Idle
<1>3. ProgramSound(stmt[s], conn[c].iMeta, disk.master) /\ conn[c].iMeta \in Nat
  BY MemoryKept
<1>. QED BY <1>1, <1>2, <1>3, StateIs DEF SInv, ProgramSound

LEMMA StepInsertKeeps ==
  ASSUME NEW c, Conn = {c}, SInv(c), NEW s \in Stmt, StepInsert(c, s)
  PROVE  SInv(c)'
<1>. DEFINE m == Halted(c, conn[c])
<1>1. /\ Starts(c, s) /\ Verified(c, s) /\ stmt[s].kind = "insert"
      /\ disk' = [disk EXCEPT !.rows = @ \cup {stmt[s].num}]
      /\ conn' = [conn EXCEPT ![c] = m] /\ Return(c)
      /\ saved' = saved /\ owner' = owner /\ stmt' = stmt
  BY DEF StepInsert
<1>2. /\ stmt[s] \in Compiled /\ stmt[s].table \in Table
      /\ Current(stmt[s], disk.master) /\ disk \in Disk
      /\ DiskSound(disk, 1 + conn[c].iMeta)
  BY <1>1, StartsIs
<1>3. /\ MemorySound(m, disk.master) /\ m.iMeta = conn[c].iMeta
      /\ conn[c].intern => m.intern \/ saved = <<>>
  BY HaltedIsSound
<1>. HIDE DEF m
<1>4. disk.master[stmt[s].table] = stmt[s].num /\ stmt[s].num # 0 /\ stmt[s].num \in Number
  BY <1>1, <1>2 DEF Current, Compiled
<1>5. disk' \in Disk /\ disk'.master = disk.master /\ disk'.rows = disk.rows \cup {stmt[s].num}
  BY <1>1, <1>2, <1>4 DEF Disk
<1>6. DiskSound(disk', 1 + conn[c].iMeta)
  BY <1>2, <1>4, <1>5 DEF DiskSound
<1>. QED BY <1>1, <1>3, <1>5, <1>6, StepChanged

\* OP_NewIdxid: a number above all of the tables and of the rows.
LEMMA NewNumberIs ==
  ASSUME NEW c, Conn = {c}, SInv(c), NEW s \in Stmt, Starts(c, s), Verified(c, s),
         stmt[s].kind = "create"
  PROVE  /\ NewNumber(s) \in Nat /\ NewNumber(s) <= 2 + conn[c].iMeta /\ NewNumber(s) >= 2
         /\ \A u \in Table : NewNumber(s) > disk.master[u]
         /\ \A r \in disk.rows : NewNumber(s) > r
<1>. DEFINE S == {stmt[s].num} \cup disk.rows
            b == 1 + conn[c].iMeta
<1>1. /\ stmt[s] \in Compiled /\ Current(stmt[s], disk.master) /\ stmt[s].num <= b
      /\ disk \in Disk /\ DiskSound(disk, b) /\ b \in Nat
  BY StartsIs
<1>2. /\ stmt[s].num \in Nat /\ stmt[s].num >= 1
      /\ \A u \in Table : disk.master[u] \in Nat /\ stmt[s].num >= disk.master[u]
      /\ \A r \in disk.rows : r \in 0..b
  BY <1>1 DEF Compiled, Number, Disk, Current, DiskSound
<1>. HIDE DEF b
<1>3. S \subseteq 0..b /\ stmt[s].num \in S /\ S # {}
  BY <1>1, <1>2
<1>4. NewNumber(s) = Max(S) + 1
  BY DEF NewNumber
<1>. HIDE DEF S
<1>5. Max(S) \in S /\ Max(S) <= b /\ \A n \in S : Max(S) >= n
  BY <1>1, <1>3, MaxIs
<1>6. Max(S) \in Nat /\ Max(S) >= stmt[s].num /\ \A r \in disk.rows : Max(S) >= r
  BY <1>3, <1>5 DEF S
<1>7. NewNumber(s) \in Nat /\ NewNumber(s) <= 1 + b /\ NewNumber(s) >= 2
  BY <1>1, <1>2, <1>4, <1>5, <1>6
<1>8. \A u \in Table : NewNumber(s) > disk.master[u]
  <2>. TAKE u \in Table
  <2>1. disk.master[u] \in Nat /\ Max(S) >= disk.master[u]
    BY <1>2, <1>6
  <2>. QED BY <1>4, <1>6, <2>1
<1>9. \A r \in disk.rows : NewNumber(s) > r
  BY <1>2, <1>4, <1>6
<1>10. 1 + b = 2 + conn[c].iMeta
  BY StateIs DEF b, Memory
<1>. QED BY <1>7, <1>8, <1>9, <1>10

\* The memory after a change of the schema.
LEMMA ChangedMemory ==
  ASSUME NEW c, Conn = {c}, SInv(c), NEW s \in Stmt, Starts(c, s), Verified(c, s),
         stmt[s].kind \in {"create", "drop"}, NEW t \in Table, NEW n \in Number
  PROVE  LET m == Halted(c, [SetCookie(conn[c], s) EXCEPT !.tables[t] = n])
         IN /\ MemorySound(m, [disk.master EXCEPT ![t] = n])
            /\ m.iMeta = conn[c].iMeta + 1 /\ (m.intern \/ saved = <<>>)
<1>. DEFINE set == SetCookie(conn[c], s)
            e == [set EXCEPT !.tables[t] = n]
            m == Halted(c, e)
<1>1. /\ stmt[s].cookie = conn[c].iMeta /\ conn[c].iMeta < MaxChange
      /\ conn[c] \in Memory /\ conn[c].iMeta \in Nat /\ MemorySound(conn[c], disk.master)
  BY StartsIs
<1>2. /\ set \in Memory /\ set.iMeta = conn[c].iMeta + 1 /\ set.schema_cookie = set.iMeta
      /\ set.intern /\ set.tables = conn[c].tables /\ set.loaded = conn[c].loaded
  BY <1>1, SetCookieIs
<1>. HIDE DEF set
<1>3. /\ e \in Memory /\ e.iMeta = conn[c].iMeta + 1 /\ e.schema_cookie = e.iMeta
      /\ e.intern /\ e.tables = [conn[c].tables EXCEPT ![t] = n]
      /\ e.loaded = conn[c].loaded
  <2>. DEFINE T == [set.tables EXCEPT ![t] = n]
  <2>1. T \in [Table -> Number]
    BY <1>2 DEF Memory
  <2>2. e = [set EXCEPT !.tables = T]
    OBVIOUS
  <2>3. T = [conn[c].tables EXCEPT ![t] = n]
    BY <1>2
  <2>. HIDE DEF T, e
  <2>. QED BY <1>2, <2>1, <2>2, <2>3 DEF Memory
<1>. HIDE DEF e
<1>4. /\ m \in Memory /\ m.iMeta = e.iMeta /\ m.schema_cookie = e.schema_cookie
      /\ m.tables = e.tables /\ m.loaded = e.loaded
      /\ m.intern = (InTransaction(c) /\ e.intern)
  BY <1>3, HaltedIs
<1>5. InTransaction(c) \/ saved = <<>>
  BY StateIs DEF InTransaction, SInv, TypeOK
<1>. HIDE DEF m
<1>6. conn[c].iMeta + 1 <= MaxChange
  BY <1>1
<1>. QED BY <1>1, <1>3, <1>4, <1>5, <1>6 DEF MemorySound, m, e, set

LEMMA StepCreateKeeps ==
  ASSUME NEW c, Conn = {c}, SInv(c), NEW s \in Stmt, StepCreate(c, s)
  PROVE  SInv(c)'
<1>. DEFINE t == stmt[s].table
            n == NewNumber(s)
            M == [disk.master EXCEPT ![t] = n]
            m == Halted(c, [SetCookie(conn[c], s) EXCEPT !.tables[t] = n])
<1>1. /\ Starts(c, s) /\ Verified(c, s) /\ stmt[s].kind = "create"
      /\ disk' = [disk EXCEPT !.master = M]
      /\ conn' = [conn EXCEPT ![c] = m] /\ Return(c)
      /\ saved' = saved /\ owner' = owner /\ stmt' = stmt
  BY DEF StepCreate
<1>2. /\ t \in Table /\ Current(stmt[s], disk.master) /\ disk \in Disk
      /\ conn[c].iMeta \in Nat /\ conn[c].iMeta < MaxChange
      /\ DiskSound(disk, 1 + conn[c].iMeta)
  BY <1>1, StartsIs
<1>3. /\ n \in Nat /\ n <= 2 + conn[c].iMeta /\ n >= 2
      /\ \A u \in Table : n > disk.master[u]
      /\ \A r \in disk.rows : n > r
  BY <1>1, NewNumberIs
<1>4. n \in Number /\ disk.master[t] = 0
  BY <1>1, <1>2, <1>3 DEF Number, Current
<1>. HIDE DEF n, t
<1>5. MemorySound(m, M) /\ m.iMeta = conn[c].iMeta + 1 /\ (m.intern \/ saved = <<>>)
  BY <1>1, <1>2, <1>4, ChangedMemory
<1>. HIDE DEF m
<1>6. /\ M \in [Table -> Number]
      /\ \A u \in Table : M[u] = IF u = t THEN n ELSE disk.master[u]
  BY <1>2, <1>4 DEF Disk
<1>. HIDE DEF M
<1>7. disk' \in Disk /\ disk'.master = M /\ disk'.rows = disk.rows
  BY <1>1, <1>2, <1>6 DEF Disk
<1>8. DiskSound(disk', 2 + conn[c].iMeta)
  <2>1. \A u \in Table : disk.master[u] \in Nat /\ disk.master[u] <= 1 + conn[c].iMeta
    BY <1>2 DEF DiskSound, Disk, Number
  <2>2. \A u \in Table : M[u] <= 2 + conn[c].iMeta
    BY <1>2, <1>3, <1>6, <2>1
  <2>3. \A u, v \in Table : u # v /\ M[u] # 0 => M[u] # M[v]
    BY <1>2, <1>3, <1>6, <2>1 DEF DiskSound
  <2>4. \A r \in disk.rows : \E u \in Table : r = M[u]
    <3>. TAKE r \in disk.rows
    <3>1. PICK u \in Table : r = disk.master[u]
      BY <1>2 DEF DiskSound
    <3>2. u # t
      BY <1>2, <1>4, <3>1 DEF DiskSound
    <3>. QED BY <1>6, <3>1, <3>2
  <2>. QED BY <1>2, <1>7, <2>2, <2>3, <2>4 DEF DiskSound
<1>9. DiskSound(disk', 1 + m.iMeta)
  <2>1. 1 + m.iMeta = 2 + conn[c].iMeta
    BY <1>2, <1>5
  <2>. QED BY <1>8, <2>1
<1>. QED BY <1>1, <1>5, <1>7, <1>9, StepChanged

LEMMA StepDropKeeps ==
  ASSUME NEW c, Conn = {c}, SInv(c), NEW s \in Stmt, StepDrop(c, s)
  PROVE  SInv(c)'
<1>. DEFINE t == stmt[s].table
            M == [disk.master EXCEPT ![t] = 0]
            m == Halted(c, [SetCookie(conn[c], s) EXCEPT !.tables[t] = 0])
<1>1. /\ Starts(c, s) /\ Verified(c, s) /\ stmt[s].kind = "drop"
      /\ disk' = [master |-> M, rows |-> disk.rows \ {stmt[s].num}]
      /\ conn' = [conn EXCEPT ![c] = m] /\ Return(c)
      /\ saved' = saved /\ owner' = owner /\ stmt' = stmt
  BY DEF StepDrop
<1>2. /\ t \in Table /\ Current(stmt[s], disk.master) /\ disk \in Disk
      /\ conn[c].iMeta \in Nat /\ DiskSound(disk, 1 + conn[c].iMeta)
  BY <1>1, StartsIs
<1>3. 0 \in Number /\ disk.master[t] = stmt[s].num
  BY <1>1, <1>2 DEF Number, Current
<1>. HIDE DEF t
<1>4. MemorySound(m, M) /\ m.iMeta = conn[c].iMeta + 1 /\ (m.intern \/ saved = <<>>)
  BY <1>1, <1>2, <1>3, ChangedMemory
<1>. HIDE DEF m
<1>5. /\ M \in [Table -> Number]
      /\ \A u \in Table : M[u] = IF u = t THEN 0 ELSE disk.master[u]
  BY <1>2, <1>3 DEF Disk
<1>. HIDE DEF M
<1>6. disk' \in Disk /\ disk'.master = M /\ disk'.rows = disk.rows \ {stmt[s].num}
  BY <1>1, <1>2, <1>5 DEF Disk
<1>7. DiskSound(disk', 1 + m.iMeta)
  <2>1. \A u \in Table : disk.master[u] \in Nat /\ disk.master[u] <= 1 + conn[c].iMeta
    BY <1>2 DEF DiskSound, Disk, Number
  <2>2. \A u \in Table : M[u] <= 1 + m.iMeta
    BY <1>2, <1>4, <1>5, <2>1
  <2>3. \A u, v \in Table : u # v /\ M[u] # 0 => M[u] # M[v]
    BY <1>2, <1>5, <2>1 DEF DiskSound
  <2>4. \A r \in disk'.rows : \E u \in Table : r = M[u]
    <3>. TAKE r \in disk'.rows
    <3>1. PICK u \in Table : r = disk.master[u]
      BY <1>2, <1>6 DEF DiskSound
    <3>2. u # t
      BY <1>3, <1>6, <3>1
    <3>. QED BY <1>5, <3>1, <3>2
  <2>. QED BY <1>2, <1>6, <2>2, <2>3, <2>4 DEF DiskSound
<1>. QED BY <1>1, <1>4, <1>6, <1>7, StepChanged

-----------------------------------------------------------------------------
(* Transactions.                                                           *)

\* The present store becomes one more that a rollback may bring back.
LEMMA SavepointKeeps ==
  ASSUME NEW c, Conn = {c}, SInv(c), Savepoint(c)
  PROVE  SInv(c)'
<1>1. /\ disk \in Disk /\ saved \in Seq(Disk) /\ Len(saved) \in Nat
      /\ stmt \in [Stmt -> Compiled]
  BY StateIs
<1>2. /\ Idle(c) /\ Len(saved) < MaxSavepoint /\ saved' = Append(saved, disk) /\ owner' = c
      /\ disk' = disk /\ conn' = conn /\ stmt' = stmt /\ call' = call
  BY DEF Savepoint
<1>3. /\ saved' \in Seq(Disk) /\ Len(saved') = Len(saved) + 1 /\ saved' # <<>>
      /\ \A k \in 1..Len(saved) : saved'[k] = saved[k]
      /\ saved'[Len(saved) + 1] = disk
  BY <1>1, <1>2, AppendProperties
<1>4. \A k \in 1..Len(saved') : /\ DiskSound(saved'[k], 1 + conn[c].iMeta)
                                /\ ~conn[c].intern => saved'[k].master = disk'.master
  <2>. TAKE k \in 1..Len(saved')
  <2>1. CASE k = Len(saved) + 1
    BY <1>2, <1>3, <2>1 DEF SInv
  <2>2. CASE k # Len(saved) + 1
    <3>1. k \in 1..Len(saved)
      BY <1>1, <1>3, <2>2
    <3>. QED BY <1>2, <1>3, <3>1 DEF SInv, SavedSound
  <2>. QED BY <2>1, <2>2
<1>5. call' \in [Conn -> Call] /\ CallSound(c)'
  BY <1>2, ReturnIs
<1>6. owner' \in Conn \cup {NoConn} /\ (owner' = NoConn) = (saved' = <<>>)
  BY <1>2, <1>3
<1>7. Len(saved') <= MaxSavepoint
  BY <1>1, <1>2, <1>3
<1>8. DiskSound(disk', 1 + conn[c].iMeta) /\ MemorySound(conn[c], disk'.master)
  BY <1>2 DEF SInv
<1>9. stmt' \in [Stmt -> Compiled] /\ conn' = [conn EXCEPT ![c] = conn[c]]
  BY <1>1, <1>2, MemoryKept
<1>10. \A s \in Stmt : ProgramSound(stmt'[s], conn[c].iMeta, disk'.master)
  BY <1>2, MemoryKept
<1>. QED BY <1>3, <1>4, <1>5, <1>6, <1>7, <1>8, <1>9, <1>10, StoreChanged

\* The savepoints that are left when the first k of them are.
LEMMA SavedIs ==
  ASSUME NEW c, Conn = {c}, SInv(c), NEW k \in Nat, k <= Len(saved)
  PROVE  LET v == SubSeq(saved, 1, k)
         IN /\ v \in Seq(Disk) /\ Len(v) = k /\ (v = <<>>) = (k = 0)
            /\ Len(v) <= MaxSavepoint
            /\ \A j \in 1..k : v[j] = saved[j] /\ j \in 1..Len(saved)
<1>. DEFINE v == SubSeq(saved, 1, k)
<1>1. saved \in Seq(Disk) /\ Len(saved) \in Nat /\ Len(saved) <= MaxSavepoint
  BY StateIs DEF SInv, TypeOK
<1>2. /\ v \in Seq(Disk) /\ Len(v) = k
      /\ \A j \in 1..k : v[j] = saved[j] /\ j \in 1..Len(saved)
  BY <1>1, SubSeqProperties
<1>. HIDE DEF v
<1>3. (v = <<>>) = (k = 0)
  BY <1>2, EmptySeq
<1>. QED BY <1>1, <1>2, <1>3 DEF v

LEMMA ReleaseKeeps ==
  ASSUME NEW c, Conn = {c}, SInv(c), NEW k \in 1..Len(saved), Release(c, k)
  PROVE  SInv(c)'
<1>. DEFINE m == IF k = 1 THEN [conn[c] EXCEPT !.intern = FALSE] ELSE conn[c]
            i == k - 1
<1>1. /\ conn[c] \in Memory /\ conn \in [Conn -> Memory] /\ stmt \in [Stmt -> Compiled]
      /\ saved \in Seq(Disk) /\ Len(saved) \in Nat
  BY StateIs
<1>2. /\ Idle(c) /\ owner = c /\ saved' = SubSeq(saved, 1, i)
      /\ conn' = [conn EXCEPT ![c] = m] /\ owner' = IF k = 1 THEN NoConn ELSE owner
      /\ disk' = disk /\ stmt' = stmt /\ call' = call
  BY <1>1 DEF Release, InTransaction
<1>3. i \in Nat /\ i <= Len(saved) /\ (i = 0) = (k = 1)
  BY <1>1
<1>4. /\ MemorySound(m, disk.master) /\ m.iMeta = conn[c].iMeta
      /\ k # 1 => m.intern = conn[c].intern
  BY <1>1 DEF SInv, MemorySound, Memory
<1>. HIDE DEF m, i
<1>5. /\ saved' \in Seq(Disk) /\ Len(saved') = i /\ (saved' = <<>>) = (i = 0)
      /\ Len(saved') <= MaxSavepoint
      /\ \A j \in 1..i : saved'[j] = saved[j] /\ j \in 1..Len(saved)
  BY <1>2, <1>3, SavedIs
<1>6. \A j \in 1..Len(saved') : /\ DiskSound(saved'[j], 1 + m.iMeta)
                                /\ ~m.intern => saved'[j].master = disk'.master
  <2>. TAKE j \in 1..Len(saved')
  <2>1. saved'[j] = saved[j] /\ j \in 1..Len(saved) /\ i # 0
    BY <1>3, <1>5
  <2>. QED BY <1>2, <1>3, <1>4, <2>1 DEF SInv, SavedSound
<1>7. call' \in [Conn -> Call] /\ CallSound(c)'
  BY <1>2, ReturnIs
<1>8. owner' \in Conn \cup {NoConn} /\ (owner' = NoConn) = (saved' = <<>>)
  BY <1>2, <1>3, <1>5
<1>9. DiskSound(disk', 1 + m.iMeta) /\ MemorySound(m, disk'.master)
  BY <1>2, <1>4 DEF SInv
<1>10. \A s \in Stmt : ProgramSound(stmt'[s], m.iMeta, disk'.master)
  BY <1>2, <1>4, MemoryKept
<1>. QED BY <1>1, <1>2, <1>5, <1>6, <1>7, <1>8, <1>9, <1>10, StoreChanged

\* sqlite4VdbeRollback, to a store d that is sound.
LEMMA RollbackIs ==
  ASSUME NEW c, Conn = {c}, SInv(c), NEW iLevel \in Nat, RollbackSchema(c, iLevel),
         NEW d, ~conn[c].intern => d.master = disk.master
  PROVE  \E m : /\ conn' = [conn EXCEPT ![c] = m] /\ MemorySound(m, d.master)
               /\ m.iMeta = conn[c].iMeta
               /\ m.intern = (conn[c].intern /\ iLevel > 2)
               /\ stmt' \in [Stmt -> Compiled]
               /\ \A s \in Stmt : ProgramSound(stmt'[s], m.iMeta, d.master)
<1>1. /\ conn[c] \in Memory /\ conn[c].iMeta \in Nat /\ stmt \in [Stmt -> Compiled]
      /\ \A s \in Stmt : OwnerOf(s) = c
      /\ MemorySound(conn[c], disk.master)
  BY StateIs, MemoryKept
<1>2. CASE conn[c].intern
  <2>. DEFINE undone == iLevel > 2
              x == SchemaClear(conn[c])
              m == [x EXCEPT !.intern = undone]
              all == [s \in Stmt |-> IF OwnerOf(s) = c
                                     THEN [stmt[s] EXCEPT !.expired = TRUE] ELSE stmt[s]]
  <2>1. conn' = [conn EXCEPT ![c] = m] /\ stmt' = all
    BY <1>2 DEF RollbackSchema
  <2>2. /\ x \in Memory /\ ~x.loaded /\ x.iMeta = conn[c].iMeta
        /\ x.schema_cookie = conn[c].schema_cookie
    BY <1>1, ClearedIs
  <2>3. undone \in BOOLEAN
    OBVIOUS
  <2>. HIDE DEF x, undone
  <2>4. /\ m \in Memory /\ ~m.loaded /\ m.iMeta = conn[c].iMeta
        /\ m.schema_cookie = conn[c].schema_cookie /\ m.intern = undone
    BY <2>2, <2>3 DEF Memory
  <2>5. \A s \in Stmt : all[s] \in Compiled /\ ProgramSound(all[s], conn[c].iMeta, d.master)
    <3>. TAKE s \in Stmt
    <3>. DEFINE q == [stmt[s] EXCEPT !.expired = TRUE]
    <3>1. stmt[s] \in Compiled /\ ProgramSound(stmt[s], conn[c].iMeta, disk.master)
      BY <1>1, MemoryKept
    <3>2. q \in Compiled /\ ProgramSound(q, conn[c].iMeta, d.master)
      BY <1>1, <3>1, ProgramExpires
    <3>3. all[s] = q
      BY <1>1
    <3>. HIDE DEF q, all
    <3>. QED BY <3>2, <3>3
  <2>6. stmt' \in [Stmt -> Compiled]
    BY <2>1, <2>5
  <2>. HIDE DEF m, all
  <2>7. MemorySound(m, d.master)
    BY <1>1, <2>4 DEF MemorySound
  <2>8. \A s \in Stmt : ProgramSound(stmt'[s], m.iMeta, d.master)
    BY <2>1, <2>4, <2>5
  <2>9. m.intern = (conn[c].intern /\ iLevel > 2)
    BY <1>2, <2>4 DEF undone
  <2>. QED BY <2>1, <2>4, <2>6, <2>7, <2>8, <2>9
<1>3. CASE ~conn[c].intern
  <2>1. conn' = [conn EXCEPT ![c] = conn[c]] /\ stmt' = stmt
    BY <1>3, MemoryKept DEF RollbackSchema
  <2>2. \A s \in Stmt : ProgramSound(stmt[s], conn[c].iMeta, d.master)
    BY <1>3, MemoryKept
  <2>3. MemorySound(conn[c], d.master)
    BY <1>1, <1>3
  <2>4. conn[c].intern = (conn[c].intern /\ iLevel > 2)
    BY <1>1, <1>3 DEF Memory
  <2>. QED BY <1>1, <2>1, <2>2, <2>3, <2>4
<1>. QED BY <1>2, <1>3

LEMMA RollbackToKeeps ==
  ASSUME NEW c, Conn = {c}, SInv(c), NEW k \in 1..Len(saved), RollbackTo(c, k)
  PROVE  SInv(c)'
<1>. DEFINE level == k + 1
<1>1. saved \in Seq(Disk) /\ Len(saved) \in Nat /\ conn[c].iMeta \in Nat
  BY StateIs, MemoryKept
<1>2. /\ Idle(c) /\ owner = c /\ disk' = saved[k] /\ saved' = SubSeq(saved, 1, k)
      /\ RollbackSchema(c, level) /\ owner' = owner /\ call' = call
  BY DEF RollbackTo, InTransaction
<1>3. k \in Nat /\ k <= Len(saved) /\ k # 0 /\ level \in Nat /\ (level > 2 \/ k = 1)
  BY <1>1
<1>. HIDE DEF level
<1>4. \A j \in 1..Len(saved) :
        /\ DiskSound(saved[j], 1 + conn[c].iMeta)
        /\ ~conn[c].intern => saved[j].master = disk.master
  BY DEF SInv, SavedSound
<1>5. PICK m : /\ conn' = [conn EXCEPT ![c] = m] /\ MemorySound(m, disk'.master)
               /\ m.iMeta = conn[c].iMeta
               /\ m.intern = (conn[c].intern /\ level > 2)
               /\ stmt' \in [Stmt -> Compiled]
               /\ \A s \in Stmt : ProgramSound(stmt'[s], m.iMeta, disk'.master)
  <2>1. ~conn[c].intern => disk'.master = disk.master
    BY <1>2, <1>4
  <2>. QED BY <1>2, <1>3, <2>1, RollbackIs
<1>6. /\ saved' \in Seq(Disk) /\ Len(saved') = k /\ saved' # <<>>
      /\ Len(saved') <= MaxSavepoint
      /\ \A j \in 1..k : saved'[j] = saved[j] /\ j \in 1..Len(saved)
  BY <1>2, <1>3, SavedIs
<1>7. DiskSound(disk', 1 + m.iMeta)
  BY <1>2, <1>4, <1>5
<1>8. \A j \in 1..Len(saved') : /\ DiskSound(saved'[j], 1 + m.iMeta)
                                /\ ~m.intern => saved'[j].master = disk'.master
  <2>. TAKE j \in 1..Len(saved')
  <2>1. saved'[j] = saved[j] /\ j \in 1..Len(saved)
    BY <1>6
  <2>2. CASE conn[c].intern /\ ~(level > 2)
    <3>1. k = 1 /\ j = 1
      BY <1>3, <1>6, <2>2
    <3>. QED BY <1>2, <1>4, <1>5, <2>1, <3>1
  <2>3. CASE ~(conn[c].intern /\ ~(level > 2))
    BY <1>2, <1>4, <1>5, <2>1, <2>3
  <2>. QED BY <2>2, <2>3
<1>9. call' \in [Conn -> Call] /\ CallSound(c)'
  BY <1>2, ReturnIs
<1>10. owner' \in Conn \cup {NoConn} /\ (owner' = NoConn) = (saved' = <<>>)
  BY <1>2, <1>6
<1>. QED BY <1>5, <1>6, <1>7, <1>8, <1>9, <1>10, StoreChanged

LEMMA RollbackKeeps ==
  ASSUME NEW c, Conn = {c}, SInv(c), Rollback(c)
  PROVE  SInv(c)'
<1>1. saved \in Seq(Disk) /\ Len(saved) \in Nat /\ conn[c].iMeta \in Nat
  BY StateIs, MemoryKept
<1>2. /\ Idle(c) /\ owner = c /\ disk' = saved[1] /\ saved' = <<>>
      /\ RollbackSchema(c, 1) /\ owner' = NoConn /\ call' = call
  BY DEF Rollback, InTransaction
<1>3. 1 \in 1..Len(saved)
  <2>1. saved # <<>>
    BY <1>2 DEF SInv, TypeOK
  <2>2. Len(saved) # 0
    BY <1>1, <2>1, EmptySeq
  <2>. QED BY <1>1, <2>2
<1>4. /\ DiskSound(disk', 1 + conn[c].iMeta)
      /\ ~conn[c].intern => disk'.master = disk.master
  BY <1>2, <1>3 DEF SInv, SavedSound
<1>5. PICK m : /\ conn' = [conn EXCEPT ![c] = m] /\ MemorySound(m, disk'.master)
               /\ m.iMeta = conn[c].iMeta
               /\ stmt' \in [Stmt -> Compiled]
               /\ \A s \in Stmt : ProgramSound(stmt'[s], m.iMeta, disk'.master)
  BY <1>2, <1>4, RollbackIs
<1>6. saved' \in Seq(Disk) /\ Len(saved') = 0 /\ Len(saved') <= MaxSavepoint
  BY <1>2
<1>7. DiskSound(disk', 1 + m.iMeta)
  BY <1>4, <1>5
<1>8. call' \in [Conn -> Call] /\ CallSound(c)'
  BY <1>2, ReturnIs
<1>9. owner' \in Conn \cup {NoConn} /\ (owner' = NoConn) = (saved' = <<>>)
  BY <1>2
<1>10. \A j \in 1..Len(saved') : /\ DiskSound(saved'[j], 1 + m.iMeta)
                                 /\ ~m.intern => saved'[j].master = disk'.master
  BY <1>6
<1>. QED BY <1>5, <1>6, <1>7, <1>8, <1>9, <1>10, StoreChanged

-----------------------------------------------------------------------------
(* The invariant.                                                          *)

LEMMA InitIsSound ==
  ASSUME NEW c, Conn = {c}, Init
  PROVE  SInv(c)
<1>. DEFINE m == [iMeta |-> 0, tables |-> NoTables, schema_cookie |-> 0,
                  iGeneration |-> 0, loaded |-> FALSE, intern |-> FALSE]
<1>1. /\ disk = [master |-> NoTables, rows |-> {}] /\ saved = <<>> /\ owner = NoConn
      /\ conn = [x \in Conn |-> m] /\ stmt = [s \in Stmt |-> NoProgram]
      /\ call = [x \in Conn |-> NoCall]
  BY DEF Init
<1>2. /\ NoTables \in [Table -> Number] /\ \A t \in Table : NoTables[t] = 0
      /\ NoProgram \in Compiled /\ NoProgram.state = "none"
      /\ NoCall \in Call /\ NoCall.at = "idle" /\ NoCall.cnt = 0
  BY DEF NoTables, Number, NoProgram, Compiled, Kind, NoCall, Call, MaxRetry
<1>3. /\ m \in Memory /\ m.iMeta = 0 /\ m.schema_cookie = 0 /\ ~m.loaded /\ conn[c] = m
  BY <1>1, <1>2 DEF Memory
<1>. HIDE DEF m
<1>4. TypeOK
  <2>1. disk \in Disk /\ saved \in Seq(Disk) /\ Len(saved) <= MaxSavepoint
    BY <1>1, <1>2 DEF Disk
  <2>2. /\ conn \in [Conn -> Memory] /\ stmt \in [Stmt -> Compiled] /\ call \in [Conn -> Call]
    BY <1>1, <1>2, <1>3
  <2>. QED BY <1>1, <2>1, <2>2 DEF TypeOK, Memory, Compiled, Call
<1>5. MemorySound(conn[c], disk.master)
  BY <1>3 DEF MemorySound
<1>6. DiskSound(disk, 1 + conn[c].iMeta)
  <2>1. disk \in Disk /\ disk.rows = {} /\ \A t \in Table : disk.master[t] = 0
    BY <1>1, <1>2 DEF Disk
  <2>. QED BY <1>3, <2>1 DEF DiskSound
<1>7. SavedSound(c)
  BY <1>1 DEF SavedSound
<1>8. \A s \in Stmt : ProgramSound(stmt[s], conn[c].iMeta, disk.master)
  BY <1>1, <1>2 DEF ProgramSound
<1>9. CallSound(c)
  BY <1>1, <1>2 DEF CallSound, Idle
<1>. QED BY <1>4, <1>5, <1>6, <1>7, <1>8, <1>9 DEF SInv

LEMMA NextKeeps ==
  ASSUME NEW c, Conn = {c}, NoLateFault, SInv(c), [Next]_vars
  PROVE  SInv(c)'
<1>1. /\ conn \in [Conn -> Memory] /\ stmt \in [Stmt -> Compiled]
      /\ \A s \in Stmt : OwnerOf(s) = c
  BY StateIs
<1>2. ASSUME NEW s \in Stmt, NEW kind \in Kind, NEW t \in Table, Prepare(s, kind, t)
      PROVE  SInv(c)'
  BY <1>2, PrepareKeeps
<1>3. ASSUME NEW s \in Stmt, CallStep(s)
      PROVE  SInv(c)'
  BY <1>3, CallStepKeeps
<1>4. ASSUME NEW s \in Stmt, Reset(s)
      PROVE  SInv(c)'
  <2>1. /\ Idle(c) /\ call' = call /\ stmt[s].state # "none"
        /\ stmt' = [stmt EXCEPT ![s].state = "ready"]
        /\ conn' = [conn EXCEPT ![c] = Halted(c, conn[c])]
        /\ disk' = disk /\ saved' = saved /\ owner' = owner
    BY <1>1, <1>4 DEF Reset
  <2>. QED BY <2>1, MovesKeep
<1>5. ASSUME NEW s \in Stmt, Finalize(s)
      PROVE  SInv(c)'
  <2>1. /\ Idle(c) /\ call' = call
        /\ stmt' = [stmt EXCEPT ![s] = NoProgram]
        /\ conn' = conn \/ conn' = [conn EXCEPT ![c] = Halted(c, conn[c])]
        /\ disk' = disk /\ saved' = saved /\ owner' = owner
    BY <1>1, <1>5 DEF Finalize
  <2>. QED BY <2>1, MovesKeep
<1>6. ASSUME NEW s \in Stmt, Step(c, s)
      PROVE  SInv(c)'
  <2>1. CASE StepRow(c, s)
    <3>1. /\ Return(c) /\ stmt[s].state # "none"
          /\ disk' = disk /\ saved' = saved /\ owner' = owner
      BY <2>1 DEF StepRow
    <3>2. CASE UNCHANGED <<stmt, conn>>
      BY <3>1, <3>2, MovesKeep
    <3>3. CASE /\ stmt' = [stmt EXCEPT ![s].state = "ready"]
               /\ conn' = [conn EXCEPT ![c].intern = InTransaction(c) /\ @]
      <4>1. conn' = [conn EXCEPT ![c] = Halted(c, conn[c])]
        BY <1>1, <3>3 DEF Halted
      <4>. QED BY <3>1, <3>3, <4>1, MovesKeep
    <3>. QED BY <2>1, <3>2, <3>3 DEF StepRow
  <2>2. CASE StepSelect(c, s)
    <3>1. /\ Return(c) /\ stmt[s].state # "none"
          /\ stmt' = stmt \/ stmt' = [stmt EXCEPT ![s].state = "active"]
          /\ conn' = conn \/ conn' = [conn EXCEPT ![c] = Halted(c, conn[c])]
          /\ disk' = disk /\ saved' = saved /\ owner' = owner
      BY <2>2 DEF StepSelect, Starts
    <3>. QED BY <3>1, MovesKeep
  <2>3. CASE StepExpired(c, s)
    BY <2>3, StepExpiredKeeps
  <2>4. CASE StepStale(c, s)
    BY <2>4, StepStaleKeeps
  <2>5. CASE StepInsert(c, s)
    BY <2>5, StepInsertKeeps
  <2>6. CASE StepCreate(c, s)
    BY <2>6, StepCreateKeeps
  <2>7. CASE StepParseFails(c, s)
    BY <2>7, StepParseFailsKeeps
  <2>8. CASE StepDrop(c, s)
    BY <2>8, StepDropKeeps
  <2>9. CASE Retry(c, s)
    BY <2>9, RetryKeeps
  <2>. QED BY <1>6, <2>1, <2>2, <2>3, <2>4, <2>5, <2>6, <2>7, <2>8, <2>9 DEF Step
<1>7. ASSUME Savepoint(c) \/ Rollback(c)
      PROVE  SInv(c)'
  BY <1>7, SavepointKeeps, RollbackKeeps
<1>8. ASSUME NEW k \in 1..Len(saved), Release(c, k) \/ RollbackTo(c, k)
      PROVE  SInv(c)'
  BY <1>8, ReleaseKeeps, RollbackToKeeps
<1>9. CASE UNCHANGED vars
  BY <1>9 DEF vars, SInv, TypeOK, MemorySound, DiskSound, SavedSound, ProgramSound, CallSound,
              Idle, Verified
<1>. QED BY <1>2, <1>3, <1>4, <1>5, <1>6, <1>7, <1>8, <1>9 DEF Next

LEMMA SInvHolds ==
  ASSUME NEW c, Conn = {c}, NoLateFault
  PROVE  Spec => []SInv(c)
<1>1. Init => SInv(c)
  BY InitIsSound
<1>2. SInv(c) /\ [Next]_vars => SInv(c)'
  BY NextKeeps
<1>. QED BY <1>1, <1>2, PTL DEF Spec

-----------------------------------------------------------------------------
(* The theorems.                                                           *)

\* The variables have their values, and there are savepoints exactly while the
\* connection has a transaction open.
THEOREM SchemaTyped == OneConnection /\ NoLateFault => (Spec => []TypeOK)
<1>. SUFFICES ASSUME NEW c, Conn = {c}, NoLateFault
              PROVE  Spec => []TypeOK
  BY DEF OneConnection
<1>1. SInv(c) => TypeOK
  BY DEF SInv
<1>. QED BY <1>1, SInvHolds, PTL

\* The schema in memory is the one in the store, whatever was created, dropped
\* and rolled back (vdbe.c:3952-3956, vdbeaux.c:1697-1704).
THEOREM SchemaIsTheStores == OneConnection /\ NoLateFault => (Spec => []SchemaMatchesStore)
<1>. SUFFICES ASSUME NEW c, Conn = {c}, NoLateFault
              PROVE  Spec => []SchemaMatchesStore
  BY DEF OneConnection
<1>1. SInv(c) => SchemaMatchesStore
  BY StateIs DEF SInv, MemorySound, SchemaMatchesStore
<1>. QED BY <1>1, SInvHolds, PTL

\* A program that OP_VerifyCookie lets run was compiled for the schema as it is
\* (vdbe.c:2522-2560).
THEOREM OnlyCurrentProgramsRun ==
  OneConnection /\ NoLateFault => (Spec => []VerifiedProgramsAreCurrent)
<1>. SUFFICES ASSUME NEW c, Conn = {c}, NoLateFault
              PROVE  Spec => []VerifiedProgramsAreCurrent
  BY DEF OneConnection
<1>1. SInv(c) => VerifiedProgramsAreCurrent
  <2>. SUFFICES ASSUME SInv(c), NEW s \in Stmt,
                       stmt[s].state = "ready", ~stmt[s].expired, Verified(OwnerOf(s), s)
                PROVE  View(OwnerOf(s)).master[stmt[s].table] =
                         IF stmt[s].kind = "create" THEN 0 ELSE stmt[s].num
    BY DEF VerifiedProgramsAreCurrent
  <2>1. OwnerOf(s) = c /\ View(c) = disk
    BY StateIs
  <2>2. Current(stmt[s], disk.master)
    BY <2>1 DEF SInv, ProgramSound, Verified
  <2>. QED BY <2>1, <2>2 DEF Current
<1>. QED BY <1>1, SInvHolds, PTL

\* No two tables have the same number and every row belongs to a table, although
\* OP_NewIdxid sees only the rows and what the compiler knew (build.c:134-159,
\* vdbe.c:3219-3256).
THEOREM RowsHaveOneTable == OneConnection /\ NoLateFault => (Spec => []TablesOwnTheirRows)
<1>. SUFFICES ASSUME NEW c, Conn = {c}, NoLateFault
              PROVE  Spec => []TablesOwnTheirRows
  BY DEF OneConnection
<1>1. SInv(c) => TablesOwnTheirRows
  BY DEF SInv, DiskSound, TablesOwnTheirRows, NumbersAreDistinct, RowsBelongToTables
<1>. QED BY <1>1, SInvHolds, PTL

\* sqlite4_step compiles an expired statement again at most once, so that the
\* limit of its retries is never reached (vdbeapi.c:424).
THEOREM RetriesAreBounded == OneConnection /\ NoLateFault => (Spec => []OneRetryIsEnough)
<1>. SUFFICES ASSUME NEW c, Conn = {c}, NoLateFault
              PROVE  Spec => []OneRetryIsEnough
  BY DEF OneConnection
<1>1. SInv(c) => OneRetryIsEnough
  BY DEF SInv, CallSound, OneRetryIsEnough
<1>. QED BY <1>1, SInvHolds, PTL
=============================================================================
