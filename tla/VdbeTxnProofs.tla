--------------------------- MODULE VdbeTxnProofs ---------------------------
(***************************************************************************)
(* Theorems about VdbeTxn for any databases, rows, savepoints and SELECTs, *)
(* and for commits that fail as well as for those that do not.             *)
(*                                                                         *)
(* The levels of the stores follow the savepoints whatever kind of stores  *)
(* there is, as long as the application leaves the transaction functions   *)
(* alone (LInv).  Over stores whose xRollback(N) also undoes level N, the  *)
(* snapshots the stores took at each level agree with the counters kept in *)
(* the savepoints, so that whatever is rolled back the counters are exact  *)
(* and what is committed is consistent (IInv).  The last part follows what *)
(* is permanent (AInv) and shows the refinement of SqlTxn.                 *)
(***************************************************************************)
EXTENDS VdbeTxn, FiniteSetTheorems, SequenceTheorems, WellFoundedInduction, TLAPS

USE VdbeTxnAssumption

-----------------------------------------------------------------------------
(* The inductive invariant.                                                *)

\* sqlite4
Conn == [pSavepoint : Seq(Savepoint), nDeferredCons : Int, store : [Db -> Store]]

Results == {"ok", "abort", "fail", "rollback", "error"}

Typed ==
    /\ db \in Conn /\ Len(db.pSavepoint) <= MaxSavepoint
    /\ reader \in [Reader -> SUBSET Db]
    /\ p \in Statement \cup {NoStmt}
    /\ result \in Results
    /\ fault \in BOOLEAN

\* A statement transaction is opened after the database's turn has come.
MasksAreDone ==
    Running => p.todo \subseteq p.dbs /\ p.stmtTransMask \subseteq p.dbs \ p.todo

LInv == Typed /\ MasksAreDone /\ LevelsFollowSavepoints

-----------------------------------------------------------------------------
(* Numbers and sets.                                                       *)

LEMMA MaxOfTwo ==
  ASSUME NEW a \in Int, NEW b \in Int
  PROVE  Max({a, b}) = IF a >= b THEN a ELSE b
BY DEF Max

LEMMA MinOfTwo ==
  ASSUME NEW a \in Int, NEW b \in Int
  PROVE  Min({a, b}) = IF a <= b THEN a ELSE b
BY DEF Min

LEMMA LeastOf ==
  ASSUME NEW S, S \subseteq Nat, S # {}
  PROVE  \E m \in S : \A n \in S : m <= n
<1>1. PICK m \in S : \A n \in S : <<n, m>> \notin OpToRel(<, Nat)
  BY NatLessThanWellFounded, WFMin
<1>2. \A n \in S : ~ (n < m)
  BY <1>1 DEF OpToRel
<1>. QED BY <1>2

\* The savepoint that a command means is one of the connection's, if it is any: the
\* first one, or the last of the name.
LEMMA MeantIsSavepoint ==
  ASSUME NEW c \in Conn, NEW n
  PROVE  /\ Meant(c, n) \in 0..Len(c.pSavepoint)
         /\ n = NoName => Meant(c, n) = IF c.pSavepoint = <<>> THEN 0 ELSE 1
         /\ n # NoName =>
              /\ Meant(c, n) # 0 => c.pSavepoint[Meant(c, n)].zName = n
              /\ \A j \in (Meant(c, n) + 1)..Len(c.pSavepoint) :
                   c.pSavepoint[j].zName # n
<1>. DEFINE s == c.pSavepoint
            I == {i \in DOMAIN s : s[i].zName = n}
            T == {0} \cup I
<1>1. s \in Seq(Savepoint) /\ Len(s) \in Nat /\ DOMAIN s = 1..Len(s)
        /\ (s = <<>> <=> Len(s) = 0)
  BY LenProperties, EmptySeq DEF Conn
<1>2. CASE n = NoName
  BY <1>1, <1>2, MinOfTwo DEF Meant
<1>3. CASE n # NoName
  <2>. DEFINE U == {Len(s) - i : i \in T}
  <2>1. U \subseteq Nat /\ U # {}
    BY <1>1
  <2>2. PICK u \in U : \A v \in U : u <= v
    BY <2>1, LeastOf
  <2>3. PICK i \in T : u = Len(s) - i
    OBVIOUS
  <2>4. \A j \in T : i >= j
    <3>. TAKE j \in T
    <3>1. Len(s) - j \in U
      OBVIOUS
    <3>2. i \in Int /\ j \in Int
      BY <1>1
    <3>3. u <= Len(s) - j
      BY <3>1, <2>2
    <3>. HIDE DEF T, U
    <3>. QED BY <3>2, <3>3, <2>3, <1>1
  <2>5. Max(T) \in T
    <3>1. \E m \in T : \A j \in T : m >= j
      BY <2>4
    <3>. HIDE DEF T
    <3>. QED BY <3>1 DEF Max
  <2>6. Meant(c, n) = Max(T)
    BY <1>3 DEF Meant
  <2>7. \A j \in (Max(T) + 1)..Len(s) : s[j].zName # n
    <3>1. \A j \in T : Max(T) >= j
      <4>1. \E m \in T : \A j \in T : m >= j
        BY <2>4
      <4>. HIDE DEF T
      <4>. QED BY <4>1 DEF Max
    <3>2. Max(T) \in Nat /\ T \subseteq Nat
      BY <1>1, <2>5
    <3>. SUFFICES ASSUME NEW j \in (Max(T) + 1)..Len(s), s[j].zName = n PROVE FALSE
      OBVIOUS
    <3>3. j \in T /\ j \in Nat
      BY <1>1, <3>2
    <3>4. Max(T) >= j
      BY <3>1, <3>3
    <3>. HIDE DEF T
    <3>. QED BY <3>2, <3>3, <3>4
  <2>. QED BY <1>1, <1>3, <2>5, <2>6, <2>7
<1>. QED BY <1>2, <1>3

\* The SELECTs that read something.
Active(rd) == {r \in Reader : rd[r] # {}}

LEMMA ReadersAreFinite ==
  ASSUME NEW rd
  PROVE  /\ IsFiniteSet(Active(rd)) /\ Cardinality(Active(rd)) \in Nat
         /\ Cardinality(Active(rd)) = 0 <=> \A r \in Reader : rd[r] = {}
<1>1. Active(rd) \subseteq Reader /\ (Active(rd) = {} <=> \A r \in Reader : rd[r] = {})
  BY DEF Active
<1>2. IsFiniteSet(Active(rd))
  BY <1>1, FS_Subset
<1>. QED BY <1>1, <1>2, FS_CardinalityType, FS_EmptySet

LEMMA ActiveCount ==
  /\ activeVdbeCnt = Cardinality(Active(reader)) + (IF Running THEN 1 ELSE 0)
  /\ activeVdbeCnt \in Nat
<1>1. activeVdbeCnt = Cardinality(Active(reader)) + (IF Running THEN 1 ELSE 0)
  BY Zenon DEF activeVdbeCnt, ActiveReaders, Active
<1>. QED BY <1>1, ReadersAreFinite

LEMMA ActiveCountNext ==
  /\ activeVdbeCnt' = Cardinality(Active(reader')) + (IF Running' THEN 1 ELSE 0)
  /\ activeVdbeCnt' \in Nat
<1>1. activeVdbeCnt' = Cardinality(Active(reader')) + (IF Running' THEN 1 ELSE 0)
  BY Zenon DEF activeVdbeCnt, ActiveReaders, Active
<1>. QED BY <1>1, ReadersAreFinite

-----------------------------------------------------------------------------
(* What the calls of a store do to it.                                     *)

LEMMA LevelsAreNat == Levels \subseteq Nat /\ MaxLevel \in Nat /\ WriteLevels \subseteq Levels
BY DEF Levels, WriteLevels, MaxLevel

LEMMA StoreBegin ==
  ASSUME NEW s \in Store, NEW l \in Levels
  PROVE  KvBegin(s, l) \in Store /\ KvBegin(s, l).iTransLevel = l
BY DEF KvBegin, Store

LEMMA StoreWrite ==
  ASSUME NEW s \in Store, NEW C \in SUBSET Row
  PROVE  /\ KvWrite(s, C) \in Store
         /\ KvWrite(s, C).iTransLevel = s.iTransLevel
         /\ KvWrite(s, C).content = C
         /\ \A m \in WriteLevels : KvWrite(s, C).atBegin[m] =
                                     IF m <= s.iTransLevel THEN s.atBegin[m] ELSE C
<1>. DEFINE f == [m \in WriteLevels |-> IF m <= s.iTransLevel THEN s.atBegin[m] ELSE C]
            w == [s EXCEPT !.content = C, !.atBegin = f]
<1>1. f \in [WriteLevels -> SUBSET Row]
  BY DEF Store
<1>2. KvWrite(s, C) = w
  BY DEF KvWrite
<1>3. w \in Store /\ w.iTransLevel = s.iTransLevel /\ w.content = C /\ w.atBegin = f
  <2>. HIDE DEF f
  <2>. QED BY <1>1 DEF Store
<1>. QED BY <1>2, <1>3

LEMMA StoreCommit ==
  ASSUME NEW s \in Store, NEW l \in Levels
  PROVE  /\ KvCommit(s, l) \in Store
         /\ KvCommit(s, l).iTransLevel = l
         /\ KvCommit(s, l).content = s.content
         /\ \A m \in WriteLevels : KvCommit(s, l).atBegin[m] =
                                     IF m <= l THEN s.atBegin[m] ELSE s.content
<1>. DEFINE f == [m \in WriteLevels |-> IF m <= l THEN s.atBegin[m] ELSE s.content]
            w == [s EXCEPT !.iTransLevel = l, !.atBegin = f]
<1>1. f \in [WriteLevels -> SUBSET Row]
  BY DEF Store
<1>2. KvCommit(s, l) = w
  BY DEF KvCommit
<1>3. w \in Store /\ w.iTransLevel = l /\ w.content = s.content /\ w.atBegin = f
  <2>. HIDE DEF f
  <2>. QED BY <1>1 DEF Store
<1>. QED BY <1>2, <1>3

LEMMA StoreRollback ==
  ASSUME NEW s \in Store, NEW l \in Levels
  PROVE  KvRollback(s, l) \in Store /\ KvRollback(s, l).iTransLevel = l
<1>. DEFINE c == IF UndoneFrom(l) \in WriteLevels THEN s.atBegin[UndoneFrom(l)]
                 ELSE s.content
            s1 == [s EXCEPT !.iTransLevel = l]
<1>1. c \in SUBSET Row
  BY DEF Store
<1>2. s1 \in Store /\ s1.iTransLevel = l
  BY DEF Store
<1>3. KvRollback(s, l) = KvWrite(s1, c)
  BY DEF KvRollback
<1>. HIDE DEF c, s1
<1>. QED BY <1>1, <1>2, <1>3, StoreWrite

-----------------------------------------------------------------------------
(* What the functions of vdbeaux.c do to the levels.                       *)

Level(c, d) == c.store[d].iTransLevel

\* The savepoints that freeSavepoints(c, l) leaves.
LeastLen(c, l) ==
    LET k == (IF l >= 1 THEN l ELSE 1) - 1
    IN IF Len(c.pSavepoint) <= k THEN Len(c.pSavepoint) ELSE k

LEMMA ConnFields ==
  ASSUME NEW c \in Conn
  PROVE  /\ Len(c.pSavepoint) \in Nat
         /\ \A d \in Db : c.store[d] \in Store /\ Level(c, d) \in Levels
         /\ \A i \in 1..Len(c.pSavepoint) : c.pSavepoint[i] \in Savepoint
         /\ c.pSavepoint = <<>> <=> Len(c.pSavepoint) = 0
<1>1. c.pSavepoint \in Seq(Savepoint) /\ c.store \in [Db -> Store]
  BY DEF Conn
<1>2. Len(c.pSavepoint) \in Nat
  BY <1>1, LenProperties
<1>3. \A i \in 1..Len(c.pSavepoint) : c.pSavepoint[i] \in Savepoint
  BY <1>1, ElementOfSeq
<1>4. \A d \in Db : c.store[d] \in Store /\ Level(c, d) \in Levels
  BY <1>1 DEF Level, Store
<1>5. c.pSavepoint = <<>> <=> Len(c.pSavepoint) = 0
  BY <1>1, EmptySeq, LenProperties
<1>. QED BY <1>2, <1>3, <1>4, <1>5

LEMMA SavepointsFreed ==
  ASSUME NEW c \in Conn, NEW l \in Nat
  PROVE  /\ FreeSavepoints(c, l) \in Conn
         /\ FreeSavepoints(c, l).store = c.store
         /\ FreeSavepoints(c, l).nDeferredCons = c.nDeferredCons
         /\ Len(FreeSavepoints(c, l).pSavepoint) = LeastLen(c, l)
         /\ \A i \in 1..LeastLen(c, l) :
              FreeSavepoints(c, l).pSavepoint[i] = c.pSavepoint[i]
<1>. DEFINE s == c.pSavepoint
            k == LeastLen(c, l)
            f == FreeSavepoints(c, l)
<1>1. s \in Seq(Savepoint) /\ Len(s) \in Nat
  BY LenProperties DEF Conn
<1>2. k \in 0..Len(s)
  BY <1>1 DEF LeastLen
<1>3. Min({Len(s), Max({l, 1}) - 1}) = k
  BY <1>1, MaxOfTwo, MinOfTwo, SMTT(20) DEF LeastLen
<1>4. f = [c EXCEPT !.pSavepoint = SubSeq(s, 1, k)]
  BY <1>3 DEF FreeSavepoints
<1>5. /\ SubSeq(s, 1, k) \in Seq(Savepoint)
      /\ Len(SubSeq(s, 1, k)) = k
      /\ \A i \in 1..k : SubSeq(s, 1, k)[i] = s[i]
  <2>1. \A i \in 1..k : s[i] \in Savepoint
    BY <1>1, <1>2, ElementOfSeq
  <2>. QED BY <1>1, <1>2, <2>1
<1>6. f.pSavepoint = SubSeq(s, 1, k) /\ f \in Conn /\ f.store = c.store
        /\ f.nDeferredCons = c.nDeferredCons
  BY <1>4, <1>5 DEF Conn
<1>. QED BY <1>5, <1>6

LEMMA RollbackLevels ==
  ASSUME NEW c \in Conn, NEW l \in Levels
  PROVE  /\ VdbeRollback(c, l) \in Conn
         /\ Len(VdbeRollback(c, l).pSavepoint) = LeastLen(c, l)
         /\ \A d \in Db : Level(VdbeRollback(c, l), d) =
                            IF Level(c, d) >= l THEN l ELSE Level(c, d)
<1>. DEFINE undone == [d \in Db |-> IF c.store[d].iTransLevel >= l
                                    THEN KvRollback(c.store[d], l) ELSE c.store[d]]
            c1 == [c EXCEPT !.store = undone]
            freed == FreeSavepoints(c1, l)
            n == IF freed.pSavepoint = <<>> THEN 0
                 ELSE Last(freed.pSavepoint).nDeferredCons
<1>1. l \in Nat
  BY LevelsAreNat
<1>2. undone \in [Db -> Store]
  BY ConnFields, StoreRollback
<1>3. c1 \in Conn /\ c1.store = undone /\ c1.pSavepoint = c.pSavepoint
  BY <1>2 DEF Conn
<1>4. freed \in Conn /\ freed.store = undone /\ Len(freed.pSavepoint) = LeastLen(c, l)
  <2>. HIDE DEF c1
  <2>1. LeastLen(c1, l) = LeastLen(c, l)
    BY <1>3 DEF LeastLen
  <2>. QED BY <1>1, <1>3, <2>1, SavepointsFreed
<1>5. n \in Int
  <2>. HIDE DEF freed
  <2>1. freed.pSavepoint # <<>> => Last(freed.pSavepoint) \in Savepoint
    BY <1>4, ConnFields DEF Last
  <2>. QED BY <2>1 DEF Savepoint
<1>6. VdbeRollback(c, l) = [freed EXCEPT !.nDeferredCons = n]
  BY DEF VdbeRollback
<1>7. /\ VdbeRollback(c, l) \in Conn
      /\ VdbeRollback(c, l).store = undone
      /\ VdbeRollback(c, l).pSavepoint = freed.pSavepoint
  <2>. HIDE DEF freed, n
  <2>. QED BY <1>4, <1>5, <1>6 DEF Conn
<1>8. \A d \in Db : undone[d].iTransLevel =
                      IF Level(c, d) >= l THEN l ELSE Level(c, d)
  BY ConnFields, StoreRollback DEF Level
<1>. QED BY <1>4, <1>7, <1>8 DEF Level

LEMMA CommitLevels ==
  ASSUME NEW c \in Conn, NEW l \in Levels, NEW bad
  PROVE  /\ VdbeCommit(c, l, bad) \in Conn
         /\ bad \cap Above(c, l) = {} =>
              /\ Len(VdbeCommit(c, l, bad).pSavepoint) = LeastLen(c, l)
              /\ \A d \in Db : Level(VdbeCommit(c, l, bad), d) =
                                 IF Level(c, d) > l THEN l ELSE Level(c, d)
         /\ bad \cap Above(c, l) # {} =>
              /\ VdbeCommit(c, l, bad).pSavepoint = <<>>
              /\ \A d \in Db : Level(VdbeCommit(c, l, bad), d) \in 0..1
              /\ l >= 1 => \A d \in Db : Level(c, d) >= 1 =>
                             Level(VdbeCommit(c, l, bad), d) = 1
<1>. DEFINE failed == bad \cap Above(c, l)
            done == {d \in Above(c, l) : \A f \in failed : d < f}
            stores == [d \in Db |-> IF d \in done THEN KvCommit(c.store[d], l)
                                    ELSE c.store[d]]
            c1 == [c EXCEPT !.store = stores]
<1>1. l \in Nat /\ 1 \in Levels /\ MaxLevel \in Nat
  BY LevelsAreNat DEF Levels, MaxLevel
<1>2. stores \in [Db -> Store]
  BY ConnFields, StoreCommit
<1>3. c1 \in Conn /\ c1.store = stores /\ c1.pSavepoint = c.pSavepoint
  BY <1>2 DEF Conn
<1>4. \A d \in Db : Level(c1, d) = IF d \in done THEN l ELSE Level(c, d)
  <2>. HIDE DEF done, c1
  <2>. QED BY <1>3, ConnFields, StoreCommit DEF Level
<1>5. VdbeCommit(c, l, bad) = IF failed = {} THEN FreeSavepoints(c1, l)
                              ELSE VdbeRollback(c1, 1)
  BY DEF VdbeCommit
<1>6. \A d \in Db : Level(c, d) \in Nat
  BY ConnFields, LevelsAreNat
<1>7. CASE failed = {}
  <2>1. \A d \in Db : d \in done <=> Level(c, d) > l
    BY <1>7 DEF Above, Level
  <2>2. LeastLen(c1, l) = LeastLen(c, l)
    BY <1>3 DEF LeastLen
  <2>. HIDE DEF c1, done, stores
  <2>3. VdbeCommit(c, l, bad) = FreeSavepoints(c1, l)
    BY <1>5, <1>7
  <2>. HIDE DEF failed
  <2>5. /\ VdbeCommit(c, l, bad) \in Conn
        /\ VdbeCommit(c, l, bad).store = c1.store
        /\ Len(VdbeCommit(c, l, bad).pSavepoint) = LeastLen(c, l)
    BY <1>1, <1>3, <2>2, <2>3, SavepointsFreed
  <2>4. \A d \in Db : Level(VdbeCommit(c, l, bad), d) = Level(c1, d)
    BY <2>5 DEF Level
  <2>. QED BY <1>4, <1>7, <2>1, <2>5, <2>4 DEF failed
<1>8. CASE failed # {}
  <2>. DEFINE r == VdbeRollback(c1, 1)
  <2>. HIDE DEF c1, stores
  <2>1. VdbeCommit(c, l, bad) = r
    BY <1>5, <1>8
  <2>2. /\ r \in Conn /\ Len(r.pSavepoint) = LeastLen(c1, 1)
        /\ \A d \in Db : Level(r, d) = IF Level(c1, d) >= 1 THEN 1 ELSE Level(c1, d)
    BY <1>1, <1>3, RollbackLevels
  <2>3. r.pSavepoint = <<>>
    BY <1>3, <2>2, ConnFields DEF LeastLen
  <2>4. \A d \in Db : Level(r, d) \in 0..1
    BY <1>1, <1>4, <1>6, <2>2
  <2>5. l >= 1 => \A d \in Db : Level(c, d) >= 1 => Level(r, d) = 1
    BY <1>1, <1>4, <2>2
  <2>. HIDE DEF r
  <2>. QED BY <1>8, <2>1, <2>2, <2>3, <2>4, <2>5
<1>. QED BY <1>7, <1>8

\* What closing the statement transactions of the statement q relies on.
HasStatement(q) ==
    /\ q.readOnly \in BOOLEAN
    /\ q.nFkConstraint \in Int /\ q.nStmtDefCons \in Int
    /\ q.stmtTransMask \in SUBSET Db

LEMMA CloseLevels ==
  ASSUME NEW c \in Conn, NEW q, HasStatement(q), NEW undo \in BOOLEAN, NEW bad,
         \A d \in q.stmtTransMask : Level(c, d) >= 2
  PROVE  /\ CloseStatement(c, q, undo, bad) \in Conn
         /\ bad \cap q.stmtTransMask = {} =>
              /\ CloseStatement(c, q, undo, bad).pSavepoint = c.pSavepoint
              /\ \A d \in Db : Level(CloseStatement(c, q, undo, bad), d) =
                                 IF d \in q.stmtTransMask THEN Level(c, d) - 1
                                 ELSE Level(c, d)
         /\ bad \cap q.stmtTransMask # {} =>
              /\ CloseStatement(c, q, undo, bad).pSavepoint = <<>>
              /\ \A d \in Db : /\ Level(CloseStatement(c, q, undo, bad), d) \in 0..1
                               /\ Level(c, d) >= 1 =>
                                    Level(CloseStatement(c, q, undo, bad), d) = 1
<1>. DEFINE Top(d) == c.store[d].iTransLevel
            Closed(d) == KvCommit(IF undo THEN KvRollback(c.store[d], Top(d))
                                  ELSE c.store[d], Top(d) - 1)
            failed == bad \cap q.stmtTransMask
            done == {d \in q.stmtTransMask : \A f \in failed : d < f}
            stores == [d \in Db |-> IF d \in done THEN Closed(d) ELSE c.store[d]]
            cons == IF undo THEN q.nStmtDefCons ELSE c.nDeferredCons
            c1 == [c EXCEPT !.store = stores, !.nDeferredCons = cons]
<1>1. 1 \in Levels /\ MaxLevel \in Nat
  BY DEF Levels, MaxLevel
<1>2. \A d \in Db : Level(c, d) = Top(d) /\ Top(d) \in Levels /\ Top(d) \in Nat
  BY ConnFields, LevelsAreNat DEF Level
<1>3. \A d \in done : Top(d) - 1 \in Levels /\ Top(d) - 1 \in Nat
  <2>. TAKE d \in done
  <2>1. d \in Db /\ Level(c, d) >= 2
    BY DEF HasStatement
  <2>. QED BY <1>1, <1>2, <2>1 DEF Levels
<1>4. \A d \in done : Closed(d) \in Store /\ Closed(d).iTransLevel = Top(d) - 1
  <2>. TAKE d \in done
  <2>. DEFINE t == IF undo THEN KvRollback(c.store[d], Top(d)) ELSE c.store[d]
  <2>1. d \in Db
    BY DEF HasStatement
  <2>2. t \in Store
    BY <2>1, <1>2, ConnFields, StoreRollback
  <2>. HIDE DEF t
  <2>3. KvCommit(t, Top(d) - 1) \in Store
          /\ KvCommit(t, Top(d) - 1).iTransLevel = Top(d) - 1
    BY <2>2, <1>3, StoreCommit
  <2>. QED BY <2>3 DEF t
<1>5. stores \in [Db -> Store]
  <2>. HIDE DEF done, Closed
  <2>. QED BY <1>4, ConnFields
<1>6. c1 \in Conn /\ c1.store = stores /\ c1.pSavepoint = c.pSavepoint
  <2>. HIDE DEF stores
  <2>1. cons \in Int
    BY DEF Conn, HasStatement
  <2>. HIDE DEF cons
  <2>. QED BY <1>5, <2>1 DEF Conn
<1>7. \A d \in Db : Level(c1, d) = IF d \in done THEN Top(d) - 1 ELSE Top(d)
  <2>1. \A d \in Db : stores[d].iTransLevel = IF d \in done THEN Top(d) - 1 ELSE Top(d)
    <3>. HIDE DEF done, Closed
    <3>. QED BY <1>4
  <2>. HIDE DEF stores, c1, done
  <2>. QED BY <1>6, <2>1 DEF Level
<1>8. CloseStatement(c, q, undo, bad) = IF failed = {} THEN c1 ELSE VdbeRollback(c1, 1)
  BY DEF CloseStatement
<1>9. CASE failed = {}
  <2>1. done = q.stmtTransMask
    BY <1>9
  <2>. HIDE DEF c1, done, stores, Top
  <2>. QED BY <1>2, <1>6, <1>7, <1>8, <1>9, <2>1
<1>10. CASE failed # {}
  <2>. DEFINE r == VdbeRollback(c1, 1)
  <2>. HIDE DEF c1, done, stores, Top
  <2>1. CloseStatement(c, q, undo, bad) = r
    BY <1>8, <1>10
  <2>2. /\ r \in Conn /\ Len(r.pSavepoint) = LeastLen(c1, 1)
        /\ \A d \in Db : Level(r, d) = IF Level(c1, d) >= 1 THEN 1 ELSE Level(c1, d)
    BY <1>1, <1>6, RollbackLevels
  <2>3. r.pSavepoint = <<>>
    BY <1>6, <2>2, ConnFields DEF LeastLen
  <2>4. \A d \in done : Level(c, d) >= 2
    BY DEF done
  <2>5. \A d \in Db : Level(r, d) \in 0..1 /\ (Level(c, d) >= 1 => Level(r, d) = 1)
    BY <1>2, <1>7, <2>2, <2>4
  <2>. HIDE DEF r
  <2>. QED BY <1>10, <2>1, <2>2, <2>3, <2>5
<1>. QED BY <1>9, <1>10

\* The levels a statement may leave to sqlite4VdbeHalt.
HaltIsDue(c, q, rc, others, writers) ==
    /\ c \in Conn /\ Len(c.pSavepoint) <= MaxSavepoint
    /\ HasStatement(q) /\ rc \in Results /\ others \in Nat
    /\ writers = IF q.readOnly THEN 0 ELSE 1
    /\ \A d \in q.stmtTransMask : Level(c, d) \in 3..(Len(c.pSavepoint) + 2)
    /\ c.pSavepoint # <<>> =>
         \A d \in Db \ q.stmtTransMask : Level(c, d) <= Len(c.pSavepoint) + 1

LEMMA HaltLevels ==
  ASSUME NEW c, NEW q, NEW rc, NEW others, NEW writers, NEW bad,
         HaltIsDue(c, q, rc, others, writers)
  PROVE  LET h == VdbeHalt(c, q, rc, others, writers, bad)
         IN /\ h.db \in Conn /\ h.rc \in Results
            /\ Len(h.db.pSavepoint) <= MaxSavepoint
            /\ \A d \in Db :
                 /\ Level(h.db, d) <= Len(h.db.pSavepoint) + 1
                 /\ others # 0 /\ Level(c, d) >= 1 => Level(h.db, d) >= 1
                 /\ others = 0 /\ h.db.pSavepoint = <<>> => Level(h.db, d) = 0
<1>. DEFINE fkNow == rc \in {"ok", "fail"} /\ q.nFkConstraint > 0
            rc1 == IF fkNow THEN "abort" ELSE rc
            whole == rc1 = "rollback"
                       \/ (writers = (IF q.readOnly THEN 0 ELSE 1) /\ c.pSavepoint = <<>>)
            fkEnd == whole /\ rc1 \in {"ok", "fail"} /\ c.nDeferredCons > 0
            rc2 == IF fkEnd THEN "abort" ELSE rc1
            commits == rc2 \in {"ok", "fail"}
            undo == ~commits
            failed == commits /\ bad \cap (IF whole THEN Above(c, 1)
                                           ELSE q.stmtTransMask) # {}
            ended == IF commits THEN VdbeCommit(c, 1, bad) ELSE VdbeRollback(c, 1)
            c1 == IF whole THEN [ended EXCEPT !.nDeferredCons = 0]
                  ELSE IF q.stmtTransMask # {}
                  THEN CloseStatement(c, q, undo, bad)
                  ELSE c
            last == c1.pSavepoint = <<>> /\ others = 0
            h == VdbeHalt(c, q, rc, others, writers, bad)
<1>1. /\ h.db = IF last THEN VdbeRollback(c1, 0) ELSE c1
      /\ h.rc = IF failed /\ whole THEN "error" ELSE rc2
  BY DEF VdbeHalt
<1>2. h.rc \in Results
  BY <1>1 DEF HaltIsDue, Results
<1>3. /\ c \in Conn /\ HasStatement(q) /\ others \in Nat
      /\ Len(c.pSavepoint) \in Nat /\ Len(c.pSavepoint) <= MaxSavepoint
      /\ \A d \in Db : Level(c, d) \in Nat
      /\ 0 \in Levels /\ 1 \in Levels
  BY ConnFields, LevelsAreNat DEF HaltIsDue, Levels, MaxLevel
<1>4. c.pSavepoint = <<>> => whole
  BY DEF HaltIsDue
\* After the transaction or the statement transaction is ended.
<1>5. /\ c1 \in Conn /\ Len(c1.pSavepoint) <= Len(c.pSavepoint)
      /\ \A d \in Db : /\ Level(c1, d) <= Len(c1.pSavepoint) + 1
                       /\ Level(c, d) >= 1 => Level(c1, d) >= 1
  <2>1. CASE whole
    <3>1. /\ ended \in Conn /\ ended.pSavepoint = <<>>
          /\ \A d \in Db : Level(ended, d) <= 1
                             /\ (Level(c, d) >= 1 => Level(ended, d) = 1)
      <4>1. CASE commits
        <5>. DEFINE e == VdbeCommit(c, 1, bad)
        <5>1. ended = e
          BY <4>1
        <5>2. /\ e \in Conn
              /\ bad \cap Above(c, 1) = {} =>
                   /\ Len(e.pSavepoint) = LeastLen(c, 1)
                   /\ \A d \in Db : Level(e, d) = IF Level(c, d) > 1 THEN 1
                                                  ELSE Level(c, d)
              /\ bad \cap Above(c, 1) # {} =>
                   /\ e.pSavepoint = <<>>
                   /\ \A d \in Db : Level(e, d) \in 0..1
                   /\ \A d \in Db : Level(c, d) >= 1 => Level(e, d) = 1
          BY <1>3, CommitLevels
        <5>. HIDE DEF e
        <5>. QED BY <1>3, <5>1, <5>2, ConnFields DEF LeastLen
      <4>2. CASE ~commits
        <5>. DEFINE e == VdbeRollback(c, 1)
        <5>1. ended = e
          BY <4>2
        <5>2. /\ e \in Conn /\ Len(e.pSavepoint) = LeastLen(c, 1)
              /\ \A d \in Db : Level(e, d) = IF Level(c, d) >= 1 THEN 1 ELSE Level(c, d)
          BY <1>3, RollbackLevels
        <5>. HIDE DEF e
        <5>. QED BY <1>3, <5>1, <5>2, ConnFields DEF LeastLen
      <4>. QED BY <4>1, <4>2
    <3>2. c1 = [ended EXCEPT !.nDeferredCons = 0]
      BY <2>1
    <3>. HIDE DEF ended, c1
    <3>3. c1 \in Conn /\ c1.pSavepoint = <<>> /\ c1.store = ended.store
      BY <3>1, <3>2 DEF Conn
    <3>4. \A d \in Db : Level(c1, d) = Level(ended, d)
      BY <3>3 DEF Level
    <3>5. Len(c1.pSavepoint) = 0
      BY <3>3, ConnFields
    <3>. QED BY <1>3, <3>1, <3>3, <3>4, <3>5
  <2>2. CASE ~whole /\ q.stmtTransMask # {}
    <3>. DEFINE e == CloseStatement(c, q, undo, bad)
    <3>1. c1 = e
      BY <2>2
    <3>2. /\ e \in Conn
          /\ bad \cap q.stmtTransMask = {} =>
               /\ e.pSavepoint = c.pSavepoint
               /\ \A d \in Db : Level(e, d) = IF d \in q.stmtTransMask
                                              THEN Level(c, d) - 1 ELSE Level(c, d)
          /\ bad \cap q.stmtTransMask # {} =>
               /\ e.pSavepoint = <<>>
               /\ \A d \in Db : /\ Level(e, d) \in 0..1
                                /\ Level(c, d) >= 1 => Level(e, d) = 1
      <4>1. \A d \in q.stmtTransMask : Level(c, d) >= 2
        BY <1>3 DEF HaltIsDue
      <4>2. undo \in BOOLEAN
        <5>. HIDE DEF commits
        <5>. QED OBVIOUS
      <4>. HIDE DEF undo
      <4>. QED BY <1>3, <4>1, <4>2, CloseLevels
    <3>. HIDE DEF e, c1, whole
    <3>3. CASE bad \cap q.stmtTransMask = {}
      <4>1. c.pSavepoint # <<>>
        BY <1>4, <2>2
      <4>2. \A d \in Db : Level(e, d) <= Len(c.pSavepoint) + 1
                            /\ (Level(c, d) >= 1 => Level(e, d) >= 1)
        BY <1>3, <3>2, <3>3, <4>1 DEF HaltIsDue
      <4>. QED BY <1>3, <3>1, <3>2, <3>3, <4>2
    <3>4. CASE bad \cap q.stmtTransMask # {}
      <4>1. Len(e.pSavepoint) = 0
        BY <3>2, <3>4, ConnFields
      <4>. QED BY <1>3, <3>1, <3>2, <3>4, <4>1
    <3>. QED BY <3>3, <3>4
  <2>3. CASE ~whole /\ q.stmtTransMask = {}
    <3>1. c1 = c
      BY <2>3
    <3>. HIDE DEF c1, whole
    <3>. QED BY <1>3, <1>4, <2>3, <3>1 DEF HaltIsDue
  <2>. HIDE DEF c1, whole
  <2>. QED BY <2>1, <2>2, <2>3
<1>. HIDE DEF h, c1
<1>6. CASE last
  <2>1. /\ h.db = VdbeRollback(c1, 0) /\ c1.pSavepoint = <<>> /\ others = 0
    BY <1>1, <1>6
  <2>2. /\ h.db \in Conn /\ Len(h.db.pSavepoint) = LeastLen(c1, 0)
        /\ \A d \in Db : Level(h.db, d) = IF Level(c1, d) >= 0 THEN 0 ELSE Level(c1, d)
    BY <1>3, <1>5, <2>1, RollbackLevels
  <2>3. Len(h.db.pSavepoint) = 0
    <3>1. Len(c1.pSavepoint) = 0
      BY <1>5, <2>1, ConnFields
    <3>. QED BY <2>2, <3>1 DEF LeastLen
  <2>4. \A d \in Db : Level(c1, d) \in Nat
    BY <1>5, ConnFields, LevelsAreNat
  <2>. QED BY <1>2, <1>3, <2>1, <2>2, <2>3, <2>4 DEF h
<1>7. CASE ~last
  <2>1. h.db = c1
    BY <1>1, <1>7
  <2>2. Len(c1.pSavepoint) \in Nat /\ \A d \in Db : Level(c1, d) \in Nat
    BY <1>5, ConnFields, LevelsAreNat
  <2>. QED BY <1>2, <1>3, <1>5, <1>7, <2>1, <2>2 DEF h
<1>. QED BY <1>6, <1>7

-----------------------------------------------------------------------------
(* The levels follow the savepoints.                                       *)

\* All that LInv says when no statement writes.
Settled(c, rd) ==
    /\ c \in Conn /\ Len(c.pSavepoint) <= MaxSavepoint
    /\ \A d \in Db :
         /\ Level(c, d) <= Len(c.pSavepoint) + 1
         /\ (\E r \in Reader : d \in rd[r]) => Level(c, d) >= 1
         /\ (\A r \in Reader : rd[r] = {}) /\ c.pSavepoint = <<>> => Level(c, d) = 0

LEMMA SettledIsInv ==
  ASSUME Typed, ~Running
  PROVE  LInv <=> Settled(db, reader)
<1>1. activeVdbeCnt = 0 <=> \A r \in Reader : reader[r] = {}
  BY ActiveCount, ReadersAreFinite
<1>. QED BY <1>1 DEF LInv, Settled, MasksAreDone, LevelsFollowSavepoints, Level, Typed,
                     TopLevel

LEMMA SettledIsInvNext ==
  ASSUME Typed', ~Running'
  PROVE  LInv' <=> Settled(db', reader')
<1>1. activeVdbeCnt' = 0 <=> \A r \in Reader : reader'[r] = {}
  BY ActiveCountNext, ReadersAreFinite
<1>. QED BY <1>1 DEF LInv, Settled, MasksAreDone, LevelsFollowSavepoints, Level, Typed,
                     TopLevel

LEMMA InitLInv == Init => LInv
<1>. SUFFICES ASSUME Init PROVE LInv
  OBVIOUS
<1>1. NewStore \in Store /\ NewStore.iTransLevel = 0
  BY DEF NewStore, Store, Levels, MaxLevel
<1>2. db \in Conn /\ db.pSavepoint = <<>> /\ \A d \in Db : db.store[d] = NewStore
  BY <1>1 DEF Init, Conn
<1>3. Len(db.pSavepoint) = 0
  BY <1>2, ConnFields
<1>5. Typed /\ ~Running
  <2>1. p = NoStmt /\ ~p.runs /\ result \in Results /\ fault \in BOOLEAN
          /\ reader \in [Reader -> SUBSET Db]
    BY DEF Init, NoStmt, Results
  <2>. QED BY <1>2, <1>3, <2>1 DEF Typed, Running
<1>4. Settled(db, reader)
  BY <1>1, <1>2, <1>3, <1>5 DEF Init, Settled, Level
<1>. QED BY <1>4, <1>5, SettledIsInv

LEMMA NotRunning == ASSUME Typed, ~Running PROVE p = NoStmt
BY DEF Typed, Running, Statement

\* A command that leaves c to the halt of its program.
LEMMA CommandLevels ==
  ASSUME LInv, Idle, NEW c, NEW rc \in Results, NEW bad, CommandEnd(c, rc, bad),
         c \in Conn, Len(c.pSavepoint) <= MaxSavepoint,
         \A d \in Db : /\ Level(c, d) <= Len(c.pSavepoint) + 1
                       /\ Level(db, d) >= 1 => Level(c, d) >= 1
  PROVE  LInv'
<1>. DEFINE others == activeVdbeCnt
            writers == writeVdbeCnt
            h == VdbeHalt(c, ReadOnly, rc, others, writers, bad)
<1>1. ~Running /\ Typed /\ Settled(db, reader)
  BY SettledIsInv DEF Idle, LInv
<1>2. others \in Nat /\ writers = 0 /\ (others = 0 <=> \A r \in Reader : reader[r] = {})
  BY <1>1, ActiveCount, ReadersAreFinite DEF writeVdbeCnt
<1>3. HaltIsDue(c, ReadOnly, rc, others, writers)
  BY <1>2 DEF HaltIsDue, HasStatement, ReadOnly
<1>4. db' = h.db /\ result' = h.rc /\ reader' = reader /\ p' = p /\ fault' = fault
  BY DEF CommandEnd
<1>. HIDE DEF others, writers
<1>5. /\ h.db \in Conn /\ h.rc \in Results
      /\ Len(h.db.pSavepoint) <= MaxSavepoint
      /\ \A d \in Db :
           /\ Level(h.db, d) <= Len(h.db.pSavepoint) + 1
           /\ others # 0 /\ Level(c, d) >= 1 => Level(h.db, d) >= 1
           /\ others = 0 /\ h.db.pSavepoint = <<>> => Level(h.db, d) = 0
  BY <1>3, HaltLevels
<1>. HIDE DEF h
<1>6. Typed' /\ ~Running'
  BY <1>1, <1>4, <1>5 DEF Typed, Running
<1>7. Settled(db', reader')
  <2>1. \A d \in Db : (\E r \in Reader : d \in reader[r]) => Level(h.db, d) >= 1
    <3>. TAKE d \in Db
    <3>. HAVE \E r \in Reader : d \in reader[r]
    <3>1. Level(db, d) >= 1 /\ others # 0
      BY <1>1, <1>2 DEF Settled
    <3>. QED BY <1>5, <3>1
  <2>. QED BY <1>2, <1>4, <1>5, <2>1 DEF Settled
<1>. QED BY <1>6, <1>7, SettledIsInvNext

LEMMA SelectBeginLevels ==
  ASSUME LInv, NEW r \in Reader, NEW ds \in SUBSET Db, SelectBegin(r, ds)
  PROVE  LInv'
<1>. DEFINE stores == [d \in Db |-> IF d \in ds /\ db.store[d].iTransLevel = 0
                                    THEN KvBegin(db.store[d], 1) ELSE db.store[d]]
<1>1. ~Running /\ Typed /\ Settled(db, reader)
  BY SettledIsInv DEF SelectBegin, Idle, LInv
<1>2. 1 \in Levels
  BY DEF Levels, MaxLevel
<1>3. stores \in [Db -> Store]
        /\ \A d \in Db : stores[d].iTransLevel =
             IF d \in ds /\ Level(db, d) = 0 THEN 1 ELSE Level(db, d)
  BY <1>1, <1>2, ConnFields, StoreBegin DEF Settled, Level
<1>4. db' = [db EXCEPT !.store = stores]
  BY DEF SelectBegin
<1>. HIDE DEF stores
<1>5. db' \in Conn /\ db'.store = stores /\ db'.pSavepoint = db.pSavepoint
  BY <1>1, <1>3, <1>4 DEF Settled, Conn
<1>6. \A d \in Db : Level(db', d) = IF d \in ds /\ Level(db, d) = 0 THEN 1 ELSE Level(db, d)
  BY <1>3, <1>5 DEF Level
<1>7. Typed' /\ ~Running'
  BY <1>1, <1>5 DEF Typed, SelectBegin, Running
<1>8. Settled(db', reader')
  <2>1. Len(db.pSavepoint) \in Nat /\ \A d \in Db : Level(db, d) \in Nat
    BY <1>1, ConnFields, LevelsAreNat DEF Settled
  <2>2. /\ reader' = [reader EXCEPT ![r] = ds] /\ ds # {}
        /\ reader \in [Reader -> SUBSET Db]
    BY <1>1 DEF SelectBegin, Typed
  <2>3. \A d \in Db : (\E s \in Reader : d \in reader'[s]) => Level(db', d) >= 1
    <3>. SUFFICES ASSUME NEW d \in Db, NEW s \in Reader, d \in reader'[s]
                  PROVE  Level(db', d) >= 1
      OBVIOUS
    <3>1. CASE s = r
      BY <1>6, <2>1, <2>2, <3>1
    <3>2. CASE s # r
      <4>1. d \in reader[s]
        BY <2>2, <3>2
      <4>2. Level(db, d) >= 1
        BY <1>1, <4>1 DEF Settled
      <4>. QED BY <1>6, <2>1, <4>2
    <3>. QED BY <3>1, <3>2
  <2>4. reader'[r] # {}
    BY <2>2
  <2>. QED BY <1>1, <1>5, <1>6, <2>1, <2>3, <2>4 DEF Settled
<1>. QED BY <1>7, <1>8, SettledIsInvNext

LEMMA SelectEndLevels ==
  ASSUME LInv, NEW r \in Reader, NEW rc \in Results, NEW bad, SelectEnd(r, rc, bad)
  PROVE  LInv'
<1>. DEFINE others == activeVdbeCnt - 1
            h == VdbeHalt(db, ReadOnly, rc, others, writeVdbeCnt, bad)
<1>1. ~Running /\ Typed /\ Settled(db, reader) /\ reader[r] # {}
  BY SettledIsInv DEF SelectEnd, Idle, LInv
<1>2. /\ db' = h.db /\ result' = result /\ p' = p /\ fault' = fault
      /\ reader' = [reader EXCEPT ![r] = {}] /\ reader \in [Reader -> SUBSET Db]
  BY <1>1 DEF SelectEnd, Typed
<1>3. Active(reader') = Active(reader) \ {r} /\ r \in Active(reader)
  BY <1>1, <1>2 DEF Active
<1>4. others = Cardinality(Active(reader')) /\ others \in Nat
  <2>1. others = Cardinality(Active(reader)) - 1
    BY <1>1, ActiveCount, ReadersAreFinite
  <2>2. Cardinality(Active(reader')) = Cardinality(Active(reader)) - 1
    BY <1>3, ReadersAreFinite, FS_RemoveElement
  <2>. QED BY <2>1, <2>2, ReadersAreFinite
<1>5. others = 0 <=> \A s \in Reader : reader'[s] = {}
  BY <1>4, ReadersAreFinite
<1>6. HaltIsDue(db, ReadOnly, rc, others, writeVdbeCnt)
  <2>. HIDE DEF others
  <2>. QED BY <1>1, <1>4 DEF HaltIsDue, HasStatement, ReadOnly, writeVdbeCnt, Settled
<1>. HIDE DEF others
<1>7. /\ h.db \in Conn
      /\ Len(h.db.pSavepoint) <= MaxSavepoint
      /\ \A d \in Db :
           /\ Level(h.db, d) <= Len(h.db.pSavepoint) + 1
           /\ others # 0 /\ Level(db, d) >= 1 => Level(h.db, d) >= 1
           /\ others = 0 /\ h.db.pSavepoint = <<>> => Level(h.db, d) = 0
  BY <1>6, HaltLevels
<1>. HIDE DEF h
<1>8. Typed' /\ ~Running'
  BY <1>1, <1>2, <1>7 DEF Typed, Running
<1>9. Settled(db', reader')
  <2>1. \A d \in Db : (\E s \in Reader : d \in reader'[s]) => Level(h.db, d) >= 1
    <3>. SUFFICES ASSUME NEW d \in Db, NEW s \in Reader, d \in reader'[s]
                  PROVE  Level(h.db, d) >= 1
      OBVIOUS
    <3>1. d \in reader[s] /\ others # 0
      BY <1>2, <1>5
    <3>2. Level(db, d) >= 1
      BY <1>1, <3>1 DEF Settled
    <3>. QED BY <1>7, <3>1, <3>2
  <2>. QED BY <1>2, <1>5, <1>7, <2>1 DEF Settled
<1>. QED BY <1>8, <1>9, SettledIsInvNext

LEMMA SavepointBeginLevels ==
  ASSUME LInv, NEW n \in Names, NEW bad, SavepointBegin(n, bad)
  PROVE  LInv'
<1>. DEFINE new == [zName |-> n, nDeferredCons |-> db.nDeferredCons]
            c == [db EXCEPT !.pSavepoint = Append(@, new)]
<1>1. ~Running /\ Typed /\ Settled(db, reader) /\ Idle
  BY SettledIsInv DEF SavepointBegin, Idle, LInv
<1>2. Len(db.pSavepoint) \in Nat /\ \A d \in Db : Level(db, d) \in Nat
  BY <1>1, ConnFields, LevelsAreNat DEF Settled
<1>3. CASE n = NoName /\ db.pSavepoint # <<>>
  <2>1. CommandEnd(db, "error", bad)
    BY <1>3 DEF SavepointBegin
  <2>. QED BY <1>1, <1>2, <2>1, CommandLevels DEF Settled, Results
<1>4. CASE ~(n = NoName /\ db.pSavepoint # <<>>)
  <2>1. CommandEnd(c, "ok", bad) /\ Len(db.pSavepoint) < MaxSavepoint
    BY <1>4 DEF SavepointBegin
  <2>2. new \in Savepoint
    BY <1>1 DEF Savepoint, Settled, Conn
  <2>. HIDE DEF new
  <2>3. /\ c \in Conn /\ Len(c.pSavepoint) = Len(db.pSavepoint) + 1
        /\ c.store = db.store
    <3>. DEFINE s == Append(db.pSavepoint, new)
    <3>1. db \in Conn /\ db.pSavepoint \in Seq(Savepoint)
      BY <1>1 DEF Settled, Conn
    <3>2. s \in Seq(Savepoint) /\ Len(s) = Len(db.pSavepoint) + 1
      BY <2>2, <3>1, AppendProperties
    <3>. HIDE DEF s
    <3>3. [db EXCEPT !.pSavepoint = s] \in Conn
      BY <3>1, <3>2 DEF Conn
    <3>. QED BY <3>1, <3>2, <3>3 DEF s, Conn
  <2>. HIDE DEF c
  <2>4. \A d \in Db : Level(c, d) = Level(db, d)
    BY <2>3 DEF Level
  <2>5. Len(c.pSavepoint) <= MaxSavepoint
    BY <1>2, <2>1, <2>3
  <2>6. \A d \in Db : /\ Level(c, d) <= Len(c.pSavepoint) + 1
                      /\ Level(db, d) >= 1 => Level(c, d) >= 1
    BY <1>1, <1>2, <2>3, <2>4 DEF Settled
  <2>. QED BY <1>1, <2>1, <2>3, <2>5, <2>6, CommandLevels DEF Results
<1>. QED BY <1>3, <1>4

LEMMA SavepointReleaseLevels ==
  ASSUME LInv, NEW n \in Names, NEW bad, SavepointRelease(n, bad)
  PROVE  LInv'
<1>. DEFINE i == Meant(db, n)
            c == VdbeCommit(db, i, bad)
            rc == IF bad \cap Above(db, i) = {} THEN "ok" ELSE "error"
<1>1. ~Running /\ Typed /\ Settled(db, reader) /\ Idle
  BY SettledIsInv DEF SavepointRelease, Idle, LInv
<1>2. Len(db.pSavepoint) \in Nat /\ \A d \in Db : Level(db, d) \in Nat
  BY <1>1, ConnFields, LevelsAreNat DEF Settled
<1>3. i \in 0..Len(db.pSavepoint) /\ i \in Levels
  BY <1>1, <1>2, MeantIsSavepoint DEF Settled, Levels, MaxLevel
<1>4. CASE i = 0 \/ (i = 1 /\ db.nDeferredCons > 0)
  <2>1. CommandEnd(db, "error", bad)
    BY <1>4 DEF SavepointRelease
  <2>. QED BY <1>1, <1>2, <2>1, CommandLevels DEF Settled, Results
<1>5. CASE ~(i = 0 \/ (i = 1 /\ db.nDeferredCons > 0))
  <2>1. CommandEnd(c, rc, bad) /\ rc \in Results
    BY <1>5 DEF SavepointRelease, Results
  <2>. HIDE DEF rc, i
  <2>2. /\ c \in Conn
        /\ bad \cap Above(db, i) = {} =>
             /\ Len(c.pSavepoint) = LeastLen(db, i)
             /\ \A d \in Db : Level(c, d) = IF Level(db, d) > i THEN i ELSE Level(db, d)
        /\ bad \cap Above(db, i) # {} =>
             /\ c.pSavepoint = <<>>
             /\ \A d \in Db : Level(c, d) \in 0..1
             /\ i >= 1 => \A d \in Db : Level(db, d) >= 1 => Level(c, d) = 1
    BY <1>1, <1>3, CommitLevels DEF Settled
  <2>. HIDE DEF c
  <2>3. /\ Len(c.pSavepoint) <= MaxSavepoint
        /\ \A d \in Db : /\ Level(c, d) <= Len(c.pSavepoint) + 1
                         /\ Level(db, d) >= 1 => Level(c, d) >= 1
    <3>1. CASE bad \cap Above(db, i) = {}
      <4>1. Len(c.pSavepoint) = i - 1
        BY <1>2, <1>3, <1>5, <2>2, <3>1 DEF LeastLen
      <4>. QED BY <1>1, <1>2, <1>3, <1>5, <2>2, <3>1, <4>1 DEF Settled
    <3>2. CASE bad \cap Above(db, i) # {}
      <4>1. Len(c.pSavepoint) = 0
        BY <2>2, <3>2, ConnFields
      <4>. QED BY <1>1, <1>2, <1>3, <1>5, <2>2, <3>2, <4>1 DEF Settled
    <3>. QED BY <3>1, <3>2
  <2>. QED BY <1>1, <2>1, <2>2, <2>3, CommandLevels
<1>. QED BY <1>4, <1>5

LEMMA SavepointRollbackLevels ==
  ASSUME LInv, NEW n \in Names, NEW bad, SavepointRollback(n, bad)
  PROVE  LInv'
<1>. DEFINE i == Meant(db, n)
            l == IF n = NoName THEN i ELSE i + 1
            c == VdbeRollback(db, l)
<1>1. ~Running /\ Typed /\ Settled(db, reader) /\ Idle
  BY SettledIsInv DEF SavepointRollback, Idle, LInv
<1>2. Len(db.pSavepoint) \in Nat /\ \A d \in Db : Level(db, d) \in Nat
  BY <1>1, ConnFields, LevelsAreNat DEF Settled
<1>3. i \in 0..Len(db.pSavepoint)
  BY <1>1, MeantIsSavepoint DEF Settled
<1>4. CASE i = 0
  <2>1. CommandEnd(db, "error", bad)
    BY <1>4 DEF SavepointRollback
  <2>. QED BY <1>1, <1>2, <2>1, CommandLevels DEF Settled, Results
<1>5. CASE i # 0
  <2>1. CommandEnd(c, "ok", bad)
    BY <1>5 DEF SavepointRollback
  <2>2. l \in 1..(Len(db.pSavepoint) + 1) /\ l \in Levels
    BY <1>1, <1>2, <1>3, <1>5 DEF Settled, Levels, MaxLevel
  <2>. HIDE DEF l
  <2>3. /\ c \in Conn /\ Len(c.pSavepoint) = LeastLen(db, l)
        /\ \A d \in Db : Level(c, d) = IF Level(db, d) >= l THEN l ELSE Level(db, d)
    BY <1>1, <2>2, RollbackLevels DEF Settled
  <2>. HIDE DEF c
  <2>4. Len(c.pSavepoint) = l - 1
    BY <1>2, <2>2, <2>3 DEF LeastLen
  <2>5. /\ Len(c.pSavepoint) <= MaxSavepoint
        /\ \A d \in Db : /\ Level(c, d) <= Len(c.pSavepoint) + 1
                         /\ Level(db, d) >= 1 => Level(c, d) >= 1
    BY <1>1, <1>2, <2>2, <2>3, <2>4 DEF Settled
  <2>. QED BY <1>1, <2>1, <2>3, <2>5, CommandLevels DEF Results
<1>. QED BY <1>4, <1>5

\* What LInv says when a statement writes.
LEMMA RunningIsInv ==
  ASSUME LInv, Running
  PROVE  /\ Typed /\ p \in Statement /\ HasStatement(p)
         /\ Len(db.pSavepoint) \in Nat /\ Len(db.pSavepoint) <= MaxSavepoint
         /\ p.todo \subseteq p.dbs /\ p.stmtTransMask \subseteq p.dbs \ p.todo
         /\ \A d \in Db :
              /\ Level(db, d) \in Nat
              /\ d \notin p.dbs \ p.todo => Level(db, d) <= Len(db.pSavepoint) + 1
              /\ d \in p.dbs \ p.todo /\ d \notin p.stmtTransMask =>
                   Level(db, d) <= (IF Len(db.pSavepoint) = 0 THEN 2
                                    ELSE Len(db.pSavepoint) + 1)
              /\ d \in p.stmtTransMask => Level(db, d) \in 3..(Len(db.pSavepoint) + 2)
              /\ d \in p.dbs \ p.todo /\ ~p.failed => Level(db, d) = TopLevel(d)
              /\ (\E r \in Reader : d \in reader[r]) => Level(db, d) >= 1
<1>1. Typed /\ p \in Statement
  BY DEF LInv, Typed, Running, NoStmt
<1>2. HasStatement(p)
  BY <1>1 DEF Statement, HasStatement
<1>3. /\ Len(db.pSavepoint) \in Nat /\ Len(db.pSavepoint) <= MaxSavepoint
      /\ \A d \in Db : Level(db, d) \in Nat
  BY <1>1, ConnFields, LevelsAreNat DEF Typed
<1>4. p.todo \subseteq p.dbs /\ p.stmtTransMask \subseteq p.dbs \ p.todo
  BY DEF LInv, MasksAreDone
<1>5. Max({2, Len(db.pSavepoint) + 1}) = IF Len(db.pSavepoint) = 0 THEN 2
                                         ELSE Len(db.pSavepoint) + 1
  BY <1>3, MaxOfTwo
<1>6. \A d \in Db :
        /\ Level(db, d) <= TopLevel(d)
        /\ d \in p.dbs \ p.todo /\ ~p.failed => Level(db, d) = TopLevel(d)
        /\ d \in p.stmtTransMask => Level(db, d) > 2
        /\ (\E r \in Reader : d \in reader[r]) => Level(db, d) >= 1
  BY DEF LInv, LevelsFollowSavepoints, Level
<1>7. \A d \in Db : TopLevel(d) =
        IF d \notin p.dbs \ p.todo THEN Len(db.pSavepoint) + 1
        ELSE IF d \in p.stmtTransMask THEN Len(db.pSavepoint) + 2
        ELSE IF Len(db.pSavepoint) = 0 THEN 2 ELSE Len(db.pSavepoint) + 1
  BY <1>5 DEF TopLevel
<1>8. ASSUME NEW d \in Db
      PROVE  /\ d \notin p.dbs \ p.todo => Level(db, d) <= Len(db.pSavepoint) + 1
             /\ d \in p.dbs \ p.todo /\ d \notin p.stmtTransMask =>
                  Level(db, d) <= (IF Len(db.pSavepoint) = 0 THEN 2
                                   ELSE Len(db.pSavepoint) + 1)
             /\ d \in p.stmtTransMask => Level(db, d) \in 3..(Len(db.pSavepoint) + 2)
  <2>1. d \in p.stmtTransMask => d \in p.dbs \ p.todo
    BY <1>4
  <2>. QED BY <1>3, <1>6, <1>7, <2>1
<1>. QED BY <1>1, <1>2, <1>3, <1>4, <1>6, <1>8

LEMMA WriteBeginLevels ==
  ASSUME LInv, NEW need \in BOOLEAN, NEW ds \in SUBSET Db, WriteBegin(need, ds)
  PROVE  LInv'
<1>. DEFINE start == [content |-> [d \in Db |-> db.store[d].content],
                      cons |-> db.nDeferredCons]
            q == [runs |-> TRUE, readOnly |-> FALSE, needSavepoint |-> need,
                  todo |-> ds, dbs |-> ds, wrote |-> FALSE, failed |-> FALSE,
                  nFkConstraint |-> 0, stmtTransMask |-> {}, nStmtDefCons |-> 0,
                  start |-> start]
<1>1. ~Running /\ Typed /\ Settled(db, reader)
  BY SettledIsInv DEF WriteBegin, Idle, LInv
<1>2. p' = q /\ db' = db /\ reader' = reader /\ result' = result /\ fault' = fault
  BY DEF WriteBegin
<1>3. start \in [content : [Db -> SUBSET Row], cons : Int]
  BY <1>1, ConnFields DEF Settled, Conn, Store
<1>. HIDE DEF start
<1>4. q \in Statement /\ q.runs /\ q.todo = ds /\ q.dbs = ds /\ q.stmtTransMask = {}
  BY <1>3 DEF Statement
<1>. HIDE DEF q
<1>5. Typed' /\ MasksAreDone' /\ Running'
  BY <1>1, <1>2, <1>4 DEF Typed, MasksAreDone, Running
<1>6. activeVdbeCnt' # 0
  BY <1>5, ActiveCountNext, ReadersAreFinite
<1>7. \A d \in Db : TopLevel(d)' = Len(db.pSavepoint) + 1
  BY <1>2, <1>4 DEF TopLevel
<1>8. LevelsFollowSavepoints'
  BY <1>1, <1>2, <1>4, <1>6, <1>7 DEF LevelsFollowSavepoints, Settled, Level
<1>. QED BY <1>5, <1>8 DEF LInv

LEMMA OpTransactionLevels ==
  ASSUME LInv, NEW d \in Db, NEW fails \in {"no", "first", "second"},
         OpTransaction(d, fails)
  PROVE  LInv'
<1>. DEFINE s == db.store[d]
            n == Len(db.pSavepoint)
            iLevel == IF n = 0 THEN 2 ELSE n + 1
            bStmt == db.pSavepoint # <<>> /\ (p.needSavepoint \/ activeVdbeCnt > 1)
            first == IF s.iTransLevel < iLevel THEN KvBegin(s, iLevel) ELSE s
            both == bStmt /\ fails = "no"
            t == IF fails = "first" THEN s
                 ELSE IF both THEN KvBegin(first, first.iTransLevel + 1) ELSE first
            c == [db EXCEPT !.store[d] = t]
            q == [p EXCEPT !.todo = @ \ {d}, !.failed = fails # "no",
                           !.stmtTransMask = IF both THEN @ \cup {d} ELSE @,
                           !.nStmtDefCons = IF bStmt /\ fails # "first"
                                            THEN db.nDeferredCons ELSE @]
<1>1. Running /\ ~p.failed /\ d \in p.todo
  <2>1. p.todo # {} /\ d = Min(p.todo) /\ Running /\ ~p.failed
    BY DEF OpTransaction
  <2>2. p.todo \subseteq Nat
    BY <2>1, RunningIsInv DEF Statement
  <2>3. \E m \in p.todo : \A k \in p.todo : m <= k
    BY <2>1, <2>2, LeastOf
  <2>. QED BY <2>1, <2>3 DEF Min
<1>2. /\ Typed /\ p \in Statement /\ n \in Nat /\ n <= MaxSavepoint
      /\ p.todo \subseteq p.dbs /\ p.stmtTransMask \subseteq p.dbs \ p.todo
      /\ \A e \in Db : Level(db, e) \in Nat
      /\ Level(db, d) <= n + 1
  BY <1>1, RunningIsInv
<1>3. /\ Max({2, n + 1}) = iLevel /\ iLevel \in Levels
      /\ iLevel \in Nat /\ iLevel >= 2 /\ iLevel >= n + 1
      /\ both => fails = "no" /\ n >= 1 /\ iLevel = n + 1 /\ iLevel + 1 \in Levels
  <2>1. n = 0 <=> db.pSavepoint = <<>>
    BY <1>2, ConnFields DEF Typed
  <2>2. Max({2, n + 1}) = IF 2 >= n + 1 THEN 2 ELSE n + 1
    BY <1>2, MaxOfTwo
  <2>. QED BY <1>2, <2>1, <2>2 DEF Levels, MaxLevel
<1>4. db' = c /\ p' = q /\ reader' = reader /\ result' = result
  BY <1>3 DEF OpTransaction
<1>5. fault' \in BOOLEAN
  BY Zenon DEF OpTransaction
<1>6. s \in Store /\ s.iTransLevel = Level(db, d)
  BY <1>2, ConnFields DEF Typed, Level
<1>7. first \in Store /\ first.iTransLevel = iLevel
  BY <1>2, <1>3, <1>6, StoreBegin
<1>8. /\ t \in Store
      /\ t.iTransLevel = IF fails = "first" THEN Level(db, d)
                         ELSE IF both THEN iLevel + 1 ELSE iLevel
  <2>. HIDE DEF first, both
  <2>. QED BY <1>3, <1>6, <1>7, StoreBegin
<1>9. /\ c \in Conn /\ c.pSavepoint = db.pSavepoint
      /\ \A e \in Db : Level(c, e) = IF e = d THEN t.iTransLevel ELSE Level(db, e)
  <2>. HIDE DEF t
  <2>. QED BY <1>2, <1>8 DEF Typed, Conn, Level
<1>10. /\ q \in Statement /\ q.todo = p.todo \ {d} /\ q.dbs = p.dbs
       /\ q.failed = (fails # "no")
       /\ q.stmtTransMask = IF both THEN p.stmtTransMask \cup {d} ELSE p.stmtTransMask
  <2>1. (fails # "no") \in BOOLEAN
    OBVIOUS
  <2>2. (IF bStmt /\ fails # "first" THEN db.nDeferredCons ELSE p.nStmtDefCons) \in Int
    BY <1>2 DEF Typed, Conn, Statement
  <2>. HIDE DEF both, bStmt
  <2>. QED BY <1>1, <1>2, <2>1, <2>2 DEF Statement
<1>. HIDE DEF c, q, t, s, first
<1>11. Typed' /\ MasksAreDone' /\ Running'
  <2>1. Typed'
    BY <1>2, <1>4, <1>5, <1>9, <1>10 DEF Typed
  <2>2. q.stmtTransMask \subseteq q.dbs \ q.todo /\ q.todo \subseteq q.dbs
    BY <1>1, <1>2, <1>10
  <2>3. p'.runs
    BY <1>4, <1>10 DEF Statement
  <2>. QED BY <1>4, <2>1, <2>2, <2>3 DEF MasksAreDone, Running
<1>12. activeVdbeCnt' # 0
  BY <1>11, ActiveCountNext, ReadersAreFinite
<1>13. \A e \in Db : TopLevel(e)' =
         IF e \notin p.dbs \ q.todo THEN n + 1
         ELSE IF e \in q.stmtTransMask THEN n + 2 ELSE iLevel
  BY <1>3, <1>4, <1>9, <1>10, <1>11 DEF TopLevel
<1>14. \A e \in Db : e # d => TopLevel(e)' = TopLevel(e)
  BY <1>1, <1>3, <1>10, <1>13 DEF TopLevel
<1>15. LevelsFollowSavepoints'
  <2>. SUFFICES ASSUME NEW e \in Db
                PROVE  /\ Level(c, e) <= TopLevel(e)'
                       /\ e \in p.dbs \ q.todo /\ ~q.failed => Level(c, e) = TopLevel(e)'
                       /\ e \in q.stmtTransMask => Level(c, e) > 2
                       /\ (\E r \in Reader : e \in reader[r]) => Level(c, e) >= 1
    BY <1>4, <1>10, <1>12 DEF LevelsFollowSavepoints, Level
  <2>1. CASE e # d
    <3>1. Level(c, e) = Level(db, e) /\ TopLevel(e)' = TopLevel(e)
      BY <1>9, <1>14, <2>1
    <3>2. (e \in p.dbs \ q.todo <=> e \in p.dbs \ p.todo)
            /\ (e \in q.stmtTransMask <=> e \in p.stmtTransMask)
      BY <1>10, <2>1
    <3>. QED BY <1>1, <3>1, <3>2 DEF LInv, LevelsFollowSavepoints, Level
  <2>2. CASE e = d
    <3>1. e \in p.dbs \ q.todo /\ e \notin p.stmtTransMask
      BY <1>1, <1>2, <1>10, <2>2
    <3>2. TopLevel(e)' = IF both THEN n + 2 ELSE iLevel
      BY <1>10, <1>13, <2>2, <3>1
    <3>3. Level(c, e) = IF fails = "first" THEN Level(db, d)
                        ELSE IF both THEN iLevel + 1 ELSE iLevel
      BY <1>8, <1>9, <2>2
    <3>4. (\E r \in Reader : e \in reader[r]) => Level(db, d) >= 1
      BY <1>1, <2>2, RunningIsInv
    <3>5. q.stmtTransMask = IF both THEN p.stmtTransMask \cup {d} ELSE p.stmtTransMask
      BY <1>10
    <3>6. q.failed = (fails # "no")
      BY <1>10
    <3>. HIDE DEF both, iLevel
    <3>7. CASE fails = "first"
      <4>1. ~both
        BY <1>3, <3>7
      <4>2. q.failed /\ e \notin q.stmtTransMask
        BY <3>1, <3>5, <3>6, <3>7, <4>1
      <4>3. Level(c, e) = Level(db, d) /\ TopLevel(e)' = iLevel
        BY <3>2, <3>3, <3>7, <4>1
      <4>4. Level(db, d) <= iLevel /\ Level(db, d) \in Nat
        BY <1>2, <1>3
      <4>. QED BY <3>4, <4>2, <4>3, <4>4
    <3>8. CASE fails # "first"
      BY <1>2, <1>3, <3>1, <3>2, <3>3, <3>4, <3>5, <3>6, <3>8
    <3>. QED BY <3>7, <3>8
  <2>. QED BY <2>1, <2>2
<1>. QED BY <1>11, <1>15 DEF LInv

LEMMA WriteKeepsLevels ==
  ASSUME LInv, NEW d \in Db, NEW r \in Row, Write(d, r)
  PROVE  LInv'
<1>. DEFINE s == db.store[d]
            C == SymDiff(s.content, {r})
            n == IF r \in s.content THEN -1 ELSE 1
            cons == IF r \in Deferred THEN db.nDeferredCons + n ELSE db.nDeferredCons
            c == [db EXCEPT !.store[d] = KvWrite(@, C), !.nDeferredCons = cons]
            fk == IF r \in Immediate THEN p.nFkConstraint + n ELSE p.nFkConstraint
            q == [p EXCEPT !.wrote = TRUE, !.nFkConstraint = fk]
<1>1. Running /\ Typed /\ p \in Statement
  BY RunningIsInv DEF Write
<1>2. db' = c /\ p' = q /\ reader' = reader /\ result' = result /\ fault' = fault
  BY DEF Write
<1>3. s \in Store /\ C \in SUBSET Row
  BY <1>1, ConnFields DEF Typed, Store, SymDiff
<1>4. KvWrite(s, C) \in Store /\ KvWrite(s, C).iTransLevel = s.iTransLevel
  BY <1>3, StoreWrite
<1>5. cons \in Int /\ fk \in Int
  BY <1>1 DEF Typed, Conn, Statement
<1>. HIDE DEF cons, fk, C
<1>6. /\ c \in Conn /\ c.pSavepoint = db.pSavepoint
      /\ \A e \in Db : Level(c, e) = Level(db, e)
  BY <1>1, <1>4, <1>5 DEF Typed, Conn, Level
<1>7. /\ q \in Statement /\ q.runs /\ q.todo = p.todo /\ q.dbs = p.dbs
      /\ q.stmtTransMask = p.stmtTransMask /\ q.failed = p.failed
  BY <1>1, <1>5 DEF Statement
<1>. HIDE DEF c, q
<1>8. Typed' /\ Running'
  BY <1>1, <1>2, <1>6, <1>7 DEF Typed, Running
<1>9. MasksAreDone' /\ activeVdbeCnt' = activeVdbeCnt /\ \A e \in Db : TopLevel(e)' = TopLevel(e)
  BY <1>1, <1>2, <1>6, <1>7, <1>8, ActiveCount, ActiveCountNext
     DEF LInv, MasksAreDone, TopLevel
<1>10. LevelsFollowSavepoints'
  BY <1>1, <1>2, <1>6, <1>7, <1>8, <1>9 DEF LInv, LevelsFollowSavepoints, Level
<1>. QED BY <1>8, <1>9, <1>10 DEF LInv

\* What a statement leaves to its halt.
LEMMA WriteHaltIsDue ==
  ASSUME LInv, Running, NEW rc \in Results
  PROVE  /\ HaltIsDue(db, p, rc, activeVdbeCnt - 1, writeVdbeCnt)
         /\ activeVdbeCnt - 1 = Cardinality(Active(reader))
<1>1. activeVdbeCnt - 1 = Cardinality(Active(reader)) /\ activeVdbeCnt - 1 \in Nat
  BY ActiveCount, ReadersAreFinite
<1>2. ~p.readOnly /\ writeVdbeCnt = 1
  BY RunningIsInv DEF Statement, writeVdbeCnt
<1>3. \A d \in Db \ p.stmtTransMask : db.pSavepoint # <<>> =>
        Level(db, d) <= Len(db.pSavepoint) + 1
  BY RunningIsInv, ConnFields DEF Typed
<1>. QED BY <1>1, <1>2, <1>3, RunningIsInv DEF HaltIsDue, Typed, HasStatement

LEMMA WriteEndLevels ==
  ASSUME LInv, NEW rc \in Results, NEW bad, WriteEnd(rc, bad)
  PROVE  LInv'
<1>. DEFINE others == activeVdbeCnt - 1
            h == VdbeHalt(db, p, rc, others, writeVdbeCnt, bad)
<1>1. /\ Running /\ db' = h.db /\ result' = h.rc /\ p' = NoStmt
      /\ reader' = reader /\ fault' = fault
  BY DEF WriteEnd
<1>2. HaltIsDue(db, p, rc, others, writeVdbeCnt)
  BY <1>1, WriteHaltIsDue
<1>3. others = 0 <=> \A r \in Reader : reader[r] = {}
  BY <1>1, WriteHaltIsDue, ReadersAreFinite
<1>4. /\ h.db \in Conn /\ h.rc \in Results
      /\ Len(h.db.pSavepoint) <= MaxSavepoint
      /\ \A d \in Db :
           /\ Level(h.db, d) <= Len(h.db.pSavepoint) + 1
           /\ others # 0 /\ Level(db, d) >= 1 => Level(h.db, d) >= 1
           /\ others = 0 /\ h.db.pSavepoint = <<>> => Level(h.db, d) = 0
  <2>. HIDE DEF others
  <2>. QED BY <1>2, HaltLevels
<1>. HIDE DEF h, others
<1>5. Typed' /\ ~Running'
  <2>1. ~NoStmt.runs
    BY DEF NoStmt
  <2>. QED BY <1>1, <1>4, <2>1 DEF LInv, Typed, Running
<1>6. Settled(db', reader')
  <2>1. \A d \in Db : (\E r \in Reader : d \in reader[r]) => Level(h.db, d) >= 1
    <3>. TAKE d \in Db
    <3>. HAVE \E r \in Reader : d \in reader[r]
    <3>1. Level(db, d) >= 1 /\ others # 0
      BY <1>1, <1>3, RunningIsInv
    <3>. QED BY <1>4, <3>1
  <2>. QED BY <1>1, <1>3, <1>4, <2>1 DEF Settled
<1>. QED BY <1>5, <1>6, SettledIsInvNext

LEMMA NextLInv ==
  ASSUME ~TxnApi, LInv, [Next]_vars
  PROVE  LInv'
<1>1. ASSUME NEW r \in Reader, NEW ds \in SUBSET Db, SelectBegin(r, ds) PROVE LInv'
  BY <1>1, SelectBeginLevels
<1>2. ASSUME NEW r \in Reader, NEW rc \in {"ok", "error"}, NEW bad \in Bad,
             SelectEnd(r, rc, bad)
      PROVE  LInv'
  <2>1. rc \in Results
    BY DEF Results
  <2>. QED BY <1>2, <2>1, SelectEndLevels
<1>3. ASSUME NEW n \in Names, NEW bad \in Bad, SavepointBegin(n, bad) PROVE LInv'
  BY <1>3, SavepointBeginLevels
<1>4. ASSUME NEW n \in Names, NEW bad \in Bad, SavepointRelease(n, bad) PROVE LInv'
  BY <1>4, SavepointReleaseLevels
<1>5. ASSUME NEW n \in Names, NEW bad \in Bad, SavepointRollback(n, bad) PROVE LInv'
  BY <1>5, SavepointRollbackLevels
<1>6. ASSUME NEW need \in BOOLEAN, NEW ds \in SUBSET Db, WriteBegin(need, ds) PROVE LInv'
  BY <1>6, WriteBeginLevels
<1>7. ASSUME NEW d \in Db, NEW fails \in {"no", "first", "second"},
             OpTransaction(d, fails)
      PROVE  LInv'
  BY <1>7, OpTransactionLevels
<1>8. ASSUME NEW d \in Db, NEW r \in Row, Write(d, r) PROVE LInv'
  BY <1>8, WriteKeepsLevels
<1>9. ASSUME NEW rc \in Results, NEW bad \in Bad, WriteEnd(rc, bad) PROVE LInv'
  BY <1>9, WriteEndLevels
<1>10. CASE UNCHANGED vars
  BY <1>10 DEF vars, LInv, Typed, MasksAreDone, LevelsFollowSavepoints, Running,
               TopLevel, activeVdbeCnt, ActiveReaders
<1>11. ~ \/ sqlite4_txn_begin
         \/ \E l \in 0..1 : sqlite4_txn_rollback(l)
         \/ \E bad \in Bad : sqlite4_txn_commit_phase_one(bad)
         \/ sqlite4_txn_commit_phase_two
         \/ \E bad \in Bad : sqlite4_txn_commit(bad)
  BY DEF sqlite4_txn_begin, sqlite4_txn_rollback, sqlite4_txn_commit_phase_one,
         sqlite4_txn_commit_phase_two, sqlite4_txn_commit, Api
<1>. QED BY <1>1, <1>2, <1>3, <1>4, <1>5, <1>6, <1>7, <1>8, <1>9, <1>10, <1>11
         DEF Next, Results

-----------------------------------------------------------------------------
(* Violations of foreign keys in the databases.                            *)

Contents(c) == [d \in Db |-> c.store[d].content]
Before(c, l) == [d \in Db |-> c.store[d].atBegin[l]]

\* The rows of S in databases with the contents f, and how many they are.
Pairs(f, S) == {x \in Db \X S : x[2] \in f[x[1]]}
Num(f, S) == Cardinality(Pairs(f, S))

Clean(f) == \A d \in Db : f[d] \cap (Deferred \cup Immediate) = {}

LEMMA PairIn ==
  ASSUME NEW f, NEW S
  PROVE  /\ \A d, r : <<d, r>> \in Pairs(f, S) <=> d \in Db /\ r \in S /\ r \in f[d]
         /\ \A x \in Pairs(f, S) : x = <<x[1], x[2]>> /\ x[1] \in Db /\ x[2] \in S
BY DEF Pairs

LEMMA PairsAreFinite ==
  ASSUME NEW f, NEW S, S \subseteq Row
  PROVE  /\ IsFiniteSet(Pairs(f, S)) /\ Num(f, S) \in Nat
         /\ Num(f, S) = 0 <=> \A d \in Db : f[d] \cap S = {}
<1>1. IsFiniteSet(S) /\ IsFiniteSet(Db)
  BY FS_Subset
<1>2. IsFiniteSet(Db \X S)
  BY <1>1, FS_Product
<1>3. IsFiniteSet(Pairs(f, S))
  BY <1>2, FS_Subset DEF Pairs
<1>4. Pairs(f, S) = {} <=> \A d \in Db : f[d] \cap S = {}
  <2>1. ASSUME Pairs(f, S) = {} PROVE \A d \in Db : f[d] \cap S = {}
    <3>. SUFFICES ASSUME NEW d \in Db, NEW r \in S, r \in f[d] PROVE FALSE
      OBVIOUS
    <3>1. <<d, r>> \in Pairs(f, S)
      BY DEF Pairs
    <3>. QED BY <2>1, <3>1
  <2>2. ASSUME \A d \in Db : f[d] \cap S = {} PROVE Pairs(f, S) = {}
    BY <2>2 DEF Pairs
  <2>. QED BY <2>1, <2>2
<1>. QED BY <1>3, <1>4, FS_CardinalityType, FS_EmptySet DEF Num

LEMMA CleanIsZero ==
  ASSUME NEW f
  PROVE  Clean(f) <=> Num(f, Deferred) = 0 /\ Num(f, Immediate) = 0
<1>1. Num(f, Deferred) = 0 <=> \A d \in Db : f[d] \cap Deferred = {}
  BY PairsAreFinite
<1>2. Num(f, Immediate) = 0 <=> \A d \in Db : f[d] \cap Immediate = {}
  BY PairsAreFinite
<1>. QED BY <1>1, <1>2 DEF Clean

\* The contents f with the row r of database d inserted or deleted.
Toggled(f, d, r, g) ==
    \A e \in Db, t \in Row :
        t \in g[e] <=> IF <<e, t>> = <<d, r>> THEN r \notin f[d] ELSE t \in f[e]

\* OP_FkCounter counts what the insertion or deletion of a row changes.
LEMMA NumWrite ==
  ASSUME NEW f, NEW d \in Db, NEW r \in Row, NEW g, Toggled(f, d, r, g)
  PROVE  \A S \in SUBSET Row :
           Num(g, S) = IF r \notin S THEN Num(f, S)
                       ELSE IF r \in f[d] THEN Num(f, S) - 1 ELSE Num(f, S) + 1
<1>. TAKE S \in SUBSET Row
<1>. DEFINE x == <<d, r>>
<1>1. \A e \in Db, t \in Row :
        t \in g[e] <=> IF <<e, t>> = x THEN r \notin f[d] ELSE t \in f[e]
  BY DEF Toggled
<1>2. IsFiniteSet(Pairs(f, S)) /\ Num(f, S) \in Nat
  BY PairsAreFinite
<1>3. CASE r \notin S
  <2>1. Pairs(g, S) = Pairs(f, S)
    BY <1>1, <1>3 DEF Pairs
  <2>. QED BY <1>3, <2>1 DEF Num
<1>4. CASE r \in S /\ r \in f[d]
  <2>1. \A e \in Db, t \in S : <<e, t>> \in Pairs(g, S) <=>
                                 <<e, t>> \in Pairs(f, S) /\ <<e, t>> # x
    BY <1>1, <1>4, PairIn
  <2>2. Pairs(g, S) = Pairs(f, S) \ {x} /\ x \in Pairs(f, S)
    BY <1>4, <2>1, PairIn
  <2>3. Cardinality(Pairs(f, S) \ {x}) = Cardinality(Pairs(f, S)) - 1
    BY <1>2, <2>2, FS_RemoveElement
  <2>. QED BY <1>4, <2>2, <2>3 DEF Num
<1>5. CASE r \in S /\ r \notin f[d]
  <2>1. \A e \in Db, t \in S : <<e, t>> \in Pairs(g, S) <=>
                                 <<e, t>> \in Pairs(f, S) \/ <<e, t>> = x
    BY <1>1, <1>5, PairIn
  <2>2. Pairs(g, S) = Pairs(f, S) \cup {x} /\ x \notin Pairs(f, S)
    BY <1>5, <2>1, PairIn
  <2>3. Cardinality(Pairs(f, S) \cup {x}) = Cardinality(Pairs(f, S)) + 1
    BY <1>2, <2>2, FS_AddElement
  <2>. QED BY <1>5, <2>2, <2>3 DEF Num
<1>. QED BY <1>3, <1>4, <1>5

-----------------------------------------------------------------------------
(* What the functions of vdbeaux.c do to the contents.                     *)

\* No store has a snapshot of a level it is not at.
Fresh(c) ==
    \A d \in Db : \A m \in WriteLevels :
        m > Level(c, d) => c.store[d].atBegin[m] = c.store[d].content

\* The counter of every savepoint is that of the contents it goes back to.
SavedExact(c) ==
    \A i \in 1..Len(c.pSavepoint) :
        /\ c.pSavepoint[i].nDeferredCons = Num(Before(c, i + 1), Deferred)
        /\ Num(Before(c, i + 1), Immediate) = 0

\* What the whole transaction goes back to is consistent.
Based(c) == Clean(Before(c, 2))

Counted(c) == c.nDeferredCons = Num(Contents(c), Deferred)

Sound(c) == Fresh(c) /\ SavedExact(c) /\ Based(c) /\ Counted(c)

LEMMA StoreRollbackContent ==
  ASSUME UndoesOwnLevel, NEW s \in Store, NEW l \in Levels
  PROVE  LET k == IF l >= 2 THEN l ELSE 2
         IN /\ k \in WriteLevels
            /\ KvRollback(s, l).content = s.atBegin[k]
            /\ \A m \in WriteLevels :
                 KvRollback(s, l).atBegin[m] = IF m <= l THEN s.atBegin[m]
                                               ELSE s.atBegin[k]
<1>. DEFINE k == IF l >= 2 THEN l ELSE 2
            s1 == [s EXCEPT !.iTransLevel = l]
<1>1. k \in WriteLevels /\ l \in Nat
  BY DEF Levels, WriteLevels, MaxLevel
<1>2. UndoneFrom(l) = k
  BY <1>1, MaxOfTwo DEF UndoneFrom
<1>3. KvRollback(s, l) = KvWrite(s1, s.atBegin[k])
  BY <1>1, <1>2 DEF KvRollback
<1>4. s1 \in Store /\ s1.iTransLevel = l /\ s1.atBegin = s.atBegin
        /\ s.atBegin[k] \in SUBSET Row
  BY <1>1 DEF Store
<1>. HIDE DEF s1, k
<1>. QED BY <1>1, <1>3, <1>4, StoreWrite DEF k

LEMMA RollbackContents ==
  ASSUME UndoesOwnLevel, NEW c \in Conn, Fresh(c), NEW l \in Levels
  PROVE  LET r == VdbeRollback(c, l)
             k == IF l >= 2 THEN l ELSE 2
         IN /\ Contents(r) = Before(c, k)
            /\ Fresh(r)
            /\ \A m \in 2..k : Before(r, m) = Before(c, m)
            /\ \A i \in 1..LeastLen(c, l) : r.pSavepoint[i] = c.pSavepoint[i]
            /\ r.nDeferredCons = IF LeastLen(c, l) = 0 THEN 0
                                 ELSE c.pSavepoint[LeastLen(c, l)].nDeferredCons
<1>. DEFINE undone == [d \in Db |-> IF c.store[d].iTransLevel >= l
                                    THEN KvRollback(c.store[d], l) ELSE c.store[d]]
            c1 == [c EXCEPT !.store = undone]
            freed == FreeSavepoints(c1, l)
            n == IF freed.pSavepoint = <<>> THEN 0
                 ELSE Last(freed.pSavepoint).nDeferredCons
            r == VdbeRollback(c, l)
            k == IF l >= 2 THEN l ELSE 2
<1>1. l \in Nat /\ k \in WriteLevels /\ k \in Nat /\ k >= l /\ k >= 2
  BY DEF Levels, WriteLevels, MaxLevel
<1>2. undone \in [Db -> Store]
  BY ConnFields, StoreRollback
<1>3. c1 \in Conn /\ c1.store = undone /\ c1.pSavepoint = c.pSavepoint
  BY <1>2 DEF Conn
<1>4. r = [freed EXCEPT !.nDeferredCons = n]
  BY DEF VdbeRollback
<1>5. LeastLen(c1, l) = LeastLen(c, l)
  BY <1>3 DEF LeastLen
<1>6. \A d \in Db :
        /\ undone[d].content = c.store[d].atBegin[k]
        /\ undone[d].iTransLevel = IF Level(c, d) >= l THEN l ELSE Level(c, d)
        /\ \A m \in WriteLevels : m <= k => undone[d].atBegin[m] = c.store[d].atBegin[m]
        /\ \A m \in WriteLevels : m > undone[d].iTransLevel =>
                                    undone[d].atBegin[m] = undone[d].content
  <2>. TAKE d \in Db
  <2>. DEFINE s == c.store[d]
  <2>1. s \in Store /\ Level(c, d) = s.iTransLevel /\ Level(c, d) \in Nat
          /\ WriteLevels \subseteq Nat
    BY ConnFields, LevelsAreNat DEF Level
  <2>2. CASE s.iTransLevel >= l
    <3>1. undone[d] = KvRollback(s, l)
      BY <2>2
    <3>2. /\ KvRollback(s, l).content = s.atBegin[k]
          /\ KvRollback(s, l).iTransLevel = l
          /\ \A m \in WriteLevels :
               KvRollback(s, l).atBegin[m] = IF m <= l THEN s.atBegin[m] ELSE s.atBegin[k]
      BY <2>1, StoreRollbackContent, StoreRollback
    <3>3. \A m \in WriteLevels : m <= k /\ ~(m <= l) => m = k
      BY <1>1, <2>1 DEF WriteLevels
    <3>. HIDE DEF undone, s, k
    <3>4. \A m \in WriteLevels : m <= k => undone[d].atBegin[m] = s.atBegin[m]
      BY <3>1, <3>2, <3>3
    <3>5. \A m \in WriteLevels : m > l => undone[d].atBegin[m] = s.atBegin[k]
      BY <1>1, <2>1, <3>1, <3>2
    <3>. QED BY <2>1, <2>2, <3>1, <3>2, <3>4, <3>5 DEF s
  <2>3. CASE ~(s.iTransLevel >= l)
    <3>1. undone[d] = s
      BY <2>3
    <3>2. \A m \in WriteLevels : m > s.iTransLevel => s.atBegin[m] = s.content
      BY <2>1 DEF Fresh
    <3>3. k > s.iTransLevel
      BY <1>1, <2>1, <2>3
    <3>. HIDE DEF undone, s, k
    <3>. QED BY <1>1, <2>1, <2>3, <3>1, <3>2, <3>3 DEF s
  <2>. QED BY <2>2, <2>3
<1>. HIDE DEF c1, undone
<1>7. /\ freed \in Conn /\ freed.store = undone
      /\ Len(freed.pSavepoint) = LeastLen(c, l)
      /\ \A i \in 1..LeastLen(c, l) : freed.pSavepoint[i] = c.pSavepoint[i]
  <2>1. /\ freed \in Conn /\ freed.store = c1.store
        /\ Len(freed.pSavepoint) = LeastLen(c1, l)
        /\ \A i \in 1..LeastLen(c1, l) : freed.pSavepoint[i] = c1.pSavepoint[i]
    BY <1>1, <1>3, SavepointsFreed
  <2>. HIDE DEF freed
  <2>. QED BY <1>3, <1>5, <2>1
<1>. HIDE DEF freed
<1>8. r.store = undone /\ r.pSavepoint = freed.pSavepoint /\ r.nDeferredCons = n
  BY <1>4, <1>7 DEF Conn
<1>9. n = IF LeastLen(c, l) = 0 THEN 0 ELSE c.pSavepoint[LeastLen(c, l)].nDeferredCons
  <2>1. freed.pSavepoint = <<>> <=> LeastLen(c, l) = 0
    BY <1>7, ConnFields
  <2>2. LeastLen(c, l) \in Nat
    BY <1>7, ConnFields
  <2>. QED BY <1>7, <2>1, <2>2 DEF Last
<1>. HIDE DEF r, n, k
<1>10. Contents(r) = Before(c, k)
  BY <1>6, <1>8 DEF Contents, Before
<1>11. Fresh(r)
  BY <1>6, <1>8 DEF Fresh, Level
<1>12. \A m \in 2..k : Before(r, m) = Before(c, m)
  <2>. TAKE m \in 2..k
  <2>1. m \in WriteLevels /\ m <= k
    BY <1>1, LevelsAreNat DEF WriteLevels
  <2>. QED BY <1>6, <1>8, <2>1 DEF Before
<1>. QED BY <1>7, <1>8, <1>9, <1>10, <1>11, <1>12 DEF r, k

LEMMA RollbackIsSound ==
  ASSUME UndoesOwnLevel, NEW c \in Conn, Len(c.pSavepoint) <= MaxSavepoint,
         Fresh(c), Based(c),
         NEW l \in Levels, l <= Len(c.pSavepoint) + 1, l <= 1 \/ SavedExact(c)
  PROVE  /\ Sound(VdbeRollback(c, l))
         /\ Num(Contents(VdbeRollback(c, l)), Immediate) = 0
         /\ l <= 1 => Num(Contents(VdbeRollback(c, l)), Deferred) = 0
<1>. DEFINE r == VdbeRollback(c, l)
            n == Len(c.pSavepoint)
            j == LeastLen(c, l)
            k == IF l >= 2 THEN l ELSE 2
<1>1. /\ n \in Nat /\ l \in Nat /\ k \in Nat
      /\ j = k - 2 + (IF l >= 2 THEN 1 ELSE 0)
  BY ConnFields, LevelsAreNat DEF LeastLen
<1>2. /\ Contents(r) = Before(c, k) /\ Fresh(r)
      /\ \A m \in 2..k : Before(r, m) = Before(c, m)
      /\ \A i \in 1..j : r.pSavepoint[i] = c.pSavepoint[i]
      /\ r.nDeferredCons = IF j = 0 THEN 0 ELSE c.pSavepoint[j].nDeferredCons
      /\ Len(r.pSavepoint) = j
  <2>1. Len(r.pSavepoint) = j
    BY RollbackLevels
  <2>2. /\ Contents(r) = Before(c, k) /\ Fresh(r)
        /\ \A m \in 2..k : Before(r, m) = Before(c, m)
        /\ \A i \in 1..j : r.pSavepoint[i] = c.pSavepoint[i]
        /\ r.nDeferredCons = IF j = 0 THEN 0 ELSE c.pSavepoint[j].nDeferredCons
    BY RollbackContents
  <2>. QED BY <2>1, <2>2
<1>. HIDE DEF r, j
<1>3. Based(r)
  BY <1>1, <1>2 DEF Based
<1>4. CASE l <= 1
  <2>1. j = 0 /\ k = 2
    BY <1>1, <1>4
  <2>2. Num(Contents(r), Deferred) = 0 /\ Num(Contents(r), Immediate) = 0
    BY <1>2, <2>1, CleanIsZero DEF Based
  <2>. QED BY <1>2, <1>3, <2>1, <2>2 DEF Sound, SavedExact, Counted, r
<1>5. CASE ~(l <= 1)
  <2>1. k = l /\ j = l - 1 /\ j \in 1..n
    BY <1>1, <1>5
  <2>2. \A i \in 1..j : i \in 1..n /\ i + 1 \in 2..k
    BY <1>1, <2>1
  <2>3. SavedExact(r)
    BY <1>2, <1>5, <2>2 DEF SavedExact
  <2>4. c.pSavepoint[j].nDeferredCons = Num(Before(c, j + 1), Deferred)
          /\ Num(Before(c, j + 1), Immediate) = 0
    BY <1>5, <2>1 DEF SavedExact
  <2>5. j + 1 = k /\ j # 0
    BY <1>1, <2>1
  <2>6. Counted(r) /\ Num(Contents(r), Immediate) = 0
    BY <1>2, <2>4, <2>5 DEF Counted
  <2>. QED BY <1>2, <1>3, <1>5, <2>3, <2>6 DEF Sound, r
<1>. QED BY <1>4, <1>5

\* Some of the stores above level l are committed to it.
SomeCommitted(c, l, done) ==
    [c EXCEPT !.store = [d \in Db |-> IF d \in done THEN KvCommit(c.store[d], l)
                                      ELSE c.store[d]]]

LEMMA CommittingIsSound ==
  ASSUME NEW c \in Conn, Fresh(c), Based(c), NEW l \in Levels, l >= 1,
         l = 1 => Clean(Contents(c)),
         NEW done, done \subseteq Above(c, l)
  PROVE  LET r == SomeCommitted(c, l, done)
         IN /\ r \in Conn /\ r.pSavepoint = c.pSavepoint
            /\ r.nDeferredCons = c.nDeferredCons
            /\ Fresh(r) /\ Based(r) /\ Contents(r) = Contents(c)
            /\ \A m \in 2..l : Before(r, m) = Before(c, m)
            /\ \A d \in Db : Level(r, d) = IF d \in done THEN l ELSE Level(c, d)
<1>. DEFINE stores == [d \in Db |-> IF d \in done
                                    THEN KvCommit(c.store[d], l) ELSE c.store[d]]
            r == SomeCommitted(c, l, done)
<1>1. l \in Nat /\ l <= MaxLevel /\ 2 \in WriteLevels
  BY DEF Levels, WriteLevels, MaxLevel
<1>2. \A d \in done : Level(c, d) > l /\ d \in Db
  BY DEF Above, Level
<1>3. \A d \in Db :
        /\ stores[d] \in Store /\ stores[d].content = c.store[d].content
        /\ stores[d].iTransLevel = IF d \in done THEN l ELSE Level(c, d)
        /\ \A m \in WriteLevels :
             stores[d].atBegin[m] = IF d \in done /\ ~(m <= l) THEN c.store[d].content
                                    ELSE c.store[d].atBegin[m]
  BY ConnFields, StoreCommit DEF Level
<1>4. stores \in [Db -> Store]
  BY <1>3
<1>5. r \in Conn /\ r.pSavepoint = c.pSavepoint /\ r.nDeferredCons = c.nDeferredCons
        /\ r.store = stores
  <2>1. r = [c EXCEPT !.store = stores]
    BY DEF SomeCommitted
  <2>. HIDE DEF stores, r
  <2>. QED BY <1>4, <2>1 DEF Conn
<1>. HIDE DEF stores, r
<1>6. \A d \in Db : Level(r, d) = IF d \in done THEN l ELSE Level(c, d)
  BY <1>3, <1>5 DEF Level
<1>7. Contents(r) = Contents(c)
  BY <1>3, <1>5 DEF Contents
<1>8. \A m \in 2..l : Before(r, m) = Before(c, m)
  <2>. TAKE m \in 2..l
  <2>1. m \in WriteLevels /\ m <= l
    BY <1>1, LevelsAreNat DEF WriteLevels
  <2>. QED BY <1>3, <1>5, <2>1 DEF Before
<1>9. Fresh(r)
  <2>. SUFFICES ASSUME NEW d \in Db, NEW m \in WriteLevels, m > Level(r, d)
                PROVE  r.store[d].atBegin[m] = r.store[d].content
    BY DEF Fresh
  <2>1. m \in Nat
    BY LevelsAreNat
  <2>2. CASE d \in done
    BY <1>1, <1>3, <1>5, <1>6, <2>1, <2>2
  <2>3. CASE d \notin done
    BY <1>3, <1>5, <1>6, <2>3 DEF Fresh
  <2>. QED BY <2>2, <2>3
<1>10. Based(r)
  <2>1. CASE l >= 2
    BY <1>1, <1>8, <2>1 DEF Based
  <2>2. CASE l = 1
    <3>1. \A d \in Db : r.store[d].atBegin[2] = IF d \in done THEN c.store[d].content
                                                ELSE c.store[d].atBegin[2]
      BY <1>1, <1>3, <1>5, <2>2
    <3>. QED BY <2>2, <3>1 DEF Based, Clean, Before, Contents
  <2>. QED BY <1>1, <2>1, <2>2
<1>. QED BY <1>5, <1>6, <1>7, <1>8, <1>9, <1>10 DEF r, stores

LEMMA CommitIsSound ==
  ASSUME UndoesOwnLevel, NEW c \in Conn, Len(c.pSavepoint) <= MaxSavepoint, Sound(c),
         Num(Contents(c), Immediate) = 0,
         NEW l \in Levels, l >= 1, l <= Len(c.pSavepoint) + 1,
         l = 1 => c.nDeferredCons <= 0, NEW bad
  PROVE  /\ Sound(VdbeCommit(c, l, bad))
         /\ Num(Contents(VdbeCommit(c, l, bad)), Immediate) = 0
         /\ l = 1 => Num(Contents(VdbeCommit(c, l, bad)), Deferred) = 0
<1>. DEFINE failed == bad \cap Above(c, l)
            done == {d \in Above(c, l) : \A f \in failed : d < f}
            c1 == SomeCommitted(c, l, done)
            v == VdbeCommit(c, l, bad)
            n == Len(c.pSavepoint)
<1>1. l \in Nat /\ 1 \in Levels /\ MaxLevel \in Nat /\ n \in Nat
  BY LevelsAreNat, ConnFields DEF Levels, MaxLevel
<1>2. v = IF failed = {} THEN FreeSavepoints(c1, l) ELSE VdbeRollback(c1, 1)
  BY DEF VdbeCommit, SomeCommitted
<1>3. Num(Contents(c), Deferred) \in Nat /\ Fresh(c) /\ SavedExact(c) /\ Based(c)
        /\ c.nDeferredCons = Num(Contents(c), Deferred)
  BY PairsAreFinite DEF Sound, Counted
<1>4. l = 1 => Clean(Contents(c))
  BY <1>3, CleanIsZero
<1>5. done \subseteq Above(c, l)
  OBVIOUS
<1>6. /\ c1 \in Conn /\ c1.pSavepoint = c.pSavepoint
      /\ c1.nDeferredCons = c.nDeferredCons
      /\ Fresh(c1) /\ Based(c1) /\ Contents(c1) = Contents(c)
      /\ \A m \in 2..l : Before(c1, m) = Before(c, m)
      /\ \A d \in Db : Level(c1, d) = IF d \in done THEN l ELSE Level(c, d)
  <2>. HIDE DEF done
  <2>. QED BY <1>3, <1>4, <1>5, CommittingIsSound
<1>. HIDE DEF c1
<1>7. CASE failed = {}
  <2>1. /\ v.store = c1.store /\ v.nDeferredCons = c1.nDeferredCons
        /\ Len(v.pSavepoint) = LeastLen(c1, l)
        /\ \A i \in 1..LeastLen(c1, l) : v.pSavepoint[i] = c1.pSavepoint[i]
    <3>1. v = FreeSavepoints(c1, l)
      BY <1>2, <1>7
    <3>. HIDE DEF v, failed, done
    <3>. QED BY <1>1, <1>6, <3>1, SavepointsFreed
  <2>2. LeastLen(c1, l) = l - 1
    BY <1>1, <1>6 DEF LeastLen
  <2>. HIDE DEF v
  <2>3. Contents(v) = Contents(c) /\ \A m : Before(v, m) = Before(c1, m)
    BY <1>6, <2>1 DEF Contents, Before
  <2>4. Fresh(v) /\ Based(v)
    BY <1>6, <2>1, <2>3 DEF Fresh, Based, Level
  <2>5. SavedExact(v)
    <3>1. \A i \in 1..(l - 1) : i \in 1..n /\ i + 1 \in 2..l
      BY <1>1
    <3>2. \A i \in 1..(l - 1) :
            /\ v.pSavepoint[i] = c.pSavepoint[i]
            /\ Before(v, i + 1) = Before(c, i + 1)
      BY <1>6, <2>1, <2>2, <2>3, <3>1
    <3>3. Len(v.pSavepoint) = l - 1
      BY <2>1, <2>2
    <3>. QED BY <1>3, <3>1, <3>2, <3>3 DEF SavedExact
  <2>6. Counted(v)
    BY <1>3, <1>6, <2>1, <2>3 DEF Counted
  <2>. QED BY <1>3, <2>3, <2>4, <2>5, <2>6 DEF Sound, v
<1>8. CASE failed # {}
  <2>1. v = VdbeRollback(c1, 1)
    BY <1>2, <1>8
  <2>. HIDE DEF v, failed
  <2>2. /\ Sound(VdbeRollback(c1, 1))
        /\ Num(Contents(VdbeRollback(c1, 1)), Immediate) = 0
        /\ 1 <= 1 => Num(Contents(VdbeRollback(c1, 1)), Deferred) = 0
    BY <1>1, <1>6, RollbackIsSound
  <2>. QED BY <2>1, <2>2 DEF v
<1>. QED BY <1>7, <1>8

\* What the databases go back to when the statement q is undone.
Undone(c, q) ==
    [d \in Db |-> IF d \in q.stmtTransMask THEN c.store[d].atBegin[Level(c, d)]
                  ELSE c.store[d].content]

\* The statement transactions of q are one level above the innermost savepoint.
MaskAtTop(c, q) ==
    q.stmtTransMask # {} =>
        /\ c.pSavepoint # <<>>
        /\ \A d \in q.stmtTransMask : Level(c, d) = Len(c.pSavepoint) + 2

\* Some of the statement transactions of q are closed.
SomeClosed(c, q, undo, done) ==
    [c EXCEPT !.store = [d \in Db |->
                  IF d \in done
                  THEN KvCommit(IF undo THEN KvRollback(c.store[d], Level(c, d))
                                ELSE c.store[d], Level(c, d) - 1)
                  ELSE c.store[d]],
              !.nDeferredCons = IF undo THEN q.nStmtDefCons ELSE @]

LEMMA ClosingIsSound ==
  ASSUME UndoesOwnLevel, NEW c \in Conn, Len(c.pSavepoint) <= MaxSavepoint,
         NEW q, HasStatement(q), MaskAtTop(c, q),
         Fresh(c), Based(c), NEW undo \in BOOLEAN,
         NEW done, done \subseteq q.stmtTransMask
  PROVE  LET r == SomeClosed(c, q, undo, done)
         IN /\ r \in Conn /\ r.pSavepoint = c.pSavepoint
            /\ r.nDeferredCons = IF undo THEN q.nStmtDefCons ELSE c.nDeferredCons
            /\ Fresh(r) /\ Based(r)
            /\ \A m \in 2..(Len(c.pSavepoint) + 1) : Before(r, m) = Before(c, m)
            /\ done = q.stmtTransMask => Contents(r) = IF undo THEN Undone(c, q)
                                                       ELSE Contents(c)
<1>. DEFINE n == Len(c.pSavepoint)
            closed(d) == KvCommit(IF undo THEN KvRollback(c.store[d], Level(c, d))
                                  ELSE c.store[d], Level(c, d) - 1)
            stores == [d \in Db |-> IF d \in done THEN closed(d) ELSE c.store[d]]
            cons == IF undo THEN q.nStmtDefCons ELSE c.nDeferredCons
            r == SomeClosed(c, q, undo, done)
<1>1. n \in Nat /\ (done # {} => n >= 1) /\ n + 2 \in Levels /\ n + 1 \in Levels
        /\ n + 2 \in WriteLevels /\ n + 1 \in Nat /\ WriteLevels \subseteq Nat
  BY ConnFields, LevelsAreNat DEF MaskAtTop, Levels, WriteLevels, MaxLevel
<1>2. \A d \in done : d \in Db /\ Level(c, d) = n + 2 /\ Level(c, d) - 1 = n + 1
  BY <1>1 DEF MaskAtTop, HasStatement
<1>3. \A d \in done :
        /\ closed(d) \in Store /\ closed(d).iTransLevel = n + 1
        /\ closed(d).content = IF undo THEN c.store[d].atBegin[n + 2]
                               ELSE c.store[d].content
        /\ \A m \in WriteLevels : closed(d).atBegin[m] =
             IF m <= n + 1 THEN c.store[d].atBegin[m] ELSE closed(d).content
  <2>. TAKE d \in done
  <2>. DEFINE s == c.store[d]
              t == IF undo THEN KvRollback(s, n + 2) ELSE s
  <2>1. s \in Store
    BY <1>2, ConnFields
  <2>2. closed(d) = KvCommit(t, n + 1)
    BY <1>2
  <2>3. /\ t \in Store
        /\ t.content = IF undo THEN s.atBegin[n + 2] ELSE s.content
        /\ \A m \in WriteLevels : m <= n + 1 => t.atBegin[m] = s.atBegin[m]
    <3>1. /\ KvRollback(s, n + 2) \in Store
          /\ KvRollback(s, n + 2).content = s.atBegin[n + 2]
          /\ \A m \in WriteLevels : m <= n + 2 =>
               KvRollback(s, n + 2).atBegin[m] = s.atBegin[m]
      <4>1. KvRollback(s, n + 2) \in Store
        BY <1>1, <2>1, StoreRollback
      <4>2. (IF n + 2 >= 2 THEN n + 2 ELSE 2) = n + 2
        BY <1>1
      <4>. HIDE DEF s
      <4>3. /\ KvRollback(s, n + 2).content = s.atBegin[n + 2]
            /\ \A m \in WriteLevels : KvRollback(s, n + 2).atBegin[m] =
                 IF m <= n + 2 THEN s.atBegin[m] ELSE s.atBegin[n + 2]
        BY <1>1, <2>1, <4>2, StoreRollbackContent
      <4>. QED BY <4>1, <4>3
    <3>2. \A m \in WriteLevels : m <= n + 1 => m <= n + 2
      BY <1>1
    <3>. HIDE DEF s
    <3>. QED BY <2>1, <3>1, <3>2
  <2>. HIDE DEF t, s, closed
  <2>4. /\ KvCommit(t, n + 1) \in Store
        /\ KvCommit(t, n + 1).iTransLevel = n + 1
        /\ KvCommit(t, n + 1).content = t.content
        /\ \A m \in WriteLevels : KvCommit(t, n + 1).atBegin[m] =
             IF m <= n + 1 THEN t.atBegin[m] ELSE t.content
    BY <1>1, <2>3, StoreCommit
  <2>. QED BY <2>2, <2>3, <2>4 DEF s
<1>. HIDE DEF closed
<1>4. stores \in [Db -> Store]
  BY <1>3, ConnFields
<1>5. cons \in Int
  BY DEF HasStatement, Conn
<1>6. r \in Conn /\ r.pSavepoint = c.pSavepoint /\ r.nDeferredCons = cons
        /\ r.store = stores
  <2>1. r = [c EXCEPT !.store = stores, !.nDeferredCons = cons]
    BY DEF SomeClosed, closed
  <2>. HIDE DEF stores, r, cons
  <2>. QED BY <1>4, <1>5, <2>1 DEF Conn
<1>. HIDE DEF r
<1>7. \A d \in Db : r.store[d] = IF d \in done THEN closed(d) ELSE c.store[d]
  BY <1>6
<1>. HIDE DEF stores, cons
<1>8. \A m \in 2..(n + 1) : Before(r, m) = Before(c, m)
  <2>. TAKE m \in 2..(n + 1)
  <2>1. m \in WriteLevels /\ m <= n + 1
    BY <1>1, LevelsAreNat DEF WriteLevels, Levels
  <2>. QED BY <1>3, <1>7, <2>1 DEF Before
<1>9. Based(r)
  <2>1. CASE done = {}
    BY <1>7, <2>1 DEF Based, Before
  <2>2. CASE done # {}
    <3>1. 2 \in 2..(n + 1)
      BY <1>1, <2>2
    <3>. QED BY <1>8, <3>1 DEF Based
  <2>. QED BY <2>1, <2>2
<1>10. Fresh(r)
  <2>. SUFFICES ASSUME NEW d \in Db, NEW m \in WriteLevels, m > Level(r, d)
                PROVE  r.store[d].atBegin[m] = r.store[d].content
    BY DEF Fresh
  <2>1. CASE d \in done
    <3>1. r.store[d] = closed(d) /\ m > n + 1 /\ m \in Nat
      BY <1>1, <1>3, <1>7, <2>1 DEF Level
    <3>. QED BY <1>1, <1>3, <2>1, <3>1
  <2>2. CASE d \notin done
    BY <1>7, <2>2 DEF Fresh, Level
  <2>. QED BY <2>1, <2>2
<1>11. ASSUME done = q.stmtTransMask
       PROVE  Contents(r) = IF undo THEN Undone(c, q) ELSE Contents(c)
  <2>1. \A d \in Db : r.store[d].content =
          IF undo /\ d \in q.stmtTransMask THEN c.store[d].atBegin[n + 2]
          ELSE c.store[d].content
    BY <1>3, <1>7, <1>11
  <2>2. CASE undo
    BY <1>2, <1>11, <2>1, <2>2 DEF Contents, Undone
  <2>3. CASE ~undo
    BY <2>1, <2>3 DEF Contents
  <2>. QED BY <2>2, <2>3
<1>. QED BY <1>6, <1>8, <1>9, <1>10, <1>11 DEF r, cons

\* What is left when all transactions of a statement are closed adds up.
ClosesExactly(c, q, undo) ==
    IF undo THEN /\ q.nStmtDefCons = Num(Undone(c, q), Deferred)
                 /\ Num(Undone(c, q), Immediate) = 0
    ELSE Num(Contents(c), Immediate) = 0

LEMMA CloseIsSound ==
  ASSUME UndoesOwnLevel, NEW c \in Conn, Len(c.pSavepoint) <= MaxSavepoint,
         NEW q, HasStatement(q), MaskAtTop(c, q), Sound(c),
         NEW undo \in BOOLEAN, NEW bad, ClosesExactly(c, q, undo)
  PROVE  /\ Sound(CloseStatement(c, q, undo, bad))
         /\ Num(Contents(CloseStatement(c, q, undo, bad)), Immediate) = 0
<1>. DEFINE failed == bad \cap q.stmtTransMask
            done == {d \in q.stmtTransMask : \A f \in failed : d < f}
            c1 == SomeClosed(c, q, undo, done)
            v == CloseStatement(c, q, undo, bad)
            n == Len(c.pSavepoint)
<1>1. n \in Nat /\ 1 \in Levels
  BY ConnFields DEF Levels, MaxLevel
<1>2. v = IF failed = {} THEN c1 ELSE VdbeRollback(c1, 1)
  BY DEF CloseStatement, SomeClosed, Level
<1>3. done \subseteq q.stmtTransMask /\ (failed = {} => done = q.stmtTransMask)
  OBVIOUS
<1>4. /\ c1 \in Conn /\ c1.pSavepoint = c.pSavepoint
      /\ c1.nDeferredCons = IF undo THEN q.nStmtDefCons ELSE c.nDeferredCons
      /\ Fresh(c1) /\ Based(c1)
      /\ \A m \in 2..(n + 1) : Before(c1, m) = Before(c, m)
      /\ done = q.stmtTransMask => Contents(c1) = IF undo THEN Undone(c, q)
                                                  ELSE Contents(c)
  <2>. HIDE DEF done
  <2>. QED BY <1>3, ClosingIsSound DEF Sound
<1>. HIDE DEF c1, done
<1>5. CASE failed = {}
  <2>1. v = c1 /\ Contents(c1) = IF undo THEN Undone(c, q) ELSE Contents(c)
    BY <1>2, <1>3, <1>4, <1>5
  <2>. HIDE DEF v
  <2>2. Counted(c1) /\ Num(Contents(c1), Immediate) = 0
    BY <1>4, <2>1 DEF Counted, ClosesExactly, Sound
  <2>3. SavedExact(c1)
    <3>1. \A i \in 1..n : i + 1 \in 2..(n + 1)
      BY <1>1
    <3>2. \A i \in 1..n : Before(c1, i + 1) = Before(c, i + 1)
      BY <1>4, <3>1
    <3>. QED BY <1>4, <3>2 DEF SavedExact, Sound
  <2>. QED BY <1>4, <2>1, <2>2, <2>3 DEF Sound, v
<1>6. CASE failed # {}
  <2>1. v = VdbeRollback(c1, 1)
    BY <1>2, <1>6
  <2>. HIDE DEF v, failed
  <2>2. /\ Sound(VdbeRollback(c1, 1))
        /\ Num(Contents(VdbeRollback(c1, 1)), Immediate) = 0
    BY <1>1, <1>4, RollbackIsSound
  <2>. QED BY <2>1, <2>2 DEF v
<1>. QED BY <1>5, <1>6

LEMMA HaltIsSound ==
  ASSUME UndoesOwnLevel, NEW c, NEW q, NEW rc, NEW others, NEW writers, NEW bad,
         HaltIsDue(c, q, rc, others, writers), Sound(c), MaskAtTop(c, q),
         q.nFkConstraint = Num(Contents(c), Immediate),
         q.stmtTransMask # {} => ClosesExactly(c, q, TRUE),
         q.stmtTransMask = {} /\ c.pSavepoint # <<>> => q.nFkConstraint = 0
  PROVE  LET h == VdbeHalt(c, q, rc, others, writers, bad)
         IN Sound(h.db) /\ Num(Contents(h.db), Immediate) = 0
<1>. DEFINE fkNow == rc \in {"ok", "fail"} /\ q.nFkConstraint > 0
            rc1 == IF fkNow THEN "abort" ELSE rc
            whole == rc1 = "rollback"
                       \/ (writers = (IF q.readOnly THEN 0 ELSE 1) /\ c.pSavepoint = <<>>)
            fkEnd == whole /\ rc1 \in {"ok", "fail"} /\ c.nDeferredCons > 0
            rc2 == IF fkEnd THEN "abort" ELSE rc1
            commits == rc2 \in {"ok", "fail"}
            undo == ~commits
            ended == IF commits THEN VdbeCommit(c, 1, bad) ELSE VdbeRollback(c, 1)
            c1 == IF whole THEN [ended EXCEPT !.nDeferredCons = 0]
                  ELSE IF q.stmtTransMask # {}
                  THEN CloseStatement(c, q, undo, bad)
                  ELSE c
            last == c1.pSavepoint = <<>> /\ others = 0
            h == VdbeHalt(c, q, rc, others, writers, bad)
<1>1. h.db = IF last THEN VdbeRollback(c1, 0) ELSE c1
  BY DEF VdbeHalt
<1>2. /\ c \in Conn /\ HasStatement(q) /\ Len(c.pSavepoint) \in Nat
      /\ Len(c.pSavepoint) <= MaxSavepoint /\ 0 \in Levels /\ 1 \in Levels
      /\ Num(Contents(c), Immediate) \in Nat
  BY ConnFields, PairsAreFinite DEF HaltIsDue, Levels, MaxLevel
<1>3. c.pSavepoint = <<>> => whole
  BY DEF HaltIsDue
<1>4. commits => /\ Num(Contents(c), Immediate) = 0
                 /\ whole => c.nDeferredCons <= 0
  <2>1. commits => ~fkNow /\ ~fkEnd /\ rc1 = rc /\ rc \in {"ok", "fail"}
    OBVIOUS
  <2>2. c.nDeferredCons \in Int
    BY <1>2 DEF Conn
  <2>. HIDE DEF commits, whole
  <2>. QED BY <1>2, <2>1, <2>2
<1>5. undo \in BOOLEAN /\ (undo <=> ~commits)
  <2>. HIDE DEF commits
  <2>. QED OBVIOUS
<1>. HIDE DEF undo, commits
<1>6. /\ c1 \in Conn /\ Len(c1.pSavepoint) \in Nat /\ Len(c1.pSavepoint) <= MaxSavepoint
      /\ Sound(c1) /\ Num(Contents(c1), Immediate) = 0
  <2>1. CASE whole
    <3>1. /\ ended \in Conn /\ ended.pSavepoint = <<>> /\ Sound(ended)
          /\ Num(Contents(ended), Immediate) = 0 /\ Num(Contents(ended), Deferred) = 0
      <4>1. CASE commits
        <5>. DEFINE e == VdbeCommit(c, 1, bad)
        <5>1. ended = e
          BY <4>1
        <5>2. e \in Conn /\ (Len(e.pSavepoint) = LeastLen(c, 1) \/ e.pSavepoint = <<>>)
          BY <1>2, CommitLevels
        <5>3. /\ Sound(e) /\ Num(Contents(e), Immediate) = 0
              /\ 1 = 1 => Num(Contents(e), Deferred) = 0
          <6>. HIDE DEF whole
          <6>1. 1 >= 1 /\ 1 <= Len(c.pSavepoint) + 1
            BY <1>2
          <6>. QED BY <1>2, <1>4, <2>1, <4>1, <6>1, CommitIsSound
        <5>. HIDE DEF e
        <5>4. e.pSavepoint = <<>>
          BY <1>2, <5>2, ConnFields DEF LeastLen
        <5>. QED BY <5>1, <5>2, <5>3, <5>4
      <4>2. CASE ~commits
        <5>. DEFINE e == VdbeRollback(c, 1)
        <5>1. ended = e
          BY <4>2
        <5>2. e \in Conn /\ Len(e.pSavepoint) = LeastLen(c, 1)
          BY <1>2, RollbackLevels
        <5>3. /\ Sound(e) /\ Num(Contents(e), Immediate) = 0
              /\ 1 <= 1 => Num(Contents(e), Deferred) = 0
          <6>1. 1 <= Len(c.pSavepoint) + 1
            BY <1>2
          <6>. QED BY <1>2, <6>1, RollbackIsSound DEF Sound
        <5>. HIDE DEF e
        <5>4. e.pSavepoint = <<>>
          BY <1>2, <5>2, ConnFields DEF LeastLen
        <5>. QED BY <5>1, <5>2, <5>3, <5>4
      <4>. QED BY <4>1, <4>2
    <3>2. c1 = [ended EXCEPT !.nDeferredCons = 0]
      BY <2>1
    <3>. HIDE DEF ended, c1, whole
    <3>3. c1 \in Conn /\ c1.pSavepoint = <<>> /\ c1.store = ended.store
            /\ c1.nDeferredCons = 0
      BY <3>1, <3>2 DEF Conn
    <3>4. Contents(c1) = Contents(ended) /\ Before(c1, 2) = Before(ended, 2)
      BY <3>3 DEF Contents, Before
    <3>5. Len(c1.pSavepoint) = 0
      BY <3>3, ConnFields
    <3>6. Sound(c1)
      BY <3>1, <3>3, <3>4, <3>5 DEF Sound, Fresh, SavedExact, Based, Counted, Level
    <3>. QED BY <1>2, <3>1, <3>3, <3>4, <3>5, <3>6
  <2>2. CASE ~whole /\ q.stmtTransMask # {}
    <3>. DEFINE e == CloseStatement(c, q, undo, bad)
    <3>1. c1 = e
      BY <2>2
    <3>2. \A d \in q.stmtTransMask : Level(c, d) >= 2
      BY <1>2, <2>2 DEF MaskAtTop
    <3>3. e \in Conn /\ (e.pSavepoint = c.pSavepoint \/ e.pSavepoint = <<>>)
      BY <1>2, <1>5, <3>2, CloseLevels
    <3>4. ClosesExactly(c, q, undo)
      BY <1>4, <1>5, <2>2 DEF ClosesExactly
    <3>5. Sound(e) /\ Num(Contents(e), Immediate) = 0
      BY <1>2, <1>5, <3>4, CloseIsSound
    <3>. HIDE DEF e, c1, whole
    <3>6. Len(e.pSavepoint) \in Nat /\ Len(e.pSavepoint) <= MaxSavepoint
      BY <1>2, <3>3, ConnFields
    <3>. QED BY <3>1, <3>3, <3>5, <3>6
  <2>3. CASE ~whole /\ q.stmtTransMask = {}
    <3>1. c1 = c
      BY <2>3
    <3>. HIDE DEF c1, whole
    <3>. QED BY <1>2, <1>3, <2>3, <3>1
  <2>. HIDE DEF c1, whole
  <2>. QED BY <2>1, <2>2, <2>3
<1>. HIDE DEF h, c1
<1>7. CASE last
  <2>1. h.db = VdbeRollback(c1, 0)
    BY <1>1, <1>7
  <2>2. Sound(VdbeRollback(c1, 0)) /\ Num(Contents(VdbeRollback(c1, 0)), Immediate) = 0
    <3>1. 0 <= Len(c1.pSavepoint) + 1 /\ 0 <= 1
      BY <1>6
    <3>. QED BY <1>2, <1>6, <3>1, RollbackIsSound DEF Sound
  <2>. QED BY <2>1, <2>2 DEF h
<1>8. CASE ~last
  BY <1>1, <1>6, <1>8 DEF h
<1>. QED BY <1>7, <1>8

-----------------------------------------------------------------------------
(* The counters agree with the rows.                                       *)

\* Another statement is active, or the statement itself may be undone.
NeedsStatement == db.pSavepoint # <<>> /\ (p.needSavepoint \/ activeVdbeCnt > 1)

\* The statement that writes has changed the contents f by what it counted, none
\* before all databases are open.
WritesCounted(f) ==
    /\ p.failed \/ p.todo # {} => ~p.wrote
    /\ ~p.wrote => f = p.start.content
    /\ \A d \in Db \ p.dbs : f[d] = p.start.content[d]
    /\ p.nFkConstraint = Num(f, Immediate)
    /\ ~p.needSavepoint => p.nFkConstraint = 0
    /\ p.dbs # {}

\* Its statement transactions go back to its start, at which the counters agreed.
StartKept ==
    /\ p.start.cons = Num(p.start.content, Deferred)
    /\ Num(p.start.content, Immediate) = 0
    /\ p.stmtTransMask # {} => p.nStmtDefCons = p.start.cons
    /\ MaskAtTop(db, p)
    /\ \A d \in p.stmtTransMask :
         db.store[d].atBegin[Level(db, d)] = p.start.content[d]
    /\ ~p.failed => p.stmtTransMask = IF NeedsStatement THEN p.dbs \ p.todo ELSE {}

StatementSound ==
    IF Running THEN WritesCounted(Contents(db)) /\ StartKept
    ELSE Num(Contents(db), Immediate) = 0

IInv == LInv /\ Sound(db) /\ StatementSound

\* All that IInv says of the contents when no statement writes.
Quiet(c) == Sound(c) /\ Num(Contents(c), Immediate) = 0

LEMMA QuietIsInv == ASSUME ~Running PROVE Quiet(db) <=> Sound(db) /\ StatementSound
BY DEF Quiet, StatementSound

LEMMA QuietIsInvNext ==
  ASSUME ~Running', LInv', Quiet(db')
  PROVE  IInv'
BY DEF Quiet, StatementSound, IInv

LEMMA NoRows ==
  ASSUME NEW f, \A d \in Db : f[d] = {}
  PROVE  Clean(f) /\ Num(f, Deferred) = 0 /\ Num(f, Immediate) = 0
BY CleanIsZero DEF Clean

LEMMA InitIInv == Init => IInv
<1>. SUFFICES ASSUME Init PROVE IInv
  OBVIOUS
<1>1. \A d \in Db : /\ db.store[d].content = {}
                    /\ \A m \in WriteLevels : db.store[d].atBegin[m] = {}
  BY DEF Init, NewStore
<1>2. db.pSavepoint = <<>> /\ db.nDeferredCons = 0 /\ p = NoStmt
  BY DEF Init
<1>3. LInv /\ ~Running
  BY <1>2, InitLInv DEF Running, NoStmt
<1>4. Len(db.pSavepoint) = 0
  BY <1>2, <1>3, ConnFields DEF LInv, Typed
<1>5. 2 \in WriteLevels
  BY DEF WriteLevels, MaxLevel
<1>6. Clean(Before(db, 2)) /\ Num(Contents(db), Deferred) = 0
        /\ Num(Contents(db), Immediate) = 0
  BY <1>1, <1>5, NoRows DEF Before, Contents
<1>7. Sound(db)
  <2>1. Fresh(db)
    BY <1>1 DEF Fresh
  <2>2. SavedExact(db)
    BY <1>4 DEF SavedExact
  <2>. QED BY <1>2, <1>6, <2>1, <2>2 DEF Sound, Based, Counted
<1>. QED BY <1>3, <1>6, <1>7 DEF IInv, StatementSound

\* The halt of a statement that does not write.
LEMMA ReadOnlyHaltIsSound ==
  ASSUME UndoesOwnLevel, NEW c, NEW rc, NEW others, NEW writers, NEW bad,
         HaltIsDue(c, ReadOnly, rc, others, writers), Quiet(c)
  PROVE  Quiet(VdbeHalt(c, ReadOnly, rc, others, writers, bad).db)
<1>1. ReadOnly.nFkConstraint = 0 /\ ReadOnly.stmtTransMask = {}
  BY DEF ReadOnly
<1>2. MaskAtTop(c, ReadOnly)
  BY <1>1 DEF MaskAtTop
<1>. QED BY <1>1, <1>2, HaltIsSound DEF Quiet

LEMMA CommandIsSound ==
  ASSUME UndoesOwnLevel, LInv, LInv', Idle, NEW c, NEW rc \in Results, NEW bad,
         CommandEnd(c, rc, bad), c \in Conn, Len(c.pSavepoint) <= MaxSavepoint,
         \A d \in Db : Level(c, d) <= Len(c.pSavepoint) + 1, Quiet(c)
  PROVE  IInv'
<1>. DEFINE others == activeVdbeCnt
            writers == writeVdbeCnt
<1>1. ~Running /\ others \in Nat /\ writers = 0
  BY ActiveCount DEF Idle, writeVdbeCnt
<1>2. HaltIsDue(c, ReadOnly, rc, others, writers)
  BY <1>1 DEF HaltIsDue, HasStatement, ReadOnly
<1>3. /\ db' = VdbeHalt(c, ReadOnly, rc, others, writers, bad).db
      /\ p' = p
  BY DEF CommandEnd
<1>. HIDE DEF others, writers
<1>4. Quiet(db')
  BY <1>2, <1>3, ReadOnlyHaltIsSound
<1>. QED BY <1>1, <1>3, <1>4, QuietIsInvNext DEF Running

\* What IInv says when no statement writes.
LEMMA IdleIsSound ==
  ASSUME IInv, ~Running
  PROVE  /\ Typed /\ Settled(db, reader) /\ Quiet(db) /\ LInv
         /\ db \in Conn /\ Len(db.pSavepoint) \in Nat
         /\ Len(db.pSavepoint) <= MaxSavepoint
         /\ \A d \in Db : Level(db, d) \in Nat /\ Level(db, d) <= Len(db.pSavepoint) + 1
<1>1. Typed /\ Settled(db, reader) /\ Quiet(db) /\ LInv
  BY SettledIsInv, QuietIsInv DEF IInv, LInv
<1>. QED BY <1>1, ConnFields, LevelsAreNat DEF Settled

LEMMA SelectBeginIsSound ==
  ASSUME IInv, LInv', NEW r \in Reader, NEW ds \in SUBSET Db, SelectBegin(r, ds)
  PROVE  IInv'
<1>. DEFINE stores == [d \in Db |-> IF d \in ds /\ db.store[d].iTransLevel = 0
                                    THEN KvBegin(db.store[d], 1) ELSE db.store[d]]
<1>1. ~Running /\ db \in Conn /\ Quiet(db)
  BY IdleIsSound DEF SelectBegin, Idle
<1>2. \A d \in Db : /\ stores[d].content = db.store[d].content
                    /\ stores[d].atBegin = db.store[d].atBegin
                    /\ stores[d].iTransLevel >= Level(db, d)
  <2>. TAKE d \in Db
  <2>1. db.store[d] \in Store /\ Level(db, d) \in Nat
          /\ db.store[d].iTransLevel = Level(db, d)
    BY <1>1, ConnFields, LevelsAreNat DEF Level
  <2>2. 1 \in Levels
    BY DEF Levels, MaxLevel
  <2>3. /\ KvBegin(db.store[d], 1).content = db.store[d].content
        /\ KvBegin(db.store[d], 1).atBegin = db.store[d].atBegin
        /\ KvBegin(db.store[d], 1).iTransLevel = 1
    BY <2>1, <2>2 DEF KvBegin, Store
  <2>. QED BY <2>1, <2>3
<1>3. db' = [db EXCEPT !.store = stores] /\ p' = p
  BY DEF SelectBegin
<1>. HIDE DEF stores
<1>4. /\ db'.store = stores /\ db'.pSavepoint = db.pSavepoint
      /\ db'.nDeferredCons = db.nDeferredCons
  BY <1>1, <1>3 DEF Conn
<1>5. Contents(db') = Contents(db) /\ \A m : Before(db', m) = Before(db, m)
  BY <1>2, <1>4 DEF Contents, Before
<1>6. Fresh(db')
  <2>1. \A d \in Db : Level(db', d) >= Level(db, d) /\ Level(db, d) \in Nat
                        /\ Level(db', d) \in Nat
    BY <1>1, <1>2, <1>4, ConnFields, LevelsAreNat DEF Level, LInv, Typed
  <2>2. WriteLevels \subseteq Nat /\ Fresh(db)
    BY <1>1, LevelsAreNat DEF Quiet, Sound
  <2>. QED BY <1>2, <1>4, <2>1, <2>2 DEF Fresh
<1>7. SavedExact(db') /\ Based(db') /\ Counted(db')
  BY <1>1, <1>4, <1>5 DEF Quiet, Sound, SavedExact, Based, Counted
<1>8. Quiet(db')
  BY <1>1, <1>5, <1>6, <1>7 DEF Quiet, Sound
<1>. QED BY <1>1, <1>3, <1>8, QuietIsInvNext DEF Running

LEMMA SelectEndIsSound ==
  ASSUME UndoesOwnLevel, IInv, LInv', NEW r \in Reader, NEW rc \in Results, NEW bad,
         SelectEnd(r, rc, bad)
  PROVE  IInv'
<1>. DEFINE others == activeVdbeCnt - 1
<1>1. /\ ~Running /\ Typed /\ db \in Conn /\ Quiet(db) /\ reader[r] # {}
      /\ Len(db.pSavepoint) <= MaxSavepoint
      /\ \A d \in Db : Level(db, d) <= Len(db.pSavepoint) + 1
  BY IdleIsSound DEF SelectEnd, Idle
<1>2. others \in Nat /\ writeVdbeCnt = 0
  BY <1>1, ActiveCount, ReadersAreFinite DEF writeVdbeCnt
<1>3. HaltIsDue(db, ReadOnly, rc, others, writeVdbeCnt)
  <2>. HIDE DEF others
  <2>. QED BY <1>1, <1>2 DEF HaltIsDue, HasStatement, ReadOnly
<1>4. db' = VdbeHalt(db, ReadOnly, rc, others, writeVdbeCnt, bad).db /\ p' = p
  BY DEF SelectEnd
<1>. HIDE DEF others
<1>5. Quiet(db')
  BY <1>1, <1>3, <1>4, ReadOnlyHaltIsSound
<1>. QED BY <1>1, <1>4, <1>5, QuietIsInvNext DEF Running

LEMMA SavepointBeginIsSound ==
  ASSUME UndoesOwnLevel, IInv, LInv', NEW n \in Names, NEW bad, SavepointBegin(n, bad)
  PROVE  IInv'
<1>. DEFINE new == [zName |-> n, nDeferredCons |-> db.nDeferredCons]
            c == [db EXCEPT !.pSavepoint = Append(@, new)]
            k == Len(db.pSavepoint)
<1>1. /\ ~Running /\ Idle /\ LInv /\ db \in Conn /\ Quiet(db)
      /\ k \in Nat /\ k <= MaxSavepoint
      /\ \A d \in Db : Level(db, d) \in Nat /\ Level(db, d) <= k + 1
  BY IdleIsSound DEF SavepointBegin, Idle
<1>2. CASE n = NoName /\ db.pSavepoint # <<>>
  <2>1. CommandEnd(db, "error", bad) /\ "error" \in Results
    BY <1>2 DEF SavepointBegin, Results
  <2>. QED BY <1>1, <2>1, CommandIsSound
<1>3. CASE ~(n = NoName /\ db.pSavepoint # <<>>)
  <2>1. CommandEnd(c, "ok", bad) /\ k < MaxSavepoint /\ "ok" \in Results
    BY <1>3 DEF SavepointBegin, Results
  <2>2. new \in Savepoint /\ new.nDeferredCons = db.nDeferredCons
    BY <1>1 DEF Savepoint, Conn
  <2>. HIDE DEF new
  <2>3. /\ c \in Conn /\ Len(c.pSavepoint) = k + 1
        /\ c.store = db.store /\ c.nDeferredCons = db.nDeferredCons
        /\ c.pSavepoint[k + 1] = new
        /\ \A i \in 1..k : c.pSavepoint[i] = db.pSavepoint[i]
    <3>. DEFINE s == Append(db.pSavepoint, new)
    <3>1. db.pSavepoint \in Seq(Savepoint)
      BY <1>1 DEF Conn
    <3>2. /\ s \in Seq(Savepoint) /\ Len(s) = k + 1
          /\ s[k + 1] = new /\ \A i \in 1..k : s[i] = db.pSavepoint[i]
      BY <2>2, <3>1, AppendProperties
    <3>3. c = [db EXCEPT !.pSavepoint = s]
      OBVIOUS
    <3>. HIDE DEF s, c
    <3>. QED BY <1>1, <3>2, <3>3 DEF Conn
  <2>. HIDE DEF c
  <2>4. Contents(c) = Contents(db) /\ (\A m : Before(c, m) = Before(db, m))
          /\ \A d \in Db : Level(c, d) = Level(db, d)
    BY <2>3 DEF Contents, Before, Level
  <2>5. Fresh(c) /\ Based(c) /\ Counted(c) /\ Num(Contents(c), Immediate) = 0
    BY <1>1, <2>3, <2>4 DEF Quiet, Sound, Fresh, Based, Counted
  <2>6. SavedExact(c)
    <3>1. Before(c, k + 2) = Contents(c)
      <4>1. k + 2 \in WriteLevels /\ \A d \in Db : k + 2 > Level(c, d)
        BY <1>1, <2>1, <2>4 DEF WriteLevels, MaxLevel
      <4>. QED BY <2>5, <4>1 DEF Fresh, Before, Contents
    <3>2. \A i \in 1..k : /\ c.pSavepoint[i].nDeferredCons =
                               Num(Before(c, i + 1), Deferred)
                          /\ Num(Before(c, i + 1), Immediate) = 0
      BY <1>1, <2>3, <2>4 DEF Quiet, Sound, SavedExact
    <3>3. /\ c.pSavepoint[k + 1].nDeferredCons = Num(Before(c, k + 2), Deferred)
          /\ Num(Before(c, k + 2), Immediate) = 0
      BY <2>2, <2>3, <2>5, <3>1 DEF Counted
    <3>. QED BY <1>1, <2>3, <3>2, <3>3 DEF SavedExact
  <2>7. Quiet(c)
    BY <2>5, <2>6 DEF Quiet, Sound
  <2>8. Len(c.pSavepoint) <= MaxSavepoint
          /\ \A d \in Db : Level(c, d) <= Len(c.pSavepoint) + 1
    BY <1>1, <2>1, <2>3, <2>4
  <2>. QED BY <1>1, <2>1, <2>3, <2>7, <2>8, CommandIsSound
<1>. QED BY <1>2, <1>3

LEMMA SavepointReleaseIsSound ==
  ASSUME UndoesOwnLevel, IInv, LInv', NEW n \in Names, NEW bad, SavepointRelease(n, bad)
  PROVE  IInv'
<1>. DEFINE i == Meant(db, n)
            k == Len(db.pSavepoint)
            c == VdbeCommit(db, i, bad)
            rc == IF bad \cap Above(db, i) = {} THEN "ok" ELSE "error"
<1>1. /\ ~Running /\ Idle /\ LInv /\ db \in Conn /\ Quiet(db)
      /\ k \in Nat /\ k <= MaxSavepoint
      /\ \A d \in Db : Level(db, d) \in Nat /\ Level(db, d) <= k + 1
  BY IdleIsSound DEF SavepointRelease, Idle
<1>2. i \in 0..k /\ i \in Levels
  BY <1>1, MeantIsSavepoint DEF Levels, MaxLevel
<1>3. CASE i = 0 \/ (i = 1 /\ db.nDeferredCons > 0)
  <2>1. CommandEnd(db, "error", bad) /\ "error" \in Results
    BY <1>3 DEF SavepointRelease, Results
  <2>. QED BY <1>1, <2>1, CommandIsSound
<1>4. CASE ~(i = 0 \/ (i = 1 /\ db.nDeferredCons > 0))
  <2>1. CommandEnd(c, rc, bad) /\ rc \in Results
    BY <1>4 DEF SavepointRelease, Results
  <2>2. /\ c \in Conn
        /\ bad \cap Above(db, i) = {} =>
             /\ Len(c.pSavepoint) = LeastLen(db, i)
             /\ \A d \in Db : Level(c, d) = IF Level(db, d) > i THEN i
                                            ELSE Level(db, d)
        /\ bad \cap Above(db, i) # {} =>
             /\ c.pSavepoint = <<>>
             /\ \A d \in Db : Level(c, d) \in 0..1
    BY <1>1, <1>2, CommitLevels
  <2>3. Quiet(c)
    <3>1. i >= 1 /\ i <= k + 1 /\ (i = 1 => db.nDeferredCons <= 0)
      <4>1. db.nDeferredCons \in Int
        BY <1>1 DEF Conn
      <4>. HIDE DEF i
      <4>. QED BY <1>1, <1>2, <1>4, <4>1
    <3>. QED BY <1>1, <1>2, <3>1, CommitIsSound DEF Quiet
  <2>. HIDE DEF c, rc
  <2>4. Len(c.pSavepoint) <= MaxSavepoint
          /\ \A d \in Db : Level(c, d) <= Len(c.pSavepoint) + 1
    <3>1. CASE bad \cap Above(db, i) = {}
      BY <1>1, <1>2, <1>4, <2>2, <3>1 DEF LeastLen
    <3>2. CASE bad \cap Above(db, i) # {}
      <4>1. Len(c.pSavepoint) = 0
        BY <2>2, <3>2, ConnFields
      <4>. QED BY <1>1, <2>2, <3>2, <4>1
    <3>. QED BY <3>1, <3>2
  <2>. QED BY <1>1, <2>1, <2>2, <2>3, <2>4, CommandIsSound
<1>. QED BY <1>3, <1>4

LEMMA SavepointRollbackIsSound ==
  ASSUME UndoesOwnLevel, IInv, LInv', NEW n \in Names, NEW bad, SavepointRollback(n, bad)
  PROVE  IInv'
<1>. DEFINE i == Meant(db, n)
            k == Len(db.pSavepoint)
            l == IF n = NoName THEN i ELSE i + 1
            c == VdbeRollback(db, l)
<1>1. /\ ~Running /\ Idle /\ LInv /\ db \in Conn /\ Quiet(db)
      /\ k \in Nat /\ k <= MaxSavepoint
      /\ \A d \in Db : Level(db, d) \in Nat /\ Level(db, d) <= k + 1
  BY IdleIsSound DEF SavepointRollback, Idle
<1>2. i \in 0..k
  BY <1>1, MeantIsSavepoint
<1>3. CASE i = 0
  <2>1. CommandEnd(db, "error", bad) /\ "error" \in Results
    BY <1>3 DEF SavepointRollback, Results
  <2>. QED BY <1>1, <2>1, CommandIsSound
<1>4. CASE i # 0
  <2>1. CommandEnd(c, "ok", bad) /\ "ok" \in Results
    BY <1>4 DEF SavepointRollback, Results
  <2>2. l \in 1..(k + 1) /\ l \in Levels
    BY <1>1, <1>2, <1>4 DEF Levels, MaxLevel
  <2>. HIDE DEF l
  <2>3. Quiet(c)
    BY <1>1, <2>2, RollbackIsSound DEF Quiet, Sound
  <2>4. /\ c \in Conn /\ Len(c.pSavepoint) = LeastLen(db, l)
        /\ \A d \in Db : Level(c, d) = IF Level(db, d) >= l THEN l ELSE Level(db, d)
    BY <1>1, <2>2, RollbackLevels
  <2>. HIDE DEF c
  <2>5. Len(c.pSavepoint) <= MaxSavepoint
          /\ \A d \in Db : Level(c, d) <= Len(c.pSavepoint) + 1
    BY <1>1, <2>2, <2>4 DEF LeastLen
  <2>. QED BY <1>1, <2>1, <2>3, <2>4, <2>5, CommandIsSound
<1>. QED BY <1>3, <1>4

LEMMA WriteBeginIsSound ==
  ASSUME IInv, LInv', NEW need \in BOOLEAN, NEW ds \in SUBSET Db, WriteBegin(need, ds)
  PROVE  IInv'
<1>. DEFINE start == [content |-> Contents(db), cons |-> db.nDeferredCons]
            q == [runs |-> TRUE, readOnly |-> FALSE, needSavepoint |-> need,
                  todo |-> ds, dbs |-> ds, wrote |-> FALSE, failed |-> FALSE,
                  nFkConstraint |-> 0, stmtTransMask |-> {}, nStmtDefCons |-> 0,
                  start |-> start]
<1>1. ~Running /\ Quiet(db) /\ db \in Conn
  BY IdleIsSound DEF WriteBegin, Idle
<1>2. p' = q /\ db' = db /\ ds # {}
  BY DEF WriteBegin, Contents
<1>3. start.content = Contents(db) /\ start.cons = db.nDeferredCons
  OBVIOUS
<1>. HIDE DEF start
<1>4. /\ p'.runs /\ p'.todo = ds /\ p'.dbs = ds /\ ~p'.wrote /\ ~p'.failed
      /\ p'.nFkConstraint = 0 /\ p'.stmtTransMask = {} /\ p'.start = start
  BY <1>2
<1>. HIDE DEF q
<1>5. Sound(db') /\ Running'
  BY <1>1, <1>2, <1>4 DEF Quiet, Running
<1>6. WritesCounted(Contents(db))'
  BY <1>1, <1>2, <1>3, <1>4 DEF WritesCounted, Quiet, Contents
<1>7. StartKept'
  <2>1. p'.start.cons = Num(p'.start.content, Deferred)
    BY <1>1, <1>3, <1>4 DEF Quiet, Sound, Counted
  <2>2. Num(p'.start.content, Immediate) = 0
    BY <1>1, <1>3, <1>4 DEF Quiet
  <2>3. MaskAtTop(db', p')
    BY <1>4 DEF MaskAtTop
  <2>. QED BY <1>4, <2>1, <2>2, <2>3 DEF StartKept
<1>. QED BY <1>5, <1>6, <1>7 DEF IInv, StatementSound

\* What IInv says when a statement writes.
LEMMA WritingIsSound ==
  ASSUME IInv, Running
  PROVE  /\ LInv /\ Typed /\ db \in Conn /\ p \in Statement
         /\ Len(db.pSavepoint) \in Nat /\ Len(db.pSavepoint) <= MaxSavepoint
         /\ Sound(db) /\ WritesCounted(Contents(db)) /\ StartKept
BY RunningIsInv DEF IInv, StatementSound, Typed

LEMMA OpTransactionIsSound ==
  ASSUME IInv, LInv', NEW d \in Db, NEW fails \in {"no", "first", "second"},
         OpTransaction(d, fails)
  PROVE  IInv'
<1>. DEFINE s == db.store[d]
            n == Len(db.pSavepoint)
            iLevel == IF n = 0 THEN 2 ELSE n + 1
            bStmt == NeedsStatement
            first == IF s.iTransLevel < iLevel THEN KvBegin(s, iLevel) ELSE s
            both == bStmt /\ fails = "no"
            t == IF fails = "first" THEN s
                 ELSE IF both THEN KvBegin(first, first.iTransLevel + 1) ELSE first
            c == [db EXCEPT !.store[d] = t]
            mask == IF both THEN p.stmtTransMask \cup {d} ELSE p.stmtTransMask
            cons == IF bStmt /\ fails # "first" THEN db.nDeferredCons
                    ELSE p.nStmtDefCons
            q == [p EXCEPT !.todo = @ \ {d}, !.failed = fails # "no",
                           !.stmtTransMask = mask, !.nStmtDefCons = cons]
<1>1. Running /\ ~p.failed /\ p.todo # {} /\ d = Min(p.todo)
  BY DEF OpTransaction
<1>2. /\ db \in Conn /\ p \in Statement /\ n \in Nat /\ n <= MaxSavepoint
      /\ Sound(db) /\ WritesCounted(Contents(db)) /\ StartKept
      /\ p.todo \subseteq p.dbs /\ p.stmtTransMask \subseteq p.dbs \ p.todo
      /\ Level(db, d) \in Nat /\ LInv
  BY <1>1, WritingIsSound, RunningIsInv
<1>3. d \in p.todo
  <2>1. p.todo \subseteq Nat
    BY <1>2 DEF Statement
  <2>2. \E m \in p.todo : \A k \in p.todo : m <= k
    BY <1>1, <2>1, LeastOf
  <2>. QED BY <1>1, <2>2 DEF Min
<1>4. Level(db, d) <= n + 1
  BY <1>1, <1>2, <1>3, RunningIsInv
<1>5. /\ Max({2, n + 1}) = iLevel /\ iLevel \in Nat /\ iLevel >= n + 1
      /\ both => n >= 1 /\ iLevel = n + 1
  <2>1. n = 0 <=> db.pSavepoint = <<>>
    BY <1>2, ConnFields
  <2>2. Max({2, n + 1}) = IF 2 >= n + 1 THEN 2 ELSE n + 1
    BY <1>2, MaxOfTwo
  <2>. QED BY <1>2, <2>1, <2>2 DEF NeedsStatement
<1>6. db' = c /\ p' = q /\ reader' = reader
  BY <1>5 DEF OpTransaction, NeedsStatement
\* Only the level changes.
<1>7. /\ t.content = s.content /\ t.atBegin = s.atBegin
      /\ t.iTransLevel = IF fails = "first" THEN Level(db, d)
                         ELSE IF both THEN iLevel + 1 ELSE iLevel
  <2>1. s \in Store /\ s.iTransLevel = Level(db, d)
    BY <1>2, ConnFields DEF Level
  <2>2. \A x \in Store : \A l :
          /\ KvBegin(x, l).content = x.content
          /\ KvBegin(x, l).atBegin = x.atBegin
          /\ KvBegin(x, l).iTransLevel = l
    BY DEF KvBegin, Store
  <2>3. KvBegin(s, iLevel) \in Store
    <3>1. iLevel \in Levels
      BY <1>2 DEF Levels, MaxLevel
    <3>. QED BY <2>1, <3>1, StoreBegin
  <2>4. first \in Store /\ first.content = s.content /\ first.atBegin = s.atBegin
          /\ first.iTransLevel = iLevel
    <3>. HIDE DEF s, iLevel
    <3>1. CASE s.iTransLevel < iLevel
      BY <2>1, <2>2, <2>3, <3>1
    <3>2. CASE ~(s.iTransLevel < iLevel)
      BY <1>2, <1>4, <1>5, <2>1, <3>2
    <3>. QED BY <3>1, <3>2
  <2>. HIDE DEF first, s, both, iLevel
  <2>. QED BY <2>1, <2>2, <2>4
<1>. HIDE DEF t
<1>8. /\ c.pSavepoint = db.pSavepoint /\ c.nDeferredCons = db.nDeferredCons
      /\ \A e \in Db : c.store[e] = IF e = d THEN t ELSE db.store[e]
  BY <1>2 DEF Conn
<1>9. /\ q.todo = p.todo \ {d} /\ q.dbs = p.dbs /\ q.wrote = p.wrote /\ q.runs
      /\ q.failed = (fails # "no") /\ q.needSavepoint = p.needSavepoint
      /\ q.nFkConstraint = p.nFkConstraint /\ q.start = p.start
      /\ q.stmtTransMask = mask /\ q.nStmtDefCons = cons
  <2>. HIDE DEF mask, cons
  <2>. QED BY <1>2 DEF Statement
<1>. HIDE DEF c, q
<1>10. /\ Contents(c) = Contents(db) /\ (\A m : Before(c, m) = Before(db, m))
       /\ \A e \in Db : Level(c, e) = IF e = d THEN t.iTransLevel ELSE Level(db, e)
  BY <1>7, <1>8 DEF Contents, Before, Level
<1>11. t.iTransLevel \in Nat /\ t.iTransLevel >= Level(db, d)
  <2>. HIDE DEF both, iLevel
  <2>. QED BY <1>2, <1>4, <1>5, <1>7
<1>12. Sound(c)
  <2>1. Fresh(c)
    <3>. SUFFICES ASSUME NEW e \in Db, NEW m \in WriteLevels, m > Level(c, e)
                  PROVE  c.store[e].atBegin[m] = c.store[e].content
      BY DEF Fresh
    <3>1. m > Level(db, e)
      <4>1. m \in Nat /\ Level(db, e) \in Nat
        BY <1>2, ConnFields, LevelsAreNat
      <4>. QED BY <1>10, <1>11, <4>1
    <3>2. db.store[e].atBegin[m] = db.store[e].content
      BY <1>2, <3>1 DEF Sound, Fresh
    <3>. QED BY <1>7, <1>8, <3>2
  <2>2. SavedExact(c)
    BY <1>2, <1>8, <1>10 DEF Sound, SavedExact
  <2>3. Based(c) /\ Counted(c)
    BY <1>2, <1>8, <1>10 DEF Sound, Based, Counted
  <2>. QED BY <2>1, <2>2, <2>3 DEF Sound
<1>13. ~p.wrote /\ Contents(db) = p.start.content
  BY <1>1, <1>2 DEF WritesCounted
<1>14. Running'
  BY <1>6, <1>9 DEF Running
<1>15. WritesCounted(Contents(db))'
  <2>1. WritesCounted(Contents(db))
    BY <1>2
  <2>. QED BY <1>6, <1>9, <1>10, <1>13, <2>1 DEF WritesCounted
<1>16. NeedsStatement' <=> NeedsStatement
  <2>1. activeVdbeCnt' = activeVdbeCnt
    BY <1>1, <1>6, <1>14, ActiveCount, ActiveCountNext
  <2>. QED BY <1>6, <1>8, <1>9, <2>1 DEF NeedsStatement
<1>17. StartKept'
  <2>1. /\ q.start.cons = Num(q.start.content, Deferred)
        /\ Num(q.start.content, Immediate) = 0
    BY <1>2, <1>9 DEF StartKept
  <2>2. db.nDeferredCons = p.start.cons
    BY <1>2, <1>13 DEF StartKept, Sound, Counted
  <2>3. q.stmtTransMask # {} => q.nStmtDefCons = q.start.cons
    <3>1. p.stmtTransMask # {} => p.nStmtDefCons = p.start.cons
      BY <1>2 DEF StartKept
    <3>. HIDE DEF bStmt
    <3>. QED BY <1>9, <2>2, <3>1
  <2>4. MaskAtTop(c, q)
    <3>. SUFFICES ASSUME NEW e \in q.stmtTransMask
                  PROVE  c.pSavepoint # <<>> /\ Level(c, e) = Len(c.pSavepoint) + 2
      BY DEF MaskAtTop
    <3>1. CASE e \in p.stmtTransMask
      <4>1. e # d /\ e \in Db /\ db.pSavepoint # <<>> /\ Level(db, e) = n + 2
        BY <1>2, <1>3, <3>1 DEF Statement, StartKept, MaskAtTop
      <4>. QED BY <1>8, <1>10, <4>1
    <3>2. CASE e \notin p.stmtTransMask
      <4>1. e = d /\ both /\ fails # "first"
        BY <1>9, <3>2
      <4>2. t.iTransLevel = n + 2 /\ db.pSavepoint # <<>>
        BY <1>2, <1>5, <1>7, <4>1 DEF NeedsStatement
      <4>. QED BY <1>8, <1>10, <4>1, <4>2
    <3>. QED BY <3>1, <3>2
  <2>5. \A e \in q.stmtTransMask : c.store[e].atBegin[Level(c, e)] = q.start.content[e]
    <3>. TAKE e \in q.stmtTransMask
    <3>1. CASE e \in p.stmtTransMask
      <4>1. e # d /\ e \in Db /\ db.store[e].atBegin[Level(db, e)] = p.start.content[e]
        BY <1>2, <1>3, <3>1 DEF Statement, StartKept
      <4>. QED BY <1>8, <1>9, <1>10, <4>1
    <3>2. CASE e \notin p.stmtTransMask
      <4>1. e = d /\ both /\ fails # "first"
        BY <1>9, <3>2
      <4>2. Level(c, e) = n + 2 /\ n + 2 \in WriteLevels /\ n + 2 > Level(db, d)
        BY <1>2, <1>4, <1>5, <1>7, <1>10, <4>1 DEF WriteLevels, MaxLevel
      <4>3. s.atBegin[n + 2] = s.content
        BY <1>2, <4>2 DEF Sound, Fresh
      <4>4. s.content = p.start.content[d]
        BY <1>13 DEF Contents
      <4>. QED BY <1>7, <1>8, <1>9, <4>1, <4>2, <4>3, <4>4
    <3>. QED BY <3>1, <3>2
  <2>6. ~q.failed => q.stmtTransMask = IF NeedsStatement' THEN q.dbs \ q.todo ELSE {}
    <3>1. p.stmtTransMask = IF NeedsStatement THEN p.dbs \ p.todo ELSE {}
      BY <1>1, <1>2 DEF StartKept
    <3>2. (p.dbs \ p.todo) \cup {d} = p.dbs \ (p.todo \ {d})
      BY <1>2, <1>3
    <3>. QED BY <1>9, <1>16, <3>1, <3>2
  <2>. QED BY <1>6, <2>1, <2>3, <2>4, <2>5, <2>6 DEF StartKept
<1>. QED BY <1>6, <1>12, <1>14, <1>15, <1>17 DEF IInv, StatementSound

LEMMA WriteIsSound ==
  ASSUME IInv, LInv', NEW d \in Db, NEW r \in Row, Write(d, r)
  PROVE  IInv'
<1>. DEFINE s == db.store[d]
            C == SymDiff(s.content, {r})
            k == IF r \in s.content THEN -1 ELSE 1
            n == Len(db.pSavepoint)
            top == IF n = 0 THEN 2 ELSE n + 1
            cons == IF r \in Deferred THEN db.nDeferredCons + k ELSE db.nDeferredCons
            t == KvWrite(s, C)
            c == [db EXCEPT !.store[d] = t, !.nDeferredCons = cons]
            fk == IF r \in Immediate THEN p.nFkConstraint + k ELSE p.nFkConstraint
            q == [p EXCEPT !.wrote = TRUE, !.nFkConstraint = fk]
            f == Contents(db)
            g == [f EXCEPT ![d] = SymDiff(f[d], {r})]
<1>1. Running /\ ~p.failed /\ p.todo = {} /\ d \in p.dbs
        /\ (r \in Immediate => p.needSavepoint)
  BY DEF Write
<1>2. /\ db \in Conn /\ p \in Statement /\ n \in Nat /\ n <= MaxSavepoint
      /\ Sound(db) /\ WritesCounted(f) /\ StartKept /\ LInv
  BY <1>1, WritingIsSound
<1>3. db' = c /\ p' = q /\ reader' = reader
  BY DEF Write
<1>4. s \in Store /\ C \in SUBSET Row /\ f[d] = s.content /\ f \in [Db -> SUBSET Row]
        /\ Level(db, d) = s.iTransLevel /\ Level(db, d) \in Nat
  BY <1>2, ConnFields, LevelsAreNat DEF Store, SymDiff, Contents, Level
<1>5. s.iTransLevel >= top /\ (d \in p.stmtTransMask => s.iTransLevel = n + 2)
  <2>1. Level(db, d) = TopLevel(d)
    BY <1>1, <1>2, RunningIsInv
  <2>2. Max({2, n + 1}) = IF 2 >= n + 1 THEN 2 ELSE n + 1
    BY <1>2, MaxOfTwo
  <2>3. d \in p.stmtTransMask => Level(db, d) = n + 2 /\ n # 0
    BY <1>2, ConnFields DEF StartKept, MaskAtTop
  <2>. QED BY <1>1, <1>2, <1>4, <2>1, <2>2, <2>3 DEF TopLevel
<1>6. /\ t \in Store /\ t.iTransLevel = s.iTransLevel /\ t.content = C
      /\ \A m \in WriteLevels : t.atBegin[m] = IF m <= s.iTransLevel THEN s.atBegin[m]
                                               ELSE C
  <2>. HIDE DEF s, C
  <2>. QED BY <1>4, StoreWrite
<1>. HIDE DEF t
<1>7. cons \in Int /\ fk \in Int
  BY <1>2, SMTT(20) DEF Conn, Statement
<1>. HIDE DEF cons, fk
<1>8. /\ c.pSavepoint = db.pSavepoint /\ c.nDeferredCons = cons
      /\ \A e \in Db : c.store[e] = IF e = d THEN t ELSE db.store[e]
  BY <1>2 DEF Conn
<1>9. /\ q.todo = p.todo /\ q.dbs = p.dbs /\ q.wrote /\ q.runs /\ q.failed = p.failed
      /\ q.needSavepoint = p.needSavepoint /\ q.nFkConstraint = fk
      /\ q.start = p.start /\ q.stmtTransMask = p.stmtTransMask
      /\ q.nStmtDefCons = p.nStmtDefCons
  BY <1>2 DEF Statement
<1>. HIDE DEF c, q
<1>10. Contents(c) = g /\ \A e \in Db : Level(c, e) = Level(db, e)
  <2>1. \A e \in Db : c.store[e].content = IF e = d THEN C ELSE db.store[e].content
    BY <1>6, <1>8
  <2>2. \A e \in Db : g[e] = IF e = d THEN C ELSE db.store[e].content
    BY <1>4 DEF Contents
  <2>3. g \in [Db -> SUBSET Row] /\ DOMAIN g = Db
    BY <1>4
  <2>4. Contents(c) = g
    <3>. HIDE DEF g, C
    <3>. QED BY <2>1, <2>2, <2>3 DEF Contents
  <2>. QED BY <1>6, <1>8, <2>4 DEF Level
<1>11. \A m \in WriteLevels : m <= top => Before(c, m) = Before(db, m)
  <2>. SUFFICES ASSUME NEW m \in WriteLevels, m <= top
                PROVE  \A e \in Db : c.store[e].atBegin[m] = db.store[e].atBegin[m]
    BY DEF Before
  <2>1. m <= s.iTransLevel
    <3>1. m \in Nat /\ top \in Nat
      BY <1>2, LevelsAreNat
    <3>. HIDE DEF top, s
    <3>. QED BY <1>4, <1>5, <3>1
  <2>. HIDE DEF top
  <2>. QED BY <1>6, <1>8, <2>1
<1>12. /\ Num(g, Deferred) = IF r \notin Deferred THEN Num(f, Deferred)
                             ELSE Num(f, Deferred) + k
       /\ Num(g, Immediate) = IF r \notin Immediate THEN Num(f, Immediate)
                              ELSE Num(f, Immediate) + k
  <2>1. \A S \in SUBSET Row :
          Num(g, S) = IF r \notin S THEN Num(f, S)
                      ELSE IF r \in f[d] THEN Num(f, S) - 1 ELSE Num(f, S) + 1
    <3>1. f \in [Db -> SUBSET Row]
      BY <1>4
    <3>. HIDE DEF f
    <3>2. Toggled(f, d, r, g)
      BY <3>1 DEF Toggled, SymDiff
    <3>. HIDE DEF g
    <3>3. SUFFICES ASSUME NEW S \in SUBSET Row
                   PROVE Num(g, S) = IF r \notin S THEN Num(f, S)
                      ELSE IF r \in f[d] THEN Num(f, S) - 1 ELSE Num(f, S) + 1
      OBVIOUS
    <3>4. CASE r \notin S
      BY <3>2, <3>4, NumWrite
    <3>5. CASE r \in S /\ r \in f[d]
      BY <3>2, <3>5, NumWrite
    <3>6. CASE r \in S /\ r \notin f[d]
      BY <3>2, <3>6, NumWrite
    <3>. QED BY <3>4, <3>5, <3>6
  <2>2. Deferred \in SUBSET Row /\ Immediate \in SUBSET Row
    OBVIOUS
  <2>3. k = IF r \in f[d] THEN -1 ELSE 1
    BY <1>4
  <2>4. Num(f, Deferred) \in Nat /\ Num(f, Immediate) \in Nat
    BY PairsAreFinite
  <2>. HIDE DEF f, g, k
  <2>. QED BY <2>1, <2>2, <2>3, <2>4
<1>13. Sound(c)
  <2>1. Fresh(c)
    <3>. SUFFICES ASSUME NEW e \in Db, NEW m \in WriteLevels, m > Level(c, e)
                  PROVE  c.store[e].atBegin[m] = c.store[e].content
      BY DEF Fresh
    <3>1. m > Level(db, e) /\ m \in Nat
      BY <1>10, LevelsAreNat
    <3>2. CASE e = d
      <4>. HIDE DEF s, C
      <4>1. c.store[e] = t
        BY <1>8, <3>2
      <4>2. ~(m <= s.iTransLevel)
        BY <1>4, <3>1, <3>2
      <4>. QED BY <1>6, <4>1, <4>2
    <3>3. CASE e # d
      BY <1>2, <1>8, <3>1, <3>3 DEF Sound, Fresh
    <3>. QED BY <3>2, <3>3
  <2>2. SavedExact(c)
    <3>1. \A i \in 1..n : i + 1 \in WriteLevels /\ i + 1 <= top
      BY <1>2 DEF WriteLevels, MaxLevel
    <3>2. \A i \in 1..n : Before(c, i + 1) = Before(db, i + 1)
      BY <1>11, <3>1
    <3>. QED BY <1>2, <1>8, <3>2 DEF Sound, SavedExact
  <2>3. Based(c)
    <3>1. 2 \in WriteLevels /\ 2 <= top
      BY <1>2 DEF WriteLevels, MaxLevel
    <3>2. Before(c, 2) = Before(db, 2)
      BY <1>11, <3>1
    <3>. QED BY <1>2, <3>2 DEF Sound, Based
  <2>4. Counted(c)
    <3>1. db.nDeferredCons = Num(f, Deferred)
      BY <1>2 DEF Sound, Counted
    <3>2. cons = Num(g, Deferred)
      BY <1>12, <3>1 DEF cons
    <3>. QED BY <1>8, <1>10, <3>2 DEF Counted
  <2>. QED BY <2>1, <2>2, <2>3, <2>4 DEF Sound
<1>14. Running' /\ (NeedsStatement' <=> NeedsStatement)
  <2>1. Running'
    BY <1>3, <1>9 DEF Running
  <2>2. activeVdbeCnt' = activeVdbeCnt
    BY <1>1, <1>3, <2>1, ActiveCount, ActiveCountNext
  <2>. QED BY <1>3, <1>8, <1>9, <2>1, <2>2 DEF NeedsStatement
<1>15. WritesCounted(Contents(db))'
  <2>1. \A e \in Db \ p.dbs : g[e] = p.start.content[e]
    BY <1>1, <1>2, <1>4 DEF WritesCounted
  <2>2. p.nFkConstraint = Num(f, Immediate) /\ p.dbs # {}
          /\ (~p.needSavepoint => p.nFkConstraint = 0)
    BY <1>2 DEF WritesCounted
  <2>3. fk = Num(g, Immediate) /\ (~p.needSavepoint => fk = 0)
    BY <1>1, <1>12, <2>2 DEF fk
  <2>. HIDE DEF g, f
  <2>. QED BY <1>1, <1>3, <1>9, <1>10, <2>1, <2>2, <2>3 DEF WritesCounted
<1>16. StartKept'
  <2>1. /\ q.start.cons = Num(q.start.content, Deferred)
        /\ Num(q.start.content, Immediate) = 0
        /\ q.stmtTransMask # {} => q.nStmtDefCons = q.start.cons
        /\ p.stmtTransMask = IF NeedsStatement THEN p.dbs \ p.todo ELSE {}
    BY <1>1, <1>2, <1>9 DEF StartKept
  <2>2. MaskAtTop(c, q)
    BY <1>2, <1>8, <1>9, <1>10 DEF StartKept, MaskAtTop, Statement
  <2>3. \A e \in q.stmtTransMask : c.store[e].atBegin[Level(c, e)] = q.start.content[e]
    <3>. TAKE e \in q.stmtTransMask
    <3>1. e \in Db /\ db.store[e].atBegin[Level(db, e)] = p.start.content[e]
      BY <1>2, <1>9 DEF StartKept, Statement
    <3>2. CASE e = d
      <4>1. Level(db, d) \in WriteLevels /\ Level(db, d) <= s.iTransLevel
        <5>1. Level(db, d) = n + 2
          BY <1>4, <1>5, <1>9, <3>2
        <5>. QED BY <1>2, <1>4, <5>1 DEF WriteLevels, MaxLevel
      <4>2. t.atBegin[Level(db, d)] = s.atBegin[Level(db, d)]
        BY <1>6, <4>1
      <4>. QED BY <1>8, <1>9, <1>10, <3>1, <3>2, <4>2
    <3>3. CASE e # d
      BY <1>8, <1>9, <1>10, <3>1, <3>3
    <3>. QED BY <3>2, <3>3
  <2>4. ~q.failed => q.stmtTransMask = IF NeedsStatement' THEN q.dbs \ q.todo ELSE {}
    BY <1>9, <1>14, <2>1
  <2>. QED BY <1>3, <2>1, <2>2, <2>3, <2>4 DEF StartKept
<1>. QED BY <1>3, <1>13, <1>14, <1>15, <1>16 DEF IInv, StatementSound

LEMMA WriteEndIsSound ==
  ASSUME UndoesOwnLevel, IInv, LInv', NEW rc \in Results, NEW bad, WriteEnd(rc, bad)
  PROVE  IInv'
<1>. DEFINE others == activeVdbeCnt - 1
            f == Contents(db)
<1>1. /\ Running /\ p' = NoStmt
      /\ db' = VdbeHalt(db, p, rc, others, writeVdbeCnt, bad).db
  BY DEF WriteEnd
<1>2. /\ db \in Conn /\ p \in Statement /\ Sound(db) /\ WritesCounted(f) /\ StartKept
      /\ LInv /\ p.stmtTransMask \subseteq p.dbs \ p.todo
  BY <1>1, WritingIsSound, RunningIsInv
<1>3. HaltIsDue(db, p, rc, others, writeVdbeCnt)
  BY <1>1, <1>2, WriteHaltIsDue
<1>. HIDE DEF others
<1>4. p.nFkConstraint = Num(f, Immediate) /\ MaskAtTop(db, p)
  BY <1>2 DEF WritesCounted, StartKept
<1>5. \A d \in Db \ p.stmtTransMask : p.stmtTransMask # {} => f[d] = p.start.content[d]
  <2>. TAKE d \in Db \ p.stmtTransMask
  <2>. HAVE p.stmtTransMask # {}
  <2>1. CASE p.failed \/ p.todo # {}
    BY <1>2, <2>1 DEF WritesCounted
  <2>2. CASE ~p.failed /\ p.todo = {}
    BY <1>2, <2>2 DEF WritesCounted, StartKept
  <2>. QED BY <2>1, <2>2
<1>6. p.stmtTransMask # {} => ClosesExactly(db, p, TRUE)
  <2>. HAVE p.stmtTransMask # {}
  <2>1. \A d \in Db : Undone(db, p)[d] = p.start.content[d]
    BY <1>2, <1>5 DEF Undone, StartKept, Contents
  <2>2. Undone(db, p) = p.start.content
    BY <1>2, <2>1 DEF Undone, Statement
  <2>. QED BY <1>2, <2>2 DEF ClosesExactly, StartKept
<1>7. p.stmtTransMask = {} /\ db.pSavepoint # <<>> => p.nFkConstraint = 0
  <2>. HAVE p.stmtTransMask = {} /\ db.pSavepoint # <<>>
  <2>1. CASE p.failed \/ p.todo # {}
    BY <1>2, <2>1 DEF WritesCounted, StartKept
  <2>2. CASE ~p.failed /\ p.todo = {}
    BY <1>2, <2>2 DEF WritesCounted, StartKept, NeedsStatement
  <2>. QED BY <2>1, <2>2
<1>8. Quiet(db')
  <2>. HIDE DEF f
  <2>1. Sound(db') /\ Num(Contents(db'), Immediate) = 0
    BY <1>1, <1>2, <1>3, <1>4, <1>6, <1>7, HaltIsSound DEF f
  <2>. QED BY <2>1 DEF Quiet
<1>9. ~Running'
  BY <1>1 DEF Running, NoStmt
<1>. QED BY <1>8, <1>9, QuietIsInvNext

LEMMA NextIInv ==
  ASSUME ~TxnApi, UndoesOwnLevel, IInv, [Next]_vars
  PROVE  IInv'
<1>. USE DEF Results
<1>1. LInv'
  BY NextLInv DEF IInv
<1>2. ASSUME NEW r \in Reader, NEW ds \in SUBSET Db, SelectBegin(r, ds) PROVE IInv'
  BY <1>1, <1>2, SelectBeginIsSound
<1>3. ASSUME NEW r \in Reader, NEW rc \in {"ok", "error"}, NEW bad \in Bad,
             SelectEnd(r, rc, bad)
      PROVE  IInv'
  <2>1. rc \in Results
    OBVIOUS
  <2>. QED BY <1>1, <1>3, <2>1, SelectEndIsSound
<1>4. ASSUME NEW n \in Names, NEW bad \in Bad, SavepointBegin(n, bad) PROVE IInv'
  BY <1>1, <1>4, SavepointBeginIsSound
<1>5. ASSUME NEW n \in Names, NEW bad \in Bad, SavepointRelease(n, bad) PROVE IInv'
  BY <1>1, <1>5, SavepointReleaseIsSound
<1>6. ASSUME NEW n \in Names, NEW bad \in Bad, SavepointRollback(n, bad) PROVE IInv'
  BY <1>1, <1>6, SavepointRollbackIsSound
<1>7. ASSUME NEW need \in BOOLEAN, NEW ds \in SUBSET Db, WriteBegin(need, ds) PROVE IInv'
  BY <1>1, <1>7, WriteBeginIsSound
<1>8. ASSUME NEW d \in Db, NEW fails \in {"no", "first", "second"},
             OpTransaction(d, fails)
      PROVE  IInv'
  BY <1>1, <1>8, OpTransactionIsSound
<1>9. ASSUME NEW d \in Db, NEW r \in Row, Write(d, r) PROVE IInv'
  BY <1>1, <1>9, WriteIsSound
<1>10. ASSUME NEW rc \in Results, NEW bad \in Bad, WriteEnd(rc, bad) PROVE IInv'
  BY <1>1, <1>10, WriteEndIsSound
<1>11. CASE UNCHANGED vars
  <2>1. NeedsStatement' <=> NeedsStatement
    BY <1>11 DEF vars, NeedsStatement, activeVdbeCnt, ActiveReaders, Running
  <2>. QED BY <1>1, <1>11, <2>1 DEF vars, IInv, StatementSound, WritesCounted, StartKept,
                                    Running
<1>12. ~ \/ sqlite4_txn_begin
         \/ \E l \in 0..1 : sqlite4_txn_rollback(l)
         \/ \E bad \in Bad : sqlite4_txn_commit_phase_one(bad)
         \/ sqlite4_txn_commit_phase_two
         \/ \E bad \in Bad : sqlite4_txn_commit(bad)
  BY DEF sqlite4_txn_begin, sqlite4_txn_rollback, sqlite4_txn_commit_phase_one,
         sqlite4_txn_commit_phase_two, sqlite4_txn_commit, Api
<1>. QED BY <1>2, <1>3, <1>4, <1>5, <1>6, <1>7, <1>8, <1>9, <1>10, <1>11, <1>12
         DEF Next

-----------------------------------------------------------------------------
(***************************************************************************)
(* The connection, its stores and its statement always have the types the  *)
(* code gives them: no store is taken above the level of a statement       *)
(* transaction in the innermost savepoint, and sqlite4VdbeHalt returns one *)
(* of the results.                                                         *)
(***************************************************************************)
THEOREM TypeCorrect == ~TxnApi => (Spec => []TypeOK)
<1>. SUFFICES ASSUME ~TxnApi PROVE Spec => []TypeOK
  OBVIOUS
<1>1. LInv /\ [Next]_vars => LInv'
  BY NextLInv
<1>2. LInv => TypeOK
  BY DEF LInv, Typed, TypeOK, Conn, Results
<1>. QED BY InitLInv, <1>1, <1>2, PTL DEF Spec

(***************************************************************************)
(* As long as the application leaves the sqlite4_txn_ functions alone, the *)
(* levels of all stores follow the savepoints and the statement that       *)
(* writes, whatever xBegin or phase one fails, whatever is rolled back and *)
(* whichever SELECTs are active (vdbeaux.c, vdbe.c OP_Transaction and      *)
(* OP_Savepoint).                                                          *)
(***************************************************************************)
THEOREM LevelsFollow == ~TxnApi => (Spec => []LevelsFollowSavepoints)
<1>. SUFFICES ASSUME ~TxnApi PROVE Spec => []LevelsFollowSavepoints
  OBVIOUS
<1>1. LInv /\ [Next]_vars => LInv'
  BY NextLInv
<1>2. LInv => LevelsFollowSavepoints
  BY DEF LInv
<1>. QED BY InitLInv, <1>1, <1>2, PTL DEF Spec

(***************************************************************************)
(* Over stores whose xRollback(N) undoes level N as well, the counters of  *)
(* foreign-key violations agree with the rows, through every rollback of a *)
(* statement, a savepoint or the transaction (OP_FkCounter,                *)
(* sqlite4VdbeRollback, vdbeCloseStatement), and no statement leaves a     *)
(* violation of an immediate key (sqlite4VdbeCheckFk).                     *)
(***************************************************************************)
THEOREM CountersAreExact ==
    ~TxnApi /\ UndoesOwnLevel => (Spec => []FkCountersExact)
<1>. SUFFICES ASSUME ~TxnApi, UndoesOwnLevel PROVE Spec => []FkCountersExact
  OBVIOUS
<1>1. IInv /\ [Next]_vars => IInv'
  BY NextIInv
<1>2. ASSUME IInv PROVE FkCountersExact
  <2>1. \A S : Count(S) = Num(Contents(db), S)
    BY DEF Count, Num, Pairs, Contents
  <2>2. db.nDeferredCons = Num(Contents(db), Deferred)
    BY <1>2 DEF IInv, Sound, Counted
  <2>3. Num(Contents(db), Immediate) = IF Running THEN p.nFkConstraint ELSE 0
    BY <1>2 DEF IInv, StatementSound, WritesCounted
  <2>. QED BY <2>1, <2>2, <2>3 DEF FkCountersExact
<1>. QED BY InitIInv, <1>1, <1>2, PTL DEF Spec

(***************************************************************************)
(* Over the same stores nothing that violates a foreign key is ever        *)
(* committed, by a command or by the end of a statement, to any of the     *)
(* databases, even if phase one fails on one of them (sqlite4VdbeCheckFk,  *)
(* sqlite4VdbeHalt, OP_Savepoint).                                         *)
(***************************************************************************)
THEOREM CommitsAreConsistent ==
    ~TxnApi /\ UndoesOwnLevel => (Spec => []CommittedIsConsistent)
<1>. SUFFICES ASSUME ~TxnApi, UndoesOwnLevel PROVE Spec => []CommittedIsConsistent
  OBVIOUS
<1>1. IInv /\ [Next]_vars => IInv'
  BY NextIInv
<1>2. IInv => CommittedIsConsistent
  BY DEF IInv, Sound, Based, Clean, Before, CommittedIsConsistent, Committed
<1>. QED BY InitIInv, <1>1, <1>2, PTL DEF Spec

-----------------------------------------------------------------------------
(***************************************************************************)
(* What the steps of a connection do: which of them make changes permanent,*)
(* and that the virtual machine keeps the promises of the SQL commands.    *)
(*                                                                         *)
(* What is permanent of a database is its base, the snapshot of level 2 or *)
(* the content when there is none.  The invariant AInv follows it through  *)
(* the functions of vdbeaux.c; it holds for stores of either kind and      *)
(* whatever the application calls.                                         *)
(*                                                                         *)
(* VdbeTxn implements SqlTxn over stores whose xRollback(N) undoes level N *)
(* as well, as long as phase one of a commit does not fail and the         *)
(* application leaves the sqlite4_txn_ functions alone.  These conditions  *)
(* are needed: a commit that fails rolls back all savepoints, which no SQL *)
(* command promises.  The argument is IInv and one clause more, the        *)
(* content to which a statement outside a transaction goes back.  One      *)
(* lemma for each function of vdbeaux.c says what it does to the contents, *)
(* the savepoints and the counter, and each action of VdbeTxn is an action *)
(* of SqlTxn or changes none of them.                                      *)
(***************************************************************************)

-----------------------------------------------------------------------------
(* The end of a program, sqlite4VdbeHalt.                                  *)

\* Violations of immediate keys abort the statement.
Resolved(q, rc) ==
    IF rc \in {"ok", "fail"} /\ q.nFkConstraint > 0 THEN "abort" ELSE rc

\* The program ends the transaction.
EndsAll(c, q, rc) == Resolved(q, rc) = "rollback" \/ c.pSavepoint = <<>>

\* What it returns: deferred violations abort what ends the transaction.
Returned(c, q, rc) ==
    IF EndsAll(c, q, rc) /\ Resolved(q, rc) \in {"ok", "fail"} /\ c.nDeferredCons > 0
    THEN "abort" ELSE Resolved(q, rc)

Commits(c, q, rc) == Returned(c, q, rc) \in {"ok", "fail"}

\* writeVdbeCnt, when no program writes but q.
OnlyWriter(q, writers) == writers = IF q.readOnly THEN 0 ELSE 1

LEMMA HaltReturns ==
  ASSUME NEW c, NEW q, NEW rc, NEW others, NEW writers,
         OnlyWriter(q, writers)
  PROVE  VdbeHalt(c, q, rc, others, writers, {}).rc = Returned(c, q, rc)
BY DEF VdbeHalt, Resolved, EndsAll, Returned, OnlyWriter

\* The connection before the last active program ends the reading, if it does.
Ended(c, q, rc) ==
    IF EndsAll(c, q, rc)
    THEN [(IF Commits(c, q, rc) THEN VdbeCommit(c, 1, {})
           ELSE VdbeRollback(c, 1)) EXCEPT !.nDeferredCons = 0]
    ELSE IF q.stmtTransMask # {} THEN CloseStatement(c, q, ~Commits(c, q, rc), {})
    ELSE c

LEMMA HaltIs ==
  ASSUME NEW c, NEW q, NEW rc, NEW others, NEW writers,
         OnlyWriter(q, writers)
  PROVE  VdbeHalt(c, q, rc, others, writers, {}).db =
           IF Ended(c, q, rc).pSavepoint = <<>> /\ others = 0
           THEN VdbeRollback(Ended(c, q, rc), 0) ELSE Ended(c, q, rc)
BY DEF VdbeHalt, Resolved, EndsAll, Returned, Commits, Ended, OnlyWriter

-----------------------------------------------------------------------------
(* What is left when a transaction is rolled back: its base.               *)

\* When no store is written, the transaction has nothing to undo.
LEMMA AtRest ==
  ASSUME NEW c \in Conn, Fresh(c), \A d \in Db : Level(c, d) <= 1
  PROVE  Before(c, 2) = Contents(c)
<1>1. 2 \in WriteLevels /\ \A d \in Db : Level(c, d) \in Nat
  <2>1. 2 \in WriteLevels
    BY DEF WriteLevels, MaxLevel
  <2>2. \A d \in Db : Level(c, d) \in Nat
    BY ConnFields, LevelsAreNat
  <2>. QED BY <2>1, <2>2
<1>2. \A d \in Db : c.store[d].atBegin[2] = c.store[d].content
  <2>. TAKE d \in Db
  <2>1. Level(c, d) \in Nat /\ Level(c, d) <= 1
    BY <1>1
  <2>2. 2 > Level(c, d)
    <3>. HIDE DEF Level
    <3>. QED BY <2>1
  <2>3. \A m \in WriteLevels : m > Level(c, d) => c.store[d].atBegin[m] = c.store[d].content
    BY Zenon DEF Fresh
  <2>. QED BY <1>1, <2>2, <2>3, Zenon
<1>. QED BY <1>2 DEF Before, Contents

LEMMA ContentsType ==
  ASSUME NEW c \in Conn
  PROVE  /\ Contents(c) \in [Db -> SUBSET Row]
         /\ \A m \in WriteLevels : Before(c, m) \in [Db -> SUBSET Row]
BY ConnFields DEF Contents, Before, Store

\* A rollback keeps the base; one of the whole transaction goes back to it.
LEMMA StoreRollbackBase ==
  ASSUME NEW s \in Store, NEW l \in Levels
  PROVE  /\ KvRollback(s, l).atBegin[2] = s.atBegin[2]
         /\ l <= 1 => KvRollback(s, l).content = s.atBegin[2]
         /\ \A m \in WriteLevels :
              m > l => KvRollback(s, l).atBegin[m] = KvRollback(s, l).content
<1>. DEFINE u == UndoneFrom(l)
            C == IF u \in WriteLevels THEN s.atBegin[u] ELSE s.content
            s1 == [s EXCEPT !.iTransLevel = l]
<1>1. l \in Nat /\ 2 \in WriteLevels
  BY DEF Levels, WriteLevels, MaxLevel
<1>2. l <= 1 => u = 2
  BY <1>1, MaxOfTwo DEF UndoneFrom
<1>3. KvRollback(s, l) = KvWrite(s1, C)
  BY DEF KvRollback
<1>4. s1 \in Store /\ s1.iTransLevel = l /\ s1.atBegin = s.atBegin /\ C \in SUBSET Row
  BY DEF Store
<1>5. l <= 1 => C = s.atBegin[2]
  BY <1>1, <1>2
<1>. HIDE DEF s1, C
<1>6. /\ KvRollback(s, l).content = C
      /\ \A m \in WriteLevels : KvRollback(s, l).atBegin[m] =
                                  IF m <= l THEN s.atBegin[m] ELSE C
  BY <1>3, <1>4, StoreWrite
<1>7. \A m \in WriteLevels : m \in Nat
  BY DEF WriteLevels
<1>. QED BY <1>1, <1>5, <1>6, <1>7

LEMMA RollbackBase ==
  ASSUME NEW c \in Conn, Fresh(c), NEW l \in Levels
  PROVE  LET r == VdbeRollback(c, l)
         IN /\ r \in Conn /\ Fresh(r) /\ Before(r, 2) = Before(c, 2)
            /\ l <= 1 => Contents(r) = Before(c, 2)
<1>. DEFINE undone == [d \in Db |-> IF c.store[d].iTransLevel >= l
                                    THEN KvRollback(c.store[d], l) ELSE c.store[d]]
            r == VdbeRollback(c, l)
<1>1. /\ r \in Conn
      /\ \A d \in Db : Level(r, d) = IF Level(c, d) >= l THEN l ELSE Level(c, d)
  BY RollbackLevels
<1>2. r.store = undone
  <2>. DEFINE c1 == [c EXCEPT !.store = undone]
              freed == FreeSavepoints(c1, l)
              n == IF freed.pSavepoint = <<>> THEN 0
                   ELSE Last(freed.pSavepoint).nDeferredCons
  <2>1. r = [freed EXCEPT !.nDeferredCons = n]
    BY DEF VdbeRollback
  <2>2. c1 \in Conn /\ c1.store = undone
    <3>1. undone \in [Db -> Store]
      BY ConnFields, StoreRollback
    <3>. HIDE DEF undone
    <3>. QED BY <3>1 DEF Conn
  <2>3. freed \in Conn /\ freed.store = c1.store
    <3>. HIDE DEF c1
    <3>. QED BY <2>2, SavepointsFreed, LevelsAreNat
  <2>. HIDE DEF freed, n, r
  <2>4. r.store = freed.store
    BY <2>1, <2>3 DEF Conn
  <2>. QED BY <2>2, <2>3, <2>4
<1>. HIDE DEF r
<1>3. \A d \in Db : c.store[d] \in Store /\ Level(c, d) \in Nat /\ l \in Nat
  BY ConnFields, LevelsAreNat
<1>4. \A d \in Db : \A m \in WriteLevels :
        m > Level(r, d) => r.store[d].atBegin[m] = r.store[d].content
  <2>. TAKE d \in Db
  <2>. TAKE m \in WriteLevels
  <2>. HAVE m > Level(r, d)
  <2>1. CASE Level(c, d) >= l
    BY <1>1, <1>2, <1>3, <2>1, StoreRollbackBase DEF Level
  <2>2. CASE ~(Level(c, d) >= l)
    BY <1>1, <1>2, <1>3, <2>2 DEF Level, Fresh
  <2>. QED BY <2>1, <2>2
<1>5. \A d \in Db : /\ r.store[d].atBegin[2] = c.store[d].atBegin[2]
                    /\ l <= 1 => r.store[d].content = c.store[d].atBegin[2]
  <2>. TAKE d \in Db
  <2>1. CASE Level(c, d) >= l
    BY <1>2, <1>3, <2>1, StoreRollbackBase DEF Level
  <2>2. CASE ~(Level(c, d) >= l)
    <3>1. r.store[d] = c.store[d]
      BY <1>2, <2>2 DEF Level
    <3>2. l <= 1 => c.store[d].atBegin[2] = c.store[d].content
      <4>1. 2 \in WriteLevels
        BY DEF WriteLevels, MaxLevel
      <4>2. l <= 1 => 2 > Level(c, d)
        BY <1>3, <2>2
      <4>. QED BY <4>1, <4>2 DEF Fresh
    <3>. QED BY <3>1, <3>2
  <2>. QED BY <2>1, <2>2
<1>. QED BY <1>1, <1>4, <1>5 DEF r, Fresh, Before, Contents

\* A commit of the whole transaction makes all of it the base, one of a savepoint
\* nothing.
LEMMA CommitBase ==
  ASSUME NEW c \in Conn, Fresh(c), NEW l \in Levels, l >= 1
  PROVE  LET r == VdbeCommit(c, l, {})
         IN /\ r \in Conn /\ Fresh(r) /\ Contents(r) = Contents(c)
            /\ r.nDeferredCons = c.nDeferredCons
            /\ Len(r.pSavepoint) = LeastLen(c, l)
            /\ l >= 2 => Before(r, 2) = Before(c, 2)
            /\ l = 1 => Before(r, 2) = Contents(c)
            /\ \A d \in Db : Level(r, d) = IF Level(c, d) > l THEN l ELSE Level(c, d)
<1>. DEFINE c1 == SomeCommitted(c, l, Above(c, l))
            stores == [d \in Db |-> IF d \in Above(c, l) THEN KvCommit(c.store[d], l)
                                    ELSE c.store[d]]
            r == VdbeCommit(c, l, {})
<1>1. l \in Nat /\ 2 \in WriteLevels /\ \A m \in WriteLevels : m \in Nat
  BY LevelsAreNat DEF WriteLevels, MaxLevel
<1>2. \A d \in Db : /\ c.store[d] \in Store /\ Level(c, d) \in Nat
                    /\ d \in Above(c, l) <=> Level(c, d) > l
  BY ConnFields, LevelsAreNat DEF Above, Level
<1>3. r = FreeSavepoints(c1, l)
  <2>1. {d \in Above(c, l) : \A f \in {} \cap Above(c, l) : d < f} = Above(c, l)
    OBVIOUS
  <2>. QED BY <2>1 DEF VdbeCommit, SomeCommitted
<1>4. c1 \in Conn /\ c1.store = stores /\ c1.nDeferredCons = c.nDeferredCons
  <2>1. stores \in [Db -> Store]
    BY <1>2, StoreCommit
  <2>2. c1 = [c EXCEPT !.store = stores]
    BY DEF SomeCommitted
  <2>. HIDE DEF stores, c1
  <2>. QED BY <2>1, <2>2 DEF Conn
<1>. HIDE DEF c1
<1>5. /\ FreeSavepoints(c1, l).store = stores
      /\ FreeSavepoints(c1, l).nDeferredCons = c.nDeferredCons
  BY <1>1, <1>4, SavepointsFreed
<1>6. /\ r \in Conn /\ Len(r.pSavepoint) = LeastLen(c, l)
      /\ \A d \in Db : Level(r, d) = IF Level(c, d) > l THEN l ELSE Level(c, d)
  <2>1. {} \cap Above(c, l) = {}
    OBVIOUS
  <2>. QED BY <2>1, CommitLevels
<1>7. r.store = stores /\ r.nDeferredCons = c.nDeferredCons
  BY <1>3, <1>5
<1>. HIDE DEF r
<1>8. \A d \in Db :
        /\ r.store[d].content = c.store[d].content
        /\ \A m \in WriteLevels : r.store[d].atBegin[m] =
             IF Level(c, d) > l /\ m > l THEN c.store[d].content
             ELSE c.store[d].atBegin[m]
  BY <1>1, <1>2, <1>7, StoreCommit
<1>9. \A d \in Db : \A m \in WriteLevels :
        m > Level(c, d) => c.store[d].atBegin[m] = c.store[d].content
  BY DEF Fresh
<1>10. Fresh(r)
  BY <1>1, <1>2, <1>6, <1>8, <1>9 DEF Fresh
<1>11. /\ l >= 2 => \A d \in Db : r.store[d].atBegin[2] = c.store[d].atBegin[2]
       /\ l = 1 => \A d \in Db : r.store[d].atBegin[2] = c.store[d].content
  BY <1>1, <1>2, <1>8, <1>9
<1>. QED BY <1>6, <1>7, <1>8, <1>10, <1>11 DEF r, Before, Contents

\* The statement transactions that a halt may close are not those of the databases.
Inner(c, q) == HasStatement(q) /\ \A d \in q.stmtTransMask : Level(c, d) > 2

LEMMA CloseBase ==
  ASSUME NEW c \in Conn, Fresh(c), NEW q, Inner(c, q), NEW undo \in BOOLEAN
  PROVE  LET r == CloseStatement(c, q, undo, {})
         IN /\ r \in Conn /\ r.pSavepoint = c.pSavepoint
            /\ Fresh(r) /\ Before(r, 2) = Before(c, 2)
            /\ ~undo => Contents(r) = Contents(c)
            /\ \A d \in Db : Level(r, d) = IF d \in q.stmtTransMask THEN Level(c, d) - 1
                                           ELSE Level(c, d)
<1>. DEFINE r == CloseStatement(c, q, undo, {})
            M == q.stmtTransMask
            top(d) == Level(c, d)
            mid(d) == IF undo THEN KvRollback(c.store[d], top(d)) ELSE c.store[d]
            stores == [d \in Db |-> IF d \in M THEN KvCommit(mid(d), top(d) - 1)
                                    ELSE c.store[d]]
<1>1. /\ 2 \in WriteLevels /\ \A m \in WriteLevels : m \in Nat
      /\ \A d \in Db : c.store[d] \in Store /\ top(d) \in Levels /\ top(d) \in Nat
  <2>1. 2 \in WriteLevels /\ \A m \in WriteLevels : m \in Nat
    BY DEF WriteLevels, MaxLevel
  <2>. QED BY <2>1, ConnFields, LevelsAreNat
<1>2. M \subseteq Db /\ \A d \in M : d \in Db /\ top(d) > 2 /\ top(d) - 1 \in Levels
  <2>1. M \subseteq Db /\ \A d \in M : Level(c, d) > 2
    BY DEF Inner, HasStatement
  <2>2. MaxLevel \in Nat
    BY LevelsAreNat
  <2>3. \A d \in M : d \in Db /\ Level(c, d) \in Levels
    BY <1>1, <2>1
  <2>. QED BY <2>1, <2>2, <2>3 DEF Levels
<1>3. /\ r \in Conn /\ r.pSavepoint = c.pSavepoint
      /\ \A d \in Db : Level(r, d) = IF d \in M THEN top(d) - 1 ELSE top(d)
  <2>1. {} \cap M = {} /\ \A d \in M : Level(c, d) >= 2
    <3>1. \A d \in M : Level(c, d) >= 2
      <4>. TAKE d \in M
      <4>1. d \in Db /\ Level(c, d) > 2
        BY <1>2
      <4>2. Level(c, d) \in Nat
        BY <1>1, <4>1
      <4>. QED BY <4>1, <4>2
    <3>. QED BY <3>1
  <2>. QED BY <1>2, <2>1, CloseLevels DEF Inner
<1>4. \A d \in M : /\ mid(d) \in Store /\ mid(d).atBegin[2] = c.store[d].atBegin[2]
                   /\ ~undo => mid(d).content = c.store[d].content
                   /\ \A m \in WriteLevels : m > top(d) => mid(d).atBegin[m] = mid(d).content
  <2>. TAKE d \in M
  <2>1. CASE undo
    BY <1>1, <1>2, <2>1, StoreRollback, StoreRollbackBase
  <2>2. CASE ~undo
    BY <1>1, <1>2, <2>2 DEF Fresh
  <2>. QED BY <2>1, <2>2
<1>5. r.store = stores
  <2>. DEFINE cons == IF undo THEN q.nStmtDefCons ELSE c.nDeferredCons
  <2>1. {d \in M : \A f \in {} \cap M : d < f} = M
    OBVIOUS
  <2>2. r = [c EXCEPT !.store = stores, !.nDeferredCons = cons]
    BY <2>1 DEF CloseStatement, Level
  <2>. HIDE DEF r, stores, cons
  <2>. QED BY <2>2 DEF Conn
<1>. HIDE DEF r, mid, M
<1>6. \A d \in M : /\ r.store[d].content = mid(d).content
                   /\ \A m \in WriteLevels : r.store[d].atBegin[m] =
                        IF m <= top(d) - 1 THEN mid(d).atBegin[m] ELSE mid(d).content
  <2>. TAKE d \in M
  <2>1. r.store[d] = KvCommit(mid(d), top(d) - 1)
    BY <1>2, <1>5
  <2>. QED BY <1>2, <1>4, <2>1, StoreCommit
<1>7. \A d \in Db \ M : r.store[d] = c.store[d]
  BY <1>5
<1>8. Fresh(r)
  <2>. SUFFICES ASSUME NEW d \in Db, NEW m \in WriteLevels, m > Level(r, d)
                PROVE  r.store[d].atBegin[m] = r.store[d].content
    BY DEF Fresh
  <2>1. CASE d \in M
    BY <1>1, <1>2, <1>3, <1>6, <2>1
  <2>2. CASE d \notin M
    BY <1>1, <1>3, <1>7, <2>2 DEF Fresh
  <2>. QED BY <2>1, <2>2
<1>9. \A d \in Db : /\ r.store[d].atBegin[2] = c.store[d].atBegin[2]
                    /\ ~undo => r.store[d].content = c.store[d].content
  <2>. TAKE d \in Db
  <2>1. CASE d \in M
    BY <1>1, <1>2, <1>4, <1>6, <2>1
  <2>2. CASE d \notin M
    BY <1>7, <2>2
  <2>. QED BY <2>1, <2>2
<1>. QED BY <1>3, <1>8, <1>9 DEF r, M, Before, Contents

\* A program makes its contents the base if it ends the transaction with success,
\* and goes back to the base if it ends it otherwise.
LEMMA HaltBase ==
  ASSUME NEW c \in Conn, Fresh(c), NEW q, Inner(c, q), NEW rc, NEW others, NEW writers,
         OnlyWriter(q, writers)
  PROVE  LET r == VdbeHalt(c, q, rc, others, writers, {}).db
         IN /\ r \in Conn /\ Len(r.pSavepoint) <= Len(c.pSavepoint) /\ Fresh(r)
            /\ Before(r, 2) = IF EndsAll(c, q, rc) /\ Commits(c, q, rc) THEN Contents(c)
                              ELSE Before(c, 2)
            /\ EndsAll(c, q, rc) /\ ~Commits(c, q, rc) => Contents(r) = Before(c, 2)
            /\ \A d \in Db : Level(r, d) <= IF d \in q.stmtTransMask THEN Level(c, d) - 1
                                            ELSE Level(c, d)
<1>. DEFINE r == VdbeHalt(c, q, rc, others, writers, {}).db
            commits == Commits(c, q, rc)
            whole == EndsAll(c, q, rc)
            c1 == Ended(c, q, rc)
            low(d) == IF d \in q.stmtTransMask THEN Level(c, d) - 1 ELSE Level(c, d)
            base == IF whole /\ commits THEN Contents(c) ELSE Before(c, 2)
<1>1. /\ 0 \in Levels /\ 1 \in Levels /\ Len(c.pSavepoint) \in Nat
      /\ \A d \in Db : Level(c, d) \in Nat
      /\ \A d \in q.stmtTransMask : Level(c, d) > 2
  <2>1. 0 \in Levels /\ 1 \in Levels
    BY DEF Levels, MaxLevel
  <2>. QED BY <2>1, ConnFields, LevelsAreNat DEF Inner
<1>2. r = IF c1.pSavepoint = <<>> /\ others = 0 THEN VdbeRollback(c1, 0) ELSE c1
  BY HaltIs
<1>3. /\ c1 \in Conn /\ Len(c1.pSavepoint) <= Len(c.pSavepoint)
      /\ Fresh(c1) /\ Before(c1, 2) = base
      /\ whole /\ ~commits => Contents(c1) = Before(c, 2)
      /\ \A d \in Db : Level(c1, d) <= low(d)
  <2>1. CASE whole
    <3>. DEFINE e == IF commits THEN VdbeCommit(c, 1, {}) ELSE VdbeRollback(c, 1)
    <3>1. c1 = [e EXCEPT !.nDeferredCons = 0]
      BY <2>1 DEF Ended
    <3>2. /\ e \in Conn /\ Len(e.pSavepoint) = LeastLen(c, 1) /\ Fresh(e)
          /\ Before(e, 2) = base
          /\ ~commits => Contents(e) = Before(c, 2)
          /\ \A d \in Db : Level(e, d) = IF Level(c, d) >= 1 THEN 1 ELSE Level(c, d)
      <4>1. CASE commits
        <5>. DEFINE v == VdbeCommit(c, 1, {})
        <5>1. /\ v \in Conn /\ Fresh(v) /\ Len(v.pSavepoint) = LeastLen(c, 1)
              /\ 1 = 1 => Before(v, 2) = Contents(c)
              /\ \A d \in Db : Level(v, d) = IF Level(c, d) > 1 THEN 1 ELSE Level(c, d)
          <6>1. 1 >= 1
            OBVIOUS
          <6>. QED BY <1>1, <6>1, CommitBase
        <5>. HIDE DEF v
        <5>. QED BY <1>1, <2>1, <4>1, <5>1 DEF v
      <4>2. CASE ~commits
        <5>. DEFINE v == VdbeRollback(c, 1)
        <5>1. /\ v \in Conn /\ Fresh(v) /\ Before(v, 2) = Before(c, 2)
              /\ 1 <= 1 => Contents(v) = Before(c, 2)
          BY <1>1, RollbackBase
        <5>2. /\ Len(v.pSavepoint) = LeastLen(c, 1)
              /\ \A d \in Db : Level(v, d) = IF Level(c, d) >= 1 THEN 1 ELSE Level(c, d)
          BY <1>1, RollbackLevels
        <5>. HIDE DEF v
        <5>. QED BY <4>2, <5>1, <5>2 DEF v
      <4>. QED BY <4>1, <4>2
    <3>. HIDE DEF e, c1, commits, whole, base
    <3>3. c1 \in Conn /\ c1.pSavepoint = e.pSavepoint /\ c1.store = e.store
      BY <3>1, <3>2, SMTT(20) DEF Conn
    <3>4. /\ Contents(c1) = Contents(e) /\ Before(c1, 2) = Before(e, 2)
          /\ \A d \in Db : Level(c1, d) = Level(e, d)
      BY <3>3 DEF Contents, Before, Level
    <3>5. Fresh(c1)
      BY <3>2, <3>3, <3>4 DEF Fresh
    <3>6. \A d \in Db : Level(c1, d) <= low(d)
      BY <1>1, <3>2, <3>4
    <3>7. LeastLen(c, 1) <= Len(c.pSavepoint)
      BY <1>1 DEF LeastLen
    <3>. QED BY <3>2, <3>3, <3>4, <3>5, <3>6, <3>7
  <2>2. CASE ~whole /\ q.stmtTransMask # {}
    <3>. DEFINE undo == ~commits
                e == CloseStatement(c, q, undo, {})
    <3>1. c1 = e
      BY <2>2 DEF Ended
    <3>2. undo \in BOOLEAN
      OBVIOUS
    <3>. HIDE DEF undo
    <3>3. /\ e \in Conn /\ e.pSavepoint = c.pSavepoint
          /\ Fresh(e) /\ Before(e, 2) = Before(c, 2)
          /\ \A d \in Db : Level(e, d) = low(d)
      BY <3>2, CloseBase
    <3>. HIDE DEF e, c1, commits, whole, low
    <3>4. \A d \in Db : low(d) \in Int
      BY <1>1 DEF low
    <3>. QED BY <1>1, <2>2, <3>1, <3>3, <3>4
  <2>3. CASE ~whole /\ q.stmtTransMask = {}
    <3>1. c1 = c
      BY <2>3 DEF Ended
    <3>. HIDE DEF c1, commits, whole
    <3>. QED BY <1>1, <2>3, <3>1
  <2>. QED BY <2>1, <2>2, <2>3
<1>. HIDE DEF r, c1, base
<1>4. CASE c1.pSavepoint = <<>> /\ others = 0
  <2>. DEFINE v == VdbeRollback(c1, 0)
  <2>1. /\ v \in Conn /\ Fresh(v) /\ Before(v, 2) = Before(c1, 2)
        /\ 0 <= 1 => Contents(v) = Before(c1, 2)
    BY <1>1, <1>3, RollbackBase
  <2>2. /\ Len(v.pSavepoint) = LeastLen(c1, 0)
        /\ \A d \in Db : Level(v, d) = IF Level(c1, d) >= 0 THEN 0 ELSE Level(c1, d)
    BY <1>1, <1>3, RollbackLevels
  <2>3. LeastLen(c1, 0) <= Len(c1.pSavepoint) /\ Len(c1.pSavepoint) \in Nat
    BY <1>3, ConnFields DEF LeastLen
  <2>4. \A d \in Db : Level(c1, d) \in Nat
    BY <1>3, ConnFields, LevelsAreNat
  <2>5. r = v
    BY <1>2, <1>4
  <2>. HIDE DEF v, commits, whole
  <2>6. \A d \in Db : Level(v, d) <= low(d)
    BY <1>1, <2>2, <2>4
  <2>. QED BY <1>1, <1>3, <2>1, <2>2, <2>3, <2>5, <2>6, SMTT(20) DEF r, base, commits, whole
<1>5. CASE ~(c1.pSavepoint = <<>> /\ others = 0)
  BY <1>2, <1>3, <1>5 DEF r, base
<1>. QED BY <1>4, <1>5

-----------------------------------------------------------------------------
(* What a step makes the base, whatever the application calls.             *)

\* The highest level between statements.
Free == IF MaxSavepoint = 0 THEN 2 ELSE MaxSavepoint + 1

\* What holds even if the application calls the sqlite4_txn_ functions: no store is
\* too high for its statement transaction, and what is written is at least at level
\* 2, below a statement transaction.
StoresReady ==
    \A d \in Db :
        /\ Level(db, d) <= IF Running /\ d \in p.stmtTransMask THEN Free + 1 ELSE Free
        /\ Running /\ d \in p.stmtTransMask => Level(db, d) > 2
        /\ Running /\ d \in p.dbs \ p.todo /\ ~p.failed => Level(db, d) >= 2

AInv == Typed /\ MasksAreDone /\ Fresh(db) /\ StoresReady

\* The databases would be rolled back to the same contents, or to what they hold.
KeepsBase == Before(db', 2) = Before(db, 2)
CommitsAll == Before(db', 2) = Contents(db)

LEMMA FreeIsLevel == Free \in Levels /\ Free \in Nat /\ Free >= 2 /\ Free >= MaxSavepoint + 1
BY DEF Free, Levels, MaxLevel

LEMMA InitAInv == Init => AInv
<1>. SUFFICES ASSUME Init PROVE AInv
  OBVIOUS
<1>1. Typed /\ MasksAreDone
  BY InitLInv DEF LInv
<1>2. ~Running /\ \A d \in Db : /\ Level(db, d) = 0 /\ db.store[d].content = {}
                                /\ \A m \in WriteLevels : db.store[d].atBegin[m] = {}
  <2>1. ~Running
    BY DEF Init, Running, NoStmt
  <2>2. \A d \in Db : db.store[d] = NewStore
    BY DEF Init
  <2>3. /\ NewStore.iTransLevel = 0 /\ NewStore.content = {}
        /\ \A m \in WriteLevels : NewStore.atBegin[m] = {}
    BY DEF NewStore
  <2>. QED BY <2>1, <2>2, <2>3 DEF Level
<1>3. Fresh(db)
  BY <1>2 DEF Fresh
<1>4. StoresReady
  <2>1. Free \in Nat /\ 0 <= Free
    BY FreeIsLevel
  <2>2. \A d \in Db : Level(db, d) <= Free
    <3>. HIDE DEF Level, Free
    <3>. QED BY <1>2, <2>1
  <2>. QED BY <1>2, <2>2, Zenon DEF StoresReady
<1>. QED BY <1>1, <1>3, <1>4 DEF AInv

\* All that AInv says when no statement writes.
LEMMA AtRestIs ==
  ASSUME AInv, ~Running
  PROVE  /\ Typed /\ db \in Conn /\ Fresh(db) /\ p = NoStmt
         /\ Len(db.pSavepoint) \in Nat /\ Len(db.pSavepoint) <= MaxSavepoint
         /\ \A d \in Db : Level(db, d) \in Nat /\ Level(db, d) <= Free
<1>1. Typed /\ db \in Conn /\ Fresh(db) /\ p = NoStmt
  BY NotRunning DEF AInv, Typed
<1>. QED BY <1>1, ConnFields, LevelsAreNat DEF AInv, Typed, StoresReady

LEMMA AtRestNext ==
  ASSUME Typed', ~Running', Fresh(db'), \A d \in Db : Level(db', d) <= Free
  PROVE  AInv'
BY DEF AInv, MasksAreDone, StoresReady, Fresh, Level

\* A level that is raised only takes more snapshots to come.
LEMMA RaisedIsFresh ==
  ASSUME NEW c, NEW r, Fresh(c),
         \A d \in Db : /\ r.store[d].content = c.store[d].content
                       /\ r.store[d].atBegin = c.store[d].atBegin
                       /\ Level(c, d) \in Nat /\ Level(r, d) \in Nat
                       /\ Level(r, d) >= Level(c, d)
  PROVE  Fresh(r)
<1>. SUFFICES ASSUME NEW d \in Db, NEW m \in WriteLevels, m > Level(r, d)
              PROVE  r.store[d].atBegin[m] = r.store[d].content
  BY DEF Fresh
<1>1. m \in Nat /\ m > Level(c, d)
  BY DEF WriteLevels
<1>2. c.store[d].atBegin[m] = c.store[d].content
  BY <1>1 DEF Fresh
<1>. QED BY <1>2

LEMMA ReadOnlyIsInner ==
  ASSUME NEW c
  PROVE  Inner(c, ReadOnly) /\ OnlyWriter(ReadOnly, 0)
BY DEF Inner, HasStatement, ReadOnly, OnlyWriter

\* The program of a command leaves c to its halt.
LEMMA CommandBase ==
  ASSUME AInv, Idle, NEW c \in Conn, NEW rc \in {"ok", "error"}, CommandEnd(c, rc, {}),
         Len(c.pSavepoint) <= MaxSavepoint, Fresh(c), \A d \in Db : Level(c, d) <= Free
  PROVE  /\ AInv'
         /\ Before(db', 2) = IF c.pSavepoint = <<>> /\ Commits(c, ReadOnly, rc)
                             THEN Contents(c) ELSE Before(c, 2)
         /\ result' = Returned(c, ReadOnly, rc)
         /\ ~Running' /\ p' = p
<1>. DEFINE h == VdbeHalt(c, ReadOnly, rc, activeVdbeCnt, writeVdbeCnt, {})
<1>1. /\ ~Running /\ writeVdbeCnt = 0 /\ Typed /\ p = NoStmt
      /\ Len(c.pSavepoint) \in Nat /\ \A d \in Db : Level(c, d) \in Nat
  BY AtRestIs, ConnFields, LevelsAreNat DEF Idle, writeVdbeCnt
<1>2. Inner(c, ReadOnly) /\ OnlyWriter(ReadOnly, writeVdbeCnt)
  BY <1>1, ReadOnlyIsInner
<1>3. /\ EndsAll(c, ReadOnly, rc) <=> c.pSavepoint = <<>>
      /\ Returned(c, ReadOnly, rc) \in Results /\ ReadOnly.stmtTransMask = {}
  BY DEF EndsAll, Returned, Resolved, ReadOnly, Results
<1>4. /\ h.db \in Conn /\ Len(h.db.pSavepoint) <= Len(c.pSavepoint) /\ Fresh(h.db)
      /\ Before(h.db, 2) = IF EndsAll(c, ReadOnly, rc) /\ Commits(c, ReadOnly, rc)
                           THEN Contents(c) ELSE Before(c, 2)
      /\ \A d \in Db : Level(h.db, d) <= IF d \in ReadOnly.stmtTransMask
                                         THEN Level(c, d) - 1 ELSE Level(c, d)
  BY <1>2, HaltBase
<1>5. h.rc = Returned(c, ReadOnly, rc)
  BY <1>2, HaltReturns
<1>6. /\ db' = h.db /\ result' = h.rc /\ reader' = reader /\ p' = p /\ fault' = fault
  BY DEF CommandEnd
<1>. HIDE DEF h
<1>7. /\ Len(h.db.pSavepoint) <= MaxSavepoint
      /\ \A d \in Db : Level(h.db, d) <= Free
  <2>1. \A d \in Db : Level(h.db, d) \in Nat /\ Level(h.db, d) <= Level(c, d)
    BY <1>3, <1>4, ConnFields, LevelsAreNat
  <2>. QED BY <1>1, <1>4, <2>1, ConnFields, FreeIsLevel
<1>8. Typed' /\ ~Running'
  BY <1>1, <1>3, <1>4, <1>5, <1>6, <1>7 DEF Typed, Running
<1>9. AInv'
  BY <1>4, <1>6, <1>7, <1>8, AtRestNext
<1>. QED BY <1>3, <1>4, <1>5, <1>6, <1>8, <1>9

LEMMA CommandFailsBase ==
  ASSUME AInv, Idle, CommandEnd(db, "error", {})
  PROVE  AInv' /\ KeepsBase /\ ~Running'
<1>1. ~Commits(db, ReadOnly, "error")
  BY DEF Commits, Returned, Resolved
<1>. QED BY <1>1, AtRestIs, CommandBase DEF Idle, KeepsBase

LEMMA SelectBeginBase ==
  ASSUME AInv, NEW r \in Reader, NEW ds \in SUBSET Db, SelectBegin(r, ds)
  PROVE  AInv' /\ KeepsBase /\ ~Running'
<1>. DEFINE stores == [d \in Db |-> IF d \in ds /\ db.store[d].iTransLevel = 0
                                    THEN KvBegin(db.store[d], 1) ELSE db.store[d]]
<1>1. /\ ~Running /\ Typed /\ db \in Conn /\ Fresh(db)
      /\ \A d \in Db : Level(db, d) \in Nat /\ Level(db, d) <= Free
  BY AtRestIs DEF SelectBegin, Idle
<1>2. 1 \in Levels
  BY DEF Levels, MaxLevel
<1>3. \A d \in Db : /\ stores[d] \in Store
                    /\ stores[d].content = db.store[d].content
                    /\ stores[d].atBegin = db.store[d].atBegin
                    /\ stores[d].iTransLevel = IF d \in ds /\ Level(db, d) = 0 THEN 1
                                               ELSE Level(db, d)
  <2>. TAKE d \in Db
  <2>1. db.store[d] \in Store
    BY <1>1, ConnFields
  <2>. QED BY <1>2, <2>1 DEF KvBegin, Store, Level
<1>4. /\ db' = [db EXCEPT !.store = stores] /\ p' = p /\ result' = result /\ fault' = fault
      /\ reader' = [reader EXCEPT ![r] = ds]
  BY DEF SelectBegin
<1>5. stores \in [Db -> Store]
  BY <1>3
<1>. HIDE DEF stores
<1>6. db' \in Conn /\ db'.store = stores /\ db'.pSavepoint = db.pSavepoint
  BY <1>1, <1>4, <1>5 DEF Conn
<1>7. Typed' /\ ~Running'
  BY <1>1, <1>4, <1>6 DEF Typed, Running
<1>8. \A d \in Db : Level(db', d) = IF d \in ds /\ Level(db, d) = 0 THEN 1
                                    ELSE Level(db, d)
  BY <1>3, <1>6 DEF Level
<1>9. Fresh(db')
  <2>1. \A m \in WriteLevels : m \in Nat
    BY DEF WriteLevels
  <2>. QED BY <1>1, <1>3, <1>6, <1>8, <2>1 DEF Fresh
<1>10. AInv'
  BY <1>1, <1>7, <1>8, <1>9, FreeIsLevel, AtRestNext
<1>11. KeepsBase
  BY <1>3, <1>6 DEF KeepsBase, Before
<1>. QED BY <1>7, <1>10, <1>11

\* Without the sqlite4_txn_ functions no SELECT leaves a store written when it ends
\* outside a transaction.
LEMMA SelectEndBase ==
  ASSUME AInv, NEW r \in Reader, NEW rc \in {"ok", "error"}, SelectEnd(r, rc, {})
  PROVE  AInv' /\ (KeepsBase \/ CommitsAll) /\ (LInv => KeepsBase) /\ ~Running'
<1>. DEFINE h == VdbeHalt(db, ReadOnly, rc, activeVdbeCnt - 1, writeVdbeCnt, {})
<1>1. /\ ~Running /\ writeVdbeCnt = 0 /\ Typed /\ db \in Conn /\ Fresh(db) /\ p = NoStmt
      /\ Len(db.pSavepoint) \in Nat /\ Len(db.pSavepoint) <= MaxSavepoint
      /\ \A d \in Db : Level(db, d) \in Nat /\ Level(db, d) <= Free
  BY AtRestIs DEF SelectEnd, Idle, writeVdbeCnt
<1>2. Inner(db, ReadOnly) /\ OnlyWriter(ReadOnly, writeVdbeCnt)
  BY <1>1, ReadOnlyIsInner
<1>3. EndsAll(db, ReadOnly, rc) <=> db.pSavepoint = <<>>
  BY DEF EndsAll, Resolved, ReadOnly
<1>4. /\ h.db \in Conn /\ Len(h.db.pSavepoint) <= Len(db.pSavepoint) /\ Fresh(h.db)
      /\ Before(h.db, 2) = IF EndsAll(db, ReadOnly, rc) /\ Commits(db, ReadOnly, rc)
                           THEN Contents(db) ELSE Before(db, 2)
      /\ \A d \in Db : Level(h.db, d) <= IF d \in ReadOnly.stmtTransMask
                                         THEN Level(db, d) - 1 ELSE Level(db, d)
  BY <1>1, <1>2, HaltBase
<1>5. /\ db' = h.db /\ result' = result /\ p' = p /\ fault' = fault
      /\ reader' = [reader EXCEPT ![r] = {}]
  BY DEF SelectEnd
<1>. HIDE DEF h
<1>6. /\ Len(h.db.pSavepoint) <= MaxSavepoint
      /\ \A d \in Db : Level(h.db, d) <= Free
  <2>1. \A d \in Db : Level(h.db, d) \in Nat /\ Level(h.db, d) <= Level(db, d)
    BY <1>4, ConnFields, LevelsAreNat DEF ReadOnly
  <2>. QED BY <1>1, <1>4, <2>1, ConnFields, FreeIsLevel
<1>7. Typed' /\ ~Running'
  BY <1>1, <1>4, <1>5, <1>6 DEF Typed, Running
<1>8. AInv'
  BY <1>4, <1>5, <1>6, <1>7, AtRestNext
<1>9. LInv /\ db.pSavepoint = <<>> => Before(db, 2) = Contents(db)
  <2>. HAVE LInv /\ db.pSavepoint = <<>>
  <2>1. Len(db.pSavepoint) = 0
    BY <1>1, ConnFields
  <2>2. \A d \in Db : Level(db, d) <= 1
    BY <1>1, <2>1, SettledIsInv DEF Settled
  <2>. QED BY <1>1, <2>2, AtRest
<1>. QED BY <1>3, <1>4, <1>5, <1>7, <1>8, <1>9 DEF KeepsBase, CommitsAll

LEMMA SavepointBeginBase ==
  ASSUME AInv, NEW n \in Names, SavepointBegin(n, {})
  PROVE  AInv' /\ KeepsBase /\ ~Running'
<1>. DEFINE new == [zName |-> n, nDeferredCons |-> db.nDeferredCons]
            s == Append(db.pSavepoint, new)
            c == [db EXCEPT !.pSavepoint = s]
<1>1. /\ ~Running /\ Idle /\ db \in Conn /\ Fresh(db) /\ Len(db.pSavepoint) \in Nat
      /\ \A d \in Db : Level(db, d) <= Free
  BY AtRestIs DEF SavepointBegin, Idle
<1>2. CASE n = NoName /\ db.pSavepoint # <<>>
  <2>1. CommandEnd(db, "error", {})
    BY <1>2 DEF SavepointBegin
  <2>. QED BY <1>1, <2>1, CommandFailsBase
<1>3. CASE ~(n = NoName /\ db.pSavepoint # <<>>)
  <2>1. CommandEnd(c, "ok", {}) /\ Len(db.pSavepoint) < MaxSavepoint
    BY <1>3 DEF SavepointBegin
  <2>2. s \in Seq(Savepoint) /\ Len(s) = Len(db.pSavepoint) + 1
    <3>1. new \in Savepoint /\ db.pSavepoint \in Seq(Savepoint)
      BY <1>1 DEF Savepoint, Conn
    <3>. HIDE DEF new
    <3>. QED BY <3>1, AppendProperties
  <2>. HIDE DEF s
  <2>3. c \in Conn /\ c.store = db.store /\ c.pSavepoint = s
    BY <1>1, <2>2 DEF Conn
  <2>. HIDE DEF c
  <2>4. /\ Before(c, 2) = Before(db, 2) /\ Fresh(c)
        /\ \A d \in Db : Level(c, d) = Level(db, d)
    BY <1>1, <2>3 DEF Before, Fresh, Level
  <2>5. Len(c.pSavepoint) <= MaxSavepoint /\ c.pSavepoint # <<>>
    BY <1>1, <2>1, <2>2, <2>3, ConnFields
  <2>. QED BY <1>1, <2>1, <2>3, <2>4, <2>5, CommandBase DEF KeepsBase
<1>. QED BY <1>2, <1>3

LEMMA SavepointReleaseBase ==
  ASSUME AInv, NEW n \in Names, SavepointRelease(n, {})
  PROVE  /\ AInv' /\ ~Running'
         /\ KeepsBase \/ (CommitsAll /\ Meant(db, n) = 1 /\ result' = "ok")
<1>. DEFINE i == Meant(db, n)
            c == VdbeCommit(db, i, {})
<1>1. /\ ~Running /\ Idle /\ db \in Conn /\ Fresh(db)
      /\ Len(db.pSavepoint) \in Nat /\ Len(db.pSavepoint) <= MaxSavepoint
      /\ \A d \in Db : Level(db, d) \in Nat /\ Level(db, d) <= Free
  BY AtRestIs DEF SavepointRelease, Idle
<1>2. i \in 0..Len(db.pSavepoint) /\ i \in Levels /\ i \in Nat
  BY <1>1, MeantIsSavepoint DEF Levels, MaxLevel
<1>3. CASE i = 0 \/ (i = 1 /\ db.nDeferredCons > 0)
  <2>1. CommandEnd(db, "error", {})
    BY <1>3 DEF SavepointRelease
  <2>. QED BY <1>1, <2>1, CommandFailsBase
<1>4. CASE ~(i = 0 \/ (i = 1 /\ db.nDeferredCons > 0))
  <2>1. CommandEnd(c, "ok", {})
    BY <1>4 DEF SavepointRelease
  <2>. HIDE DEF i
  <2>2. /\ c \in Conn /\ Fresh(c) /\ Contents(c) = Contents(db)
        /\ c.nDeferredCons = db.nDeferredCons
        /\ Len(c.pSavepoint) = LeastLen(db, i)
        /\ i >= 2 => Before(c, 2) = Before(db, 2)
        /\ i = 1 => Before(c, 2) = Contents(db)
        /\ \A d \in Db : Level(c, d) = IF Level(db, d) > i THEN i ELSE Level(db, d)
    <3>1. i >= 1
      BY <1>2, <1>4
    <3>. QED BY <1>1, <1>2, <3>1, CommitBase
  <2>. HIDE DEF c
  <2>3. Len(c.pSavepoint) = i - 1
    BY <1>1, <1>2, <1>4, <2>2 DEF LeastLen
  <2>4. /\ Len(c.pSavepoint) <= MaxSavepoint
        /\ \A d \in Db : Level(c, d) <= Free
    BY <1>1, <1>2, <2>2, <2>3, FreeIsLevel
  <2>5. /\ AInv' /\ ~Running'
        /\ Before(db', 2) = IF c.pSavepoint = <<>> /\ Commits(c, ReadOnly, "ok")
                            THEN Contents(c) ELSE Before(c, 2)
        /\ result' = Returned(c, ReadOnly, "ok")
    BY <1>1, <2>1, <2>2, <2>4, CommandBase
  <2>6. CASE i = 1
    <3>1. ~(c.nDeferredCons > 0)
      BY <1>4, <2>2, <2>6
    <3>2. Returned(c, ReadOnly, "ok") = "ok"
      BY <3>1 DEF Returned, EndsAll, Resolved, ReadOnly
    <3>. QED BY <2>2, <2>5, <2>6, <3>2 DEF CommitsAll, i
  <2>7. CASE i # 1
    <3>1. i >= 2 /\ Len(c.pSavepoint) # 0
      BY <1>2, <1>4, <2>3, <2>7
    <3>2. c.pSavepoint # <<>>
      BY <2>2, <3>1, ConnFields
    <3>. QED BY <2>2, <2>5, <3>1, <3>2 DEF KeepsBase
  <2>. QED BY <2>6, <2>7
<1>. QED BY <1>3, <1>4

LEMMA SavepointRollbackBase ==
  ASSUME AInv, NEW n \in Names, SavepointRollback(n, {})
  PROVE  AInv' /\ KeepsBase /\ ~Running'
<1>. DEFINE i == Meant(db, n)
            l == IF n = NoName THEN i ELSE i + 1
            c == VdbeRollback(db, l)
<1>1. /\ ~Running /\ Idle /\ db \in Conn /\ Fresh(db)
      /\ Len(db.pSavepoint) \in Nat /\ Len(db.pSavepoint) <= MaxSavepoint
      /\ \A d \in Db : Level(db, d) \in Nat /\ Level(db, d) <= Free
  BY AtRestIs DEF SavepointRollback, Idle
<1>2. i \in 0..Len(db.pSavepoint)
  BY <1>1, MeantIsSavepoint
<1>3. CASE i = 0
  <2>1. CommandEnd(db, "error", {})
    BY <1>3 DEF SavepointRollback
  <2>. QED BY <1>1, <2>1, CommandFailsBase
<1>4. CASE i # 0
  <2>1. CommandEnd(c, "ok", {})
    BY <1>4 DEF SavepointRollback
  <2>2. l \in 1..(Len(db.pSavepoint) + 1) /\ l \in Levels /\ l \in Nat /\ l <= Free
    <3>1. l \in 1..(Len(db.pSavepoint) + 1)
      BY <1>1, <1>2, <1>4
    <3>. HIDE DEF l
    <3>. QED BY <1>1, <3>1, FreeIsLevel DEF Levels, MaxLevel
  <2>. HIDE DEF l
  <2>3. /\ c \in Conn /\ Fresh(c) /\ Before(c, 2) = Before(db, 2)
        /\ l <= 1 => Contents(c) = Before(db, 2)
    BY <1>1, <2>2, RollbackBase
  <2>4. /\ Len(c.pSavepoint) = LeastLen(db, l)
        /\ \A d \in Db : Level(c, d) = IF Level(db, d) >= l THEN l ELSE Level(db, d)
    BY <1>1, <2>2, RollbackLevels
  <2>. HIDE DEF c
  <2>5. Len(c.pSavepoint) = l - 1
    BY <1>1, <2>2, <2>4 DEF LeastLen
  <2>6. /\ Len(c.pSavepoint) <= MaxSavepoint
        /\ \A d \in Db : Level(c, d) <= Free
    BY <1>1, <2>2, <2>4, <2>5, FreeIsLevel
  <2>7. /\ AInv' /\ ~Running'
        /\ Before(db', 2) = IF c.pSavepoint = <<>> /\ Commits(c, ReadOnly, "ok")
                            THEN Contents(c) ELSE Before(c, 2)
    BY <1>1, <2>1, <2>3, <2>6, CommandBase
  <2>8. c.pSavepoint = <<>> => l <= 1
    <3>1. c.pSavepoint = <<>> => Len(c.pSavepoint) = 0
      BY <2>3, ConnFields
    <3>. QED BY <2>2, <2>5, <3>1
  <2>. QED BY <2>3, <2>7, <2>8 DEF KeepsBase
<1>. QED BY <1>3, <1>4

\* All that AInv says when a statement writes.
LEMMA RunningIs ==
  ASSUME AInv, Running
  PROVE  /\ Typed /\ db \in Conn /\ Fresh(db) /\ p \in Statement
         /\ Inner(db, p) /\ OnlyWriter(p, writeVdbeCnt)
         /\ p.todo \subseteq p.dbs /\ p.stmtTransMask \subseteq p.dbs \ p.todo
         /\ Len(db.pSavepoint) \in Nat /\ Len(db.pSavepoint) <= MaxSavepoint
         /\ \A d \in Db :
              /\ Level(db, d) \in Nat
              /\ Level(db, d) <= IF d \in p.stmtTransMask THEN Free + 1 ELSE Free
              /\ d \in p.stmtTransMask => Level(db, d) > 2
              /\ d \in p.dbs \ p.todo /\ ~p.failed => Level(db, d) >= 2
<1>1. Typed /\ db \in Conn /\ Fresh(db) /\ p \in Statement
  BY DEF AInv, Typed, Running, NoStmt
<1>2. \A d \in Db :
        /\ Level(db, d) <= IF d \in p.stmtTransMask THEN Free + 1 ELSE Free
        /\ d \in p.stmtTransMask => Level(db, d) > 2
        /\ d \in p.dbs \ p.todo /\ ~p.failed => Level(db, d) >= 2
  BY DEF AInv, StoresReady
<1>3. HasStatement(p) /\ p.stmtTransMask \subseteq Db /\ OnlyWriter(p, writeVdbeCnt)
  BY <1>1 DEF Statement, HasStatement, OnlyWriter, writeVdbeCnt
<1>4. p.todo \subseteq p.dbs /\ p.stmtTransMask \subseteq p.dbs \ p.todo
  BY DEF AInv, MasksAreDone
<1>5. /\ Len(db.pSavepoint) \in Nat /\ Len(db.pSavepoint) <= MaxSavepoint
      /\ \A d \in Db : Level(db, d) \in Nat
  BY <1>1, ConnFields, LevelsAreNat DEF Typed
<1>6. Inner(db, p)
  BY <1>2, <1>3 DEF Inner
<1>. QED BY <1>1, <1>2, <1>3, <1>4, <1>5, <1>6

LEMMA RunningNext ==
  ASSUME Typed', Running', Fresh(db'), p' \in Statement,
         p'.todo \subseteq p'.dbs /\ p'.stmtTransMask \subseteq p'.dbs \ p'.todo,
         \A d \in Db :
           /\ Level(db', d) <= IF d \in p'.stmtTransMask THEN Free + 1 ELSE Free
           /\ d \in p'.stmtTransMask => Level(db', d) > 2
           /\ d \in p'.dbs \ p'.todo /\ ~p'.failed => Level(db', d) >= 2
  PROVE  AInv'
<1>1. MasksAreDone' /\ Fresh(db)'
  BY DEF MasksAreDone, Fresh, Level
<1>2. StoresReady'
  BY DEF StoresReady, Level
<1>. QED BY <1>1, <1>2 DEF AInv

LEMMA WriteBeginBase ==
  ASSUME AInv, NEW need \in BOOLEAN, NEW ds \in SUBSET Db, WriteBegin(need, ds)
  PROVE  /\ AInv' /\ KeepsBase /\ ~Running
         /\ db' = db /\ p'.start.content = Contents(db)
<1>. DEFINE start == [content |-> Contents(db), cons |-> db.nDeferredCons]
            q == [runs |-> TRUE, readOnly |-> FALSE, needSavepoint |-> need,
                  todo |-> ds, dbs |-> ds, wrote |-> FALSE, failed |-> FALSE,
                  nFkConstraint |-> 0, stmtTransMask |-> {}, nStmtDefCons |-> 0,
                  start |-> start]
<1>1. /\ ~Running /\ Typed /\ db \in Conn /\ Fresh(db)
      /\ \A d \in Db : Level(db, d) <= Free
  BY AtRestIs DEF WriteBegin, Idle
<1>2. p' = q /\ db' = db /\ reader' = reader /\ result' = result /\ fault' = fault
  BY DEF WriteBegin, Contents
<1>3. /\ start \in [content : [Db -> SUBSET Row], cons : Int]
      /\ start.content = Contents(db)
  BY <1>1, ContentsType DEF Conn
<1>. HIDE DEF start
<1>4. /\ q \in Statement /\ q.runs /\ q.todo = ds /\ q.dbs = ds /\ q.stmtTransMask = {}
      /\ q.start = start
  BY <1>3 DEF Statement
<1>. HIDE DEF q
<1>5. Typed' /\ Running'
  BY <1>1, <1>2, <1>4 DEF Typed, Running
<1>6. Fresh(db') /\ \A d \in Db : Level(db', d) <= Free
  BY <1>1, <1>2
<1>7. AInv'
  BY <1>2, <1>4, <1>5, <1>6, RunningNext
<1>. QED BY <1>1, <1>2, <1>3, <1>4, <1>7 DEF KeepsBase

LEMMA OpTransactionBase ==
  ASSUME AInv, NEW d \in Db, NEW fails \in {"no", "first", "second"},
         OpTransaction(d, fails)
  PROVE  /\ AInv' /\ KeepsBase /\ Running'
         /\ db'.pSavepoint = db.pSavepoint /\ p'.start = p.start
<1>. DEFINE s == db.store[d]
            n == Len(db.pSavepoint)
            iLevel == Max({2, n + 1})
            bStmt == db.pSavepoint # <<>> /\ (p.needSavepoint \/ activeVdbeCnt > 1)
            first == IF s.iTransLevel < iLevel THEN KvBegin(s, iLevel) ELSE s
            both == bStmt /\ fails = "no"
            t == IF fails = "first" THEN s
                 ELSE IF both THEN KvBegin(first, first.iTransLevel + 1) ELSE first
            q == [p EXCEPT !.todo = @ \ {d}, !.failed = fails # "no",
                           !.stmtTransMask = IF both THEN @ \cup {d} ELSE @,
                           !.nStmtDefCons = IF bStmt /\ fails # "first"
                                            THEN db.nDeferredCons ELSE @]
<1>1. /\ Running /\ ~p.failed /\ p.todo # {} /\ d = Min(p.todo)
      /\ db' = [db EXCEPT !.store[d] = t] /\ p' = q
      /\ reader' = reader /\ result' = result
  BY DEF OpTransaction
<1>2. /\ Typed /\ db \in Conn /\ Fresh(db) /\ p \in Statement
      /\ p.todo \subseteq p.dbs /\ p.stmtTransMask \subseteq p.dbs \ p.todo
      /\ n \in Nat /\ n <= MaxSavepoint
      /\ \A e \in Db :
           /\ Level(db, e) \in Nat
           /\ Level(db, e) <= IF e \in p.stmtTransMask THEN Free + 1 ELSE Free
           /\ e \in p.stmtTransMask => Level(db, e) > 2
           /\ e \in p.dbs \ p.todo /\ ~p.failed => Level(db, e) >= 2
  BY <1>1, RunningIs
<1>3. d \in p.todo /\ d \notin p.stmtTransMask
  <2>1. p.todo \subseteq Nat
    BY <1>2, VdbeTxnAssumption DEF Statement
  <2>2. \E m \in p.todo : \A k \in p.todo : m <= k
    BY <1>1, <2>1, LeastOf
  <2>. QED BY <1>1, <1>2, <2>2 DEF Min
<1>4. /\ iLevel \in Nat /\ iLevel >= 2 /\ iLevel <= Free /\ iLevel \in Levels
      /\ both => n >= 1
  <2>1. Max({2, n + 1}) = IF 2 >= n + 1 THEN 2 ELSE n + 1
    BY <1>2, MaxOfTwo
  <2>2. both => n # 0
    BY <1>2, ConnFields
  <2>. HIDE DEF both
  <2>. QED BY <1>2, <2>1, <2>2 DEF Free, Levels, MaxLevel
<1>5. /\ s \in Store /\ s.iTransLevel = Level(db, d)
      /\ Level(db, d) \in Nat /\ Level(db, d) <= Free
  BY <1>2, <1>3, ConnFields DEF Level
<1>. HIDE DEF s, iLevel
<1>6. /\ first \in Store /\ first.content = s.content /\ first.atBegin = s.atBegin
      /\ first.iTransLevel >= 2 /\ first.iTransLevel >= Level(db, d)
      /\ first.iTransLevel <= Free /\ first.iTransLevel \in Nat
  BY <1>4, <1>5 DEF KvBegin, Store
<1>. HIDE DEF first
<1>7. /\ t \in Store /\ t.content = s.content /\ t.atBegin = s.atBegin
      /\ t.iTransLevel \in Nat /\ t.iTransLevel >= Level(db, d)
      /\ t.iTransLevel <= IF both THEN Free + 1 ELSE Free
      /\ fails # "first" => t.iTransLevel >= 2
      /\ both => t.iTransLevel > 2
  <2>1. CASE fails = "first"
    <3>1. t = s /\ ~both
      BY <2>1
    <3>. HIDE DEF t, both
    <3>. QED BY <1>5, <2>1, <3>1
  <2>2. CASE both
    <3>1. t = KvBegin(first, first.iTransLevel + 1)
      BY <2>2
    <3>2. first.iTransLevel + 1 \in Levels
      <4>1. Free = MaxSavepoint + 1
        BY <1>2, <1>4, <2>2 DEF Free
      <4>. HIDE DEF both
      <4>. QED BY <1>6, <4>1 DEF Levels, MaxLevel
    <3>3. /\ t \in Store /\ t.content = first.content /\ t.atBegin = first.atBegin
          /\ t.iTransLevel = first.iTransLevel + 1
      <4>. HIDE DEF t, both
      <4>. QED BY <1>6, <3>1, <3>2 DEF KvBegin, Store
    <3>. HIDE DEF t, both
    <3>. QED BY <1>5, <1>6, <2>2, <3>3, FreeIsLevel
  <2>3. CASE fails # "first" /\ ~both
    <3>1. t = first
      BY <2>3
    <3>. HIDE DEF t, both
    <3>. QED BY <1>5, <1>6, <2>3, <3>1
  <2>. QED BY <2>1, <2>2, <2>3
<1>. HIDE DEF t
<1>8. /\ db' \in Conn /\ db'.pSavepoint = db.pSavepoint
      /\ \A e \in Db : db'.store[e] = IF e = d THEN t ELSE db.store[e]
  BY <1>1, <1>2, <1>7 DEF Conn
<1>9. \A e \in Db : Level(db', e) = IF e = d THEN t.iTransLevel ELSE Level(db, e)
  BY <1>8 DEF Level
<1>10. /\ q \in Statement /\ q.runs /\ q.todo = p.todo \ {d} /\ q.dbs = p.dbs
       /\ q.failed = (fails # "no") /\ q.start = p.start
       /\ q.stmtTransMask = IF both THEN p.stmtTransMask \cup {d} ELSE p.stmtTransMask
  <2>1. (fails # "no") \in BOOLEAN
    OBVIOUS
  <2>2. (IF bStmt /\ fails # "first" THEN db.nDeferredCons ELSE p.nStmtDefCons) \in Int
    BY <1>2 DEF Conn, Statement
  <2>. HIDE DEF both, bStmt
  <2>. QED BY <1>2, <2>1, <2>2 DEF Statement
<1>11. fault' \in BOOLEAN
  BY Zenon DEF OpTransaction
<1>12. Fresh(db') /\ Before(db', 2) = Before(db, 2)
  <2>2. \A e \in Db : /\ db'.store[e].content = db.store[e].content
                      /\ db'.store[e].atBegin = db.store[e].atBegin
                      /\ Level(db', e) >= Level(db, e) /\ Level(db', e) \in Nat
    BY <1>2, <1>7, <1>8, <1>9 DEF s
  <2>3. Fresh(db')
    BY <1>2, <2>2, RaisedIsFresh
  <2>. QED BY <2>2, <2>3 DEF Before
<1>. HIDE DEF q, both
<1>13. Typed' /\ Running'
  BY <1>1, <1>2, <1>8, <1>10, <1>11 DEF Typed, Running
<1>14. q.todo \subseteq q.dbs /\ q.stmtTransMask \subseteq q.dbs \ q.todo
  BY <1>2, <1>3, <1>10
<1>15. \A e \in Db :
         /\ Level(db', e) <= IF e \in q.stmtTransMask THEN Free + 1 ELSE Free
         /\ e \in q.stmtTransMask => Level(db', e) > 2
         /\ e \in q.dbs \ q.todo /\ ~q.failed => Level(db', e) >= 2
  <2>. TAKE e \in Db
  <2>1. CASE e = d
    BY <1>3, <1>7, <1>9, <1>10, <2>1
  <2>2. CASE e # d
    <3>1. /\ e \in q.stmtTransMask <=> e \in p.stmtTransMask
          /\ e \in q.dbs \ q.todo <=> e \in p.dbs \ p.todo
      BY <1>10, <2>2
    <3>. QED BY <1>1, <1>2, <1>9, <2>2, <3>1
  <2>. QED BY <2>1, <2>2
<1>16. AInv'
  BY <1>1, <1>10, <1>12, <1>13, <1>14, <1>15, RunningNext
<1>. QED BY <1>1, <1>8, <1>10, <1>12, <1>13, <1>16 DEF KeepsBase

LEMMA WriteBase ==
  ASSUME AInv, NEW d \in Db, NEW r \in Row, Write(d, r)
  PROVE  /\ AInv' /\ KeepsBase /\ Running'
         /\ db'.pSavepoint = db.pSavepoint /\ p'.start = p.start
<1>. DEFINE s == db.store[d]
            C == SymDiff(s.content, {r})
            k == IF r \in s.content THEN -1 ELSE 1
            cons == IF r \in Deferred THEN db.nDeferredCons + k ELSE db.nDeferredCons
            fk == IF r \in Immediate THEN p.nFkConstraint + k ELSE p.nFkConstraint
            t == KvWrite(s, C)
            q == [p EXCEPT !.wrote = TRUE, !.nFkConstraint = fk]
<1>1. /\ Running /\ ~p.failed /\ p.todo = {} /\ d \in p.dbs
      /\ db' = [db EXCEPT !.store[d] = t, !.nDeferredCons = cons] /\ p' = q
      /\ reader' = reader /\ result' = result /\ fault' = fault
  BY DEF Write
<1>2. /\ Typed /\ db \in Conn /\ Fresh(db) /\ p \in Statement
      /\ p.todo \subseteq p.dbs /\ p.stmtTransMask \subseteq p.dbs \ p.todo
      /\ \A e \in Db :
           /\ Level(db, e) \in Nat
           /\ Level(db, e) <= IF e \in p.stmtTransMask THEN Free + 1 ELSE Free
           /\ e \in p.stmtTransMask => Level(db, e) > 2
           /\ e \in p.dbs \ p.todo /\ ~p.failed => Level(db, e) >= 2
  BY <1>1, RunningIs
<1>3. s \in Store /\ C \in SUBSET Row /\ Level(db, d) = s.iTransLevel
  BY <1>2, ConnFields DEF Store, SymDiff, Level
<1>4. /\ t \in Store /\ t.iTransLevel = s.iTransLevel /\ t.content = C
      /\ \A m \in WriteLevels : t.atBegin[m] = IF m <= s.iTransLevel THEN s.atBegin[m]
                                               ELSE C
  <2>. HIDE DEF s, C
  <2>. QED BY <1>3, StoreWrite
<1>. HIDE DEF t, C
<1>5. cons \in Int /\ fk \in Int
  BY <1>2, SMTT(20) DEF Conn, Statement
<1>. HIDE DEF cons, fk
<1>6. /\ db' \in Conn /\ db'.pSavepoint = db.pSavepoint
      /\ \A e \in Db : db'.store[e] = IF e = d THEN t ELSE db.store[e]
  <2>. HIDE DEF s
  <2>. QED BY <1>1, <1>2, <1>4, <1>5 DEF Conn
<1>7. \A e \in Db : Level(db', e) = Level(db, e)
  BY <1>3, <1>4, <1>6 DEF Level
<1>8. /\ q \in Statement /\ q.runs /\ q.todo = p.todo /\ q.dbs = p.dbs
      /\ q.stmtTransMask = p.stmtTransMask /\ q.failed = p.failed /\ q.start = p.start
  BY <1>2, <1>5 DEF Statement
<1>. HIDE DEF q
<1>9. Typed' /\ Running'
  BY <1>1, <1>2, <1>6, <1>8 DEF Typed, Running
<1>10. Level(db, d) >= 2
  BY <1>1, <1>2
<1>11. Fresh(db')
  <2>. SUFFICES ASSUME NEW e \in Db, NEW m \in WriteLevels, m > Level(db', e)
                PROVE  db'.store[e].atBegin[m] = db'.store[e].content
    BY DEF Fresh
  <2>1. CASE e = d
    <3>1. ~(m <= s.iTransLevel)
      BY <1>2, <1>3, <1>7, <2>1 DEF WriteLevels
    <3>. QED BY <1>4, <1>6, <2>1, <3>1
  <2>2. CASE e # d
    BY <1>2, <1>6, <1>7, <2>2 DEF Fresh
  <2>. QED BY <2>1, <2>2
<1>12. Before(db', 2) = Before(db, 2)
  <2>1. 2 \in WriteLevels
    BY DEF WriteLevels, MaxLevel
  <2>2. t.atBegin[2] = s.atBegin[2]
    BY <1>2, <1>3, <1>4, <1>10, <2>1
  <2>. QED BY <1>6, <2>2 DEF Before
<1>13. AInv'
  BY <1>1, <1>2, <1>7, <1>8, <1>9, <1>11, RunningNext
<1>. QED BY <1>1, <1>6, <1>8, <1>9, <1>12, <1>13 DEF KeepsBase

\* A statement makes its contents the base if it ends the transaction with success,
\* and goes back to the base if it ends it otherwise.
LEMMA WriteEndBase ==
  ASSUME AInv, NEW rc \in Results, WriteEnd(rc, {})
  PROVE  /\ AInv' /\ Running /\ ~Running'
         /\ \/ KeepsBase
            \/ CommitsAll /\ db.pSavepoint = <<>> /\ result' \in {"ok", "fail"}
         /\ db.pSavepoint = <<>> /\ result' \notin {"ok", "fail"} =>
              Contents(db') = Before(db, 2)
<1>. DEFINE h == VdbeHalt(db, p, rc, activeVdbeCnt - 1, writeVdbeCnt, {})
            ends == EndsAll(db, p, rc)
            commits == Commits(db, p, rc)
<1>1. /\ Running /\ p' = NoStmt /\ db' = h.db /\ result' = h.rc
      /\ reader' = reader /\ fault' = fault
  BY DEF WriteEnd
<1>2. /\ Typed /\ db \in Conn /\ Fresh(db) /\ p \in Statement
      /\ Inner(db, p) /\ OnlyWriter(p, writeVdbeCnt)
      /\ Len(db.pSavepoint) \in Nat /\ Len(db.pSavepoint) <= MaxSavepoint
      /\ \A d \in Db :
           /\ Level(db, d) \in Nat
           /\ Level(db, d) <= IF d \in p.stmtTransMask THEN Free + 1 ELSE Free
  BY <1>1, RunningIs
<1>3. h.rc = Returned(db, p, rc) /\ h.rc \in Results
  <2>1. h.rc = Returned(db, p, rc)
    BY <1>2, HaltReturns
  <2>2. Returned(db, p, rc) \in Results
    BY DEF Returned, Resolved, Results
  <2>. QED BY <2>1, <2>2
<1>4. /\ h.db \in Conn /\ Len(h.db.pSavepoint) <= Len(db.pSavepoint) /\ Fresh(h.db)
      /\ Before(h.db, 2) = IF ends /\ commits THEN Contents(db) ELSE Before(db, 2)
      /\ ends /\ ~commits => Contents(h.db) = Before(db, 2)
      /\ \A d \in Db : Level(h.db, d) <= IF d \in p.stmtTransMask
                                         THEN Level(db, d) - 1 ELSE Level(db, d)
  BY <1>2, HaltBase
<1>5. /\ commits <=> h.rc \in {"ok", "fail"}
      /\ ends /\ commits => db.pSavepoint = <<>>
      /\ db.pSavepoint = <<>> => ends
  BY <1>3 DEF Commits, EndsAll, Returned
<1>. HIDE DEF h, ends, commits
<1>6. /\ Len(h.db.pSavepoint) <= MaxSavepoint
      /\ \A d \in Db : Level(h.db, d) <= Free
  <2>1. Len(h.db.pSavepoint) <= MaxSavepoint
    BY <1>2, <1>4, ConnFields
  <2>2. \A d \in Db : Level(h.db, d) \in Nat
    BY <1>4, ConnFields, LevelsAreNat
  <2>. QED BY <1>2, <1>4, <2>1, <2>2, FreeIsLevel
<1>7. Typed' /\ ~Running'
  <2>1. ~NoStmt.runs
    BY DEF NoStmt
  <2>. QED BY <1>1, <1>2, <1>3, <1>4, <1>6, <2>1 DEF Typed, Running
<1>8. AInv'
  BY <1>1, <1>4, <1>6, <1>7, AtRestNext
<1>. QED BY <1>1, <1>4, <1>5, <1>7, <1>8 DEF KeepsBase, CommitsAll

\* The functions of vdbeapi.c.
LEMMA ApiBase ==
  ASSUME AInv, NEW c \in Conn, Api(c), Len(c.pSavepoint) <= MaxSavepoint,
         Fresh(c), \A d \in Db : Level(c, d) <= Free
  PROVE  AInv' /\ ~Running'
<1>1. ~Running /\ Typed /\ p = NoStmt
  BY AtRestIs DEF Api, Idle
<1>2. db' = c /\ reader' = reader /\ p' = p /\ result' = result /\ fault' = fault
  BY DEF Api
<1>3. Typed' /\ ~Running'
  BY <1>1, <1>2 DEF Typed, Running
<1>. QED BY <1>2, <1>3, AtRestNext

LEMMA ApiBeginBase ==
  ASSUME AInv, sqlite4_txn_begin
  PROVE  AInv' /\ KeepsBase /\ ~Running'
<1>. DEFINE stores == [d \in Db |-> IF db.store[d].iTransLevel < 2
                                    THEN KvBegin(db.store[d], 2) ELSE db.store[d]]
            c == VdbeBegin(db, 2)
<1>1. /\ db \in Conn /\ Fresh(db) /\ Len(db.pSavepoint) <= MaxSavepoint
      /\ \A d \in Db : Level(db, d) \in Nat /\ Level(db, d) <= Free
  BY AtRestIs DEF sqlite4_txn_begin, Api, Idle
<1>2. 2 \in Levels
  BY DEF Levels, MaxLevel
<1>3. \A d \in Db : /\ stores[d] \in Store
                    /\ stores[d].content = db.store[d].content
                    /\ stores[d].atBegin = db.store[d].atBegin
                    /\ stores[d].iTransLevel = IF Level(db, d) < 2 THEN 2 ELSE Level(db, d)
  <2>. TAKE d \in Db
  <2>1. db.store[d] \in Store
    BY <1>1, ConnFields
  <2>. QED BY <1>2, <2>1 DEF KvBegin, Store, Level
<1>4. c = [db EXCEPT !.store = stores] /\ stores \in [Db -> Store]
  BY <1>3 DEF VdbeBegin
<1>. HIDE DEF stores, c
<1>5. c \in Conn /\ c.store = stores /\ c.pSavepoint = db.pSavepoint
  BY <1>1, <1>4 DEF Conn
<1>6. \A d \in Db : Level(c, d) = IF Level(db, d) < 2 THEN 2 ELSE Level(db, d)
  BY <1>3, <1>5 DEF Level
<1>7. Fresh(c)
  <2>1. \A d \in Db : Level(c, d) >= Level(db, d) /\ Level(c, d) \in Nat
    BY <1>1, <1>6
  <2>. QED BY <1>1, <1>3, <1>5, <2>1, RaisedIsFresh
<1>8. \A d \in Db : Level(c, d) <= Free
  BY <1>1, <1>6, FreeIsLevel
<1>9. Before(c, 2) = Before(db, 2)
  BY <1>3, <1>5 DEF Before
<1>10. Api(c) /\ db' = c
  BY DEF sqlite4_txn_begin, Api, c
<1>. QED BY <1>1, <1>5, <1>7, <1>8, <1>9, <1>10, ApiBase DEF KeepsBase

LEMMA ApiRollbackBase ==
  ASSUME AInv, NEW l \in 0..1, sqlite4_txn_rollback(l)
  PROVE  AInv' /\ KeepsBase /\ ~Running'
<1>. DEFINE c == VdbeRollback(db, l)
<1>1. /\ db \in Conn /\ Fresh(db)
      /\ Len(db.pSavepoint) \in Nat /\ Len(db.pSavepoint) <= MaxSavepoint
      /\ \A d \in Db : Level(db, d) \in Nat /\ Level(db, d) <= Free
  BY AtRestIs DEF sqlite4_txn_rollback, Api, Idle
<1>2. l \in Levels /\ l \in Nat /\ l <= Free
  BY FreeIsLevel DEF Levels, MaxLevel
<1>3. c \in Conn /\ Fresh(c) /\ Before(c, 2) = Before(db, 2)
  BY <1>1, <1>2, RollbackBase
<1>4. /\ Len(c.pSavepoint) = LeastLen(db, l)
      /\ \A d \in Db : Level(c, d) = IF Level(db, d) >= l THEN l ELSE Level(db, d)
  BY <1>1, <1>2, RollbackLevels
<1>5. Api(c) /\ db' = c
  BY DEF sqlite4_txn_rollback, Api
<1>. HIDE DEF c
<1>6. Len(c.pSavepoint) <= MaxSavepoint /\ \A d \in Db : Level(c, d) <= Free
  BY <1>1, <1>2, <1>4 DEF LeastLen
<1>. QED BY <1>3, <1>5, <1>6, ApiBase DEF KeepsBase

LEMMA ApiPhaseOneBase ==
  ASSUME AInv, sqlite4_txn_commit_phase_one({})
  PROVE  AInv' /\ KeepsBase /\ ~Running'
<1>. DEFINE c == FreeSavepoints(db, 1)
<1>1. /\ db \in Conn /\ Fresh(db)
      /\ Len(db.pSavepoint) \in Nat /\ Len(db.pSavepoint) <= MaxSavepoint
      /\ \A d \in Db : Level(db, d) \in Nat /\ Level(db, d) <= Free
  BY AtRestIs DEF sqlite4_txn_commit_phase_one, Api, Idle
<1>2. Api(c) /\ db' = c
  <2>1. {} \cap Above(db, 1) = {}
    OBVIOUS
  <2>. QED BY <2>1 DEF sqlite4_txn_commit_phase_one, Api, VdbeCommitPhaseOne
<1>3. c \in Conn /\ c.store = db.store /\ Len(c.pSavepoint) = LeastLen(db, 1)
  BY <1>1, SavepointsFreed
<1>. HIDE DEF c
<1>4. Len(c.pSavepoint) <= MaxSavepoint
  BY <1>1, <1>3 DEF LeastLen
<1>5. /\ Fresh(c) /\ Before(c, 2) = Before(db, 2)
      /\ \A d \in Db : Level(c, d) <= Free
  BY <1>1, <1>3 DEF Fresh, Before, Level
<1>. QED BY <1>2, <1>3, <1>4, <1>5, ApiBase DEF KeepsBase

LEMMA ApiCommitBase ==
  ASSUME AInv, Api(VdbeCommit(db, 1, {}))
  PROVE  AInv' /\ CommitsAll /\ ~Running'
<1>. DEFINE c == VdbeCommit(db, 1, {})
<1>1. /\ db \in Conn /\ Fresh(db)
      /\ Len(db.pSavepoint) \in Nat /\ Len(db.pSavepoint) <= MaxSavepoint
      /\ \A d \in Db : Level(db, d) \in Nat /\ Level(db, d) <= Free
  BY AtRestIs DEF Api, Idle
<1>2. 1 \in Levels /\ 1 >= 1
  BY DEF Levels, MaxLevel
<1>3. /\ c \in Conn /\ Fresh(c) /\ Len(c.pSavepoint) = LeastLen(db, 1)
      /\ 1 = 1 => Before(c, 2) = Contents(db)
      /\ \A d \in Db : Level(c, d) = IF Level(db, d) > 1 THEN 1 ELSE Level(db, d)
  BY <1>1, <1>2, CommitBase
<1>4. Api(c) /\ db' = c
  BY DEF Api
<1>. HIDE DEF c
<1>5. Len(c.pSavepoint) <= MaxSavepoint
  BY <1>1, <1>3 DEF LeastLen
<1>6. \A d \in Db : Level(c, d) <= Free
  BY <1>1, <1>3, FreeIsLevel
<1>. QED BY <1>3, <1>4, <1>5, <1>6, ApiBase DEF CommitsAll

-----------------------------------------------------------------------------
(* What is committed.                                                      *)

\* The content to which a statement outside a transaction goes back.
StartIsBase == Running /\ db.pSavepoint = <<>> => Before(db, 2) = p.start.content

\* The steps that may commit: COMMIT or RELEASE of the outermost savepoint, and the
\* success of a statement outside a transaction.
Publishes ==
    \/ \E n \in Names : Meant(db, n) = 1 /\ SavepointRelease(n, {}) /\ result' = "ok"
    \/ Ends /\ db.pSavepoint = <<>> /\ result' \in {"ok", "fail"}

\* The failure of a statement outside a transaction.
Fails == Ends /\ db.pSavepoint = <<>> /\ result' \notin {"ok", "fail"}

LEMMA NextBase ==
  ASSUME ~PhaseOneFails, AInv, [Next]_vars
  PROVE  /\ AInv' /\ (KeepsBase \/ CommitsAll)
         /\ ~TxnApi /\ LInv => KeepsBase \/ Publishes
         /\ LInv /\ StartIsBase => StartIsBase'
         /\ Fails => Contents(db') = Before(db, 2)
<1>. DEFINE quiet == ~Running /\ ~Running'
<1>1. Bad = {{}} /\ (quiet => StartIsBase' /\ ~Fails)
  BY DEF Bad, StartIsBase, Fails, Ends
<1>2. ASSUME NEW r \in Reader, NEW ds \in SUBSET Db, SelectBegin(r, ds)
      PROVE  AInv' /\ KeepsBase /\ quiet
  BY <1>2, SelectBeginBase DEF SelectBegin, Idle
<1>3. ASSUME NEW r \in Reader, NEW rc \in {"ok", "error"}, NEW bad \in Bad,
             SelectEnd(r, rc, bad)
      PROVE  AInv' /\ (KeepsBase \/ CommitsAll) /\ (LInv => KeepsBase) /\ quiet
  BY <1>1, <1>3, SelectEndBase DEF SelectEnd, Idle
<1>4. ASSUME NEW n \in Names, NEW bad \in Bad, SavepointBegin(n, bad)
      PROVE  AInv' /\ KeepsBase /\ quiet
  BY <1>1, <1>4, SavepointBeginBase DEF SavepointBegin, Idle
<1>5. ASSUME NEW n \in Names, NEW bad \in Bad, SavepointRelease(n, bad)
      PROVE  AInv' /\ (KeepsBase \/ (CommitsAll /\ Publishes)) /\ quiet
  <2>1. bad = {} /\ SavepointRelease(n, {})
    BY <1>1, <1>5
  <2>2. ~Running
    BY <2>1 DEF SavepointRelease, Idle
  <2>3. /\ AInv' /\ ~Running'
        /\ KeepsBase \/ (CommitsAll /\ Meant(db, n) = 1 /\ result' = "ok")
    BY <2>1, SavepointReleaseBase
  <2>. QED BY <2>1, <2>2, <2>3 DEF Publishes
<1>6. ASSUME NEW n \in Names, NEW bad \in Bad, SavepointRollback(n, bad)
      PROVE  AInv' /\ KeepsBase /\ quiet
  BY <1>1, <1>6, SavepointRollbackBase DEF SavepointRollback, Idle
<1>7. ASSUME NEW need \in BOOLEAN, NEW ds \in SUBSET Db, WriteBegin(need, ds)
      PROVE  AInv' /\ KeepsBase /\ ~Fails /\ (LInv => StartIsBase')
  <2>1. /\ AInv' /\ KeepsBase /\ ~Running
        /\ db' = db /\ p'.start.content = Contents(db)
    BY <1>7, WriteBeginBase
  <2>2. LInv /\ db.pSavepoint = <<>> => Before(db, 2) = Contents(db)
    <3>. HAVE LInv /\ db.pSavepoint = <<>>
    <3>1. /\ Typed /\ db \in Conn /\ Fresh(db) /\ Len(db.pSavepoint) = 0
          /\ \A d \in Db : Level(db, d) \in Nat
      BY <2>1, AtRestIs, ConnFields
    <3>2. \A d \in Db : Level(db, d) <= 1
      BY <2>1, <3>1, SettledIsInv DEF Settled
    <3>. QED BY <3>1, <3>2, AtRest
  <2>. QED BY <2>1, <2>2 DEF StartIsBase, Fails, Ends
<1>8. ASSUME NEW d \in Db, NEW fails \in {"no", "first", "second"},
             OpTransaction(d, fails)
      PROVE  AInv' /\ KeepsBase /\ ~Fails /\ (StartIsBase => StartIsBase')
  <2>1. Running
    BY <1>8 DEF OpTransaction
  <2>. QED BY <1>8, <2>1, OpTransactionBase DEF StartIsBase, KeepsBase, Fails, Ends
<1>9. ASSUME NEW d \in Db, NEW r \in Row, Write(d, r)
      PROVE  AInv' /\ KeepsBase /\ ~Fails /\ (StartIsBase => StartIsBase')
  <2>1. Running
    BY <1>9 DEF Write
  <2>. QED BY <1>9, <2>1, WriteBase DEF StartIsBase, KeepsBase, Fails, Ends
<1>10. ASSUME NEW rc \in Results, NEW bad \in Bad, WriteEnd(rc, bad)
       PROVE  /\ AInv' /\ (KeepsBase \/ (CommitsAll /\ Publishes)) /\ StartIsBase'
              /\ Fails => Contents(db') = Before(db, 2)
  <2>1. bad = {} /\ WriteEnd(rc, {})
    BY <1>1, <1>10
  <2>. QED BY <2>1, WriteEndBase DEF Publishes, StartIsBase, Fails, Ends
<1>11. CASE \/ sqlite4_txn_begin \/ \E l \in 0..1 : sqlite4_txn_rollback(l)
            \/ \E bad \in Bad : sqlite4_txn_commit_phase_one(bad)
            \/ sqlite4_txn_commit_phase_two
            \/ \E bad \in Bad : sqlite4_txn_commit(bad)
  <2>1. ~Running /\ TxnApi
    BY <1>11 DEF sqlite4_txn_begin, sqlite4_txn_rollback, sqlite4_txn_commit_phase_one,
                 sqlite4_txn_commit_phase_two, sqlite4_txn_commit, Api, Idle
  <2>2. sqlite4_txn_commit_phase_two \/ sqlite4_txn_commit({}) => Api(VdbeCommit(db, 1, {}))
    BY DEF sqlite4_txn_commit_phase_two, sqlite4_txn_commit
  <2>3. AInv' /\ (KeepsBase \/ CommitsAll) /\ ~Running'
    BY <1>1, <1>11, <2>2, ApiBeginBase, ApiRollbackBase, ApiPhaseOneBase, ApiCommitBase
  <2>. QED BY <1>1, <2>1, <2>3
<1>12. CASE UNCHANGED vars
  <2>1. /\ db' = db /\ p' = p /\ reader' = reader /\ result' = result /\ fault' = fault
    BY <1>12 DEF vars
  <2>2. AInv'
    BY <2>1 DEF AInv, Typed, MasksAreDone, Fresh, StoresReady, Running, Level
  <2>. QED BY <2>1, <2>2 DEF KeepsBase, StartIsBase, Running, Fails, Ends
<1>13. CASE Next
  <2>. HIDE DEF quiet
  <2>. QED BY <1>1, <1>2, <1>3, <1>4, <1>5, <1>6, <1>7, <1>8, <1>9, <1>10, <1>11, <1>13
           DEF Next, Results
<1>. QED BY <1>12, <1>13

(***************************************************************************)
(* Every step makes the changes of all databases permanent, or of none, as *)
(* long as phase one does not fail, whatever the application calls and     *)
(* whatever xRollback undoes (sqlite4VdbeCommit, sqlite4VdbeHalt,          *)
(* sqlite4_txn_commit and its phases, kv.h:42).                            *)
(***************************************************************************)
THEOREM CommitsAreAtomic == ~PhaseOneFails => (Spec => CommitIsAtomic)
<1>. DEFINE Step == \/ \A d \in Db : Committed(d)' = Committed(d)
                    \/ \A d \in Db : Committed(d)' = db.store[d].content
<1>. SUFFICES ASSUME ~PhaseOneFails PROVE Spec => CommitIsAtomic
  OBVIOUS
<1>1. AInv /\ [Next]_vars => AInv' /\ (KeepsBase \/ CommitsAll)
  BY NextBase
<1>2. KeepsBase \/ CommitsAll => Step
  <2>1. \A d \in Db : Committed(d) = Before(db, 2)[d] /\ Committed(d)' = Before(db', 2)[d]
                      /\ db.store[d].content = Contents(db)[d]
    BY DEF Committed, Before, Contents
  <2>. QED BY <2>1 DEF KeepsBase, CommitsAll
<1>3. AInv /\ [Next]_vars => AInv' /\ [Step]_vars
  BY <1>1, <1>2
<1>. HIDE DEF Step
<1>4. Spec => [][Step]_vars
  BY InitAInv, <1>3, PTL DEF Spec
<1>. QED BY <1>4 DEF CommitIsAtomic, Step

(***************************************************************************)
(* Nothing becomes permanent but by COMMIT or RELEASE of the outermost     *)
(* savepoint, or by the success of a statement outside a transaction, for  *)
(* any databases and any SELECTs, as long as the application leaves the    *)
(* sqlite4_txn_ functions alone and phase one does not fail                *)
(* (sqlite4VdbeHalt, OP_Savepoint).                                        *)
(***************************************************************************)
THEOREM OnlySuccessCommits ==
    ~TxnApi /\ ~PhaseOneFails => (Spec => OnlySuccessPublishes)
<1>. DEFINE Step ==
              (\E d \in Db : Committed(d)' # Committed(d)) =>
                \/ /\ \E n \in Names : Meant(db, n) = 1 /\ SavepointRelease(n, {})
                   /\ result' = "ok"
                \/ Ends /\ db.pSavepoint = <<>> /\ result' \in {"ok", "fail"}
<1>. SUFFICES ASSUME ~TxnApi, ~PhaseOneFails PROVE Spec => OnlySuccessPublishes
  OBVIOUS
<1>1. LInv /\ AInv /\ [Next]_vars => LInv' /\ AInv' /\ (KeepsBase \/ Publishes)
  BY NextLInv, NextBase
<1>2. KeepsBase => ~ \E d \in Db : Committed(d)' # Committed(d)
  <2>1. \A d \in Db : Committed(d) = Before(db, 2)[d] /\ Committed(d)' = Before(db', 2)[d]
    BY DEF Committed, Before
  <2>. QED BY <2>1 DEF KeepsBase
<1>3. LInv /\ AInv /\ [Next]_vars => LInv' /\ AInv' /\ [Step]_vars
  BY <1>1, <1>2 DEF Publishes
<1>. HIDE DEF Step
<1>4. Spec => [][Step]_vars
  BY InitLInv, InitAInv, <1>3, PTL DEF Spec
<1>. QED BY <1>4 DEF OnlySuccessPublishes, Step

(***************************************************************************)
(* A statement outside a transaction that ends with an error, other than   *)
(* by conflict clause FAIL, leaves all databases as it found them, however *)
(* many it wrote, under the same conditions (OP_Halt, sqlite4VdbeHalt).    *)
(***************************************************************************)
THEOREM FailuresLeaveNoTrace ==
    ~TxnApi /\ ~PhaseOneFails => (Spec => FailedStatementLeavesNoTrace)
<1>. DEFINE Step == Fails => \A d \in Db : db'.store[d].content = p.start.content[d]
            Inv == LInv /\ AInv /\ StartIsBase
<1>. SUFFICES ASSUME ~TxnApi, ~PhaseOneFails PROVE Spec => FailedStatementLeavesNoTrace
  OBVIOUS
<1>1. Inv /\ [Next]_vars => Inv' /\ (Fails => Contents(db') = Before(db, 2))
  BY NextLInv, NextBase
<1>2. Inv /\ Fails => Before(db, 2) = p.start.content
  BY DEF StartIsBase, Fails, Ends
<1>3. Inv /\ [Next]_vars => Inv' /\ [Step]_vars
  BY <1>1, <1>2 DEF Contents
<1>4. Init => Inv
  <2>1. Init => ~Running
    BY DEF Init, Running, NoStmt
  <2>. QED BY <2>1, InitLInv, InitAInv DEF StartIsBase
<1>. HIDE DEF Step, Inv
<1>5. Spec => [][Step]_vars
  BY <1>3, <1>4, PTL DEF Spec
<1>. QED BY <1>5 DEF FailedStatementLeavesNoTrace, Step, Fails

-----------------------------------------------------------------------------
(* What SqlTxn sees of a connection.                                       *)

Saved == [name : Names, content : [Db -> SUBSET Row], cons : Int]

\* The open savepoints with the contents they go back to.
SavedAt(c, i) == [name |-> c.pSavepoint[i].zName, content |-> Before(c, i + 1),
                  cons |-> c.pSavepoint[i].nDeferredCons]
Stack(c) == [i \in DOMAIN c.pSavepoint |-> SavedAt(c, i)]

\* The statement that writes.
Started(q) == IF q.runs THEN [runs |-> TRUE, content |-> q.start.content,
                              cons |-> q.start.cons] ELSE q

LEMMA StackIs ==
  ASSUME NEW c \in Conn, Len(c.pSavepoint) <= MaxSavepoint
  PROVE  /\ Stack(c) \in Seq(Saved)
         /\ Len(Stack(c)) = Len(c.pSavepoint) /\ Len(c.pSavepoint) \in Nat
         /\ DOMAIN Stack(c) = 1..Len(c.pSavepoint)
         /\ Stack(c) = <<>> <=> c.pSavepoint = <<>>
         /\ \A i \in 1..Len(c.pSavepoint) :
              /\ Stack(c)[i].name = c.pSavepoint[i].zName
              /\ Stack(c)[i].content = Before(c, i + 1)
              /\ Stack(c)[i].cons = c.pSavepoint[i].nDeferredCons
<1>. DEFINE n == Len(c.pSavepoint)
            s == Stack(c)
<1>1. n \in Nat /\ DOMAIN c.pSavepoint = 1..n
  BY LenProperties DEF Conn
<1>2. \A i \in 1..n : i + 1 \in WriteLevels /\ c.pSavepoint[i] \in Savepoint
  BY <1>1, ConnFields DEF WriteLevels, MaxLevel
<1>3. \A i \in 1..n : s[i] = SavedAt(c, i)
  BY <1>1 DEF Stack
<1>4. \A i \in 1..n : s[i] \in Saved
  <2>. TAKE i \in 1..n
  <2>1. Before(c, i + 1) \in [Db -> SUBSET Row]
    BY <1>2, ContentsType
  <2>2. c.pSavepoint[i].zName \in Names /\ c.pSavepoint[i].nDeferredCons \in Int
    BY <1>2 DEF Savepoint
  <2>3. SavedAt(c, i) \in Saved
    BY <2>1, <2>2 DEF Saved, SavedAt
  <2>. QED BY <1>3, <2>3
<1>5. s \in [1..n -> Saved]
  BY <1>1, <1>4 DEF Stack
<1>. HIDE DEF s, n
<1>6. s \in Seq(Saved) /\ Len(s) = n
  BY <1>1, <1>5
<1>7. s = <<>> <=> n = 0
  BY <1>6, EmptySeq
<1>8. c.pSavepoint = <<>> <=> n = 0
  BY ConnFields DEF n
<1>9. DOMAIN s = 1..n
  BY <1>5
<1>10. \A i \in 1..n : /\ s[i].name = c.pSavepoint[i].zName
                       /\ s[i].content = Before(c, i + 1)
                       /\ s[i].cons = c.pSavepoint[i].nDeferredCons
  <2>. TAKE i \in 1..n
  <2>1. s[i] = SavedAt(c, i)
    BY <1>3
  <2>. QED BY <2>1 DEF SavedAt
<1>. QED BY <1>1, <1>6, <1>7, <1>8, <1>9, <1>10 DEF s, n

\* The savepoints up to the j-th are the same in c and r.
SameUpTo(c, r, j) ==
    \A i \in 1..j : /\ r.pSavepoint[i] = c.pSavepoint[i]
                    /\ Before(r, i + 1) = Before(c, i + 1)

LEMMA StackCut ==
  ASSUME NEW c \in Conn, Len(c.pSavepoint) <= MaxSavepoint, NEW r \in Conn,
         Len(r.pSavepoint) <= Len(c.pSavepoint), SameUpTo(c, r, Len(r.pSavepoint))
  PROVE  Stack(r) = SubSeq(Stack(c), 1, Len(r.pSavepoint))
<1>. DEFINE j == Len(r.pSavepoint)
            n == Len(c.pSavepoint)
            t == SubSeq(Stack(c), 1, j)
<1>1. n \in Nat /\ j \in Nat /\ j <= n /\ j <= MaxSavepoint
  BY ConnFields
<1>2. Stack(r) \in Seq(Saved) /\ Len(Stack(r)) = j
        /\ Stack(c) \in Seq(Saved) /\ Len(Stack(c)) = n
  BY <1>1, StackIs
<1>3. t \in Seq(Saved) /\ Len(t) = j /\ \A i \in 1..j : t[i] = Stack(c)[i]
  BY <1>1, <1>2, ElementOfSeq
<1>4. \A i \in 1..j : Stack(r)[i] = Stack(c)[i]
  <2>1. DOMAIN r.pSavepoint = 1..j /\ DOMAIN c.pSavepoint = 1..n
    BY LenProperties DEF Conn
  <2>. QED BY <1>1, <2>1 DEF Stack, SavedAt, SameUpTo
<1>. HIDE DEF t, j
<1>. QED BY <1>2, <1>3, <1>4, SeqEqual DEF t, j

LEMMA StackSame ==
  ASSUME NEW c \in Conn, Len(c.pSavepoint) <= MaxSavepoint, NEW r \in Conn,
         r.pSavepoint = c.pSavepoint,
         \A i \in 1..Len(c.pSavepoint) : Before(r, i + 1) = Before(c, i + 1)
  PROVE  Stack(r) = Stack(c)
<1>1. DOMAIN c.pSavepoint = 1..Len(c.pSavepoint)
  BY LenProperties DEF Conn
<1>. QED BY <1>1 DEF Stack, SavedAt

-----------------------------------------------------------------------------
(* What the functions of vdbeaux.c do to what SqlTxn sees.                 *)

\* r shows the same as c.
LooksLike(c, r) ==
    /\ Contents(r) = Contents(c)
    /\ r.nDeferredCons = c.nDeferredCons
    /\ Stack(r) = Stack(c)

LEMMA RollbackView ==
  ASSUME UndoesOwnLevel, NEW c \in Conn, Len(c.pSavepoint) <= MaxSavepoint, Fresh(c),
         NEW l \in Levels
  PROVE  LET r == VdbeRollback(c, l)
             j == LeastLen(c, l)
         IN /\ r \in Conn /\ Len(r.pSavepoint) = j /\ j \in 0..Len(c.pSavepoint)
            /\ Contents(r) = Before(c, IF l >= 2 THEN l ELSE 2)
            /\ Stack(r) = SubSeq(Stack(c), 1, j)
            /\ r.nDeferredCons = IF j = 0 THEN 0 ELSE c.pSavepoint[j].nDeferredCons
<1>. DEFINE r == VdbeRollback(c, l)
            j == LeastLen(c, l)
            k == IF l >= 2 THEN l ELSE 2
<1>1. /\ Len(c.pSavepoint) \in Nat /\ l \in Nat /\ k \in Nat
      /\ j \in 0..Len(c.pSavepoint) /\ j + 1 <= k
  BY ConnFields, LevelsAreNat DEF LeastLen
<1>2. r \in Conn /\ Len(r.pSavepoint) = j
  BY RollbackLevels
<1>3. /\ Contents(r) = Before(c, k)
      /\ \A m \in 2..k : Before(r, m) = Before(c, m)
      /\ \A i \in 1..j : r.pSavepoint[i] = c.pSavepoint[i]
      /\ r.nDeferredCons = IF j = 0 THEN 0 ELSE c.pSavepoint[j].nDeferredCons
  BY RollbackContents
<1>. HIDE DEF r, j, k
<1>4. SameUpTo(c, r, Len(r.pSavepoint))
  <2>1. \A i \in 1..j : i + 1 \in 2..k
    BY <1>1
  <2>. QED BY <1>2, <1>3, <2>1 DEF SameUpTo
<1>5. Stack(r) = SubSeq(Stack(c), 1, j)
  BY <1>1, <1>2, <1>4, StackCut
<1>. QED BY <1>1, <1>2, <1>3, <1>5 DEF r, j, k

LEMMA CommitView ==
  ASSUME NEW c \in Conn, Len(c.pSavepoint) <= MaxSavepoint, Fresh(c), Based(c),
         NEW l \in Levels, l >= 1, l <= Len(c.pSavepoint) + 1,
         l = 1 => Clean(Contents(c))
  PROVE  LET r == VdbeCommit(c, l, {})
         IN /\ r \in Conn /\ Len(r.pSavepoint) = l - 1
            /\ Contents(r) = Contents(c)
            /\ Stack(r) = SubSeq(Stack(c), 1, l - 1)
            /\ r.nDeferredCons = c.nDeferredCons
            /\ Fresh(r)
            /\ \A d \in Db : Level(r, d) = IF Level(c, d) > l THEN l ELSE Level(c, d)
<1>. DEFINE c1 == SomeCommitted(c, l, Above(c, l))
            r == VdbeCommit(c, l, {})
<1>1. Len(c.pSavepoint) \in Nat /\ l \in Nat /\ LeastLen(c, l) = l - 1
  BY ConnFields, LevelsAreNat DEF LeastLen
<1>2. r = FreeSavepoints(c1, l)
  <2>1. {d \in Above(c, l) : \A f \in {} \cap Above(c, l) : d < f} = Above(c, l)
    OBVIOUS
  <2>. QED BY <2>1 DEF VdbeCommit, SomeCommitted
<1>3. /\ c1 \in Conn /\ c1.pSavepoint = c.pSavepoint
      /\ c1.nDeferredCons = c.nDeferredCons
      /\ Fresh(c1) /\ Contents(c1) = Contents(c)
      /\ \A m \in 2..l : Before(c1, m) = Before(c, m)
      /\ \A d \in Db : Level(c1, d) = IF d \in Above(c, l) THEN l ELSE Level(c, d)
  BY CommittingIsSound
<1>. HIDE DEF c1, r
<1>4. LeastLen(c1, l) = l - 1
  BY <1>1, <1>3 DEF LeastLen
<1>5. /\ r \in Conn /\ r.store = c1.store /\ r.nDeferredCons = c.nDeferredCons
      /\ Len(r.pSavepoint) = l - 1
      /\ \A i \in 1..(l - 1) : r.pSavepoint[i] = c.pSavepoint[i]
  <2>1. /\ FreeSavepoints(c1, l) \in Conn
        /\ FreeSavepoints(c1, l).store = c1.store
        /\ FreeSavepoints(c1, l).nDeferredCons = c1.nDeferredCons
        /\ Len(FreeSavepoints(c1, l).pSavepoint) = LeastLen(c1, l)
        /\ \A i \in 1..LeastLen(c1, l) :
             FreeSavepoints(c1, l).pSavepoint[i] = c1.pSavepoint[i]
    BY <1>1, <1>3, SavepointsFreed
  <2>. QED BY <1>2, <1>3, <1>4, <2>1
<1>6. /\ Contents(r) = Contents(c) /\ Fresh(r)
      /\ \A m \in 2..l : Before(r, m) = Before(c, m)
      /\ \A d \in Db : Level(r, d) = Level(c1, d)
  <2>1. \A d \in Db : Level(r, d) = Level(c1, d)
    BY <1>5 DEF Level
  <2>2. Fresh(r)
    BY <1>3, <1>5, <2>1 DEF Fresh
  <2>3. Contents(r) = Contents(c1) /\ \A m : Before(r, m) = Before(c1, m)
    BY <1>5 DEF Contents, Before
  <2>. QED BY <1>3, <2>1, <2>2, <2>3
<1>7. SameUpTo(c, r, Len(r.pSavepoint))
  <2>1. \A i \in 1..(l - 1) : i + 1 \in 2..l
    BY <1>1
  <2>. QED BY <1>5, <1>6, <2>1 DEF SameUpTo
<1>8. Stack(r) = SubSeq(Stack(c), 1, l - 1)
  BY <1>1, <1>5, <1>7, StackCut
<1>9. \A d \in Db : Level(r, d) = IF Level(c, d) > l THEN l ELSE Level(c, d)
  BY <1>3, <1>6 DEF Above, Level
<1>. QED BY <1>5, <1>6, <1>8, <1>9 DEF r

LEMMA CloseView ==
  ASSUME UndoesOwnLevel, NEW c \in Conn, Len(c.pSavepoint) <= MaxSavepoint,
         NEW q, HasStatement(q), MaskAtTop(c, q), Fresh(c), Based(c),
         NEW undo \in BOOLEAN
  PROVE  LET r == CloseStatement(c, q, undo, {})
         IN /\ r.pSavepoint = c.pSavepoint
            /\ Contents(r) = IF undo THEN Undone(c, q) ELSE Contents(c)
            /\ Stack(r) = Stack(c)
            /\ r.nDeferredCons = IF undo THEN q.nStmtDefCons ELSE c.nDeferredCons
<1>. DEFINE r == CloseStatement(c, q, undo, {})
            n == Len(c.pSavepoint)
<1>1. r = SomeClosed(c, q, undo, q.stmtTransMask)
  <2>1. {d \in q.stmtTransMask : \A f \in {} \cap q.stmtTransMask : d < f} = q.stmtTransMask
    OBVIOUS
  <2>. QED BY <2>1 DEF CloseStatement, SomeClosed, Level
<1>2. /\ r \in Conn /\ r.pSavepoint = c.pSavepoint
      /\ r.nDeferredCons = IF undo THEN q.nStmtDefCons ELSE c.nDeferredCons
      /\ \A m \in 2..(n + 1) : Before(r, m) = Before(c, m)
      /\ Contents(r) = IF undo THEN Undone(c, q) ELSE Contents(c)
  BY <1>1, ClosingIsSound
<1>. HIDE DEF r
<1>3. \A i \in 1..n : Before(r, i + 1) = Before(c, i + 1)
  <2>1. n \in Nat /\ \A i \in 1..n : i + 1 \in 2..(n + 1)
    BY ConnFields
  <2>. QED BY <1>2, <2>1
<1>4. Stack(r) = Stack(c)
  BY <1>2, <1>3, StackSame
<1>. QED BY <1>2, <1>4 DEF r

-----------------------------------------------------------------------------
(* What SqlTxn sees of the end of a program.                               *)

\* A program that does not end the transaction closes its statement.
LEMMA HaltOfStatement ==
  ASSUME NEW c, NEW q, NEW rc, NEW others, NEW writers,
         HaltIsDue(c, q, rc, others, writers), ~EndsAll(c, q, rc),
         NEW e, e = CloseStatement(c, q, ~Commits(c, q, rc), {}),
         q.stmtTransMask # {} => e.pSavepoint = c.pSavepoint
  PROVE  VdbeHalt(c, q, rc, others, writers, {}).db = IF q.stmtTransMask # {} THEN e ELSE c
<1>1. c.pSavepoint # <<>>
  BY DEF EndsAll
<1>2. Ended(c, q, rc) = IF q.stmtTransMask # {} THEN e ELSE c
  BY DEF Ended
<1>3. OnlyWriter(q, writers)
  BY DEF HaltIsDue, OnlyWriter
<1>. QED BY <1>1, <1>2, <1>3, HaltIs

\* A program that ends the transaction keeps all of it or nothing.
LEMMA HaltOfAll ==
  ASSUME UndoesOwnLevel, NEW c, NEW q, NEW rc, NEW others, NEW writers,
         HaltIsDue(c, q, rc, others, writers), Sound(c), EndsAll(c, q, rc),
         q.nFkConstraint = Num(Contents(c), Immediate)
  PROVE  LET r == VdbeHalt(c, q, rc, others, writers, {}).db
         IN /\ Contents(r) = IF Commits(c, q, rc) THEN Contents(c) ELSE Before(c, 2)
            /\ Stack(r) = <<>>
            /\ r.nDeferredCons = 0
            /\ Commits(c, q, rc) => c.nDeferredCons = 0
<1>. DEFINE h == VdbeHalt(c, q, rc, others, writers, {})
            commits == Commits(c, q, rc)
            e == IF commits THEN VdbeCommit(c, 1, {}) ELSE VdbeRollback(c, 1)
            c1 == [e EXCEPT !.nDeferredCons = 0]
            f == IF commits THEN Contents(c) ELSE Before(c, 2)
<1>1. /\ c \in Conn /\ Len(c.pSavepoint) \in Nat /\ Len(c.pSavepoint) <= MaxSavepoint
      /\ 0 \in Levels /\ 1 \in Levels /\ c.nDeferredCons \in Nat
      /\ Num(Contents(c), Immediate) \in Nat
      /\ Fresh(c) /\ Based(c)
  BY ConnFields, PairsAreFinite DEF HaltIsDue, Levels, MaxLevel, Sound, Counted
<1>2. commits => c.nDeferredCons = 0 /\ Clean(Contents(c))
  <2>. HAVE commits
  <2>1. c.nDeferredCons <= 0 /\ q.nFkConstraint <= 0
    BY <1>1 DEF Commits, Returned, Resolved
  <2>. QED BY <1>1, <2>1, CleanIsZero DEF Sound, Counted
<1>. HIDE DEF commits
<1>n. \A d \in Db : Level(c, d) \in Nat
  BY <1>1, ConnFields, LevelsAreNat
<1>3. /\ e \in Conn /\ Len(e.pSavepoint) = 0 /\ Contents(e) = f /\ Fresh(e)
      /\ \A d \in Db : Level(e, d) <= 1
  <2>1. CASE commits
    <3>. DEFINE v == VdbeCommit(c, 1, {})
    <3>1. /\ v \in Conn /\ Len(v.pSavepoint) = 1 - 1 /\ Contents(v) = Contents(c)
          /\ Fresh(v)
          /\ \A d \in Db : Level(v, d) = IF Level(c, d) > 1 THEN 1 ELSE Level(c, d)
      <4>1. 1 >= 1 /\ 1 <= Len(c.pSavepoint) + 1 /\ (1 = 1 => Clean(Contents(c)))
        BY <1>1, <1>2, <2>1
      <4>. QED BY <1>1, <4>1, CommitView
    <3>. HIDE DEF v
    <3>2. \A d \in Db : Level(v, d) <= 1
      BY <1>n, <3>1
    <3>. QED BY <2>1, <3>1, <3>2 DEF v
  <2>2. CASE ~commits
    <3>. DEFINE v == VdbeRollback(c, 1)
    <3>1. /\ v \in Conn /\ Len(v.pSavepoint) = LeastLen(c, 1)
          /\ Contents(v) = Before(c, IF 1 >= 2 THEN 1 ELSE 2)
      BY <1>1, RollbackView
    <3>2. Fresh(v)
      BY <1>1, RollbackContents
    <3>3. \A d \in Db : Level(v, d) = IF Level(c, d) >= 1 THEN 1 ELSE Level(c, d)
      BY <1>1, RollbackLevels
    <3>. HIDE DEF v
    <3>4. \A d \in Db : Level(v, d) <= 1
      BY <1>n, <3>3
    <3>5. LeastLen(c, 1) = 0
      BY <1>1 DEF LeastLen
    <3>. QED BY <2>2, <3>1, <3>2, <3>4, <3>5 DEF v
  <2>. QED BY <2>1, <2>2
<1>. HIDE DEF e, f
<1>4. /\ c1 \in Conn /\ c1.pSavepoint = <<>> /\ c1.store = e.store
      /\ c1.nDeferredCons = 0
  BY <1>3, ConnFields DEF Conn
<1>5. h.db = IF others = 0 THEN VdbeRollback(c1, 0) ELSE c1
  <2>1. OnlyWriter(q, writers)
    BY DEF HaltIsDue, OnlyWriter
  <2>. QED BY <1>4, <2>1, HaltIs DEF e, commits, Ended
<1>. HIDE DEF c1
<1>6. /\ Contents(c1) = f /\ Fresh(c1) /\ Len(c1.pSavepoint) = 0
      /\ \A d \in Db : Level(c1, d) <= 1
  <2>1. \A d \in Db : Level(c1, d) = Level(e, d)
    BY <1>4 DEF Level
  <2>2. Fresh(c1)
    BY <1>3, <1>4, <2>1 DEF Fresh
  <2>3. Contents(c1) = Contents(e)
    BY <1>4 DEF Contents
  <2>. QED BY <1>3, <1>4, <2>1, <2>2, <2>3, ConnFields
<1>7. CASE others = 0
  <2>. DEFINE v == VdbeRollback(c1, 0)
  <2>1. /\ v \in Conn /\ Contents(v) = Before(c1, IF 0 >= 2 THEN 0 ELSE 2)
        /\ LeastLen(c1, 0) \in 0..Len(c1.pSavepoint)
        /\ Len(v.pSavepoint) = LeastLen(c1, 0)
        /\ v.nDeferredCons = IF LeastLen(c1, 0) = 0 THEN 0
                             ELSE c1.pSavepoint[LeastLen(c1, 0)].nDeferredCons
    BY <1>1, <1>4, <1>6, RollbackView
  <2>2. Before(c1, 2) = f
    BY <1>4, <1>6, AtRest
  <2>3. v = h.db
    BY <1>5, <1>7
  <2>. HIDE DEF v
  <2>4. Len(v.pSavepoint) = 0 /\ v.nDeferredCons = 0 /\ Contents(v) = f
    BY <1>6, <2>1, <2>2
  <2>5. Stack(v) = <<>>
    BY <1>1, <2>1, <2>4, StackIs, ConnFields
  <2>. QED BY <1>2, <2>3, <2>4, <2>5 DEF f, commits
<1>8. CASE others # 0
  <2>1. h.db = c1
    BY <1>5, <1>8
  <2>2. Stack(c1) = <<>>
    BY <1>1, <1>4, <1>6, StackIs
  <2>. QED BY <1>2, <1>4, <1>6, <2>1, <2>2 DEF f, commits
<1>. QED BY <1>7, <1>8

\* The end of a program that writes nothing shows nothing and returns what it was
\* told to.
LEMMA ReadOnlyHaltView ==
  ASSUME UndoesOwnLevel, NEW c, NEW rc \in {"ok", "error"}, NEW others, NEW writers,
         HaltIsDue(c, ReadOnly, rc, others, writers), Quiet(c),
         \A d \in Db : Level(c, d) <= Len(c.pSavepoint) + 1
  PROVE  LET h == VdbeHalt(c, ReadOnly, rc, others, writers, {})
         IN LooksLike(c, h.db) /\ h.rc = rc
<1>. DEFINE h == VdbeHalt(c, ReadOnly, rc, others, writers, {})
<1>1. /\ c \in Conn /\ Len(c.pSavepoint) \in Nat /\ Len(c.pSavepoint) <= MaxSavepoint
      /\ Sound(c) /\ Num(Contents(c), Immediate) = 0
      /\ (c.pSavepoint = <<>> <=> Len(c.pSavepoint) = 0)
  BY ConnFields DEF HaltIsDue, Quiet
<1>2. /\ ReadOnly.nFkConstraint = 0 /\ ReadOnly.stmtTransMask = {}
      /\ Resolved(ReadOnly, rc) = rc
      /\ EndsAll(c, ReadOnly, rc) <=> c.pSavepoint = <<>>
  BY DEF ReadOnly, Resolved, EndsAll
<1>3. h.rc = Returned(c, ReadOnly, rc)
  BY HaltReturns DEF HaltIsDue, OnlyWriter
<1>4. CASE c.pSavepoint = <<>>
  <2>1. Before(c, 2) = Contents(c)
    <3>1. \A d \in Db : Level(c, d) <= 1
      BY <1>1, <1>4
    <3>. QED BY <1>1, <3>1, AtRest DEF Sound
  <2>2. c.nDeferredCons = 0
    BY <1>1, <2>1, CleanIsZero DEF Sound, Based, Counted
  <2>3. Contents(h.db) = Contents(c) /\ Stack(h.db) = <<>> /\ h.db.nDeferredCons = 0
    BY <1>1, <1>2, <1>4, <2>1, HaltOfAll
  <2>4. Stack(c) = <<>>
    BY <1>1, <1>4, StackIs
  <2>5. h.rc = rc
    BY <1>2, <1>3, <2>2 DEF Returned
  <2>. HIDE DEF h
  <2>. QED BY <2>2, <2>3, <2>4, <2>5 DEF LooksLike, h
<1>5. CASE c.pSavepoint # <<>>
  <2>1. h.db = c
    BY <1>2, <1>5, HaltOfStatement
  <2>2. h.rc = rc
    BY <1>2, <1>3, <1>5 DEF Returned
  <2>. HIDE DEF h
  <2>. QED BY <2>1, <2>2 DEF LooksLike, h
<1>. QED BY <1>4, <1>5

\* A command leaves c to the halt of its program.
LEMMA CommandView ==
  ASSUME UndoesOwnLevel, LInv, Idle, NEW c, NEW rc \in {"ok", "error"},
         CommandEnd(c, rc, {}), c \in Conn, Len(c.pSavepoint) <= MaxSavepoint,
         \A d \in Db : Level(c, d) <= Len(c.pSavepoint) + 1, Quiet(c)
  PROVE  /\ LooksLike(c, db') /\ result' = rc
         /\ p' = p /\ Started(p) = Sql!NoStmt /\ ~p.runs
<1>. DEFINE others == activeVdbeCnt
            writers == writeVdbeCnt
<1>1. ~Running /\ others \in Nat /\ writers = 0
  BY ActiveCount DEF Idle, writeVdbeCnt
<1>2. HaltIsDue(c, ReadOnly, rc, others, writers)
  BY <1>1 DEF HaltIsDue, HasStatement, ReadOnly, Results
<1>3. /\ db' = VdbeHalt(c, ReadOnly, rc, others, writers, {}).db
      /\ result' = VdbeHalt(c, ReadOnly, rc, others, writers, {}).rc
      /\ p' = p
  BY DEF CommandEnd
<1>. HIDE DEF others, writers
<1>4. LooksLike(c, db') /\ result' = rc
  BY <1>2, <1>3, ReadOnlyHaltView
<1>5. p = NoStmt
  BY <1>1, NotRunning DEF LInv
<1>. QED BY <1>3, <1>4, <1>5 DEF Started, NoStmt, Sql!NoStmt

-----------------------------------------------------------------------------
(* SqlTxn's actions in these terms.                                        *)

LEMMA SqlState ==
  /\ \A d \in Db : Contents(db)[d] = db.store[d].content
  /\ Sql!Init <=> /\ Contents(db) \in [Db -> SUBSET Row] /\ db.nDeferredCons = 0
                  /\ Stack(db) = <<>> /\ Started(p) = Sql!NoStmt /\ result = "ok"
  /\ UNCHANGED Sql!vars <=>
       /\ Contents(db') = Contents(db) /\ db'.nDeferredCons = db.nDeferredCons
       /\ Stack(db') = Stack(db) /\ Started(p') = Started(p) /\ result' = result
BY DEF Contents, Stack, SavedAt, Started, Before, AtSavepoint, Running, Sql!Init, Sql!vars

LEMMA SqlRefuse ==
  ASSUME ~p.runs, p' = p, LooksLike(db, db'), result' = "error"
  PROVE  Sql!Refuse
BY DEF LooksLike, Contents, Stack, SavedAt, Before, AtSavepoint, Running, Sql!Refuse

LEMMA SqlSavepoint ==
  ASSUME NEW n \in Names, ~p.runs, p' = p, n = NoName => Stack(db) = <<>>,
         Contents(db') = Contents(db), db'.nDeferredCons = db.nDeferredCons,
         Stack(db') = Append(Stack(db), [name |-> n, content |-> Contents(db),
                                         cons |-> db.nDeferredCons]),
         result' = "ok"
  PROVE  Sql!Savepoint(n)
BY DEF Contents, Stack, SavedAt, Before, AtSavepoint, Running, Sql!Savepoint

LEMMA SqlMeant ==
  ASSUME db \in Conn, Len(db.pSavepoint) <= MaxSavepoint, NEW n \in Names,
         NEW i, i = Meant(db, n), i # 0
  PROVE  /\ Sql!Meant(i, n) /\ i \in DOMAIN Stack(db) /\ i \in 1..Len(db.pSavepoint)
         /\ Stack(db)[i].content = Before(db, i + 1)
         /\ Stack(db)[i].cons = db.pSavepoint[i].nDeferredCons
<1>1. /\ Sql!Meant(i, n) <=>
           /\ i \in DOMAIN Stack(db)
           /\ IF n = NoName THEN i = 1
              ELSE /\ Stack(db)[i].name = n
                   /\ \A j \in i+1..Len(Stack(db)) : Stack(db)[j].name # n
  BY DEF Contents, Stack, SavedAt, Before, AtSavepoint, Sql!Meant
<1>2. /\ Len(db.pSavepoint) \in Nat /\ i \in 1..Len(db.pSavepoint)
      /\ n = NoName => i = 1
      /\ n # NoName =>
           /\ db.pSavepoint[i].zName = n
           /\ \A j \in (i + 1)..Len(db.pSavepoint) : db.pSavepoint[j].zName # n
  BY MeantIsSavepoint, ConnFields
<1>3. /\ DOMAIN Stack(db) = 1..Len(db.pSavepoint)
      /\ Len(Stack(db)) = Len(db.pSavepoint)
      /\ \A j \in 1..Len(db.pSavepoint) :
           /\ Stack(db)[j].name = db.pSavepoint[j].zName
           /\ Stack(db)[j].content = Before(db, j + 1)
           /\ Stack(db)[j].cons = db.pSavepoint[j].nDeferredCons
  BY StackIs
<1>4. \A j \in (i + 1)..Len(db.pSavepoint) : j \in 1..Len(db.pSavepoint)
  BY <1>2
<1>. QED BY <1>1, <1>2, <1>3, <1>4

LEMMA SqlRelease ==
  ASSUME NEW n \in Names, NEW i, i \in DOMAIN Stack(db), Sql!Meant(i, n),
         ~p.runs, p' = p, i = 1 => db.nDeferredCons = 0,
         Contents(db') = Contents(db), db'.nDeferredCons = db.nDeferredCons,
         Stack(db') = SubSeq(Stack(db), 1, i - 1), result' = "ok"
  PROVE  Sql!Release(n)
<1>. HIDE DEF Names
<1>1. Sql!Release(n) <=>
        /\ ~p.runs
        /\ \E j \in DOMAIN Stack(db) : /\ Sql!Meant(j, n)
                                       /\ j = 1 => db.nDeferredCons = 0
                                       /\ Stack(db') = SubSeq(Stack(db), 1, j - 1)
        /\ result' = "ok"
        /\ Contents(db') = Contents(db) /\ db'.nDeferredCons = db.nDeferredCons
        /\ Started(p') = Started(p)
  BY DEF Contents, Stack, SavedAt, Before, AtSavepoint, Running, Started, Sql!Release,
         Sql!Meant
<1>. QED BY <1>1

LEMMA SqlRollbackTo ==
  ASSUME NEW n \in Name, NEW i, i \in DOMAIN Stack(db), Sql!Meant(i, n),
         ~p.runs, p' = p,
         Contents(db') = Stack(db)[i].content, db'.nDeferredCons = Stack(db)[i].cons,
         Stack(db') = SubSeq(Stack(db), 1, i), result' = "ok"
  PROVE  Sql!RollbackTo(n)
<1>1. n # NoName
  BY VdbeTxnAssumption DEF VdbeTxnAssumption
<1>2. Sql!RollbackTo(n) <=>
        /\ ~p.runs /\ n # NoName
        /\ \E j \in DOMAIN Stack(db) : /\ Sql!Meant(j, n)
                                       /\ Contents(db') = Stack(db)[j].content
                                       /\ db'.nDeferredCons = Stack(db)[j].cons
                                       /\ Stack(db') = SubSeq(Stack(db), 1, j)
        /\ result' = "ok"
        /\ Started(p') = Started(p)
  BY DEF Contents, Stack, SavedAt, Before, AtSavepoint, Running, Started, Sql!RollbackTo,
         Sql!Meant
<1>. QED BY <1>1, <1>2

LEMMA SqlRollback ==
  ASSUME ~p.runs, p' = p, Stack(db) # <<>>, Contents(db') = Stack(db)[1].content,
         db'.nDeferredCons = 0, Stack(db') = <<>>, result' = "ok"
  PROVE  Sql!Rollback
BY DEF Contents, Stack, SavedAt, Before, AtSavepoint, Running, Sql!Rollback, Sql!Undone

LEMMA SqlStmtBegin ==
  ASSUME ~p.runs, LooksLike(db, db'), result' = result, p'.runs,
         p'.start.content = Contents(db), p'.start.cons = db.nDeferredCons
  PROVE  Sql!StmtBegin
BY DEF LooksLike, Contents, Stack, SavedAt, Before, AtSavepoint, Running, Sql!StmtBegin,
       Sql!Began

LEMMA SqlWrite ==
  ASSUME p.runs, p'.runs, p'.start = p.start, Stack(db') = Stack(db),
         Contents(db') \in [Db -> SUBSET Row], db'.nDeferredCons \in Int, result' = result
  PROVE  Sql!Write
BY DEF Contents, Stack, SavedAt, Before, AtSavepoint, Running, Sql!Write

LEMMA SqlStmtEnd ==
  ASSUME p.runs, p' = NoStmt, NEW rc, result' = rc,
         \/ /\ rc \in {"ok", "fail"} /\ (Stack(db) = <<>> => db.nDeferredCons = 0)
            /\ LooksLike(db, db')
         \/ /\ rc \in {"abort", "error"}
            /\ Contents(db') = p.start.content /\ db'.nDeferredCons = p.start.cons
            /\ Stack(db') = Stack(db)
         \/ rc = "error" /\ Stack(db) # <<>> /\ LooksLike(db, db')
         \/ /\ rc = "rollback"
            /\ IF Stack(db) = <<>>
               THEN /\ Contents(db') = p.start.content
                    /\ db'.nDeferredCons = p.start.cons /\ Stack(db') = Stack(db)
               ELSE /\ Contents(db') = Stack(db)[1].content
                    /\ db'.nDeferredCons = 0 /\ Stack(db') = <<>>
  PROVE  Sql!StmtEnd(rc)
BY DEF LooksLike, Contents, Stack, SavedAt, Before, AtSavepoint, Running, NoStmt,
       Sql!StmtEnd, Sql!Keep, Sql!Undo, Sql!Undone, Sql!NoStmt

-----------------------------------------------------------------------------
(* The actions of VdbeTxn are actions of SqlTxn, or change nothing it sees. *)

\* Stores that only change their levels show nothing.
LEMMA LevelsShowNothing ==
  ASSUME db'.pSavepoint = db.pSavepoint, db'.nDeferredCons = db.nDeferredCons,
         \A d \in Db : /\ db'.store[d].content = db.store[d].content
                       /\ db'.store[d].atBegin = db.store[d].atBegin
  PROVE  LooksLike(db, db') /\ \A m : Before(db', m) = Before(db, m)
<1>1. Contents(db') = Contents(db) /\ \A m : Before(db', m) = Before(db, m)
  BY DEF Contents, Before
<1>2. Stack(db') = Stack(db)
  BY <1>1 DEF Stack, SavedAt
<1>. QED BY <1>1, <1>2 DEF LooksLike

LEMMA SelectBeginRefines ==
  ASSUME IInv, NEW r \in Reader, NEW ds \in SUBSET Db, SelectBegin(r, ds)
  PROVE  UNCHANGED Sql!vars /\ ~Running'
<1>1. ~Running /\ db \in Conn
  BY IdleIsSound DEF SelectBegin, Idle
<1>. DEFINE stores == [d \in Db |-> IF d \in ds /\ db.store[d].iTransLevel = 0
                                    THEN KvBegin(db.store[d], 1) ELSE db.store[d]]
<1>2. \A d \in Db : /\ stores[d].content = db.store[d].content
                    /\ stores[d].atBegin = db.store[d].atBegin
  <2>. TAKE d \in Db
  <2>1. db.store[d] \in Store
    BY <1>1, ConnFields
  <2>. QED BY <2>1 DEF KvBegin, Store
<1>3. db' = [db EXCEPT !.store = stores] /\ p' = p /\ result' = result
  BY DEF SelectBegin
<1>. HIDE DEF stores
<1>4. /\ db'.store = stores /\ db'.pSavepoint = db.pSavepoint
      /\ db'.nDeferredCons = db.nDeferredCons
  BY <1>1, <1>3 DEF Conn
<1>5. LooksLike(db, db')
  BY <1>2, <1>4, LevelsShowNothing
<1>. QED BY <1>1, <1>3, <1>5, SqlState DEF LooksLike, Running, Started

LEMMA SelectEndRefines ==
  ASSUME UndoesOwnLevel, IInv, NEW r \in Reader, NEW rc \in {"ok", "error"},
         SelectEnd(r, rc, {})
  PROVE  UNCHANGED Sql!vars /\ ~Running'
<1>. DEFINE others == activeVdbeCnt - 1
<1>1. /\ ~Running /\ Typed /\ db \in Conn /\ Quiet(db)
      /\ Len(db.pSavepoint) <= MaxSavepoint
      /\ \A d \in Db : Level(db, d) <= Len(db.pSavepoint) + 1
  BY IdleIsSound DEF SelectEnd, Idle
<1>2. others \in Nat /\ writeVdbeCnt = 0
  <2>1. reader[r] # {} /\ reader \in [Reader -> SUBSET Db]
    BY <1>1 DEF SelectEnd, Typed
  <2>2. activeVdbeCnt \in Nat /\ activeVdbeCnt # 0
    BY <1>1, <2>1, ActiveCount, ReadersAreFinite
  <2>. QED BY <1>1, <2>2 DEF writeVdbeCnt
<1>3. HaltIsDue(db, ReadOnly, rc, others, writeVdbeCnt)
  BY <1>1, <1>2 DEF HaltIsDue, HasStatement, ReadOnly, Results
<1>4. db' = VdbeHalt(db, ReadOnly, rc, others, writeVdbeCnt, {}).db
        /\ p' = p /\ result' = result
  BY DEF SelectEnd
<1>. HIDE DEF others
<1>5. LooksLike(db, db')
  BY <1>1, <1>3, <1>4, ReadOnlyHaltView
<1>. QED BY <1>1, <1>4, <1>5, SqlState DEF LooksLike, Running, Started

LEMMA OpTransactionRefines ==
  ASSUME IInv, NEW d \in Db, NEW fails \in {"no", "first", "second"},
         OpTransaction(d, fails), StartIsBase
  PROVE  UNCHANGED Sql!vars /\ StartIsBase'
<1>1. /\ Running /\ db \in Conn /\ p \in Statement
  BY WritingIsSound DEF OpTransaction
<1>. DEFINE s == db.store[d]
            iLevel == Max({2, Len(db.pSavepoint) + 1})
            first == IF s.iTransLevel < iLevel THEN KvBegin(s, iLevel) ELSE s
            both == /\ db.pSavepoint # <<>> /\ (p.needSavepoint \/ activeVdbeCnt > 1)
                    /\ fails = "no"
            t == IF fails = "first" THEN s
                 ELSE IF both THEN KvBegin(first, first.iTransLevel + 1)
                 ELSE first
<1>2. t.content = s.content /\ t.atBegin = s.atBegin
  <2>1. s \in Store
    BY <1>1, ConnFields
  <2>. HIDE DEF s, iLevel, both
  <2>. QED BY <2>1 DEF KvBegin, Store
<1>3. db' = [db EXCEPT !.store[d] = t] /\ result' = result
  BY DEF OpTransaction
<1>4. p'.runs /\ p'.start = p.start
  BY <1>1 DEF OpTransaction, Statement, Running
<1>. HIDE DEF t, s
<1>5. /\ db'.pSavepoint = db.pSavepoint /\ db'.nDeferredCons = db.nDeferredCons
      /\ \A e \in Db : db'.store[e] = IF e = d THEN t ELSE db.store[e]
  BY <1>1, <1>3 DEF Conn
<1>6. LooksLike(db, db') /\ Before(db', 2) = Before(db, 2)
  BY <1>2, <1>5, LevelsShowNothing DEF s
<1>7. Started(p') = Started(p)
  BY <1>1, <1>4 DEF Started, Running
<1>. QED BY <1>1, <1>3, <1>4, <1>5, <1>6, <1>7, SqlState DEF LooksLike, StartIsBase, Running

LEMMA WriteBeginRefines ==
  ASSUME IInv, NEW need \in BOOLEAN, NEW ds \in SUBSET Db, WriteBegin(need, ds)
  PROVE  Sql!StmtBegin /\ StartIsBase'
<1>. DEFINE start == [content |-> Contents(db), cons |-> db.nDeferredCons]
<1>1. /\ ~Running /\ db \in Conn /\ Fresh(db) /\ Len(db.pSavepoint) \in Nat
      /\ \A d \in Db : Level(db, d) <= Len(db.pSavepoint) + 1
  BY IdleIsSound DEF WriteBegin, Idle, Quiet, Sound
<1>2. /\ p'.start = start /\ p'.runs
      /\ db' = db /\ result' = result
  BY DEF WriteBegin, Contents
<1>3. start.content = Contents(db) /\ start.cons = db.nDeferredCons
  OBVIOUS
<1>. HIDE DEF start
<1>4. Sql!StmtBegin
  BY <1>1, <1>2, <1>3, SqlStmtBegin DEF LooksLike, Running
<1>5. db.pSavepoint = <<>> => Before(db, 2) = Contents(db)
  <2>. HAVE db.pSavepoint = <<>>
  <2>1. \A d \in Db : Level(db, d) <= 1
    BY <1>1, ConnFields
  <2>. QED BY <1>1, <2>1, AtRest
<1>. QED BY <1>2, <1>3, <1>4, <1>5 DEF StartIsBase

\* What the three transaction commands find.
LEMMA CommandFinds ==
  ASSUME IInv, Idle
  PROVE  /\ LInv /\ ~p.runs /\ db \in Conn /\ Quiet(db) /\ Sound(db)
         /\ Len(db.pSavepoint) \in Nat /\ Len(db.pSavepoint) <= MaxSavepoint
         /\ \A d \in Db : Level(db, d) \in Nat /\ Level(db, d) <= Len(db.pSavepoint) + 1
         /\ db.nDeferredCons \in Nat
         /\ (db.nDeferredCons = 0 => Clean(Contents(db)))
         /\ Stack(db) \in Seq(Saved) /\ Len(Stack(db)) = Len(db.pSavepoint)
         /\ Stack(db) = <<>> <=> db.pSavepoint = <<>>
<1>1. /\ ~Running /\ LInv /\ db \in Conn /\ Quiet(db)
      /\ Len(db.pSavepoint) \in Nat /\ Len(db.pSavepoint) <= MaxSavepoint
      /\ \A d \in Db : Level(db, d) \in Nat /\ Level(db, d) <= Len(db.pSavepoint) + 1
  BY IdleIsSound DEF Idle
<1>2. db.nDeferredCons \in Nat /\ (db.nDeferredCons = 0 => Clean(Contents(db)))
  BY <1>1, PairsAreFinite, CleanIsZero DEF Quiet, Sound, Counted
<1>. QED BY <1>1, <1>2, StackIs DEF Running, Quiet

LEMMA CommandRefuses ==
  ASSUME UndoesOwnLevel, IInv, Idle, CommandEnd(db, "error", {})
  PROVE  Sql!Refuse /\ ~Running'
<1>1. LooksLike(db, db') /\ result' = "error" /\ p' = p /\ ~p.runs
  BY CommandFinds, CommandView
<1>. QED BY <1>1, SqlRefuse DEF Running

LEMMA SavepointBeginRefines ==
  ASSUME UndoesOwnLevel, IInv, NEW n \in Names, SavepointBegin(n, {})
  PROVE  (Sql!Savepoint(n) \/ Sql!Refuse) /\ ~Running'
<1>. DEFINE new == [zName |-> n, nDeferredCons |-> db.nDeferredCons]
            s == Append(db.pSavepoint, new)
            c == [db EXCEPT !.pSavepoint = Append(@, new)]
            k == Len(db.pSavepoint)
            saved == [name |-> n, content |-> Contents(db), cons |-> db.nDeferredCons]
<1>1. Idle
  BY DEF SavepointBegin
<1>2. /\ LInv /\ ~p.runs /\ db \in Conn /\ Quiet(db) /\ Sound(db)
      /\ k \in Nat /\ k <= MaxSavepoint
      /\ \A d \in Db : Level(db, d) \in Nat /\ Level(db, d) <= k + 1
      /\ Stack(db) \in Seq(Saved) /\ Len(Stack(db)) = k
      /\ Stack(db) = <<>> <=> db.pSavepoint = <<>>
  BY <1>1, CommandFinds
<1>3. CASE n = NoName /\ db.pSavepoint # <<>>
  <2>1. CommandEnd(db, "error", {})
    BY <1>3 DEF SavepointBegin
  <2>. QED BY <1>1, <2>1, CommandRefuses
<1>4. CASE ~(n = NoName /\ db.pSavepoint # <<>>)
  <2>1. CommandEnd(c, "ok", {}) /\ k < MaxSavepoint
    BY <1>4 DEF SavepointBegin
  <2>2. new \in Savepoint /\ new.nDeferredCons = db.nDeferredCons /\ new.zName = n
    BY <1>2 DEF Savepoint, Conn
  <2>. HIDE DEF new
  <2>3. /\ s \in Seq(Savepoint) /\ Len(s) = k + 1
        /\ s[k + 1] = new /\ \A i \in 1..k : s[i] = db.pSavepoint[i]
    BY <1>2, <2>2, AppendProperties DEF Conn
  <2>4. c = [db EXCEPT !.pSavepoint = s]
    OBVIOUS
  <2>. HIDE DEF s, c
  <2>5. /\ c \in Conn /\ c.pSavepoint = s /\ c.store = db.store
        /\ c.nDeferredCons = db.nDeferredCons
    BY <1>2, <2>3, <2>4 DEF Conn
  <2>6. /\ Contents(c) = Contents(db) /\ \A m : Before(c, m) = Before(db, m)
        /\ \A d \in Db : Level(c, d) = Level(db, d)
    BY <2>5 DEF Contents, Before, Level
  <2>7. Before(db, k + 2) = Contents(db)
    <3>1. k + 2 \in WriteLevels /\ \A d \in Db : k + 2 > Level(db, d)
      BY <1>2, <2>1 DEF WriteLevels, MaxLevel
    <3>. QED BY <1>2, <3>1 DEF Sound, Fresh, Before, Contents
  <2>8. Quiet(c)
    <3>1. Fresh(c)
      BY <1>2, <2>5, <2>6 DEF Sound, Fresh
    <3>2. Based(c) /\ Counted(c) /\ Num(Contents(c), Immediate) = 0
      BY <1>2, <2>5, <2>6 DEF Quiet, Sound, Based, Counted
    <3>3. SavedExact(c)
      <4>1. \A i \in 1..k : /\ s[i].nDeferredCons = Num(Before(db, i + 1), Deferred)
                            /\ Num(Before(db, i + 1), Immediate) = 0
        BY <1>2, <2>3 DEF Sound, SavedExact
      <4>2. /\ new.nDeferredCons = Num(Before(db, k + 2), Deferred)
            /\ Num(Before(db, k + 2), Immediate) = 0
        BY <1>2, <2>2, <2>7 DEF Quiet, Sound, Counted
      <4>. QED BY <1>2, <2>3, <2>5, <2>6, <4>1, <4>2 DEF SavedExact
    <3>. QED BY <3>1, <3>2, <3>3 DEF Quiet, Sound
  <2>9. Len(c.pSavepoint) <= MaxSavepoint /\ Len(c.pSavepoint) = k + 1
          /\ \A d \in Db : Level(c, d) <= Len(c.pSavepoint) + 1
    BY <1>2, <2>1, <2>3, <2>5, <2>6
  <2>10. LooksLike(c, db') /\ result' = "ok" /\ p' = p
    BY <1>1, <1>2, <2>1, <2>5, <2>8, <2>9, CommandView
  <2>11. Stack(c) = Append(Stack(db), saved)
    <3>1. SavedAt(c, k + 1) = saved /\ \A i \in 1..k : SavedAt(c, i) = SavedAt(db, i)
      <4>1. Before(c, k + 1 + 1) = Contents(db)
        BY <1>2, <2>6, <2>7
      <4>. QED BY <1>2, <2>2, <2>3, <2>5, <2>6, <4>1 DEF SavedAt
    <3>2. /\ Stack(c) \in Seq(Saved) /\ Len(Stack(c)) = k + 1
          /\ DOMAIN c.pSavepoint = 1..(k + 1) /\ DOMAIN db.pSavepoint = 1..k
      BY <1>2, <2>5, <2>9, StackIs, LenProperties DEF Conn
    <3>3. /\ \A i \in 1..(k + 1) : Stack(c)[i] = SavedAt(c, i)
          /\ \A i \in 1..k : Stack(db)[i] = SavedAt(db, i)
      BY <3>2 DEF Stack
    <3>4. saved \in Saved
      BY <1>2, ContentsType DEF Saved, Conn
    <3>. HIDE DEF saved
    <3>5. /\ Append(Stack(db), saved) \in Seq(Saved)
          /\ Len(Append(Stack(db), saved)) = k + 1
          /\ Append(Stack(db), saved)[k + 1] = saved
          /\ \A i \in 1..k : Append(Stack(db), saved)[i] = Stack(db)[i]
      BY <1>2, <3>4, AppendProperties
    <3>6. \A i \in 1..(k + 1) : Stack(c)[i] = Append(Stack(db), saved)[i]
      BY <1>2, <3>1, <3>3, <3>5
    <3>. QED BY <3>2, <3>5, <3>6, SeqEqual
  <2>12. Sql!Savepoint(n)
    BY <1>2, <1>4, <2>5, <2>6, <2>10, <2>11, SqlSavepoint DEF LooksLike
  <2>. QED BY <1>2, <2>10, <2>12 DEF Running
<1>. QED BY <1>3, <1>4

LEMMA SavepointReleaseRefines ==
  ASSUME UndoesOwnLevel, IInv, NEW n \in Names, SavepointRelease(n, {})
  PROVE  (Sql!Release(n) \/ Sql!Refuse) /\ ~Running'
<1>. DEFINE i == Meant(db, n)
            k == Len(db.pSavepoint)
            c == VdbeCommit(db, i, {})
<1>1. Idle
  BY DEF SavepointRelease
<1>2. /\ LInv /\ ~p.runs /\ db \in Conn /\ Quiet(db) /\ Sound(db)
      /\ k \in Nat /\ k <= MaxSavepoint
      /\ \A d \in Db : Level(db, d) \in Nat /\ Level(db, d) <= k + 1
      /\ db.nDeferredCons \in Nat /\ (db.nDeferredCons = 0 => Clean(Contents(db)))
  BY <1>1, CommandFinds
<1>3. i \in 0..k /\ i \in Levels
  BY <1>2, MeantIsSavepoint DEF Levels, MaxLevel
<1>4. CASE i = 0 \/ (i = 1 /\ db.nDeferredCons > 0)
  <2>1. CommandEnd(db, "error", {})
    BY <1>4 DEF SavepointRelease
  <2>. QED BY <1>1, <2>1, CommandRefuses
<1>5. CASE ~(i = 0 \/ (i = 1 /\ db.nDeferredCons > 0))
  <2>1. CommandEnd(c, "ok", {})
    <3>1. {} \cap Above(db, i) = {}
      OBVIOUS
    <3>. QED BY <1>5, <3>1 DEF SavepointRelease
  <2>2. /\ Sql!Meant(i, n) /\ i \in DOMAIN Stack(db)
    <3>. HIDE DEF i
    <3>. QED BY <1>2, <1>5, SqlMeant DEF i
  <2>. HIDE DEF i
  <2>3. i >= 1 /\ i <= k + 1 /\ (i = 1 => db.nDeferredCons = 0) /\ i \in Nat
    BY <1>2, <1>3, <1>5
  <2>4. /\ c \in Conn /\ Len(c.pSavepoint) = i - 1
        /\ Contents(c) = Contents(db)
        /\ Stack(c) = SubSeq(Stack(db), 1, i - 1)
        /\ c.nDeferredCons = db.nDeferredCons
        /\ \A d \in Db : Level(c, d) = IF Level(db, d) > i THEN i ELSE Level(db, d)
    BY <1>2, <1>3, <2>3, CommitView DEF Sound
  <2>5. Quiet(c)
    <3>1. i = 1 => db.nDeferredCons <= 0
      BY <2>3
    <3>. QED BY <1>2, <1>3, <2>3, <3>1, CommitIsSound DEF Quiet
  <2>. HIDE DEF c
  <2>6. Len(c.pSavepoint) <= MaxSavepoint
          /\ \A d \in Db : Level(c, d) <= Len(c.pSavepoint) + 1
    BY <1>2, <1>3, <2>3, <2>4
  <2>7. LooksLike(c, db') /\ result' = "ok" /\ p' = p
    BY <1>1, <1>2, <2>1, <2>4, <2>5, <2>6, CommandView
  <2>8. Sql!Release(n)
    BY <1>2, <2>2, <2>3, <2>4, <2>7, SqlRelease DEF LooksLike
  <2>. QED BY <1>2, <2>7, <2>8 DEF Running
<1>. QED BY <1>4, <1>5

LEMMA SavepointRollbackRefines ==
  ASSUME UndoesOwnLevel, IInv, NEW n \in Names, SavepointRollback(n, {})
  PROVE  /\ (n \in Name /\ Sql!RollbackTo(n)) \/ Sql!Rollback \/ Sql!Refuse
         /\ ~Running'
<1>. DEFINE i == Meant(db, n)
            k == Len(db.pSavepoint)
            l == IF n = NoName THEN i ELSE i + 1
            c == VdbeRollback(db, l)
<1>1. Idle
  BY DEF SavepointRollback
<1>2. /\ LInv /\ ~p.runs /\ db \in Conn /\ Quiet(db) /\ Sound(db)
      /\ k \in Nat /\ k <= MaxSavepoint
      /\ \A d \in Db : Level(db, d) \in Nat /\ Level(db, d) <= k + 1
      /\ Stack(db) \in Seq(Saved) /\ Len(Stack(db)) = k
      /\ Stack(db) = <<>> <=> db.pSavepoint = <<>>
  BY <1>1, CommandFinds
<1>3. i \in 0..k /\ (n = NoName => i = IF db.pSavepoint = <<>> THEN 0 ELSE 1)
  BY <1>2, MeantIsSavepoint
<1>4. CASE i = 0
  <2>1. CommandEnd(db, "error", {})
    BY <1>4 DEF SavepointRollback
  <2>. QED BY <1>1, <2>1, CommandRefuses
<1>5. CASE i # 0
  <2>1. CommandEnd(c, "ok", {})
    BY <1>5 DEF SavepointRollback
  <2>2. /\ Sql!Meant(i, n) /\ i \in DOMAIN Stack(db)
        /\ Stack(db)[i].content = Before(db, i + 1)
        /\ Stack(db)[i].cons = db.pSavepoint[i].nDeferredCons
    <3>. HIDE DEF i
    <3>. QED BY <1>2, <1>5, SqlMeant DEF i
  <2>. HIDE DEF i
  <2>3. l \in 1..(k + 1) /\ l \in Levels /\ i \in 1..k
    BY <1>2, <1>3, <1>5 DEF Levels, MaxLevel
  <2>4. LeastLen(db, l) = IF n = NoName THEN 0 ELSE i
    BY <1>2, <1>3, <1>5, <2>3 DEF LeastLen
  <2>5. (IF l >= 2 THEN l ELSE 2) = i + 1
    BY <1>3, <1>5, <2>3
  <2>. DEFINE j == LeastLen(db, l)
  <2>6. /\ c \in Conn /\ Len(c.pSavepoint) = j /\ j \in 0..k
        /\ Contents(c) = Before(db, IF l >= 2 THEN l ELSE 2)
        /\ Stack(c) = SubSeq(Stack(db), 1, j)
        /\ c.nDeferredCons = IF j = 0 THEN 0 ELSE db.pSavepoint[j].nDeferredCons
    <3>. HIDE DEF l
    <3>. QED BY <1>2, <2>3, RollbackView DEF Sound
  <2>7. /\ Quiet(c)
        /\ \A d \in Db : Level(c, d) = IF Level(db, d) >= l THEN l ELSE Level(db, d)
    <3>. HIDE DEF l
    <3>. QED BY <1>2, <2>3, RollbackIsSound, RollbackLevels DEF Quiet, Sound
  <2>8. l <= j + 1
    BY <1>3, <1>5, <2>3, <2>4
  <2>. HIDE DEF c, l, j
  <2>9. Len(c.pSavepoint) <= MaxSavepoint
          /\ \A d \in Db : Level(c, d) <= Len(c.pSavepoint) + 1
    BY <1>2, <2>3, <2>6, <2>7, <2>8
  <2>10. LooksLike(c, db') /\ result' = "ok" /\ p' = p
    BY <1>1, <1>2, <2>1, <2>6, <2>7, <2>9, CommandView
  <2>11. Contents(db') = Stack(db)[i].content
    BY <2>2, <2>5, <2>6, <2>10 DEF LooksLike
  <2>12. CASE n = NoName
    <3>1. i = 1 /\ Stack(db) # <<>> /\ j = 0
      BY <1>2, <1>3, <1>5, <2>4, <2>12 DEF j
    <3>2. Stack(db') = <<>> /\ db'.nDeferredCons = 0
      <4>1. SubSeq(Stack(db), 1, 0) = <<>>
        BY <1>2
      <4>. QED BY <2>6, <2>10, <3>1, <4>1 DEF LooksLike
    <3>3. Sql!Rollback
      BY <1>2, <2>10, <2>11, <3>1, <3>2, SqlRollback
    <3>. QED BY <1>2, <2>10, <3>3 DEF Running
  <2>13. CASE n # NoName
    <3>1. n \in Name /\ j = i
      BY <2>4, <2>13 DEF Names, j
    <3>2. Stack(db') = SubSeq(Stack(db), 1, i) /\ db'.nDeferredCons = Stack(db)[i].cons
      BY <1>5, <2>2, <2>6, <2>10, <3>1 DEF LooksLike
    <3>3. Sql!RollbackTo(n)
      BY <1>2, <2>2, <2>10, <2>11, <3>1, <3>2, SqlRollbackTo
    <3>. QED BY <1>2, <2>10, <3>1, <3>3 DEF Running
  <2>. QED BY <2>12, <2>13
<1>. QED BY <1>4, <1>5

\* Rows are written above the levels of all savepoints.
LEMMA WriteRefines ==
  ASSUME IInv, LInv', NEW d \in Db, NEW r \in Row, Write(d, r), StartIsBase
  PROVE  Sql!Write /\ StartIsBase'
<1>. DEFINE s == db.store[d]
            C == SymDiff(s.content, {r})
            k == IF r \in s.content THEN -1 ELSE 1
            n == Len(db.pSavepoint)
            cons == IF r \in Deferred THEN db.nDeferredCons + k ELSE db.nDeferredCons
            t == KvWrite(s, C)
<1>1. Running /\ ~p.failed /\ p.todo = {} /\ d \in p.dbs
  BY DEF Write
<1>2. /\ db \in Conn /\ p \in Statement /\ n \in Nat /\ n <= MaxSavepoint
      /\ StartKept /\ LInv
  BY <1>1, WritingIsSound
<1>3. /\ db' = [db EXCEPT !.store[d] = t, !.nDeferredCons = cons]
      /\ p'.runs /\ p'.start = p.start /\ result' = result
  BY <1>1, <1>2 DEF Write, Statement, Running
<1>4. s \in Store /\ C \in SUBSET Row /\ Level(db, d) = s.iTransLevel
        /\ Level(db, d) \in Nat
  BY <1>2, ConnFields, LevelsAreNat DEF Store, SymDiff, Level
<1>5. s.iTransLevel >= 2 /\ s.iTransLevel >= n + 1
  <2>1. Level(db, d) = TopLevel(d)
    BY <1>1, <1>2, RunningIsInv
  <2>2. Max({2, n + 1}) = IF 2 >= n + 1 THEN 2 ELSE n + 1
    BY <1>2, MaxOfTwo
  <2>3. d \in p.stmtTransMask => n # 0
    BY <1>2, ConnFields DEF StartKept, MaskAtTop
  <2>. QED BY <1>1, <1>2, <1>4, <2>1, <2>2, <2>3 DEF TopLevel
<1>6. /\ t \in Store
      /\ \A m \in WriteLevels : t.atBegin[m] = IF m <= s.iTransLevel THEN s.atBegin[m]
                                               ELSE C
  <2>. HIDE DEF s, C
  <2>. QED BY <1>4, StoreWrite
<1>. HIDE DEF t, C
<1>7. cons \in Int
  BY <1>2 DEF Conn
<1>. HIDE DEF cons
<1>8. /\ db' \in Conn /\ db'.pSavepoint = db.pSavepoint /\ db'.nDeferredCons = cons
      /\ \A e \in Db : db'.store[e] = IF e = d THEN t ELSE db.store[e]
  <2>. HIDE DEF s
  <2>. QED BY <1>2, <1>3, <1>6, <1>7 DEF Conn
<1>9. \A m \in 2..(n + 1) : Before(db', m) = Before(db, m)
  <2>. TAKE m \in 2..(n + 1)
  <2>1. m \in WriteLevels /\ m <= s.iTransLevel
    BY <1>2, <1>4, <1>5 DEF WriteLevels, MaxLevel
  <2>. QED BY <1>6, <1>8, <2>1 DEF Before
<1>10. Before(db', 2) = Before(db, 2)
  <2>1. 2 \in WriteLevels
    BY DEF WriteLevels, MaxLevel
  <2>. QED BY <1>5, <1>6, <1>8, <2>1 DEF Before
<1>11. Stack(db') = Stack(db)
  <2>1. \A i \in 1..n : i + 1 \in 2..(n + 1)
    BY <1>2
  <2>. QED BY <1>2, <1>8, <1>9, <2>1, StackSame
<1>12. Sql!Write
  BY <1>1, <1>3, <1>7, <1>8, <1>11, ContentsType, SqlWrite DEF Running
<1>13. StartIsBase'
  BY <1>1, <1>3, <1>8, <1>10 DEF StartIsBase, Running
<1>. QED BY <1>12, <1>13

LEMMA WriteEndRefines ==
  ASSUME UndoesOwnLevel, IInv, NEW rc \in Results, WriteEnd(rc, {}), StartIsBase
  PROVE  (\E x \in Results : Sql!StmtEnd(x)) /\ ~Running'
<1>. DEFINE others == activeVdbeCnt - 1
            h == VdbeHalt(db, p, rc, others, writeVdbeCnt, {})
            f == Contents(db)
            x == Returned(db, p, rc)
<1>1. /\ Running /\ p' = NoStmt /\ db' = h.db /\ result' = h.rc
      /\ (rc = "abort" => p.needSavepoint \/ ~p.wrote)
      /\ (p.failed \/ p.todo # {} => rc = "error")
  BY DEF WriteEnd
<1>2. /\ db \in Conn /\ p \in Statement /\ Sound(db) /\ WritesCounted(f) /\ StartKept
      /\ LInv /\ p.stmtTransMask \subseteq p.dbs \ p.todo
      /\ Len(db.pSavepoint) <= MaxSavepoint
      /\ (Stack(db) = <<>> <=> db.pSavepoint = <<>>)
  BY <1>1, WritingIsSound, RunningIsInv, StackIs
<1>3. HaltIsDue(db, p, rc, others, writeVdbeCnt)
  BY <1>1, <1>2, WriteHaltIsDue
<1>. HIDE DEF others
<1>4. /\ p.nFkConstraint = Num(f, Immediate) /\ MaskAtTop(db, p) /\ HasStatement(p)
      /\ Fresh(db) /\ Based(db) /\ Counted(db)
  BY <1>2, <1>3 DEF WritesCounted, StartKept, Sound, HaltIsDue
<1>5. h.rc = x
  BY <1>3, HaltReturns DEF HaltIsDue, OnlyWriter
<1>6. x \in Results /\ (x = "rollback" => EndsAll(db, p, rc))
  BY DEF Results, Returned, Resolved, EndsAll
<1>. HIDE DEF h, f
<1>7. SUFFICES Sql!StmtEnd(x) /\ p' = NoStmt
  BY <1>6 DEF Running, NoStmt
<1>8. CASE EndsAll(db, p, rc)
  <2>. DEFINE commits == Commits(db, p, rc)
  <2>1. /\ Contents(db') = IF commits THEN Contents(db) ELSE Before(db, 2)
        /\ Stack(db') = <<>> /\ db'.nDeferredCons = 0
        /\ commits => db.nDeferredCons = 0
    BY <1>1, <1>2, <1>3, <1>4, <1>8, HaltOfAll DEF h, f
  <2>2. CASE commits
    <3>1. x \in {"ok", "fail"} /\ db.pSavepoint = <<>>
      BY <1>8, <2>2 DEF Commits, EndsAll, Returned
    <3>2. LooksLike(db, db') /\ (Stack(db) = <<>> => db.nDeferredCons = 0)
      BY <1>2, <2>1, <2>2, <3>1 DEF LooksLike
    <3>. QED BY <1>1, <1>5, <3>1, <3>2, SqlStmtEnd DEF Running
  <2>3. CASE ~commits /\ db.pSavepoint = <<>>
    <3>1. Contents(db') = p.start.content
      BY <1>1, <2>1, <2>3 DEF StartIsBase
    <3>2. db'.nDeferredCons = p.start.cons
      <4>1. Clean(p.start.content)
        BY <1>1, <1>4, <2>3 DEF StartIsBase, Based
      <4>. QED BY <1>2, <2>1, <4>1, CleanIsZero DEF StartKept
    <3>3. x \in {"abort", "error", "rollback"} /\ Stack(db') = Stack(db) /\ Stack(db) = <<>>
      BY <1>2, <1>6, <2>1, <2>3 DEF Commits, Results
    <3>. QED BY <1>1, <1>5, <3>1, <3>2, <3>3, SqlStmtEnd DEF Running
  <2>4. CASE ~commits /\ db.pSavepoint # <<>>
    <3>1. x = "rollback"
      BY <1>8, <2>4 DEF EndsAll, Returned, Commits
    <3>2. Stack(db) # <<>> /\ Contents(db') = Stack(db)[1].content
      <4>1. Stack(db)[1].content = Before(db, 1 + 1)
        <5>1. 1 \in 1..Len(db.pSavepoint)
          BY <1>2, <2>4, ConnFields
        <5>. QED BY <1>2, <5>1, StackIs
      <4>. QED BY <1>2, <2>1, <2>4, <4>1
    <3>. QED BY <1>1, <1>5, <2>1, <3>1, <3>2, SqlStmtEnd DEF Running
  <2>. QED BY <2>2, <2>3, <2>4
<1>9. CASE ~EndsAll(db, p, rc)
  <2>. DEFINE undo == ~Commits(db, p, rc)
              e == CloseStatement(db, p, undo, {})
  <2>1. db.pSavepoint # <<>> /\ undo \in BOOLEAN /\ x = Resolved(p, rc) /\ x # "rollback"
    BY <1>6, <1>9 DEF EndsAll, Returned
  <2>2. /\ e.pSavepoint = db.pSavepoint
        /\ Contents(e) = IF undo THEN Undone(db, p) ELSE Contents(db)
        /\ Stack(e) = Stack(db)
        /\ e.nDeferredCons = IF undo THEN p.nStmtDefCons ELSE db.nDeferredCons
    <3>. HIDE DEF undo
    <3>. QED BY <1>2, <1>4, <2>1, CloseView
  <2>3. db' = IF p.stmtTransMask # {} THEN e ELSE db
    <3>1. e = CloseStatement(db, p, ~Commits(db, p, rc), {})
      OBVIOUS
    <3>. HIDE DEF e, undo
    <3>2. h.db = IF p.stmtTransMask # {} THEN e ELSE db
      BY <1>3, <1>9, <2>2, <3>1, HaltOfStatement DEF h
    <3>. QED BY <1>1, <3>2
  <2>. HIDE DEF e
  <2>4. CASE ~undo
    <3>1. x \in {"ok", "fail"}
      BY <2>4 DEF Commits
    <3>2. LooksLike(db, db')
      BY <2>2, <2>3, <2>4 DEF LooksLike
    <3>. QED BY <1>1, <1>2, <1>5, <2>1, <3>1, <3>2, SqlStmtEnd DEF Running
  <2>5. CASE undo /\ p.stmtTransMask # {}
    <3>1. \A d \in Db \ p.stmtTransMask : f[d] = p.start.content[d]
      <4>1. CASE p.failed \/ p.todo # {}
        BY <1>2, <4>1 DEF WritesCounted
      <4>2. CASE ~p.failed /\ p.todo = {}
        BY <1>2, <2>5, <4>2 DEF WritesCounted, StartKept
      <4>. QED BY <4>1, <4>2
    <3>2. \A d \in Db : Undone(db, p)[d] = p.start.content[d]
      BY <1>2, <3>1 DEF Undone, StartKept, f, Contents
    <3>3. Undone(db, p) = p.start.content
      BY <1>2, <3>2 DEF Undone, Statement
    <3>4. x \in {"abort", "error"}
      BY <1>6, <2>1, <2>5 DEF Commits, Results
    <3>5. /\ Contents(db') = p.start.content /\ db'.nDeferredCons = p.start.cons
          /\ Stack(db') = Stack(db)
      BY <1>2, <2>2, <2>3, <2>5, <3>3 DEF StartKept
    <3>. QED BY <1>1, <1>5, <3>4, <3>5, SqlStmtEnd DEF Running
  <2>6. CASE undo /\ p.stmtTransMask = {}
    <3>1. LooksLike(db, db')
      BY <2>3, <2>6 DEF LooksLike
    <3>2. x \in {"abort", "error"}
      BY <1>6, <2>1, <2>6 DEF Commits, Results
    <3>3. CASE x = "error"
      BY <1>1, <1>2, <1>5, <2>1, <3>1, <3>3, SqlStmtEnd DEF Running
    <3>4. CASE x = "abort"
      <4>1. p.nFkConstraint = 0
        <5>1. CASE p.failed \/ p.todo # {}
          BY <1>2, <5>1 DEF WritesCounted, StartKept
        <5>2. CASE ~p.failed /\ p.todo = {}
          BY <1>2, <2>1, <2>6, <5>2 DEF WritesCounted, StartKept, NeedsStatement
        <5>. QED BY <5>1, <5>2
      <4>2. rc = "abort"
        BY <2>1, <3>4, <4>1 DEF Resolved
      <4>3. ~p.wrote
        <5>1. ~p.failed /\ p.todo = {}
          BY <1>1, <4>2
        <5>2. ~p.needSavepoint
          BY <1>2, <2>1, <2>6, <5>1 DEF WritesCounted, StartKept, NeedsStatement
        <5>. QED BY <1>1, <4>2, <5>2
      <4>4. Contents(db') = p.start.content /\ db'.nDeferredCons = p.start.cons
        BY <1>2, <1>4, <3>1, <4>3 DEF WritesCounted, StartKept, Counted, LooksLike, f
      <4>. QED BY <1>1, <1>5, <3>1, <3>4, <4>4, SqlStmtEnd DEF Running, LooksLike
    <3>. QED BY <3>2, <3>3, <3>4
  <2>. QED BY <2>4, <2>5, <2>6
<1>. QED BY <1>1, <1>8, <1>9

-----------------------------------------------------------------------------
\* The invariant, with the contents a statement outside a transaction goes back to.
RInv == IInv /\ StartIsBase

LEMMA InitRefines == Init => RInv /\ Sql!Init
<1>. SUFFICES ASSUME Init PROVE RInv /\ Sql!Init
  OBVIOUS
<1>1. IInv
  BY InitIInv
<1>2. /\ db.pSavepoint = <<>> /\ db.nDeferredCons = 0 /\ p = NoStmt /\ result = "ok"
  BY DEF Init
<1>3. db \in Conn /\ Len(db.pSavepoint) <= MaxSavepoint
  BY <1>1 DEF IInv, LInv, Typed
<1>4. Stack(db) = <<>> /\ Contents(db) \in [Db -> SUBSET Row]
  BY <1>2, <1>3, StackIs, ContentsType
<1>5. ~Running /\ Started(p) = Sql!NoStmt
  BY <1>2 DEF Running, Started, NoStmt, Sql!NoStmt
<1>6. Sql!Init
  BY <1>2, <1>4, <1>5, SqlState
<1>. QED BY <1>1, <1>5, <1>6 DEF RInv, StartIsBase

LEMMA NextRefines ==
  ASSUME ~TxnApi, UndoesOwnLevel, ~PhaseOneFails, RInv, [Next]_vars
  PROVE  [Sql!Next]_(Sql!vars) /\ RInv'
<1>. SUFFICES [Sql!Next]_(Sql!vars) /\ StartIsBase'
  BY NextIInv DEF RInv
<1>1. IInv /\ StartIsBase /\ LInv' /\ (~Running' => StartIsBase')
  BY NextIInv DEF RInv, IInv, StartIsBase
<1>2. Bad = {{}}
  BY DEF Bad
<1>3. ASSUME NEW r \in Reader, NEW ds \in SUBSET Db, SelectBegin(r, ds)
      PROVE  UNCHANGED Sql!vars /\ StartIsBase'
  BY <1>1, <1>3, SelectBeginRefines
<1>4. ASSUME NEW r \in Reader, NEW rc \in {"ok", "error"}, NEW bad \in Bad,
             SelectEnd(r, rc, bad)
      PROVE  UNCHANGED Sql!vars /\ StartIsBase'
  BY <1>1, <1>2, <1>4, SelectEndRefines
<1>5. ASSUME NEW n \in Names, NEW bad \in Bad, SavepointBegin(n, bad)
      PROVE  (Sql!Savepoint(n) \/ Sql!Refuse) /\ StartIsBase'
  BY <1>1, <1>2, <1>5, SavepointBeginRefines
<1>6. ASSUME NEW n \in Names, NEW bad \in Bad, SavepointRelease(n, bad)
      PROVE  (Sql!Release(n) \/ Sql!Refuse) /\ StartIsBase'
  BY <1>1, <1>2, <1>6, SavepointReleaseRefines
<1>7. ASSUME NEW n \in Names, NEW bad \in Bad, SavepointRollback(n, bad)
      PROVE  /\ (n \in Name /\ Sql!RollbackTo(n)) \/ Sql!Rollback \/ Sql!Refuse
             /\ StartIsBase'
  BY <1>1, <1>2, <1>7, SavepointRollbackRefines
<1>8. ASSUME NEW need \in BOOLEAN, NEW ds \in SUBSET Db, WriteBegin(need, ds)
      PROVE  Sql!StmtBegin /\ StartIsBase'
  BY <1>1, <1>8, WriteBeginRefines
<1>9. ASSUME NEW d \in Db, NEW fails \in {"no", "first", "second"},
             OpTransaction(d, fails)
      PROVE  UNCHANGED Sql!vars /\ StartIsBase'
  BY <1>1, <1>9, OpTransactionRefines
<1>10. ASSUME NEW d \in Db, NEW r \in Row, Write(d, r)
       PROVE  Sql!Write /\ StartIsBase'
  BY <1>1, <1>10, WriteRefines
<1>11. ASSUME NEW rc \in Results, NEW bad \in Bad, WriteEnd(rc, bad)
       PROVE  (\E x \in Results : Sql!StmtEnd(x)) /\ StartIsBase'
  BY <1>1, <1>2, <1>11, WriteEndRefines
<1>12. CASE UNCHANGED vars
  <2>1. db' = db /\ p' = p /\ result' = result
    BY <1>12 DEF vars
  <2>. QED BY <1>1, <2>1, SqlState DEF StartIsBase, Running
<1>13. ~ \/ sqlite4_txn_begin
         \/ \E l \in 0..1 : sqlite4_txn_rollback(l)
         \/ \E bad \in Bad : sqlite4_txn_commit_phase_one(bad)
         \/ sqlite4_txn_commit_phase_two
         \/ \E bad \in Bad : sqlite4_txn_commit(bad)
  BY DEF sqlite4_txn_begin, sqlite4_txn_rollback, sqlite4_txn_commit_phase_one,
         sqlite4_txn_commit_phase_two, sqlite4_txn_commit, Api
<1>14. /\ \A n \in Names : Sql!Savepoint(n) \/ Sql!Release(n) => Sql!Next
       /\ \A n \in Name : Sql!RollbackTo(n) => Sql!Next
       /\ Sql!Rollback \/ Sql!Refuse \/ Sql!StmtBegin \/ Sql!Write => Sql!Next
       /\ \A x \in Results : Sql!StmtEnd(x) => Sql!Next
  BY DEF Sql!Next, Names, Results
<1>15. CASE Next
  <2>1. Sql!Next \/ UNCHANGED Sql!vars
    <3>1. \/ \E r \in Reader, ds \in SUBSET Db : SelectBegin(r, ds)
          \/ \E r \in Reader, rc \in {"ok", "error"}, bad \in Bad : SelectEnd(r, rc, bad)
          \/ \E n \in Names, bad \in Bad : SavepointBegin(n, bad)
          \/ \E n \in Names, bad \in Bad : SavepointRelease(n, bad)
          \/ \E n \in Names, bad \in Bad : SavepointRollback(n, bad)
          \/ \E need \in BOOLEAN, ds \in SUBSET Db : WriteBegin(need, ds)
          \/ \E d \in Db, fails \in {"no", "first", "second"} : OpTransaction(d, fails)
          \/ \E d \in Db, r \in Row : Write(d, r)
          \/ \E rc \in Results, bad \in Bad : WriteEnd(rc, bad)
      BY <1>13, <1>15 DEF Next, Results
    <3>. QED BY <1>3, <1>4, <1>5, <1>6, <1>7, <1>8, <1>9, <1>10, <1>11, <1>14, <3>1
  <2>2. StartIsBase'
    BY <1>3, <1>4, <1>5, <1>6, <1>7, <1>8, <1>9, <1>10, <1>11, <1>13, <1>15
       DEF Next, Results
  <2>. QED BY <2>1, <2>2
<1>. QED BY <1>12, <1>15

(***************************************************************************)
(* The virtual machine keeps the promises of the SQL commands: over stores *)
(* whose xRollback(N) undoes level N as well, every step of a connection   *)
(* is a command, a step of a statement, or invisible, for any databases,   *)
(* rows, savepoints and SELECTs, and for an xBegin that fails              *)
(* (OP_Savepoint, OP_Transaction, sqlite4VdbeHalt and the functions it     *)
(* calls).                                                                 *)
(***************************************************************************)
THEOREM SqlCommandsKept ==
    ~TxnApi /\ UndoesOwnLevel /\ ~PhaseOneFails => (Spec => ImplementsSqlTxn)
<1>. SUFFICES ASSUME ~TxnApi, UndoesOwnLevel, ~PhaseOneFails PROVE Spec => Sql!Spec
  BY DEF ImplementsSqlTxn
<1>1. RInv /\ [Next]_vars => [Sql!Next]_(Sql!vars) /\ RInv'
  BY NextRefines
<1>. QED BY InitRefines, <1>1, PTL DEF Spec, Sql!Spec
=============================================================================
