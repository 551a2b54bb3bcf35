---------------------------- MODULE KVBdbProofs ----------------------------
(***************************************************************************)
(* Theorems about KVBdb and KVBdbCursor for any keys, values, cursors and  *)
(* levels, under conditions (Benign): the clients call the store as the    *)
(* rules of kv.h allow and as this engine needs, and the library fails     *)
(* neither to commit nor to open a cursor.  A handle whose commit failed   *)
(* is dead and stays in pTxn, and the level is -1 after a rollback to 0    *)
(* that cannot open the store's cursor again.                              *)
(*                                                                         *)
(* The invariant relates what the engine keeps (the level, pTxn, pCsr, the *)
(* cursors) to what the library has: Nested, one transaction for each      *)
(* level from 2 on, in those below it, and no other; Served, one cursor of *)
(* the library for each of the clients, in the transaction of its level;   *)
(* PhasesInOrder, what may be prepared, and when.  A method is a function  *)
(* from a state to states, so that a lemma says of each what it does to a  *)
(* state that is Nested and Served; kvbdbRollback and kvbdbRevert are      *)
(* composed of others, and so are their lemmas.                            *)
(***************************************************************************)
EXTENDS KVBdbCursor, WellFoundedInduction, TLAPS

USE KVEngineAssumption, KVBdbAssumption, KVBdbCursorAssumption

-----------------------------------------------------------------------------
(* The conditions.                                                         *)

\* S cannot be mapped onto T: T has more elements than S.
Outnumbers(T, S) == \A f \in [S -> T \cup {NULL}] : \E x \in T : \A y \in S : f[y] # x

\* The clients keep to what the engine is good for, commits and the opening of
\* cursors do not fail, and an address can be found for everything that is open.
Benign ==
    /\ Calls = {} /\ Failing \subseteq {"txn_begin", "prepare", "put"}
    /\ Outnumbers(Handle, 3..MaxLevel) /\ Outnumbers(Dbc, Csr)
    /\ \E b \in Nat : \A k \in Key : k <= b

-----------------------------------------------------------------------------
(* The inductive invariant.                                                *)

\* In the middle of kvbdbRollback(0) the level is negative.
State ==
    [iTransLevel : -1..MaxLevel, pTxn : [Level -> Handle \cup {NULL}],
     pCsr : Dbc \cup {NULL}, txn : [Handle -> Txn], stored : Content,
     dbc : [Dbc -> Cursor],
     rc : {"OK", "INEXACT", "NOTFOUND", "ERROR", "INTERNAL", "MISUSE", "MISMATCH"},
     stale : BOOLEAN]

\* The levels with a transaction, in the state s and above level n.
Deep(s) == 2..s.iTransLevel
Ending(s, n) == {s.pTxn[i] : i \in {j \in Deep(s) : j > n}}

\* Each level from 2 on has a live transaction of its own in those of the levels
\* below it, and no other is live.
Nested(s) ==
    /\ s \in State /\ ~s.stale
    /\ \A l \in Level : IF l \in Deep(s) THEN s.pTxn[l] \in Handle ELSE s.pTxn[l] = NULL
    /\ \A i, j \in Deep(s) : i # j => s.pTxn[i] # s.pTxn[j]
    /\ \A l \in Deep(s) : /\ s.pTxn[l] \in Live(s)
                          /\ s.txn[s.pTxn[l]].above = {s.pTxn[i] : i \in 2..(l - 1)}
    /\ \A h \in Live(s) : \E l \in Deep(s) : h = s.pTxn[l]

\* The cursors cs of the clients, opened up to level b, are served by a cursor of
\* the library each; there is no other but that of the store.
Served(s, cs, b) ==
    /\ s.pCsr # NULL => s.dbc[s.pCsr].open /\ s.dbc[s.pCsr].txn = NULL
    /\ \A d \in Dbc : s.dbc[d].open =>
        d = s.pCsr \/ \E c \in Csr : cs[c].open /\ cs[c].csr = d
    /\ \A c \in Csr : cs[c].open =>
        /\ cs[c].csr \in Dbc /\ s.dbc[cs[c].csr].open /\ cs[c].level \in 1..b
        /\ IF cs[c].level = 1 THEN cs[c].csr = s.pCsr
           ELSE s.dbc[cs[c].csr].txn = s.pTxn[cs[c].level]
        /\ \A e \in Csr : cs[e].open /\ cs[e].csr = cs[c].csr => e = c

\* Nothing is prepared.
Unprepared(s) == \A h \in Handle : s.txn[h].state # "prepared"

\* What a read at level i would see.
Seen(s, i) == IF i < 2 THEN s.stored ELSE s.txn[s.pTxn[i]].view

\* Between the phases of a commit the level is the one that it ends.
PhasesInOrder ==
    /\ committing \in Level /\ kv.iTransLevel >= 0
    /\ Between => kv.iTransLevel = committing + 1
    /\ ~Unprepared(kv) => committing = 1 /\ Between

Object == [open : BOOLEAN, level : Level, csr : Dbc \cup {NULL},
           dir : {"NONE", "EQ", "LE", "GE"}, eof : BOOLEAN,
           cached : (Key \X Val) \cup {NULL}]

BInv ==
    /\ Nested(kv) /\ PhasesInOrder
    /\ cursor \in [Csr -> Object] /\ Served(kv, cursor, kv.iTransLevel)
    /\ BuffersHoldTheRow

-----------------------------------------------------------------------------
(* The library.                                                            *)

LEMMA LevelIs ==
  /\ MaxLevel \in Nat /\ MaxLevel >= 2 /\ Level = 0..MaxLevel
  /\ {0, 1, 2} \subseteq Level
BY DEF Level

LEMMA NestedIs ==
  ASSUME NEW s, Nested(s)
  PROVE  /\ s.iTransLevel \in Int /\ s.iTransLevel >= -1 /\ s.iTransLevel <= MaxLevel
         /\ Deep(s) \subseteq Level /\ s.txn \in [Handle -> Txn] /\ s.stored \in Content
         /\ s.pTxn \in [Level -> Handle \cup {NULL}]
         /\ Live(s) = {s.pTxn[i] : i \in Deep(s)}
         /\ \A i \in Level : Seen(s, i) \in Content \/ i > s.iTransLevel
         /\ \A i \in Level : View(s, s.pTxn[i]) = Seen(s, i) \/ i > s.iTransLevel
<1>1. /\ s \in State
      /\ \A l \in Level : IF l \in Deep(s) THEN s.pTxn[l] \in Handle ELSE s.pTxn[l] = NULL
      /\ \A l \in Deep(s) : s.pTxn[l] \in Live(s)
      /\ \A h \in Live(s) : \E l \in Deep(s) : h = s.pTxn[l]
  BY DEF Nested
<1>2. /\ s.iTransLevel \in Int /\ s.iTransLevel >= -1 /\ s.iTransLevel <= MaxLevel
      /\ s.txn \in [Handle -> Txn] /\ s.stored \in Content
      /\ s.pTxn \in [Level -> Handle \cup {NULL}]
  BY <1>1 DEF State
<1>3. Deep(s) \subseteq Level
  BY <1>2, LevelIs DEF Deep, Level
<1>4. Live(s) = {s.pTxn[i] : i \in Deep(s)}
  BY <1>1
<1>5. \A i \in Level : i \in Deep(s) \/ i < 2 \/ i > s.iTransLevel
  BY <1>2, LevelIs DEF Deep
<1>6. \A i \in Deep(s) : i >= 2 /\ s.txn[s.pTxn[i]].view \in Content /\ s.pTxn[i] # NULL
  BY <1>1, <1>2, <1>3 DEF Txn, Deep
<1>7. \A i \in Level : i < 2 => s.pTxn[i] = NULL
  BY <1>1 DEF Deep
<1>. QED BY <1>2, <1>3, <1>4, <1>5, <1>6, <1>7 DEF Seen, View

\* The transactions in that of level i are those of the levels above.
LEMMA BelowIs ==
  ASSUME NEW s, Nested(s), NEW i \in Deep(s)
  PROVE  Below(s, s.pTxn[i]) = Ending(s, i)
<1>1. /\ \A l \in Deep(s) : /\ s.pTxn[l] \in Live(s)
                            /\ s.txn[s.pTxn[l]].above = {s.pTxn[j] : j \in 2..(l - 1)}
      /\ Live(s) = {s.pTxn[j] : j \in Deep(s)}
      /\ \A k, j \in Deep(s) : k # j => s.pTxn[k] # s.pTxn[j]
      /\ s.iTransLevel \in Int
  BY NestedIs DEF Nested
<1>2. \A l \in Deep(s) : s.pTxn[i] \in s.txn[s.pTxn[l]].above <=> l > i
  <2>. TAKE l \in Deep(s)
  <2>1. l \in Int /\ i \in Int /\ i >= 2 /\ l <= s.iTransLevel
    BY <1>1 DEF Deep
  <2>2. CASE l > i
    <3>1. i \in 2..(l - 1)
      BY <2>1, <2>2
    <3>. QED BY <1>1, <2>2, <3>1
  <2>3. CASE ~(l > i)
    <3>1. \A j \in 2..(l - 1) : j \in Deep(s) /\ j # i
      BY <1>1, <2>1, <2>3 DEF Deep
    <3>. QED BY <1>1, <2>3, <3>1
  <2>. QED BY <2>2, <2>3
<1>. QED BY <1>1, <1>2 DEF Below, Ending

LEMMA InnermostIs ==
  ASSUME NEW s, Nested(s), NEW i \in Deep(s)
  PROVE  Innermost(s, s.pTxn[i]) = s.pTxn[s.iTransLevel]
<1>. DEFINE L == s.iTransLevel
            S == Below(s, s.pTxn[i]) \cup {s.pTxn[i]}
<1>1. L \in Int /\ i \in Int /\ i <= L /\ L \in Deep(s)
  BY NestedIs DEF Deep
<1>2. S = {s.pTxn[j] : j \in {k \in Deep(s) : k >= i}}
  BY <1>1, BelowIs DEF Ending, Deep
<1>3. \A j \in Deep(s) : Below(s, s.pTxn[j]) = {} <=> j = L
  <2>. TAKE j \in Deep(s)
  <2>1. Below(s, s.pTxn[j]) = Ending(s, j)
    BY BelowIs
  <2>2. j # L => s.pTxn[L] \in Ending(s, j)
    BY <1>1 DEF Ending, Deep
  <2>3. j = L => Ending(s, j) = {}
    BY <1>1 DEF Ending, Deep
  <2>. QED BY <2>1, <2>2, <2>3
<1>. HIDE DEF S, L
<1>4. s.pTxn[L] \in S
  BY <1>1, <1>2
<1>5. \A g \in S : Below(s, g) = {} <=> g = s.pTxn[L]
  BY <1>1, <1>2, <1>3
<1>6. Innermost(s, s.pTxn[i]) = CHOOSE g \in S : Below(s, g) = {}
  BY DEF Innermost, S
<1>7. Innermost(s, s.pTxn[i]) \in S /\ Below(s, Innermost(s, s.pTxn[i])) = {}
  BY <1>4, <1>5, <1>6
<1>. QED BY <1>5, <1>7 DEF L

\* The parent of the transaction of level i + 1, which LibCommit finds.
LEMMA ParentIs ==
  ASSUME NEW s, Nested(s), NEW i \in Deep(s), i + 1 \in Deep(s)
  PROVE  LET above == s.txn[s.pTxn[i + 1]].above
         IN /\ s.pTxn[i] \in above
            /\ \A g \in above :
                (\A f \in above : f = g \/ f \in s.txn[g].above) <=> g = s.pTxn[i]
<1>. DEFINE above == s.txn[s.pTxn[i + 1]].above
            P(g) == \A f \in above : f = g \/ f \in s.txn[g].above
<1>1. /\ \A l \in Deep(s) : s.txn[s.pTxn[l]].above = {s.pTxn[j] : j \in 2..(l - 1)}
      /\ \A k, j \in Deep(s) : k # j => s.pTxn[k] # s.pTxn[j]
      /\ s.iTransLevel \in Int /\ i \in Int /\ i >= 2 /\ i <= s.iTransLevel
  <2>1. s.iTransLevel \in Int
    BY NestedIs
  <2>2. i \in Int /\ i >= 2 /\ i <= s.iTransLevel
    BY <2>1 DEF Deep
  <2>. QED BY <2>1, <2>2 DEF Nested
<1>2. above = {s.pTxn[j] : j \in 2..i}
  BY <1>1
<1>3. \A j \in 2..i : j \in Deep(s) /\ j \in Int
  BY <1>1 DEF Deep
<1>4. s.pTxn[i] \in above /\ P(s.pTxn[i])
  <2>1. i \in 2..i /\ \A j \in 2..i : j = i \/ j \in 2..(i - 1)
    BY <1>1
  <2>2. s.pTxn[i] \in above
    BY <1>2, <2>1
  <2>3. ASSUME NEW f \in above
        PROVE  f = s.pTxn[i] \/ f \in s.txn[s.pTxn[i]].above
    <3>. HIDE DEF above
    <3>1. PICK j \in 2..i : f = s.pTxn[j]
      BY <1>2
    <3>2. s.txn[s.pTxn[i]].above = {s.pTxn[k] : k \in 2..(i - 1)}
      BY <1>1
    <3>. QED BY <2>1, <3>1, <3>2
  <2>. QED BY <2>2, <2>3
<1>5. \A g \in above : P(g) => g = s.pTxn[i]
  <2>. SUFFICES ASSUME NEW j \in 2..i, P(s.pTxn[j]), j # i
                PROVE  FALSE
    BY <1>2
  <2>1. s.pTxn[i] # s.pTxn[j]
    BY <1>1, <1>3
  <2>2. s.pTxn[i] \in s.txn[s.pTxn[j]].above
    BY <1>4, <2>1
  <2>3. PICK k \in 2..(j - 1) : s.pTxn[i] = s.pTxn[k]
    BY <1>1, <1>3, <2>2
  <2>4. k \in Deep(s) /\ k # i
    BY <1>1, <1>3, <2>3 DEF Deep
  <2>. QED BY <1>1, <2>3, <2>4
<1>. HIDE DEF above
<1>. QED BY <1>4, <1>5 DEF above

-----------------------------------------------------------------------------
(* What the methods are made of.                                           *)

\* The cursors of the clients stay where they are.
Kept(s, o) == \A c \in Csr : cursor[c].open => o.dbc[cursor[c].csr] = s.dbc[cursor[c].csr]

SameLevels(s, o) ==
    /\ o.iTransLevel = s.iTransLevel /\ o.pTxn = s.pTxn /\ o.txn = s.txn
    /\ o.stored = s.stored /\ o.stale = s.stale

LEMMA SameIsNested ==
  ASSUME NEW s, Nested(s), NEW o \in State, SameLevels(s, o)
  PROVE  Nested(o) /\ (Unprepared(s) <=> Unprepared(o)) /\ \A i : Seen(o, i) = Seen(s, i)
BY DEF Nested, SameLevels, Deep, Live, Unprepared, Seen

LEMMA SameIsServed ==
  ASSUME NEW s, NEW o, NEW b, Served(s, cursor, b), o.pTxn = s.pTxn,
         o.pCsr = s.pCsr, o.dbc = s.dbc
  PROVE  Served(o, cursor, b) /\ Kept(s, o)
BY DEF Served, Kept

\* Only the return code changes.
LEMMA CodeIs ==
  ASSUME NEW s \in State,
         NEW rc \in {"OK", "INEXACT", "NOTFOUND", "ERROR", "INTERNAL", "MISUSE", "MISMATCH"}
  PROVE  LET o == [s EXCEPT !.rc = rc]
         IN /\ o \in State /\ o.rc = rc /\ SameLevels(s, o)
            /\ o.pCsr = s.pCsr /\ o.dbc = s.dbc
BY DEF State, SameLevels

\* The levels above n are ended.
LEMMA CutIsNested ==
  ASSUME NEW s, Nested(s), NEW n \in Int, n >= -1, n <= s.iTransLevel,
         NEW r \in State, r.iTransLevel = n, ~r.stale,
         \A i \in Level : r.pTxn[i] = IF i > n THEN NULL ELSE s.pTxn[i],
         \A h \in Ending(s, n) : r.txn[h].state = "free",
         \A h \in Handle \ Ending(s, n) :
            /\ r.txn[h].state = "free" <=> s.txn[h].state = "free"
            /\ r.txn[h].above = s.txn[h].above
  PROVE  Nested(r)
<1>1. /\ \A l \in Level : IF l \in Deep(s) THEN s.pTxn[l] \in Handle ELSE s.pTxn[l] = NULL
      /\ \A i, j \in Deep(s) : i # j => s.pTxn[i] # s.pTxn[j]
      /\ \A l \in Deep(s) : s.txn[s.pTxn[l]].above = {s.pTxn[i] : i \in 2..(l - 1)}
      /\ Live(s) = {s.pTxn[i] : i \in Deep(s)}
      /\ s.iTransLevel \in Int /\ Deep(s) \subseteq Level
  BY NestedIs, ZenonT(40) DEF Nested
<1>2. \A l \in Deep(r) : l \in Deep(s) /\ l \in Level /\ l <= n /\ r.pTxn[l] = s.pTxn[l]
  BY <1>1 DEF Deep
<1>3. \A l \in Level : l \in Deep(r) <=> l \in Deep(s) /\ l <= n
  BY <1>1, LevelIs DEF Deep
<1>4. \A l \in Deep(s) : s.pTxn[l] \in Ending(s, n) <=> l > n
  BY <1>1 DEF Ending
<1>5. Live(r) = {r.pTxn[l] : l \in Deep(r)}
  <2>1. \A h \in Handle : h \in Live(r) <=> h \in Live(s) /\ h \notin Ending(s, n)
    BY DEF Live
  <2>2. \A h \in Live(r) : \E l \in Deep(r) : h = r.pTxn[l]
    <3>. TAKE h \in Live(r)
    <3>1. h \in Live(s) /\ h \notin Ending(s, n)
      BY <2>1 DEF Live
    <3>2. PICK l \in Deep(s) : h = s.pTxn[l]
      BY <1>1, <3>1
    <3>3. l \in Int /\ ~(l > n)
      BY <1>1, <1>4, <3>1, <3>2 DEF Deep
    <3>4. l \in Deep(r)
      BY <1>1, <1>3, <3>3
    <3>. QED BY <1>2, <3>2, <3>4
  <2>3. \A l \in Deep(r) : r.pTxn[l] \in Live(r)
    <3>. TAKE l \in Deep(r)
    <3>1. l \in Deep(s) /\ ~(l > n) /\ r.pTxn[l] = s.pTxn[l]
      BY <1>2 DEF Deep
    <3>. QED BY <1>1, <1>4, <2>1, <3>1
  <2>. QED BY <2>2, <2>3
<1>6. \A l \in Deep(r) : r.txn[r.pTxn[l]].above = {r.pTxn[i] : i \in 2..(l - 1)}
  <2>. TAKE l \in Deep(r)
  <2>1. l \in Deep(s) /\ ~(l > n) /\ r.pTxn[l] = s.pTxn[l] /\ s.pTxn[l] \in Handle /\ l \in Int
    BY <1>1, <1>2 DEF Deep
  <2>2. r.txn[r.pTxn[l]].above = {s.pTxn[i] : i \in 2..(l - 1)}
    BY <1>1, <1>4, <2>1
  <2>3. \A i \in 2..(l - 1) : r.pTxn[i] = s.pTxn[i]
    <3>. TAKE i \in 2..(l - 1)
    <3>1. i \in Deep(r)
      BY <2>1 DEF Deep
    <3>. QED BY <1>2, <3>1
  <2>. QED BY <2>2, <2>3
<1>7. \A l \in Level : IF l \in Deep(r) THEN r.pTxn[l] \in Handle ELSE r.pTxn[l] = NULL
  <2>. TAKE l \in Level
  <2>1. r.pTxn[l] = IF l > n THEN NULL ELSE s.pTxn[l]
    OBVIOUS
  <2>2. l \in Int
    BY LevelIs
  <2>. QED BY <1>1, <1>3, <2>1, <2>2
<1>8. \A i, j \in Deep(r) : i # j => r.pTxn[i] # r.pTxn[j]
  BY <1>1, <1>2
<1>. QED BY <1>5, <1>6, <1>7, <1>8 DEF Nested

LEMMA CutIsServed ==
  ASSUME NEW s, Nested(s), NEW n \in Int, NEW b \in Int, NEW a \in Int,
         Served(s, cursor, b), b <= MaxLevel, NEW r, r.pCsr = s.pCsr,
         \A d \in Dbc : r.dbc[d] = IF s.dbc[d].txn \in Ending(s, n) THEN NoDbc ELSE s.dbc[d],
         \A i \in Level : r.pTxn[i] = IF i > n THEN NULL ELSE s.pTxn[i],
         \A c \in Csr : cursor[c].open =>
            cursor[c].level <= a /\ (cursor[c].level <= n \/ cursor[c].level = 1)
  PROVE  Served(r, cursor, a) /\ Kept(s, r)
<1>1. /\ \A l \in Level : IF l \in Deep(s) THEN s.pTxn[l] \in Handle ELSE s.pTxn[l] = NULL
      /\ \A i, j \in Deep(s) : i # j => s.pTxn[i] # s.pTxn[j]
      /\ Deep(s) \subseteq Level /\ s.pCsr \in Dbc \cup {NULL}
  BY NestedIs DEF Nested, State
<1>2. NULL \notin Ending(s, n)
  BY <1>1 DEF Ending
<1>3. \A l \in Level : l <= n => s.pTxn[l] \notin Ending(s, n)
  <2>. SUFFICES ASSUME NEW l \in Level, l <= n, NEW j \in Deep(s), j > n, s.pTxn[l] = s.pTxn[j]
                PROVE  FALSE
    BY DEF Ending
  <2>1. l # j /\ s.pTxn[j] \in Handle
    BY <1>1, LevelIs
  <2>. QED BY <1>1, <2>1
<1>4. \A c \in Csr : cursor[c].open =>
        /\ cursor[c].csr \in Dbc /\ s.dbc[cursor[c].csr].open /\ cursor[c].level \in 1..b
        /\ IF cursor[c].level = 1 THEN cursor[c].csr = s.pCsr
           ELSE s.dbc[cursor[c].csr].txn = s.pTxn[cursor[c].level]
        /\ \A e \in Csr : cursor[e].open /\ cursor[e].csr = cursor[c].csr => e = c
  BY DEF Served
<1>5. s.pCsr # NULL => s.dbc[s.pCsr].open /\ s.dbc[s.pCsr].txn = NULL
  BY DEF Served
<1>6. ASSUME NEW c \in Csr, cursor[c].open
      PROVE  /\ r.dbc[cursor[c].csr] = s.dbc[cursor[c].csr]
             /\ cursor[c].level \in 1..a
             /\ cursor[c].level # 1 => r.pTxn[cursor[c].level] = s.pTxn[cursor[c].level]
  <2>1. cursor[c].level \in Level /\ cursor[c].level \in Int
    BY <1>4, <1>6, LevelIs
  <2>2. CASE cursor[c].level = 1
    BY <1>2, <1>4, <1>5, <1>6, <2>2
  <2>3. CASE cursor[c].level # 1
    <3>1. cursor[c].level <= n /\ ~(cursor[c].level > n)
      BY <1>6, <2>1, <2>3
    <3>. QED BY <1>3, <1>4, <1>6, <2>1, <2>3, <3>1
  <2>. QED BY <2>2, <2>3
<1>7. r.pCsr # NULL => r.dbc[r.pCsr].open /\ r.dbc[r.pCsr].txn = NULL
  BY <1>1, <1>2, <1>5
<1>8. \A d \in Dbc : r.dbc[d].open =>
        d = r.pCsr \/ \E c \in Csr : cursor[c].open /\ cursor[c].csr = d
  BY DEF Served, NoDbc
<1>. QED BY <1>4, <1>6, <1>7, <1>8 DEF Served, Kept

\* There is an address for one more cursor of the library.
LEMMA DbcIsFree ==
  ASSUME Benign, NEW s, Nested(s), NEW b, Served(s, cursor, b),
         NEW c0, s.pCsr = NULL \/ (c0 \in Csr /\ ~cursor[c0].open)
  PROVE  FreeDbc(s) \in Dbc /\ ~s.dbc[FreeDbc(s)].open
<1>. DEFINE f == [c \in Csr |-> IF c = c0 /\ ~cursor[c].open THEN s.pCsr
                                ELSE IF cursor[c].csr \in Dbc THEN cursor[c].csr ELSE NULL]
<1>1. s.pCsr \in Dbc \cup {NULL}
  BY DEF Nested, State
<1>2. f \in [Csr -> Dbc \cup {NULL}]
  BY <1>1
<1>3. PICK d \in Dbc : \A c \in Csr : f[c] # d
  BY <1>2 DEF Benign, Outnumbers
<1>4. ~s.dbc[d].open
  <2>1. ASSUME NEW c \in Csr, cursor[c].open, cursor[c].csr = d
        PROVE  FALSE
    BY <1>3, <2>1
  <2>2. ASSUME d = s.pCsr
        PROVE  FALSE
    <3>1. d # NULL
      OBVIOUS
    <3>2. c0 \in Csr /\ ~cursor[c0].open
      BY <2>2, <3>1
    <3>3. f[c0] = d
      BY <2>2, <3>2
    <3>. QED BY <1>3, <3>2, <3>3
  <2>. QED BY <2>1, <2>2 DEF Served
<1>. QED BY <1>4 DEF FreeDbc

LEMMA OpenReadIs ==
  ASSUME Benign, NEW s, Nested(s), NEW b, Served(s, cursor, b)
  PROVE  \E o \in State : /\ OpenRead(s) = {o}
                          /\ Nested(o) /\ Served(o, cursor, b) /\ Kept(s, o)
                          /\ SameLevels(s, o) /\ o.rc = s.rc /\ o.pCsr # NULL
<1>1. s \in State
  BY DEF Nested
<1>2. CASE s.pCsr # NULL
  <2>1. OpenRead(s) = {s}
    BY <1>2 DEF OpenRead
  <2>. QED BY <1>1, <1>2, <2>1 DEF SameLevels, Kept
<1>3. CASE s.pCsr = NULL
  <2>. DEFINE d == FreeDbc(s)
              x == [open |-> TRUE, txn |-> NULL, pos |-> NULL]
              D == [s.dbc EXCEPT ![d] = x]
              p == [s EXCEPT !.dbc = D]
              o == [p EXCEPT !.pCsr = d]
  <2>1. OpenRead(s) = {o}
    <3>1. Outcomes("cursor") = {"OK"}
      BY DEF Outcomes, Benign
    <3>2. LibOpen(s, d, NULL) = p
      BY DEF LibOpen
    <3>. HIDE DEF p, d
    <3>3. OpenRead(s) = {IF rc = "OK" THEN [LibOpen(s, d, NULL) EXCEPT !.pCsr = d]
                         ELSE [s EXCEPT !.rc = rc] : rc \in Outcomes("cursor")}
      BY <1>3 DEF OpenRead, d
    <3>. QED BY <3>1, <3>2, <3>3
  <2>2. d \in Dbc /\ ~s.dbc[d].open
    BY <1>3, DbcIsFree
  <2>. HIDE DEF d
  <2>3. x \in Cursor /\ x.open /\ x.txn = NULL
    BY DEF Cursor
  <2>. HIDE DEF x
  <2>4. /\ D \in [Dbc -> Cursor] /\ D[d] = x
        /\ \A e \in Dbc : e # d => D[e] = s.dbc[e]
    BY <1>1, <2>2, <2>3 DEF State
  <2>. HIDE DEF D
  <2>5. /\ p \in State /\ p.dbc = D /\ SameLevels(s, p) /\ p.rc = s.rc
    BY <1>1, <2>4 DEF State, SameLevels
  <2>. HIDE DEF p
  <2>6. /\ o \in State /\ o.pCsr = d /\ o.dbc = D /\ SameLevels(s, o) /\ o.rc = s.rc
    BY <2>2, <2>5 DEF State, SameLevels
  <2>. HIDE DEF o
  <2>7. Nested(o)
    BY <2>6, SameIsNested
  <2>8. \A c \in Csr : cursor[c].open =>
          cursor[c].csr \in Dbc /\ cursor[c].csr # d /\ cursor[c].level # 1
    BY <1>3, <2>2 DEF Served
  <2>9. Kept(s, o)
    BY <2>4, <2>6, <2>8 DEF Kept
  <2>10. Served(o, cursor, b)
    <3>1. o.pTxn = s.pTxn
      BY <2>6 DEF SameLevels
    <3>2. \A e \in Dbc : o.dbc[e].open =>
            e = o.pCsr \/ \E c \in Csr : cursor[c].open /\ cursor[c].csr = e
      BY <1>3, <2>4, <2>6 DEF Served
    <3>3. \A c \in Csr : cursor[c].open => o.dbc[cursor[c].csr] = s.dbc[cursor[c].csr]
      BY <2>9 DEF Kept
    <3>. QED BY <2>3, <2>4, <2>6, <2>8, <3>1, <3>2, <3>3 DEF Served
  <2>11. o.pCsr # NULL
    BY <2>2, <2>6
  <2>. QED BY <2>1, <2>6, <2>7, <2>9, <2>10, <2>11
<1>. QED BY <1>2, <1>3

\* The store's cursor is closed, which no client uses.
LEMMA CloseReadIs ==
  ASSUME NEW s, Nested(s), NEW b, Served(s, cursor, b), \A c \in Csr : ~cursor[c].open
  PROVE  LET o == CloseRead(s)
         IN Nested(o) /\ Served(o, cursor, b) /\ Kept(s, o) /\ SameLevels(s, o) /\ o.rc = s.rc
<1>1. s \in State
  BY DEF Nested
<1>2. CASE s.pCsr = NULL
  BY <1>2 DEF CloseRead, SameLevels, Kept
<1>3. CASE s.pCsr # NULL
  <2>. DEFINE d == s.pCsr
              D == [s.dbc EXCEPT ![d] = NoDbc]
              p == [s EXCEPT !.dbc = D]
              o == [p EXCEPT !.pCsr = NULL]
  <2>1. d \in Dbc /\ s.dbc[d].open
    BY <1>1, <1>3 DEF State, Served
  <2>2. CloseRead(s) = o
    <3>1. LibClose(s, d) = p
      BY <2>1 DEF LibClose
    <3>2. CloseRead(s) = [LibClose(s, d) EXCEPT !.pCsr = NULL]
      BY <1>3 DEF CloseRead
    <3>. HIDE DEF p, d
    <3>. QED BY <3>1, <3>2
  <2>3. NoDbc \in Cursor /\ ~NoDbc.open
    BY DEF NoDbc, Cursor
  <2>. HIDE DEF d
  <2>4. /\ D \in [Dbc -> Cursor] /\ D[d] = NoDbc
        /\ \A e \in Dbc : e # d => D[e] = s.dbc[e]
    BY <1>1, <2>1, <2>3 DEF State
  <2>. HIDE DEF D
  <2>5. /\ p \in State /\ p.dbc = D /\ SameLevels(s, p) /\ p.rc = s.rc
    BY <1>1, <2>4 DEF State, SameLevels
  <2>. HIDE DEF p
  <2>6. /\ o \in State /\ o.pCsr = NULL /\ o.dbc = D /\ SameLevels(s, o) /\ o.rc = s.rc
    BY <2>1, <2>5 DEF State, SameLevels
  <2>. HIDE DEF o
  <2>7. Nested(o)
    BY <2>6, SameIsNested
  <2>8. \A e \in Dbc : ~o.dbc[e].open
    BY <2>3, <2>4, <2>6 DEF Served, d
  <2>. QED BY <2>2, <2>6, <2>7, <2>8 DEF Served, Kept
<1>. QED BY <1>2, <1>3

LEMMA HandleIsFree ==
  ASSUME Benign, NEW s, Nested(s), s.iTransLevel < MaxLevel
  PROVE  FreeHandle(s) \in Handle /\ FreeHandle(s) \notin Live(s)
<1>. DEFINE f == [i \in 3..MaxLevel |-> IF i - 1 \in Deep(s) THEN s.pTxn[i - 1] ELSE NULL]
<1>1. /\ Live(s) = {s.pTxn[i] : i \in Deep(s)} /\ s.iTransLevel \in Int
      /\ \A l \in Deep(s) : s.pTxn[l] \in Handle
  BY NestedIs DEF Nested
<1>2. f \in [3..MaxLevel -> Handle \cup {NULL}]
  BY <1>1
<1>3. PICK h \in Handle : \A i \in 3..MaxLevel : f[i] # h
  BY <1>2 DEF Benign, Outnumbers
<1>4. h \notin Live(s)
  <2>. SUFFICES ASSUME NEW l \in Deep(s), h = s.pTxn[l]
                PROVE  FALSE
    BY <1>1
  <2>1. l \in Int /\ l >= 2 /\ l <= s.iTransLevel
    BY <1>1 DEF Deep
  <2>2. l + 1 \in 3..MaxLevel /\ (l + 1) - 1 = l
    BY <1>1, <2>1, LevelIs
  <2>3. f[l + 1] = s.pTxn[l]
    BY <2>2
  <2>. QED BY <1>3, <2>2, <2>3
<1>. QED BY <1>4 DEF FreeHandle

\* A new innermost level l, with the content of the one that was innermost.
Raised(s, o, l) ==
    /\ o.iTransLevel = l /\ o.stored = s.stored
    /\ \A i \in Level : i <= s.iTransLevel => Seen(o, i) = Seen(s, i)
    /\ Seen(o, l) = Seen(s, s.iTransLevel)
    /\ Unprepared(s) => Unprepared(o)

LEMMA OpenTxnIs ==
  ASSUME Benign, NEW s, Nested(s), NEW b \in Int, Served(s, cursor, b), s.rc = "OK",
         NEW l \in Level, l >= 2, b < l,
         l = s.iTransLevel + 1 \/ (s.iTransLevel = 0 /\ l = 2),
         NEW o \in OpenTxn(s, l)
  PROVE  /\ Nested(o) /\ Served(o, cursor, b) /\ Kept(s, o)
         /\ \/ o.rc = "OK" /\ Raised(s, o, l)
            \/ o.rc = "ERROR" /\ SameLevels(s, o) /\ o.pCsr = s.pCsr /\ o.dbc = s.dbc
<1>. DEFINE L == s.iTransLevel
            h == FreeHandle(s)
            parent == s.pTxn[L]
            x == [state |-> "active", view |-> View(s, parent),
                  above |-> IF parent = NULL THEN {} ELSE s.txn[parent].above \cup {parent}]
            T == [s.txn EXCEPT ![h] = x]
            P == [s.pTxn EXCEPT ![l] = h]
            p == [s EXCEPT !.txn = T]
            q == [p EXCEPT !.iTransLevel = l]
            r == [q EXCEPT !.pTxn = P]
<1>1. /\ s \in State /\ L \in Int /\ l \in Int /\ L \in Level /\ L < l /\ L < MaxLevel
      /\ ~s.stale /\ Deep(s) \subseteq Level
      /\ l - 1 = L \/ (L = 0 /\ l = 2)
  <2>1. /\ s \in State /\ ~s.stale /\ L \in Int /\ L >= -1 /\ Deep(s) \subseteq Level
    BY NestedIs DEF Nested
  <2>2. l \in Int /\ l <= MaxLevel /\ MaxLevel \in Int
    BY LevelIs
  <2>. HIDE DEF L
  <2>3. L = l - 1 \/ (L = 0 /\ l = 2)
    BY <2>1, <2>2 DEF L
  <2>4. L >= 0 /\ L < l /\ L < MaxLevel /\ (l - 1 = L \/ (L = 0 /\ l = 2))
    BY <2>1, <2>2, <2>3
  <2>5. L \in Level
    BY <2>1, <2>2, <2>4 DEF Level
  <2>. QED BY <2>1, <2>2, <2>4, <2>5
<1>2. /\ \A i \in Level : IF i \in Deep(s) THEN s.pTxn[i] \in Handle ELSE s.pTxn[i] = NULL
      /\ \A i, j \in Deep(s) : i # j => s.pTxn[i] # s.pTxn[j]
      /\ \A i \in Deep(s) : /\ s.pTxn[i] \in Live(s)
                            /\ s.txn[s.pTxn[i]].above = {s.pTxn[j] : j \in 2..(i - 1)}
      /\ Live(s) = {s.pTxn[i] : i \in Deep(s)}
      /\ s.pTxn \in [Level -> Handle \cup {NULL}] /\ s.txn \in [Handle -> Txn]
  BY NestedIs DEF Nested
<1>3. l \notin Deep(s) /\ s.pTxn[l] = NULL
  BY <1>1, <1>2 DEF Deep
<1>4. OpenTxn(s, l) = {IF rc = "OK" THEN r ELSE [s EXCEPT !.rc = rc] : rc \in Outcomes("txn_begin")}
  <2>1. OpenTxn(s, l) = {IF rc = "OK" THEN [LibBegin(s, parent, h)
                                              EXCEPT !.iTransLevel = l, !.pTxn[l] = h]
                         ELSE [s EXCEPT !.rc = rc] : rc \in Outcomes("txn_begin")}
    <3>1. ~(s.rc # "OK" \/ l < 2 \/ l <= s.iTransLevel \/ s.pTxn[l] # NULL)
      BY <1>1, <1>3
    <3>. QED BY <3>1 DEF OpenTxn
  <2>2. LibBegin(s, parent, h) = p
    BY DEF LibBegin
  <2>3. [p EXCEPT !.iTransLevel = l, !.pTxn[l] = h] = r
    <3>1. p = [iTransLevel |-> s.iTransLevel, pTxn |-> s.pTxn, pCsr |-> s.pCsr, txn |-> T,
               stored |-> s.stored, dbc |-> s.dbc, rc |-> s.rc, stale |-> s.stale]
      <4>. HIDE DEF T
      <4>. QED BY <1>1 DEF State
    <3>. HIDE DEF p, h
    <3>. QED BY <3>1
  <2>. HIDE DEF p, r, h, parent
  <2>. QED BY <2>1, <2>2, <2>3
<1>5. h \in Handle /\ h \notin Live(s)
  BY <1>1, HandleIsFree
<1>6. (parent = NULL) = (L < 2) /\ (L >= 2 => L \in Deep(s) /\ parent \in Handle)
  BY <1>1, <1>2 DEF Deep
<1>7. View(s, parent) = Seen(s, L) /\ Seen(s, L) \in Content
  BY <1>1, NestedIs
<1>8. (IF parent = NULL THEN {} ELSE s.txn[parent].above \cup {parent}) = {s.pTxn[j] : j \in 2..(l - 1)}
  <2>1. CASE L < 2
    <3>1. 2..(l - 1) = {}
      BY <1>1, <2>1
    <3>. QED BY <1>6, <2>1, <3>1
  <2>2. CASE L >= 2
    <3>1. 2..(l - 1) = (2..(L - 1)) \cup {L} /\ parent # NULL
      BY <1>1, <1>6, <2>2
    <3>2. s.txn[parent].above = {s.pTxn[j] : j \in 2..(L - 1)}
      BY <1>2, <1>6, <2>2
    <3>. QED BY <3>1, <3>2
  <2>. QED BY <1>1, <2>1, <2>2
<1>. HIDE DEF h, parent
<1>9. \A j \in 2..(l - 1) : j \in Deep(s) /\ j \in Level
  BY <1>1 DEF Deep
<1>10. /\ x \in Txn /\ x.state = "active" /\ x.view = Seen(s, L)
       /\ x.above = {s.pTxn[j] : j \in 2..(l - 1)}
  <2>1. {s.pTxn[j] : j \in 2..(l - 1)} \subseteq Handle
    BY <1>2, <1>9
  <2>. QED BY <1>7, <1>8, <2>1 DEF Txn
<1>. HIDE DEF x
<1>11. /\ T \in [Handle -> Txn] /\ T[h] = x
       /\ \A g \in Handle : g # h => T[g] = s.txn[g]
       /\ P \in [Level -> Handle \cup {NULL}] /\ P[l] = h
       /\ \A i \in Level : i # l => P[i] = s.pTxn[i]
  BY <1>2, <1>5, <1>10
<1>. HIDE DEF T, P
<1>12. /\ p \in State /\ p.txn = T /\ p.pTxn = s.pTxn /\ p.stored = s.stored
       /\ p.stale = s.stale /\ p.rc = s.rc /\ p.pCsr = s.pCsr /\ p.dbc = s.dbc
  BY <1>1, <1>11 DEF State
<1>. HIDE DEF p
<1>13. /\ q \in State /\ q.txn = T /\ q.pTxn = s.pTxn /\ q.stored = s.stored /\ q.iTransLevel = l
       /\ q.stale = s.stale /\ q.rc = s.rc /\ q.pCsr = s.pCsr /\ q.dbc = s.dbc
  <2>1. l \in -1..MaxLevel
    BY <1>1, LevelIs
  <2>. QED BY <1>12, <2>1 DEF State
<1>. HIDE DEF q
<1>14. /\ r \in State /\ r.txn = T /\ r.pTxn = P /\ r.stored = s.stored /\ r.iTransLevel = l
       /\ r.stale = s.stale /\ r.rc = s.rc /\ r.pCsr = s.pCsr /\ r.dbc = s.dbc
  BY <1>11, <1>13 DEF State
<1>. HIDE DEF r
<1>15. /\ \A i \in Deep(r) : i = l \/ i \in Deep(s)
       /\ \A i \in Deep(s) : i \in Deep(r) /\ i # l /\ i \in Level
       /\ l \in Deep(r)
  BY <1>1, <1>3, <1>14 DEF Deep
<1>16. \A i \in Deep(s) : P[i] = s.pTxn[i] /\ P[i] # h /\ T[P[i]] = s.txn[P[i]] /\ P[i] \in Handle
  BY <1>2, <1>5, <1>11, <1>15
<1>17. \A i \in Deep(r) : 2..(i - 1) \subseteq Deep(s)
  BY <1>1, <1>9, <1>15 DEF Deep
<1>18. Nested(r)
  <2>1. Live(r) = Live(s) \cup {h}
    BY <1>5, <1>10, <1>11, <1>14 DEF Live
  <2>2. \A i \in Level : IF i \in Deep(r) THEN P[i] \in Handle ELSE P[i] = NULL
    BY <1>2, <1>5, <1>11, <1>15, <1>16
  <2>3. \A i, j \in Deep(r) : i # j => P[i] # P[j]
    BY <1>2, <1>11, <1>15, <1>16
  <2>4. \A i \in Deep(r) : P[i] \in Live(r) /\ T[P[i]].above = {P[j] : j \in 2..(i - 1)}
    <3>. TAKE i \in Deep(r)
    <3>1. {P[j] : j \in 2..(i - 1)} = {s.pTxn[j] : j \in 2..(i - 1)}
      BY <1>16, <1>17
    <3>2. CASE i = l
      BY <1>10, <1>11, <2>1, <3>1, <3>2
    <3>3. CASE i \in Deep(s)
      <4>1. P[i] = s.pTxn[i] /\ T[P[i]] = s.txn[s.pTxn[i]]
        BY <1>16, <3>3
      <4>2. s.pTxn[i] \in Live(s) /\ s.txn[s.pTxn[i]].above = {s.pTxn[j] : j \in 2..(i - 1)}
        BY <1>2, <3>3
      <4>. QED BY <2>1, <3>1, <4>1, <4>2
    <3>. QED BY <1>15, <3>2, <3>3
  <2>5. \A g \in Live(r) : \E i \in Deep(r) : g = P[i]
    BY <1>2, <1>11, <1>15, <1>16, <2>1
  <2>6. r \in State /\ ~r.stale /\ r.pTxn = P /\ r.txn = T
    BY <1>1, <1>14
  <2>7. /\ \A i \in Level : IF i \in Deep(r) THEN r.pTxn[i] \in Handle ELSE r.pTxn[i] = NULL
        /\ \A i, j \in Deep(r) : i # j => r.pTxn[i] # r.pTxn[j]
        /\ \A g \in Live(r) : \E i \in Deep(r) : g = r.pTxn[i]
    BY <2>2, <2>3, <2>5, <2>6
  <2>8. \A i \in Deep(r) : /\ r.pTxn[i] \in Live(r)
                          /\ r.txn[r.pTxn[i]].above = {r.pTxn[j] : j \in 2..(i - 1)}
    BY <2>4, <2>6
  <2>. QED BY <2>6, <2>7, <2>8 DEF Nested
<1>19. Raised(s, r, l)
  <2>1. \A i \in Level : i <= L => Seen(r, i) = Seen(s, i)
    <3>. SUFFICES ASSUME NEW i \in Level, i <= L
                  PROVE  Seen(r, i) = Seen(s, i)
      OBVIOUS
    <3>1. i < 2 \/ i \in Deep(s)
      BY <1>1, LevelIs DEF Deep
    <3>. QED BY <1>14, <1>16, <3>1 DEF Seen
  <2>2. Seen(r, l) = Seen(s, L)
    BY <1>1, <1>10, <1>11, <1>14 DEF Seen
  <2>3. Unprepared(s) => Unprepared(r)
    BY <1>10, <1>11, <1>14 DEF Unprepared
  <2>. QED BY <1>14, <2>1, <2>2, <2>3 DEF Raised
<1>20. Served(r, cursor, b) /\ Kept(s, r)
  <2>1. \A c \in Csr : cursor[c].open => r.pTxn[cursor[c].level] = s.pTxn[cursor[c].level]
    <3>. SUFFICES ASSUME NEW c \in Csr, cursor[c].open
                  PROVE  cursor[c].level \in Level /\ cursor[c].level # l
      BY <1>11, <1>14
    <3>1. cursor[c].level \in 1..b
      BY DEF Served
    <3>. QED BY <1>1, <3>1, LevelIs
  <2>. QED BY <1>14, <2>1 DEF Served, Kept
<1>21. CASE o = r
  BY <1>14, <1>18, <1>19, <1>20, <1>21
<1>22. CASE o = [s EXCEPT !.rc = "ERROR"]
  <2>1. o \in State /\ o.rc = "ERROR" /\ SameLevels(s, o) /\ o.pCsr = s.pCsr /\ o.dbc = s.dbc
    BY <1>1, <1>22, CodeIs
  <2>2. Nested(o) /\ Served(o, cursor, b) /\ Kept(s, o)
    BY <2>1, SameIsNested, SameIsServed DEF SameLevels
  <2>. QED BY <2>1, <2>2
<1>23. o = r \/ o = [s EXCEPT !.rc = "ERROR"]
  BY <1>4 DEF Outcomes
<1>. QED BY <1>21, <1>22, <1>23
\* A level below 2 has nothing but its number.
LEMMA LowIs ==
  ASSUME NEW s, Nested(s), NEW b, Served(s, cursor, b), NEW l \in {0, 1}, s.iTransLevel < 2
  PROVE  LET o == [s EXCEPT !.iTransLevel = l]
         IN /\ Nested(o) /\ Served(o, cursor, b) /\ Kept(s, o) /\ Raised(s, o, l)
            /\ o.rc = s.rc
<1>. DEFINE o == [s EXCEPT !.iTransLevel = l]
<1>1. s \in State /\ s.iTransLevel \in Int /\ l \in -1..MaxLevel /\ l \in Int
  BY NestedIs, LevelIs DEF Nested
<1>2. /\ o \in State /\ o.pTxn = s.pTxn /\ o.txn = s.txn /\ o.stored = s.stored
      /\ o.stale = s.stale /\ o.pCsr = s.pCsr /\ o.dbc = s.dbc /\ o.rc = s.rc
      /\ o.iTransLevel = l
  BY <1>1 DEF State
<1>. HIDE DEF o
<1>3. Deep(s) = {} /\ Deep(o) = {}
  BY <1>1, <1>2 DEF Deep
<1>4. Live(o) = Live(s)
  BY <1>2 DEF Live
<1>5. Nested(o)
  BY <1>2, <1>3, <1>4 DEF Nested
<1>6. Served(o, cursor, b) /\ Kept(s, o)
  BY <1>2, SameIsServed
<1>7. \A i \in Level : i <= s.iTransLevel => Seen(o, i) = Seen(s, i)
  BY <1>2 DEF Seen
<1>8. Seen(o, l) = Seen(s, s.iTransLevel)
  BY <1>1, <1>2 DEF Seen
<1>9. Raised(s, o, l)
  BY <1>2, <1>7, <1>8 DEF Raised, Unprepared
<1>. QED BY <1>2, <1>5, <1>6, <1>9 DEF o

\* kvbdbBegin(l) in the level below, or from 0 to 2.
LEMMA BeginIs ==
  ASSUME Benign, NEW s, Nested(s), NEW b \in Int, Served(s, cursor, b), NEW l \in Level,
         l = s.iTransLevel + 1 \/ (s.iTransLevel = 0 /\ l = 2),
         l >= 2 => b <= s.iTransLevel,
         NEW o \in kvbdbBegin(s, l)
  PROVE  /\ Nested(o) /\ Served(o, cursor, b) /\ Kept(s, o)
         /\ \/ o.rc = "OK" /\ Raised(s, o, l)
            \/ /\ o.rc = "ERROR" /\ l >= 2 /\ o.iTransLevel = s.iTransLevel
               /\ o.stored = s.stored /\ (Unprepared(s) => Unprepared(o))
               /\ \A i \in Level : Seen(o, i) = Seen(s, i)
<1>. DEFINE z == [s EXCEPT !.rc = "OK"]
            D(x) == IF x.rc = "OK"
                    THEN [x EXCEPT !.iTransLevel = IF l > @ THEN l ELSE @]
                    ELSE IF x.iTransLevel = 0 THEN CloseRead(x) ELSE x
<1>1. s \in State /\ s.iTransLevel \in Int /\ l \in Int /\ MaxLevel \in Int
  <2>1. s \in State /\ s.iTransLevel \in Int
    BY NestedIs DEF Nested
  <2>2. l \in Int /\ MaxLevel \in Int
    BY LevelIs
  <2>. QED BY <2>1, <2>2
<1>2. z \in State /\ z.rc = "OK" /\ SameLevels(s, z) /\ z.pCsr = s.pCsr /\ z.dbc = s.dbc
  BY <1>1, CodeIs
<1>3. Nested(z) /\ Served(z, cursor, b) /\ Kept(s, z) /\ (Unprepared(s) => Unprepared(z))
      /\ \A i : Seen(z, i) = Seen(s, i)
  BY <1>2, SameIsNested, SameIsServed DEF SameLevels
<1>4. PICK y \in State : /\ OpenRead(z) = {y}
                         /\ Nested(y) /\ Served(y, cursor, b) /\ Kept(z, y)
                         /\ SameLevels(z, y) /\ y.rc = z.rc
  <2>. HIDE DEF z
  <2>. QED BY <1>3, OpenReadIs
<1>5. kvbdbBegin(s, l) = {D(x) : x \in OpenTxn(y, l)}
  BY <1>4 DEF kvbdbBegin
<1>. HIDE DEF z
<1>6. /\ y.iTransLevel = s.iTransLevel /\ y.stored = s.stored /\ Kept(s, y) /\ y.rc = "OK"
      /\ (Unprepared(s) => Unprepared(y)) /\ \A i : Seen(y, i) = Seen(s, i)
  <2>1. (Unprepared(z) => Unprepared(y)) /\ \A i : Seen(y, i) = Seen(z, i)
    BY <1>3, <1>4, SameIsNested
  <2>2. Kept(s, y)
    BY <1>3, <1>4 DEF Kept
  <2>. QED BY <1>2, <1>3, <1>4, <2>1, <2>2 DEF SameLevels
<1>7. PICK x \in OpenTxn(y, l) : o = D(x)
  BY <1>5
<1>8. CASE l < 2
  <2>1. OpenTxn(y, l) = {y}
    BY <1>8 DEF OpenTxn
  <2>2. l \in {0, 1} /\ y.iTransLevel <= l /\ y.iTransLevel < 2
    BY <1>1, <1>6, <1>8, LevelIs
  <2>3. o = [y EXCEPT !.iTransLevel = l]
    <3>1. (IF l > y.iTransLevel THEN l ELSE y.iTransLevel) = l
      BY <1>1, <1>6, <2>2
    <3>. QED BY <1>6, <1>7, <2>1, <3>1
  <2>4. /\ Nested(o) /\ Served(o, cursor, b) /\ Kept(y, o) /\ Raised(y, o, l)
        /\ o.rc = y.rc
    BY <1>4, <2>2, <2>3, LowIs
  <2>5. Kept(s, o)
    BY <1>6, <2>4 DEF Kept
  <2>6. Raised(s, o, l)
    BY <1>6, <2>4 DEF Raised
  <2>. QED BY <1>6, <2>4, <2>5, <2>6
<1>9. CASE l >= 2
  <2>1. /\ b < l /\ b <= s.iTransLevel
        /\ (l = y.iTransLevel + 1 \/ (y.iTransLevel = 0 /\ l = 2))
    BY <1>1, <1>6, <1>9
  <2>2. /\ Nested(x) /\ Served(x, cursor, b) /\ Kept(y, x)
        /\ \/ x.rc = "OK" /\ Raised(y, x, l)
           \/ x.rc = "ERROR" /\ SameLevels(y, x) /\ x.pCsr = y.pCsr /\ x.dbc = y.dbc
    BY <1>4, <1>6, <1>7, <1>9, <2>1, OpenTxnIs
  <2>3. x \in State
    BY <2>2 DEF Nested
  <2>4. CASE x.rc = "OK" /\ Raised(y, x, l)
    <3>1. x.iTransLevel = l /\ (IF l > x.iTransLevel THEN l ELSE x.iTransLevel) = l
      BY <1>1, <2>4 DEF Raised
    <3>2. o = [x EXCEPT !.iTransLevel = l]
      BY <1>7, <2>4, <3>1
    <3>3. o = x
      BY <2>3, <3>1, <3>2 DEF State
    <3>4. Kept(s, o)
      BY <1>6, <2>2, <3>3 DEF Kept
    <3>5. Raised(s, o, l)
      BY <1>6, <2>4, <3>3 DEF Raised
    <3>. QED BY <2>2, <2>4, <3>3, <3>4, <3>5
  <2>5. CASE x.rc = "ERROR" /\ SameLevels(y, x)
    <3>1. /\ x.iTransLevel = s.iTransLevel /\ x.stored = s.stored /\ x.rc = "ERROR"
          /\ (Unprepared(s) => Unprepared(x)) /\ \A i : Seen(x, i) = Seen(s, i)
      BY <1>4, <1>6, <2>3, <2>5, SameIsNested DEF SameLevels
    <3>2. Kept(s, x)
      BY <1>6, <2>2 DEF Kept
    <3>3. CASE x.iTransLevel = 0
      <4>1. o = CloseRead(x)
        BY <1>7, <2>5, <3>3
      <4>2. \A c \in Csr : ~cursor[c].open
        BY <2>1, <2>2, <3>1, <3>3 DEF Served
      <4>3. Nested(o) /\ Served(o, cursor, b) /\ Kept(x, o) /\ SameLevels(x, o) /\ o.rc = x.rc
        BY <2>2, <4>1, <4>2, CloseReadIs
      <4>4. o \in State
        BY <4>3 DEF Nested
      <4>5. (Unprepared(x) => Unprepared(o)) /\ \A i : Seen(o, i) = Seen(x, i)
        BY <2>2, <4>3, <4>4, SameIsNested
      <4>6. Kept(s, o)
        BY <3>2, <4>3 DEF Kept
      <4>. QED BY <1>9, <3>1, <4>3, <4>5, <4>6 DEF SameLevels
    <3>4. CASE x.iTransLevel # 0
      <4>1. o = x
        BY <1>7, <2>5, <3>4
      <4>. QED BY <1>9, <2>2, <3>1, <3>2, <4>1
    <3>. QED BY <3>3, <3>4
  <2>. QED BY <2>2, <2>4, <2>5
<1>. QED BY <1>1, <1>8, <1>9
\* The transactions from level l up are aborted, in the state a.
Aborted(s, a, l) ==
    /\ a \in State /\ ~a.stale /\ a.stored = s.stored /\ a.pCsr = s.pCsr
    /\ \A h \in Handle :
        a.txn[h] = IF h \in Ending(s, l - 1) THEN NoTxn ELSE s.txn[h]
    /\ \A d \in Dbc :
        a.dbc[d] = IF s.dbc[d].txn \in Ending(s, l - 1) THEN NoDbc ELSE s.dbc[d]
    /\ \A i \in Level : a.pTxn[i] = IF i > l - 1 THEN NULL ELSE s.pTxn[i]

LEMMA LibEndIs ==
  ASSUME NEW s \in State, NEW hs
  PROVE  LET o == LibEnd(s, hs)
         IN /\ o \in State /\ o.stored = s.stored /\ o.pCsr = s.pCsr /\ o.pTxn = s.pTxn
            /\ o.iTransLevel = s.iTransLevel /\ o.rc = s.rc /\ o.stale = s.stale
            /\ o.txn = [h \in Handle |-> IF h \in hs THEN NoTxn ELSE s.txn[h]]
            /\ o.dbc = [d \in Dbc |-> IF s.dbc[d].txn \in hs THEN NoDbc ELSE s.dbc[d]]
<1>. DEFINE T == [h \in Handle |-> IF h \in hs THEN NoTxn ELSE s.txn[h]]
            D == [d \in Dbc |-> IF s.dbc[d].txn \in hs THEN NoDbc ELSE s.dbc[d]]
            p == [s EXCEPT !.txn = T]
            o == [p EXCEPT !.dbc = D]
<1>1. LibEnd(s, hs) = o
  <2>1. /\ s = [iTransLevel |-> s.iTransLevel, pTxn |-> s.pTxn, pCsr |-> s.pCsr, txn |-> s.txn,
                stored |-> s.stored, dbc |-> s.dbc, rc |-> s.rc, stale |-> s.stale]
    BY DEF State
  <2>2. /\ LibEnd(s, hs) = [s EXCEPT !.txn = T, !.dbc = D]
    BY <2>1 DEF LibEnd
  <2>. HIDE DEF T, D
  <2>. QED BY <2>1, <2>2
<1>2. NoTxn \in Txn /\ NoDbc \in Cursor
  BY DEF NoTxn, NoDbc, Txn, Cursor, Empty, Content
<1>3. T \in [Handle -> Txn] /\ D \in [Dbc -> Cursor]
  BY <1>2 DEF State
<1>. HIDE DEF T, D
<1>4. /\ p \in State /\ p.stored = s.stored /\ p.pCsr = s.pCsr /\ p.pTxn = s.pTxn
      /\ p.iTransLevel = s.iTransLevel /\ p.rc = s.rc /\ p.stale = s.stale /\ p.txn = T
  BY <1>3 DEF State
<1>. HIDE DEF p
<1>5. /\ o \in State /\ o.stored = s.stored /\ o.pCsr = s.pCsr /\ o.pTxn = s.pTxn
      /\ o.iTransLevel = s.iTransLevel /\ o.rc = s.rc /\ o.stale = s.stale
      /\ o.txn = T /\ o.dbc = D
  BY <1>3, <1>4 DEF State
<1>. HIDE DEF o
<1>. QED BY <1>1, <1>5 DEF T, D

LEMMA AbortIs ==
  ASSUME NEW s, Nested(s), NEW l \in Level, l <= s.iTransLevel
  PROVE  LET ends == {s.pTxn[i] : i \in l..s.iTransLevel} \ {NULL}
             a == IF s.iTransLevel < 2 THEN s
                  ELSE [LibEnd(s, ends \cup UNION {Below(s, h) : h \in ends}) EXCEPT
                          !.stale = @ \/ ~(ends \subseteq Live(s)),
                          !.pTxn = [i \in Level |-> IF i \in l..s.iTransLevel
                                                    THEN NULL ELSE @[i]]]
         IN Aborted(s, a, l)
<1>. DEFINE L == s.iTransLevel
            E == Ending(s, l - 1)
            ends == {s.pTxn[i] : i \in l..L} \ {NULL}
            all == ends \cup UNION {Below(s, h) : h \in ends}
            P == [i \in Level |-> IF i \in l..L THEN NULL ELSE s.pTxn[i]]
            e == LibEnd(s, E)
            f == [e EXCEPT !.stale = FALSE]
            g == [f EXCEPT !.pTxn = P]
<1>1. /\ s \in State /\ ~s.stale /\ s.stale \in BOOLEAN
      /\ \A i \in Level : IF i \in Deep(s) THEN s.pTxn[i] \in Handle ELSE s.pTxn[i] = NULL
      /\ L \in Int /\ Deep(s) \subseteq Level /\ Live(s) = {s.pTxn[i] : i \in Deep(s)}
      /\ L <= MaxLevel /\ s.pTxn \in [Level -> Handle \cup {NULL}]
  BY NestedIs, ZenonT(40) DEF Nested, State
<1>2. l \in Int /\ l >= 0 /\ MaxLevel \in Int /\ Level = 0..MaxLevel
  BY LevelIs
<1>3. \A i \in l..L : i \in Level /\ i > l - 1
  BY <1>1, <1>2
<1>4. \A i \in Deep(s) : i > l - 1 => i \in l..L
  BY <1>1, <1>2 DEF Deep
<1>5. ends = E
  <2>1. ends \subseteq E
    <3>1. SUFFICES ASSUME NEW i \in l..L, s.pTxn[i] # NULL
                   PROVE  s.pTxn[i] \in E
      OBVIOUS
    <3>. QED BY <1>1, <1>3, <3>1 DEF Ending
  <2>2. E \subseteq ends
    BY <1>1, <1>4 DEF Ending
  <2>. QED BY <2>1, <2>2
<1>6. all = E
  <2>. SUFFICES ASSUME NEW h \in E
                PROVE  Below(s, h) \subseteq E
    BY <1>5
  <2>1. PICK i \in Deep(s) : i > l - 1 /\ h = s.pTxn[i]
    BY DEF Ending
  <2>2. Below(s, h) = Ending(s, i)
    BY <2>1, BelowIs
  <2>3. \A j \in Deep(s) : j > i => j > l - 1
    BY <1>1, <1>2, <2>1 DEF Deep
  <2>. QED BY <2>2, <2>3 DEF Ending
<1>7. ends \subseteq Live(s)
  BY <1>1, <1>5 DEF Ending
<1>8. P \in [Level -> Handle \cup {NULL}]
  BY <1>1
<1>9. \A i \in Level : P[i] = IF i > l - 1 THEN NULL ELSE s.pTxn[i]
  <2>. TAKE i \in Level
  <2>1. i \in Int /\ (i \in l..L <=> i > l - 1 /\ i <= L)
    BY <1>1, <1>2
  <2>2. i > L => s.pTxn[i] = NULL
    BY <1>1, <2>1 DEF Deep
  <2>. QED BY <1>1, <2>1, <2>2
<1>10. CASE L < 2
  <2>1. E = {} /\ \A i \in Level : s.pTxn[i] = NULL
    BY <1>1, <1>10 DEF Ending, Deep
  <2>. QED BY <1>1, <1>10, <2>1 DEF Aborted
<1>11. CASE ~(L < 2)
  <2>. HIDE DEF P
  <2>1. /\ e \in State /\ e.stored = s.stored /\ e.pCsr = s.pCsr /\ e.pTxn = s.pTxn
        /\ e.stale = s.stale
        /\ e.txn = [h \in Handle |-> IF h \in E THEN NoTxn ELSE s.txn[h]]
        /\ e.dbc = [d \in Dbc |-> IF s.dbc[d].txn \in E THEN NoDbc ELSE s.dbc[d]]
    BY <1>1, LibEndIs
  <2>2. [LibEnd(s, all) EXCEPT
           !.stale = @ \/ ~(ends \subseteq Live(s)),
           !.pTxn = [i \in Level |-> IF i \in l..L THEN NULL ELSE @[i]]] = g
    <3>. HIDE DEF E, e, all
    <3>1. /\ e = [iTransLevel |-> e.iTransLevel, pTxn |-> e.pTxn, pCsr |-> e.pCsr,
                  txn |-> e.txn, stored |-> e.stored, dbc |-> e.dbc, rc |-> e.rc,
                  stale |-> e.stale]
      BY <2>1 DEF State
    <3>2. [e EXCEPT !.stale = FALSE, !.pTxn = P] = g
      BY <3>1
    <3>3. (e.stale \/ ~(ends \subseteq Live(s))) = FALSE
      BY <1>1, <1>7, <2>1
    <3>4. [i \in Level |-> IF i \in l..L THEN NULL ELSE e.pTxn[i]] = P
      BY <2>1 DEF P
    <3>5. LibEnd(s, all) = e
      BY <1>6 DEF e
    <3>. HIDE DEF g, ends, L
    <3>. QED BY <3>2, <3>3, <3>4, <3>5
  <2>. HIDE DEF e, E, all, ends
  <2>3. f \in State /\ f.stored = e.stored /\ f.pCsr = e.pCsr /\ f.txn = e.txn
        /\ f.dbc = e.dbc /\ ~f.stale
    BY <2>1 DEF State
  <2>. HIDE DEF f
  <2>4. g \in State /\ g.stored = e.stored /\ g.pCsr = e.pCsr /\ g.txn = e.txn
        /\ g.dbc = e.dbc /\ ~g.stale /\ g.pTxn = P
    BY <1>8, <2>3 DEF State
  <2>. HIDE DEF g
  <2>5. \A h \in Handle : g.txn[h] = IF h \in E THEN NoTxn ELSE s.txn[h]
    BY <2>1, <2>4
  <2>6. \A d \in Dbc : g.dbc[d] = IF s.dbc[d].txn \in E THEN NoDbc ELSE s.dbc[d]
    BY <2>1, <2>4
  <2>7. \A i \in Level : g.pTxn[i] = IF i > l - 1 THEN NULL ELSE s.pTxn[i]
    BY <1>9, <2>4
  <2>8. Aborted(s, g, l)
    BY <2>1, <2>4, <2>5, <2>6, <2>7 DEF Aborted, E
  <2>. QED BY <1>11, <2>2, <2>8 DEF all, ends
<1>. HIDE DEF ends, all
<1>. QED BY <1>10, <1>11 DEF ends, all
\* What kvbdbRollback(l) does: to the content, what kv.h calls xRevert(l), but
\* when the new transaction of level l cannot be had the level stays below l.
RollsBack(s, o, l) ==
    /\ o.stored = s.stored
    /\ \A i \in Level : i < l => Seen(o, i) = Seen(s, i)
    /\ \/ o.rc = "OK" /\ o.iTransLevel = l /\ Seen(o, l) = Seen(s, l - 1)
       \/ o.rc = "ERROR" /\ l >= 2 /\ o.iTransLevel = l - 1
    /\ Unprepared(s) \/ (s.iTransLevel = 2 /\ l <= 2) => Unprepared(o)

\* The cursors that are left after a rollback to level l are of levels up to this.
Left(l) == IF l = 1 THEN 1 ELSE l - 1

LEMMA RollbackIs ==
  ASSUME Benign, NEW s, Nested(s), Served(s, cursor, s.iTransLevel),
         NEW l \in Level, l <= s.iTransLevel,
         \A c \in Csr : cursor[c].open => cursor[c].level <= Left(l),
         NEW o \in kvbdbRollback(s, l)
  PROVE  /\ Nested(o) /\ Served(o, cursor, Left(l)) /\ Kept(s, o)
         /\ RollsBack(s, o, l)
<1>. DEFINE L == s.iTransLevel
            ends == {s.pTxn[i] : i \in l..s.iTransLevel} \ {NULL}
            a == IF s.iTransLevel < 2 THEN s
                 ELSE [LibEnd(s, ends \cup UNION {Below(s, h) : h \in ends}) EXCEPT
                         !.stale = @ \/ ~(ends \subseteq Live(s)),
                         !.pTxn = [i \in Level |-> IF i \in l..s.iTransLevel
                                                   THEN NULL ELSE @[i]]]
            y == IF l = 0 THEN CloseRead(a) ELSE a
            r == [y EXCEPT !.iTransLevel = l - 1]
            n == l - 1
            E == Ending(s, n)
<1>1. Aborted(s, a, l)
  BY AbortIs
<1>2. o \in kvbdbBegin(r, l)
  BY DEF kvbdbRollback
<1>. HIDE DEF a
<1>3. /\ s \in State /\ L \in Int /\ L <= MaxLevel /\ s.pCsr \in Dbc \cup {NULL}
      /\ Deep(s) \subseteq Level /\ Live(s) = {s.pTxn[i] : i \in Deep(s)}
      /\ \A i \in Level : IF i \in Deep(s) THEN s.pTxn[i] \in Handle ELSE s.pTxn[i] = NULL
      /\ \A i, j \in Deep(s) : i # j => s.pTxn[i] # s.pTxn[j]
  BY NestedIs, ZenonT(40) DEF Nested, State
<1>4. /\ l \in Int /\ l >= 0 /\ l <= MaxLevel /\ n \in Int /\ n >= -1 /\ n \in -1..MaxLevel
      /\ l = n + 1 /\ n <= L /\ MaxLevel \in Int /\ Left(l) \in Int
  <2>1. l \in Int /\ l >= 0 /\ l <= MaxLevel /\ MaxLevel \in Int
    BY LevelIs
  <2>. QED BY <1>3, <2>1 DEF Left
<1>. HIDE DEF n
<1>5. /\ a \in State /\ ~a.stale /\ a.stored = s.stored /\ a.pCsr = s.pCsr
      /\ \A h \in Handle : a.txn[h] = IF h \in E THEN NoTxn ELSE s.txn[h]
      /\ \A d \in Dbc : a.dbc[d] = IF s.dbc[d].txn \in E THEN NoDbc ELSE s.dbc[d]
      /\ \A i \in Level : a.pTxn[i] = IF i > n THEN NULL ELSE s.pTxn[i]
  BY <1>1 DEF Aborted, n
<1>6. NoTxn.state = "free" /\ NoDbc \in Cursor /\ ~NoDbc.open
  BY DEF NoTxn, NoDbc, Cursor
<1>7. NULL \notin E
  BY <1>3 DEF Ending
<1>8. /\ y \in State /\ ~y.stale /\ y.stored = s.stored /\ y.txn = a.txn /\ y.pTxn = a.pTxn
      /\ l # 0 => y.pCsr = s.pCsr /\ y.dbc = a.dbc
      /\ l = 0 => y.pCsr = NULL /\ \A d \in Dbc : y.dbc[d].open => a.dbc[d].open /\ d # s.pCsr
  <2>1. CASE l # 0
    BY <1>5, <2>1
  <2>2. CASE l = 0 /\ s.pCsr = NULL
    <3>1. y = a
      BY <1>5, <2>2 DEF CloseRead
    <3>. QED BY <1>5, <2>2, <3>1
  <2>3. CASE l = 0 /\ s.pCsr # NULL
    <3>. DEFINE d == s.pCsr
                D == [a.dbc EXCEPT ![d] = NoDbc]
                p == [a EXCEPT !.dbc = D]
                q == [p EXCEPT !.pCsr = NULL]
    <3>1. d \in Dbc /\ a.dbc[d].open
      BY <1>3, <1>5, <1>7, <2>3 DEF Served
    <3>2. y = q
      <4>1. LibClose(a, d) = p
        BY <3>1 DEF LibClose
      <4>2. y = [LibClose(a, d) EXCEPT !.pCsr = NULL]
        BY <1>5, <2>3 DEF CloseRead
      <4>. HIDE DEF p, d, y
      <4>. QED BY <4>1, <4>2
    <3>. HIDE DEF d, y
    <3>3. /\ D \in [Dbc -> Cursor] /\ D[d] = NoDbc
          /\ \A e \in Dbc : e # d => D[e] = a.dbc[e]
      BY <1>5, <1>6, <3>1 DEF State
    <3>. HIDE DEF D
    <3>4. /\ p \in State /\ p.dbc = D /\ ~p.stale /\ p.stored = a.stored
          /\ p.txn = a.txn /\ p.pTxn = a.pTxn
      BY <1>5, <3>3 DEF State
    <3>. HIDE DEF p
    <3>5. /\ q \in State /\ q.dbc = D /\ ~q.stale /\ q.stored = a.stored
          /\ q.txn = a.txn /\ q.pTxn = a.pTxn /\ q.pCsr = NULL
      BY <3>4 DEF State
    <3>. HIDE DEF q
    <3>6. \A e \in Dbc : q.dbc[e].open => a.dbc[e].open /\ e # d
      BY <1>6, <3>3, <3>5
    <3>. QED BY <1>5, <2>3, <3>2, <3>5, <3>6 DEF d
  <2>. QED BY <2>1, <2>2, <2>3
<1>. HIDE DEF y
<1>9. /\ r \in State /\ ~r.stale /\ r.stored = s.stored /\ r.txn = a.txn /\ r.pTxn = a.pTxn
      /\ r.iTransLevel = n /\ r.pCsr = y.pCsr /\ r.dbc = y.dbc
  BY <1>4, <1>8 DEF State, n
<1>. HIDE DEF r
<1>10. \A h \in Handle : r.txn[h] = IF h \in E THEN NoTxn ELSE s.txn[h]
  BY <1>5, <1>9
<1>11. \A i \in Level : r.pTxn[i] = IF i > n THEN NULL ELSE s.pTxn[i]
  BY <1>5, <1>9
<1>12. Nested(r)
  <2>1. \A h \in E : h \in Handle
    BY <1>3 DEF Ending
  <2>2. \A h \in Ending(s, n) : r.txn[h].state = "free"
    BY <1>6, <1>10, <2>1
  <2>3. \A h \in Handle \ Ending(s, n) : /\ r.txn[h].state = s.txn[h].state
                                         /\ r.txn[h].above = s.txn[h].above
    BY <1>10
  <2>. HIDE DEF E
  <2>. QED BY <1>3, <1>4, <1>9, <1>11, <2>2, <2>3, CutIsNested
<1>13. Served(r, cursor, Left(l)) /\ Kept(s, r)
  <2>1. CASE l = 0
    <3>1. \A c \in Csr : ~cursor[c].open
      BY <2>1 DEF Served, Left
    <3>2. \A d \in Dbc : ~r.dbc[d].open
      BY <1>5, <1>6, <1>8, <1>9, <2>1, <3>1 DEF Served
    <3>. QED BY <1>8, <1>9, <2>1, <3>1, <3>2 DEF Served, Kept
  <2>2. CASE l # 0
    <3>1. /\ r.pCsr = s.pCsr
          /\ \A d \in Dbc : r.dbc[d] = IF s.dbc[d].txn \in Ending(s, n) THEN NoDbc ELSE s.dbc[d]
      BY <1>5, <1>8, <1>9, <2>2
    <3>2. ASSUME NEW c \in Csr, cursor[c].open
          PROVE  cursor[c].level <= Left(l) /\ (cursor[c].level <= n \/ cursor[c].level = 1)
      <4>1. cursor[c].level \in 1..L /\ cursor[c].level <= Left(l)
        BY <3>2 DEF Served
      <4>2. l = 1 => cursor[c].level = 1
        BY <1>3, <4>1 DEF Left
      <4>. QED BY <4>1, <4>2 DEF Left, n
    <3>3. Served(s, cursor, L) /\ L <= MaxLevel
      BY <1>3
    <3>. HIDE DEF L
    <3>. QED BY <1>3, <1>4, <1>11, <3>1, <3>2, <3>3, CutIsServed, SMTT(20)
  <2>. QED BY <2>1, <2>2
<1>14. \A i \in Level : i <= n => Seen(r, i) = Seen(s, i)
  <2>. SUFFICES ASSUME NEW i \in Level, i <= n
                PROVE  Seen(r, i) = Seen(s, i)
    OBVIOUS
  <2>0. i \in Int
    BY LevelIs
  <2>1. CASE i < 2
    BY <1>9, <2>1 DEF Seen
  <2>2. CASE i >= 2
    <3>1. i \in Deep(s)
      BY <1>3, <1>4, <2>0, <2>2 DEF Deep
    <3>2. s.pTxn[i] \notin E
      BY <1>3, <1>4, <2>0, <3>1 DEF Ending
    <3>3. r.pTxn[i] = s.pTxn[i] /\ s.pTxn[i] \in Handle
      BY <1>3, <1>4, <1>11, <2>0, <3>1
    <3>4. ~(i < 2)
      BY <2>0, <2>2
    <3>. QED BY <1>10, <3>2, <3>3, <3>4 DEF Seen
  <2>. QED BY <2>0, <2>1, <2>2
<1>15. Seen(r, n) = Seen(s, n)
  <2>1. CASE n = -1
    BY <1>9, <2>1 DEF Seen
  <2>2. CASE n # -1
    <3>1. n \in Level
      BY <1>4, <2>2, LevelIs
    <3>. QED BY <1>4, <1>14, <3>1
  <2>. QED BY <2>1, <2>2
<1>16. Unprepared(s) \/ (L = 2 /\ l <= 2) => Unprepared(r)
  <2>1. ASSUME NEW h \in Handle, r.txn[h].state = "prepared"
        PROVE  ~Unprepared(s) /\ ~(L = 2 /\ l <= 2)
    <3>1. h \notin E /\ r.txn[h] = s.txn[h]
      BY <1>6, <1>10, <2>1
    <3>2. ~Unprepared(s)
      BY <2>1, <3>1 DEF Unprepared
    <3>3. h \in Live(s)
      BY <2>1, <3>1 DEF Live
    <3>4. PICK i \in Deep(s) : h = s.pTxn[i]
      BY <1>3, <3>3
    <3>5. ~(i > n)
      BY <3>1, <3>4 DEF Ending
    <3>6. ~(L = 2 /\ l <= 2)
      BY <1>3, <1>4, <3>4, <3>5 DEF Deep
    <3>. QED BY <3>2, <3>6
  <2>. QED BY <2>1 DEF Unprepared
<1>17. /\ Nested(o) /\ Served(o, cursor, Left(l)) /\ Kept(r, o)
       /\ \/ o.rc = "OK" /\ Raised(r, o, l)
          \/ /\ o.rc = "ERROR" /\ l >= 2 /\ o.iTransLevel = r.iTransLevel
             /\ o.stored = r.stored /\ (Unprepared(r) => Unprepared(o))
             /\ \A i \in Level : Seen(o, i) = Seen(r, i)
  <2>1. l >= 2 => Left(l) <= r.iTransLevel
    BY <1>4, <1>9 DEF Left
  <2>2. l = r.iTransLevel + 1
    BY <1>4, <1>9
  <2>. QED BY <1>2, <1>4, <1>12, <1>13, <2>1, <2>2, BeginIs
<1>18. Kept(s, o)
  BY <1>13, <1>17 DEF Kept
<1>19. \A i \in Level : i < l <=> i <= n
  BY <1>4, LevelIs
<1>20. RollsBack(s, o, l)
  <2>1. o.stored = s.stored
    BY <1>9, <1>17 DEF Raised
  <2>2. \A i \in Level : i < l => Seen(o, i) = Seen(s, i)
    BY <1>9, <1>14, <1>17, <1>19 DEF Raised
  <2>3. \/ o.rc = "OK" /\ o.iTransLevel = l /\ Seen(o, l) = Seen(s, n)
        \/ o.rc = "ERROR" /\ l >= 2 /\ o.iTransLevel = n
    BY <1>9, <1>15, <1>17 DEF Raised
  <2>4. Unprepared(s) \/ (s.iTransLevel = 2 /\ l <= 2) => Unprepared(o)
    BY <1>16, <1>17 DEF Raised
  <2>. QED BY <2>1, <2>2, <2>3, <2>4 DEF RollsBack, n
<1>. QED BY <1>17, <1>18, <1>20
LEMMA ServedMore ==
  ASSUME NEW s, NEW cs, NEW b \in Int, NEW a \in Int, Served(s, cs, b), b <= a
  PROVE  Served(s, cs, a)
<1>1. \A i \in 1..b : i \in 1..a
  OBVIOUS
<1>. QED BY <1>1 DEF Served

LEMMA RevertIs ==
  ASSUME Benign, NEW s, Nested(s), Served(s, cursor, s.iTransLevel),
         NEW l \in {1, 2}, l <= s.iTransLevel,
         \A c \in Csr : cursor[c].open => cursor[c].level <= Left(l - 1),
         NEW o \in kvbdbRevert(s, l)
  PROVE  /\ Nested(o) /\ Served(o, cursor, Left(l - 1)) /\ Kept(s, o)
         /\ RollsBack(s, o, l)
<1>1. /\ l \in Level /\ l - 1 \in Level /\ l \in Int /\ l - 1 < 2 /\ l - 1 >= 0
      /\ l - 1 <= s.iTransLevel /\ Left(l - 1) \in Int /\ (l = 2 => Left(l - 1) = 1)
  BY NestedIs, LevelIs DEF Left
<1>2. PICK r \in kvbdbRollback(s, l - 1) : o \in IF r.rc = "OK" THEN kvbdbBegin(r, l) ELSE {r}
  BY DEF kvbdbRevert
<1>3. /\ Nested(r) /\ Served(r, cursor, Left(l - 1)) /\ Kept(s, r)
      /\ RollsBack(s, r, l - 1)
  BY <1>1, RollbackIs
<1>4. r.rc = "OK" /\ r.iTransLevel = l - 1 /\ r.stored = s.stored
  BY <1>1, <1>3 DEF RollsBack
<1>5. /\ Nested(o) /\ Served(o, cursor, Left(l - 1)) /\ Kept(r, o)
      /\ \/ o.rc = "OK" /\ Raised(r, o, l)
         \/ /\ o.rc = "ERROR" /\ l >= 2 /\ o.iTransLevel = r.iTransLevel
            /\ o.stored = r.stored /\ (Unprepared(r) => Unprepared(o))
            /\ \A i \in Level : Seen(o, i) = Seen(r, i)
  <2>1. /\ o \in kvbdbBegin(r, l) /\ l = r.iTransLevel + 1
        /\ (l >= 2 => Left(l - 1) <= r.iTransLevel)
    BY <1>1, <1>2, <1>4
  <2>. QED BY <1>1, <1>3, <2>1, BeginIs
<1>6. Kept(s, o)
  BY <1>3, <1>5 DEF Kept
<1>7. o.stored = s.stored
  BY <1>4, <1>5 DEF Raised
<1>8. \A i \in Level : i < l => i < 2
  BY LevelIs
<1>9. \A i \in Level : i < l => Seen(o, i) = Seen(s, i)
  BY <1>7, <1>8 DEF Seen
<1>10. Raised(r, o, l) => Seen(o, l) = Seen(s, l - 1)
  BY <1>1, <1>4 DEF Raised, Seen
<1>11. Unprepared(s) \/ (s.iTransLevel = 2 /\ l <= 2) => Unprepared(o)
  <2>1. Unprepared(s) \/ (s.iTransLevel = 2 /\ l - 1 <= 2) => Unprepared(r)
    BY <1>3 DEF RollsBack
  <2>2. Unprepared(r) => Unprepared(o)
    BY <1>5 DEF Raised
  <2>. QED BY <1>1, <2>1, <2>2
<1>12. \/ o.rc = "OK" /\ o.iTransLevel = l /\ Seen(o, l) = Seen(s, l - 1)
       \/ o.rc = "ERROR" /\ l >= 2 /\ o.iTransLevel = l - 1
  BY <1>4, <1>5, <1>10 DEF Raised
<1>13. RollsBack(s, o, l)
  BY <1>7, <1>9, <1>11, <1>12 DEF RollsBack
<1>. QED BY <1>5, <1>6, <1>13

-----------------------------------------------------------------------------
(* Commits.                                                                *)

\* The transactions above level l have been committed, in the state o.
Committed(s, o, l) ==
    /\ o \in State /\ ~o.stale /\ o.rc = "OK" /\ o.iTransLevel = l /\ o.pCsr = s.pCsr
    /\ \A d \in Dbc :
        o.dbc[d] = IF s.dbc[d].txn \in Ending(s, l) THEN NoDbc ELSE s.dbc[d]
    /\ \A i \in Level : o.pTxn[i] = IF i > l THEN NULL ELSE s.pTxn[i]
    /\ \A h \in Ending(s, l) : o.txn[h].state = "free"
    /\ \A h \in Handle \ Ending(s, l) :
        /\ o.txn[h].state = s.txn[h].state /\ o.txn[h].above = s.txn[h].above
        /\ o.txn[h].view = IF h = s.pTxn[l] THEN Seen(s, s.iTransLevel) ELSE s.txn[h].view
    /\ l = 1 => o.stored = Seen(s, s.iTransLevel)
    /\ l # 1 => o.stored = s.stored

CommitsTo(s, o, l) ==
    /\ o.rc = "OK" /\ o.iTransLevel = l /\ Seen(o, l) = Seen(s, s.iTransLevel)
    /\ l >= 2 => \A i \in Level : i < l => Seen(o, i) = Seen(s, i)
    /\ Unprepared(s) \/ l <= 1 => Unprepared(o)

LEMMA CommittedIs ==
  ASSUME NEW s, Nested(s), Served(s, cursor, s.iTransLevel),
         NEW l \in Level, l >= 1, l < s.iTransLevel,
         \A c \in Csr : cursor[c].open => cursor[c].level <= l,
         NEW o, Committed(s, o, l)
  PROVE  Nested(o) /\ Served(o, cursor, l) /\ Kept(s, o) /\ CommitsTo(s, o, l)
<1>. DEFINE L == s.iTransLevel
<1>1. /\ L \in Int /\ L <= MaxLevel /\ L >= -1 /\ Deep(s) \subseteq Level
      /\ \A i \in Deep(s) : s.pTxn[i] \in Handle
      /\ \A i, j \in Deep(s) : i # j => s.pTxn[i] # s.pTxn[j]
  BY NestedIs DEF Nested
<1>2. l \in Int /\ l <= L /\ l <= MaxLevel /\ l >= -1
  BY <1>1, LevelIs
<1>3. Nested(o)
  <2>1. /\ o \in State /\ o.iTransLevel = l /\ ~o.stale
        /\ \A i \in Level : o.pTxn[i] = IF i > l THEN NULL ELSE s.pTxn[i]
        /\ \A h \in Ending(s, l) : o.txn[h].state = "free"
        /\ \A h \in Handle \ Ending(s, l) : /\ o.txn[h].state = s.txn[h].state
                                            /\ o.txn[h].above = s.txn[h].above
    BY DEF Committed
  <2>. QED BY <1>2, <2>1, CutIsNested
<1>4. Served(o, cursor, l) /\ Kept(s, o)
  <2>1. /\ o.pCsr = s.pCsr
        /\ \A d \in Dbc : o.dbc[d] = IF s.dbc[d].txn \in Ending(s, l) THEN NoDbc ELSE s.dbc[d]
        /\ \A i \in Level : o.pTxn[i] = IF i > l THEN NULL ELSE s.pTxn[i]
    BY DEF Committed
  <2>2. \A c \in Csr : cursor[c].open =>
          cursor[c].level <= l /\ (cursor[c].level <= l \/ cursor[c].level = 1)
    OBVIOUS
  <2>. QED BY <1>1, <1>2, <2>1, <2>2, CutIsServed
<1>5. ASSUME NEW i \in Deep(s), i <= l
      PROVE  /\ o.pTxn[i] = s.pTxn[i]
             /\ o.txn[s.pTxn[i]].view = IF i = l THEN Seen(s, L) ELSE s.txn[s.pTxn[i]].view
  <2>1. i \in Int /\ ~(i > l) /\ i \in Level /\ s.pTxn[i] \in Handle
    BY <1>1, <1>2, <1>5 DEF Deep
  <2>2. s.pTxn[i] \notin Ending(s, l)
    BY <1>1, <2>1 DEF Ending
  <2>3. s.pTxn[i] = s.pTxn[l] <=> i = l
    <3>1. CASE l \in Deep(s)
      BY <1>1, <3>1
    <3>2. CASE l \notin Deep(s)
      BY <1>1, <1>2, <1>5, <2>1, <3>2 DEF Deep
    <3>. QED BY <3>1, <3>2
  <2>. QED BY <2>1, <2>2, <2>3 DEF Committed
<1>6. Seen(o, l) = Seen(s, L)
  <2>1. CASE l = 1
    BY <2>1 DEF Seen, Committed
  <2>2. CASE l # 1
    <3>1. l \in Deep(s) /\ ~(l < 2) /\ l <= l
      BY <1>1, <1>2, <2>2 DEF Deep
    <3>2. o.pTxn[l] = s.pTxn[l] /\ o.txn[s.pTxn[l]].view = Seen(s, L)
      BY <1>5, <3>1
    <3>. QED BY <3>1, <3>2 DEF Seen
  <2>. QED BY <2>1, <2>2
<1>7. ASSUME l >= 2, NEW i \in Level, i < l
      PROVE  Seen(o, i) = Seen(s, i)
  <2>1. i \in Int
    BY LevelIs
  <2>2. CASE i < 2
    BY <1>7, <2>2 DEF Seen, Committed
  <2>3. CASE ~(i < 2)
    <3>1. i \in Deep(s) /\ i <= l /\ i # l
      BY <1>1, <1>2, <1>7, <2>1, <2>3 DEF Deep
    <3>2. o.pTxn[i] = s.pTxn[i] /\ o.txn[s.pTxn[i]].view = s.txn[s.pTxn[i]].view
      BY <1>5, <3>1
    <3>. QED BY <2>3, <3>2 DEF Seen
  <2>. QED BY <2>2, <2>3
<1>8. Unprepared(s) \/ l <= 1 => Unprepared(o)
  <2>1. CASE Unprepared(s)
    <3>1. \A h \in Handle : o.txn[h].state = "free" \/ o.txn[h].state = s.txn[h].state
      BY DEF Committed
    <3>. QED BY <2>1, <3>1 DEF Unprepared
  <2>2. CASE l <= 1
    <3>1. Live(o) = {o.pTxn[i] : i \in Deep(o)}
      BY <1>3, NestedIs
    <3>2. Deep(o) = {}
      BY <1>2, <2>2 DEF Deep, Committed
    <3>. QED BY <3>1, <3>2 DEF Live, Unprepared
  <2>. QED BY <2>1, <2>2
<1>. QED BY <1>3, <1>4, <1>6, <1>7, <1>8 DEF CommitsTo, Committed
\* The levels above l of the state s can be committed in the state z, in which
\* the lowest of them may have been prepared.
Committable(s, z, l) ==
    LET h == s.pTxn[l + 1]
        ends == Below(z, h) \cup {h}
    IN /\ z \in State /\ ~z.stale /\ z.iTransLevel = s.iTransLevel
       /\ z.pTxn = s.pTxn /\ z.pCsr = s.pCsr /\ z.stored = s.stored
       /\ h \in Live(z) /\ z.txn[h].above = s.txn[h].above
       /\ View(z, Innermost(z, h)) = Seen(s, s.iTransLevel)
       /\ ends \subseteq Ending(s, l)
       /\ \A g \in Handle \ Ending(s, l) : z.txn[g] = s.txn[g]
       /\ \A g \in Ending(s, l) : g \in ends \/ z.txn[g].state = "free"
       /\ \A d \in Dbc :
            \/ z.dbc[d] = s.dbc[d] /\ (s.dbc[d].txn \in Ending(s, l) => s.dbc[d].txn \in ends)
            \/ z.dbc[d] = NoDbc /\ s.dbc[d].txn \in Ending(s, l)

LEMMA PhaseTwoIs ==
  ASSUME Benign, NEW s, Nested(s), NEW l \in Level, l >= 1, l < s.iTransLevel,
         NEW z, Committable(s, z, l), NEW o \in kvbdbCommitPhaseTwo(z, l)
  PROVE  Committed(s, o, l)
<1>. DEFINE L == s.iTransLevel
            E == Ending(s, l)
            h == s.pTxn[l + 1]
            ends == Below(z, h) \cup {h}
            e == LibEnd(z, ends)
            v == Seen(s, L)
            p == s.pTxn[l]
            T == [e.txn EXCEPT ![p].view = v]
            c == IF l = 1 THEN [e EXCEPT !.stored = v] ELSE [e EXCEPT !.txn = T]
            P == [i \in Level |-> IF i > l THEN NULL ELSE s.pTxn[i]]
            c1 == [c EXCEPT !.rc = "OK"]
            c2 == [c1 EXCEPT !.iTransLevel = l]
            c3 == [c2 EXCEPT !.pTxn = P]
<1>1. /\ L \in Int /\ L <= MaxLevel /\ Deep(s) \subseteq Level /\ v \in Content
      /\ \A i \in Level : IF i \in Deep(s) THEN s.pTxn[i] \in Handle ELSE s.pTxn[i] = NULL
      /\ \A i, j \in Deep(s) : i # j => s.pTxn[i] # s.pTxn[j]
      /\ \A i \in Deep(s) : s.txn[s.pTxn[i]].above = {s.pTxn[j] : j \in 2..(i - 1)}
      /\ s.pTxn \in [Level -> Handle \cup {NULL}]
  <2>1. L \in Int /\ L <= MaxLevel /\ Deep(s) \subseteq Level /\ s.pTxn \in [Level -> Handle \cup {NULL}]
    BY NestedIs
  <2>2. L \in Level
    <3>1. l \in Int /\ l >= 0 /\ MaxLevel \in Int
      BY LevelIs
    <3>. QED BY <2>1, <3>1 DEF Level
  <2>3. v \in Content
    BY <2>1, <2>2, NestedIs
  <2>. QED BY <2>1, <2>3 DEF Nested
<1>2. /\ l \in Int /\ MaxLevel \in Int /\ l <= MaxLevel /\ l + 1 \in Deep(s) /\ l + 1 \in Level
      /\ l \in -1..MaxLevel
  <2>1. l \in Int /\ MaxLevel \in Int /\ l <= MaxLevel
    BY LevelIs
  <2>2. l + 1 \in Deep(s)
    BY <1>1, <2>1 DEF Deep
  <2>. QED BY <1>1, <2>1, <2>2
<1>3. h \in Handle /\ h \in E
  BY <1>1, <1>2 DEF Ending
<1>4. /\ z \in State /\ ~z.stale /\ z.iTransLevel = L
      /\ z.pTxn = s.pTxn /\ z.pCsr = s.pCsr /\ z.stored = s.stored
      /\ h \in Live(z) /\ z.txn[h].above = s.txn[h].above
      /\ View(z, Innermost(z, h)) = v
      /\ ends \subseteq E
      /\ \A g \in Handle \ E : z.txn[g] = s.txn[g]
      /\ \A g \in E : g \in ends \/ z.txn[g].state = "free"
      /\ \A d \in Dbc :
            \/ z.dbc[d] = s.dbc[d] /\ (s.dbc[d].txn \in E => s.dbc[d].txn \in ends)
            \/ z.dbc[d] = NoDbc /\ s.dbc[d].txn \in E
  BY DEF Committable
<1>5. /\ e \in State /\ e.stored = s.stored /\ e.pCsr = s.pCsr /\ e.pTxn = s.pTxn
      /\ e.iTransLevel = L /\ ~e.stale
      /\ e.txn = [g \in Handle |-> IF g \in ends THEN NoTxn ELSE z.txn[g]]
      /\ e.dbc = [d \in Dbc |-> IF z.dbc[d].txn \in ends THEN NoDbc ELSE z.dbc[d]]
  BY <1>4, LibEndIs
<1>6. s.txn[h].above = {s.pTxn[j] : j \in 2..l} /\ (s.txn[h].above = {} <=> l = 1)
  <2>1. s.txn[h].above = {s.pTxn[j] : j \in 2..l}
    <3>1. (l + 1) - 1 = l
      BY <1>2
    <3>2. s.txn[h].above = {s.pTxn[j] : j \in 2..((l + 1) - 1)}
      BY <1>1, <1>2
    <3>. QED BY <3>1, <3>2
  <2>2. l = 1 => 2..l = {}
    OBVIOUS
  <2>3. l # 1 => 2 \in 2..l
    BY <1>2
  <2>. HIDE DEF h
  <2>. QED BY <2>1, <2>2, <2>3
<1>7. l # 1 => /\ p \in Handle /\ p \notin E
               /\ p = CHOOSE g \in z.txn[h].above :
                        \A f \in z.txn[h].above : f = g \/ f \in z.txn[g].above
  <2>. SUFFICES ASSUME l # 1
                PROVE  /\ p \in Handle /\ p \notin E
                       /\ p = CHOOSE g \in z.txn[h].above :
                                \A f \in z.txn[h].above : f = g \/ f \in z.txn[g].above
    OBVIOUS
  <2>1. l \in Deep(s)
    BY <1>1, <1>2 DEF Deep
  <2>2. /\ p \in s.txn[h].above
        /\ \A g \in s.txn[h].above :
              (\A f \in s.txn[h].above : f = g \/ f \in s.txn[g].above) <=> g = p
    BY <1>2, <2>1, ParentIs
  <2>3. \A j \in 2..l : j \in Deep(s) /\ s.pTxn[j] \in Handle /\ s.pTxn[j] \notin E
    <3>. TAKE j \in 2..l
    <3>1. j \in Deep(s) /\ ~(j > l) /\ s.pTxn[j] \in Handle
      BY <1>1, <1>2 DEF Deep
    <3>. QED BY <1>1, <3>1 DEF Ending
  <2>4. \A g \in s.txn[h].above : z.txn[g] = s.txn[g]
    BY <1>4, <1>6, <2>3
  <2>5. l \in 2..l
    BY <1>2, <2>1 DEF Deep
  <2>6. p \in Handle /\ p \notin E
    BY <2>3, <2>5
  <2>. HIDE DEF p, h
  <2>. DEFINE above == z.txn[h].above
              R(g) == \A f \in above : f = g \/ f \in z.txn[g].above
  <2>7. above = s.txn[h].above
    BY <1>4
  <2>. HIDE DEF above
  <2>8. p \in above /\ \A g \in above : R(g) <=> g = p
    BY <2>2, <2>4, <2>7
  <2>. HIDE DEF R
  <2>9. p = CHOOSE g \in above : R(g)
    BY <2>8
  <2>. QED BY <2>6, <2>9 DEF R, above
<1>8. l # 1 => T \in [Handle -> Txn]
  <2>1. e.txn \in [Handle -> Txn]
    BY <1>5 DEF State
  <2>. HIDE DEF e, p, v
  <2>2. l # 1 => [e.txn[p] EXCEPT !.view = v] \in Txn
    BY <1>1, <1>7, <2>1 DEF Txn
  <2>. QED BY <1>7, <2>1, <2>2
<1>8a. LibCommit(z, h) = c
  <2>1. LibCommit(z, h) =
          IF z.txn[h].above = {} THEN [e EXCEPT !.stored = v]
          ELSE [e EXCEPT !.txn[CHOOSE g \in z.txn[h].above :
                                 \A f \in z.txn[h].above : f = g \/ f \in z.txn[g].above].view = v]
    <3>1. LibCommit(z, h) =
            IF z.txn[h].above = {} THEN [e EXCEPT !.stored = View(z, Innermost(z, h))]
            ELSE [e EXCEPT !.txn[CHOOSE g \in z.txn[h].above :
                                   \A f \in z.txn[h].above : f = g \/ f \in z.txn[g].above].view
                             = View(z, Innermost(z, h))]
      <4>1. ~(h \notin Live(z))
        BY <1>4
      <4>. HIDE DEF h
      <4>. QED BY <4>1 DEF LibCommit
    <3>. HIDE DEF v, e, h
    <3>. QED BY <1>4, <3>1
  <2>2. [e EXCEPT !.txn[p].view = v] = [e EXCEPT !.txn = T]
    <3>. HIDE DEF e, p, v
    <3>. QED OBVIOUS
  <2>3. z.txn[h].above = {} <=> l = 1
    BY <1>4, <1>6
  <2>. HIDE DEF e, v, p, T, h
  <2>. QED BY <1>7, <2>1, <2>2, <2>3
<1>9. kvbdbCommitPhaseTwo(z, l) = {c3}
  <2>. DEFINE Q == [i \in Level |-> IF i > l /\ i <= z.iTransLevel THEN NULL ELSE c.pTxn[i]]
  <2>1. Outcomes("commit") = {"OK"}
    BY DEF Outcomes, Benign
  <2>2. ~(z.iTransLevel < 2 \/ h = NULL) /\ l # 0
    BY <1>1, <1>2, <1>3, <1>4
  <2>3. kvbdbCommitPhaseTwo(z, l) =
          {[LibCommit(z, h) EXCEPT
              !.rc = "OK", !.iTransLevel = l,
              !.pTxn = [i \in Level |-> IF i > l /\ i <= z.iTransLevel THEN NULL ELSE @[i]]]}
    <3>1. h = z.pTxn[l + 1]
      BY <1>4
    <3>. HIDE DEF h
    <3>. DEFINE C(rc) == [LibCommit(z, h) EXCEPT
                            !.rc = rc, !.iTransLevel = l,
                            !.pTxn = [i \in Level |-> IF i > l /\ i <= z.iTransLevel
                                                      THEN NULL ELSE @[i]]]
                F(rc) == [LibAbort(z, h) EXCEPT !.rc = rc]
    <3>2. kvbdbCommitPhaseTwo(z, l) =
            {IF rc = "OK" THEN C(rc) ELSE F(rc) : rc \in Outcomes("commit")}
      BY <2>2, <3>1 DEF kvbdbCommitPhaseTwo
    <3>. HIDE DEF C, F
    <3>3. kvbdbCommitPhaseTwo(z, l) = {C("OK")}
      BY <2>1, <3>2
    <3>. QED BY <3>3 DEF C
  <2>4. c.pTxn = s.pTxn
    BY <1>5
  <2>5. Q = P
    <3>1. \A i \in Level : (i > l /\ i <= L) \/ ~(i > l) \/ s.pTxn[i] = NULL
      <4>1. \A i \in Level : i > L => i \notin Deep(s)
        BY <1>1, LevelIs DEF Deep
      <4>2. \A i \in Level : i > L => s.pTxn[i] = NULL
        BY <1>1, <4>1
      <4>. QED BY <1>1, <4>2, LevelIs
    <3>. QED BY <1>4, <2>4, <3>1
  <2>6. c \in State
    <3>1. l # 1 => T \in [Handle -> Txn]
      BY <1>8
    <3>. HIDE DEF T, e
    <3>. QED BY <1>1, <1>5, <3>1 DEF State
  <2>. HIDE DEF c, P
  <2>7. [c EXCEPT !.rc = "OK", !.iTransLevel = l, !.pTxn = P] = c3
    BY <2>6 DEF State
  <2>. HIDE DEF c3
  <2>. QED BY <1>8a, <2>3, <2>5, <2>7
<1>. HIDE DEF e, ends, v
<1>10. /\ c \in State /\ ~c.stale /\ c.pCsr = s.pCsr /\ c.dbc = e.dbc
       /\ c.stored = IF l = 1 THEN v ELSE s.stored
       /\ c.txn = IF l = 1 THEN e.txn ELSE T
  <2>1. l # 1 => T \in [Handle -> Txn]
    BY <1>8
  <2>. HIDE DEF T, p
  <2>. QED BY <1>1, <1>5, <2>1 DEF State
<1>11. \A g \in Handle :
          /\ c.txn[g].state = e.txn[g].state /\ c.txn[g].above = e.txn[g].above
          /\ c.txn[g].view = IF l # 1 /\ g = p THEN v ELSE e.txn[g].view
  <2>1. CASE l = 1
    BY <1>10, <2>1
  <2>2. CASE l # 1
    <3>1. c.txn = T /\ p \in Handle
      BY <1>7, <1>10, <2>2
    <3>. HIDE DEF c, p
    <3>2. \A g \in Handle : e.txn[g] \in Txn
      BY <1>5 DEF State
    <3>3. T[p] = [e.txn[p] EXCEPT !.view = v] /\ \A g \in Handle : g # p => T[g] = e.txn[g]
      BY <1>5, <3>1 DEF State
    <3>4. [e.txn[p] EXCEPT !.view = v].state = e.txn[p].state
          /\ [e.txn[p] EXCEPT !.view = v].above = e.txn[p].above
          /\ [e.txn[p] EXCEPT !.view = v].view = v
      BY <3>1, <3>2 DEF Txn
    <3>. HIDE DEF T
    <3>. QED BY <2>2, <3>1, <3>3, <3>4
  <2>. QED BY <2>1, <2>2
<1>. HIDE DEF c
<1>12. P \in [Level -> Handle \cup {NULL}] /\ \A i \in Level : P[i] = IF i > l THEN NULL ELSE s.pTxn[i]
  BY <1>1
<1>. HIDE DEF P
<1>13. /\ c1 \in State /\ ~c1.stale /\ c1.pCsr = s.pCsr /\ c1.dbc = e.dbc
       /\ c1.stored = c.stored /\ c1.txn = c.txn /\ c1.rc = "OK"
  BY <1>10 DEF State
<1>. HIDE DEF c1
<1>14. /\ c2 \in State /\ ~c2.stale /\ c2.pCsr = s.pCsr /\ c2.dbc = e.dbc
       /\ c2.stored = c.stored /\ c2.txn = c.txn /\ c2.rc = "OK" /\ c2.iTransLevel = l
  BY <1>2, <1>13 DEF State
<1>. HIDE DEF c2
<1>15. /\ c3 \in State /\ ~c3.stale /\ c3.pCsr = s.pCsr /\ c3.dbc = e.dbc /\ c3.pTxn = P
       /\ c3.stored = c.stored /\ c3.txn = c.txn /\ c3.rc = "OK" /\ c3.iTransLevel = l
  BY <1>12, <1>14 DEF State
<1>16. o = c3
  BY <1>9
<1>. HIDE DEF c3, p, h
<1>17. NULL \notin E /\ NoDbc.txn = NULL /\ NoTxn.state = "free"
  BY <1>1 DEF Ending, NoDbc, NoTxn
<1>18. \A d \in Dbc : o.dbc[d] = IF s.dbc[d].txn \in E THEN NoDbc ELSE s.dbc[d]
  BY <1>4, <1>5, <1>15, <1>16, <1>17
<1>19. \A g \in E : g \in Handle
  BY <1>1 DEF Ending
<1>20. \A g \in E : o.txn[g].state = "free"
  BY <1>4, <1>5, <1>11, <1>15, <1>16, <1>17, <1>19
<1>21. l = 1 => p = NULL
  <2>1. l = 1 => l \notin Deep(s)
    BY DEF Deep
  <2>. QED BY <1>1, <2>1 DEF p
<1>22. \A g \in Handle \ E :
          /\ o.txn[g].state = s.txn[g].state /\ o.txn[g].above = s.txn[g].above
          /\ o.txn[g].view = IF g = p THEN v ELSE s.txn[g].view
  <2>. TAKE g \in Handle \ E
  <2>1. e.txn[g] = s.txn[g]
    BY <1>4, <1>5
  <2>2. g # NULL
    OBVIOUS
  <2>. QED BY <1>11, <1>15, <1>16, <1>21, <2>1, <2>2
<1>. HIDE DEF E
<1>23. \A g \in Handle \ Ending(s, l) :
          /\ o.txn[g].state = s.txn[g].state /\ o.txn[g].above = s.txn[g].above
          /\ o.txn[g].view = IF g = s.pTxn[l] THEN Seen(s, s.iTransLevel) ELSE s.txn[g].view
  BY <1>22 DEF E, p, v
<1>24. \A d \in Dbc : o.dbc[d] = IF s.dbc[d].txn \in Ending(s, l) THEN NoDbc ELSE s.dbc[d]
  BY <1>18 DEF E
<1>25. \A g \in Ending(s, l) : o.txn[g].state = "free"
  BY <1>20 DEF E
<1>26. (l = 1 => o.stored = Seen(s, s.iTransLevel)) /\ (l # 1 => o.stored = s.stored)
  BY <1>10, <1>15, <1>16 DEF v
<1>. QED BY <1>12, <1>15, <1>16, <1>23, <1>24, <1>25, <1>26 DEF Committed
LEMMA CommittableIs ==
  ASSUME NEW s, Nested(s), NEW l \in Level, l >= 1, l < s.iTransLevel
  PROVE  Committable(s, s, l)
<1>. DEFINE L == s.iTransLevel
            h == s.pTxn[l + 1]
            ends == Below(s, h) \cup {h}
<1>1. /\ s \in State /\ ~s.stale /\ L \in Int /\ l \in Int /\ L <= MaxLevel
      /\ \A i \in Deep(s) : s.pTxn[i] \in Live(s)
  <2>1. s \in State /\ ~s.stale /\ L \in Int /\ L <= MaxLevel
        /\ \A i \in Deep(s) : s.pTxn[i] \in Live(s)
    BY NestedIs DEF Nested
  <2>2. l \in Int
    BY LevelIs
  <2>. QED BY <2>1, <2>2
<1>2. l + 1 \in Deep(s) /\ L \in Level /\ L >= 2
  BY <1>1, LevelIs DEF Deep
<1>3. Innermost(s, h) = s.pTxn[L]
  BY <1>2, InnermostIs
<1>4. View(s, s.pTxn[L]) = Seen(s, L)
  BY <1>1, <1>2, NestedIs
<1>5. ends = Ending(s, l)
  <2>1. Below(s, h) = Ending(s, l + 1)
    BY <1>2, BelowIs
  <2>2. \A j \in Deep(s) : j > l <=> j > l + 1 \/ j = l + 1
    BY <1>1 DEF Deep
  <2>. QED BY <1>2, <2>1, <2>2 DEF Ending
<1>. QED BY <1>1, <1>2, <1>3, <1>4, <1>5 DEF Committable

\* The outermost transaction is prepared, which commits those in it.
Prepares(s, o) ==
    LET h == s.pTxn[2]
    IN /\ o \in State /\ ~o.stale /\ o.rc = "OK" /\ o.iTransLevel = s.iTransLevel
       /\ o.pTxn = s.pTxn /\ o.pCsr = s.pCsr /\ o.stored = s.stored
       /\ \A d \in Dbc :
            o.dbc[d] = IF s.dbc[d].txn \in Ending(s, 2) THEN NoDbc ELSE s.dbc[d]
       /\ \A g \in Ending(s, 2) : o.txn[g].state = "free"
       /\ \A g \in Handle \ Ending(s, 2) : g # h => o.txn[g] = s.txn[g]
       /\ o.txn[h].state = "prepared" /\ o.txn[h].above = s.txn[h].above
       /\ o.txn[h].view = Seen(s, s.iTransLevel)

LEMMA PrepareIs ==
  ASSUME NEW s, Nested(s), s.iTransLevel >= 2
  PROVE  Prepares(s, [LibPrepare(s, s.pTxn[2]) EXCEPT !.rc = "OK"])
<1>. DEFINE L == s.iTransLevel
            h == s.pTxn[2]
            v == Seen(s, L)
            E == Ending(s, 2)
            e == LibEnd(s, E)
            x == [[e.txn[h] EXCEPT !.state = "prepared"] EXCEPT !.view = v]
            T == [e.txn EXCEPT ![h] = x]
            p == [e EXCEPT !.txn = T]
            o == [p EXCEPT !.rc = "OK"]
<1>1. /\ s \in State /\ ~s.stale /\ L \in Int /\ L <= MaxLevel /\ 2 \in Deep(s)
      /\ L \in Level /\ h \in Handle /\ v \in Content
      /\ \A i \in Deep(s) : s.pTxn[i] \in Handle /\ i \in Int
      /\ \A i, j \in Deep(s) : i # j => s.pTxn[i] # s.pTxn[j]
  <2>1. s \in State /\ ~s.stale /\ L \in Int /\ L <= MaxLevel
    BY NestedIs DEF Nested
  <2>2. 2 \in Deep(s) /\ \A i \in Deep(s) : i \in Int
    BY <2>1 DEF Deep
  <2>3. L \in Level
    BY <2>1, LevelIs
  <2>4. v \in Content
    BY <2>1, <2>3, NestedIs
  <2>5. Deep(s) \subseteq Level
    BY NestedIs
  <2>. QED BY <2>1, <2>2, <2>3, <2>4, <2>5 DEF Nested
<1>2. Below(s, h) = E
  BY <1>1, BelowIs
<1>3. View(s, Innermost(s, h)) = v
  <2>1. Innermost(s, h) = s.pTxn[L]
    BY <1>1, InnermostIs
  <2>. QED BY <1>1, <2>1, NestedIs
<1>4. h \notin E
  <2>1. \A j \in Deep(s) : j > 2 => s.pTxn[j] # h
    BY <1>1
  <2>. QED BY <2>1 DEF Ending
<1>5. /\ e \in State /\ e.stored = s.stored /\ e.pCsr = s.pCsr /\ e.pTxn = s.pTxn
      /\ e.iTransLevel = L /\ ~e.stale
      /\ e.txn = [g \in Handle |-> IF g \in E THEN NoTxn ELSE s.txn[g]]
      /\ e.dbc = [d \in Dbc |-> IF s.dbc[d].txn \in E THEN NoDbc ELSE s.dbc[d]]
  BY <1>1, LibEndIs
<1>6. [LibPrepare(s, h) EXCEPT !.rc = "OK"] = o
  <2>1. LibPrepare(s, h) = [e EXCEPT !.txn[h].state = "prepared", !.txn[h].view = v]
    <3>1. LibPrepare(s, h) = [LibEnd(s, Below(s, h)) EXCEPT
                                !.txn[h].state = "prepared",
                                !.txn[h].view = View(s, Innermost(s, h))]
      <4>. HIDE DEF h
      <4>. QED BY DEF LibPrepare
    <3>. HIDE DEF h, v, E
    <3>. QED BY <1>2, <1>3, <3>1
  <2>. HIDE DEF e, v, E
  <2>. DEFINE y == [e.txn[h] EXCEPT !.state = "prepared"]
              U == [e.txn EXCEPT ![h] = y]
              q == [e EXCEPT !.txn = U]
  <2>2. LibPrepare(s, h) = [q EXCEPT !.txn[h].view = v]
    <3>. HIDE DEF h
    <3>. QED BY <2>1
  <2>3. q.txn = U /\ U[h] = y /\ [U EXCEPT ![h] = x] = T
    BY <1>1, <1>5 DEF State
  <2>4. [q EXCEPT !.txn[h].view = v] = [q EXCEPT !.txn = [U EXCEPT ![h] = [y EXCEPT !.view = v]]]
    <3>. HIDE DEF U, y, h
    <3>1. q.txn = U /\ U[h] = y
      BY <2>3
    <3>. HIDE DEF q
    <3>. QED BY <3>1
  <2>5. [q EXCEPT !.txn = T] = p
    <3>. HIDE DEF T, U
    <3>. QED BY <1>5 DEF State
  <2>. HIDE DEF h, q, U, T
  <2>. QED BY <2>2, <2>3, <2>4, <2>5
<1>. HIDE DEF e
<1>7. e.txn \in [Handle -> Txn] /\ e.txn[h] = s.txn[h] /\ e.txn[h] \in Txn
  BY <1>1, <1>4, <1>5 DEF State
<1>8. x \in Txn /\ x.state = "prepared" /\ x.above = s.txn[h].above /\ x.view = v
  <2>. HIDE DEF v, h
  <2>. QED BY <1>1, <1>7 DEF Txn
<1>. HIDE DEF x, v, h
<1>9. T \in [Handle -> Txn] /\ T[h] = x /\ \A g \in Handle : g # h => T[g] = e.txn[g]
  BY <1>1, <1>7, <1>8
<1>. HIDE DEF T
<1>10. /\ p \in State /\ p.stored = s.stored /\ p.pCsr = s.pCsr /\ p.pTxn = s.pTxn
       /\ p.iTransLevel = L /\ ~p.stale /\ p.txn = T /\ p.dbc = e.dbc
  BY <1>5, <1>9 DEF State
<1>. HIDE DEF p
<1>11. /\ o \in State /\ o.stored = s.stored /\ o.pCsr = s.pCsr /\ o.pTxn = s.pTxn
       /\ o.iTransLevel = L /\ ~o.stale /\ o.txn = T /\ o.dbc = e.dbc /\ o.rc = "OK"
  BY <1>10 DEF State
<1>. HIDE DEF o
<1>12. \A g \in E : g \in Handle /\ o.txn[g].state = "free"
  <2>1. \A g \in E : g \in Handle
    BY <1>1 DEF Ending
  <2>. QED BY <1>4, <1>5, <1>9, <1>11, <2>1 DEF NoTxn
<1>13. \A g \in Handle \ E : g # h => o.txn[g] = s.txn[g]
  BY <1>5, <1>9, <1>11
<1>14. \A d \in Dbc : o.dbc[d] = IF s.dbc[d].txn \in E THEN NoDbc ELSE s.dbc[d]
  BY <1>5, <1>11
<1>15. Prepares(s, o)
  BY <1>8, <1>9, <1>11, <1>12, <1>13, <1>14 DEF Prepares, h, v
<1>. QED BY <1>6, <1>15 DEF h

\* It can then be committed,
LEMMA PreparedCommits ==
  ASSUME NEW s, Nested(s), s.iTransLevel >= 2, NEW o, Prepares(s, o)
  PROVE  Committable(s, o, 1)
<1>. DEFINE h == s.pTxn[2]
<1>1. /\ 2 \in Deep(s) /\ h \in Handle /\ h # NULL /\ s.txn[h].above = {}
      /\ Live(s) = {s.pTxn[i] : i \in Deep(s)}
      /\ \A i \in Deep(s) : s.pTxn[i] \in Handle /\ i \in Int /\ i >= 2
  <2>1. s.iTransLevel \in Int /\ Live(s) = {s.pTxn[i] : i \in Deep(s)} /\ Deep(s) \subseteq Level
    BY NestedIs
  <2>2. 2 \in Deep(s) /\ \A i \in Deep(s) : i \in Int /\ i >= 2
    BY <2>1 DEF Deep
  <2>3. 2..(2 - 1) = {}
    OBVIOUS
  <2>4. s.txn[h].above = {s.pTxn[j] : j \in 2..(2 - 1)}
    BY <2>2 DEF Nested
  <2>5. \A i \in Deep(s) : s.pTxn[i] \in Handle
    BY <2>1 DEF Nested
  <2>6. h # NULL
    BY <2>2, <2>5
  <2>. HIDE DEF h
  <2>. QED BY <2>1, <2>2, <2>3, <2>4, <2>5, <2>6 DEF h
<1>2. \A g \in Ending(s, 1) : g = h \/ g \in Ending(s, 2)
  BY <1>1 DEF Ending
<1>3. h \in Ending(s, 1) /\ Ending(s, 2) \subseteq Ending(s, 1)
  BY <1>1 DEF Ending
<1>4. \A g \in Live(s) : g = h \/ g \in Ending(s, 2)
  BY <1>1 DEF Ending
<1>5. Live(o) = {h}
  <2>1. h \in Live(o)
    BY <1>1 DEF Live, Prepares
  <2>2. ASSUME NEW g \in Live(o), g # h
        PROVE  FALSE
    <3>1. g \in Handle /\ o.txn[g].state # "free"
      BY DEF Live
    <3>2. g \notin Ending(s, 2)
      BY <3>1 DEF Prepares
    <3>3. o.txn[g] = s.txn[g]
      BY <2>2, <3>1, <3>2 DEF Prepares
    <3>4. g \in Live(s)
      BY <3>1, <3>3 DEF Live
    <3>. QED BY <1>4, <2>2, <3>2, <3>4
  <2>. QED BY <2>1, <2>2
<1>6. o.txn[h].above = {}
  BY <1>1 DEF Prepares
<1>. HIDE DEF h
<1>7. Below(o, h) = {}
  BY <1>5, <1>6 DEF Below
<1>8. Innermost(o, h) = h
  BY <1>7 DEF Innermost
<1>9. View(o, Innermost(o, h)) = Seen(s, s.iTransLevel)
  BY <1>1, <1>8 DEF View, Prepares, h
<1>10. \A g \in Handle \ Ending(s, 1) : o.txn[g] = s.txn[g]
  BY <1>3 DEF Prepares, h
<1>11. \A g \in Ending(s, 1) : g \in Below(o, h) \cup {h} \/ o.txn[g].state = "free"
  BY <1>2 DEF Prepares
<1>12. \A d \in Dbc :
         \/ /\ o.dbc[d] = s.dbc[d]
            /\ s.dbc[d].txn \in Ending(s, 1) => s.dbc[d].txn \in Below(o, h) \cup {h}
         \/ o.dbc[d] = NoDbc /\ s.dbc[d].txn \in Ending(s, 1)
  BY <1>2, <1>3 DEF Prepares
<1>13. h = s.pTxn[1 + 1]
  BY DEF h
<1>14. /\ o \in State /\ ~o.stale /\ o.iTransLevel = s.iTransLevel
       /\ o.pTxn = s.pTxn /\ o.pCsr = s.pCsr /\ o.stored = s.stored
       /\ o.txn[h].above = s.txn[h].above
  BY DEF Prepares, h
<1>. QED BY <1>3, <1>5, <1>7, <1>9, <1>10, <1>11, <1>12, <1>13, <1>14 DEF Committable

\* and nothing else has changed if it is the only one.
LEMMA PreparedIs ==
  ASSUME NEW s, Nested(s), s.iTransLevel = 2, NEW b \in Int, b <= MaxLevel,
         Served(s, cursor, b), NEW o, Prepares(s, o)
  PROVE  /\ Nested(o) /\ Served(o, cursor, b) /\ Kept(s, o)
         /\ o.stored = s.stored /\ \A i \in Level : i <= 2 => Seen(o, i) = Seen(s, i)
<1>. DEFINE h == s.pTxn[2]
<1>1. Ending(s, 2) = {} /\ 2 \in Deep(s) /\ h \in Live(s) /\ 2 <= MaxLevel
  <2>1. 2 \in Deep(s) /\ \A i \in Deep(s) : ~(i > 2)
    BY DEF Deep
  <2>. QED BY <2>1, LevelIs DEF Ending, Nested
<1>2. /\ \A l \in Level : IF l \in Deep(s) THEN s.pTxn[l] \in Handle ELSE s.pTxn[l] = NULL
      /\ \A l \in Level : l > 2 => l \notin Deep(s)
  BY DEF Nested, Deep
<1>3. \A i \in Level : o.pTxn[i] = IF i > 2 THEN NULL ELSE s.pTxn[i]
  BY <1>2 DEF Prepares
<1>4. \A g \in Handle : /\ o.txn[g].state = "free" <=> s.txn[g].state = "free"
                        /\ o.txn[g].above = s.txn[g].above
  BY <1>1 DEF Prepares, Live
<1>5. o \in State /\ o.iTransLevel = 2 /\ ~o.stale /\ o.pCsr = s.pCsr
  BY DEF Prepares
<1>6. Nested(o)
  BY <1>1, <1>3, <1>4, <1>5, CutIsNested
<1>7. \A d \in Dbc : o.dbc[d] = s.dbc[d]
  BY <1>1 DEF Prepares
<1>8. Served(o, cursor, b) /\ Kept(s, o)
  <2>1. o.pTxn = s.pTxn
    BY DEF Prepares
  <2>2. s.pCsr \in Dbc \cup {NULL}
    BY DEF Nested, State
  <2>. QED BY <1>5, <1>7, <2>1, <2>2 DEF Served, Kept
<1>9. \A i \in Level : i <= 2 => i < 2 \/ i = 2
  BY LevelIs
<1>10. Seen(o, 2) = Seen(s, 2)
  <2>1. o.txn[h].view = Seen(s, 2) /\ o.pTxn[2] = h
    BY DEF Prepares
  <2>. QED BY <2>1 DEF Seen
<1>11. o.stored = s.stored
  BY DEF Prepares
<1>12. \A i \in Level : i <= 2 => Seen(o, i) = Seen(s, i)
  BY <1>9, <1>10, <1>11 DEF Seen
<1>. QED BY <1>6, <1>8, <1>11, <1>12
LEMMA PhaseOneIs ==
  ASSUME NEW s, Nested(s), NEW l \in Level, l < s.iTransLevel, l > 0 \/ s.iTransLevel < 2,
         NEW o \in kvbdbCommitPhaseOne(s, l)
  PROVE  \/ o \in {[s EXCEPT !.rc = "OK"], [s EXCEPT !.rc = "ERROR"]}
         \/ l = 1 /\ s.iTransLevel >= 2 /\ Prepares(s, o)
<1>. DEFINE h == s.pTxn[l + 1]
            none == s.iTransLevel < 2 \/ h = NULL \/ (\E i \in 0..l : s.pTxn[i] # NULL)
<1>1. s.iTransLevel \in Int /\ l \in Int /\ l >= 0
  <2>1. s.iTransLevel \in Int
    BY NestedIs
  <2>. QED BY <2>1, LevelIs
<1>2. CASE none
  <2>1. kvbdbCommitPhaseOne(s, l) = {[s EXCEPT !.rc = "OK"]}
    BY <1>2 DEF kvbdbCommitPhaseOne
  <2>. QED BY <2>1
<1>3. CASE ~none
  <2>1. l = 1 /\ s.iTransLevel >= 2 /\ h = s.pTxn[2]
    <3>1. s.iTransLevel >= 2 /\ l >= 1
      BY <1>1, <1>3
    <3>2. ASSUME l >= 2
          PROVE  FALSE
      <4>1. 2 \in 0..l /\ 2 \in Deep(s)
        BY <1>1, <3>1, <3>2 DEF Deep
      <4>2. s.pTxn[2] \in Handle
        BY <4>1, LevelIs DEF Nested
      <4>. QED BY <1>3, <4>1, <4>2
    <3>3. l = 1
      BY <1>1, <3>1, <3>2
    <3>. QED BY <3>1, <3>3
  <2>2. kvbdbCommitPhaseOne(s, l) =
          {[(IF rc = "OK" THEN LibPrepare(s, h) ELSE s) EXCEPT !.rc = rc]
           : rc \in Outcomes("prepare")}
    BY <1>3 DEF kvbdbCommitPhaseOne
  <2>3. PICK rc \in {"OK", "ERROR"} :
          o = [(IF rc = "OK" THEN LibPrepare(s, h) ELSE s) EXCEPT !.rc = rc]
    BY <2>2 DEF Outcomes
  <2>4. CASE rc = "OK"
    <3>1. o = [LibPrepare(s, s.pTxn[2]) EXCEPT !.rc = "OK"]
      BY <2>1, <2>3, <2>4
    <3>. QED BY <2>1, <3>1, PrepareIs
  <2>5. CASE rc = "ERROR"
    BY <2>3, <2>5
  <2>. QED BY <2>4, <2>5
<1>. QED BY <1>2, <1>3

LEMMA PhaseTwoCommits ==
  ASSUME Benign, NEW s, Nested(s), Served(s, cursor, s.iTransLevel),
         NEW l \in Level, l < s.iTransLevel, l > 0 \/ s.iTransLevel < 2,
         \A c \in Csr : cursor[c].open => cursor[c].level <= l,
         NEW o \in kvbdbCommitPhaseTwo(s, l)
  PROVE  Nested(o) /\ Served(o, cursor, l) /\ Kept(s, o) /\ CommitsTo(s, o, l)
<1>1. s.iTransLevel \in Int /\ l \in Int /\ l >= 0 /\ s \in State
  <2>1. s.iTransLevel \in Int /\ s \in State
    BY NestedIs DEF Nested
  <2>. QED BY <2>1, LevelIs
<1>2. CASE l >= 1
  <2>1. Committed(s, o, l)
    BY <1>2, CommittableIs, PhaseTwoIs
  <2>. QED BY <1>2, <2>1, CommittedIs
<1>3. CASE ~(l >= 1)
  <2>. DEFINE z == [s EXCEPT !.rc = "OK"]
              r == [z EXCEPT !.iTransLevel = l]
  <2>1. l = 0 /\ s.iTransLevel = 1 /\ l \in {0, 1}
    BY <1>1, <1>3
  <2>2. o = r
    <3>1. kvbdbCommitPhaseTwo(s, l) = {[s EXCEPT !.rc = "OK", !.iTransLevel = l]}
      BY <2>1 DEF kvbdbCommitPhaseTwo
    <3>2. [s EXCEPT !.rc = "OK", !.iTransLevel = l] = r
      BY <1>1 DEF State
    <3>. QED BY <2>1, <3>1, <3>2
  <2>3. z \in State /\ z.rc = "OK" /\ SameLevels(s, z) /\ z.pCsr = s.pCsr /\ z.dbc = s.dbc
    BY <1>1, CodeIs
  <2>. HIDE DEF z
  <2>4. Nested(z) /\ Served(z, cursor, 1) /\ Kept(s, z) /\ z.iTransLevel = 1
        /\ \A i : Seen(z, i) = Seen(s, i)
    BY <2>1, <2>3, SameIsNested, SameIsServed DEF SameLevels
  <2>5. Nested(r) /\ Served(r, cursor, 1) /\ Kept(z, r) /\ Raised(z, r, l) /\ r.rc = z.rc
    <3>1. z.iTransLevel < 2
      BY <2>4
    <3>. QED BY <2>1, <2>4, <3>1, LowIs
  <2>. HIDE DEF r
  <2>6. \A c \in Csr : ~cursor[c].open
    BY <2>1 DEF Served
  <2>7. Served(r, cursor, 0) /\ Kept(s, r)
    BY <2>5, <2>6 DEF Served, Kept
  <2>8. Unprepared(r)
    <3>1. Live(r) = {r.pTxn[i] : i \in Deep(r)}
      BY <2>5, NestedIs
    <3>2. Deep(r) = {}
      BY <2>1, <2>5 DEF Deep, Raised
    <3>. QED BY <3>1, <3>2 DEF Live, Unprepared
  <2>9. CommitsTo(s, r, 0)
    BY <2>1, <2>3, <2>4, <2>5, <2>8 DEF CommitsTo, Raised
  <2>. QED BY <2>1, <2>2, <2>5, <2>7, <2>9
<1>. QED BY <1>2, <1>3

LEMMA CommitIs ==
  ASSUME Benign, NEW s, Nested(s), Served(s, cursor, s.iTransLevel),
         NEW l \in Level, l < s.iTransLevel, l > 0 \/ s.iTransLevel < 2,
         \A c \in Csr : cursor[c].open => cursor[c].level <= l,
         NEW one \in kvbdbCommitPhaseOne(s, l),
         NEW o, IF one.rc = "OK" THEN o \in kvbdbCommitPhaseTwo(one, l) ELSE o = one
  PROVE  \/ Nested(o) /\ Served(o, cursor, l) /\ Kept(s, o) /\ CommitsTo(s, o, l)
         \/ o = [s EXCEPT !.rc = "ERROR"]
<1>1. s \in State
  BY DEF Nested
<1>2. CASE one = [s EXCEPT !.rc = "OK"]
  <2>1. one \in State /\ one.rc = "OK" /\ SameLevels(s, one) /\ one.pCsr = s.pCsr
        /\ one.dbc = s.dbc
    BY <1>1, <1>2, CodeIs
  <2>2. Nested(one) /\ Served(one, cursor, one.iTransLevel)
        /\ one.iTransLevel = s.iTransLevel /\ (Unprepared(s) => Unprepared(one))
        /\ \A i : Seen(one, i) = Seen(s, i)
    BY <2>1, SameIsNested, SameIsServed DEF SameLevels
  <2>3. Nested(o) /\ Served(o, cursor, l) /\ Kept(one, o) /\ CommitsTo(one, o, l)
    BY <2>1, <2>2, PhaseTwoCommits
  <2>4. Kept(s, o) /\ CommitsTo(s, o, l)
    BY <2>1, <2>2, <2>3 DEF Kept, CommitsTo
  <2>. QED BY <2>3, <2>4
<1>3. CASE one = [s EXCEPT !.rc = "ERROR"]
  <2>1. one.rc = "ERROR"
    BY <1>1, <1>3, CodeIs
  <2>. QED BY <1>3, <2>1
<1>4. CASE l = 1 /\ s.iTransLevel >= 2 /\ Prepares(s, one)
  <2>1. Committable(s, one, l)
    BY <1>4, PreparedCommits
  <2>2. one.rc = "OK"
    BY <1>4 DEF Prepares
  <2>3. l >= 1
    BY <1>4
  <2>4. Committed(s, o, l)
    BY <2>1, <2>2, <2>3, PhaseTwoIs
  <2>. QED BY <2>3, <2>4, CommittedIs
<1>. QED BY <1>2, <1>3, <1>4, PhaseOneIs
-----------------------------------------------------------------------------
(* Writing.                                                                *)

\* Only in the innermost transaction there is none.
LEMMA NoneBelowIs ==
  ASSUME NEW s, Nested(s), NEW i \in Deep(s)
  PROVE  Below(s, s.pTxn[i]) = {} <=> i = s.iTransLevel
<1>1. s.iTransLevel \in Int /\ i \in Int /\ i <= s.iTransLevel
  BY NestedIs DEF Deep
<1>2. Below(s, s.pTxn[i]) = Ending(s, i)
  BY BelowIs
<1>3. i # s.iTransLevel => s.pTxn[s.iTransLevel] \in Ending(s, i)
  BY <1>1 DEF Ending, Deep
<1>4. i = s.iTransLevel => Ending(s, i) = {}
  BY <1>1 DEF Ending, Deep
<1>. QED BY <1>2, <1>3, <1>4

\* The row of key k is changed to v.
Changed(s, o, k, v) ==
    /\ o.rc = "OK" /\ o.iTransLevel = s.iTransLevel
    /\ o.pTxn = s.pTxn /\ o.pCsr = s.pCsr /\ o.dbc = s.dbc
    /\ Unprepared(s) => Unprepared(o)
    /\ \A i \in Level : i < s.iTransLevel => Seen(o, i) = Seen(s, i)
    /\ Seen(o, s.iTransLevel) = [Seen(s, s.iTransLevel) EXCEPT ![k] = v]

LEMMA ChangeIs ==
  ASSUME NEW s, Nested(s), s.iTransLevel >= 2, NEW k \in Key, NEW v \in Val \cup {NoVal},
         NEW h, h = s.pTxn[s.iTransLevel]
  PROVE  LET o == [s EXCEPT !.rc = "OK", !.txn[h].view[k] = v]
         IN Nested(o) /\ Changed(s, o, k, v)
<1>. DEFINE L == s.iTransLevel
            w == [s.txn[h].view EXCEPT ![k] = v]
            x == [s.txn[h] EXCEPT !.view = w]
            T == [s.txn EXCEPT ![h] = x]
            p == [s EXCEPT !.rc = "OK"]
            o == [p EXCEPT !.txn = T]
<1>1. /\ s \in State /\ L \in Int /\ L <= MaxLevel /\ L \in Deep(s) /\ h \in Handle
      /\ Deep(s) \subseteq Level /\ s.txn[h] \in Txn
      /\ \A l \in Level : IF l \in Deep(s) THEN s.pTxn[l] \in Handle ELSE s.pTxn[l] = NULL
      /\ \A i, j \in Deep(s) : i # j => s.pTxn[i] # s.pTxn[j]
  <2>1. L \in Int /\ L \in Deep(s) /\ L <= MaxLevel /\ Deep(s) \subseteq Level
        /\ s.txn \in [Handle -> Txn]
    BY NestedIs DEF Deep
  <2>2. h \in Handle
    BY <2>1 DEF Nested
  <2>. QED BY <2>1, <2>2 DEF Nested
<1>2. [s EXCEPT !.rc = "OK", !.txn[h].view[k] = v] = o
  <2>. DEFINE q == [p EXCEPT !.txn[h].view[k] = v]
  <2>1. [s EXCEPT !.rc = "OK", !.txn[h].view[k] = v] = q
    BY <1>1 DEF State
  <2>2. p.txn = s.txn
    BY <1>1 DEF State
  <2>. HIDE DEF p
  <2>3. q = o
    BY <2>2
  <2>. HIDE DEF q, o
  <2>. QED BY <2>1, <2>3
<1>3. w \in Content
  BY <1>1 DEF Txn, Content
<1>4. x \in Txn /\ x.view = w /\ x.state = s.txn[h].state /\ x.above = s.txn[h].above
  <2>. HIDE DEF w
  <2>. QED BY <1>1, <1>3 DEF Txn
<1>. HIDE DEF x
<1>5. T \in [Handle -> Txn] /\ T[h] = x /\ \A g \in Handle : g # h => T[g] = s.txn[g]
  BY <1>1, <1>4 DEF State
<1>. HIDE DEF T
<1>6. /\ p \in State /\ p.rc = "OK" /\ p.iTransLevel = L /\ p.pTxn = s.pTxn /\ p.pCsr = s.pCsr
      /\ p.dbc = s.dbc /\ p.stored = s.stored /\ p.stale = s.stale
  BY <1>1 DEF State
<1>. HIDE DEF p
<1>7. /\ o \in State /\ o.rc = "OK" /\ o.iTransLevel = L /\ o.pTxn = s.pTxn /\ o.pCsr = s.pCsr
      /\ o.dbc = s.dbc /\ o.stored = s.stored /\ o.stale = s.stale /\ o.txn = T
  BY <1>5, <1>6 DEF State
<1>. HIDE DEF o
<1>8. \A g \in Handle : o.txn[g].state = s.txn[g].state /\ o.txn[g].above = s.txn[g].above
  BY <1>4, <1>5, <1>7
<1>9. Nested(o)
  <2>1. \A i \in Level : o.pTxn[i] = IF i > L THEN NULL ELSE s.pTxn[i]
    <3>1. \A i \in Level : i > L => i \notin Deep(s)
      BY <1>1 DEF Deep
    <3>. QED BY <1>1, <1>7, <3>1
  <2>2. Ending(s, L) = {}
    BY <1>1 DEF Ending, Deep
  <2>3. ~o.stale /\ L >= -1
    <3>1. ~s.stale
      BY DEF Nested
    <3>2. ~o.stale
      BY <1>7, <3>1
    <3>3. L >= -1
      BY <1>1
    <3>. QED BY <3>2, <3>3
  <2>. HIDE DEF L
  <2>4. /\ \A g \in Ending(s, L) : o.txn[g].state = "free"
        /\ \A g \in Handle \ Ending(s, L) :
              /\ o.txn[g].state = "free" <=> s.txn[g].state = "free"
              /\ o.txn[g].above = s.txn[g].above
    BY <1>8, <2>2
  <2>5. L <= s.iTransLevel
    BY <1>1 DEF L
  <2>. QED BY <1>1, <1>7, <2>1, <2>3, <2>4, <2>5, CutIsNested
<1>10. \A i \in Level : i < L => Seen(o, i) = Seen(s, i)
  <2>. SUFFICES ASSUME NEW i \in Level, i < L
                PROVE  Seen(o, i) = Seen(s, i)
    OBVIOUS
  <2>1. i \in Int
    BY LevelIs
  <2>2. CASE i < 2
    BY <1>7, <2>2 DEF Seen
  <2>3. CASE ~(i < 2)
    <3>1. i \in Deep(s) /\ i # L
      BY <1>1, <2>1, <2>3 DEF Deep
    <3>2. s.pTxn[i] \in Handle /\ s.pTxn[i] # h
      BY <1>1, <3>1
    <3>. QED BY <1>5, <1>7, <2>3, <3>2 DEF Seen
  <2>. QED BY <2>2, <2>3
<1>11. Seen(o, L) = [Seen(s, L) EXCEPT ![k] = v]
  <2>1. Seen(s, L) = s.txn[h].view
    BY <1>1 DEF Seen
  <2>2. Seen(o, L) = w
    <3>1. ~(L < 2) /\ s.pTxn[L] = h
      BY <1>1
    <3>2. o.txn[h].view = w
      BY <1>4, <1>5, <1>7
    <3>3. o.pTxn[L] = h
      BY <1>7, <3>1
    <3>. QED BY <3>1, <3>2, <3>3 DEF Seen
  <2>. QED BY <2>1, <2>2
<1>12. Changed(s, o, k, v)
  BY <1>7, <1>8, <1>10, <1>11 DEF Changed, Unprepared
<1>. QED BY <1>2, <1>9, <1>12

-----------------------------------------------------------------------------
(* Moving.                                                                 *)

LEMMA LeastIs ==
  ASSUME NEW ks \in SUBSET Key, ks # {}
  PROVE  Least(ks) \in ks /\ \A j \in ks : Least(ks) <= j
<1>. DEFINE R == {ss \in Nat \X Nat : ss[1] < ss[2]}
<1>1. IsWellFoundedOn(R, Nat)
  BY NatLessThanWellFounded, Zenon DEF OpToRel
<1>. HIDE DEF R
<1>2. ks \subseteq Nat
  OBVIOUS
<1>3. PICK x \in ks : \A y \in ks : ~(<<y, x>> \in R)
  BY <1>1, <1>2, WFMin, Zenon
<1>4. \A y \in ks : ~(y < x)
  BY <1>2, <1>3 DEF R
<1>5. \A y \in ks : x <= y
  BY <1>2, <1>4
<1>. QED BY <1>5 DEF Least

LEMMA GreatestIs ==
  ASSUME Benign, NEW ks \in SUBSET Key, ks # {}
  PROVE  Greatest(ks) \in ks /\ \A j \in ks : j <= Greatest(ks)
<1>1. PICK b \in Nat : \A k \in Key : k <= b
  BY DEF Benign
<1>. DEFINE R == {ss \in Nat \X Nat : ss[1] < ss[2]}
            ms == {b - k : k \in ks}
<1>2. IsWellFoundedOn(R, Nat)
  BY NatLessThanWellFounded, Zenon DEF OpToRel
<1>. HIDE DEF R
<1>3. ms \subseteq Nat /\ ms # {}
  <2>1. \A k \in ks : k \in Nat /\ k <= b
    BY <1>1
  <2>2. \A k \in ks : b - k \in Nat
    BY <2>1
  <2>3. ms \subseteq Nat
    BY <2>2, Zenon
  <2>4. PICK k \in ks : TRUE
    OBVIOUS
  <2>5. b - k \in ms
    BY <2>4, Zenon
  <2>. QED BY <2>3, <2>5, Zenon
<1>. HIDE DEF ms
<1>4. PICK m \in ms : \A y \in ms : ~(<<y, m>> \in R)
  BY <1>2, <1>3, WFMin, Zenon
<1>5. \A y \in ms : m <= y
  <2>1. \A y \in ms : ~(y < m)
    BY <1>3, <1>4 DEF R
  <2>. QED BY <1>3, <2>1
<1>6. PICK x \in ks : m = b - x
  BY DEF ms
<1>7. \A y \in ks : y <= x
  <2>. TAKE y \in ks
  <2>1. b - y \in ms
    BY DEF ms
  <2>2. b - x <= b - y
    BY <1>5, <1>6, <2>1
  <2>3. x \in Nat /\ y \in Nat
    OBVIOUS
  <2>. QED BY <2>2, <2>3
<1>. QED BY <1>7 DEF Greatest

Code == {"OK", "INEXACT", "NOTFOUND", "ERROR", "INTERNAL", "MISUSE", "MISMATCH"}

Recoded(s, rc) == [s EXCEPT !.rc = rc]

LEMMA RecodedIs ==
  ASSUME NEW s \in State, NEW rc \in Code
  PROVE  LET o == Recoded(s, rc)
         IN o \in State /\ o.rc = rc /\ SameLevels(s, o) /\ o.pCsr = s.pCsr /\ o.dbc = s.dbc
<1>1. rc \in {"OK", "INEXACT", "NOTFOUND", "ERROR", "INTERNAL", "MISUSE", "MISMATCH"}
  BY DEF Code
<1>. QED BY <1>1 DEF Recoded, State, SameLevels

\* Only the library's cursor d is moved.
Moves(s, o, d) ==
    /\ o \in State /\ SameLevels(s, o) /\ o.pCsr = s.pCsr
    /\ \A e \in Dbc : /\ o.dbc[e].open = s.dbc[e].open /\ o.dbc[e].txn = s.dbc[e].txn
                      /\ e # d => o.dbc[e].pos = s.dbc[e].pos

LEMMA MoveIs ==
  ASSUME NEW s \in State, NEW d \in Dbc, NEW k \in Key, NEW rc \in Code
  PROVE  LET o == [MoveTo(s, d, k) EXCEPT !.rc = rc]
         IN Moves(s, o, d) /\ o.rc = rc /\ Pos(o, d) = k
<1>. DEFINE x == [s.dbc[d] EXCEPT !.pos = k]
            D == [s.dbc EXCEPT ![d] = x]
            p == [s EXCEPT !.dbc = D]
            o == [p EXCEPT !.rc = rc]
<1>1. MoveTo(s, d, k) = p
  BY DEF MoveTo
<1>2. s.dbc[d] \in Cursor
  BY DEF State
<1>3. x \in Cursor /\ x.open = s.dbc[d].open /\ x.txn = s.dbc[d].txn /\ x.pos = k
  BY <1>2 DEF Cursor
<1>. HIDE DEF x
<1>4. D \in [Dbc -> Cursor] /\ D[d] = x /\ \A e1 \in Dbc : e1 # d => D[e1] = s.dbc[e1]
  BY <1>3 DEF State
<1>. HIDE DEF D
<1>5. p \in State /\ SameLevels(s, p) /\ p.pCsr = s.pCsr /\ p.dbc = D
  BY <1>4 DEF State, SameLevels
<1>. HIDE DEF p
<1>6. o \in State /\ SameLevels(s, o) /\ o.pCsr = s.pCsr /\ o.dbc = D /\ o.rc = rc
  BY <1>5 DEF State, SameLevels, Code
<1>. HIDE DEF o
<1>7. Moves(s, o, d) /\ Pos(o, d) = k
  BY <1>3, <1>4, <1>6 DEF Moves, Pos
<1>. QED BY <1>1, <1>6, <1>7 DEF o

LEMMA StayIs ==
  ASSUME NEW s \in State, NEW d \in Dbc, NEW rc \in Code, NEW e \in BOOLEAN
  PROVE  LET r == Result(s, rc, e)
         IN Moves(s, r.s, d) /\ r.s.rc = rc /\ r.eof \in BOOLEAN /\ Pos(r.s, d) = Pos(s, d)
<1>. DEFINE o == Recoded(s, rc)
<1>1. o \in State /\ o.rc = rc /\ SameLevels(s, o) /\ o.pCsr = s.pCsr /\ o.dbc = s.dbc
  BY RecodedIs
<1>2. Result(s, rc, e) = [s |-> o, eof |-> e]
  BY DEF Result, Recoded
<1>. HIDE DEF o
<1>. QED BY <1>1, <1>2 DEF Moves, Pos

\* What SeekFindsNearest says of a seek.
Nearest(c, k, dir) ==
    LET d == cursor[c].csr
        after == SeekResult(c, k, dir).s
        pos == Pos(after, d)
        fits == {j \in Rows(kv, d) : CASE dir = "EQ" -> j = k
                                       [] dir = "LE" -> j <= k
                                       [] dir = "GE" -> j >= k}
    IN /\ after.rc = "OK" => pos = k /\ k \in fits
       /\ after.rc = "INEXACT" =>
            /\ pos \in fits /\ k \notin fits
            /\ \A j \in fits : IF dir = "LE" THEN j <= pos ELSE j >= pos
       /\ after.rc = "NOTFOUND" => fits = {}

\* A seek of a cursor that is served.
LEMMA SeekIs ==
  ASSUME Benign, Nested(kv), NEW b, Served(kv, cursor, b),
         NEW c \in Open, NEW k \in Key, NEW dir \in {"EQ", "LE", "GE"}
  PROVE  LET r == SeekResult(c, k, dir)
         IN Moves(kv, r.s, cursor[c].csr) /\ r.eof \in BOOLEAN /\ Nearest(c, k, dir)
<1>. DEFINE d == cursor[c].csr
            rows == Rows(kv, d)
            more == {j \in rows : j >= k}
            less == {j \in rows : j < k}
            fits == {j \in rows : CASE dir = "EQ" -> j = k
                                    [] dir = "LE" -> j <= k
                                    [] dir = "GE" -> j >= k}
            r == SeekResult(c, k, dir)
            pos == Pos(r.s, d)
            Good == /\ Moves(kv, r.s, d) /\ r.eof \in BOOLEAN
                    /\ r.s.rc = "OK" => pos = k /\ k \in fits
                    /\ r.s.rc = "INEXACT" =>
                         /\ pos \in fits /\ k \notin fits
                         /\ \A j \in fits : IF dir = "LE" THEN j <= pos ELSE j >= pos
                    /\ r.s.rc = "NOTFOUND" => fits = {}
<1>1. kv \in State /\ d \in Dbc /\ kv.dbc[d].open
  BY DEF Nested, Served, Open
<1>2. rows \subseteq Key /\ rows \in SUBSET Key
  BY DEF Rows
<1>3. \A j \in rows : j \in Nat /\ k \in Nat
  BY <1>2
<1>. HIDE DEF rows, d
<1>4. "OK" \in Code /\ "INEXACT" \in Code /\ "NOTFOUND" \in Code /\ "MISUSE" \in Code
  BY DEF Code
<1>5. SUFFICES Good
  BY DEF rows, d, Nearest
<1>6. CASE Refused(kv, d)
  <2>1. r = Result(kv, "MISUSE", TRUE)
    BY <1>1, <1>6 DEF SeekResult, d
  <2>. HIDE DEF r
  <2>2. Moves(kv, r.s, d) /\ r.s.rc = "MISUSE" /\ r.eof \in BOOLEAN
    BY <1>1, <1>4, <2>1, StayIs, ZenonT(40)
  <2>. QED BY <2>2
<1>7. CASE ~Refused(kv, d) /\ dir = "EQ"
  <2>1. r = IF k \in rows THEN Result(MoveTo(kv, d, k), "OK", FALSE)
            ELSE Result(kv, "NOTFOUND", TRUE)
    BY <1>1, <1>7 DEF SeekResult, kvbdbSeekEQ, d, rows
  <2>2. \A j : j \in fits <=> j \in rows /\ j = k
    BY <1>7
  <2>. HIDE DEF r, fits
  <2>3. CASE k \in rows
    <3>0. r.s = [MoveTo(kv, d, k) EXCEPT !.rc = "OK"] /\ r.eof \in BOOLEAN /\ "OK" \in Code
      BY <1>4, <2>1, <2>3 DEF Result
    <3>1. Moves(kv, r.s, d) /\ r.s.rc = "OK" /\ r.eof \in BOOLEAN /\ Pos(r.s, d) = k
      BY <1>1, <3>0, MoveIs
    <3>. QED BY <2>2, <2>3, <3>1
  <2>4. CASE k \notin rows
    <3>1. Moves(kv, r.s, d) /\ r.s.rc = "NOTFOUND" /\ r.eof \in BOOLEAN
      BY <1>1, <1>4, <2>1, <2>4, StayIs, ZenonT(40)
    <3>2. fits = {}
      BY <2>2, <2>4
    <3>. QED BY <3>1, <3>2
  <2>. QED BY <2>3, <2>4
<1>8. CASE ~Refused(kv, d) /\ dir = "GE"
  <2>1. r = IF more = {} THEN Result(kv, "NOTFOUND", TRUE)
            ELSE Result(MoveTo(kv, d, Least(more)),
                        IF Least(more) = k THEN "OK" ELSE "INEXACT", FALSE)
    BY <1>1, <1>8 DEF SeekResult, kvbdbSeekGE, d, rows
  <2>2. fits = more
    BY <1>8
  <2>3. more \in SUBSET Key
    BY <1>2
  <2>4. \A j \in more : j >= k /\ j \in Nat /\ k \in Nat
    BY <1>3
  <2>. HIDE DEF r, fits, more
  <2>5. CASE more = {}
    <3>1. Moves(kv, r.s, d) /\ r.s.rc = "NOTFOUND" /\ r.eof \in BOOLEAN
      BY <1>1, <1>4, <2>1, <2>5, StayIs, ZenonT(40)
    <3>. QED BY <2>2, <2>5, <3>1
  <2>6. CASE more # {}
    <3>. DEFINE m == Least(more)
                rc == IF m = k THEN "OK" ELSE "INEXACT"
    <3>1. m \in more /\ \A j \in more : m <= j
      BY <2>3, <2>6, LeastIs
    <3>2. m \in Key /\ rc \in Code
      BY <1>4, <2>3, <3>1
    <3>3. r.s = [MoveTo(kv, d, m) EXCEPT !.rc = rc] /\ r.eof \in BOOLEAN
      BY <2>1, <2>6 DEF Result
    <3>. HIDE DEF m
    <3>4. Moves(kv, r.s, d) /\ r.s.rc = rc /\ r.eof \in BOOLEAN /\ Pos(r.s, d) = m
      <4>. HIDE DEF rc
      <4>. QED BY <1>1, <3>2, <3>3, MoveIs
    <3>5. k \in more => m = k
      BY <2>4, <3>1
    <3>. QED BY <1>8, <2>2, <2>4, <3>1, <3>4, <3>5
  <2>. QED BY <2>5, <2>6
<1>9. CASE ~Refused(kv, d) /\ dir = "LE"
  <2>1. r = IF k \in rows THEN Result(MoveTo(kv, d, k), "OK", FALSE)
            ELSE IF less # {} THEN Result(MoveTo(kv, d, Greatest(less)), "INEXACT", FALSE)
            ELSE IF more # {} THEN Result(MoveTo(kv, d, Least(more)), "NOTFOUND", FALSE)
            ELSE Result(kv, "NOTFOUND", TRUE)
    BY <1>1, <1>9 DEF SeekResult, kvbdbSeekLE, d, rows
  <2>2. \A j : j \in fits <=> j \in rows /\ j <= k
    BY <1>9
  <2>3. more \in SUBSET Key /\ less \in SUBSET Key
    BY <1>2
  <2>4. /\ \A j : j \in less <=> j \in rows /\ j < k
        /\ \A j \in rows : j <= k <=> j < k \/ j = k
    BY <1>3
  <2>. HIDE DEF r, fits, more, less
  <2>5. CASE k \in rows
    <3>0. r.s = [MoveTo(kv, d, k) EXCEPT !.rc = "OK"] /\ r.eof \in BOOLEAN /\ "OK" \in Code
      BY <1>4, <2>1, <2>5 DEF Result
    <3>1. Moves(kv, r.s, d) /\ r.s.rc = "OK" /\ r.eof \in BOOLEAN /\ Pos(r.s, d) = k
      BY <1>1, <3>0, MoveIs
    <3>2. k \in fits
      BY <2>2, <2>4, <2>5
    <3>. QED BY <3>1, <3>2
  <2>6. CASE k \notin rows /\ less # {}
    <3>. DEFINE m == Greatest(less)
    <3>1. m \in less /\ \A j \in less : j <= m
      BY <2>3, <2>6, GreatestIs
    <3>2. r.s = [MoveTo(kv, d, m) EXCEPT !.rc = "INEXACT"] /\ r.eof \in BOOLEAN /\ m \in Key
      BY <2>1, <2>3, <2>6, <3>1 DEF Result
    <3>. HIDE DEF m
    <3>3. Moves(kv, r.s, d) /\ r.s.rc = "INEXACT" /\ r.eof \in BOOLEAN /\ Pos(r.s, d) = m
      BY <1>1, <1>4, <3>2, MoveIs
    <3>4. \A j : j \in fits <=> j \in less
      BY <2>2, <2>4, <2>6
    <3>5. k \notin fits /\ m \in fits /\ \A j \in fits : j <= m
      BY <2>2, <2>6, <3>1, <3>4
    <3>. QED BY <1>9, <3>3, <3>5
  <2>7. CASE k \notin rows /\ less = {}
    <3>1. fits = {}
      BY <2>2, <2>4, <2>7
    <3>2. Moves(kv, r.s, d) /\ r.s.rc = "NOTFOUND" /\ r.eof \in BOOLEAN
      <4>1. CASE more = {}
        BY <1>1, <1>4, <2>1, <2>7, <4>1, StayIs, ZenonT(40)
      <4>2. CASE more # {}
        <5>1. Least(more) \in Key
          BY <2>3, <4>2, LeastIs
        <5>2. /\ r.s = [MoveTo(kv, d, Least(more)) EXCEPT !.rc = "NOTFOUND"]
              /\ r.eof \in BOOLEAN
          BY <2>1, <2>7, <4>2 DEF Result
        <5>. QED BY <1>1, <1>4, <5>1, <5>2, MoveIs
      <4>. QED BY <4>1, <4>2
    <3>. QED BY <3>1, <3>2
  <2>. QED BY <2>5, <2>6, <2>7
<1>. QED BY <1>6, <1>7, <1>8, <1>9
-----------------------------------------------------------------------------
(* The promises of kv.h.  What Contract takes as its atBegin is what a read *)
(* at the level below would see.                                           *)

WriteLevel == 2..MaxLevel
AtBegin(s) ==
    [l \in WriteLevel |-> IF l > s.iTransLevel THEN Seen(s, s.iTransLevel) ELSE Seen(s, l - 1)]

\* The substitutions of Contract.
BeginMap ==
    [l \in 2..MaxLevel |-> IF l > kv.iTransLevel THEN Visible
                           ELSE IF l = 2 THEN kv.stored ELSE View(kv, kv.pTxn[l - 1])]

LEMMA WriteLevelIs ==
  \A l \in WriteLevel : l \in Int /\ l >= 2 /\ l \in Level /\ l - 1 \in Level /\ l <= MaxLevel
BY LevelIs DEF WriteLevel, Level

LEMMA MapIs ==
  ASSUME NEW s, Nested(s), s.iTransLevel >= 0, NEW v,
         v = IF s.iTransLevel < 2 THEN s.stored ELSE View(s, s.pTxn[s.iTransLevel])
  PROVE  /\ v = Seen(s, s.iTransLevel)
         /\ [l \in 2..MaxLevel |-> IF l > s.iTransLevel THEN v
                                   ELSE IF l = 2 THEN s.stored ELSE View(s, s.pTxn[l - 1])]
            = AtBegin(s)
<1>. DEFINE L == s.iTransLevel
<1>1. L \in Int /\ L <= MaxLevel
  BY NestedIs
<1>2. \A i \in Level : i <= L => View(s, s.pTxn[i]) = Seen(s, i)
  <2>. SUFFICES ASSUME NEW i \in Level, i <= L
                PROVE  View(s, s.pTxn[i]) = Seen(s, i)
    OBVIOUS
  <2>1. i \in Int /\ ~(i > L)
    BY <1>1, LevelIs
  <2>. QED BY <2>1, NestedIs
<1>3. L \in Level /\ L <= L
  BY <1>1, LevelIs
<1>4. v = Seen(s, L)
  <2>1. CASE L < 2
    BY <2>1 DEF Seen
  <2>2. CASE ~(L < 2)
    BY <1>2, <1>3, <2>2
  <2>. QED BY <2>1, <2>2
<1>5. ASSUME NEW l \in WriteLevel, ~(l > L)
      PROVE  (IF l = 2 THEN s.stored ELSE View(s, s.pTxn[l - 1])) = Seen(s, l - 1)
  <2>1. l - 1 \in Level /\ l - 1 <= L /\ l \in Int /\ l >= 2
    BY <1>1, <1>5, WriteLevelIs
  <2>2. CASE l = 2
    BY <2>2 DEF Seen
  <2>3. CASE l # 2
    BY <1>2, <2>1, <2>3
  <2>. QED BY <2>2, <2>3
<1>. QED BY <1>4, <1>5 DEF AtBegin, WriteLevel

LEMMA MapNow ==
  ASSUME Nested(kv), kv.iTransLevel >= 0
  PROVE  Visible = Seen(kv, kv.iTransLevel) /\ BeginMap = AtBegin(kv)
<1>1. Visible = IF kv.iTransLevel < 2 THEN kv.stored ELSE View(kv, kv.pTxn[kv.iTransLevel])
  BY DEF Visible
<1>. QED BY <1>1, MapIs DEF BeginMap

LEMMA MapNext ==
  ASSUME Nested(kv'), kv'.iTransLevel >= 0
  PROVE  Visible' = Seen(kv', kv'.iTransLevel) /\ BeginMap' = AtBegin(kv')
<1>1. Visible' = IF kv'.iTransLevel < 2 THEN kv'.stored
                 ELSE View(kv', kv'.pTxn[kv'.iTransLevel])
  BY DEF Visible
<1>2. BeginMap' =
        [l \in 2..MaxLevel |-> IF l > kv'.iTransLevel THEN Visible'
                               ELSE IF l = 2 THEN kv'.stored ELSE View(kv', kv'.pTxn[l - 1])]
  BY DEF BeginMap
<1>. HIDE DEF BeginMap, Visible
<1>. QED BY <1>1, <1>2, MapIs

\* xBegin.
LEMMA RaisedMaps ==
  ASSUME NEW s, Nested(s), s.iTransLevel >= 0, NEW l \in Level,
         l = s.iTransLevel + 1 \/ (s.iTransLevel = 0 /\ l = 2),
         NEW o, Raised(s, o, l)
  PROVE  AtBegin(o) = AtBegin(s) /\ Seen(o, o.iTransLevel) = Seen(s, s.iTransLevel)
<1>. DEFINE L == s.iTransLevel
<1>1. L \in Int /\ l \in Int /\ o.iTransLevel = l /\ L >= 0
  BY NestedIs, LevelIs DEF Raised
<1>2. Seen(o, l) = Seen(s, L) /\ o.stored = s.stored
      /\ \A i \in Level : i <= L => Seen(o, i) = Seen(s, i)
  BY DEF Raised
<1>3. ASSUME NEW m \in WriteLevel
      PROVE  (IF m > l THEN Seen(o, l) ELSE Seen(o, m - 1))
             = IF m > L THEN Seen(s, L) ELSE Seen(s, m - 1)
  <2>1. m \in Int /\ m >= 2 /\ m - 1 \in Level
    BY WriteLevelIs
  <2>2. CASE m > l
    BY <1>1, <1>2, <2>1, <2>2
  <2>3. CASE ~(m > l) /\ m > L
    <3>1. m - 1 = L \/ (L = 0 /\ m - 1 < 2)
      BY <1>1, <2>1, <2>3
    <3>2. CASE m - 1 = L
      <4>1. Seen(o, m - 1) = Seen(s, m - 1)
        BY <1>1, <1>2, <2>1, <3>2
      <4>. QED BY <2>3, <3>2, <4>1
    <3>3. CASE L = 0 /\ m - 1 < 2
      BY <1>2, <2>3, <3>3 DEF Seen
    <3>. QED BY <3>1, <3>2, <3>3
  <2>4. CASE ~(m > l) /\ ~(m > L)
    <3>1. m - 1 <= L
      BY <1>1, <2>1, <2>4
    <3>. QED BY <1>2, <2>1, <2>4, <3>1
  <2>. QED BY <1>1, <2>1, <2>2, <2>3, <2>4
<1>. QED BY <1>1, <1>2, <1>3 DEF AtBegin

\* xCommit.
LEMMA CommitMaps ==
  ASSUME NEW s, Nested(s), NEW l \in Level, l < s.iTransLevel, NEW o, CommitsTo(s, o, l)
  PROVE  /\ AtBegin(o) = [m \in WriteLevel |-> IF m <= l THEN AtBegin(s)[m]
                                               ELSE Seen(s, s.iTransLevel)]
         /\ Seen(o, o.iTransLevel) = Seen(s, s.iTransLevel)
<1>. DEFINE L == s.iTransLevel
<1>1. L \in Int /\ l \in Int /\ o.iTransLevel = l /\ Seen(o, l) = Seen(s, L)
      /\ (l >= 2 => \A i \in Level : i < l => Seen(o, i) = Seen(s, i))
  <2>1. L \in Int /\ l \in Int
    BY NestedIs, LevelIs
  <2>. QED BY <2>1 DEF CommitsTo
<1>2. ASSUME NEW m \in WriteLevel
      PROVE  (IF m > l THEN Seen(o, l) ELSE Seen(o, m - 1))
             = IF m <= l THEN IF m > L THEN Seen(s, L) ELSE Seen(s, m - 1) ELSE Seen(s, L)
  <2>1. m \in Int /\ m >= 2 /\ m - 1 \in Level
    BY WriteLevelIs
  <2>2. CASE m > l
    BY <1>1, <2>1, <2>2
  <2>3. CASE ~(m > l)
    <3>1. m <= l /\ m - 1 < l /\ l >= 2 /\ ~(m > L)
      BY <1>1, <2>1, <2>3
    <3>. QED BY <1>1, <2>1, <2>3, <3>1
  <2>. QED BY <2>2, <2>3
<1>. QED BY <1>1, <1>2 DEF AtBegin

\* xRevert, and kvbdbRollback: the level begins where it ended.
LEMMA BackMaps ==
  ASSUME NEW s, Nested(s), s.iTransLevel >= 0, NEW l \in Level, l <= s.iTransLevel,
         NEW o, RollsBack(s, o, l)
  PROVE  /\ AtBegin(o) = [m \in WriteLevel |-> IF m <= l - 1 THEN AtBegin(s)[m]
                                               ELSE Seen(s, l - 1)]
         /\ Seen(o, o.iTransLevel) = Seen(s, l - 1)
         /\ Seen(s, l - 1) = AtBegin(s)[IF l < 2 THEN 2 ELSE l]
<1>. DEFINE L == s.iTransLevel
<1>1. /\ L \in Int /\ l \in Int /\ l >= 0 /\ o.stored = s.stored /\ L <= MaxLevel
      /\ MaxLevel \in Int /\ MaxLevel >= 2
      /\ \A i \in Level : i < l => Seen(o, i) = Seen(s, i)
      /\ \/ o.iTransLevel = l /\ Seen(o, l) = Seen(s, l - 1)
         \/ l >= 2 /\ o.iTransLevel = l - 1
  <2>1. L \in Int /\ L <= MaxLevel
    BY NestedIs
  <2>2. l \in Int /\ l >= 0 /\ MaxLevel \in Int /\ MaxLevel >= 2
    BY LevelIs
  <2>. QED BY <2>1, <2>2 DEF RollsBack
<1>2. l >= 1 => Seen(o, l - 1) = Seen(s, l - 1)
  <2>1. l >= 1 => l - 1 \in Level /\ l - 1 < l
    BY <1>1, LevelIs
  <2>. QED BY <1>1, <2>1
<1>3. Seen(o, o.iTransLevel) = Seen(s, l - 1)
  BY <1>1, <1>2
<1>4. ASSUME NEW m \in WriteLevel
      PROVE  (IF m > o.iTransLevel THEN Seen(o, o.iTransLevel) ELSE Seen(o, m - 1))
             = IF m <= l - 1 THEN IF m > L THEN Seen(s, L) ELSE Seen(s, m - 1)
               ELSE Seen(s, l - 1)
  <2>1. m \in Int /\ m >= 2 /\ m - 1 \in Level
    BY WriteLevelIs
  <2>2. CASE m <= l - 1
    <3>1. ~(m > o.iTransLevel) /\ m - 1 < l /\ ~(m > L)
      BY <1>1, <2>1, <2>2
    <3>2. Seen(o, m - 1) = Seen(s, m - 1)
      BY <1>1, <2>1, <3>1
    <3>. QED BY <2>2, <3>1, <3>2
  <2>3. CASE ~(m <= l - 1) /\ m > o.iTransLevel
    BY <1>3, <2>3
  <2>4. CASE ~(m <= l - 1) /\ ~(m > o.iTransLevel)
    <3>1. m = l /\ l >= 1
      BY <1>1, <2>1, <2>4
    <3>. QED BY <1>2, <2>4, <3>1
  <2>. QED BY <2>2, <2>3, <2>4
<1>5. AtBegin(s)[IF l < 2 THEN 2 ELSE l] = Seen(s, l - 1)
  <2>1. CASE l < 2
    <3>1. 2 \in WriteLevel
      BY <1>1 DEF WriteLevel
    <3>2. AtBegin(s)[2] = IF 2 > L THEN Seen(s, L) ELSE Seen(s, 1)
      BY <3>1 DEF AtBegin
    <3>3. Seen(s, 1) = s.stored /\ (2 > L => Seen(s, L) = s.stored)
      BY <1>1 DEF Seen
    <3>4. Seen(s, l - 1) = s.stored
      BY <1>1, <2>1 DEF Seen
    <3>. QED BY <2>1, <3>2, <3>3, <3>4
  <2>2. CASE ~(l < 2)
    <3>1. l \in WriteLevel /\ ~(l > L)
      BY <1>1, <2>2 DEF WriteLevel
    <3>. QED BY <2>2, <3>1 DEF AtBegin
  <2>. QED BY <2>1, <2>2
<1>. QED BY <1>3, <1>4, <1>5 DEF AtBegin

\* xReplace and xDelete.
LEMMA ChangeMaps ==
  ASSUME NEW s, Nested(s), s.iTransLevel >= 0, NEW k, NEW v, NEW o, Changed(s, o, k, v)
  PROVE  AtBegin(o) = [m \in WriteLevel |-> IF m <= s.iTransLevel THEN AtBegin(s)[m]
                                            ELSE Seen(o, s.iTransLevel)]
<1>. DEFINE L == s.iTransLevel
<1>1. L \in Int /\ o.iTransLevel = L /\ \A i \in Level : i < L => Seen(o, i) = Seen(s, i)
  <2>1. L \in Int
    BY NestedIs
  <2>. QED BY <2>1 DEF Changed
<1>2. ASSUME NEW m \in WriteLevel
      PROVE  (IF m > L THEN Seen(o, L) ELSE Seen(o, m - 1))
             = IF m <= L THEN IF m > L THEN Seen(s, L) ELSE Seen(s, m - 1) ELSE Seen(o, L)
  <2>1. m \in Int /\ m - 1 \in Level
    BY WriteLevelIs
  <2>2. CASE m > L
    BY <1>1, <2>1, <2>2
  <2>3. CASE ~(m > L)
    <3>1. m <= L /\ m - 1 < L
      BY <1>1, <2>1, <2>3
    <3>. QED BY <1>1, <2>1, <2>3, <3>1
  <2>. QED BY <2>2, <2>3
<1>. QED BY <1>1, <1>2 DEF AtBegin
-----------------------------------------------------------------------------
(* The steps of the store.                                                 *)

\* A step keeps the promises and the invariant, and moves no cursor in use.
Fine == BInv' /\ Kept(kv, kv') /\ [Contract!Next]_(Contract!vars)

Mapped(o) == Nested(o) /\ o.iTransLevel >= 0

LEMMA MappedSteps ==
  ASSUME Mapped(kv), Mapped(kv')
  PROVE  /\ \A l \in Level :
              /\ l = kv.iTransLevel + 1 \/ (kv.iTransLevel = 0 /\ l = 2)
              /\ kv'.iTransLevel = l /\ AtBegin(kv') = AtBegin(kv)
              /\ Seen(kv', kv'.iTransLevel) = Seen(kv, kv.iTransLevel)
              => Contract!Next
         /\ \A l \in Level :
              /\ l < kv.iTransLevel /\ kv'.iTransLevel = l
              /\ AtBegin(kv') = [m \in WriteLevel |-> IF m <= l THEN AtBegin(kv)[m]
                                                      ELSE Seen(kv, kv.iTransLevel)]
              /\ Seen(kv', kv'.iTransLevel) = Seen(kv, kv.iTransLevel)
              => Contract!Next
         /\ \A k \in Key, v \in Val \cup {NoVal} :
              /\ kv.iTransLevel >= 2 /\ kv'.iTransLevel = kv.iTransLevel
              /\ Seen(kv', kv'.iTransLevel) = [Seen(kv, kv.iTransLevel) EXCEPT ![k] = v]
              /\ AtBegin(kv') = [m \in WriteLevel |-> IF m <= kv.iTransLevel
                                                      THEN AtBegin(kv)[m]
                                                      ELSE Seen(kv', kv'.iTransLevel)]
              => Contract!Next
         /\ /\ kv'.iTransLevel = kv.iTransLevel /\ AtBegin(kv') = AtBegin(kv)
            /\ Seen(kv', kv'.iTransLevel) = Seen(kv, kv.iTransLevel)
            => UNCHANGED Contract!vars
<1>1. Visible = Seen(kv, kv.iTransLevel) /\ BeginMap = AtBegin(kv)
  BY MapNow DEF Mapped
<1>2. Visible' = Seen(kv', kv'.iTransLevel) /\ BeginMap' = AtBegin(kv')
  BY MapNext DEF Mapped
<1>3. ASSUME NEW l \in Level, l = kv.iTransLevel + 1 \/ (kv.iTransLevel = 0 /\ l = 2),
             kv'.iTransLevel = l, BeginMap' = BeginMap, Visible' = Visible
      PROVE  Contract!Next
  <2>1. Contract!Begin(l)
    BY <1>3 DEF Contract!Begin, Contract!Levels, Level, BeginMap
  <2>. QED BY <2>1 DEF Contract!Next, Contract!Levels, Level
<1>4. ASSUME NEW l \in Level, l < kv.iTransLevel, kv'.iTransLevel = l, Visible' = Visible,
             BeginMap' = [m \in WriteLevel |-> IF m <= l THEN BeginMap[m] ELSE Visible]
      PROVE  Contract!Next
  <2>1. Contract!CommitPhaseTwo(l)
    BY <1>4 DEF Contract!CommitPhaseTwo, Contract!Levels, Contract!WriteLevels, Level,
                WriteLevel, BeginMap
  <2>. QED BY <2>1 DEF Contract!Next, Contract!Levels, Level
<1>5. ASSUME NEW k \in Key, NEW v \in Val \cup {NoVal},
             kv.iTransLevel >= 2, kv'.iTransLevel = kv.iTransLevel,
             Visible' = [Visible EXCEPT ![k] = v],
             BeginMap' = [m \in WriteLevel |-> IF m <= kv.iTransLevel THEN BeginMap[m]
                                               ELSE Visible']
      PROVE  Contract!Next
  <2>1. Contract!Write(k, v)
    BY <1>5 DEF Contract!Write, Contract!WriteLevels, WriteLevel, BeginMap
  <2>. QED BY <2>1 DEF Contract!Next
<1>6. ASSUME kv'.iTransLevel = kv.iTransLevel, Visible' = Visible, BeginMap' = BeginMap
      PROVE  UNCHANGED Contract!vars
  BY <1>6 DEF Contract!vars, BeginMap
<1>. HIDE DEF BeginMap, Visible
<1>. QED BY <1>1, <1>2, <1>3, <1>4, <1>5, <1>6

LEMMA BackSteps ==
  ASSUME Mapped(kv), Mapped(kv'), NEW l \in Level, l <= kv.iTransLevel,
         RollsBack(kv, kv', l)
  PROVE  Contract!Next
<1>. DEFINE n == kv'.iTransLevel
            new == [m \in WriteLevel |-> IF m <= l - 1 THEN AtBegin(kv)[m] ELSE Visible']
<1>1. Visible = Seen(kv, kv.iTransLevel) /\ BeginMap = AtBegin(kv)
  BY MapNow DEF Mapped
<1>2. Visible' = Seen(kv', kv'.iTransLevel) /\ BeginMap' = AtBegin(kv')
  BY MapNext DEF Mapped
<1>3. /\ AtBegin(kv') = [m \in WriteLevel |-> IF m <= l - 1 THEN AtBegin(kv)[m]
                                              ELSE Seen(kv, l - 1)]
      /\ Seen(kv', kv'.iTransLevel) = Seen(kv, l - 1)
      /\ Seen(kv, l - 1) = AtBegin(kv)[IF l < 2 THEN 2 ELSE l]
  BY BackMaps DEF Mapped
<1>4. /\ l \in Int /\ l >= 0 /\ l <= MaxLevel /\ MaxLevel \in Int /\ MaxLevel >= 2
      /\ kv.iTransLevel \in Int
      /\ n = l \/ (n = l - 1 /\ l >= 2)
  <2>1. l \in Int /\ l >= 0 /\ l <= MaxLevel /\ MaxLevel \in Int /\ MaxLevel >= 2
    BY LevelIs
  <2>2. kv.iTransLevel \in Int
    BY NestedIs DEF Mapped
  <2>. QED BY <2>1, <2>2 DEF RollsBack
<1>5. BeginMap' = [m \in WriteLevel |-> IF m <= l - 1 THEN BeginMap[m] ELSE Visible']
      /\ Visible' = BeginMap[IF l < 2 THEN 2 ELSE l]
  <2>. HIDE DEF BeginMap, Visible
  <2>. QED BY <1>1, <1>2, <1>3
<1>6. CASE n = l /\ l = 0
  <2>1. \A m \in WriteLevel : ~(m <= 0) /\ ~(m <= 0 - 1)
    BY WriteLevelIs
  <2>2. BeginMap' = [m \in WriteLevel |-> IF m <= 0 THEN BeginMap[m] ELSE Visible']
        /\ Visible' = BeginMap[2]
    <3>. HIDE DEF BeginMap, Visible
    <3>. QED BY <1>5, <1>6, <2>1
  <2>3. Contract!Restored(0) = BeginMap[2]
    BY <1>4 DEF Contract!Restored, BeginMap
  <2>4. Contract!Rollback(0)
    BY <1>4, <1>6, <2>2, <2>3 DEF Contract!Rollback, Contract!Levels, Contract!WriteLevels,
                                  WriteLevel, BeginMap
  <2>. QED BY <1>4, <2>4 DEF Contract!Next, Contract!Levels
<1>7. CASE n = l /\ l # 0
  <2>1. Contract!Restored(l - 1) = BeginMap[IF l < 2 THEN 2 ELSE l]
    <3>1. CASE l = 1
      BY <1>4, <3>1 DEF Contract!Restored, BeginMap
    <3>2. CASE l # 1
      <4>1. ~(l - 1 >= MaxLevel) /\ l - 1 # 0 /\ (l - 1) + 1 = l /\ ~(l < 2)
        BY <1>4, <1>7, <3>2
      <4>. QED BY <4>1 DEF Contract!Restored, BeginMap
    <3>. QED BY <3>1, <3>2
  <2>2. Contract!Revert(l)
    BY <1>4, <1>5, <1>7, <2>1 DEF Contract!Revert, Contract!Levels, Contract!WriteLevels,
                                  WriteLevel, BeginMap
  <2>. QED BY <1>4, <1>7, <2>2 DEF Contract!Next, Contract!Levels
<1>8. CASE n = l - 1 /\ l >= 2
  <2>1. Contract!Restored(l - 1) = BeginMap[IF l < 2 THEN 2 ELSE l]
    <3>1. ~(l - 1 >= MaxLevel) /\ l - 1 # 0 /\ (l - 1) + 1 = l /\ ~(l < 2)
      BY <1>4, <1>8
    <3>. QED BY <3>1 DEF Contract!Restored, BeginMap
  <2>2. l - 1 \in Contract!Levels /\ l - 1 <= kv.iTransLevel
    BY <1>4, <1>8 DEF Contract!Levels
  <2>3. Contract!Rollback(l - 1)
    BY <1>5, <1>8, <2>1, <2>2 DEF Contract!Rollback, Contract!WriteLevels, WriteLevel, BeginMap
  <2>. QED BY <2>2, <2>3 DEF Contract!Next
<1>. QED BY <1>4, <1>6, <1>7, <1>8
LEMMA BInvIs ==
  ASSUME BInv
  PROVE  /\ Nested(kv) /\ Mapped(kv) /\ kv \in State
         /\ kv.iTransLevel \in Int /\ kv.iTransLevel >= 0 /\ kv.iTransLevel \in Level
         /\ Served(kv, cursor, kv.iTransLevel) /\ committing \in Level
         /\ ~Between => Unprepared(kv)
         /\ ~Unprepared(kv) => committing = 1 /\ Between /\ kv.iTransLevel = 2
         /\ Between => kv.iTransLevel = committing + 1
<1>1. kv.iTransLevel \in Int /\ kv.iTransLevel <= MaxLevel
  BY NestedIs DEF BInv
<1>2. kv.iTransLevel >= 0
  BY DEF BInv, PhasesInOrder
<1>3. kv.iTransLevel \in Level
  BY <1>1, <1>2, LevelIs
<1>4. kv \in State
  BY DEF BInv, Nested
<1>. QED BY <1>1, <1>2, <1>3, <1>4 DEF BInv, PhasesInOrder, Mapped

LEMMA StoreFine ==
  ASSUME BInv, cursor' = cursor, Nested(kv'), NEW b \in Int, b <= kv'.iTransLevel,
         Served(kv', cursor, b), Kept(kv, kv'),
         kv'.iTransLevel >= 0, committing' \in Level,
         committing' # MaxLevel => kv'.iTransLevel = committing' + 1,
         ~Unprepared(kv') => committing' = 1 /\ committing' # MaxLevel,
         [Contract!Next]_(Contract!vars)
  PROVE  Fine
<1>1. Served(kv', cursor, kv'.iTransLevel)
  <2>1. kv'.iTransLevel \in Int
    BY NestedIs
  <2>. QED BY <2>1, ServedMore
<1>2. PhasesInOrder'
  BY DEF PhasesInOrder, Between
<1>3. BuffersHoldTheRow'
  <2>1. \A c \in Csr : cursor[c].open => Pos(kv', cursor[c].csr) = Pos(kv, cursor[c].csr)
    BY DEF Kept, Pos
  <2>2. \A c \in Csr : cursor[c].open /\ cursor[c].cached # NULL =>
          cursor[c].cached[1] = Pos(kv, cursor[c].csr)
    BY DEF BInv, BuffersHoldTheRow, Open
  <2>. QED BY <2>1, <2>2 DEF BuffersHoldTheRow, Open, Pos
<1>4. cursor' \in [Csr -> Object] /\ Served(kv', cursor', kv'.iTransLevel)
  BY <1>1 DEF BInv
<1>5. BInv'
  BY <1>2, <1>3, <1>4 DEF BInv
<1>. QED BY <1>5 DEF Fine

\* A method that fails, or finds nothing to do, changes the return code.
LEMMA CodeFine ==
  ASSUME BInv, cursor' = cursor, committing' = committing,
         NEW rc \in Code, kv' = [kv EXCEPT !.rc = rc]
  PROVE  Fine
<1>1. kv' \in State /\ SameLevels(kv, kv') /\ kv'.pCsr = kv.pCsr /\ kv'.dbc = kv.dbc
  <2>1. kv' = Recoded(kv, rc)
    BY DEF Recoded
  <2>2. kv \in State
    BY BInvIs
  <2>. QED BY <2>1, <2>2, RecodedIs
<1>2. /\ Nested(kv') /\ (Unprepared(kv) <=> Unprepared(kv'))
      /\ \A i : Seen(kv', i) = Seen(kv, i)
  BY <1>1, BInvIs, SameIsNested
<1>3. kv'.iTransLevel = kv.iTransLevel /\ kv'.pTxn = kv.pTxn
  BY <1>1 DEF SameLevels
<1>4. Served(kv', cursor, kv.iTransLevel) /\ Kept(kv, kv')
  BY <1>1, <1>3, BInvIs, SameIsServed
<1>5. Mapped(kv) /\ Mapped(kv')
  BY <1>2, <1>3, BInvIs DEF Mapped
<1>6. UNCHANGED Contract!vars
  <2>1. AtBegin(kv') = AtBegin(kv)
    BY <1>2, <1>3 DEF AtBegin
  <2>. QED BY <1>2, <1>3, <1>5, <2>1, MappedSteps
<1>. QED BY <1>2, <1>3, <1>4, <1>6, BInvIs, StoreFine DEF Between

LEMMA BeginFine ==
  ASSUME Benign, BInv, cursor' = cursor, NEW l \in Level, Begin(l)
  PROVE  Fine
<1>. DEFINE L == kv.iTransLevel
<1>1. /\ ~Between /\ kv' \in kvbdbBegin(kv, l) /\ committing' = committing
      /\ l = L + 1 \/ (L = 0 /\ l = 2)
  BY DEF Begin, Benign, Now
<1>2. l \in Int /\ l > L
  BY <1>1, BInvIs, LevelIs
<1>3. /\ Nested(kv') /\ Served(kv', cursor, L) /\ Kept(kv, kv')
      /\ \/ kv'.rc = "OK" /\ Raised(kv, kv', l)
         \/ /\ kv'.rc = "ERROR" /\ l >= 2 /\ kv'.iTransLevel = L
            /\ kv'.stored = kv.stored /\ (Unprepared(kv) => Unprepared(kv'))
            /\ \A i \in Level : Seen(kv', i) = Seen(kv, i)
  BY <1>1, BInvIs, BeginIs
<1>4. kv'.iTransLevel \in Int /\ kv'.iTransLevel >= L /\ kv'.iTransLevel >= 0
  BY <1>2, <1>3, BInvIs DEF Raised
<1>5. Unprepared(kv')
  BY <1>1, <1>3, BInvIs DEF Raised
<1>6. Mapped(kv) /\ Mapped(kv')
  BY <1>3, <1>4, BInvIs DEF Mapped
<1>7. [Contract!Next]_(Contract!vars)
  <2>1. CASE Raised(kv, kv', l)
    <3>1. AtBegin(kv') = AtBegin(kv) /\ Seen(kv', kv'.iTransLevel) = Seen(kv, L)
      BY <1>1, <2>1, BInvIs, RaisedMaps
    <3>2. kv'.iTransLevel = l
      BY <2>1 DEF Raised
    <3>. QED BY <1>1, <1>6, <3>1, <3>2, MappedSteps
  <2>2. CASE kv'.iTransLevel = L /\ \A i \in Level : Seen(kv', i) = Seen(kv, i)
    <3>1. Seen(kv', kv'.iTransLevel) = Seen(kv, L)
      BY <2>2, BInvIs
    <3>2. AtBegin(kv') = AtBegin(kv)
      BY <2>2, <3>1, WriteLevelIs DEF AtBegin
    <3>. QED BY <1>6, <2>2, <3>1, <3>2, MappedSteps
  <2>. QED BY <1>3, <2>1, <2>2
<1>. QED BY <1>1, <1>3, <1>4, <1>5, <1>7, BInvIs, StoreFine DEF Between

\* What a commit of both phases, or the second phase, does.
LEMMA CommitFine ==
  ASSUME BInv, cursor' = cursor, NEW l \in Level, l < kv.iTransLevel,
         Nested(kv'), Served(kv', cursor, l), Kept(kv, kv'), CommitsTo(kv, kv', l),
         Unprepared(kv) \/ l <= 1, committing' = MaxLevel
  PROVE  Fine
<1>1. kv'.iTransLevel = l /\ l \in Int /\ l >= 0 /\ MaxLevel \in Level
  BY LevelIs DEF CommitsTo
<1>2. Mapped(kv) /\ Mapped(kv')
  BY <1>1, BInvIs DEF Mapped
<1>3. Unprepared(kv')
  BY DEF CommitsTo
<1>4. /\ AtBegin(kv') = [m \in WriteLevel |-> IF m <= l THEN AtBegin(kv)[m]
                                              ELSE Seen(kv, kv.iTransLevel)]
      /\ Seen(kv', kv'.iTransLevel) = Seen(kv, kv.iTransLevel)
  BY BInvIs, CommitMaps
<1>5. Contract!Next
  BY <1>1, <1>2, <1>4, MappedSteps
<1>. QED BY <1>1, <1>3, <1>5, StoreFine

\* The cursors that a client leaves open.
LEMMA ClosedIs ==
  ASSUME Benign, BInv, NEW l \in Level
  PROVE  /\ ClosedFrom(CommitEnds(l)) => \A c \in Csr : cursor[c].open => cursor[c].level <= l
         /\ ClosedFrom(RollbackEnds(l)) =>
              \A c \in Csr : cursor[c].open => cursor[c].level <= Left(l)
<1>1. \A c \in Csr : cursor[c].open => cursor[c].level \in 1..kv.iTransLevel
  BY BInvIs DEF Served
<1>2. \A c \in Csr : cursor[c].open => cursor[c].level \in Int /\ cursor[c].level >= 1
  BY <1>1, BInvIs
<1>3. l \in Int /\ l >= 0
  BY LevelIs
<1>4. ASSUME NEW n, ClosedFrom(n)
      PROVE  \A c \in Csr : cursor[c].open => cursor[c].level < n
  BY <1>4 DEF ClosedFrom, Benign, Open
<1>5. ASSUME ClosedFrom(CommitEnds(l)), NEW c \in Csr, cursor[c].open
      PROVE  cursor[c].level <= l
  <2>1. cursor[c].level < CommitEnds(l)
    BY <1>4, <1>5
  <2>. QED BY <1>2, <1>3, <1>5, <2>1 DEF CommitEnds
<1>6. ASSUME ClosedFrom(RollbackEnds(l)), NEW c \in Csr, cursor[c].open
      PROVE  cursor[c].level <= Left(l)
  <2>1. cursor[c].level < RollbackEnds(l)
    BY <1>4, <1>6
  <2>. QED BY <1>2, <1>3, <1>6, <2>1 DEF RollbackEnds, Left
<1>. QED BY <1>5, <1>6

LEMMA PhaseOneFine ==
  ASSUME Benign, BInv, cursor' = cursor, NEW l \in Level, PhaseOne(l)
  PROVE  Fine
<1>. DEFINE L == kv.iTransLevel
<1>1. /\ ~Between /\ l < L /\ (l > 0 \/ L < 2) /\ l + 1 = L
      /\ kv' \in kvbdbCommitPhaseOne(kv, l)
      /\ committing' = IF kv'.rc = "OK" THEN l ELSE MaxLevel
  BY DEF PhaseOne, MayCommitTo, Benign
<1>2. committing' \in Level /\ (committing' # MaxLevel => L = committing' + 1)
  BY <1>1, LevelIs
<1>3. Unprepared(kv)
  BY <1>1, BInvIs
<1>4. ASSUME NEW rc \in Code, kv' = [kv EXCEPT !.rc = rc]
      PROVE  Fine
  <2>1. kv' \in State /\ SameLevels(kv, kv') /\ kv'.pCsr = kv.pCsr /\ kv'.dbc = kv.dbc
    <3>1. kv' = Recoded(kv, rc)
      BY <1>4 DEF Recoded
    <3>2. kv \in State
      BY BInvIs
    <3>. QED BY <3>1, <3>2, RecodedIs
  <2>2. Nested(kv') /\ Unprepared(kv') /\ \A i : Seen(kv', i) = Seen(kv, i)
    BY <1>3, <2>1, BInvIs, SameIsNested
  <2>3. kv'.iTransLevel = L /\ kv'.pTxn = kv.pTxn
    BY <2>1 DEF SameLevels
  <2>4. Served(kv', cursor, L) /\ Kept(kv, kv')
    BY <2>1, <2>3, BInvIs, SameIsServed
  <2>5. UNCHANGED Contract!vars
    <3>1. Mapped(kv) /\ Mapped(kv')
      BY <2>2, <2>3, BInvIs DEF Mapped
    <3>2. AtBegin(kv') = AtBegin(kv)
      BY <2>2, <2>3 DEF AtBegin
    <3>. QED BY <2>2, <2>3, <3>1, <3>2, MappedSteps
  <2>. QED BY <1>2, <2>2, <2>3, <2>4, <2>5, BInvIs, StoreFine
<1>5. ASSUME l = 1, L >= 2, Prepares(kv, kv')
      PROVE  Fine
  <2>1. L = 2 /\ 1 # MaxLevel /\ L <= MaxLevel /\ 2 \in Level
    BY <1>1, <1>5, LevelIs
  <2>2. /\ Nested(kv') /\ Served(kv', cursor, L) /\ Kept(kv, kv')
        /\ kv'.stored = kv.stored /\ \A i \in Level : i <= 2 => Seen(kv', i) = Seen(kv, i)
    BY <1>5, <2>1, BInvIs, PreparedIs
  <2>3. kv'.iTransLevel = 2 /\ kv'.rc = "OK"
    BY <1>5, <2>1 DEF Prepares
  <2>4. committing' = 1
    BY <1>1, <1>5, <2>3
  <2>5. UNCHANGED Contract!vars
    <3>1. Mapped(kv) /\ Mapped(kv')
      BY <2>2, <2>3, BInvIs DEF Mapped
    <3>2. Seen(kv', 2) = Seen(kv, 2)
      BY <2>1, <2>2
    <3>3. AtBegin(kv') = AtBegin(kv)
      <4>1. \A m \in WriteLevel : ~(m > 2) => m - 1 \in Level /\ m - 1 <= 2
        BY WriteLevelIs
      <4>2. \A m \in WriteLevel : ~(m > 2) => Seen(kv', m - 1) = Seen(kv, m - 1)
        BY <2>2, <4>1
      <4>. QED BY <2>1, <2>3, <3>2, <4>2 DEF AtBegin
    <3>. QED BY <2>1, <2>3, <3>1, <3>2, <3>3, MappedSteps
  <2>. QED BY <1>2, <2>1, <2>2, <2>3, <2>4, <2>5, BInvIs, StoreFine
<1>6. \/ kv' \in {[kv EXCEPT !.rc = "OK"], [kv EXCEPT !.rc = "ERROR"]}
      \/ l = 1 /\ L >= 2 /\ Prepares(kv, kv')
  BY <1>1, BInvIs, PhaseOneIs
<1>. QED BY <1>4, <1>5, <1>6 DEF Code

LEMMA PhaseTwoFine ==
  ASSUME Benign, BInv, cursor' = cursor, NEW l \in Level, ClosedFrom(CommitEnds(l)),
         PhaseTwo(l)
  PROVE  Fine
<1>1. /\ committing = l /\ Between /\ committing' = MaxLevel
      /\ kv' \in kvbdbCommitPhaseTwo(kv, l)
  BY DEF PhaseTwo
<1>2. kv.iTransLevel = l + 1 /\ l \in Int /\ l >= 0
  BY <1>1, BInvIs, LevelIs
<1>3. l < kv.iTransLevel /\ (l > 0 \/ kv.iTransLevel < 2)
  BY <1>2
<1>4. Nested(kv') /\ Served(kv', cursor, l) /\ Kept(kv, kv') /\ CommitsTo(kv, kv', l)
  BY <1>1, <1>3, BInvIs, ClosedIs, PhaseTwoCommits
<1>5. Unprepared(kv) \/ l <= 1
  BY <1>1, BInvIs
<1>. QED BY <1>1, <1>3, <1>4, <1>5, CommitFine

LEMMA CommitStepFine ==
  ASSUME Benign, BInv, cursor' = cursor, NEW l \in Level, ClosedFrom(CommitEnds(l)),
         Commit(l)
  PROVE  Fine
<1>1. /\ ~Between /\ l < kv.iTransLevel /\ (l > 0 \/ kv.iTransLevel < 2)
      /\ committing' = committing
  BY DEF Commit, MayCommitTo, Benign
<1>2. PICK one \in kvbdbCommitPhaseOne(kv, l) :
        IF one.rc = "OK" THEN kv' \in kvbdbCommitPhaseTwo(one, l) ELSE kv' = one
  BY DEF Commit
<1>3. \/ Nested(kv') /\ Served(kv', cursor, l) /\ Kept(kv, kv') /\ CommitsTo(kv, kv', l)
      \/ kv' = [kv EXCEPT !.rc = "ERROR"]
  BY <1>1, <1>2, BInvIs, ClosedIs, CommitIs
<1>4. committing' = MaxLevel
  BY <1>1 DEF Between
<1>. QED BY <1>1, <1>3, <1>4, BInvIs, CommitFine, CodeFine DEF Code

LEMMA BackFine ==
  ASSUME BInv, cursor' = cursor, NEW l \in Level, l <= kv.iTransLevel,
         Nested(kv'), NEW b \in Int, b <= kv'.iTransLevel, Served(kv', cursor, b),
         Kept(kv, kv'), RollsBack(kv, kv', l), committing' = MaxLevel
  PROVE  Fine
<1>1. l \in Int /\ l >= 0 /\ MaxLevel \in Level
  BY LevelIs
<1>2. kv'.iTransLevel \in Int /\ kv'.iTransLevel >= 0
  BY <1>1 DEF RollsBack
<1>3. Unprepared(kv')
  BY BInvIs DEF RollsBack
<1>4. Contract!Next
  BY <1>2, BInvIs, BackSteps DEF Mapped
<1>. QED BY <1>1, <1>2, <1>3, <1>4, StoreFine

LEMMA RollbackFine ==
  ASSUME Benign, BInv, cursor' = cursor, NEW l \in Level, ClosedFrom(RollbackEnds(l)),
         Rollback(l)
  PROVE  Fine
<1>1. l <= kv.iTransLevel /\ kv' \in kvbdbRollback(kv, l) /\ committing' = MaxLevel
  BY DEF Rollback
<1>2. /\ Nested(kv') /\ Served(kv', cursor, Left(l)) /\ Kept(kv, kv')
      /\ RollsBack(kv, kv', l)
  BY <1>1, BInvIs, ClosedIs, RollbackIs
<1>3. Left(l) \in Int /\ Left(l) <= kv'.iTransLevel
  BY <1>2, LevelIs DEF Left, RollsBack
<1>. QED BY <1>1, <1>2, <1>3, BackFine

LEMMA RevertFine ==
  ASSUME Benign, BInv, cursor' = cursor, NEW l \in Level \ {0},
         ClosedFrom(RollbackEnds(l - 1)), Revert(l)
  PROVE  Fine
<1>1. /\ ~Between /\ l <= kv.iTransLevel /\ l <= 2 /\ kv' \in kvbdbRevert(kv, l)
      /\ committing' = committing
  BY DEF Revert, Benign
<1>2. l \in {1, 2} /\ l - 1 \in Level
  BY <1>1, LevelIs
<1>3. /\ Nested(kv') /\ Served(kv', cursor, Left(l - 1)) /\ Kept(kv, kv')
      /\ RollsBack(kv, kv', l)
  BY <1>1, <1>2, BInvIs, ClosedIs, RevertIs
<1>4. Left(l - 1) \in Int /\ Left(l - 1) <= kv'.iTransLevel
  BY <1>2, <1>3 DEF Left, RollsBack
<1>5. committing' = MaxLevel
  BY <1>1 DEF Between
<1>. QED BY <1>1, <1>3, <1>4, <1>5, BackFine

\* A row is changed, and no cursor moves.
LEMMA ChangeFine ==
  ASSUME BInv, cursor' = cursor, committing' = committing, ~Between, kv.iTransLevel >= 2,
         NEW k \in Key, NEW v \in Val \cup {NoVal}, Nested(kv'), Changed(kv, kv', k, v)
  PROVE  Fine
<1>1. /\ kv'.iTransLevel = kv.iTransLevel /\ Unprepared(kv')
      /\ kv'.pTxn = kv.pTxn /\ kv'.pCsr = kv.pCsr /\ kv'.dbc = kv.dbc
      /\ Seen(kv', kv'.iTransLevel) = [Seen(kv, kv.iTransLevel) EXCEPT ![k] = v]
  BY BInvIs DEF Changed
<1>2. Served(kv', cursor, kv.iTransLevel) /\ Kept(kv, kv')
  BY <1>1, BInvIs, SameIsServed
<1>3. Mapped(kv) /\ Mapped(kv')
  BY <1>1, BInvIs DEF Mapped
<1>4. AtBegin(kv') = [m \in WriteLevel |-> IF m <= kv.iTransLevel THEN AtBegin(kv)[m]
                                           ELSE Seen(kv', kv'.iTransLevel)]
  BY <1>1, BInvIs, ChangeMaps
<1>5. Contract!Next
  BY <1>1, <1>3, <1>4, MappedSteps
<1>. QED BY <1>1, <1>2, <1>5, BInvIs, StoreFine DEF Between

LEMMA WriteFine ==
  ASSUME Benign, BInv, cursor' = cursor, NEW k \in Key, NEW v \in Val, Write(k, v)
  PROVE  Fine
<1>. DEFINE L == kv.iTransLevel
            h == kv.pTxn[L]
            o == [kv EXCEPT !.rc = "OK", !.txn[h].view[k] = v]
<1>1. ~Between /\ L >= 2 /\ kv' \in kvbdbReplace(kv, k, v) /\ committing' = committing
  BY DEF Write
<1>2. L \in Deep(kv) /\ h \in Handle /\ h \in Live(kv) /\ Below(kv, h) = {}
  <2>1. L \in Deep(kv)
    BY <1>1, BInvIs DEF Deep
  <2>2. Below(kv, h) = {}
    BY <2>1, BInvIs, NoneBelowIs
  <2>. QED BY <2>1, <2>2, BInvIs DEF Nested, Live
<1>3. kvbdbReplace(kv, k, v) = {IF rc = "OK" THEN [kv EXCEPT !.rc = rc, !.txn[h].view[k] = v]
                                ELSE [kv EXCEPT !.rc = rc] : rc \in Outcomes("put")}
  <2>1. ~(L < 2 \/ h = NULL) /\ ~(h \notin Live(kv)) /\ ~(Below(kv, h) # {})
    BY <1>1, <1>2, BInvIs
  <2>2. kvbdbReplace(kv, k, v) =
          IF L < 2 \/ h = NULL THEN {[kv EXCEPT !.rc = "INTERNAL"]}
          ELSE IF h \notin Live(kv) THEN {[kv EXCEPT !.stale = TRUE]}
          ELSE IF Below(kv, h) # {} THEN {[kv EXCEPT !.rc = "MISUSE"]}
          ELSE {IF rc = "OK" THEN [kv EXCEPT !.rc = rc, !.txn[h].view[k] = v]
                ELSE [kv EXCEPT !.rc = rc] : rc \in Outcomes("put")}
    BY DEF kvbdbReplace
  <2>. HIDE DEF L, h
  <2>. QED BY <2>1, <2>2
<1>4. kv' = o \/ kv' = [kv EXCEPT !.rc = "ERROR"]
  BY <1>1, <1>3 DEF Outcomes
<1>5. Nested(o) /\ Changed(kv, o, k, v)
  BY <1>1, BInvIs, ChangeIs
<1>. HIDE DEF o
<1>6. CASE kv' = o
  BY <1>1, <1>5, <1>6, ChangeFine
<1>7. CASE kv' = [kv EXCEPT !.rc = "ERROR"]
  BY <1>1, <1>7, CodeFine DEF Code
<1>. QED BY <1>4, <1>6, <1>7
-----------------------------------------------------------------------------
(* The steps of the cursors.                                               *)

\* A step keeps the promises, the invariant and the places of the cursors.
Placed ==
    \A c \in Open :
        cursor'[c].open /\ Pos(kv', cursor[c].csr) # Pos(kv, cursor[c].csr) =>
            \/ \E k \in Key, dir \in {"EQ", "LE", "GE"} : Seek(c, k, dir)
            \/ \E forward \in BOOLEAN : Step(c, forward)

Sound == BInv' /\ Placed /\ [Contract!Next]_(Contract!vars)

LEMMA FineIsSound ==
  ASSUME Fine
  PROVE  Sound
BY DEF Fine, Sound, Placed, Kept, Pos, Open

\* A step that does not touch what Contract sees.
LEMMA AsideIs ==
  ASSUME BInv, kv' \in State, SameLevels(kv, kv'), committing' = committing,
         cursor' \in [Csr -> Object], Served(kv', cursor', kv.iTransLevel),
         \A e \in Csr : cursor'[e].open /\ cursor'[e].cached # NULL =>
            cursor'[e].cached[1] = Pos(kv', cursor'[e].csr)
  PROVE  BInv' /\ [Contract!Next]_(Contract!vars)
<1>1. /\ Nested(kv') /\ (Unprepared(kv) <=> Unprepared(kv'))
      /\ \A i : Seen(kv', i) = Seen(kv, i)
  BY BInvIs, SameIsNested
<1>2. kv'.iTransLevel = kv.iTransLevel
  BY DEF SameLevels
<1>3. Mapped(kv) /\ Mapped(kv')
  BY <1>1, <1>2, BInvIs DEF Mapped
<1>4. AtBegin(kv') = AtBegin(kv)
  BY <1>1, <1>2 DEF AtBegin
<1>5. UNCHANGED Contract!vars
  BY <1>1, <1>2, <1>3, <1>4, MappedSteps
<1>6. PhasesInOrder'
  BY <1>1, <1>2, BInvIs DEF PhasesInOrder, Between
<1>7. BuffersHoldTheRow'
  BY DEF BuffersHoldTheRow, Open, Pos
<1>8. BInv'
  BY <1>1, <1>2, <1>6, <1>7 DEF BInv
<1>. QED BY <1>5, <1>8

\* The cursor c of a client becomes x, and its cursor of the library may move.
LEMMA MovedIs ==
  ASSUME BInv, NEW c \in Open, Moves(kv, kv', cursor[c].csr), committing' = committing,
         NEW x \in Object, x.open, x.level = cursor[c].level, x.csr = cursor[c].csr,
         x.cached # NULL => x.cached[1] = Pos(kv', x.csr),
         cursor' = [cursor EXCEPT ![c] = x]
  PROVE  /\ BInv' /\ [Contract!Next]_(Contract!vars)
         /\ \A e \in Open : e # c => Pos(kv', cursor[e].csr) = Pos(kv, cursor[e].csr)
<1>. DEFINE L == kv.iTransLevel
<1>1. /\ cursor \in [Csr -> Object] /\ c \in Csr /\ cursor[c].open
      /\ Served(kv, cursor, L)
  BY BInvIs DEF BInv, Open
<1>2. /\ cursor' \in [Csr -> Object] /\ cursor'[c] = x
      /\ \A e \in Csr : e # c => cursor'[e] = cursor[e]
  BY <1>1
<1>3. \A e \in Csr : /\ cursor'[e].open = cursor[e].open /\ cursor'[e].csr = cursor[e].csr
                     /\ cursor'[e].level = cursor[e].level
  BY <1>1, <1>2
<1>4. kv' \in State /\ SameLevels(kv, kv') /\ kv'.pCsr = kv.pCsr /\ kv'.pTxn = kv.pTxn
  BY DEF Moves, SameLevels
<1>5. \A d \in Dbc : kv'.dbc[d].open = kv.dbc[d].open /\ kv'.dbc[d].txn = kv.dbc[d].txn
  BY DEF Moves
<1>6. Served(kv', cursor', L)
  <2>1. kv.pCsr \in Dbc \cup {NULL}
    BY BInvIs DEF State
  <2>2. kv'.pCsr # NULL => kv'.dbc[kv'.pCsr].open /\ kv'.dbc[kv'.pCsr].txn = NULL
    BY <1>1, <1>4, <1>5, <2>1 DEF Served
  <2>3. \A d \in Dbc : kv'.dbc[d].open =>
          d = kv'.pCsr \/ \E e \in Csr : cursor'[e].open /\ cursor'[e].csr = d
    BY <1>1, <1>3, <1>4, <1>5 DEF Served
  <2>4. ASSUME NEW e \in Csr, cursor'[e].open
        PROVE  /\ cursor'[e].csr \in Dbc /\ kv'.dbc[cursor'[e].csr].open
               /\ cursor'[e].level \in 1..L
               /\ IF cursor'[e].level = 1 THEN cursor'[e].csr = kv'.pCsr
                  ELSE kv'.dbc[cursor'[e].csr].txn = kv'.pTxn[cursor'[e].level]
               /\ \A f \in Csr : cursor'[f].open /\ cursor'[f].csr = cursor'[e].csr => f = e
    <3>1. cursor[e].open /\ cursor[e].csr \in Dbc
      BY <1>1, <1>3, <2>4 DEF Served
    <3>. QED BY <1>1, <1>3, <1>4, <1>5, <3>1 DEF Served
  <2>. QED BY <2>2, <2>3, <2>4 DEF Served
<1>7. \A e \in Open : e # c => Pos(kv', cursor[e].csr) = Pos(kv, cursor[e].csr)
  <2>. SUFFICES ASSUME NEW e \in Open, e # c
                PROVE  Pos(kv', cursor[e].csr) = Pos(kv, cursor[e].csr)
    OBVIOUS
  <2>1. cursor[e].csr \in Dbc /\ cursor[e].csr # cursor[c].csr
    BY <1>1 DEF Served, Open
  <2>. QED BY <2>1 DEF Moves, Pos
<1>8. \A e \in Csr : cursor'[e].open /\ cursor'[e].cached # NULL =>
        cursor'[e].cached[1] = Pos(kv', cursor'[e].csr)
  <2>. SUFFICES ASSUME NEW e \in Csr, cursor'[e].open, cursor'[e].cached # NULL
                PROVE  cursor'[e].cached[1] = Pos(kv', cursor'[e].csr)
    OBVIOUS
  <2>1. CASE e = c
    BY <1>2, <2>1
  <2>2. CASE e # c
    <3>1. e \in Open /\ cursor'[e] = cursor[e]
      BY <1>2, <2>2 DEF Open
    <3>2. cursor[e].cached[1] = Pos(kv, cursor[e].csr)
      BY <3>1 DEF BInv, BuffersHoldTheRow
    <3>. QED BY <1>7, <2>2, <3>1, <3>2
  <2>. QED BY <2>1, <2>2
<1>. QED BY <1>2, <1>4, <1>6, <1>7, <1>8, AsideIs

LEMMA SeekSound ==
  ASSUME Benign, BInv, NEW c \in Csr, NEW k \in Key, NEW dir \in {"EQ", "LE", "GE"},
         Seek(c, k, dir)
  PROVE  Sound
<1>. DEFINE r == SeekResult(c, k, dir)
            go == IF r.s.rc \in {"OK", "INEXACT"} THEN dir ELSE "NONE"
            x == [cursor[c] EXCEPT !.eof = r.eof, !.cached = NULL, !.dir = go]
<1>1. /\ c \in Open /\ kv' = r.s /\ cursor' = [cursor EXCEPT ![c] = x]
      /\ committing' = committing
  BY DEF Seek
<1>2. Moves(kv, r.s, cursor[c].csr) /\ r.eof \in BOOLEAN
  BY <1>1, BInvIs, SeekIs
<1>3. cursor[c] \in Object /\ cursor[c].open
  BY <1>1 DEF BInv, Open
<1>4. /\ x \in Object /\ x.open /\ x.level = cursor[c].level /\ x.csr = cursor[c].csr
      /\ x.cached = NULL
  <2>1. go \in {"NONE", "EQ", "LE", "GE"}
    OBVIOUS
  <2>. HIDE DEF r, go
  <2>. QED BY <1>2, <1>3, <2>1 DEF Object
<1>. HIDE DEF r, x
<1>5. /\ BInv' /\ [Contract!Next]_(Contract!vars)
      /\ \A e \in Open : e # c => Pos(kv', cursor[e].csr) = Pos(kv, cursor[e].csr)
  BY <1>1, <1>2, <1>4, MovedIs
<1>6. Placed
  BY <1>5 DEF Placed
<1>. QED BY <1>5, <1>6 DEF Sound

LEMMA StepSound ==
  ASSUME Benign, BInv, NEW c \in Csr, NEW forward \in BOOLEAN, Step(c, forward)
  PROVE  Sound
<1>. DEFINE d == cursor[c].csr
            found == IF forward THEN After(kv, d) ELSE Before(kv, d)
            m == IF forward THEN Least(found) ELSE Greatest(found)
            r == IF cursor[c].dir \notin {"EQ", IF forward THEN "GE" ELSE "LE"}
                 THEN Result(kv, "MISMATCH", cursor[c].eof)
                 ELSE IF cursor[c].eof THEN Result(kv, "MISUSE", TRUE)
                 ELSE IF ~kv.dbc[d].open
                 THEN Result([kv EXCEPT !.stale = TRUE], "MISUSE", TRUE)
                 ELSE IF Refused(kv, d) THEN Result(kv, "MISUSE", TRUE)
                 ELSE IF found = {} THEN Result(kv, "NOTFOUND", TRUE)
                 ELSE Result(MoveTo(kv, d, m), "OK", FALSE)
            x == [cursor[c] EXCEPT !.eof = r.eof, !.cached = NULL]
<1>1. /\ c \in Open /\ kv' = r.s /\ cursor' = [cursor EXCEPT ![c] = x]
      /\ committing' = committing
  BY DEF Step
<1>2. cursor[c] \in Object /\ cursor[c].open /\ cursor[c].eof \in BOOLEAN
  BY <1>1 DEF BInv, Open, Object
<1>3. d \in Dbc /\ kv.dbc[d].open /\ kv \in State
  BY <1>2, BInvIs DEF Served
<1>4. found \subseteq Key /\ found \in SUBSET Key
  BY DEF After, Before, Rows
<1>. HIDE DEF d, found
<1>5. found # {} => m \in Key
  BY <1>4, LeastIs, GreatestIs
<1>. HIDE DEF m
<1>6. \/ \E rc \in Code, e \in BOOLEAN : r = Result(kv, rc, e)
      \/ found # {} /\ r = Result(MoveTo(kv, d, m), "OK", FALSE)
  <2>1. {"MISMATCH", "MISUSE", "NOTFOUND"} \subseteq Code /\ TRUE \in BOOLEAN
    BY DEF Code
  <2>. QED BY <1>2, <1>3, <2>1
<1>. HIDE DEF r
<1>7. Moves(kv, r.s, d) /\ r.eof \in BOOLEAN
  <2>1. ASSUME NEW rc \in Code, NEW e \in BOOLEAN, r = Result(kv, rc, e)
        PROVE  Moves(kv, r.s, d) /\ r.eof \in BOOLEAN
    BY <1>3, <2>1, StayIs
  <2>2. ASSUME found # {}, r = Result(MoveTo(kv, d, m), "OK", FALSE)
        PROVE  Moves(kv, r.s, d) /\ r.eof \in BOOLEAN
    <3>1. r.s = [MoveTo(kv, d, m) EXCEPT !.rc = "OK"] /\ r.eof \in BOOLEAN
      BY <2>2 DEF Result
    <3>2. "OK" \in Code
      BY DEF Code
    <3>3. m \in Key
      BY <1>5, <2>2
    <3>. QED BY <1>3, <3>1, <3>2, <3>3, MoveIs
  <2>. QED BY <1>6, <2>1, <2>2
<1>8. /\ x \in Object /\ x.open /\ x.level = cursor[c].level /\ x.csr = cursor[c].csr
      /\ x.cached = NULL
  BY <1>2, <1>7 DEF Object
<1>. HIDE DEF x
<1>9. /\ BInv' /\ [Contract!Next]_(Contract!vars)
      /\ \A e \in Open : e # c => Pos(kv', cursor[e].csr) = Pos(kv, cursor[e].csr)
  BY <1>1, <1>7, <1>8, MovedIs DEF d
<1>10. Placed
  BY <1>9 DEF Placed
<1>. QED BY <1>9, <1>10 DEF Sound

\* The library's cursor stays.
LEMMA StayedSound ==
  ASSUME BInv, NEW c \in Open, committing' = committing,
         kv' = kv \/ \E rc \in Code : kv' = [kv EXCEPT !.rc = rc],
         NEW x \in Object, x.open, x.level = cursor[c].level, x.csr = cursor[c].csr,
         x.cached # NULL => x.cached[1] = Pos(kv, x.csr),
         cursor' = [cursor EXCEPT ![c] = x]
  PROVE  Sound
<1>1. kv' \in State /\ SameLevels(kv, kv') /\ kv'.pCsr = kv.pCsr /\ kv'.dbc = kv.dbc
  <2>1. CASE kv' = kv
    BY <2>1, BInvIs DEF SameLevels
  <2>2. CASE \E rc \in Code : kv' = [kv EXCEPT !.rc = rc]
    <3>1. PICK rc \in Code : kv' = Recoded(kv, rc)
      BY <2>2 DEF Recoded
    <3>2. kv \in State
      BY BInvIs
    <3>. QED BY <3>1, <3>2, RecodedIs
  <2>. QED BY <2>1, <2>2
<1>2. Moves(kv, kv', cursor[c].csr) /\ \A d : Pos(kv', d) = Pos(kv, d)
  BY <1>1 DEF Moves, Pos
<1>3. BInv' /\ [Contract!Next]_(Contract!vars)
  BY <1>2, MovedIs
<1>. QED BY <1>2, <1>3 DEF Sound, Placed

LEMMA ReadSound ==
  ASSUME BInv, NEW c \in Csr, Read(c)
  PROVE  Sound
<1>. DEFINE d == cursor[c].csr
            row == <<Pos(kv, d), View(kv, kv.dbc[d].txn)[Pos(kv, d)]>>
            x0 == [cursor[c] EXCEPT !.eof = TRUE]
            x1 == [cursor[c] EXCEPT !.eof = FALSE, !.cached = row]
<1>1. c \in Open /\ committing' = committing /\ cursor[c].cached = NULL
  BY DEF Read
<1>2. cursor \in [Csr -> Object] /\ cursor[c] \in Object /\ cursor[c].open
  BY <1>1 DEF BInv, Open
<1>3. d \in Dbc /\ kv.dbc[d].open /\ kv \in State
  BY <1>2, BInvIs DEF Served
<1>4. {"MISUSE", "NOTFOUND", "ERROR", "OK"} \subseteq Code
  BY DEF Code
<1>5. \/ /\ cursor' = cursor /\ \E rc \in Code : kv' = [kv EXCEPT !.rc = rc]
      \/ /\ cursor' = [cursor EXCEPT ![c] = x0] /\ \E rc \in Code : kv' = [kv EXCEPT !.rc = rc]
      \/ /\ cursor' = [cursor EXCEPT ![c] = x1] /\ \E rc \in Code : kv' = [kv EXCEPT !.rc = rc]
         /\ Pos(kv, d) \in Rows(kv, d)
  <2>1. [cursor EXCEPT ![c].eof = TRUE] = [cursor EXCEPT ![c] = x0]
    BY <1>2
  <2>2. [cursor EXCEPT ![c].eof = FALSE, ![c].cached = row] = [cursor EXCEPT ![c] = x1]
    <3>. HIDE DEF row
    <3>. QED BY <1>2 DEF Object
  <2>3. \/ cursor' = cursor /\ kv' = [kv EXCEPT !.rc = "ERROR"]
        \/ cursor' = [cursor EXCEPT ![c].eof = TRUE] /\ kv' = [kv EXCEPT !.rc = "MISUSE"]
        \/ cursor' = [cursor EXCEPT ![c].eof = TRUE] /\ kv' = [kv EXCEPT !.rc = "NOTFOUND"]
        \/ /\ cursor' = [cursor EXCEPT ![c].eof = FALSE, ![c].cached = row]
           /\ kv' = [kv EXCEPT !.rc = "OK"] /\ Pos(kv, d) \in Rows(kv, d)
    BY <1>3 DEF Read
  <2>. HIDE DEF x0, x1, row, d
  <2>. QED BY <1>4, <2>1, <2>2, <2>3
<1>6. /\ x0 \in Object /\ x0.open /\ x0.level = cursor[c].level /\ x0.csr = d
      /\ x0.cached = NULL
  BY <1>1, <1>2 DEF Object
<1>7. Pos(kv, d) \in Rows(kv, d) =>
        /\ x1 \in Object /\ x1.open /\ x1.level = cursor[c].level /\ x1.csr = d
        /\ x1.cached[1] = Pos(kv, d)
  <2>. SUFFICES ASSUME Pos(kv, d) \in Rows(kv, d)
                PROVE  /\ x1 \in Object /\ x1.open /\ x1.level = cursor[c].level /\ x1.csr = d
                       /\ x1.cached[1] = Pos(kv, d)
    OBVIOUS
  <2>1. kv.dbc[d].txn \in Handle \cup {NULL}
    BY <1>3 DEF State, Cursor
  <2>2. View(kv, kv.dbc[d].txn) \in Content
    BY <1>3, <2>1 DEF State, View, Txn
  <2>3. row \in Key \X Val /\ row[1] = Pos(kv, d)
    BY <2>2 DEF Rows, Content
  <2>. HIDE DEF row, d
  <2>4. /\ x1 \in Object /\ x1.open /\ x1.level = cursor[c].level /\ x1.csr = cursor[c].csr
        /\ x1.cached = row
    BY <1>2, <2>3 DEF Object
  <2>. QED BY <2>3, <2>4 DEF d
<1>. HIDE DEF x0, x1, row
<1>8. CASE cursor' = cursor /\ \E rc \in Code : kv' = [kv EXCEPT !.rc = rc]
  BY <1>1, <1>8, CodeFine, FineIsSound
<1>9. CASE /\ cursor' = [cursor EXCEPT ![c] = x0]
           /\ \E rc \in Code : kv' = [kv EXCEPT !.rc = rc]
  BY <1>1, <1>6, <1>9, StayedSound
<1>10. CASE /\ cursor' = [cursor EXCEPT ![c] = x1] /\ Pos(kv, d) \in Rows(kv, d)
            /\ \E rc \in Code : kv' = [kv EXCEPT !.rc = rc]
  BY <1>1, <1>7, <1>10, StayedSound
<1>. QED BY <1>5, <1>8, <1>9, <1>10

LEMMA ResetSound ==
  ASSUME BInv, NEW c \in Csr, Reset(c)
  PROVE  Sound
<1>. DEFINE x == [cursor[c] EXCEPT !.dir = "NONE", !.eof = FALSE, !.cached = NULL]
<1>1. /\ c \in Open /\ committing' = committing /\ kv' = kv
      /\ cursor' = [cursor EXCEPT ![c] = x]
  BY DEF Reset
<1>2. cursor[c] \in Object /\ cursor[c].open
  BY <1>1 DEF BInv, Open
<1>3. /\ x \in Object /\ x.open /\ x.level = cursor[c].level /\ x.csr = cursor[c].csr
      /\ x.cached = NULL
  BY <1>2 DEF Object
<1>. HIDE DEF x
<1>. QED BY <1>1, <1>3, StayedSound
LEMMA DeleteSound ==
  ASSUME BInv, NEW c \in Csr, Delete(c)
  PROVE  Sound
<1>. DEFINE d == cursor[c].csr
            h == kv.dbc[d].txn
            L == kv.iTransLevel
            k == Pos(kv, d)
            o == [kv EXCEPT !.rc = "OK", !.txn[h].view[k] = NoVal]
<1>1. c \in Open /\ ~Between /\ committing' = committing /\ cursor' = cursor
  BY DEF Delete
<1>2. /\ d \in Dbc /\ kv.dbc[d].open /\ cursor[c].level \in 1..L
      /\ kv.pCsr # NULL => kv.dbc[kv.pCsr].txn = NULL
      /\ IF cursor[c].level = 1 THEN d = kv.pCsr ELSE h = kv.pTxn[cursor[c].level]
  BY <1>1, BInvIs DEF Served, Open
<1>3. \/ \E rc \in Code : kv' = [kv EXCEPT !.rc = rc]
      \/ ~(L < 2) /\ ~Refused(kv, d) /\ h # NULL /\ k \in Rows(kv, d) /\ kv' = o
  <2>1. kv' = IF L < 2 THEN [kv EXCEPT !.rc = "INTERNAL"]
              ELSE IF ~kv.dbc[d].open THEN [kv EXCEPT !.stale = TRUE]
              ELSE IF Refused(kv, d) \/ h = NULL THEN [kv EXCEPT !.rc = "MISUSE"]
              ELSE IF k \notin Rows(kv, d) THEN [kv EXCEPT !.rc = "ERROR"]
              ELSE o
    BY DEF Delete
  <2>2. {"INTERNAL", "MISUSE", "ERROR"} \subseteq Code
    BY DEF Code
  <2>. HIDE DEF o, k, h, d, L
  <2>. QED BY <1>2, <2>1, <2>2 DEF d
<1>4. CASE \E rc \in Code : kv' = [kv EXCEPT !.rc = rc]
  BY <1>1, <1>4, CodeFine, FineIsSound
<1>5. CASE ~(L < 2) /\ ~Refused(kv, d) /\ h # NULL /\ k \in Rows(kv, d) /\ kv' = o
  <2>1. L \in Int /\ L >= 2 /\ k \in Key /\ Below(kv, h) = {}
    <3>1. L \in Int /\ L >= 2
      BY <1>5, BInvIs, SMTT(20)
    <3>2. Rows(kv, d) \subseteq Key
      BY DEF Rows
    <3>3. k \in Key
      BY <1>5, <3>2
    <3>4. Below(kv, h) = {}
      BY <1>5 DEF Refused
    <3>. QED BY <3>1, <3>3, <3>4
  <2>2. cursor[c].level # 1
    BY <1>2, <1>5
  <2>3. cursor[c].level \in Deep(kv) /\ h = kv.pTxn[cursor[c].level]
    BY <1>2, <2>1, <2>2 DEF Deep
  <2>4. h = kv.pTxn[L]
    BY <2>1, <2>3, BInvIs, NoneBelowIs
  <2>5. Nested(o) /\ Changed(kv, o, k, NoVal)
    <3>. HIDE DEF h, k
    <3>. QED BY <2>1, <2>4, BInvIs, ChangeIs
  <2>. HIDE DEF o, k, h
  <2>. QED BY <1>1, <1>5, <2>1, <2>5, ChangeFine, FineIsSound
<1>. QED BY <1>3, <1>4, <1>5

\* Opening and closing of the library's cursor d.
LEMMA OpenedIs ==
  ASSUME NEW s \in State, NEW d \in Dbc, NEW h \in Handle \cup {NULL}
  PROVE  LET o == [LibOpen(s, d, h) EXCEPT !.rc = "OK"]
         IN /\ o \in State /\ SameLevels(s, o) /\ o.rc = "OK" /\ o.pCsr = s.pCsr
            /\ o.dbc[d].open /\ o.dbc[d].txn = h
            /\ \A e \in Dbc : e # d => o.dbc[e] = s.dbc[e]
<1>. DEFINE x == [open |-> TRUE, txn |-> h, pos |-> NULL]
            D == [s.dbc EXCEPT ![d] = x]
            p == [s EXCEPT !.dbc = D]
            o == [p EXCEPT !.rc = "OK"]
<1>1. LibOpen(s, d, h) = p
  BY DEF LibOpen
<1>2. x \in Cursor /\ x.open /\ x.txn = h
  BY DEF Cursor
<1>. HIDE DEF x
<1>3. D \in [Dbc -> Cursor] /\ D[d] = x /\ \A e \in Dbc : e # d => D[e] = s.dbc[e]
  BY <1>2 DEF State
<1>. HIDE DEF D
<1>4. p \in State /\ SameLevels(s, p) /\ p.pCsr = s.pCsr /\ p.dbc = D
  BY <1>3 DEF State, SameLevels
<1>. HIDE DEF p
<1>5. o \in State /\ SameLevels(s, o) /\ o.pCsr = s.pCsr /\ o.dbc = D /\ o.rc = "OK"
  BY <1>4 DEF State, SameLevels
<1>. HIDE DEF o
<1>6. o = [LibOpen(s, d, h) EXCEPT !.rc = "OK"]
  BY <1>1 DEF o
<1>. QED BY <1>2, <1>3, <1>5, <1>6

LEMMA ClosedDbcIs ==
  ASSUME NEW s \in State, NEW d \in Dbc, s.dbc[d].open
  PROVE  LET o == [LibClose(s, d) EXCEPT
                     !.rc = "OK", !.pCsr = IF d = @ THEN NULL ELSE @]
         IN /\ o \in State /\ SameLevels(s, o)
            /\ o.pCsr = (IF d = s.pCsr THEN NULL ELSE s.pCsr)
            /\ ~o.dbc[d].open
            /\ \A e \in Dbc : e # d => o.dbc[e] = s.dbc[e]
<1>. DEFINE D == [s.dbc EXCEPT ![d] = NoDbc]
            p == [s EXCEPT !.dbc = D]
            q == [p EXCEPT !.rc = "OK"]
            n == IF d = s.pCsr THEN NULL ELSE s.pCsr
            o == [q EXCEPT !.pCsr = n]
<1>1. LibClose(s, d) = p
  BY DEF LibClose
<1>2. NoDbc \in Cursor /\ ~NoDbc.open /\ n \in Dbc \cup {NULL}
  BY DEF NoDbc, Cursor, State
<1>3. D \in [Dbc -> Cursor] /\ D[d] = NoDbc /\ \A e \in Dbc : e # d => D[e] = s.dbc[e]
  BY <1>2 DEF State
<1>. HIDE DEF D
<1>4. p \in State /\ SameLevels(s, p) /\ p.pCsr = s.pCsr /\ p.dbc = D
  BY <1>3 DEF State, SameLevels
<1>. HIDE DEF p
<1>5. q \in State /\ SameLevels(s, q) /\ q.pCsr = s.pCsr /\ q.dbc = D
  BY <1>4 DEF State, SameLevels
<1>6. [p EXCEPT !.rc = "OK", !.pCsr = IF d = @ THEN NULL ELSE @]
        = [q EXCEPT !.pCsr = IF d = @ THEN NULL ELSE @]
  BY <1>4 DEF State
<1>. HIDE DEF q
<1>7. [q EXCEPT !.pCsr = IF d = @ THEN NULL ELSE @] = o
  BY <1>5
<1>. HIDE DEF n
<1>8. o \in State /\ SameLevels(s, o) /\ o.pCsr = n /\ o.dbc = D
  BY <1>2, <1>5 DEF State, SameLevels
<1>. HIDE DEF o
<1>9. o = [LibClose(s, d) EXCEPT !.rc = "OK", !.pCsr = IF d = @ THEN NULL ELSE @]
  BY <1>1, <1>6, <1>7
<1>. QED BY <1>2, <1>3, <1>8, <1>9 DEF n
LEMMA OpenCursorSound ==
  ASSUME Benign, BInv, NEW c \in Csr, OpenCursor(c)
  PROVE  Sound
<1>. DEFINE L == kv.iTransLevel
            h == kv.pTxn[L]
            f == FreeDbc(kv)
            q == [kv EXCEPT !.rc = "OK"]
            own == [LibOpen(kv, f, h) EXCEPT !.rc = "OK"]
            X(d) == [NoCsr EXCEPT !.open = TRUE, !.level = L, !.csr = d]
<1>1. /\ ~cursor[c].open /\ L >= 1 /\ L \in Level /\ committing' = committing
      /\ kv \in State /\ Nested(kv) /\ Served(kv, cursor, L)
      /\ cursor \in [Csr -> Object] /\ BuffersHoldTheRow
  BY BInvIs DEF OpenCursor, Open, BInv
<1>2. Outcomes("cursor") = {"OK"}
  BY DEF Outcomes, Benign
<1>3. L = 1 => Open = {}
  <2>. SUFFICES ASSUME L = 1, NEW b \in Open
                PROVE  FALSE
    OBVIOUS
  <2>1. cursor[b].level = 1 /\ cursor[b].csr = kv.pCsr
    BY <1>1 DEF Served, Open
  <2>. QED BY <2>1 DEF OpenCursor, Benign
<1>4. PICK s : /\ IF L = 1 THEN s \in OpenRead(q) ELSE s = own
               /\ kv' = s
               /\ cursor' = IF s.rc # "OK" THEN cursor
                            ELSE [cursor EXCEPT ![c] = X(IF L = 1 THEN s.pCsr ELSE f)]
  <2>1. PICK s \in IF L = 1 THEN OpenRead(q)
                   ELSE {IF rc = "OK" THEN [LibOpen(kv, f, h) EXCEPT !.rc = rc]
                         ELSE [kv EXCEPT !.rc = rc] : rc \in Outcomes("cursor")} :
          /\ kv' = s
          /\ cursor' = IF s.rc # "OK" THEN cursor
                       ELSE [cursor EXCEPT ![c] =
                               [NoCsr EXCEPT !.open = TRUE, !.level = L,
                                             !.csr = IF L = 1 THEN s.pCsr ELSE f]]
    BY DEF OpenCursor
  <2>2. L # 1 => s = own
    <3>. HIDE DEF f, h, L
    <3>. QED BY <1>2, <2>1
  <2>. HIDE DEF f, h, L, q, own
  <2>. QED BY <2>1, <2>2
<1>5. \A d \in Dbc : /\ X(d) \in Object /\ X(d).open /\ X(d).level = L /\ X(d).csr = d
                     /\ X(d).cached = NULL
  <2>. HIDE DEF L
  <2>. QED BY <1>1 DEF NoCsr, Object
<1>6. /\ s \in State /\ SameLevels(kv, s) /\ s.rc = "OK"
      /\ s.pCsr # NULL => s.dbc[s.pCsr].open /\ s.dbc[s.pCsr].txn = NULL
      /\ \A e \in Open : cursor[e].level = 1 => cursor[e].csr = s.pCsr
      /\ \A b \in Dbc : s.dbc[b].open =>
            \/ b = s.pCsr \/ b = (IF L = 1 THEN s.pCsr ELSE f)
            \/ \E e \in Open : cursor[e].csr = b
      /\ \A e \in Open : s.dbc[cursor[e].csr] = kv.dbc[cursor[e].csr]
      /\ \E d \in Dbc : /\ d = (IF L = 1 THEN s.pCsr ELSE f) /\ s.dbc[d].open
                        /\ \A e \in Open : cursor[e].csr # d
                        /\ L # 1 => s.dbc[d].txn = h
  <2>1. CASE L = 1
    <3>1. q \in State /\ q.rc = "OK" /\ SameLevels(kv, q) /\ q.pCsr = kv.pCsr /\ q.dbc = kv.dbc
      <4>. HIDE DEF L
      <4>. QED BY <1>1, CodeIs
    <3>. HIDE DEF q
    <3>2. q.pTxn = kv.pTxn
      BY <3>1 DEF SameLevels
    <3>3. Nested(q) /\ Served(q, cursor, L)
      BY <1>1, <3>1, <3>2, SameIsNested, SameIsServed
    <3>4. PICK o \in State : /\ OpenRead(q) = {o} /\ Served(o, cursor, L)
                             /\ SameLevels(q, o) /\ o.rc = q.rc /\ o.pCsr # NULL
      BY <3>3, OpenReadIs
    <3>5. s = o
      BY <1>4, <2>1, <3>4
    <3>6. SameLevels(kv, s)
      BY <3>1, <3>4, <3>5 DEF SameLevels
    <3>7. s.pCsr \in Dbc /\ s.dbc[s.pCsr].open
      BY <3>4, <3>5 DEF State, Served
    <3>8. /\ s.dbc[s.pCsr].txn = NULL
          /\ \A b \in Dbc : s.dbc[b].open => b = s.pCsr \/ \E e \in Open : cursor[e].csr = b
      BY <3>4, <3>5 DEF Served, Open
    <3>. HIDE DEF L
    <3>. QED BY <1>3, <2>1, <3>1, <3>4, <3>5, <3>6, <3>7, <3>8
  <2>2. CASE L # 1
    <3>1. s = own
      BY <1>4, <2>2
    <3>2. f \in Dbc /\ ~kv.dbc[f].open
      BY <1>1, DbcIsFree
    <3>3. h \in Handle \cup {NULL}
      BY <1>1 DEF State
    <3>. HIDE DEF f, h
    <3>4. /\ s \in State /\ SameLevels(kv, s) /\ s.rc = "OK" /\ s.pCsr = kv.pCsr
          /\ s.dbc[f].open /\ s.dbc[f].txn = h
          /\ \A e \in Dbc : e # f => s.dbc[e] = kv.dbc[e]
      BY <1>1, <3>1, <3>2, <3>3, OpenedIs
    <3>5. \A e \in Open : cursor[e].csr \in Dbc /\ cursor[e].csr # f
      BY <1>1, <3>2 DEF Served, Open
    <3>6. \A e \in Open : s.dbc[cursor[e].csr] = kv.dbc[cursor[e].csr]
      BY <3>4, <3>5
    <3>7. kv.pCsr \in Dbc \cup {NULL}
      BY <1>1 DEF State
    <3>8. s.pCsr # NULL => s.dbc[s.pCsr].open /\ s.dbc[s.pCsr].txn = NULL
      BY <1>1, <3>2, <3>4, <3>7 DEF Served
    <3>9. \A e \in Open : cursor[e].level = 1 => cursor[e].csr = s.pCsr
      BY <1>1, <3>4 DEF Served, Open
    <3>10. \A b \in Dbc : s.dbc[b].open =>
             b = s.pCsr \/ b = f \/ \E e \in Open : cursor[e].csr = b
      BY <1>1, <3>4 DEF Served, Open
    <3>. HIDE DEF L
    <3>. QED BY <2>2, <3>2, <3>4, <3>5, <3>6, <3>8, <3>9, <3>10
  <2>. QED BY <2>1, <2>2
<1>7. PICK d \in Dbc : /\ d = (IF L = 1 THEN s.pCsr ELSE f) /\ s.dbc[d].open
                       /\ \A e \in Open : cursor[e].csr # d
                       /\ L # 1 => s.dbc[d].txn = h
  BY <1>6
<1>8. cursor' = [cursor EXCEPT ![c] = X(d)] /\ kv' = s
  <2>. HIDE DEF X, L, f
  <2>. QED BY <1>4, <1>6, <1>7
<1>. HIDE DEF X
<1>9. Served(kv', cursor', L) /\ cursor' \in [Csr -> Object]
  <2>1. /\ cursor' \in [Csr -> Object] /\ cursor'[c] = X(d)
        /\ \A e \in Csr : e # c => cursor'[e] = cursor[e]
    BY <1>1, <1>5, <1>8
  <2>2. kv'.pTxn = kv.pTxn /\ L \in 1..L
    BY <1>1, <1>6, <1>8, LevelIs DEF SameLevels
  <2>3. \A b \in Dbc : kv'.dbc[b].open =>
          b = kv'.pCsr \/ \E e \in Csr : cursor'[e].open /\ cursor'[e].csr = b
    <3>. HIDE DEF L, f
    <3>. QED BY <1>1, <1>5, <1>6, <1>7, <1>8, <2>1 DEF Open
  <2>4. ASSUME NEW e \in Csr, cursor'[e].open
        PROVE  /\ cursor'[e].csr \in Dbc /\ kv'.dbc[cursor'[e].csr].open
               /\ cursor'[e].level \in 1..L
               /\ IF cursor'[e].level = 1 THEN cursor'[e].csr = kv'.pCsr
                  ELSE kv'.dbc[cursor'[e].csr].txn = kv'.pTxn[cursor'[e].level]
               /\ \A b \in Csr : cursor'[b].open /\ cursor'[b].csr = cursor'[e].csr => b = e
    <3>1. CASE e = c
      <4>1. cursor'[e].csr = d /\ cursor'[e].level = L
        BY <1>5, <2>1, <3>1
      <4>2. \A b \in Csr : cursor'[b].open /\ cursor'[b].csr = d => b = c
        BY <1>7, <2>1 DEF Open
      <4>. HIDE DEF L, f
      <4>. QED BY <1>7, <1>8, <2>2, <3>1, <4>1, <4>2 DEF h
    <3>2. CASE e # c
      <4>1. cursor'[e] = cursor[e] /\ e \in Open
        BY <2>1, <2>4, <3>2 DEF Open
      <4>2. /\ cursor[e].csr \in Dbc /\ kv.dbc[cursor[e].csr].open
            /\ cursor[e].level \in 1..L
            /\ cursor[e].level # 1 => kv.dbc[cursor[e].csr].txn = kv.pTxn[cursor[e].level]
            /\ \A b \in Csr : cursor[b].open /\ cursor[b].csr = cursor[e].csr => b = e
        BY <1>1, <4>1 DEF Served, Open
      <4>3. \A b \in Csr : cursor'[b].open /\ cursor'[b].csr = cursor[e].csr => b = e
        BY <1>5, <1>7, <2>1, <4>1, <4>2
      <4>4. kv'.dbc[cursor[e].csr] = kv.dbc[cursor[e].csr]
        BY <1>6, <1>8, <4>1
      <4>5. cursor[e].level = 1 => cursor[e].csr = kv'.pCsr
        BY <1>6, <1>8, <4>1
      <4>. HIDE DEF L
      <4>. QED BY <2>2, <4>1, <4>2, <4>3, <4>4, <4>5
    <3>. QED BY <3>1, <3>2
  <2>. QED BY <1>6, <1>8, <2>1, <2>3, <2>4 DEF Served
<1>10. \A e \in Open : Pos(kv', cursor[e].csr) = Pos(kv, cursor[e].csr)
  BY <1>6, <1>8 DEF Pos
<1>11. \A e \in Csr : cursor'[e].open /\ cursor'[e].cached # NULL =>
        cursor'[e].cached[1] = Pos(kv', cursor'[e].csr)
  <2>. SUFFICES ASSUME NEW e \in Csr, cursor'[e].open, cursor'[e].cached # NULL
                PROVE  cursor'[e].cached[1] = Pos(kv', cursor'[e].csr)
    OBVIOUS
  <2>1. e # c
    BY <1>1, <1>5, <1>8
  <2>2. cursor'[e] = cursor[e] /\ e \in Open
    BY <1>1, <1>8, <2>1 DEF Open
  <2>. QED BY <1>1, <1>10, <2>2 DEF BuffersHoldTheRow
<1>12. BInv' /\ [Contract!Next]_(Contract!vars)
  BY <1>1, <1>6, <1>8, <1>9, <1>11, AsideIs
<1>. QED BY <1>10, <1>12 DEF Sound, Placed

LEMMA CloseCursorSound ==
  ASSUME BInv, NEW c \in Csr, CloseCursor(c)
  PROVE  Sound
<1>. DEFINE L == kv.iTransLevel
            d == cursor[c].csr
<1>1. /\ cursor[c].open /\ committing' = committing
      /\ kv \in State /\ Served(kv, cursor, L)
      /\ cursor \in [Csr -> Object] /\ BuffersHoldTheRow
      /\ cursor' = [cursor EXCEPT ![c] = NoCsr]
      /\ kv' = [LibClose(kv, d) EXCEPT !.rc = "OK", !.pCsr = IF d = @ THEN NULL ELSE @]
  BY BInvIs DEF CloseCursor, Open, BInv
<1>2. d \in Dbc /\ kv.dbc[d].open
  BY <1>1 DEF Served
<1>3. /\ kv' \in State /\ SameLevels(kv, kv')
      /\ kv'.pCsr = (IF d = kv.pCsr THEN NULL ELSE kv.pCsr)
      /\ ~kv'.dbc[d].open
      /\ \A e \in Dbc : e # d => kv'.dbc[e] = kv.dbc[e]
  <2>1. d \in Dbc /\ kv.dbc[d].open /\ kv \in State
    BY <1>1, <1>2
  <2>2. kv' = [LibClose(kv, d) EXCEPT !.rc = "OK", !.pCsr = IF d = @ THEN NULL ELSE @]
    BY <1>1
  <2>. HIDE DEF d
  <2>. QED BY <2>1, <2>2, ClosedDbcIs, ZenonT(40)
<1>4. NoCsr \in Object /\ ~NoCsr.open
  BY LevelIs DEF NoCsr, Object
<1>5. /\ cursor' \in [Csr -> Object] /\ ~cursor'[c].open
      /\ \A e \in Csr : e # c => cursor'[e] = cursor[e]
  BY <1>1, <1>4
<1>6. \A e \in Csr : cursor'[e].open =>
        /\ e # c /\ cursor[e].open /\ cursor'[e] = cursor[e]
        /\ cursor[e].csr \in Dbc /\ cursor[e].csr # d
  BY <1>1, <1>5 DEF Served
<1>7. Served(kv', cursor', L)
  <2>1. kv'.pTxn = kv.pTxn
    BY <1>3 DEF SameLevels
  <2>2. kv'.pCsr # NULL => kv'.dbc[kv'.pCsr].open /\ kv'.dbc[kv'.pCsr].txn = NULL
    <3>1. kv.pCsr \in Dbc \cup {NULL}
      BY <1>1 DEF State
    <3>2. kv.pCsr # NULL => kv.dbc[kv.pCsr].open /\ kv.dbc[kv.pCsr].txn = NULL
      BY <1>1 DEF Served
    <3>3. kv'.pCsr # NULL => kv'.pCsr = kv.pCsr /\ kv'.pCsr \in Dbc /\ kv'.pCsr # d
      BY <1>3, <3>1
    <3>. QED BY <1>3, <3>2, <3>3
  <2>3. \A b \in Dbc : kv'.dbc[b].open =>
          b = kv'.pCsr \/ \E e \in Csr : cursor'[e].open /\ cursor'[e].csr = b
    <3>. SUFFICES ASSUME NEW b \in Dbc, kv'.dbc[b].open
                  PROVE  b = kv'.pCsr \/ \E e \in Csr : cursor'[e].open /\ cursor'[e].csr = b
      OBVIOUS
    <3>1. b # d /\ kv.dbc[b].open
      BY <1>3
    <3>2. b = kv.pCsr \/ \E e \in Csr : cursor[e].open /\ cursor[e].csr = b
      BY <1>1, <3>1 DEF Served
    <3>. QED BY <1>3, <1>5, <3>1, <3>2
  <2>4. \A e \in Csr : cursor'[e].open =>
          /\ cursor'[e].csr \in Dbc /\ kv'.dbc[cursor'[e].csr].open /\ cursor'[e].level \in 1..L
          /\ IF cursor'[e].level = 1 THEN cursor'[e].csr = kv'.pCsr
             ELSE kv'.dbc[cursor'[e].csr].txn = kv'.pTxn[cursor'[e].level]
          /\ \A b \in Csr : cursor'[b].open /\ cursor'[b].csr = cursor'[e].csr => b = e
    <3>. SUFFICES ASSUME NEW e \in Csr, cursor'[e].open
                  PROVE  /\ cursor'[e].csr \in Dbc /\ kv'.dbc[cursor'[e].csr].open
                         /\ cursor'[e].level \in 1..L
                         /\ IF cursor'[e].level = 1 THEN cursor'[e].csr = kv'.pCsr
                            ELSE kv'.dbc[cursor'[e].csr].txn = kv'.pTxn[cursor'[e].level]
                         /\ \A b \in Csr : cursor'[b].open /\ cursor'[b].csr = cursor'[e].csr
                                             => b = e
      OBVIOUS
    <3>1. cursor[e].open /\ cursor'[e] = cursor[e] /\ cursor[e].csr \in Dbc /\ cursor[e].csr # d
      BY <1>6
    <3>2. kv'.dbc[cursor[e].csr] = kv.dbc[cursor[e].csr]
      BY <1>3, <3>1
    <3>3. \A b \in Csr : cursor'[b].open => cursor[b].open /\ cursor'[b] = cursor[b]
      BY <1>6
    <3>4. /\ kv.dbc[cursor[e].csr].open /\ cursor[e].level \in 1..L
          /\ IF cursor[e].level = 1 THEN cursor[e].csr = kv.pCsr
             ELSE kv.dbc[cursor[e].csr].txn = kv.pTxn[cursor[e].level]
          /\ \A b \in Csr : cursor[b].open /\ cursor[b].csr = cursor[e].csr => b = e
      BY <1>1, <3>1 DEF Served
    <3>. HIDE DEF L, d
    <3>. QED BY <1>3, <2>1, <3>1, <3>2, <3>3, <3>4
  <2>. QED BY <2>2, <2>3, <2>4 DEF Served
<1>8. \A e \in Csr : cursor'[e].open => Pos(kv', cursor[e].csr) = Pos(kv, cursor[e].csr)
  BY <1>3, <1>6 DEF Pos
<1>9. \A e \in Csr : cursor'[e].open /\ cursor'[e].cached # NULL =>
        cursor'[e].cached[1] = Pos(kv', cursor'[e].csr)
  BY <1>1, <1>6, <1>8 DEF BuffersHoldTheRow, Open
<1>10. BInv' /\ [Contract!Next]_(Contract!vars)
  BY <1>1, <1>3, <1>5, <1>7, <1>9, AsideIs
<1>11. Placed
  BY <1>8 DEF Placed, Open
<1>. QED BY <1>10, <1>11 DEF Sound
LEMMA StoreNextFine ==
  ASSUME Benign, BInv, StoreNext, cursor' = cursor
  PROVE  Fine
<1>1. \/ \E l \in Level : Begin(l)
      \/ \E l \in Level : ClosedFrom(CommitEnds(l)) /\ PhaseOne(l)
      \/ \E l \in Level : ClosedFrom(CommitEnds(l)) /\ PhaseTwo(l)
      \/ \E l \in Level : ClosedFrom(CommitEnds(l)) /\ Commit(l)
      \/ \E l \in Level : ClosedFrom(RollbackEnds(l)) /\ Rollback(l)
      \/ \E l \in Level \ {0} : ClosedFrom(RollbackEnds(l - 1)) /\ Revert(l)
      \/ \E k \in Key, v \in Val : Write(k, v)
  BY DEF StoreNext
<1>2. CASE \E l \in Level : Begin(l)
  BY <1>2, BeginFine
<1>3. CASE \E l \in Level : ClosedFrom(CommitEnds(l)) /\ PhaseOne(l)
  BY <1>3, PhaseOneFine
<1>4. CASE \E l \in Level : ClosedFrom(CommitEnds(l)) /\ PhaseTwo(l)
  BY <1>4, PhaseTwoFine
<1>5. CASE \E l \in Level : ClosedFrom(CommitEnds(l)) /\ Commit(l)
  BY <1>5, CommitStepFine
<1>6. CASE \E l \in Level : ClosedFrom(RollbackEnds(l)) /\ Rollback(l)
  BY <1>6, RollbackFine
<1>7. CASE \E l \in Level \ {0} : ClosedFrom(RollbackEnds(l - 1)) /\ Revert(l)
  BY <1>7, RevertFine
<1>8. CASE \E k \in Key, v \in Val : Write(k, v)
  BY <1>8, WriteFine
<1>. QED BY <1>1, <1>2, <1>3, <1>4, <1>5, <1>6, <1>7, <1>8

LEMMA NextSound ==
  ASSUME Benign, BInv, CursorNext
  PROVE  Sound
<1>1. CASE StoreNext /\ cursor' = cursor
  BY <1>1, StoreNextFine, FineIsSound
<1>2. CASE \E c \in Csr : OpenCursor(c)
  BY <1>2, OpenCursorSound
<1>3. CASE \E c \in Csr : CloseCursor(c)
  BY <1>3, CloseCursorSound
<1>4. CASE \E c \in Csr, k \in Key, dir \in {"EQ", "LE", "GE"} : Seek(c, k, dir)
  BY <1>4, SeekSound
<1>5. CASE \E c \in Csr, forward \in BOOLEAN : Step(c, forward)
  BY <1>5, StepSound
<1>6. CASE \E c \in Csr : Read(c)
  BY <1>6, ReadSound
<1>7. CASE \E c \in Csr : Delete(c)
  BY <1>7, DeleteSound
<1>8. CASE \E c \in Csr : Reset(c)
  BY <1>8, ResetSound
<1>. QED BY <1>1, <1>2, <1>3, <1>4, <1>5, <1>6, <1>7, <1>8 DEF CursorNext

LEMMA StutterSound ==
  ASSUME BInv, UNCHANGED cursorVars
  PROVE  BInv' /\ UNCHANGED Contract!vars
<1>1. kv' = kv /\ committing' = committing /\ cursor' = cursor
  BY DEF cursorVars
<1>2. BInv'
  BY <1>1 DEF BInv, Nested, Deep, Live, PhasesInOrder, Between, Unprepared, Served,
              BuffersHoldTheRow, Open, Pos, State
<1>3. UNCHANGED Contract!vars
  BY <1>1, BInvIs, MappedSteps
<1>. QED BY <1>2, <1>3

LEMMA StartsSound ==
  ASSUME CursorInit
  PROVE  BInv /\ Contract!Init
<1>1. /\ kv.iTransLevel = 0 /\ kv.pTxn = [l \in Level |-> NULL] /\ kv.pCsr = NULL
      /\ kv.txn = [h \in Handle |-> NoTxn] /\ kv.stored = Empty
      /\ kv.dbc = [d \in Dbc |-> NoDbc] /\ ~kv.stale
      /\ committing = MaxLevel /\ cursor = [c \in Csr |-> NoCsr]
  BY DEF CursorInit, Init
<1>2. kv \in State
  <2>1. Empty \in Content
    BY DEF Empty, Content
  <2>2. NoTxn \in Txn
    BY <2>1 DEF NoTxn, Txn
  <2>3. NoDbc \in Cursor
    BY DEF NoDbc, Cursor
  <2>4. 0 \in -1..MaxLevel
    BY LevelIs
  <2>5. /\ [l \in Level |-> NULL] \in [Level -> Handle \cup {NULL}]
        /\ [h \in Handle |-> NoTxn] \in [Handle -> Txn]
        /\ [d \in Dbc |-> NoDbc] \in [Dbc -> Cursor]
    BY <2>2, <2>3
  <2>. QED BY <2>1, <2>4, <2>5 DEF CursorInit, Init, State
<1>3. Deep(kv) = {} /\ Live(kv) = {}
  BY <1>1 DEF Deep, Live, NoTxn
<1>4. Nested(kv)
  BY <1>1, <1>2, <1>3 DEF Nested
<1>5. PhasesInOrder
  BY <1>1, LevelIs DEF PhasesInOrder, Between, Unprepared, NoTxn
<1>6. cursor \in [Csr -> Object] /\ \A c \in Csr : ~cursor[c].open
  BY <1>1, LevelIs DEF NoCsr, Object
<1>7. Served(kv, cursor, 0) /\ BuffersHoldTheRow
  BY <1>1, <1>6 DEF Served, BuffersHoldTheRow, Open, NoDbc
<1>8. BInv
  BY <1>1, <1>4, <1>5, <1>6, <1>7 DEF BInv
<1>9. Visible = Empty /\ \A l \in 2..MaxLevel : l > kv.iTransLevel
  BY <1>1, LevelIs DEF Visible
<1>10. BeginMap = [l \in 2..MaxLevel |-> Visible]
  BY <1>9 DEF BeginMap
<1>11. Contract!Init
  BY <1>1, <1>9, <1>10 DEF Contract!Init, Contract!WriteLevels, BeginMap, Empty
<1>. QED BY <1>8, <1>11
-----------------------------------------------------------------------------
(* What follows.                                                           *)

LEMMA HandlesSound ==
  ASSUME BInv
  PROVE  HandlesAreSound
<1>. DEFINE L == kv.iTransLevel
<1>1. /\ Nested(kv) /\ L \in Int /\ Deep(kv) \subseteq Level
      /\ Live(kv) = {kv.pTxn[l] : l \in Deep(kv)}
  BY BInvIs, NestedIs
<1>2. NoStaleHandle
  BY <1>1 DEF NoStaleHandle, Nested
<1>3. HandlesFollowLevels
  <2>1. \A l \in Level : (l < 2 \/ l > L) <=> l \notin Deep(kv)
    BY <1>1, LevelIs DEF Deep
  <2>2. \A l \in Level : IF l < 2 \/ l > L THEN kv.pTxn[l] = NULL
                         ELSE /\ kv.pTxn[l] \in Live(kv)
                              /\ kv.txn[kv.pTxn[l]].above = {kv.pTxn[i] : i \in 2..(l - 1)}
    BY <1>1, <2>1 DEF Nested
  <2>3. Live(kv) \subseteq {kv.pTxn[l] : l \in Level}
    BY <1>1
  <2>. QED BY <2>2, <2>3 DEF HandlesFollowLevels
<1>4. PreparedOnlyBetween
  <2>. SUFFICES ASSUME NEW h \in Handle, kv.txn[h].state = "prepared"
                PROVE  Between /\ h = kv.pTxn[2]
    BY DEF PreparedOnlyBetween
  <2>1. Between /\ L = 2
    BY BInvIs DEF Unprepared
  <2>2. h \in Live(kv)
    BY DEF Live
  <2>3. \A l \in Deep(kv) : l = 2
    BY <2>1 DEF Deep
  <2>. QED BY <1>1, <2>1, <2>2, <2>3
<1>5. DbcsAreOwned
  <2>1. Served(kv, cursor, L)
    BY BInvIs
  <2>2. \A d \in Dbc : kv.dbc[d].open => d = kv.pCsr \/ \E c \in Open : cursor[c].csr = d
    BY <2>1 DEF Served, Open
  <2>3. ASSUME NEW c \in Open
        PROVE  /\ Sharing(c) = {c}
               /\ kv.dbc[cursor[c].csr].open
               /\ IF cursor[c].level < 2
                  THEN cursor[c].csr = kv.pCsr /\ kv.dbc[cursor[c].csr].txn = NULL
                  ELSE kv.dbc[cursor[c].csr].txn = kv.pTxn[cursor[c].level]
    <3>1. /\ c \in Csr /\ cursor[c].csr \in Dbc /\ kv.dbc[cursor[c].csr].open
          /\ cursor[c].level \in 1..L
          /\ IF cursor[c].level = 1 THEN cursor[c].csr = kv.pCsr
             ELSE kv.dbc[cursor[c].csr].txn = kv.pTxn[cursor[c].level]
          /\ \A e \in Csr : cursor[e].open /\ cursor[e].csr = cursor[c].csr => e = c
      BY <2>1 DEF Served, Open
    <3>2. cursor[c].level < 2 <=> cursor[c].level = 1
      BY <1>1, <3>1
    <3>3. kv.pCsr # NULL => kv.dbc[kv.pCsr].txn = NULL
      BY <2>1 DEF Served
    <3>4. Sharing(c) = {c}
      BY <3>1 DEF Sharing, Open
    <3>. QED BY <3>1, <3>2, <3>3, <3>4
  <2>. QED BY <2>2, <2>3 DEF DbcsAreOwned
<1>. QED BY <1>2, <1>3, <1>4, <1>5 DEF HandlesAreSound

LEMMA SeeksSound ==
  ASSUME Benign, BInv
  PROVE  SeekFindsNearest
<1>1. Nested(kv) /\ Served(kv, cursor, kv.iTransLevel)
  BY BInvIs
<1>2. \A c \in Open, k \in Key, dir \in {"EQ", "LE", "GE"} : Nearest(c, k, dir)
  BY <1>1, SeekIs
<1>. QED BY <1>2, Zenon DEF Nearest, SeekFindsNearest

-----------------------------------------------------------------------------
(* The theorems.                                                           *)

LEMMA Invariance ==
  ASSUME Benign
  PROVE  CursorSpec => []BInv
<1>1. BInv /\ [CursorNext]_cursorVars => BInv'
  BY NextSound, StutterSound DEF Sound
<1>. QED BY <1>1, StartsSound, PTL DEF CursorSpec

\* Each level has its live transaction of the library, in that of the level below,
\* each open cursor its own cursor of the library in the transaction of its level,
\* only the outermost transaction is prepared, and only between the phases of its
\* commit, and nothing is used after the call that ended it: what kvbdbBegin,
\* kvbdbCommitPhaseOne and its neighbours do to pTxn and pCsr keeps in step with
\* what the library does (kvbdb_common.c:2620-3290), and what
\* kvbdbOpenCursor and kvbdbCloseCursor do to the cursors of both (548-798).
THEOREM HandlesStaySound ==
  ASSUME Benign
  PROVE  CursorSpec => []HandlesAreSound
<1>1. BInv => HandlesAreSound
  BY HandlesSound
<1>. QED BY <1>1, Invariance, PTL

\* What xKey and xData answer from the buffers is the row the cursor is on, for the
\* calls that move it empty them (kvbdb_common.c:691, 800, 896, 1535).
THEOREM BuffersAreTheRow ==
  ASSUME Benign
  PROVE  CursorSpec => []BuffersHoldTheRow
<1>1. BInv => BuffersHoldTheRow
  BY DEF BInv
<1>. QED BY <1>1, Invariance, PTL

\* A seek that succeeds is on the nearest row in its direction, and one that finds
\* nothing is right, whatever rows there are and wherever the library's cursor was
\* before (kvbdb_common.c:992-1530).
THEOREM SeeksFindNearest ==
  ASSUME Benign
  PROVE  CursorSpec => []SeekFindsNearest
<1>1. BInv => SeekFindsNearest
  BY SeeksSound
<1>. QED BY <1>1, Invariance, PTL

\* Only the xSeek, xNext and xPrev of a cursor move it: neither other cursors nor the
\* methods of the store do, although they open, close and share its cursor
\* (kvbdb_common.c:582-611, 763-772, 2838-2845, 3212-3230).
THEOREM CursorsKeepTheirPlace ==
  ASSUME Benign
  PROVE  CursorSpec => CursorKeepsItsPlace
<1>1. BInv /\ CursorNext => Placed
  BY NextSound DEF Sound
<1>2. BInv /\ [CursorNext]_cursorVars => [Placed]_cursorVars
  BY <1>1
<1>3. CursorSpec => [][Placed]_cursorVars
  BY <1>2, Invariance, PTL DEF CursorSpec
<1>. QED BY <1>3 DEF CursorKeepsItsPlace, Placed

\* The engine keeps the promises of kv.h, at any depth of transactions: each step is
\* one of KVStore, or changes nothing that a client of the store sees (kv.h:20-60).
THEOREM EngineKeepsContract ==
  ASSUME Benign
  PROVE  CursorSpec => ImplementsKVStore
<1>1. CursorInit => Contract!Init
  BY StartsSound
<1>2. BInv /\ [CursorNext]_cursorVars => [Contract!Next]_(Contract!vars)
  BY NextSound, StutterSound DEF Sound
<1>. QED BY <1>1, <1>2, Invariance, PTL DEF CursorSpec, ImplementsKVStore, Contract!Spec

=============================================================================
