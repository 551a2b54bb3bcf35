----------------------------- MODULE KVWtProofs -----------------------------
(***************************************************************************)
(* KVWt implements KVStore for any keys, values and levels, under          *)
(* conditions (Benign): no transactions within transactions and no commit  *)
(* to level 0, which this engine is not good for, and a library that fails *)
(* neither to begin or commit a transaction nor to open a cursor.          *)
(***************************************************************************)
EXTENDS KVWt, FiniteSetTheorems, TLAPS

USE KVEngineAssumption

-----------------------------------------------------------------------------
(* The conditions, and the inductive invariant.                            *)

Benign ==
    /\ "nested" \notin Calls /\ "commit_to_0" \notin Calls
    /\ Failing \cap {"open_cursor", "begin_transaction", "commit_transaction"} = {}

\* In the middle of kvwtRollback(0) the level is negative.
State ==
    [iTransLevel : -1..MaxLevel, pTxnCsr : [Level -> BOOLEAN], pCsr : BOOLEAN,
     txn : {"none", "active", "prepared"}, view : Content, stored : Content,
     rc : {"OK", "ERROR", "INTERNAL", "MISUSE", "CONSTRAINT"}, crash : BOOLEAN]

\* The session has a transaction at level 2, and the array its cursor.
Sound(s) ==
    /\ s \in State /\ s.iTransLevel \in 0..2
    /\ s.txn # "none" <=> s.iTransLevel = 2
    /\ \A l \in Level : s.pTxnCsr[l] <=> l = 2 /\ s.iTransLevel = 2
    /\ s.iTransLevel > 0 => s.pCsr
    /\ ~s.crash

\* It has neither, once kvwtRollback has ended it.
Ended(s) ==
    /\ s \in State /\ s.iTransLevel < 2 /\ s.txn = "none" /\ ~s.crash
    /\ \A l \in Level : ~s.pTxnCsr[l]

\* Between the phases of a commit the level is the one that ends, and only then
\* the transaction is prepared.
WInv ==
    /\ Sound(wt) /\ between \in Level
    /\ Between => wt.iTransLevel = between + 1
    /\ wt.txn = "prepared" => Between

-----------------------------------------------------------------------------
(* The methods, on states.                                                 *)

LEMMA LevelIs ==
  MaxLevel \in Nat /\ MaxLevel >= 2 /\ Level = 0..MaxLevel /\ {0, 1, 2} \subseteq Level
BY DEF Level

LEMMA OutcomesAre ==
  ASSUME Benign
  PROVE  /\ \A w \in {"open_cursor", "begin_transaction", "commit_transaction"} :
              Outcomes(w) = {"OK"}
         /\ \A w : Outcomes(w) \subseteq {"OK", "ERROR"}
BY DEF Benign, Outcomes

LEMMA OpenReadIs ==
  ASSUME Benign, NEW s, Ended(s), s.rc = "OK", NEW r \in OpenRead(s)
  PROVE  /\ Ended(r) /\ r.pCsr /\ r.rc = "OK"
         /\ r.iTransLevel = s.iTransLevel /\ r.stored = s.stored
<1>1. (r = s /\ s.pCsr) \/ r = [s EXCEPT !.pCsr = TRUE, !.rc = "OK"]
  BY OutcomesAre DEF OpenRead
<1>. QED BY <1>1 DEF Ended, State

LEMMA OpenTxnIs ==
  ASSUME Benign, NEW s, Ended(s), s.rc = "OK", s.pCsr, NEW l \in 0..2, NEW q \in OpenTxn(s, l)
  PROVE  /\ q.rc = "OK" /\ q.stored = s.stored
         /\ l < 2 => q = s
         /\ l = 2 => Sound(q) /\ q.iTransLevel = 2 /\ q.txn = "active" /\ q.view = s.stored
<1>1. CASE l < 2
  BY <1>1 DEF OpenTxn
<1>2. CASE l = 2
  <2>. DEFINE b == [s EXCEPT !.txn = "active", !.view = s.stored]
              P == [s.pTxnCsr EXCEPT ![2] = TRUE]
  <2>1. s \in State /\ s.iTransLevel < 2 /\ ~s.pTxnCsr[2] /\ s.txn = "none"
    BY LevelIs DEF Ended
  <2>2. q = [b EXCEPT !.iTransLevel = 2, !.pTxnCsr[2] = TRUE]
    <3>1. /\ ~(s.rc # "OK" \/ l < 2 \/ l <= s.iTransLevel \/ s.pTxnCsr[l])
          /\ ~(s.txn # "none")
      BY <1>2, <2>1 DEF State
    <3>2. PICK x \in (IF s.txn # "none" THEN {s}
                      ELSE {IF rc = "OK" THEN LibBegin(s) ELSE s
                            : rc \in Outcomes("begin_transaction")}),
               rc \in Outcomes("open_cursor") :
            q = IF rc = "OK" THEN LevelOpened(x, l) ELSE [x EXCEPT !.rc = rc]
      BY <3>1 DEF OpenTxn
    <3>3. x = LibBegin(s) /\ rc = "OK"
      BY <3>1, OutcomesAre
    <3>. QED BY <1>2, <3>2, <3>3, Zenon DEF LibBegin, LevelOpened
  <2>3. b \in State /\ b.pTxnCsr = s.pTxnCsr /\ b.stored = s.stored /\ b.txn = "active"
        /\ b.view = s.stored /\ b.rc = "OK" /\ b.pCsr /\ ~b.crash
    BY <2>1 DEF State, Ended
  <2>4. P \in [Level -> BOOLEAN] /\ \A i \in Level : P[i] <=> i = 2
    BY <2>1, LevelIs DEF State, Ended
  <2>5. q = [b EXCEPT !.iTransLevel = 2, !.pTxnCsr = P]
    BY <2>2, <2>3
  <2>. HIDE DEF b, P
  <2>6. 2 \in -1..MaxLevel
    BY LevelIs
  <2>7. /\ q \in State /\ q.iTransLevel = 2 /\ q.pTxnCsr = P /\ q.stored = s.stored
        /\ q.txn = "active" /\ q.view = s.stored /\ q.rc = "OK" /\ q.pCsr /\ ~q.crash
    BY <2>3, <2>4, <2>5, <2>6 DEF State
  <2>. QED BY <1>2, <2>4, <2>7 DEF Sound
<1>. QED BY <1>1, <1>2

\* kvwtBegin reaches the level; what is seen is what is stored.
LEMMA BeginIs ==
  ASSUME Benign, NEW s, Ended(s), NEW l \in 0..2, l > s.iTransLevel, NEW o \in kvwtBegin(s, l)
  PROVE  /\ Sound(o) /\ o.iTransLevel = l /\ o.rc = "OK" /\ o.txn # "prepared"
         /\ o.stored = s.stored /\ Visible(o) = s.stored
<1>. DEFINE a == [s EXCEPT !.rc = "OK"]
<1>1. Ended(a) /\ a.rc = "OK" /\ a.iTransLevel = s.iTransLevel /\ a.stored = s.stored
  BY DEF Ended, State
<1>2. PICK r \in OpenRead(a) : \E q \in OpenTxn(r, l) :
        o = IF q.rc = "OK" THEN [q EXCEPT !.iTransLevel = IF l > @ THEN l ELSE @]
            ELSE IF q.iTransLevel = 0 THEN [q EXCEPT !.pCsr = FALSE] ELSE q
  BY DEF kvwtBegin
<1>3. PICK q \in OpenTxn(r, l) :
        o = IF q.rc = "OK" THEN [q EXCEPT !.iTransLevel = IF l > @ THEN l ELSE @]
            ELSE IF q.iTransLevel = 0 THEN [q EXCEPT !.pCsr = FALSE] ELSE q
  BY <1>2
<1>. HIDE DEF a
<1>4. /\ Ended(r) /\ r.pCsr /\ r.rc = "OK"
      /\ r.iTransLevel = s.iTransLevel /\ r.stored = s.stored
  BY <1>1, OpenReadIs
<1>5. /\ q.rc = "OK" /\ q.stored = s.stored
      /\ l < 2 => q = r
      /\ l = 2 => Sound(q) /\ q.iTransLevel = 2 /\ q.txn = "active" /\ q.view = s.stored
  BY <1>4, OpenTxnIs
<1>6. CASE l < 2
  <2>1. o = [r EXCEPT !.iTransLevel = l]
    BY <1>3, <1>4, <1>5, <1>6 DEF Ended, State
  <2>2. /\ o \in State /\ o.iTransLevel = l /\ o.txn = "none" /\ o.pTxnCsr = r.pTxnCsr
        /\ o.pCsr /\ ~o.crash /\ o.rc = "OK" /\ o.stored = s.stored
    BY <1>4, <1>6, <2>1, LevelIs DEF Ended, State
  <2>. QED BY <1>4, <1>6, <2>2 DEF Ended, Sound, Visible
<1>7. CASE l = 2
  <2>1. o = q
    BY <1>3, <1>5, <1>7 DEF Sound, State
  <2>. QED BY <1>5, <1>7, <2>1 DEF Visible
<1>. QED BY <1>6, <1>7

\* kvwtRollback ends the transaction and begins again from what is stored.
LEMMA RollbackIs ==
  ASSUME Benign, NEW s, Sound(s), NEW l \in 0..2, l <= s.iTransLevel, NEW o \in kvwtRollback(s, l)
  PROVE  /\ Sound(o) /\ o.iTransLevel = l /\ o.rc = "OK" /\ o.txn # "prepared"
         /\ o.stored = s.stored /\ Visible(o) = s.stored
<1>. DEFINE ends == {i \in l..s.iTransLevel : i >= 0 /\ s.pTxnCsr[i]}
            z == IF ends # {} THEN LibRollback(s) ELSE s
            P == [i \in Level |-> z.pTxnCsr[i] /\ i \notin ends]
            ended == IF s.iTransLevel < 2 THEN s ELSE [z EXCEPT !.pTxnCsr = P]
            fails == s.iTransLevel >= 2
                       /\ Cardinality(ends) > IF s.txn = "none" THEN 0 ELSE 1
            back == [ended EXCEPT !.iTransLevel = IF fails THEN @ ELSE l - 1,
                                  !.pCsr = @ /\ l > 0]
<1>1. o \in kvwtBegin(back, l)
  BY DEF kvwtRollback
<1>2. s \in State /\ s.iTransLevel \in 0..2 /\ s.pTxnCsr \in [Level -> BOOLEAN]
  BY DEF Sound, State
<1>3. /\ ended \in State /\ ended.txn = "none" /\ ~ended.crash /\ ended.stored = s.stored
      /\ (\A i \in Level : ~ended.pTxnCsr[i]) /\ ~fails
  <2>1. CASE s.iTransLevel < 2
    BY <2>1 DEF Sound
  <2>2. CASE s.iTransLevel = 2
    <3>1. ends = {2}
      BY <2>2, LevelIs DEF Sound
    <3>2. z = [s EXCEPT !.txn = "none", !.view = Empty]
      BY <3>1 DEF LibRollback
    <3>3. Empty \in Content
      BY DEF Empty, Content
    <3>4. z \in State /\ z.txn = "none" /\ ~z.crash /\ z.stored = s.stored
          /\ z.pTxnCsr = s.pTxnCsr
      BY <1>2, <3>2, <3>3 DEF State, Sound
    <3>. HIDE DEF z
    <3>5. P \in [Level -> BOOLEAN] /\ \A i \in Level : ~P[i]
      BY <1>2, <2>2, <3>1, <3>4 DEF Sound
    <3>6. ~fails
      <4>1. Cardinality(ends) = 1
        BY <3>1, FS_Singleton, Zenon
      <4>. QED BY <2>2, <4>1 DEF Sound
    <3>. HIDE DEF P, ends
    <3>7. ended = [z EXCEPT !.pTxnCsr = P]
      BY <2>2
    <3>. QED BY <3>4, <3>5, <3>6, <3>7 DEF State
  <2>. QED BY <1>2, <2>1, <2>2
<1>. HIDE DEF ended, fails
<1>4. Ended(back) /\ back.iTransLevel = l - 1 /\ back.stored = s.stored
  <2>. DEFINE n == l - 1
              B == ended.pCsr /\ l > 0
  <2>1. n \in -1..MaxLevel /\ n < 2 /\ B \in BOOLEAN
    BY LevelIs
  <2>2. back = [ended EXCEPT !.iTransLevel = n, !.pCsr = B]
    BY <1>3
  <2>. HIDE DEF n, B, back
  <2>3. back.iTransLevel = n /\ Ended(back) /\ back.stored = s.stored
    BY <1>3, <2>1, <2>2 DEF Ended, State
  <2>. QED BY <2>3 DEF n
<1>. HIDE DEF back
<1>. QED BY <1>1, <1>4, BeginIs

LEMMA RevertIs ==
  ASSUME Benign, NEW s, Sound(s), NEW l \in 1..2, l <= s.iTransLevel, NEW o \in kvwtRevert(s, l)
  PROVE  /\ Sound(o) /\ o.iTransLevel = l /\ o.rc = "OK" /\ o.txn # "prepared"
         /\ o.stored = s.stored /\ Visible(o) = s.stored
<1>1. PICK r \in kvwtRollback(s, l - 1) : o \in (IF r.rc = "OK" THEN kvwtBegin(r, l) ELSE {r})
  BY Zenon DEF kvwtRevert
<1>2. /\ Sound(r) /\ r.iTransLevel = l - 1 /\ r.rc = "OK" /\ r.stored = s.stored
  <2>1. l - 1 \in 0..2 /\ l - 1 <= s.iTransLevel
    BY DEF Sound
  <2>. QED BY <2>1, RollbackIs
<1>3. Ended(r)
  BY <1>2 DEF Sound, Ended
<1>4. o \in kvwtBegin(r, l) /\ l \in 0..2 /\ l > r.iTransLevel
  BY <1>1, <1>2
<1>. QED BY <1>2, <1>3, <1>4, BeginIs

\* A commit to level 1 makes permanent what the session sees.
LEMMA PhaseOneIs ==
  ASSUME Benign, NEW s, Sound(s), s.txn # "prepared", NEW l \in 0..1, l + 1 = s.iTransLevel,
         NEW o \in kvwtCommitPhaseOne(s, l)
  PROVE  /\ Sound(o) /\ o.iTransLevel = s.iTransLevel
         /\ o.stored = s.stored /\ Visible(o) = Visible(s)
         /\ o.txn = "prepared" => o.rc = "OK"
         /\ s.iTransLevel < 2 => o.rc = "OK"
<1>1. s \in State /\ s.iTransLevel \in 0..2 /\ (s.txn = "none" <=> s.iTransLevel < 2)
  BY DEF Sound
<1>. DEFINE Good == /\ Sound(o) /\ o.iTransLevel = s.iTransLevel
                    /\ o.stored = s.stored /\ Visible(o) = Visible(s)
                    /\ o.txn = "prepared" => o.rc = "OK"
                    /\ s.iTransLevel < 2 => o.rc = "OK"
<1>2. ASSUME NEW rc \in {"OK", "ERROR", "MISUSE"}, o = [s EXCEPT !.rc = rc],
             s.iTransLevel < 2 => rc = "OK"
      PROVE  Good
  BY <1>1, <1>2 DEF Sound, State, Visible
<1>3. ASSUME s.iTransLevel = 2, o = [s EXCEPT !.rc = "OK", !.txn = "prepared"]
      PROVE  Good
  BY <1>1, <1>3 DEF Sound, State, Visible
<1>4. CASE s.iTransLevel < 2
  <2>1. o = [s EXCEPT !.rc = "OK"]
    BY <1>4, Zenon DEF kvwtCommitPhaseOne
  <2>. QED BY <1>2, <2>1
<1>5. CASE s.iTransLevel = 2
  <2>1. \/ o = [s EXCEPT !.rc = "OK"]
        \/ o = [s EXCEPT !.rc = "MISUSE"]
        \/ \E rc \in Outcomes("prepare_transaction") :
             o = [s EXCEPT !.rc = rc, !.txn = IF rc = "OK" THEN "prepared" ELSE @]
    BY Zenon DEF kvwtCommitPhaseOne
  <2>2. CASE \E rc \in Outcomes("prepare_transaction") :
               o = [s EXCEPT !.rc = rc, !.txn = IF rc = "OK" THEN "prepared" ELSE @]
    <3>1. PICK rc \in {"OK", "ERROR"} :
            o = [s EXCEPT !.rc = rc, !.txn = IF rc = "OK" THEN "prepared" ELSE @]
      BY <2>2, OutcomesAre
    <3>2. CASE rc = "OK"
      BY <1>3, <1>5, <3>1, <3>2
    <3>3. CASE rc = "ERROR"
      <4>1. o = [s EXCEPT !.rc = "ERROR"]
        BY <1>1, <3>1, <3>3 DEF State
      <4>2. ~(s.iTransLevel < 2)
        BY <1>5
      <4>. QED BY <1>2, <4>1, <4>2, Zenon
    <3>. QED BY <3>2, <3>3
  <2>3. CASE o = [s EXCEPT !.rc = "OK"]
    BY <1>2, <2>3
  <2>4. CASE o = [s EXCEPT !.rc = "MISUSE"]
    BY <1>2, <1>5, <2>4
  <2>. QED BY <2>1, <2>2, <2>3, <2>4
<1>. QED BY <1>1, <1>4, <1>5

LEMMA PhaseTwoIs ==
  ASSUME Benign, NEW s, Sound(s), NEW l \in 0..1, l + 1 = s.iTransLevel,
         NEW o \in kvwtCommitPhaseTwo(s, l)
  PROVE  /\ Sound(o) /\ o.iTransLevel = l /\ o.txn = "none" /\ Visible(o) = Visible(s)
<1>1. /\ s \in State /\ s.iTransLevel \in 0..2 /\ (s.txn = "none" <=> s.iTransLevel < 2)
      /\ s.iTransLevel = l + 1 /\ s.pCsr /\ s.pTxnCsr \in [Level -> BOOLEAN]
  BY DEF Sound, State
<1>2. CASE l = 0
  <2>1. o = [s EXCEPT !.rc = "OK", !.iTransLevel = l]
    BY <1>1, <1>2 DEF kvwtCommitPhaseTwo
  <2>2. l \in -1..MaxLevel
    BY <1>2, LevelIs
  <2>3. /\ o \in State /\ o.iTransLevel = 0 /\ o.txn = s.txn /\ o.pTxnCsr = s.pTxnCsr
        /\ o.pCsr = s.pCsr /\ o.crash = s.crash /\ o.stored = s.stored /\ o.view = s.view
    BY <1>1, <1>2, <2>1, <2>2 DEF State
  <2>. QED BY <1>1, <1>2, <2>3 DEF Sound, Visible
<1>3. CASE l = 1
  <2>. DEFINE ends == (l + 1)..s.iTransLevel
              P == [i \in Level |-> s.pTxnCsr[i] /\ i \notin ends]
              C == \E i \in ends : ~s.pTxnCsr[i]
  <2>1. ends = {2} /\ s.pTxnCsr[2] /\ s.txn # "none"
    BY <1>1, <1>3, LevelIs DEF Sound
  <2>2. o = [LibCommit(s) EXCEPT !.rc = "OK", !.iTransLevel = l,
               !.pTxnCsr = [i \in Level |-> @[i] /\ i \notin ends], !.crash = C]
    <3>1. ~(s.iTransLevel < 2 \/ ~s.pTxnCsr[l + 1]) /\ s.txn # "none" /\ ~(l = 0)
      BY <1>1, <1>3, <2>1
    <3>2. PICK rc \in Outcomes("commit_transaction") :
            o = IF rc = "OK"
                THEN [LibCommit(s) EXCEPT !.rc = rc, !.iTransLevel = l,
                        !.pTxnCsr = [i \in Level |-> @[i] /\ i \notin ends], !.crash = C]
                ELSE [LibRollback(s) EXCEPT !.rc = rc]
      BY <3>1, Zenon DEF kvwtCommitPhaseTwo
    <3>. QED BY <3>2, OutcomesAre
  <2>3. P \in [Level -> BOOLEAN] /\ (\A i \in Level : ~P[i]) /\ C = FALSE
    BY <1>1, <1>3, <2>1 DEF Sound
  <2>4. Empty \in Content /\ l \in -1..MaxLevel
    BY <1>3, LevelIs DEF Empty, Content
  <2>5. o = [s EXCEPT !.txn = "none", !.stored = s.view, !.view = Empty, !.rc = "OK",
               !.iTransLevel = l, !.pTxnCsr = P, !.crash = C]
    BY <1>1, <2>2 DEF LibCommit, State
  <2>. HIDE DEF ends, P, C
  <2>6. /\ o \in State /\ o.iTransLevel = l /\ o.txn = "none" /\ o.pTxnCsr = P
        /\ o.pCsr = s.pCsr /\ ~o.crash /\ o.stored = s.view
    BY <1>1, <2>3, <2>4, <2>5 DEF State
  <2>. QED BY <1>1, <1>3, <2>1, <2>3, <2>6 DEF Sound, Visible
<1>. QED BY <1>2, <1>3

\* An insert or a removal changes what the session sees and nothing else, or fails.
LEMMA PutIs ==
  ASSUME NEW s, Sound(s), s.iTransLevel = 2, NEW k \in Key, NEW v \in Val \cup {NoVal},
         NEW o, \/ \E rc \in {"ERROR", "INTERNAL", "CONSTRAINT"} : o = [s EXCEPT !.rc = rc]
                \/ o = [Put(s, k, v) EXCEPT !.rc = "OK"]
  PROVE  /\ Sound(o) /\ o.iTransLevel = 2 /\ o.txn = s.txn /\ o.stored = s.stored
         /\ Visible(o) = Visible(s) \/ Visible(o) = [Visible(s) EXCEPT ![k] = v]
<1>1. s \in State /\ s.txn # "none" /\ s.view \in Content
  BY DEF Sound, State
<1>2. CASE \E rc \in {"ERROR", "INTERNAL", "CONSTRAINT"} : o = [s EXCEPT !.rc = rc]
  BY <1>1, <1>2 DEF Sound, State, Visible
<1>3. CASE o = [Put(s, k, v) EXCEPT !.rc = "OK"]
  <2>. DEFINE V == [s.view EXCEPT ![k] = v]
  <2>1. V \in Content
    BY <1>1 DEF Content
  <2>2. o = [s EXCEPT !.view = V, !.rc = "OK"]
    BY <1>1, <1>3 DEF Put
  <2>3. /\ o \in State /\ o.view = V /\ o.txn = s.txn /\ o.iTransLevel = s.iTransLevel
        /\ o.pTxnCsr = s.pTxnCsr /\ o.pCsr = s.pCsr /\ o.crash = s.crash /\ o.stored = s.stored
    BY <1>1, <2>1, <2>2 DEF State
  <2>. QED BY <1>1, <2>3 DEF Sound, Visible
<1>. QED BY <1>2, <1>3

LEMMA ReplaceIs ==
  ASSUME Benign, NEW s, Sound(s), s.iTransLevel = 2, NEW k \in Key, NEW v \in Val,
         NEW o \in kvwtReplace(s, k, v)
  PROVE  /\ Sound(o) /\ o.iTransLevel = 2 /\ o.txn = s.txn /\ o.stored = s.stored
         /\ Visible(o) = Visible(s) \/ Visible(o) = [Visible(s) EXCEPT ![k] = v]
<1>1. \/ o = [s EXCEPT !.rc = "INTERNAL"] \/ o = [s EXCEPT !.rc = "CONSTRAINT"]
      \/ \E rc \in Outcomes("insert") : o = [(IF rc = "OK" THEN Put(s, k, v) ELSE s) EXCEPT !.rc = rc]
  BY Zenon DEF kvwtReplace
<1>2. CASE \E rc \in Outcomes("insert") :
             o = [(IF rc = "OK" THEN Put(s, k, v) ELSE s) EXCEPT !.rc = rc]
  <2>1. o = [Put(s, k, v) EXCEPT !.rc = "OK"] \/ o = [s EXCEPT !.rc = "ERROR"]
    BY <1>2, OutcomesAre
  <2>. QED BY <2>1, PutIs
<1>. QED BY <1>1, <1>2, PutIs

LEMMA DeleteIs ==
  ASSUME Benign, NEW s, Sound(s), s.iTransLevel = 2, NEW k \in Key, NEW o \in kvwtDelete(s, k)
  PROVE  /\ Sound(o) /\ o.iTransLevel = 2 /\ o.txn = s.txn /\ o.stored = s.stored
         /\ Visible(o) = Visible(s) \/ Visible(o) = [Visible(s) EXCEPT ![k] = NoVal]
<1>1. \/ o = [s EXCEPT !.rc = "INTERNAL"]
      \/ \E rc \in Outcomes("remove") : o = [(IF rc = "OK" THEN Put(s, k, NoVal) ELSE s) EXCEPT !.rc = rc]
  BY Zenon DEF kvwtDelete
<1>2. CASE \E rc \in Outcomes("remove") :
             o = [(IF rc = "OK" THEN Put(s, k, NoVal) ELSE s) EXCEPT !.rc = rc]
  <2>1. o = [Put(s, k, NoVal) EXCEPT !.rc = "OK"] \/ o = [s EXCEPT !.rc = "ERROR"]
    BY <1>2, OutcomesAre
  <2>. QED BY <2>1, PutIs
<1>. QED BY <1>1, <1>2, PutIs

-----------------------------------------------------------------------------
(* The contract.                                                           *)

\* What KVStore's atBegin is mapped to.
BeginMap == [l \in 2..MaxLevel |-> IF l > wt.iTransLevel THEN Visible(wt) ELSE wt.stored]

LEMMA MapIs ==
  ASSUME Sound(wt)
  PROVE  /\ BeginMap[2] = wt.stored
         /\ wt.iTransLevel < 2 => Visible(wt) = wt.stored
         /\ wt.iTransLevel < 2 => BeginMap = [l \in 2..MaxLevel |-> Visible(wt)]
         /\ wt.iTransLevel \in 0..2
<1>1. wt.iTransLevel \in 0..2 /\ (wt.txn = "none" <=> wt.iTransLevel < 2)
  BY DEF Sound
<1>2. wt.iTransLevel < 2 => Visible(wt) = wt.stored
  BY <1>1 DEF Visible
<1>. QED BY <1>1, <1>2, LevelIs DEF BeginMap

LEMMA BeginRefines ==
  ASSUME Sound(wt), Sound(wt)', NEW l \in 1..2, wt'.iTransLevel = l,
         l = wt.iTransLevel + 1 \/ (wt.iTransLevel = 0 /\ l = 2),
         wt'.stored = wt.stored, Visible(wt)' = Visible(wt)
  PROVE  Contract!Next
<1>1. wt.iTransLevel < 2 /\ wt.iTransLevel \in 0..2 /\ Visible(wt) = wt.stored
  BY MapIs
<1>2. BeginMap' = BeginMap
  BY <1>1 DEF BeginMap
<1>3. l \in Contract!Levels
  BY LevelIs DEF Contract!Levels
<1>4. Contract!Begin(l)
  BY <1>2, <1>3 DEF Contract!Begin, BeginMap
<1>. QED BY <1>3, <1>4 DEF Contract!Next

LEMMA CommitRefines ==
  ASSUME Sound(wt), Sound(wt)', NEW l \in 0..1, l < wt.iTransLevel, wt'.iTransLevel = l,
         Visible(wt)' = Visible(wt)
  PROVE  Contract!Next
<1>1. BeginMap' = [m \in 2..MaxLevel |-> IF m <= l THEN BeginMap[m] ELSE Visible(wt)]
  BY DEF BeginMap
<1>2. l \in Contract!Levels
  BY LevelIs DEF Contract!Levels
<1>3. Contract!CommitPhaseTwo(l)
  BY <1>1, <1>2 DEF Contract!CommitPhaseTwo, Contract!WriteLevels, BeginMap
<1>. QED BY <1>2, <1>3 DEF Contract!Next

\* kvwtRollback and kvwtRevert go back to what is stored.
LEMMA UndoRefines ==
  ASSUME Sound(wt), Sound(wt)', NEW l \in 0..2, l <= wt.iTransLevel, wt'.iTransLevel = l,
         wt'.stored = wt.stored, Visible(wt)' = wt.stored
  PROVE  Contract!Next
<1>1. BeginMap' = [m \in 2..MaxLevel |-> wt.stored] /\ BeginMap[2] = wt.stored
  BY MapIs DEF BeginMap
<1>2. l \in Contract!Levels
  BY LevelIs DEF Contract!Levels
<1>3. CASE l = 0
  <2>1. Contract!Restored(0) = wt.stored
    BY <1>1, LevelIs DEF Contract!Restored, BeginMap
  <2>2. BeginMap' = [m \in 2..MaxLevel |-> IF m <= 0 THEN BeginMap[m] ELSE wt.stored]
    BY <1>1
  <2>3. Contract!Rollback(0)
    BY <1>2, <1>3, <2>1, <2>2 DEF Contract!Rollback, Contract!WriteLevels, BeginMap
  <2>. QED BY <1>2, <1>3, <2>3 DEF Contract!Next
<1>4. CASE l > 0
  <2>1. Contract!Restored(l - 1) = wt.stored
    <3>1. l - 1 = 0 \/ l - 1 = 1
      BY <1>4
    <3>2. ~(0 >= MaxLevel) /\ ~(1 >= MaxLevel) /\ 1 + 1 = 2 /\ 1 # 0
      BY LevelIs
    <3>. QED BY <1>1, <3>1, <3>2 DEF Contract!Restored, BeginMap
  <2>2. BeginMap' = [m \in 2..MaxLevel |-> IF m <= l - 1 THEN BeginMap[m] ELSE wt.stored]
    BY <1>1
  <2>3. Contract!Revert(l)
    BY <1>2, <1>4, <2>1, <2>2 DEF Contract!Revert, Contract!WriteLevels, BeginMap
  <2>. QED BY <1>2, <1>4, <2>3 DEF Contract!Next
<1>. QED BY <1>3, <1>4

LEMMA WriteRefines ==
  ASSUME Sound(wt), Sound(wt)', wt.iTransLevel = 2, wt'.iTransLevel = 2, wt'.stored = wt.stored,
         NEW k \in Key, NEW v \in Val \cup {NoVal},
         Visible(wt)' = Visible(wt) \/ Visible(wt)' = [Visible(wt) EXCEPT ![k] = v]
  PROVE  [Contract!Next]_(Contract!vars)
<1>1. CASE Visible(wt)' = Visible(wt)
  <2>1. BeginMap' = BeginMap
    BY <1>1 DEF BeginMap
  <2>. QED BY <1>1, <2>1 DEF Contract!vars, BeginMap
<1>2. CASE Visible(wt)' = [Visible(wt) EXCEPT ![k] = v]
  <2>1. BeginMap' = [m \in 2..MaxLevel |-> IF m <= 2 THEN BeginMap[m] ELSE Visible(wt)']
    BY <1>2 DEF BeginMap
  <2>2. Contract!Write(k, v)
    BY <1>2, <2>1 DEF Contract!Write, Contract!WriteLevels, BeginMap
  <2>. QED BY <2>2 DEF Contract!Next
<1>. QED BY <1>1, <1>2

LEMMA SameRefines ==
  ASSUME wt'.iTransLevel = wt.iTransLevel, wt'.stored = wt.stored, Visible(wt)' = Visible(wt)
  PROVE  UNCHANGED Contract!vars
BY DEF Contract!vars

-----------------------------------------------------------------------------
(* The steps.                                                              *)

Fine == WInv' /\ [Contract!Next]_(Contract!vars)

LEMMA BeginFine ==
  ASSUME Benign, WInv, NEW l \in Level \ {0}, Begin(l)
  PROVE  Fine
<1>1. /\ ~Between /\ l \in 1..2 /\ (l = wt.iTransLevel + 1 \/ (wt.iTransLevel = 0 /\ l = 2))
      /\ wt' \in kvwtBegin(wt, l) /\ between' = between
  BY LevelIs DEF Begin, Benign
<1>2. wt.iTransLevel < 2 /\ l \in 0..2 /\ l > wt.iTransLevel /\ Ended(wt)
  <2>1. wt.iTransLevel \in 0..2 /\ Sound(wt)
    BY DEF WInv, Sound
  <2>2. wt.iTransLevel < 2 /\ l \in 0..2 /\ l > wt.iTransLevel
    BY <1>1, <2>1
  <2>3. Ended(wt)
    BY <2>1, <2>2 DEF Sound, Ended
  <2>. QED BY <2>2, <2>3
<1>3. /\ Sound(wt') /\ wt'.iTransLevel = l /\ wt'.txn # "prepared"
      /\ wt'.stored = wt.stored /\ Visible(wt') = wt.stored
  BY <1>1, <1>2, BeginIs
<1>4. Visible(wt) = wt.stored
  BY <1>2, MapIs DEF WInv
<1>5. WInv'
  BY <1>1, <1>3 DEF WInv, Between
<1>. QED BY <1>1, <1>3, <1>4, <1>5, BeginRefines DEF Fine, WInv

LEMMA CommitsAre ==
  ASSUME Benign, Sound(wt), NEW l \in Level, MayCommitTo(l)
  PROVE  /\ l = 0 => wt.iTransLevel = 1
         /\ l \in 0..1 /\ l + 1 = wt.iTransLevel
BY LevelIs DEF Benign, Sound, MayCommitTo

LEMMA PhaseOneFine ==
  ASSUME Benign, WInv, NEW l \in Level, PhaseOne(l)
  PROVE  Fine
<1>1. /\ ~Between /\ MayCommitTo(l) /\ wt' \in kvwtCommitPhaseOne(wt, l)
      /\ between' = IF wt'.rc = "OK" THEN l ELSE MaxLevel
      /\ Sound(wt) /\ wt.txn # "prepared"
  BY DEF PhaseOne, WInv
<1>2. l \in 0..1 /\ l + 1 = wt.iTransLevel
  BY <1>1, CommitsAre
<1>3. /\ Sound(wt') /\ wt'.iTransLevel = wt.iTransLevel
      /\ wt'.stored = wt.stored /\ Visible(wt') = Visible(wt)
      /\ wt'.txn = "prepared" => wt'.rc = "OK"
  BY <1>1, <1>2, PhaseOneIs
<1>4. WInv'
  BY <1>1, <1>2, <1>3, LevelIs DEF WInv, Between
<1>. QED BY <1>3, <1>4, SameRefines DEF Fine

LEMMA PhaseTwoFine ==
  ASSUME Benign, WInv, NEW l \in Level, PhaseTwo(l)
  PROVE  Fine
<1>1. /\ Between /\ between = l /\ wt' \in kvwtCommitPhaseTwo(wt, l) /\ between' = MaxLevel
      /\ Sound(wt) /\ l + 1 = wt.iTransLevel
  BY DEF PhaseTwo, WInv
<1>2. l \in 0..1 /\ l < wt.iTransLevel
  BY <1>1, LevelIs DEF Sound
<1>3. Sound(wt') /\ wt'.iTransLevel = l /\ wt'.txn = "none" /\ Visible(wt') = Visible(wt)
  BY <1>1, <1>2, PhaseTwoIs
<1>4. WInv'
  BY <1>1, <1>3, LevelIs DEF WInv, Between
<1>. QED BY <1>1, <1>2, <1>3, <1>4, CommitRefines DEF Fine, WInv

LEMMA CommitFine ==
  ASSUME Benign, WInv, NEW l \in Level, Commit(l)
  PROVE  Fine
<1>1. PICK one \in kvwtCommitPhaseOne(wt, l) :
        IF one.rc = "OK" THEN wt' \in kvwtCommitPhaseTwo(one, l) ELSE wt' = one
  BY DEF Commit
<1>2. ~Between /\ MayCommitTo(l) /\ between' = between /\ Sound(wt) /\ wt.txn # "prepared"
  BY DEF Commit, WInv
<1>3. l \in 0..1 /\ l + 1 = wt.iTransLevel
  BY <1>2, CommitsAre
<1>4. /\ Sound(one) /\ one.iTransLevel = wt.iTransLevel
      /\ one.stored = wt.stored /\ Visible(one) = Visible(wt)
      /\ one.txn = "prepared" => one.rc = "OK"
  BY <1>2, <1>3, PhaseOneIs
<1>5. CASE one.rc = "OK"
  <2>1. Sound(wt') /\ wt'.iTransLevel = l /\ wt'.txn = "none" /\ Visible(wt') = Visible(wt)
    BY <1>1, <1>3, <1>4, <1>5, PhaseTwoIs
  <2>2. WInv'
    BY <1>2, <2>1 DEF WInv, Between
  <2>3. l < wt.iTransLevel
    BY <1>3
  <2>. QED BY <1>2, <1>3, <2>1, <2>2, <2>3, CommitRefines DEF Fine, WInv
<1>6. CASE one.rc # "OK"
  <2>1. wt' = one
    BY <1>1, <1>6
  <2>2. WInv'
    BY <1>2, <1>4, <1>6, <2>1 DEF WInv, Between
  <2>. QED BY <1>4, <2>1, <2>2, SameRefines DEF Fine
<1>. QED BY <1>5, <1>6

LEMMA RollbackFine ==
  ASSUME Benign, WInv, NEW l \in Level, Rollback(l)
  PROVE  Fine
<1>1. /\ l <= wt.iTransLevel /\ wt' \in kvwtRollback(wt, l) /\ between' = MaxLevel /\ Sound(wt)
  BY DEF Rollback, WInv
<1>2. l \in 0..2
  BY <1>1, LevelIs DEF Sound
<1>3. /\ Sound(wt') /\ wt'.iTransLevel = l /\ wt'.txn # "prepared"
      /\ wt'.stored = wt.stored /\ Visible(wt') = wt.stored
  BY <1>1, <1>2, RollbackIs
<1>4. WInv'
  BY <1>1, <1>3, LevelIs DEF WInv, Between
<1>. QED BY <1>1, <1>2, <1>3, <1>4, UndoRefines DEF Fine, WInv

LEMMA RevertFine ==
  ASSUME Benign, WInv, NEW l \in Level, Revert(l)
  PROVE  Fine
<1>1. /\ ~Between /\ 0 < l /\ l <= wt.iTransLevel /\ wt' \in kvwtRevert(wt, l)
      /\ between' = between /\ Sound(wt)
  BY DEF Revert, WInv
<1>2. l \in 1..2 /\ l \in 0..2
  BY <1>1, LevelIs DEF Sound
<1>3. /\ Sound(wt') /\ wt'.iTransLevel = l /\ wt'.txn # "prepared"
      /\ wt'.stored = wt.stored /\ Visible(wt') = wt.stored
  BY <1>1, <1>2, RevertIs
<1>4. WInv'
  BY <1>1, <1>3 DEF WInv, Between
<1>. QED BY <1>1, <1>2, <1>3, <1>4, UndoRefines DEF Fine, WInv

LEMMA WriteFine ==
  ASSUME Benign, WInv, NEW k \in Key,
         (\E v \in Val : Write(k, v)) \/ Delete(k)
  PROVE  Fine
<1>1. ~Between /\ wt.iTransLevel = 2 /\ between' = between /\ Sound(wt) /\ wt.txn # "prepared"
  BY DEF Write, Delete, WInv, Sound
<1>2. PICK v \in Val \cup {NoVal} :
        /\ Sound(wt') /\ wt'.iTransLevel = 2 /\ wt'.txn = wt.txn /\ wt'.stored = wt.stored
        /\ Visible(wt') = Visible(wt) \/ Visible(wt') = [Visible(wt) EXCEPT ![k] = v]
  <2>1. CASE \E v \in Val : Write(k, v)
    <3>1. PICK v \in Val : wt' \in kvwtReplace(wt, k, v)
      BY <2>1 DEF Write
    <3>. QED BY <1>1, <3>1, ReplaceIs
  <2>2. CASE Delete(k)
    <3>1. wt' \in kvwtDelete(wt, k)
      BY <2>2 DEF Delete
    <3>. QED BY <1>1, <3>1, DeleteIs
  <2>. QED BY <2>1, <2>2
<1>3. WInv'
  BY <1>1, <1>2 DEF WInv, Between
<1>. QED BY <1>1, <1>2, <1>3, WriteRefines DEF Fine, WInv

LEMMA InitFine == Init => WInv /\ Contract!Init
<1>. SUFFICES ASSUME Init PROVE WInv /\ Contract!Init
  OBVIOUS
<1>1. Empty \in Content /\ 0 \in -1..MaxLevel /\ MaxLevel \in Level
  BY LevelIs DEF Empty, Content
<1>2. Sound(wt)
  BY <1>1 DEF Init, Sound, State
<1>3. WInv
  BY <1>1, <1>2 DEF Init, WInv, Between
<1>4. wt.iTransLevel = 0 /\ Visible(wt) = Empty
  BY DEF Init, Visible
<1>5. BeginMap = [l \in 2..MaxLevel |-> Empty]
  BY <1>4 DEF BeginMap
<1>. QED BY <1>3, <1>4, <1>5 DEF Contract!Init, Contract!WriteLevels, BeginMap, Empty

LEMMA NextFine ==
  ASSUME Benign, WInv, [Next]_vars
  PROVE  Fine
<1>1. CASE Next
  BY <1>1, BeginFine, PhaseOneFine, PhaseTwoFine, CommitFine, RollbackFine, RevertFine, WriteFine
     DEF Next
<1>2. CASE UNCHANGED vars
  <2>1. wt' = wt /\ between' = between
    BY <1>2 DEF vars
  <2>2. UNCHANGED Contract!vars
    BY <2>1, SameRefines DEF Visible
  <2>. QED BY <2>1, <2>2 DEF Fine, WInv, Sound, Between
<1>. QED BY <1>1, <1>2

-----------------------------------------------------------------------------
\* At levels up to 2 the session has a transaction exactly while the store is at
\* level 2, and it is prepared only between the phases of its commit: nothing is
\* written beside the transaction, whichever call fails of those that may
\* (kvwt_common.c:1900-2560).
THEOREM SessionStaysSound ==
  ASSUME Benign
  PROVE  Spec => []SessionFollowsLevel
<1>1. WInv => SessionFollowsLevel
  <2>. SUFFICES ASSUME WInv PROVE SessionFollowsLevel
    OBVIOUS
  <2>1. \A l \in Level : l \in Int /\ wt.iTransLevel \in 0..2
    BY LevelIs DEF WInv, Sound
  <2>. QED BY <2>1 DEF WInv, Sound, SessionFollowsLevel
<1>2. WInv /\ [Next]_vars => WInv'
  BY NextFine DEF Fine
<1>. QED BY InitFine, <1>1, <1>2, PTL DEF Spec

\* The engine keeps the promises of kv.h up to level 2: each step is one of KVStore,
\* or changes nothing that a client of the store sees (kv.h:20-60).
THEOREM EngineKeepsContract ==
  ASSUME Benign
  PROVE  Spec => ImplementsKVStore
<1>1. WInv /\ [Next]_vars => WInv' /\ [Contract!Next]_(Contract!vars)
  BY NextFine DEF Fine
<1>. QED BY InitFine, <1>1, PTL DEF Spec, ImplementsKVStore, Contract!Spec
=============================================================================
