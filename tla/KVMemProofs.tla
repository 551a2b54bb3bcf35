---------------------------- MODULE KVMemProofs ----------------------------
(***************************************************************************)
(* Theorems about KVMem for every set of keys and values and every bound   *)
(* on the transaction level and on the number of change records.           *)
(***************************************************************************)
EXTENDS KVMem, TLAPS, WellFoundedInduction, SequenceTheorems

-----------------------------------------------------------------------------
(* Where a node's records are cut by a rollback.                           *)

LEMMA NatMin ==
  ASSUME NEW S, S \subseteq Nat, S # {}
  PROVE  \E m \in S : \A n \in S : m <= n
<1>1. \E m \in S : \A n \in S : <<n, m>> \notin OpToRel(<, Nat)
  BY NatLessThanWellFounded, WFMin
<1>2. PICK m \in S : \A n \in S : <<n, m>> \notin OpToRel(<, Nat)
  BY <1>1
<1>3. \A n \in S : ~ (n < m)
  BY <1>2 DEF OpToRel
<1>. QED BY <1>3

LEMMA RecordTypes ==
  ASSUME NEW s \in Seq(KVMemChng), NEW i \in DOMAIN s
  PROVE  /\ i \in 1..Len(s)
         /\ s[i] = [lvl |-> s[i].lvl, pData |-> s[i].pData,
                    oldTrans |-> s[i].oldTrans]
         /\ s[i].lvl \in WriteLevels /\ s[i].lvl \in Nat /\ s[i].lvl >= 2
         /\ s[i].pData \in Data
         /\ s[i].oldTrans \in Levels /\ s[i].oldTrans \in Nat
<1>1. DOMAIN s = 1..Len(s) /\ s[i] \in KVMemChng
  BY LenProperties, ElementOfSeq
<1>. QED BY <1>1, KVMemAssumption DEF KVMemChng, WriteLevels, Levels

LEMMA KeptCuts ==
  ASSUME NEW s \in Seq(KVMemChng), Ascending(s), NEW l \in Nat
  PROVE  /\ Kept(s, l) \in 0..Len(s)
         /\ \A i \in DOMAIN s : i <= Kept(s, l) <=> s[i].lvl <= l
<1>. DEFINE T == {n \in 0..Len(s) : \A i \in DOMAIN s : i > n => s[i].lvl > l}
<1>1. Len(s) \in T
  BY LenProperties
<1>2. PICK n \in T : \A m \in T : n <= m
  <2>1. T \subseteq Nat /\ T # {}
    BY <1>1, LenProperties
  <2>. QED BY <2>1, NatMin
<1>3. \A i \in DOMAIN s : s[i].lvl \in Nat
  BY RecordTypes
<1>4. \A i \in DOMAIN s : i <= n => s[i].lvl <= l
  <2>. SUFFICES ASSUME NEW i \in DOMAIN s, i <= n, s[i].lvl > l PROVE FALSE
    BY <1>3
  <2>1. n \in 1..Len(s) /\ n - 1 \in 0..Len(s) /\ n \in DOMAIN s
    BY LenProperties
  <2>2. s[n].lvl > l
    BY <2>1, <1>3 DEF Ascending
  <2>3. n - 1 \in T
    <3>. SUFFICES ASSUME NEW j \in DOMAIN s, j > n - 1 PROVE s[j].lvl > l
      BY <2>1
    <3>1. j = n \/ j > n
      BY <2>1, LenProperties
    <3>. QED BY <3>1, <2>2
  <2>4. n <= n - 1
    BY <2>3, <1>2
  <2>. QED BY <2>4, <2>1
<1>5. \A i \in DOMAIN s : i <= n <=> s[i].lvl <= l
  BY <1>2, <1>3, <1>4, LenProperties
<1>. QED BY <1>5 DEF Kept

LEMMA KeptIs ==
  ASSUME NEW s \in Seq(KVMemChng), Ascending(s), NEW l \in Nat,
         NEW n \in 0..Len(s), \A i \in DOMAIN s : i <= n <=> s[i].lvl <= l
  PROVE  Kept(s, l) = n
<1>. DEFINE k == Kept(s, l)
<1>1. k \in 0..Len(s) /\ \A i \in DOMAIN s : i <= k <=> s[i].lvl <= l
  BY KeptCuts
<1>2. \A i \in DOMAIN s : i <= k <=> i <= n
  BY <1>1
<1>3. k \in Nat /\ n \in Nat /\ DOMAIN s = 1..Len(s) /\ Len(s) \in Nat
  BY <1>1, LenProperties
<1>4. CASE k < n
  <2>1. n \in DOMAIN s
    BY <1>3, <1>4
  <2>. QED BY <1>2, <1>3, <1>4, <2>1
<1>5. CASE n < k
  <2>1. k \in DOMAIN s
    BY <1>1, <1>3, <1>5
  <2>. QED BY <1>2, <1>3, <1>5, <2>1
<1>. QED BY <1>3, <1>4, <1>5

LEMMA NothingAbove ==
  ASSUME NEW s \in Seq(KVMemChng), NEW top \in Levels, NEW mx,
         ConsistentLog(s, mx, top), NEW l \in Nat, l >= top
  PROVE  Kept(s, l) = Len(s) /\ ~Undone(s, l) /\ SubSeq(s, 1, Kept(s, l)) = s
<1>1. Ascending(s) /\ \A i \in DOMAIN s : i <= Len(s) <=> s[i].lvl <= l
  BY RecordTypes, KVMemAssumption DEF ConsistentLog, Levels
<1>2. Kept(s, l) = Len(s)
  BY <1>1, KeptIs, LenProperties
<1>3. SubSeq(s, 1, Len(s)) = s
  BY LenProperties
<1>. QED BY <1>2, <1>3, LenProperties DEF Undone

\* Only the first record of a node can be that of its creation.
LEMMA OldTransTypes ==
  ASSUME NEW s \in Seq(KVMemChng), NEW top, NEW mx, ConsistentLog(s, mx, top),
         NEW i \in DOMAIN s
  PROVE  s[i].oldTrans = 0 <=> i = 1
<1>1. i = 1 => s[i].oldTrans = 0
  BY DEF ConsistentLog
<1>2. ASSUME i # 1 PROVE s[i].oldTrans # 0
  <2>1. i > 1 /\ i - 1 \in DOMAIN s
    BY <1>2, RecordTypes, LenProperties
  <2>2. s[i - 1].lvl <= s[i].oldTrans
    BY <2>1 DEF ConsistentLog
  <2>3. s[i - 1].lvl >= 2 /\ s[i - 1].lvl \in Nat
    BY <2>1, RecordTypes
  <2>. QED BY <2>2, <2>3, RecordTypes
<1>. QED BY <1>1, <1>2

\* kvmemNewChng at a level where the node has not been logged yet.
LEMMA AppendLog ==
  ASSUME NEW s \in Seq(KVMemChng), NEW top \in WriteLevels, NEW mx \in Levels,
         ConsistentLog(s, mx, top), mx # top, NEW d \in Data,
         NEW r, r = [lvl |-> top, pData |-> d, oldTrans |-> mx]
  PROVE  /\ Append(s, r) \in Seq(KVMemChng)
         /\ ConsistentLog(Append(s, r), top, top)
         /\ \A l \in Nat : l < top =>
              /\ Undone(Append(s, r), l)
              /\ Oldest(Append(s, r), l) =
                   IF Undone(s, l) THEN Oldest(s, l) ELSE r
<1>. DEFINE t == Append(s, r)
<1>1. r \in KVMemChng
  BY DEF KVMemChng
<1>2. /\ t \in Seq(KVMemChng) /\ Len(t) = Len(s) + 1 /\ Len(s) \in Nat
      /\ DOMAIN s = 1..Len(s) /\ DOMAIN t = 1..Len(t)
      /\ t[Len(t)] = r /\ t # <<>>
      /\ \A i \in DOMAIN s : t[i] = s[i]
  BY <1>1, LenProperties, AppendProperties
<1>3. \A i \in DOMAIN s : s[i].lvl <= mx /\ s[i].lvl < top
  <2>. SUFFICES ASSUME NEW i \in DOMAIN s PROVE s[i].lvl <= mx /\ s[i].lvl < top
    OBVIOUS
  <2>1. Len(s) \in DOMAIN s /\ i <= Len(s) /\ s # <<>>
    BY <1>2
  <2>2. mx = s[Len(s)].lvl /\ s[i].lvl <= s[Len(s)].lvl /\ s[Len(s)].lvl <= top
    BY <2>1 DEF ConsistentLog, Ascending
  <2>. QED BY <2>1, <2>2, RecordTypes, KVMemAssumption DEF WriteLevels
<1>4. Ascending(t)
  <2>. SUFFICES ASSUME NEW i \in DOMAIN t, NEW j \in DOMAIN t, i <= j
                PROVE  t[i].lvl <= t[j].lvl
    BY DEF Ascending
  <2>1. CASE j \in DOMAIN s
    BY <2>1, <1>2 DEF ConsistentLog, Ascending
  <2>2. CASE j = Len(t) /\ i \in DOMAIN s
    BY <2>2, <1>2, <1>3, RecordTypes, KVMemAssumption DEF WriteLevels
  <2>3. CASE i = Len(t) /\ j = Len(t)
    BY <2>3, <1>2, KVMemAssumption DEF WriteLevels
  <2>. QED BY <2>1, <2>2, <2>3, <1>2
<1>5. ConsistentLog(t, top, top)
  <2>1. ASSUME NEW i \in DOMAIN t
        PROVE  /\ t[i].lvl <= top
               /\ i = 1 => t[i].oldTrans = 0
               /\ i > 1 => /\ t[i - 1].lvl <= t[i].oldTrans
                           /\ t[i - 1].lvl < t[i].lvl
                                => t[i].oldTrans = t[i - 1].lvl
    <3>1. CASE i \in DOMAIN s
      <4>1. i > 1 => i - 1 \in DOMAIN s
        BY <3>1, <1>2
      <4>. QED BY <3>1, <4>1, <1>2 DEF ConsistentLog
    <3>2. CASE i = Len(t)
      <4>1. CASE i = 1
        BY <4>1, <3>2, <1>2, KVMemAssumption DEF ConsistentLog, WriteLevels
      <4>2. CASE i > 1
        <5>1. i - 1 = Len(s) /\ Len(s) \in DOMAIN s /\ s # <<>>
          BY <4>2, <3>2, <1>2
        <5>2. mx = s[Len(s)].lvl
          BY <5>1 DEF ConsistentLog
        <5>. QED BY <4>2, <3>2, <5>1, <5>2, <1>2, KVMemAssumption
                 DEF WriteLevels, Levels
      <4>. QED BY <4>1, <4>2, <1>2
    <3>. QED BY <3>1, <3>2, <1>2
  <2>2. top = t[Len(t)].lvl
    BY <1>2
  <2>. QED BY <2>1, <2>2, <1>2, <1>4 DEF ConsistentLog
<1>6. ASSUME NEW l \in Nat, l < top
      PROVE  /\ Undone(t, l)
             /\ Oldest(t, l) = IF Undone(s, l) THEN Oldest(s, l) ELSE r
  <2>. DEFINE n == Kept(s, l)
  <2>1. n \in 0..Len(s) /\ \A i \in DOMAIN s : i <= n <=> s[i].lvl <= l
    BY KeptCuts DEF ConsistentLog
  <2>2. \A i \in DOMAIN t : i <= n <=> t[i].lvl <= l
    <3>. SUFFICES ASSUME NEW i \in DOMAIN t PROVE i <= n <=> t[i].lvl <= l
      OBVIOUS
    <3>1. CASE i \in DOMAIN s
      BY <3>1, <1>2, <2>1
    <3>2. CASE i = Len(t)
      BY <3>2, <1>2, <2>1, <1>6, KVMemAssumption DEF WriteLevels
    <3>. QED BY <3>1, <3>2, <1>2
  <2>3. n \in 0..Len(t)
    BY <2>1, <1>2
  <2>4. Kept(t, l) = n
    BY <2>2, <2>3, <1>2, <1>4, KeptIs
  <2>5. Undone(t, l)
    BY <2>1, <2>4, <1>2 DEF Undone
  <2>6. CASE Undone(s, l)
    <3>1. n + 1 \in DOMAIN s
      BY <2>6, <2>1, <1>2 DEF Undone
    <3>. QED BY <3>1, <2>4, <2>5, <2>6, <1>2 DEF Oldest
  <2>7. CASE ~Undone(s, l)
    <3>1. n + 1 = Len(t)
      BY <2>7, <2>1, <1>2 DEF Undone
    <3>. QED BY <3>1, <2>4, <2>5, <2>7, <1>2 DEF Oldest
  <2>. QED BY <2>5, <2>6, <2>7
<1>. QED BY <1>2, <1>5, <1>6

\* kvmemRollback to level l.
LEMMA CutLog ==
  ASSUME NEW s \in Seq(KVMemChng), NEW top \in Levels, NEW mx \in Levels,
         ConsistentLog(s, mx, top), NEW l \in Levels, l <= top,
         NEW t, t = SubSeq(s, 1, Kept(s, l))
  PROVE  /\ t \in Seq(KVMemChng)
         /\ Len(t) = Kept(s, l)
         /\ Undone(s, l) => Kept(s, l) + 1 \in DOMAIN s
         /\ ConsistentLog(t, IF Undone(s, l) THEN Oldest(s, l).oldTrans
                             ELSE mx, l)
         /\ ~Undone(s, l) => t = s
         /\ \A m \in Nat : m <= l =>
              /\ Undone(t, m) => Undone(s, m) /\ Oldest(t, m) = Oldest(s, m)
              /\ ~Undone(t, m) /\ Undone(s, m)
                   => Undone(s, l) /\ Oldest(s, l) = Oldest(s, m)
              /\ Undone(s, l) => Undone(s, m)
<1>. DEFINE n == Kept(s, l)
<1>. USE KVMemAssumption DEF Levels
<1>1. n \in 0..Len(s) /\ \A i \in DOMAIN s : i <= n <=> s[i].lvl <= l
  BY KeptCuts DEF ConsistentLog
<1>2. /\ DOMAIN s = 1..Len(s) /\ Len(s) \in Nat /\ n \in Nat
      /\ t \in Seq(KVMemChng) /\ Len(t) = n /\ DOMAIN t = 1..n
      /\ \A i \in 1..n : t[i] = s[i]
  <2>1. \A i \in 1..n : s[i] \in KVMemChng
    BY <1>1, LenProperties, ElementOfSeq
  <2>. QED BY <1>1, <2>1, LenProperties, SubSeqProperties
<1>3. Undone(s, l) => n + 1 \in DOMAIN s
  BY <1>1, <1>2 DEF Undone
<1>4. ~Undone(s, l) => t = s
  BY <1>1, <1>2, LenProperties DEF Undone
<1>5. Ascending(t)
  BY <1>1, <1>2 DEF ConsistentLog, Ascending
<1>6. ASSUME NEW i \in DOMAIN t
      PROVE  /\ t[i].lvl <= l
             /\ i = 1 => t[i].oldTrans = 0
             /\ i > 1 => /\ t[i - 1].lvl <= t[i].oldTrans
                         /\ t[i - 1].lvl < t[i].lvl
                              => t[i].oldTrans = t[i - 1].lvl
  <2>1. i \in DOMAIN s /\ t[i] = s[i] /\ (i > 1 => t[i - 1] = s[i - 1])
    BY <1>1, <1>2, SMTT(20)
  <2>2. t[i].lvl <= l
    BY <1>1, <1>2, <2>1
  <2>. QED BY <2>1, <2>2 DEF ConsistentLog
<1>7. ASSUME Undone(s, l)
      PROVE  ConsistentLog(t, Oldest(s, l).oldTrans, l)
  <2>1. n + 1 \in DOMAIN s /\ Oldest(s, l) = s[n + 1] /\ s[n + 1].lvl > l
    <3>1. n + 1 \in DOMAIN s /\ ~ (n + 1 <= n)
      BY <1>3, <1>7, <1>2
    <3>. QED BY <3>1, <1>1, RecordTypes DEF Oldest
  <2>2. Oldest(s, l).oldTrans = IF t = <<>> THEN 0 ELSE t[Len(t)].lvl
    <3>1. CASE n = 0
      BY <3>1, <2>1, <1>2 DEF ConsistentLog
    <3>2. CASE n > 0
      <4>1. n \in DOMAIN s /\ t[n] = s[n] /\ t # <<>> /\ s[n].lvl <= l
        BY <3>2, <1>1, <1>2
      <4>2. s[n].lvl < s[n + 1].lvl
        BY <4>1, <2>1, RecordTypes
      <4>3. s[n + 1].oldTrans = s[n].lvl
        <5>1. n + 1 > 1 /\ (n + 1) - 1 = n
          BY <3>2, <1>2
        <5>2. \A i \in DOMAIN s : i > 1 /\ s[i - 1].lvl < s[i].lvl
                                   => s[i].oldTrans = s[i - 1].lvl
          BY DEF ConsistentLog
        <5>3. n + 1 > 1 /\ s[(n + 1) - 1].lvl < s[n + 1].lvl
                => s[n + 1].oldTrans = s[(n + 1) - 1].lvl
          BY <5>2, <2>1
        <5>. QED BY <5>1, <5>3, <4>2
      <4>. QED BY <4>1, <4>3, <2>1, <1>2
    <3>. QED BY <3>1, <3>2, <1>2
  <2>. QED BY <2>2, <1>5, <1>6 DEF ConsistentLog
<1>8. ASSUME ~Undone(s, l)
      PROVE  ConsistentLog(t, mx, l)
  <2>1. mx = IF t = <<>> THEN 0 ELSE t[Len(t)].lvl
    BY <1>8, <1>4 DEF ConsistentLog
  <2>. QED BY <2>1, <1>5, <1>6 DEF ConsistentLog
<1>9. ASSUME NEW m \in Nat, m <= l
      PROVE  /\ Undone(t, m) => Undone(s, m) /\ Oldest(t, m) = Oldest(s, m)
             /\ ~Undone(t, m) /\ Undone(s, m)
                  => Undone(s, l) /\ Oldest(s, l) = Oldest(s, m)
             /\ Undone(s, l) => Undone(s, m)
  <2>. DEFINE q == Kept(s, m)
  <2>1. q \in 0..Len(s) /\ \A i \in DOMAIN s : i <= q <=> s[i].lvl <= m
    BY KeptCuts DEF ConsistentLog
  <2>2. q <= n
    <3>1. CASE q = 0
      BY <3>1, <1>2
    <3>2. CASE q > 0
      <4>1. q \in DOMAIN s /\ s[q].lvl <= m
        BY <3>2, <2>1, <1>2
      <4>2. s[q].lvl <= l
        BY <4>1, <1>9, RecordTypes
      <4>. QED BY <4>1, <4>2, <1>1
    <3>. QED BY <3>1, <3>2, <2>1, <1>2
  <2>3. \A i \in DOMAIN t : i <= q <=> t[i].lvl <= m
    BY <2>1, <1>2, <1>1
  <2>4. Kept(t, m) = q
    <3>1. q \in 0..Len(t)
      BY <2>1, <2>2, <1>2
    <3>. QED BY <3>1, <2>3, <1>2, <1>5, KeptIs
  <2>5. ASSUME Undone(t, m) PROVE Undone(s, m) /\ Oldest(t, m) = Oldest(s, m)
    <3>1. q < n /\ q + 1 \in 1..n
      BY <2>5, <2>4, <2>1, <1>2 DEF Undone
    <3>. QED BY <3>1, <2>4, <2>1, <1>1, <1>2 DEF Undone, Oldest
  <2>6. ASSUME ~Undone(t, m), Undone(s, m)
        PROVE  Undone(s, l) /\ Oldest(s, l) = Oldest(s, m)
    <3>1. q = n
      BY <2>6, <2>4, <2>2, <2>1, <1>2 DEF Undone
    <3>. QED BY <3>1, <2>6, <2>1, <1>2 DEF Undone, Oldest
  <2>7. Undone(s, l) => Undone(s, m)
    BY <2>1, <2>2, <1>1, <1>2 DEF Undone
  <2>. QED BY <2>5, <2>6, <2>7
<1>. QED BY <1>2, <1>3, <1>4, <1>7, <1>8, <1>9

\* kvmemCommitPhaseTwo to a level l above 1.
LEMMA MergeLog ==
  ASSUME NEW s \in Seq(KVMemChng), NEW top \in Levels, NEW mx \in Levels,
         ConsistentLog(s, mx, top), NEW l \in WriteLevels, l < top,
         NEW t, t = Spliced(s, l)
  PROVE  /\ t \in Seq(KVMemChng)
         /\ t = <<>> <=> s = <<>>
         /\ ConsistentLog(t, IF \E i \in DOMAIN s : s[i].lvl > l THEN l ELSE mx,
                          l)
         /\ \A m \in Nat : m < l =>
              /\ Undone(t, m) <=> Undone(s, m)
              /\ Undone(s, m) => Oldest(t, m).pData = Oldest(s, m).pData
<1>. USE KVMemAssumption DEF Levels, WriteLevels
<1>1. /\ DOMAIN s = 1..Len(s) /\ Len(s) \in Nat /\ DOMAIN t = DOMAIN s
      /\ \A i \in DOMAIN s : /\ t[i].lvl = IF s[i].lvl > l THEN l ELSE s[i].lvl
                             /\ t[i].oldTrans = s[i].oldTrans
                             /\ t[i].pData = s[i].pData
                             /\ t[i] \in KVMemChng
  <2>1. DOMAIN s = 1..Len(s) /\ Len(s) \in Nat /\ DOMAIN t = DOMAIN s
    BY LenProperties DEF Spliced
  <2>. SUFFICES ASSUME NEW i \in DOMAIN s
                PROVE  /\ t[i].lvl = IF s[i].lvl > l THEN l ELSE s[i].lvl
                       /\ t[i].oldTrans = s[i].oldTrans
                       /\ t[i].pData = s[i].pData
                       /\ t[i] \in KVMemChng
    BY <2>1
  <2>2. t[i] = [lvl |-> IF s[i].lvl > l THEN l ELSE s[i].lvl,
                pData |-> s[i].pData, oldTrans |-> s[i].oldTrans]
    BY DEF Spliced
  <2>3. /\ s[i].lvl \in WriteLevels /\ s[i].pData \in Data
        /\ s[i].oldTrans \in Levels
    BY RecordTypes
  <2>4. (IF s[i].lvl > l THEN l ELSE s[i].lvl) \in WriteLevels
    BY <2>3
  <2>. HIDE DEF Levels, WriteLevels
  <2>5. t[i] \in KVMemChng
    BY <2>2, <2>3, <2>4 DEF KVMemChng
  <2>. QED BY <2>2, <2>5
<1>2. t \in Seq(KVMemChng) /\ Len(t) = Len(s)
  <2>1. t = [i \in 1..Len(s) |-> t[i]]
    BY <1>1 DEF Spliced
  <2>2. [i \in 1..Len(s) |-> t[i]] \in Seq(KVMemChng)
    BY <1>1, IsASeq
  <2>. QED BY <2>1, <2>2, <1>1, LenProperties
<1>3. t = <<>> <=> s = <<>>
  BY <1>1, <1>2, EmptySeq, LenProperties
<1>4. Ascending(t)
  <2>. SUFFICES ASSUME NEW i \in DOMAIN t, NEW j \in DOMAIN t, i <= j
                PROVE  t[i].lvl <= t[j].lvl
    BY DEF Ascending
  <2>1. s[i].lvl \in Nat /\ s[j].lvl \in Nat
    BY <1>1, RecordTypes
  <2>2. s[i].lvl <= s[j].lvl
    BY <1>1 DEF ConsistentLog, Ascending
  <2>. QED BY <2>1, <2>2, <1>1
<1>5. ASSUME NEW i \in DOMAIN t
      PROVE  /\ t[i].lvl <= l
             /\ i = 1 => t[i].oldTrans = 0
             /\ i > 1 => /\ t[i - 1].lvl <= t[i].oldTrans
                         /\ t[i - 1].lvl < t[i].lvl
                              => t[i].oldTrans = t[i - 1].lvl
  <2>1. s[i].lvl \in Nat /\ s[i].oldTrans \in Nat
    BY <1>1, RecordTypes
  <2>2. t[i].lvl <= l /\ (i = 1 => t[i].oldTrans = 0)
    BY <2>1, <1>1 DEF ConsistentLog
  <2>3. ASSUME i > 1
        PROVE  /\ t[i - 1].lvl <= t[i].oldTrans
               /\ t[i - 1].lvl < t[i].lvl => t[i].oldTrans = t[i - 1].lvl
    <3>1. i - 1 \in DOMAIN s /\ s[i - 1].lvl \in Nat
      BY <2>3, <1>1, RecordTypes
    <3>2. /\ s[i - 1].lvl <= s[i].oldTrans
          /\ s[i - 1].lvl < s[i].lvl => s[i].oldTrans = s[i - 1].lvl
      BY <2>3, <1>1 DEF ConsistentLog
    <3>. QED BY <3>1, <3>2, <2>1, <1>1
  <2>. QED BY <2>2, <2>3
<1>6. (IF \E i \in DOMAIN s : s[i].lvl > l THEN l ELSE mx)
        = IF t = <<>> THEN 0 ELSE t[Len(t)].lvl
  <2>1. CASE s = <<>>
    BY <2>1, <1>1, <1>3, LenProperties DEF ConsistentLog
  <2>2. CASE s # <<>>
    <3>1. Len(s) \in DOMAIN s /\ mx = s[Len(s)].lvl /\ mx \in Nat
      BY <2>2, <1>1, EmptySeq, LenProperties, RecordTypes DEF ConsistentLog
    <3>2. \A i \in DOMAIN s : s[i].lvl <= mx /\ s[i].lvl \in Nat
      BY <3>1, <1>1, RecordTypes DEF ConsistentLog, Ascending
    <3>. QED BY <3>1, <3>2, <2>2, <1>1, <1>2, <1>3
  <2>. QED BY <2>1, <2>2
<1>7. ASSUME NEW m \in Nat, m < l
      PROVE  /\ Undone(t, m) <=> Undone(s, m)
             /\ Undone(s, m) => Oldest(t, m).pData = Oldest(s, m).pData
  <2>. DEFINE q == Kept(s, m)
  <2>1. q \in 0..Len(s) /\ \A i \in DOMAIN s : i <= q <=> s[i].lvl <= m
    BY KeptCuts DEF ConsistentLog
  <2>2. \A i \in DOMAIN t : i <= q <=> t[i].lvl <= m
    BY <2>1, <1>1, <1>7, RecordTypes, SMTT(20)
  <2>3. Kept(t, m) = q
    BY <2>1, <2>2, <1>2, <1>4, KeptIs
  <2>4. Undone(s, m) => q + 1 \in DOMAIN s
    BY <2>1, <1>1 DEF Undone
  <2>. QED BY <2>3, <2>4, <1>1, <1>2 DEF Undone, Oldest
<1>. QED
  <2>. HIDE DEF Levels, WriteLevels
  <2>1. ConsistentLog(t, IF \E i \in DOMAIN s : s[i].lvl > l THEN l ELSE mx, l)
    BY <1>4, <1>5, <1>6 DEF ConsistentLog
  <2>. QED BY <2>1, <1>2, <1>3, <1>7

-----------------------------------------------------------------------------
(***************************************************************************)
(* The inductive invariant.  None of the three parts is inductive alone:   *)
(* the types of what a rollback restores need the records to be ordered,   *)
(* and a phantom is recognised by the oldTrans of its records.             *)
(***************************************************************************)
IInv == TypeOK /\ LogConsistent /\ PhantomsAreLogged

LEMMA EmptyLog ==
  ASSUME NEW top PROVE ConsistentLog(<<>>, 0, top)
BY EmptySeq DEF ConsistentLog, Ascending

LEMMA InitIInv == Init => IInv
<1>. SUFFICES ASSUME Init PROVE IInv
  OBVIOUS
<1>1. TypeOK
  <2>1. 0 \in Levels /\ NoVal \in Data
    BY KVMemAssumption DEF Levels, Data
  <2>2. <<>> \in Seq(KVMemChng)
    BY EmptySeq
  <2>. QED BY <2>1, <2>2 DEF Init, TypeOK
<1>2. LogConsistent
  BY EmptyLog DEF Init, LogConsistent
<1>3. PhantomsAreLogged
  BY DEF Init, PhantomsAreLogged, Logged
<1>. QED BY <1>1, <1>2, <1>3 DEF IInv

\* Raising the level keeps the records of a node consistent.
LEMMA RaiseLevel ==
  ASSUME NEW s \in Seq(KVMemChng), NEW mx, NEW top \in Levels,
         ConsistentLog(s, mx, top), NEW l \in Levels, top <= l
  PROVE  ConsistentLog(s, mx, l)
<1>1. \A i \in DOMAIN s : s[i].lvl <= l
  BY RecordTypes, KVMemAssumption DEF ConsistentLog, Levels
<1>. QED BY <1>1 DEF ConsistentLog

\* What kvmemNewChng does, with the records consistent before it.
LEMMA NewChngConsistent ==
  ASSUME IInv, NEW k \in Key, iTransLevel >= 2, mxTrans[k] # iTransLevel,
         NewChng(k)
  PROVE  /\ chng' \in [Key -> Seq(KVMemChng)]
         /\ mxTrans' \in [Key -> Levels]
         /\ \A j \in Key : ConsistentLog(chng'[j], mxTrans'[j], iTransLevel)
         /\ \A j \in Key : j # k => chng'[j] = chng[j]
         /\ chng'[k] = Append(chng[k], [lvl |-> iTransLevel, pData |-> pData[k],
                                        oldTrans |-> mxTrans[k]])
         /\ chng'[k] # <<>>
<1>. DEFINE r == [lvl |-> iTransLevel, pData |-> pData[k],
                  oldTrans |-> mxTrans[k]]
<1>1. /\ chng[k] \in Seq(KVMemChng) /\ mxTrans[k] \in Levels
      /\ pData[k] \in Data /\ iTransLevel \in WriteLevels
      /\ iTransLevel \in Levels
      /\ ConsistentLog(chng[k], mxTrans[k], iTransLevel)
  BY KVMemAssumption
     DEF IInv, TypeOK, LogConsistent, Levels, WriteLevels
<1>2. /\ Append(chng[k], r) \in Seq(KVMemChng)
      /\ ConsistentLog(Append(chng[k], r), iTransLevel, iTransLevel)
  BY <1>1, AppendLog
<1>3. /\ chng' = [chng EXCEPT ![k] = Append(chng[k], r)]
      /\ mxTrans' = [mxTrans EXCEPT ![k] = iTransLevel]
  BY DEF NewChng
<1>4. /\ chng'[k] = Append(chng[k], r) /\ mxTrans'[k] = iTransLevel
      /\ \A j \in Key : j # k => chng'[j] = chng[j] /\ mxTrans'[j] = mxTrans[j]
      /\ chng' \in [Key -> Seq(KVMemChng)] /\ mxTrans' \in [Key -> Levels]
  BY <1>1, <1>2, <1>3 DEF IInv, TypeOK
<1>5. \A j \in Key : ConsistentLog(chng'[j], mxTrans'[j], iTransLevel)
  BY <1>2, <1>4 DEF IInv, LogConsistent
<1>6. chng'[k] # <<>>
  <2>1. r \in KVMemChng
    BY <1>1 DEF KVMemChng
  <2>. QED BY <1>1, <1>4, <2>1, AppendProperties, EmptySeq, LenProperties, SMTT(20)
<1>. QED BY <1>4, <1>5, <1>6

\* What undoing the records above level l does.
LEMMA UndoToIInv ==
  ASSUME IInv, NEW l \in Levels, l <= iTransLevel, UndoTo(l),
         NEW m \in Levels, l <= m, iTransLevel' = m
  PROVE  IInv' /\ ~freedUse'
<1>1. ASSUME NEW k \in Key
      PROVE  /\ chng[k] \in Seq(KVMemChng) /\ mxTrans[k] \in Levels
             /\ pData[k] \in Data /\ iTransLevel \in Levels
             /\ ConsistentLog(chng[k], mxTrans[k], iTransLevel)
  BY <1>1 DEF IInv, TypeOK, LogConsistent
<1>2. ASSUME NEW k \in Key
      PROVE  /\ chng'[k] = SubSeq(chng[k], 1, Kept(chng[k], l))
             /\ pData'[k] = IF Undone(chng[k], l)
                            THEN Oldest(chng[k], l).pData ELSE pData[k]
             /\ mxTrans'[k] = IF Undone(chng[k], l)
                              THEN Oldest(chng[k], l).oldTrans ELSE mxTrans[k]
  BY <1>2 DEF UndoTo
<1>3. ASSUME NEW k \in Key
      PROVE  /\ chng'[k] \in Seq(KVMemChng)
             /\ Len(chng'[k]) = Kept(chng[k], l)
             /\ ConsistentLog(chng'[k], mxTrans'[k], l)
             /\ ~Undone(chng[k], l) => chng'[k] = chng[k]
             /\ Undone(chng[k], l) => Kept(chng[k], l) + 1 \in DOMAIN chng[k]
  BY <1>1, <1>2, <1>3, CutLog
<1>4. ASSUME NEW k \in Key, Undone(chng[k], l)
      PROVE  /\ Oldest(chng[k], l).pData \in Data
             /\ Oldest(chng[k], l).oldTrans \in Levels
             /\ Oldest(chng[k], l).oldTrans = 0 <=> Kept(chng[k], l) = 0
  <2>1. Kept(chng[k], l) + 1 \in DOMAIN chng[k] /\ Kept(chng[k], l) \in Nat
    BY <1>1, <1>3, <1>4, KeptCuts DEF ConsistentLog, Levels
  <2>. QED BY <2>1, <1>1, RecordTypes, OldTransTypes DEF Oldest
<1>5. TypeOK'
  <2>1. pData' \in [Key -> Data] /\ mxTrans' \in [Key -> Levels]
    BY <1>1, <1>4 DEF UndoTo
  <2>2. chng' \in [Key -> Seq(KVMemChng)]
    BY <1>2, <1>3 DEF UndoTo
  <2>3. tree' \subseteq Key /\ freedUse' \in BOOLEAN
    BY DEF UndoTo, IInv, TypeOK
  <2>. QED BY <2>1, <2>2, <2>3 DEF TypeOK
<1>6. LogConsistent'
  <2>1. ASSUME NEW k \in Key PROVE ConsistentLog(chng'[k], mxTrans'[k], m)
    BY <1>3, RaiseLevel
  <2>. QED BY <2>1 DEF LogConsistent
<1>7. PhantomsAreLogged'
  <2>. SUFFICES ASSUME NEW k \in Key
                PROVE  /\ k \in tree' => (pData'[k] # NoVal \/ chng'[k] # <<>>)
                       /\ k \notin tree' => (pData'[k] = NoVal /\ chng'[k] = <<>>)
    BY DEF PhantomsAreLogged, Logged
  <2>1. chng'[k] = <<>> <=> Kept(chng[k], l) = 0
    BY <1>3, EmptySeq
  <2>2. CASE ~Undone(chng[k], l)
    <3>1. (k \in tree' <=> k \in tree) /\ pData'[k] = pData[k]
          /\ chng'[k] = chng[k]
      BY <2>2, <1>2, <1>3 DEF UndoTo
    <3>. QED BY <3>1 DEF IInv, PhantomsAreLogged, Logged
  <2>3. CASE Undone(chng[k], l)
    <3>1. k \in tree
      <4>1. chng[k] # <<>>
        BY <2>3, <1>3, EmptySeq
      <4>. QED BY <4>1 DEF IInv, PhantomsAreLogged, Logged
    <3>2. k \in tree' <=> ~Creates(Oldest(chng[k], l))
      BY <2>3, <3>1 DEF UndoTo
    <3>. QED BY <2>1, <2>3, <3>2, <1>2, <1>4 DEF Creates
  <2>. QED BY <2>2, <2>3
<1>8. ~freedUse'
  <2>. SUFFICES ASSUME NEW k \in Key, NEW i \in DOMAIN chng[k],
                       i > Kept(chng[k], l) + 1, Creates(chng[k][i])
                PROVE  FALSE
    BY DEF UndoTo
  <2>1. i = 1
    BY <1>1, OldTransTypes DEF Creates
  <2>2. Kept(chng[k], l) \in Nat
    BY <1>1, KeptCuts DEF ConsistentLog, Levels
  <2>. QED BY <2>1, <2>2
<1>. QED BY <1>5, <1>6, <1>7, <1>8 DEF IInv

LEMMA NextIInv == IInv /\ [Next]_vars => IInv'
<1>. SUFFICES ASSUME IInv, [Next]_vars PROVE IInv'
  OBVIOUS
<1>. USE KVMemAssumption
<1>1. CASE UNCHANGED vars
  BY <1>1 DEF IInv, vars, TypeOK, LogConsistent, PhantomsAreLogged, Logged
<1>2. ASSUME NEW l \in Levels, Begin(l) PROVE IInv'
  <2>1. /\ iTransLevel \in Levels /\ iTransLevel <= l /\ iTransLevel' = l
        /\ UNCHANGED <<tree, pData, mxTrans, chng, freedUse>>
    BY <1>2 DEF Begin, IInv, TypeOK, Levels
  <2>2. TypeOK'
    BY <2>1 DEF IInv, TypeOK
  <2>3. \A k \in Key : ConsistentLog(chng[k], mxTrans[k], l)
    BY <2>1, RaiseLevel DEF IInv, TypeOK, LogConsistent
  <2>4. PhantomsAreLogged'
    BY <2>1 DEF IInv, PhantomsAreLogged, Logged
  <2>. QED BY <2>1, <2>2, <2>3, <2>4 DEF IInv, LogConsistent
<1>3. ASSUME NEW k \in Key, NEW v \in Val, Replace(k, v) PROVE IInv'
  <2>1. CASE k \notin tree \/ mxTrans[k] # iTransLevel
    <3>1. iTransLevel >= 2 /\ NewChng(k)
      BY <1>3, <2>1 DEF Replace
    <3>2. mxTrans[k] # iTransLevel
      <4>1. CASE k \notin tree
        <5>1. chng[k] = <<>> /\ ConsistentLog(chng[k], mxTrans[k], iTransLevel)
          BY <4>1 DEF IInv, PhantomsAreLogged, Logged, LogConsistent
        <5>2. mxTrans[k] = 0
          BY <5>1 DEF ConsistentLog
        <5>. QED BY <5>2, <3>1
      <4>. QED BY <4>1, <2>1
    <3>3. /\ chng' \in [Key -> Seq(KVMemChng)]
          /\ mxTrans' \in [Key -> Levels]
          /\ \A j \in Key : ConsistentLog(chng'[j], mxTrans'[j], iTransLevel)
          /\ \A j \in Key : j # k => chng'[j] = chng[j]
      BY <3>1, <3>2, NewChngConsistent
    <3>4. /\ iTransLevel' = iTransLevel /\ freedUse' = freedUse
          /\ tree' = tree \cup {k}
          /\ pData' = [pData EXCEPT ![k] = v]
      BY <1>3 DEF Replace
    <3>5. TypeOK'
      BY <3>3, <3>4 DEF IInv, TypeOK, Data
    <3>6. LogConsistent'
      BY <3>3, <3>4 DEF LogConsistent
    <3>7. PhantomsAreLogged'
      BY <3>3, <3>4 DEF IInv, TypeOK, PhantomsAreLogged, Logged
    <3>. QED BY <3>5, <3>6, <3>7 DEF IInv
  <2>2. CASE ~(k \notin tree \/ mxTrans[k] # iTransLevel)
    <3>1. /\ iTransLevel' = iTransLevel /\ freedUse' = freedUse
          /\ tree' = tree /\ chng' = chng /\ mxTrans' = mxTrans
          /\ pData' = [pData EXCEPT ![k] = v]
      BY <1>3, <2>2 DEF Replace
    <3>2. TypeOK'
      BY <3>1 DEF IInv, TypeOK, Data
    <3>3. LogConsistent'
      BY <3>1 DEF IInv, LogConsistent
    <3>4. PhantomsAreLogged'
      BY <3>1, <2>2 DEF IInv, TypeOK, PhantomsAreLogged, Logged
    <3>. QED BY <3>2, <3>3, <3>4 DEF IInv
  <2>. QED BY <2>1, <2>2
<1>4. ASSUME NEW k \in Key, Delete(k) PROVE IInv'
  <2>1. /\ iTransLevel' = iTransLevel /\ freedUse' = freedUse
        /\ tree' = tree /\ pData' = [pData EXCEPT ![k] = NoVal]
        /\ iTransLevel >= 2 /\ k \in tree
    BY <1>4 DEF Delete
  <2>2. CASE mxTrans[k] < iTransLevel
    <3>1. NewChng(k) /\ mxTrans[k] # iTransLevel
      BY <1>4, <2>2 DEF Delete, IInv, TypeOK, Levels
    <3>2. /\ chng' \in [Key -> Seq(KVMemChng)]
          /\ mxTrans' \in [Key -> Levels]
          /\ \A j \in Key : ConsistentLog(chng'[j], mxTrans'[j], iTransLevel)
          /\ \A j \in Key : j # k => chng'[j] = chng[j]
          /\ chng'[k] # <<>>
      BY <3>1, <2>1, NewChngConsistent
    <3>3. TypeOK'
      BY <2>1, <3>2 DEF IInv, TypeOK, Data
    <3>4. LogConsistent'
      BY <2>1, <3>2 DEF LogConsistent
    <3>5. PhantomsAreLogged'
      BY <2>1, <3>2 DEF IInv, TypeOK, PhantomsAreLogged, Logged
    <3>. QED BY <3>3, <3>4, <3>5 DEF IInv
  <2>3. CASE ~(mxTrans[k] < iTransLevel)
    <3>1. chng' = chng /\ mxTrans' = mxTrans
      BY <1>4, <2>3 DEF Delete
    <3>2. chng[k] # <<>>
      <4>1. ConsistentLog(chng[k], mxTrans[k], iTransLevel)
        BY DEF IInv, LogConsistent
      <4>. QED BY <4>1, <2>1, <2>3 DEF ConsistentLog, IInv, TypeOK, Levels
    <3>3. TypeOK'
      BY <2>1, <3>1 DEF IInv, TypeOK, Data
    <3>4. LogConsistent'
      BY <2>1, <3>1 DEF IInv, LogConsistent
    <3>5. PhantomsAreLogged'
      BY <2>1, <3>1, <3>2 DEF IInv, TypeOK, PhantomsAreLogged, Logged
    <3>. QED BY <3>3, <3>4, <3>5 DEF IInv
  <2>. QED BY <2>2, <2>3
<1>5. ASSUME NEW l \in WriteLevels, CommitNested(l) PROVE IInv'
  <2>1. /\ l < iTransLevel /\ iTransLevel' = l
        /\ UNCHANGED <<tree, pData, freedUse>>
        /\ chng' = [k \in Key |-> Spliced(chng[k], l)]
    BY <1>5 DEF CommitNested
  <2>2. ASSUME NEW k \in Key
        PROVE  /\ chng'[k] \in Seq(KVMemChng)
               /\ chng'[k] = <<>> <=> chng[k] = <<>>
               /\ ConsistentLog(chng'[k], mxTrans'[k], l)
               /\ mxTrans'[k] \in Levels
    <3>1. /\ chng[k] \in Seq(KVMemChng) /\ mxTrans[k] \in Levels
          /\ iTransLevel \in Levels
          /\ ConsistentLog(chng[k], mxTrans[k], iTransLevel)
      BY DEF IInv, TypeOK, LogConsistent
    <3>2. chng'[k] = Spliced(chng[k], l)
      BY <2>1
    <3>3. mxTrans'[k] = IF \E i \in DOMAIN chng[k] : chng[k][i].lvl > l
                        THEN l ELSE mxTrans[k]
      BY <1>5 DEF CommitNested
    <3>4. l \in Levels
      BY DEF Levels, WriteLevels
    <3>. QED BY <2>1, <3>1, <3>2, <3>3, <3>4, MergeLog
  <2>3. TypeOK'
    <3>1. chng' \in [Key -> Seq(KVMemChng)]
      BY <2>1, <2>2
    <3>2. mxTrans' \in [Key -> Levels]
      BY <1>5, <2>2 DEF CommitNested
    <3>3. iTransLevel' \in Levels
      BY <2>1 DEF Levels, WriteLevels
    <3>. QED BY <3>1, <3>2, <3>3, <2>1 DEF IInv, TypeOK
  <2>4. LogConsistent'
    BY <2>1, <2>2 DEF LogConsistent
  <2>5. PhantomsAreLogged'
    BY <2>1, <2>2 DEF IInv, PhantomsAreLogged, Logged
  <2>. QED BY <2>3, <2>4, <2>5 DEF IInv
<1>6. ASSUME NEW l \in 0..1, CommitOutermost(l) PROVE IInv'
  <2>1. /\ l < iTransLevel /\ iTransLevel' = l /\ l \in Levels
        /\ tree' = {k \in tree : ~Logged(k) \/ pData[k] # NoVal}
        /\ chng' = [k \in Key |-> <<>>]
        /\ freedUse' \in BOOLEAN
        /\ pData' = pData
    BY <1>6 DEF CommitOutermost, Levels
  <2>2. mxTrans' = [k \in Key |-> 0]
    <3>1. ASSUME NEW k \in Key
          PROVE  /\ ~Logged(k) => mxTrans[k] = 0
                 /\ Logged(k) => chng[k][1].oldTrans = 0
      <4>1. /\ ConsistentLog(chng[k], mxTrans[k], iTransLevel)
            /\ chng[k] \in Seq(KVMemChng)
        BY DEF IInv, TypeOK, LogConsistent
      <4>2. Logged(k) => 1 \in DOMAIN chng[k]
        BY <4>1, EmptySeq, LenProperties DEF Logged
      <4>. QED BY <4>1, <4>2 DEF ConsistentLog, Logged
    <3>. QED BY <1>6, <3>1 DEF CommitOutermost
  <2>3. TypeOK'
    <3>1. <<>> \in Seq(KVMemChng) /\ 0 \in Levels
      BY EmptySeq DEF Levels
    <3>. QED BY <2>1, <2>2, <3>1 DEF IInv, TypeOK
  <2>4. LogConsistent'
    BY <2>1, <2>2, EmptyLog DEF LogConsistent
  <2>5. PhantomsAreLogged'
    BY <2>1 DEF IInv, PhantomsAreLogged, Logged
  <2>. QED BY <2>3, <2>4, <2>5 DEF IInv
<1>7. ASSUME NEW l \in Levels, Rollback(l) PROVE IInv'
  <2>1. l <= iTransLevel /\ iTransLevel' = l /\ UndoTo(l) /\ l <= l
    BY <1>7 DEF Rollback, Levels
  <2>. QED BY <2>1, UndoToIInv
<1>8. ASSUME NEW l \in Levels, Revert(l) PROVE IInv'
  <2>1. /\ l - 1 \in Levels /\ l - 1 <= iTransLevel /\ l - 1 <= l
        /\ iTransLevel' = l /\ UndoTo(l - 1)
    BY <1>8 DEF Revert, Levels, IInv, TypeOK
  <2>. QED BY <2>1, UndoToIInv
<1>9. ASSUME Reopen PROVE IInv'
  <2>1. /\ iTransLevel' = 0 /\ tree' = {} /\ pData' = [k \in Key |-> NoVal]
        /\ mxTrans' = [k \in Key |-> 0] /\ chng' = [k \in Key |-> <<>>]
        /\ freedUse' \in BOOLEAN
    BY <1>9 DEF Reopen
  <2>2. 0 \in Levels /\ NoVal \in Data /\ <<>> \in Seq(KVMemChng)
    BY EmptySeq DEF Levels, Data
  <2>3. TypeOK'
    BY <2>1, <2>2 DEF TypeOK
  <2>4. LogConsistent'
    BY <2>1, EmptyLog DEF LogConsistent
  <2>5. PhantomsAreLogged'
    BY <2>1 DEF PhantomsAreLogged, Logged
  <2>. QED BY <2>3, <2>4, <2>5 DEF IInv
<1>. QED
  BY <1>1, <1>2, <1>3, <1>4, <1>5, <1>6, <1>7, <1>8, <1>9 DEF Next

-----------------------------------------------------------------------------
(***************************************************************************)
(* Every variable keeps its type: in particular what kvmemRollback puts    *)
(* back into a node is the payload and the mxTrans of one of its records.  *)
(***************************************************************************)
THEOREM TypeCorrect == Spec => []TypeOK
<1>1. IInv => TypeOK
  BY DEF IInv
<1>. QED BY <1>1, InitIInv, NextIInv, PTL DEF Spec

(***************************************************************************)
(* The change records of kvmemNewChng stay consistent with mxTrans and     *)
(* with the transaction level under every sequence of begins, writes,      *)
(* nested commits, rollbacks and reverts.                                  *)
(***************************************************************************)
THEOREM LogStaysConsistent == Spec => []LogConsistent
<1>1. IInv => LogConsistent
  BY DEF IInv
<1>. QED BY <1>1, InitIInv, NextIInv, PTL DEF Spec

(***************************************************************************)
(* No row without data outlives the transaction that deleted it.           *)
(***************************************************************************)
THEOREM PhantomsStayLogged == Spec => []PhantomsAreLogged
<1>1. IInv => PhantomsAreLogged
  BY DEF IInv
<1>. QED BY <1>1, InitIInv, NextIInv, PTL DEF Spec

(***************************************************************************)
(* kvmemRollback and kvmemRevert only follow change records to nodes that  *)
(* are still in the tree.                                                  *)
(***************************************************************************)
THEOREM RollbackIsSafe == Spec => RollbackFollowsLiveNodes
<1>1. IInv /\ [Next]_vars
        => [(\E l \in Levels : Rollback(l) \/ Revert(l)) => ~freedUse']_vars
  <2>. SUFFICES ASSUME IInv, NEW l \in Levels, Rollback(l) \/ Revert(l)
                PROVE  ~freedUse'
    OBVIOUS
  <2>. USE KVMemAssumption
  <2>1. CASE Rollback(l)
    <3>1. l <= iTransLevel /\ iTransLevel' = l /\ UndoTo(l) /\ l <= l
      BY <2>1 DEF Rollback, Levels
    <3>. QED BY <3>1, UndoToIInv
  <2>2. CASE Revert(l)
    <3>1. /\ l - 1 \in Levels /\ l - 1 <= iTransLevel /\ l - 1 <= l
          /\ iTransLevel' = l /\ UndoTo(l - 1)
      BY <2>2 DEF Revert, Levels, IInv, TypeOK
    <3>. QED BY <3>1, UndoToIInv
  <2>. QED BY <2>1, <2>2
<1>. QED BY <1>1, InitIInv, NextIInv, PTL DEF Spec, RollbackFollowsLiveNodes

-----------------------------------------------------------------------------
(* KVMem implements KVStore.                                               *)

\* A row logged at the present level is undone by every rollback below it.
LEMMA LoggedAtTop ==
  ASSUME NEW s \in Seq(KVMemChng), NEW top \in WriteLevels,
         ConsistentLog(s, top, top), NEW l \in Nat, l < top
  PROVE  Undone(s, l)
<1>1. Kept(s, l) \in 0..Len(s)
      /\ \A i \in DOMAIN s : i <= Kept(s, l) <=> s[i].lvl <= l
  BY KeptCuts DEF ConsistentLog
<1>2. s # <<>> /\ s[Len(s)].lvl = top
  BY KVMemAssumption DEF ConsistentLog, WriteLevels
<1>3. Len(s) \in DOMAIN s /\ Len(s) \in Nat
  BY <1>2, EmptySeq, LenProperties
<1>4. ~ (Len(s) <= Kept(s, l))
  BY <1>1, <1>2, <1>3, KVMemAssumption DEF WriteLevels
<1>. QED BY <1>1, <1>3, <1>4 DEF Undone

\* No record is in a list of level 1: rolling back to 0 undoes what rolling
\* back to 1 does.
LEMMA KeptAtReadLevel ==
  ASSUME NEW s \in Seq(KVMemChng), Ascending(s)
  PROVE  Kept(s, 0) = Kept(s, 1)
<1>1. Kept(s, 1) \in 0..Len(s)
      /\ \A i \in DOMAIN s : i <= Kept(s, 1) <=> s[i].lvl <= 1
  BY KeptCuts
<1>2. \A i \in DOMAIN s : s[i].lvl <= 1 <=> s[i].lvl <= 0
  BY RecordTypes
<1>. QED BY <1>1, <1>2, KeptIs

\* The content that the mapping gives to a level, key by key.
LEMMA AtBeginIs ==
  ASSUME NEW l \in WriteLevels, NEW k \in Key
  PROVE  /\ atBegin[l][k] = IF Undone(chng[k], l - 1)
                            THEN Oldest(chng[k], l - 1).pData ELSE pData[k]
         /\ atBegin'[l][k] = IF Undone(chng'[k], l - 1)
                             THEN Oldest(chng'[k], l - 1).pData ELSE pData'[k]
BY DEF atBegin

\* Two maps from levels to contents are equal if they agree on every key.
LEMMA ContentsEqual ==
  ASSUME NEW f \in [WriteLevels -> [Key -> Data]],
         NEW g \in [WriteLevels -> [Key -> Data]],
         \A l \in WriteLevels : \A k \in Key : f[l][k] = g[l][k]
  PROVE  f = g
<1>1. \A l \in WriteLevels : f[l] = g[l]
  OBVIOUS
<1>. QED BY <1>1

LEMMA AtBeginType ==
  /\ IInv => atBegin \in [WriteLevels -> [Key -> Data]]
  /\ IInv' => atBegin' \in [WriteLevels -> [Key -> Data]]
<1>. USE KVMemAssumption
<1>1. ASSUME NEW s \in Seq(KVMemChng), Ascending(s), NEW m \in Nat, Undone(s, m)
      PROVE  Oldest(s, m).pData \in Data
  <2>1. Kept(s, m) + 1 \in DOMAIN s
    BY <1>1, KeptCuts, LenProperties DEF Undone
  <2>. QED BY <2>1, RecordTypes DEF Oldest
<1>2. \A l \in WriteLevels : l - 1 \in Nat
  BY DEF WriteLevels
<1>3. ASSUME IInv, NEW l \in WriteLevels, NEW k \in Key
      PROVE  (IF Undone(chng[k], l - 1) THEN Oldest(chng[k], l - 1).pData
              ELSE pData[k]) \in Data
  BY <1>1, <1>2, <1>3 DEF IInv, TypeOK, LogConsistent, ConsistentLog
<1>4. ASSUME IInv', NEW l \in WriteLevels, NEW k \in Key
      PROVE  (IF Undone(chng'[k], l - 1) THEN Oldest(chng'[k], l - 1).pData
              ELSE pData'[k]) \in Data
  BY <1>1, <1>2, <1>4 DEF IInv, TypeOK, LogConsistent, ConsistentLog
<1>. QED BY <1>3, <1>4 DEF atBegin

LEMMA WriteRefines ==
  ASSUME IInv, IInv', NEW k \in Key, NEW v \in Data, iTransLevel >= 2,
         iTransLevel' = iTransLevel, pData' = [pData EXCEPT ![k] = v],
         IF mxTrans[k] # iTransLevel THEN NewChng(k)
         ELSE UNCHANGED <<chng, mxTrans>>
  PROVE  KVS!Write(k, v)
<1>. USE KVMemAssumption
<1>. DEFINE g == [l \in WriteLevels |-> IF l <= iTransLevel THEN atBegin[l]
                                        ELSE pData']
<1>1. /\ iTransLevel \in WriteLevels /\ iTransLevel \in Levels
      /\ pData \in [Key -> Data] /\ pData' \in [Key -> Data]
  BY DEF IInv, TypeOK, Levels, WriteLevels
<1>2. atBegin' \in [WriteLevels -> [Key -> Data]]
      /\ g \in [WriteLevels -> [Key -> Data]]
  BY <1>1, AtBeginType
<1>3. ASSUME NEW j \in Key
      PROVE  /\ chng[j] \in Seq(KVMemChng) /\ mxTrans[j] \in Levels
             /\ ConsistentLog(chng[j], mxTrans[j], iTransLevel)
             /\ chng'[j] \in Seq(KVMemChng) /\ mxTrans'[j] \in Levels
             /\ ConsistentLog(chng'[j], mxTrans'[j], iTransLevel)
             /\ j # k => chng'[j] = chng[j] /\ pData'[j] = pData[j]
  <2>1. /\ chng[j] \in Seq(KVMemChng) /\ mxTrans[j] \in Levels
        /\ ConsistentLog(chng[j], mxTrans[j], iTransLevel)
        /\ chng'[j] \in Seq(KVMemChng) /\ mxTrans'[j] \in Levels
        /\ ConsistentLog(chng'[j], mxTrans'[j], iTransLevel)
    BY DEF IInv, TypeOK, LogConsistent
  <2>2. j # k => chng'[j] = chng[j] /\ pData'[j] = pData[j]
    BY DEF NewChng, IInv, TypeOK
  <2>. QED BY <2>1, <2>2
<1>4. ASSUME NEW l \in WriteLevels, NEW j \in Key PROVE atBegin'[l][j] = g[l][j]
  <2>1. l - 1 \in Nat /\ (l <= iTransLevel <=> l - 1 < iTransLevel)
        /\ (~(l <= iTransLevel) => l - 1 >= iTransLevel)
    BY <1>1 DEF WriteLevels
  <2>2. CASE ~(l <= iTransLevel)
    <3>1. ~Undone(chng'[j], l - 1)
      BY <2>1, <2>2, <1>1, <1>3, NothingAbove
    <3>. QED BY <3>1, <2>2, AtBeginIs
  <2>3. CASE l <= iTransLevel /\ j # k
    BY <2>3, <1>3, AtBeginIs
  <2>4. CASE l <= iTransLevel /\ j = k /\ mxTrans[k] # iTransLevel
    <3>. DEFINE r == [lvl |-> iTransLevel, pData |-> pData[k],
                      oldTrans |-> mxTrans[k]]
    <3>1. chng'[k] = Append(chng[k], r)
      BY <2>4, NewChngConsistent
    <3>2. pData[k] \in Data
      BY <1>1
    <3>3. /\ Undone(chng'[k], l - 1)
          /\ Oldest(chng'[k], l - 1) = IF Undone(chng[k], l - 1)
                                       THEN Oldest(chng[k], l - 1) ELSE r
      BY <3>1, <3>2, <2>1, <2>4, <1>1, <1>3, AppendLog
    <3>. QED BY <3>3, <2>4, AtBeginIs
  <2>5. CASE l <= iTransLevel /\ j = k /\ mxTrans[k] = iTransLevel
    <3>1. chng' = chng
      BY <2>5
    <3>2. Undone(chng[k], l - 1)
      BY <2>1, <2>5, <1>1, <1>3, LoggedAtTop
    <3>. QED BY <3>1, <3>2, <2>5, AtBeginIs
  <2>. QED BY <2>2, <2>3, <2>4, <2>5
<1>5. atBegin' = g
  BY <1>2, <1>4, ContentsEqual
<1>. QED BY <1>5 DEF KVS!Write, KVS!WriteLevels, WriteLevels

LEMMA CommitRefines ==
  ASSUME IInv, IInv', NEW l \in Levels, l < iTransLevel, iTransLevel' = l,
         pData' = pData,
         \/ l \in 0..1 /\ chng' = [k \in Key |-> <<>>]
         \/ l \in WriteLevels /\ chng' = [k \in Key |-> Spliced(chng[k], l)]
  PROVE  KVS!CommitPhaseTwo(l)
<1>. USE KVMemAssumption
<1>. DEFINE g == [m \in WriteLevels |-> IF m <= l THEN atBegin[m] ELSE pData]
<1>1. pData \in [Key -> Data] /\ iTransLevel \in Levels
  BY DEF IInv, TypeOK
<1>2. atBegin' \in [WriteLevels -> [Key -> Data]]
      /\ g \in [WriteLevels -> [Key -> Data]]
  BY <1>1, AtBeginType
<1>3. ASSUME NEW m \in WriteLevels, NEW k \in Key PROVE atBegin'[m][k] = g[m][k]
  <2>1. /\ chng[k] \in Seq(KVMemChng) /\ mxTrans[k] \in Levels
        /\ ConsistentLog(chng[k], mxTrans[k], iTransLevel)
        /\ chng'[k] \in Seq(KVMemChng)
        /\ ConsistentLog(chng'[k], mxTrans'[k], l)
    BY DEF IInv, TypeOK, LogConsistent
  <2>2. /\ m - 1 \in Nat /\ (m <= l <=> m - 1 < l)
        /\ (~(m <= l) => m - 1 >= l)
    BY DEF WriteLevels, Levels
  <2>3. CASE ~(m <= l)
    <3>1. ~Undone(chng'[k], m - 1)
      BY <2>1, <2>2, <2>3, NothingAbove
    <3>. QED BY <3>1, <2>3, AtBeginIs
  <2>4. CASE m <= l
    <3>1. l \in WriteLevels /\ chng'[k] = Spliced(chng[k], l)
      BY <2>4 DEF WriteLevels, Levels
    <3>2. /\ Undone(chng'[k], m - 1) <=> Undone(chng[k], m - 1)
          /\ Undone(chng[k], m - 1) => Oldest(chng'[k], m - 1).pData
                                         = Oldest(chng[k], m - 1).pData
      BY <3>1, <2>1, <2>2, <2>4, <1>1, MergeLog
    <3>. QED BY <3>2, <2>4, AtBeginIs
  <2>. QED BY <2>3, <2>4
<1>4. atBegin' = g
  BY <1>2, <1>3, ContentsEqual
<1>. QED BY <1>4 DEF KVS!CommitPhaseTwo, KVS!WriteLevels, KVS!Levels,
                     WriteLevels, Levels

\* The content that undoing the records above level l brings back.
LEMMA UndoToRefines ==
  ASSUME IInv, IInv', NEW l \in Levels, l <= iTransLevel, UndoTo(l)
  PROVE  /\ pData' = KVS!Restored(l)
         /\ atBegin' = [m \in WriteLevels |-> IF m <= l THEN atBegin[m]
                                              ELSE pData']
<1>. USE KVMemAssumption
<1>. DEFINE g == [m \in WriteLevels |-> IF m <= l THEN atBegin[m] ELSE pData']
<1>1. /\ pData \in [Key -> Data] /\ pData' \in [Key -> Data]
      /\ iTransLevel \in Levels
      /\ atBegin \in [WriteLevels -> [Key -> Data]]
  BY AtBeginType DEF IInv, TypeOK
<1>2. ASSUME NEW k \in Key
      PROVE  /\ chng[k] \in Seq(KVMemChng) /\ mxTrans[k] \in Levels
             /\ ConsistentLog(chng[k], mxTrans[k], iTransLevel)
             /\ chng'[k] = SubSeq(chng[k], 1, Kept(chng[k], l))
             /\ pData'[k] = IF Undone(chng[k], l)
                            THEN Oldest(chng[k], l).pData ELSE pData[k]
  BY DEF IInv, TypeOK, LogConsistent, UndoTo
<1>3. pData' = KVS!Restored(l)
  <2>1. CASE l >= MaxLevel
    <3>1. \A k \in Key : ~Undone(chng[k], l)
      BY <2>1, <1>1, <1>2, NothingAbove DEF Levels
    <3>2. \A k \in Key : pData'[k] = pData[k]
      BY <3>1, <1>2
    <3>3. pData' = pData
      BY <3>2, <1>1
    <3>. QED BY <3>3, <2>1 DEF KVS!Restored
  <2>2. CASE l = 0
    <3>1. 2 \in WriteLevels /\ 2 - 1 = 1
      BY DEF WriteLevels
    <3>2. ASSUME NEW k \in Key PROVE pData'[k] = atBegin[2][k]
      <4>1. Kept(chng[k], 0) = Kept(chng[k], 1)
        BY <1>2, KeptAtReadLevel DEF ConsistentLog
      <4>2. atBegin[2][k] = IF Undone(chng[k], 1)
                            THEN Oldest(chng[k], 1).pData ELSE pData[k]
        BY <3>1, AtBeginIs
      <4>. QED BY <4>1, <4>2, <1>2, <2>2 DEF Undone, Oldest
    <3>3. pData' = atBegin[2]
      BY <3>1, <3>2, <1>1
    <3>. QED BY <3>3, <2>2 DEF KVS!Restored
  <2>3. CASE ~(l >= MaxLevel) /\ l # 0
    <3>1. l + 1 \in WriteLevels /\ (l + 1) - 1 = l
      BY <2>3 DEF Levels, WriteLevels
    <3>2. ASSUME NEW k \in Key PROVE pData'[k] = atBegin[l + 1][k]
      BY <3>1, <1>2, AtBeginIs
    <3>3. pData' = atBegin[l + 1]
      BY <3>1, <3>2, <1>1
    <3>. QED BY <3>3, <2>3 DEF KVS!Restored
  <2>. QED BY <2>1, <2>2, <2>3
<1>4. atBegin' \in [WriteLevels -> [Key -> Data]]
      /\ g \in [WriteLevels -> [Key -> Data]]
  BY <1>1, AtBeginType
<1>5. ASSUME NEW m \in WriteLevels, NEW k \in Key PROVE atBegin'[m][k] = g[m][k]
  <2>. DEFINE s == chng[k]
              t == chng'[k]
  <2>1. m - 1 \in Nat /\ (m <= l => m - 1 <= l) /\ (~(m <= l) => m - 1 >= l)
    BY DEF WriteLevels, Levels
  <2>2. /\ t \in Seq(KVMemChng)
        /\ ConsistentLog(t, IF Undone(s, l) THEN Oldest(s, l).oldTrans
                            ELSE mxTrans[k], l)
        /\ m - 1 <= l =>
              /\ Undone(t, m - 1) => /\ Undone(s, m - 1)
                                     /\ Oldest(t, m - 1) = Oldest(s, m - 1)
              /\ ~Undone(t, m - 1) /\ Undone(s, m - 1)
                   => Undone(s, l) /\ Oldest(s, l) = Oldest(s, m - 1)
              /\ Undone(s, l) => Undone(s, m - 1)
    BY <1>1, <1>2, <2>1, CutLog
  <2>3. CASE m <= l
    BY <2>1, <2>2, <2>3, <1>2, AtBeginIs
  <2>4. CASE ~(m <= l)
    <3>1. ~Undone(t, m - 1)
      BY <2>1, <2>2, <2>4, NothingAbove
    <3>. QED BY <3>1, <2>4, AtBeginIs
  <2>. QED BY <2>3, <2>4
<1>6. atBegin' = g
  BY <1>4, <1>5, ContentsEqual
<1>. QED BY <1>3, <1>6

LEMMA InitRefines == Init => KVS!Init
<1>. SUFFICES ASSUME Init PROVE KVS!Init
  OBVIOUS
<1>1. \A l \in WriteLevels : l - 1 \in Nat /\ l - 1 >= 0
  BY KVMemAssumption DEF WriteLevels
<1>2. 0 \in Levels /\ <<>> \in Seq(KVMemChng)
  BY KVMemAssumption, EmptySeq DEF Levels
<1>3. \A l \in WriteLevels : ~Undone(<<>>, l - 1)
  BY <1>1, <1>2, EmptyLog, NothingAbove
<1>4. atBegin = [l \in WriteLevels |-> pData]
  <2>1. \A k \in Key : chng[k] = <<>> /\ pData[k] = NoVal
    BY DEF Init
  <2>2. pData = [k \in Key |-> NoVal]
    BY DEF Init
  <2>3. \A l \in WriteLevels : [k \in Key |->
            IF Undone(chng[k], l - 1) THEN Oldest(chng[k], l - 1).pData
            ELSE pData[k]] = [k \in Key |-> NoVal]
    BY <2>1, <1>3
  <2>. QED BY <2>2, <2>3 DEF atBegin
<1>. QED BY <1>4 DEF Init, KVS!Init, KVS!WriteLevels, WriteLevels

LEMMA NextRefines ==
  IInv /\ IInv' /\ [Next]_vars => [KVS!Next]_(KVS!vars)
<1>. SUFFICES ASSUME IInv, IInv', [Next]_vars PROVE [KVS!Next]_(KVS!vars)
  OBVIOUS
<1>. USE KVMemAssumption
<1>0. KVS!Levels = Levels /\ KVS!WriteLevels = WriteLevels
  BY DEF KVS!Levels, KVS!WriteLevels, Levels, WriteLevels
<1>1. CASE UNCHANGED vars
  <2>1. atBegin' = atBegin
    BY <1>1 DEF vars, atBegin
  <2>. QED BY <1>1, <2>1 DEF vars, KVS!vars
<1>2. ASSUME NEW l \in Levels, Begin(l) PROVE KVS!Next
  <2>1. atBegin' = atBegin
    BY <1>2 DEF Begin, atBegin
  <2>2. KVS!Begin(l)
    BY <1>0, <1>2, <2>1 DEF Begin, KVS!Begin
  <2>. QED BY <1>0, <2>2 DEF KVS!Next
<1>3. ASSUME NEW k \in Key, NEW v \in Val, Replace(k, v) PROVE KVS!Next
  <2>1. k \notin tree => mxTrans[k] # iTransLevel
    <3>. SUFFICES ASSUME k \notin tree PROVE mxTrans[k] # iTransLevel
      OBVIOUS
    <3>1. chng[k] = <<>> /\ ConsistentLog(chng[k], mxTrans[k], iTransLevel)
      BY DEF IInv, PhantomsAreLogged, Logged, LogConsistent
    <3>2. mxTrans[k] = 0 /\ iTransLevel >= 2
      BY <1>3, <3>1 DEF ConsistentLog, Replace
    <3>. QED BY <3>2
  <2>2. KVS!Write(k, v)
    BY <1>3, <2>1, WriteRefines DEF Replace, Data
  <2>. QED BY <2>2 DEF KVS!Next
<1>4. ASSUME NEW k \in Key, Delete(k) PROVE KVS!Next
  <2>1. mxTrans[k] < iTransLevel <=> mxTrans[k] # iTransLevel
    <3>1. /\ ConsistentLog(chng[k], mxTrans[k], iTransLevel)
          /\ chng[k] \in Seq(KVMemChng) /\ iTransLevel \in Nat
          /\ mxTrans[k] \in Nat
      BY DEF IInv, LogConsistent, TypeOK, Levels
    <3>2. chng[k] # <<>> => Len(chng[k]) \in DOMAIN chng[k]
      BY <3>1, EmptySeq, LenProperties
    <3>3. mxTrans[k] <= iTransLevel
      BY <3>1, <3>2 DEF ConsistentLog
    <3>. QED BY <3>1, <3>3
  <2>2. NoVal \in Data
    BY DEF Data
  <2>3. KVS!Write(k, NoVal)
    BY <1>4, <2>1, <2>2, WriteRefines DEF Delete
  <2>. QED BY <2>3 DEF KVS!Next
<1>5. ASSUME NEW l \in WriteLevels, CommitNested(l) PROVE KVS!Next
  <2>1. l \in Levels
    BY DEF Levels, WriteLevels
  <2>2. KVS!CommitPhaseTwo(l)
    BY <1>5, <2>1, CommitRefines DEF CommitNested
  <2>. QED BY <1>0, <2>1, <2>2 DEF KVS!Next
<1>6. ASSUME NEW l \in 0..1, CommitOutermost(l) PROVE KVS!Next
  <2>1. l \in Levels
    BY DEF Levels
  <2>2. KVS!CommitPhaseTwo(l)
    BY <1>6, <2>1, CommitRefines DEF CommitOutermost
  <2>. QED BY <1>0, <2>1, <2>2 DEF KVS!Next
<1>7. ASSUME NEW l \in Levels, Rollback(l) PROVE KVS!Next
  <2>1. KVS!Rollback(l)
    BY <1>0, <1>7, UndoToRefines DEF Rollback, KVS!Rollback
  <2>. QED BY <1>0, <2>1 DEF KVS!Next
<1>8. ASSUME NEW l \in Levels, Revert(l) PROVE KVS!Next
  <2>1. /\ l - 1 \in Levels /\ l - 1 <= iTransLevel /\ UndoTo(l - 1)
        /\ l \in Levels \ {0} /\ l <= iTransLevel /\ iTransLevel' = l
    BY <1>8 DEF Revert, Levels, IInv, TypeOK
  <2>2. KVS!Revert(l)
    BY <1>0, <2>1, UndoToRefines DEF KVS!Revert
  <2>. QED BY <1>0, <2>2 DEF KVS!Next
<1>9. ASSUME Reopen PROVE KVS!Next
  <2>1. \A l \in WriteLevels : l - 1 \in Nat /\ l - 1 >= 0
    BY DEF WriteLevels
  <2>2. 0 \in Levels /\ <<>> \in Seq(KVMemChng)
    BY EmptySeq DEF Levels
  <2>3. \A l \in WriteLevels : ~Undone(<<>>, l - 1)
    BY <2>1, <2>2, EmptyLog, NothingAbove
  <2>4. /\ pData' = [k \in Key |-> NoVal] /\ iTransLevel' = 0
        /\ \A k \in Key : chng'[k] = <<>>
    BY <1>9 DEF Reopen
  <2>5. atBegin' = [l \in WriteLevels |-> pData']
    BY <2>3, <2>4 DEF atBegin
  <2>6. KVS!Reopen
    BY <1>0, <2>4, <2>5 DEF KVS!Reopen
  <2>. QED BY <2>6 DEF KVS!Next
<1>. QED
  BY <1>1, <1>2, <1>3, <1>4, <1>5, <1>6, <1>7, <1>8, <1>9 DEF Next

(***************************************************************************)
(* The in-memory store keeps the promise of kv.h: whatever the keys, the   *)
(* values and the depth of nesting, a rollback to level N restores the     *)
(* content of the most recent xBegin to level N+1, and a commit keeps it.  *)
(***************************************************************************)
THEOREM Implementation == Spec => ImplementsKVStore
<1>. QED BY InitIInv, NextIInv, InitRefines, NextRefines, PTL
         DEF Spec, ImplementsKVStore, KVS!Spec
=============================================================================
