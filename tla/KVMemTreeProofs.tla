--------------------------- MODULE KVMemTreeProofs ---------------------------
(***************************************************************************)
(* The balanced tree of kvmem.c stays a balanced search tree, its counts   *)
(* of references are exact and its cursors find every row, for any keys,   *)
(* cursors and bounds.                                                     *)
(*                                                                         *)
(* Induction is over sets (what holds of 0 and passes from n to n + 1, or  *)
(* of the leaves and passes to their parent, holds of all), so recursive   *)
(* functions can be reasoned about: Loop and Iteration give the functions  *)
(* that the recursions of KVMemTree define.  Shape(t, T, sub) says that T  *)
(* are the nodes of tree t and sub[n] those below n; AlmostBalanced adds   *)
(* the heights while kvmemBalance is on its way up; Sound(t, T) is a tree  *)
(* at rest.  HeapSound, Accounted and Kept add the counts of nodes and     *)
(* payloads, IInv is the inductive invariant of the store.                 *)
(***************************************************************************)
EXTENDS KVMemTree, FiniteSetTheorems, SequenceTheorems, WellFoundedInduction, TLAPS

-----------------------------------------------------------------------------
(* Induction and recursion.                                                *)

\* The order of the naturals, for the theorems on well-founded relations.
LEMMA LessIsWellFounded == IsWellFoundedOn({ss \in Nat \X Nat : ss[1] < ss[2]}, Nat)
BY NatLessThanWellFounded DEF OpToRel

\* Every set of naturals has a least element.
LEMMA LeastNatural ==
  ASSUME NEW A, A \subseteq Nat, A # {}
  PROVE  \E m \in A : \A k \in A : m <= k
<1>. DEFINE R == {ss \in Nat \X Nat : ss[1] < ss[2]}
<1>1. PICK m \in A : \A k \in A : ~(<<k, m>> \in R)
  <2>1. IsWellFoundedOn(R, Nat)
    BY LessIsWellFounded
  <2>. HIDE DEF R
  <2>. QED BY <2>1, WFMin
<1>2. ASSUME NEW k \in A PROVE m <= k
  <2>1. m \in Nat /\ k \in Nat /\ ~(k < m)
    BY <1>1
  <2>. QED BY <2>1
<1>. QED BY <1>2

\* Induction on the naturals, for a set instead of a predicate.
LEMMA Induction ==
  ASSUME NEW A, 0 \in A, \A n \in Nat : n \in A => n + 1 \in A
  PROVE  Nat \subseteq A
<1>. SUFFICES ASSUME Nat \ A # {} PROVE FALSE
  OBVIOUS
<1>1. PICK m \in Nat \ A : \A k \in Nat \ A : m <= k
  BY LeastNatural
<1>2. m - 1 \in Nat /\ m - 1 \in A
  BY <1>1
<1>. QED BY <1>1, <1>2

\* Induction on 0..N.
LEMMA InductionUpTo ==
  ASSUME NEW N \in Nat, NEW A, 0 \in A, \A i \in 0..(N - 1) : i \in A => i + 1 \in A
  PROVE  0..N \subseteq A
<1>. DEFINE B == {n \in Nat : n <= N => n \in A}
<1>1. Nat \subseteq B
  <2>1. 0 \in B
    OBVIOUS
  <2>2. ASSUME NEW n \in Nat, n \in B PROVE n + 1 \in B
    BY <2>2
  <2>. HIDE DEF B
  <2>. QED BY <2>1, <2>2, Induction
<1>. QED BY <1>1

\* f goes on from every element of S with next, until Stop.
Looped(f, S, Stop, next, value) ==
    f = [x \in S |-> IF x \in Stop THEN value[x] ELSE f[next[x]]]

\* A function that follows next until Stop exists, whether or not it gets
\* there.
LEMMA Loop ==
  ASSUME NEW S, NEW Stop, NEW next, \A x \in S \ Stop : next[x] \in S, NEW value
  PROVE  \E f : Looped(f, S, Stop, next, value)
<1>. DEFINE Closed0(P) == \A z \in P : z \in Stop \/ next[z] \in P
            Orb(x) == {y \in S : \A P \in SUBSET S : x \in P /\ Closed0(P) => y \in P}
            End(x) == Orb(x) \cap Stop
            f == [x \in S |-> LET e == End(x) IN IF e = {} THEN 0 ELSE value[CHOOSE y \in e : TRUE]]
<1>1. ASSUME NEW x \in S, x \in Stop PROVE f[x] = value[x]
  <2>1. Orb(x) = {x}
    BY <1>1
  <2>2. End(x) = {x}
    BY <2>1, <1>1
  <2>. HIDE DEF End
  <2>. QED BY <2>2
<1>2. ASSUME NEW x \in S, x \notin Stop PROVE f[x] = f[next[x]]
  <2>. DEFINE y == next[x]
  <2>1. y \in S
    BY <1>2
  <2>2. Orb(x) \subseteq {x} \cup Orb(y)
    <3>. DEFINE Q == {x} \cup Orb(y)
    <3>1. Closed0(Orb(y))
      BY <2>1
    <3>2. Closed0(Q) /\ x \in Q /\ Q \subseteq S
      BY <3>1, <2>1, <1>2
    <3>. QED BY <3>2
  <2>3. Orb(y) \subseteq Orb(x)
    BY <2>1, <1>2
  <2>4. End(x) = End(y)
    BY <2>2, <2>3, <1>2
  <2>. HIDE DEF End
  <2>. QED BY <2>4, <2>1
<1>3. f = [x \in S |-> IF x \in Stop THEN value[x] ELSE f[next[x]]]
  <2>. HIDE DEF f
  <2>1. f = [x \in S |-> f[x]] BY DEF f
  <2>. QED BY <1>1, <1>2, <2>1
<1>. QED BY <1>3 DEF Looped

\* f takes N steps next from x0 and stays in R.
Iterated(f, N, x0, next, R) ==
    /\ f = [i \in 0..N |-> IF i = 0 THEN x0 ELSE next[<<i - 1, f[i - 1]>>]]
    /\ \A i \in 0..N : <<i, f[i]>> \in R

\* A function that is built from 0 up, each value from the one before.
LEMMA Iteration ==
  ASSUME NEW N \in Nat, NEW x0, NEW R, NEW next, <<0, x0>> \in R,
         \A i \in 0..(N - 1) : \A x : <<i, x>> \in R => <<i + 1, next[<<i, x>>]>> \in R
  PROVE  \E f : Iterated(f, N, x0, next, R)
<1>. DEFINE IsOne(g, n) == /\ g = [i \in 0..n |-> IF i = 0 THEN x0 ELSE next[<<i - 1, g[i - 1]>>]]
                           /\ \A i \in 0..n : <<i, g[i]>> \in R
            A == {n \in Nat : \E g : IsOne(g, n)}
<1>1. 0 \in A
  <2>. DEFINE g == [i \in 0..0 |-> x0]
  <2>1. IsOne(g, 0)
    OBVIOUS
  <2>. HIDE DEF IsOne
  <2>. QED BY <2>1
<1>2. ASSUME NEW n \in 0..(N - 1), n \in A PROVE n + 1 \in A
  <2>1. PICK g : IsOne(g, n)
    BY <1>2
  <2>0. \A i \in 0..n : g[i] = IF i = 0 THEN x0 ELSE next[<<i - 1, g[i - 1]>>]
    BY <2>1
  <2>. DEFINE h == [i \in 0..(n + 1) |-> IF i <= n THEN g[i] ELSE next[<<n, g[n]>>]]
  <2>2. n \in 0..n /\ <<n, g[n]>> \in R
    BY <2>1
  <2>3. <<n + 1, next[<<n, g[n]>>]>> \in R
    BY <2>2
  <2>4. \A i \in 0..(n + 1) : <<i, h[i]>> \in R
    BY <2>1, <2>3
  <2>5. ASSUME NEW i \in 0..(n + 1) PROVE h[i] = IF i = 0 THEN x0 ELSE next[<<i - 1, h[i - 1]>>]
    <3>1. CASE i = 0
      BY <3>1, <2>1
    <3>2. CASE i \in 1..n
      <4>1. h[i] = g[i] /\ h[i - 1] = g[i - 1]
        BY <3>2
      <4>2. g[i] = next[<<i - 1, g[i - 1]>>]
        <5>1. i \in 0..n /\ i # 0
          BY <3>2
        <5>. QED BY <2>0, <5>1
      <4>3. i # 0
        BY <3>2
      <4>. HIDE DEF h
      <4>. QED BY <4>1, <4>2, <4>3
    <3>3. CASE i = n + 1
      <4>1. h[i] = next[<<n, g[n]>>] /\ h[i - 1] = g[n] /\ i - 1 = n
        BY <3>3
      <4>2. i # 0
        BY <3>3
      <4>. HIDE DEF h
      <4>. QED BY <4>1, <4>2
    <3>. QED BY <3>1, <3>2, <3>3
  <2>6. h = [i \in 0..(n + 1) |-> IF i = 0 THEN x0 ELSE next[<<i - 1, h[i - 1]>>]]
    <3>. HIDE DEF h
    <3>1. h = [i \in 0..(n + 1) |-> h[i]]
      BY DEF h
    <3>. QED BY <3>1, <2>5
  <2>7. IsOne(h, n + 1)
    BY <2>4, <2>6
  <2>. HIDE DEF IsOne
  <2>. QED BY <2>7
<1>3. N \in A
  <2>. HIDE DEF A
  <2>1. 0..N \subseteq A
    BY <1>1, <1>2, InductionUpTo
  <2>. QED BY <2>1
<1>. QED BY <1>3 DEF Iterated

-----------------------------------------------------------------------------
(* The shape of a tree.                                                    *)
Trees == [pRoot : Pointer, child : [Address -> [Side -> Pointer]],
          up : [Address -> Pointer], height : [Address -> Nat],
          imbalance : [Address -> Int]]

\* What sub says of a pointer.
Below(sub, q) == IF q = Null THEN {} ELSE sub[q]

\* Keys on side d of a node come before, or after, its key.
OnSide(d, k, l) == IF d = "before" THEN k < l ELSE k > l

\* The nodes of t are T; sub[n] are those of the subtree at n.
Shape(t, T, sub) ==
    /\ T \subseteq Address
    /\ sub \in [T -> SUBSET T]
    /\ t.pRoot \in T \cup {Null}
    /\ T = Below(sub, t.pRoot)
    /\ t.pRoot # Null => t.up[t.pRoot] = Null
    /\ \A n \in T : t.up[n] = Null => n = t.pRoot
    /\ \A n \in T : t.up[n] # Null =>
          t.up[n] \in T /\ \E d \in Side : t.child[t.up[n]][d] = n
    /\ \A n \in T, d \in Side : t.child[n][d] # Null =>
          t.child[n][d] \in T /\ t.up[t.child[n][d]] = n
    /\ \A n \in T : sub[n] = {n} \cup Below(sub, t.child[n]["before"])
                                 \cup Below(sub, t.child[n]["after"])
    /\ \A n \in T, d \in Side : \A m \in Below(sub, t.child[n][d]) :
          OnSide(d, aKey(m), aKey(n))

\* NULL and freed memory are no addresses; the addresses are finite.
LEMMA AddressFacts ==
  /\ Null \notin Address /\ Wild \notin Pointer
  /\ \A n \in Address : aKey(n) \in Nat /\ aKey(n) \in Key /\ aKey(n) > 0
  /\ IsFiniteSet(Address) /\ Cardinality(Address) \in Nat
  /\ MaxLevel \in Nat /\ MaxLevel >= 2 /\ MaxCopy \in Nat
<1>1. \A n \in Address : n \in Key \X (1..MaxCopy)
  BY DEF Address
<1>2. Key \subseteq Nat \ {0} /\ IsFiniteSet(Key) /\ MaxCopy \in Nat /\ MaxLevel \in Nat /\ MaxLevel >= 2
  BY KVMemTreeAssumption
<1>3. Null \notin Address /\ Wild \notin Pointer
  <2>1. ASSUME NEW n \in Address PROVE n[1] # 0
    BY <1>2 DEF Address
  <2>2. Null[1] = 0 /\ Wild[1] = 0 /\ Null # Wild
    <3>1. Null[2] = 0 /\ Wild[2] = 1
      BY DEF Null, Wild
    <3>. QED BY <3>1 DEF Null, Wild
  <2>. QED BY <2>1, <2>2 DEF Pointer
<1>4. \A n \in Address : aKey(n) \in Nat /\ aKey(n) \in Key /\ aKey(n) > 0
  <2>. SUFFICES ASSUME NEW n \in Address PROVE n[1] \in Nat /\ n[1] \in Key /\ n[1] > 0
    BY DEF aKey
  <2>1. n[1] \in Key
    BY DEF Address
  <2>2. n[1] \in Nat /\ n[1] # 0
    BY <2>1, <1>2
  <2>. QED BY <2>1, <2>2
<1>5. IsFiniteSet(Address) /\ Cardinality(Address) \in Nat
  <2>1. IsFiniteSet(1..MaxCopy)
    BY <1>2, FS_Interval
  <2>2. IsFiniteSet(Key \X (1..MaxCopy))
    BY <1>2, <2>1, FS_Product
  <2>. QED BY <2>2, FS_CardinalityType DEF Address
<1>. QED BY <1>2, <1>3, <1>4, <1>5

\* The two sides.
LEMMA SideFacts ==
  /\ \A d \in Side : Other(d) \in Side /\ Other(d) # d /\ Other(Other(d)) = d
  /\ \A d, e \in Side : e = d \/ e = Other(d)
  /\ Side = {"before", "after"} /\ Other("before") = "after" /\ Other("after") = "before"
BY DEF Side, Other

\* A child of a node: its parent, its subtree, and that it is on one side only.
LEMMA ShapeChild ==
  ASSUME NEW t, NEW T, NEW sub, Shape(t, T, sub), NEW n \in T, NEW d \in Side
  PROVE  LET c == t.child[n][d]
         IN /\ Below(sub, c) \subseteq sub[n] /\ n \notin Below(sub, c)
            /\ Below(sub, c) \cap Below(sub, t.child[n][Other(d)]) = {}
            /\ sub[n] = {n} \cup Below(sub, c) \cup Below(sub, t.child[n][Other(d)])
            /\ n \in sub[n] /\ sub[n] \subseteq T
            /\ c # Null => c \in T /\ t.up[c] = n /\ Below(sub, c) = sub[c] /\ c \in sub[c] /\ c # n
            /\ c # Null => t.child[n][Other(d)] # c
<1>. DEFINE c == t.child[n][d]
            e == t.child[n][Other(d)]
<1>0. n \in Address /\ T \subseteq Address /\ sub \in [T -> SUBSET T]
  BY DEF Shape
<1>1. sub[n] = {n} \cup Below(sub, c) \cup Below(sub, e)
  BY SideFacts DEF Shape
<1>2. \A m \in Below(sub, c) : OnSide(d, aKey(m), aKey(n)) /\ m \in Address
  BY <1>0, <1>1 DEF Shape
<1>3. \A m \in Below(sub, e) : OnSide(Other(d), aKey(m), aKey(n)) /\ m \in Address
  BY <1>0, <1>1, SideFacts DEF Shape
<1>4. n \notin Below(sub, c)
  BY <1>0, <1>2, AddressFacts DEF OnSide
<1>5. Below(sub, c) \cap Below(sub, e) = {}
  <2>. SUFFICES ASSUME NEW m \in Below(sub, c), m \in Below(sub, e) PROVE FALSE
    OBVIOUS
  <2>1. OnSide(d, aKey(m), aKey(n)) /\ OnSide(Other(d), aKey(m), aKey(n))
        /\ aKey(m) \in Nat /\ aKey(n) \in Nat
    BY <1>0, <1>2, <1>3, AddressFacts
  <2>. QED BY <2>1, SideFacts DEF OnSide
<1>6. c # Null => c \in T /\ t.up[c] = n /\ Below(sub, c) = sub[c] /\ c \in sub[c]
  BY DEF Shape, Below
<1>7. e # Null => e \in T /\ e \in Below(sub, e)
  BY SideFacts DEF Shape, Below
<1>8. c # Null => e # c
  BY <1>5, <1>6, <1>7
<1>. QED BY <1>0, <1>1, <1>4, <1>5, <1>6, <1>8

\* The same, of one side of a node.
Kid(t, T, sub, n, d) ==
    LET c == t.child[n][d]
    IN /\ Below(sub, c) \subseteq sub[n] /\ n \notin Below(sub, c)
       /\ Below(sub, c) \cap Below(sub, t.child[n][Other(d)]) = {}
       /\ sub[n] = {n} \cup Below(sub, c) \cup Below(sub, t.child[n][Other(d)])
       /\ n \in sub[n] /\ sub[n] \subseteq T
       /\ c # Null => c \in T /\ t.up[c] = n /\ Below(sub, c) = sub[c] /\ c \in sub[c] /\ c # n
       /\ c # Null => t.child[n][Other(d)] # c

\* The same, with a name.
LEMMA KidFacts ==
  ASSUME NEW t, NEW T, NEW sub, Shape(t, T, sub), NEW n \in T, NEW d \in Side
  PROVE  Kid(t, T, sub, n, d)
BY ShapeChild DEF Kid

\* Induction from the leaves to the root.
LEMMA TreeInduction ==
  ASSUME NEW t, NEW T, NEW sub, Shape(t, T, sub), NEW A,
         \A n \in T : (\A d \in Side : t.child[n][d] # Null => t.child[n][d] \in A) => n \in A
  PROVE  T \subseteq A
<1>. SUFFICES ASSUME T \ A # {} PROVE FALSE
  OBVIOUS
<1>0. T \subseteq Address /\ sub \in [T -> SUBSET T]
  BY DEF Shape
<1>1. \A n \in T : IsFiniteSet(sub[n]) /\ Cardinality(sub[n]) \in Nat
  BY <1>0, AddressFacts, FS_Subset, FS_CardinalityType
<1>. DEFINE B == {Cardinality(sub[n]) : n \in T \ A}
<1>2. PICK m \in B : \A k \in B : m <= k
  <2>1. B \subseteq Nat /\ B # {}
    BY <1>1
  <2>. HIDE DEF B
  <2>. QED BY <2>1, LeastNatural
<1>3. PICK n \in T \ A : m = Cardinality(sub[n])
  BY <1>2
<1>4. PICK d \in Side : t.child[n][d] # Null /\ t.child[n][d] \notin A
  BY <1>3
<1>. DEFINE c == t.child[n][d]
<1>5. c \in T /\ sub[c] \subseteq sub[n] /\ n \notin sub[c] /\ n \in sub[n]
  BY <1>4, ShapeChild
<1>6. Cardinality(sub[c]) < Cardinality(sub[n])
  BY <1>1, <1>5, FS_Subset
<1>7. Cardinality(sub[c]) \in B
  BY <1>4, <1>5
<1>. QED BY <1>1, <1>2, <1>3, <1>5, <1>6, <1>7

\* A node below n: its subtree and its parent are below n too.
LEMMA Inside ==
  ASSUME NEW t, NEW T, NEW sub, Shape(t, T, sub), NEW n \in T, NEW m \in sub[n]
  PROVE  /\ m \in T /\ sub[m] \subseteq sub[n]
         /\ m # n => t.up[m] # Null /\ t.up[m] \in T /\ t.up[m] \in sub[n] /\ n \notin sub[m]
<1>0. T \subseteq Address /\ sub \in [T -> SUBSET T]
  BY DEF Shape
<1>. DEFINE A == {x \in T : \A y \in sub[x] : sub[y] \subseteq sub[x]
                     /\ (y # x => t.up[y] \in sub[x] /\ x \notin sub[y])}
<1>1. ASSUME NEW x \in T, \A d \in Side : t.child[x][d] # Null => t.child[x][d] \in A
      PROVE  x \in A
  <2>. SUFFICES ASSUME NEW y \in sub[x], y # x
                PROVE  sub[y] \subseteq sub[x] /\ t.up[y] \in sub[x] /\ x \notin sub[y]
    OBVIOUS
  <2>1. PICK d \in Side : y \in Below(sub, t.child[x][d])
    <3>1. "before" \in Side
      BY SideFacts
    <3>. QED BY <3>1, ShapeChild, SideFacts
  <2>. DEFINE c == t.child[x][d]
  <2>2. c # Null /\ c \in T /\ Below(sub, c) = sub[c] /\ sub[c] \subseteq sub[x] /\ t.up[c] = x
        /\ x \notin sub[c] /\ x \in sub[x]
    <3>1. c # Null
      BY <2>1 DEF Below
    <3>. QED BY <3>1, ShapeChild
  <2>3. c \in A /\ y \in sub[c]
    BY <2>1, <2>2, <1>1
  <2>4. sub[y] \subseteq sub[c] /\ (y # c => t.up[y] \in sub[c])
    BY <2>3
  <2>. QED BY <2>2, <2>4
<1>2. T \subseteq A
  <2>. HIDE DEF A
  <2>. QED BY <1>1, TreeInduction
<1>3. m \in T /\ sub[n] \subseteq T
  BY <1>0
<1>. QED BY <1>0, <1>2, <1>3, AddressFacts

\* Induction from the root to the leaves.
LEMMA DownInduction ==
  ASSUME NEW t, NEW T, NEW sub, Shape(t, T, sub), NEW A, A \subseteq T,
         t.pRoot # Null => t.pRoot \in A,
         \A n \in A, d \in Side : t.child[n][d] # Null => t.child[n][d] \in A
  PROVE  T \subseteq A
<1>. DEFINE B == {n \in T : n \in A => sub[n] \subseteq A}
<1>1. ASSUME NEW n \in T, \A d \in Side : t.child[n][d] # Null => t.child[n][d] \in B
      PROVE  n \in B
  <2>. SUFFICES ASSUME n \in A PROVE sub[n] \subseteq A
    OBVIOUS
  <2>1. ASSUME NEW d \in Side PROVE Below(sub, t.child[n][d]) \subseteq A
    BY <1>1 DEF Below
  <2>2. sub[n] = {n} \cup Below(sub, t.child[n]["before"]) \cup Below(sub, t.child[n]["after"])
    BY DEF Shape
  <2>. QED BY <2>1, <2>2, SideFacts
<1>2. T \subseteq B
  <2>. HIDE DEF B
  <2>. QED BY <1>1, TreeInduction
<1>3. T = Below(sub, t.pRoot) /\ t.pRoot \in T \cup {Null}
  BY DEF Shape
<1>. QED BY <1>2, <1>3 DEF Below

\* The root is nobody's child, its subtree is the tree.
LEMMA RootFacts ==
  ASSUME NEW t, NEW T, NEW sub, Shape(t, T, sub), NEW n \in T
  PROVE  /\ t.pRoot # Null /\ t.pRoot \in T /\ n \in sub[t.pRoot] /\ sub[t.pRoot] = T
         /\ t.up[n] = Null <=> n = t.pRoot
         /\ t.up[n] # Null => t.up[n] \in T /\ n \in sub[t.up[n]] /\ sub[n] \subseteq sub[t.up[n]]
                              /\ t.up[n] \notin sub[n] /\ t.up[n] # n
<1>1. t.pRoot # Null /\ t.pRoot \in T /\ sub[t.pRoot] = T
  BY DEF Shape, Below
<1>2. t.up[n] = Null <=> n = t.pRoot
  BY <1>1 DEF Shape
<1>3. ASSUME t.up[n] # Null
      PROVE  t.up[n] \in T /\ n \in sub[t.up[n]] /\ sub[n] \subseteq sub[t.up[n]]
             /\ t.up[n] \notin sub[n] /\ t.up[n] # n
  <2>1. t.up[n] \in T
    BY <1>3 DEF Shape
  <2>2. PICK d \in Side : t.child[t.up[n]][d] = n
    BY <1>3 DEF Shape
  <2>3. n # Null
    BY AddressFacts DEF Shape
  <2>. QED BY <2>1, <2>2, <2>3, ShapeChild
<1>. QED BY <1>1, <1>2, <1>3

-----------------------------------------------------------------------------
(* What the rotations change.                                              *)

Higher(i, j) == IF i > j THEN i ELSE j

\* The fields of a tree have their types.
LEMMA TreesFields ==
  ASSUME NEW t \in Trees
  PROVE  /\ t.pRoot \in Pointer
         /\ t.child \in [Address -> [Side -> Pointer]]
         /\ t.up \in [Address -> Pointer]
         /\ t.height \in [Address -> Nat]
         /\ t.imbalance \in [Address -> Int]
         /\ \A n \in Pointer : Height(t, n) \in Nat
         /\ \A n \in Address, d \in Side : t.child[n][d] \in Pointer
         /\ \A n \in Address : t.up[n] \in Pointer /\ t.height[n] \in Nat /\ t.imbalance[n] \in Int
         /\ t = [pRoot |-> t.pRoot, child |-> t.child, up |-> t.up,
                 height |-> t.height, imbalance |-> t.imbalance]
<1>1. /\ t.pRoot \in Pointer
      /\ t.child \in [Address -> [Side -> Pointer]]
      /\ t.up \in [Address -> Pointer]
      /\ t.height \in [Address -> Nat]
      /\ t.imbalance \in [Address -> Int]
  BY DEF Trees
<1>2. t = [pRoot |-> t.pRoot, child |-> t.child, up |-> t.up,
                 height |-> t.height, imbalance |-> t.imbalance]
  BY DEF Trees
<1>. QED BY <1>1, <1>2 DEF Height, Pointer

\* And a record of such fields is a tree.
LEMMA TreesIntro ==
  ASSUME NEW r \in Pointer, NEW c \in [Address -> [Side -> Pointer]],
         NEW u \in [Address -> Pointer], NEW h \in [Address -> Nat],
         NEW i \in [Address -> Int]
  PROVE  [pRoot |-> r, child |-> c, up |-> u, height |-> h, imbalance |-> i] \in Trees
BY DEF Trees

\* What recomputing a height changes.
LEMMA RecomputeFacts ==
  ASSUME NEW t \in Trees, NEW n \in Address
  PROVE  LET u == RecomputeHeight(t, n)
             b == Height(t, t.child[n]["before"])
             a == Height(t, t.child[n]["after"])
         IN /\ u \in Trees /\ u.pRoot = t.pRoot /\ u.child = t.child /\ u.up = t.up
            /\ u.height[n] = Higher(b, a) + 1 /\ u.imbalance[n] = b - a
            /\ \A m \in Address : m # n => u.height[m] = t.height[m]
                                           /\ u.imbalance[m] = t.imbalance[m]
<1>. DEFINE u == RecomputeHeight(t, n)
            b == Height(t, t.child[n]["before"])
            a == Height(t, t.child[n]["after"])
<1>1. b \in Nat /\ a \in Nat
  BY TreesFields, SideFacts
<1>2. u = [t EXCEPT !.imbalance[n] = b - a, !.height[n] = Higher(b, a) + 1]
  BY DEF RecomputeHeight, Higher
<1>. HIDE DEF a, b
<1>3. Higher(b, a) + 1 \in Nat /\ b - a \in Int
  BY <1>1 DEF Higher
<1>4. u = [pRoot |-> t.pRoot, child |-> t.child, up |-> t.up,
           height |-> [t.height EXCEPT ![n] = Higher(b, a) + 1],
           imbalance |-> [t.imbalance EXCEPT ![n] = b - a]]
  BY <1>2 DEF Trees
<1>. HIDE DEF u
<1>5. u \in Trees
  <2>1. [t.height EXCEPT ![n] = Higher(b, a) + 1] \in [Address -> Nat]
    BY <1>3, TreesFields
  <2>2. [t.imbalance EXCEPT ![n] = b - a] \in [Address -> Int]
    BY <1>3, TreesFields
  <2>. QED BY <1>4, <2>1, <2>2, TreesFields, TreesIntro
<1>6. /\ u.pRoot = t.pRoot /\ u.child = t.child /\ u.up = t.up
      /\ u.height = [t.height EXCEPT ![n] = Higher(b, a) + 1]
      /\ u.imbalance = [t.imbalance EXCEPT ![n] = b - a]
  BY <1>4
<1>. QED BY <1>5, <1>6, TreesFields DEF a, b, u

\* What Rotate leaves.
Rotated(t, p, d) ==
    LET u == Rotate(t, p, d)
        c == t.child[p][d]
        y == t.child[c][Other(d)]
        x == t.child[c][d]
        z == t.child[p][Other(d)]
    IN /\ u \in Trees /\ u.pRoot = t.pRoot
       /\ \A m \in Address, e \in Side : u.child[m][e] =
            IF m = c /\ e = Other(d) THEN p ELSE IF m = p /\ e = d THEN y ELSE t.child[m][e]
       /\ \A m \in Address : u.up[m] =
            IF m = c THEN t.up[p] ELSE IF m = p THEN c ELSE IF m = y THEN p ELSE t.up[m]
       /\ \A m \in Address \ {p, c} : u.height[m] = t.height[m]
                                      /\ u.imbalance[m] = t.imbalance[m]
       /\ u.height[p] = Higher(Height(t, y), Height(t, z)) + 1
       /\ u.imbalance[p] = IF d = "before" THEN Height(t, y) - Height(t, z)
                           ELSE Height(t, z) - Height(t, y)
       /\ u.height[c] = Higher(Height(t, x), u.height[p]) + 1
       /\ u.imbalance[c] = IF d = "before" THEN Height(t, x) - u.height[p]
                           ELSE u.height[p] - Height(t, x)

\* What kvmemRotateBefore and kvmemRotateAfter change, pointer by pointer.
LEMMA RotateFacts ==
  ASSUME NEW t \in Trees, NEW p \in Address, NEW d \in Side,
         t.child[p][d] \in Address, t.child[p][d] # p,
         t.child[t.child[p][d]][Other(d)] \notin {p, t.child[p][d]},
         t.child[t.child[p][d]][d] \notin {p, t.child[p][d]},
         t.child[p][Other(d)] \notin {p, t.child[p][d]}
  PROVE  Rotated(t, p, d)
<1>. DEFINE o == Other(d)
            c == t.child[p][d]
            y == t.child[c][o]
            x == t.child[c][d]
            z == t.child[p][o]
            t1 == [t EXCEPT !.up = [@ EXCEPT ![c] = t.up[p], ![p] = c],
                            !.child = [@ EXCEPT ![c][o] = p, ![p][d] = y]]
            t2 == SetUp(t1, y, p)
            t3 == RecomputeHeight(t2, p)
            u == RecomputeHeight(t3, c)
<1>6. u = Rotate(t, p, d)
  BY DEF Rotate
<1>a. c \in Address /\ c # p /\ y \notin {p, c} /\ x \notin {p, c} /\ z \notin {p, c}
      /\ t.child[p][d] = c
  OBVIOUS
<1>b. u = Rotate(t, p, d) /\ c = t.child[p][d] /\ y = t.child[c][Other(d)]
        /\ x = t.child[c][d] /\ z = t.child[p][Other(d)] /\ o = Other(d)
  BY <1>6
<1>. HIDE DEF c
<1>0. o \in Side /\ o # d /\ y \in Pointer /\ x \in Pointer /\ z \in Pointer /\ Null \notin Address
      /\ p \in Pointer /\ c \in Pointer /\ t.up[p] \in Pointer /\ (d = "before" <=> o # "before")
      /\ (o = "before" \/ o = "after") /\ (d = "before" \/ d = "after")
  BY <1>a, TreesFields, SideFacts, AddressFacts DEF Pointer
<1>1. t1 = [pRoot |-> t.pRoot,
            child |-> [[t.child EXCEPT ![c][o] = p] EXCEPT ![p][d] = y],
            up |-> [[t.up EXCEPT ![c] = t.up[p]] EXCEPT ![p] = c],
            height |-> t.height, imbalance |-> t.imbalance]
  <2>. DEFINE ch == [[t.child EXCEPT ![c][o] = p] EXCEPT ![p][d] = y]
              w == [[t.up EXCEPT ![c] = t.up[p]] EXCEPT ![p] = c]
  <2>1. t1 = [t EXCEPT !.up = w, !.child = ch]
    OBVIOUS
  <2>. HIDE DEF ch, w, t1
  <2>2. t1 = [pRoot |-> t.pRoot, child |-> ch, up |-> w, height |-> t.height, imbalance |-> t.imbalance]
    BY <2>1 DEF Trees
  <2>. QED BY <2>2 DEF ch, w
<1>2. /\ t1 \in Trees /\ t1.pRoot = t.pRoot /\ t1.height = t.height /\ t1.imbalance = t.imbalance
      /\ \A m \in Address, e \in Side : t1.child[m][e] =
           IF m = c /\ e = o THEN p ELSE IF m = p /\ e = d THEN y ELSE t.child[m][e]
      /\ \A m \in Address : t1.up[m] = IF m = c THEN t.up[p] ELSE IF m = p THEN c ELSE t.up[m]
  <2>. DEFINE ch == [[t.child EXCEPT ![c][o] = p] EXCEPT ![p][d] = y]
              w == [[t.up EXCEPT ![c] = t.up[p]] EXCEPT ![p] = c]
  <2>. HIDE DEF y, o
  <2>1. ch \in [Address -> [Side -> Pointer]] /\ w \in [Address -> Pointer]
    <3>1. [t.child EXCEPT ![c][o] = p] \in [Address -> [Side -> Pointer]]
      BY <1>a, <1>0, TreesFields
    <3>. QED BY <1>a, <3>1, <1>0, TreesFields
  <2>2. \A m \in Address, e \in Side : ch[m][e] =
           IF m = c /\ e = o THEN p ELSE IF m = p /\ e = d THEN y ELSE t.child[m][e]
    BY <1>a, <1>0, TreesFields
  <2>3. \A m \in Address : w[m] = IF m = c THEN t.up[p] ELSE IF m = p THEN c ELSE t.up[m]
    BY <1>a, <1>0, TreesFields
  <2>. HIDE DEF ch, w, t1
  <2>4. t1 = [pRoot |-> t.pRoot, child |-> ch, up |-> w,
              height |-> t.height, imbalance |-> t.imbalance]
    BY <1>1 DEF ch, w
  <2>5. t1 \in Trees
    BY <2>1, <2>4, TreesFields, TreesIntro
  <2>. QED BY <2>2, <2>3, <2>4, <2>5
<1>. HIDE DEF t1
<1>3. /\ t2 \in Trees /\ t2.pRoot = t.pRoot /\ t2.height = t.height /\ t2.imbalance = t.imbalance
      /\ t2.child = t1.child
      /\ \A m \in Address : t2.up[m] = IF m = y THEN p ELSE t1.up[m]
  <2>1. CASE y = Null
    BY <1>a, <2>1, <1>2, <1>0 DEF SetUp
  <2>2. CASE y # Null
    <3>. HIDE DEF y
    <3>1. t2 = [t1 EXCEPT !.up[y] = p] /\ y \in Address
      BY <1>a, <2>2, <1>0 DEF SetUp, Pointer
    <3>2. t2 = [pRoot |-> t1.pRoot, child |-> t1.child, up |-> [t1.up EXCEPT ![y] = p],
                height |-> t1.height, imbalance |-> t1.imbalance]
      BY <3>1, <1>2 DEF Trees
    <3>. HIDE DEF t2
    <3>3. t2 \in Trees
      <4>1. [t1.up EXCEPT ![y] = p] \in [Address -> Pointer]
        BY <1>a, <1>0, <1>2, TreesFields
      <4>. QED BY <3>2, <4>1, <1>2, TreesFields, TreesIntro
    <3>4. t2.up = [t1.up EXCEPT ![y] = p]
      BY <3>2
    <3>. QED BY <3>1, <3>2, <3>3, <3>4, <1>2, TreesFields
  <2>. QED BY <2>1, <2>2
<1>. HIDE DEF t2
<1>4. /\ t3 \in Trees /\ t3.pRoot = t2.pRoot /\ t3.child = t2.child /\ t3.up = t2.up
      /\ t3.height[p] = Higher(Height(t2, t2.child[p]["before"]), Height(t2, t2.child[p]["after"])) + 1
      /\ t3.imbalance[p] = Height(t2, t2.child[p]["before"]) - Height(t2, t2.child[p]["after"])
      /\ \A m \in Address : m # p => t3.height[m] = t2.height[m]
                                     /\ t3.imbalance[m] = t2.imbalance[m]
  BY <1>3, RecomputeFacts
<1>. HIDE DEF t3
<1>5. /\ u \in Trees /\ u.pRoot = t3.pRoot /\ u.child = t3.child /\ u.up = t3.up
      /\ u.height[c] = Higher(Height(t3, t3.child[c]["before"]), Height(t3, t3.child[c]["after"])) + 1
      /\ u.imbalance[c] = Height(t3, t3.child[c]["before"]) - Height(t3, t3.child[c]["after"])
      /\ \A m \in Address : m # c => u.height[m] = t3.height[m]
                                     /\ u.imbalance[m] = t3.imbalance[m]
  BY <1>4, <1>a, RecomputeFacts
<1>. HIDE DEF u
<1>7. \A q \in Pointer : Height(t2, q) = Height(t, q)
  BY <1>3, Zenon DEF Height
<1>8. \A q \in Pointer : q # p => Height(t3, q) = Height(t, q)
  BY <1>3, <1>4, <1>a DEF Height, Pointer
<1>9. t2.child[p][d] = y /\ t2.child[p][o] = z /\ t3.child[c][d] = x /\ t3.child[c][o] = p
  BY <1>a, <1>0, <1>2, <1>3, <1>4
<1>10. u.height[p] = t3.height[p] /\ u.imbalance[p] = t3.imbalance[p] /\ Height(t3, p) = t3.height[p]
  BY <1>a, <1>5, <1>0 DEF Height
<1>11. \A i, j \in Nat : Higher(i, j) = Higher(j, i)
  BY DEF Higher
<1>12. Height(t, y) \in Nat /\ Height(t, z) \in Nat /\ Height(t, x) \in Nat /\ u.height[p] \in Nat
  BY <1>a, <1>0, <1>5, TreesFields
<1>13. u.height[p] = Higher(Height(t, y), Height(t, z)) + 1
      /\ u.imbalance[p] = IF d = "before" THEN Height(t, y) - Height(t, z)
                                ELSE Height(t, z) - Height(t, y)
  <2>1. CASE d = "before"
    <3>1. o = "after"
      BY <2>1, SideFacts
    <3>. HIDE DEF y, z, o
    <3>. QED BY <1>a, <3>1, <2>1, <1>0, <1>4, <1>7, <1>9, <1>10
  <2>2. CASE d = "after"
    <3>1. o = "before"
      BY <2>2, SideFacts
    <3>. HIDE DEF y, z, o
    <3>. QED BY <1>a, <3>1, <2>2, <1>0, <1>4, <1>7, <1>9, <1>10, <1>11, <1>12
  <2>. QED BY <1>a, <2>1, <2>2, <1>0
<1>14. u.height[c] = Higher(Height(t, x), u.height[p]) + 1
      /\ u.imbalance[c] = IF d = "before" THEN Height(t, x) - u.height[p]
                                ELSE u.height[p] - Height(t, x)
  <2>1. CASE d = "before"
    <3>1. o = "after"
      BY <2>1, SideFacts
    <3>2. x # p
      BY <1>a
    <3>. HIDE DEF x, o
    <3>. QED BY <1>a, <3>1, <3>2, <2>1, <1>0, <1>5, <1>8, <1>9, <1>10
  <2>2. CASE d = "after"
    <3>1. o = "before"
      BY <2>2, SideFacts
    <3>2. x # p
      BY <1>a
    <3>. HIDE DEF x, o
    <3>. QED BY <1>a, <3>1, <3>2, <2>2, <1>0, <1>5, <1>8, <1>9, <1>10, <1>11, <1>12
  <2>. QED BY <1>a, <2>1, <2>2, <1>0
<1>15. u.pRoot = t.pRoot
  BY <1>3, <1>4, <1>5, <1>a
<1>16. ASSUME NEW m \in Address, NEW e \in Side
       PROVE u.child[m][e] =
                 IF m = c /\ e = o THEN p ELSE IF m = p /\ e = d THEN y ELSE t.child[m][e]
  BY <1>2, <1>3, <1>4, <1>5, <1>a
<1>17. ASSUME NEW m \in Address
       PROVE  u.up[m] = IF m = c THEN t.up[p] ELSE IF m = p THEN c ELSE IF m = y THEN p ELSE t.up[m]
  <2>1. u.up[m] = IF m = y THEN p ELSE t1.up[m]
    BY <1>3, <1>4, <1>5
  <2>2. y # c /\ y # p
    BY <1>a
  <2>. HIDE DEF y
  <2>. QED BY <1>2, <2>1, <2>2
<1>18. \A m \in Address \ {p, c} : u.height[m] = t.height[m] /\ u.imbalance[m] = t.imbalance[m]
  BY <1>3, <1>4, <1>5, <1>a
<1>. QED BY <1>5, <1>b, <1>13, <1>14, <1>15, <1>16, <1>17, <1>18, ZenonT(40) DEF Rotated

\* What is written through kvmemFromPtr.
LEMMA FromPtrFacts ==
  ASSUME NEW t \in Trees, NEW p \in Address, NEW q \in Pointer,
         t.up[p] # Null => \E e \in Side : t.child[t.up[p]][e] = p
                                           /\ t.child[t.up[p]][Other(e)] # p
  PROVE  LET v == SetFromPtr(t, p, q)
         IN /\ v \in Trees /\ v.up = t.up /\ v.height = t.height /\ v.imbalance = t.imbalance
            /\ v.pRoot = IF t.up[p] = Null THEN q ELSE t.pRoot
            /\ \A m \in Address, e \in Side : v.child[m][e] =
                 IF m = t.up[p] /\ t.child[m][e] = p THEN q ELSE t.child[m][e]
<1>. DEFINE v == SetFromPtr(t, p, q)
            r == t.up[p]
<1>0. r \in Pointer /\ Null \notin Address /\ q \in Pointer /\ p \in Pointer
  BY TreesFields, AddressFacts DEF Pointer
<1>1. CASE r = Null
  <2>1. v = [t EXCEPT !.pRoot = q]
    BY <1>1 DEF SetFromPtr
  <2>2. v = [pRoot |-> q, child |-> t.child, up |-> t.up, height |-> t.height,
             imbalance |-> t.imbalance]
    BY <2>1 DEF Trees
  <2>3. v \in Trees
    <3>1. /\ q \in Pointer /\ t.child \in [Address -> [Side -> Pointer]] /\ t.up \in [Address -> Pointer]
          /\ t.height \in [Address -> Nat] /\ t.imbalance \in [Address -> Int]
      BY TreesFields
    <3>. HIDE DEF v
    <3>. QED BY <3>1, <2>2 DEF Trees
  <2>. HIDE DEF v
  <2>4. \A m \in Address : m # t.up[p]
    BY <1>1, <1>0
  <2>5. v.child = t.child
    BY <2>2
  <2>. QED BY <2>2, <2>3, <2>4, <2>5, <1>1 DEF v
<1>2. CASE r # Null
  <2>0. r \in Address
    BY <1>0, <1>2 DEF Pointer
  <2>1. PICK e0 \in Side : t.child[r][e0] = p /\ t.child[r][Other(e0)] # p
    BY <1>2
  <2>. DEFINE ch == [t.child EXCEPT ![r][e0] = q]
  <2>2. v = [t EXCEPT !.child[r][e0] = q]
    <3>1. CASE e0 = "after"
      BY <3>1, <2>1, <1>2 DEF SetFromPtr
    <3>2. CASE e0 = "before"
      BY <3>2, <2>1, <1>2, SideFacts DEF SetFromPtr
    <3>. QED BY <3>1, <3>2, SideFacts
  <2>3. v = [pRoot |-> t.pRoot, child |-> ch, up |-> t.up, height |-> t.height,
             imbalance |-> t.imbalance]
    BY <2>2 DEF Trees
  <2>4. ch \in [Address -> [Side -> Pointer]]
    <3>1. [t.child[r] EXCEPT ![e0] = q] \in [Side -> Pointer]
      BY <2>0, TreesFields
    <3>. QED BY <3>1, <2>0, TreesFields
  <2>5. \A m \in Address, e \in Side : ch[m][e] = IF m = r /\ e = e0 THEN q ELSE t.child[m][e]
    BY <1>0, <2>0, TreesFields
  <2>6. \A e \in Side : t.child[r][e] = p <=> e = e0
    BY <2>1, SideFacts
  <2>. HIDE DEF ch, v
  <2>7. v \in Trees
    BY <2>3, <2>4, TreesFields, TreesIntro
  <2>8. v.child = ch /\ v.pRoot = t.pRoot
    BY <2>3
  <2>9. \A m \in Address, e \in Side : v.child[m][e] =
                 IF m = r /\ t.child[m][e] = p THEN q ELSE t.child[m][e]
    BY <2>8, <2>5, <2>6
  <2>. QED BY <2>3, <2>7, <2>8, <2>9, <1>2 DEF v
<1>. QED BY <1>1, <1>2

\* Through which pointer one comes to a node.
LEMMA ShapeFrom ==
  ASSUME NEW t, NEW T, NEW sub, Shape(t, T, sub), NEW p \in T
  PROVE  /\ p \in Address
         /\ t.up[p] # Null => \E e \in Side : t.child[t.up[p]][e] = p
                                           /\ t.child[t.up[p]][Other(e)] # p
<1>1. p \in Address
  BY DEF Shape
<1>2. ASSUME t.up[p] # Null
      PROVE  \E e \in Side : t.child[t.up[p]][e] = p /\ t.child[t.up[p]][Other(e)] # p
  <2>1. PICK e \in Side : t.child[t.up[p]][e] = p /\ t.up[p] \in T
    BY <1>2 DEF Shape
  <2>2. p # Null
    BY <1>1, AddressFacts
  <2>3. t.child[t.up[p]][Other(e)] # p
    BY <2>1, <2>2, ShapeChild
  <2>. QED BY <2>1, <2>3
<1>. QED BY <1>1, <1>2

\* The subtrees after a rotation.
TurnedSub(t, sub, p, d) ==
    LET c == t.child[p][d]
    IN [sub EXCEPT ![c] = sub[p],
                   ![p] = {p} \cup Below(sub, t.child[c][Other(d)])
                              \cup Below(sub, t.child[p][Other(d)])]

\* What a rotation at p, written through kvmemFromPtr, leaves.
Turned(t, T, sub, p, d) ==
    LET c == t.child[p][d]
        u == Rotate(SetFromPtr(t, p, c), p, d)
        y == t.child[c][Other(d)]
        x == t.child[c][d]
        z == t.child[p][Other(d)]
    IN /\ u \in Trees /\ Shape(u, T, TurnedSub(t, sub, p, d))
       /\ c \in T /\ c # p /\ y \notin {p, c} /\ x \notin {p, c} /\ z \notin {p, c}
       /\ t.up[p] \notin {p, c} /\ x \in Pointer /\ y \in Pointer /\ z \in Pointer
       /\ u.pRoot = IF t.up[p] = Null THEN c ELSE t.pRoot
       /\ \A m \in Address, e \in Side : u.child[m][e] =
            IF m = c /\ e = Other(d) THEN p ELSE IF m = p /\ e = d THEN y
            ELSE IF m = t.up[p] /\ t.child[m][e] = p THEN c ELSE t.child[m][e]
       /\ \A m \in Address : u.up[m] =
            IF m = c THEN t.up[p] ELSE IF m = p THEN c ELSE IF m = y THEN p ELSE t.up[m]
       /\ \A m \in Address \ {p, c} : u.height[m] = t.height[m]
                                      /\ u.imbalance[m] = t.imbalance[m]
       /\ u.height[p] = Higher(Height(t, y), Height(t, z)) + 1
       /\ u.imbalance[p] = IF d = "before" THEN Height(t, y) - Height(t, z)
                           ELSE Height(t, z) - Height(t, y)
       /\ u.height[c] = Higher(Height(t, x), u.height[p]) + 1
       /\ u.imbalance[c] = IF d = "before" THEN Height(t, x) - u.height[p]
                           ELSE u.height[p] - Height(t, x)

\* A rotation keeps the nodes and their order.
LEMMA Turn ==
  ASSUME NEW t \in Trees, NEW T, NEW sub, Shape(t, T, sub), NEW p \in T, NEW d \in Side,
         t.child[p][d] # Null
  PROVE  Turned(t, T, sub, p, d)
<1>. DEFINE o == Other(d)
            c == t.child[p][d]
            y == t.child[c][o]
            x == t.child[c][d]
            z == t.child[p][o]
            r == t.up[p]
            v == SetFromPtr(t, p, c)
            u == Rotate(v, p, d)
            sub2 == TurnedSub(t, sub, p, d)
<1>1. T \subseteq Address /\ sub \in [T -> SUBSET T] /\ Null \notin Address /\ Null \notin T /\ p \in Address
  BY AddressFacts DEF Shape
<1>2. o \in Side /\ o # d /\ Other(o) = d
  BY SideFacts
<1>3. /\ c \in T /\ t.up[c] = p /\ c # p /\ p \in sub[p] /\ sub[p] \subseteq T
      /\ sub[c] \subseteq sub[p] /\ p \notin sub[c] /\ c \in sub[c] /\ Below(sub, c) = sub[c]
      /\ sub[c] \cap Below(sub, z) = {} /\ sub[p] = {p} \cup sub[c] \cup Below(sub, z)
  BY ShapeChild
<1>4. /\ p \notin Below(sub, z)
      /\ z # Null => z \in T /\ t.up[z] = p /\ Below(sub, z) = sub[z] /\ z \in sub[z] /\ z # p
  BY <1>2, ShapeChild
<1>5. /\ c \notin Below(sub, y) /\ c \notin Below(sub, x) /\ Below(sub, y) \cap Below(sub, x) = {}
      /\ sub[c] = {c} \cup Below(sub, y) \cup Below(sub, x)
      /\ y # Null => y \in T /\ t.up[y] = c /\ Below(sub, y) = sub[y] /\ y \in sub[y] /\ y # c
      /\ x # Null => x \in T /\ t.up[x] = c /\ Below(sub, x) = sub[x] /\ x \in sub[x] /\ x # c
  <2>1. /\ c \notin Below(sub, x) /\ x # Null => x \in T /\ t.up[x] = c /\ Below(sub, x) = sub[x] /\ x \in sub[x] /\ x # c
        /\ Below(sub, x) \cap Below(sub, y) = {} /\ sub[c] = {c} \cup Below(sub, x) \cup Below(sub, y)
    BY <1>3, ShapeChild
  <2>2. /\ c \notin Below(sub, y)
        /\ y # Null => y \in T /\ t.up[y] = c /\ Below(sub, y) = sub[y] /\ y \in sub[y] /\ y # c
    BY <1>2, <1>3, ShapeChild
  <2>3. c \notin Below(sub, x) 
    BY <1>3, ShapeChild
  <2>. HIDE DEF x, y, c
  <2>. QED BY <2>1, <2>2, <2>3
<1>6. z \notin {p, c} /\ y \notin {p, c} /\ x \notin {p, c}
  <2>1. z \notin {p, c}
    BY <1>1, <1>3, <1>4
  <2>2. y \notin {p, c} /\ x \notin {p, c}
    <3>. HIDE DEF x, y, c
    <3>. QED BY <1>1, <1>3, <1>5
  <2>. QED BY <2>1, <2>2
<1>7. r # Null => r \in T /\ r \notin sub[p] /\ p \in sub[r] /\ sub[p] \subseteq sub[r]
  BY RootFacts
<1>8. r \notin {p, c}
  BY <1>1, <1>3, <1>7
<1>9. c \in Address /\ c \in Pointer /\ x \in Pointer /\ y \in Pointer /\ z \in Pointer
  BY <1>1, <1>2, <1>3, TreesFields DEF Pointer
<1>10. /\ v \in Trees /\ v.up = t.up /\ v.height = t.height /\ v.imbalance = t.imbalance
       /\ v.pRoot = IF r = Null THEN c ELSE t.pRoot
       /\ \A m \in Address, e \in Side : v.child[m][e] =
                 IF m = r /\ t.child[m][e] = p THEN c ELSE t.child[m][e]
  BY <1>9, FromPtrFacts, ShapeFrom
<1>11. sub2 = [sub EXCEPT ![c] = sub[p], ![p] = {p} \cup Below(sub, y) \cup Below(sub, z)]
  BY DEF TurnedSub
<1>. HIDE DEF c, y, x, z, r, v, o
<1>12. v.child[p][d] = c /\ v.child[p][o] = z /\ v.child[c][o] = y /\ v.child[c][d] = x
  BY <1>1, <1>2, <1>8, <1>9, <1>10 DEF c, z, x, y
<1>13. /\ u \in Trees /\ u.pRoot = v.pRoot
       /\ \A m \in Address, e \in Side : u.child[m][e] =
            IF m = c /\ e = o THEN p ELSE IF m = p /\ e = d THEN y ELSE v.child[m][e]
       /\ \A m \in Address : u.up[m] =
            IF m = c THEN r ELSE IF m = p THEN c ELSE IF m = y THEN p ELSE v.up[m]
       /\ \A m \in Address \ {p, c} : u.height[m] = v.height[m]
                                      /\ u.imbalance[m] = v.imbalance[m]
       /\ u.height[p] = Higher(Height(v, y), Height(v, z)) + 1
       /\ u.imbalance[p] = IF d = "before" THEN Height(v, y) - Height(v, z)
                           ELSE Height(v, z) - Height(v, y)
       /\ u.height[c] = Higher(Height(v, x), u.height[p]) + 1
       /\ u.imbalance[c] = IF d = "before" THEN Height(v, x) - u.height[p]
                           ELSE u.height[p] - Height(v, x)
  <2>1. v.up[p] = r
    BY <1>10 DEF r
  <2>2. v.child[p][d] = c /\ v.child[v.child[p][d]][Other(d)] = y
        /\ v.child[v.child[p][d]][d] = x /\ v.child[p][Other(d)] = z
    BY <1>12 DEF o
  <2>3. /\ v.child[p][d] \in Address /\ v.child[p][d] # p
        /\ v.child[v.child[p][d]][Other(d)] \notin {p, v.child[p][d]}
        /\ v.child[v.child[p][d]][d] \notin {p, v.child[p][d]}
        /\ v.child[p][Other(d)] \notin {p, v.child[p][d]}
    BY <2>2, <1>3, <1>6, <1>9
  <2>4. o = Other(d)
    BY DEF o
  <2>5. Rotated(v, p, d)
    BY <1>1, <1>10, <2>3, RotateFacts
  <2>. QED BY <1>10, <2>1, <2>2, <2>4, <2>5 DEF Rotated
<1>. HIDE DEF u
<1>14. \A q : Height(v, q) = Height(t, q)
  BY <1>10, Zenon DEF Height
<1>15. ASSUME NEW m \in Address, NEW e \in Side
       PROVE u.child[m][e] =
                 IF m = c /\ e = o THEN p ELSE IF m = p /\ e = d THEN y
                 ELSE IF m = r /\ t.child[m][e] = p THEN c ELSE t.child[m][e]
  BY <1>10, <1>13
<1>16. ASSUME NEW m \in Address
       PROVE u.up[m] = IF m = c THEN r ELSE IF m = p THEN c ELSE IF m = y THEN p ELSE t.up[m]
  BY <1>10, <1>13
<1>. DEFINE Sp == {p} \cup Below(sub, y) \cup Below(sub, z)
<1>17. sub2 \in [T -> SUBSET T] /\ sub2[c] = sub[p] /\ sub2[p] = Sp
       /\ \A m \in T : m \notin {p, c} => sub2[m] = sub[m]
  <2>1. Sp \subseteq T
    BY <1>3, <1>5
  <2>. HIDE DEF Sp, sub2
  <2>2. sub2 = [sub EXCEPT ![c] = sub[p], ![p] = Sp]
    BY <1>11 DEF Sp
  <2>. QED BY <1>1, <1>3, <2>1, <2>2
<1>. HIDE DEF sub2
<1>18. \A q : q \notin {p, c} => (q \in T \cup {Null} => Below(sub2, q) = Below(sub, q))
  BY <1>17 DEF Below
<1>19. Below(sub2, c) = sub[p] /\ Below(sub2, p) = Sp
  BY <1>1, <1>3, <1>17 DEF Below
<1>20. x \in T \cup {Null} /\ y \in T \cup {Null} /\ z \in T \cup {Null}
  BY <1>4, <1>5
<1>21. u.child[c][o] = p /\ u.child[c][d] = x /\ u.child[p][d] = y /\ u.child[p][o] = z
  <2>1. r # c /\ r # p
    BY <1>8
  <2>2. x = t.child[c][d] /\ z = t.child[p][o]
    BY DEF x, z
  <2>. QED BY <1>1, <1>2, <1>3, <1>9, <1>15, <2>1, <2>2
<1>22. ASSUME NEW m \in T, NEW e \in Side, m \notin {p, c}
       PROVE  /\ Below(sub2, u.child[m][e]) = Below(sub, t.child[m][e])
              /\ sub2[m] = sub[m]
  <2>1. t.child[m][e] # Null => t.child[m][e] \in T /\ t.up[t.child[m][e]] = m
    BY DEF Shape
  <2>2. t.child[m][e] # c
    BY <2>1, <1>3, <1>22, <1>1
  <2>3. CASE t.child[m][e] = p
    <3>1. m = r
      BY <2>3, <2>1, <1>1 DEF r
    <3>2. u.child[m][e] = c
      BY <3>1, <2>3, <1>15, <1>22, <1>1
    <3>3. Below(sub, p) = sub[p]
      BY <1>1 DEF Below
    <3>. QED BY <3>2, <3>3, <2>3, <1>19, <1>17, <1>22
  <2>4. CASE t.child[m][e] # p
    <3>1. u.child[m][e] = t.child[m][e]
      BY <2>4, <1>15, <1>22, <1>1
    <3>. QED BY <3>1, <2>1, <2>2, <2>4, <1>18, <1>17, <1>22
  <2>. QED BY <2>3, <2>4
<1>23. Shape(u, T, sub2)
  <2>1. u.pRoot \in T \cup {Null} /\ T = Below(sub2, u.pRoot) /\ (u.pRoot # Null => u.up[u.pRoot] = Null)
    <3>1. u.pRoot = IF r = Null THEN c ELSE t.pRoot
      BY <1>10, <1>13
    <3>2. CASE r = Null
      <4>1. T = sub[p]
        BY <3>2, RootFacts DEF r
      <4>2. u.up[c] = r
        BY <1>16, <1>9
      <4>. QED BY <3>1, <3>2, <4>1, <4>2, <1>19, <1>3
    <3>3. CASE r # Null
      <4>1. t.pRoot # p /\ t.pRoot # c /\ t.pRoot \in T /\ T = sub[t.pRoot] /\ t.up[t.pRoot] = Null
            /\ t.pRoot # Null /\ t.pRoot \in Address
        BY <3>3, <1>1, <1>3, RootFacts DEF r
      <4>2. t.pRoot # y
        BY <4>1, <1>3, <1>5, <1>1
      <4>3. u.up[t.pRoot] = Null
        BY <4>1, <4>2, <1>16
      <4>. QED BY <3>1, <3>3, <4>1, <4>3, <1>17 DEF Below
    <3>. QED BY <3>2, <3>3
  <2>2. ASSUME NEW m \in T, u.up[m] = Null PROVE m = u.pRoot
    <3>1. m # p /\ m # y
      BY <2>2, <1>16, <1>1, <1>3, <1>6
    <3>2. u.pRoot = IF r = Null THEN c ELSE t.pRoot
      BY <1>10, <1>13
    <3>3. CASE m = c
      BY <3>3, <2>2, <3>2, <1>16, <1>9
    <3>4. CASE m # c
      <4>1. t.up[m] = Null /\ m = t.pRoot
        BY <3>1, <3>4, <2>2, <1>16, <1>1, RootFacts
      <4>2. r # Null
        BY <4>1, <3>1, <1>1, RootFacts DEF r
      <4>. QED BY <3>2, <4>1, <4>2
    <3>. QED BY <3>3, <3>4
  <2>3. ASSUME NEW m \in T, u.up[m] # Null
        PROVE  u.up[m] \in T /\ \E e \in Side : u.child[u.up[m]][e] = m
    <3>1. CASE m = c
      <4>1. u.up[m] = r /\ r # Null /\ r \in T /\ r \in Address
        BY <3>1, <2>3, <1>16, <1>7, <1>9, <1>1
      <4>2. PICK e \in Side : t.child[r][e] = p
        BY <4>1 DEF Shape, r
      <4>3. u.child[r][e] = c
        BY <4>1, <4>2, <1>8, <1>15
      <4>. QED BY <3>1, <4>1, <4>3
    <3>2. CASE m = p
      BY <3>2, <1>21, <1>16, <1>1, <1>2, <1>3
    <3>3. CASE m = y
      BY <3>3, <1>21, <1>16, <1>1, <1>2, <1>3, <1>6
    <3>4. CASE m \notin {c, p, y}
      <4>1. u.up[m] = t.up[m]
        BY <3>4, <1>16, <1>1
      <4>2. PICK e \in Side : t.up[m] \in T /\ t.child[t.up[m]][e] = m
        BY <4>1, <2>3 DEF Shape
      <4>3. CASE t.up[m] = c
        <5>1. e = d
          BY <4>2, <4>3, <3>4, SideFacts DEF y, o
        <5>2. m = x
          BY <5>1, <4>2, <4>3 DEF x
        <5>. QED BY <4>1, <4>2, <4>3, <5>2, <1>21
      <4>4. CASE t.up[m] = p
        <5>1. e = o
          BY <4>2, <4>4, <3>4, SideFacts DEF c, o
        <5>2. m = z
          BY <5>1, <4>2, <4>4 DEF z
        <5>. QED BY <4>1, <4>2, <4>4, <5>2, <1>21, <1>2
      <4>5. CASE t.up[m] \notin {c, p}
        <5>1. u.child[t.up[m]][e] = m
          BY <4>2, <4>5, <3>4, <1>15, <1>1
        <5>. QED BY <4>1, <4>2, <5>1
      <4>. QED BY <4>3, <4>4, <4>5
    <3>. QED BY <3>1, <3>2, <3>3, <3>4
  <2>4. ASSUME NEW m \in T, NEW e \in Side, u.child[m][e] # Null
        PROVE  u.child[m][e] \in T /\ u.up[u.child[m][e]] = m
    <3>0. e = d \/ e = o
      BY SideFacts DEF o
    <3>1. CASE m = c
      <4>1. CASE e = o
        BY <3>1, <4>1, <1>21, <1>16, <1>1, <1>3
      <4>2. CASE e = d
        <5>1. u.child[m][e] = x /\ x # Null /\ x \in T /\ t.up[x] = c
          BY <3>1, <4>2, <2>4, <1>21, <1>5
        <5>2. x # y
          BY <5>1, <1>5
        <5>3. u.up[x] = c
          BY <5>1, <5>2, <1>6, <1>16, <1>1
        <5>. QED BY <5>1, <5>3, <3>1
      <4>. QED BY <3>0, <4>1, <4>2
    <3>2. CASE m = p
      <4>1. CASE e = o
        <5>1. u.child[m][e] = z /\ z # Null /\ z \in T /\ t.up[z] = p
          BY <3>2, <4>1, <2>4, <1>21, <1>4
        <5>2. z # y
          BY <5>1, <1>5, <1>3, <1>4
        <5>3. u.up[z] = p
          BY <5>1, <5>2, <1>6, <1>16, <1>1
        <5>. QED BY <5>1, <5>3, <3>2
      <4>2. CASE e = d
        BY <3>2, <4>2, <2>4, <1>21, <1>16, <1>1, <1>5, <1>6
      <4>. QED BY <3>0, <4>1, <4>2
    <3>3. CASE m \notin {p, c}
      <4>1. t.child[m][e] # Null
        BY <3>3, <2>4, <1>15, <1>1, <1>3
      <4>2. t.child[m][e] \in T /\ t.up[t.child[m][e]] = m
        BY <4>1 DEF Shape
      <4>3. CASE t.child[m][e] = p
        <5>1. m = r
          BY <4>2, <4>3 DEF r
        <5>2. u.child[m][e] = c
          BY <5>1, <4>3, <3>3, <1>15, <1>1
        <5>. QED BY <5>1, <5>2, <1>3, <1>9, <1>16
      <4>4. CASE t.child[m][e] # p
        <5>1. u.child[m][e] = t.child[m][e]
          BY <4>4, <3>3, <1>15, <1>1
        <5>2. t.child[m][e] # c /\ t.child[m][e] # y
          BY <4>1, <4>2, <3>3, <1>3, <1>5
        <5>. QED BY <5>1, <5>2, <4>2, <4>4, <1>16, <1>1
      <4>. QED BY <4>3, <4>4
    <3>. QED BY <3>1, <3>2, <3>3
  <2>5. ASSUME NEW m \in T
        PROVE  sub2[m] = {m} \cup Below(sub2, u.child[m]["before"]) \cup Below(sub2, u.child[m]["after"])
    <3>1. CASE m = c
      <4>1. sub2[c] = {c} \cup Below(sub2, u.child[c][d]) \cup Below(sub2, u.child[c][o])
        BY <1>3, <1>5, <1>6, <1>17, <1>18, <1>19, <1>20, <1>21
      <4>. QED BY <3>1, <4>1, SideFacts DEF o
    <3>2. CASE m = p
      <4>1. sub2[p] = {p} \cup Below(sub2, u.child[p][d]) \cup Below(sub2, u.child[p][o])
        BY <1>6, <1>17, <1>18, <1>20, <1>21
      <4>. QED BY <3>2, <4>1, SideFacts DEF o
    <3>3. CASE m \notin {p, c}
      BY <3>3, <1>22, SideFacts DEF Shape
    <3>. QED BY <3>1, <3>2, <3>3
  <2>6. ASSUME NEW m \in T, NEW e \in Side, NEW k \in Below(sub2, u.child[m][e])
        PROVE  OnSide(e, aKey(k), aKey(m))
    <3>0. e = d \/ e = o
      BY SideFacts DEF o
    <3>a. \A i \in T : aKey(i) \in Nat
      BY AddressFacts, <1>1
    <3>b. \A i \in Below(sub, x) : OnSide(d, aKey(i), aKey(c)) /\ i \in T
      BY <1>1, <1>3, <1>5 DEF Shape, x
    <3>c. \A i \in Below(sub, y) : OnSide(o, aKey(i), aKey(c)) /\ i \in T
      BY <1>1, <1>2, <1>3, <1>5 DEF Shape, y
    <3>d. \A i \in Below(sub, z) : OnSide(o, aKey(i), aKey(p)) /\ i \in T
      BY <1>1, <1>2, <1>3, <1>4 DEF Shape, z
    <3>e. \A i \in sub[c] : OnSide(d, aKey(i), aKey(p)) /\ i \in T
      BY <1>1, <1>3 DEF Shape, c
    <3>f. \A i, j, l \in Nat : /\ OnSide(o, i, j) /\ OnSide(o, j, l) => OnSide(o, i, l)
                               /\ OnSide(d, i, j) <=> OnSide(o, j, i)
      BY SideFacts DEF o, OnSide
    <3>1. CASE m = c
      <4>1. CASE e = o
        <5>1. k \in Sp
          BY <3>1, <4>1, <2>6, <1>19, <1>21
        <5>2. OnSide(o, aKey(p), aKey(c))
          BY <3>a, <3>e, <3>f, <1>3
        <5>3. CASE k \in Below(sub, z)
          BY <5>2, <5>3, <3>a, <3>d, <3>f, <3>1, <4>1, <1>3
        <5>. QED BY <5>1, <5>2, <5>3, <3>c, <3>1, <4>1
      <4>2. CASE e = d
        <5>1. k \in Below(sub, x)
          BY <3>1, <4>2, <2>6, <1>6, <1>18, <1>20, <1>21
        <5>. QED BY <5>1, <3>b, <3>1, <4>2
      <4>. QED BY <3>0, <4>1, <4>2
    <3>2. CASE m = p
      <4>1. CASE e = o
        <5>1. k \in Below(sub, z)
          BY <3>2, <4>1, <2>6, <1>6, <1>18, <1>20, <1>21
        <5>. QED BY <5>1, <3>d, <3>2, <4>1
      <4>2. CASE e = d
        <5>1. k \in Below(sub, y)
          BY <3>2, <4>2, <2>6, <1>6, <1>18, <1>20, <1>21
        <5>. QED BY <5>1, <1>5, <3>e, <3>2, <4>2
      <4>. QED BY <3>0, <4>1, <4>2
    <3>3. CASE m \notin {p, c}
      BY <3>3, <2>6, <1>22 DEF Shape
    <3>. QED BY <3>1, <3>2, <3>3
  <2>. HIDE DEF Sp
  <2>. QED BY <1>1, <1>17, <2>1, <2>2, <2>3, <2>4, <2>5, <2>6 DEF Shape
<1>. QED
  <2>1. u.pRoot = IF r = Null THEN c ELSE t.pRoot
    BY <1>10, <1>13
  <2>2. \A m \in Address \ {p, c} : u.height[m] = t.height[m] /\ u.imbalance[m] = t.imbalance[m]
    BY <1>10, <1>13
  <2>3. /\ u.height[p] = Higher(Height(t, y), Height(t, z)) + 1
        /\ u.imbalance[p] = IF d = "before" THEN Height(t, y) - Height(t, z)
                            ELSE Height(t, z) - Height(t, y)
        /\ u.height[c] = Higher(Height(t, x), u.height[p]) + 1
        /\ u.imbalance[c] = IF d = "before" THEN Height(t, x) - u.height[p]
                            ELSE u.height[p] - Height(t, x)
    BY <1>13, <1>14
  <2>4. u \in Trees
    BY <1>13
  <2>5. /\ \A m \in Address, e \in Side : u.child[m][e] =
                 IF m = c /\ e = o THEN p ELSE IF m = p /\ e = d THEN y
                 ELSE IF m = r /\ t.child[m][e] = p THEN c ELSE t.child[m][e]
        /\ \A m \in Address : u.up[m] = IF m = c THEN r ELSE IF m = p THEN c ELSE IF m = y THEN p ELSE t.up[m]
    BY <1>15, <1>16
  <2>. QED BY <1>3, <1>6, <1>8, <1>9, <1>23, <2>1, <2>2, <2>3, <2>4, <2>5, Zenon
       DEF Turned, u, v, c, x, y, z, r, o, sub2

-----------------------------------------------------------------------------
(* Heights while kvmemBalance is on its way up.                            *)

\* Heights G of the nodes: of a pointer, on the sides of a node, what a node
\* should have.
High(G, q) == IF q = Null THEN 0 ELSE G[q]
Diff(G, t, n) == High(G, t.child[n]["before"]) - High(G, t.child[n]["after"])
Tall(G, t, n) == Higher(High(G, t.child[n]["before"]), High(G, t.child[n]["after"])) + 1

(***************************************************************************)
(* While kvmemBalance is at a node: G is what the nodes above that node    *)
(* still believe.                                                          *)
(***************************************************************************)
AlmostBalanced(t, T, sub, G, at) ==
    /\ G \in [T -> Nat]
    /\ at \in T \cup {Null}
    /\ \A m \in T : m # at => G[m] = Tall(G, t, m) /\ Diff(G, t, m) \in -1..1
    /\ \A m \in T : at \notin sub[m] => t.height[m] = G[m] /\ t.imbalance[m] = Diff(G, t, m)
    /\ at # Null => /\ Diff(G, t, at) \in -2..2
                    /\ G[at] - Tall(G, t, at) \in -1..1
                    /\ Diff(G, t, at) \in {-2, 2} => G[at] <= Tall(G, t, at)

\* The heights that G gives are numbers.
LEMMA HighFacts ==
  ASSUME NEW t \in Trees, NEW T, NEW sub, Shape(t, T, sub), NEW G \in [T -> Nat]
  PROVE  /\ \A q \in T \cup {Null} : High(G, q) \in Nat
         /\ \A m \in T, e \in Side : t.child[m][e] \in T \cup {Null}
                                     /\ High(G, t.child[m][e]) \in Nat
         /\ \A m \in T : Diff(G, t, m) \in Int /\ Tall(G, t, m) \in Nat
<1>1. \A q \in T \cup {Null} : High(G, q) \in Nat
  BY DEF High
<1>2. \A m \in T, e \in Side : t.child[m][e] \in T \cup {Null}
  BY DEF Shape
<1>3. \A m \in T, e \in Side : High(G, t.child[m][e]) \in Nat
  BY <1>1, <1>2
<1>4. \A m \in T : Diff(G, t, m) \in Int /\ Tall(G, t, m) \in Nat
  BY <1>3, SideFacts DEF Diff, Tall, Higher
<1>. QED BY <1>1, <1>2, <1>3, <1>4

\* One node of the way up is done: its subtree is balanced, whatever was turned.
LEMMA MoveUp ==
  ASSUME NEW t \in Trees, NEW T, NEW sub, Shape(t, T, sub), NEW G, NEW n \in T,
         AlmostBalanced(t, T, sub, G, n),
         NEW u \in Trees, NEW sub2, Shape(u, T, sub2), NEW G2 \in [T -> Nat], NEW c \in T,
         u.up[c] = t.up[n], sub2[c] = sub[n],
         \A m \in T \ sub[n] : /\ G2[m] = G[m] /\ u.height[m] = t.height[m]
                               /\ u.imbalance[m] = t.imbalance[m] /\ sub2[m] = sub[m]
                               /\ \A e \in Side : u.child[m][e] =
                                    IF t.child[m][e] = n THEN c ELSE t.child[m][e],
         \A m \in sub[n] : /\ G2[m] = Tall(G2, u, m) /\ Diff(G2, u, m) \in -1..1
                           /\ u.height[m] = G2[m] /\ u.imbalance[m] = Diff(G2, u, m),
         G2[c] - G[n] \in -1..1
  PROVE  /\ AlmostBalanced(u, T, sub2, G2, t.up[n])
         /\ t.up[n] # Null => Cardinality(sub2[t.up[n]]) > Cardinality(sub[n])
<1>. DEFINE r == t.up[n]
<1>0. T \subseteq Address /\ sub \in [T -> SUBSET T] /\ Null \notin T /\ G \in [T -> Nat] /\ n \in sub[n]
  BY AddressFacts, ShapeChild, SideFacts DEF Shape, AlmostBalanced
<1>1. r \in T \cup {Null} /\ (r # Null => r \notin sub[n] /\ n \in sub[r] /\ sub[n] \subseteq sub[r] /\ r # n)
  BY RootFacts
<1>2. ASSUME NEW m \in T, NEW e \in Side, m \notin sub[n], t.child[m][e] # n
      PROVE  High(G2, u.child[m][e]) = High(G, t.child[m][e])
  <2>. DEFINE q == t.child[m][e]
  <2>1. u.child[m][e] = q
    BY <1>2
  <2>2. q # Null => q \in T /\ t.up[q] = m
    BY DEF Shape
  <2>3. q # Null => q \notin sub[n]
    BY <2>2, <1>2, Inside
  <2>. QED BY <2>1, <2>2, <2>3 DEF High
<1>3. ASSUME NEW m \in T, m \notin sub[n], m # r
      PROVE  /\ G2[m] = G[m] /\ u.height[m] = t.height[m] /\ u.imbalance[m] = t.imbalance[m]
             /\ Tall(G2, u, m) = Tall(G, t, m) /\ Diff(G2, u, m) = Diff(G, t, m)
  <2>1. \A e \in Side : t.child[m][e] # n
    BY <1>0, <1>3 DEF Shape
  <2>2. \A e \in Side : High(G2, u.child[m][e]) = High(G, t.child[m][e])
    BY <1>2, <1>3, <2>1
  <2>3. Tall(G2, u, m) = Tall(G, t, m) /\ Diff(G2, u, m) = Diff(G, t, m)
    BY <2>2, SideFacts, Zenon DEF Tall, Diff
  <2>. QED BY <2>3, <1>3
<1>4. ASSUME NEW m \in T, m # r
      PROVE  G2[m] = Tall(G2, u, m) /\ Diff(G2, u, m) \in -1..1
  <2>1. CASE m \in sub[n]
    BY <2>1
  <2>2. CASE m \notin sub[n]
    BY <2>2, <1>0, <1>3, <1>4 DEF AlmostBalanced
  <2>. QED BY <2>1, <2>2
<1>5. ASSUME NEW m \in T, r \notin sub2[m]
      PROVE  u.height[m] = G2[m] /\ u.imbalance[m] = Diff(G2, u, m)
  <2>1. CASE m \in sub[n]
    BY <2>1
  <2>2. CASE m \notin sub[n]
    <3>1. sub2[m] = sub[m] /\ m # n
      BY <2>2, <1>0
    <3>2. n \notin sub[m]
      BY <3>1, <1>5, Inside
    <3>3. m # r
      BY <1>5, <3>1, <1>0, ShapeChild, SideFacts
    <3>4. t.height[m] = G[m] /\ t.imbalance[m] = Diff(G, t, m)
      BY <3>2 DEF AlmostBalanced
    <3>. QED BY <3>3, <3>4, <2>2, <1>3
  <2>. QED BY <2>1, <2>2
<1>6. ASSUME r # Null
      PROVE  /\ Diff(G2, u, r) \in -2..2 /\ G2[r] - Tall(G2, u, r) \in -1..1
             /\ Diff(G2, u, r) \in {-2, 2} => G2[r] <= Tall(G2, u, r)
  <2>1. r \in T /\ r \notin sub[n] /\ r # n
    BY <1>1, <1>6
  <2>2. PICK e \in Side : t.child[r][e] = n /\ t.child[r][Other(e)] # n
    BY <1>6, ShapeFrom
  <2>3. High(G2, u.child[r][Other(e)]) = High(G, t.child[r][Other(e)])
    BY <2>1, <2>2, <1>2, SideFacts
  <2>4. u.child[r][e] = c /\ High(G2, c) = G2[c] /\ High(G, n) = G[n]
    BY <2>1, <2>2, <1>0 DEF High
  <2>5. G2[r] = G[r] /\ G[r] = Tall(G, t, r) /\ Diff(G, t, r) \in -1..1
    BY <2>1 DEF AlmostBalanced
  <2>. DEFINE i == High(G, t.child[r][Other(e)])
  <2>6. i \in Nat /\ G2[c] \in Nat /\ G[n] \in Nat /\ G2[r] \in Nat
    BY <1>0, <2>1, HighFacts, SideFacts
  <2>. HIDE DEF i, r
  <2>7. CASE e = "before"
    <3>1. /\ Diff(G, t, r) = G[n] - i /\ Tall(G, t, r) = Higher(G[n], i) + 1
          /\ Diff(G2, u, r) = G2[c] - i /\ Tall(G2, u, r) = Higher(G2[c], i) + 1
      BY <2>7, <2>2, <2>3, <2>4, SideFacts DEF Diff, Tall, i
    <3>. QED BY <3>1, <2>5, <2>6 DEF Higher
  <2>8. CASE e = "after"
    <3>1. /\ Diff(G, t, r) = i - G[n] /\ Tall(G, t, r) = Higher(i, G[n]) + 1
          /\ Diff(G2, u, r) = i - G2[c] /\ Tall(G2, u, r) = Higher(i, G2[c]) + 1
      BY <2>8, <2>2, <2>3, <2>4, SideFacts DEF Diff, Tall, i
    <3>. QED BY <3>1, <2>5, <2>6 DEF Higher
  <2>. QED BY <2>7, <2>8, SideFacts
<1>7. AlmostBalanced(u, T, sub2, G2, r)
  BY <1>1, <1>4, <1>5, <1>6 DEF AlmostBalanced
<1>8. ASSUME r # Null PROVE Cardinality(sub2[r]) > Cardinality(sub[n])
  <2>1. r \in T /\ sub2[r] = sub[r] /\ r \in sub[r] /\ r \notin sub[n] /\ sub[n] \subseteq sub[r]
    BY <1>1, <1>8, ShapeChild, SideFacts
  <2>2. IsFiniteSet(sub[r])
    BY <2>1, <1>0, AddressFacts, FS_Subset
  <2>. QED BY <2>1, <2>2, FS_Subset, FS_CardinalityType
<1>. QED BY <1>7, <1>8

\* The shape does not depend on heights.
LEMMA ShapeFrame ==
  ASSUME NEW t, NEW T, NEW sub, Shape(t, T, sub),
         NEW u, u.pRoot = t.pRoot, u.child = t.child, u.up = t.up
  PROVE  Shape(u, T, sub)
BY DEF Shape

\* The children of a node whose turn it is have their exact heights.
LEMMA HeightsBelow ==
  ASSUME NEW t \in Trees, NEW T, NEW sub, Shape(t, T, sub), NEW G, NEW n \in T,
         AlmostBalanced(t, T, sub, G, n)
  PROVE  /\ \A q \in T \cup {Null} : (q # Null => n \notin sub[q]) => Height(t, q) = High(G, q)
         /\ \A e \in Side : Height(t, t.child[n][e]) = High(G, t.child[n][e])
<1>1. \A q \in T \cup {Null} : (q # Null => n \notin sub[q]) => Height(t, q) = High(G, q)
  BY DEF Height, High, AlmostBalanced
<1>2. ASSUME NEW e \in Side PROVE Height(t, t.child[n][e]) = High(G, t.child[n][e])
  <2>1. t.child[n][e] \in T \cup {Null}
    BY DEF Shape
  <2>2. t.child[n][e] # Null => n \notin sub[t.child[n][e]]
    BY ShapeChild
  <2>. QED BY <1>1, <2>1, <2>2
<1>. QED BY <1>1, <1>2

\* RecomputeHeight keeps what is below.
LEMMA RecomputeAt ==
  ASSUME NEW t0 \in Trees, NEW T, NEW sub, Shape(t0, T, sub), NEW G, NEW n \in T,
         AlmostBalanced(t0, T, sub, G, n)
  PROVE  LET t == RecomputeHeight(t0, n)
         IN /\ t \in Trees /\ Shape(t, T, sub) /\ AlmostBalanced(t, T, sub, G, n)
            /\ t.up = t0.up
            /\ t.height[n] = Tall(G, t, n) /\ t.imbalance[n] = Diff(G, t, n)
<1>. DEFINE t == RecomputeHeight(t0, n)
<1>0. n \in Address /\ n \in sub[n]
  BY ShapeChild, SideFacts DEF Shape
<1>1. /\ t \in Trees /\ t.pRoot = t0.pRoot /\ t.child = t0.child /\ t.up = t0.up
      /\ t.height[n] = Higher(Height(t0, t0.child[n]["before"]), Height(t0, t0.child[n]["after"])) + 1
      /\ t.imbalance[n] = Height(t0, t0.child[n]["before"]) - Height(t0, t0.child[n]["after"])
      /\ \A m \in Address : m # n => t.height[m] = t0.height[m] /\ t.imbalance[m] = t0.imbalance[m]
  BY <1>0, RecomputeFacts
<1>. HIDE DEF t
<1>2. Shape(t, T, sub)
  BY <1>1, ShapeFrame
<1>3. \A m : Tall(G, t, m) = Tall(G, t0, m) /\ Diff(G, t, m) = Diff(G, t0, m)
  BY <1>1 DEF Tall, Diff
<1>4. AlmostBalanced(t, T, sub, G, n)
  <2>1. ASSUME NEW m \in T, n \notin sub[m] PROVE t.height[m] = G[m] /\ t.imbalance[m] = Diff(G, t, m)
    <3>1. m # n /\ m \in Address
      BY <2>1, <1>0 DEF Shape
    <3>. QED BY <3>1, <2>1, <1>1, <1>3 DEF AlmostBalanced
  <2>. QED BY <2>1, <1>3 DEF AlmostBalanced
<1>5. t.height[n] = Tall(G, t, n) /\ t.imbalance[n] = Diff(G, t, n)
  <2>1. \A e \in Side : Height(t0, t0.child[n][e]) = High(G, t0.child[n][e])
    BY HeightsBelow
  <2>. QED BY <1>1, <2>1, SideFacts, Zenon DEF Tall, Diff
<1>. QED BY <1>1, <1>2, <1>4, <1>5 DEF t

\* A node that is not out of balance is left as it is.
LEMMA StayedBalanced ==
  ASSUME NEW t \in Trees, NEW T, NEW sub, Shape(t, T, sub), NEW G, NEW n \in T,
         AlmostBalanced(t, T, sub, G, n),
         t.height[n] = Tall(G, t, n), t.imbalance[n] = Diff(G, t, n), Diff(G, t, n) \in -1..1
  PROVE  \E G2 : /\ AlmostBalanced(t, T, sub, G2, t.up[n])
                 /\ t.up[n] # Null => Cardinality(sub[t.up[n]]) > Cardinality(sub[n])
<1>. DEFINE G2 == [G EXCEPT ![n] = Tall(G, t, n)]
<1>0. T \subseteq Address /\ sub \in [T -> SUBSET T] /\ Null \notin T /\ G \in [T -> Nat] /\ n \in sub[n]
  BY AddressFacts, ShapeChild, SideFacts DEF Shape, AlmostBalanced
<1>1. Tall(G, t, n) \in Nat
  BY <1>0, HighFacts
<1>2. G2 \in [T -> Nat] /\ G2[n] = Tall(G, t, n) /\ \A m \in T : m # n => G2[m] = G[m]
  BY <1>0, <1>1
<1>. HIDE DEF G2
<1>3. ASSUME NEW m \in sub[n]
      PROVE  Tall(G2, t, m) = Tall(G, t, m) /\ Diff(G2, t, m) = Diff(G, t, m)
  <2>0. m \in T
    BY <1>0
  <2>1. ASSUME NEW e \in Side PROVE High(G2, t.child[m][e]) = High(G, t.child[m][e])
    <3>1. t.child[m][e] # Null => t.child[m][e] \in T /\ t.child[m][e] \in sub[m] /\ t.up[t.child[m][e]] = m
          /\ t.child[m][e] # m
      BY <2>0, ShapeChild
    <3>2. t.child[m][e] # n
      <4>1. CASE m = n
        BY <4>1, <3>1, <1>0
      <4>2. CASE m # n
        BY <4>2, <3>1, <2>0, <1>0, Inside
      <4>. QED BY <4>1, <4>2
    <3>. QED BY <3>1, <3>2, <1>2 DEF High
  <2>. QED BY <2>1, SideFacts, Zenon DEF Tall, Diff
<1>4. ASSUME NEW m \in sub[n]
      PROVE  /\ G2[m] = Tall(G2, t, m) /\ Diff(G2, t, m) \in -1..1
             /\ t.height[m] = G2[m] /\ t.imbalance[m] = Diff(G2, t, m)
  <2>1. CASE m = n
    BY <2>1, <1>2, <1>3
  <2>2. CASE m # n
    <3>1. m \in T /\ n \notin sub[m]
      BY <2>2, Inside
    <3>. QED BY <3>1, <2>2, <1>2, <1>3 DEF AlmostBalanced
  <2>. QED BY <2>1, <2>2
<1>5. ASSUME NEW m \in T \ sub[n], NEW e \in Side
      PROVE  t.child[m][e] = IF t.child[m][e] = n THEN n ELSE t.child[m][e]
  OBVIOUS
<1>6. \A m \in T \ sub[n] : G2[m] = G[m]
  BY <1>0, <1>2
<1>7. G2[n] - G[n] \in -1..1
  <2>1. G[n] - Tall(G, t, n) \in -1..1 /\ G[n] \in Nat
    BY <1>0 DEF AlmostBalanced
  <2>. QED BY <2>1, <1>1, <1>2
<1>8. AlmostBalanced(t, T, sub, G2, t.up[n]) /\ (t.up[n] # Null => Cardinality(sub[t.up[n]]) > Cardinality(sub[n]))
  BY <1>2, <1>4, <1>5, <1>6, <1>7, MoveUp
<1>. QED BY <1>8

\* Heights and imbalance of a node, seen from its child on side d.
LEMMA FromSide ==
  ASSUME NEW t \in Trees, NEW T, NEW sub, Shape(t, T, sub), NEW G \in [T -> Nat],
         NEW m \in T, NEW d \in Side
  PROVE  LET i == High(G, t.child[m][d])
             j == High(G, t.child[m][Other(d)])
         IN /\ i \in Nat /\ j \in Nat
            /\ Tall(G, t, m) = Higher(i, j) + 1
            /\ Diff(G, t, m) = IF d = "before" THEN i - j ELSE j - i
            /\ Diff(G, t, m) \in -1..1 <=> i - j \in -1..1
<1>. DEFINE i == High(G, t.child[m][d])
            j == High(G, t.child[m][Other(d)])
<1>1. i \in Nat /\ j \in Nat
  BY HighFacts, SideFacts
<1>2. CASE d = "before"
  <2>1. Tall(G, t, m) = Higher(i, j) + 1 /\ Diff(G, t, m) = i - j
    BY <1>2, SideFacts DEF Tall, Diff
  <2>. QED BY <2>1, <1>1, <1>2
<1>3. CASE d = "after"
  <2>1. Tall(G, t, m) = Higher(j, i) + 1 /\ Diff(G, t, m) = j - i
    BY <1>3, SideFacts DEF Tall, Diff
  <2>. HIDE DEF i, j
  <2>2. Higher(i, j) = Higher(j, i)
    BY <1>1 DEF Higher
  <2>3. d # "before"
    BY <1>3
  <2>. QED BY <2>1, <2>2, <2>3, <1>1 DEF i, j
<1>. QED BY <1>2, <1>3, SideFacts

\* A single rotation where one side is two higher and its child not lower on
\* the outside.
LEMMA SingleTurn ==
  ASSUME NEW t \in Trees, NEW T, NEW sub, Shape(t, T, sub), NEW G, NEW n \in T,
         AlmostBalanced(t, T, sub, G, n), NEW d \in Side, t.child[n][d] # Null
  PROVE  /\ High(G, t.child[n][d]) = High(G, t.child[n][Other(d)]) + 2
         /\ High(G, t.child[t.child[n][d]][d]) >= High(G, t.child[t.child[n][d]][Other(d)])
         => LET c == t.child[n][d]
             u == Rotate(SetFromPtr(t, n, c), n, d)
         IN /\ u \in Trees /\ u.up[c] = t.up[n]
            /\ \E sub2, G2 :
                 /\ Shape(u, T, sub2) /\ AlmostBalanced(u, T, sub2, G2, t.up[n])
                 /\ t.up[n] # Null => Cardinality(sub2[t.up[n]]) > Cardinality(sub[n])
<1>t. LET c0 == t.child[n][d]
          u0 == Rotate(SetFromPtr(t, n, c0), n, d)
          y0 == t.child[c0][Other(d)]
          x0 == t.child[c0][d]
          z0 == t.child[n][Other(d)]
      IN /\ u0 \in Trees /\ Shape(u0, T, TurnedSub(t, sub, n, d))
         /\ c0 \in T /\ c0 # n /\ y0 \notin {n, c0} /\ x0 \notin {n, c0} /\ z0 \notin {n, c0}
         /\ t.up[n] \notin {n, c0} /\ x0 \in Pointer /\ y0 \in Pointer /\ z0 \in Pointer
         /\ u0.pRoot = IF t.up[n] = Null THEN c0 ELSE t.pRoot
         /\ \A m \in Address, e \in Side : u0.child[m][e] =
              IF m = c0 /\ e = Other(d) THEN n ELSE IF m = n /\ e = d THEN y0
              ELSE IF m = t.up[n] /\ t.child[m][e] = n THEN c0 ELSE t.child[m][e]
         /\ \A m \in Address : u0.up[m] =
              IF m = c0 THEN t.up[n] ELSE IF m = n THEN c0 ELSE IF m = y0 THEN n ELSE t.up[m]
         /\ \A m \in Address \ {n, c0} : u0.height[m] = t.height[m]
                                        /\ u0.imbalance[m] = t.imbalance[m]
         /\ u0.height[n] = Higher(Height(t, y0), Height(t, z0)) + 1
         /\ u0.imbalance[n] = IF d = "before" THEN Height(t, y0) - Height(t, z0)
                             ELSE Height(t, z0) - Height(t, y0)
         /\ u0.height[c0] = Higher(Height(t, x0), u0.height[n]) + 1
         /\ u0.imbalance[c0] = IF d = "before" THEN Height(t, x0) - u0.height[n]
                             ELSE u0.height[n] - Height(t, x0)
  <2>1. Turned(t, T, sub, n, d)
    BY Turn
  <2>. QED BY <2>1, Zenon DEF Turned
<1>. HAVE /\ High(G, t.child[n][d]) = High(G, t.child[n][Other(d)]) + 2
          /\ High(G, t.child[t.child[n][d]][d]) >= High(G, t.child[t.child[n][d]][Other(d)])
<1>. DEFINE c == t.child[n][d]
            o == Other(d)
            y == t.child[c][o]
            x == t.child[c][d]
            z == t.child[n][o]
            r == t.up[n]
            u == Rotate(SetFromPtr(t, n, c), n, d)
            sub2 == TurnedSub(t, sub, n, d)
<1>0. /\ T \subseteq Address /\ sub \in [T -> SUBSET T] /\ Null \notin T /\ G \in [T -> Nat]
      /\ o \in Side /\ Other(o) = d /\ o # d
  BY AddressFacts, SideFacts DEF Shape, AlmostBalanced
<1>a. /\ High(G, t.child[n][d]) \in Nat /\ High(G, t.child[n][Other(d)]) \in Nat
      /\ t.child[n][d] \in T \cup {Null}
  BY <1>0, HighFacts
<1>1. t.child[n][d] # Null /\ c \in T /\ c # Null
  <2>1. t.child[n][d] # Null
    BY <1>a DEF High
  <2>. QED BY <2>1, <1>a
<1>2. /\ u \in Trees /\ Shape(u, T, sub2)
      /\ c \in T /\ c # n /\ y \notin {n, c} /\ x \notin {n, c} /\ z \notin {n, c}
      /\ r \notin {n, c}
      /\ \A m \in Address, e \in Side : u.child[m][e] =
           IF m = c /\ e = o THEN n ELSE IF m = n /\ e = d THEN y
           ELSE IF m = r /\ t.child[m][e] = n THEN c ELSE t.child[m][e]
      /\ \A m \in Address : u.up[m] =
           IF m = c THEN r ELSE IF m = n THEN c ELSE IF m = y THEN n ELSE t.up[m]
      /\ \A m \in Address \ {n, c} : u.height[m] = t.height[m] /\ u.imbalance[m] = t.imbalance[m]
      /\ u.height[n] = Higher(Height(t, y), Height(t, z)) + 1
      /\ u.imbalance[n] = IF d = "before" THEN Height(t, y) - Height(t, z)
                          ELSE Height(t, z) - Height(t, y)
      /\ u.height[c] = Higher(Height(t, x), u.height[n]) + 1
      /\ u.imbalance[c] = IF d = "before" THEN Height(t, x) - u.height[n]
                          ELSE u.height[n] - Height(t, x)
  BY <1>t, Zenon
<1>b. /\ t.up[c] = n /\ c \in sub[n] /\ n \notin sub[c] /\ sub[c] \subseteq sub[n] /\ n \in sub[n]
  BY <1>1, ShapeChild
<1>c. z # Null => z \in T /\ t.up[z] = n /\ n \notin sub[z] 
  BY <1>0, ShapeChild
<1>d. x # Null => sub[x] \subseteq sub[c] /\ x \in T /\ t.up[x] = c
  <2>1. Kid(t, T, sub, c, d)
    BY <1>1, KidFacts
  <2>. QED BY <2>1, Zenon DEF Kid
<1>e. y # Null => sub[y] \subseteq sub[c] /\ y \in T /\ t.up[y] = c
  <2>1. Kid(t, T, sub, c, o)
    BY <1>0, <1>1, KidFacts
  <2>. QED BY <2>1, Zenon DEF Kid
<1>f. r # Null => r \in T /\ r \notin sub[n]
  BY RootFacts
<1>g. /\ High(G, t.child[c][d]) \in Nat /\ High(G, t.child[c][Other(d)]) \in Nat
  BY <1>0, <1>1, HighFacts
<1>h. /\ Tall(G, t, c) = Higher(High(G, x), High(G, y)) + 1
      /\ Diff(G, t, c) \in -1..1 <=> High(G, x) - High(G, y) \in -1..1
  BY <1>0, <1>1, FromSide
<1>i. /\ Tall(G, t, n) = Higher(High(G, c), High(G, z)) + 1
      /\ Diff(G, t, n) = IF d = "before" THEN High(G, c) - High(G, z) ELSE High(G, z) - High(G, c)
  BY <1>0, FromSide
<1>j. High(G, c) = High(G, z) + 2 /\ High(G, x) >= High(G, y)
  OBVIOUS
<1>n. /\ c = t.child[n][d] /\ o = Other(d) /\ y = t.child[c][o] /\ x = t.child[c][d]
      /\ z = t.child[n][o] /\ r = t.up[n] /\ u = Rotate(SetFromPtr(t, n, c), n, d)
      /\ sub2 = TurnedSub(t, sub, n, d)
  OBVIOUS
<1>k. t.child[n][d] = c /\ t.child[n][o] = z /\ t.child[c][o] = y /\ t.child[c][d] = x /\ t.up[n] = r /\ Other(d) = o
  OBVIOUS
<1>. DEFINE G2 == [G EXCEPT ![n] = u.height[n], ![c] = u.height[c]]
<1>3. sub2 = [sub EXCEPT ![c] = sub[n], ![n] = {n} \cup Below(sub, y) \cup Below(sub, z)]
  BY DEF TurnedSub
<1>. HIDE DEF c, o, y, x, z, r, u, sub2
<1>4. /\ t.up[c] = n /\ c \in sub[n] /\ n \notin sub[c]
      /\ x \in T \cup {Null} /\ y \in T \cup {Null} /\ z \in T \cup {Null}
      /\ (z # Null => n \notin sub[z])
      /\ (x # Null => n \notin sub[x] /\ t.up[x] = c) /\ (y # Null => n \notin sub[y] /\ t.up[y] = c)
  BY <1>b, <1>c, <1>d, <1>e
<1>5. c \in Address /\ n \in Address /\ (r # Null => r \in T /\ r \notin sub[n])
  <2>. QED BY <1>0, <1>2, <1>f
<1>6. G2 \in [T -> Nat] /\ G2[n] = u.height[n] /\ G2[c] = u.height[c]
      /\ \A m \in T : m \notin {n, c} => G2[m] = G[m]
  <2>1. u.height[n] \in Nat /\ u.height[c] \in Nat
    BY <1>2, <1>5, TreesFields
  <2>. QED BY <2>1, <1>0, <1>2
<1>. HIDE DEF G2
<1>7. \A q \in T \cup {Null} : q \notin {n, c} => High(G2, q) = High(G, q)
  BY <1>6 DEF High
<1>8. Height(t, x) = High(G, x) /\ Height(t, y) = High(G, y) /\ Height(t, z) = High(G, z)
  BY <1>4, HeightsBelow
<1>9. /\ u.child[c][o] = n /\ u.child[c][d] = x /\ u.child[n][d] = y /\ u.child[n][o] = z
  <2>1. r # c /\ r # n /\ c # n
    BY <1>2
  <2>. QED BY <1>k, <1>0, <1>2, <1>5, <2>1
<1>. DEFINE hx == High(G, x)
            hy == High(G, y)
            hz == High(G, z)
<1>10. /\ hx \in Nat /\ hy \in Nat /\ hz \in Nat /\ G[n] \in Nat /\ hx >= hy
       /\ High(G, c) = hz + 2 /\ High(G, c) = Higher(hx, hy) + 1
       /\ hx - hy \in -1..1
       /\ G[n] - (Higher(hz + 2, hz) + 1) \in -1..1 /\ G[n] <= Higher(hz + 2, hz) + 1
  <2>1. hx \in Nat /\ hy \in Nat /\ hz \in Nat /\ G[n] \in Nat /\ hx >= hy /\ High(G, c) = hz + 2
    BY <1>a, <1>g, <1>j, <1>k, <1>0
  <2>2. G[c] = High(G, c)
    BY <1>1 DEF High
  <2>3. n # c /\ G[c] = Tall(G, t, c) /\ Diff(G, t, c) \in -1..1
    BY <1>2 DEF AlmostBalanced
  <2>4. Tall(G, t, c) = Higher(hx, hy) + 1 /\ hx - hy \in -1..1
    BY <2>3, <1>h
  <2>5. Tall(G, t, n) = Higher(hz + 2, hz) + 1
        /\ Diff(G, t, n) = IF d = "before" THEN High(G, c) - hz ELSE hz - High(G, c)
    BY <2>1, <1>i
  <2>6. Diff(G, t, n) \in {-2, 2}
    <3>. HIDE DEF hz
    <3>. QED BY <2>1, <2>5
  <2>7. G[n] - Tall(G, t, n) \in -1..1 /\ G[n] <= Tall(G, t, n)
    BY <2>6, <1>0 DEF AlmostBalanced
  <2>. HIDE DEF hx, hy, hz
  <2>. QED BY <2>1, <2>2, <2>3, <2>4, <2>5, <2>7
<1>. HIDE DEF hx, hy, hz
<1>11. /\ hx = hz + 1 /\ hy \in {hz, hz + 1} /\ G[n] \in {hz + 2, hz + 3}
       /\ Higher(hy, hz) + 1 = hy + 1 /\ Higher(hx, hy + 1) + 1 = IF hy = hz THEN hz + 2 ELSE hz + 3
  BY <1>10 DEF Higher
<1>12. /\ u.height[n] = hy + 1 /\ u.imbalance[n] = IF d = "before" THEN hy - hz ELSE hz - hy
       /\ u.height[c] = (IF hy = hz THEN hz + 2 ELSE hz + 3)
       /\ u.imbalance[c] = IF d = "before" THEN hx - (hy + 1) ELSE (hy + 1) - hx
  BY <1>2, <1>8, <1>11 DEF hx, hy, hz
<1>13. High(G2, n) = hy + 1 /\ High(G2, x) = hx /\ High(G2, y) = hy /\ High(G2, z) = hz
  BY <1>0, <1>2, <1>4, <1>6, <1>7, <1>12 DEF High, hx, hy, hz
<1>14. /\ G2[n] = Tall(G2, u, n) /\ Diff(G2, u, n) \in -1..1
       /\ u.height[n] = G2[n] /\ u.imbalance[n] = Diff(G2, u, n)
  <2>1. /\ Tall(G2, u, n) = Higher(hy, hz) + 1
        /\ Diff(G2, u, n) = IF d = "before" THEN hy - hz ELSE hz - hy
        /\ (Diff(G2, u, n) \in -1..1 <=> hy - hz \in -1..1)
    BY <1>k, <1>2, <1>6, <1>9, <1>13, FromSide
  <2>. QED BY <2>1, <1>6, <1>10, <1>11, <1>12
<1>15. /\ G2[c] = Tall(G2, u, c) /\ Diff(G2, u, c) \in -1..1
       /\ u.height[c] = G2[c] /\ u.imbalance[c] = Diff(G2, u, c)
  <2>1. /\ Tall(G2, u, c) = Higher(hx, hy + 1) + 1
        /\ Diff(G2, u, c) = IF d = "before" THEN hx - (hy + 1) ELSE (hy + 1) - hx
        /\ (Diff(G2, u, c) \in -1..1 <=> hx - (hy + 1) \in -1..1)
    BY <1>k, <1>2, <1>6, <1>9, <1>13, FromSide
  <2>. QED BY <2>1, <1>6, <1>10, <1>11, <1>12
<1>16. ASSUME NEW m \in sub[n], m \notin {n, c}
       PROVE  /\ G2[m] = Tall(G2, u, m) /\ Diff(G2, u, m) \in -1..1
              /\ u.height[m] = G2[m] /\ u.imbalance[m] = Diff(G2, u, m)
  <2>1. m \in T /\ n \notin sub[m] /\ m \in Address /\ m # r
    BY <1>b, <1>16, <1>0, <1>5, Inside
  <2>2. ASSUME NEW e \in Side PROVE High(G2, u.child[m][e]) = High(G, t.child[m][e])
    <3>0. m # c /\ m # n
      BY <1>16
    <3>1. u.child[m][e] = t.child[m][e]
      <4>1. u.child[m][e] =
              IF m = c /\ e = o THEN n ELSE IF m = n /\ e = d THEN y
              ELSE IF m = r /\ t.child[m][e] = n THEN c ELSE t.child[m][e]
        BY <2>1, <1>2
      <4>. QED BY <4>1, <3>0, <2>1
    <3>2. t.child[m][e] \in T \cup {Null} /\ (t.child[m][e] # Null => t.up[t.child[m][e]] = m /\ t.child[m][e] \in sub[m])
      <4>1. t.child[m][e] \in T \cup {Null}
        BY <2>1 DEF Shape
      <4>2. t.child[m][e] # Null => t.up[t.child[m][e]] = m /\ t.child[m][e] \in sub[m]
        BY <2>1, ShapeChild
      <4>. QED BY <4>1, <4>2
    <3>3. t.child[m][e] # n /\ t.child[m][e] # c
      BY <3>2, <2>1, <1>4, <1>16, <1>0, <1>2
    <3>. QED BY <3>1, <3>2, <3>3, <1>7
  <2>3. Tall(G2, u, m) = Tall(G, t, m) /\ Diff(G2, u, m) = Diff(G, t, m)
    BY <2>2, SideFacts, Zenon DEF Tall, Diff
  <2>4. u.height[m] = t.height[m] /\ u.imbalance[m] = t.imbalance[m] /\ G2[m] = G[m]
    BY <2>1, <1>2, <1>6, <1>16
  <2>. QED BY <2>1, <2>3, <2>4, <1>16 DEF AlmostBalanced
<1>17. u.up[c] = r /\ sub2[c] = sub[n]
  <2>. QED BY <1>0, <1>2, <1>3, <1>5
<1>18. ASSUME NEW m \in T \ sub[n]
       PROVE  /\ G2[m] = G[m] /\ u.height[m] = t.height[m]
              /\ u.imbalance[m] = t.imbalance[m] /\ sub2[m] = sub[m]
              /\ \A e \in Side : u.child[m][e] = IF t.child[m][e] = n THEN c ELSE t.child[m][e]
  <2>1. m \notin {n, c} /\ m \in Address
    BY <1>0, <1>b, <1>4, <1>2
  <2>2. sub2[m] = sub[m]
    <3>. QED BY <2>1, <1>0, <1>2, <1>3
  <2>3. ASSUME NEW e \in Side PROVE u.child[m][e] = IF t.child[m][e] = n THEN c ELSE t.child[m][e]
    <3>1. t.child[m][e] = n => m = r
      BY <1>k, <1>0 DEF Shape
    <3>2. u.child[m][e] = IF m = r /\ t.child[m][e] = n THEN c ELSE t.child[m][e]
      <4>. QED BY <2>1, <1>2
    <3>. QED BY <3>1, <3>2
  <2>4. G2[m] = G[m] /\ u.height[m] = t.height[m] /\ u.imbalance[m] = t.imbalance[m]
    <3>. QED BY <2>1, <1>2, <1>6
  <2>. QED BY <2>2, <2>3, <2>4
<1>19. G2[c] - G[n] \in -1..1
  <2>. QED BY <1>6, <1>10, <1>11, <1>12
<1>20. /\ AlmostBalanced(u, T, sub2, G2, r)
       /\ r # Null => Cardinality(sub2[r]) > Cardinality(sub[n])
  <2>1. \A m \in sub[n] : /\ G2[m] = Tall(G2, u, m) /\ Diff(G2, u, m) \in -1..1
                          /\ u.height[m] = G2[m] /\ u.imbalance[m] = Diff(G2, u, m)
    BY <1>14, <1>15, <1>16
  <2>. QED BY <1>k, <2>1, <1>2, <1>6, <1>17, <1>18, <1>19, MoveUp
<1>. QED BY <1>n, <1>2, <1>17, <1>20, Zenon DEF c, u, r

\* Trees that agree everywhere are equal.
LEMMA TreesExt ==
  ASSUME NEW a \in Trees, NEW b \in Trees, a.pRoot = b.pRoot,
         \A m \in Address, e \in Side : a.child[m][e] = b.child[m][e],
         \A m \in Address : a.up[m] = b.up[m] /\ a.height[m] = b.height[m]
                            /\ a.imbalance[m] = b.imbalance[m]
  PROVE  a = b
<1>1. a.child = b.child
  <2>1. ASSUME NEW m \in Address PROVE a.child[m] = b.child[m]
    <3>1. a.child[m] \in [Side -> Pointer] /\ b.child[m] \in [Side -> Pointer]
      BY TreesFields
    <3>. QED BY <3>1
  <2>2. a.child \in [Address -> [Side -> Pointer]] /\ b.child \in [Address -> [Side -> Pointer]]
    BY TreesFields
  <2>. QED BY <2>1, <2>2
<1>2. a.up = b.up
  <2>1. a.up \in [Address -> Pointer] /\ b.up \in [Address -> Pointer]
    BY TreesFields
  <2>. QED BY <2>1
<1>3. a.height = b.height
  <2>1. a.height \in [Address -> Nat] /\ b.height \in [Address -> Nat]
    BY TreesFields
  <2>. QED BY <2>1
<1>4. a.imbalance = b.imbalance
  <2>1. a.imbalance \in [Address -> Int] /\ b.imbalance \in [Address -> Int]
    BY TreesFields
  <2>. QED BY <2>1
<1>5. /\ a = [pRoot |-> a.pRoot, child |-> a.child, up |-> a.up,
                 height |-> a.height, imbalance |-> a.imbalance]
      /\ b = [pRoot |-> b.pRoot, child |-> b.child, up |-> b.up,
                 height |-> b.height, imbalance |-> b.imbalance]
  BY TreesFields
<1>. QED BY <1>1, <1>2, <1>3, <1>4, <1>5, Zenon

\* What the two rotations of BalanceAt write.
\* What the two rotations of BalanceAt leave.
TurnedTwice(t, T, sub, n, d) ==
    LET c == t.child[n][d]
        o == Other(d)
        y == t.child[c][o]
        x == t.child[c][d]
        z == t.child[n][o]
        i == t.child[y][d]
        j == t.child[y][o]
        r == t.up[n]
        v == Rotate(SetFromPtr(t, c, y), c, o)
        u == Rotate(SetFromPtr(v, n, y), n, d)
        sub1 == TurnedSub(t, sub, c, o)
        sub2 == TurnedSub(v, sub1, n, d)
    IN /\ [Rotate(t, c, o) EXCEPT !.child[n][d] = y] = v
       /\ v.child[n][d] = y
       /\ u \in Trees /\ Shape(u, T, sub2)
       /\ c \in T /\ y \in T /\ c # n /\ y # n /\ y # c
       /\ \A q \in {x, z, i, j, r} : q \notin {n, c, y}
       /\ \A m \in Address, e \in Side : u.child[m][e] =
            IF m = y /\ e = o THEN n ELSE IF m = y /\ e = d THEN c
            ELSE IF m = c /\ e = o THEN i ELSE IF m = n /\ e = d THEN j
            ELSE IF m = r /\ t.child[m][e] = n THEN y ELSE t.child[m][e]
       /\ u.up[y] = r
       /\ \A m \in Address \ {n, c, y} : u.height[m] = t.height[m] /\ u.imbalance[m] = t.imbalance[m]
       /\ u.height[n] = Higher(Height(t, j), Height(t, z)) + 1
       /\ u.imbalance[n] = IF d = "before" THEN Height(t, j) - Height(t, z)
                           ELSE Height(t, z) - Height(t, j)
       /\ u.height[c] = Higher(Height(t, i), Height(t, x)) + 1
       /\ u.imbalance[c] = IF d = "before" THEN Height(t, x) - Height(t, i)
                           ELSE Height(t, i) - Height(t, x)
       /\ u.height[y] = Higher(u.height[c], u.height[n]) + 1
       /\ u.imbalance[y] = IF d = "before" THEN u.height[c] - u.height[n]
                           ELSE u.height[n] - u.height[c]
       /\ sub2[y] = sub[n]
       /\ \A m \in T : m \notin {n, c, y} => sub2[m] = sub[m]

\* The two rotations of a zigzag, pointer by pointer.
LEMMA TurnTwice ==
  ASSUME NEW t \in Trees, NEW T, NEW sub, Shape(t, T, sub), NEW n \in T, NEW d \in Side,
         t.child[n][d] # Null, t.child[t.child[n][d]][Other(d)] # Null
  PROVE  TurnedTwice(t, T, sub, n, d)
<1>. DEFINE c == t.child[n][d]
            o == Other(d)
            y == t.child[c][o]
            x == t.child[c][d]
            z == t.child[n][o]
            i == t.child[y][d]
            j == t.child[y][o]
            r == t.up[n]
            v == Rotate(SetFromPtr(t, c, y), c, o)
            u == Rotate(SetFromPtr(v, n, y), n, d)
            sub1 == TurnedSub(t, sub, c, o)
            sub2 == TurnedSub(v, sub1, n, d)
            w == Rotate(t, c, o)
<1>1. c # Null /\ y # Null /\ o \in Side /\ Other(o) = d /\ o # d
  BY SideFacts
<1>2. T \subseteq Address /\ sub \in [T -> SUBSET T] /\ Null \notin T /\ c \in T /\ t.up[c] = n /\ c # n
      /\ sub[c] \subseteq sub[n] /\ n \notin sub[c] /\ c \in sub[c] /\ sub[n] \subseteq T
  <2>1. T \subseteq Address /\ sub \in [T -> SUBSET T] /\ Null \notin T
    BY AddressFacts DEF Shape
  <2>2. Kid(t, T, sub, n, d)
    BY KidFacts
  <2>3. c # Null
    BY <1>1
  <2>. HIDE DEF c
  <2>4. c = t.child[n][d]
    BY DEF c
  <2>. QED BY <2>1, <2>2, <2>3, <2>4 DEF Kid
<1>3. Turned(t, T, sub, c, o)
  BY <1>1, <1>2, Turn
<1>4. /\ v \in Trees /\ Shape(v, T, sub1)
      /\ y \in T /\ y # c /\ t.child[y][Other(o)] \notin {c, y} /\ j \notin {c, y} /\ t.child[c][Other(o)] \notin {c, y}
      /\ t.up[c] \notin {c, y} /\ j \in Pointer /\ t.child[y][Other(o)] \in Pointer
      /\ v.pRoot = IF t.up[c] = Null THEN y ELSE t.pRoot
      /\ \A m \in Address, e \in Side : v.child[m][e] =
           IF m = y /\ e = Other(o) THEN c ELSE IF m = c /\ e = o THEN t.child[y][Other(o)]
           ELSE IF m = t.up[c] /\ t.child[m][e] = c THEN y ELSE t.child[m][e]
      /\ \A m \in Address : v.up[m] =
           IF m = y THEN t.up[c] ELSE IF m = c THEN y ELSE IF m = t.child[y][Other(o)] THEN c ELSE t.up[m]
      /\ \A m \in Address \ {c, y} : v.height[m] = t.height[m] /\ v.imbalance[m] = t.imbalance[m]
      /\ v.height[c] = Higher(Height(t, t.child[y][Other(o)]), Height(t, t.child[c][Other(o)])) + 1
      /\ v.imbalance[c] = IF o = "before" THEN Height(t, t.child[y][Other(o)]) - Height(t, t.child[c][Other(o)])
                          ELSE Height(t, t.child[c][Other(o)]) - Height(t, t.child[y][Other(o)])
      /\ v.height[y] = Higher(Height(t, j), v.height[c]) + 1
      /\ v.imbalance[y] = IF o = "before" THEN Height(t, j) - v.height[c]
                          ELSE v.height[c] - Height(t, j)
  BY <1>3, Zenon DEF Turned
<1>5. c \in Address /\ o \in Side /\ t.child[c][o] \in Address /\ t.child[c][o] # c /\
         t.child[t.child[c][o]][Other(o)] \notin {c, t.child[c][o]} /\
         t.child[t.child[c][o]][o] \notin {c, t.child[c][o]} /\
         t.child[c][Other(o)] \notin {c, t.child[c][o]}
  BY <1>1, <1>2, <1>4, Zenon
<1>6. /\ w \in Trees /\ w.pRoot = t.pRoot
      /\ \A m \in Address, e \in Side : w.child[m][e] =
           IF m = y /\ e = Other(o) THEN c ELSE IF m = c /\ e = o THEN t.child[y][Other(o)] ELSE t.child[m][e]
      /\ \A m \in Address : w.up[m] =
           IF m = y THEN t.up[c] ELSE IF m = c THEN y ELSE IF m = t.child[y][Other(o)] THEN c ELSE t.up[m]
      /\ \A m \in Address \ {c, y} : w.height[m] = t.height[m] /\ w.imbalance[m] = t.imbalance[m]
      /\ w.height[c] = Higher(Height(t, t.child[y][Other(o)]), Height(t, t.child[c][Other(o)])) + 1
      /\ w.imbalance[c] = IF o = "before" THEN Height(t, t.child[y][Other(o)]) - Height(t, t.child[c][Other(o)])
                          ELSE Height(t, t.child[c][Other(o)]) - Height(t, t.child[y][Other(o)])
      /\ w.height[y] = Higher(Height(t, j), w.height[c]) + 1
      /\ w.imbalance[y] = IF o = "before" THEN Height(t, j) - w.height[c]
                          ELSE w.height[c] - Height(t, j)
  <2>1. Rotated(t, c, o)
    BY <1>5, RotateFacts, Zenon
  <2>2. /\ w.pRoot = t.pRoot /\ w \in Trees
        /\ \A m \in Address, e \in Side : w.child[m][e] =
             IF m = y /\ e = Other(o) THEN c ELSE IF m = c /\ e = o THEN t.child[y][Other(o)] ELSE t.child[m][e]
    BY <2>1, Zenon DEF Rotated
  <2>3. /\ \A m \in Address : w.up[m] =
             IF m = y THEN t.up[c] ELSE IF m = c THEN y ELSE IF m = t.child[y][Other(o)] THEN c ELSE t.up[m]
    BY <2>1, Zenon DEF Rotated
  <2>4. /\ \A m \in Address \ {c, y} : w.height[m] = t.height[m] /\ w.imbalance[m] = t.imbalance[m]
    BY <2>1, Zenon DEF Rotated
  <2>5. /\ w.height[c] = Higher(Height(t, t.child[y][Other(o)]), Height(t, t.child[c][Other(o)])) + 1
        /\ w.imbalance[c] = IF o = "before" THEN Height(t, t.child[y][Other(o)]) - Height(t, t.child[c][Other(o)])
                            ELSE Height(t, t.child[c][Other(o)]) - Height(t, t.child[y][Other(o)])
    BY <2>1, Zenon DEF Rotated
  <2>6. /\ w.height[y] = Higher(Height(t, j), w.height[c]) + 1
        /\ w.imbalance[y] = IF o = "before" THEN Height(t, j) - w.height[c]
                            ELSE w.height[c] - Height(t, j)
    BY <2>1, Zenon DEF Rotated
  <2>. HIDE DEF c, o, y, j, w
  <2>. QED BY <2>2, <2>3, <2>4, <2>5, <2>6
<1>e. /\ t.child[n][d] = c /\ t.child[n][o] = z /\ t.child[c][o] = y /\ t.child[c][d] = x
      /\ t.child[y][d] = i /\ t.child[y][o] = j /\ t.up[n] = r /\ Other(d) = o
      /\ t.child[y][Other(o)] = i /\ t.child[c][Other(o)] = x
  BY <1>1
<1>a. Kid(t, T, sub, n, o) /\ Kid(t, T, sub, c, d) /\ Kid(t, T, sub, c, o)
  BY <1>1, <1>2, KidFacts
<1>b. Kid(t, T, sub, y, d) /\ Kid(t, T, sub, y, o)
  BY <1>1, <1>4, KidFacts, Zenon
<1>12. r # Null => r \in T /\ r \notin sub[n]
  BY RootFacts
<1>13. n \in sub[n]
  BY ShapeChild
<1>14. sub1 = [sub EXCEPT ![y] = sub[c], ![c] = {c} \cup Below(sub, i) \cup Below(sub, x)]
  BY <1>e DEF TurnedSub
<1>q. /\ u = Rotate(SetFromPtr(v, n, y), n, d) /\ w = Rotate(t, c, o)
      /\ sub2 = TurnedSub(v, sub1, n, d)
  OBVIOUS
<1>. HIDE DEF c, o, y, x, z, i, j, r, v, u, sub1, sub2, w
<1>7. /\ n \notin Below(sub, z) /\ (z # Null => z \in T /\ t.up[z] = n /\ z # n /\ z \notin sub[c])
  <2>1. Below(sub, c) = sub[c]
    BY <1>1 DEF Below
  <2>. QED BY <1>a, <1>e, <1>1, <2>1 DEF Kid
<1>8. /\ sub[y] \subseteq sub[c] /\ y \in sub[c] /\ t.up[y] = c /\ c \notin sub[y]
  BY <1>a, <1>e, <1>1 DEF Kid
<1>9. x # Null => x \in T /\ x \in sub[c] /\ t.up[x] = c
  BY <1>a, <1>e DEF Kid
<1>10. i # Null => i \in T /\ i \in sub[y] /\ t.up[i] = y
  BY <1>b, <1>e DEF Kid
<1>11. j # Null => j \in T /\ j \in sub[y] /\ t.up[j] = y
  BY <1>b, <1>e DEF Kid
<1>15. v.child[n][d] = y /\ v.child[n][o] = z /\ v.child[y][o] = j /\ v.child[y][d] = c
       /\ v.child[c][o] = i /\ v.child[c][d] = x /\ v.up[n] = r
  <2>1. n \in Address /\ c \in Address /\ y \in Address /\ n # y /\ n # c /\ c # y /\ i # n /\ z # c /\ j # c /\ x # c
    BY <1>1, <1>2, <1>4, <1>7, <1>8, <1>9, <1>10, <1>11, <1>13
  <2>2. v.child[n][d] = y /\ v.child[n][o] = z
    BY <2>1, <1>4, <1>2, <1>1, <1>e
  <2>3. v.child[y][o] = j /\ v.child[y][d] = c
    BY <2>1, <1>4, <1>2, <1>1, <1>e
  <2>4. v.child[c][o] = i /\ v.child[c][d] = x
    BY <2>1, <1>4, <1>2, <1>1, <1>e
  <2>5. v.up[n] = r
    BY <2>1, <1>4, <1>2, <1>1, <1>e
  <2>. QED BY <2>2, <2>3, <2>4, <2>5
<1>16. Turned(v, T, sub1, n, d)
  <2>1. v.child[n][d] # Null
    BY <1>1, <1>15
  <2>. QED BY <2>1, <1>4, Turn
<1>17. /\ u \in Trees /\ Shape(u, T, sub2)
       /\ \A m \in Address, e \in Side : u.child[m][e] =
            IF m = y /\ e = o THEN n ELSE IF m = n /\ e = d THEN j
            ELSE IF m = r /\ v.child[m][e] = n THEN y ELSE v.child[m][e]
       /\ \A m \in Address : u.up[m] =
            IF m = y THEN r ELSE IF m = n THEN y ELSE IF m = j THEN n ELSE v.up[m]
       /\ \A m \in Address \ {n, y} : u.height[m] = v.height[m] /\ u.imbalance[m] = v.imbalance[m]
       /\ u.height[n] = Higher(Height(v, j), Height(v, z)) + 1
       /\ u.imbalance[n] = IF d = "before" THEN Height(v, j) - Height(v, z)
                           ELSE Height(v, z) - Height(v, j)
       /\ u.height[y] = Higher(Height(v, c), u.height[n]) + 1
       /\ u.imbalance[y] = IF d = "before" THEN Height(v, c) - u.height[n]
                           ELSE u.height[n] - Height(v, c)
  BY <1>16, <1>15, <1>q, <1>e DEF Turned
<1>18. /\ n \in Address /\ c \in Address /\ y \in Address /\ n # y /\ n # c /\ c # y
       /\ \A q \in {x, z, i, j, r} : q \notin {n, c, y}
  <2>1. n \in Address /\ c \in Address /\ y \in Address /\ n # y /\ n # c /\ c # y
    BY <1>1, <1>2, <1>4, <1>7, <1>8, <1>13
  <2>2. x \notin {n, c, y}
    BY <2>1, <1>1, <1>2, <1>9, <1>8, <1>4, <1>e
  <2>3. z \notin {n, c, y}
    BY <2>1, <1>1, <1>2, <1>7, <1>8
  <2>4. i \notin {n, c, y}
    BY <2>1, <1>1, <1>2, <1>10, <1>8, <1>4, <1>e
  <2>5. j \notin {n, c, y}
    BY <2>1, <1>1, <1>2, <1>11, <1>8, <1>4
  <2>6. r \notin {n, c, y}
    BY <2>1, <1>1, <1>2, <1>12, <1>8, <1>13
  <2>. QED BY <2>1, <2>2, <2>3, <2>4, <2>5, <2>6
<1>19. [Rotate(t, c, o) EXCEPT !.child[n][d] = y] = v
  <2>. DEFINE ch == [w.child EXCEPT ![n][d] = y]
              w2 == [pRoot |-> w.pRoot, child |-> ch, up |-> w.up, height |-> w.height,
                     imbalance |-> w.imbalance]
  <2>1. [Rotate(t, c, o) EXCEPT !.child[n][d] = y] = w2
    <3>1. w = [pRoot |-> w.pRoot, child |-> w.child, up |-> w.up, height |-> w.height,
               imbalance |-> w.imbalance]
      BY <1>6, TreesFields
    <3>2. [w EXCEPT !.child[n][d] = y] = w2
      BY <3>1
    <3>. QED BY <3>2, <1>q
  <2>2. ch \in [Address -> [Side -> Pointer]]
        /\ \A m \in Address, e \in Side : ch[m][e] = IF m = n /\ e = d THEN y ELSE w.child[m][e]
    <3>1. w.child \in [Address -> [Side -> Pointer]] /\ w.child[n] \in [Side -> Pointer] /\ y \in Pointer
      BY <1>6, <1>18, TreesFields DEF Pointer
    <3>. QED BY <3>1, <1>18
  <2>. HIDE DEF ch
  <2>3. w2 \in Trees
    BY <2>2, <1>6, TreesFields, TreesIntro
  <2>4. /\ w2.pRoot = w.pRoot /\ w2.child = ch /\ w2.up = w.up /\ w2.height = w.height
        /\ w2.imbalance = w.imbalance
    OBVIOUS
  <2>. HIDE DEF w2
  <2>5. w2.pRoot = v.pRoot
    <3>1. t.up[c] # Null
      BY <1>2
    <3>. QED BY <3>1, <2>4, <1>4, <1>6
  <2>6. ASSUME NEW m \in Address, NEW e \in Side PROVE w2.child[m][e] = v.child[m][e]
    <3>1. w2.child[m][e] = IF m = n /\ e = d THEN y ELSE w.child[m][e]
      BY <2>2, <2>4
    <3>2. w.child[m][e] = IF m = y /\ e = d THEN c ELSE IF m = c /\ e = o THEN i ELSE t.child[m][e]
      BY <1>6, <1>e, <1>1
    <3>3. v.child[m][e] = IF m = y /\ e = d THEN c ELSE IF m = c /\ e = o THEN i
                           ELSE IF m = n /\ t.child[m][e] = c THEN y ELSE t.child[m][e]
      BY <1>4, <1>2, <1>e, <1>1
    <3>4. t.child[n][o] # c /\ t.child[n][d] = c /\ (e = d \/ e = o)
      BY <1>15, <1>18, <1>e, SideFacts
    <3>5. n # y /\ n # c /\ c # y
      BY <1>18
    <3>. QED BY <3>1, <3>2, <3>3, <3>4, <3>5
  <2>7. ASSUME NEW m \in Address
        PROVE  w2.up[m] = v.up[m] /\ w2.height[m] = v.height[m] /\ w2.imbalance[m] = v.imbalance[m]
    <3>1. w2.up[m] = v.up[m]
      BY <2>4, <1>4, <1>6
    <3>2. w2.height[c] = v.height[c] /\ w2.imbalance[c] = v.imbalance[c]
      BY <2>4, <1>4, <1>6
    <3>3. w2.height[y] = v.height[y] /\ w2.imbalance[y] = v.imbalance[y]
      BY <3>2, <2>4, <1>4, <1>6
    <3>4. CASE m \notin {c, y}
      BY <3>4, <2>4, <1>4, <1>6
    <3>. QED BY <3>1, <3>2, <3>3, <3>4
  <2>. QED BY <2>1, <2>3, <2>5, <2>6, <2>7, <1>4, TreesExt
<1>20. ASSUME NEW m \in Address, NEW e \in Side
       PROVE  u.child[m][e] =
                 IF m = y /\ e = o THEN n ELSE IF m = y /\ e = d THEN c
                 ELSE IF m = c /\ e = o THEN i ELSE IF m = n /\ e = d THEN j
                 ELSE IF m = r /\ t.child[m][e] = n THEN y ELSE t.child[m][e]
  <2>1. /\ u.child[m][e] = IF m = y /\ e = o THEN n ELSE IF m = n /\ e = d THEN j
                           ELSE IF m = r /\ v.child[m][e] = n THEN y ELSE v.child[m][e]
        /\ v.child[m][e] = IF m = y /\ e = d THEN c ELSE IF m = c /\ e = o THEN i
                           ELSE IF m = n /\ t.child[m][e] = c THEN y ELSE t.child[m][e]
        /\ e = d \/ e = o
    BY <1>17, <1>4, <1>2, <1>e, SideFacts
  <2>2. r # n /\ r # c /\ r # y /\ n # y /\ n # c /\ c # y
    BY <1>18
  <2>3. CASE m = y
    BY <2>1, <2>2, <2>3, <1>1
  <2>4. CASE m = c
    BY <2>1, <2>2, <2>4, <1>1
  <2>5. CASE m = n
    <3>1. t.child[n][o] # c
      BY <1>15, <1>18, <1>e
    <3>. QED BY <2>1, <2>2, <2>5, <3>1, <1>1
  <2>6. CASE m # y /\ m # c /\ m # n
    BY <2>1, <2>2, <2>6
  <2>. QED BY <2>3, <2>4, <2>5, <2>6
<1>21. u.up[y] = r
  BY <1>17, <1>18
<1>22. \A m \in Address \ {n, c, y} : u.height[m] = t.height[m] /\ u.imbalance[m] = t.imbalance[m]
  BY <1>17, <1>4
<1>23. /\ u.height[n] = Higher(Height(t, j), Height(t, z)) + 1
       /\ u.imbalance[n] = IF d = "before" THEN Height(t, j) - Height(t, z)
                           ELSE Height(t, z) - Height(t, j)
  <2>1. ASSUME NEW q \in Pointer, q \notin {n, c, y} PROVE Height(v, q) = Height(t, q)
    BY <2>1, <1>4 DEF Height, Pointer
  <2>2. j \in Pointer /\ z \in Pointer
    BY <1>1, <1>e, <1>18, TreesFields
  <2>3. Height(v, j) = Height(t, j) /\ Height(v, z) = Height(t, z)
    BY <2>1, <2>2, <1>18
  <2>. QED BY <2>3, <1>17
<1>24. /\ u.height[c] = Higher(Height(t, i), Height(t, x)) + 1
       /\ u.imbalance[c] = IF d = "before" THEN Height(t, x) - Height(t, i)
                           ELSE Height(t, i) - Height(t, x)
       /\ Height(v, c) = u.height[c]
  <2>1. u.height[c] = v.height[c] /\ u.imbalance[c] = v.imbalance[c]
    BY <1>17, <1>18
  <2>2. Height(v, c) = v.height[c]
    BY <1>1 DEF Height
  <2>3. d = "before" <=> o # "before"
    BY <1>e, SideFacts
  <2>. QED BY <2>1, <2>2, <2>3, <1>4, <1>e
<1>25. /\ u.height[y] = Higher(u.height[c], u.height[n]) + 1
       /\ u.imbalance[y] = IF d = "before" THEN u.height[c] - u.height[n]
                           ELSE u.height[n] - u.height[c]
  BY <1>17, <1>24
<1>26. sub2[y] = sub[n] /\ \A m \in T : m \notin {n, c, y} => sub2[m] = sub[m]
  <2>1. sub1 \in [T -> SUBSET T]
    BY <1>4 DEF Shape
  <2>2. sub1[n] = sub[n] /\ \A m \in T : m \notin {c, y} => sub1[m] = sub[m]
    BY <1>14, <1>2, <1>4, <1>18
  <2>3. sub2 = [sub1 EXCEPT ![y] = sub1[n], ![n] = {n} \cup Below(sub1, j) \cup Below(sub1, z)]
    BY <1>q, <1>15, <1>e DEF TurnedSub
  <2>4. sub2[y] = sub1[n] /\ \A m \in T : m \notin {n, y} => sub2[m] = sub1[m]
    BY <2>1, <2>3, <1>4, <1>18
  <2>. QED BY <2>2, <2>4
<1>. QED
  BY <1>2, <1>4, <1>15, <1>17, <1>18, <1>19, <1>20, <1>21, <1>22, <1>23, <1>24, <1>25, <1>26, Zenon
     DEF TurnedTwice, c, o, y, x, z, i, j, r, v, u, sub1, sub2

Weighed(G, t, m, d) ==
    LET i == High(G, t.child[m][d])
        j == High(G, t.child[m][Other(d)])
    IN /\ i \in Nat /\ j \in Nat
       /\ Tall(G, t, m) = Higher(i, j) + 1
       /\ Diff(G, t, m) = IF d = "before" THEN i - j ELSE j - i
       /\ Diff(G, t, m) \in -1..1 <=> i - j \in -1..1

\* The same as FromSide, with a name.
LEMMA WeighedFacts ==
  ASSUME NEW t \in Trees, NEW T, NEW sub, Shape(t, T, sub), NEW G \in [T -> Nat],
         NEW m \in T, NEW d \in Side
  PROVE  Weighed(G, t, m, d)
BY FromSide DEF Weighed

\* A step of the way up from n that ends in u, at the node at.
StepDone(T, sub, n, u, at) ==
    /\ u \in Trees
    /\ \E sub2, G2 : /\ Shape(u, T, sub2) /\ AlmostBalanced(u, T, sub2, G2, at)
                     /\ at # Null => Cardinality(sub2[at]) > Cardinality(sub[n])

\* A double rotation that ends one node of the way up.
DoublyTurned(t, T, sub, n, d) ==
    LET c == t.child[n][d]
        o == Other(d)
        y == t.child[c][o]
        v == Rotate(SetFromPtr(t, c, y), c, o)
        u == Rotate(SetFromPtr(v, n, y), n, d)
    IN /\ c # Null /\ y # Null /\ TurnedTwice(t, T, sub, n, d)
       /\ u.up[y] = t.up[n] /\ StepDone(T, sub, n, u, t.up[n])

\* After a zigzag: the shape, the heights, and where the way up goes on.
LEMMA DoubleTurn ==
  ASSUME NEW t \in Trees, NEW T, NEW sub, Shape(t, T, sub), NEW G, NEW n \in T,
         AlmostBalanced(t, T, sub, G, n), NEW d \in Side,
         High(G, t.child[n][d]) = High(G, t.child[n][Other(d)]) + 2,
         High(G, t.child[t.child[n][d]][d]) < High(G, t.child[t.child[n][d]][Other(d)])
  PROVE  DoublyTurned(t, T, sub, n, d)
<1>. DEFINE c == t.child[n][d]
            o == Other(d)
            y == t.child[c][o]
            x == t.child[c][d]
            z == t.child[n][o]
            i == t.child[y][d]
            j == t.child[y][o]
            r == t.up[n]
            v == Rotate(SetFromPtr(t, c, y), c, o)
            u == Rotate(SetFromPtr(v, n, y), n, d)
            sub1 == TurnedSub(t, sub, c, o)
            sub2 == TurnedSub(v, sub1, n, d)
<1>0. /\ T \subseteq Address /\ sub \in [T -> SUBSET T] /\ Null \notin T /\ G \in [T -> Nat]
      /\ o \in Side /\ Other(o) = d /\ o # d
  BY AddressFacts, SideFacts DEF Shape, AlmostBalanced
<1>e. /\ t.child[n][d] = c /\ t.child[n][o] = z /\ t.child[c][o] = y /\ t.child[c][d] = x
      /\ t.child[y][d] = i /\ t.child[y][o] = j /\ t.up[n] = r /\ Other(d) = o
  OBVIOUS
<1>a. Weighed(G, t, n, d) /\ Kid(t, T, sub, n, d) /\ Kid(t, T, sub, n, o)
  BY <1>0, WeighedFacts, KidFacts
<1>1. High(G, c) = High(G, z) + 2 /\ High(G, x) < High(G, y)
  OBVIOUS
<1>d. c = t.child[n][d] /\ y = t.child[t.child[n][d]][Other(d)]
  OBVIOUS
<1>q. /\ v = Rotate(SetFromPtr(t, c, y), c, o)
      /\ u = Rotate(SetFromPtr(v, n, y), n, d)
      /\ sub1 = TurnedSub(t, sub, c, o)
      /\ sub2 = TurnedSub(v, sub1, n, d)
  OBVIOUS
<1>t. TurnedTwice(t, T, sub, n, d) =>
      /\ u \in Trees /\ Shape(u, T, sub2)
      /\ c # n /\ y # n /\ y # c
      /\ \A q \in {x, z, i, j, r} : q \notin {n, c, y}
      /\ \A m \in Address, e \in Side : u.child[m][e] =
           IF m = y /\ e = o THEN n ELSE IF m = y /\ e = d THEN c
           ELSE IF m = c /\ e = o THEN i ELSE IF m = n /\ e = d THEN j
           ELSE IF m = r /\ t.child[m][e] = n THEN y ELSE t.child[m][e]
      /\ u.up[y] = r
      /\ \A m \in Address \ {n, c, y} : u.height[m] = t.height[m] /\ u.imbalance[m] = t.imbalance[m]
      /\ u.height[n] = Higher(Height(t, j), Height(t, z)) + 1
      /\ u.imbalance[n] = IF d = "before" THEN Height(t, j) - Height(t, z)
                          ELSE Height(t, z) - Height(t, j)
      /\ u.height[c] = Higher(Height(t, i), Height(t, x)) + 1
      /\ u.imbalance[c] = IF d = "before" THEN Height(t, x) - Height(t, i)
                          ELSE Height(t, i) - Height(t, x)
      /\ u.height[y] = Higher(u.height[c], u.height[n]) + 1
      /\ u.imbalance[y] = IF d = "before" THEN u.height[c] - u.height[n]
                          ELSE u.height[n] - u.height[c]
      /\ sub2[y] = sub[n]
      /\ \A m \in T : m \notin {n, c, y} => sub2[m] = sub[m]
  BY Zenon DEF TurnedTwice
<1>. HIDE DEF c, o, y, x, z, i, j, r, v, u, sub1, sub2
<1>2. c # Null /\ c \in T /\ c # n /\ t.up[c] = n
  BY <1>1, <1>a, <1>e DEF Weighed, High, Kid
<1>b. Weighed(G, t, c, d) /\ Kid(t, T, sub, c, d) /\ Kid(t, T, sub, c, o)
  BY <1>0, <1>2, WeighedFacts, KidFacts
<1>3. y # Null /\ y \in T /\ y # c /\ t.up[y] = c
  BY <1>1, <1>b, <1>e DEF Weighed, High, Kid
<1>c. Weighed(G, t, y, d) /\ Kid(t, T, sub, y, d) /\ Kid(t, T, sub, y, o)
  BY <1>0, <1>3, WeighedFacts, KidFacts
<1>4. TurnedTwice(t, T, sub, n, d)
  BY <1>2, <1>3, <1>d, TurnTwice
<1>5. /\ u \in Trees /\ Shape(u, T, sub2)
      /\ c # n /\ y # n /\ y # c
      /\ \A q \in {x, z, i, j, r} : q \notin {n, c, y}
      /\ \A m \in Address, e \in Side : u.child[m][e] =
           IF m = y /\ e = o THEN n ELSE IF m = y /\ e = d THEN c
           ELSE IF m = c /\ e = o THEN i ELSE IF m = n /\ e = d THEN j
           ELSE IF m = r /\ t.child[m][e] = n THEN y ELSE t.child[m][e]
      /\ u.up[y] = r
      /\ \A m \in Address \ {n, c, y} : u.height[m] = t.height[m] /\ u.imbalance[m] = t.imbalance[m]
      /\ u.height[n] = Higher(Height(t, j), Height(t, z)) + 1
      /\ u.imbalance[n] = IF d = "before" THEN Height(t, j) - Height(t, z)
                          ELSE Height(t, z) - Height(t, j)
      /\ u.height[c] = Higher(Height(t, i), Height(t, x)) + 1
      /\ u.imbalance[c] = IF d = "before" THEN Height(t, x) - Height(t, i)
                          ELSE Height(t, i) - Height(t, x)
      /\ u.height[y] = Higher(u.height[c], u.height[n]) + 1
      /\ u.imbalance[y] = IF d = "before" THEN u.height[c] - u.height[n]
                          ELSE u.height[n] - u.height[c]
      /\ sub2[y] = sub[n]
      /\ \A m \in T : m \notin {n, c, y} => sub2[m] = sub[m]
  BY <1>4, <1>t
<1>. DEFINE hx == High(G, x)
            hi == High(G, i)
            hj == High(G, j)
            hz == High(G, z)
<1>6. /\ x \in T \cup {Null} /\ z \in T \cup {Null} /\ i \in T \cup {Null} /\ j \in T \cup {Null}
      /\ (x # Null => n \notin sub[x]) /\ (z # Null => n \notin sub[z])
      /\ (i # Null => n \notin sub[i]) /\ (j # Null => n \notin sub[j])
      /\ c \in sub[n] /\ y \in sub[n] /\ n \in sub[n] /\ n \notin sub[c] /\ n \notin sub[y]
  <2>1. c \in sub[n] /\ n \in sub[n] /\ n \notin sub[c] /\ sub[c] \subseteq sub[n] /\ z \in T \cup {Null}
        /\ (z # Null => n \notin sub[z])
    BY <1>a, <1>e, <1>2 DEF Kid
  <2>2. y \in sub[c] /\ sub[y] \subseteq sub[c] /\ x \in T \cup {Null} /\ (x # Null => sub[x] \subseteq sub[c])
    BY <1>b, <1>e, <1>3 DEF Kid
  <2>3. i \in T \cup {Null} /\ (i # Null => sub[i] \subseteq sub[y])
    BY <1>c, <1>e DEF Kid
  <2>4. j \in T \cup {Null} /\ (j # Null => sub[j] \subseteq sub[y])
    BY <1>c, <1>e DEF Kid
  <2>. QED BY <2>1, <2>2, <2>3, <2>4
<1>7. Height(t, x) = hx /\ Height(t, z) = hz /\ Height(t, i) = hi /\ Height(t, j) = hj
  BY <1>6, HeightsBelow
<1>8. /\ hx \in Nat /\ hi \in Nat /\ hj \in Nat /\ hz \in Nat /\ G[n] \in Nat
      /\ hx = hz /\ hi - hj \in -1..1 /\ Higher(hi, hj) = hz
      /\ G[n] \in {hz + 2, hz + 3}
  <2>1. High(G, c) = G[c] /\ High(G, y) = G[y]
    BY <1>2, <1>3 DEF High
  <2>2. /\ hz \in Nat /\ Tall(G, t, n) = Higher(High(G, c), hz) + 1
        /\ Diff(G, t, n) = IF d = "before" THEN High(G, c) - hz ELSE hz - High(G, c)
    BY <1>a, <1>e DEF Weighed
  <2>3. /\ hx \in Nat /\ High(G, y) \in Nat /\ Tall(G, t, c) = Higher(hx, High(G, y)) + 1
        /\ Diff(G, t, c) \in -1..1 <=> hx - High(G, y) \in -1..1
    BY <1>b, <1>e DEF Weighed
  <2>4. /\ hi \in Nat /\ hj \in Nat /\ Tall(G, t, y) = Higher(hi, hj) + 1
        /\ Diff(G, t, y) \in -1..1 <=> hi - hj \in -1..1
    BY <1>c, <1>e DEF Weighed
  <2>5. G[c] = Tall(G, t, c) /\ Diff(G, t, c) \in -1..1 /\ G[y] = Tall(G, t, y) /\ Diff(G, t, y) \in -1..1
    BY <1>2, <1>3, <1>5 DEF AlmostBalanced
  <2>6. Diff(G, t, n) \in {-2, 2}
    BY <2>2, <1>1
  <2>7. G[n] - Tall(G, t, n) \in -1..1 /\ G[n] <= Tall(G, t, n) /\ G[n] \in Nat
    BY <2>6, <1>0 DEF AlmostBalanced
  <2>8. High(G, c) = hz + 2 /\ hx < High(G, y)
    BY <1>1
  <2>. HIDE DEF hx, hi, hj, hz
  <2>9. High(G, y) = hz + 1 /\ hx = hz
    BY <2>1, <2>2, <2>3, <2>5, <2>8 DEF Higher
  <2>10. Higher(hi, hj) = hz
    BY <2>1, <2>2, <2>4, <2>5, <2>9 DEF Higher
  <2>11. Tall(G, t, n) = hz + 3
    BY <2>2, <2>8 DEF Higher
  <2>. QED BY <2>2, <2>3, <2>4, <2>5, <2>7, <2>9, <2>10, <2>11
<1>. HIDE DEF hx, hi, hj, hz
<1>9. /\ u.height[n] = hz + 1 /\ u.height[c] = hz + 1 /\ u.height[y] = hz + 2
      /\ u.imbalance[n] = (IF d = "before" THEN hj - hz ELSE hz - hj)
      /\ u.imbalance[c] = (IF d = "before" THEN hx - hi ELSE hi - hx)
      /\ u.imbalance[y] = 0 /\ hj - hz \in -1..1 /\ hx - hi \in -1..1
      /\ Higher(hj, hz) + 1 = hz + 1 /\ Higher(hx, hi) + 1 = hz + 1
  <2>1. Higher(hj, hz) = hz /\ Higher(hi, hx) = hz /\ Higher(hx, hi) = hz
        /\ hj - hz \in -1..1 /\ hx - hi \in -1..1 /\ Higher(hz + 1, hz + 1) = hz + 1
    BY <1>8 DEF Higher
  <2>2. u.height[n] = hz + 1 /\ u.height[c] = hz + 1
    BY <2>1, <1>7, <1>5, <1>8
  <2>3. u.height[y] = hz + 2 /\ u.imbalance[y] = 0
    BY <2>1, <2>2, <1>5, <1>8
  <2>. QED BY <2>1, <2>2, <2>3, <1>7, <1>5, <1>8
<1>. DEFINE G2 == [G EXCEPT ![n] = hz + 1, ![c] = hz + 1, ![y] = hz + 2]
<1>10. G2 \in [T -> Nat] /\ G2[n] = hz + 1 /\ G2[c] = hz + 1 /\ G2[y] = hz + 2
       /\ \A m \in T : m \notin {n, c, y} => G2[m] = G[m]
  BY <1>0, <1>2, <1>3, <1>5, <1>8
<1>. HIDE DEF G2
<1>11. \A q \in T \cup {Null} : q \notin {n, c, y} => High(G2, q) = High(G, q)
  BY <1>10 DEF High
<1>12. /\ High(G2, n) = hz + 1 /\ High(G2, c) = hz + 1
       /\ High(G2, x) = hx /\ High(G2, z) = hz /\ High(G2, i) = hi /\ High(G2, j) = hj
  <2>1. High(G2, n) = hz + 1 /\ High(G2, c) = hz + 1
    BY <1>0, <1>2, <1>10 DEF High
  <2>. QED BY <2>1, <1>5, <1>6, <1>11 DEF hx, hi, hj, hz
<1>13. /\ u.child[y][o] = n /\ u.child[y][d] = c /\ u.child[c][o] = i /\ u.child[c][d] = x
       /\ u.child[n][d] = j /\ u.child[n][o] = z
  <2>1. n \in Address /\ c \in Address /\ y \in Address /\ n # c /\ n # y /\ c # y /\ r # n /\ r # c /\ z # n
    BY <1>0, <1>2, <1>3, <1>5
  <2>. QED BY <2>1, <1>5, <1>0, <1>e
<1>14. Weighed(G2, u, n, d) /\ Weighed(G2, u, c, d) /\ Weighed(G2, u, y, d)
  BY <1>2, <1>3, <1>5, <1>10, WeighedFacts
<1>15. /\ G2[n] = Tall(G2, u, n) /\ Diff(G2, u, n) \in -1..1
       /\ u.height[n] = G2[n] /\ u.imbalance[n] = Diff(G2, u, n)
  <2>1. /\ Tall(G2, u, n) = Higher(hj, hz) + 1
        /\ Diff(G2, u, n) = IF d = "before" THEN hj - hz ELSE hz - hj
        /\ (Diff(G2, u, n) \in -1..1 <=> hj - hz \in -1..1)
    BY <1>14, <1>13, <1>12, <1>e DEF Weighed
  <2>. QED BY <2>1, <1>9, <1>10
<1>16. /\ G2[c] = Tall(G2, u, c) /\ Diff(G2, u, c) \in -1..1
       /\ u.height[c] = G2[c] /\ u.imbalance[c] = Diff(G2, u, c)
  <2>1. /\ Tall(G2, u, c) = Higher(hx, hi) + 1
        /\ Diff(G2, u, c) = IF d = "before" THEN hx - hi ELSE hi - hx
        /\ (Diff(G2, u, c) \in -1..1 <=> hx - hi \in -1..1)
    BY <1>14, <1>13, <1>12, <1>e DEF Weighed
  <2>. QED BY <2>1, <1>9, <1>10
<1>17. /\ G2[y] = Tall(G2, u, y) /\ Diff(G2, u, y) \in -1..1
       /\ u.height[y] = G2[y] /\ u.imbalance[y] = Diff(G2, u, y)
  <2>1. /\ Tall(G2, u, y) = Higher(hz + 1, hz + 1) + 1
        /\ Diff(G2, u, y) = IF d = "before" THEN (hz + 1) - (hz + 1) ELSE (hz + 1) - (hz + 1)
    BY <1>14, <1>13, <1>12, <1>e DEF Weighed
  <2>. QED BY <2>1, <1>8, <1>9, <1>10 DEF Higher
<1>18. ASSUME NEW m \in sub[n], m \notin {n, c, y}
       PROVE  /\ G2[m] = Tall(G2, u, m) /\ Diff(G2, u, m) \in -1..1
              /\ u.height[m] = G2[m] /\ u.imbalance[m] = Diff(G2, u, m)
  <2>1. m \in T /\ n \notin sub[m] /\ m \in Address
    BY <1>18, <1>0, Inside
  <2>a. r \notin sub[n]
    BY <1>0, <1>e, RootFacts
  <2>b. m # r /\ m # n /\ m # c /\ m # y
    BY <2>a, <1>18
  <2>2. ASSUME NEW e \in Side PROVE High(G2, u.child[m][e]) = High(G, t.child[m][e])
    <3>1. u.child[m][e] = t.child[m][e]
      BY <2>1, <2>b, <1>5
    <3>2. t.child[m][e] \in T \cup {Null}
      BY <2>1 DEF Shape
    <3>a. Kid(t, T, sub, m, e)
      BY <2>1, KidFacts
    <3>3. t.child[m][e] # Null => t.up[t.child[m][e]] = m /\ t.child[m][e] \in sub[m]
      BY <3>a DEF Kid
    <3>4. t.child[m][e] # n /\ t.child[m][e] # c /\ t.child[m][e] # y
      BY <3>3, <2>1, <2>b, <1>0, <1>2, <1>3
    <3>. QED BY <3>1, <3>2, <3>4, <1>11
  <2>3. Tall(G2, u, m) = Tall(G, t, m) /\ Diff(G2, u, m) = Diff(G, t, m)
    BY <2>2, SideFacts, Zenon DEF Tall, Diff
  <2>4. u.height[m] = t.height[m] /\ u.imbalance[m] = t.imbalance[m] /\ G2[m] = G[m]
    BY <2>1, <1>5, <1>10, <1>18
  <2>. QED BY <2>1, <2>3, <2>4, <1>18 DEF AlmostBalanced
<1>19. ASSUME NEW m \in T \ sub[n]
       PROVE  /\ G2[m] = G[m] /\ u.height[m] = t.height[m]
              /\ u.imbalance[m] = t.imbalance[m] /\ sub2[m] = sub[m]
              /\ \A e \in Side : u.child[m][e] = IF t.child[m][e] = n THEN y ELSE t.child[m][e]
  <2>1. m # n /\ m # c /\ m # y /\ m \in Address /\ m \in T
    BY <1>0, <1>6
  <2>2. sub2[m] = sub[m] /\ G2[m] = G[m] /\ u.height[m] = t.height[m] /\ u.imbalance[m] = t.imbalance[m]
    BY <2>1, <1>5, <1>10
  <2>3. ASSUME NEW e \in Side PROVE u.child[m][e] = IF t.child[m][e] = n THEN y ELSE t.child[m][e]
    <3>1. t.child[m][e] = n => m = r
      BY <1>e, <1>0 DEF Shape
    <3>2. u.child[m][e] = IF m = r /\ t.child[m][e] = n THEN y ELSE t.child[m][e]
      BY <2>1, <1>5
    <3>. QED BY <3>1, <3>2
  <2>. QED BY <2>2, <2>3
<1>20. G2[y] - G[n] \in -1..1
  BY <1>8, <1>10
<1>21. /\ AlmostBalanced(u, T, sub2, G2, r)
       /\ r # Null => Cardinality(sub2[r]) > Cardinality(sub[n])
  <2>1. \A m \in sub[n] : /\ G2[m] = Tall(G2, u, m) /\ Diff(G2, u, m) \in -1..1
                          /\ u.height[m] = G2[m] /\ u.imbalance[m] = Diff(G2, u, m)
    BY <1>15, <1>16, <1>17, <1>18
  <2>2. u.up[y] = t.up[n] /\ sub2[y] = sub[n] /\ y \in T /\ G2 \in [T -> Nat]
    BY <1>5, <1>e, <1>3, <1>10
  <2>. QED BY <1>e, <2>1, <2>2, <1>5, <1>19, <1>20, MoveUp
<1>22. StepDone(T, sub, n, u, r)
  BY <1>5, <1>21 DEF StepDone
<1>. QED BY <1>2, <1>3, <1>4, <1>5, <1>22, Zenon DEF DoublyTurned, c, y, o, u, v, r

\* After a single rotation.
LEMMA SingleTurnDone ==
  ASSUME NEW t \in Trees, NEW T, NEW sub, Shape(t, T, sub), NEW G, NEW n \in T,
         AlmostBalanced(t, T, sub, G, n), NEW d \in Side, NEW c, c = t.child[n][d], c # Null,
         High(G, t.child[n][d]) = High(G, t.child[n][Other(d)]) + 2,
         High(G, t.child[t.child[n][d]][d]) >= High(G, t.child[t.child[n][d]][Other(d)]),
         NEW u, u = Rotate(SetFromPtr(t, n, c), n, d)
  PROVE  u.up[c] = t.up[n] /\ StepDone(T, sub, n, u, t.up[n])
<1>1. t.child[n][d] # Null
  OBVIOUS
<1>2. LET c0 == t.child[n][d]
          u0 == Rotate(SetFromPtr(t, n, c0), n, d)
      IN u0 \in Trees /\ u0.up[c0] = t.up[n]
            /\ \E sub2, G2 :
                 /\ Shape(u0, T, sub2) /\ AlmostBalanced(u0, T, sub2, G2, t.up[n])
                 /\ t.up[n] # Null => Cardinality(sub2[t.up[n]]) > Cardinality(sub[n])
  BY <1>1, SingleTurn
<1>. QED BY <1>2 DEF StepDone

\* One turn of the loop of kvmemBalance.
LEMMA BalanceStep ==
  ASSUME NEW t0 \in Trees, NEW T, NEW sub, Shape(t0, T, sub), NEW G, NEW n \in T,
         AlmostBalanced(t0, T, sub, G, n)
  PROVE  StepDone(T, sub, n, BalanceAt(t0, n).tree, BalanceAt(t0, n).at)
<1>. DEFINE t == RecomputeHeight(t0, n)
            d == IF t.imbalance[n] > 0 THEN "before" ELSE "after"
            c == t.child[n][d]
            zigzag == IF d = "before" THEN t.imbalance[c] < 0 ELSE t.imbalance[c] > 0
            straight == IF zigzag
                        THEN [Rotate(t, c, Other(d)) EXCEPT
                                !.child[n][d] = t.child[c][Other(d)]]
                        ELSE t
            top == straight.child[n][d]
            turned == Rotate(SetFromPtr(straight, n, top), n, d)
            b == BalanceAt(t0, n)
<1>1. b = IF t.imbalance[n] \in -1..1 THEN [tree |-> t, at |-> t.up[n]]
          ELSE [tree |-> turned, at |-> turned.up[top]]
  BY DEF BalanceAt
<1>2. /\ t \in Trees /\ Shape(t, T, sub) /\ AlmostBalanced(t, T, sub, G, n)
      /\ t.height[n] = Tall(G, t, n) /\ t.imbalance[n] = Diff(G, t, n)
  BY RecomputeAt
<1>d. d = IF t.imbalance[n] > 0 THEN "before" ELSE "after"
  OBVIOUS
<1>c. c = t.child[n][d]
  OBVIOUS
<1>z. zigzag = IF d = "before" THEN t.imbalance[c] < 0 ELSE t.imbalance[c] > 0
  OBVIOUS
<1>s. straight = IF zigzag
                 THEN [Rotate(t, c, Other(d)) EXCEPT
                          !.child[n][d] = t.child[c][Other(d)]]
                 ELSE t
  OBVIOUS
<1>p. top = straight.child[n][d] /\ turned = Rotate(SetFromPtr(straight, n, top), n, d)
  OBVIOUS
<1>b. b = BalanceAt(t0, n)
  OBVIOUS
<1>. HIDE DEF t, d, c, zigzag, straight, top, turned, b
<1>3. CASE t.imbalance[n] \in -1..1
  <2>1. b.tree = t /\ b.at = t.up[n]
    BY <1>1, <1>3
  <2>2. PICK G2 : /\ AlmostBalanced(t, T, sub, G2, t.up[n])
                  /\ t.up[n] # Null => Cardinality(sub[t.up[n]]) > Cardinality(sub[n])
    BY <1>2, <1>3, StayedBalanced
  <2>3. StepDone(T, sub, n, t, t.up[n])
    <3>1. \E sub2, G3 : /\ Shape(t, T, sub2) /\ AlmostBalanced(t, T, sub2, G3, t.up[n])
                        /\ t.up[n] # Null => Cardinality(sub2[t.up[n]]) > Cardinality(sub[n])
      <4>1. WITNESS sub, G2
      <4>. QED BY <2>2, <1>2
    <3>. QED BY <3>1, <1>2 DEF StepDone
  <2>. QED BY <2>1, <2>3, <1>b
<1>4. CASE t.imbalance[n] \notin -1..1
  <2>1. b.tree = turned /\ b.at = turned.up[top]
    BY <1>1, <1>4
  <2>2. Diff(G, t, n) \in {-2, 2} /\ G \in [T -> Nat]
    <3>1. n # Null
      BY AddressFacts DEF Shape
    <3>2. Diff(G, t, n) \in -2..2 /\ G \in [T -> Nat]
      BY <3>1, <1>2 DEF AlmostBalanced
    <3>3. ~(Diff(G, t, n) \in -1..1)
      BY <1>2, <1>4
    <3>. HIDE DEF t
    <3>. QED BY <3>2, <3>3
  <2>3. d \in Side /\ d = (IF Diff(G, t, n) > 0 THEN "before" ELSE "after")
    BY <1>d, <1>2, SideFacts
  <2>4. Weighed(G, t, n, d) /\ Kid(t, T, sub, n, d)
    BY <2>2, <2>3, <1>2, WeighedFacts, KidFacts
  <2>5. High(G, t.child[n][d]) = High(G, t.child[n][Other(d)]) + 2
    <3>. DEFINE i == High(G, t.child[n][d])
                j == High(G, t.child[n][Other(d)])
    <3>1. i \in Nat /\ j \in Nat /\ Diff(G, t, n) = IF d = "before" THEN i - j ELSE j - i
      BY <2>4 DEF Weighed
    <3>. HIDE DEF i, j
    <3>2. i = j + 2
      BY <3>1, <2>2, <2>3
    <3>. QED BY <3>2 DEF i, j
  <2>6. c # Null /\ c \in T /\ c # n /\ n \notin sub[c]
    <3>1. High(G, c) # 0
      BY <2>5, <2>4, <1>c DEF Weighed
    <3>. QED BY <3>1, <2>4, <1>c DEF Kid, High
  <2>7. Weighed(G, t, c, d)
    BY <2>2, <2>3, <2>6, <1>2, WeighedFacts
  <2>8. t.imbalance[c] = Diff(G, t, c)
    BY <2>6, <1>2 DEF AlmostBalanced
  <2>9. zigzag <=> High(G, t.child[c][d]) < High(G, t.child[c][Other(d)])
    <3>. DEFINE i == High(G, t.child[c][d])
                j == High(G, t.child[c][Other(d)])
    <3>1. i \in Nat /\ j \in Nat /\ Diff(G, t, c) = IF d = "before" THEN i - j ELSE j - i
      BY <2>7 DEF Weighed
    <3>. HIDE DEF i, j
    <3>2. CASE d = "before"
      <4>1. zigzag <=> Diff(G, t, c) < 0
        BY <1>z, <2>8, <3>2
      <4>2. Diff(G, t, c) = i - j
        BY <3>1, <3>2
      <4>. QED BY <4>1, <4>2, <3>1 DEF i, j
    <3>3. CASE d # "before"
      <4>1. zigzag <=> Diff(G, t, c) > 0
        BY <1>z, <2>8, <3>3
      <4>2. Diff(G, t, c) = j - i
        BY <3>1, <3>3
      <4>. QED BY <4>1, <4>2, <3>1 DEF i, j
    <3>. QED BY <3>2, <3>3
  <2>10. CASE ~zigzag
    <3>1. straight = t /\ top = c /\ turned = Rotate(SetFromPtr(t, n, c), n, d)
      BY <2>10, <1>s, <1>p, <1>c
    <3>2. High(G, t.child[t.child[n][d]][d]) >= High(G, t.child[t.child[n][d]][Other(d)])
      BY <2>10, <2>9, <2>7, <1>c DEF Weighed
    <3>3. turned.up[c] = t.up[n] /\ StepDone(T, sub, n, turned, t.up[n])
      BY <3>1, <3>2, <2>3, <2>5, <2>6, <1>2, <1>c, SingleTurnDone
    <3>. QED BY <3>1, <3>3, <2>1, <1>b
  <2>11. CASE zigzag
    <3>1. High(G, t.child[t.child[n][d]][d]) < High(G, t.child[t.child[n][d]][Other(d)])
      BY <2>11, <2>9, <1>c
    <3>2. DoublyTurned(t, T, sub, n, d)
      BY <3>1, <2>3, <2>5, <1>2, DoubleTurn
    <3>3. LET c0 == t.child[n][d]
              o == Other(d)
              y == t.child[c0][o]
              v == Rotate(SetFromPtr(t, c0, y), c0, o)
          IN [Rotate(t, c0, o) EXCEPT !.child[n][d] = y] = v /\ v.child[n][d] = y
      BY <3>2, Zenon DEF DoublyTurned, TurnedTwice
    <3>4. LET y == t.child[c][Other(d)]
          IN straight = Rotate(SetFromPtr(t, c, y), c, Other(d)) /\ top = y
      BY <3>3, <2>11, <1>s, <1>p, <1>c, Zenon
    <3>5. LET y == t.child[c][Other(d)]
              v == Rotate(SetFromPtr(t, c, y), c, Other(d))
              u == Rotate(SetFromPtr(v, n, y), n, d)
          IN u.up[y] = t.up[n] /\ StepDone(T, sub, n, u, t.up[n])
      BY <3>2, <1>c, Zenon DEF DoublyTurned
    <3>6. turned.up[top] = t.up[n] /\ StepDone(T, sub, n, turned, t.up[n])
      BY <3>4, <3>5, <1>p, Zenon
    <3>. QED BY <3>6, <2>1, <1>b
  <2>. QED BY <2>10, <2>11
<1>. QED BY <1>3, <1>4

\* A sound tree whose nodes are T.
Sound(t, T) ==
    t \in Trees /\ \E sub, G : Shape(t, T, sub) /\ AlmostBalanced(t, T, sub, G, Null)

\* kvmemBalance ends at the root with a sound tree.
THEOREM BalanceIsSound ==
  ASSUME NEW t \in Trees, NEW T, NEW sub, Shape(t, T, sub), NEW G, NEW n,
         AlmostBalanced(t, T, sub, G, n)
  PROVE  Sound(Balance(t, n), T)
<1>. DEFINE N == Cardinality(Address)
            States == [tree : Trees, at : Pointer]
            x0 == [tree |-> t, at |-> n]
            After(x) == IF x.at = Null THEN x ELSE BalanceAt(x.tree, x.at)
            Good(i, x) == \E s, g : /\ Shape(x.tree, T, s) /\ AlmostBalanced(x.tree, T, s, g, x.at)
                                    /\ x.at # Null => Cardinality(s[x.at]) > i
            R == {p \in (0..N) \X States : Good(p[1], p[2])}
            next == [p \in R |-> After(p[2])]
            IsWay(f) == f = [i \in 0..N |-> IF i = 0 THEN x0 ELSE IF f[i - 1].at = Null THEN f[i - 1]
                                           ELSE BalanceAt(f[i - 1].tree, f[i - 1].at)]
            way == CHOOSE f : IsWay(f)
<1>1. N \in Nat /\ IsFiniteSet(Address) /\ T \subseteq Address /\ Null \notin Address
  BY AddressFacts DEF Shape
<1>2. ASSUME NEW u, NEW s, Shape(u, T, s), NEW m \in T
      PROVE  IsFiniteSet(s[m]) /\ Cardinality(s[m]) \in 1..N
  <2>1. Kid(u, T, s, m, "before")
    BY <1>2, SideFacts, KidFacts
  <2>2. m \in s[m] /\ s[m] \subseteq T
    BY <2>1 DEF Kid
  <2>3. s[m] \subseteq Address
    BY <2>2, <1>1
  <2>4. IsFiniteSet(s[m]) /\ Cardinality(s[m]) \in Nat /\ Cardinality(s[m]) <= N
    BY <2>3, <1>1, FS_Subset, FS_CardinalityType
  <2>5. Cardinality(s[m]) # 0
    BY <2>2, <2>4, FS_EmptySet
  <2>. QED BY <2>4, <2>5, <1>1
<1>3. <<0, x0>> \in R
  <2>1. n \in T \cup {Null}
    BY DEF AlmostBalanced
  <2>2. x0 \in States
    BY <2>1, <1>1 DEF Pointer
  <2>3. x0.tree = t /\ x0.at = n
    OBVIOUS
  <2>. HIDE DEF x0, States
  <2>4. x0.at # Null => Cardinality(sub[x0.at]) > 0
    BY <1>2, <2>1, <2>3
  <2>5. Good(0, x0)
    <3>1. Shape(x0.tree, T, sub) /\ AlmostBalanced(x0.tree, T, sub, G, x0.at)
      BY <2>3
    <3>. QED BY <3>1, <2>4
  <2>6. 0 \in 0..N
    BY <1>1
  <2>. HIDE DEF Good, N
  <2>. QED BY <2>2, <2>5, <2>6
<1>4. ASSUME NEW i \in 0..(N - 1), NEW x, <<i, x>> \in R
      PROVE  <<i + 1, After(x)>> \in R
  <2>1. x \in States /\ Good(i, x) /\ i + 1 \in 0..N /\ i \in Nat
    BY <1>4, <1>1
  <2>2. PICK s, g : /\ Shape(x.tree, T, s) /\ AlmostBalanced(x.tree, T, s, g, x.at)
                    /\ x.at # Null => Cardinality(s[x.at]) > i
    BY <2>1
  <2>3. x.tree \in Trees /\ x.at \in T \cup {Null}
    BY <2>1, <2>2 DEF AlmostBalanced
  <2>4. After(x) \in States /\ Good(i + 1, After(x))
    <3>1. CASE x.at = Null
      <4>1. After(x) = x
        BY <3>1
      <4>. HIDE DEF After, States
      <4>2. Good(i + 1, x)
        BY <2>2, <3>1
      <4>. QED BY <4>1, <4>2, <2>1
    <3>2. CASE x.at # Null
      <4>. DEFINE b == BalanceAt(x.tree, x.at)
      <4>1. After(x) = b
        BY <3>2
      <4>2. StepDone(T, s, x.at, b.tree, b.at)
        BY <3>2, <2>2, <2>3, BalanceStep
      <4>3. b = [tree |-> b.tree, at |-> b.at]
        BY Zenon DEF BalanceAt
      <4>. HIDE DEF b, After
      <4>4. PICK s2, g2 : /\ Shape(b.tree, T, s2) /\ AlmostBalanced(b.tree, T, s2, g2, b.at)
                          /\ b.at # Null => Cardinality(s2[b.at]) > Cardinality(s[x.at])
        BY <4>2 DEF StepDone
      <4>5. b.tree \in Trees /\ b.at \in T \cup {Null}
        BY <4>2, <4>4 DEF StepDone, AlmostBalanced
      <4>6. b.at \in Pointer
        BY <4>5, <1>1 DEF Pointer
      <4>7. b \in States
        BY <4>3, <4>5, <4>6
      <4>8. b.at # Null => Cardinality(s2[b.at]) > i + 1
        <5>1. Cardinality(s[x.at]) \in Nat /\ Cardinality(s[x.at]) > i
          BY <3>2, <2>2, <2>3, <1>2
        <5>2. b.at # Null => Cardinality(s2[b.at]) \in Nat
          BY <4>4, <4>5, <1>2
        <5>. QED BY <5>1, <5>2, <4>4, <2>1
      <4>9. Good(i + 1, b)
        BY <4>4, <4>8
      <4>. HIDE DEF Good, States
      <4>. QED BY <4>1, <4>7, <4>9
    <3>. QED BY <3>1, <3>2
  <2>. HIDE DEF Good, States, N, After
  <2>. QED BY <2>1, <2>4
<1>5. \E f : IsWay(f)
  <2>1. \A i \in 0..(N - 1) : \A x : <<i, x>> \in R => <<i + 1, next[<<i, x>>]>> \in R
    <3>. HIDE DEF R, After
    <3>. QED BY <1>4
  <2>. HIDE DEF next, R, x0, N
  <2>a. PICK f : Iterated(f, N, x0, next, R)
    BY <1>1, <1>3, <2>1, Iteration
  <2>2. /\ f = [i \in 0..N |-> IF i = 0 THEN x0 ELSE next[<<i - 1, f[i - 1]>>]]
        /\ \A i \in 0..N : <<i, f[i]>> \in R
    BY <2>a DEF Iterated
  <2>3. ASSUME NEW i \in 0..N, i # 0
        PROVE  next[<<i - 1, f[i - 1]>>] = IF f[i - 1].at = Null THEN f[i - 1]
                                           ELSE BalanceAt(f[i - 1].tree, f[i - 1].at)
    <3>1. i - 1 \in 0..N
      BY <2>3, <1>1
    <3>2. <<i - 1, f[i - 1]>> \in R
      BY <3>1, <2>2
    <3>. QED BY <3>2 DEF next
  <2>4. \A i \in 0..N : f[i] = IF i = 0 THEN x0 ELSE IF f[i - 1].at = Null THEN f[i - 1]
                                           ELSE BalanceAt(f[i - 1].tree, f[i - 1].at)
    BY <2>2, <2>3
  <2>5. IsWay(f)
    BY <2>2, <2>3
  <2>. HIDE DEF IsWay
  <2>. QED BY <2>5
<1>6. IsWay(way)
  <2>. HIDE DEF IsWay
  <2>. QED BY <1>5
<1>7. Balance(t, n) = way[N].tree
  BY DEF Balance
<1>. HIDE DEF way
<1>8. \A i \in 0..N : <<i, way[i]>> \in R
  <2>. DEFINE A == {i \in 0..N : <<i, way[i]>> \in R}
  <2>1. 0 \in A
    <3>1. way[0] = x0
      BY <1>1, <1>6
    <3>. HIDE DEF x0, R
    <3>. QED BY <3>1, <1>1, <1>3
  <2>2. ASSUME NEW i \in 0..(N - 1), i \in A PROVE i + 1 \in A
    <3>1. i + 1 \in 0..N /\ i + 1 # 0 /\ (i + 1) - 1 = i
      BY <1>1
    <3>2. way[i + 1] = After(way[i])
      <4>. HIDE DEF N, x0
      <4>. QED BY <3>1, <1>6
    <3>. HIDE DEF After, R
    <3>. QED BY <3>1, <3>2, <2>2, <1>4
  <2>. HIDE DEF A, N
  <2>3. 0..N \subseteq A
    BY <2>1, <2>2, <1>1, InductionUpTo
  <2>. QED BY <2>3 DEF A
<1>9. way[N] \in States /\ Good(N, way[N])
  <2>1. <<N, way[N]>> \in R
    BY <1>1, <1>8
  <2>. HIDE DEF States, Good, N
  <2>. QED BY <2>1
<1>. DEFINE x == way[N]
<1>10. PICK s, g : /\ Shape(x.tree, T, s) /\ AlmostBalanced(x.tree, T, s, g, x.at)
                   /\ x.at # Null => Cardinality(s[x.at]) > N
  BY <1>9
<1>. HIDE DEF x
<1>11. x.at = Null
  <2>1. x.at \in T \cup {Null}
    BY <1>10 DEF AlmostBalanced
  <2>2. x.at # Null => Cardinality(s[x.at]) \in 1..N
    BY <2>1, <1>10, <1>2
  <2>. HIDE DEF N
  <2>. QED BY <2>2, <1>10, <1>1
<1>12. x.tree \in Trees
  BY <1>9 DEF x
<1>. QED BY <1>7, <1>10, <1>11, <1>12 DEF Sound, x

\* Every node has its parts; Shape in pieces.
LEMMA ShapeParts ==
  ASSUME NEW t, NEW T, NEW sub, Shape(t, T, sub)
  PROVE  /\ T \subseteq Address /\ sub \in [T -> SUBSET T] /\ Null \notin T /\ Null \notin Address
         /\ IsFiniteSet(T)
         /\ \A n \in T : aKey(n) \in Nat /\ n \in sub[n] /\ sub[n] \subseteq T
         /\ t.pRoot = Null => T = {}
<1>1. T \subseteq Address /\ sub \in [T -> SUBSET T] /\ Null \notin T /\ Null \notin Address
  BY AddressFacts DEF Shape
<1>2. IsFiniteSet(T)
  BY <1>1, AddressFacts, FS_Subset
<1>3. \A n \in T : n \in sub[n]
  BY DEF Shape
<1>4. t.pRoot = Null => T = {}
  BY DEF Shape, Below
<1>. QED BY <1>1, <1>2, <1>3, <1>4, AddressFacts

-----------------------------------------------------------------------------
(* Where a key belongs, and a new leaf.                                    *)

\* Where the search for k belongs below node n.
Ends(t, sub, k, n, p) ==
    LET d == IF k < aKey(p) THEN "before" ELSE "after"
    IN /\ p \in sub[n]
       /\ k = aKey(p) \/ t.child[p][d] = Null
       /\ \A q \in sub[n], e \in Side : p \in Below(sub, t.child[q][e]) => OnSide(e, k, aKey(q))

\* The search for k ends where k is or belongs.
LEMMA DescendEnds ==
  ASSUME NEW t \in Trees, NEW T, NEW sub, Shape(t, T, sub), NEW k \in Nat, NEW n \in T
  PROVE  Ends(t, sub, k, n, Descend(t, n, k))
<1>. DEFINE dir(m) == IF k < aKey(m) THEN "before" ELSE "after"
            Stop == {m \in Address : k = aKey(m) \/ t.child[m][dir(m)] = Null}
            next == [m \in Address |-> t.child[m][dir(m)]]
            value == [m \in Address |-> m]
            IsOne(f) == f = [m \in Address |->
                         LET d == IF k < aKey(m) THEN "before" ELSE "after"
                         IN IF k = aKey(m) \/ t.child[m][d] = Null THEN m ELSE f[t.child[m][d]]]
            place == CHOOSE f : IsOne(f)
<1>0. \A m \in Address : dir(m) \in Side
  BY SideFacts
<1>1. \A x \in Address \ Stop : next[x] \in Address
  BY <1>0, TreesFields DEF Pointer
<1>2. \E f : IsOne(f)
  <2>1. PICK f : Looped(f, Address, Stop, next, value)
    <3>. HIDE DEF Stop, next, value
    <3>. QED BY <1>1, Loop
  <2>2. IsOne(f)
    <3>1. \A m \in Address : (IF m \in Stop THEN value[m] ELSE f[next[m]]) =
              LET d == IF k < aKey(m) THEN "before" ELSE "after"
              IN IF k = aKey(m) \/ t.child[m][d] = Null THEN m ELSE f[t.child[m][d]]
      OBVIOUS
    <3>. HIDE DEF Stop, next, value
    <3>2. f = [m \in Address |-> IF m \in Stop THEN value[m] ELSE f[next[m]]]
      BY <2>1 DEF Looped
    <3>. QED BY <3>1, <3>2
  <2>. HIDE DEF IsOne
  <2>. QED BY <2>2
<1>3. IsOne(place)
  <2>. HIDE DEF IsOne
  <2>. QED BY <1>2
<1>4. Descend(t, n, k) = place[n]
  BY DEF Descend
<1>5. \A m \in Address : place[m] = IF k = aKey(m) \/ t.child[m][dir(m)] = Null THEN m
                                    ELSE place[t.child[m][dir(m)]]
  <2>. HIDE DEF place
  <2>. QED BY <1>3
<1>. HIDE DEF place
<1>6. /\ T \subseteq Address /\ sub \in [T -> SUBSET T]
      /\ \A m \in T : aKey(m) \in Nat /\ m \in sub[m] /\ sub[m] \subseteq T
  BY ShapeParts
<1>. DEFINE A == {m \in T : Ends(t, sub, k, m, place[m])}
<1>7. ASSUME NEW m \in T, \A d \in Side : t.child[m][d] # Null => t.child[m][d] \in A
      PROVE  m \in A
  <2>1. CASE k = aKey(m) \/ t.child[m][dir(m)] = Null
    <3>1. place[m] = m
      BY <2>1, <1>5, <1>6
    <3>2. ASSUME NEW q \in sub[m], NEW e \in Side PROVE m \notin Below(sub, t.child[q][e])
      <4>1. q \in T
        BY <1>6
      <4>2. Kid(t, T, sub, q, e)
        BY <4>1, KidFacts
      <4>3. q # m => m \notin sub[q]
        BY Inside
      <4>. QED BY <4>2, <4>3 DEF Kid
    <3>. QED BY <3>1, <3>2, <2>1, <1>6 DEF Ends
  <2>2. CASE ~(k = aKey(m) \/ t.child[m][dir(m)] = Null)
    <3>. DEFINE d == dir(m)
                c == t.child[m][d]
                p == place[m]
    <3>1. p = place[c] /\ c # Null /\ d \in Side /\ k # aKey(m)
      BY <2>2, <1>5, <1>6, <1>0
    <3>2. OnSide(d, k, aKey(m))
      BY <3>1, <1>6 DEF OnSide
    <3>3. Kid(t, T, sub, m, d) /\ c \in A
      BY <3>1, <1>7, KidFacts
    <3>. HIDE DEF d
    <3>4. c \in T /\ sub[c] \subseteq sub[m] /\ Below(sub, c) = sub[c] /\ m \notin sub[c]
          /\ sub[c] \cap Below(sub, t.child[m][Other(d)]) = {}
          /\ sub[m] = {m} \cup sub[c] \cup Below(sub, t.child[m][Other(d)])
      BY <3>1, <3>3 DEF Kid
    <3>5. Ends(t, sub, k, c, p)
      BY <3>1, <3>3
    <3>. HIDE DEF c, p
    <3>6. p \in sub[c]
      BY <3>5 DEF Ends
    <3>7. ASSUME NEW q \in sub[m], NEW e \in Side, p \in Below(sub, t.child[q][e])
          PROVE  OnSide(e, k, aKey(q))
      <4>1. CASE q = m
        <5>1. e = d
          BY <4>1, <3>4, <3>6, <3>7, <3>1, SideFacts DEF c
        <5>. QED BY <4>1, <5>1, <3>2
      <4>2. CASE q \in sub[c]
        BY <4>2, <3>5, <3>7 DEF Ends
      <4>3. CASE q \in Below(sub, t.child[m][Other(d)])
        <5>. DEFINE o == t.child[m][Other(d)]
        <5>1. o # Null /\ Below(sub, o) = sub[o]
          BY <4>3 DEF Below
        <5>2. o \in T
          <6>1. Kid(t, T, sub, m, Other(d))
            BY <3>1, SideFacts, KidFacts
          <6>. QED BY <6>1, <5>1 DEF Kid
        <5>3. sub[q] \subseteq sub[o] /\ q \in T
          BY <5>1, <5>2, <4>3, Inside
        <5>4. Kid(t, T, sub, q, e)
          BY <5>3, KidFacts
        <5>. QED BY <5>3, <5>4, <5>1, <3>7, <3>6, <3>4 DEF Kid
      <4>. QED BY <4>1, <4>2, <4>3, <3>4
    <3>8. k = aKey(p) \/ t.child[p][IF k < aKey(p) THEN "before" ELSE "after"] = Null
      BY <3>5 DEF Ends
    <3>9. Ends(t, sub, k, m, p)
      BY <3>4, <3>6, <3>7, <3>8 DEF Ends
    <3>. QED BY <3>9 DEF p
  <2>. QED BY <2>1, <2>2
<1>8. T \subseteq A
  <2>. HIDE DEF A
  <2>. QED BY <1>7, TreeInduction
<1>. QED BY <1>4, <1>8

\* What AddLeaf writes.
LeafAdded(t, n, up) ==
    LET u == AddLeaf(t, n, up)
        side == IF aKey(n) < aKey(up) THEN "before" ELSE "after"
    IN /\ u \in Trees
       /\ u.pRoot = IF up = Null THEN n ELSE t.pRoot
       /\ \A m \in Address, e \in Side : u.child[m][e] =
            IF up # Null /\ m = up /\ e = side THEN n ELSE IF m = n THEN Null ELSE t.child[m][e]
       /\ \A m \in Address : u.up[m] = IF m = n THEN up ELSE t.up[m]
       /\ \A m \in Address : m # n => u.height[m] = t.height[m] /\ u.imbalance[m] = t.imbalance[m]

\* What AddLeaf changes, pointer by pointer.
LEMMA LeafAddedFacts ==
  ASSUME NEW t \in Trees, NEW n \in Address, NEW up \in Pointer, up # n
  PROVE  LeafAdded(t, n, up)
<1>. DEFINE u == AddLeaf(t, n, up)
            side == IF aKey(n) < aKey(up) THEN "before" ELSE "after"
            c0 == [t.child EXCEPT ![n] = NoChild]
            c1 == IF up = Null THEN c0 ELSE [c0 EXCEPT ![up][side] = n]
            u1 == [t.up EXCEPT ![n] = up]
            h1 == [t.height EXCEPT ![n] = 1]
            i1 == [t.imbalance EXCEPT ![n] = 0]
            r1 == IF up = Null THEN n ELSE t.pRoot
<1>1. /\ t.child \in [Address -> [Side -> Pointer]] /\ t.up \in [Address -> Pointer]
      /\ t.height \in [Address -> Nat] /\ t.imbalance \in [Address -> Int] /\ t.pRoot \in Pointer
  BY TreesFields
<1>2. u = [pRoot |-> r1, child |-> c1, up |-> u1, height |-> h1, imbalance |-> i1]
  <2>1. t = [pRoot |-> t.pRoot, child |-> t.child, up |-> t.up,
             height |-> t.height, imbalance |-> t.imbalance]
    BY TreesFields
  <2>2. CASE up = Null
    BY <2>1, <2>2 DEF AddLeaf
  <2>3. CASE up # Null
    BY <2>1, <2>3 DEF AddLeaf
  <2>. QED BY <2>2, <2>3
<1>3. NoChild \in [Side -> Pointer] /\ n \in Pointer /\ (up # Null => up \in Address) /\ side \in Side
  BY DEF NoChild, Pointer, Side
<1>4. c0 \in [Address -> [Side -> Pointer]]
      /\ \A m \in Address, e \in Side : c0[m][e] = IF m = n THEN Null ELSE t.child[m][e]
  BY <1>1, <1>3 DEF NoChild
<1>5. c1 \in [Address -> [Side -> Pointer]]
      /\ \A m \in Address, e \in Side : c1[m][e] =
            IF up # Null /\ m = up /\ e = side THEN n ELSE IF m = n THEN Null ELSE t.child[m][e]
  <2>. HIDE DEF c0, side
  <2>1. CASE up = Null
    BY <1>4, <2>1
  <2>2. CASE up # Null
    BY <1>4, <1>3, <2>2
  <2>. QED BY <2>1, <2>2
<1>6. /\ u1 \in [Address -> Pointer] /\ \A m \in Address : u1[m] = IF m = n THEN up ELSE t.up[m]
      /\ h1 \in [Address -> Nat] /\ \A m \in Address : m # n => h1[m] = t.height[m]
      /\ i1 \in [Address -> Int] /\ \A m \in Address : m # n => i1[m] = t.imbalance[m]
      /\ r1 \in Pointer
  BY <1>1, <1>3
<1>. HIDE DEF c1, u1, h1, i1, u
<1>7. u \in Trees
  BY <1>2, <1>5, <1>6, TreesIntro
<1>8. u.pRoot = r1 /\ u.child = c1 /\ u.up = u1 /\ u.height = h1 /\ u.imbalance = i1
  BY <1>2
<1>. QED BY <1>5, <1>6, <1>7, <1>8 DEF LeafAdded, u

\* The place of a leaf: nothing in an empty tree, else where the search ends.
LeafGoes(t, sub, n, up) ==
    IF t.pRoot = Null THEN up = Null
    ELSE /\ up # Null /\ aKey(up) # aKey(n)
         /\ Ends(t, sub, aKey(n), t.pRoot, up)

LeafSub(T, sub, n, up) ==
    [m \in T \cup {n} |-> IF m = n THEN {n} ELSE IF up \in sub[m] THEN sub[m] \cup {n} ELSE sub[m]]
LeafHigh(T, G, n) == [m \in T \cup {n} |-> IF m = n THEN 0 ELSE G[m]]

\* The first node of an empty tree.
LEMMA FirstLeaf ==
  ASSUME NEW t \in Trees, NEW T, NEW sub, Shape(t, T, sub), NEW n \in Address \ T, t.pRoot = Null
  PROVE  \E sub2, G2 : Shape(AddLeaf(t, n, Null), T \cup {n}, sub2)
                       /\ AlmostBalanced(AddLeaf(t, n, Null), T \cup {n}, sub2, G2, n)
<1>. DEFINE u == AddLeaf(t, n, Null)
            sub2 == [m \in {n} |-> {n}]
            G2 == [m \in {n} |-> 0]
<1>0. Null # n /\ Null \in Pointer
  BY AddressFacts DEF Pointer
<1>1. LeafAdded(t, n, Null)
  BY <1>0, LeafAddedFacts
<1>2. T = {} /\ T \cup {n} = {n}
  BY ShapeParts
<1>3. u \in Trees /\ u.pRoot = n /\ u.up[n] = Null /\ \A e \in Side : u.child[n][e] = Null
  BY <1>1 DEF LeafAdded
<1>. HIDE DEF u
<1>4. Shape(u, {n}, sub2)
  BY <1>0, <1>3, SideFacts DEF Shape, Below
<1>5. Diff(G2, u, n) = 0 /\ Tall(G2, u, n) = 1 /\ G2[n] = 0 /\ sub2[n] = {n}
  BY <1>3, SideFacts DEF Diff, Tall, High, Higher
<1>6. AlmostBalanced(u, {n}, sub2, G2, n)
  <2>1. G2 \in [{n} -> Nat]
    OBVIOUS
  <2>. HIDE DEF G2, sub2
  <2>. QED BY <1>5, <2>1 DEF AlmostBalanced
<1>. QED BY <1>2, <1>4, <1>6 DEF u

\* A leaf where its key belongs keeps the shape.
LEMMA LeafShape ==
  ASSUME NEW t \in Trees, NEW T, NEW sub, Shape(t, T, sub), NEW n \in Address \ T,
         NEW up, LeafGoes(t, sub, n, up), t.pRoot # Null
  PROVE  /\ up \in T /\ LeafAdded(t, n, up)
         /\ t.child[up][IF aKey(n) < aKey(up) THEN "before" ELSE "after"] = Null
         /\ Shape(AddLeaf(t, n, up), T \cup {n}, LeafSub(T, sub, n, up))
<1>. DEFINE u == AddLeaf(t, n, up)
            sub2 == LeafSub(T, sub, n, up)
            T2 == T \cup {n}
            side == IF aKey(n) < aKey(up) THEN "before" ELSE "after"
<1>1. /\ T \subseteq Address /\ sub \in [T -> SUBSET T] /\ Null \notin T /\ Null \notin Address
      /\ \A m \in T : aKey(m) \in Nat /\ m \in sub[m] /\ sub[m] \subseteq T
      /\ t.pRoot \in T /\ sub[t.pRoot] = T
  <2>1. t.pRoot \in T
    BY DEF Shape
  <2>. QED BY <2>1, ShapeParts, RootFacts
<1>2. /\ Ends(t, sub, aKey(n), t.pRoot, up) /\ up # Null /\ aKey(up) # aKey(n)
  BY DEF LeafGoes
<1>3. /\ up \in T /\ t.child[up][side] = Null
      /\ \A q \in T, e \in Side : up \in Below(sub, t.child[q][e]) => OnSide(e, aKey(n), aKey(q))
  BY <1>1, <1>2 DEF Ends
<1>4. LeafAdded(t, n, up) /\ side \in Side /\ aKey(n) \in Nat /\ n # Null /\ up # n
  <2>1. up \in Pointer /\ up # n /\ aKey(n) \in Nat /\ n # Null
    BY <1>1, <1>3, AddressFacts DEF Pointer
  <2>. QED BY <2>1, LeafAddedFacts DEF Side
<1>5. OnSide(side, aKey(n), aKey(up))
  BY <1>1, <1>2, <1>3, <1>4 DEF OnSide
<1>. HIDE DEF side
<1>6. /\ u.pRoot = t.pRoot
      /\ \A m \in Address, e \in Side : u.child[m][e] =
            IF m = up /\ e = side THEN n ELSE IF m = n THEN Null ELSE t.child[m][e]
      /\ \A m \in Address : u.up[m] = IF m = n THEN up ELSE t.up[m]
  BY <1>2, <1>4 DEF LeafAdded, side
<1>. HIDE DEF u
<1>7. /\ sub2 \in [T2 -> SUBSET T2] /\ sub2[n] = {n}
      /\ \A m \in T : sub2[m] = IF up \in sub[m] THEN sub[m] \cup {n} ELSE sub[m]
  BY <1>1 DEF LeafSub
<1>. HIDE DEF sub2
<1>8. \A m \in T, e \in Side : Kid(t, T, sub, m, e) /\ (t.child[m][e] # Null => t.child[m][e] \in T)
  BY KidFacts DEF Kid
<1>9. \A q \in T \cup {Null} : Below(sub2, q) = IF up \in Below(sub, q) THEN Below(sub, q) \cup {n} ELSE Below(sub, q)
  BY <1>7, <1>1 DEF Below
<1>10. Below(sub2, n) = {n}
  BY <1>7, <1>4 DEF Below
<1>11. ASSUME NEW m \in T, NEW e \in Side
       PROVE  Below(sub2, u.child[m][e]) =
                IF m = up /\ e = side THEN {n}
                ELSE IF up \in Below(sub, t.child[m][e]) THEN Below(sub, t.child[m][e]) \cup {n}
                ELSE Below(sub, t.child[m][e])
  <2>1. CASE m = up /\ e = side
    BY <2>1, <1>6, <1>10, <1>1
  <2>2. CASE ~(m = up /\ e = side)
    <3>1. u.child[m][e] = t.child[m][e]
      BY <2>2, <1>6, <1>1
    <3>2. t.child[m][e] \in T \cup {Null}
      BY <1>8
    <3>. QED BY <3>1, <3>2, <2>2, <1>9
  <2>. QED BY <2>1, <2>2
<1>12. Below(sub, t.child[up][side]) = {}
  BY <1>3 DEF Below
<1>13. ASSUME NEW m \in T
       PROVE  sub2[m] = {m} \cup Below(sub2, u.child[m]["before"]) \cup Below(sub2, u.child[m]["after"])
  <2>1. sub[m] = {m} \cup Below(sub, t.child[m]["before"]) \cup Below(sub, t.child[m]["after"])
    BY DEF Shape
  <2>2. "before" \in Side /\ "after" \in Side
    BY SideFacts
  <2>3. CASE m = up
    <3>1. \A e \in Side : up \notin Below(sub, t.child[up][e])
      BY <1>8, <1>3 DEF Kid
    <3>2. side = "before" \/ side = "after"
      BY <1>4, SideFacts
    <3>3. \A e \in Side : e # side => Below(sub2, u.child[up][e]) = Below(sub, t.child[up][e])
      BY <1>11, <1>3, <3>1
    <3>4. Below(sub2, u.child[up][side]) = {n}
      BY <1>11, <1>3, <1>4
    <3>5. sub2[up] = sub[up] \cup {n}
      BY <1>3, <1>1, <1>7
    <3>. QED BY <2>1, <2>2, <2>3, <3>2, <3>3, <3>4, <3>5, <1>12
  <2>4. CASE m # up
    BY <2>1, <2>2, <2>4, <1>7, <1>11
  <2>. QED BY <2>3, <2>4
<1>14. ASSUME NEW m \in T, NEW e \in Side, NEW x \in Below(sub2, u.child[m][e])
       PROVE  OnSide(e, aKey(x), aKey(m))
  <2>1. CASE m = up /\ e = side
    BY <2>1, <1>11, <1>5
  <2>2. CASE ~(m = up /\ e = side)
    <3>1. x \in Below(sub, t.child[m][e]) \/ (x = n /\ up \in Below(sub, t.child[m][e]))
      BY <2>2, <1>11
    <3>2. x \in Below(sub, t.child[m][e]) => OnSide(e, aKey(x), aKey(m))
      BY DEF Shape
    <3>. QED BY <3>1, <3>2, <1>3
  <2>. QED BY <2>1, <2>2
<1>15. Shape(u, T2, sub2)
  <2>1. T2 \subseteq Address /\ sub2 \in [T2 -> SUBSET T2] /\ u.pRoot \in T2 \cup {Null}
    BY <1>1, <1>7, <1>6
  <2>2. T2 = Below(sub2, u.pRoot)
    BY <1>1, <1>3, <1>6, <1>7 DEF Below
  <2>3. u.pRoot # Null => u.up[u.pRoot] = Null
    BY <1>1, <1>6 DEF Shape
  <2>4. \A m \in T2 : u.up[m] = Null => m = u.pRoot
    BY <1>1, <1>2, <1>6 DEF Shape
  <2>5. ASSUME NEW m \in T2, u.up[m] # Null
        PROVE  u.up[m] \in T2 /\ \E d \in Side : u.child[u.up[m]][d] = m
    <3>1. CASE m = n
      BY <3>1, <1>6, <1>3, <1>4, <1>1
    <3>2. CASE m \in T
      <4>1. u.up[m] = t.up[m] /\ t.up[m] \in T /\ t.up[m] # n
        BY <3>2, <1>6, <1>1, <2>5 DEF Shape
      <4>2. PICK d \in Side : t.child[t.up[m]][d] = m
        BY <4>1, <3>2, <2>5 DEF Shape
      <4>3. ~(t.up[m] = up /\ d = side)
        BY <4>2, <1>3, <3>2, <1>1
      <4>. QED BY <4>1, <4>2, <4>3, <1>6, <1>1
    <3>. QED BY <3>1, <3>2
  <2>6. ASSUME NEW m \in T2, NEW d \in Side, u.child[m][d] # Null
        PROVE  u.child[m][d] \in T2 /\ u.up[u.child[m][d]] = m
    <3>1. CASE m = n
      BY <3>1, <1>6, <2>6, <1>4
    <3>2. CASE m = up /\ d = side
      BY <3>2, <1>6, <1>1, <1>3
    <3>3. CASE m \in T /\ ~(m = up /\ d = side)
      <4>1. u.child[m][d] = t.child[m][d]
        BY <3>3, <1>6, <1>1
      <4>2. t.child[m][d] \in T /\ t.up[t.child[m][d]] = m /\ t.child[m][d] # n
        BY <4>1, <3>3, <2>6 DEF Shape
      <4>. QED BY <4>1, <4>2, <1>6, <1>1
    <3>. QED BY <3>1, <3>2, <3>3
  <2>7. \A m \in T2 : sub2[m] = {m} \cup Below(sub2, u.child[m]["before"])
                                 \cup Below(sub2, u.child[m]["after"])
    <3>1. sub2[n] = {n} \cup Below(sub2, u.child[n]["before"]) \cup Below(sub2, u.child[n]["after"])
      BY <1>6, <1>7, <1>4, SideFacts DEF Below
    <3>. QED BY <3>1, <1>13
  <2>8. \A m \in T2, d \in Side : \A x \in Below(sub2, u.child[m][d]) : OnSide(d, aKey(x), aKey(m))
    <3>1. \A d \in Side : Below(sub2, u.child[n][d]) = {}
      BY <1>6, <1>4 DEF Below
    <3>. QED BY <3>1, <1>14
  <2>. QED BY <2>1, <2>2, <2>3, <2>4, <2>5, <2>6, <2>7, <2>8 DEF Shape
<1>. QED BY <1>15, <1>3, <1>4 DEF u, sub2, side

\* All but the way up from the new leaf is balanced.
LEMMA LeafBalance ==
  ASSUME NEW t \in Trees, NEW T, NEW sub, Shape(t, T, sub), NEW n \in Address \ T,
         NEW up, LeafGoes(t, sub, n, up), t.pRoot # Null,
         NEW G, AlmostBalanced(t, T, sub, G, Null)
  PROVE  AlmostBalanced(AddLeaf(t, n, up), T \cup {n}, LeafSub(T, sub, n, up), LeafHigh(T, G, n), n)
<1>. DEFINE u == AddLeaf(t, n, up)
            sub2 == LeafSub(T, sub, n, up)
            G2 == LeafHigh(T, G, n)
            T2 == T \cup {n}
            side == IF aKey(n) < aKey(up) THEN "before" ELSE "after"
<1>1. /\ T \subseteq Address /\ sub \in [T -> SUBSET T] /\ Null \notin T /\ Null \notin Address
      /\ \A m \in T : m \in sub[m] /\ sub[m] \subseteq T
  BY ShapeParts
<1>2. up \in T /\ LeafAdded(t, n, up) /\ t.child[up][side] = Null /\ up # Null
  <2>1. up \in T /\ LeafAdded(t, n, up) /\ t.child[up][side] = Null
    BY LeafShape, Zenon
  <2>. QED BY <2>1, <1>1
<1>3. /\ \A m \in Address, e \in Side : u.child[m][e] =
            IF m = up /\ e = side THEN n ELSE IF m = n THEN Null ELSE t.child[m][e]
      /\ \A m \in Address : m # n => u.height[m] = t.height[m] /\ u.imbalance[m] = t.imbalance[m]
  BY <1>2 DEF LeafAdded
<1>. HIDE DEF u
<1>4. /\ sub2[n] = {n}
      /\ \A m \in T : sub2[m] = IF up \in sub[m] THEN sub[m] \cup {n} ELSE sub[m]
  BY <1>1 DEF LeafSub
<1>. HIDE DEF sub2
<1>5. /\ G \in [T -> Nat]
      /\ \A m \in T : G[m] = Tall(G, t, m) /\ Diff(G, t, m) \in -1..1
      /\ \A m \in T : t.height[m] = G[m] /\ t.imbalance[m] = Diff(G, t, m)
  BY <1>1 DEF AlmostBalanced
<1>6. G2 \in [T2 -> Nat] /\ G2[n] = 0 /\ \A m \in T : G2[m] = G[m]
  BY <1>5 DEF LeafHigh
<1>. HIDE DEF G2
<1>7. \A m \in T, e \in Side : High(G2, u.child[m][e]) = High(G, t.child[m][e])
  <2>. SUFFICES ASSUME NEW m \in T, NEW e \in Side
                PROVE  High(G2, u.child[m][e]) = High(G, t.child[m][e])
    OBVIOUS
  <2>1. CASE m = up /\ e = side
    BY <2>1, <1>2, <1>3, <1>6, <1>1 DEF High
  <2>2. CASE ~(m = up /\ e = side)
    <3>1. u.child[m][e] = t.child[m][e]
      BY <2>2, <1>3, <1>1
    <3>2. t.child[m][e] # Null => t.child[m][e] \in T
      BY DEF Shape
    <3>. QED BY <3>1, <3>2, <1>6 DEF High
  <2>. QED BY <2>1, <2>2
<1>8. \A m \in T : Diff(G2, u, m) = Diff(G, t, m) /\ Tall(G2, u, m) = Tall(G, t, m)
  BY <1>7, SideFacts DEF Diff, Tall
<1>9. Diff(G2, u, n) = 0 /\ Tall(G2, u, n) = 1
  <2>1. \A e \in Side : u.child[n][e] = Null
    BY <1>3, <1>2
  <2>. QED BY <2>1, SideFacts DEF Diff, Tall, High, Higher
<1>10. \A m \in T2 : n \notin sub2[m] => u.height[m] = G2[m] /\ u.imbalance[m] = Diff(G2, u, m)
  BY <1>3, <1>4, <1>5, <1>6, <1>8, <1>1
<1>11. AlmostBalanced(u, T2, sub2, G2, n)
  <2>1. \A m \in T2 : m # n => G2[m] = Tall(G2, u, m) /\ Diff(G2, u, m) \in -1..1
    BY <1>5, <1>6, <1>8
  <2>2. n # Null
    BY <1>1
  <2>. QED BY <2>1, <2>2, <1>6, <1>9, <1>10 DEF AlmostBalanced
<1>. QED BY <1>11 DEF u, sub2, G2

\* A new leaf where the search for its key ends, and kvmemBalance.
THEOREM AddLeafIsSound ==
  ASSUME NEW t \in Trees, NEW T, NEW sub, Shape(t, T, sub), NEW G, AlmostBalanced(t, T, sub, G, Null),
         NEW n \in Address \ T, NEW up, LeafGoes(t, sub, n, up)
  PROVE  Sound(Balance(AddLeaf(t, n, up), n), T \cup {n})
<1>1. CASE t.pRoot = Null
  <2>0. up = Null /\ n # Null
    BY <1>1, AddressFacts DEF LeafGoes
  <2>1. PICK sub2, G2 : Shape(AddLeaf(t, n, Null), T \cup {n}, sub2)
                       /\ AlmostBalanced(AddLeaf(t, n, Null), T \cup {n}, sub2, G2, n)
    BY <1>1, FirstLeaf
  <2>2. AddLeaf(t, n, Null) \in Trees
    <3>1. LeafAdded(t, n, Null)
      BY <2>0, LeafAddedFacts DEF Pointer
    <3>. QED BY <3>1 DEF LeafAdded
  <2>. QED BY <2>0, <2>1, <2>2, BalanceIsSound
<1>2. CASE t.pRoot # Null
  <2>1. Shape(AddLeaf(t, n, up), T \cup {n}, LeafSub(T, sub, n, up)) /\ LeafAdded(t, n, up)
    BY <1>2, LeafShape
  <2>2. AlmostBalanced(AddLeaf(t, n, up), T \cup {n}, LeafSub(T, sub, n, up), LeafHigh(T, G, n), n)
    BY <1>2, LeafBalance
  <2>3. AddLeaf(t, n, up) \in Trees
    BY <2>1 DEF LeafAdded
  <2>. QED BY <2>1, <2>2, <2>3, BalanceIsSound
<1>. QED BY <1>1, <1>2

\* What PutOnly writes.
OnlyPut(t, n) ==
    LET b == t.child[n]["before"]
        q == IF b = Null THEN t.child[n]["after"] ELSE b
        v == PutOnly(t, n)
    IN /\ v \in Trees /\ v.height = t.height /\ v.imbalance = t.imbalance
       /\ v.pRoot = IF t.up[n] = Null THEN q ELSE t.pRoot
       /\ \A m \in Address, e \in Side : v.child[m][e] =
            IF m = t.up[n] /\ t.child[m][e] = n THEN q ELSE t.child[m][e]
       /\ \A m \in Address : v.up[m] = IF m = q THEN t.up[n] ELSE t.up[m]

-----------------------------------------------------------------------------
(* Removing a node.                                                        *)

\* What SetUp changes.
LEMMA SetUpFacts ==
  ASSUME NEW t \in Trees, NEW q \in Pointer, NEW n \in Pointer
  PROVE  LET v == SetUp(t, q, n)
         IN /\ v \in Trees /\ v.height = t.height /\ v.imbalance = t.imbalance
            /\ v.pRoot = t.pRoot /\ v.child = t.child
            /\ \A m \in Address : v.up[m] = IF m = q THEN n ELSE t.up[m]
<1>. DEFINE v == SetUp(t, q, n)
            u1 == [t.up EXCEPT ![q] = n]
<1>1. t = [pRoot |-> t.pRoot, child |-> t.child, up |-> t.up,
           height |-> t.height, imbalance |-> t.imbalance]
      /\ t.pRoot \in Pointer /\ t.child \in [Address -> [Side -> Pointer]]
      /\ t.up \in [Address -> Pointer]
      /\ t.height \in [Address -> Nat] /\ t.imbalance \in [Address -> Int]
  BY TreesFields
<1>2. CASE q = Null
  BY <1>2, AddressFacts DEF SetUp
<1>3. CASE q # Null
  <2>1. v = [pRoot |-> t.pRoot, child |-> t.child, up |-> u1,
             height |-> t.height, imbalance |-> t.imbalance]
    BY <1>1, <1>3 DEF SetUp
  <2>2. u1 \in [Address -> Pointer] /\ \A m \in Address : u1[m] = IF m = q THEN n ELSE t.up[m]
    <3>1. q \in Address
      BY <1>3 DEF Pointer
    <3>2. t.up \in [Address -> Pointer] /\ n \in Pointer
      BY <1>1
    <3>3. u1 \in [Address -> Pointer]
      BY <3>1, <3>2
    <3>4. \A m \in Address : u1[m] = IF m = q THEN n ELSE t.up[m]
      BY <3>1, <3>2
    <3>. QED BY <3>3, <3>4
  <2>. HIDE DEF u1, v
  <2>3. v \in Trees
    <3>1. [pRoot |-> t.pRoot, child |-> t.child, up |-> u1,
             height |-> t.height, imbalance |-> t.imbalance] \in Trees
      BY <2>2, <1>1, TreesIntro
    <3>. QED BY <2>1, <3>1
  <2>4. /\ v.height = t.height /\ v.imbalance = t.imbalance
        /\ v.pRoot = t.pRoot /\ v.child = t.child
        /\ \A m \in Address : v.up[m] = IF m = q THEN n ELSE t.up[m]
    BY <2>1, <2>2
  <2>. QED BY <2>3, <2>4 DEF v
<1>. QED BY <1>2, <1>3

\* What PutOnly changes, pointer by pointer.
LEMMA OnlyPutFacts ==
  ASSUME NEW t \in Trees, NEW T, NEW sub, Shape(t, T, sub), NEW n \in T
  PROVE  OnlyPut(t, n)
<1>. DEFINE b == t.child[n]["before"]
            q == IF b = Null THEN t.child[n]["after"] ELSE b
            w == SetFromPtr(t, n, q)
            v == PutOnly(t, n)
<1>1. /\ n \in Address
      /\ t.up[n] # Null => \E e \in Side : t.child[t.up[n]][e] = n
                                           /\ t.child[t.up[n]][Other(e)] # n
  BY ShapeFrom
<1>2. q \in Pointer /\ t.up[n] \in Pointer
  BY <1>1, TreesFields, SideFacts
<1>3. v = SetUp(w, q, t.up[n])
  BY DEF PutOnly
<1>. HIDE DEF q
<1>4. /\ w \in Trees /\ w.up = t.up /\ w.height = t.height /\ w.imbalance = t.imbalance
      /\ w.pRoot = IF t.up[n] = Null THEN q ELSE t.pRoot
      /\ \A m \in Address, e \in Side : w.child[m][e] =
            IF m = t.up[n] /\ t.child[m][e] = n THEN q ELSE t.child[m][e]
  BY <1>1, <1>2, FromPtrFacts
<1>. HIDE DEF w, v
<1>5. /\ v \in Trees /\ v.height = w.height /\ v.imbalance = w.imbalance
      /\ v.pRoot = w.pRoot /\ v.child = w.child
      /\ \A m \in Address : v.up[m] = IF m = q THEN t.up[n] ELSE w.up[m]
  <2>1. LET v0 == SetUp(w, q, t.up[n])
         IN /\ v0 \in Trees /\ v0.height = w.height /\ v0.imbalance = w.imbalance
            /\ v0.pRoot = w.pRoot /\ v0.child = w.child
            /\ \A m \in Address : v0.up[m] = IF m = q THEN t.up[n] ELSE w.up[m]
    BY <1>2, <1>4, SetUpFacts
  <2>. QED BY <2>1, <1>3
<1>6. /\ v \in Trees /\ v.height = t.height /\ v.imbalance = t.imbalance
      /\ v.pRoot = IF t.up[n] = Null THEN q ELSE t.pRoot
      /\ \A m \in Address, e \in Side : v.child[m][e] =
            IF m = t.up[n] /\ t.child[m][e] = n THEN q ELSE t.child[m][e]
      /\ \A m \in Address : v.up[m] = IF m = q THEN t.up[n] ELSE t.up[m]
  BY <1>4, <1>5
<1>. QED BY <1>6 DEF OnlyPut, v, q

SubWithout(T, sub, n) == [m \in T \ {n} |-> sub[m] \ {n}]

\* The only child of n.
OnlyChild(t, n) == IF t.child[n]["before"] = Null THEN t.child[n]["after"] ELSE t.child[n]["before"]

\* The child of a node that has at most one.
LEMMA OnlyChildFacts ==
  ASSUME NEW t, NEW T, NEW sub, Shape(t, T, sub), NEW n \in T,
         \E d \in Side : t.child[n][d] = Null
  PROVE  /\ \A d \in Side : t.child[n][d] # Null => t.child[n][d] = OnlyChild(t, n)
         /\ OnlyChild(t, n) # Null => OnlyChild(t, n) \in T /\ t.up[OnlyChild(t, n)] = n
                                      /\ OnlyChild(t, n) # n
         /\ sub[n] = {n} \cup Below(sub, OnlyChild(t, n)) /\ n \notin Below(sub, OnlyChild(t, n))
<1>1. PICK d \in Side : t.child[n][d] = OnlyChild(t, n) /\ t.child[n][Other(d)] = Null
  BY SideFacts DEF OnlyChild
<1>2. Kid(t, T, sub, n, d)
  BY KidFacts
<1>3. Below(sub, Null) = {}
  BY DEF Below
<1>. QED BY <1>1, <1>2, <1>3, SideFacts DEF Kid

\* Its child in the place of a node keeps the shape.
LEMMA PutOnlyShape ==
  ASSUME NEW t \in Trees, NEW T, NEW sub, Shape(t, T, sub), NEW n \in T,
         \E d \in Side : t.child[n][d] = Null
  PROVE  Shape(PutOnly(t, n), T \ {n}, SubWithout(T, sub, n))
<1>. DEFINE v == PutOnly(t, n)
            q == OnlyChild(t, n)
            T2 == T \ {n}
            sub2 == SubWithout(T, sub, n)
<1>1. /\ v \in Trees
      /\ v.pRoot = IF t.up[n] = Null THEN q ELSE t.pRoot
      /\ \A m \in Address, e \in Side : v.child[m][e] =
            IF m = t.up[n] /\ t.child[m][e] = n THEN q ELSE t.child[m][e]
      /\ \A m \in Address : v.up[m] = IF m = q THEN t.up[n] ELSE t.up[m]
  <2>1. OnlyPut(t, n)
    BY OnlyPutFacts
  <2>. QED BY <2>1 DEF OnlyPut, OnlyChild
<1>2. /\ \A d \in Side : t.child[n][d] # Null => t.child[n][d] = q
      /\ q # Null => q \in T /\ t.up[q] = n /\ q # n
      /\ sub[n] = {n} \cup Below(sub, q) /\ n \notin Below(sub, q)
  BY OnlyChildFacts
<1>. HIDE DEF v, q
<1>3. /\ T \subseteq Address /\ sub \in [T -> SUBSET T] /\ Null \notin T /\ Null \notin Address
      /\ \A m \in T : m \in sub[m] /\ sub[m] \subseteq T
  BY ShapeParts
<1>4. /\ t.pRoot \in T /\ sub[t.pRoot] = T /\ t.up[t.pRoot] = Null
      /\ \A m \in T : t.up[m] = Null <=> m = t.pRoot
      /\ \A m \in T : t.up[m] # Null => t.up[m] \in T /\ t.up[m] # m
                                        /\ \E d \in Side : t.child[t.up[m]][d] = m
      /\ \A m \in T, d \in Side : t.child[m][d] # Null =>
            t.child[m][d] \in T /\ t.up[t.child[m][d]] = m
  <2>1. \A m \in T : /\ t.pRoot # Null /\ t.pRoot \in T /\ sub[t.pRoot] = T
                     /\ t.up[m] = Null <=> m = t.pRoot
                     /\ t.up[m] # Null => t.up[m] \in T /\ t.up[m] # m
    BY RootFacts
  <2>. QED BY <2>1 DEF Shape
<1>5. sub2 \in [T2 -> SUBSET T2] /\ \A m \in T2 : sub2[m] = sub[m] \ {n}
  BY <1>3 DEF SubWithout
<1>. HIDE DEF sub2
<1>6. \A c \in T \cup {Null} : c # n => Below(sub2, c) = Below(sub, c) \ {n}
  BY <1>5 DEF Below
<1>7. Below(sub2, q) = Below(sub, q)
  <2>1. q \in T \cup {Null} /\ q # n
    BY <1>2, <1>3
  <2>. QED BY <2>1, <1>6, <1>2
<1>8. ASSUME NEW m \in T2, NEW e \in Side
      PROVE  /\ v.child[m][e] = IF t.child[m][e] = n THEN q ELSE t.child[m][e]
             /\ Below(sub2, v.child[m][e]) = Below(sub, t.child[m][e]) \ {n}
  <2>0. v.child[m][e] = IF t.child[m][e] = n THEN q ELSE t.child[m][e]
    BY <1>1, <1>3, <1>4
  <2>1. CASE t.child[m][e] = n
    <3>1. Below(sub, n) = sub[n]
      BY <1>3 DEF Below
    <3>. QED BY <2>0, <2>1, <3>1, <1>2, <1>7
  <2>2. CASE t.child[m][e] # n
    <3>1. t.child[m][e] \in T \cup {Null}
      BY <1>4
    <3>. QED BY <2>0, <2>2, <3>1, <1>6
  <2>. QED BY <2>0, <2>1, <2>2
<1>9. v.pRoot \in T2 \cup {Null} /\ T2 = Below(sub2, v.pRoot)
  <2>1. CASE t.up[n] = Null
    <3>1. n = t.pRoot
      BY <2>1, <1>4
    <3>. QED BY <2>1, <3>1, <1>1, <1>2, <1>4, <1>7
  <2>2. CASE t.up[n] # Null
    <3>1. t.pRoot # n /\ v.pRoot = t.pRoot /\ t.pRoot # Null
      BY <2>2, <1>1, <1>3, <1>4
    <3>. QED BY <3>1, <1>4, <1>5, <1>3 DEF Below
  <2>. QED BY <2>1, <2>2
<1>10. v.pRoot # Null => v.up[v.pRoot] = Null
  <2>1. CASE t.up[n] = Null
    BY <2>1, <1>1, <1>2, <1>3
  <2>2. CASE t.up[n] # Null
    <3>1. t.pRoot # q
      BY <2>2, <1>2, <1>3, <1>4
    <3>. QED BY <3>1, <2>2, <1>1, <1>3, <1>4
  <2>. QED BY <2>1, <2>2
<1>11. ASSUME NEW m \in T2, v.up[m] = Null PROVE m = v.pRoot
  BY <1>11, <1>1, <1>3, <1>4
<1>12. ASSUME NEW m \in T2, v.up[m] # Null
       PROVE  v.up[m] \in T2 /\ \E d \in Side : v.child[v.up[m]][d] = m
  <2>1. CASE m = q
    <3>1. v.up[m] = t.up[n] /\ t.up[n] \in T2
      BY <2>1, <1>12, <1>1, <1>3, <1>4
    <3>2. PICK d \in Side : t.child[t.up[n]][d] = n
      BY <3>1, <1>12, <1>4
    <3>. QED BY <3>1, <3>2, <1>8, <2>1
  <2>2. CASE m # q
    <3>1. v.up[m] = t.up[m] /\ t.up[m] \in T
      BY <2>2, <1>12, <1>1, <1>3, <1>4
    <3>2. PICK d \in Side : t.child[t.up[m]][d] = m
      BY <3>1, <1>12, <1>4
    <3>3. t.up[m] # n
      BY <3>2, <2>2, <1>2, <1>3
    <3>. QED BY <3>1, <3>2, <3>3, <1>8
  <2>. QED BY <2>1, <2>2
<1>13. ASSUME NEW m \in T2, NEW d \in Side, v.child[m][d] # Null
       PROVE  v.child[m][d] \in T2 /\ v.up[v.child[m][d]] = m
  <2>1. CASE t.child[m][d] = n
    <3>1. v.child[m][d] = q /\ t.up[n] = m
      BY <2>1, <1>8, <1>4, <1>3
    <3>. QED BY <3>1, <1>13, <1>1, <1>2, <1>3
  <2>2. CASE t.child[m][d] # n
    <3>1. v.child[m][d] = t.child[m][d] /\ t.child[m][d] \in T2 /\ t.up[t.child[m][d]] = m
      BY <2>2, <1>8, <1>13, <1>4
    <3>2. t.child[m][d] # q
      BY <3>1, <1>2, <1>3
    <3>. QED BY <3>1, <3>2, <1>1, <1>3
  <2>. QED BY <2>1, <2>2
<1>14. ASSUME NEW m \in T2
       PROVE  sub2[m] = {m} \cup Below(sub2, v.child[m]["before"]) \cup Below(sub2, v.child[m]["after"])
  <2>1. sub[m] = {m} \cup Below(sub, t.child[m]["before"]) \cup Below(sub, t.child[m]["after"])
    BY DEF Shape
  <2>2. \A e \in Side : Below(sub2, v.child[m][e]) = Below(sub, t.child[m][e]) \ {n}
    BY <1>8
  <2>3. sub2[m] = sub[m] \ {n} /\ m # n
    BY <1>5
  <2>. QED BY <2>1, <2>2, <2>3, SideFacts
<1>15. \A m \in T2, d \in Side : \A x \in Below(sub2, v.child[m][d]) : OnSide(d, aKey(x), aKey(m))
  <2>1. \A m \in T, d \in Side : \A x \in Below(sub, t.child[m][d]) : OnSide(d, aKey(x), aKey(m))
    BY DEF Shape
  <2>2. \A m \in T2, d \in Side : Below(sub2, v.child[m][d]) \subseteq Below(sub, t.child[m][d])
    BY <1>8
  <2>. QED BY <2>1, <2>2
<1>16. T2 \subseteq Address
  BY <1>3
<1>17. Shape(v, T2, sub2)
  BY <1>5, <1>9, <1>10, <1>11, <1>12, <1>13, <1>14, <1>15, <1>16 DEF Shape
<1>. QED BY <1>17 DEF v, sub2

\* The subtree that n's place heads is one lower than before, and pBalance is
\* the node above it.
LEMMA PutOnlyAbove ==
  ASSUME NEW t \in Trees, NEW T, NEW sub, Shape(t, T, sub), NEW G, AlmostBalanced(t, T, sub, G, Null),
         NEW n \in T, \E d \in Side : t.child[n][d] = Null
  PROVE  AlmostBalanced(PutOnly(t, n), T \ {n}, SubWithout(T, sub, n), [m \in T \ {n} |-> G[m]], t.up[n])
<1>. DEFINE v == PutOnly(t, n)
            q == OnlyChild(t, n)
            T2 == T \ {n}
            sub2 == SubWithout(T, sub, n)
            G2 == [m \in T \ {n} |-> G[m]]
            at == t.up[n]
<1>1. /\ v.height = t.height /\ v.imbalance = t.imbalance
      /\ \A m \in Address, e \in Side : v.child[m][e] =
            IF m = t.up[n] /\ t.child[m][e] = n THEN q ELSE t.child[m][e]
  <2>1. OnlyPut(t, n)
    BY OnlyPutFacts
  <2>. QED BY <2>1 DEF OnlyPut, OnlyChild
<1>2. /\ \A d \in Side : t.child[n][d] # Null => t.child[n][d] = q
      /\ q # Null => q \in T /\ t.up[q] = n /\ q # n
  BY OnlyChildFacts
<1>3. /\ T \subseteq Address /\ sub \in [T -> SUBSET T] /\ Null \notin T /\ Null \notin Address
      /\ \A m \in T : m \in sub[m] /\ sub[m] \subseteq T
  BY ShapeParts
<1>4. /\ at \in T2 \cup {Null}
      /\ \A m \in T, d \in Side : t.child[m][d] # Null =>
            t.child[m][d] \in T /\ t.up[t.child[m][d]] = m
      /\ at # Null => \E d \in Side : t.child[at][d] = n /\ t.child[at][Other(d)] # n
  <2>1. t.up[n] # Null => t.up[n] # n
    BY RootFacts
  <2>2. t.up[n] # Null => \E d \in Side : t.child[t.up[n]][d] = n /\ t.child[t.up[n]][Other(d)] # n
    BY ShapeFrom
  <2>. QED BY <2>1, <2>2 DEF Shape
<1>5. /\ G \in [T -> Nat]
      /\ \A m \in T : G[m] = Tall(G, t, m) /\ Diff(G, t, m) \in -1..1
      /\ \A m \in T : t.height[m] = G[m] /\ t.imbalance[m] = Diff(G, t, m)
  BY <1>3 DEF AlmostBalanced
<1>6. G2 \in [T2 -> Nat] /\ \A m \in T2 : G2[m] = G[m]
  BY <1>5
<1>7. \A m \in T2 : sub2[m] = sub[m] \ {n}
  BY DEF SubWithout
<1>8. High(G, n) = High(G, q) + 1 /\ High(G, q) \in Nat /\ High(G2, q) = High(G, q)
  <2>1. PICK d \in Side : t.child[n][d] = q /\ t.child[n][Other(d)] = Null
    BY SideFacts DEF OnlyChild
  <2>2. Weighed(G, t, n, d)
    BY <1>5, WeighedFacts
  <2>3. High(G, Null) = 0 /\ High(G, n) = G[n]
    BY <1>3 DEF High
  <2>4. High(G2, q) = High(G, q)
    BY <1>2, <1>6 DEF High
  <2>5. Tall(G, t, n) = Higher(High(G, q), 0) + 1 /\ High(G, q) \in Nat
    BY <2>1, <2>2, <2>3 DEF Weighed
  <2>. DEFINE i == High(G, q)
  <2>. HIDE DEF i
  <2>6. Higher(i, 0) = i
    BY <2>5 DEF Higher, i
  <2>. QED BY <2>3, <2>4, <2>5, <2>6, <1>5 DEF i
<1>. HIDE DEF v, q, sub2, G2
<1>9. ASSUME NEW m \in T2, NEW e \in Side
      PROVE  High(G2, v.child[m][e]) = IF t.child[m][e] = n THEN High(G, q) ELSE High(G, t.child[m][e])
  <2>0. v.child[m][e] = IF t.child[m][e] = n THEN q ELSE t.child[m][e]
    BY <1>1, <1>3, <1>4
  <2>1. CASE t.child[m][e] = n
    BY <2>0, <2>1, <1>8
  <2>2. CASE t.child[m][e] # n
    <3>1. t.child[m][e] \in T2 \cup {Null}
      BY <1>4, <2>2
    <3>. QED BY <2>0, <2>2, <3>1, <1>6 DEF High
  <2>. QED BY <2>1, <2>2
<1>10. ASSUME NEW m \in T2, m # at
       PROVE  Tall(G2, v, m) = Tall(G, t, m) /\ Diff(G2, v, m) = Diff(G, t, m)
  <2>1. \A e \in Side : t.child[m][e] # n
    BY <1>10, <1>4, <1>3
  <2>. QED BY <2>1, <1>9, SideFacts DEF Tall, Diff
<1>11. ASSUME at # Null
       PROVE  /\ Diff(G2, v, at) \in -2..2
              /\ G2[at] - Tall(G2, v, at) \in -1..1
              /\ Diff(G2, v, at) \in {-2, 2} => G2[at] <= Tall(G2, v, at)
  <2>1. at \in T2
    BY <1>4, <1>11
  <2>2. PICK d \in Side : t.child[at][d] = n /\ t.child[at][Other(d)] # n
    BY <1>4, <1>11
  <2>. DEFINE i == High(G, q)
              j == High(G, t.child[at][Other(d)])
  <2>3. Weighed(G, t, at, d)
    BY <2>1, <1>5, WeighedFacts
  <2>4. /\ i \in Nat /\ j \in Nat /\ G[at] = Higher(i + 1, j) + 1 /\ (i + 1) - j \in -1..1
    BY <2>1, <2>2, <2>3, <1>5, <1>8 DEF Weighed
  <2>5. High(G2, v.child[at][d]) = i /\ High(G2, v.child[at][Other(d)]) = j
    BY <2>1, <2>2, <1>9, SideFacts
  <2>6. /\ Tall(G2, v, at) = Higher(i, j) + 1
        /\ Diff(G2, v, at) = i - j \/ Diff(G2, v, at) = j - i
    <3>. HIDE DEF i, j
    <3>1. d = "before" \/ d = "after"
      BY SideFacts
    <3>. QED BY <2>4, <2>5, <3>1, SideFacts DEF Tall, Diff, Higher
  <2>7. G2[at] = G[at]
    BY <2>1, <1>6
  <2>. HIDE DEF i, j
  <2>. QED BY <2>4, <2>6, <2>7 DEF Higher
<1>12. \A m \in T2 : at \notin sub2[m] => v.height[m] = G2[m] /\ v.imbalance[m] = Diff(G2, v, m)
  <2>. SUFFICES ASSUME NEW m \in T2, at \notin sub2[m]
                PROVE  v.height[m] = G2[m] /\ v.imbalance[m] = Diff(G2, v, m)
    OBVIOUS
  <2>1. m # at
    BY <1>3, <1>7
  <2>. QED BY <2>1, <1>1, <1>5, <1>6, <1>10
<1>13. \A m \in T2 : m # at => G2[m] = Tall(G2, v, m) /\ Diff(G2, v, m) \in -1..1
  BY <1>5, <1>6, <1>10
<1>14. AlmostBalanced(v, T2, sub2, G2, at)
  BY <1>4, <1>6, <1>11, <1>12, <1>13 DEF AlmostBalanced
<1>. QED BY <1>14 DEF v, sub2, G2

\* pBalance may also be the only child that took n's place.
LEMMA PutOnlyAt ==
  ASSUME NEW t \in Trees, NEW T, NEW sub, Shape(t, T, sub), NEW G, AlmostBalanced(t, T, sub, G, Null),
         NEW n \in T, \E d \in Side : t.child[n][d] = Null, OnlyChild(t, n) # Null
  PROVE  AlmostBalanced(PutOnly(t, n), T \ {n}, SubWithout(T, sub, n),
                        [m \in T \ {n} |-> IF m = OnlyChild(t, n) THEN G[n] ELSE G[m]], OnlyChild(t, n))
<1>. DEFINE v == PutOnly(t, n)
            q == OnlyChild(t, n)
            T2 == T \ {n}
            sub2 == SubWithout(T, sub, n)
            G2 == [m \in T \ {n} |-> IF m = q THEN G[n] ELSE G[m]]
<1>1. /\ v.height = t.height /\ v.imbalance = t.imbalance
      /\ \A m \in Address, e \in Side : v.child[m][e] =
            IF m = t.up[n] /\ t.child[m][e] = n THEN q ELSE t.child[m][e]
  <2>1. OnlyPut(t, n)
    BY OnlyPutFacts
  <2>. QED BY <2>1 DEF OnlyPut, OnlyChild
<1>2. q \in T2 /\ t.up[q] = n /\ q # n
  BY OnlyChildFacts
<1>3. /\ T \subseteq Address /\ sub \in [T -> SUBSET T] /\ Null \notin T /\ Null \notin Address
      /\ \A m \in T : m \in sub[m] /\ sub[m] \subseteq T
  BY ShapeParts
<1>4. \A m \in T, d \in Side : t.child[m][d] # Null =>
            t.child[m][d] \in T /\ t.up[t.child[m][d]] = m
  BY DEF Shape
<1>5. /\ G \in [T -> Nat]
      /\ \A m \in T : G[m] = Tall(G, t, m) /\ Diff(G, t, m) \in -1..1
      /\ \A m \in T : t.height[m] = G[m] /\ t.imbalance[m] = Diff(G, t, m)
  BY <1>3 DEF AlmostBalanced
<1>6. G2 \in [T2 -> Nat] /\ G2[q] = G[n] /\ \A m \in T2 : m # q => G2[m] = G[m]
  BY <1>2, <1>5
<1>7. \A m \in T2 : sub2[m] = sub[m] \ {n}
  BY DEF SubWithout
<1>8. G[n] = G[q] + 1 /\ G[q] \in Nat
  <2>1. PICK d \in Side : t.child[n][d] = q /\ t.child[n][Other(d)] = Null
    BY SideFacts DEF OnlyChild
  <2>2. Weighed(G, t, n, d)
    BY <1>5, WeighedFacts
  <2>3. High(G, Null) = 0 /\ High(G, q) = G[q]
    BY <1>2, <1>3 DEF High
  <2>4. Tall(G, t, n) = Higher(G[q], 0) + 1 /\ G[q] \in Nat
    BY <2>1, <2>2, <2>3 DEF Weighed
  <2>. QED BY <2>4, <1>5 DEF Higher
<1>. HIDE DEF v, q, sub2, G2
<1>9. ASSUME NEW m \in T2, NEW e \in Side
      PROVE  High(G2, v.child[m][e]) = High(G, t.child[m][e])
  <2>0. v.child[m][e] = IF t.child[m][e] = n THEN q ELSE t.child[m][e]
    BY <1>1, <1>3, <1>4
  <2>1. CASE t.child[m][e] = n
    BY <2>0, <2>1, <1>2, <1>3, <1>6 DEF High
  <2>2. CASE t.child[m][e] # n
    <3>1. t.child[m][e] \in T2 \cup {Null} /\ t.child[m][e] # q
      BY <1>2, <1>3, <1>4, <2>2
    <3>. QED BY <2>0, <2>2, <3>1, <1>6 DEF High
  <2>. QED BY <2>1, <2>2
<1>10. \A m \in T2 : Tall(G2, v, m) = Tall(G, t, m) /\ Diff(G2, v, m) = Diff(G, t, m)
  BY <1>9, SideFacts DEF Tall, Diff
<1>11. /\ Diff(G2, v, q) \in -1..1 /\ G2[q] = Tall(G2, v, q) + 1 /\ Tall(G2, v, q) \in Nat
  BY <1>2, <1>5, <1>6, <1>8, <1>10
<1>12. \A m \in T2 : q \notin sub2[m] => v.height[m] = G2[m] /\ v.imbalance[m] = Diff(G2, v, m)
  <2>. SUFFICES ASSUME NEW m \in T2, q \notin sub2[m]
                PROVE  v.height[m] = G2[m] /\ v.imbalance[m] = Diff(G2, v, m)
    OBVIOUS
  <2>1. m # q
    BY <1>2, <1>3, <1>7
  <2>. QED BY <2>1, <1>1, <1>5, <1>6, <1>10
<1>13. \A m \in T2 : m # q => G2[m] = Tall(G2, v, m) /\ Diff(G2, v, m) \in -1..1
  BY <1>5, <1>6, <1>10
<1>14. /\ Diff(G2, v, q) \in -2..2 /\ Diff(G2, v, q) \notin {-2, 2} /\ G2[q] - Tall(G2, v, q) \in -1..1
  BY <1>11
<1>15. AlmostBalanced(v, T2, sub2, G2, q)
  BY <1>2, <1>6, <1>12, <1>13, <1>14 DEF AlmostBalanced
<1>. QED BY <1>15 DEF v, sub2, G2, q

Renaming(n, x, q) == IF q = n THEN x ELSE q

\* In v node x is where n is in t.
Renamed(t, T, sub, n, x, v) ==
    /\ v \in Trees
    /\ v.pRoot = Renaming(n, x, t.pRoot)
    /\ \A m \in T \ {n}, e \in Side : v.child[m][e] = Renaming(n, x, t.child[m][e])
    /\ \A e \in Side : v.child[x][e] = t.child[n][e]
    /\ \A m \in T \ {n} : v.up[m] = Renaming(n, x, t.up[m])
    /\ v.up[x] = t.up[n]
    /\ \A m \in T \ {n} : v.height[m] = t.height[m] /\ v.imbalance[m] = t.imbalance[m]
    /\ \A e \in Side : \A z \in Below(sub, t.child[n][e]) : OnSide(e, aKey(z), aKey(x))
    /\ \A m \in T, e \in Side : n \in Below(sub, t.child[m][e]) => OnSide(e, aKey(x), aKey(m))

Swap(n, x, S) == IF n \in S THEN (S \ {n}) \cup {x} ELSE S
RenamedSub(T, sub, n, x) ==
    [m \in (T \ {n}) \cup {x} |-> Swap(n, x, sub[IF m = x THEN n ELSE m])]
RenamedHigh(T, G, n, x) == [m \in (T \ {n}) \cup {x} |-> G[IF m = x THEN n ELSE m]]

\* A tree in which another node stands for n has the shape.
LEMMA RenamedShape ==
  ASSUME NEW t \in Trees, NEW T, NEW sub, Shape(t, T, sub), NEW n \in T, NEW x \in Address \ T,
         NEW v, Renamed(t, T, sub, n, x, v)
  PROVE  Shape(v, (T \ {n}) \cup {x}, RenamedSub(T, sub, n, x))
<1>. DEFINE T2 == (T \ {n}) \cup {x}
            sub2 == RenamedSub(T, sub, n, x)
            R(q) == Renaming(n, x, q)
<1>1. /\ T \subseteq Address /\ sub \in [T -> SUBSET T] /\ Null \notin T /\ Null \notin Address
      /\ \A m \in T : m \in sub[m] /\ sub[m] \subseteq T
      /\ x # n /\ x # Null /\ x \notin T /\ n # Null
  BY ShapeParts
<1>2. /\ t.pRoot \in T /\ sub[t.pRoot] = T /\ t.up[t.pRoot] = Null
      /\ \A m \in T : t.up[m] = Null <=> m = t.pRoot
      /\ \A m \in T : t.up[m] # Null => t.up[m] \in T /\ t.up[m] # m
                                        /\ \E d \in Side : t.child[t.up[m]][d] = m
      /\ \A m \in T, d \in Side : t.child[m][d] # Null =>
            t.child[m][d] \in T /\ t.up[t.child[m][d]] = m
  <2>1. \A m \in T : /\ t.pRoot # Null /\ t.pRoot \in T /\ sub[t.pRoot] = T
                     /\ t.up[m] = Null <=> m = t.pRoot
                     /\ t.up[m] # Null => t.up[m] \in T /\ t.up[m] # m
    BY RootFacts
  <2>. QED BY <2>1 DEF Shape
<1>3. /\ v.pRoot = R(t.pRoot)
      /\ \A m \in T \ {n}, e \in Side : v.child[m][e] = R(t.child[m][e])
      /\ \A e \in Side : v.child[x][e] = t.child[n][e]
      /\ \A m \in T \ {n} : v.up[m] = R(t.up[m])
      /\ v.up[x] = t.up[n]
      /\ \A e \in Side : \A z \in Below(sub, t.child[n][e]) : OnSide(e, aKey(z), aKey(x))
      /\ \A m \in T, e \in Side : n \in Below(sub, t.child[m][e]) => OnSide(e, aKey(x), aKey(m))
  BY DEF Renamed
<1>4. /\ sub2 \in [T2 -> SUBSET T2]
      /\ sub2[x] = Swap(n, x, sub[n])
      /\ \A m \in T \ {n} : sub2[m] = Swap(n, x, sub[m])
  BY <1>1 DEF RenamedSub, Swap
<1>. HIDE DEF sub2
<1>5. /\ R(Null) = Null /\ R(n) = x /\ \A q \in T \ {n} : R(q) = q /\ R(q) \in T2
      /\ \A q \in T : R(q) \in T2 /\ R(q) # Null
  BY <1>1 DEF Renaming
<1>. HIDE DEF R
<1>6. \A c \in T \cup {Null} : Below(sub2, R(c)) = Swap(n, x, Below(sub, c))
  <2>. SUFFICES ASSUME NEW c \in T \cup {Null} PROVE Below(sub2, R(c)) = Swap(n, x, Below(sub, c))
    OBVIOUS
  <2>1. CASE c = Null
    BY <2>1, <1>5 DEF Below, Swap
  <2>2. CASE c = n
    BY <2>2, <1>5, <1>4, <1>1 DEF Below
  <2>3. CASE c \in T \ {n}
    BY <2>3, <1>5, <1>4, <1>1 DEF Below
  <2>. QED BY <2>1, <2>2, <2>3
<1>7. \A e \in Side : v.child[x][e] = R(t.child[n][e])
  <2>. SUFFICES ASSUME NEW e \in Side PROVE v.child[x][e] = R(t.child[n][e])
    OBVIOUS
  <2>1. t.child[n][e] # n
    <3>1. Kid(t, T, sub, n, e)
      BY KidFacts
    <3>. QED BY <3>1, <1>1 DEF Kid
  <2>2. t.child[n][e] = Null \/ t.child[n][e] \in T \ {n}
    BY <1>2, <2>1
  <2>. QED BY <2>2, <1>3, <1>5
<1>. DEFINE of(m) == IF m = x THEN n ELSE m
<1>8. \A m \in T2 : /\ of(m) \in T /\ R(of(m)) = m /\ sub2[m] = Swap(n, x, sub[of(m)])
                    /\ \A e \in Side : v.child[m][e] = R(t.child[of(m)][e])
                    /\ \A e \in Side : t.child[of(m)][e] \in T \cup {Null}
                    /\ \A e \in Side : Below(sub2, v.child[m][e]) = Swap(n, x, Below(sub, t.child[of(m)][e]))
  <2>. SUFFICES ASSUME NEW m \in T2
                PROVE  /\ of(m) \in T /\ R(of(m)) = m /\ sub2[m] = Swap(n, x, sub[of(m)])
                       /\ \A e \in Side : v.child[m][e] = R(t.child[of(m)][e])
                       /\ \A e \in Side : t.child[of(m)][e] \in T \cup {Null}
                       /\ \A e \in Side : Below(sub2, v.child[m][e]) = Swap(n, x, Below(sub, t.child[of(m)][e]))
    OBVIOUS
  <2>1. of(m) \in T /\ R(of(m)) = m /\ sub2[m] = Swap(n, x, sub[of(m)])
    BY <1>4, <1>5
  <2>2. \A e \in Side : v.child[m][e] = R(t.child[of(m)][e])
    BY <1>3, <1>7
  <2>3. \A e \in Side : t.child[of(m)][e] \in T \cup {Null}
    BY <1>2, <2>1
  <2>. HIDE DEF of
  <2>. QED BY <2>1, <2>2, <2>3, <1>6
<1>9. \A m \in T2 : v.up[m] = R(t.up[of(m)])
  <2>1. t.up[n] # n
    BY <1>2, <1>1
  <2>2. R(t.up[n]) = t.up[n]
    BY <2>1, <1>2, <1>5
  <2>. QED BY <2>2, <1>3
<1>10. \A m \in T : of(R(m)) = m
  BY <1>5, <1>1
<1>. HIDE DEF of
<1>11. v.pRoot \in T2 /\ T2 = Below(sub2, v.pRoot)
  <2>1. Below(sub, t.pRoot) = T
    BY <1>1, <1>2 DEF Below
  <2>. QED BY <2>1, <1>1, <1>2, <1>3, <1>5, <1>6 DEF Swap
<1>12. \A m \in T2 : v.up[m] = Null <=> m = v.pRoot
  <2>1. \A m \in T2 : v.up[m] = Null <=> t.up[of(m)] = Null
    BY <1>8, <1>9, <1>5, <1>2
  <2>2. \A m \in T2 : m = v.pRoot <=> of(m) = t.pRoot
    BY <1>3, <1>8, <1>10, <1>2
  <2>. QED BY <2>1, <2>2, <1>8, <1>2
<1>13. ASSUME NEW m \in T2, v.up[m] # Null
       PROVE  v.up[m] \in T2 /\ \E d \in Side : v.child[v.up[m]][d] = m
  <2>1. of(m) \in T /\ v.up[m] = R(t.up[of(m)])
    BY <1>8, <1>9
  <2>2. t.up[of(m)] # Null
    BY <2>1, <1>13, <1>5
  <2>3. t.up[of(m)] \in T /\ v.up[m] \in T2 /\ of(v.up[m]) = t.up[of(m)]
    BY <2>1, <2>2, <1>2, <1>5, <1>10
  <2>4. PICK d \in Side : t.child[t.up[of(m)]][d] = of(m)
    BY <2>1, <2>2, <1>2
  <2>5. v.child[v.up[m]][d] = R(of(m))
    BY <2>3, <2>4, <1>8
  <2>. QED BY <2>3, <2>5, <1>8
<1>14. ASSUME NEW m \in T2, NEW d \in Side, v.child[m][d] # Null
       PROVE  v.child[m][d] \in T2 /\ v.up[v.child[m][d]] = m
  <2>. DEFINE c == t.child[of(m)][d]
  <2>1. of(m) \in T /\ v.child[m][d] = R(c) /\ c \in T \cup {Null} /\ R(of(m)) = m
    BY <1>8
  <2>2. c # Null
    BY <2>1, <1>14, <1>5
  <2>3. c \in T /\ t.up[c] = of(m)
    BY <2>1, <2>2, <1>2
  <2>. HIDE DEF c
  <2>4. R(c) \in T2 /\ of(R(c)) = c
    BY <2>3, <1>5, <1>10
  <2>. QED BY <2>1, <2>3, <2>4, <1>9
<1>15. ASSUME NEW m \in T2
       PROVE  sub2[m] = {m} \cup Below(sub2, v.child[m]["before"]) \cup Below(sub2, v.child[m]["after"])
  <2>1. of(m) \in T /\ R(of(m)) = m /\ sub2[m] = Swap(n, x, sub[of(m)])
        /\ \A e \in Side : Below(sub2, v.child[m][e]) = Swap(n, x, Below(sub, t.child[of(m)][e]))
    BY <1>8
  <2>2. sub[of(m)] = {of(m)} \cup Below(sub, t.child[of(m)]["before"]) \cup Below(sub, t.child[of(m)]["after"])
    BY <2>1 DEF Shape
  <2>3. {m} = Swap(n, x, {of(m)})
    BY <2>1 DEF R, Renaming, Swap
  <2>4. \A A, B, C : Swap(n, x, A \cup B \cup C) = Swap(n, x, A) \cup Swap(n, x, B) \cup Swap(n, x, C)
    BY <1>1 DEF Swap
  <2>5. sub2[m] = Swap(n, x, {of(m)}) \cup Swap(n, x, Below(sub, t.child[of(m)]["before"]))
                  \cup Swap(n, x, Below(sub, t.child[of(m)]["after"]))
    BY <2>1, <2>2, <2>4
  <2>. QED BY <2>1, <2>3, <2>5, SideFacts
<1>16. ASSUME NEW m \in T2, NEW d \in Side, NEW z \in Below(sub2, v.child[m][d])
       PROVE  OnSide(d, aKey(z), aKey(m))
  <2>. DEFINE B == Below(sub, t.child[of(m)][d])
  <2>1. of(m) \in T /\ z \in Swap(n, x, B)
    BY <1>8
  <2>2. \A y \in B : OnSide(d, aKey(y), aKey(of(m)))
    BY <2>1 DEF Shape
  <2>3. \A y \in B : OnSide(d, aKey(y), aKey(m))
    BY <2>2, <1>3 DEF of
  <2>4. CASE z \in B
    BY <2>3, <2>4
  <2>5. CASE n \in B /\ z = x
    <3>1. OnSide(d, aKey(x), aKey(of(m)))
      BY <2>1, <2>5, <1>3
    <3>2. m # x
      <4>1. Kid(t, T, sub, n, d)
        BY KidFacts
      <4>. QED BY <2>5, <4>1 DEF of, Kid
    <3>. QED BY <3>1, <3>2, <2>5 DEF of
  <2>. QED BY <2>1, <2>4, <2>5 DEF Swap
<1>17. T2 \subseteq Address
  BY <1>1
<1>18. v.pRoot # Null => v.up[v.pRoot] = Null
  BY <1>11, <1>12
<1>19. Shape(v, T2, sub2)
  BY <1>4, <1>11, <1>12, <1>13, <1>14, <1>15, <1>16, <1>17, <1>18 DEF Shape
<1>. QED BY <1>19 DEF sub2

\* And its balance.
LEMMA RenamedBalance ==
  ASSUME NEW t \in Trees, NEW T, NEW sub, Shape(t, T, sub), NEW n \in T, NEW x \in Address \ T,
         NEW v, Renamed(t, T, sub, n, x, v), NEW G, NEW at \in sub[n], AlmostBalanced(t, T, sub, G, at)
  PROVE  AlmostBalanced(v, (T \ {n}) \cup {x}, RenamedSub(T, sub, n, x), RenamedHigh(T, G, n, x),
                        Renaming(n, x, at))
<1>. DEFINE T2 == (T \ {n}) \cup {x}
            sub2 == RenamedSub(T, sub, n, x)
            G2 == RenamedHigh(T, G, n, x)
            R(q) == Renaming(n, x, q)
            of(m) == IF m = x THEN n ELSE m
            to == R(at)
<1>1. /\ T \subseteq Address /\ sub \in [T -> SUBSET T] /\ Null \notin T /\ Null \notin Address
      /\ \A m \in T : m \in sub[m] /\ sub[m] \subseteq T
      /\ x # n /\ x # Null /\ x \notin T /\ n # Null /\ at \in T /\ at # Null
  BY ShapeParts
<1>2. \A m \in T, e \in Side : Kid(t, T, sub, m, e) /\ t.child[m][e] \in T \cup {Null}
  BY KidFacts DEF Kid
<1>3. /\ \A m \in T \ {n}, e \in Side : v.child[m][e] = R(t.child[m][e])
      /\ \A e \in Side : v.child[x][e] = t.child[n][e]
      /\ \A m \in T \ {n} : v.height[m] = t.height[m] /\ v.imbalance[m] = t.imbalance[m]
  BY DEF Renamed
<1>4. /\ G \in [T -> Nat]
      /\ \A m \in T : m # at => G[m] = Tall(G, t, m) /\ Diff(G, t, m) \in -1..1
      /\ \A m \in T : at \notin sub[m] => t.height[m] = G[m] /\ t.imbalance[m] = Diff(G, t, m)
      /\ Diff(G, t, at) \in -2..2
      /\ G[at] - Tall(G, t, at) \in -1..1
      /\ Diff(G, t, at) \in {-2, 2} => G[at] <= Tall(G, t, at)
  BY <1>1 DEF AlmostBalanced
<1>5. G2 \in [T2 -> Nat] /\ \A m \in T2 : G2[m] = G[of(m)]
  BY <1>4, <1>1 DEF RenamedHigh
<1>6. \A m \in T2 : sub2[m] = Swap(n, x, sub[of(m)])
  BY DEF RenamedSub
<1>. HIDE DEF sub2, G2
<1>7. \A q \in T \cup {Null} : High(G2, R(q)) = High(G, q) /\ (q # n => R(q) = q)
  BY <1>5, <1>1 DEF High, Renaming
<1>8. \A m \in T2 : /\ of(m) \in T
                    /\ \A e \in Side : v.child[m][e] = R(t.child[of(m)][e])
  <2>1. \A e \in Side : t.child[n][e] # n /\ t.child[n][e] \in T \cup {Null}
    BY <1>1, <1>2 DEF Kid
  <2>. HIDE DEF R
  <2>2. \A e \in Side : v.child[x][e] = R(t.child[n][e])
    BY <2>1, <1>3, <1>7
  <2>. QED BY <2>2, <1>1, <1>3
<1>9. to \in T2 /\ of(to) = at /\ \A m \in T2 : m # to => of(m) # at
  BY <1>1 DEF Renaming
<1>10. \A m \in T2 : to \notin sub2[m] => at \notin sub[of(m)] /\ m # x
  <2>. SUFFICES ASSUME NEW m \in T2, to \notin sub2[m] PROVE at \notin sub[of(m)] /\ m # x
    OBVIOUS
  <2>1. m # x
    BY <1>6, <1>1 DEF Swap, Renaming
  <2>2. at \notin sub[m]
    BY <2>1, <1>6, <1>1 DEF Swap, Renaming
  <2>. QED BY <2>1, <2>2
<1>11. \A m \in T2, e \in Side : High(G2, v.child[m][e]) = High(G, t.child[of(m)][e])
  <2>. HIDE DEF R, of
  <2>. QED BY <1>2, <1>7, <1>8
<1>12. \A m \in T2 : Tall(G2, v, m) = Tall(G, t, of(m)) /\ Diff(G2, v, m) = Diff(G, t, of(m))
  <2>. HIDE DEF of
  <2>. QED BY <1>11, SideFacts DEF Tall, Diff
<1>13. \A m \in T2 : to \notin sub2[m] => v.height[m] = G2[m] /\ v.imbalance[m] = Diff(G2, v, m)
  <2>. SUFFICES ASSUME NEW m \in T2, to \notin sub2[m]
                PROVE  v.height[m] = G2[m] /\ v.imbalance[m] = Diff(G2, v, m)
    OBVIOUS
  <2>1. m \in T \ {n} /\ of(m) = m /\ at \notin sub[m]
    BY <1>10
  <2>. HIDE DEF to, of
  <2>. QED BY <2>1, <1>3, <1>4, <1>5, <1>12
<1>14. \A m \in T2 : m # to => G2[m] = Tall(G2, v, m) /\ Diff(G2, v, m) \in -1..1
  <2>. HIDE DEF to, of
  <2>. QED BY <1>4, <1>5, <1>8, <1>9, <1>12
<1>15. /\ Diff(G2, v, to) \in -2..2
       /\ G2[to] - Tall(G2, v, to) \in -1..1
       /\ Diff(G2, v, to) \in {-2, 2} => G2[to] <= Tall(G2, v, to)
  <2>. HIDE DEF to, of
  <2>. QED BY <1>4, <1>5, <1>9, <1>12
<1>. HIDE DEF to
<1>16. AlmostBalanced(v, T2, sub2, G2, to)
  BY <1>5, <1>9, <1>13, <1>14, <1>15 DEF AlmostBalanced
<1>. QED BY <1>16 DEF sub2, G2, to

\* x is the first (d = "before") or last node at n.
IsExtreme(t, sub, n, d, x) ==
    /\ x \in sub[n] /\ t.child[x][d] = Null
    /\ \A z \in sub[n] \ {x} : OnSide(Other(d), aKey(z), aKey(x))

\* kvmemFirst and kvmemLast, when every node is allocated.
LEMMA ExtremeFacts ==
  ASSUME NEW h, NEW T, NEW sub, Shape(h.tree, T, sub), h.tree \in Trees,
         \A m \in T : Allocated(h, m), NEW n \in T, NEW d \in Side
  PROVE  IsExtreme(h.tree, sub, n, d, Extreme(h, n, d))
<1>. DEFINE t == h.tree
            Stop == {m \in Pointer : ~Allocated(h, m) \/ t.child[m][d] = Null}
            next == [m \in Pointer |-> t.child[m][d]]
            value == [m \in Pointer |-> IF Allocated(h, m) THEN m ELSE Wild]
            IsOne(f) == f = [m \in Pointer |->
                         IF ~Allocated(h, m) THEN Wild
                         ELSE IF t.child[m][d] = Null THEN m
                         ELSE f[t.child[m][d]]]
            end == CHOOSE f : IsOne(f)
<1>1. \A x \in Pointer \ Stop : next[x] \in Pointer
  BY TreesFields DEF Allocated
<1>2. \E f : IsOne(f)
  <2>1. PICK f : Looped(f, Pointer, Stop, next, value)
    <3>. HIDE DEF Stop, next, value
    <3>. QED BY <1>1, Loop
  <2>2. IsOne(f)
    <3>1. \A m \in Pointer : (IF m \in Stop THEN value[m] ELSE f[next[m]]) =
              IF ~Allocated(h, m) THEN Wild
              ELSE IF t.child[m][d] = Null THEN m
              ELSE f[t.child[m][d]]
      OBVIOUS
    <3>. HIDE DEF Stop, next, value
    <3>2. f = [m \in Pointer |-> IF m \in Stop THEN value[m] ELSE f[next[m]]]
      BY <2>1 DEF Looped
    <3>. QED BY <3>1, <3>2
  <2>. HIDE DEF IsOne
  <2>. QED BY <2>2
<1>3. IsOne(end)
  <2>. HIDE DEF IsOne
  <2>. QED BY <1>2
<1>4. Extreme(h, n, d) = end[n]
  BY DEF Extreme
<1>5. \A m \in T : end[m] = IF t.child[m][d] = Null THEN m ELSE end[t.child[m][d]]
  <2>. HIDE DEF end
  <2>1. T \subseteq Pointer
    BY ShapeParts DEF Pointer
  <2>. QED BY <1>3, <2>1
<1>. HIDE DEF end
<1>. DEFINE A == {m \in T : IsExtreme(t, sub, m, d, end[m])}
<1>6. ASSUME NEW m \in T, \A e \in Side : t.child[m][e] # Null => t.child[m][e] \in A
      PROVE  m \in A
  <2>. DEFINE c == t.child[m][d]
              o == t.child[m][Other(d)]
  <2>1. Kid(t, T, sub, m, d)
    BY KidFacts
  <2>2. \A z \in Below(sub, o) : OnSide(Other(d), aKey(z), aKey(m))
    BY SideFacts DEF Shape
  <2>3. CASE c = Null
    <3>1. end[m] = m
      BY <2>3, <1>5
    <3>2. sub[m] = {m} \cup Below(sub, o)
      BY <2>1, <2>3 DEF Kid, Below
    <3>. QED BY <3>1, <3>2, <2>2, <2>3 DEF IsExtreme
  <2>4. CASE c # Null
    <3>1. end[m] = end[c] /\ c \in T /\ IsExtreme(t, sub, c, d, end[c])
      BY <2>4, <1>5, <1>6
    <3>. DEFINE x == end[c]
    <3>2. sub[m] = {m} \cup sub[c] \cup Below(sub, o) /\ Below(sub, c) = sub[c] /\ sub[m] \subseteq T /\ c \in sub[c]
      BY <2>1, <2>4 DEF Kid
    <3>3. x \in sub[c] /\ t.child[x][d] = Null /\ \A z \in sub[c] \ {x} : OnSide(Other(d), aKey(z), aKey(x))
      BY <3>1 DEF IsExtreme
    <3>4. OnSide(d, aKey(x), aKey(m))
      <4>1. \A z \in Below(sub, c) : OnSide(d, aKey(z), aKey(m))
        BY DEF Shape
      <4>. QED BY <4>1, <3>2, <3>3
    <3>5. \A z \in T : aKey(z) \in Nat
      BY ShapeParts
    <3>. HIDE DEF x, c, o
    <3>6. ASSUME NEW z \in sub[m] \ {x} PROVE OnSide(Other(d), aKey(z), aKey(x))
      <4>0. aKey(x) \in Nat /\ aKey(z) \in Nat /\ aKey(m) \in Nat
        BY <3>2, <3>3, <3>5
      <4>1. CASE z = m
        BY <4>0, <4>1, <3>4, SideFacts DEF OnSide
      <4>2. CASE z \in sub[c]
        BY <4>2, <3>3, <3>6
      <4>3. CASE z \in Below(sub, o)
        BY <4>0, <4>3, <3>4, <2>2, SideFacts DEF OnSide
      <4>. QED BY <4>1, <4>2, <4>3, <3>2
    <3>7. IsExtreme(t, sub, m, d, x)
      BY <3>2, <3>3, <3>6 DEF IsExtreme
    <3>. QED BY <3>1, <3>7 DEF x
  <2>. QED BY <2>3, <2>4
<1>7. T \subseteq A
  <2>. HIDE DEF A
  <2>. QED BY <1>6, TreeInduction
<1>. QED BY <1>4, <1>7

\* u is t with pUp of q, unless it is NULL, set to n.
UpSet(t, q, n, u) ==
    /\ u \in Trees /\ u.height = t.height /\ u.imbalance = t.imbalance
    /\ u.pRoot = t.pRoot /\ u.child = t.child
    /\ \A m \in Address : u.up[m] = IF m = q THEN n ELSE t.up[m]

\* SetUp, with a name.
LEMMA UpSetFacts ==
  ASSUME NEW t \in Trees, NEW q \in Pointer, NEW n \in Pointer
  PROVE  UpSet(t, q, n, SetUp(t, q, n))
BY SetUpFacts DEF UpSet

\* u is t with the child of n on side d set to q.
ChildSet(t, n, d, q, u) ==
    /\ u \in Trees /\ u.pRoot = t.pRoot /\ u.up = t.up
    /\ u.height = t.height /\ u.imbalance = t.imbalance
    /\ \A k \in Address, f \in Side : u.child[k][f] =
          IF k = n /\ f = d THEN q ELSE t.child[k][f]

\* What setting a pBefore or pAfter changes.
LEMMA ChildSetFacts ==
  ASSUME NEW t \in Trees, NEW n \in Address, NEW d \in Side, NEW q \in Pointer
  PROVE  ChildSet(t, n, d, q, [t EXCEPT !.child[n][d] = q])
<1>. DEFINE u == [t EXCEPT !.child[n][d] = q]
            ch == [t.child EXCEPT ![n][d] = q]
<1>1. /\ t.pRoot \in Pointer /\ t.child \in [Address -> [Side -> Pointer]] /\ t.up \in [Address -> Pointer]
      /\ t.height \in [Address -> Nat] /\ t.imbalance \in [Address -> Int]
  BY TreesFields
<1>2. u = [pRoot |-> t.pRoot, child |-> ch, up |-> t.up, height |-> t.height,
           imbalance |-> t.imbalance]
  <2>1. t = [pRoot |-> t.pRoot, child |-> t.child, up |-> t.up,
             height |-> t.height, imbalance |-> t.imbalance]
    BY TreesFields
  <2>. QED BY <2>1
<1>3. ch \in [Address -> [Side -> Pointer]]
      /\ \A k \in Address, f \in Side : ch[k][f] = IF k = n /\ f = d THEN q ELSE t.child[k][f]
  BY <1>1
<1>. HIDE DEF ch, u
<1>4. u \in Trees
  <2>1. [pRoot |-> t.pRoot, child |-> ch, up |-> t.up, height |-> t.height,
           imbalance |-> t.imbalance] \in Trees
    BY <1>1, <1>3, TreesIntro
  <2>. QED BY <2>1, <1>2
<1>5. /\ u.pRoot = t.pRoot /\ u.up = t.up /\ u.child = ch
      /\ u.height = t.height /\ u.imbalance = t.imbalance
  BY <1>2
<1>. QED BY <1>3, <1>4, <1>5 DEF ChildSet, u

\* Putting the first node of the pAfter subtree in n's place is taking it out,
\* then renaming n.
LEMMA FirstAfterWrites ==
  ASSUME NEW t \in Trees, NEW T, NEW sub, Shape(t, T, sub), NEW n \in T,
         \A e \in Side : t.child[n][e] # Null, NEW x,
         IsExtreme(t, sub, t.child[n]["after"], "before", x)
  PROVE  Renamed(PutOnly(t, x), T \ {x}, SubWithout(T, sub, x), n, x, PutFirstAfter(t, n, x))
<1>. DEFINE b == t.child[n]["before"]
            a == t.child[n]["after"]
            y == t.child[x]["after"]
            s == PutOnly(t, x)
            sub1 == SubWithout(T, sub, x)
            v == PutFirstAfter(t, n, x)
<1>0. "before" \in Side /\ "after" \in Side /\ Other("before") = "after" /\ Other("after") = "before"
      /\ \A e \in Side : e = "before" \/ e = "after"
  BY SideFacts
<1>1. /\ T \subseteq Address /\ sub \in [T -> SUBSET T] /\ Null \notin T /\ Null \notin Address
      /\ \A m \in T : m \in sub[m] /\ sub[m] \subseteq T
      /\ n # Null /\ n \in Address
  BY ShapeParts
<1>2. /\ a \in T /\ b \in T /\ t.up[a] = n /\ t.up[b] = n /\ a # n /\ b # n /\ a # b
      /\ sub[n] = {n} \cup sub[b] \cup sub[a] /\ n \notin sub[a] /\ n \notin sub[b]
      /\ sub[a] \cap sub[b] = {} /\ a \in sub[a] /\ b \in sub[b] /\ sub[n] \subseteq T
      /\ \A z \in sub[b] : aKey(z) < aKey(n)
      /\ \A z \in sub[a] : aKey(z) > aKey(n)
  <2>1. Kid(t, T, sub, n, "before") /\ Kid(t, T, sub, n, "after")
    BY <1>0, KidFacts
  <2>2. a # Null /\ b # Null
    BY <1>0
  <2>3. Below(sub, a) = sub[a] /\ Below(sub, b) = sub[b]
    BY <2>2 DEF Below
  <2>4. (\A z \in Below(sub, b) : OnSide("before", aKey(z), aKey(n)))
        /\ (\A z \in Below(sub, a) : OnSide("after", aKey(z), aKey(n)))
    BY <1>0 DEF Shape
  <2>5. (\A z \in sub[b] : aKey(z) < aKey(n)) /\ (\A z \in sub[a] : aKey(z) > aKey(n))
    BY <2>3, <2>4 DEF OnSide
  <2>. QED BY <2>1, <2>2, <2>3, <2>5, <1>0 DEF Kid
<1>3. /\ x \in T /\ x \in Address /\ x # Null /\ x \in sub[a] /\ t.child[x]["before"] = Null
      /\ x # n /\ x # b /\ n \notin sub[x]
      /\ \A z \in sub[a] \ {x} : aKey(z) > aKey(x)
  <2>1. x \in sub[a] /\ t.child[x]["before"] = Null
        /\ \A z \in sub[a] \ {x} : aKey(z) > aKey(x)
    BY <1>0 DEF IsExtreme, OnSide
  <2>2. sub[x] \subseteq sub[a] /\ x \in T
    BY <2>1, <1>2, Inside
  <2>. QED BY <2>1, <2>2, <1>1, <1>2
<1>4. /\ y \in Pointer /\ y # x /\ y # n /\ y # a /\ y # b
      /\ y # Null => y \in T /\ t.up[y] = x
  <2>1. y # Null => y \in T /\ t.up[y] = x
    BY <1>3, <1>0 DEF Shape
  <2>2. y \in Pointer
    BY <1>3, <1>0, TreesFields
  <2>3. y # Null => y # x /\ n # y
    <3>1. Kid(t, T, sub, x, "after")
      BY <1>3, <1>0, KidFacts
    <3>2. y # Null => y \in sub[x] /\ y # x
      BY <3>1 DEF Kid
    <3>. QED BY <3>2, <1>3
  <2>4. y # a /\ y # b
    BY <2>1, <1>1, <1>2, <1>3
  <2>. QED BY <2>1, <2>2, <2>3, <2>4, <1>1, <1>3
<1>5. /\ \A m \in T : t.up[m] # Null => t.up[m] \in T /\ t.up[m] # m
      /\ \A m \in T, e \in Side : t.child[m][e] # Null => t.child[m][e] \in T /\ t.up[t.child[m][e]] = m
      /\ \A m \in T : t.up[m] = n => m = a \/ m = b
      /\ t.up[n] \notin sub[n] /\ (t.up[n] = Null <=> n = t.pRoot) /\ (t.up[n] # Null => t.up[n] \in T)
      /\ t.up[x] \in sub[n] /\ t.up[x] \in T
      /\ t.up[x] = n <=> x = a
  <2>1. \A m \in T : t.up[m] # Null => t.up[m] \in T /\ t.up[m] # m
    BY RootFacts
  <2>2. \A m \in T, e \in Side : t.child[m][e] # Null => t.child[m][e] \in T /\ t.up[t.child[m][e]] = m
    BY DEF Shape
  <2>3. \A m \in T : t.up[m] = n => m = a \/ m = b
    <3>1. \A m \in T : t.up[m] # Null => \E d \in Side : t.child[t.up[m]][d] = m
      BY DEF Shape
    <3>. QED BY <3>1, <1>0, <1>1
  <2>4. t.up[n] \notin sub[n] /\ (t.up[n] = Null <=> n = t.pRoot) /\ (t.up[n] # Null => t.up[n] \in T)
    BY RootFacts, <1>1, <1>2
  <2>5. t.up[x] \in sub[n] /\ t.up[x] \in T
    <3>1. x \in sub[n]
      BY <1>2, <1>3
    <3>. QED BY <3>1, <1>3, Inside
  <2>. QED BY <2>1, <2>2, <2>3, <2>4, <2>5, <1>2, <1>3
<1>6. /\ s \in Trees /\ s.height = t.height /\ s.imbalance = t.imbalance
      /\ s.pRoot = t.pRoot
      /\ \A m \in Address, e \in Side : s.child[m][e] =
            IF m = t.up[x] /\ t.child[m][e] = x THEN y ELSE t.child[m][e]
      /\ \A m \in Address : s.up[m] = IF m = y THEN t.up[x] ELSE t.up[m]
      /\ s = SetUp(SetFromPtr(t, x, y), y, t.up[x])
  <2>1. OnlyPut(t, x)
    BY <1>3, OnlyPutFacts
  <2>2. t.up[x] # Null
    BY <1>5, <1>1
  <2>. QED BY <2>1, <2>2, <1>3, Zenon DEF OnlyPut, PutOnly
<1>. DEFINE lifted == IF x = a THEN t ELSE SetUp([s EXCEPT !.child[x]["after"] = a], a, x)
            joined == SetUp([lifted EXCEPT !.child[x]["before"] = b], b, x)
            w == SetUp(joined, x, t.up[n])
<1>7. v = SetFromPtr(w, n, x)
  BY <1>6 DEF PutFirstAfter
<1>. HIDE DEF s, v
<1>8. t.child[n]["before"] = b /\ t.child[n]["after"] = a /\ t.child[x]["after"] = y
  OBVIOUS
<1>. HIDE DEF a, b, y
<1>9. /\ a \in Address /\ b \in Address /\ x \in Pointer /\ a \in Pointer /\ b \in Pointer /\ t.up[n] \in Pointer
  BY <1>1, <1>2, <1>3, TreesFields DEF Pointer
<1>10. /\ lifted \in Trees /\ lifted.pRoot = t.pRoot
       /\ lifted.height = t.height /\ lifted.imbalance = t.imbalance
       /\ \A m \in Address, e \in Side : lifted.child[m][e] =
            IF x = a THEN t.child[m][e] ELSE IF m = x /\ e = "after" THEN a ELSE s.child[m][e]
       /\ \A m \in Address : lifted.up[m] =
            IF x = a THEN t.up[m] ELSE IF m = a THEN x ELSE s.up[m]
  <2>1. CASE x = a
    BY <2>1
  <2>2. CASE x # a
    <3>. DEFINE s2 == [s EXCEPT !.child[x]["after"] = a]
    <3>1. ChildSet(s, x, "after", a, s2)
      BY <1>0, <1>3, <1>6, <1>9, ChildSetFacts
    <3>3. lifted = SetUp(s2, a, x)
      BY <2>2
    <3>. HIDE DEF s2, lifted
    <3>2. UpSet(s2, a, x, lifted)
      BY <3>1, <3>3, <1>9, UpSetFacts DEF ChildSet
    <3>4. /\ s2 \in Trees /\ s2.pRoot = s.pRoot /\ s2.up = s.up
          /\ s2.height = s.height /\ s2.imbalance = s.imbalance
          /\ \A k \in Address, f \in Side : s2.child[k][f] =
                IF k = x /\ f = "after" THEN a ELSE s.child[k][f]
      BY <3>1 DEF ChildSet
    <3>5. /\ lifted \in Trees /\ lifted.height = s2.height /\ lifted.imbalance = s2.imbalance
          /\ lifted.pRoot = s2.pRoot /\ lifted.child = s2.child
          /\ \A m \in Address : lifted.up[m] = IF m = a THEN x ELSE s2.up[m]
      BY <3>2 DEF UpSet
    <3>. QED BY <3>4, <3>5, <2>2, <1>6
  <2>. QED BY <2>1, <2>2
<1>. HIDE DEF lifted
<1>11. /\ joined \in Trees /\ joined.pRoot = t.pRoot
       /\ joined.height = t.height /\ joined.imbalance = t.imbalance
       /\ \A m \in Address, e \in Side : joined.child[m][e] =
            IF m = x /\ e = "before" THEN b ELSE lifted.child[m][e]
       /\ \A m \in Address : joined.up[m] = IF m = b THEN x ELSE lifted.up[m]
  <2>. DEFINE s2 == [lifted EXCEPT !.child[x]["before"] = b]
  <2>1. ChildSet(lifted, x, "before", b, s2)
    BY <1>0, <1>3, <1>9, <1>10, ChildSetFacts
  <2>2. joined = SetUp(s2, b, x)
    BY DEF s2
  <2>. HIDE DEF s2, joined
  <2>3. UpSet(s2, b, x, joined)
    BY <2>1, <2>2, <1>9, UpSetFacts DEF ChildSet
  <2>. QED BY <2>1, <2>3, <1>10 DEF ChildSet, UpSet
<1>. HIDE DEF joined
<1>12. /\ w \in Trees /\ w.pRoot = t.pRoot
       /\ w.height = t.height /\ w.imbalance = t.imbalance
       /\ \A m \in Address, e \in Side : w.child[m][e] =
            IF m = x /\ e = "before" THEN b ELSE lifted.child[m][e]
       /\ \A m \in Address : w.up[m] = IF m = x THEN t.up[n] ELSE IF m = b THEN x ELSE lifted.up[m]
  <2>1. UpSet(joined, x, t.up[n], w)
    BY <1>11, <1>9, UpSetFacts
  <2>. HIDE DEF w
  <2>2. /\ w \in Trees /\ w.height = joined.height /\ w.imbalance = joined.imbalance
        /\ w.pRoot = joined.pRoot /\ w.child = joined.child
        /\ \A m \in Address : w.up[m] = IF m = x THEN t.up[n] ELSE joined.up[m]
    BY <2>1 DEF UpSet
  <2>3. w \in Trees /\ w.pRoot = t.pRoot /\ w.height = t.height /\ w.imbalance = t.imbalance
    BY <2>2, <1>11
  <2>4. \A m \in Address, e \in Side : w.child[m][e] =
            IF m = x /\ e = "before" THEN b ELSE lifted.child[m][e]
    BY <2>2, <1>11
  <2>5. \A m \in Address : w.up[m] = IF m = x THEN t.up[n] ELSE IF m = b THEN x ELSE lifted.up[m]
    BY <2>2, <1>11
  <2>. QED BY <2>3, <2>4, <2>5
<1>. HIDE DEF w
<1>13. w.up[n] = t.up[n]
  BY <1>1, <1>2, <1>3, <1>4, <1>6, <1>8, <1>10, <1>12
<1>14. ASSUME t.up[n] # Null
       PROVE  \A e \in Side : w.child[t.up[n]][e] = t.child[t.up[n]][e]
  <2>1. t.up[n] \in Address /\ t.up[n] # x /\ t.up[n] # t.up[x]
    BY <1>14, <1>1, <1>2, <1>3, <1>5
  <2>. QED BY <2>1, <1>6, <1>8, <1>10, <1>12
<1>15. /\ v \in Trees /\ v.up = w.up /\ v.height = t.height /\ v.imbalance = t.imbalance
       /\ v.pRoot = IF t.up[n] = Null THEN x ELSE t.pRoot
       /\ \A m \in Address, e \in Side : v.child[m][e] =
            IF m = t.up[n] /\ w.child[m][e] = n THEN x ELSE w.child[m][e]
  <2>1. w.up[n] # Null => \E e \in Side : w.child[w.up[n]][e] = n
                                          /\ w.child[w.up[n]][Other(e)] # n
    <3>1. t.up[n] # Null => \E e \in Side : t.child[t.up[n]][e] = n
                                            /\ t.child[t.up[n]][Other(e)] # n
      BY ShapeFrom
    <3>. QED BY <3>1, <1>13, <1>14, SideFacts
  <2>2. LET l == SetFromPtr(w, n, x)
        IN /\ l \in Trees /\ l.up = w.up /\ l.height = w.height /\ l.imbalance = w.imbalance
           /\ l.pRoot = IF w.up[n] = Null THEN x ELSE w.pRoot
           /\ \A m \in Address, e \in Side : l.child[m][e] =
                 IF m = w.up[n] /\ w.child[m][e] = n THEN x ELSE w.child[m][e]
    BY <2>1, <1>1, <1>9, <1>12, FromPtrFacts
  <2>. QED BY <2>2, <1>7, <1>12, <1>13
<1>16. v.pRoot = Renaming(n, x, s.pRoot)
  BY <1>15, <1>5, <1>6, <1>8 DEF Renaming
<1>17. \A e \in Side : v.child[x][e] = s.child[n][e]
  <2>1. x # t.up[n]
    BY <1>2, <1>3, <1>5
  <2>2. v.child[x]["before"] = b /\ s.child[n]["before"] = b
    BY <2>1, <1>0, <1>1, <1>2, <1>3, <1>6, <1>8, <1>12, <1>15
  <2>3. CASE x = a
    <3>1. v.child[x]["after"] = y
      BY <2>1, <2>3, <1>0, <1>3, <1>8, <1>10, <1>12, <1>15
    <3>2. s.child[n]["after"] = y
      BY <2>3, <1>0, <1>1, <1>2, <1>6, <1>8
    <3>. QED BY <3>1, <3>2, <2>2, <1>0
  <2>4. CASE x # a
    <3>1. v.child[x]["after"] = a
      BY <2>1, <2>4, <1>0, <1>3, <1>8, <1>10, <1>12, <1>15
    <3>2. s.child[n]["after"] = a
      BY <2>4, <1>0, <1>1, <1>2, <1>6, <1>8
    <3>. QED BY <3>1, <3>2, <2>2, <1>0
  <2>. QED BY <2>3, <2>4
<1>18. ASSUME NEW m \in (T \ {x}) \ {n}, NEW e \in Side
       PROVE  v.child[m][e] = Renaming(n, x, s.child[m][e])
  <2>0. m \in T /\ m # x /\ m # n /\ m \in Address
    BY <1>1
  <2>1. w.child[m][e] = s.child[m][e]
    <3>1. CASE x = a
      <4>1. t.up[x] # m
        BY <3>1, <2>0, <1>5
      <4>. QED BY <4>1, <3>1, <2>0, <1>6, <1>8, <1>10, <1>12
    <3>2. CASE x # a
      BY <3>2, <2>0, <1>8, <1>10, <1>12
    <3>. QED BY <3>1, <3>2
  <2>2. s.child[m][e] = n => m = t.up[n]
    BY <2>0, <1>1, <1>4, <1>5, <1>6, <1>8
  <2>. QED BY <2>0, <2>1, <2>2, <1>15 DEF Renaming
<1>19. ASSUME NEW m \in (T \ {x}) \ {n}
       PROVE  v.up[m] = Renaming(n, x, s.up[m])
  <2>0. m \in T /\ m # x /\ m # n /\ m \in Address
    BY <1>1
  <2>1. CASE m = b
    BY <2>0, <2>1, <1>2, <1>4, <1>6, <1>8, <1>12, <1>15 DEF Renaming
  <2>2. CASE m = a
    <3>1. x # a
      BY <2>0, <2>2
    <3>. QED BY <2>0, <2>2, <3>1, <1>2, <1>4, <1>6, <1>8, <1>10, <1>12, <1>15 DEF Renaming
  <2>3. CASE m = y
    <3>1. s.up[m] = t.up[x] /\ t.up[m] = x
      BY <2>0, <2>3, <1>4, <1>6, <1>8, <1>1
    <3>2. v.up[m] = lifted.up[m]
      BY <2>0, <2>3, <1>4, <1>12, <1>15
    <3>3. CASE x = a
      BY <3>1, <3>2, <3>3, <2>0, <1>5, <1>8, <1>10 DEF Renaming
    <3>4. CASE x # a
      BY <3>1, <3>2, <3>4, <2>0, <2>3, <1>4, <1>5, <1>8, <1>10 DEF Renaming
    <3>. QED BY <3>3, <3>4
  <2>4. CASE m # a /\ m # b /\ m # y
    <3>1. s.up[m] = t.up[m] /\ t.up[m] # n
      BY <2>0, <2>4, <1>5, <1>6, <1>8
    <3>2. v.up[m] = t.up[m]
      BY <2>0, <2>4, <1>6, <1>8, <1>10, <1>12, <1>15
    <3>. QED BY <3>1, <3>2 DEF Renaming
  <2>. QED BY <2>1, <2>2, <2>3, <2>4
<1>20. v.up[x] = s.up[n]
  BY <1>1, <1>3, <1>4, <1>6, <1>8, <1>12, <1>15
<1>. DEFINE T1 == T \ {x}
<1>21. Shape(s, T1, sub1)
  <2>1. \E d \in Side : t.child[x][d] = Null
    BY <1>0, <1>3
  <2>. QED BY <2>1, <1>3, PutOnlyShape DEF s
<1>22. \A m \in T1 : sub1[m] = sub[m] \ {x}
  BY DEF SubWithout
<1>. HIDE DEF sub1
<1>23. n \in T1 /\ \A z \in T : aKey(z) \in Nat
  BY <1>3, ShapeParts
<1>24. ASSUME NEW e \in Side, NEW z \in Below(sub1, s.child[n][e])
       PROVE  OnSide(e, aKey(z), aKey(x))
  <2>1. OnSide(e, aKey(z), aKey(n)) /\ z \in sub1[n]
    <3>1. Kid(s, T1, sub1, n, e)
      BY <1>21, <1>23, KidFacts
    <3>. QED BY <3>1, <1>21, <1>23 DEF Shape, Kid
  <2>2. z \in sub[n] /\ z # x /\ aKey(z) \in Nat
    BY <2>1, <1>2, <1>22, <1>23
  <2>3. aKey(n) \in Nat /\ aKey(x) \in Nat /\ aKey(x) > aKey(n)
    BY <1>2, <1>3, <1>23
  <2>4. CASE e = "before"
    BY <2>1, <2>2, <2>3, <2>4 DEF OnSide
  <2>5. CASE e = "after"
    <3>1. z \in sub[a]
      BY <2>1, <2>2, <2>3, <2>5, <1>2 DEF OnSide
    <3>. QED BY <3>1, <2>2, <2>5, <1>3 DEF OnSide
  <2>. QED BY <2>4, <2>5, <1>0
<1>25. ASSUME NEW m \in T1, NEW e \in Side, n \in Below(sub1, s.child[m][e])
       PROVE  OnSide(e, aKey(x), aKey(m))
  <2>. DEFINE c == t.child[m][e]
  <2>1. s.child[m][e] # Null
    BY <1>25 DEF Below
  <2>1a. s.child[m][e] = IF m = t.up[x] /\ c = x THEN y ELSE c
    BY <1>1, <1>6, <1>8
  <2>2. c = s.child[m][e]
    <3>1. CASE m = t.up[x] /\ c = x
      <4>1. s.child[m][e] = y /\ y \in T
        BY <2>1, <3>1, <2>1a, <1>4
      <4>2. y # x /\ n \in sub1[y]
        BY <4>1, <1>1, <1>4, <1>25 DEF Below
      <4>3. n \in sub[y]
        BY <4>1, <4>2, <1>22
      <4>4. Kid(t, T, sub, x, "after")
        BY <1>0, <1>3, KidFacts
      <4>5. sub[y] \subseteq sub[x]
        BY <4>1, <4>4, <1>1, <1>8 DEF Kid
      <4>. QED BY <4>3, <4>5, <1>3
    <3>. QED BY <3>1, <2>1a
  <2>3. c \in T /\ c # x
    <3>1. c \in T
      BY <2>1, <2>2, <1>5
    <3>2. c # x
      BY <2>2, <2>1a, <1>5, <3>1, <1>1, <1>4
    <3>. QED BY <3>1, <3>2
  <2>4. n \in sub[c] /\ Below(sub, c) = sub[c]
    BY <2>1, <2>2, <2>3, <1>22, <1>25 DEF Below
  <2>5. x \in sub[c]
    <3>1. sub[n] \subseteq sub[c]
      BY <2>3, <2>4, Inside
    <3>. QED BY <3>1, <1>2, <1>3
  <2>6. \A z \in Below(sub, c) : OnSide(e, aKey(z), aKey(m))
    BY DEF Shape
  <2>. QED BY <2>4, <2>5, <2>6
<1>26. \A m \in T1 \ {n} : v.height[m] = s.height[m] /\ v.imbalance[m] = s.imbalance[m]
  BY <1>6, <1>8, <1>15
<1>27. Renamed(s, T1, sub1, n, x, v)
  BY <1>15, <1>16, <1>17, <1>18, <1>19, <1>20, <1>24, <1>25, <1>26 DEF Renamed
<1>. QED BY <1>27 DEF s, sub1, v

\* What kvmemRemoveNode makes of the tree is sound again.
THEOREM UnlinkIsSound ==
  ASSUME NEW h, h.tree \in Trees, NEW T, NEW sub, Shape(h.tree, T, sub),
         NEW G, AlmostBalanced(h.tree, T, sub, G, Null),
         \A m \in T : Allocated(h, m), NEW n \in T
  PROVE  Sound(Balance(Unlink(h, n), pBalance(h, n)), T \ {n})
<1>. DEFINE t == h.tree
            b == t.child[n]["before"]
            a == t.child[n]["after"]
<1>0. "before" \in Side /\ "after" \in Side /\ \A e \in Side : e = "before" \/ e = "after"
  BY SideFacts
<1>1. /\ T \subseteq Address /\ sub \in [T -> SUBSET T] /\ Null \notin T /\ Null \notin Address
      /\ \A m \in T : m \in sub[m] /\ sub[m] \subseteq T
  BY ShapeParts
<1>2. CASE \E d \in Side : t.child[n][d] = Null
  <2>. DEFINE q == OnlyChild(t, n)
  <2>1. Unlink(h, n) = PutOnly(t, n)
    BY <1>2 DEF Unlink
  <2>2. Shape(PutOnly(t, n), T \ {n}, SubWithout(T, sub, n)) /\ PutOnly(t, n) \in Trees
    <3>1. OnlyPut(t, n)
      BY OnlyPutFacts
    <3>2. PutOnly(t, n) \in Trees
      BY <3>1 DEF OnlyPut
    <3>. QED BY <1>2, <3>2, PutOnlyShape
  <2>3. CASE q = Null
    <3>1. pBalance(h, n) = t.up[n]
      BY <1>0, <1>2, <2>3 DEF pBalance, OnlyChild
    <3>2. AlmostBalanced(PutOnly(t, n), T \ {n}, SubWithout(T, sub, n), [m \in T \ {n} |-> G[m]], t.up[n])
      BY <1>2, PutOnlyAbove
    <3>. QED BY <2>1, <2>2, <3>1, <3>2, BalanceIsSound
  <2>4. CASE q # Null
    <3>1. pBalance(h, n) = q
      BY <1>0, <1>2, <2>4 DEF pBalance, OnlyChild
    <3>2. AlmostBalanced(PutOnly(t, n), T \ {n}, SubWithout(T, sub, n),
                         [m \in T \ {n} |-> IF m = OnlyChild(t, n) THEN G[n] ELSE G[m]], OnlyChild(t, n))
      BY <1>2, <2>4, PutOnlyAt
    <3>. QED BY <2>1, <2>2, <3>1, <3>2, BalanceIsSound
  <2>. QED BY <2>3, <2>4
<1>3. CASE \A d \in Side : t.child[n][d] # Null
  <2>. DEFINE x == Extreme(h, a, "before")
              v == PutFirstAfter(t, n, x)
              s == PutOnly(t, x)
              sub1 == SubWithout(T, sub, x)
              G1 == [m \in T \ {x} |-> G[m]]
              at == t.up[x]
  <2>1. Unlink(h, n) = v
    BY <1>3 DEF Unlink
  <2>2. pBalance(h, n) = IF x = a THEN x ELSE at
    BY <1>0, <1>3 DEF pBalance
  <2>3. /\ a \in T /\ b \in T /\ t.up[a] = n /\ sub[a] \subseteq sub[n] /\ n \notin sub[a] /\ b \notin sub[a]
    <3>1. Kid(t, T, sub, n, "after") /\ Kid(t, T, sub, n, "before")
      BY <1>0, KidFacts
    <3>2. a # Null /\ b # Null /\ Below(sub, a) = sub[a] /\ Below(sub, b) = sub[b]
      BY <1>0, <1>3 DEF Below
    <3>3. a \in T /\ t.up[a] = n /\ sub[a] \subseteq sub[n] /\ n \notin sub[a]
      BY <3>1, <3>2, ZenonT(40) DEF Kid
    <3>4. b \in T /\ b \in sub[b]
      BY <3>1, <3>2 DEF Kid
    <3>5. sub[b] \cap sub[a] = {}
      BY <3>1, <3>2, SideFacts DEF Kid
    <3>. QED BY <3>3, <3>4, <3>5
  <2>4. IsExtreme(t, sub, a, "before", x)
    BY <1>0, <2>3, ExtremeFacts
  <2>. HIDE DEF x
  <2>5. Renamed(s, T \ {x}, sub1, n, x, v)
    BY <1>3, <2>4, FirstAfterWrites
  <2>6. /\ x \in sub[a] /\ x \in T /\ x \in Address /\ x # n /\ n \in T \ {x} /\ x \notin T \ {x}
        /\ t.child[x]["before"] = Null
    BY <1>1, <2>3, <2>4 DEF IsExtreme
  <2>7. at \in sub[n] /\ at # x
    BY <2>3, <2>6, Inside, RootFacts
  <2>8. x = a <=> at = n
    <3>1. ASSUME at = n PROVE x = a
      <4>1. \E d \in Side : t.child[n][d] = x
        BY <3>1, <2>6, <1>1 DEF Shape
      <4>. QED BY <4>1, <1>0, <2>3, <2>6
    <3>. QED BY <3>1, <2>3
  <2>9. pBalance(h, n) = Renaming(n, x, at)
    BY <2>2, <2>8 DEF Renaming
  <2>10. Shape(s, T \ {x}, sub1) /\ AlmostBalanced(s, T \ {x}, sub1, G1, at) /\ s \in Trees
    <3>1. \E d \in Side : t.child[x][d] = Null
      BY <2>6, <1>0
    <3>2. s \in Trees
      <4>1. OnlyPut(t, x)
        BY <2>6, OnlyPutFacts
      <4>. QED BY <4>1 DEF OnlyPut
    <3>3. AlmostBalanced(s, T \ {x}, sub1, G1, at)
      BY <2>6, <3>1, PutOnlyAbove
    <3>. QED BY <2>6, <3>1, <3>2, <3>3, PutOnlyShape
  <2>11. at \in sub1[n]
    BY <2>6, <2>7 DEF SubWithout
  <2>. HIDE DEF s, sub1, G1, at, v
  <2>. DEFINE T1 == T \ {x}
  <2>12. (T1 \ {n}) \cup {x} = T \ {n} /\ x \in Address \ T1 /\ n \in T1
    BY <2>6
  <2>. HIDE DEF T1
  <2>13. Shape(v, (T1 \ {n}) \cup {x}, RenamedSub(T1, sub1, n, x))
    BY <2>5, <2>10, <2>12, RenamedShape DEF T1
  <2>14. AlmostBalanced(v, (T1 \ {n}) \cup {x}, RenamedSub(T1, sub1, n, x), RenamedHigh(T1, G1, n, x),
                        Renaming(n, x, at))
    BY <2>5, <2>10, <2>11, <2>12, RenamedBalance DEF T1
  <2>15. v \in Trees
    BY <2>5 DEF Renamed
  <2>. QED BY <2>1, <2>9, <2>12, <2>13, <2>14, <2>15, BalanceIsSound
<1>. QED BY <1>2, <1>3

-----------------------------------------------------------------------------
(* The nodes that the model counts as in the tree.                         *)

\* What Subtree's recursion asks for has a solution, also off the tree.
SubtreeOf(t, f) ==
    f = [m \in Pointer |->
          IF m = Null THEN {}
          ELSE {m} \cup f[t.child[m]["before"]] \cup f[t.child[m]["after"]]]

\* The recursion of Subtree defines a function.
LEMMA SubtreeExists ==
  ASSUME NEW t \in Trees
  PROVE  \E f : SubtreeOf(t, f)
<1>. DEFINE Closed0(P) == \A z \in P \ {Null} : t.child[z]["before"] \in P /\ t.child[z]["after"] \in P
            Reach(m) == {y \in Address : \A P \in SUBSET Pointer : m \in P /\ Closed0(P) => y \in P}
            f == [m \in Pointer |-> Reach(m)]
<1>0. "before" \in Side /\ "after" \in Side /\ Null \notin Address /\ Pointer = Address \cup {Null}
  BY SideFacts, AddressFacts DEF Pointer
<1>1. Reach(Null) = {}
  <2>. SUFFICES ASSUME NEW y \in Reach(Null) PROVE FALSE
    OBVIOUS
  <2>1. Closed0({Null}) /\ {Null} \in SUBSET Pointer
    BY <1>0
  <2>. QED BY <1>0, <2>1
<1>2. ASSUME NEW m \in Address
      PROVE  Reach(m) = {m} \cup Reach(t.child[m]["before"]) \cup Reach(t.child[m]["after"])
  <2>. DEFINE b == t.child[m]["before"]
              a == t.child[m]["after"]
              Q == {m} \cup Reach(b) \cup Reach(a) \cup {Null}
  <2>1. b \in Pointer /\ a \in Pointer
    BY <1>0, TreesFields
  <2>2. \A c \in Pointer : c \in Reach(c) \cup {Null}
    BY <1>0
  <2>3. \A c \in Pointer, z \in Address, d \in {"before", "after"} : z \in Reach(c) =>
           t.child[z][d] \in Reach(c) \cup {Null}
    <3>. SUFFICES ASSUME NEW c \in Pointer, NEW z \in Reach(c), NEW d \in {"before", "after"},
                         t.child[z][d] # Null
                  PROVE  t.child[z][d] \in Reach(c)
      BY <1>0
    <3>1. t.child[z][d] \in Address
      BY <1>0, TreesFields
    <3>2. ASSUME NEW P \in SUBSET Pointer, c \in P, Closed0(P) PROVE t.child[z][d] \in P
      <4>1. z \in P \ {Null}
        BY <3>2, <1>0
      <4>. QED BY <3>2, <4>1
    <3>. QED BY <3>1, <3>2
  <2>4. Closed0(Q) /\ m \in Q /\ Q \in SUBSET Pointer
    <3>1. Q \in SUBSET Pointer /\ m \in Q
      BY <1>0
    <3>2. b \in Q /\ a \in Q
      BY <2>1, <2>2
    <3>3. ASSUME NEW z \in Q \ {Null} PROVE t.child[z]["before"] \in Q /\ t.child[z]["after"] \in Q
      <4>1. CASE z = m
        BY <3>2, <4>1
      <4>2. CASE z # m
        <5>1. z \in Address
          BY <1>0, <3>3
        <5>. HIDE DEF Reach
        <5>. QED BY <2>1, <2>3, <5>1, <4>2, <3>3
      <4>. QED BY <4>1, <4>2
    <3>. HIDE DEF Q
    <3>. QED BY <3>1, <3>3
  <2>5. Reach(m) \subseteq Q \ {Null}
    BY <2>4, <1>0
  <2>6. {m} \cup Reach(b) \cup Reach(a) \subseteq Reach(m)
    <3>1. \A P \in SUBSET Pointer : m \in P /\ Closed0(P) => b \in P /\ a \in P
      BY <1>0
    <3>. HIDE DEF Closed0
    <3>. QED BY <3>1
  <2>. QED BY <2>5, <2>6
<1>3. SubtreeOf(t, f)
  <2>1. \A m \in Pointer : t.child[m]["before"] \in Pointer \/ m = Null
    BY <1>0, TreesFields
  <2>2. \A m \in Pointer : t.child[m]["after"] \in Pointer \/ m = Null
    BY <1>0, TreesFields
  <2>. HIDE DEF Reach
  <2>3. \A m \in Pointer : f[m] = IF m = Null THEN {}
          ELSE {m} \cup f[t.child[m]["before"]] \cup f[t.child[m]["after"]]
    BY <1>0, <1>1, <1>2, <2>1, <2>2
  <2>4. f = [m \in Pointer |-> f[m]]
    OBVIOUS
  <2>. HIDE DEF f
  <2>. QED BY <2>3, <2>4 DEF SubtreeOf
<1>. HIDE DEF f
<1>. QED BY <1>3

\* On the tree it gives the subtrees.
LEMMA SubtreeFacts ==
  ASSUME NEW t \in Trees, NEW T, NEW sub, Shape(t, T, sub)
  PROVE  /\ \A n \in T : Subtree(t, n) = sub[n]
         /\ \A n \in T, d \in Side : Subtree(t, t.child[n][d]) = Below(sub, t.child[n][d])
         /\ Subtree(t, t.pRoot) = T
<1>. DEFINE in == CHOOSE f : SubtreeOf(t, f)
<1>1. SubtreeOf(t, in)
  BY SubtreeExists
<1>2. \A n : Subtree(t, n) = in[n]
  BY DEF Subtree, SubtreeOf
<1>. HIDE DEF in
<1>3. \A m \in Pointer : in[m] = IF m = Null THEN {}
          ELSE {m} \cup in[t.child[m]["before"]] \cup in[t.child[m]["after"]]
  BY <1>1, Zenon DEF SubtreeOf
<1>. DEFINE A == {m \in T : in[m] = sub[m]}
<1>4. in[Null] = {}
  BY <1>3 DEF Pointer
<1>5. T \subseteq Pointer /\ Null \notin T
  BY ShapeParts DEF Pointer
<1>6. ASSUME NEW n \in T, \A d \in Side : t.child[n][d] # Null => t.child[n][d] \in A
      PROVE  n \in A
  <2>1. \A d \in Side : in[t.child[n][d]] = Below(sub, t.child[n][d])
    BY <1>4, <1>6 DEF Below
  <2>2. sub[n] = {n} \cup Below(sub, t.child[n]["before"]) \cup Below(sub, t.child[n]["after"])
    BY DEF Shape
  <2>3. in[n] = {n} \cup in[t.child[n]["before"]] \cup in[t.child[n]["after"]]
    BY <1>3, <1>5
  <2>. QED BY <2>1, <2>2, <2>3, SideFacts
<1>7. T \subseteq A
  <2>. HIDE DEF A
  <2>. QED BY <1>6, TreeInduction
<1>8. \A q \in T \cup {Null} : in[q] = Below(sub, q)
  BY <1>4, <1>7 DEF Below
<1>9. \A n \in T, d \in Side : t.child[n][d] \in T \cup {Null}
  BY DEF Shape
<1>10. t.pRoot \in T \cup {Null} /\ T = Below(sub, t.pRoot)
  BY DEF Shape
<1>. QED BY <1>2, <1>7, <1>8, <1>9, <1>10

\* The nodes of a sound tree are those that TLC counts as in the tree.
LEMMA SoundNodes ==
  ASSUME NEW t, NEW T, Sound(t, T)
  PROVE  Subtree(t, t.pRoot) = T /\ T \subseteq Address /\ Null \notin T /\ IsFiniteSet(T)
<1>1. PICK sub, G : Shape(t, T, sub) /\ AlmostBalanced(t, T, sub, G, Null)
  BY DEF Sound
<1>2. t \in Trees
  BY DEF Sound
<1>. QED BY <1>1, <1>2, SubtreeFacts, ShapeParts

\* The empty tree.
LEMMA EmptyIsSound == Sound(EmptyTree, {})
<1>. DEFINE t == EmptyTree
<1>1. t \in Trees
  <2>1. NoChild \in [Side -> Pointer] /\ Null \in Pointer
    BY DEF NoChild, Pointer
  <2>. QED BY <2>1 DEF EmptyTree, Trees
<1>2. Shape(t, {}, [m \in {} |-> {}])
  BY DEF Shape, EmptyTree, Below
<1>3. AlmostBalanced(t, {}, [m \in {} |-> {}], [m \in {} |-> 0], Null)
  BY DEF AlmostBalanced
<1>. QED BY <1>1, <1>2, <1>3 DEF Sound

\* Nodes off the tree do not matter.
LEMMA SoundElsewhere ==
  ASSUME NEW t, NEW T, Sound(t, T), NEW u \in Trees, u.pRoot = t.pRoot,
         \A m \in T : /\ \A d \in Side : u.child[m][d] = t.child[m][d]
                      /\ u.up[m] = t.up[m] /\ u.height[m] = t.height[m] /\ u.imbalance[m] = t.imbalance[m]
  PROVE  Sound(u, T)
<1>1. PICK sub, G : Shape(t, T, sub) /\ AlmostBalanced(t, T, sub, G, Null)
  BY DEF Sound
<1>2. Shape(u, T, sub)
  <2>1. "before" \in Side /\ "after" \in Side
    BY SideFacts
  <2>2. T \subseteq Address /\ sub \in [T -> SUBSET T] /\ u.pRoot \in T \cup {Null} /\ T = Below(sub, u.pRoot)
    BY <1>1 DEF Shape
  <2>3. u.pRoot # Null => u.up[u.pRoot] = Null
    BY <1>1 DEF Shape
  <2>4. \A n \in T : u.up[n] = Null => n = u.pRoot
    BY <1>1 DEF Shape
  <2>5. \A n \in T : u.up[n] # Null => u.up[n] \in T /\ \E d \in Side : u.child[u.up[n]][d] = n
    BY <1>1 DEF Shape
  <2>6. \A n \in T, d \in Side : u.child[n][d] # Null => u.child[n][d] \in T /\ u.up[u.child[n][d]] = n
    BY <1>1 DEF Shape
  <2>7. \A n \in T : sub[n] = {n} \cup Below(sub, u.child[n]["before"]) \cup Below(sub, u.child[n]["after"])
    BY <2>1, <1>1 DEF Shape
  <2>8. \A n \in T, d \in Side : \A m \in Below(sub, u.child[n][d]) : OnSide(d, aKey(m), aKey(n))
    BY <1>1 DEF Shape
  <2>. QED BY <2>2, <2>3, <2>4, <2>5, <2>6, <2>7, <2>8 DEF Shape
<1>3. \A m \in T : Tall(G, u, m) = Tall(G, t, m) /\ Diff(G, u, m) = Diff(G, t, m)
  BY SideFacts DEF Tall, Diff
<1>4. AlmostBalanced(u, T, sub, G, Null)
  BY <1>1, <1>3 DEF AlmostBalanced
<1>. QED BY <1>2, <1>4 DEF Sound

-----------------------------------------------------------------------------
(* Stepping from a node to its neighbour.                                  *)

\* Sides are an order.
LEMMA SideOrder ==
  ASSUME NEW d \in Side
  PROVE  /\ \A i, j \in Nat : OnSide(d, i, j) <=> OnSide(Other(d), j, i)
         /\ \A i, j, k \in Nat : OnSide(d, i, j) /\ OnSide(d, j, k) => OnSide(d, i, k)
         /\ \A i, j \in Nat : OnSide(d, i, j) => i # j /\ ~OnSide(d, j, i) /\ ~OnSide(Other(d), i, j)
         /\ \A i, j \in Nat : i = j \/ OnSide(d, i, j) \/ OnSide(d, j, i)
BY SideFacts DEF OnSide

\* A key has one node.
LEMMA KeysDiffer ==
  ASSUME NEW t, NEW T, NEW sub, Shape(t, T, sub), NEW x \in T, NEW y \in T, aKey(x) = aKey(y)
  PROVE  x = y
<1>. DEFINE A == {n \in T : \A u, v \in sub[n] : aKey(u) = aKey(v) => u = v}
<1>1. ASSUME NEW n \in T, \A d \in Side : t.child[n][d] # Null => t.child[n][d] \in A
      PROVE  n \in A
  <2>. SUFFICES ASSUME NEW u \in sub[n], NEW v \in sub[n], aKey(u) = aKey(v) PROVE u = v
    OBVIOUS
  <2>. DEFINE B == Below(sub, t.child[n]["before"])
              C == Below(sub, t.child[n]["after"])
  <2>1. sub[n] = {n} \cup B \cup C
    BY DEF Shape
  <2>2. \A d \in Side : \A i, j \in Below(sub, t.child[n][d]) : aKey(i) = aKey(j) => i = j
    BY <1>1 DEF Below
  <2>3. \A d \in Side : \A i \in Below(sub, t.child[n][d]) : OnSide(d, aKey(i), aKey(n))
    BY DEF Shape
  <2>4. (\A i, j \in B : aKey(i) = aKey(j) => i = j) /\ (\A i, j \in C : aKey(i) = aKey(j) => i = j)
    BY <2>2, SideFacts
  <2>5. (\A i \in B : aKey(i) < aKey(n)) /\ (\A i \in C : aKey(i) > aKey(n))
    BY <2>3, SideFacts DEF OnSide
  <2>6. \A i \in sub[n] : aKey(i) \in Nat
    BY ShapeParts
  <2>. HIDE DEF B, C
  <2>7. (\A i \in B : aKey(i) \in Nat) /\ (\A i \in C : aKey(i) \in Nat) /\ aKey(n) \in Nat
    BY <2>1, <2>6
  <2>. QED BY <2>1, <2>4, <2>5, <2>7
<1>2. T \subseteq A
  <2>. HIDE DEF A
  <2>. QED BY <1>1, TreeInduction
<1>3. x \in sub[t.pRoot] /\ y \in sub[t.pRoot] /\ t.pRoot \in T
  BY RootFacts
<1>. QED BY <1>2, <1>3

-----------------------------------------------------------------------------
\* The recursion of kvmemNext and kvmemPrev.
ClimbsTo(h, d, to) ==
    to = [w \in Pointer \X Pointer |->
          IF w[1] = Null THEN Null
          ELSE IF ~Allocated(h, w[1]) THEN Wild
          ELSE IF h.tree.child[w[1]][d] = w[2] THEN to[<<h.tree.up[w[1]], w[1]>>]
          ELSE IF w[2] # Null THEN w[1]
          ELSE Extreme(h, h.tree.child[w[1]][d], Other(d))]

\* The recursion of Climb defines a function.
LEMMA ClimbExists ==
  ASSUME NEW h, h.tree \in Trees, NEW d
  PROVE  \E to : ClimbsTo(h, d, to)
<1>. DEFINE S == Pointer \X Pointer
            Stop == {w \in S : w[1] = Null \/ ~Allocated(h, w[1]) \/ h.tree.child[w[1]][d] # w[2]}
            next == [w \in S |-> <<h.tree.up[w[1]], w[1]>>]
            value == [w \in S |-> IF w[1] = Null THEN Null
                                  ELSE IF ~Allocated(h, w[1]) THEN Wild
                                  ELSE IF w[2] # Null THEN w[1]
                                  ELSE Extreme(h, h.tree.child[w[1]][d], Other(d))]
<1>1. \A w \in S \ Stop : next[w] \in S
  <2>. SUFFICES ASSUME NEW w \in S \ Stop PROVE next[w] \in S
    OBVIOUS
  <2>1. w[1] \in Address
    BY DEF Allocated
  <2>2. h.tree.up[w[1]] \in Pointer
    BY <2>1, TreesFields
  <2>. QED BY <2>2
<1>2. PICK f : Looped(f, S, Stop, next, value)
  <2>. HIDE DEF Stop, next, value, S
  <2>. QED BY <1>1, Loop
<1>3. ClimbsTo(h, d, f)
  <2>1. \A w \in S : (IF w \in Stop THEN value[w] ELSE f[next[w]]) =
          IF w[1] = Null THEN Null
          ELSE IF ~Allocated(h, w[1]) THEN Wild
          ELSE IF h.tree.child[w[1]][d] = w[2] THEN f[<<h.tree.up[w[1]], w[1]>>]
          ELSE IF w[2] # Null THEN w[1]
          ELSE Extreme(h, h.tree.child[w[1]][d], Other(d))
    OBVIOUS
  <2>. HIDE DEF Stop, next, value
  <2>2. f = [w \in S |-> IF w \in Stop THEN value[w] ELSE f[next[w]]]
    BY <1>2 DEF Looped
  <2>. QED BY <2>1, <2>2 DEF ClimbsTo
<1>. QED BY <1>3

\* s comes next, in direction d, after all of n's subtree.
NextAfterAll(T, sub, n, d, s) ==
    /\ s \in (T \ sub[n]) \cup {Null}
    /\ s # Null => \A z \in sub[n] : OnSide(d, aKey(s), aKey(z))
    /\ \A m \in T \ sub[n] :
          \/ \A z \in sub[n] : OnSide(Other(d), aKey(m), aKey(z))
          \/ s # Null /\ (m = s \/ OnSide(d, aKey(m), aKey(s)))

\* kvmemNext and kvmemPrev go up to the nearest node on the other side.
LEMMA ClimbUp ==
  ASSUME NEW h, h.tree \in Trees, NEW T, NEW sub, Shape(h.tree, T, sub),
         \A m \in T : Allocated(h, m), NEW d \in Side, NEW to, ClimbsTo(h, d, to), NEW n \in T
  PROVE  NextAfterAll(T, sub, n, d, to[<<h.tree.up[n], n>>])
<1>. DEFINE t == h.tree
            A == {m \in T : NextAfterAll(T, sub, m, d, to[<<t.up[m], m>>])}
<1>1. /\ T \subseteq Address /\ sub \in [T -> SUBSET T] /\ Null \notin T /\ Null \notin Address
      /\ \A m \in T : aKey(m) \in Nat /\ m \in sub[m] /\ sub[m] \subseteq T
      /\ T \subseteq Pointer /\ Null \in Pointer
  BY ShapeParts DEF Pointer
<1>2. /\ \A q \in Pointer : to[<<Null, q>>] = Null
      /\ \A p \in T, q \in T : to[<<p, q>>] = IF t.child[p][d] = q THEN to[<<t.up[p], p>>] ELSE p
  <2>1. \A w \in Pointer \X Pointer : to[w] =
          IF w[1] = Null THEN Null
          ELSE IF ~Allocated(h, w[1]) THEN Wild
          ELSE IF t.child[w[1]][d] = w[2] THEN to[<<t.up[w[1]], w[1]>>]
          ELSE IF w[2] # Null THEN w[1]
          ELSE Extreme(h, t.child[w[1]][d], Other(d))
    BY <1>1 DEF ClimbsTo
  <2>2. \A p, q \in Pointer : <<p, q>> \in Pointer \X Pointer /\ <<p, q>>[1] = p /\ <<p, q>>[2] = q
    OBVIOUS
  <2>3. \A p, q \in Pointer : to[<<p, q>>] =
          IF p = Null THEN Null
          ELSE IF ~Allocated(h, p) THEN Wild
          ELSE IF t.child[p][d] = q THEN to[<<t.up[p], p>>]
          ELSE IF q # Null THEN p
          ELSE Extreme(h, t.child[p][d], Other(d))
    <3>. SUFFICES ASSUME NEW p \in Pointer, NEW q \in Pointer
                  PROVE  to[<<p, q>>] =
                           IF p = Null THEN Null
                           ELSE IF ~Allocated(h, p) THEN Wild
                           ELSE IF t.child[p][d] = q THEN to[<<t.up[p], p>>]
                           ELSE IF q # Null THEN p
                           ELSE Extreme(h, t.child[p][d], Other(d))
      BY Zenon
    <3>. DEFINE w == <<p, q>>
    <3>1. w \in Pointer \X Pointer /\ w[1] = p /\ w[2] = q
      OBVIOUS
    <3>. HIDE DEF w
    <3>2. to[w] = IF w[1] = Null THEN Null
          ELSE IF ~Allocated(h, w[1]) THEN Wild
          ELSE IF t.child[w[1]][d] = w[2] THEN to[<<t.up[w[1]], w[1]>>]
          ELSE IF w[2] # Null THEN w[1]
          ELSE Extreme(h, t.child[w[1]][d], Other(d))
      BY <2>1, <3>1
    <3>3. to[w] = IF p = Null THEN Null
                  ELSE IF ~Allocated(h, p) THEN Wild
                  ELSE IF t.child[p][d] = q THEN to[<<t.up[p], p>>]
                  ELSE IF q # Null THEN p
                  ELSE Extreme(h, t.child[p][d], Other(d))
      BY <3>1, <3>2, Zenon
    <3>. QED BY <3>3 DEF w
  <2>4. \A q \in Pointer : to[<<Null, q>>] = Null
    BY <1>1, <2>3
  <2>5. \A p \in T, q \in T : to[<<p, q>>] = IF t.child[p][d] = q THEN to[<<t.up[p], p>>] ELSE p
    BY <1>1, <2>3, ZenonT(40)
  <2>. QED BY <2>4, <2>5
<1>3. t.pRoot # Null => t.pRoot \in A
  <2>1. t.pRoot # Null => t.pRoot \in T /\ sub[t.pRoot] = T /\ t.up[t.pRoot] = Null
    BY RootFacts DEF Shape
  <2>. QED BY <2>1, <1>1, <1>2 DEF NextAfterAll
<1>4. ASSUME NEW m \in A, NEW e \in Side, t.child[m][e] # Null
      PROVE  t.child[m][e] \in A
  <2>. DEFINE c == t.child[m][e]
              o == t.child[m][Other(d)]
              sm == to[<<t.up[m], m>>]
              s == to[<<t.up[c], c>>]
              f == Other(d)
  <2>1. c \in T /\ t.up[c] = m /\ Kid(t, T, sub, m, e) /\ m \in T /\ NextAfterAll(T, sub, m, d, sm)
    BY <1>4, KidFacts DEF Kid
  <2>2. /\ sub[c] \subseteq sub[m] /\ m \notin sub[c] /\ c \in sub[c] /\ m \in sub[m]
        /\ sub[m] = {m} \cup sub[c] \cup Below(sub, t.child[m][Other(e)])
    BY <2>1, <1>4, <1>1 DEF Kid
  <2>3. /\ \A z \in sub[c] : OnSide(e, aKey(z), aKey(m))
        /\ \A z \in Below(sub, t.child[m][Other(e)]) : OnSide(Other(e), aKey(z), aKey(m))
        /\ \A z \in Below(sub, t.child[m][Other(e)]) : z \in T
    <3>1. Below(sub, c) = sub[c]
      BY <1>4 DEF Below
    <3>2. Other(e) \in Side
      BY SideFacts
    <3>3. \A g \in Side : \A z \in Below(sub, t.child[m][g]) : OnSide(g, aKey(z), aKey(m))
      BY <2>1 DEF Shape
    <3>. QED BY <3>1, <3>2, <3>3, <2>1, <2>2, <1>1, Zenon
  <2>4. /\ \A z \in T : aKey(z) \in Nat
        /\ \A i, j \in Nat : OnSide(d, i, j) <=> OnSide(f, j, i)
        /\ \A i, j, k \in Nat : OnSide(d, i, j) /\ OnSide(d, j, k) => OnSide(d, i, k)
        /\ \A i, j, k \in Nat : OnSide(f, i, j) /\ OnSide(f, j, k) => OnSide(f, i, k)
        /\ f \in Side /\ Other(f) = d /\ (e = d \/ e = f)
    BY <1>1, SideFacts, SideOrder
  <2>5. s = IF t.child[m][d] = c THEN sm ELSE m
    BY <2>1, <1>2
  <2>6. e # d => t.child[m][d] # c
    <3>1. Kid(t, T, sub, m, e)
      BY <2>1
    <3>. QED BY <3>1, <1>4, SideFacts DEF Kid
  <2>7. /\ sm \in (T \ sub[m]) \cup {Null}
        /\ sm # Null => \A z \in sub[m] : OnSide(d, aKey(sm), aKey(z))
        /\ \A x \in T \ sub[m] :
             \/ \A z \in sub[m] : OnSide(f, aKey(x), aKey(z))
             \/ sm # Null /\ (x = sm \/ OnSide(d, aKey(x), aKey(sm)))
    BY <2>1 DEF NextAfterAll
  <2>8. sub[c] \subseteq T /\ sub[m] \subseteq T
    BY <2>1, <1>1
  <2>9. CASE e = d
    <3>1. s = sm
      BY <2>5, <2>9
    <3>2. ASSUME NEW x \in T \ sub[c]
          PROVE  \/ \A z \in sub[c] : OnSide(f, aKey(x), aKey(z))
                 \/ sm # Null /\ (x = sm \/ OnSide(d, aKey(x), aKey(sm)))
      <4>1. CASE x \notin sub[m]
        BY <4>1, <2>2, <2>7, Zenon
      <4>2. CASE x = m
        <5>1. \A z \in sub[c] : OnSide(f, aKey(m), aKey(z))
          BY <2>1, <2>3, <2>4, <2>8, <2>9
        <5>. QED BY <4>2, <5>1
      <4>3. CASE x \in Below(sub, t.child[m][Other(e)])
        <5>1. OnSide(f, aKey(x), aKey(m))
          BY <4>3, <2>3, <2>9
        <5>2. \A z \in sub[c] : OnSide(f, aKey(m), aKey(z))
          BY <2>1, <2>3, <2>4, <2>8, <2>9
        <5>. QED BY <5>1, <5>2, <2>1, <2>4, <2>8
      <4>. QED BY <4>1, <4>2, <4>3, <2>2
    <3>. HIDE DEF c, s, sm, f
    <3>3. NextAfterAll(T, sub, c, d, sm)
      BY <3>2, <2>2, <2>7 DEF NextAfterAll, f
    <3>. QED BY <3>1, <3>3, <2>1 DEF c, s
  <2>10. CASE e # d
    <3>0. e = f /\ Other(e) = d
      BY <2>10, <2>4
    <3>1. s = m
      BY <2>5, <2>6, <2>10
    <3>2. ASSUME NEW x \in T \ sub[c]
          PROVE  \/ \A z \in sub[c] : OnSide(f, aKey(x), aKey(z))
                 \/ x = m \/ OnSide(d, aKey(x), aKey(m))
      <4>1. CASE x \notin sub[m]
        <5>1. CASE \A z \in sub[m] : OnSide(f, aKey(x), aKey(z))
          BY <5>1, <2>2
        <5>2. CASE sm # Null /\ (x = sm \/ OnSide(d, aKey(x), aKey(sm)))
          <6>1. OnSide(d, aKey(sm), aKey(m)) /\ sm \in T
            BY <5>2, <2>2, <2>7, Zenon
          <6>. QED BY <5>2, <6>1, <2>1, <2>4
        <5>. QED BY <4>1, <5>1, <5>2, <2>7
      <4>2. CASE x \in Below(sub, t.child[m][Other(e)])
        BY <4>2, <3>0, <2>3
      <4>. QED BY <4>1, <4>2, <2>2
    <3>3. \A z \in sub[c] : OnSide(d, aKey(m), aKey(z))
      BY <3>0, <2>1, <2>3, <2>4, <2>8
    <3>. HIDE DEF c, s, sm, f
    <3>4. NextAfterAll(T, sub, c, d, m)
      BY <3>2, <3>3, <2>1, <2>2, <1>1 DEF NextAfterAll, f
    <3>. QED BY <3>1, <3>4, <2>1 DEF c, s
  <2>. QED BY <2>9, <2>10
<1>5. T \subseteq A
  <2>1. A \subseteq T
    OBVIOUS
  <2>. HIDE DEF A
  <2>. QED BY <1>3, <1>4, <2>1, DownInduction
<1>. QED BY <1>5

\* s is the node next to n, in direction d.
NextTo(T, n, d, s) ==
    /\ s \in T \cup {Null}
    /\ s # Null => OnSide(d, aKey(s), aKey(n))
    /\ \A m \in T : OnSide(d, aKey(m), aKey(n)) =>
          s # Null /\ (m = s \/ OnSide(d, aKey(m), aKey(s)))

\* kvmemNext and kvmemPrev.
LEMMA StepFacts ==
  ASSUME NEW h, h.tree \in Trees, NEW T, NEW sub, Shape(h.tree, T, sub),
         \A m \in T : Allocated(h, m), NEW d \in Side, NEW n \in T
  PROVE  NextTo(T, n, d, Step(h, n, d))
<1>. DEFINE t == h.tree
            to == CHOOSE f : ClimbsTo(h, d, f)
            s == to[<<n, Null>>]
            su == to[<<t.up[n], n>>]
            c == t.child[n][d]
            f == Other(d)
<1>1. ClimbsTo(h, d, to)
  BY ClimbExists
<1>2. Step(h, n, d) = s
  BY DEF Step, Climb, ClimbsTo
<1>. HIDE DEF to
<1>3. /\ T \subseteq Address /\ sub \in [T -> SUBSET T] /\ Null \notin T /\ Null \notin Address
      /\ \A m \in T : aKey(m) \in Nat /\ m \in sub[m] /\ sub[m] \subseteq T
      /\ T \subseteq Pointer /\ Null \in Pointer
  BY ShapeParts DEF Pointer
<1>4. s = IF c = Null THEN su ELSE Extreme(h, c, f)
  BY <1>1, <1>3 DEF ClimbsTo
<1>5. /\ su \in (T \ sub[n]) \cup {Null}
      /\ su # Null => \A z \in sub[n] : OnSide(d, aKey(su), aKey(z))
      /\ \A m \in T \ sub[n] :
           \/ \A z \in sub[n] : OnSide(f, aKey(m), aKey(z))
           \/ su # Null /\ (m = su \/ OnSide(d, aKey(m), aKey(su)))
  <2>1. NextAfterAll(T, sub, n, d, su)
    BY <1>1, ClimbUp
  <2>. QED BY <2>1 DEF NextAfterAll
<1>6. /\ \A i, j \in Nat : OnSide(d, i, j) <=> OnSide(f, j, i)
      /\ \A i, j, k \in Nat : OnSide(d, i, j) /\ OnSide(d, j, k) => OnSide(d, i, k)
      /\ \A i, j \in Nat : OnSide(d, i, j) => ~OnSide(f, i, j)
      /\ f \in Side /\ Other(f) = d
  BY SideFacts, SideOrder
<1>7. sub[n] = {n} \cup Below(sub, c) \cup Below(sub, t.child[n][f]) /\ n \in sub[n]
  <2>1. Kid(t, T, sub, n, d)
    BY KidFacts
  <2>. QED BY <2>1 DEF Kid
<1>8. /\ \A z \in Below(sub, c) : OnSide(d, aKey(z), aKey(n))
      /\ \A z \in Below(sub, t.child[n][f]) : OnSide(f, aKey(z), aKey(n))
  BY <1>6 DEF Shape
<1>8a. \A z \in sub[n] : z \in T
  BY <1>3
<1>9. CASE c = Null
  <2>1. s = su /\ Below(sub, c) = {}
    BY <1>4, <1>9 DEF Below
  <2>. HIDE DEF s, su, c, f
  <2>2. ASSUME NEW m \in T, OnSide(d, aKey(m), aKey(n))
        PROVE  su # Null /\ (m = su \/ OnSide(d, aKey(m), aKey(su)))
    <3>1. aKey(m) \in Nat /\ aKey(n) \in Nat /\ ~OnSide(f, aKey(m), aKey(n))
      BY <1>3, <1>6, <2>2
    <3>2. m # n
      <4>1. \A i \in Nat : ~OnSide(d, i, i)
        BY DEF OnSide
      <4>. QED BY <4>1, <3>1, <2>2
    <3>3. m \notin sub[n]
      BY <3>1, <3>2, <2>1, <1>7, <1>8
    <3>. QED BY <3>1, <3>3, <1>5, <1>7
  <2>3. NextTo(T, n, d, su)
    BY <2>2, <1>5, <1>7 DEF NextTo
  <2>. QED BY <1>2, <2>1, <2>3
<1>10. CASE c # Null
  <2>1. c \in T /\ Below(sub, c) = sub[c]
    BY <1>10 DEF Shape, Below
  <2>2. s = Extreme(h, c, f)
    BY <1>4, <1>10
  <2>3. IsExtreme(t, sub, c, f, s)
    <3>1. c \in T /\ f \in Side
      BY <2>1, <1>6
    <3>. HIDE DEF c, f, s
    <3>2. IsExtreme(h.tree, sub, c, f, Extreme(h, c, f))
      BY <3>1, ExtremeFacts
    <3>. QED BY <2>2, <3>2
  <2>4. s \in sub[c] /\ \A z \in sub[c] \ {s} : OnSide(d, aKey(z), aKey(s))
    BY <2>3, <1>6 DEF IsExtreme
  <2>5. s \in T /\ OnSide(d, aKey(s), aKey(n)) /\ s \in sub[n] /\ s # Null
    BY <2>1, <2>4, <1>3, <1>7, <1>8
  <2>. HIDE DEF s, su, c, f
  <2>6. ASSUME NEW m \in T, OnSide(d, aKey(m), aKey(n))
        PROVE  m = s \/ OnSide(d, aKey(m), aKey(s))
    <3>1. aKey(m) \in Nat /\ aKey(n) \in Nat /\ aKey(s) \in Nat /\ ~OnSide(f, aKey(m), aKey(n))
      BY <1>3, <1>6, <2>5, <2>6
    <3>2. m # n
      <4>1. \A i \in Nat : ~OnSide(d, i, i)
        BY DEF OnSide
      <4>. QED BY <4>1, <3>1, <2>6
    <3>3. CASE m \in sub[n]
      <4>1. m \in sub[c]
        BY <3>1, <3>2, <3>3, <2>1, <1>7, <1>8
      <4>. QED BY <4>1, <2>4
    <3>4. CASE m \notin sub[n]
      <4>1. su # Null /\ (m = su \/ OnSide(d, aKey(m), aKey(su)))
        BY <3>1, <3>4, <1>5, <1>7
      <4>2. OnSide(d, aKey(su), aKey(s)) /\ aKey(su) \in Nat
        BY <4>1, <1>3, <1>5, <2>5
      <4>. QED BY <4>1, <4>2, <3>1, <1>6
    <3>. QED BY <3>3, <3>4
  <2>7. NextTo(T, n, d, s)
    BY <2>5, <2>6 DEF NextTo
  <2>. QED BY <1>2, <2>7
<1>. QED BY <1>9, <1>10

\* s is the nearest row to n in direction d: a node with data.
NextRow(h, T, n, d, s) ==
    /\ s \in T \cup {Null}
    /\ s # Null => OnSide(d, aKey(s), aKey(n)) /\ h.pData[s] # Null
    /\ \A m \in T : OnSide(d, aKey(m), aKey(n)) /\ h.pData[m] # Null =>
          s # Null /\ (m = s \/ OnSide(d, aKey(m), aKey(s)))

\* The recursion of kvmemNextEntry and kvmemPrevEntry.
EntryOf(h, d, f) ==
    f = [m \in Address |->
          LET e == Step(h, m, d)
          IN IF e \notin Address \/ h.pData[e] # Null THEN e ELSE f[e]]

\* The recursion of StepEntry defines a function.
LEMMA EntryExists ==
  ASSUME NEW h, NEW d
  PROVE  \E f : EntryOf(h, d, f)
<1>. DEFINE next == [m \in Address |-> Step(h, m, d)]
            Stop == {m \in Address : next[m] \notin Address \/ h.pData[next[m]] # Null}
<1>1. \A x \in Address \ Stop : next[x] \in Address
  OBVIOUS
<1>2. PICK f : Looped(f, Address, Stop, next, next)
  <2>. HIDE DEF Stop, next
  <2>. QED BY <1>1, Loop
<1>3. EntryOf(h, d, f)
  <2>1. \A m \in Address : (IF m \in Stop THEN next[m] ELSE f[next[m]]) =
          LET e == Step(h, m, d)
          IN IF e \notin Address \/ h.pData[e] # Null THEN e ELSE f[e]
    OBVIOUS
  <2>. HIDE DEF Stop, next
  <2>2. f = [m \in Address |-> IF m \in Stop THEN next[m] ELSE f[next[m]]]
    BY <1>2 DEF Looped
  <2>. QED BY <2>1, <2>2 DEF EntryOf
<1>. QED BY <1>3

\* A cursor steps to the next node with data: no node between has any.
LEMMA StepEntryFacts ==
  ASSUME NEW h, h.tree \in Trees, NEW T, NEW sub, Shape(h.tree, T, sub),
         \A m \in T : Allocated(h, m), NEW d \in Side, NEW n \in T
  PROVE  NextRow(h, T, n, d, StepEntry(h, n, d))
<1>. DEFINE f == CHOOSE g : EntryOf(h, d, g)
            Beyond(m) == {z \in T : OnSide(d, aKey(z), aKey(m))}
            Bad == {m \in T : ~NextRow(h, T, m, d, f[m])}
            Far == {Cardinality(Beyond(m)) : m \in Bad}
<1>1. EntryOf(h, d, f)
  BY EntryExists
<1>2. StepEntry(h, n, d) = f[n]
  BY DEF StepEntry, EntryOf
<1>. HIDE DEF f
<1>3. /\ T \subseteq Address /\ Null \notin T /\ Null \notin Address /\ IsFiniteSet(T)
      /\ \A m \in T : aKey(m) \in Nat
  BY ShapeParts
<1>4. \A m \in T : LET e == Step(h, m, d)
                   IN f[m] = IF e \notin Address \/ h.pData[e] # Null THEN e ELSE f[e]
  BY <1>1, <1>3 DEF EntryOf
<1>5. \A m \in T : IsFiniteSet(Beyond(m)) /\ Cardinality(Beyond(m)) \in Nat
  BY <1>3, FS_Subset, FS_CardinalityType
<1>6. ASSUME Bad # {} PROVE FALSE
  <2>1. Far \subseteq Nat /\ Far # {}
    <3>. HIDE DEF Beyond
    <3>. QED BY <1>5, <1>6
  <2>2. PICK i \in Far : \A j \in Far : i <= j
    <3>. HIDE DEF Far
    <3>. QED BY <2>1, LeastNatural
  <2>3. PICK m \in Bad : i = Cardinality(Beyond(m))
    BY <2>2
  <2>. DEFINE s == Step(h, m, d)
  <2>4. m \in T /\ NextTo(T, m, d, s)
    BY <2>3, StepFacts
  <2>5. f[m] = IF s \notin Address \/ h.pData[s] # Null THEN s ELSE f[s]
    BY <2>4, <1>4
  <2>. HIDE DEF s
  <2>6. CASE s = Null
    <3>1. f[m] = Null
      BY <2>5, <2>6, <1>3
    <3>2. NextRow(h, T, m, d, Null)
      BY <2>4, <2>6 DEF NextTo, NextRow
    <3>. QED BY <2>3, <3>1, <3>2
  <2>7. CASE s # Null /\ h.pData[s] # Null
    <3>1. f[m] = s
      BY <2>5, <2>7
    <3>2. NextRow(h, T, m, d, s)
      BY <2>4, <2>7 DEF NextTo, NextRow
    <3>. QED BY <2>3, <3>1, <3>2
  <2>8. CASE s # Null /\ h.pData[s] = Null
    <3>1. s \in T /\ OnSide(d, aKey(s), aKey(m))
          /\ \A z \in T : OnSide(d, aKey(z), aKey(m)) => z = s \/ OnSide(d, aKey(z), aKey(s))
      BY <2>4, <2>8 DEF NextTo
    <3>2. f[m] = f[s]
      BY <2>5, <2>8, <3>1, <1>3
    <3>3. /\ \A x, y, z \in Nat : OnSide(d, x, y) /\ OnSide(d, y, z) => OnSide(d, x, z)
          /\ \A x \in Nat : ~OnSide(d, x, x)
      BY SideOrder DEF OnSide
    <3>4. Beyond(s) \subseteq Beyond(m) /\ s \in Beyond(m) /\ s \notin Beyond(s)
      BY <2>4, <3>1, <3>3, <1>3
    <3>5. Cardinality(Beyond(s)) < i
      <4>1. IsFiniteSet(Beyond(m)) /\ IsFiniteSet(Beyond(s))
        BY <1>5, <2>4, <3>1
      <4>2. Beyond(s) # Beyond(m)
        BY <3>4
      <4>3. Cardinality(Beyond(s)) \in Nat /\ Cardinality(Beyond(m)) \in Nat
        BY <1>5, <2>4, <3>1
      <4>. HIDE DEF Beyond
      <4>4. /\ Cardinality(Beyond(s)) <= Cardinality(Beyond(m))
            /\ Cardinality(Beyond(m)) = Cardinality(Beyond(s)) => Beyond(m) = Beyond(s)
        BY <3>4, <4>1, FS_Subset
      <4>. QED BY <4>2, <4>3, <4>4, <2>3
    <3>6. s \notin Bad
      <4>1. ASSUME s \in Bad PROVE FALSE
        <5>1. Cardinality(Beyond(s)) \in Far
          BY <4>1
        <5>2. i <= Cardinality(Beyond(s)) /\ i \in Nat /\ Cardinality(Beyond(s)) \in Nat
          BY <5>1, <2>2, <2>1
        <5>. QED BY <5>2, <3>5
      <4>. QED BY <4>1
    <3>7. NextRow(h, T, s, d, f[s])
      BY <3>1, <3>6
    <3>. DEFINE r == f[s]
    <3>. HIDE DEF r
    <3>8. NextRow(h, T, s, d, r)
      BY <3>7 DEF r
    <3>9. NextRow(h, T, m, d, r)
      <4>1. r \in T \cup {Null}
        BY <3>8 DEF NextRow
      <4>2. r # Null => OnSide(d, aKey(r), aKey(s)) /\ h.pData[r] # Null
        BY <3>8 DEF NextRow
      <4>3. r # Null => OnSide(d, aKey(r), aKey(m))
        BY <4>1, <4>2, <3>1, <3>3, <2>4, <1>3
      <4>4. ASSUME NEW z \in T, OnSide(d, aKey(z), aKey(m)), h.pData[z] # Null
            PROVE  r # Null /\ (z = r \/ OnSide(d, aKey(z), aKey(r)))
        <5>1. OnSide(d, aKey(z), aKey(s))
          BY <4>4, <3>1, <2>8
        <5>. QED BY <5>1, <4>4, <3>8 DEF NextRow
      <4>. QED BY <4>1, <4>2, <4>3, <4>4 DEF NextRow
    <3>10. NextRow(h, T, m, d, f[m])
      BY <3>9, <3>2 DEF r
    <3>. QED BY <3>10, <2>3
  <2>. QED BY <2>6, <2>7, <2>8
<1>. QED BY <1>2, <1>6

-----------------------------------------------------------------------------
(* The search of kvmemSeek.                                                *)

\* The recursion of kvmemSeek.
BestOf(t, k, dir, to) ==
    to = [w \in Pointer \X Pointer |->
          IF w[1] = Null THEN w[2]
          ELSE IF k = aKey(w[1]) THEN w[1]
          ELSE IF k > aKey(w[1])
          THEN to[<<t.child[w[1]]["after"], IF dir < 0 THEN w[1] ELSE w[2]>>]
          ELSE to[<<t.child[w[1]]["before"], IF dir > 0 THEN w[1] ELSE w[2]>>]]

\* The recursion of Best defines a function.
LEMMA BestExists ==
  ASSUME NEW t \in Trees, NEW k, NEW dir
  PROVE  \E to : BestOf(t, k, dir, to)
<1>. DEFINE S == Pointer \X Pointer
            Stop == {w \in S : w[1] = Null \/ k = aKey(w[1])}
            next == [w \in S |->
                      IF k > aKey(w[1])
                      THEN <<t.child[w[1]]["after"], IF dir < 0 THEN w[1] ELSE w[2]>>
                      ELSE <<t.child[w[1]]["before"], IF dir > 0 THEN w[1] ELSE w[2]>>]
            value == [w \in S |-> IF w[1] = Null THEN w[2] ELSE w[1]]
<1>1. \A w \in S \ Stop : next[w] \in S
  <2>. SUFFICES ASSUME NEW w \in S \ Stop PROVE next[w] \in S
    OBVIOUS
  <2>1. w[1] \in Address /\ w[1] \in Pointer /\ w[2] \in Pointer
    BY DEF Pointer
  <2>2. t.child[w[1]]["after"] \in Pointer /\ t.child[w[1]]["before"] \in Pointer
    BY <2>1, TreesFields, SideFacts
  <2>. HIDE DEF Stop
  <2>. QED BY <2>1, <2>2
<1>2. PICK f : Looped(f, S, Stop, next, value)
  <2>. HIDE DEF Stop, next, value, S
  <2>. QED BY <1>1, Loop
<1>3. BestOf(t, k, dir, f)
  <2>1. \A w \in S : (IF w \in Stop THEN value[w] ELSE f[next[w]]) =
          IF w[1] = Null THEN w[2]
          ELSE IF k = aKey(w[1]) THEN w[1]
          ELSE IF k > aKey(w[1])
          THEN f[<<t.child[w[1]]["after"], IF dir < 0 THEN w[1] ELSE w[2]>>]
          ELSE f[<<t.child[w[1]]["before"], IF dir > 0 THEN w[1] ELSE w[2]>>]
    OBVIOUS
  <2>. HIDE DEF Stop, next, value
  <2>2. f = [w \in S |-> IF w \in Stop THEN value[w] ELSE f[next[w]]]
    BY <1>2 DEF Looped
  <2>. QED BY <2>1, <2>2, ZenonT(40) DEF BestOf
<1>. QED BY <1>3

\* Node x is on the side of key k that the search is after.
Sought(k, dir, x) == (dir < 0 /\ aKey(x) < k) \/ (dir > 0 /\ aKey(x) > k)

\* s is what the search finds among nodes S: k's node, else the nearest on the
\* side that it is after, else b.
Finds(S, k, dir, b, s) ==
    /\ \/ s \in S /\ (aKey(s) = k \/ Sought(k, dir, s))
       \/ s = b /\ \A x \in S : aKey(x) # k /\ ~Sought(k, dir, x)
    /\ \A x \in S : aKey(x) = k => s = x
    /\ \A x \in S : Sought(k, dir, x) =>
          s \in S /\ (s = x \/ aKey(s) = k \/ (dir < 0 /\ aKey(x) < aKey(s))
                                           \/ (dir > 0 /\ aKey(x) > aKey(s)))

\* One turn of the search: with c's subtree below n on side e, where k is too.
LEMMA FindsAbove ==
  ASSUME NEW k \in Nat, NEW dir \in Int, NEW S, NEW n, NEW C, NEW O, NEW e \in Side,
         S = {n} \cup C \cup O, \A x \in S : aKey(x) \in Nat,
         \A x \in C : OnSide(e, aKey(x), aKey(n)),
         \A x \in O : OnSide(Other(e), aKey(x), aKey(n)),
         OnSide(e, k, aKey(n)), NEW b, NEW s,
         Finds(C, k, dir, IF Sought(k, dir, n) THEN n ELSE b, s)
  PROVE  Finds(S, k, dir, b, s)
<1>1. /\ \A x \in O : aKey(x) # k /\ aKey(x) \in Nat
      /\ aKey(n) # k /\ aKey(n) \in Nat
      /\ \A x \in C : aKey(x) \in Nat
  BY SideFacts DEF OnSide
<1>2. \A x \in O : Sought(k, dir, x) => Sought(k, dir, n)
  BY <1>1, SideFacts DEF OnSide, Sought
<1>3. \A x \in C, y \in O \cup {n} : Sought(k, dir, x) /\ Sought(k, dir, y) =>
         (dir < 0 /\ aKey(y) < aKey(x)) \/ (dir > 0 /\ aKey(y) > aKey(x))
  BY <1>1, SideFacts DEF OnSide, Sought
<1>4. \A x \in O : Sought(k, dir, x) => (dir < 0 /\ aKey(x) < aKey(n)) \/ (dir > 0 /\ aKey(x) > aKey(n))
  BY <1>1, SideFacts DEF OnSide, Sought
<1>5. CASE s \in C /\ (aKey(s) = k \/ Sought(k, dir, s))
  <2>1. \A x \in S : aKey(x) = k => s = x
    BY <1>1, <1>5 DEF Finds
  <2>2. \A x \in S : Sought(k, dir, x) =>
          s \in S /\ (s = x \/ aKey(s) = k \/ (dir < 0 /\ aKey(x) < aKey(s))
                                           \/ (dir > 0 /\ aKey(x) > aKey(s)))
    BY <1>1, <1>3, <1>5 DEF Finds
  <2>. QED BY <1>5, <2>1, <2>2 DEF Finds
<1>6. CASE s = (IF Sought(k, dir, n) THEN n ELSE b) /\ \A x \in C : aKey(x) # k /\ ~Sought(k, dir, x)
  <2>1. CASE Sought(k, dir, n)
    <3>1. s = n
      BY <1>6, <2>1
    <3>. QED BY <3>1, <2>1, <1>1, <1>4, <1>6 DEF Finds
  <2>2. CASE ~Sought(k, dir, n)
    <3>1. s = b /\ \A x \in S : aKey(x) # k /\ ~Sought(k, dir, x)
      BY <1>6, <2>2, <1>1, <1>2
    <3>. QED BY <3>1 DEF Finds
  <2>. QED BY <2>1, <2>2
<1>. QED BY <1>5, <1>6 DEF Finds

\* The search of kvmemSeek finds the nearest node in the direction sought.
LEMMA BestFacts ==
  ASSUME NEW t \in Trees, NEW T, NEW sub, Shape(t, T, sub), NEW k \in Nat, NEW dir \in Int
  PROVE  Finds(T, k, dir, Null, Best(t, k, dir))
<1>. DEFINE to == CHOOSE f : BestOf(t, k, dir, f)
<1>1. BestOf(t, k, dir, to)
  BY BestExists
<1>2. Best(t, k, dir) = to[<<t.pRoot, Null>>]
  BY DEF Best, BestOf
<1>. HIDE DEF to
<1>3. /\ T \subseteq Address /\ Null \notin T /\ Null \in Pointer /\ T \subseteq Pointer
      /\ \A m \in T : aKey(m) \in Nat /\ m \in sub[m] /\ sub[m] \subseteq T
      /\ t.pRoot \in T \cup {Null} /\ T = Below(sub, t.pRoot)
  <2>1. t.pRoot \in T \cup {Null} /\ T = Below(sub, t.pRoot)
    BY DEF Shape
  <2>. QED BY <2>1, ShapeParts DEF Pointer
<1>4. \A p, q \in Pointer : to[<<p, q>>] =
          IF p = Null THEN q
          ELSE IF k = aKey(p) THEN p
          ELSE IF k > aKey(p)
          THEN to[<<t.child[p]["after"], IF dir < 0 THEN p ELSE q>>]
          ELSE to[<<t.child[p]["before"], IF dir > 0 THEN p ELSE q>>]
  <2>1. \A w \in Pointer \X Pointer : to[w] =
          IF w[1] = Null THEN w[2]
          ELSE IF k = aKey(w[1]) THEN w[1]
          ELSE IF k > aKey(w[1])
          THEN to[<<t.child[w[1]]["after"], IF dir < 0 THEN w[1] ELSE w[2]>>]
          ELSE to[<<t.child[w[1]]["before"], IF dir > 0 THEN w[1] ELSE w[2]>>]
    BY <1>1, Zenon DEF BestOf
  <2>. SUFFICES ASSUME NEW p \in Pointer, NEW q \in Pointer
                PROVE  to[<<p, q>>] =
                         IF p = Null THEN q
                         ELSE IF k = aKey(p) THEN p
                         ELSE IF k > aKey(p)
                         THEN to[<<t.child[p]["after"], IF dir < 0 THEN p ELSE q>>]
                         ELSE to[<<t.child[p]["before"], IF dir > 0 THEN p ELSE q>>]
    BY Zenon
  <2>. DEFINE w == <<p, q>>
  <2>2. w \in Pointer \X Pointer /\ w[1] = p /\ w[2] = q
    OBVIOUS
  <2>. HIDE DEF w
  <2>3. to[w] = IF w[1] = Null THEN w[2]
          ELSE IF k = aKey(w[1]) THEN w[1]
          ELSE IF k > aKey(w[1])
          THEN to[<<t.child[w[1]]["after"], IF dir < 0 THEN w[1] ELSE w[2]>>]
          ELSE to[<<t.child[w[1]]["before"], IF dir > 0 THEN w[1] ELSE w[2]>>]
    BY <2>1, <2>2
  <2>4. to[w] = IF p = Null THEN q
                ELSE IF k = aKey(p) THEN p
                ELSE IF k > aKey(p)
                THEN to[<<t.child[p]["after"], IF dir < 0 THEN p ELSE q>>]
                ELSE to[<<t.child[p]["before"], IF dir > 0 THEN p ELSE q>>]
    BY <2>2, <2>3, Zenon
  <2>. QED BY <2>4 DEF w
<1>. DEFINE A == {n \in T : \A b \in Pointer : Finds(sub[n], k, dir, b, to[<<n, b>>])}
<1>5. \A b \in Pointer : Finds({}, k, dir, b, to[<<Null, b>>])
  BY <1>3, <1>4 DEF Finds
<1>6. ASSUME NEW n \in T, \A d \in Side : t.child[n][d] # Null => t.child[n][d] \in A
      PROVE  n \in A
  <2>. SUFFICES ASSUME NEW b \in Pointer PROVE Finds(sub[n], k, dir, b, to[<<n, b>>])
    OBVIOUS
  <2>0. aKey(n) \in Nat /\ n # Null /\ n \in Pointer /\ n \in sub[n] /\ \A x \in sub[n] : x \in T /\ aKey(x) \in Nat
    BY <1>3
  <2>1. CASE k = aKey(n)
    <3>1. to[<<n, b>>] = n
      BY <2>0, <2>1, <1>4
    <3>2. \A x \in sub[n] : aKey(x) = k => n = x
      BY <2>0, <2>1, KeysDiffer
    <3>. QED BY <2>0, <2>1, <3>1, <3>2 DEF Finds
  <2>2. CASE k # aKey(n)
    <3>. DEFINE e == IF k > aKey(n) THEN "after" ELSE "before"
                c == t.child[n][e]
                b2 == IF Sought(k, dir, n) THEN n ELSE b
                s == to[<<c, b2>>]
                C == Below(sub, c)
                O == Below(sub, t.child[n][Other(e)])
    <3>1. e \in Side /\ OnSide(e, k, aKey(n))
      BY <2>0, <2>2, SideFacts DEF OnSide
    <3>2. to[<<n, b>>] = s
      <4>1. CASE k > aKey(n)
        <5>1. b2 = IF dir < 0 THEN n ELSE b
          BY <4>1, <2>0 DEF Sought
        <5>. HIDE DEF b2
        <5>. QED BY <4>1, <5>1, <2>0, <2>2, <1>4
      <4>2. CASE ~(k > aKey(n))
        <5>1. b2 = IF dir > 0 THEN n ELSE b
          BY <4>2, <2>0, <2>2 DEF Sought
        <5>. HIDE DEF b2
        <5>. QED BY <4>2, <5>1, <2>0, <2>2, <1>4
      <4>. QED BY <4>1, <4>2
    <3>3. b2 \in Pointer
      BY <2>0
    <3>. HIDE DEF b2, e
    <3>4. Finds(C, k, dir, b2, s)
      <4>1. CASE c = Null
        BY <4>1, <3>3, <1>5 DEF Below
      <4>2. CASE c # Null
        BY <4>2, <3>1, <3>3, <1>6 DEF Below
      <4>. QED BY <4>1, <4>2
    <3>5. sub[n] = {n} \cup C \cup O
      <4>1. Kid(t, T, sub, n, e)
        BY <3>1, KidFacts
      <4>. QED BY <4>1 DEF Kid
    <3>6. /\ \A x \in C : OnSide(e, aKey(x), aKey(n))
          /\ \A x \in O : OnSide(Other(e), aKey(x), aKey(n))
      BY <3>1, SideFacts DEF Shape
    <3>. HIDE DEF C, O, s, c
    <3>7. Finds(C, k, dir, IF Sought(k, dir, n) THEN n ELSE b, s)
      BY <3>4 DEF b2
    <3>8. Finds(sub[n], k, dir, b, s)
      BY <3>1, <3>5, <3>6, <3>7, <2>0, FindsAbove
    <3>. QED BY <3>2, <3>8
  <2>. QED BY <2>1, <2>2
<1>7. T \subseteq A
  <2>. HIDE DEF A
  <2>. QED BY <1>6, TreeInduction
<1>8. Finds(T, k, dir, Null, to[<<t.pRoot, Null>>])
  <2>1. CASE t.pRoot = Null
    BY <2>1, <1>3, <1>5 DEF Below
  <2>2. CASE t.pRoot # Null
    BY <2>2, <1>3, <1>7 DEF Below
  <2>. QED BY <2>1, <2>2
<1>. QED BY <1>2, <1>8

\* s is the one of S that is nearest in direction d.
LEMMA NearestIs ==
  ASSUME NEW S, NEW s \in S, NEW dir \in Int,
         \A m \in S : aKey(m) \in Nat,
         \A m \in S : m = s \/ (dir > 0 /\ aKey(m) > aKey(s)) \/ (dir <= 0 /\ aKey(m) < aKey(s))
  PROVE  Nearest(S, dir) = s
<1>. DEFINE P(n) == \A m \in S : IF dir > 0 THEN aKey(n) <= aKey(m) ELSE aKey(n) >= aKey(m)
<1>1. P(s)
  OBVIOUS
<1>2. \A n \in S : P(n) => n = s
  OBVIOUS
<1>3. Nearest(S, dir) = CHOOSE n \in S : P(n)
  BY DEF Nearest
<1>. HIDE DEF P
<1>. QED BY <1>1, <1>2, <1>3

\* xNext and xPrev.
LEMMA RowIsNeighbour ==
  ASSUME heap.tree \in Trees, NEW T, NEW sub, Shape(heap.tree, T, sub), InTree(heap) = T,
         NEW n \in T, NEW d \in Side, NEW s, NextRow(heap, T, n, d, s)
  PROVE  s = Neighbour(aKey(n), d)
<1>. DEFINE S == {m \in Live(heap) : OnSide(d, aKey(m), aKey(n))}
            dir == IF d = "after" THEN 1 ELSE -1
<1>1. Neighbour(aKey(n), d) = Nearest(S, dir)
  <2>1. CASE d = "after"
    <3>1. S = {m \in Live(heap) : aKey(m) > aKey(n)}
      BY <2>1 DEF OnSide
    <3>. HIDE DEF S
    <3>. QED BY <2>1, <3>1 DEF Neighbour
  <2>2. CASE d = "before"
    <3>1. S = {m \in Live(heap) : aKey(m) < aKey(n)}
      BY <2>2 DEF OnSide
    <3>. HIDE DEF S
    <3>. QED BY <2>2, <3>1 DEF Neighbour
  <2>. QED BY <2>1, <2>2, SideFacts
<1>2. \A m : m \in S <=> m \in T /\ heap.pData[m] # Null /\ OnSide(d, aKey(m), aKey(n))
  BY DEF Live
<1>3. \A m \in T : aKey(m) \in Nat
  BY ShapeParts
<1>4. CASE s = Null
  <2>1. S = {}
    BY <1>2, <1>4 DEF NextRow
  <2>. HIDE DEF S
  <2>. QED BY <1>1, <1>4, <2>1 DEF Nearest
<1>5. CASE s # Null
  <2>1. s \in S /\ \A m \in S : m = s \/ OnSide(d, aKey(m), aKey(s))
    BY <1>2, <1>5 DEF NextRow
  <2>2. dir \in Int /\ \A m \in S : m = s \/ (dir > 0 /\ aKey(m) > aKey(s)) \/ (dir <= 0 /\ aKey(m) < aKey(s))
    BY <2>1, SideFacts DEF OnSide
  <2>3. \A m \in S : aKey(m) \in Nat
    BY <1>2, <1>3
  <2>. HIDE DEF S, dir
  <2>. QED BY <1>1, <2>1, <2>2, <2>3, NearestIs
<1>. QED BY <1>4, <1>5

\* What SeekFindsNearest says of one search.
SeekSound(k, dir) ==
    LET S == {n \in Live(heap) :
                aKey(n) = k \/ (aKey(n) > k /\ dir > 0)
                            \/ (aKey(n) < k /\ dir < 0)}
        n == SeekNode(heap, k, dir)
    IN /\ SeekResult(heap, k, dir) =
            IF S = {} THEN "NOTFOUND"
            ELSE IF \E m \in S : aKey(m) = k THEN "OK" ELSE "INEXACT"
       /\ S # {} => n = Nearest(S, IF dir = 0 THEN 1 ELSE dir)
       /\ S = {} /\ dir # 0 => n = Null

\* xSeek.
LEMMA SeekIsNearest ==
  ASSUME heap.tree \in Trees, NEW T, NEW sub, Shape(heap.tree, T, sub), InTree(heap) = T,
         \A m \in T : Allocated(heap, m), NEW k \in Key, NEW dir \in -1..1
  PROVE  SeekSound(k, dir)
<1>. DEFINE S == {n \in Live(heap) :
                    aKey(n) = k \/ (aKey(n) > k /\ dir > 0)
                                \/ (aKey(n) < k /\ dir < 0)}
            n == SeekNode(heap, k, dir)
            res == SeekResult(heap, k, dir)
            best == Best(heap.tree, k, dir)
            d == IF dir > 0 THEN "after" ELSE "before"
            go == IF dir = 0 THEN 1 ELSE dir
<1>1. k \in Nat /\ dir \in Int /\ (dir = -1 \/ dir = 0 \/ dir = 1) /\ d \in Side
  BY KVMemTreeAssumption, SideFacts
<1>2. Finds(T, k, dir, Null, best)
  BY <1>1, BestFacts
<1>3. \A m : m \in S <=> m \in T /\ heap.pData[m] # Null /\ (aKey(m) = k \/ Sought(k, dir, m))
  BY DEF Live, Sought
<1>4. n = IF best = Null \/ heap.pData[best] # Null \/ dir = 0 THEN best
          ELSE StepEntry(heap, best, d)
  BY DEF SeekNode
<1>5. res = IF n = Null \/ heap.pData[n] = Null THEN "NOTFOUND"
            ELSE IF aKey(n) = k THEN "OK" ELSE "INEXACT"
  BY DEF SeekResult
<1>6. /\ T \subseteq Address /\ Null \notin T
      /\ \A m \in T : aKey(m) \in Nat
      /\ \A x, y \in T : aKey(x) = aKey(y) => x = y
  BY ShapeParts, KeysDiffer
<1>. HIDE DEF S, n, res, best
<1>. DEFINE Goal == /\ res = (IF S = {} THEN "NOTFOUND"
                              ELSE IF \E m \in S : aKey(m) = k THEN "OK" ELSE "INEXACT")
                    /\ S # {} => n = Nearest(S, go)
                    /\ S = {} /\ dir # 0 => n = Null
<1>. SUFFICES Goal
  BY DEF SeekSound, S, n, res
<1>. HIDE DEF Goal
<1>7. go \in Int /\ (go > 0 <=> dir >= 0)
  BY <1>1
<1>8. ASSUME n \in S,
             \A m \in S : m = n \/ (dir >= 0 /\ aKey(m) > aKey(n)) \/ (dir < 0 /\ aKey(m) < aKey(n)),
             (\E m \in S : aKey(m) = k) => aKey(n) = k
      PROVE  Goal
  <2>1. n # Null /\ heap.pData[n] # Null /\ n \in T
    BY <1>3, <1>6, <1>8
  <2>2. Nearest(S, go) = n
    <3>1. \A m \in S : aKey(m) \in Nat
      BY <1>3, <1>6
    <3>. HIDE DEF go
    <3>2. \A m \in S : m = n \/ (go > 0 /\ aKey(m) > aKey(n)) \/ (go <= 0 /\ aKey(m) < aKey(n))
      BY <1>1, <1>7, <1>8
    <3>. QED BY <1>7, <1>8, <3>1, <3>2, NearestIs
  <2>3. res = IF aKey(n) = k THEN "OK" ELSE "INEXACT"
    BY <1>5, <2>1
  <2>4. S # {}
    BY <1>8
  <2>. QED BY <2>2, <2>3, <2>4, <1>8 DEF Goal
<1>9. ASSUME S = {}, n = Null \/ heap.pData[n] = Null, dir # 0 => n = Null PROVE Goal
  BY <1>5, <1>9 DEF Goal
<1>10. CASE best = Null
  <2>1. n = Null
    BY <1>4, <1>10
  <2>2. S = {}
    BY <1>2, <1>3, <1>6, <1>10 DEF Finds
  <2>. QED BY <2>1, <2>2, <1>9
<1>11. CASE best # Null /\ heap.pData[best] # Null
  <2>1. n = best
    BY <1>4, <1>11
  <2>2. n \in S
    BY <2>1, <1>2, <1>3, <1>11 DEF Finds
  <2>3. (\E m \in S : aKey(m) = k) => aKey(n) = k
    BY <2>1, <1>2, <1>3 DEF Finds
  <2>4. ASSUME NEW m \in S
        PROVE  m = n \/ (dir >= 0 /\ aKey(m) > aKey(n)) \/ (dir < 0 /\ aKey(m) < aKey(n))
    <3>1. CASE aKey(m) = k
      BY <2>1, <3>1, <1>2, <1>3 DEF Finds
    <3>2. CASE Sought(k, dir, m)
      <4>1. m = n \/ aKey(n) = k \/ (dir < 0 /\ aKey(m) < aKey(n)) \/ (dir > 0 /\ aKey(m) > aKey(n))
        BY <2>1, <3>2, <1>2, <1>3 DEF Finds
      <4>2. aKey(n) = k => (dir < 0 /\ aKey(m) < aKey(n)) \/ (dir > 0 /\ aKey(m) > aKey(n))
        BY <3>2 DEF Sought
      <4>. QED BY <4>1, <4>2, <1>1
    <3>. QED BY <3>1, <3>2, <1>3
  <2>. QED BY <2>2, <2>3, <2>4, <1>8
<1>12. CASE best # Null /\ heap.pData[best] = Null /\ dir = 0
  <2>1. n = best
    BY <1>4, <1>12
  <2>2. S = {}
    <3>1. \A m \in T : ~Sought(k, dir, m)
      BY <1>12 DEF Sought
    <3>. QED BY <3>1, <1>2, <1>3, <1>12 DEF Finds
  <2>. QED BY <2>1, <2>2, <1>9, <1>12
<1>13. CASE best # Null /\ heap.pData[best] = Null /\ dir # 0
  <2>1. n = StepEntry(heap, best, d)
    BY <1>4, <1>13
  <2>2. best \in T /\ (aKey(best) = k \/ Sought(k, dir, best))
    BY <1>2, <1>13 DEF Finds
  <2>. HIDE DEF d
  <2>3. NextRow(heap, T, best, d, n)
    BY <2>1, <2>2, <1>1, StepEntryFacts
  <2>4. \A i, j \in Nat : OnSide(d, i, j) <=> IF dir > 0 THEN i > j ELSE i < j
    BY <1>1 DEF OnSide, d
  <2>5. \A m \in S : OnSide(d, aKey(m), aKey(best))
    <3>. SUFFICES ASSUME NEW m \in S PROVE OnSide(d, aKey(m), aKey(best))
      OBVIOUS
    <3>1. m \in T /\ m # best /\ (aKey(m) = k \/ Sought(k, dir, m))
      BY <1>3, <1>13
    <3>2. aKey(m) # k /\ Sought(k, dir, m)
      BY <3>1, <1>2 DEF Finds
    <3>3. aKey(best) = k \/ (dir < 0 /\ aKey(m) < aKey(best)) \/ (dir > 0 /\ aKey(m) > aKey(best))
      BY <3>1, <3>2, <1>2 DEF Finds
    <3>4. aKey(m) \in Nat /\ aKey(best) \in Nat
      BY <3>1, <2>2, <1>6
    <3>. QED BY <3>2, <3>3, <3>4, <2>4, <1>1, <1>13 DEF Sought
  <2>6. CASE n = Null
    <3>1. S = {}
      BY <2>3, <2>5, <2>6, <1>3 DEF NextRow
    <3>. QED BY <3>1, <2>6, <1>9
  <2>7. CASE n # Null
    <3>1. n \in T /\ OnSide(d, aKey(n), aKey(best)) /\ heap.pData[n] # Null
      BY <2>3, <2>7 DEF NextRow
    <3>2. Sought(k, dir, n) /\ aKey(n) # k
      <4>1. aKey(n) \in Nat /\ aKey(best) \in Nat
        BY <3>1, <2>2, <1>6
      <4>. QED BY <4>1, <3>1, <2>2, <2>4, <1>1, <1>13 DEF Sought
    <3>3. n \in S
      BY <3>1, <3>2, <1>3
    <3>4. \A m \in S : m = n \/ OnSide(d, aKey(m), aKey(n))
      BY <2>3, <2>5, <1>3 DEF NextRow
    <3>5. \A m \in S : m = n \/ (dir >= 0 /\ aKey(m) > aKey(n)) \/ (dir < 0 /\ aKey(m) < aKey(n))
      <4>1. \A m \in S : aKey(m) \in Nat
        BY <1>3, <1>6
      <4>. QED BY <4>1, <3>3, <3>4, <2>4, <1>1, <1>13
    <3>6. ~\E m \in S : aKey(m) = k
      <4>1. ASSUME NEW m \in S, aKey(m) = k PROVE FALSE
        <5>1. m \in T /\ m = best
          BY <4>1, <1>2, <1>3 DEF Finds
        <5>. QED BY <5>1, <4>1, <1>3, <1>13
      <4>. QED BY <4>1
    <3>. QED BY <3>3, <3>5, <3>6, <1>8
  <2>. QED BY <2>6, <2>7
<1>. QED BY <1>10, <1>11, <1>12, <1>13

\* Cursors find every row of a sound heap.
LEMMA SoundHeapFinds ==
  ASSUME NEW T, Sound(heap.tree, T), \A m \in T : Allocated(heap, m)
  PROVE  CursorsFindRows
<1>1. PICK sub, G : Shape(heap.tree, T, sub) /\ AlmostBalanced(heap.tree, T, sub, G, Null)
  BY DEF Sound
<1>2. heap.tree \in Trees /\ InTree(heap) = T
  BY SoundNodes DEF Sound, InTree
<1>3. SeekFindsNearest
  <2>1. \A k \in Key, dir \in -1..1 : SeekSound(k, dir)
    BY <1>1, <1>2, SeekIsNearest, Zenon
  <2>. QED BY <2>1 DEF SeekFindsNearest, SeekSound
<1>4. ASSUME NEW n \in T, NEW d \in Side
      PROVE  StepEntry(heap, n, d) = Neighbour(aKey(n), d)
  <2>1. NextRow(heap, T, n, d, StepEntry(heap, n, d))
    BY <1>1, <1>2, <1>4, StepEntryFacts
  <2>. QED BY <2>1, <1>1, <1>2, <1>4, RowIsNeighbour
<1>. QED BY <1>2, <1>3, <1>4 DEF CursorsFindRows, ScanVisitsNeighbour

\* The larger of two heights.
LEMMA MaxOfTwo ==
  ASSUME NEW a \in Nat, NEW b \in Nat
  PROVE  1 + Max({a, b}) = Higher(a, b) + 1
<1>1. \E x \in {a, b} : \A y \in {a, b} : x >= y
  <2>1. a >= b \/ b >= a
    OBVIOUS
  <2>. QED BY <2>1
<1>2. Max({a, b}) \in {a, b} /\ \A y \in {a, b} : Max({a, b}) >= y
  BY <1>1 DEF Max
<1>. DEFINE m == Max({a, b})
<1>3. m \in {a, b} /\ m >= a /\ m >= b
  BY <1>2
<1>. HIDE DEF m
<1>4. 1 + m = Higher(a, b) + 1
  BY <1>3 DEF Higher
<1>. QED BY <1>4 DEF m

\* What TreeSound says of a node.
NodeSound(t, n) ==
    /\ \A d \in Side : t.child[n][d] # Null => t.up[t.child[n][d]] = n
    /\ \A m \in Subtree(t, t.child[n]["before"]) : aKey(m) < aKey(n)
    /\ \A m \in Subtree(t, t.child[n]["after"]) : aKey(m) > aKey(n)
    /\ t.height[n] = 1 + Max({Height(t, t.child[n]["before"]), Height(t, t.child[n]["after"])})
    /\ t.imbalance[n] = Height(t, t.child[n]["before"]) - Height(t, t.child[n]["after"])
    /\ t.imbalance[n] \in -1..1

-----------------------------------------------------------------------------
(* The property TreeSound.                                                 *)

\* A sound tree is what the property TreeSound says.
LEMMA SoundIsTreeSound ==
  ASSUME NEW T, Sound(heap.tree, T)
  PROVE  TreeSound
<1>. DEFINE t == heap.tree
<1>1. PICK sub, G : Shape(t, T, sub) /\ AlmostBalanced(t, T, sub, G, Null)
  BY DEF Sound
<1>2. t \in Trees
  BY DEF Sound
<1>3. InTree(heap) = T /\ Null \notin T
  BY SoundNodes DEF InTree
<1>4. t.pRoot # Null => t.up[t.pRoot] = Null
  BY <1>1 DEF Shape
<1>5. ASSUME NEW n \in T PROVE NodeSound(t, n)
  <2>. HIDE DEF t
  <2>. DEFINE b == t.child[n]["before"]
              a == t.child[n]["after"]
  <2>1. "before" \in Side /\ "after" \in Side
    BY SideFacts
  <2>2. \A d \in Side : t.child[n][d] # Null => t.up[t.child[n][d]] = n
    BY <1>1 DEF Shape
  <2>3. Subtree(t, b) = Below(sub, b) /\ Subtree(t, a) = Below(sub, a)
    BY <1>1, <1>2, <2>1, SubtreeFacts
  <2>4. \A d \in Side : \A m \in Below(sub, t.child[n][d]) : OnSide(d, aKey(m), aKey(n))
    BY <1>1 DEF Shape
  <2>5. \A m \in Subtree(t, b) : aKey(m) < aKey(n)
    BY <2>1, <2>3, <2>4 DEF OnSide
  <2>6. \A m \in Subtree(t, a) : aKey(m) > aKey(n)
    BY <2>1, <2>3, <2>4, SideFacts DEF OnSide
  <2>7. \A m \in T : Null \notin sub[m]
    BY <1>1, <1>3 DEF Shape
  <2>8. \A m \in T : t.height[m] = G[m] /\ t.imbalance[m] = Diff(G, t, m)
    BY <1>1, <2>7 DEF AlmostBalanced
  <2>9. \A m \in T : G[m] = Tall(G, t, m) /\ Diff(G, t, m) \in -1..1
    BY <1>1, <1>3 DEF AlmostBalanced
  <2>10. a \in T \cup {Null} /\ b \in T \cup {Null} /\ G \in [T -> Nat]
    BY <1>1, <2>1 DEF Shape, AlmostBalanced
  <2>11. \A q \in T \cup {Null} : Height(t, q) = High(G, q)
    BY <2>8 DEF Height, High
  <2>12. High(G, a) \in Nat /\ High(G, b) \in Nat
    BY <2>10, <1>3 DEF High
  <2>13. t.height[n] = Higher(High(G, b), High(G, a)) + 1 /\ t.imbalance[n] = High(G, b) - High(G, a)
    BY <2>8, <2>9 DEF Tall, Diff
  <2>14. t.imbalance[n] \in -1..1
    BY <2>8, <2>9
  <2>15. Height(t, b) = High(G, b) /\ Height(t, a) = High(G, a)
    BY <2>10, <2>11
  <2>16. t.height[n] = 1 + Max({Height(t, b), Height(t, a)})
    <3>. HIDE DEF a, b
    <3>. QED BY <2>12, <2>13, <2>15, MaxOfTwo
  <2>17. t.imbalance[n] = Height(t, b) - Height(t, a)
    BY <2>13, <2>15
  <2>. QED BY <2>2, <2>5, <2>6, <2>14, <2>16, <2>17 DEF NodeSound
<1>. HIDE DEF t
<1>6. TreeSound <=> (t.pRoot # Null => t.up[t.pRoot] = Null) /\ \A n \in InTree(heap) : NodeSound(t, n)
  BY Zenon DEF TreeSound, NodeSound, t
<1>. QED BY <1>3, <1>4, <1>5, <1>6

-----------------------------------------------------------------------------
(* Counting references.                                                    *)

One(b) == IF b THEN 1 ELSE 0

\* At how many places of S the function f has the value v.
Count(f, S, v) == Cardinality({x \in S : f[x] = v})

Elsewhere(f, S, x, v) == Cardinality({y \in S \ {x} : f[y] = v})

\* A count without one of the places.
LEMMA CountSplit ==
  ASSUME NEW S, IsFiniteSet(S), NEW x \in S, NEW f, NEW v
  PROVE  /\ Count(f, S, v) \in Nat
         /\ Count(f, S, v) = Elsewhere(f, S, x, v) + One(f[x] = v)
         /\ Elsewhere(f, S, x, v) \in Nat
<1>. DEFINE R == {y \in S \ {x} : f[y] = v}
            A == {y \in S : f[y] = v}
<1>1. IsFiniteSet(R) /\ IsFiniteSet(A)
  <2>1. R \in SUBSET S /\ A \in SUBSET S
    OBVIOUS
  <2>. HIDE DEF R, A
  <2>. QED BY <2>1, FS_Subset
<1>2. Cardinality(R) \in Nat /\ Cardinality(A) \in Nat
  BY <1>1, FS_CardinalityType
<1>3. x \notin R
  OBVIOUS
<1>4. CASE f[x] = v
  <2>1. A = R \cup {x}
    BY <1>4
  <2>. HIDE DEF R, A
  <2>2. Cardinality(A) = Cardinality(R) + 1
    BY <2>1, <1>1, <1>3, FS_AddElement
  <2>. QED BY <2>2, <1>2, <1>4 DEF One, Count, Elsewhere, A, R
<1>5. CASE f[x] # v
  <2>1. A = R
    BY <1>5
  <2>2. Count(f, S, v) = Cardinality(R)
    BY <2>1 DEF Count
  <2>. HIDE DEF R, A
  <2>3. Cardinality(R) = Cardinality(R) + One(f[x] = v)
    BY <1>2, <1>5 DEF One
  <2>. QED BY <2>2, <2>3, <1>2 DEF R, Elsewhere
<1>. QED BY <1>4, <1>5

\* A count is a number.
LEMMA CountType ==
  ASSUME NEW S, IsFiniteSet(S), NEW f, NEW v
  PROVE  Count(f, S, v) \in Nat
<1>1. {x \in S : f[x] = v} \in SUBSET S
  OBVIOUS
<1>. QED BY <1>1, FS_Subset, FS_CardinalityType DEF Count

\* One place changes.
LEMMA CountPut ==
  ASSUME NEW S, IsFiniteSet(S), NEW x \in S, NEW f, NEW g, NEW v,
         \A y \in S : y # x => g[y] = f[y]
  PROVE  Count(g, S, v) = Count(f, S, v) - One(f[x] = v) + One(g[x] = v)
<1>1. Elsewhere(f, S, x, v) = Elsewhere(g, S, x, v)
  <2>1. {y \in S \ {x} : f[y] = v} = {y \in S \ {x} : g[y] = v}
    OBVIOUS
  <2>. QED BY <2>1 DEF Elsewhere
<1>2. Count(f, S, v) = Elsewhere(f, S, x, v) + One(f[x] = v) /\ Elsewhere(f, S, x, v) \in Nat
  BY CountSplit
<1>3. Count(g, S, v) = Elsewhere(g, S, x, v) + One(g[x] = v)
  BY CountSplit
<1>4. One(f[x] = v) \in Nat /\ One(g[x] = v) \in Nat
  BY DEF One
<1>. QED BY <1>1, <1>2, <1>3, <1>4

\* Equal functions have equal counts.
LEMMA CountSame ==
  ASSUME NEW S, NEW f, NEW g, NEW v, \A y \in S : (g[y] = v) = (f[y] = v)
  PROVE  Count(g, S, v) = Count(f, S, v)
<1>1. {y \in S : f[y] = v} = {y \in S : g[y] = v}
  OBVIOUS
<1>. QED BY <1>1 DEF Count

\* A value that does not occur.
LEMMA CountNone ==
  ASSUME NEW S, NEW f, NEW v, \A y \in S : f[y] # v
  PROVE  Count(f, S, v) = 0
<1>1. {y \in S : f[y] = v} = {}
  OBVIOUS
<1>. QED BY <1>1, FS_EmptySet DEF Count

-----------------------------------------------------------------------------
(* Change records.                                                         *)

\* The change records.
Record == [node : Address, pData : Pointer, oldTrans : Nat]

\* How many records of the list s hold the payload d, from place i on.
TallyFrom(s, i, d) == Cardinality({j \in i..Len(s) : s[j].pData = d})
Tally(s, d) == Cardinality({j \in DOMAIN s : s[j].pData = d})

TallyParts(s, d) ==
         /\ Tally(s, d) \in Nat
         /\ Tally(s, d) = TallyFrom(s, 1, d)
         /\ TallyFrom(s, Len(s) + 1, d) = 0
         /\ \A i \in 1..Len(s) : /\ TallyFrom(s, i, d) = One(s[i].pData = d) + TallyFrom(s, i + 1, d)
                                 /\ TallyFrom(s, i + 1, d) \in Nat
         /\ \A i \in 1..Len(s) : s[i] \in Record

\* A tally, record by record.
LEMMA TallyFacts ==
  ASSUME NEW s \in Seq(Record), NEW d
  PROVE  TallyParts(s, d)
<1>1. Len(s) \in Nat /\ DOMAIN s = 1..Len(s)
  OBVIOUS
<1>2. Tally(s, d) = TallyFrom(s, 1, d)
  BY <1>1 DEF Tally, TallyFrom
<1>3. IsFiniteSet(1..Len(s))
  BY <1>1, FS_Interval
<1>4. \A i \in Nat \ {0} : TallyFrom(s, i, d) \in Nat /\ IsFiniteSet({j \in i..Len(s) : s[j].pData = d})
  <2>. SUFFICES ASSUME NEW i \in Nat \ {0}
                PROVE  TallyFrom(s, i, d) \in Nat /\ IsFiniteSet({j \in i..Len(s) : s[j].pData = d})
    OBVIOUS
  <2>1. {j \in i..Len(s) : s[j].pData = d} \in SUBSET (1..Len(s))
    BY <1>1
  <2>. QED BY <2>1, <1>3, FS_Subset, FS_CardinalityType DEF TallyFrom
<1>5. TallyFrom(s, Len(s) + 1, d) = 0
  <2>1. {j \in (Len(s) + 1)..Len(s) : s[j].pData = d} = {}
    BY <1>1
  <2>. QED BY <2>1, FS_EmptySet DEF TallyFrom
<1>6. ASSUME NEW i \in 1..Len(s)
      PROVE  TallyFrom(s, i, d) = One(s[i].pData = d) + TallyFrom(s, i + 1, d)
  <2>. DEFINE R == {j \in (i + 1)..Len(s) : s[j].pData = d}
              A == {j \in i..Len(s) : s[j].pData = d}
  <2>1. i \in Nat \ {0} /\ i + 1 \in Nat \ {0} /\ i..Len(s) = {i} \cup ((i + 1)..Len(s)) /\ i \notin (i + 1)..Len(s)
    BY <1>1
  <2>2. IsFiniteSet(R) /\ Cardinality(R) \in Nat
    BY <1>4, <2>1 DEF TallyFrom
  <2>3. A = IF s[i].pData = d THEN R \cup {i} ELSE R
    BY <2>1
  <2>4. i \notin R
    BY <2>1
  <2>5. TallyFrom(s, i, d) = Cardinality(A) /\ TallyFrom(s, i + 1, d) = Cardinality(R)
    BY DEF TallyFrom
  <2>. HIDE DEF A, R
  <2>6. CASE s[i].pData = d
    <3>1. Cardinality(A) = Cardinality(R) + 1
      BY <2>2, <2>3, <2>4, <2>6, FS_AddElement
    <3>. QED BY <3>1, <2>2, <2>5, <2>6 DEF One
  <2>7. CASE s[i].pData # d
    BY <2>2, <2>3, <2>5, <2>7 DEF One
  <2>. QED BY <2>6, <2>7
<1>7. \A i \in 1..Len(s) : s[i] \in Record
  <2>1. s \in [1..Len(s) -> Record]
    OBVIOUS
  <2>. QED BY <2>1, Zenon
<1>8. Tally(s, d) \in Nat
  <2>1. 1 \in Nat \ {0}
    OBVIOUS
  <2>2. TallyFrom(s, 1, d) \in Nat
    BY <2>1, <1>4, Zenon
  <2>. QED BY <1>2, <2>2
<1>9. \A i \in 1..Len(s) : TallyFrom(s, i + 1, d) \in Nat
  <2>. SUFFICES ASSUME NEW i \in 1..Len(s) PROVE TallyFrom(s, i + 1, d) \in Nat
    OBVIOUS
  <2>1. i + 1 \in Nat \ {0}
    BY <1>1
  <2>. QED BY <2>1, <1>4, Zenon
<1>. QED BY <1>2, <1>5, <1>6, <1>7, <1>8, <1>9 DEF TallyParts

\* The empty list.
LEMMA TallyEmpty ==
  ASSUME NEW d
  PROVE  Tally(<<>>, d) = 0 /\ <<>> \in Seq(Record)
<1>1. {j \in DOMAIN <<>> : <<>>[j].pData = d} = {}
  OBVIOUS
<1>. QED BY <1>1, FS_EmptySet DEF Tally

\* Two lists one after the other.
LEMMA TallyConcat ==
  ASSUME NEW s \in Seq(Record), NEW t \in Seq(Record), NEW d
  PROVE  s \o t \in Seq(Record) /\ Tally(s \o t, d) = Tally(s, d) + Tally(t, d)
<1>. DEFINE n == Len(s)
            st == s \o t
            A == {i \in DOMAIN s : s[i].pData = d}
            C == {j \in DOMAIN t : t[j].pData = d}
            B == {j + n : j \in C}
            U == {i \in DOMAIN st : st[i].pData = d}
            f == [j \in C |-> j + n]
<1>1. /\ st \in Seq(Record) /\ Len(st) = n + Len(t)
      /\ \A i \in 1..(n + Len(t)) : st[i] = IF i <= n THEN s[i] ELSE t[i - n]
  BY ConcatProperties
<1>2. n \in Nat /\ Len(t) \in Nat /\ DOMAIN s = 1..n /\ DOMAIN t = 1..Len(t) /\ DOMAIN st = 1..(n + Len(t))
  BY <1>1
<1>. HIDE DEF st, n
<1>3. A \subseteq 1..n /\ C \subseteq 1..Len(t)
  BY <1>2
<1>4. U = A \cup B
  <2>1. ASSUME NEW i \in U PROVE i \in A \cup B
    <3>1. i \in 1..(n + Len(t)) /\ st[i].pData = d
      BY <1>2
    <3>2. CASE i <= n
      <4>1. i \in DOMAIN s /\ s[i].pData = d
        BY <3>1, <3>2, <1>1, <1>2
      <4>. QED BY <4>1
    <3>3. CASE i > n
      <4>1. i - n \in DOMAIN t /\ t[i - n].pData = d /\ i = (i - n) + n
        BY <3>1, <3>3, <1>1, <1>2
      <4>. QED BY <4>1
    <3>. QED BY <3>1, <3>2, <3>3, <1>2
  <2>2. ASSUME NEW i \in A PROVE i \in U
    <3>1. i \in 1..n /\ s[i].pData = d
      BY <1>2
    <3>. QED BY <3>1, <1>1, <1>2
  <2>3. ASSUME NEW j \in C PROVE j + n \in U
    <3>1. j \in 1..Len(t) /\ t[j].pData = d
      BY <1>2
    <3>2. j + n \in 1..(n + Len(t)) /\ ~(j + n <= n) /\ (j + n) - n = j
      BY <3>1, <1>2
    <3>. QED BY <3>1, <3>2, <1>1, <1>2
  <2>. QED BY <2>1, <2>2, <2>3
<1>5. A \cap B = {}
  BY <1>2, <1>3
<1>6. IsFiniteSet(A) /\ IsFiniteSet(C)
  <2>1. IsFiniteSet(1..n) /\ IsFiniteSet(1..Len(t))
    BY <1>2, FS_Interval
  <2>. QED BY <2>1, <1>3, FS_Subset
<1>7. IsFiniteSet(B) /\ Cardinality(B) = Cardinality(C)
  <2>1. f \in Bijection(C, B)
    <3>1. f \in [C -> B] /\ \A b \in B : \E j \in C : f[j] = b
      OBVIOUS
    <3>2. \A i, j \in C : f[i] = f[j] => i = j
      BY <1>2, <1>3
    <3>. QED BY <3>1, <3>2 DEF Bijection, Injection, Surjection, IsInjective
  <2>. HIDE DEF f, B, C
  <2>2. ExistsBijection(C, B)
    BY <2>1 DEF ExistsBijection
  <2>. QED BY <2>2, <1>6, FS_Bijection
<1>8. Cardinality(A \cup B) = Cardinality(A) + Cardinality(B)
  <2>. HIDE DEF A, B
  <2>1. Cardinality(A \cap B) = 0
    BY <1>5, FS_EmptySet
  <2>2. Cardinality(A) \in Nat /\ Cardinality(B) \in Nat
    BY <1>6, <1>7, FS_CardinalityType
  <2>3. IsFiniteSet(A) /\ IsFiniteSet(B)
    BY <1>6, <1>7
  <2>4. Cardinality(A \cup B) = Cardinality(A) + Cardinality(B) - Cardinality(A \cap B)
    BY <2>3, FS_Union, Zenon
  <2>. QED BY <2>1, <2>2, <2>4
<1>9. Tally(st, d) = Cardinality(U) /\ Tally(s, d) = Cardinality(A) /\ Tally(t, d) = Cardinality(C)
  BY DEF Tally
<1>. QED BY <1>1, <1>4, <1>7, <1>8, <1>9 DEF st

\* One record in front.
LEMMA TallyPush ==
  ASSUME NEW r \in Record, NEW s \in Seq(Record), NEW d
  PROVE  <<r>> \o s \in Seq(Record) /\ Tally(<<r>> \o s, d) = Tally(s, d) + One(r.pData = d)
<1>1. <<r>> \in Seq(Record) /\ Len(<<r>>) = 1 /\ <<r>>[1] = r
  OBVIOUS
<1>2. Tally(<<r>>, d) = One(r.pData = d)
  <2>. DEFINE q == <<r>>
  <2>1. q \in Seq(Record) /\ Len(q) = 1 /\ q[1] = r /\ 1 \in 1..Len(q)
    BY <1>1
  <2>. HIDE DEF q
  <2>a. /\ Tally(q, d) = TallyFrom(q, 1, d) /\ TallyFrom(q, Len(q) + 1, d) = 0
        /\ \A i \in 1..Len(q) : TallyFrom(q, i, d) = One(q[i].pData = d) + TallyFrom(q, i + 1, d)
    <3>1. TallyParts(q, d)
      BY <2>1, TallyFacts
    <3>. QED BY <3>1 DEF TallyParts
  <2>2. /\ Tally(q, d) = TallyFrom(q, 1, d) /\ TallyFrom(q, 1 + 1, d) = 0
        /\ TallyFrom(q, 1, d) = One(q[1].pData = d) + TallyFrom(q, 1 + 1, d)
    BY <2>a, <2>1
  <2>3. One(r.pData = d) \in Nat
    BY DEF One
  <2>4. Tally(q, d) = One(r.pData = d)
    BY <2>1, <2>2, <2>3
  <2>. QED BY <2>4 DEF q
<1>3. Tally(s, d) \in Nat /\ One(r.pData = d) \in Nat
  BY TallyFacts DEF One, TallyParts
<1>4. /\ <<r>> \o s \in Seq(Record)
      /\ Tally(<<r>> \o s, d) = Tally(<<r>>, d) + Tally(s, d)
  BY <1>1, TallyConcat, Zenon
<1>. QED BY <1>2, <1>3, <1>4

Lists == [WriteLevels -> Seq(Record)]

\* U is how LogsAbove builds its list.
BuiltBy(lists, l, U) ==
    /\ LogsAbove(lists, l) = U[MaxLevel]
    /\ \A m \in 0..MaxLevel : U[m] \in Seq(Record)
    /\ \A m \in 0..MaxLevel : U[m] = IF m <= l \/ m <= 1 THEN <<>> ELSE lists[m] \o U[m - 1]

\* The recursion of LogsAbove.
LEMMA LogsAboveBuilt ==
  ASSUME NEW lists \in Lists, NEW l \in Levels
  PROVE  \E U : BuiltBy(lists, l, U)
<1>. DEFINE N == MaxLevel
            R == (0..N) \X Seq(Record)
            next == [p \in R |-> IF p[1] + 1 <= l \/ p[1] + 1 <= 1 THEN <<>> ELSE lists[p[1] + 1] \o p[2]]
            Is(U) == U = [m \in 0..N |-> IF m <= l \/ m <= 1 THEN <<>> ELSE lists[m] \o U[m - 1]]
            V == CHOOSE U : Is(U)
<1>1. N \in Nat /\ N >= 2 /\ l \in 0..N /\ WriteLevels = 2..N
  BY AddressFacts DEF Levels, WriteLevels
<1>2. <<>> \in Seq(Record)
  BY TallyEmpty
<1>. HIDE DEF N
<1>3. <<0, <<>>>> \in R
  <2>1. 0 \in 0..N
    BY <1>1
  <2>. QED BY <2>1, <1>2, Zenon
<1>4. ASSUME NEW i \in 0..(N - 1), NEW x, <<i, x>> \in R
      PROVE  /\ <<i + 1, next[<<i, x>>]>> \in R
             /\ next[<<i, x>>] = IF i + 1 <= l \/ i + 1 <= 1 THEN <<>> ELSE lists[i + 1] \o x
  <2>1. x \in Seq(Record) /\ i + 1 \in 0..N
    BY <1>1, <1>4
  <2>2. next[<<i, x>>] = IF i + 1 <= l \/ i + 1 <= 1 THEN <<>> ELSE lists[i + 1] \o x
    BY <1>4
  <2>3. ~(i + 1 <= 1) => lists[i + 1] \in Seq(Record)
    <3>1. ~(i + 1 <= 1) => i + 1 \in WriteLevels
      BY <1>1, <2>1
    <3>. QED BY <3>1 DEF Lists
  <2>4. next[<<i, x>>] \in Seq(Record)
    <3>1. CASE i + 1 <= l \/ i + 1 <= 1
      BY <3>1, <2>2, <1>2
    <3>2. CASE ~(i + 1 <= l \/ i + 1 <= 1)
      <4>1. lists[i + 1] \o x \in Seq(Record)
        BY <3>2, <2>1, <2>3, TallyConcat
      <4>2. next[<<i, x>>] = lists[i + 1] \o x
        BY <3>2, <2>2
      <4>. HIDE DEF next
      <4>. QED BY <4>1, <4>2
    <3>. QED BY <3>1, <3>2
  <2>. HIDE DEF next
  <2>. QED BY <2>1, <2>2, <2>4
<1>. HIDE DEF R, next
<1>5. PICK f : Iterated(f, N, <<>>, next, R)
  BY <1>1, <1>3, <1>4, Iteration
<1>6. /\ f = [i \in 0..N |-> IF i = 0 THEN <<>> ELSE next[<<i - 1, f[i - 1]>>]]
      /\ \A i \in 0..N : <<i, f[i]>> \in R
  BY <1>5 DEF Iterated
<1>7. \A m \in 0..N : f[m] = IF m <= l \/ m <= 1 THEN <<>> ELSE lists[m] \o f[m - 1]
  <2>. SUFFICES ASSUME NEW m \in 0..N
                PROVE  f[m] = IF m <= l \/ m <= 1 THEN <<>> ELSE lists[m] \o f[m - 1]
    OBVIOUS
  <2>1. CASE m = 0
    BY <2>1, <1>1, <1>6
  <2>2. CASE m # 0
    <3>1. m - 1 \in 0..(N - 1) /\ m - 1 \in 0..N /\ (m - 1) + 1 = m
      BY <2>2, <1>1
    <3>2. <<m - 1, f[m - 1]>> \in R
      BY <3>1, <1>6
    <3>3. f[m] = next[<<m - 1, f[m - 1]>>]
      BY <2>2, <1>6
    <3>4. next[<<m - 1, f[m - 1]>>] = IF (m - 1) + 1 <= l \/ (m - 1) + 1 <= 1 THEN <<>>
                                      ELSE lists[(m - 1) + 1] \o f[m - 1]
      BY <3>1, <3>2, <1>4
    <3>. QED BY <3>1, <3>3, <3>4
  <2>. QED BY <2>1, <2>2
<1>8. Is(f)
  <2>1. f = [m \in 0..N |-> f[m]]
    BY <1>6
  <2>. QED BY <2>1, <1>7
<1>9. Is(V)
  <2>. HIDE DEF Is
  <2>. QED BY <1>8
<1>10. LogsAbove(lists, l) = V[N]
  BY DEF LogsAbove, N
<1>. HIDE DEF V
<1>11. \A m \in 0..N : V[m] = IF m <= l \/ m <= 1 THEN <<>> ELSE lists[m] \o V[m - 1]
  BY <1>9
<1>12. \A m \in 0..N : V[m] \in Seq(Record)
  <2>. DEFINE A == {m \in 0..N : V[m] \in Seq(Record)}
  <2>1. 0 \in A
    <3>1. 0 \in 0..N /\ 0 <= 1
      BY <1>1
    <3>2. V[0] = <<>>
      BY <3>1, <1>11
    <3>. QED BY <3>1, <3>2, <1>2, Zenon
  <2>2. ASSUME NEW i \in 0..(N - 1), i \in A PROVE i + 1 \in A
    <3>1. i + 1 \in 0..N /\ (i + 1) - 1 = i
      BY <1>1
    <3>2. V[i + 1] = IF i + 1 <= l \/ i + 1 <= 1 THEN <<>> ELSE lists[i + 1] \o V[i]
      BY <3>1, <1>11
    <3>3. CASE i + 1 <= l \/ i + 1 <= 1
      BY <3>1, <3>2, <3>3, <1>2
    <3>4. CASE ~(i + 1 <= l \/ i + 1 <= 1)
      <4>1. i + 1 \in WriteLevels
        BY <3>1, <3>4, <1>1
      <4>2. lists[i + 1] \in Seq(Record)
        BY <4>1 DEF Lists
      <4>3. lists[i + 1] \o V[i] \in Seq(Record)
        BY <4>2, <2>2, TallyConcat
      <4>. QED BY <3>1, <3>2, <3>4, <4>3
    <3>. QED BY <3>3, <3>4
  <2>. HIDE DEF A
  <2>3. 0..N \subseteq A
    BY <2>1, <2>2, <1>1, InductionUpTo
  <2>. QED BY <2>3 DEF A
<1>. QED BY <1>10, <1>11, <1>12 DEF BuiltBy, N

\* The lists above a level, one after the other, are a list of records.
LEMMA LogsAboveType ==
  ASSUME NEW lists \in Lists, NEW l \in Levels
  PROVE  LogsAbove(lists, l) \in Seq(Record)
BY LogsAboveBuilt, AddressFacts DEF BuiltBy

\* K are the tallies of payload d on the way.
TalliedBy(lists, l, d, K) ==
    /\ Tally(LogsAbove(lists, l), d) = K[MaxLevel]
    /\ \A m \in 0..MaxLevel : K[m] \in Nat
    /\ \A m \in 0..MaxLevel : K[m] = IF m <= l \/ m <= 1 THEN 0 ELSE Tally(lists[m], d) + K[m - 1]

\* Their tally, level by level.
LEMMA LogsTallied ==
  ASSUME NEW lists \in Lists, NEW l \in Levels, NEW d
  PROVE  \E K : TalliedBy(lists, l, d, K)
<1>1. PICK U : BuiltBy(lists, l, U)
  BY LogsAboveBuilt
<1>. DEFINE K == [m \in 0..MaxLevel |-> Tally(U[m], d)]
<1>2. MaxLevel \in Nat /\ MaxLevel \in 0..MaxLevel
  BY AddressFacts
<1>3. \A m \in 0..MaxLevel : K[m] \in Nat
  BY <1>1, TallyFacts DEF BuiltBy, TallyParts
<1>4. Tally(LogsAbove(lists, l), d) = K[MaxLevel]
  BY <1>1, <1>2 DEF BuiltBy
<1>5. ASSUME NEW m \in 0..MaxLevel
      PROVE  K[m] = IF m <= l \/ m <= 1 THEN 0 ELSE Tally(lists[m], d) + K[m - 1]
  <2>1. CASE m <= l \/ m <= 1
    <3>1. U[m] = <<>>
      BY <2>1, <1>1 DEF BuiltBy
    <3>. QED BY <2>1, <3>1, TallyEmpty
  <2>2. CASE ~(m <= l \/ m <= 1)
    <3>1. m - 1 \in 0..MaxLevel /\ m \in WriteLevels
      BY <2>2, <1>2 DEF WriteLevels
    <3>2. lists[m] \in Seq(Record) /\ U[m - 1] \in Seq(Record) /\ U[m] = lists[m] \o U[m - 1]
      BY <3>1, <2>2, <1>1 DEF BuiltBy, Lists
    <3>3. Tally(U[m], d) = Tally(lists[m], d) + Tally(U[m - 1], d)
      BY <3>2, TallyConcat
    <3>. QED BY <2>2, <3>1, <3>3
  <2>. QED BY <2>1, <2>2
<1>. HIDE DEF K
<1>. QED BY <1>3, <1>4, <1>5 DEF TalliedBy

\* The tally of one level.
LEMMA ListTally ==
  ASSUME NEW lists \in Lists, NEW m \in 0..MaxLevel, m > 1, NEW d
  PROVE  Tally(lists[m], d) \in Nat
<1>1. m \in WriteLevels
  BY AddressFacts DEF WriteLevels
<1>2. lists[m] \in Seq(Record)
  BY <1>1 DEF Lists
<1>. QED BY <1>2, TallyFacts DEF TallyParts

\* One list gets e more records that hold d.
LEMMA TallyOneList ==
  ASSUME NEW lists \in Lists, NEW lists2 \in Lists, NEW d, NEW e \in Int, NEW i \in WriteLevels,
         Tally(lists2[i], d) = Tally(lists[i], d) + e,
         \A m \in WriteLevels : m # i => Tally(lists2[m], d) = Tally(lists[m], d)
  PROVE  Tally(LogsAbove(lists2, 1), d) = Tally(LogsAbove(lists, 1), d) + e
<1>. DEFINE N == MaxLevel
<1>1. N \in Nat /\ N >= 2 /\ 1 \in Levels /\ WriteLevels = 2..N
  BY AddressFacts DEF Levels, WriteLevels
<1>2. PICK K : TalliedBy(lists, 1, d, K)
  BY <1>1, LogsTallied
<1>3. PICK L : TalliedBy(lists2, 1, d, L)
  BY <1>1, LogsTallied
<1>4. \A m \in 0..N : K[m] \in Nat /\ K[m] = IF m <= 1 THEN 0 ELSE Tally(lists[m], d) + K[m - 1]
  BY <1>2 DEF TalliedBy
<1>5. \A m \in 0..N : L[m] \in Nat /\ L[m] = IF m <= 1 THEN 0 ELSE Tally(lists2[m], d) + L[m - 1]
  BY <1>3 DEF TalliedBy
<1>. HIDE DEF N
<1>. DEFINE A == {m \in 0..N : L[m] = IF m < i THEN K[m] ELSE K[m] + e}
<1>6. 0 \in A
  BY <1>1, <1>4, <1>5
<1>7. ASSUME NEW j \in 0..(N - 1), j \in A PROVE j + 1 \in A
  <2>. DEFINE m == j + 1
  <2>1. m \in 0..N /\ m - 1 = j /\ j \in Nat /\ j \in 0..N
    BY <1>1
  <2>. HIDE DEF m
  <2>2. CASE m <= 1
    BY <2>1, <2>2, <1>1, <1>4, <1>5 DEF m
  <2>3. CASE m > 1
    <3>1. m \in WriteLevels
      BY <2>1, <2>3, <1>1
    <3>2. Tally(lists2[m], d) = IF m = i THEN Tally(lists[m], d) + e ELSE Tally(lists[m], d)
      BY <3>1
    <3>3. Tally(lists[m], d) \in Nat
      BY <2>1, <2>3, ListTally DEF N
    <3>4. K[m] = Tally(lists[m], d) + K[j] /\ L[m] = Tally(lists2[m], d) + L[j] /\ K[j] \in Nat
      BY <2>1, <2>3, <1>4, <1>5
    <3>5. L[j] = IF j < i THEN K[j] ELSE K[j] + e
      BY <1>7
    <3>6. i \in Nat /\ m = j + 1
      BY <1>1 DEF m
    <3>7. L[m] = IF m < i THEN K[m] ELSE K[m] + e
      BY <2>1, <3>2, <3>3, <3>4, <3>5, <3>6
    <3>. QED BY <2>1, <3>7 DEF m
  <2>. QED BY <2>1, <2>2, <2>3
<1>8. 0..N \subseteq A
  <2>. HIDE DEF A
  <2>. QED BY <1>1, <1>6, <1>7, InductionUpTo
<1>9. L[N] = K[N] + e
  <2>1. N \in A /\ ~(N < i)
    BY <1>1, <1>8
  <2>. QED BY <2>1
<1>. QED BY <1>2, <1>3, <1>9 DEF TalliedBy, N

\* The lists above l and those up to l.
LEMMA TallySplit ==
  ASSUME NEW lists \in Lists, NEW lists2 \in Lists, NEW d, NEW l \in Levels,
         \A m \in WriteLevels : lists2[m] = IF m <= l THEN lists[m] ELSE <<>>
  PROVE  Tally(LogsAbove(lists, 1), d) = Tally(LogsAbove(lists, l), d) + Tally(LogsAbove(lists2, 1), d)
<1>. DEFINE N == MaxLevel
<1>1. N \in Nat /\ N >= 2 /\ 1 \in Levels /\ WriteLevels = 2..N /\ l \in 0..N
  BY AddressFacts DEF Levels, WriteLevels
<1>2. PICK K : TalliedBy(lists, 1, d, K)
  BY <1>1, LogsTallied
<1>3. PICK L : TalliedBy(lists2, 1, d, L)
  BY <1>1, LogsTallied
<1>a. PICK H : TalliedBy(lists, l, d, H)
  BY <1>1, LogsTallied
<1>4. \A m \in 0..N : K[m] \in Nat /\ K[m] = IF m <= 1 THEN 0 ELSE Tally(lists[m], d) + K[m - 1]
  BY <1>2 DEF TalliedBy
<1>5. \A m \in 0..N : L[m] \in Nat /\ L[m] = IF m <= 1 THEN 0 ELSE Tally(lists2[m], d) + L[m - 1]
  BY <1>3 DEF TalliedBy
<1>b. \A m \in 0..N : H[m] \in Nat /\ H[m] = IF m <= l \/ m <= 1 THEN 0 ELSE Tally(lists[m], d) + H[m - 1]
  BY <1>a DEF TalliedBy
<1>. HIDE DEF N
<1>. DEFINE A == {m \in 0..N : K[m] = H[m] + L[m]}
<1>6. 0 \in A
  BY <1>1, <1>4, <1>5, <1>b
<1>7. ASSUME NEW j \in 0..(N - 1), j \in A PROVE j + 1 \in A
  <2>. DEFINE m == j + 1
  <2>1. m \in 0..N /\ m - 1 = j /\ j \in Nat /\ j \in 0..N
    BY <1>1
  <2>. HIDE DEF m
  <2>2. CASE m <= 1
    BY <2>1, <2>2, <1>1, <1>4, <1>5, <1>b DEF m
  <2>3. CASE m > 1
    <3>1. m \in WriteLevels
      BY <2>1, <2>3, <1>1
    <3>2. Tally(lists2[m], d) = IF m <= l THEN Tally(lists[m], d) ELSE 0
      BY <3>1, TallyEmpty
    <3>3. Tally(lists[m], d) \in Nat
      BY <2>1, <2>3, ListTally DEF N
    <3>4. K[m] = Tally(lists[m], d) + K[j] /\ L[m] = Tally(lists2[m], d) + L[j] /\ K[j] \in Nat /\ L[j] \in Nat
      BY <2>1, <2>3, <1>4, <1>5
    <3>5. H[m] = (IF m <= l THEN 0 ELSE Tally(lists[m], d) + H[j]) /\ H[j] \in Nat
      BY <2>1, <2>3, <1>b
    <3>6. K[j] = H[j] + L[j]
      BY <1>7
    <3>7. m <= l => H[j] = 0
      BY <2>1, <1>1, <1>b DEF m
    <3>8. K[m] = H[m] + L[m]
      BY <3>2, <3>3, <3>4, <3>5, <3>6, <3>7, <2>1, <1>1, SMT
    <3>. QED BY <2>1, <3>8 DEF m
  <2>. QED BY <2>1, <2>2, <2>3
<1>8. 0..N \subseteq A
  <2>. HIDE DEF A
  <2>. QED BY <1>1, <1>6, <1>7, InductionUpTo
<1>9. K[N] = H[N] + L[N]
  <2>1. N \in A
    BY <1>1, <1>8
  <2>. QED BY <2>1
<1>. QED BY <1>2, <1>3, <1>a, <1>9 DEF TalliedBy, N

\* No records.
LEMMA TallyNothing ==
  ASSUME NEW lists \in Lists, NEW d, \A m \in WriteLevels : lists[m] = <<>>
  PROVE  Tally(LogsAbove(lists, 1), d) = 0
<1>1. 1 \in Levels /\ 0 \in Levels
  BY AddressFacts DEF Levels
<1>2. Tally(LogsAbove(lists, 1), d) \in Nat
  BY <1>1, LogsAboveType, TallyFacts DEF TallyParts
<1>3. \A m \in WriteLevels : lists[m] = IF m <= 1 THEN lists[m] ELSE <<>>
  OBVIOUS
<1>4. Tally(LogsAbove(lists, 1), d) = Tally(LogsAbove(lists, 1), d) + Tally(LogsAbove(lists, 1), d)
  BY <1>1, <1>3, TallySplit
<1>. QED BY <1>2, <1>4

-----------------------------------------------------------------------------
(* The heap with its reference counts.                                     *)

Faults == {"none", "log", "cursor"}
Heaps == [tree : Trees, pData : [Address -> Pointer], mxTrans : [Address -> Nat],
          nRef : [Address -> Nat], payRef : [Address -> Int], fault : Faults]

\* The fields of a heap have their types.
LEMMA HeapFields ==
  ASSUME NEW h \in Heaps
  PROVE  /\ h.tree \in Trees
         /\ h.pData \in [Address -> Pointer]
         /\ h.mxTrans \in [Address -> Nat]
         /\ h.nRef \in [Address -> Nat]
         /\ h.payRef \in [Address -> Int]
         /\ h.fault \in Faults
         /\ h = [tree |-> h.tree, pData |-> h.pData, mxTrans |-> h.mxTrans,
                 nRef |-> h.nRef, payRef |-> h.payRef, fault |-> h.fault]
BY DEF Heaps

\* And a record of such fields is a heap.
LEMMA HeapsIntro ==
  ASSUME NEW t \in Trees, NEW p \in [Address -> Pointer], NEW x \in [Address -> Nat],
         NEW r \in [Address -> Nat], NEW y \in [Address -> Int], NEW f \in Faults
  PROVE  [tree |-> t, pData |-> p, mxTrans |-> x, nRef |-> r, payRef |-> y, fault |-> f] \in Heaps
BY DEF Heaps

\* The heap is sound, T are the nodes in its tree and at[c] is the node that
\* cursor c points to.
HeapSound(h, T, at) ==
    /\ h \in Heaps
    /\ Sound(h.tree, T)
    /\ \A n \in Address : h.nRef[n] = One(n \in T) + Count(at, Cursor, n)
    /\ \A n \in Address : n \notin T => h.pData[n] = Null

\* hold[c] is the payload that cursor c holds, extra[d] the number of change
\* records that hold payload d.
PayExact(h, hold, extra) ==
    \A d \in Address : h.payRef[d] = Count(h.pData, Address, d) + Count(hold, Cursor, d) + extra[d]
Accounted(h, hold, extra) == h.fault = "none" => PayExact(h, hold, extra)

\* Only payload counts change.
PayOnly(u, h) ==
    /\ u \in Heaps /\ u.tree = h.tree /\ u.pData = h.pData /\ u.mxTrans = h.mxTrans
    /\ u.nRef = h.nRef /\ u.fault = h.fault

\* One reference to a payload more.
LEMMA DataRefFacts ==
  ASSUME NEW h \in Heaps, NEW d \in Pointer
  PROVE  /\ PayOnly(DataRef(h, d), h)
         /\ \A e \in Address : DataRef(h, d).payRef[e] = h.payRef[e] + One(d = e)
<1>. DEFINE u == DataRef(h, d)
<1>1. CASE d = Null
  <2>1. u = h
    BY <1>1 DEF DataRef
  <2>2. \A e \in Address : h.payRef[e] = h.payRef[e] + One(d = e)
    BY <1>1, AddressFacts, HeapFields DEF One
  <2>. HIDE DEF u
  <2>3. PayOnly(u, h)
    BY <2>1 DEF PayOnly
  <2>. QED BY <2>1, <2>2, <2>3 DEF u
<1>2. CASE d # Null
  <2>0. d \in Address
    BY <1>2 DEF Pointer
  <2>1. u = [h EXCEPT !.payRef[d] = @ + 1]
    BY <1>2 DEF DataRef
  <2>. DEFINE y == [h.payRef EXCEPT ![d] = @ + 1]
              v == [tree |-> h.tree, pData |-> h.pData, mxTrans |-> h.mxTrans,
                    nRef |-> h.nRef, payRef |-> y, fault |-> h.fault]
  <2>2. u = v
    BY <2>1, HeapFields
  <2>3. y \in [Address -> Int] /\ \A e \in Address : y[e] = h.payRef[e] + One(d = e)
    BY <2>0, HeapFields DEF One
  <2>. HIDE DEF u, y
  <2>4. v \in Heaps
    BY <2>3, HeapFields, HeapsIntro
  <2>5. PayOnly(u, h) /\ u.payRef = y
    BY <2>2, <2>4 DEF PayOnly
  <2>. QED BY <2>3, <2>5 DEF u
<1>. QED BY <1>1, <1>2

\* One reference to a payload less.
LEMMA DataUnrefFacts ==
  ASSUME NEW h \in Heaps, NEW d \in Pointer
  PROVE  /\ PayOnly(DataUnref(h, d), h)
         /\ \A e \in Address : DataUnref(h, d).payRef[e] = h.payRef[e] - One(d = e)
<1>. DEFINE u == DataUnref(h, d)
<1>1. CASE d = Null
  <2>1. u = h
    BY <1>1 DEF DataUnref
  <2>2. \A e \in Address : h.payRef[e] = h.payRef[e] - One(d = e)
    BY <1>1, AddressFacts, HeapFields DEF One
  <2>. HIDE DEF u
  <2>3. PayOnly(u, h)
    BY <2>1 DEF PayOnly
  <2>. QED BY <2>1, <2>2, <2>3 DEF u
<1>2. CASE d # Null
  <2>0. d \in Address
    BY <1>2 DEF Pointer
  <2>1. u = [h EXCEPT !.payRef[d] = @ - 1]
    BY <1>2 DEF DataUnref
  <2>. DEFINE y == [h.payRef EXCEPT ![d] = @ - 1]
              v == [tree |-> h.tree, pData |-> h.pData, mxTrans |-> h.mxTrans,
                    nRef |-> h.nRef, payRef |-> y, fault |-> h.fault]
  <2>2. u = v
    BY <2>1, HeapFields
  <2>3. y \in [Address -> Int] /\ \A e \in Address : y[e] = h.payRef[e] - One(d = e)
    BY <2>0, HeapFields DEF One
  <2>. HIDE DEF u, y
  <2>4. v \in Heaps
    BY <2>3, HeapFields, HeapsIntro
  <2>5. PayOnly(u, h) /\ u.payRef = y
    BY <2>2, <2>4 DEF PayOnly
  <2>. QED BY <2>3, <2>5 DEF u
<1>. QED BY <1>1, <1>2

\* The pointers of a free node.
LEMMA ClearedNode ==
  ASSUME NEW t \in Trees, NEW n, NEW u,
         u = [t EXCEPT !.child[n] = NoChild, !.up[n] = Null, !.height[n] = 0, !.imbalance[n] = 0]
  PROVE  u = [pRoot |-> t.pRoot, child |-> [t.child EXCEPT ![n] = NoChild], up |-> [t.up EXCEPT ![n] = Null],
              height |-> [t.height EXCEPT ![n] = 0], imbalance |-> [t.imbalance EXCEPT ![n] = 0]]
<1>1. t = [pRoot |-> t.pRoot, child |-> t.child, up |-> t.up, height |-> t.height, imbalance |-> t.imbalance]
  BY TreesFields
<1>. QED BY <1>1

\* Freeing a node that is not in the tree.
LEMMA FreeNodeFacts ==
  ASSUME NEW h \in Heaps, NEW T, Sound(h.tree, T), NEW n \in Address \ T, h.pData[n] = Null, h.nRef[n] = 1
  PROVE  LET u == FreeNode(h, n)
         IN /\ u \in Heaps /\ Sound(u.tree, T) /\ u.pData = h.pData /\ u.payRef = h.payRef
            /\ u.fault = h.fault
            /\ \A m \in Address : u.nRef[m] = h.nRef[m] - One(n = m)
<1>. DEFINE u == FreeNode(h, n)
            t == h.tree
            s == [t EXCEPT !.child[n] = NoChild, !.up[n] = Null, !.height[n] = 0, !.imbalance[n] = 0]
            s1 == [pRoot |-> t.pRoot, child |-> [t.child EXCEPT ![n] = NoChild], up |-> [t.up EXCEPT ![n] = Null],
                   height |-> [t.height EXCEPT ![n] = 0], imbalance |-> [t.imbalance EXCEPT ![n] = 0]]
            p == [h.pData EXCEPT ![n] = Null]
            x == [h.mxTrans EXCEPT ![n] = 0]
            r == [h.nRef EXCEPT ![n] = 0]
            v == [tree |-> s, pData |-> p, mxTrans |-> x, nRef |-> r, payRef |-> h.payRef, fault |-> h.fault]
<1>1. /\ t \in Trees /\ h.pData \in [Address -> Pointer] /\ h.mxTrans \in [Address -> Nat]
      /\ h.nRef \in [Address -> Nat] /\ h.payRef \in [Address -> Int] /\ h.fault \in Faults
      /\ Null \in Pointer
  BY HeapFields DEF Pointer
<1>2. h = [tree |-> t, pData |-> h.pData, mxTrans |-> h.mxTrans,
                 nRef |-> h.nRef, payRef |-> h.payRef, fault |-> h.fault]
  BY HeapFields
<1>3. u = v
  <2>1. u = [h EXCEPT !.pData[n] = Null, !.mxTrans[n] = 0, !.nRef[n] = 0, !.tree = s]
    BY DEF FreeNode
  <2>. HIDE DEF s, u
  <2>. QED BY <2>1, <1>2
<1>4. p = h.pData
  BY <1>1
<1>5. x \in [Address -> Nat] /\ r \in [Address -> Nat]
  BY <1>1
<1>6. \A m \in Address : r[m] = h.nRef[m] - One(n = m)
  BY <1>1 DEF One
<1>7. s = s1
  <2>. HIDE DEF t
  <2>. QED BY <1>1, ClearedNode, Zenon
<1>8. s1 \in Trees /\ Sound(s1, T)
  <2>. HIDE DEF t
  <2>1. /\ t.pRoot \in Pointer /\ t.child \in [Address -> [Side -> Pointer]] /\ t.up \in [Address -> Pointer]
        /\ t.height \in [Address -> Nat] /\ t.imbalance \in [Address -> Int]
    BY <1>1, TreesFields
  <2>2. NoChild \in [Side -> Pointer]
    BY <1>1 DEF NoChild
  <2>3. s1.child \in [Address -> [Side -> Pointer]]
    BY <2>1, <2>2
  <2>4. s1.up \in [Address -> Pointer] /\ s1.height \in [Address -> Nat] /\ s1.imbalance \in [Address -> Int]
    BY <2>1, <1>1
  <2>5. s1 \in Trees
    BY <2>1, <2>3, <2>4, TreesIntro
  <2>6. T \subseteq Address /\ Sound(t, T)
    BY SoundNodes DEF t
  <2>7. s1.pRoot = t.pRoot
    OBVIOUS
  <2>8. \A m \in T : /\ \A d \in Side : s1.child[m][d] = t.child[m][d]
                     /\ s1.up[m] = t.up[m] /\ s1.height[m] = t.height[m] /\ s1.imbalance[m] = t.imbalance[m]
    BY <2>1, <2>6
  <2>. HIDE DEF s1
  <2>. QED BY <2>5, <2>6, <2>7, <2>8, SoundElsewhere
<1>. HIDE DEF u, s, s1, x, r, p, t
<1>9. v \in Heaps
  BY <1>1, <1>4, <1>5, <1>7, <1>8, HeapsIntro
<1>10. u.tree = s /\ u.pData = p /\ u.nRef = r /\ u.payRef = h.payRef /\ u.fault = h.fault
  BY <1>3
<1>. QED BY <1>3, <1>4, <1>6, <1>7, <1>8, <1>9, <1>10 DEF u

\* One reference to a node less.
Unref(u, h, T, n) ==
    /\ u \in Heaps /\ Sound(u.tree, T) /\ u.pData = h.pData /\ u.payRef = h.payRef /\ u.fault = h.fault
    /\ \A m \in Address : u.nRef[m] = h.nRef[m] - One(n = m)

\* kvmemNodeUnref of a node that the tree or another cursor may still hold.
LEMMA NodeUnrefFacts ==
  ASSUME NEW h \in Heaps, NEW T, Sound(h.tree, T), NEW n \in Address,
         h.nRef[n] > One(n \in T), n \notin T => h.pData[n] = Null
  PROVE  Unref(NodeUnref(h, n), h, T, n)
<1>. DEFINE u == NodeUnref(h, n)
<1>0. n # Null /\ h.nRef[n] \in Nat /\ h.nRef \in [Address -> Nat] /\ h.pData[n] \in Pointer
  BY AddressFacts, HeapFields
<1>1. CASE h.nRef[n] > 1
  <2>. DEFINE r == [h.nRef EXCEPT ![n] = @ - 1]
              v == [tree |-> h.tree, pData |-> h.pData, mxTrans |-> h.mxTrans,
                    nRef |-> r, payRef |-> h.payRef, fault |-> h.fault]
  <2>1. u = [h EXCEPT !.nRef[n] = @ - 1]
    BY <1>0, <1>1 DEF NodeUnref
  <2>2. u = v
    BY <2>1, HeapFields
  <2>3. r \in [Address -> Nat] /\ \A m \in Address : r[m] = h.nRef[m] - One(n = m)
    BY <1>0, <1>1 DEF One
  <2>. HIDE DEF u, r
  <2>4. v \in Heaps
    BY <2>3, HeapFields, HeapsIntro
  <2>5. u.tree = h.tree /\ u.pData = h.pData /\ u.payRef = h.payRef /\ u.fault = h.fault /\ u.nRef = r
    BY <2>2
  <2>. QED BY <2>2, <2>3, <2>4, <2>5 DEF Unref, u
<1>2. CASE ~(h.nRef[n] > 1)
  <2>1. n \notin T /\ h.nRef[n] = 1
    BY <1>0, <1>2 DEF One
  <2>2. u = DataUnref(FreeNode(h, n), h.pData[n])
    BY <1>0, <1>2 DEF NodeUnref
  <2>3. u = FreeNode(h, n)
    BY <2>1, <2>2 DEF DataUnref
  <2>. HIDE DEF u
  <2>4. Unref(u, h, T, n)
    BY <2>1, <2>3, FreeNodeFacts DEF Unref
  <2>. QED BY <2>4 DEF u
<1>. QED BY <1>1, <1>2

\* One reference to a node more.
LEMMA NodeRefFacts ==
  ASSUME NEW h \in Heaps, NEW n \in Pointer
  PROVE  LET u == NodeRef(h, n)
         IN /\ u \in Heaps /\ u.tree = h.tree /\ u.pData = h.pData /\ u.payRef = h.payRef /\ u.fault = h.fault
            /\ \A m \in Address : u.nRef[m] = h.nRef[m] + One(n = m)
<1>. DEFINE u == NodeRef(h, n)
<1>0. h.nRef \in [Address -> Nat]
  BY HeapFields
<1>1. CASE n = Null
  <2>1. u = h
    BY <1>1 DEF NodeRef
  <2>2. \A m \in Address : h.nRef[m] = h.nRef[m] + One(n = m)
    BY <1>0, <1>1, AddressFacts DEF One
  <2>. HIDE DEF u
  <2>. QED BY <2>1, <2>2 DEF u
<1>2. CASE n # Null
  <2>. DEFINE r == [h.nRef EXCEPT ![n] = @ + 1]
              v == [tree |-> h.tree, pData |-> h.pData, mxTrans |-> h.mxTrans,
                    nRef |-> r, payRef |-> h.payRef, fault |-> h.fault]
  <2>0. n \in Address
    BY <1>2 DEF Pointer
  <2>1. u = [h EXCEPT !.nRef[n] = @ + 1]
    BY <1>2 DEF NodeRef
  <2>2. u = v
    BY <2>1, HeapFields
  <2>3. r \in [Address -> Nat] /\ \A m \in Address : r[m] = h.nRef[m] + One(n = m)
    BY <1>0, <2>0 DEF One
  <2>. HIDE DEF u, r
  <2>4. v \in Heaps
    BY <2>3, HeapFields, HeapsIntro
  <2>5. u.tree = h.tree /\ u.pData = h.pData /\ u.payRef = h.payRef /\ u.fault = h.fault /\ u.nRef = r
    BY <2>2
  <2>. QED BY <2>2, <2>3, <2>4, <2>5 DEF u
<1>. QED BY <1>1, <1>2

-----------------------------------------------------------------------------
(* Cursors that move, and payloads that change hands.                      *)

\* The function f with another value at c.
Moved(g, f, c, n) ==
    /\ g \in [Cursor -> Pointer] /\ g[c] = n
    /\ \A e \in Cursor : e # c => g[e] = f[e]

Recounted(g, f, c, n, m) ==
    /\ Count(g, Cursor, m) = Count(f, Cursor, m) - One(f[c] = m) + One(n = m)
    /\ Count(f, Cursor, m) \in Nat /\ Count(f, Cursor, m) >= One(f[c] = m)

\* How the references to a node change when a cursor moves.
LEMMA MovedCount ==
  ASSUME NEW f \in [Cursor -> Pointer], NEW g, NEW c \in Cursor, NEW n, Moved(g, f, c, n), NEW m
  PROVE  Recounted(g, f, c, n, m)
<1>1. IsFiniteSet(Cursor)
  BY KVMemTreeAssumption
<1>2. Count(g, Cursor, m) = Count(f, Cursor, m) - One(f[c] = m) + One(g[c] = m)
  BY <1>1, CountPut DEF Moved
<1>3. Count(f, Cursor, m) = Elsewhere(f, Cursor, c, m) + One(f[c] = m) /\ Elsewhere(f, Cursor, c, m) \in Nat
  BY <1>1, CountSplit
<1>4. One(f[c] = m) \in Nat
  BY DEF One
<1>5. g[c] = n
  BY DEF Moved
<1>. QED BY <1>2, <1>3, <1>4, <1>5 DEF Recounted

\* What a sound heap gives.
LEMMA HeapFacts ==
  ASSUME NEW h, NEW T, NEW at, HeapSound(h, T, at)
  PROVE  /\ h \in Heaps /\ h.tree \in Trees /\ Sound(h.tree, T) /\ T \subseteq Address /\ Null \notin T
         /\ InTree(h) = T
         /\ \A n \in Address : h.nRef[n] \in Nat /\ h.nRef[n] = One(n \in T) + Count(at, Cursor, n)
                               /\ Count(at, Cursor, n) \in Nat
         /\ \A n \in T : Allocated(h, n)
         /\ \A n \in Address : n \notin T => h.pData[n] = Null
         /\ \A n \in Address : h.pData[n] \in Pointer
<1>1. h \in Heaps /\ Sound(h.tree, T) /\ \A n \in Address : h.nRef[n] = One(n \in T) + Count(at, Cursor, n)
  BY DEF HeapSound
<1>2. T \subseteq Address /\ Null \notin T /\ InTree(h) = T
  BY <1>1, SoundNodes DEF InTree
<1>3. \A n \in Address : Count(at, Cursor, n) \in Nat
  BY KVMemTreeAssumption, CountType
<1>4. \A n \in Address : h.nRef[n] \in Nat /\ h.pData[n] \in Pointer
  BY <1>1, HeapFields
<1>5. \A n \in T : Allocated(h, n)
  BY <1>1, <1>2, <1>3 DEF Allocated, One
<1>6. h.tree \in Trees
  BY <1>1, HeapFields
<1>7. \A n \in Address : n \notin T => h.pData[n] = Null
  BY DEF HeapSound
<1>. QED BY <1>1, <1>2, <1>3, <1>4, <1>5, <1>6, <1>7

\* Only payload counts change: the nodes stay sound.
LEMMA PayOnlySound ==
  ASSUME NEW h, NEW T, NEW at, HeapSound(h, T, at), NEW u, PayOnly(u, h)
  PROVE  HeapSound(u, T, at)
BY DEF HeapSound, PayOnly

\* kvmemReset.
LEMMA ResetSound ==
  ASSUME NEW h, NEW T, NEW at \in [Cursor -> Pointer], HeapSound(h, T, at),
         NEW hold \in [Cursor -> Pointer], NEW extra \in [Address -> Int], Accounted(h, hold, extra),
         NEW c \in Cursor, NEW cur, cur.pNode = at[c], cur.pData = hold[c],
         NEW at2, Moved(at2, at, c, Null), NEW hold2, Moved(hold2, hold, c, Null)
  PROVE  LET u == ResetHeap(h, cur)
         IN HeapSound(u, T, at2) /\ Accounted(u, hold2, extra) /\ u.fault = h.fault
<1>. DEFINE n == at[c]
            d == hold[c]
            v == DataUnref(h, d)
            u == ResetHeap(h, cur)
<1>0. n \in Pointer /\ d \in Pointer /\ h \in Heaps /\ Null \notin Address
  BY AddressFacts DEF HeapSound
<1>1. PayOnly(v, h) /\ \A e \in Address : v.payRef[e] = h.payRef[e] - One(d = e)
  BY <1>0, DataUnrefFacts
<1>2. u = NodeUnref(v, n)
  BY DEF ResetHeap
<1>. HIDE DEF u, v
<1>3. HeapSound(v, T, at)
  BY <1>1, PayOnlySound
<1>4. /\ \A m \in Address : v.nRef[m] = One(m \in T) + Count(at, Cursor, m)
      /\ v \in Heaps /\ Sound(v.tree, T) /\ \A m \in Address : m \notin T => v.pData[m] = Null
  BY <1>3 DEF HeapSound
<1>5. \A m \in Address : /\ Count(at2, Cursor, m) = Count(at, Cursor, m) - One(n = m)
                         /\ Count(at, Cursor, m) \in Nat /\ Count(at, Cursor, m) >= One(n = m)
  <2>. SUFFICES ASSUME NEW m \in Address
                PROVE  /\ Count(at2, Cursor, m) = Count(at, Cursor, m) - One(n = m)
                       /\ Count(at, Cursor, m) \in Nat /\ Count(at, Cursor, m) >= One(n = m)
    OBVIOUS
  <2>1. /\ Count(at2, Cursor, m) = Count(at, Cursor, m) - One(n = m) + One(Null = m)
        /\ Count(at, Cursor, m) \in Nat /\ Count(at, Cursor, m) >= One(n = m)
    BY MovedCount DEF Recounted
  <2>2. One(Null = m) = 0 /\ One(n = m) \in Nat
    BY <1>0 DEF One
  <2>. QED BY <2>1, <2>2
<1>6. \A m \in Address : Count(hold2, Cursor, m) = Count(hold, Cursor, m) - One(d = m) /\ Count(hold, Cursor, m) \in Nat
  <2>. SUFFICES ASSUME NEW m \in Address
                PROVE  Count(hold2, Cursor, m) = Count(hold, Cursor, m) - One(d = m) /\ Count(hold, Cursor, m) \in Nat
    OBVIOUS
  <2>1. Count(hold2, Cursor, m) = Count(hold, Cursor, m) - One(d = m) + One(Null = m)
        /\ Count(hold, Cursor, m) \in Nat
    BY MovedCount DEF Recounted
  <2>2. One(Null = m) = 0 /\ One(d = m) \in Nat
    BY <1>0 DEF One
  <2>. QED BY <2>1, <2>2
<1>7. /\ u \in Heaps /\ Sound(u.tree, T) /\ u.pData = v.pData /\ u.payRef = v.payRef /\ u.fault = v.fault
      /\ \A m \in Address : u.nRef[m] = v.nRef[m] - One(n = m)
  <2>1. CASE n = Null
    <3>1. u = v
      BY <1>2, <2>1 DEF NodeUnref
    <3>2. \A m \in Address : v.nRef[m] = v.nRef[m] - One(n = m)
      BY <1>0, <1>4, <2>1, HeapFields DEF One
    <3>. HIDE DEF n
    <3>. QED BY <3>1, <3>2, <1>4
  <2>2. CASE n # Null
    <3>1. n \in Address
      BY <1>0, <2>2 DEF Pointer
    <3>2. v.nRef[n] > One(n \in T)
      BY <3>1, <1>4, <1>5 DEF One
    <3>. HIDE DEF n
    <3>3. Unref(u, v, T, n)
      BY <3>1, <3>2, <1>2, <1>4, NodeUnrefFacts
    <3>. QED BY <3>3 DEF Unref
  <2>. QED BY <2>1, <2>2
<1>. HIDE DEF n, d
<1>8. \A m \in Address : u.nRef[m] = One(m \in T) + Count(at2, Cursor, m)
  BY <1>4, <1>5, <1>7 DEF One
<1>9. HeapSound(u, T, at2)
  BY <1>4, <1>7, <1>8 DEF HeapSound
<1>10. u.fault = h.fault /\ u.pData = h.pData
  BY <1>1, <1>7 DEF PayOnly
<1>11. ASSUME u.fault = "none", NEW e \in Address
       PROVE  u.payRef[e] = Count(u.pData, Address, e) + Count(hold2, Cursor, e) + extra[e]
  <2>1. h.payRef[e] = Count(h.pData, Address, e) + Count(hold, Cursor, e) + extra[e]
    BY <1>10, <1>11 DEF Accounted, PayExact
  <2>2. Count(h.pData, Address, e) \in Nat /\ extra[e] \in Int /\ One(d = e) \in Nat
    BY AddressFacts, CountType DEF One
  <2>3. u.payRef[e] = h.payRef[e] - One(d = e)
    BY <1>1, <1>7
  <2>. QED BY <2>1, <2>2, <2>3, <1>6, <1>10
<1>. QED BY <1>9, <1>10, <1>11 DEF Accounted, PayExact, u

\* Pointing a cursor that holds nothing to a node, with its payload.
LEMMA PointSound ==
  ASSUME NEW h, NEW T, NEW at \in [Cursor -> Pointer], HeapSound(h, T, at),
         NEW hold \in [Cursor -> Pointer], NEW extra \in [Address -> Int], Accounted(h, hold, extra),
         NEW c \in Cursor, at[c] = Null, hold[c] = Null, NEW n \in Pointer, NEW d \in Pointer,
         NEW at2, Moved(at2, at, c, n), NEW hold2, Moved(hold2, hold, c, d)
  PROVE  LET u == NodeRef(DataRef(h, d), n)
         IN HeapSound(u, T, at2) /\ Accounted(u, hold2, extra) /\ u.fault = h.fault
<1>. DEFINE v == DataRef(h, d)
            u == NodeRef(v, n)
<1>0. h \in Heaps /\ Null \notin Address
  BY AddressFacts DEF HeapSound
<1>1. PayOnly(v, h) /\ \A e \in Address : v.payRef[e] = h.payRef[e] + One(d = e)
  BY <1>0, DataRefFacts
<1>. HIDE DEF v
<1>3. HeapSound(v, T, at)
  BY <1>1, PayOnlySound
<1>4. /\ \A m \in Address : v.nRef[m] = One(m \in T) + Count(at, Cursor, m)
      /\ v \in Heaps /\ Sound(v.tree, T) /\ \A m \in Address : m \notin T => v.pData[m] = Null
  BY <1>3 DEF HeapSound
<1>5. \A m \in Address : /\ Count(at2, Cursor, m) = Count(at, Cursor, m) + One(n = m)
                         /\ Count(at, Cursor, m) \in Nat
  <2>. SUFFICES ASSUME NEW m \in Address
                PROVE  /\ Count(at2, Cursor, m) = Count(at, Cursor, m) + One(n = m)
                       /\ Count(at, Cursor, m) \in Nat
    OBVIOUS
  <2>b. Recounted(at2, at, c, n, m)
    BY MovedCount
  <2>a. /\ Count(at2, Cursor, m) = Count(at, Cursor, m) - One(at[c] = m) + One(n = m)
        /\ Count(at, Cursor, m) \in Nat
    BY <2>b DEF Recounted
  <2>1. /\ Count(at2, Cursor, m) = Count(at, Cursor, m) - One(Null = m) + One(n = m)
        /\ Count(at, Cursor, m) \in Nat
    BY <2>a
  <2>2. One(Null = m) = 0 /\ One(n = m) \in Nat
    BY <1>0 DEF One
  <2>. QED BY <2>1, <2>2
<1>6. \A m \in Address : Count(hold2, Cursor, m) = Count(hold, Cursor, m) + One(d = m) /\ Count(hold, Cursor, m) \in Nat
  <2>. SUFFICES ASSUME NEW m \in Address
                PROVE  Count(hold2, Cursor, m) = Count(hold, Cursor, m) + One(d = m) /\ Count(hold, Cursor, m) \in Nat
    OBVIOUS
  <2>a. Count(hold2, Cursor, m) = Count(hold, Cursor, m) - One(hold[c] = m) + One(d = m)
        /\ Count(hold, Cursor, m) \in Nat
    BY MovedCount DEF Recounted
  <2>1. Count(hold2, Cursor, m) = Count(hold, Cursor, m) - One(Null = m) + One(d = m)
        /\ Count(hold, Cursor, m) \in Nat
    BY <2>a
  <2>2. One(Null = m) = 0 /\ One(d = m) \in Nat
    BY <1>0 DEF One
  <2>. QED BY <2>1, <2>2
<1>7. /\ u \in Heaps /\ u.tree = v.tree /\ u.pData = v.pData /\ u.payRef = v.payRef /\ u.fault = v.fault
      /\ \A m \in Address : u.nRef[m] = v.nRef[m] + One(n = m)
  BY <1>4, NodeRefFacts
<1>. HIDE DEF u
<1>8. \A m \in Address : u.nRef[m] = One(m \in T) + Count(at2, Cursor, m)
  BY <1>4, <1>5, <1>7 DEF One
<1>9. HeapSound(u, T, at2)
  BY <1>4, <1>7, <1>8 DEF HeapSound
<1>10. u.fault = h.fault /\ u.pData = h.pData
  BY <1>1, <1>7 DEF PayOnly
<1>11. ASSUME u.fault = "none", NEW e \in Address
       PROVE  u.payRef[e] = Count(u.pData, Address, e) + Count(hold2, Cursor, e) + extra[e]
  <2>1. h.payRef[e] = Count(h.pData, Address, e) + Count(hold, Cursor, e) + extra[e]
    BY <1>10, <1>11 DEF Accounted, PayExact
  <2>2. Count(h.pData, Address, e) \in Nat /\ extra[e] \in Int /\ One(d = e) \in Nat
    BY AddressFacts, CountType DEF One
  <2>3. u.payRef[e] = h.payRef[e] + One(d = e)
    BY <1>1, <1>7
  <2>. QED BY <2>1, <2>2, <2>3, <1>6, <1>10
<1>. QED BY <1>9, <1>10, <1>11 DEF Accounted, PayExact, u, v

\* A node of the tree gets another payload.
LEMMA PutSound ==
  ASSUME NEW h, NEW T, NEW at, HeapSound(h, T, at), NEW n \in T, NEW d \in Pointer, NEW u \in Heaps,
         u.tree = h.tree, u.nRef = h.nRef, u.pData = [h.pData EXCEPT ![n] = d]
  PROVE  /\ HeapSound(u, T, at)
         /\ \A e \in Address : Count(u.pData, Address, e)
                                  = Count(h.pData, Address, e) - One(h.pData[n] = e) + One(d = e)
<1>1. T \subseteq Address /\ h \in Heaps
  BY HeapFacts
<1>2. h.pData \in [Address -> Pointer] /\ n \in Address
  BY <1>1, HeapFields
<1>3. u.pData[n] = d /\ \A m \in Address : m # n => u.pData[m] = h.pData[m]
  BY <1>2
<1>4. HeapSound(u, T, at)
  BY <1>3 DEF HeapSound
<1>5. \A e \in Address : Count(u.pData, Address, e)
                            = Count(h.pData, Address, e) - One(h.pData[n] = e) + One(u.pData[n] = e)
  <2>. SUFFICES ASSUME NEW e \in Address
                PROVE  Count(u.pData, Address, e)
                            = Count(h.pData, Address, e) - One(h.pData[n] = e) + One(u.pData[n] = e)
    OBVIOUS
  <2>1. IsFiniteSet(Address)
    BY AddressFacts
  <2>. QED BY <1>2, <1>3, <2>1, CountPut
<1>. QED BY <1>3, <1>4, <1>5

\* kvmemRemoveNode.
LEMMA RemoveSound ==
  ASSUME NEW h, NEW T, NEW at, HeapSound(h, T, at), NEW n \in T,
         NEW hold \in [Cursor -> Pointer], NEW extra \in [Address -> Int], Accounted(h, hold, extra)
  PROVE  LET u == RemoveNode(h, n)
         IN HeapSound(u, T \ {n}, at) /\ Accounted(u, hold, extra) /\ u.fault = h.fault
<1>. DEFINE d == h.pData[n]
            v == DataUnref(h, d)
            t == Balance(Unlink(h, n), pBalance(h, n))
            p == [h.pData EXCEPT ![n] = Null]
            w == [v EXCEPT !.pData[n] = Null, !.tree = t]
            u == RemoveNode(h, n)
            T2 == T \ {n}
<1>1. /\ h \in Heaps /\ h.tree \in Trees /\ T \subseteq Address /\ Null \notin T /\ n \in Address /\ Null \notin Address
      /\ d \in Pointer /\ h.pData \in [Address -> Pointer]
      /\ \A m \in T : Allocated(h, m)
  BY HeapFacts, HeapFields, AddressFacts
<1>2. u = NodeUnref(w, n)
  BY DEF RemoveNode
<1>3. Sound(t, T2)
  <2>1. PICK sub, G : Shape(h.tree, T, sub) /\ AlmostBalanced(h.tree, T, sub, G, Null)
    BY HeapFacts DEF Sound
  <2>. QED BY <2>1, <1>1, UnlinkIsSound
<1>4. PayOnly(v, h) /\ \A e \in Address : v.payRef[e] = h.payRef[e] - One(d = e)
  BY <1>1, DataUnrefFacts
<1>. HIDE DEF v, t, u, d
<1>5. /\ w \in Heaps /\ w.tree = t /\ w.pData = p /\ w.nRef = h.nRef /\ w.payRef = v.payRef /\ w.fault = h.fault
  <2>1. v \in Heaps /\ v.tree = h.tree /\ v.pData = h.pData /\ v.nRef = h.nRef /\ v.fault = h.fault
    BY <1>4 DEF PayOnly
  <2>2. v = [tree |-> v.tree, pData |-> v.pData, mxTrans |-> v.mxTrans,
             nRef |-> v.nRef, payRef |-> v.payRef, fault |-> v.fault]
    BY <2>1, HeapFields
  <2>. DEFINE w1 == [tree |-> t, pData |-> p, mxTrans |-> v.mxTrans, nRef |-> v.nRef,
                     payRef |-> v.payRef, fault |-> v.fault]
  <2>3. w = w1
    <3>. DEFINE x == w
    <3>1. x = [v EXCEPT !.pData[n] = Null, !.tree = t]
      OBVIOUS
    <3>. HIDE DEF x
    <3>2. x = [tree |-> t, pData |-> [v.pData EXCEPT ![n] = Null], mxTrans |-> v.mxTrans, nRef |-> v.nRef,
               payRef |-> v.payRef, fault |-> v.fault]
      BY <3>1, <2>2
    <3>. QED BY <3>2, <2>1 DEF x
  <2>4. p \in [Address -> Pointer] /\ t \in Trees
    BY <1>1, <1>3 DEF Pointer, Sound
  <2>. HIDE DEF w, p
  <2>5. w1 \in Heaps
    BY <2>1, <2>4, HeapFields, HeapsIntro
  <2>. QED BY <2>1, <2>3, <2>5
<1>6. p[n] = Null /\ \A m \in Address : m # n => p[m] = h.pData[m]
  BY <1>1
<1>. HIDE DEF w, p
<1>7. \A m \in Address : /\ h.nRef[m] = One(m \in T) + Count(at, Cursor, m) /\ Count(at, Cursor, m) \in Nat
                         /\ h.nRef[m] \in Nat /\ (m \notin T => h.pData[m] = Null)
  BY HeapFacts
<1>8. Unref(u, w, T2, n)
  <2>1. Sound(w.tree, T2) /\ n \notin T2 /\ w.pData[n] = Null
    BY <1>3, <1>5, <1>6
  <2>2. w.nRef[n] > One(n \in T2)
    BY <1>1, <1>5, <1>7, <2>1 DEF One
  <2>. HIDE DEF T2
  <2>. QED BY <2>1, <2>2, <1>1, <1>2, <1>5, NodeUnrefFacts
<1>9. /\ u \in Heaps /\ Sound(u.tree, T2) /\ u.pData = p /\ u.payRef = v.payRef /\ u.fault = h.fault
      /\ \A m \in Address : u.nRef[m] = h.nRef[m] - One(n = m)
  BY <1>5, <1>8 DEF Unref
<1>10. HeapSound(u, T2, at)
  <2>1. \A m \in Address : u.nRef[m] = One(m \in T2) + Count(at, Cursor, m)
    BY <1>7, <1>9 DEF One
  <2>2. \A m \in Address : m \notin T2 => u.pData[m] = Null
    BY <1>6, <1>7, <1>9
  <2>. HIDE DEF T2
  <2>. QED BY <2>1, <2>2, <1>9 DEF HeapSound
<1>11. ASSUME u.fault = "none", NEW e \in Address
       PROVE  u.payRef[e] = Count(u.pData, Address, e) + Count(hold, Cursor, e) + extra[e]
  <2>1. h.payRef[e] = Count(h.pData, Address, e) + Count(hold, Cursor, e) + extra[e]
    BY <1>9, <1>11 DEF Accounted, PayExact
  <2>2. IsFiniteSet(Address) /\ IsFiniteSet(Cursor)
    BY AddressFacts, KVMemTreeAssumption
  <2>3. Count(h.pData, Address, e) \in Nat /\ Count(hold, Cursor, e) \in Nat /\ extra[e] \in Int /\ One(d = e) \in Nat
    BY <2>2, CountType DEF One
  <2>4. u.payRef[e] = h.payRef[e] - One(d = e)
    BY <1>4, <1>9
  <2>5. Count(p, Address, e) = Count(h.pData, Address, e) - One(h.pData[n] = e) + One(p[n] = e)
    BY <2>2, <1>1, <1>6, CountPut
  <2>6. One(p[n] = e) = 0 /\ h.pData[n] = d
    BY <1>1, <1>6 DEF One, d
  <2>. QED BY <2>1, <2>3, <2>4, <2>5, <2>6, <1>9
<1>. QED BY <1>9, <1>10, <1>11 DEF Accounted, PayExact, u

\* A payload that a change record held is released.
LEMMA SettleSound ==
  ASSUME NEW h, NEW T, NEW at, HeapSound(h, T, at),
         NEW hold \in [Cursor -> Pointer], NEW extra \in [Address -> Int], Accounted(h, hold, extra),
         NEW d \in Pointer, NEW less \in [Address -> Int], \A e \in Address : extra[e] = less[e] + One(d = e)
  PROVE  LET u == DataUnref(h, d)
         IN HeapSound(u, T, at) /\ Accounted(u, hold, less) /\ u.fault = h.fault
<1>. DEFINE u == DataUnref(h, d)
<1>1. PayOnly(u, h) /\ \A e \in Address : u.payRef[e] = h.payRef[e] - One(d = e)
  BY DataUnrefFacts DEF HeapSound
<1>. HIDE DEF u
<1>2. HeapSound(u, T, at)
  BY <1>1, PayOnlySound
<1>3. ASSUME u.fault = "none", NEW e \in Address
      PROVE  u.payRef[e] = Count(u.pData, Address, e) + Count(hold, Cursor, e) + less[e]
  <2>1. h.payRef[e] = Count(h.pData, Address, e) + Count(hold, Cursor, e) + extra[e] /\ u.pData = h.pData
    BY <1>1, <1>3 DEF Accounted, PayExact, PayOnly
  <2>2. IsFiniteSet(Address) /\ IsFiniteSet(Cursor)
    BY AddressFacts, KVMemTreeAssumption
  <2>3. Count(h.pData, Address, e) \in Nat /\ Count(hold, Cursor, e) \in Nat /\ less[e] \in Int /\ One(d = e) \in Nat
    BY <2>2, CountType DEF One
  <2>. QED BY <2>1, <2>3, <1>1
<1>. QED BY <1>1, <1>2, <1>3 DEF Accounted, PayExact, PayOnly, u

\* Only the owner of a node, or the fault, changes.
LEMMA RelabelSound ==
  ASSUME NEW h, NEW T, NEW at, HeapSound(h, T, at),
         NEW hold \in [Cursor -> Pointer], NEW extra \in [Address -> Int], Accounted(h, hold, extra),
         NEW u \in Heaps, u.tree = h.tree, u.nRef = h.nRef, u.pData = h.pData, u.payRef = h.payRef,
         u.fault \in {h.fault, "log", "cursor"}
  PROVE  HeapSound(u, T, at) /\ Accounted(u, hold, extra)
<1>1. HeapSound(u, T, at)
  BY DEF HeapSound
<1>2. u.fault = "none" => h.fault = "none"
  OBVIOUS
<1>. QED BY <1>1, <1>2 DEF Accounted, PayExact

\* Noting a fault keeps the nodes sound.
LEMMA FaultSound ==
  ASSUME NEW h, NEW T, NEW at, HeapSound(h, T, at), NEW f \in {"log", "cursor"},
         NEW hold, NEW extra
  PROVE  LET u == [h EXCEPT !.fault = f]
         IN HeapSound(u, T, at) /\ Accounted(u, hold, extra) /\ u.fault = f
<1>. DEFINE u == [h EXCEPT !.fault = f]
            v == [tree |-> h.tree, pData |-> h.pData, mxTrans |-> h.mxTrans,
                  nRef |-> h.nRef, payRef |-> h.payRef, fault |-> f]
<1>1. h \in Heaps
  BY DEF HeapSound
<1>2. u = v
  <2>. DEFINE x == u
  <2>1. x = [h EXCEPT !.fault = f] /\ h = [tree |-> h.tree, pData |-> h.pData, mxTrans |-> h.mxTrans,
                 nRef |-> h.nRef, payRef |-> h.payRef, fault |-> h.fault]
    BY <1>1, HeapFields
  <2>. HIDE DEF x
  <2>2. x = v
    BY <2>1
  <2>. QED BY <2>2 DEF x
<1>3. v \in Heaps
  BY <1>1, HeapFields, HeapsIntro DEF Faults
<1>. HIDE DEF u
<1>4. /\ u \in Heaps /\ u.tree = h.tree /\ u.nRef = h.nRef /\ u.pData = h.pData /\ u.fault = f
  BY <1>2, <1>3
<1>5. HeapSound(u, T, at)
  BY <1>4 DEF HeapSound
<1>. QED BY <1>4, <1>5 DEF Accounted, u

-----------------------------------------------------------------------------
(* The loops over change records.                                          *)

\* A heap in order.
Kept(h, at, hold, extra) == \E T : HeapSound(h, T, at) /\ Accounted(h, hold, extra)

\* The next record of a list costs no reference.
OneLess(extra, less, r) ==
    less \in [Address -> Int] /\ \A e \in Address : extra[e] = less[e] + One(r.pData = e)

\* One record in the loop of kvmemCommitPhaseTwo.
LEMMA CommitRecordKept ==
  ASSUME NEW at \in [Cursor -> Pointer], NEW hold \in [Cursor -> Pointer], NEW extra \in [Address -> Int],
         NEW h, Kept(h, at, hold, extra), NEW r \in Record, NEW less, OneLess(extra, less, r)
  PROVE  Kept(CommitRecord(h, r), at, hold, less) /\ CommitRecord(h, r).fault \in {h.fault, "log"}
<1>. DEFINE v == IF r.node \notin InTree(h) THEN [h EXCEPT !.fault = "log"]
                 ELSE IF h.pData[r.node] # Null
                 THEN [h EXCEPT !.mxTrans[r.node] = r.oldTrans]
                 ELSE RemoveNode(h, r.node)
<1>0. PICK T : HeapSound(h, T, at) /\ Accounted(h, hold, extra)
  BY DEF Kept
<1>1. r.node \in Address /\ r.pData \in Pointer /\ r.oldTrans \in Nat
  BY DEF Record
<1>2. InTree(h) = T /\ T \subseteq Address /\ h \in Heaps
  BY <1>0, HeapFacts
<1>3. CommitRecord(h, r) = DataUnref(v, r.pData)
  BY DEF CommitRecord
<1>4. \E T2 : HeapSound(v, T2, at) /\ Accounted(v, hold, extra) /\ v.fault \in {h.fault, "log"}
  <2>1. CASE r.node \notin T
    <3>1. v = [h EXCEPT !.fault = "log"]
      BY <2>1, <1>2
    <3>. HIDE DEF v
    <3>2. HeapSound(v, T, at) /\ Accounted(v, hold, extra) /\ v.fault = "log"
      BY <3>1, <1>0, FaultSound
    <3>. QED BY <3>2
  <2>2. CASE r.node \in T /\ h.pData[r.node] # Null
    <3>. DEFINE x == [h.mxTrans EXCEPT ![r.node] = r.oldTrans]
                w == [tree |-> h.tree, pData |-> h.pData, mxTrans |-> x,
                      nRef |-> h.nRef, payRef |-> h.payRef, fault |-> h.fault]
    <3>1. v = [h EXCEPT !.mxTrans[r.node] = r.oldTrans]
      BY <2>2, <1>2
    <3>. HIDE DEF v
    <3>2. v = w
      BY <3>1, <1>2, HeapFields
    <3>3. x \in [Address -> Nat]
      BY <1>1, <1>2, HeapFields
    <3>. HIDE DEF x
    <3>4. w \in Heaps
      BY <3>3, <1>2, HeapFields, HeapsIntro
    <3>5. /\ v \in Heaps /\ v.tree = h.tree /\ v.nRef = h.nRef /\ v.pData = h.pData /\ v.payRef = h.payRef
          /\ v.fault = h.fault
      BY <3>2, <3>4
    <3>6. HeapSound(v, T, at) /\ Accounted(v, hold, extra)
      BY <3>5, <1>0, RelabelSound
    <3>. QED BY <3>5, <3>6
  <2>3. CASE r.node \in T /\ h.pData[r.node] = Null
    <3>1. v = RemoveNode(h, r.node)
      BY <2>3, <1>2
    <3>. HIDE DEF v
    <3>2. HeapSound(v, T \ {r.node}, at) /\ Accounted(v, hold, extra) /\ v.fault = h.fault
      BY <3>1, <2>3, <1>0, RemoveSound
    <3>. QED BY <3>2
  <2>. QED BY <2>1, <2>2, <2>3
<1>. HIDE DEF v
<1>5. PICK T2 : HeapSound(v, T2, at) /\ Accounted(v, hold, extra) /\ v.fault \in {h.fault, "log"}
  BY <1>4
<1>. DEFINE u == DataUnref(v, r.pData)
<1>6. HeapSound(u, T2, at) /\ Accounted(u, hold, less) /\ u.fault = v.fault
  BY <1>1, <1>5, SettleSound DEF OneLess
<1>. HIDE DEF u
<1>. QED BY <1>3, <1>5, <1>6 DEF Kept, u

\* One record in the loop of kvmemRollback.
LEMMA UndoRecordKept ==
  ASSUME NEW at \in [Cursor -> Pointer], NEW hold \in [Cursor -> Pointer], NEW extra \in [Address -> Int],
         NEW h, Kept(h, at, hold, extra), NEW r \in Record, NEW less, OneLess(extra, less, r)
  PROVE  Kept(UndoRecord(h, r), at, hold, less) /\ UndoRecord(h, r).fault \in {h.fault, "log"}
<1>. DEFINE u == UndoRecord(h, r)
            n == r.node
<1>0. PICK T : HeapSound(h, T, at) /\ Accounted(h, hold, extra)
  BY DEF Kept
<1>1. n \in Address /\ r.pData \in Pointer /\ r.oldTrans \in Nat /\ Null \notin Address
  BY AddressFacts DEF Record
<1>2. InTree(h) = T /\ T \subseteq Address /\ h \in Heaps /\ h.pData[n] \in Pointer
  BY <1>0, <1>1, HeapFacts
<1>a. less \in [Address -> Int] /\ \A e \in Address : extra[e] = less[e] + One(r.pData = e)
  BY DEF OneLess
<1>3. CASE n \notin T
  <2>1. u = [h EXCEPT !.fault = "log"]
    BY <1>2, <1>3 DEF UndoRecord
  <2>. HIDE DEF u
  <2>2. HeapSound(u, T, at) /\ Accounted(u, hold, less) /\ u.fault = "log"
    BY <2>1, <1>0, FaultSound
  <2>. QED BY <2>2 DEF u, Kept
<1>4. CASE n \in T /\ (r.pData # Null \/ r.oldTrans > 0)
  <2>. DEFINE v == DataUnref(h, h.pData[n])
              p == [h.pData EXCEPT ![n] = r.pData]
              x == [v.mxTrans EXCEPT ![n] = r.oldTrans]
              w == [tree |-> v.tree, pData |-> p, mxTrans |-> x,
                    nRef |-> v.nRef, payRef |-> v.payRef, fault |-> v.fault]
  <2>1. u = [v EXCEPT !.pData[n] = r.pData, !.mxTrans[n] = r.oldTrans]
    BY <1>2, <1>4 DEF UndoRecord
  <2>2. PayOnly(v, h) /\ \A e \in Address : v.payRef[e] = h.payRef[e] - One(h.pData[n] = e)
    BY <1>2, DataUnrefFacts
  <2>. HIDE DEF v, u
  <2>3. v \in Heaps /\ v.tree = h.tree /\ v.pData = h.pData /\ v.nRef = h.nRef /\ v.fault = h.fault
    BY <2>2 DEF PayOnly
  <2>4. u = w
    <3>1. v = [tree |-> v.tree, pData |-> v.pData, mxTrans |-> v.mxTrans,
               nRef |-> v.nRef, payRef |-> v.payRef, fault |-> v.fault]
      BY <2>3, HeapFields
    <3>2. u = [tree |-> v.tree, pData |-> [v.pData EXCEPT ![n] = r.pData], mxTrans |-> x,
               nRef |-> v.nRef, payRef |-> v.payRef, fault |-> v.fault]
      BY <2>1, <3>1
    <3>. QED BY <3>2, <2>3
  <2>5. x \in [Address -> Nat] /\ p \in [Address -> Pointer]
    BY <1>1, <1>2, <2>3, HeapFields
  <2>6. p = [h.pData EXCEPT ![n] = r.pData]
    OBVIOUS
  <2>. HIDE DEF x, p
  <2>7. w \in Heaps
    BY <2>3, <2>5, HeapFields, HeapsIntro
  <2>8. u \in Heaps /\ u.tree = h.tree /\ u.nRef = h.nRef /\ u.pData = p /\ u.payRef = v.payRef /\ u.fault = h.fault
    BY <2>3, <2>4, <2>7
  <2>9. /\ HeapSound(u, T, at)
        /\ \A e \in Address : Count(u.pData, Address, e)
                                 = Count(h.pData, Address, e) - One(h.pData[n] = e) + One(r.pData = e)
    BY <2>6, <2>8, <1>0, <1>1, <1>4, PutSound
  <2>10. ASSUME u.fault = "none", NEW e \in Address
         PROVE  u.payRef[e] = Count(u.pData, Address, e) + Count(hold, Cursor, e) + less[e]
    <3>1. h.payRef[e] = Count(h.pData, Address, e) + Count(hold, Cursor, e) + extra[e]
      BY <1>0, <2>8, <2>10 DEF Accounted, PayExact
    <3>2. IsFiniteSet(Address) /\ IsFiniteSet(Cursor)
      BY AddressFacts, KVMemTreeAssumption
    <3>3. Count(h.pData, Address, e) \in Nat /\ Count(hold, Cursor, e) \in Nat /\ less[e] \in Int
      BY <3>2, <1>a, CountType
    <3>4. One(h.pData[n] = e) \in Nat /\ One(r.pData = e) \in Nat
      BY DEF One
    <3>5. u.payRef[e] = h.payRef[e] - One(h.pData[n] = e)
      BY <2>2, <2>8
    <3>6. Count(u.pData, Address, e) = Count(h.pData, Address, e) - One(h.pData[n] = e) + One(r.pData = e)
      BY <2>9
    <3>7. extra[e] = less[e] + One(r.pData = e)
      BY <1>a
    <3>. QED BY <3>1, <3>3, <3>4, <3>5, <3>6, <3>7
  <2>. QED BY <2>8, <2>9, <2>10 DEF Kept, Accounted, PayExact, u
<1>5. CASE n \in T /\ ~(r.pData # Null \/ r.oldTrans > 0)
  <2>1. u = RemoveNode(h, n)
    BY <1>2, <1>5 DEF UndoRecord
  <2>2. \A e \in Address : extra[e] = less[e]
    BY <1>1, <1>5, <1>a DEF One
  <2>3. Accounted(h, hold, less)
    BY <2>2, <1>0 DEF Accounted, PayExact
  <2>. HIDE DEF u, n
  <2>4. HeapSound(u, T \ {n}, at) /\ Accounted(u, hold, less) /\ u.fault = h.fault
    BY <2>1, <2>3, <1>0, <1>5, <1>a, RemoveSound
  <2>. QED BY <2>4 DEF Kept, u
<1>. QED BY <1>3, <1>4, <1>5

\* The loops over a list of records: of kvmemCommitPhaseTwo and of kvmemRollback.
LEMMA CommitRecordsKept ==
  ASSUME NEW at \in [Cursor -> Pointer], NEW hold \in [Cursor -> Pointer], NEW base \in [Address -> Int],
         NEW log \in Seq(Record), NEW extra \in [Address -> Int],
         \A e \in Address : extra[e] = Tally(log, e) + base[e],
         NEW h, Kept(h, at, hold, extra)
  PROVE  Kept(CommitRecords(h, log), at, hold, base) /\ CommitRecords(h, log).fault \in {h.fault, "log"}
<1>. DEFINE N == Len(log)
            Left(i) == [e \in Address |-> TallyFrom(log, i + 1, e) + base[e]]
            Good(i, x) == Kept(x, at, hold, Left(i)) /\ x.fault \in {h.fault, "log"}
            R == {p \in (0..N) \X Heaps : Good(p[1], p[2])}
            next == [p \in R |-> CommitRecord(p[2], log[p[1] + 1])]
            Is(f) == f = [i \in 0..N |-> IF i = 0 THEN h ELSE CommitRecord(f[i - 1], log[i])]
            done == CHOOSE f : Is(f)
<1>1. N \in Nat
  OBVIOUS
<1>2. \A x, a : Kept(x, at, hold, a) => x \in Heaps
  BY DEF Kept, HeapSound
<1>3. \A e \in Address : TallyParts(log, e)
  BY TallyFacts
<1>4. Left(0) = extra
  <2>1. \A e \in Address : TallyFrom(log, 0 + 1, e) + base[e] = extra[e]
    BY <1>3 DEF TallyParts
  <2>. QED BY <2>1
<1>5. Left(N) = base
  <2>1. \A e \in Address : TallyFrom(log, N + 1, e) + base[e] = base[e]
    BY <1>3 DEF TallyParts
  <2>. QED BY <2>1
<1>6. ASSUME NEW i \in 0..(N - 1)
      PROVE  Left(i) \in [Address -> Int] /\ OneLess(Left(i), Left(i + 1), log[i + 1]) /\ log[i + 1] \in Record
  <2>1. i + 1 \in 1..N /\ (i + 1) + 1 = i + 2
    BY <1>1
  <2>2. ASSUME NEW e \in Address
        PROVE  /\ TallyFrom(log, i + 1, e) = One(log[i + 1].pData = e) + TallyFrom(log, (i + 1) + 1, e)
               /\ TallyFrom(log, (i + 1) + 1, e) \in Nat /\ One(log[i + 1].pData = e) \in Nat
    <3>1. \A j \in 1..N : /\ TallyFrom(log, j, e) = One(log[j].pData = e) + TallyFrom(log, j + 1, e)
                          /\ TallyFrom(log, j + 1, e) \in Nat
      BY <1>3 DEF TallyParts
    <3>. HIDE DEF N
    <3>2. One(log[i + 1].pData = e) \in Nat
      BY DEF One
    <3>. QED BY <2>1, <3>1, <3>2
  <2>3. log[i + 1] \in Record
    <3>1. log \in [1..N -> Record]
      OBVIOUS
    <3>. QED BY <3>1, <2>1
  <2>4. \A e \in Address : /\ TallyFrom(log, i + 1, e) + base[e] \in Int
                           /\ TallyFrom(log, (i + 1) + 1, e) + base[e] \in Int
                           /\ TallyFrom(log, i + 1, e) + base[e]
                                = TallyFrom(log, (i + 1) + 1, e) + base[e] + One(log[i + 1].pData = e)
    <3>. SUFFICES ASSUME NEW e \in Address
                  PROVE /\ TallyFrom(log, i + 1, e) + base[e] \in Int
                        /\ TallyFrom(log, (i + 1) + 1, e) + base[e] \in Int
                        /\ TallyFrom(log, i + 1, e) + base[e]
                             = TallyFrom(log, (i + 1) + 1, e) + base[e] + One(log[i + 1].pData = e)
      OBVIOUS
    <3>1. base[e] \in Int
      OBVIOUS
    <3>. QED BY <2>2, <3>1
  <2>5. Left(i) \in [Address -> Int] /\ Left(i + 1) \in [Address -> Int]
    BY <2>4
  <2>6. \A e \in Address : Left(i)[e] = Left(i + 1)[e] + One(log[i + 1].pData = e)
    BY <2>4
  <2>. HIDE DEF Left
  <2>. QED BY <2>3, <2>5, <2>6 DEF OneLess
<1>. HIDE DEF Left, N
<1>7. <<0, h>> \in R
  <2>1. Good(0, h) /\ h \in Heaps /\ 0 \in 0..N
    BY <1>1, <1>2, <1>4
  <2>. HIDE DEF Good
  <2>. QED BY <2>1
<1>8. ASSUME NEW i \in 0..(N - 1), NEW x, <<i, x>> \in R
      PROVE  <<i + 1, CommitRecord(x, log[i + 1])>> \in R
  <2>1. Kept(x, at, hold, Left(i)) /\ x.fault \in {h.fault, "log"}
    BY <1>8
  <2>. DEFINE y == CommitRecord(x, log[i + 1])
  <2>2. Kept(y, at, hold, Left(i + 1)) /\ y.fault \in {x.fault, "log"}
    BY <2>1, <1>6, CommitRecordKept
  <2>. HIDE DEF y
  <2>3. Good(i + 1, y) /\ y \in Heaps /\ i + 1 \in 0..N
    BY <2>1, <2>2, <1>1, <1>2
  <2>. HIDE DEF Good
  <2>4. <<i + 1, y>> \in R
    BY <2>3
  <2>. QED BY <2>4 DEF y
<1>9. \E f : Is(f)
  <2>1. \A i \in 0..(N - 1) : \A x : <<i, x>> \in R =>
           <<i + 1, next[<<i, x>>]>> \in R /\ next[<<i, x>>] = CommitRecord(x, log[i + 1])
    <3>. SUFFICES ASSUME NEW i \in 0..(N - 1), NEW x, <<i, x>> \in R
                  PROVE  <<i + 1, next[<<i, x>>]>> \in R /\ next[<<i, x>>] = CommitRecord(x, log[i + 1])
      OBVIOUS
    <3>. HIDE DEF R
    <3>1. next[<<i, x>>] = CommitRecord(x, log[i + 1])
      OBVIOUS
    <3>. HIDE DEF next
    <3>. QED BY <3>1, <1>8
  <2>. HIDE DEF next, R
  <2>2. PICK f : Iterated(f, N, h, next, R)
    BY <1>1, <1>7, <2>1, Iteration
  <2>3. /\ f = [i \in 0..N |-> IF i = 0 THEN h ELSE next[<<i - 1, f[i - 1]>>]]
        /\ \A i \in 0..N : <<i, f[i]>> \in R
    BY <2>2 DEF Iterated
  <2>4. ASSUME NEW i \in 0..N, i # 0 PROVE next[<<i - 1, f[i - 1]>>] = CommitRecord(f[i - 1], log[i])
    <3>1. i - 1 \in 0..(N - 1) /\ i - 1 \in 0..N /\ (i - 1) + 1 = i
      BY <2>4, <1>1
    <3>2. <<i - 1, f[i - 1]>> \in R
      BY <3>1, <2>3
    <3>3. next[<<i - 1, f[i - 1]>>] = CommitRecord(f[i - 1], log[(i - 1) + 1])
      BY <3>1, <3>2, <2>1
    <3>. QED BY <3>1, <3>3
  <2>5. Is(f)
    BY <2>3, <2>4
  <2>. HIDE DEF Is
  <2>. QED BY <2>5
<1>10. Is(done)
  <2>. HIDE DEF Is
  <2>. QED BY <1>9
<1>11. CommitRecords(h, log) = done[N]
  BY DEF CommitRecords, N
<1>. HIDE DEF done
<1>12. N \in {i \in 0..N : <<i, done[i]>> \in R}
  <2>. DEFINE A == {i \in 0..N : <<i, done[i]>> \in R}
  <2>. HIDE DEF R
  <2>1. 0 \in A
    <3>1. done[0] = h /\ 0 \in 0..N
      BY <1>1, <1>10
    <3>. QED BY <3>1, <1>7
  <2>2. ASSUME NEW i \in 0..(N - 1), i \in A PROVE i + 1 \in A
    <3>1. i + 1 \in 0..N /\ i + 1 # 0 /\ (i + 1) - 1 = i
      BY <1>1
    <3>2. done[i + 1] = CommitRecord(done[i], log[i + 1])
      BY <3>1, <1>10
    <3>3. <<i + 1, CommitRecord(done[i], log[i + 1])>> \in R
      BY <2>2, <1>8
    <3>. QED BY <3>1, <3>2, <3>3
  <2>. HIDE DEF A
  <2>3. 0..N \subseteq A
    BY <2>1, <2>2, <1>1, InductionUpTo
  <2>. QED BY <2>3, <1>1 DEF A
<1>13. Good(N, done[N])
  <2>. HIDE DEF Good
  <2>. QED BY <1>12
<1>. QED BY <1>5, <1>11, <1>13

\* All records in the loop of kvmemRollback.
LEMMA UndoRecordsKept ==
  ASSUME NEW at \in [Cursor -> Pointer], NEW hold \in [Cursor -> Pointer], NEW base \in [Address -> Int],
         NEW log \in Seq(Record), NEW extra \in [Address -> Int],
         \A e \in Address : extra[e] = Tally(log, e) + base[e],
         NEW h, Kept(h, at, hold, extra)
  PROVE  Kept(UndoRecords(h, log), at, hold, base) /\ UndoRecords(h, log).fault \in {h.fault, "log"}
<1>. DEFINE N == Len(log)
            Left(i) == [e \in Address |-> TallyFrom(log, i + 1, e) + base[e]]
            Good(i, x) == Kept(x, at, hold, Left(i)) /\ x.fault \in {h.fault, "log"}
            R == {p \in (0..N) \X Heaps : Good(p[1], p[2])}
            next == [p \in R |-> UndoRecord(p[2], log[p[1] + 1])]
            Is(f) == f = [i \in 0..N |-> IF i = 0 THEN h ELSE UndoRecord(f[i - 1], log[i])]
            done == CHOOSE f : Is(f)
<1>1. N \in Nat
  OBVIOUS
<1>2. \A x, a : Kept(x, at, hold, a) => x \in Heaps
  BY DEF Kept, HeapSound
<1>3. \A e \in Address : TallyParts(log, e)
  BY TallyFacts
<1>4. Left(0) = extra
  <2>1. \A e \in Address : TallyFrom(log, 0 + 1, e) + base[e] = extra[e]
    BY <1>3 DEF TallyParts
  <2>. QED BY <2>1
<1>5. Left(N) = base
  <2>1. \A e \in Address : TallyFrom(log, N + 1, e) + base[e] = base[e]
    BY <1>3 DEF TallyParts
  <2>. QED BY <2>1
<1>6. ASSUME NEW i \in 0..(N - 1)
      PROVE  Left(i) \in [Address -> Int] /\ OneLess(Left(i), Left(i + 1), log[i + 1]) /\ log[i + 1] \in Record
  <2>1. i + 1 \in 1..N /\ (i + 1) + 1 = i + 2
    BY <1>1
  <2>2. ASSUME NEW e \in Address
        PROVE  /\ TallyFrom(log, i + 1, e) = One(log[i + 1].pData = e) + TallyFrom(log, (i + 1) + 1, e)
               /\ TallyFrom(log, (i + 1) + 1, e) \in Nat /\ One(log[i + 1].pData = e) \in Nat
    <3>1. \A j \in 1..N : /\ TallyFrom(log, j, e) = One(log[j].pData = e) + TallyFrom(log, j + 1, e)
                          /\ TallyFrom(log, j + 1, e) \in Nat
      BY <1>3 DEF TallyParts
    <3>. HIDE DEF N
    <3>2. One(log[i + 1].pData = e) \in Nat
      BY DEF One
    <3>. QED BY <2>1, <3>1, <3>2
  <2>3. log[i + 1] \in Record
    <3>1. log \in [1..N -> Record]
      OBVIOUS
    <3>. QED BY <3>1, <2>1
  <2>4. \A e \in Address : /\ TallyFrom(log, i + 1, e) + base[e] \in Int
                           /\ TallyFrom(log, (i + 1) + 1, e) + base[e] \in Int
                           /\ TallyFrom(log, i + 1, e) + base[e]
                                = TallyFrom(log, (i + 1) + 1, e) + base[e] + One(log[i + 1].pData = e)
    <3>. SUFFICES ASSUME NEW e \in Address
                  PROVE /\ TallyFrom(log, i + 1, e) + base[e] \in Int
                        /\ TallyFrom(log, (i + 1) + 1, e) + base[e] \in Int
                        /\ TallyFrom(log, i + 1, e) + base[e]
                             = TallyFrom(log, (i + 1) + 1, e) + base[e] + One(log[i + 1].pData = e)
      OBVIOUS
    <3>1. base[e] \in Int
      OBVIOUS
    <3>. QED BY <2>2, <3>1
  <2>5. Left(i) \in [Address -> Int] /\ Left(i + 1) \in [Address -> Int]
    BY <2>4
  <2>6. \A e \in Address : Left(i)[e] = Left(i + 1)[e] + One(log[i + 1].pData = e)
    BY <2>4
  <2>. HIDE DEF Left
  <2>. QED BY <2>3, <2>5, <2>6 DEF OneLess
<1>. HIDE DEF Left, N
<1>7. <<0, h>> \in R
  <2>1. Good(0, h) /\ h \in Heaps /\ 0 \in 0..N
    BY <1>1, <1>2, <1>4
  <2>. HIDE DEF Good
  <2>. QED BY <2>1
<1>8. ASSUME NEW i \in 0..(N - 1), NEW x, <<i, x>> \in R
      PROVE  <<i + 1, UndoRecord(x, log[i + 1])>> \in R
  <2>1. Kept(x, at, hold, Left(i)) /\ x.fault \in {h.fault, "log"}
    BY <1>8
  <2>. DEFINE y == UndoRecord(x, log[i + 1])
  <2>2. Kept(y, at, hold, Left(i + 1)) /\ y.fault \in {x.fault, "log"}
    BY <2>1, <1>6, UndoRecordKept
  <2>. HIDE DEF y
  <2>3. Good(i + 1, y) /\ y \in Heaps /\ i + 1 \in 0..N
    BY <2>1, <2>2, <1>1, <1>2
  <2>. HIDE DEF Good
  <2>4. <<i + 1, y>> \in R
    BY <2>3
  <2>. QED BY <2>4 DEF y
<1>9. \E f : Is(f)
  <2>1. \A i \in 0..(N - 1) : \A x : <<i, x>> \in R =>
           <<i + 1, next[<<i, x>>]>> \in R /\ next[<<i, x>>] = UndoRecord(x, log[i + 1])
    <3>. SUFFICES ASSUME NEW i \in 0..(N - 1), NEW x, <<i, x>> \in R
                  PROVE  <<i + 1, next[<<i, x>>]>> \in R /\ next[<<i, x>>] = UndoRecord(x, log[i + 1])
      OBVIOUS
    <3>. HIDE DEF R
    <3>1. next[<<i, x>>] = UndoRecord(x, log[i + 1])
      OBVIOUS
    <3>. HIDE DEF next
    <3>. QED BY <3>1, <1>8
  <2>. HIDE DEF next, R
  <2>2. PICK f : Iterated(f, N, h, next, R)
    BY <1>1, <1>7, <2>1, Iteration
  <2>3. /\ f = [i \in 0..N |-> IF i = 0 THEN h ELSE next[<<i - 1, f[i - 1]>>]]
        /\ \A i \in 0..N : <<i, f[i]>> \in R
    BY <2>2 DEF Iterated
  <2>4. ASSUME NEW i \in 0..N, i # 0 PROVE next[<<i - 1, f[i - 1]>>] = UndoRecord(f[i - 1], log[i])
    <3>1. i - 1 \in 0..(N - 1) /\ i - 1 \in 0..N /\ (i - 1) + 1 = i
      BY <2>4, <1>1
    <3>2. <<i - 1, f[i - 1]>> \in R
      BY <3>1, <2>3
    <3>3. next[<<i - 1, f[i - 1]>>] = UndoRecord(f[i - 1], log[(i - 1) + 1])
      BY <3>1, <3>2, <2>1
    <3>. QED BY <3>1, <3>3
  <2>5. Is(f)
    BY <2>3, <2>4
  <2>. HIDE DEF Is
  <2>. QED BY <2>5
<1>10. Is(done)
  <2>. HIDE DEF Is
  <2>. QED BY <1>9
<1>11. UndoRecords(h, log) = done[N]
  BY DEF UndoRecords, N
<1>. HIDE DEF done
<1>12. N \in {i \in 0..N : <<i, done[i]>> \in R}
  <2>. DEFINE A == {i \in 0..N : <<i, done[i]>> \in R}
  <2>. HIDE DEF R
  <2>1. 0 \in A
    <3>1. done[0] = h /\ 0 \in 0..N
      BY <1>1, <1>10
    <3>. QED BY <3>1, <1>7
  <2>2. ASSUME NEW i \in 0..(N - 1), i \in A PROVE i + 1 \in A
    <3>1. i + 1 \in 0..N /\ i + 1 # 0 /\ (i + 1) - 1 = i
      BY <1>1
    <3>2. done[i + 1] = UndoRecord(done[i], log[i + 1])
      BY <3>1, <1>10
    <3>3. <<i + 1, UndoRecord(done[i], log[i + 1])>> \in R
      BY <2>2, <1>8
    <3>. QED BY <3>1, <3>2, <3>3
  <2>. HIDE DEF A
  <2>3. 0..N \subseteq A
    BY <2>1, <2>2, <1>1, InductionUpTo
  <2>. QED BY <2>3, <1>1 DEF A
<1>13. Good(N, done[N])
  <2>. HIDE DEF Good
  <2>. QED BY <1>12
<1>. QED BY <1>5, <1>11, <1>13

-----------------------------------------------------------------------------
(* Writing a row.                                                          *)

\* The heaps that a write leaves.
Exchanged(h, n, d, l) == [h EXCEPT !.mxTrans[n] = l, !.pData[n] = d]
Overwritten(h, n, d) == [DataUnref(h, h.pData[n]) EXCEPT !.pData[n] = d]
Issued(h, d) == [h EXCEPT !.payRef[d] = 1]
Grown(h, n, up, d, l) ==
    [h EXCEPT !.pData[n] = d, !.nRef[n] = 1, !.mxTrans[n] = l,
              !.tree = Balance(AddLeaf(@, n, up), n)]

\* A node of the tree gets the payload d, the record of the change the old one.
LEMMA NewChngSound ==
  ASSUME NEW h, NEW T, NEW at, HeapSound(h, T, at),
         NEW hold \in [Cursor -> Pointer], NEW extra \in [Address -> Int], Accounted(h, hold, extra),
         NEW n \in T, NEW d \in Pointer, NEW l \in Nat, NEW extra2 \in [Address -> Int],
         \A e \in Address : extra2[e] = extra[e] + One(h.pData[n] = e) - One(d = e)
  PROVE  /\ HeapSound(Exchanged(h, n, d, l), T, at)
         /\ Accounted(Exchanged(h, n, d, l), hold, extra2)
<1>. DEFINE u == Exchanged(h, n, d, l)
            p == [h.pData EXCEPT ![n] = d]
            x == [h.mxTrans EXCEPT ![n] = l]
            w == [tree |-> h.tree, pData |-> p, mxTrans |-> x,
                  nRef |-> h.nRef, payRef |-> h.payRef, fault |-> h.fault]
<1>1. h \in Heaps /\ n \in Address /\ h.pData[n] \in Pointer
  BY HeapFacts
<1>2. u = w
  <2>. DEFINE v == u
  <2>1. v = [h EXCEPT !.mxTrans[n] = l, !.pData[n] = d]
    BY DEF Exchanged
  <2>2. h = [tree |-> h.tree, pData |-> h.pData, mxTrans |-> h.mxTrans,
             nRef |-> h.nRef, payRef |-> h.payRef, fault |-> h.fault]
    BY <1>1, HeapFields
  <2>. HIDE DEF v
  <2>3. v = w
    BY <2>1, <2>2
  <2>. QED BY <2>3 DEF v
<1>3. p \in [Address -> Pointer] /\ x \in [Address -> Nat]
  BY <1>1, HeapFields
<1>4. p = [h.pData EXCEPT ![n] = d]
  OBVIOUS
<1>. HIDE DEF u, p, x
<1>5. w \in Heaps
  BY <1>1, <1>3, HeapFields, HeapsIntro
<1>6. u \in Heaps /\ u.tree = h.tree /\ u.nRef = h.nRef /\ u.pData = p /\ u.payRef = h.payRef /\ u.fault = h.fault
  BY <1>2, <1>5
<1>7. /\ HeapSound(u, T, at)
      /\ \A e \in Address : Count(u.pData, Address, e)
                               = Count(h.pData, Address, e) - One(h.pData[n] = e) + One(d = e)
  BY <1>4, <1>6, PutSound
<1>8. ASSUME u.fault = "none", NEW e \in Address
      PROVE  u.payRef[e] = Count(u.pData, Address, e) + Count(hold, Cursor, e) + extra2[e]
  <2>1. h.payRef[e] = Count(h.pData, Address, e) + Count(hold, Cursor, e) + extra[e]
    BY <1>6, <1>8 DEF Accounted, PayExact
  <2>2. IsFiniteSet(Address) /\ IsFiniteSet(Cursor)
    BY AddressFacts, KVMemTreeAssumption
  <2>3. Count(h.pData, Address, e) \in Nat /\ Count(hold, Cursor, e) \in Nat /\ extra[e] \in Int
    BY <2>2, CountType
  <2>4. One(h.pData[n] = e) \in Nat /\ One(d = e) \in Nat
    BY DEF One
  <2>. QED BY <2>1, <2>3, <2>4, <1>6, <1>7
<1>. QED BY <1>7, <1>8 DEF Accounted, PayExact, u

\* A node of the tree gets the payload d, the old one is released.
LEMMA OverwriteSound ==
  ASSUME NEW h, NEW T, NEW at, HeapSound(h, T, at),
         NEW hold \in [Cursor -> Pointer], NEW extra \in [Address -> Int], Accounted(h, hold, extra),
         NEW n \in T, NEW d \in Pointer, NEW extra2 \in [Address -> Int],
         \A e \in Address : extra2[e] = extra[e] - One(d = e)
  PROVE  /\ HeapSound(Overwritten(h, n, d), T, at)
         /\ Accounted(Overwritten(h, n, d), hold, extra2)
<1>. DEFINE v == DataUnref(h, h.pData[n])
            u == Overwritten(h, n, d)
            p == [h.pData EXCEPT ![n] = d]
            w == [tree |-> v.tree, pData |-> p, mxTrans |-> v.mxTrans,
                  nRef |-> v.nRef, payRef |-> v.payRef, fault |-> v.fault]
<1>1. h \in Heaps /\ n \in Address /\ h.pData[n] \in Pointer
  BY HeapFacts
<1>2. PayOnly(v, h) /\ \A e \in Address : v.payRef[e] = h.payRef[e] - One(h.pData[n] = e)
  BY <1>1, DataUnrefFacts
<1>0. u = [v EXCEPT !.pData[n] = d]
  BY DEF Overwritten
<1>. HIDE DEF v
<1>3. v \in Heaps /\ v.tree = h.tree /\ v.pData = h.pData /\ v.nRef = h.nRef /\ v.fault = h.fault
  BY <1>2 DEF PayOnly
<1>4. u = w
  <2>. DEFINE x == u
  <2>1. x = [v EXCEPT !.pData[n] = d]
    BY <1>0
  <2>2. v = [tree |-> v.tree, pData |-> v.pData, mxTrans |-> v.mxTrans,
             nRef |-> v.nRef, payRef |-> v.payRef, fault |-> v.fault]
    BY <1>3, HeapFields
  <2>. HIDE DEF x
  <2>3. x = [tree |-> v.tree, pData |-> [v.pData EXCEPT ![n] = d], mxTrans |-> v.mxTrans,
             nRef |-> v.nRef, payRef |-> v.payRef, fault |-> v.fault]
    BY <2>1, <2>2
  <2>. QED BY <2>3, <1>3 DEF x
<1>5. p \in [Address -> Pointer]
  BY <1>1, HeapFields
<1>6. p = [h.pData EXCEPT ![n] = d]
  OBVIOUS
<1>. HIDE DEF u, p
<1>7. w \in Heaps
  BY <1>3, <1>5, HeapFields, HeapsIntro
<1>8. u \in Heaps /\ u.tree = h.tree /\ u.nRef = h.nRef /\ u.pData = p /\ u.payRef = v.payRef /\ u.fault = h.fault
  BY <1>3, <1>4, <1>7
<1>9. /\ HeapSound(u, T, at)
      /\ \A e \in Address : Count(u.pData, Address, e)
                               = Count(h.pData, Address, e) - One(h.pData[n] = e) + One(d = e)
  BY <1>6, <1>8, PutSound
<1>10. ASSUME u.fault = "none", NEW e \in Address
       PROVE  u.payRef[e] = Count(u.pData, Address, e) + Count(hold, Cursor, e) + extra2[e]
  <2>1. h.payRef[e] = Count(h.pData, Address, e) + Count(hold, Cursor, e) + extra[e]
    BY <1>8, <1>10 DEF Accounted, PayExact
  <2>2. IsFiniteSet(Address) /\ IsFiniteSet(Cursor)
    BY AddressFacts, KVMemTreeAssumption
  <2>3. Count(h.pData, Address, e) \in Nat /\ Count(hold, Cursor, e) \in Nat /\ extra[e] \in Int
    BY <2>2, CountType
  <2>4. One(h.pData[n] = e) \in Nat /\ One(d = e) \in Nat
    BY DEF One
  <2>5. u.payRef[e] = h.payRef[e] - One(h.pData[n] = e)
    BY <1>2, <1>8
  <2>. QED BY <2>1, <2>3, <2>4, <2>5, <1>9
<1>. QED BY <1>9, <1>10 DEF Accounted, PayExact, u, v

\* A new payload is allocated: its first reference is still to come.
LEMMA AllocateSound ==
  ASSUME NEW h, NEW T, NEW at, HeapSound(h, T, at),
         NEW hold \in [Cursor -> Pointer], NEW extra \in [Address -> Int], Accounted(h, hold, extra),
         NEW d \in Address, h.payRef[d] = 0, NEW extra2 \in [Address -> Int],
         \A e \in Address : extra2[e] = extra[e] + One(d = e)
  PROVE  /\ HeapSound(Issued(h, d), T, at)
         /\ Accounted(Issued(h, d), hold, extra2) /\ PayOnly(Issued(h, d), h)
<1>. DEFINE u == Issued(h, d)
<1>1. h \in Heaps /\ d \in Pointer /\ d # Null
  BY AddressFacts DEF HeapSound, Pointer
<1>. DEFINE y == [h.payRef EXCEPT ![d] = 1]
            v == [tree |-> h.tree, pData |-> h.pData, mxTrans |-> h.mxTrans,
                  nRef |-> h.nRef, payRef |-> y, fault |-> h.fault]
<1>2. u = v
  <2>. DEFINE x == u
  <2>1. x = [h EXCEPT !.payRef[d] = 1]
    BY DEF Issued
  <2>2. h = [tree |-> h.tree, pData |-> h.pData, mxTrans |-> h.mxTrans,
             nRef |-> h.nRef, payRef |-> h.payRef, fault |-> h.fault]
    BY <1>1, HeapFields
  <2>. HIDE DEF x
  <2>3. x = v
    BY <2>1, <2>2
  <2>. QED BY <2>3 DEF x
<1>3. y \in [Address -> Int] /\ \A e \in Address : y[e] = h.payRef[e] + One(d = e)
  BY <1>1, HeapFields DEF One
<1>. HIDE DEF u, y
<1>4. v \in Heaps
  BY <1>1, <1>3, HeapFields, HeapsIntro
<1>5. PayOnly(u, h) /\ u.payRef = y
  BY <1>2, <1>4 DEF PayOnly
<1>6. HeapSound(u, T, at)
  BY <1>5, PayOnlySound
<1>7. ASSUME u.fault = "none", NEW e \in Address
      PROVE  u.payRef[e] = Count(u.pData, Address, e) + Count(hold, Cursor, e) + extra2[e]
  <2>1. h.payRef[e] = Count(h.pData, Address, e) + Count(hold, Cursor, e) + extra[e] /\ u.pData = h.pData
    BY <1>5, <1>7 DEF Accounted, PayExact, PayOnly
  <2>2. IsFiniteSet(Address) /\ IsFiniteSet(Cursor)
    BY AddressFacts, KVMemTreeAssumption
  <2>3. Count(h.pData, Address, e) \in Nat /\ Count(hold, Cursor, e) \in Nat /\ extra[e] \in Int /\ One(d = e) \in Nat
    BY <2>2, CountType DEF One
  <2>. QED BY <2>1, <2>3, <1>3, <1>5
<1>. QED BY <1>5, <1>6, <1>7 DEF Accounted, PayExact, u

\* Under node up there is room for the leaf n.
LeafFits(t, T, n, up) == \A sub : Shape(t, T, sub) => LeafGoes(t, sub, n, up)

\* The references extra, without the one that waited for payload d.
OneWaitsLess(extra2, extra, d) == \A e \in Address : extra2[e] = extra[e] - One(d = e)

\* A new leaf n with the payload d, which was waiting for it.
LEMMA LeafSound ==
  ASSUME NEW h, NEW T, NEW at \in [Cursor -> Pointer], HeapSound(h, T, at),
         NEW hold \in [Cursor -> Pointer], NEW extra \in [Address -> Int], Accounted(h, hold, extra),
         NEW n \in Address, h.nRef[n] = 0, NEW d \in Pointer, NEW l \in Nat, NEW up,
         LeafFits(h.tree, T, n, up),
         NEW extra2 \in [Address -> Int], OneWaitsLess(extra2, extra, d)
  PROVE  /\ HeapSound(Grown(h, n, up, d, l), T \cup {n}, at)
         /\ Accounted(Grown(h, n, up, d, l), hold, extra2)
<1>. DEFINE t == Balance(AddLeaf(h.tree, n, up), n)
            u == Grown(h, n, up, d, l)
            p == [h.pData EXCEPT ![n] = d]
            r == [h.nRef EXCEPT ![n] = 1]
            x == [h.mxTrans EXCEPT ![n] = l]
            w == [tree |-> t, pData |-> p, mxTrans |-> x, nRef |-> r, payRef |-> h.payRef, fault |-> h.fault]
            T2 == T \cup {n}
<1>1. /\ h \in Heaps /\ h.tree \in Trees /\ T \subseteq Address /\ Sound(h.tree, T) /\ Null \notin Address
      /\ \A m \in Address : /\ h.nRef[m] = One(m \in T) + Count(at, Cursor, m)
                            /\ Count(at, Cursor, m) \in Nat /\ (m \notin T => h.pData[m] = Null)
  BY HeapFacts, AddressFacts
<1>2. n \notin T /\ Count(at, Cursor, n) = 0 /\ h.pData[n] = Null
  BY <1>1 DEF One
<1>3. Sound(t, T2)
  <2>1. PICK sub, G : Shape(h.tree, T, sub) /\ AlmostBalanced(h.tree, T, sub, G, Null)
    BY <1>1 DEF Sound
  <2>2. LeafGoes(h.tree, sub, n, up)
    BY <2>1 DEF LeafFits
  <2>. QED BY <2>1, <2>2, <1>1, <1>2, AddLeafIsSound
<1>4. u = w
  <2>. DEFINE v == u
  <2>1. v = [h EXCEPT !.pData[n] = d, !.nRef[n] = 1, !.mxTrans[n] = l, !.tree = t]
    BY DEF Grown
  <2>2. h = [tree |-> h.tree, pData |-> h.pData, mxTrans |-> h.mxTrans,
             nRef |-> h.nRef, payRef |-> h.payRef, fault |-> h.fault]
    BY <1>1, HeapFields
  <2>. HIDE DEF v, t
  <2>3. v = w
    BY <2>1, <2>2
  <2>. QED BY <2>3 DEF v
<1>5. /\ p \in [Address -> Pointer] /\ x \in [Address -> Nat] /\ r \in [Address -> Nat]
      /\ p[n] = d /\ \A m \in Address : m # n => p[m] = h.pData[m]
      /\ r[n] = 1 /\ \A m \in Address : m # n => r[m] = h.nRef[m]
  BY <1>1, HeapFields
<1>. HIDE DEF u, t, p, r, x
<1>6. w \in Heaps
  BY <1>1, <1>3, <1>5, HeapFields, HeapsIntro DEF Sound
<1>7. u \in Heaps /\ u.tree = t /\ u.nRef = r /\ u.pData = p /\ u.payRef = h.payRef /\ u.fault = h.fault
  BY <1>4, <1>6
<1>8. HeapSound(u, T2, at)
  <2>1. \A m \in Address : u.nRef[m] = One(m \in T2) + Count(at, Cursor, m)
    BY <1>1, <1>2, <1>5, <1>7 DEF One
  <2>2. \A m \in Address : m \notin T2 => u.pData[m] = Null
    BY <1>1, <1>5, <1>7
  <2>. HIDE DEF T2
  <2>. QED BY <2>1, <2>2, <1>3, <1>7 DEF HeapSound
<1>9. ASSUME u.fault = "none", NEW e \in Address
      PROVE  u.payRef[e] = Count(u.pData, Address, e) + Count(hold, Cursor, e) + extra2[e]
  <2>1. h.payRef[e] = Count(h.pData, Address, e) + Count(hold, Cursor, e) + extra[e]
    BY <1>7, <1>9 DEF Accounted, PayExact
  <2>2. IsFiniteSet(Address) /\ IsFiniteSet(Cursor)
    BY AddressFacts, KVMemTreeAssumption
  <2>3. Count(h.pData, Address, e) \in Nat /\ Count(hold, Cursor, e) \in Nat /\ extra[e] \in Int /\ One(d = e) \in Nat
    BY <2>2, CountType DEF One
  <2>4. Count(p, Address, e) = Count(h.pData, Address, e) - One(h.pData[n] = e) + One(p[n] = e)
    BY <2>2, <1>5, CountPut
  <2>5. One(h.pData[n] = e) = 0 /\ p[n] = d
    BY <1>1, <1>2, <1>5 DEF One
  <2>6. extra2[e] = extra[e] - One(d = e)
    BY DEF OneWaitsLess
  <2>. QED BY <2>1, <2>3, <2>4, <2>5, <2>6, <1>7
<1>. QED BY <1>8, <1>9 DEF Accounted, PayExact, u

-----------------------------------------------------------------------------
(* The inductive invariant.                                                *)

At(cur) == [c \in Cursor |-> cur[c].pNode]
Hold(cur) == [c \in Cursor |-> cur[c].pData]
Logged(lists) == [d \in Address |-> Tally(LogsAbove(lists, 1), d)]
CursorState == [open : BOOLEAN, pNode : Pointer, pData : Pointer]

(***************************************************************************)
(* The inductive invariant: the nodes of the tree and their counts are in  *)
(* order, the lists above the transaction level are empty, a cursor that   *)
(* is not open holds nothing.                                              *)
(***************************************************************************)
InOrder(l, h, lists, cur) ==
    /\ l \in Levels
    /\ lists \in Lists
    /\ \A m \in WriteLevels : m > l => lists[m] = <<>>
    /\ cur \in [Cursor -> CursorState]
    /\ \A c \in Cursor : ~cur[c].open => cur[c] = Closed
    /\ Kept(h, At(cur), Hold(cur), Logged(lists))
IInv == InOrder(iTransLevel, heap, apLog, cursor)

\* The fields of a cursor.
LEMMA CursorFields ==
  ASSUME NEW cur \in [Cursor -> CursorState]
  PROVE  /\ At(cur) \in [Cursor -> Pointer] /\ Hold(cur) \in [Cursor -> Pointer]
         /\ \A c \in Cursor : /\ At(cur)[c] = cur[c].pNode /\ Hold(cur)[c] = cur[c].pData
                              /\ cur[c].pNode \in Pointer /\ cur[c].pData \in Pointer
                              /\ cur[c] = [open |-> cur[c].open, pNode |-> cur[c].pNode, pData |-> cur[c].pData]
BY DEF At, Hold, CursorState

\* How often a payload is logged.
LEMMA LoggedFacts ==
  ASSUME NEW lists \in Lists
  PROVE  /\ Logged(lists) \in [Address -> Int]
         /\ \A d \in Address : Logged(lists)[d] = Tally(LogsAbove(lists, 1), d) /\ Logged(lists)[d] \in Nat
<1>1. 1 \in Levels
  BY AddressFacts DEF Levels
<1>2. \A d \in Address : Tally(LogsAbove(lists, 1), d) \in Nat
  BY <1>1, LogsAboveType, TallyFacts DEF TallyParts
<1>. QED BY <1>2 DEF Logged

\* Another state of one cursor.
LEMMA CursorMoves ==
  ASSUME NEW cur \in [Cursor -> CursorState], NEW c \in Cursor, NEW st \in CursorState, NEW cur2,
         cur2 = [cur EXCEPT ![c] = st]
  PROVE  /\ cur2 \in [Cursor -> CursorState] /\ cur2[c] = st
         /\ \A e \in Cursor : e # c => cur2[e] = cur[e]
         /\ Moved(At(cur2), At(cur), c, st.pNode)
         /\ Moved(Hold(cur2), Hold(cur), c, st.pData)
<1>1. cur2 \in [Cursor -> CursorState] /\ cur2[c] = st /\ \A e \in Cursor : e # c => cur2[e] = cur[e]
  OBVIOUS
<1>2. At(cur2) \in [Cursor -> Pointer] /\ Hold(cur2) \in [Cursor -> Pointer]
  BY <1>1, CursorFields
<1>3. /\ At(cur2)[c] = st.pNode /\ Hold(cur2)[c] = st.pData
      /\ \A e \in Cursor : e # c => At(cur2)[e] = At(cur)[e] /\ Hold(cur2)[e] = Hold(cur)[e]
  BY <1>1 DEF At, Hold
<1>. QED BY <1>1, <1>2, <1>3 DEF Moved

\* The lists after a new record, a cut and a merge.
Pushed(lists, l, r) == [lists EXCEPT ![l] = <<r>> \o @]
\* A list with one record more.
LEMMA PushLists ==
  ASSUME NEW lists \in Lists, NEW l \in WriteLevels, NEW r \in Record, NEW lists2,
         lists2 = Pushed(lists, l, r)
  PROVE  /\ lists2 \in Lists /\ \A m \in WriteLevels : m # l => lists2[m] = lists[m]
         /\ \A d \in Address : Logged(lists2)[d] = Logged(lists)[d] + One(r.pData = d)
<1>1. lists[l] \in Seq(Record) /\ lists \in [WriteLevels -> Seq(Record)]
  BY DEF Lists
<1>2. <<r>> \o lists[l] \in Seq(Record)
  BY <1>1, TallyPush
<1>3. lists2[l] = <<r>> \o lists[l] /\ \A m \in WriteLevels : m # l => lists2[m] = lists[m]
  BY <1>1 DEF Pushed
<1>4. lists2 \in Lists
  <2>. DEFINE q == <<r>> \o lists[l]
  <2>1. lists2 = [lists EXCEPT ![l] = q]
    BY DEF Pushed
  <2>. HIDE DEF q
  <2>2. q \in Seq(Record)
    BY <1>2 DEF q
  <2>. QED BY <1>1, <2>1, <2>2 DEF Lists
<1>5. ASSUME NEW d \in Address PROVE Logged(lists2)[d] = Logged(lists)[d] + One(r.pData = d)
  <2>1. Tally(lists2[l], d) = Tally(lists[l], d) + One(r.pData = d)
    BY <1>1, <1>3, TallyPush
  <2>2. One(r.pData = d) \in Int
    BY DEF One
  <2>3. \A m \in WriteLevels : m # l => Tally(lists2[m], d) = Tally(lists[m], d)
    BY <1>3
  <2>4. Tally(LogsAbove(lists2, 1), d) = Tally(LogsAbove(lists, 1), d) + One(r.pData = d)
    <3>. DEFINE e == One(r.pData = d)
    <3>1. e \in Int /\ Tally(lists2[l], d) = Tally(lists[l], d) + e
      BY <2>1, <2>2
    <3>. HIDE DEF e
    <3>2. Tally(LogsAbove(lists2, 1), d) = Tally(LogsAbove(lists, 1), d) + e
      BY <3>1, <1>4, <2>3, TallyOneList
    <3>. QED BY <3>2 DEF e
  <2>. QED BY <1>4, <2>4, LoggedFacts
<1>. QED BY <1>3, <1>4, <1>5

\* The lists up to a level, and what was above it.
LEMMA CutLists ==
  ASSUME NEW lists \in Lists, NEW l \in Levels, NEW lists2,
         lists2 = [m \in WriteLevels |-> IF m <= l THEN lists[m] ELSE <<>>]
  PROVE  /\ lists2 \in Lists
         /\ \A d \in Address : Logged(lists)[d] = Tally(LogsAbove(lists, l), d) + Logged(lists2)[d]
<1>1. \A m \in WriteLevels : lists2[m] = IF m <= l THEN lists[m] ELSE <<>>
  OBVIOUS
<1>2. \A m \in WriteLevels : lists2[m] \in Seq(Record)
  BY <1>1, TallyEmpty DEF Lists
<1>3. lists2 \in Lists
  <2>1. lists2 = [m \in WriteLevels |-> lists2[m]]
    OBVIOUS
  <2>. QED BY <1>2, <2>1 DEF Lists
<1>4. ASSUME NEW d \in Address
      PROVE  Logged(lists)[d] = Tally(LogsAbove(lists, l), d) + Logged(lists2)[d]
  <2>1. Tally(LogsAbove(lists, 1), d) = Tally(LogsAbove(lists, l), d) + Tally(LogsAbove(lists2, 1), d)
    BY <1>1, <1>3, TallySplit
  <2>. QED BY <2>1, <1>3, LoggedFacts
<1>. QED BY <1>3, <1>4

\* The lists above a level put in front of that of the level.
LEMMA MergeLists ==
  ASSUME NEW lists \in Lists, NEW l \in WriteLevels, NEW lists2,
         lists2 = [m \in WriteLevels |->
                     IF m < l THEN lists[m]
                     ELSE IF m = l THEN LogsAbove(lists, l) \o lists[l] ELSE <<>>]
  PROVE  lists2 \in Lists /\ \A d \in Address : Logged(lists2)[d] = Logged(lists)[d]
<1>. DEFINE cut == [m \in WriteLevels |-> IF m <= l THEN lists[m] ELSE <<>>]
<1>0. l \in Levels /\ \A m \in WriteLevels : m \in Nat
  BY AddressFacts DEF WriteLevels, Levels
<1>1. LogsAbove(lists, l) \in Seq(Record) /\ lists[l] \in Seq(Record)
  BY <1>0, LogsAboveType DEF Lists
<1>2. LogsAbove(lists, l) \o lists[l] \in Seq(Record)
  BY <1>1, TallyConcat
<1>3. /\ lists2[l] = LogsAbove(lists, l) \o lists[l]
      /\ \A m \in WriteLevels : m < l => lists2[m] = lists[m]
      /\ \A m \in WriteLevels : m > l => lists2[m] = <<>>
  BY <1>0
<1>4. lists2 \in Lists
  <2>1. \A m \in WriteLevels : lists[m] \in Seq(Record) /\ (m < l \/ m = l \/ m > l)
    BY <1>0 DEF Lists
  <2>2. \A m \in WriteLevels : lists2[m] \in Seq(Record)
    BY <1>2, <1>3, <2>1, TallyEmpty
  <2>3. lists2 = [m \in WriteLevels |-> lists2[m]]
    OBVIOUS
  <2>. QED BY <2>2, <2>3 DEF Lists
<1>5. cut \in Lists /\ \A d \in Address : Logged(lists)[d] = Tally(LogsAbove(lists, l), d) + Logged(cut)[d]
  BY <1>0, CutLists
<1>6. /\ cut[l] = lists[l]
      /\ \A m \in WriteLevels : m # l => lists2[m] = cut[m]
  <2>1. \A m \in WriteLevels : m # l => (m < l /\ m <= l) \/ (m > l /\ ~(m <= l))
    BY <1>0
  <2>2. l <= l
    BY <1>0
  <2>. QED BY <1>3, <2>1, <2>2
<1>. HIDE DEF cut
<1>7. ASSUME NEW d \in Address PROVE Logged(lists2)[d] = Logged(lists)[d]
  <2>1. Tally(lists2[l], d) = Tally(cut[l], d) + Tally(LogsAbove(lists, l), d)
    <3>1. Tally(lists2[l], d) = Tally(LogsAbove(lists, l), d) + Tally(lists[l], d)
      BY <1>1, <1>3, TallyConcat
    <3>2. Tally(LogsAbove(lists, l), d) \in Nat /\ Tally(lists[l], d) \in Nat
      BY <1>1, TallyFacts DEF TallyParts
    <3>. QED BY <3>1, <3>2, <1>6
  <2>2. Tally(LogsAbove(lists, l), d) \in Int
    BY <1>1, TallyFacts DEF TallyParts
  <2>3. \A m \in WriteLevels : m # l => Tally(lists2[m], d) = Tally(cut[m], d)
    BY <1>6
  <2>4. Tally(LogsAbove(lists2, 1), d) = Tally(LogsAbove(cut, 1), d) + Tally(LogsAbove(lists, l), d)
    <3>. DEFINE e == Tally(LogsAbove(lists, l), d)
    <3>1. e \in Int /\ Tally(lists2[l], d) = Tally(cut[l], d) + e
      BY <2>1, <2>2
    <3>. HIDE DEF e
    <3>2. Tally(LogsAbove(lists2, 1), d) = Tally(LogsAbove(cut, 1), d) + e
      BY <3>1, <1>4, <1>5, <2>3, TallyOneList, ZenonT(60)
    <3>. QED BY <3>2 DEF e
  <2>5. Logged(lists2)[d] = Logged(cut)[d] + Tally(LogsAbove(lists, l), d) /\ Logged(cut)[d] \in Nat
    BY <2>4, <1>4, <1>5, LoggedFacts
  <2>. QED BY <2>2, <2>5, <1>5
<1>. QED BY <1>4, <1>7

\* Without records above the level, all is logged at or below it.
LEMMA NoLists ==
  ASSUME NEW lists \in Lists, \A m \in WriteLevels : lists[m] = <<>>
  PROVE  \A d \in Address : Logged(lists)[d] = 0
BY TallyNothing, LoggedFacts

\* Min of a set of copies is one of them.
LEMMA MinOf ==
  ASSUME NEW S, S \subseteq 1..MaxCopy, S # {}
  PROVE  Min(S) \in S
<1>1. S \subseteq Nat
  BY AddressFacts
<1>2. PICK m \in S : \A k \in S : m <= k
  BY <1>1, LeastNatural
<1>. QED BY <1>2 DEF Min

\* A search ends at a node of the tree or nowhere.
LEMMA SeekType ==
  ASSUME NEW h, NEW T, NEW at, HeapSound(h, T, at), NEW k \in Key, NEW dir \in -1..1
  PROVE  SeekNode(h, k, dir) \in T \cup {Null}
<1>. DEFINE best == Best(h.tree, k, dir)
            d == IF dir > 0 THEN "after" ELSE "before"
<1>1. PICK sub, G : Shape(h.tree, T, sub) /\ AlmostBalanced(h.tree, T, sub, G, Null)
  BY DEF HeapSound, Sound
<1>2. k \in Nat /\ dir \in Int /\ d \in Side /\ h.tree \in Trees /\ \A m \in T : Allocated(h, m)
  BY HeapFacts, KVMemTreeAssumption, SideFacts
<1>3. Finds(T, k, dir, Null, best)
  BY <1>1, <1>2, BestFacts
<1>4. best \in T \cup {Null}
  BY <1>3 DEF Finds
<1>. HIDE DEF d, best
<1>5. best \in T => StepEntry(h, best, d) \in T \cup {Null}
  <2>1. best \in T => NextRow(h, T, best, d, StepEntry(h, best, d))
    BY <1>1, <1>2, StepEntryFacts
  <2>. QED BY <2>1 DEF NextRow
<1>. QED BY <1>4, <1>5 DEF SeekNode, best, d

-----------------------------------------------------------------------------
(* Every action preserves it: transactions.                                *)

\* IInv after a step, from the values of the variables after it.
LEMMA IInvNext ==
  ASSUME InOrder(iTransLevel', heap', apLog', cursor')
  PROVE  IInv'
BY DEF IInv

\* What the invariant says in terms of its parts.
LEMMA IInvParts ==
  ASSUME IInv
  PROVE  /\ iTransLevel \in Levels /\ iTransLevel \in Nat
         /\ apLog \in Lists
         /\ \A m \in WriteLevels : m > iTransLevel => apLog[m] = <<>>
         /\ cursor \in [Cursor -> CursorState]
         /\ \A c \in Cursor : ~cursor[c].open => cursor[c] = Closed
         /\ Kept(heap, At(cursor), Hold(cursor), Logged(apLog))
         /\ At(cursor) \in [Cursor -> Pointer] /\ Hold(cursor) \in [Cursor -> Pointer]
         /\ Logged(apLog) \in [Address -> Int]
<1>1. InOrder(iTransLevel, heap, apLog, cursor)
  BY DEF IInv
<1>2. apLog \in Lists /\ cursor \in [Cursor -> CursorState] /\ iTransLevel \in Levels
  BY <1>1 DEF InOrder
<1>3. iTransLevel \in Nat
  BY <1>2 DEF Levels
<1>. QED BY <1>1, <1>2, <1>3, CursorFields, LoggedFacts DEF InOrder

\* A new store, and cursors that hold nothing.
LEMMA EmptyKept ==
  ASSUME NEW cur \in [Cursor -> CursorState], \A c \in Cursor : cur[c] = Closed,
         NEW lists, lists = [l \in WriteLevels |-> <<>>], NEW f \in Faults, NEW h,
         h = [EmptyHeap EXCEPT !.fault = f]
  PROVE  InOrder(0, h, lists, cur)
<1>1. \A m \in WriteLevels : lists[m] = <<>>
  OBVIOUS
<1>2. lists \in Lists
  BY TallyEmpty DEF Lists
<1>3. 0 \in Levels
  BY AddressFacts DEF Levels
<1>4. h = [tree |-> EmptyTree, pData |-> [n \in Address |-> Null],
           mxTrans |-> [n \in Address |-> 0], nRef |-> [n \in Address |-> 0],
           payRef |-> [d \in Address |-> 0], fault |-> f]
  BY DEF EmptyHeap
<1>5. Sound(EmptyTree, {})
  BY EmptyIsSound
<1>6. h \in Heaps
  <2>1. EmptyTree \in Trees
    BY <1>5 DEF Sound
  <2>2. /\ [n \in Address |-> Null] \in [Address -> Pointer]
        /\ [n \in Address |-> 0] \in [Address -> Nat]
        /\ [n \in Address |-> 0] \in [Address -> Int]
    BY DEF Pointer
  <2>. DEFINE p == [n \in Address |-> Null]
              z == [n \in Address |-> 0]
              t == EmptyTree
  <2>3. /\ t \in Trees /\ p \in [Address -> Pointer] /\ z \in [Address -> Nat] /\ z \in [Address -> Int]
        /\ h = [tree |-> t, pData |-> p, mxTrans |-> z, nRef |-> z, payRef |-> z, fault |-> f]
    BY <1>4, <2>1, <2>2
  <2>. HIDE DEF p, z, t
  <2>4. [tree |-> t, pData |-> p, mxTrans |-> z, nRef |-> z, payRef |-> z, fault |-> f] \in Heaps
    BY <2>3, HeapsIntro
  <2>. QED BY <2>3, <2>4
<1>7. /\ h.tree = EmptyTree /\ \A n \in Address : h.pData[n] = Null /\ h.nRef[n] = 0 /\ h.payRef[n] = 0
  BY <1>4
<1>8. \A c \in Cursor : At(cur)[c] = Null /\ Hold(cur)[c] = Null
  BY CursorFields DEF Closed
<1>9. \A n \in Address : /\ Count(At(cur), Cursor, n) = 0 /\ Count(Hold(cur), Cursor, n) = 0
                         /\ Count(h.pData, Address, n) = 0
  BY <1>7, <1>8, CountNone, AddressFacts
<1>10. HeapSound(h, {}, At(cur))
  <2>1. \A n \in Address : h.nRef[n] = One(n \in {}) + Count(At(cur), Cursor, n)
    BY <1>7, <1>9 DEF One
  <2>. QED BY <1>5, <1>6, <1>7, <2>1 DEF HeapSound
<1>11. \A d \in Address : Logged(lists)[d] = 0
  BY <1>1, <1>2, NoLists
<1>12. Accounted(h, Hold(cur), Logged(lists))
  BY <1>7, <1>9, <1>11 DEF Accounted, PayExact
<1>13. Kept(h, At(cur), Hold(cur), Logged(lists))
  BY <1>10, <1>12 DEF Kept
<1>. QED BY <1>1, <1>2, <1>3, <1>13 DEF InOrder

\* sqlite4KVStoreOpenMem.
LEMMA InitInOrder == Init => IInv
<1>. SUFFICES ASSUME Init PROVE IInv
  OBVIOUS
<1>1. iTransLevel = 0 /\ heap = EmptyHeap /\ apLog = [l \in WriteLevels |-> <<>>]
      /\ cursor = [c \in Cursor |-> Closed]
  BY DEF Init
<1>2. cursor \in [Cursor -> CursorState] /\ \A c \in Cursor : cursor[c] = Closed
  BY <1>1 DEF CursorState, Closed, Pointer
<1>3. heap = [EmptyHeap EXCEPT !.fault = "none"] /\ "none" \in Faults
  BY <1>1 DEF EmptyHeap, Faults
<1>4. InOrder(0, heap, apLog, cursor)
  BY <1>1, <1>2, <1>3, EmptyKept, Zenon
<1>. QED BY <1>1, <1>4 DEF IInv

\* kvmemBegin.
LEMMA BeginInOrder ==
  ASSUME IInv, NEW l \in Levels, Begin(l)
  PROVE  IInv'
<1>1. iTransLevel' = l /\ heap' = heap /\ cursor' = cursor
      /\ (l = iTransLevel + 1 \/ (iTransLevel = 0 /\ l = 2))
  BY DEF Begin
<1>2. apLog' = apLog
  <2>1. CASE l \in WriteLevels
    <3>1. l > iTransLevel
      BY <1>1, IInvParts
    <3>2. apLog[l] = <<>> /\ apLog \in [WriteLevels -> Seq(Record)]
      BY <2>1, <3>1, IInvParts DEF Lists
    <3>3. apLog' = [apLog EXCEPT ![l] = <<>>]
      BY <2>1 DEF Begin
    <3>. QED BY <2>1, <3>2, <3>3
  <2>2. CASE l \notin WriteLevels
    BY <2>2 DEF Begin
  <2>. QED BY <2>1, <2>2
<1>3. \A m \in WriteLevels : m > l => m > iTransLevel
  <2>1. \A m \in WriteLevels : m \in Nat
    BY DEF WriteLevels
  <2>. QED BY <1>1, <2>1, IInvParts
<1>4. InOrder(l, heap, apLog, cursor)
  BY <1>3, IInvParts DEF InOrder
<1>. QED BY <1>1, <1>2, <1>4, IInvNext

\* Lists that are empty above a level.
LEMMA LevelChanges ==
  ASSUME IInv, NEW l \in Levels, NEW h, NEW lists \in Lists,
         \A m \in WriteLevels : m > l => lists[m] = <<>>,
         Kept(h, At(cursor), Hold(cursor), Logged(lists))
  PROVE  InOrder(l, h, lists, cursor)
BY IInvParts DEF InOrder

\* kvmemCommitPhaseTwo to level 0 or 1: nothing stays logged.
LEMMA CommitsAll ==
  ASSUME IInv, NEW l \in 0..1, l < iTransLevel, NEW lists, lists = [m \in WriteLevels |-> <<>>]
  PROVE  /\ l \in Levels /\ lists \in Lists /\ \A m \in WriteLevels : lists[m] = <<>>
         /\ Kept(CommitRecords(heap, LogsAbove(apLog, l)), At(cursor), Hold(cursor), Logged(lists))
         /\ CommitRecords(heap, LogsAbove(apLog, l)).fault \in {heap.fault, "log"}
<1>. DEFINE log == LogsAbove(apLog, l)
            cut == [m \in WriteLevels |-> IF m <= l THEN apLog[m] ELSE <<>>]
<1>1. l \in Levels
  BY AddressFacts DEF Levels
<1>2. cut = lists
  BY DEF WriteLevels
<1>3. lists \in Lists /\ \A d \in Address : Logged(apLog)[d] = Tally(log, d) + Logged(lists)[d]
  BY <1>1, <1>2, CutLists, IInvParts
<1>4. log \in Seq(Record)
  BY <1>1, LogsAboveType, IInvParts
<1>. HIDE DEF log, cut
<1>5. Logged(lists) \in [Address -> Int]
  BY <1>3, LoggedFacts
<1>6. Kept(CommitRecords(heap, log), At(cursor), Hold(cursor), Logged(lists))
      /\ CommitRecords(heap, log).fault \in {heap.fault, "log"}
  BY <1>3, <1>4, <1>5, IInvParts, CommitRecordsKept
<1>7. \A m \in WriteLevels : lists[m] = <<>>
  OBVIOUS
<1>. QED BY <1>1, <1>3, <1>6, <1>7 DEF log

\* kvmemCommitPhaseTwo to level 0 or 1.
LEMMA CommitOutermostInOrder ==
  ASSUME IInv, NEW l \in 0..1, CommitOutermost(l)
  PROVE  IInv'
<1>1. /\ l < iTransLevel /\ iTransLevel' = l /\ cursor' = cursor
      /\ heap' = CommitRecords(heap, LogsAbove(apLog, l))
      /\ apLog' = [m \in WriteLevels |-> <<>>]
  BY DEF CommitOutermost
<1>2. InOrder(l, heap', apLog', cursor)
  BY <1>1, CommitsAll, LevelChanges
<1>. QED BY <1>1, <1>2, IInvNext

\* kvmemCommitPhaseTwo to a level above 1.
LEMMA CommitNestedInOrder ==
  ASSUME IInv, NEW l \in WriteLevels, CommitNested(l)
  PROVE  IInv'
<1>. DEFINE u == Relabelled(heap, LogsAbove(apLog, l), l)
<1>1. /\ iTransLevel' = l /\ cursor' = cursor /\ heap' = u
      /\ apLog' = [m \in WriteLevels |->
                     IF m < l THEN apLog[m]
                     ELSE IF m = l THEN LogsAbove(apLog, l) \o apLog[l] ELSE <<>>]
  BY DEF CommitNested
<1>2. l \in Levels /\ l \in Nat /\ \A m \in WriteLevels : m \in Nat
  BY DEF Levels, WriteLevels
<1>3. apLog' \in Lists /\ \A d \in Address : Logged(apLog')[d] = Logged(apLog)[d]
  BY <1>1, IInvParts, MergeLists, ZenonT(40)
<1>4. \A m \in WriteLevels : m > l => (apLog')[m] = <<>>
  BY <1>1, <1>2
<1>5. Logged(apLog') = Logged(apLog)
  <2>1. Logged(apLog') \in [Address -> Int] /\ Logged(apLog) \in [Address -> Int]
    BY <1>3, IInvParts, LoggedFacts
  <2>. QED BY <1>3, <2>1
<1>6. PICK T : HeapSound(heap, T, At(cursor)) /\ Accounted(heap, Hold(cursor), Logged(apLog))
  BY IInvParts DEF Kept
<1>7. /\ u \in Heaps /\ u.tree = heap.tree /\ u.nRef = heap.nRef /\ u.pData = heap.pData
      /\ u.payRef = heap.payRef /\ u.fault = heap.fault
  <2>. DEFINE x == [n \in Address |->
                 IF \E i \in DOMAIN LogsAbove(apLog, l) : LogsAbove(apLog, l)[i].node = n THEN l
                 ELSE heap.mxTrans[n]]
  <2>1. u = [heap EXCEPT !.mxTrans = x]
    BY DEF Relabelled
  <2>2. heap \in Heaps
    BY <1>6, HeapFacts
  <2>3. x \in [Address -> Nat]
    BY <1>2, <2>2, HeapFields
  <2>. HIDE DEF x, u
  <2>4. heap = [tree |-> heap.tree, pData |-> heap.pData, mxTrans |-> heap.mxTrans,
                 nRef |-> heap.nRef, payRef |-> heap.payRef, fault |-> heap.fault]
    BY <2>2, HeapFields
  <2>5. u = [tree |-> heap.tree, pData |-> heap.pData, mxTrans |-> x,
                 nRef |-> heap.nRef, payRef |-> heap.payRef, fault |-> heap.fault]
    BY <2>1, <2>4
  <2>6. u \in Heaps
    BY <2>2, <2>3, <2>5, HeapFields, HeapsIntro
  <2>. QED BY <2>5, <2>6
<1>. HIDE DEF u
<1>8. HeapSound(u, T, At(cursor)) /\ Accounted(u, Hold(cursor), Logged(apLog))
  BY <1>6, <1>7, IInvParts, RelabelSound
<1>9. Kept(u, At(cursor), Hold(cursor), Logged(apLog'))
  BY <1>5, <1>8 DEF Kept
<1>10. InOrder(l, u, apLog', cursor)
  BY <1>2, <1>3, <1>4, <1>9, LevelChanges
<1>. QED BY <1>1, <1>10, IInvNext

\* kvmemRollback and kvmemRevert.
LEMMA UndoInOrder ==
  ASSUME IInv, NEW l \in Levels, NEW m \in Levels, m \in {l, l - 1}, UndoTo(m)
  PROVE  InOrder(l, heap', apLog', cursor)
<1>1. /\ heap' = UndoRecords(heap, LogsAbove(apLog, m))
      /\ apLog' = [i \in WriteLevels |-> IF i <= m THEN apLog[i] ELSE <<>>]
  BY DEF UndoTo
<1>2. apLog' \in Lists /\ \A d \in Address : Logged(apLog)[d] = Tally(LogsAbove(apLog, m), d) + Logged(apLog')[d]
  BY <1>1, IInvParts, CutLists
<1>3. LogsAbove(apLog, m) \in Seq(Record)
  BY IInvParts, LogsAboveType
<1>4. Logged(apLog') \in [Address -> Int]
  BY <1>2, LoggedFacts
<1>5. Kept(heap', At(cursor), Hold(cursor), Logged(apLog'))
  <2>. DEFINE log == LogsAbove(apLog, m)
              base == Logged(apLog')
              extra == Logged(apLog)
  <2>1. log \in Seq(Record) /\ base \in [Address -> Int] /\ extra \in [Address -> Int]
        /\ \A d \in Address : extra[d] = Tally(log, d) + base[d]
    BY <1>2, <1>3, <1>4, IInvParts
  <2>2. Kept(heap, At(cursor), Hold(cursor), extra)
    BY IInvParts
  <2>3. heap' = UndoRecords(heap, log)
    BY <1>1
  <2>. HIDE DEF log, base, extra
  <2>4. Kept(heap', At(cursor), Hold(cursor), base)
    BY <2>1, <2>2, <2>3, IInvParts, UndoRecordsKept
  <2>. QED BY <2>4 DEF base
<1>6. \A i \in WriteLevels : i > l => (apLog')[i] = <<>>
  <2>1. l \in Nat /\ m \in Nat /\ \A i \in WriteLevels : i \in Nat
    BY DEF Levels, WriteLevels
  <2>. QED BY <1>1, <2>1
<1>. QED BY <1>2, <1>5, <1>6, LevelChanges

\* kvmemRollback.
LEMMA RollbackInOrder ==
  ASSUME IInv, NEW l \in Levels, Rollback(l)
  PROVE  IInv'
<1>1. UndoTo(l) /\ iTransLevel' = l /\ cursor' = cursor
  BY DEF Rollback
<1>2. InOrder(l, heap', apLog', cursor)
  BY <1>1, UndoInOrder
<1>. QED BY <1>1, <1>2, IInvNext

\* kvmemRevert.
LEMMA RevertInOrder ==
  ASSUME IInv, NEW l \in Levels, Revert(l)
  PROVE  IInv'
<1>1. l \in Levels \ {0} /\ UndoTo(l - 1) /\ iTransLevel' = l /\ cursor' = cursor
  BY DEF Revert
<1>2. l - 1 \in Levels
  BY <1>1, AddressFacts DEF Levels
<1>3. InOrder(l, heap', apLog', cursor)
  BY <1>1, <1>2, UndoInOrder
<1>. QED BY <1>1, <1>3, IInvNext

\* kvmemClose, and a new store.
LEMMA ReopenInOrder ==
  ASSUME IInv, Reopen
  PROVE  IInv'
<1>1. /\ \A c \in Cursor : ~cursor[c].open
      /\ heap' = [EmptyHeap EXCEPT !.fault = CommitRecords(heap, LogsAbove(apLog, 0)).fault]
      /\ iTransLevel' = 0 /\ apLog' = [m \in WriteLevels |-> <<>>] /\ cursor' = cursor
      /\ heap.fault = "none"
  BY DEF Reopen, Ok
<1>2. \A c \in Cursor : cursor[c] = Closed
  BY <1>1, IInvParts
<1>3. CommitRecords(heap, LogsAbove(apLog, 0)).fault \in Faults
  <2>. DEFINE log == LogsAbove(apLog, 0)
              cut == [m \in WriteLevels |-> IF m <= 0 THEN apLog[m] ELSE <<>>]
  <2>1. 0 \in Levels
    BY AddressFacts DEF Levels
  <2>2. cut \in Lists /\ \A d \in Address : Logged(apLog)[d] = Tally(log, d) + Logged(cut)[d]
    BY <2>1, CutLists, IInvParts
  <2>3. log \in Seq(Record)
    BY <2>1, LogsAboveType, IInvParts
  <2>. HIDE DEF log, cut
  <2>4. Logged(cut) \in [Address -> Int]
    BY <2>2, LoggedFacts
  <2>5. CommitRecords(heap, log).fault \in {heap.fault, "log"}
    BY <2>2, <2>3, <2>4, IInvParts, CommitRecordsKept
  <2>. QED BY <1>1, <2>5 DEF log, Faults
<1>4. InOrder(0, heap', apLog', cursor)
  BY <1>1, <1>2, <1>3, IInvParts, EmptyKept
<1>. QED BY <1>1, <1>4, IInvNext

-----------------------------------------------------------------------------
(* Every action preserves it: cursors.                                     *)

\* Another state of cursor c, and a heap that goes with it.
LEMMA CursorInOrder ==
  ASSUME IInv, NEW c \in Cursor, NEW st \in CursorState, st.open \/ st = Closed,
         NEW cur2, cur2 = [cursor EXCEPT ![c] = st], NEW h,
         Kept(h, At(cur2), Hold(cur2), Logged(apLog))
  PROVE  InOrder(iTransLevel, h, apLog, cur2)
<1>1. /\ cur2 \in [Cursor -> CursorState] /\ cur2[c] = st
      /\ \A e \in Cursor : e # c => cur2[e] = cursor[e]
  BY IInvParts, CursorMoves
<1>2. \A e \in Cursor : ~cur2[e].open => cur2[e] = Closed
  BY <1>1, IInvParts
<1>. QED BY <1>1, <1>2, IInvParts DEF InOrder

\* kvmemOpenCursor.
LEMMA OpenCursorInOrder ==
  ASSUME IInv, NEW c \in Cursor, OpenCursor(c)
  PROVE  IInv'
<1>. DEFINE st == [open |-> TRUE, pNode |-> Null, pData |-> Null]
<1>1. /\ ~cursor[c].open /\ cursor' = [cursor EXCEPT ![c].open = TRUE]
      /\ iTransLevel' = iTransLevel /\ heap' = heap /\ apLog' = apLog
  BY DEF OpenCursor
<1>2. cursor[c] = Closed /\ cursor \in [Cursor -> CursorState]
  BY <1>1, IInvParts
<1>3. cursor' = [cursor EXCEPT ![c] = st]
  <2>. DEFINE r == cursor[c]
              x == [r EXCEPT !.open = TRUE]
  <2>1. [cursor[c] EXCEPT !.open = TRUE] = st
    <3>1. x = [r EXCEPT !.open = TRUE] /\ r = [open |-> FALSE, pNode |-> Null, pData |-> Null]
      BY <1>2 DEF Closed
    <3>. HIDE DEF x, r
    <3>2. x = [open |-> TRUE, pNode |-> Null, pData |-> Null]
      BY <3>1
    <3>. QED BY <3>2 DEF x, r
  <2>2. cursor' = [cursor EXCEPT ![c] = [cursor[c] EXCEPT !.open = TRUE]]
    BY <1>1
  <2>. HIDE DEF st
  <2>. QED BY <2>1, <2>2
<1>4. st \in CursorState /\ st.open /\ st.pNode = Null /\ st.pData = Null
  BY DEF CursorState, Pointer
<1>. HIDE DEF st
<1>5. Moved(At(cursor'), At(cursor), c, Null) /\ Moved(Hold(cursor'), Hold(cursor), c, Null)
  <2>1. Moved(At(cursor'), At(cursor), c, st.pNode) /\ Moved(Hold(cursor'), Hold(cursor), c, st.pData)
    BY <1>2, <1>3, <1>4, CursorMoves
  <2>. QED BY <1>4, <2>1
<1>6. At(cursor)[c] = Null /\ Hold(cursor)[c] = Null
  BY <1>2, CursorFields DEF Closed
<1>7. At(cursor') = At(cursor) /\ Hold(cursor') = Hold(cursor)
  <2>1. \A e \in Cursor : At(cursor')[e] = At(cursor)[e] /\ Hold(cursor')[e] = Hold(cursor)[e]
    BY <1>5, <1>6 DEF Moved
  <2>2. /\ At(cursor') \in [Cursor -> Pointer] /\ At(cursor) \in [Cursor -> Pointer]
        /\ Hold(cursor') \in [Cursor -> Pointer] /\ Hold(cursor) \in [Cursor -> Pointer]
    BY <1>5, IInvParts DEF Moved
  <2>. QED BY <2>1, <2>2
<1>8. Kept(heap, At(cursor'), Hold(cursor'), Logged(apLog))
  BY <1>7, IInvParts
<1>9. InOrder(iTransLevel, heap, apLog, cursor')
  BY <1>3, <1>4, <1>8, CursorInOrder
<1>. QED BY <1>1, <1>9, IInvNext

\* kvmemReset: the cursor holds nothing.
LEMMA ResetKept ==
  ASSUME IInv, NEW c \in Cursor, NEW at2, Moved(at2, At(cursor), c, Null),
         NEW hold2, Moved(hold2, Hold(cursor), c, Null)
  PROVE  \E T : /\ HeapSound(ResetHeap(heap, cursor[c]), T, at2)
                /\ Accounted(ResetHeap(heap, cursor[c]), hold2, Logged(apLog))
<1>1. PICK T : HeapSound(heap, T, At(cursor)) /\ Accounted(heap, Hold(cursor), Logged(apLog))
  BY IInvParts DEF Kept
<1>2. cursor[c].pNode = At(cursor)[c] /\ cursor[c].pData = Hold(cursor)[c]
  BY IInvParts, CursorFields
<1>. DEFINE cur == cursor[c]
            at == At(cursor)
            hold == Hold(cursor)
            extra == Logged(apLog)
<1>3. /\ HeapSound(heap, T, at) /\ Accounted(heap, hold, extra)
      /\ cur.pNode = at[c] /\ cur.pData = hold[c]
      /\ at \in [Cursor -> Pointer] /\ hold \in [Cursor -> Pointer] /\ extra \in [Address -> Int]
      /\ Moved(at2, at, c, Null) /\ Moved(hold2, hold, c, Null)
  BY <1>1, <1>2, IInvParts
<1>. HIDE DEF cur, at, hold, extra
<1>4. HeapSound(ResetHeap(heap, cur), T, at2) /\ Accounted(ResetHeap(heap, cur), hold2, extra)
  BY <1>3, ResetSound
<1>. QED BY <1>4 DEF cur, extra

\* kvmemCloseCursor.
LEMMA CloseCursorInOrder ==
  ASSUME IInv, NEW c \in Cursor, CloseCursor(c)
  PROVE  IInv'
<1>1. /\ heap' = ResetHeap(heap, cursor[c]) /\ cursor' = [cursor EXCEPT ![c] = Closed]
      /\ iTransLevel' = iTransLevel /\ apLog' = apLog
  BY DEF CloseCursor
<1>2. Closed \in CursorState /\ Closed.pNode = Null /\ Closed.pData = Null
  BY DEF Closed, CursorState, Pointer
<1>3. Moved(At(cursor'), At(cursor), c, Null) /\ Moved(Hold(cursor'), Hold(cursor), c, Null)
  <2>. DEFINE st == Closed
  <2>1. st \in CursorState /\ cursor' = [cursor EXCEPT ![c] = st] /\ st.pNode = Null /\ st.pData = Null
    BY <1>1, <1>2
  <2>. HIDE DEF st
  <2>2. Moved(At(cursor'), At(cursor), c, st.pNode) /\ Moved(Hold(cursor'), Hold(cursor), c, st.pData)
    BY <2>1, IInvParts, CursorMoves
  <2>. QED BY <2>1, <2>2
<1>4. Kept(heap', At(cursor'), Hold(cursor'), Logged(apLog))
  BY <1>1, <1>3, ResetKept DEF Kept
<1>5. InOrder(iTransLevel, heap', apLog, cursor')
  BY <1>1, <1>2, <1>4, CursorInOrder
<1>. QED BY <1>1, <1>5, IInvNext

\* The cursor functions while cursor c holds nothing.
Away(f, c) == [e \in Cursor |-> IF e = c THEN Null ELSE f[e]]

\* The cursor functions while c holds nothing are one move away from any
\* others.
LEMMA AwayMoved ==
  ASSUME NEW f \in [Cursor -> Pointer], NEW c \in Cursor
  PROVE  /\ Moved(Away(f, c), f, c, Null) /\ Away(f, c) \in [Cursor -> Pointer] /\ Away(f, c)[c] = Null
         /\ \A g, n : Moved(g, f, c, n) => Moved(g, Away(f, c), c, n)
BY DEF Moved, Away, Pointer

\* What kvmemReset leaves of the heap.
LEMMA ResetHeapKept ==
  ASSUME IInv, NEW c \in Cursor
  PROVE  \E T : /\ HeapSound(ResetHeap(heap, cursor[c]), T, Away(At(cursor), c))
                /\ Accounted(ResetHeap(heap, cursor[c]), Away(Hold(cursor), c), Logged(apLog))
BY IInvParts, AwayMoved, ResetKept

\* Cursor c is reset and then pointed to node n.
LEMMA PointToInOrder ==
  ASSUME IInv, NEW c \in Cursor, NEW n \in Pointer, PointTo(c, ResetHeap(heap, cursor[c]), n)
  PROVE  InOrder(iTransLevel, heap', apLog, cursor')
<1>. DEFINE h == ResetHeap(heap, cursor[c])
            d == IF n = Null THEN Null ELSE h.pData[n]
            st == [open |-> TRUE, pNode |-> n, pData |-> d]
            at1 == Away(At(cursor), c)
            hold1 == Away(Hold(cursor), c)
            extra == Logged(apLog)
<1>1. heap' = NodeRef(DataRef(h, d), n) /\ cursor' = [cursor EXCEPT ![c] = st]
  BY DEF PointTo
<1>2. PICK T : HeapSound(h, T, at1) /\ Accounted(h, hold1, extra)
  BY ResetHeapKept
<1>. HIDE DEF h
<1>3. d \in Pointer
  <2>1. CASE n = Null
    BY <2>1 DEF Pointer
  <2>2. CASE n # Null
    <3>1. n \in Address
      BY <2>2 DEF Pointer
    <3>. QED BY <2>2, <3>1, <1>2, HeapFacts
  <2>. QED BY <2>1, <2>2
<1>. HIDE DEF d
<1>4. st \in CursorState /\ st.open /\ st.pNode = n /\ st.pData = d
  BY <1>3 DEF CursorState
<1>. HIDE DEF st
<1>5. Moved(At(cursor'), At(cursor), c, n) /\ Moved(Hold(cursor'), Hold(cursor), c, d)
  BY <1>1, <1>4, IInvParts, CursorMoves
<1>6. Moved(At(cursor'), at1, c, n) /\ Moved(Hold(cursor'), hold1, c, d)
      /\ at1 \in [Cursor -> Pointer] /\ hold1 \in [Cursor -> Pointer]
      /\ at1[c] = Null /\ hold1[c] = Null
  BY <1>5, IInvParts, AwayMoved
<1>. HIDE DEF at1, hold1
<1>7. extra \in [Address -> Int]
  BY IInvParts
<1>. HIDE DEF extra
<1>8. HeapSound(heap', T, At(cursor')) /\ Accounted(heap', Hold(cursor'), extra)
  BY <1>1, <1>2, <1>3, <1>6, <1>7, PointSound
<1>9. Kept(heap', At(cursor'), Hold(cursor'), Logged(apLog))
  BY <1>8 DEF Kept, extra
<1>. QED BY <1>1, <1>4, <1>9, CursorInOrder

\* kvmemReset.
LEMMA ResetInOrder ==
  ASSUME IInv, NEW c \in Cursor, Reset(c)
  PROVE  IInv'
<1>1. /\ PointTo(c, ResetHeap(heap, cursor[c]), Null)
      /\ iTransLevel' = iTransLevel /\ apLog' = apLog
  BY DEF Reset
<1>2. InOrder(iTransLevel, heap', apLog, cursor')
  BY <1>1, PointToInOrder DEF Pointer
<1>. QED BY <1>1, <1>2, IInvNext

\* kvmemSeek.
LEMMA SeekInOrder ==
  ASSUME IInv, NEW c \in Cursor, NEW k \in Key, NEW dir \in -1..1, Seek(c, k, dir)
  PROVE  IInv'
<1>. DEFINE h == ResetHeap(heap, cursor[c])
<1>1. /\ PointTo(c, h, SeekNode(h, k, dir))
      /\ iTransLevel' = iTransLevel /\ apLog' = apLog
  BY DEF Seek
<1>2. PICK T : HeapSound(h, T, Away(At(cursor), c))
  BY ResetHeapKept
<1>3. SeekNode(h, k, dir) \in Pointer
  <2>. HIDE DEF h
  <2>1. SeekNode(h, k, dir) \in T \cup {Null} /\ T \subseteq Address
    BY <1>2, SeekType, HeapFacts
  <2>. QED BY <2>1 DEF Pointer
<1>4. InOrder(iTransLevel, heap', apLog, cursor')
  BY <1>1, <1>3, PointToInOrder
<1>. QED BY <1>1, <1>4, IInvNext

\* kvmemNextEntry and kvmemPrevEntry.
LEMMA StepCursorInOrder ==
  ASSUME IInv, NEW c \in Cursor, NEW d \in Side, StepCursor(c, d)
  PROVE  IInv'
<1>. DEFINE h == ResetHeap(heap, cursor[c])
            m == StepEntry(h, cursor[c].pNode, d)
            st == [open |-> cursor[c].open, pNode |-> Null, pData |-> Null]
<1>1. /\ cursor[c].pNode # Null /\ iTransLevel' = iTransLevel /\ apLog' = apLog
      /\ IF m \notin Pointer
         THEN /\ heap' = [h EXCEPT !.fault = "cursor"]
              /\ cursor' = [cursor EXCEPT ![c].pNode = Null, ![c].pData = Null]
         ELSE PointTo(c, h, m)
  BY DEF StepCursor
<1>. HIDE DEF m
<1>2. CASE m \in Pointer
  <2>1. InOrder(iTransLevel, heap', apLog, cursor')
    BY <1>1, <1>2, PointToInOrder
  <2>. QED BY <1>1, <2>1, IInvNext
<1>3. CASE m \notin Pointer
  <2>1. /\ heap' = [h EXCEPT !.fault = "cursor"]
        /\ cursor' = [cursor EXCEPT ![c].pNode = Null, ![c].pData = Null]
    BY <1>1, <1>3
  <2>2. /\ cursor \in [Cursor -> CursorState] /\ cursor[c].open
        /\ cursor[c] = [open |-> cursor[c].open, pNode |-> cursor[c].pNode, pData |-> cursor[c].pData]
    BY <1>1, IInvParts, CursorFields DEF Closed, CursorState
  <2>3. cursor' = [cursor EXCEPT ![c] = st]
    <3>. DEFINE r == cursor[c]
    <3>1. r = [open |-> r.open, pNode |-> r.pNode, pData |-> r.pData]
      BY <2>2
    <3>2. cursor' = [cursor EXCEPT ![c] = [[r EXCEPT !.pNode = Null] EXCEPT !.pData = Null]]
      BY <2>1, <2>2
    <3>3. st = [open |-> r.open, pNode |-> Null, pData |-> Null]
      OBVIOUS
    <3>. HIDE DEF r, st
    <3>4. [[r EXCEPT !.pNode = Null] EXCEPT !.pData = Null] = st
      <4>. DEFINE x == [r EXCEPT !.pNode = Null]
                  y == [x EXCEPT !.pData = Null]
      <4>1. x = [r EXCEPT !.pNode = Null] /\ y = [x EXCEPT !.pData = Null]
        OBVIOUS
      <4>. HIDE DEF x, y
      <4>2. x = [open |-> r.open, pNode |-> Null, pData |-> r.pData]
        BY <3>1, <4>1
      <4>3. y = [open |-> r.open, pNode |-> Null, pData |-> Null]
        BY <4>1, <4>2
      <4>. QED BY <3>3, <4>3 DEF x, y
    <3>. QED BY <3>2, <3>4
  <2>4. st \in CursorState /\ st.open /\ st.pNode = Null /\ st.pData = Null
    BY <2>2 DEF CursorState, Pointer
  <2>. HIDE DEF st
  <2>5. Moved(At(cursor'), At(cursor), c, Null) /\ Moved(Hold(cursor'), Hold(cursor), c, Null)
    <3>1. Moved(At(cursor'), At(cursor), c, st.pNode) /\ Moved(Hold(cursor'), Hold(cursor), c, st.pData)
      BY <2>2, <2>3, <2>4, CursorMoves
    <3>. QED BY <2>4, <3>1
  <2>6. PICK T : HeapSound(h, T, At(cursor'))
    BY <2>5, ResetKept
  <2>. HIDE DEF h
  <2>7. HeapSound(heap', T, At(cursor')) /\ Accounted(heap', Hold(cursor'), Logged(apLog))
    BY <2>1, <2>6, FaultSound
  <2>8. InOrder(iTransLevel, heap', apLog, cursor')
    BY <2>3, <2>4, <2>7, CursorInOrder DEF Kept
  <2>. QED BY <1>1, <2>8, IInvNext
<1>. QED BY <1>2, <1>3

-----------------------------------------------------------------------------
(* Every action preserves it: writing.                                     *)

\* The heap while the payload d waits for its first reference.
Waits(d) == [e \in Address |-> Logged(apLog)[e] + One(d = e)]
Waiting(h, T, d) == HeapSound(h, T, At(cursor)) /\ Accounted(h, Hold(cursor), Waits(d))

\* What the heap counts while a payload waits.
LEMMA WaitsFacts ==
  ASSUME IInv, NEW d
  PROVE  /\ Waits(d) \in [Address -> Int]
         /\ \A e \in Address : Waits(d)[e] = Logged(apLog)[e] + One(d = e) /\ One(d = e) \in Int
         /\ d = Null => Waits(d) = Logged(apLog)
<1>1. \A e \in Address : Waits(d)[e] = Logged(apLog)[e] + One(d = e) /\ One(d = e) \in Int /\ Logged(apLog)[e] \in Int
  BY IInvParts DEF Waits, One
<1>2. Waits(d) \in [Address -> Int]
  BY <1>1 DEF Waits
<1>3. d = Null => \A e \in Address : Waits(d)[e] = Logged(apLog)[e]
  <2>1. d = Null => \A e \in Address : One(d = e) = 0
    BY AddressFacts DEF One
  <2>. QED BY <1>1, <2>1
<1>. QED BY <1>1, <1>2, <1>3, IInvParts

\* The same level and cursors; only the list of the level gets longer.
LEMMA WriteInOrder ==
  ASSUME IInv, NEW h, NEW lists \in Lists, \A m \in WriteLevels : m > iTransLevel => lists[m] = apLog[m],
         Kept(h, At(cursor), Hold(cursor), Logged(lists))
  PROVE  InOrder(iTransLevel, h, lists, cursor)
BY IInvParts DEF InOrder

\* A level at which one may write has a list.
LEMMA WriteLevel ==
  ASSUME IInv, iTransLevel >= 2
  PROVE  iTransLevel \in WriteLevels /\ \A m \in WriteLevels : m > iTransLevel => m # iTransLevel
BY IInvParts DEF Levels, WriteLevels

\* A record of node n with the payload old is put in front of the level's list.
LEMMA Recorded ==
  ASSUME IInv, iTransLevel >= 2, NEW r \in Record, NEW lists,
         lists = Pushed(apLog, iTransLevel, r)
  PROVE  /\ lists \in Lists /\ \A m \in WriteLevels : m > iTransLevel => lists[m] = apLog[m]
         /\ Logged(lists) \in [Address -> Int]
         /\ \A d \in Address : Logged(lists)[d] = Logged(apLog)[d] + One(r.pData = d)
<1>1. /\ lists \in Lists /\ \A m \in WriteLevels : m # iTransLevel => lists[m] = apLog[m]
      /\ \A d \in Address : Logged(lists)[d] = Logged(apLog)[d] + One(r.pData = d)
  <2>. DEFINE l == iTransLevel
              old == apLog
  <2>1. /\ lists = Pushed(old, l, r)
        /\ l \in WriteLevels /\ old \in Lists
    BY IInvParts, WriteLevel
  <2>. HIDE DEF l, old
  <2>2. /\ lists \in Lists /\ \A m \in WriteLevels : m # l => lists[m] = old[m]
        /\ \A d \in Address : Logged(lists)[d] = Logged(old)[d] + One(r.pData = d)
    BY <2>1, PushLists
  <2>. QED BY <2>2 DEF l, old
<1>. QED BY <1>1, WriteLevel, LoggedFacts

\* kvmemNewChng.
LEMMA NewChngInOrder ==
  ASSUME IInv, iTransLevel >= 2, NEW T, NEW n \in T, NEW d \in Pointer, NEW h, Waiting(h, T, d),
         NewChng(h, n, d)
  PROVE  InOrder(iTransLevel, heap', apLog', cursor)
<1>. DEFINE r == [node |-> n, pData |-> h.pData[n], oldTrans |-> h.mxTrans[n]]
            u == Exchanged(h, n, d, iTransLevel)
            at == At(cursor)
            hold == Hold(cursor)
            extra == Waits(d)
            extra2 == Logged(apLog')
<1>1. apLog' = Pushed(apLog, iTransLevel, r) /\ heap' = u
  BY DEF NewChng, Exchanged, Pushed
<1>2. HeapSound(h, T, at) /\ Accounted(h, hold, extra)
  BY DEF Waiting
<1>3. h \in Heaps /\ n \in Address /\ h.pData[n] \in Pointer /\ h.mxTrans[n] \in Nat
  BY <1>2, HeapFacts, HeapFields
<1>4. r \in Record /\ r.pData = h.pData[n]
  BY <1>3 DEF Record
<1>. HIDE DEF r
<1>5. /\ apLog' \in Lists /\ \A m \in WriteLevels : m > iTransLevel => (apLog')[m] = apLog[m]
      /\ extra2 \in [Address -> Int]
      /\ \A e \in Address : extra2[e] = Logged(apLog)[e] + One(h.pData[n] = e)
  BY <1>1, <1>4, Recorded
<1>6. /\ extra \in [Address -> Int]
      /\ \A e \in Address : extra[e] = Logged(apLog)[e] + One(d = e) /\ One(d = e) \in Int
  BY WaitsFacts
<1>7. \A e \in Address : extra2[e] = extra[e] + One(h.pData[n] = e) - One(d = e)
  <2>. SUFFICES ASSUME NEW e \in Address PROVE extra2[e] = extra[e] + One(h.pData[n] = e) - One(d = e)
    OBVIOUS
  <2>1. Logged(apLog)[e] \in Int /\ One(h.pData[n] = e) \in Int /\ One(d = e) \in Int
    BY IInvParts DEF One
  <2>. QED BY <2>1, <1>5, <1>6
<1>8. at \in [Cursor -> Pointer] /\ hold \in [Cursor -> Pointer] /\ iTransLevel \in Nat
  BY IInvParts
<1>9. HeapSound(u, T, at) /\ Accounted(u, hold, extra2)
  <2>. HIDE DEF at, hold, extra, extra2, u
  <2>1. HeapSound(u, T, at) /\ Accounted(u, hold, extra2)
    BY <1>2, <1>5, <1>6, <1>7, <1>8, NewChngSound DEF u
  <2>. QED BY <2>1
<1>10. Kept(heap', At(cursor), Hold(cursor), Logged(apLog'))
  BY <1>1, <1>9 DEF Kept
<1>. QED BY <1>5, <1>10, WriteInOrder

\* A row that the level has logged: the old payload is released.
LEMMA OverwriteInOrder ==
  ASSUME IInv, NEW T, NEW n \in T, NEW d \in Pointer, NEW h, Waiting(h, T, d),
         heap' = Overwritten(h, n, d), apLog' = apLog
  PROVE  InOrder(iTransLevel, heap', apLog', cursor)
<1>. DEFINE u == Overwritten(h, n, d)
            at == At(cursor)
            hold == Hold(cursor)
            extra == Waits(d)
            extra2 == Logged(apLog)
<1>1. HeapSound(h, T, at) /\ Accounted(h, hold, extra)
  BY DEF Waiting
<1>2. /\ extra \in [Address -> Int] /\ extra2 \in [Address -> Int]
      /\ \A e \in Address : extra[e] = extra2[e] + One(d = e) /\ One(d = e) \in Int
      /\ at \in [Cursor -> Pointer] /\ hold \in [Cursor -> Pointer]
  BY WaitsFacts, IInvParts
<1>. HIDE DEF at, hold, extra, extra2, u
<1>3. \A e \in Address : extra2[e] = extra[e] - One(d = e)
  BY <1>2
<1>4. HeapSound(u, T, at) /\ Accounted(u, hold, extra2)
  BY <1>1, <1>2, <1>3, OverwriteSound DEF u
<1>5. Kept(heap', At(cursor), Hold(cursor), Logged(apLog'))
  BY <1>4 DEF Kept, at, hold, extra2, u
<1>. QED BY <1>5, IInvParts, WriteInOrder

\* kvmemReplace of a row that has a node.
LEMMA ReplaceOldInOrder ==
  ASSUME IInv, iTransLevel >= 2, NEW T, NEW n \in T, NEW d \in Pointer, NEW h, Waiting(h, T, d),
         ReplaceOld(h, n, d)
  PROVE  InOrder(iTransLevel, heap', apLog', cursor)
<1>1. CASE Transactional /\ h.mxTrans[n] # iTransLevel
  BY <1>1, NewChngInOrder DEF ReplaceOld
<1>2. CASE ~(Transactional /\ h.mxTrans[n] # iTransLevel)
  BY <1>2, OverwriteInOrder DEF ReplaceOld, Overwritten
<1>. QED BY <1>1, <1>2

\* kvmemNewNode.
LEMMA ReplaceNewInOrder ==
  ASSUME IInv, iTransLevel >= 2, NEW T, NEW n \in Address, NEW d \in Address, NEW h, Waiting(h, T, d),
         h.nRef[n] = 0, NEW up, LeafFits(h.tree, T, n, up),
         ReplaceNew(h, n, up, d)
  PROVE  InOrder(iTransLevel, heap', apLog', cursor)
<1>. DEFINE r == [node |-> n, pData |-> Null, oldTrans |-> 0]
            l == IF Transactional THEN iTransLevel ELSE 0
            u == Grown(h, n, up, d, l)
            at == At(cursor)
            hold == Hold(cursor)
            extra == Waits(d)
            extra2 == Logged(apLog)
<1>1. /\ heap' = u
      /\ apLog' = IF ~Transactional THEN apLog ELSE Pushed(apLog, iTransLevel, r)
  BY DEF ReplaceNew, Grown, Pushed
<1>2. HeapSound(h, T, at) /\ Accounted(h, hold, extra)
  BY DEF Waiting
<1>3. /\ extra \in [Address -> Int] /\ extra2 \in [Address -> Int]
      /\ \A e \in Address : extra[e] = extra2[e] + One(d = e) /\ One(d = e) \in Int
      /\ at \in [Cursor -> Pointer] /\ hold \in [Cursor -> Pointer] /\ l \in Nat
      /\ d \in Pointer
  BY WaitsFacts, IInvParts DEF Pointer
<1>. HIDE DEF at, hold, extra, extra2, l
<1>4. OneWaitsLess(extra2, extra, d)
  BY <1>3 DEF OneWaitsLess
<1>5. HeapSound(u, T \cup {n}, at) /\ Accounted(u, hold, extra2)
  <2>. HIDE DEF u
  <2>1. HeapSound(u, T \cup {n}, at) /\ Accounted(u, hold, extra2)
    <3>1. LeafFits(h.tree, T, n, up) /\ h.nRef[n] = 0 /\ n \in Address
      OBVIOUS
    <3>2. /\ extra \in [Address -> Int] /\ extra2 \in [Address -> Int]
          /\ at \in [Cursor -> Pointer] /\ hold \in [Cursor -> Pointer] /\ l \in Nat /\ d \in Pointer
      BY <1>3
    <3>3. HeapSound(Grown(h, n, up, d, l), T \cup {n}, at) /\ Accounted(Grown(h, n, up, d, l), hold, extra2)
      BY <1>2, <3>1, <3>2, <1>4, LeafSound
    <3>. QED BY <3>3 DEF u
  <2>. QED BY <2>1
<1>. HIDE DEF u
<1>6. Kept(u, At(cursor), Hold(cursor), Logged(apLog))
  BY <1>5 DEF Kept, at, hold, extra2
<1>7. CASE ~Transactional
  BY <1>1, <1>6, <1>7, IInvParts, WriteInOrder
<1>8. CASE Transactional
  <2>1. r \in Record /\ r.pData = Null
    BY DEF Record, Pointer
  <2>. HIDE DEF r
  <2>2. /\ apLog' \in Lists /\ \A m \in WriteLevels : m > iTransLevel => (apLog')[m] = apLog[m]
        /\ Logged(apLog') \in [Address -> Int]
        /\ \A e \in Address : Logged(apLog')[e] = Logged(apLog)[e] + One(Null = e)
    BY <1>1, <1>8, <2>1, Recorded
  <2>3. \A e \in Address : Logged(apLog')[e] = Logged(apLog)[e]
    <3>1. \A e \in Address : One(Null = e) = 0 /\ Logged(apLog)[e] \in Int
      BY AddressFacts, IInvParts DEF One
    <3>. QED BY <2>2, <3>1
  <2>4. Logged(apLog') = Logged(apLog)
    BY <2>2, <2>3, IInvParts
  <2>. QED BY <1>1, <1>6, <2>2, <2>4, WriteInOrder
<1>. QED BY <1>7, <1>8

\* kvmemReplace.
LEMMA ReplaceInOrder ==
  ASSUME IInv, NEW k \in Key, Replace(k)
  PROVE  IInv'
<1>. DEFINE d == <<k, Min(FreePayloads(heap, k))>>
            n == <<k, Min(FreeNodes(heap, k))>>
            h == Issued(heap, d)
            at == IF h.tree.pRoot = Null THEN Null ELSE Descend(h.tree, h.tree.pRoot, k)
<1>1. /\ iTransLevel >= 2 /\ FreePayloads(heap, k) # {} /\ FreeNodes(heap, k) # {}
      /\ IF aKey(at) = k THEN ReplaceOld(h, at, d) ELSE ReplaceNew(h, n, at, d)
      /\ iTransLevel' = iTransLevel /\ cursor' = cursor
  BY DEF Replace, Issued
<1>2. d \in Address /\ heap.payRef[d] = 0 /\ n \in Address /\ heap.nRef[n] = 0 /\ aKey(n) = k
  <2>1. Min(FreePayloads(heap, k)) \in FreePayloads(heap, k) /\ Min(FreeNodes(heap, k)) \in FreeNodes(heap, k)
    BY <1>1, MinOf DEF FreePayloads, FreeNodes
  <2>. QED BY <2>1 DEF FreePayloads, FreeNodes, Address, aKey
<1>. HIDE DEF d, n
<1>3. PICK T : HeapSound(heap, T, At(cursor)) /\ Accounted(heap, Hold(cursor), Logged(apLog))
  BY IInvParts DEF Kept
<1>4. Waiting(h, T, d) /\ PayOnly(h, heap)
  <2>. DEFINE extra == Logged(apLog)
              extra2 == Waits(d)
              hold == Hold(cursor)
              a == At(cursor)
  <2>1. /\ extra \in [Address -> Int] /\ extra2 \in [Address -> Int] /\ hold \in [Cursor -> Pointer]
        /\ \A e \in Address : extra2[e] = extra[e] + One(d = e)
        /\ HeapSound(heap, T, a) /\ Accounted(heap, hold, extra)
    BY <1>3, IInvParts, WaitsFacts
  <2>. HIDE DEF extra, extra2, hold, a, h
  <2>2. HeapSound(h, T, a) /\ Accounted(h, hold, extra2) /\ PayOnly(h, heap)
    BY <1>2, <2>1, AllocateSound DEF h
  <2>. QED BY <2>2 DEF Waiting, extra2, hold, a
<1>. HIDE DEF h
<1>5. h.tree \in Trees /\ h.nRef[n] = 0 /\ HeapSound(h, T, At(cursor))
  BY <1>2, <1>4, HeapFacts DEF PayOnly, Waiting
<1>6. k \in Nat /\ k # 0 /\ aKey(Null) = 0
  BY KVMemTreeAssumption DEF aKey, Null
<1>7. ASSUME NEW sub, Shape(h.tree, T, sub), h.tree.pRoot # Null
      PROVE  Ends(h.tree, sub, k, h.tree.pRoot, at) /\ at \in T
  <2>1. h.tree.pRoot \in T
    BY <1>7 DEF Shape
  <2>2. Ends(h.tree, sub, k, h.tree.pRoot, at)
    BY <1>5, <1>6, <1>7, <2>1, DescendEnds
  <2>3. at \in sub[h.tree.pRoot]
    BY <2>2 DEF Ends
  <2>. QED BY <1>7, <2>1, <2>2, <2>3, ShapeParts
<1>8. CASE aKey(at) = k
  <2>1. h.tree.pRoot # Null
    BY <1>6, <1>8
  <2>2. PICK sub : Shape(h.tree, T, sub)
    BY <1>5 DEF HeapSound, Sound
  <2>3. at \in T /\ ReplaceOld(h, at, d) /\ d \in Pointer
    BY <1>1, <1>2, <1>7, <1>8, <2>1, <2>2 DEF Pointer
  <2>. HIDE DEF at
  <2>4. InOrder(iTransLevel, heap', apLog', cursor)
    BY <1>1, <1>4, <2>3, ReplaceOldInOrder
  <2>. QED BY <1>1, <2>4, IInvNext
<1>9. CASE aKey(at) # k
  <2>1. ASSUME NEW sub, Shape(h.tree, T, sub) PROVE LeafGoes(h.tree, sub, n, at)
    <3>1. CASE h.tree.pRoot = Null
      BY <3>1 DEF LeafGoes
    <3>2. CASE h.tree.pRoot # Null
      <4>1. Ends(h.tree, sub, k, h.tree.pRoot, at) /\ at \in T
        BY <1>7, <2>1, <3>2
      <4>2. at # Null
        BY <4>1, <1>5, HeapFacts
      <4>. HIDE DEF at
      <4>. QED BY <3>2, <4>1, <4>2, <1>2, <1>9 DEF LeafGoes
    <3>. QED BY <3>1, <3>2
  <2>2. ReplaceNew(h, n, at, d)
    BY <1>1, <1>9
  <2>. HIDE DEF at
  <2>3. InOrder(iTransLevel, heap', apLog', cursor)
    <3>1. LeafFits(h.tree, T, n, at)
      BY <2>1 DEF LeafFits
    <3>. QED BY <1>1, <1>2, <1>4, <1>5, <2>2, <3>1, ReplaceNewInOrder
  <2>. QED BY <1>1, <2>3, IInvNext
<1>. QED BY <1>8, <1>9

\* A cursor leaves its node, which keeps its payload.
LEMMA DropNode ==
  ASSUME NEW h, NEW T, NEW at \in [Cursor -> Pointer], HeapSound(h, T, at),
         NEW hold, NEW extra, Accounted(h, hold, extra),
         NEW c \in Cursor, NEW n \in Address, n = at[c], NEW at2, Moved(at2, at, c, Null)
  PROVE  /\ HeapSound(NodeUnref(h, n), T, at2) /\ Accounted(NodeUnref(h, n), hold, extra)
         /\ NodeUnref(h, n).fault = h.fault
<1>. DEFINE u == NodeUnref(h, n)
<1>1. \A m \in Address : /\ Count(at2, Cursor, m) = Count(at, Cursor, m) - One(n = m)
                         /\ Count(at, Cursor, m) \in Nat /\ Count(at, Cursor, m) >= One(n = m)
  <2>. SUFFICES ASSUME NEW m \in Address
                PROVE  /\ Count(at2, Cursor, m) = Count(at, Cursor, m) - One(n = m)
                       /\ Count(at, Cursor, m) \in Nat /\ Count(at, Cursor, m) >= One(n = m)
    OBVIOUS
  <2>1. Recounted(at2, at, c, Null, m)
    BY MovedCount
  <2>2. One(Null = m) = 0 /\ One(n = m) \in Nat
    BY AddressFacts DEF One
  <2>. QED BY <2>1, <2>2 DEF Recounted
<1>2. /\ h \in Heaps /\ Sound(h.tree, T)
      /\ \A m \in Address : /\ h.nRef[m] = One(m \in T) + Count(at, Cursor, m)
                            /\ (m \notin T => h.pData[m] = Null)
  BY HeapFacts
<1>3. h.nRef[n] > One(n \in T)
  BY <1>1, <1>2 DEF One
<1>4. Unref(u, h, T, n)
  BY <1>2, <1>3, NodeUnrefFacts
<1>. HIDE DEF u
<1>5. /\ u \in Heaps /\ Sound(u.tree, T) /\ u.pData = h.pData /\ u.payRef = h.payRef /\ u.fault = h.fault
      /\ \A m \in Address : u.nRef[m] = h.nRef[m] - One(n = m)
  BY <1>4 DEF Unref
<1>6. \A m \in Address : u.nRef[m] = One(m \in T) + Count(at2, Cursor, m)
  BY <1>1, <1>2, <1>5 DEF One
<1>7. HeapSound(u, T, at2)
  BY <1>2, <1>5, <1>6 DEF HeapSound
<1>8. Accounted(u, hold, extra)
  BY <1>5 DEF Accounted, PayExact
<1>. QED BY <1>5, <1>7, <1>8 DEF u

\* kvmemDelete with transactions.
LEMMA DeleteLoggedInOrder ==
  ASSUME IInv, iTransLevel >= 2, NEW n \in Pointer, n # Null, DeleteLogged(n)
  PROVE  InOrder(iTransLevel, heap', apLog', cursor)
<1>1. PICK T : HeapSound(heap, T, At(cursor)) /\ Accounted(heap, Hold(cursor), Logged(apLog))
  BY IInvParts DEF Kept
<1>2. n \in T
  <2>1. heap.pData[n] # Null
    BY DEF DeleteLogged
  <2>2. n \in Address
    BY DEF Pointer
  <2>. QED BY <1>1, <2>1, <2>2, HeapFacts
<1>3. Waiting(heap, T, Null)
  BY <1>1, WaitsFacts DEF Waiting
<1>4. Null \in Pointer
  BY DEF Pointer
<1>5. CASE heap.mxTrans[n] < iTransLevel
  <2>1. NewChng(heap, n, Null)
    BY <1>5 DEF DeleteLogged
  <2>. QED BY <1>2, <1>3, <1>4, <2>1, NewChngInOrder
<1>6. CASE ~(heap.mxTrans[n] < iTransLevel)
  <2>1. heap' = Overwritten(heap, n, Null) /\ apLog' = apLog
    BY <1>6 DEF DeleteLogged, Overwritten
  <2>. QED BY <1>2, <1>3, <1>4, <2>1, OverwriteInOrder
<1>. QED BY <1>5, <1>6

\* kvmemDelete without transactions.
LEMMA DeleteNowInOrder ==
  ASSUME IInv, NEW c \in Cursor, cursor[c].pNode # Null, DeleteNow(c, cursor[c].pNode)
  PROVE  InOrder(iTransLevel, heap', apLog', cursor')
<1>. DEFINE n == cursor[c].pNode
            h == NodeUnref(heap, n)
            st == [open |-> cursor[c].open, pNode |-> Null, pData |-> cursor[c].pData]
            hold == Hold(cursor)
            extra == Logged(apLog)
<1>1. /\ heap' = IF n \in InTree(heap) THEN RemoveNode(h, n) ELSE [h EXCEPT !.fault = "cursor"]
      /\ cursor' = [cursor EXCEPT ![c].pNode = Null] /\ apLog' = apLog
  BY DEF DeleteNow
<1>2. /\ cursor \in [Cursor -> CursorState] /\ cursor[c].open /\ n = At(cursor)[c] /\ n \in Address
      /\ cursor[c].pData \in Pointer /\ cursor[c].pData = Hold(cursor)[c]
      /\ cursor[c] = [open |-> cursor[c].open, pNode |-> cursor[c].pNode, pData |-> cursor[c].pData]
  BY IInvParts, CursorFields DEF Closed, CursorState, Pointer
<1>3. cursor' = [cursor EXCEPT ![c] = st]
  <2>. DEFINE r == cursor[c]
              x == [r EXCEPT !.pNode = Null]
  <2>1. cursor' = [cursor EXCEPT ![c] = x] /\ x = [r EXCEPT !.pNode = Null]
    BY <1>1
  <2>2. r = [open |-> r.open, pNode |-> r.pNode, pData |-> r.pData]
    BY <1>2
  <2>3. st = [open |-> r.open, pNode |-> Null, pData |-> r.pData]
    OBVIOUS
  <2>. HIDE DEF r, x, st
  <2>4. x = [open |-> r.open, pNode |-> Null, pData |-> r.pData]
    BY <2>1, <2>2
  <2>. QED BY <2>1, <2>3, <2>4
<1>4. st \in CursorState /\ st.open /\ st.pNode = Null /\ st.pData = Hold(cursor)[c]
  BY <1>2 DEF CursorState, Pointer
<1>. HIDE DEF st
<1>5. Moved(At(cursor'), At(cursor), c, Null) /\ Moved(Hold(cursor'), Hold(cursor), c, Hold(cursor)[c])
  <2>1. Moved(At(cursor'), At(cursor), c, st.pNode) /\ Moved(Hold(cursor'), Hold(cursor), c, st.pData)
    BY <1>2, <1>3, <1>4, CursorMoves
  <2>. QED BY <1>4, <2>1
<1>6. Hold(cursor') = hold
  <2>1. \A e \in Cursor : Hold(cursor')[e] = Hold(cursor)[e]
    BY <1>5 DEF Moved
  <2>2. Hold(cursor') \in [Cursor -> Pointer] /\ Hold(cursor) \in [Cursor -> Pointer]
    BY <1>5, IInvParts DEF Moved
  <2>. QED BY <2>1, <2>2
<1>7. PICK T : HeapSound(heap, T, At(cursor)) /\ Accounted(heap, hold, extra)
  BY IInvParts DEF Kept
<1>8. /\ InTree(heap) = T /\ At(cursor) \in [Cursor -> Pointer]
      /\ hold \in [Cursor -> Pointer] /\ extra \in [Address -> Int]
  BY <1>7, HeapFacts, IInvParts
<1>. HIDE DEF n, hold, extra
<1>9. HeapSound(h, T, At(cursor')) /\ Accounted(h, hold, extra)
  BY <1>2, <1>5, <1>7, <1>8, DropNode
<1>. HIDE DEF h
<1>10. Kept(heap', At(cursor'), hold, extra)
  <2>1. CASE n \in T
    <3>1. heap' = RemoveNode(h, n)
      BY <1>1, <1>8, <2>1
    <3>2. HeapSound(RemoveNode(h, n), T \ {n}, At(cursor')) /\ Accounted(RemoveNode(h, n), hold, extra)
      BY <1>8, <1>9, <2>1, RemoveSound
    <3>. QED BY <3>1, <3>2 DEF Kept
  <2>2. CASE n \notin T
    <3>1. heap' = [h EXCEPT !.fault = "cursor"]
      BY <1>1, <1>8, <2>2
    <3>2. HeapSound(heap', T, At(cursor')) /\ Accounted(heap', hold, extra)
      BY <3>1, <1>9, FaultSound
    <3>. QED BY <3>2 DEF Kept
  <2>. QED BY <2>1, <2>2
<1>11. InOrder(iTransLevel, heap', apLog, cursor')
  BY <1>3, <1>4, <1>6, <1>10, CursorInOrder DEF hold, extra
<1>. QED BY <1>1, <1>11

\* kvmemDelete.
LEMMA DeleteInOrder ==
  ASSUME IInv, NEW c \in Cursor, Delete(c)
  PROVE  IInv'
<1>1. /\ iTransLevel >= 2 /\ cursor[c].pNode # Null /\ iTransLevel' = iTransLevel
      /\ IF Transactional THEN DeleteLogged(cursor[c].pNode) ELSE DeleteNow(c, cursor[c].pNode)
  BY DEF Delete
<1>2. cursor[c].pNode \in Pointer
  BY IInvParts, CursorFields
<1>3. CASE Transactional
  <2>1. DeleteLogged(cursor[c].pNode) /\ cursor' = cursor
    BY <1>1, <1>3 DEF DeleteLogged
  <2>2. InOrder(iTransLevel, heap', apLog', cursor)
    BY <1>1, <1>2, <2>1, DeleteLoggedInOrder
  <2>. QED BY <1>1, <2>1, <2>2, IInvNext
<1>4. CASE ~Transactional
  <2>1. InOrder(iTransLevel, heap', apLog', cursor')
    BY <1>1, <1>4, DeleteNowInOrder
  <2>. QED BY <1>1, <2>1, IInvNext
<1>. QED BY <1>3, <1>4

-----------------------------------------------------------------------------
(* The theorems.                                                           *)

(***************************************************************************)
(* The store stays in order (IInv): whatever is written, committed, rolled *)
(* back or sought, and however cursors and transactions interleave, the    *)
(* tree is sound and every count is the number of references there are.    *)
(***************************************************************************)
THEOREM InOrderAlways == Spec => []IInv
<1>1. Init => IInv
  BY InitInOrder
<1>2. IInv /\ [Next]_vars => IInv'
  <2>. SUFFICES ASSUME IInv, [Next]_vars PROVE IInv'
    OBVIOUS
  <2>1. ASSUME NEW l \in Levels, Begin(l) PROVE IInv'
    BY <2>1, BeginInOrder
  <2>2. ASSUME NEW k \in Key, Replace(k) PROVE IInv'
    BY <2>2, ReplaceInOrder
  <2>3. ASSUME NEW l \in 0..1, CommitOutermost(l) PROVE IInv'
    BY <2>3, CommitOutermostInOrder
  <2>4. ASSUME NEW l \in WriteLevels, CommitNested(l) PROVE IInv'
    BY <2>4, CommitNestedInOrder
  <2>5. ASSUME NEW l \in Levels, Rollback(l) PROVE IInv'
    BY <2>5, RollbackInOrder
  <2>6. ASSUME NEW l \in Levels, Revert(l) PROVE IInv'
    BY <2>6, RevertInOrder
  <2>7. ASSUME Reopen PROVE IInv'
    BY <2>7, ReopenInOrder
  <2>8. ASSUME NEW c \in Cursor, OpenCursor(c) PROVE IInv'
    BY <2>8, OpenCursorInOrder
  <2>9. ASSUME NEW c \in Cursor, CloseCursor(c) PROVE IInv'
    BY <2>9, CloseCursorInOrder
  <2>10. ASSUME NEW c \in Cursor, Reset(c) PROVE IInv'
    BY <2>10, ResetInOrder
  <2>11. ASSUME NEW c \in Cursor, NEW k \in Key, NEW dir \in -1..1, Seek(c, k, dir) PROVE IInv'
    BY <2>11, SeekInOrder
  <2>12. ASSUME NEW c \in Cursor, NEW d \in Side, StepCursor(c, d) PROVE IInv'
    BY <2>12, StepCursorInOrder
  <2>13. ASSUME NEW c \in Cursor, Delete(c) PROVE IInv'
    BY <2>13, DeleteInOrder
  <2>14. CASE UNCHANGED vars
    BY <2>14, IInvNext DEF IInv, vars
  <2>. QED BY <2>1, <2>2, <2>3, <2>4, <2>5, <2>6, <2>7, <2>8, <2>9, <2>10, <2>11, <2>12, <2>13, <2>14 DEF Next
<1>. QED BY <1>1, <1>2, PTL DEF Spec

\* The invariant gives TreeSound,
LEMMA InvTreeSound == IInv => TreeSound
<1>. SUFFICES ASSUME IInv PROVE TreeSound
  OBVIOUS
<1>1. PICK T : HeapSound(heap, T, At(cursor))
  BY IInvParts DEF Kept
<1>. QED BY <1>1, SoundIsTreeSound DEF HeapSound

\* CursorsFindRows,
LEMMA InvCursorsFindRows == IInv => CursorsFindRows
<1>. SUFFICES ASSUME IInv PROVE CursorsFindRows
  OBVIOUS
<1>1. PICK T : HeapSound(heap, T, At(cursor))
  BY IInvParts DEF Kept
<1>2. Sound(heap.tree, T) /\ \A m \in T : Allocated(heap, m)
  BY <1>1, HeapFacts
<1>. QED BY <1>2, SoundHeapFinds

\* and RefCountsExact.
LEMMA InvRefCountsExact == IInv => RefCountsExact
<1>. SUFFICES ASSUME IInv PROVE RefCountsExact
  OBVIOUS
<1>. DEFINE log == LogsAbove(apLog, 1)
<1>1. PICK T : HeapSound(heap, T, At(cursor)) /\ Accounted(heap, Hold(cursor), Logged(apLog))
  BY IInvParts DEF Kept
<1>2. InTree(heap) = T
  BY <1>1, HeapFacts
<1>3. ASSUME NEW n \in Address
      PROVE  heap.nRef[n] = Cardinality({n} \cap InTree(heap)) + Cardinality({c \in Cursor : cursor[c].pNode = n})
  <2>1. heap.nRef[n] = One(n \in T) + Count(At(cursor), Cursor, n)
    BY <1>1, HeapFacts
  <2>2. Cardinality({n} \cap T) = One(n \in T)
    <3>1. CASE n \in T
      <4>1. {n} \cap T = {n}
        BY <3>1
      <4>. QED BY <4>1, <3>1, FS_Singleton DEF One
    <3>2. CASE n \notin T
      <4>1. {n} \cap T = {}
        BY <3>2
      <4>. QED BY <4>1, <3>2, FS_EmptySet DEF One
    <3>. QED BY <3>1, <3>2
  <2>3. Count(At(cursor), Cursor, n) = Cardinality({c \in Cursor : cursor[c].pNode = n})
    <3>1. {c \in Cursor : At(cursor)[c] = n} = {c \in Cursor : cursor[c].pNode = n}
      BY IInvParts, CursorFields
    <3>. QED BY <3>1 DEF Count
  <2>. QED BY <2>1, <2>2, <2>3, <1>2
<1>4. ASSUME Ok, NEW d \in Address
      PROVE  heap.payRef[d] = Cardinality({n \in Address : heap.pData[n] = d})
                                + Cardinality({i \in DOMAIN log : log[i].pData = d})
                                + Cardinality({c \in Cursor : cursor[c].pData = d})
  <2>1. heap.payRef[d] = Count(heap.pData, Address, d) + Count(Hold(cursor), Cursor, d) + Logged(apLog)[d]
    BY <1>1, <1>4 DEF Ok, Accounted, PayExact
  <2>2. Logged(apLog)[d] = Tally(log, d) /\ Logged(apLog)[d] \in Nat
    BY IInvParts, LoggedFacts
  <2>3. Count(Hold(cursor), Cursor, d) = Cardinality({c \in Cursor : cursor[c].pData = d})
    <3>1. {c \in Cursor : Hold(cursor)[c] = d} = {c \in Cursor : cursor[c].pData = d}
      BY IInvParts, CursorFields
    <3>. QED BY <3>1 DEF Count
  <2>4. Count(heap.pData, Address, d) \in Nat /\ Count(Hold(cursor), Cursor, d) \in Nat
    BY AddressFacts, KVMemTreeAssumption, CountType
  <2>5. /\ Count(heap.pData, Address, d) = Cardinality({n \in Address : heap.pData[n] = d})
        /\ Tally(log, d) = Cardinality({i \in DOMAIN log : log[i].pData = d})
    BY DEF Count, Tally
  <2>. HIDE DEF log
  <2>. QED BY <2>1, <2>2, <2>3, <2>4, <2>5
<1>. QED BY <1>3, <1>4 DEF RefCountsExact

\* kvmem.c counts the references to nodes and payloads exactly, so it frees
\* nothing in use and keeps nothing unused (RefCountsExact), in every state,
\* for any keys, cursors and bounds.
THEOREM CountsStayExact == Spec => []RefCountsExact
BY InOrderAlways, InvRefCountsExact, PTL

\* After every rotation, insertion and removal the nodes form an AVL tree: keys
\* in order, pUp, heights and imbalances exact (TreeSound), for any keys,
\* cursors and bounds.
THEOREM TreeStaysSound == Spec => []TreeSound
BY InOrderAlways, InvTreeSound, PTL

\* In every state a seek finds the nearest row there is in the direction
\* sought, and a step from any node of the tree the next row, over all deleted
\* ones (CursorsFindRows), for any keys, cursors and bounds.
THEOREM CursorsAlwaysFindRows == Spec => []CursorsFindRows
BY InOrderAlways, InvCursorsFindRows, PTL

=============================================================================
