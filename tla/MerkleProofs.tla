---------------------------- MODULE MerkleProofs ----------------------------
(***************************************************************************)
(* The incremental tree of merkle.rs is the complete tree, for every depth *)
(* and every sequence of leaves: its levels, its root, and the paths it    *)
(* serves.                                                                 *)
(*                                                                         *)
(* The definitions recurse over the depth, a constant. That a recursive    *)
(* function exists, and what it computes, is shown by induction in the     *)
(* form of lemma Induction, on sets: the heights at which a formula holds. *)
(***************************************************************************)
EXTENDS Merkle, FiniteSetTheorems, SequenceTheorems, WellFoundedInduction, TLAPS

-----------------------------------------------------------------------------
Heights == 0..Depth

(* The nodes of height d: leaves, pairs of leaves, pairs of those, and so on.*)
Pairs(S) == S \X S
Nodes[d \in 0..Depth] == IF d = 0 THEN Leaf \cup {Empty} ELSE Pairs(Nodes[d - 1])

(* Heights are numbers, and there are finitely many.                         *)
LEMMA HeightsFinite ==
    /\ Depth \in Nat /\ 0 \in Heights /\ Depth \in Heights
    /\ \A k \in Heights : k \in Nat /\ k <= Depth /\ (k # 0 => k - 1 \in Heights)
    /\ \A S \in SUBSET Heights : IsFiniteSet(S)
<1>1. Depth \in Nat
  BY MerkleAssumption
<1>2. IsFiniteSet(Heights)
  BY <1>1, FS_Interval DEF Heights
<1>3. \A S \in SUBSET Heights : IsFiniteSet(S)
  BY <1>2, FS_Subset
<1> QED BY <1>1, <1>3 DEF Heights

(* Of some sets of heights one contains no other strictly.                   *)
LEMMA SomeSetIsSmallest ==
    ASSUME NEW S \in SUBSET Heights, S # {}, NEW F \in [S -> SUBSET S]
    PROVE  \E k \in S : \A m \in S : F[m] \subseteq F[k] => F[m] = F[k]
<1> DEFINE T == {F[k] : k \in S}
<1>1. T \subseteq FiniteSubsetsOf(S) /\ T # {}
  <2>1. \A k \in S : F[k] \in SUBSET S /\ IsFiniteSet(F[k])
    BY HeightsFinite
  <2> QED BY <2>1 DEF FiniteSubsetsOf
<1>2. PICK x \in T : \A y \in T : ~ (<<y, x>> \in StrictSubsetOrdering(S))
  <2>1. IsWellFoundedOn(StrictSubsetOrdering(S), FiniteSubsetsOf(S))
    BY HeightsFinite, FS_StrictSubsetOrderingWellFounded
  <2> HIDE DEF T
  <2> QED BY <1>1, <2>1, WFMin
<1>3. PICK k \in S : x = F[k]
  BY <1>2
<1>4. ASSUME NEW m \in S, F[m] \subseteq F[k], F[m] # F[k]
      PROVE  FALSE
  <2>1. <<F[m], F[k]>> \in StrictSubsetOrdering(S)
    BY <1>4 DEF StrictSubsetOrdering
  <2> QED BY <1>2, <1>3, <2>1
<1> QED BY <1>4

(* So a set of heights has a lowest.                                         *)
LEMMA LowestExists ==
    ASSUME NEW S \in SUBSET Heights, S # {}
    PROVE  \E k \in S : \A m \in S : k <= m
<1> DEFINE F == [k \in S |-> {m \in S : m <= k}]
<1>1. PICK k \in S : \A m \in S : F[m] \subseteq F[k] => F[m] = F[k]
  <2>1. F \in [S -> SUBSET S]
    OBVIOUS
  <2> HIDE DEF F
  <2> QED BY <2>1, SomeSetIsSmallest
<1>2. ASSUME NEW m \in S, ~ (k <= m) PROVE FALSE
  <2>1. \A x \in S : x \in Nat
    BY HeightsFinite
  <2>2. k \notin F[m] /\ \A x \in S : x <= m => x <= k
    BY <1>2, <2>1
  <2>3. F[m] \subseteq F[k] /\ k \in F[k]
    BY <2>1, <2>2
  <2> QED BY <1>1, <2>2, <2>3
<1> QED BY <1>2

(* Induction over the heights: a set that has 0, and a height whenever it    *)
(* has the one below, has all.                                               *)
LEMMA Induction ==
    ASSUME NEW S \in SUBSET Heights, 0 \in S,
           \A k \in Heights : k # 0 /\ k - 1 \in S => k \in S
    PROVE  \A k \in Heights : k \in S
<1> SUFFICES ASSUME Heights \ S # {} PROVE FALSE
  OBVIOUS
<1>1. PICK k \in Heights \ S : \A m \in Heights \ S : k <= m
  <2> PICK T \in SUBSET Heights : T = Heights \ S
    OBVIOUS
  <2>1. \E k \in T : \A m \in T : k <= m
    BY LowestExists
  <2> QED BY <2>1
<1>2. k # 0 /\ k - 1 \in Heights /\ k \in Nat
  BY HeightsFinite
<1>3. k - 1 \in Heights \ S
  BY <1>2
<1> QED BY <1>1, <1>2, <1>3

-----------------------------------------------------------------------------
(* The recursive functions satisfy their equations.                          *)
(* The roots of empty subtrees.                                              *)
LEMMA ZerosDef ==
    zeros = [d \in Heights |-> IF d = 0 THEN Empty ELSE HashPair(zeros[d - 1], zeros[d - 1])]
<1> DEFINE Ok(f, n) == f = [d \in 0..n |-> IF d = 0 THEN Empty
                                           ELSE HashPair(f[d - 1], f[d - 1])]
           S == {n \in Heights : \E f : Ok(f, n)}
<1>1. 0 \in S
  <2>1. Ok([d \in 0..0 |-> Empty], 0)
    OBVIOUS
  <2> HIDE DEF Ok
  <2> QED BY <2>1, HeightsFinite
<1>2. ASSUME NEW n \in Heights, n # 0, n - 1 \in S PROVE n \in S
  <2>1. PICK f : Ok(f, n - 1)
    BY <1>2
  <2> DEFINE g == [d \in 0..n |-> IF d < n THEN f[d] ELSE HashPair(f[n - 1], f[n - 1])]
  <2>2. n \in Nat
    BY HeightsFinite
  <2>3. ASSUME NEW d \in 0..n
        PROVE  g[d] = IF d = 0 THEN Empty ELSE HashPair(g[d - 1], g[d - 1])
    BY <1>2, <2>1, <2>2
  <2>4. Ok(g, n)
    BY <2>3
  <2> HIDE DEF Ok, g
  <2> QED BY <2>4
<1>3. Depth \in S
  <2> HIDE DEF S
  <2>1. S \in SUBSET Heights
    BY DEF S
  <2> QED BY <1>1, <1>2, <2>1, Induction, HeightsFinite
<1>4. \E f : Ok(f, Depth)
  BY <1>3
<1> QED BY <1>4, Zenon DEF zeros, Heights

(* The number of leaves below a node.                                        *)
LEMMA WidthDef ==
    Width = [d \in Heights |-> IF d = 0 THEN 1 ELSE 2 * Width[d - 1]]
<1> DEFINE Ok(f, n) == f = [d \in 0..n |-> IF d = 0 THEN 1 ELSE 2 * f[d - 1]]
           S == {n \in Heights : \E f : Ok(f, n)}
<1>1. 0 \in S
  <2>1. Ok([d \in 0..0 |-> 1], 0)
    OBVIOUS
  <2> HIDE DEF Ok
  <2> QED BY <2>1, HeightsFinite
<1>2. ASSUME NEW n \in Heights, n # 0, n - 1 \in S PROVE n \in S
  <2>1. PICK f : Ok(f, n - 1)
    BY <1>2
  <2> DEFINE g == [d \in 0..n |-> IF d < n THEN f[d] ELSE 2 * f[n - 1]]
  <2>2. n \in Nat
    BY HeightsFinite
  <2>3. ASSUME NEW d \in 0..n
        PROVE  g[d] = IF d = 0 THEN 1 ELSE 2 * g[d - 1]
    BY <1>2, <2>1, <2>2
  <2>4. Ok(g, n)
    BY <2>3
  <2> HIDE DEF Ok, g
  <2> QED BY <2>4
<1>3. Depth \in S
  <2> HIDE DEF S
  <2>1. S \in SUBSET Heights
    BY DEF S
  <2> QED BY <1>1, <1>2, <2>1, Induction, HeightsFinite
<1>4. \E f : Ok(f, Depth)
  BY <1>3
<1> QED BY <1>4, Zenon DEF Width, Heights

(* The way up from a leaf.                                                   *)
LEMMA AncestorsDef ==
    ASSUME NEW index
    PROVE  Ancestors(index) =
             [d \in Heights |-> IF d = 0 THEN index ELSE Ancestors(index)[d - 1] \div 2]
<1> DEFINE Ok(f, n) == f = [d \in 0..n |-> IF d = 0 THEN index ELSE f[d - 1] \div 2]
           S == {n \in Heights : \E f : Ok(f, n)}
<1>1. 0 \in S
  <2>1. Ok([d \in 0..0 |-> index], 0)
    OBVIOUS
  <2> HIDE DEF Ok
  <2> QED BY <2>1, HeightsFinite
<1>2. ASSUME NEW n \in Heights, n # 0, n - 1 \in S PROVE n \in S
  <2>1. PICK f : Ok(f, n - 1)
    BY <1>2
  <2> DEFINE g == [d \in 0..n |-> IF d < n THEN f[d] ELSE f[n - 1] \div 2]
  <2>2. n \in Nat
    BY HeightsFinite
  <2>3. ASSUME NEW d \in 0..n
        PROVE  g[d] = IF d = 0 THEN index ELSE g[d - 1] \div 2
    BY <1>2, <2>1, <2>2
  <2>4. Ok(g, n)
    BY <2>3
  <2> HIDE DEF Ok, g
  <2> QED BY <2>4
<1>3. Depth \in S
  <2> HIDE DEF S
  <2>1. S \in SUBSET Heights
    BY DEF S
  <2> QED BY <1>1, <1>2, <2>1, Induction, HeightsFinite
<1>4. \E f : Ok(f, Depth)
  BY <1>3
<1> QED BY <1>4, Zenon DEF Ancestors, Heights

(* The possible nodes at each height.                                        *)
LEMMA NodesDef ==
    Nodes = [d \in Heights |-> IF d = 0 THEN Leaf \cup {Empty} ELSE Pairs(Nodes[d - 1])]
<1> DEFINE Ok(f, n) == f = [d \in 0..n |-> IF d = 0 THEN Leaf \cup {Empty} ELSE Pairs(f[d - 1])]
           S == {n \in Heights : \E f : Ok(f, n)}
<1>1. 0 \in S
  <2>1. Ok([d \in 0..0 |-> Leaf \cup {Empty}], 0)
    OBVIOUS
  <2> HIDE DEF Ok
  <2> QED BY <2>1, HeightsFinite
<1>2. ASSUME NEW n \in Heights, n # 0, n - 1 \in S PROVE n \in S
  <2>1. PICK f : Ok(f, n - 1)
    BY <1>2
  <2> DEFINE g == [d \in 0..n |-> IF d < n THEN f[d] ELSE Pairs(f[n - 1])]
  <2>2. n \in Nat
    BY HeightsFinite
  <2>3. ASSUME NEW d \in 0..n
        PROVE  g[d] = IF d = 0 THEN Leaf \cup {Empty} ELSE Pairs(g[d - 1])
    <3>1. ASSUME d = n PROVE g[d] = Pairs(f[n - 1]) /\ g[d - 1] = f[n - 1] /\ d # 0
      BY <1>2, <2>2, <3>1
    <3>2. ASSUME d < n, d # 0 PROVE g[d] = f[d] /\ g[d - 1] = f[d - 1] /\ f[d] = Pairs(f[d - 1])
      <4>1. d \in 0..(n - 1) /\ d - 1 \in 0..n /\ d - 1 < n
        BY <2>2, <3>2
      <4>2. f[d] = IF d = 0 THEN Leaf \cup {Empty} ELSE Pairs(f[d - 1])
        BY <2>1, <4>1, Zenon
      <4> QED BY <3>2, <4>1, <4>2
    <3>3. ASSUME d = 0 PROVE g[d] = Leaf \cup {Empty}
      BY <1>2, <2>1, <2>2, <3>3
    <3>4. d = n \/ (d < n /\ d # 0) \/ d = 0
      BY <2>2
    <3> HIDE DEF g
    <3> QED BY <3>1, <3>2, <3>3, <3>4
  <2>4. Ok(g, n)
    BY <2>3
  <2> HIDE DEF Ok, g
  <2> QED BY <2>4
<1>3. Depth \in S
  <2> HIDE DEF S
  <2>1. S \in SUBSET Heights
    BY DEF S
  <2> QED BY <1>1, <1>2, <2>1, Induction, HeightsFinite
<1>4. \E f : Ok(f, Depth)
  BY <1>3
<1> QED BY <1>4, Zenon DEF Nodes, Heights

(* The reference tree.                                                       *)
LEMMA CompleteDef ==
    ASSUME NEW leaves
    PROVE  Complete(leaves) =
             [d \in Heights |-> IF d = 0 THEN Bottom(leaves)
                                ELSE Above(Complete(leaves)[d - 1], Width[Depth - d])]
<1> DEFINE Ok(f, n) == f = [d \in 0..n |-> IF d = 0 THEN Bottom(leaves)
                                           ELSE Above(f[d - 1], Width[Depth - d])]
           S == {n \in Heights : \E f : Ok(f, n)}
<1>1. 0 \in S
  <2>1. Ok([d \in 0..0 |-> Bottom(leaves)], 0)
    OBVIOUS
  <2> HIDE DEF Ok
  <2> QED BY <2>1, HeightsFinite
<1>2. ASSUME NEW n \in Heights, n # 0, n - 1 \in S PROVE n \in S
  <2>1. PICK f : Ok(f, n - 1)
    BY <1>2
  <2> DEFINE g == [d \in 0..n |-> IF d < n THEN f[d] ELSE Above(f[n - 1], Width[Depth - n])]
  <2>2. n \in Nat
    BY HeightsFinite
  <2>3. ASSUME NEW d \in 0..n
        PROVE  g[d] = IF d = 0 THEN Bottom(leaves) ELSE Above(g[d - 1], Width[Depth - d])
    <3>1. ASSUME d = n
          PROVE  /\ g[d] = Above(f[n - 1], Width[Depth - n])
                 /\ g[d - 1] = f[n - 1]
                 /\ d # 0
      BY <1>2, <2>2, <3>1
    <3>2. ASSUME d < n, d # 0
          PROVE  /\ g[d] = f[d]
                 /\ g[d - 1] = f[d - 1]
                 /\ f[d] = Above(f[d - 1], Width[Depth - d])
      <4>1. d \in 0..(n - 1) /\ d - 1 \in 0..n /\ d - 1 < n
        BY <2>2, <3>2
      <4>2. f[d] = IF d = 0 THEN Bottom(leaves) ELSE Above(f[d - 1], Width[Depth - d])
        BY <2>1, <4>1, Zenon
      <4> QED BY <3>2, <4>1, <4>2
    <3>3. ASSUME d = 0 PROVE g[d] = Bottom(leaves)
      BY <1>2, <2>1, <2>2, <3>3
    <3>4. d = n \/ (d < n /\ d # 0) \/ d = 0
      BY <2>2
    <3> HIDE DEF g
    <3> QED BY <3>1, <3>2, <3>3, <3>4
  <2>4. Ok(g, n)
    BY <2>3
  <2> HIDE DEF Ok, g
  <2> QED BY <2>4
<1>3. Depth \in S
  <2> HIDE DEF S
  <2>1. S \in SUBSET Heights
    BY DEF S
  <2> QED BY <1>1, <1>2, <2>1, Induction, HeightsFinite
<1>4. \E f : Ok(f, Depth)
  BY <1>3
<1> QED BY <1>4, Zenon DEF Complete, Heights

(* An append updates the heights one after the other.                        *)
LEMMA AppendedDef ==
    ASSUME NEW lvls, NEW leaf
    PROVE  \E f : /\ f = [d \in Heights |-> IF d = 0 THEN [lvls EXCEPT ![0] = Append(@, leaf)]
                                           ELSE Rehashed(f[d - 1], d, Ancestors(Len(lvls[0]))[d])]
                 /\ Appended(lvls, leaf) = f[Depth]
<1> DEFINE pushed == [lvls EXCEPT ![0] = Append(@, leaf)]
           idx == Ancestors(Len(lvls[0]))
           Ok(f, n) == f = [d \in 0..n |-> IF d = 0 THEN pushed ELSE Rehashed(f[d - 1], d, idx[d])]
           S == {n \in Heights : \E f : Ok(f, n)}
<1>1. 0 \in S
  <2>1. Ok([d \in 0..0 |-> pushed], 0)
    OBVIOUS
  <2> HIDE DEF Ok
  <2> QED BY <2>1, HeightsFinite
<1>2. ASSUME NEW n \in Heights, n # 0, n - 1 \in S PROVE n \in S
  <2>1. PICK f : Ok(f, n - 1)
    BY <1>2
  <2> DEFINE g == [d \in 0..n |-> IF d < n THEN f[d] ELSE Rehashed(f[n - 1], n, idx[n])]
  <2>2. n \in Nat
    BY HeightsFinite
  <2>3. ASSUME NEW d \in 0..n
        PROVE  g[d] = IF d = 0 THEN pushed ELSE Rehashed(g[d - 1], d, idx[d])
    <3>1. ASSUME d = n
          PROVE  /\ g[d] = Rehashed(f[n - 1], n, idx[n])
                 /\ g[d - 1] = f[n - 1]
                 /\ d # 0
      BY <1>2, <2>2, <3>1
    <3>2. ASSUME d < n, d # 0
          PROVE  /\ g[d] = f[d]
                 /\ g[d - 1] = f[d - 1]
                 /\ f[d] = Rehashed(f[d - 1], d, idx[d])
      <4>1. d \in 0..(n - 1) /\ d - 1 \in 0..n /\ d - 1 < n
        BY <2>2, <3>2
      <4>2. f[d] = IF d = 0 THEN pushed ELSE Rehashed(f[d - 1], d, idx[d])
        BY <2>1, <4>1, Zenon
      <4> QED BY <3>2, <4>1, <4>2
    <3>3. ASSUME d = 0 PROVE g[d] = pushed
      BY <1>2, <2>1, <2>2, <3>3
    <3>4. d = n \/ (d < n /\ d # 0) \/ d = 0
      BY <2>2
    <3> HIDE DEF g
    <3> QED BY <3>1, <3>2, <3>3, <3>4
  <2>4. Ok(g, n)
    BY <2>3
  <2> HIDE DEF Ok, g
  <2> QED BY <2>4
<1>3. Depth \in S
  <2> HIDE DEF S
  <2>1. S \in SUBSET Heights
    BY DEF S
  <2> QED BY <1>1, <1>2, <2>1, Induction, HeightsFinite
<1>4. \E f : Ok(f, Depth)
  BY <1>3
<1> QED BY <1>4, Zenon DEF Appended, Heights

(* A path is climbed one element after the other.                            *)
Climbs(f, leaf, path) ==
    f = [d \in Heights |-> IF d = 0 THEN leaf ELSE Parent(f[d - 1], path[d])]

LEMMA ClimbDef ==
    ASSUME NEW leaf, NEW path, Len(path) = Depth
    PROVE  \E f : Climbs(f, leaf, path) /\ Climb(leaf, path) = f[Depth]
<1> DEFINE Ok(f, n) == f = [d \in 0..n |-> IF d = 0 THEN leaf ELSE Parent(f[d - 1], path[d])]
           S == {n \in Heights : \E f : Ok(f, n)}
<1>1. 0 \in S
  <2>1. Ok([d \in 0..0 |-> leaf], 0)
    OBVIOUS
  <2> HIDE DEF Ok
  <2> QED BY <2>1, HeightsFinite
<1>2. ASSUME NEW n \in Heights, n # 0, n - 1 \in S PROVE n \in S
  <2>1. PICK f : Ok(f, n - 1)
    BY <1>2
  <2> DEFINE g == [d \in 0..n |-> IF d < n THEN f[d] ELSE Parent(f[n - 1], path[n])]
  <2>2. n \in Nat
    BY HeightsFinite
  <2>3. ASSUME NEW d \in 0..n
        PROVE  g[d] = IF d = 0 THEN leaf ELSE Parent(g[d - 1], path[d])
    <3>1. ASSUME d = n PROVE g[d] = Parent(f[n - 1], path[n]) /\ g[d - 1] = f[n - 1] /\ d # 0
      BY <1>2, <2>2, <3>1
    <3>2. ASSUME d < n, d # 0
          PROVE  /\ g[d] = f[d]
                 /\ g[d - 1] = f[d - 1]
                 /\ f[d] = Parent(f[d - 1], path[d])
      <4>1. d \in 0..(n - 1) /\ d - 1 \in 0..n /\ d - 1 < n
        BY <2>2, <3>2
      <4>2. f[d] = IF d = 0 THEN leaf ELSE Parent(f[d - 1], path[d])
        BY <2>1, <4>1, Zenon
      <4> QED BY <3>2, <4>1, <4>2
    <3>3. ASSUME d = 0 PROVE g[d] = leaf
      BY <1>2, <2>1, <2>2, <3>3
    <3>4. d = n \/ (d < n /\ d # 0) \/ d = 0
      BY <2>2
    <3> HIDE DEF g
    <3> QED BY <3>1, <3>2, <3>3, <3>4
  <2>4. Ok(g, n)
    BY <2>3
  <2> HIDE DEF Ok, g
  <2> QED BY <2>4
<1>3. Depth \in S
  <2> HIDE DEF S
  <2>1. S \in SUBSET Heights
    BY DEF S
  <2> QED BY <1>1, <1>2, <2>1, Induction, HeightsFinite
<1>4. \E f : Ok(f, Depth)
  BY <1>3
<1> QED BY <1>4, Zenon DEF Climb, Climbs, Heights

-----------------------------------------------------------------------------
(* The numbers.                                                              *)
(* Half a number, rounded down.                                              *)
LEMMA Half ==
    ASSUME NEW n \in Nat
    PROVE  /\ n \div 2 \in Nat /\ 2 * (n \div 2) <= n /\ n < 2 * (n \div 2) + 2
           /\ (n % 2 = 0 => n = 2 * (n \div 2)) /\ (n % 2 # 0 => n = 2 * (n \div 2) + 1)
BY SMT

(* A node at height d has twice the leaves of its children.                  *)
LEMMA WidthFacts ==
    /\ Width[0] = 1
    /\ \A d \in Heights : Width[d] \in Nat /\ Width[d] >= 1
    /\ \A d \in Heights : d # 0 => Width[d] = 2 * Width[d - 1]
<1>1. \A d \in Heights : Width[d] = IF d = 0 THEN 1 ELSE 2 * Width[d - 1]
  BY WidthDef, Zenon
<1>2. Width[0] = 1
  BY <1>1, HeightsFinite
<1> DEFINE S == {d \in Heights : Width[d] \in Nat /\ Width[d] >= 1}
<1>3. \A d \in Heights : d \in S
  <2>1. ASSUME NEW k \in Heights, k # 0, k - 1 \in S PROVE k \in S
    BY <1>1, <2>1
  <2>2. 0 \in S /\ S \in SUBSET Heights
    BY <1>2, HeightsFinite
  <2> HIDE DEF S
  <2> QED BY <2>1, <2>2, Induction
<1> QED BY <1>1, <1>2, <1>3

(* The ancestors of a position; the last is the root.                        *)
LEMMA AncestorFacts ==
    ASSUME NEW index \in Nat
    PROVE  /\ Ancestors(index)[0] = index
           /\ \A d \in Heights : Ancestors(index)[d] \in Nat
           /\ \A d \in Heights : d # 0 =>
                  Ancestors(index)[d] = Ancestors(index)[d - 1] \div 2
           /\ index < Width[Depth] =>
                  \A d \in Heights : Ancestors(index)[d] < Width[Depth - d]
<1>1. PICK idx : idx = Ancestors(index)
  OBVIOUS
<1>2. \A d \in Heights : idx[d] = IF d = 0 THEN index ELSE idx[d - 1] \div 2
  BY <1>1, AncestorsDef, Zenon
<1>3. idx[0] = index
  BY <1>2, HeightsFinite
<1> DEFINE S == {d \in Heights : idx[d] \in Nat}
<1>4. \A d \in Heights : d \in S
  <2>1. ASSUME NEW k \in Heights, k # 0, k - 1 \in S PROVE k \in S
    BY <1>2, <2>1, Half
  <2>2. 0 \in S /\ S \in SUBSET Heights
    BY <1>3, HeightsFinite
  <2> HIDE DEF S
  <2> QED BY <2>1, <2>2, Induction
<1>5. ASSUME index < Width[Depth]
      PROVE  \A d \in Heights : idx[d] < Width[Depth - d]
  <2> DEFINE T == {d \in Heights : idx[d] < Width[Depth - d]}
  <2>1. ASSUME NEW k \in Heights, k # 0, k - 1 \in T PROVE k \in T
    <3>1. k \in Nat /\ k - 1 \in Heights /\ Depth - k \in Heights
          /\ Depth - (k - 1) \in Heights /\ Depth - (k - 1) # 0
          /\ (Depth - (k - 1)) - 1 = Depth - k
      BY <2>1, HeightsFinite DEF Heights
    <3>2. Width[Depth - (k - 1)] = 2 * Width[Depth - k] /\ Width[Depth - k] \in Nat
      BY <3>1, WidthFacts
    <3>3. idx[k - 1] \in Nat /\ idx[k - 1] < Width[Depth - (k - 1)]
          /\ idx[k] = idx[k - 1] \div 2
      BY <1>2, <1>4, <2>1, <3>1
    <3>4. idx[k] \in Nat /\ 2 * idx[k] <= idx[k - 1]
      BY <3>3, Half
    <3> QED BY <3>2, <3>3, <3>4
  <2>2. 0 \in T /\ T \in SUBSET Heights
    BY <1>3, <1>5, HeightsFinite
  <2> HIDE DEF T
  <2>3. \A d \in Heights : d \in T
    BY <2>1, <2>2, Induction
  <2> QED BY <2>3 DEF T
<1> QED BY <1>1, <1>2, <1>3, <1>4, <1>5

-----------------------------------------------------------------------------
(* The inductive invariant: as many nodes on each level as it takes, and     *)
(* each the hash of its two children.                                        *)
Shaped(lvls) ==
    /\ DOMAIN lvls = Heights
    /\ \A d \in Heights : lvls[d] \in Seq(Nodes[d])
    /\ \A d \in Heights : d # 0 => Len(lvls[d]) = (Len(lvls[d - 1]) + 1) \div 2
    /\ Len(lvls[0]) <= Width[Depth]

Hashed(lvls) ==
    \A d \in Heights : d # 0 =>
        \A i \in Nat : i < Len(lvls[d]) =>
            NodeAt(lvls, d, i) =
                HashPair(NodeAt(lvls, d - 1, 2 * i), NodeAt(lvls, d - 1, 2 * i + 1))

IsTree(lvls) == Shaped(lvls) /\ Hashed(lvls)

(* The lengths of the levels, and how far they reach.                        *)
LEMMA Lengths ==
    ASSUME NEW lvls, Shaped(lvls)
    PROVE  \A d \in Heights : Len(lvls[d]) \in Nat /\ Len(lvls[d]) <= Width[Depth - d]
<1>1. \A d \in Heights : Len(lvls[d]) \in Nat
  BY LenProperties DEF Shaped
<1> DEFINE S == {d \in Heights : Len(lvls[d]) <= Width[Depth - d]}
<1>2. ASSUME NEW k \in Heights, k # 0, k - 1 \in S PROVE k \in S
  <2>1. k \in Nat /\ k - 1 \in Heights /\ Depth - k \in Heights
        /\ Depth - (k - 1) \in Heights /\ Depth - (k - 1) # 0
        /\ (Depth - (k - 1)) - 1 = Depth - k
    BY <1>2, HeightsFinite DEF Heights
  <2>2. Width[Depth - (k - 1)] = 2 * Width[Depth - k] /\ Width[Depth - k] \in Nat
    BY <2>1, WidthFacts
  <2>3. Len(lvls[k]) = (Len(lvls[k - 1]) + 1) \div 2
    BY <1>2 DEF Shaped
  <2>4. PICK n \in Nat : n = Len(lvls[k - 1]) /\ n <= Width[Depth - (k - 1)]
    BY <1>1, <1>2, <2>1
  <2>5. PICK m \in Nat : m = (n + 1) \div 2 /\ 2 * m <= n + 1
    <3>1. n + 1 \in Nat
      OBVIOUS
    <3> QED BY <3>1, Half
  <2>6. PICK w \in Nat : w = Width[Depth - k] /\ n <= 2 * w
    BY <2>2, <2>4
  <2>7. m <= w
    BY <2>5, <2>6
  <2> QED BY <2>3, <2>4, <2>5, <2>6, <2>7
<1>3. 0 \in S /\ S \in SUBSET Heights
  BY HeightsFinite DEF Shaped
<1>4. \A d \in Heights : d \in S
  <2> HIDE DEF S
  <2> QED BY <1>2, <1>3, Induction
<1> QED BY <1>1, <1>4

(* Above the leaves a tree's node is the hash of its children also where     *)
(* nothing is stored.                                                        *)
LEMMA HashedEverywhere ==
    ASSUME NEW lvls, IsTree(lvls), NEW d \in Heights, d # 0, NEW i \in Nat
    PROVE  NodeAt(lvls, d, i) =
               HashPair(NodeAt(lvls, d - 1, 2 * i), NodeAt(lvls, d - 1, 2 * i + 1))
<1>1. ASSUME i < Len(lvls[d])
      PROVE  NodeAt(lvls, d, i) =
               HashPair(NodeAt(lvls, d - 1, 2 * i), NodeAt(lvls, d - 1, 2 * i + 1))
  BY <1>1 DEF IsTree, Hashed
<1>2. ASSUME ~ (i < Len(lvls[d]))
      PROVE  NodeAt(lvls, d, i) =
               HashPair(NodeAt(lvls, d - 1, 2 * i), NodeAt(lvls, d - 1, 2 * i + 1))
  <2>1. d - 1 \in Heights
    BY HeightsFinite
  <2>2. PICK n \in Nat : n = Len(lvls[d - 1])
    BY <2>1, Lengths DEF IsTree
  <2>3. Len(lvls[d]) = (n + 1) \div 2
    BY <2>2 DEF IsTree, Shaped
  <2>4. ~ (2 * i < n) /\ ~ (2 * i + 1 < n)
    BY <1>2, <2>3, Half
  <2>5. zeros[d] = HashPair(zeros[d - 1], zeros[d - 1])
    BY ZerosDef, Zenon
  <2> QED BY <1>2, <2>2, <2>4, <2>5 DEF NodeAt
<1> QED BY <1>1, <1>2

(* Different children make different parents.                                *)
LEMMA HashPairInjective ==
    ASSUME NEW l1, NEW r1, NEW l2, NEW r2, HashPair(l1, r1) = HashPair(l2, r2)
    PROVE  l1 = l2 /\ r1 = r2
BY DEF HashPair

(* Two trees that differ in a leaf have different roots.                     *)
LEMMA DifferentRoots ==
    ASSUME NEW A, NEW B, IsTree(A), IsTree(B), NEW index \in Nat, index < Width[Depth],
           NodeAt(A, 0, index) # NodeAt(B, 0, index)
    PROVE  Root(A) # Root(B)
<1>1. PICK idx : idx = Ancestors(index)
  OBVIOUS
<1>2. /\ idx[0] = index /\ \A d \in Heights : idx[d] \in Nat
      /\ \A d \in Heights : d # 0 => idx[d] = idx[d - 1] \div 2
      /\ \A d \in Heights : idx[d] < Width[Depth - d]
  BY <1>1, AncestorFacts
<1> DEFINE S == {d \in Heights : NodeAt(A, d, idx[d]) # NodeAt(B, d, idx[d])}
<1>3. ASSUME NEW k \in Heights, k # 0, k - 1 \in S PROVE k \in S
  <2>1. k - 1 \in Heights
    BY <1>3, HeightsFinite
  <2>2. PICK n \in Nat : n = idx[k - 1]
    BY <1>2, <2>1
  <2>3. PICK i \in Nat : i = idx[k] /\ (n = 2 * i \/ n = 2 * i + 1)
    BY <1>2, <1>3, <2>2, Half
  <2>4. NodeAt(A, k, i) =
            HashPair(NodeAt(A, k - 1, 2 * i), NodeAt(A, k - 1, 2 * i + 1))
    BY <1>3, HashedEverywhere
  <2>5. NodeAt(B, k, i) =
            HashPair(NodeAt(B, k - 1, 2 * i), NodeAt(B, k - 1, 2 * i + 1))
    BY <1>3, HashedEverywhere
  <2>6. NodeAt(A, k - 1, n) # NodeAt(B, k - 1, n)
    BY <1>3, <2>2
  <2>7. NodeAt(A, k, i) # NodeAt(B, k, i)
    BY <2>3, <2>4, <2>5, <2>6, HashPairInjective
  <2> QED BY <2>3, <2>7
<1>4. 0 \in S /\ S \in SUBSET Heights
  BY <1>2, HeightsFinite
<1>5. \A d \in Heights : d \in S
  <2> HIDE DEF S
  <2> QED BY <1>3, <1>4, Induction
<1>6. idx[Depth] = 0
  <2>1. Depth - Depth = 0 /\ Depth \in Heights
    BY HeightsFinite
  <2>2. idx[Depth] < 1 /\ idx[Depth] \in Nat
    BY <1>2, <2>1, WidthFacts
  <2> QED BY <2>2
<1> QED BY <1>5, <1>6, HeightsFinite DEF Root

-----------------------------------------------------------------------------
(* What an append does to the levels.                                        *)
(* One height hashed anew.                                                   *)
LEMMA RehashedLevel ==
    ASSUME NEW lvls, NEW d \in Heights, NEW i, DOMAIN lvls = Heights
    PROVE  /\ DOMAIN Rehashed(lvls, d, i) = Heights
           /\ \A e \in Heights : e # d => Rehashed(lvls, d, i)[e] = lvls[e]
           /\ Rehashed(lvls, d, i)[d] =
                Put(lvls[d], i,
                    HashPair(NodeAt(lvls, d - 1, 2 * i), NodeAt(lvls, d - 1, 2 * i + 1)))
<1> DEFINE node == HashPair(NodeAt(lvls, d - 1, 2 * i), NodeAt(lvls, d - 1, 2 * i + 1))
<1>1. Rehashed(lvls, d, i) = [lvls EXCEPT ![d] = Put(lvls[d], i, node)]
  BY DEF Rehashed
<1> HIDE DEF node
<1>2. PICK new : new = Put(lvls[d], i, node)
  OBVIOUS
<1>3. Rehashed(lvls, d, i) = [lvls EXCEPT ![d] = new]
  BY <1>1, <1>2
<1> QED BY <1>2, <1>3 DEF node

(* After an append, each height has the hash of the two nodes below.         *)
LEMMA AppendedLevels ==
    ASSUME NEW lvls, NEW leaf, DOMAIN lvls = Heights
    PROVE  /\ DOMAIN Appended(lvls, leaf) = Heights
           /\ Appended(lvls, leaf)[0] = Append(lvls[0], leaf)
           /\ \A d \in Heights : d # 0 =>
                LET i == Ancestors(Len(lvls[0]))[d] IN
                Appended(lvls, leaf)[d] =
                    Put(lvls[d], i,
                        HashPair(NodeAt(Appended(lvls, leaf), d - 1, 2 * i),
                                 NodeAt(Appended(lvls, leaf), d - 1, 2 * i + 1)))
<1>1. PICK idx : idx = Ancestors(Len(lvls[0]))
  OBVIOUS
<1>2. PICK f : /\ f = [d \in Heights |-> IF d = 0 THEN [lvls EXCEPT ![0] = Append(@, leaf)]
                                         ELSE Rehashed(f[d - 1], d, idx[d])]
               /\ Appended(lvls, leaf) = f[Depth]
  BY <1>1, AppendedDef
<1>3. f[0] = [lvls EXCEPT ![0] = Append(@, leaf)]
  BY <1>2, HeightsFinite, Zenon
<1>4. \A d \in Heights : d # 0 => f[d] = Rehashed(f[d - 1], d, idx[d])
  BY <1>2, Zenon
(* Heights that were not reached yet are as they were.                       *)
<1> DEFINE S == {d \in Heights : /\ DOMAIN f[d] = Heights
                                 /\ \A e \in Heights : e > d => f[d][e] = lvls[e]}
<1>5. \A d \in Heights : d \in S
  <2>1. 0 \in S /\ S \in SUBSET Heights
    <3>1. DOMAIN f[0] = Heights /\ \A e \in Heights : e # 0 => f[0][e] = lvls[e]
      BY <1>3, HeightsFinite
    <3> QED BY <3>1, HeightsFinite
  <2>2. ASSUME NEW k \in Heights, k # 0, k - 1 \in S PROVE k \in S
    <3>1. DOMAIN f[k - 1] = Heights
      BY <2>2
    <3>2. /\ DOMAIN f[k] = Heights
          /\ \A e \in Heights : e # k => f[k][e] = f[k - 1][e]
      BY <1>4, <2>2, <3>1, RehashedLevel
    <3>3. ASSUME NEW e \in Heights, e > k PROVE f[k][e] = lvls[e]
      <4>1. e > k - 1 /\ e # k
        BY <2>2, <3>3, HeightsFinite
      <4> QED BY <2>2, <3>2, <4>1
    <3> QED BY <3>2, <3>3
  <2> HIDE DEF S
  <2> QED BY <2>1, <2>2, Induction
(* Heights that were reached stay as they are.                               *)
<1> DEFINE T == {d \in Heights : \A e \in Heights : e <= d => f[d][e] = f[e][e]}
<1>6. \A d \in Heights : d \in T
  <2>1. 0 \in T /\ T \in SUBSET Heights
    <3>1. \A e \in Heights : e <= 0 => e = 0
      BY HeightsFinite
    <3> QED BY <3>1, HeightsFinite
  <2>2. ASSUME NEW k \in Heights, k # 0, k - 1 \in T PROVE k \in T
    <3>1. k - 1 \in S /\ k - 1 \in Heights
      BY <1>5, <2>2, HeightsFinite
    <3>2. DOMAIN f[k - 1] = Heights
      BY <3>1
    <3>3. \A e \in Heights : e # k => f[k][e] = f[k - 1][e]
      BY <1>4, <2>2, <3>2, RehashedLevel
    <3>4. ASSUME NEW e \in Heights, e <= k PROVE f[k][e] = f[e][e]
      <4>1. e = k \/ (e <= k - 1 /\ e # k)
        BY <2>2, <3>4, HeightsFinite
      <4> QED BY <2>2, <3>3, <4>1
    <3> QED BY <3>4
  <2> HIDE DEF T
  <2> QED BY <2>1, <2>2, Induction
<1>7. PICK L : L = Appended(lvls, leaf)
  OBVIOUS
<1>8. \A e \in Heights : L[e] = f[e][e]
  BY <1>2, <1>6, <1>7, HeightsFinite
<1>9. DOMAIN L = Heights
  BY <1>2, <1>5, <1>7, HeightsFinite
<1>10. L[0] = Append(lvls[0], leaf)
  BY <1>3, <1>8, HeightsFinite
<1>11. ASSUME NEW d \in Heights, d # 0
       PROVE  L[d] = Put(lvls[d], idx[d],
                         HashPair(NodeAt(L, d - 1, 2 * idx[d]),
                                  NodeAt(L, d - 1, 2 * idx[d] + 1)))
  <2>1. PICK i : i = idx[d]
    OBVIOUS
  <2>2. d - 1 \in Heights /\ d > d - 1
    BY <1>11, HeightsFinite
  <2>3. f[d - 1][d] = lvls[d] /\ DOMAIN f[d - 1] = Heights
    BY <1>5, <2>2
  <2>4. f[d][d] = Put(f[d - 1][d], i, HashPair(NodeAt(f[d - 1], d - 1, 2 * i),
                                               NodeAt(f[d - 1], d - 1, 2 * i + 1)))
    BY <1>4, <1>11, <2>1, <2>3, RehashedLevel
  <2>5. f[d - 1][d - 1] = L[d - 1]
    BY <1>8, <2>2
  <2>6. \A j : NodeAt(f[d - 1], d - 1, j) = NodeAt(L, d - 1, j)
    BY <2>5 DEF NodeAt
  <2>7. L[d] = f[d][d]
    BY <1>8
  <2> QED BY <2>1, <2>3, <2>4, <2>6, <2>7
<1> QED BY <1>1, <1>7, <1>9, <1>10, <1>11

(* Putting a node at the end of a level, or on its last node.                *)
LEMMA PutFacts ==
    ASSUME NEW N, NEW nodes \in Seq(N), NEW i \in Nat, NEW node \in N,
           i <= Len(nodes), Len(nodes) <= i + 1
    PROVE  /\ Put(nodes, i, node) \in Seq(N)
           /\ Len(Put(nodes, i, node)) = i + 1
           /\ Put(nodes, i, node)[i + 1] = node
           /\ \A j \in Nat : j < i => Put(nodes, i, node)[j + 1] = nodes[j + 1]
<1>1. ASSUME i = Len(nodes)
      PROVE  /\ Append(nodes, node) \in Seq(N)
             /\ Len(Append(nodes, node)) = i + 1
             /\ Append(nodes, node)[i + 1] = node
             /\ \A j \in Nat : j < i => Append(nodes, node)[j + 1] = nodes[j + 1]
  BY <1>1, AppendProperties
<1>2. ASSUME i # Len(nodes)
      PROVE  LET put == [nodes EXCEPT ![i + 1] = node] IN
             /\ put \in Seq(N)
             /\ Len(put) = i + 1
             /\ put[i + 1] = node
             /\ \A j \in Nat : j < i => put[j + 1] = nodes[j + 1]
  <2>1. Len(nodes) \in Nat /\ Len(nodes) = i + 1 /\ i + 1 \in 1..Len(nodes)
    BY <1>2, LenProperties
  <2>2. /\ [nodes EXCEPT ![i + 1] = node] \in Seq(N)
        /\ Len([nodes EXCEPT ![i + 1] = node]) = Len(nodes)
        /\ \A j \in 1..Len(nodes) : [nodes EXCEPT ![i + 1] = node][j] =
                                      IF j = i + 1 THEN node ELSE nodes[j]
    BY <2>1, ExceptSeq
  <2> QED BY <2>1, <2>2
<1> QED BY <1>1, <1>2 DEF Put

(* A tree's nodes are nodes of their height.                                 *)
LEMMA NodeAtType ==
    ASSUME NEW lvls, NEW d \in Heights, lvls[d] \in Seq(Nodes[d]), NEW i \in Nat
    PROVE  NodeAt(lvls, d, i) \in Nodes[d]
<1>1. \A k \in Heights : Nodes[k] = IF k = 0 THEN Leaf \cup {Empty} ELSE Pairs(Nodes[k - 1])
  BY NodesDef, Zenon
<1>2. \A k \in Heights : zeros[k] = IF k = 0 THEN Empty ELSE HashPair(zeros[k - 1], zeros[k - 1])
  BY ZerosDef, Zenon
<1> DEFINE S == {k \in Heights : zeros[k] \in Nodes[k]}
<1>3. \A k \in Heights : k \in S
  <2>1. ASSUME NEW k \in Heights, k # 0, k - 1 \in S PROVE k \in S
    <3>1. HashPair(zeros[k - 1], zeros[k - 1]) \in Pairs(Nodes[k - 1])
      BY <2>1 DEF HashPair, Pairs
    <3> QED BY <1>1, <1>2, <2>1, <3>1
  <2>2. 0 \in S /\ S \in SUBSET Heights
    BY <1>1, <1>2, HeightsFinite
  <2> HIDE DEF S
  <2> QED BY <2>1, <2>2, Induction
<1>4. Len(lvls[d]) \in Nat /\ \A j \in 1..Len(lvls[d]) : lvls[d][j] \in Nodes[d]
  BY LenProperties, ElementOfSeq
<1>5. i < Len(lvls[d]) => i + 1 \in 1..Len(lvls[d])
  BY <1>4
<1> QED BY <1>3, <1>4, <1>5 DEF NodeAt

(* The parent of two nodes is a node of the height above.                    *)
LEMMA HashPairType ==
    ASSUME NEW d \in Heights, d # 0, NEW left \in Nodes[d - 1], NEW right \in Nodes[d - 1]
    PROVE  HashPair(left, right) \in Nodes[d]
<1>1. Nodes[d] = Pairs(Nodes[d - 1])
  BY NodesDef, Zenon
<1> QED BY <1>1 DEF HashPair, Pairs

(* On the way up from the next leaf, each ancestor is the last node of its   *)
(* level or the next one.                                                    *)
LEMMA RightEdge ==
    ASSUME NEW lvls, Shaped(lvls), NEW d \in Heights
    PROVE  LET i == Ancestors(Len(lvls[0]))[d] IN
           i \in Nat /\ i <= Len(lvls[d]) /\ Len(lvls[d]) <= i + 1
<1>1. Len(lvls[0]) \in Nat
  BY Lengths, HeightsFinite
<1>2. PICK idx : idx = Ancestors(Len(lvls[0]))
  OBVIOUS
<1>3. /\ idx[0] = Len(lvls[0]) /\ \A k \in Heights : idx[k] \in Nat
      /\ \A k \in Heights : k # 0 => idx[k] = idx[k - 1] \div 2
  BY <1>1, <1>2, AncestorFacts
<1> DEFINE S == {k \in Heights : idx[k] <= Len(lvls[k]) /\ Len(lvls[k]) <= idx[k] + 1}
<1>4. ASSUME NEW k \in Heights, k # 0, k - 1 \in S PROVE k \in S
  <2>1. k - 1 \in Heights
    BY <1>4, HeightsFinite
  <2>2. PICK n \in Nat : n = Len(lvls[k - 1])
    BY <2>1, Lengths
  <2>3. PICK i \in Nat : i = idx[k - 1] /\ i <= n /\ n <= i + 1
    BY <1>3, <1>4, <2>1, <2>2
  <2>4. PICK m \in Nat : m = n + 1
    BY <2>2
  <2>5. Len(lvls[k]) = m \div 2 /\ idx[k] = i \div 2
    BY <1>3, <1>4, <2>2, <2>3, <2>4 DEF Shaped
  <2>6. PICK p \in Nat : p = m \div 2 /\ 2 * p <= m /\ m < 2 * p + 2
    BY Half
  <2>7. PICK q \in Nat : q = i \div 2 /\ 2 * q <= i /\ i < 2 * q + 2
    BY Half
  <2>8. q <= p /\ p <= q + 1
    BY <2>3, <2>4, <2>6, <2>7
  <2> QED BY <2>5, <2>6, <2>7, <2>8
<1>5. 0 \in S /\ S \in SUBSET Heights
  BY <1>1, <1>3, HeightsFinite
<1>6. \A k \in Heights : k \in S
  <2> HIDE DEF S
  <2> QED BY <1>4, <1>5, Induction
<1> QED BY <1>2, <1>3, <1>6

(* An append puts one node on each level, all on the way up from the leaf,   *)
(* and leaves the nodes to their left as they are.                           *)
LEMMA AppendedNodes ==
    ASSUME NEW lvls, Shaped(lvls), NEW leaf \in Leaf \cup {Empty}
    PROVE  \A d \in Heights :
             LET i == Ancestors(Len(lvls[0]))[d]
                 L == Appended(lvls, leaf)
             IN  /\ i \in Nat
                 /\ L[d] \in Seq(Nodes[d])
                 /\ Len(L[d]) = i + 1
                 /\ \A j \in Nat : j < i => NodeAt(L, d, j) = NodeAt(lvls, d, j)
                 /\ d = 0 => NodeAt(L, d, i) = leaf
                 /\ d # 0 => NodeAt(L, d, i) = HashPair(NodeAt(L, d - 1, 2 * i),
                                                        NodeAt(L, d - 1, 2 * i + 1))
<1>1. PICK idx : idx = Ancestors(Len(lvls[0]))
  OBVIOUS
<1>2. PICK L : L = Appended(lvls, leaf)
  OBVIOUS
<1>3. \A d \in Heights : idx[d] \in Nat /\ idx[d] <= Len(lvls[d]) /\ Len(lvls[d]) <= idx[d] + 1
  BY <1>1, RightEdge
<1>4. DOMAIN lvls = Heights
  BY DEF Shaped
<1>5. /\ L[0] = Append(lvls[0], leaf)
      /\ \A d \in Heights : d # 0 =>
             L[d] = Put(lvls[d], idx[d], HashPair(NodeAt(L, d - 1, 2 * idx[d]),
                                                  NodeAt(L, d - 1, 2 * idx[d] + 1)))
  BY <1>1, <1>2, <1>4, AppendedLevels
<1>6. idx[0] = Len(lvls[0])
  BY <1>1, AncestorFacts, Lengths, HeightsFinite
<1>7. \A d \in Heights : lvls[d] \in Seq(Nodes[d])
  BY DEF Shaped
(* One level on which a node was put.                                        *)
<1>8. ASSUME NEW d \in Heights, NEW node \in Nodes[d], L[d] = Put(lvls[d], idx[d], node)
      PROVE  /\ L[d] \in Seq(Nodes[d])
             /\ Len(L[d]) = idx[d] + 1
             /\ NodeAt(L, d, idx[d]) = node
             /\ \A j \in Nat : j < idx[d] => NodeAt(L, d, j) = NodeAt(lvls, d, j)
  <2>1. PICK i \in Nat : i = idx[d] /\ i <= Len(lvls[d]) /\ Len(lvls[d]) <= i + 1
    BY <1>3
  <2>2. /\ L[d] \in Seq(Nodes[d])
        /\ Len(L[d]) = i + 1
        /\ L[d][i + 1] = node
        /\ \A j \in Nat : j < i => L[d][j + 1] = lvls[d][j + 1]
    BY <1>7, <1>8, <2>1, PutFacts
  <2>3. NodeAt(L, d, i) = node
    BY <2>2 DEF NodeAt
  <2>4. ASSUME NEW j \in Nat, j < i PROVE NodeAt(L, d, j) = NodeAt(lvls, d, j)
    <3>1. Len(lvls[d]) \in Nat
      BY Lengths
    <3>2. j < Len(lvls[d]) /\ j < Len(L[d])
      BY <2>1, <2>2, <2>4, <3>1
    <3> QED BY <2>2, <2>4, <3>2 DEF NodeAt
  <2> QED BY <2>1, <2>2, <2>3, <2>4
<1>9. leaf \in Nodes[0] /\ L[0] = Put(lvls[0], idx[0], leaf)
  <2>1. Nodes[0] = Leaf \cup {Empty}
    BY NodesDef, HeightsFinite, Zenon
  <2> QED BY <1>5, <1>6, <2>1 DEF Put
<1> DEFINE S == {d \in Heights : L[d] \in Seq(Nodes[d])}
<1>10. ASSUME NEW k \in Heights, k # 0, k - 1 \in S
       PROVE  HashPair(NodeAt(L, k - 1, 2 * idx[k]), NodeAt(L, k - 1, 2 * idx[k] + 1))
                  \in Nodes[k]
  <2>1. PICK i \in Nat : i = idx[k]
    BY <1>3
  <2>2. 2 * i \in Nat /\ 2 * i + 1 \in Nat /\ k - 1 \in Heights
    BY <1>10, HeightsFinite
  <2>3. NodeAt(L, k - 1, 2 * i) \in Nodes[k - 1] /\ NodeAt(L, k - 1, 2 * i + 1) \in Nodes[k - 1]
    BY <1>10, <2>2, NodeAtType
  <2> QED BY <1>10, <2>1, <2>3, HashPairType
<1>11. \A d \in Heights : d \in S
  <2>1. 0 \in S /\ S \in SUBSET Heights
    BY <1>8, <1>9, HeightsFinite
  <2>2. ASSUME NEW k \in Heights, k # 0, k - 1 \in S PROVE k \in S
    BY <1>5, <1>8, <1>10, <2>2
  <2> HIDE DEF S
  <2> QED BY <2>1, <2>2, Induction
<1>12. ASSUME NEW d \in Heights
       PROVE  /\ idx[d] \in Nat
              /\ L[d] \in Seq(Nodes[d])
              /\ Len(L[d]) = idx[d] + 1
              /\ \A j \in Nat : j < idx[d] => NodeAt(L, d, j) = NodeAt(lvls, d, j)
              /\ d = 0 => NodeAt(L, d, idx[d]) = leaf
              /\ d # 0 => NodeAt(L, d, idx[d]) =
                            HashPair(NodeAt(L, d - 1, 2 * idx[d]),
                                     NodeAt(L, d - 1, 2 * idx[d] + 1))
  <2>1. CASE d = 0
    BY <1>3, <1>8, <1>9, <2>1
  <2>2. CASE d # 0
    <3>1. d - 1 \in S
      BY <1>11, <2>2, HeightsFinite
    <3>2. PICK node \in Nodes[d] : node = HashPair(NodeAt(L, d - 1, 2 * idx[d]),
                                                   NodeAt(L, d - 1, 2 * idx[d] + 1))
      BY <1>10, <2>2, <3>1
    <3>3. L[d] = Put(lvls[d], idx[d], node)
      BY <1>5, <2>2, <3>2
    <3> QED BY <1>3, <1>8, <2>2, <3>2, <3>3
  <2> QED BY <2>1, <2>2
<1> QED BY <1>1, <1>2, <1>12

(* A tree with room for another leaf is a tree after it was appended.        *)
LEMMA AppendedIsTree ==
    ASSUME NEW lvls, IsTree(lvls), Len(lvls[0]) < Width[Depth], NEW leaf \in Leaf \cup {Empty}
    PROVE  IsTree(Appended(lvls, leaf))
<1>1. PICK idx : idx = Ancestors(Len(lvls[0]))
  OBVIOUS
<1>2. PICK L : L = Appended(lvls, leaf)
  OBVIOUS
<1>3. Shaped(lvls)
  BY DEF IsTree
<1>4. /\ idx[0] = Len(lvls[0])
      /\ \A d \in Heights : d # 0 => idx[d] = idx[d - 1] \div 2
  BY <1>1, <1>3, AncestorFacts, Lengths, HeightsFinite
<1>5. \A d \in Heights :
        /\ idx[d] \in Nat
        /\ L[d] \in Seq(Nodes[d])
        /\ Len(L[d]) = idx[d] + 1
        /\ \A j \in Nat : j < idx[d] => NodeAt(L, d, j) = NodeAt(lvls, d, j)
        /\ d # 0 => NodeAt(L, d, idx[d]) =
                      HashPair(NodeAt(L, d - 1, 2 * idx[d]), NodeAt(L, d - 1, 2 * idx[d] + 1))
  BY <1>1, <1>2, <1>3, AppendedNodes
<1>6. Shaped(L)
  <2>1. DOMAIN L = Heights
    BY <1>2, <1>3, AppendedLevels DEF Shaped
  <2>2. ASSUME NEW d \in Heights, d # 0
        PROVE  Len(L[d]) = (Len(L[d - 1]) + 1) \div 2
    <3>1. d - 1 \in Heights
      BY <2>2, HeightsFinite
    <3>2. PICK i \in Nat : i = idx[d - 1] /\ Len(L[d - 1]) = i + 1
      BY <1>5, <3>1
    <3>3. Len(L[d]) = (i \div 2) + 1
      BY <1>4, <1>5, <2>2, <3>2
    <3>4. (i \div 2) + 1 = (i + 1 + 1) \div 2
      OBVIOUS
    <3> QED BY <3>2, <3>3, <3>4
  <2>3. Len(L[0]) <= Width[Depth]
    BY <1>4, <1>5, HeightsFinite, WidthFacts
  <2> QED BY <1>5, <2>1, <2>2, <2>3 DEF Shaped
<1>7. ASSUME NEW d \in Heights, d # 0, NEW i \in Nat, i < Len(L[d])
      PROVE  NodeAt(L, d, i) = HashPair(NodeAt(L, d - 1, 2 * i), NodeAt(L, d - 1, 2 * i + 1))
  <2>1. CASE i = idx[d]
    BY <1>5, <1>7, <2>1
  <2>2. CASE i < idx[d]
    <3>1. d - 1 \in Heights
      BY <1>7, HeightsFinite
    <3>2. PICK n \in Nat : n = idx[d - 1]
      BY <1>5, <3>1
    <3>3. PICK m \in Nat : m = idx[d] /\ 2 * m <= n
      BY <1>4, <1>7, <3>2, Half
    <3>4. 2 * i \in Nat /\ 2 * i + 1 \in Nat /\ 2 * i < n /\ 2 * i + 1 < n
      BY <2>2, <3>3
    <3>5. /\ NodeAt(L, d - 1, 2 * i) = NodeAt(lvls, d - 1, 2 * i)
          /\ NodeAt(L, d - 1, 2 * i + 1) = NodeAt(lvls, d - 1, 2 * i + 1)
      BY <1>5, <3>1, <3>2, <3>4
    <3>6. NodeAt(L, d, i) = NodeAt(lvls, d, i)
      BY <1>5, <2>2
    <3>7. NodeAt(lvls, d, i) =
            HashPair(NodeAt(lvls, d - 1, 2 * i), NodeAt(lvls, d - 1, 2 * i + 1))
      BY <1>7, HashedEverywhere
    <3> QED BY <3>5, <3>6, <3>7
  <2>3. idx[d] \in Nat /\ Len(L[d]) = idx[d] + 1
    BY <1>5
  <2>4. i = idx[d] \/ i < idx[d]
    BY <1>7, <2>3
  <2> QED BY <2>1, <2>2, <2>4
<1> QED BY <1>2, <1>6, <1>7 DEF IsTree, Hashed

(* A tree is the reference tree over its leaves, stored or not.              *)
LEMMA TreeIsComplete ==
    ASSUME NEW lvls, IsTree(lvls)
    PROVE  \A d \in Heights : \A i \in 0..(Width[Depth - d] - 1) :
               NodeAt(lvls, d, i) = Complete(lvls[0])[d][i]
<1>1. PICK node : node = Complete(lvls[0])
  OBVIOUS
<1>2. \A d \in Heights :
        node[d] = IF d = 0 THEN Bottom(lvls[0]) ELSE Above(node[d - 1], Width[Depth - d])
  BY <1>1, CompleteDef, Zenon
<1> DEFINE S == {d \in Heights : \A i \in 0..(Width[Depth - d] - 1) :
                                     NodeAt(lvls, d, i) = node[d][i]}
<1>3. 0 \in S /\ S \in SUBSET Heights
  <2>1. node[0] = Bottom(lvls[0]) /\ Depth - 0 = Depth
    BY <1>2, HeightsFinite
  <2>2. zeros[0] = Empty
    BY ZerosDef, HeightsFinite, Zenon
  <2> QED BY <2>1, <2>2, HeightsFinite DEF Bottom, LeafAt, NodeAt
<1>4. ASSUME NEW k \in Heights, k # 0, k - 1 \in S PROVE k \in S
  <2>1. k \in Nat /\ k - 1 \in Heights /\ Depth - k \in Heights
        /\ Depth - (k - 1) \in Heights /\ Depth - (k - 1) # 0
        /\ (Depth - (k - 1)) - 1 = Depth - k
    BY <1>4, HeightsFinite DEF Heights
  <2>2. PICK w \in Nat : w = Width[Depth - k] /\ Width[Depth - (k - 1)] = 2 * w
    BY <2>1, WidthFacts
  <2>3. ASSUME NEW i \in 0..(w - 1) PROVE NodeAt(lvls, k, i) = node[k][i]
    <3>1. i \in Nat /\ 2 * i \in 0..(2 * w - 1) /\ 2 * i + 1 \in 0..(2 * w - 1)
      BY <2>2
    <3>2. /\ NodeAt(lvls, k - 1, 2 * i) = node[k - 1][2 * i]
          /\ NodeAt(lvls, k - 1, 2 * i + 1) = node[k - 1][2 * i + 1]
      BY <1>4, <2>2, <3>1
    <3>3. NodeAt(lvls, k, i) =
            HashPair(NodeAt(lvls, k - 1, 2 * i), NodeAt(lvls, k - 1, 2 * i + 1))
      BY <1>4, <3>1, HashedEverywhere
    <3>4. node[k] = Above(node[k - 1], w)
      BY <1>2, <1>4, <2>2
    <3>5. node[k][i] = HashPair(node[k - 1][2 * i], node[k - 1][2 * i + 1])
      BY <3>4 DEF Above
    <3> QED BY <3>2, <3>3, <3>5
  <2> QED BY <2>2, <2>3
<1>5. \A d \in Heights : d \in S
  <2> HIDE DEF S
  <2> QED BY <1>3, <1>4, Induction
<1> QED BY <1>1, <1>5

(* The parent by a path element is the hash of the node and its sibling.     *)
LEMMA ParentOf ==
    ASSUME NEW node, NEW s, NEW b \in BOOLEAN
    PROVE  Parent(node, [sibling |-> s, right |-> b]) =
             IF b THEN HashPair(node, s) ELSE HashPair(s, node)
BY DEF Parent

(* The element of a path at one height, and the number of elements.          *)
LEMMA PathElements ==
    ASSUME NEW lvls, NEW index \in Nat
    PROVE  /\ Len(Path(lvls, index)) = Depth
           /\ \A d \in Heights : d # 0 =>
                Path(lvls, index)[d] =
                  [sibling |-> NodeAt(lvls, d - 1, Sibling(Ancestors(index)[d - 1])),
                   right |-> Ancestors(index)[d - 1] % 2 = 0]
<1> DEFINE element(h) == [sibling |-> NodeAt(lvls, h - 1, Sibling(Ancestors(index)[h - 1])),
                          right |-> Ancestors(index)[h - 1] % 2 = 0]
<1>1. Path(lvls, index) = [h \in 1..Depth |-> element(h)]
  BY DEF Path
<1> HIDE DEF element
<1>2. Len(Path(lvls, index)) = Depth
  BY <1>1, HeightsFinite
<1>3. \A d \in Heights : d # 0 => d \in 1..Depth
  BY HeightsFinite
<1> QED BY <1>1, <1>2, <1>3 DEF element

(* Along its path a leaf meets its ancestors: the path leads to the root.    *)
LEMMA PathLeadsToRoot ==
    ASSUME NEW lvls, IsTree(lvls), NEW index \in Nat, index < Width[Depth]
    PROVE  Climb(NodeAt(lvls, 0, index), Path(lvls, index)) = Root(lvls)
<1>1. PICK idx : idx = Ancestors(index)
  OBVIOUS
<1>2. /\ idx[0] = index /\ \A d \in Heights : idx[d] \in Nat
      /\ \A d \in Heights : d # 0 => idx[d] = idx[d - 1] \div 2
      /\ \A d \in Heights : idx[d] < Width[Depth - d]
  BY <1>1, AncestorFacts
<1>3. PICK path : path = Path(lvls, index)
  OBVIOUS
<1>4. /\ Len(path) = Depth
      /\ \A d \in Heights : d # 0 =>
           path[d] = [sibling |-> NodeAt(lvls, d - 1, Sibling(idx[d - 1])),
                      right |-> idx[d - 1] % 2 = 0]
  BY <1>1, <1>3, PathElements
<1>5. PICK leaf : leaf = NodeAt(lvls, 0, index)
  OBVIOUS
<1>6. PICK up : Climbs(up, leaf, path) /\ Climb(leaf, path) = up[Depth]
  BY <1>4, ClimbDef
<1>7. \A d \in Heights : up[d] = IF d = 0 THEN leaf ELSE Parent(up[d - 1], path[d])
  BY <1>6, Zenon DEF Climbs
<1> DEFINE S == {d \in Heights : up[d] = NodeAt(lvls, d, idx[d])}
<1>8. 0 \in S /\ S \in SUBSET Heights
  BY <1>2, <1>5, <1>7, HeightsFinite
<1>9. ASSUME NEW k \in Heights, k # 0, k - 1 \in S PROVE k \in S
  <2>1. k - 1 \in Heights
    BY <1>9, HeightsFinite
  <2>2. PICK n \in Nat : n = idx[k - 1]
    BY <1>2, <2>1
  <2>3. PICK i \in Nat : /\ i = idx[k]
                         /\ (n % 2 = 0 => n = 2 * i) /\ (n % 2 # 0 => n = 2 * i + 1)
    BY <1>2, <1>9, <2>2, Half
  <2>4. up[k] = Parent(NodeAt(lvls, k - 1, n), path[k])
    BY <1>7, <1>9, <2>2
  <2>5. NodeAt(lvls, k, i) =
          HashPair(NodeAt(lvls, k - 1, 2 * i), NodeAt(lvls, k - 1, 2 * i + 1))
    BY <1>9, HashedEverywhere
  <2>6. path[k] = [sibling |-> NodeAt(lvls, k - 1, Sibling(n)), right |-> n % 2 = 0]
    BY <1>4, <1>9, <2>2, Zenon
  <2>7. ASSUME n % 2 = 0 PROVE up[k] = NodeAt(lvls, k, i)
    <3>1. Sibling(n) = 2 * i + 1 /\ n = 2 * i
      BY <2>3, <2>7 DEF Sibling
    <3>2. up[k] = HashPair(NodeAt(lvls, k - 1, n), NodeAt(lvls, k - 1, Sibling(n)))
      BY <2>4, <2>6, <2>7, ParentOf
    <3> QED BY <2>5, <3>1, <3>2
  <2>8. ASSUME n % 2 # 0 PROVE up[k] = NodeAt(lvls, k, i)
    <3>1. Sibling(n) = 2 * i /\ n = 2 * i + 1
      BY <2>3, <2>8 DEF Sibling
    <3>2. up[k] = HashPair(NodeAt(lvls, k - 1, Sibling(n)), NodeAt(lvls, k - 1, n))
      BY <2>4, <2>6, <2>8, ParentOf
    <3> QED BY <2>5, <3>1, <3>2
  <2> QED BY <2>3, <2>7, <2>8
<1>10. \A d \in Heights : d \in S
  <2> HIDE DEF S
  <2> QED BY <1>8, <1>9, Induction
<1>11. idx[Depth] = 0
  <2>1. Depth - Depth = 0 /\ Depth \in Heights
    BY HeightsFinite
  <2>2. idx[Depth] < 1 /\ idx[Depth] \in Nat
    BY <1>2, <2>1, WidthFacts
  <2> QED BY <2>2
<1>12. up[Depth] = NodeAt(lvls, Depth, 0)
  BY <1>10, <1>11, HeightsFinite
<1> QED BY <1>3, <1>5, <1>6, <1>12 DEF Root

(* Different leaves do not meet along the same path.                         *)
LEMMA ClimbInjective ==
    ASSUME NEW path, Len(path) = Depth, NEW leaf, NEW other,
           Climb(leaf, path) = Climb(other, path)
    PROVE  leaf = other
<1> SUFFICES ASSUME leaf # other PROVE FALSE
  OBVIOUS
<1>1. PICK up : Climbs(up, leaf, path) /\ Climb(leaf, path) = up[Depth]
  BY ClimbDef
<1>2. PICK vp : Climbs(vp, other, path) /\ Climb(other, path) = vp[Depth]
  BY ClimbDef
<1>3. \A d \in Heights : up[d] = IF d = 0 THEN leaf ELSE Parent(up[d - 1], path[d])
  BY <1>1, Zenon DEF Climbs
<1>4. \A d \in Heights : vp[d] = IF d = 0 THEN other ELSE Parent(vp[d - 1], path[d])
  BY <1>2, Zenon DEF Climbs
<1> DEFINE S == {d \in Heights : up[d] # vp[d]}
<1>5. 0 \in S /\ S \in SUBSET Heights
  BY <1>3, <1>4, HeightsFinite
<1>6. ASSUME NEW k \in Heights, k # 0, k - 1 \in S PROVE k \in S
  <2>1. up[k] = Parent(up[k - 1], path[k]) /\ vp[k] = Parent(vp[k - 1], path[k])
    BY <1>3, <1>4, <1>6
  <2> QED BY <1>6, <2>1, HashPairInjective DEF Parent
<1>7. \A d \in Heights : d \in S
  <2> HIDE DEF S
  <2> QED BY <1>5, <1>6, Induction
<1> QED BY <1>1, <1>2, <1>7, HeightsFinite

-----------------------------------------------------------------------------
(* No leaf yet: a tree.                                                      *)
LEMMA EmptyIsTree == IsTree([d \in 0..Depth |-> <<>>])
<1> DEFINE none == [d \in 0..Depth |-> <<>>]
<1>1. DOMAIN none = Heights /\ \A d \in Heights : none[d] = <<>>
  BY DEF Heights
<1>2. \A d \in Heights : Len(none[d]) = 0 /\ none[d] \in Seq(Nodes[d])
  <2>1. \A N : <<>> \in Seq(N) /\ Len(<<>>) = 0
    BY EmptySeq
  <2> HIDE DEF none
  <2> QED BY <1>1, <2>1
<1>3. (0 + 1) \div 2 = 0
  OBVIOUS
<1> HIDE DEF none
<1>4. Len(none[0]) <= Width[Depth]
  BY <1>2, HeightsFinite, WidthFacts
<1>5. Shaped(none)
  BY <1>1, <1>2, <1>3, <1>4, HeightsFinite DEF Shaped
<1>6. Hashed(none)
  <2>1. \A d \in Heights : \A i \in Nat : ~ (i < Len(none[d]))
    BY <1>2
  <2> QED BY <2>1 DEF Hashed
<1> QED BY <1>5, <1>6 DEF IsTree, none

(* Appends keep the shape of the levels and leave no cached node that is not *)
(* the hash of its children (MerkleTree::append), whatever the leaves and    *)
(* the depth.                                                                *)
THEOREM TreeInvariant == MerkleSpec => []IsTree(levels)
<1>1. MerkleInit => IsTree(levels)
  BY EmptyIsTree DEF MerkleInit
<1>2. IsTree(levels) /\ [MerkleNext]_levels => IsTree(levels)'
  <2> SUFFICES ASSUME IsTree(levels), [MerkleNext]_levels
               PROVE  IsTree(levels')
    BY DEF IsTree, Shaped, Hashed, NodeAt
  <2>1. CASE StartEmpty
    BY <2>1, EmptyIsTree DEF StartEmpty
  <2>2. ASSUME NEW leaf \in Leaf, AppendLeaf(leaf) PROVE IsTree(levels')
    BY <2>2, AppendedIsTree DEF AppendLeaf
  <2>3. CASE UNCHANGED levels
    BY <2>3
  <2> QED BY <2>1, <2>2, <2>3 DEF MerkleNext
<1> QED BY <1>1, <1>2, PTL DEF MerkleSpec

(* The incremental tree is the complete tree: its root and every cached node *)
(* (root, append; incremental_root_matches_naive_rebuild), and it holds no   *)
(* node without a leaf below.                                                *)
THEOREM LevelsAlwaysRight == MerkleSpec => []LevelsRight
<1>1. IsTree(levels) => LevelsRight
  <2> SUFFICES ASSUME IsTree(levels) PROVE LevelsRight
    OBVIOUS
  <2>1. PICK node : node = Complete(levels[0])
    OBVIOUS
  <2>2. \A d \in Heights : \A i \in 0..(Width[Depth - d] - 1) : NodeAt(levels, d, i) = node[d][i]
    BY <2>1, TreeIsComplete
  <2>3. Root(levels) = node[Depth][0]
    <3>1. Depth \in Heights /\ Depth - Depth = 0 /\ 0 \in 0..(1 - 1)
      BY HeightsFinite
    <3> QED BY <2>2, <3>1, WidthFacts DEF Root
  <2>4. \A d \in 1..Depth : Len(levels[d]) = (Len(levels[d - 1]) + 1) \div 2
    <3>1. \A d \in 1..Depth : d \in Heights /\ d # 0
      BY HeightsFinite DEF Heights
    <3> QED BY <3>1 DEF IsTree, Shaped
  <2>5. ASSUME NEW d \in 0..Depth, NEW i \in 0..(Len(levels[d]) - 1)
        PROVE  levels[d][i + 1] = node[d][i]
    <3>1. d \in Heights /\ Depth - d \in Heights
      BY HeightsFinite DEF Heights
    <3>2. PICK w \in Nat : w = Width[Depth - d]
      BY <3>1, WidthFacts
    <3>3. PICK n \in Nat : n = Len(levels[d]) /\ n <= w
      BY <3>1, <3>2, Lengths DEF IsTree
    <3>4. i \in 0..(w - 1) /\ i < n
      BY <3>3
    <3> QED BY <2>2, <3>1, <3>2, <3>3, <3>4 DEF NodeAt
  <2> QED BY <2>1, <2>3, <2>4, <2>5 DEF LevelsRight
<1> QED BY <1>1, TreeInvariant, PTL

(* A position with a leaf.                                                   *)
LEMMA LeafPosition ==
    ASSUME NEW lvls, IsTree(lvls), NEW i \in 0..(Len(lvls[0]) - 1)
    PROVE  i \in Nat /\ i < Width[Depth] /\ NodeAt(lvls, 0, i) = lvls[0][i + 1]
<1>1. PICK w \in Nat : w = Width[Depth]
  BY WidthFacts, HeightsFinite
<1>2. PICK n \in Nat : n = Len(lvls[0]) /\ n <= w
  BY <1>1, Lengths, HeightsFinite DEF IsTree, Shaped
<1>3. i \in Nat /\ i < n /\ i < w
  BY <1>2
<1> QED BY <1>1, <1>2, <1>3 DEF NodeAt

(* The path served for a leaf verifies against the current root (path,       *)
(* verify_path), wherever the tree ends.                                     *)
THEOREM PathsAlwaysVerify == MerkleSpec => []PathsVerify
<1>1. IsTree(levels) => PathsVerify
  <2> SUFFICES ASSUME IsTree(levels), NEW i \in 0..(Size - 1)
               PROVE  VerifyPath(levels[0][i + 1], Path(levels, i), Root(levels))
    BY DEF PathsVerify
  <2> QED BY LeafPosition, PathLeadsToRoot DEF Size, VerifyPath
<1> QED BY <1>1, TreeInvariant, PTL

(* No other leaf verifies along that path: the hash is free of collisions    *)
(* and an element of the path says on which side it is.                      *)
THEOREM PathsAlwaysBind == MerkleSpec => []PathsBind
<1>1. IsTree(levels) => PathsBind
  <2> SUFFICES ASSUME IsTree(levels), NEW i \in 0..(Size - 1), NEW leaf \in Leaf \cup {Empty},
                      VerifyPath(leaf, Path(levels, i), Root(levels))
               PROVE  leaf = levels[0][i + 1]
    BY DEF PathsBind
  <2>1. i \in Nat /\ i < Width[Depth] /\ NodeAt(levels, 0, i) = levels[0][i + 1]
    BY LeafPosition DEF Size
  <2>2. Climb(levels[0][i + 1], Path(levels, i)) = Root(levels)
    BY <2>1, PathLeadsToRoot
  <2>3. Climb(leaf, Path(levels, i)) = Root(levels)
    BY DEF VerifyPath
  <2>4. Len(Path(levels, i)) = Depth
    BY <2>1, PathElements
  <2> QED BY <2>2, <2>3, <2>4, ClimbInjective
<1> QED BY <1>1, TreeInvariant, PTL

(* An append of a leaf that is not the empty one changes the root: every     *)
(* append of a note gives the pool a root it did not have the step before    *)
(* (append, root; per_append_root_history_is_replayable).                    *)
THEOREM AppendsChangeRoot == MerkleSpec => AppendChangesRoot
<1>1. ASSUME IsTree(levels), [MerkleNext]_levels,
             Len(levels'[0]) > Size, levels'[0][Size + 1] # Empty
      PROVE  Root(levels') # Root(levels)
  <2>1. PICK n \in Nat : n = Size
    BY <1>1, Lengths, HeightsFinite DEF IsTree, Size
  <2>2. PICK leaf \in Leaf : AppendLeaf(leaf)
    <3>1. CASE StartEmpty
      <4>1. levels'[0] = <<>>
        BY <3>1, HeightsFinite DEF StartEmpty, Heights
      <4> QED BY <1>1, <2>1, <4>1
    <3>2. CASE UNCHANGED levels
      BY <1>1, <2>1, <3>2 DEF Size
    <3> QED BY <1>1, <3>1, <3>2 DEF MerkleNext
  <2>3. IsTree(levels') /\ n < Width[Depth] /\ levels' = Appended(levels, leaf)
    BY <1>1, <2>1, <2>2, AppendedIsTree DEF AppendLeaf, Size
  <2>4. levels'[0] = Append(levels[0], leaf) /\ levels[0] \in Seq(Nodes[0])
    BY <1>1, <2>3, AppendedLevels, HeightsFinite DEF IsTree, Shaped
  <2>5. NodeAt(levels', 0, n) = levels'[0][n + 1]
    BY <1>1, <2>1 DEF NodeAt
  <2>6. NodeAt(levels, 0, n) = Empty
    <3>1. zeros[0] = Empty
      BY ZerosDef, HeightsFinite, Zenon
    <3> QED BY <2>1, <3>1 DEF NodeAt, Size
  <2>7. NodeAt(levels', 0, n) # NodeAt(levels, 0, n)
    BY <1>1, <2>1, <2>5, <2>6
  <2> QED BY <1>1, <2>3, <2>7, DifferentRoots
<1>2. IsTree(levels) /\ [MerkleNext]_levels
        => [Len(levels'[0]) > Size /\ levels'[0][Size + 1] # Empty
              => Root(levels') # Root(levels)]_levels
  BY <1>1
<1> QED BY <1>2, TreeInvariant, PTL DEF MerkleSpec, AppendChangesRoot

(* Two trees with the same leaves are the same everywhere.                   *)
LEMMA SameNodes ==
    ASSUME NEW A, NEW B, IsTree(A), IsTree(B),
           \A i \in Nat : NodeAt(A, 0, i) = NodeAt(B, 0, i)
    PROVE  Root(A) = Root(B)
<1> DEFINE S == {d \in Heights : \A i \in Nat : NodeAt(A, d, i) = NodeAt(B, d, i)}
<1>1. ASSUME NEW k \in Heights, k # 0, k - 1 \in S PROVE k \in S
  <2>1. ASSUME NEW i \in Nat PROVE NodeAt(A, k, i) = NodeAt(B, k, i)
    <3>1. 2 * i \in Nat /\ 2 * i + 1 \in Nat
      OBVIOUS
    <3>2. NodeAt(A, k, i) = HashPair(NodeAt(A, k - 1, 2 * i), NodeAt(A, k - 1, 2 * i + 1))
      BY <1>1, HashedEverywhere
    <3>3. NodeAt(B, k, i) = HashPair(NodeAt(B, k - 1, 2 * i), NodeAt(B, k - 1, 2 * i + 1))
      BY <1>1, HashedEverywhere
    <3> QED BY <1>1, <3>1, <3>2, <3>3
  <2> QED BY <2>1
<1>2. 0 \in S /\ S \in SUBSET Heights
  BY HeightsFinite
<1>3. \A d \in Heights : d \in S
  <2> HIDE DEF S
  <2> QED BY <1>1, <1>2, Induction
<1> QED BY <1>3, HeightsFinite DEF Root

(* A root stands for the leaves it was computed from (the code compares and  *)
(* stores roots, TreeCache compares sequences of leaves): two trees have the *)
(* same root just if they have the same leaf everywhere, and where no leaf   *)
(* is the empty one, just if they have the same leaves.                      *)
THEOREM RootDeterminesLeaves ==
    ASSUME NEW A, NEW B, IsTree(A), IsTree(B)
    PROVE  /\ Root(A) = Root(B) <=>
                \A i \in 0..(Width[Depth] - 1) : LeafAt(A[0], i) = LeafAt(B[0], i)
           /\ /\ \A i \in 1..Len(A[0]) : A[0][i] # Empty
              /\ \A i \in 1..Len(B[0]) : B[0][i] # Empty
              => (Root(A) = Root(B) <=> A[0] = B[0])
<1>1. PICK w \in Nat : w = Width[Depth]
  BY WidthFacts, HeightsFinite
<1>2. zeros[0] = Empty
  BY ZerosDef, HeightsFinite, Zenon
<1>3. \A i \in Nat : LeafAt(A[0], i) = NodeAt(A, 0, i) /\ LeafAt(B[0], i) = NodeAt(B, 0, i)
  BY <1>2 DEF LeafAt, NodeAt
<1>4. PICK n \in Nat : n = Len(A[0]) /\ n <= w
  BY <1>1, Lengths, HeightsFinite DEF IsTree, Shaped
<1>5. PICK m \in Nat : m = Len(B[0]) /\ m <= w
  BY <1>1, Lengths, HeightsFinite DEF IsTree, Shaped
<1>6. Root(A) = Root(B) => \A i \in Nat : i < w => LeafAt(A[0], i) = LeafAt(B[0], i)
  BY <1>1, <1>3, DifferentRoots
<1>7. ASSUME \A i \in 0..(w - 1) : LeafAt(A[0], i) = LeafAt(B[0], i)
      PROVE  Root(A) = Root(B)
  <2>1. ASSUME NEW i \in Nat PROVE LeafAt(A[0], i) = LeafAt(B[0], i)
    <3>1. CASE i < w
      BY <1>7, <3>1
    <3>2. CASE ~ (i < w)
      <4>1. ~ (i < n) /\ ~ (i < m)
        BY <1>4, <1>5, <3>2
      <4> QED BY <1>4, <1>5, <4>1 DEF LeafAt
    <3> QED BY <3>1, <3>2
  <2> QED BY <1>3, <2>1, SameNodes
<1>8. ASSUME Root(A) = Root(B), \A i \in 1..n : A[0][i] # Empty, \A i \in 1..m : B[0][i] # Empty
      PROVE  A[0] = B[0]
  <2>1. n = m
    <3>1. ASSUME n < m PROVE FALSE
      <4>1. LeafAt(A[0], n) = Empty /\ LeafAt(B[0], n) = B[0][n + 1] /\ n < w
        BY <1>4, <1>5, <3>1 DEF LeafAt
      <4>2. n + 1 \in 1..m
        BY <3>1
      <4> QED BY <1>6, <1>8, <4>1, <4>2
    <3>2. ASSUME m < n PROVE FALSE
      <4>1. LeafAt(B[0], m) = Empty /\ LeafAt(A[0], m) = A[0][m + 1] /\ m < w
        BY <1>4, <1>5, <3>2 DEF LeafAt
      <4>2. m + 1 \in 1..n
        BY <3>2
      <4> QED BY <1>6, <1>8, <4>1, <4>2
    <3> QED BY <3>1, <3>2
  <2>2. ASSUME NEW i \in 1..n PROVE A[0][i] = B[0][i]
    <3>1. PICK j \in Nat : i = j + 1 /\ j < n /\ j < w
      BY <1>4
    <3>2. LeafAt(A[0], j) = A[0][i] /\ LeafAt(B[0], j) = B[0][i]
      BY <1>4, <1>5, <2>1, <3>1 DEF LeafAt
    <3> QED BY <1>6, <1>8, <3>1, <3>2
  <2>3. A[0] \in Seq(Nodes[0]) /\ B[0] \in Seq(Nodes[0])
    BY HeightsFinite DEF IsTree, Shaped
  <2> QED BY <1>4, <1>5, <2>1, <2>2, <2>3, SeqEqual
<1>9. ASSUME A[0] = B[0] PROVE Root(A) = Root(B)
  BY <1>7, <1>9
<1>10. Root(A) = Root(B) <=> \A i \in 0..(w - 1) : LeafAt(A[0], i) = LeafAt(B[0], i)
  BY <1>6, <1>7
<1> QED BY <1>1, <1>4, <1>5, <1>8, <1>9, <1>10
=============================================================================
