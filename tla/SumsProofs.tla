----------------------------- MODULE SumsProofs -----------------------------
(***************************************************************************)
(* Sums of amounts: what the folds of the community modules, which are     *)
(* recursive functions, add up to over a finite set, and how the wrapping  *)
(* sums of the code compare with them.  The proofs are by induction on a   *)
(* finite set; the induction theorems of the library take an operator,     *)
(* which the provers cannot instantiate, so induction is stated here for   *)
(* the set of the objects for which the claim holds.                       *)
(***************************************************************************)
EXTENDS Transactions, FiniteSetTheorems, TLAPS

-----------------------------------------------------------------------------
(* Induction. *)

(* A nonempty set of naturals has a least element.                          *)
LEMMA LeastElement ==
    ASSUME NEW S, S \subseteq Nat, S # {}
    PROVE  \E k \in S : \A j \in S : k <= j
PROOF
<1> DEFINE R == {ss \in Nat \X Nat : ss[1] < ss[2]}
<1>1. IsWellFoundedOn(R, Nat)
  BY NatLessThanWellFounded DEF OpToRel
<1> HIDE DEF R
<1>2. PICK k \in S : \A j \in S : ~(<<j, k>> \in R)
  BY <1>1, WFMin
<1>3. ASSUME NEW j \in S
      PROVE  k <= j
  <2>1. k \in Nat /\ j \in Nat
    OBVIOUS
  <2>2. j < k => <<j, k>> \in R
    BY <2>1 DEF R
  <2>3. QED
    BY <1>2, <2>1, <2>2
<1>4. QED
  BY <1>3

(* A set of naturals with 0 and every successor of its elements is Nat.     *)
LEMMA NatInductionOnSet ==
    ASSUME NEW G, 0 \in G, \A n \in Nat : n \in G => n + 1 \in G
    PROVE  Nat \subseteq G
PROOF
<1>1. SUFFICES ASSUME Nat \ G # {}
               PROVE  FALSE
  OBVIOUS
<1>2. PICK k \in Nat \ G : \A j \in Nat \ G : k <= j
  BY <1>1, LeastElement
<1>3. k # 0 /\ k - 1 \in Nat /\ (k - 1) + 1 = k
  OBVIOUS
<1>4. k - 1 \notin Nat \ G
  BY <1>2, <1>3
<1>5. QED
  BY <1>3, <1>4

(* A finite set has every hereditary property: one that a set has as soon   *)
(* as every set with an element less has it.  G is the set of the subsets   *)
(* that have it.                                                            *)
LEMMA FiniteSetInduction ==
    ASSUME NEW S, IsFiniteSet(S), NEW G,
           \A V \in SUBSET S : IsFiniteSet(V) /\ (\A y \in V : V \ {y} \in G) => V \in G
    PROVE  S \in G
PROOF
<1> DEFINE Bad == (SUBSET S) \ G
           Sizes == {Cardinality(V) : V \in Bad}
<1>1. ASSUME Bad # {}
      PROVE  FALSE
  <2>1. \A V \in Bad : IsFiniteSet(V) /\ Cardinality(V) \in Nat
    BY FS_Subset, FS_CardinalityType
  <2>2. PICK k \in Sizes : \A j \in Sizes : k <= j
    <3>1. Sizes \subseteq Nat /\ Sizes # {}
      BY <1>1, <2>1
    <3>2. QED
      BY <3>1, LeastElement
  <2>3. PICK V \in Bad : \A W \in Bad : Cardinality(V) <= Cardinality(W)
    BY <2>2
  <2>4. ASSUME NEW y \in V
        PROVE  V \ {y} \in G
    <3>1. /\ Cardinality(V) \in Nat
          /\ Cardinality(V \ {y}) = Cardinality(V) - 1
      BY <2>1, FS_RemoveElement
    <3>2. V \ {y} \notin Bad
      BY <2>3, <3>1
    <3>3. QED
      BY <3>2
  <2>5. QED
    BY <2>1, <2>4
<1>2. QED
  BY <1>1

-----------------------------------------------------------------------------
(* The recursive function of MapThenFoldSet, for sums. *)

(* The element that the fold takes first.                                   *)
Pick(s) == CHOOSE x \in s : TRUE

(* it satisfies the equation of the recursion on the sets of a collection.  *)
SumsOn(it, f, Sets) ==
    it = [s \in Sets |-> IF s = {} THEN 0 ELSE f[Pick(s)] + it[s \ {Pick(s)}]]

(* SumFunctionOnSet, with its definition in terms of folds expanded.        *)
LEMMA SumUnfolds ==
    ASSUME NEW f, NEW S
    PROVE  SumFunctionOnSet(f, S) = (CHOOSE it : SumsOn(it, f, SUBSET S))[S]
BY DEF SumFunctionOnSet, FoldFunctionOnSet, MapThenFoldSet, SumsOn, Pick

(* Pick takes an element.                                                   *)
LEMMA PickTakes ==
    ASSUME NEW S, S # {}
    PROVE  Pick(S) \in S
BY DEF Pick

(* The subsets of S with at most n elements.                                *)
UpTo(n, S) == {u \in SUBSET S : Cardinality(u) <= n}

(* A table of the sums of the subsets of at most n elements can be extended *)
(* to those of n + 1.                                                       *)
LEMMA SumsExtend ==
    ASSUME NEW f, NEW S, IsFiniteSet(S), NEW n \in Nat,
           NEW it, SumsOn(it, f, UpTo(n, S))
    PROVE  \E jt : SumsOn(jt, f, UpTo(n + 1, S))
PROOF
<1> DEFINE jt == [s \in UpTo(n + 1, S) |->
                    IF s = {} THEN 0 ELSE f[Pick(s)] + it[s \ {Pick(s)}]]
<1>1. ASSUME NEW s \in UpTo(n, S)
      PROVE  jt[s] = it[s]
  <2>1. s \in UpTo(n + 1, S)
    BY FS_Subset, FS_CardinalityType DEF UpTo
  <2>2. it[s] = IF s = {} THEN 0 ELSE f[Pick(s)] + it[s \ {Pick(s)}]
    BY DEF SumsOn
  <2>3. QED
    BY <2>1, <2>2
<1>2. ASSUME NEW s \in UpTo(n + 1, S), s # {}
      PROVE  s \ {Pick(s)} \in UpTo(n, S)
  <2>1. /\ IsFiniteSet(s) /\ Cardinality(s) <= n + 1
        /\ Cardinality(s) \in Nat /\ s \in SUBSET S
    BY FS_Subset, FS_CardinalityType DEF UpTo
  <2>2. Cardinality(s \ {Pick(s)}) = Cardinality(s) - 1
    BY <1>2, <2>1, PickTakes, FS_RemoveElement
  <2>3. QED
    BY <2>1, <2>2 DEF UpTo
<1>3. jt = [s \in UpTo(n + 1, S) |->
              IF s = {} THEN 0 ELSE f[Pick(s)] + jt[s \ {Pick(s)}]]
  BY <1>1, <1>2
<1>4. QED
  BY <1>3 DEF SumsOn

(* The recursion defines a function: the one that the fold chooses.         *)
LEMMA SumExists ==
    ASSUME NEW f, NEW S, IsFiniteSet(S)
    PROVE  SumsOn(CHOOSE it : SumsOn(it, f, SUBSET S), f, SUBSET S)
PROOF
<1> DEFINE G == {n \in Nat : \E it : SumsOn(it, f, UpTo(n, S))}
<1>1. 0 \in G
  <2> DEFINE it == [s \in UpTo(0, S) |-> 0]
  <2>1. \A s \in UpTo(0, S) : s = {}
    BY FS_Subset, FS_CardinalityType, FS_EmptySet DEF UpTo
  <2>2. it = [s \in UpTo(0, S) |->
                IF s = {} THEN 0 ELSE f[Pick(s)] + it[s \ {Pick(s)}]]
    BY <2>1
  <2>3. SumsOn(it, f, UpTo(0, S))
    BY <2>2 DEF SumsOn
  <2>4. QED
    BY <2>3
<1>2. ASSUME NEW n \in Nat, n \in G
      PROVE  n + 1 \in G
  BY <1>2, SumsExtend
<1>3. Cardinality(S) \in G
  <2> HIDE DEF G
  <2>1. Nat \subseteq G
    BY <1>1, <1>2, NatInductionOnSet
  <2>2. QED
    BY <2>1, FS_CardinalityType
<1>4. UpTo(Cardinality(S), S) = SUBSET S
  BY FS_Subset DEF UpTo
<1>5. \E it : SumsOn(it, f, SUBSET S)
  BY <1>3, <1>4
<1>6. QED
  BY <1>5

(* The recursions for two functions that agree on a set, over collections   *)
(* that have all its subsets, find the same sum for it.                     *)
LEMMA SumsAgree ==
    ASSUME NEW f, NEW g, NEW A, NEW B,
           NEW it, SumsOn(it, f, A), NEW jt, SumsOn(jt, g, B),
           NEW U, IsFiniteSet(U), SUBSET U \subseteq A, SUBSET U \subseteq B,
           \A x \in U : f[x] = g[x]
    PROVE  it[U] = jt[U]
PROOF
<1> DEFINE G == {V \in SUBSET U : it[V] = jt[V]}
<1>1. ASSUME NEW V \in SUBSET U, \A y \in V : V \ {y} \in G
      PROVE  V \in G
  <2>1. /\ it[V] = IF V = {} THEN 0 ELSE f[Pick(V)] + it[V \ {Pick(V)}]
        /\ jt[V] = IF V = {} THEN 0 ELSE g[Pick(V)] + jt[V \ {Pick(V)}]
    BY DEF SumsOn
  <2>2. V # {} => Pick(V) \in V /\ it[V \ {Pick(V)}] = jt[V \ {Pick(V)}]
    BY <1>1, PickTakes
  <2>3. QED
    BY <2>1, <2>2
<1>2. U \in G
  <2> HIDE DEF G
  <2>1. QED
    BY <1>1, FiniteSetInduction
<1>3. QED
  BY <1>2

-----------------------------------------------------------------------------
(* Sums over finite sets. *)

(* Nothing adds up to 0.                                                    *)
LEMMA SumOfEmpty ==
    ASSUME NEW f
    PROVE  SumFunctionOnSet(f, {}) = 0
PROOF
<1>1. SumsOn(CHOOSE it : SumsOn(it, f, SUBSET {}), f, SUBSET {})
  BY SumExists, FS_EmptySet
<1>2. QED
  BY <1>1, SumUnfolds DEF SumsOn

(* A sum depends only on the values added up.                               *)
LEMMA SumCongruence ==
    ASSUME NEW f, NEW g, NEW S, IsFiniteSet(S), \A x \in S : f[x] = g[x]
    PROVE  SumFunctionOnSet(f, S) = SumFunctionOnSet(g, S)
PROOF
<1> DEFINE it == CHOOSE i : SumsOn(i, f, SUBSET S)
           jt == CHOOSE j : SumsOn(j, g, SUBSET S)
<1>1. SumsOn(it, f, SUBSET S) /\ SumsOn(jt, g, SUBSET S)
  BY SumExists
<1>2. SumFunctionOnSet(f, S) = it[S] /\ SumFunctionOnSet(g, S) = jt[S]
  BY SumUnfolds
<1> HIDE DEF it, jt
<1>3. it[S] = jt[S]
  BY <1>1, SumsAgree
<1>4. QED
  BY <1>2, <1>3

(* The recursion, as an equation between sums.                              *)
LEMMA SumByPick ==
    ASSUME NEW f, NEW S, IsFiniteSet(S), S # {}
    PROVE  SumFunctionOnSet(f, S)
             = f[Pick(S)] + SumFunctionOnSet(f, S \ {Pick(S)})
PROOF
<1> DEFINE T == S \ {Pick(S)}
           it == CHOOSE i : SumsOn(i, f, SUBSET S)
           jt == CHOOSE j : SumsOn(j, f, SUBSET T)
<1>1. IsFiniteSet(T)
  BY FS_RemoveElement
<1>2. SumsOn(it, f, SUBSET S) /\ SumsOn(jt, f, SUBSET T)
  BY <1>1, SumExists
<1>3. SumFunctionOnSet(f, S) = it[S] /\ SumFunctionOnSet(f, T) = jt[T]
  BY SumUnfolds
<1>4. it[S] = f[Pick(S)] + it[T]
  BY <1>2 DEF SumsOn
<1>5. T \subseteq S
  OBVIOUS
<1> HIDE DEF it, jt
<1>6. it[T] = jt[T]
  BY <1>1, <1>2, <1>5, SumsAgree
<1>7. QED
  BY <1>3, <1>4, <1>6

(* Naturals add up to a natural.                                            *)
LEMMA SumNatural ==
    ASSUME NEW f, NEW S, IsFiniteSet(S), \A x \in S : f[x] \in Nat
    PROVE  SumFunctionOnSet(f, S) \in Nat
PROOF
<1> DEFINE G == {V \in SUBSET S : SumFunctionOnSet(f, V) \in Nat}
<1>1. ASSUME NEW V \in SUBSET S, IsFiniteSet(V), \A y \in V : V \ {y} \in G
      PROVE  V \in G
  <2>1. CASE V = {}
    BY <2>1, SumOfEmpty
  <2>2. CASE V # {}
    <3>1. SumFunctionOnSet(f, V) = f[Pick(V)] + SumFunctionOnSet(f, V \ {Pick(V)})
      BY <1>1, <2>2, SumByPick
    <3>2. f[Pick(V)] \in Nat /\ SumFunctionOnSet(f, V \ {Pick(V)}) \in Nat
      BY <1>1, <2>2, PickTakes
    <3>3. QED
      BY <3>1, <3>2
  <2>3. QED
    BY <2>1, <2>2
<1>2. S \in G
  <2> HIDE DEF G
  <2>1. QED
    BY <1>1, FiniteSetInduction
<1>3. QED
  BY <1>2

(* Any element may be taken first.                                          *)
LEMMA SumRemoveElement ==
    ASSUME NEW f, NEW S, IsFiniteSet(S), \A y \in S : f[y] \in Nat, NEW x \in S
    PROVE  SumFunctionOnSet(f, S) = f[x] + SumFunctionOnSet(f, S \ {x})
PROOF
<1> DEFINE Sum(V) == SumFunctionOnSet(f, V)
           G == {V \in SUBSET S : \A y \in V : Sum(V) = f[y] + Sum(V \ {y})}
<1>1. ASSUME NEW V \in SUBSET S, IsFiniteSet(V), \A y \in V : V \ {y} \in G,
             NEW y \in V
      PROVE  Sum(V) = f[y] + Sum(V \ {y})
  <2> DEFINE p == Pick(V)
             W == (V \ {y}) \ {p}
  <2>1. p \in V /\ Sum(V) = f[p] + Sum(V \ {p})
    BY <1>1, PickTakes, SumByPick
  <2>2. CASE y = p
    BY <2>1, <2>2
  <2>3. CASE y # p
    <3>1. y \in V \ {p} /\ p \in V \ {y} /\ (V \ {p}) \ {y} = W
      BY <2>1, <2>3
    <3>2. Sum(V \ {p}) = f[y] + Sum(W) /\ Sum(V \ {y}) = f[p] + Sum(W)
      BY <1>1, <2>1, <3>1
    <3>3. f[y] \in Nat /\ f[p] \in Nat
      BY <2>1
    <3>4. Sum(W) \in Nat
      <4>1. IsFiniteSet(W)
        BY FS_Subset
      <4>2. QED
        BY <4>1, SumNatural
    <3> HIDE DEF Sum, W, p
    <3>5. QED
      BY <2>1, <3>2, <3>3, <3>4
  <2>4. QED
    BY <2>2, <2>3
<1>2. S \in G
  <2>1. ASSUME NEW V \in SUBSET S, IsFiniteSet(V), \A y \in V : V \ {y} \in G
        PROVE  V \in G
    BY <1>1, <2>1
  <2> HIDE DEF G
  <2>2. QED
    BY <2>1, FiniteSetInduction
<1>3. QED
  BY <1>2

(* An element more adds its value.                                          *)
LEMMA SumAddElement ==
    ASSUME NEW f, NEW S, IsFiniteSet(S), NEW x, x \notin S,
           \A y \in S \cup {x} : f[y] \in Nat
    PROVE  SumFunctionOnSet(f, S \cup {x}) = SumFunctionOnSet(f, S) + f[x]
PROOF
<1>1. IsFiniteSet(S \cup {x}) /\ (S \cup {x}) \ {x} = S
  BY FS_AddElement
<1>2. SumFunctionOnSet(f, S \cup {x}) = f[x] + SumFunctionOnSet(f, S)
  BY <1>1, SumRemoveElement
<1>3. f[x] \in Nat /\ SumFunctionOnSet(f, S) \in Nat
  BY SumNatural
<1>4. QED
  BY <1>2, <1>3

(* The sum over one element is its value.                                   *)
LEMMA SumOfOne ==
    ASSUME NEW f, NEW x, f[x] \in Nat
    PROVE  SumFunctionOnSet(f, {x}) = f[x]
PROOF
<1>1. SumFunctionOnSet(f, {} \cup {x}) = SumFunctionOnSet(f, {}) + f[x]
  BY SumAddElement, FS_EmptySet
<1>2. {} \cup {x} = {x}
  OBVIOUS
<1>3. QED
  BY <1>1, <1>2, SumOfEmpty

(* A list that grows by an element: its sum grows by the new term.          *)
LEMMA SumExtended ==
    ASSUME NEW f, NEW g, NEW S, IsFiniteSet(S), NEW x, x \notin S,
           \A y \in S : f[y] \in Nat /\ g[y] = f[y], g[x] \in Nat
    PROVE  SumFunctionOnSet(g, S \cup {x}) = SumFunctionOnSet(f, S) + g[x]
PROOF
<1>1. \A y \in S \cup {x} : g[y] \in Nat
  OBVIOUS
<1>2. SumFunctionOnSet(g, S \cup {x}) = SumFunctionOnSet(g, S) + g[x]
  BY <1>1, SumAddElement
<1>3. SumFunctionOnSet(f, S) = SumFunctionOnSet(g, S)
  BY SumCongruence
<1>4. QED
  BY <1>2, <1>3

(* The sum over the union of disjoint sets.                                 *)
LEMMA SumDisjointUnion ==
    ASSUME NEW f, NEW S, IsFiniteSet(S), NEW T, IsFiniteSet(T), S \cap T = {},
           \A y \in S \cup T : f[y] \in Nat
    PROVE  SumFunctionOnSet(f, S \cup T)
             = SumFunctionOnSet(f, S) + SumFunctionOnSet(f, T)
PROOF
<1> DEFINE Sum(V) == SumFunctionOnSet(f, V)
           G == {V \in SUBSET T : Sum(S \cup V) = Sum(S) + Sum(V)}
<1>0. Sum(S) \in Nat
  BY SumNatural
<1>1. ASSUME NEW V \in SUBSET T, IsFiniteSet(V), \A y \in V : V \ {y} \in G
      PROVE  V \in G
  <2>1. CASE V = {}
    <3>1. S \cup V = S /\ Sum(V) = 0
      BY <2>1, SumOfEmpty
    <3>2. QED
      BY <1>0, <2>1, <3>1
  <2>2. CASE V # {}
    <3>1. PICK y : y \in V
      BY <2>2
    <3> DEFINE W == V \ {y}
    <3>2. IsFiniteSet(W) /\ IsFiniteSet(S \cup W) /\ Sum(S \cup W) = Sum(S) + Sum(W)
      BY <1>1, <3>1, FS_RemoveElement, FS_Union
    <3>3. /\ V = W \cup {y} /\ y \notin W
          /\ S \cup V = (S \cup W) \cup {y} /\ y \notin S \cup W
          /\ \A z \in W \cup {y} : f[z] \in Nat
          /\ \A z \in (S \cup W) \cup {y} : f[z] \in Nat
      BY <3>1
    <3>4. Sum(V) = Sum(W) + f[y] /\ Sum(S \cup V) = Sum(S \cup W) + f[y]
      BY <3>2, <3>3, SumAddElement
    <3>5. Sum(W) \in Nat /\ f[y] \in Nat
      BY <3>2, <3>3, SumNatural
    <3> HIDE DEF Sum, W
    <3>6. QED
      BY <1>0, <3>2, <3>4, <3>5
  <2>3. QED
    BY <2>1, <2>2
<1>2. T \in G
  <2> HIDE DEF G
  <2>1. QED
    BY <1>1, FiniteSetInduction
<1>3. QED
  BY <1>2

(* Part of a set adds up to no more than all of it.                         *)
LEMMA SumOfSubset ==
    ASSUME NEW f, NEW S, IsFiniteSet(S), \A y \in S : f[y] \in Nat,
           NEW T, T \subseteq S
    PROVE  /\ SumFunctionOnSet(f, T) <= SumFunctionOnSet(f, S)
           /\ SumFunctionOnSet(f, S \ T)
                = SumFunctionOnSet(f, S) - SumFunctionOnSet(f, T)
PROOF
<1>1. /\ IsFiniteSet(T) /\ IsFiniteSet(S \ T)
      /\ T \cup (S \ T) = S /\ T \cap (S \ T) = {}
  BY FS_Subset, FS_Difference
<1>2. SumFunctionOnSet(f, T) \in Nat /\ SumFunctionOnSet(f, S \ T) \in Nat
  BY <1>1, SumNatural
<1>3. SumFunctionOnSet(f, S)
        = SumFunctionOnSet(f, T) + SumFunctionOnSet(f, S \ T)
  BY <1>1, SumDisjointUnion
<1>4. QED
  BY <1>2, <1>3

(* Larger values add up to more.                                            *)
LEMMA SumMonotone ==
    ASSUME NEW f, NEW g, NEW S, IsFiniteSet(S),
           \A x \in S : f[x] \in Nat /\ g[x] \in Nat /\ f[x] <= g[x]
    PROVE  SumFunctionOnSet(f, S) <= SumFunctionOnSet(g, S)
PROOF
<1> DEFINE F(V) == SumFunctionOnSet(f, V)
           H(V) == SumFunctionOnSet(g, V)
           G == {V \in SUBSET S : F(V) <= H(V)}
<1>1. ASSUME NEW V \in SUBSET S, IsFiniteSet(V), \A y \in V : V \ {y} \in G
      PROVE  V \in G
  <2>1. CASE V = {}
    <3>1. F({}) = 0 /\ H({}) = 0
      BY SumOfEmpty
    <3>2. QED
      BY <2>1, <3>1
  <2>2. CASE V # {}
    <3> DEFINE p == Pick(V)
               W == V \ {p}
    <3>1. p \in V /\ IsFiniteSet(W) /\ F(W) <= H(W)
      BY <1>1, <2>2, PickTakes, FS_RemoveElement
    <3>2. F(V) = f[p] + F(W) /\ H(V) = g[p] + H(W)
      BY <1>1, <2>2, SumByPick
    <3>3. /\ f[p] \in Nat /\ g[p] \in Nat /\ f[p] <= g[p]
          /\ F(W) \in Nat /\ H(W) \in Nat
      BY <3>1, SumNatural
    <3> HIDE DEF p, W, F, H
    <3>4. QED
      BY <3>1, <3>2, <3>3
  <2>3. QED
    BY <2>1, <2>2
<1>2. S \in G
  <2> HIDE DEF G
  <2>1. QED
    BY <1>1, FiniteSetInduction
<1>3. QED
  BY <1>2

(* Zeros add up to 0.                                                       *)
LEMMA SumOfZeros ==
    ASSUME NEW f, NEW S, IsFiniteSet(S), \A x \in S : f[x] = 0
    PROVE  SumFunctionOnSet(f, S) = 0
PROOF
<1> DEFINE G == {V \in SUBSET S : SumFunctionOnSet(f, V) = 0}
<1>1. ASSUME NEW V \in SUBSET S, IsFiniteSet(V), \A y \in V : V \ {y} \in G
      PROVE  V \in G
  <2>1. CASE V = {}
    BY <2>1, SumOfEmpty
  <2>2. CASE V # {}
    <3>1. SumFunctionOnSet(f, V) = f[Pick(V)] + SumFunctionOnSet(f, V \ {Pick(V)})
      BY <1>1, <2>2, SumByPick
    <3>2. f[Pick(V)] = 0 /\ SumFunctionOnSet(f, V \ {Pick(V)}) = 0
      BY <1>1, <2>2, PickTakes
    <3>3. QED
      BY <3>1, <3>2
  <2>3. QED
    BY <2>1, <2>2
<1>2. S \in G
  <2> HIDE DEF G
  <2>1. QED
    BY <1>1, FiniteSetInduction
<1>3. QED
  BY <1>2

(* The sum of the sums of two functions.                                    *)
LEMMA SumOfPlus ==
    ASSUME NEW f, NEW g, NEW h, NEW S, IsFiniteSet(S),
           \A x \in S : f[x] \in Nat /\ g[x] \in Nat /\ h[x] = f[x] + g[x]
    PROVE  SumFunctionOnSet(h, S)
             = SumFunctionOnSet(f, S) + SumFunctionOnSet(g, S)
PROOF
<1> DEFINE F(V) == SumFunctionOnSet(f, V)
           H(V) == SumFunctionOnSet(g, V)
           K(V) == SumFunctionOnSet(h, V)
           G == {V \in SUBSET S : K(V) = F(V) + H(V)}
<1>1. ASSUME NEW V \in SUBSET S, IsFiniteSet(V), \A y \in V : V \ {y} \in G
      PROVE  V \in G
  <2>1. CASE V = {}
    <3>1. F({}) = 0 /\ H({}) = 0 /\ K({}) = 0
      BY SumOfEmpty
    <3>2. QED
      BY <2>1, <3>1
  <2>2. CASE V # {}
    <3> DEFINE p == Pick(V)
               W == V \ {p}
    <3>1. p \in V /\ IsFiniteSet(W) /\ K(W) = F(W) + H(W)
      BY <1>1, <2>2, PickTakes, FS_RemoveElement
    <3>2. F(V) = f[p] + F(W) /\ H(V) = g[p] + H(W) /\ K(V) = h[p] + K(W)
      BY <1>1, <2>2, SumByPick
    <3>3. /\ f[p] \in Nat /\ g[p] \in Nat /\ h[p] = f[p] + g[p]
          /\ F(W) \in Nat /\ H(W) \in Nat
      BY <3>1, SumNatural
    <3> HIDE DEF p, W, F, H, K
    <3>4. QED
      BY <3>1, <3>2, <3>3
  <2>3. QED
    BY <2>1, <2>2
<1>2. S \in G
  <2> HIDE DEF G
  <2>1. QED
    BY <1>1, FiniteSetInduction
<1>3. QED
  BY <1>2

(* One more at one element is one more in all.                              *)
LEMMA SumIncremented ==
    ASSUME NEW f, NEW g, NEW S, IsFiniteSet(S), NEW x \in S,
           \A y \in S : f[y] \in Nat /\ g[y] = IF y = x THEN f[y] + 1 ELSE f[y]
    PROVE  SumFunctionOnSet(g, S) = SumFunctionOnSet(f, S) + 1
PROOF
<1> DEFINE R == S \ {x}
<1>1. IsFiniteSet(R)
  BY FS_RemoveElement
<1>2. /\ SumFunctionOnSet(f, S) = f[x] + SumFunctionOnSet(f, R)
      /\ SumFunctionOnSet(g, S) = g[x] + SumFunctionOnSet(g, R)
  BY SumRemoveElement
<1>3. \A y \in R : g[y] = f[y] /\ f[y] \in Nat
  OBVIOUS
<1> HIDE DEF R
<1>4. SumFunctionOnSet(g, R) = SumFunctionOnSet(f, R)
  BY <1>1, <1>3, SumCongruence
<1>5. SumFunctionOnSet(f, R) \in Nat
  BY <1>1, <1>3, SumNatural
<1>6. QED
  BY <1>2, <1>4, <1>5

(* The sum over an index set of values that are those of distinct elements. *)
LEMMA SumReindexed ==
    ASSUME NEW f, NEW g, NEW h, NEW S, IsFiniteSet(S),
           \A x \in S : g[x] \in Nat /\ g[x] = f[h[x]],
           \A x, y \in S : h[x] = h[y] => x = y
    PROVE  /\ IsFiniteSet({h[x] : x \in S})
           /\ SumFunctionOnSet(g, S) = SumFunctionOnSet(f, {h[x] : x \in S})
PROOF
<1> DEFINE Img(V) == {h[x] : x \in V}
           G == {V \in SUBSET S :
                   /\ IsFiniteSet(Img(V))
                   /\ SumFunctionOnSet(g, V) = SumFunctionOnSet(f, Img(V))}
<1>1. ASSUME NEW V \in SUBSET S, IsFiniteSet(V), \A y \in V : V \ {y} \in G
      PROVE  V \in G
  <2>1. CASE V = {}
    <3>1. Img(V) = {}
      BY <2>1
    <3> HIDE DEF Img
    <3>2. QED
      BY <2>1, <3>1, SumOfEmpty, FS_EmptySet
  <2>2. CASE V # {}
    <3> DEFINE p == Pick(V)
               W == V \ {p}
    <3>1. p \in V /\ IsFiniteSet(W) /\ W \in G
      BY <1>1, <2>2, PickTakes, FS_RemoveElement
    <3>2. SumFunctionOnSet(g, V) = g[p] + SumFunctionOnSet(g, W)
      BY <1>1, <2>2, SumByPick
    <3>3. /\ Img(V) = Img(W) \cup {h[p]} /\ h[p] \notin Img(W)
          /\ \A y \in Img(W) \cup {h[p]} : f[y] \in Nat
      BY <3>1
    <3>4. SumFunctionOnSet(g, W) \in Nat /\ g[p] \in Nat /\ g[p] = f[h[p]]
      BY <3>1, SumNatural
    <3>5. /\ IsFiniteSet(Img(W))
          /\ SumFunctionOnSet(g, W) = SumFunctionOnSet(f, Img(W))
      BY <3>1
    <3> HIDE DEF p, W, Img
    <3>6. IsFiniteSet(Img(V))
      BY <3>3, <3>5, FS_AddElement
    <3>7. SumFunctionOnSet(f, Img(V)) = SumFunctionOnSet(f, Img(W)) + f[h[p]]
      BY <3>3, <3>5, SumAddElement
    <3>8. SumFunctionOnSet(g, V) = SumFunctionOnSet(f, Img(V))
      BY <3>2, <3>4, <3>5, <3>7
    <3>9. QED
      BY <3>6, <3>8
  <2>3. QED
    BY <2>1, <2>2
<1>2. S \in G
  <2> HIDE DEF G
  <2>1. QED
    BY <1>1, FiniteSetInduction
<1>3. QED
  BY <1>2

(* The sum over a union is at most the sum of the sums over its members,    *)
(* and is that sum if they are disjoint.                                    *)
LEMMA SumOfUnion ==
    ASSUME NEW S, NEW f \in [S -> Nat],
           NEW I, IsFiniteSet(I), NEW F \in [I -> SUBSET S],
           \A i \in I : IsFiniteSet(F[i]),
           NEW g, \A i \in I : g[i] = SumFunctionOnSet(f, F[i])
    PROVE  /\ IsFiniteSet(UNION Range(F))
           /\ SumFunctionOnSet(f, UNION Range(F)) <= SumFunctionOnSet(g, I)
           /\ (\A i, j \in I : i # j => F[i] \cap F[j] = {})
                 => SumFunctionOnSet(f, UNION Range(F)) = SumFunctionOnSet(g, I)
PROOF
<1> DEFINE U(V) == UNION {F[i] : i \in V}
           Apart == \A i, j \in I : i # j => F[i] \cap F[j] = {}
           Good(V) == /\ IsFiniteSet(U(V))
                      /\ SumFunctionOnSet(f, U(V)) <= SumFunctionOnSet(g, V)
                      /\ Apart => SumFunctionOnSet(f, U(V)) = SumFunctionOnSet(g, V)
           G == {V \in SUBSET I : Good(V)}
<1>1. ASSUME NEW V \in SUBSET I, IsFiniteSet(V), \A y \in V : V \ {y} \in G
      PROVE  V \in G
  <2>1. CASE V = {}
    <3>1. U(V) = {}
      BY <2>1
    <3> HIDE DEF U
    <3>2. QED
      BY <2>1, <3>1, SumOfEmpty, FS_EmptySet
  <2>2. CASE V # {}
    <3> DEFINE p == Pick(V)
               W == V \ {p}
               R == F[p] \ U(W)
    <3>1. p \in V /\ IsFiniteSet(W) /\ Good(W)
      BY <1>1, <2>2, PickTakes, FS_RemoveElement
    <3> DEFINE Fp == F[p]
               UV == U(V)
               UW == U(W)
    <3>2. /\ SumFunctionOnSet(g, V) = g[p] + SumFunctionOnSet(g, W)
          /\ g[p] = SumFunctionOnSet(f, Fp)
      BY <1>1, <2>2, <3>1, SumByPick
    <3>3. /\ p \in I /\ IsFiniteSet(Fp) /\ \A x \in Fp : f[x] \in Nat
          /\ \A x \in UW : f[x] \in Nat
          /\ Apart => UW \cap Fp = {}
      BY <3>1
    <3>4. /\ IsFiniteSet(R) /\ UV = UW \cup R /\ UW \cap R = {}
          /\ R \subseteq Fp /\ \A x \in UW \cup R : f[x] \in Nat
          /\ Apart => R = Fp
      BY <3>1, <3>3, FS_Difference
    <3>5. SumFunctionOnSet(g, W) \in Nat
      <4>1. \A i \in W : g[i] \in Nat
        BY SumNatural
      <4>2. QED
        BY <3>1, <4>1, SumNatural
    <3>6. /\ IsFiniteSet(UW) /\ SumFunctionOnSet(f, UW) <= SumFunctionOnSet(g, W)
          /\ Apart => SumFunctionOnSet(f, UW) = SumFunctionOnSet(g, W)
      BY <3>1
    <3>7. SUFFICES /\ IsFiniteSet(UV)
                   /\ SumFunctionOnSet(f, UV) <= SumFunctionOnSet(g, V)
                   /\ Apart => SumFunctionOnSet(f, UV) = SumFunctionOnSet(g, V)
      OBVIOUS
    <3> HIDE DEF p, W, R, Fp, UV, UW, Apart, Good
    <3>8. IsFiniteSet(UV)
      BY <3>4, <3>6, FS_Union
    <3>9. SumFunctionOnSet(f, UV) = SumFunctionOnSet(f, UW) + SumFunctionOnSet(f, R)
      BY <3>4, <3>6, SumDisjointUnion
    <3>10. SumFunctionOnSet(f, R) <= SumFunctionOnSet(f, Fp)
      BY <3>3, <3>4, SumOfSubset
    <3>11. /\ SumFunctionOnSet(f, UW) \in Nat /\ SumFunctionOnSet(f, R) \in Nat
           /\ SumFunctionOnSet(f, Fp) \in Nat
      BY <3>3, <3>4, <3>6, SumNatural
    <3>12. QED
      BY <3>2, <3>4, <3>5, <3>6, <3>8, <3>9, <3>10, <3>11
  <2>3. QED
    BY <2>1, <2>2
<1>2. I \in G
  <2> HIDE DEF G
  <2>1. QED
    BY <1>1, FiniteSetInduction
<1>3. U(I) = UNION Range(F)
  BY DEF Range
<1>4. QED
  BY <1>2, <1>3

(* A sequence has finitely many elements.                                   *)
LEMMA SeqRangeFinite ==
    ASSUME NEW T, NEW s \in Seq(T)
    PROVE  /\ IsFiniteSet(DOMAIN s)
           /\ IsFiniteSet({s[i] : i \in DOMAIN s})
PROOF
<1> DEFINE I == 1 .. Len(s)
<1>1. DOMAIN s = I /\ Len(s) \in Nat
  OBVIOUS
<1>2. IsFiniteSet(I)
  BY <1>1, FS_Interval
<1>3. s \in Surjection(I, {s[i] : i \in I})
  BY <1>1 DEF Surjection
<1>4. IsFiniteSet({s[i] : i \in I})
  BY <1>2, <1>3, FS_Surjection
<1>5. QED
  BY <1>1, <1>2, <1>4

-----------------------------------------------------------------------------
(* The sums of the code, which wrap. *)

(* What the recursion of WrappedSum has for the first i values.             *)
WrapsOn(sum, values, n) ==
    sum = [i \in 0 .. n |-> IF i = 0 THEN 0 ELSE (sum[i-1] + values[i]) % Wrap]

(* WrappedSum, with the function it defines named.                          *)
LEMMA WrappedSumUnfolds ==
    ASSUME NEW values
    PROVE  WrappedSum(values)
             = (CHOOSE sum : WrapsOn(sum, values, Len(values)))[Len(values)]
BY DEF WrappedSum, WrapsOn

(* The recursion of WrappedSum defines a function.                          *)
LEMMA WrappedSumExists ==
    ASSUME NEW values, NEW n \in Nat
    PROVE  WrapsOn(CHOOSE sum : WrapsOn(sum, values, n), values, n)
PROOF
<1> DEFINE G == {m \in Nat : \E sum : WrapsOn(sum, values, m)}
<1>1. 0 \in G
  <2> DEFINE sum == [i \in 0 .. 0 |-> 0]
  <2>1. WrapsOn(sum, values, 0)
    BY DEF WrapsOn
  <2>2. QED
    BY <2>1
<1>2. ASSUME NEW m \in Nat, m \in G
      PROVE  m + 1 \in G
  <2>1. PICK sum : WrapsOn(sum, values, m)
    BY <1>2
  <2> DEFINE new == [i \in 0 .. m + 1 |->
                       IF i = 0 THEN 0 ELSE (sum[i-1] + values[i]) % Wrap]
  <2>2. \A i \in 0 .. m : new[i] = sum[i]
    BY <2>1 DEF WrapsOn
  <2>3. \A i \in 0 .. m + 1 : i # 0 => i - 1 \in 0 .. m
    OBVIOUS
  <2>4. WrapsOn(new, values, m + 1)
    BY <2>2, <2>3 DEF WrapsOn
  <2>5. QED
    BY <2>4
<1>3. n \in G
  <2> HIDE DEF G
  <2>1. QED
    BY <1>1, <1>2, NatInductionOnSet
<1>4. QED
  BY <1>3

(* A remainder is smaller than the divisor, and is the number itself if     *)
(* that is smaller.                                                         *)
LEMMA Remainder ==
    ASSUME NEW a \in Nat, NEW w \in Nat \ {0}
    PROVE  a % w \in 0 .. w - 1 /\ a % w <= a /\ (a < w => a % w = a)
OBVIOUS

(* What the code adds up is an amount, and at most the exact sum: it is the *)
(* exact sum if that does not wrap.                                         *)
LEMMA WrappedSumBound ==
    ASSUME NEW values \in Seq(Nat), Wrap \in Nat \ {0}
    PROVE  /\ WrappedSum(values) \in 0 .. Wrap - 1
           /\ SumFunction(values) \in Nat
           /\ WrappedSum(values) <= SumFunction(values)
           /\ SumFunction(values) < Wrap => WrappedSum(values) = SumFunction(values)
PROOF
<1> DEFINE n == Len(values)
           sum == CHOOSE s : WrapsOn(s, values, n)
           Exact(i) == SumFunctionOnSet(values, 1 .. i)
           Good(i) == /\ sum[i] \in 0 .. Wrap - 1
                      /\ Exact(i) \in Nat
                      /\ sum[i] <= Exact(i)
                      /\ Exact(i) < Wrap => sum[i] = Exact(i)
           G == {i \in Nat : i <= n => Good(i)}
<1>1. n \in Nat /\ DOMAIN values = 1 .. n /\ \A i \in 1 .. n : values[i] \in Nat
  OBVIOUS
<1>2. WrapsOn(sum, values, n) /\ WrappedSum(values) = sum[n]
  BY <1>1, WrappedSumExists, WrappedSumUnfolds
<1> HIDE DEF n, sum
<1>3. 0 \in G
  <2>1. sum[0] = 0
    BY <1>1, <1>2 DEF WrapsOn
  <2>2. Exact(0) = 0
    BY SumOfEmpty
  <2> HIDE DEF Exact
  <2>3. QED
    BY <2>1, <2>2
<1>4. ASSUME NEW i \in Nat, i \in G
      PROVE  i + 1 \in G
  <2>1. SUFFICES ASSUME i + 1 <= n
                 PROVE  Good(i + 1)
    OBVIOUS
  <2>2. Good(i)
    BY <1>1, <1>4, <2>1
  <2>3. i + 1 \in 1 .. n /\ values[i + 1] \in Nat
    BY <1>1, <2>1
  <2>4. sum[i + 1] = (sum[i] + values[i + 1]) % Wrap
    BY <1>1, <1>2, <2>3 DEF WrapsOn
  <2>5. Exact(i + 1) = Exact(i) + values[i + 1]
    <3> DEFINE P == 1 .. i
    <3>1. 1 .. i + 1 = P \cup {i + 1} /\ i + 1 \notin P
      OBVIOUS
    <3>2. IsFiniteSet(P)
      BY FS_Interval
    <3>3. \A k \in P \cup {i + 1} : values[k] \in Nat
      BY <1>1, <2>3
    <3> HIDE DEF P
    <3>4. SumFunctionOnSet(values, P \cup {i + 1})
            = SumFunctionOnSet(values, P) + values[i + 1]
      BY <3>1, <3>2, <3>3, SumAddElement
    <3>5. QED
      BY <3>1, <3>4 DEF P
  <2> DEFINE v == values[i + 1]
             t == sum[i] + v
  <2>6. t \in Nat /\ t % Wrap \in 0 .. Wrap - 1 /\ t % Wrap <= t /\ (t < Wrap => t % Wrap = t)
    <3>1. t \in Nat
      BY <2>2, <2>3
    <3> HIDE DEF t
    <3>2. QED
      BY <3>1, Remainder
  <2> DEFINE r == t % Wrap
             x == sum[i]
             e == Exact(i)
  <2>7. /\ x \in 0 .. Wrap - 1 /\ e \in Nat /\ x <= e /\ (e < Wrap => x = e)
        /\ v \in Nat /\ t = x + v
        /\ r \in 0 .. Wrap - 1 /\ r <= t /\ (t < Wrap => r = t)
        /\ sum[i + 1] = r /\ Exact(i + 1) = e + v
    BY <2>2, <2>3, <2>4, <2>5, <2>6
  <2> HIDE DEF r, x, e, v, t, Exact
  <2>8. QED
    BY <2>7
<1>5. Good(n)
  <2> HIDE DEF G, Good
  <2>1. n \in G
    BY <1>1, <1>3, <1>4, NatInductionOnSet
  <2>2. QED
    BY <1>1, <2>1 DEF G
<1>6. SumFunction(values) = Exact(n)
  BY <1>1 DEF SumFunction
<1> HIDE DEF Exact
<1>7. QED
  BY <1>2, <1>5, <1>6


-----------------------------------------------------------------------------
(* What coins are worth. *)

(* The outputs of all transactions, by their outpoints.                     *)
Coin == UNION {OutPointsOf(t) : t \in Tx}

(* Their values, as one function.                                           *)
Values == [op \in Coin |-> ValueOf(op)]

(* The value of a coin is an amount.                                        *)
LEMMA CoinTyped ==
    ASSUME NEW op \in Coin
    PROVE  /\ ValueOf(op) \in 0 .. Wrap - 1
           /\ ValueOf(op) \in Nat
           /\ Values[op] = ValueOf(op)
           /\ op \in OutPoint
           /\ op \in Tx \X (Nat \ {0})
PROOF
<1>1. PICK t \in Tx : op \in {t} \X DOMAIN Outputs[t]
  BY DEF Coin, OutPointsOf
<1>2. PICK i \in DOMAIN Outputs[t] : op = <<t, i>>
  BY <1>1
<1>3. Outputs[t] \in Seq(0 .. Wrap - 1) /\ Wrap \in Nat
  BY TransactionsAssumption
<1>4. Outputs[t][i] \in 0 .. Wrap - 1 /\ i \in Nat \ {0}
  BY <1>2, <1>3
<1>5. ValueOf(op) = Outputs[t][i]
  BY <1>2 DEF ValueOf
<1>6. QED
  BY <1>2, <1>3, <1>4, <1>5 DEF Values, OutPoint

(* WorthOf adds up the values.                                              *)
LEMMA WorthIsSum ==
    ASSUME NEW S \in SUBSET Coin, IsFiniteSet(S)
    PROVE  /\ WorthOf(S) = SumFunctionOnSet(Values, S)
           /\ WorthOf(S) \in Nat
           /\ \A op \in S : Values[op] \in Nat
PROOF
<1> DEFINE f == [op \in S |-> ValueOf(op)]
<1>1. WorthOf(S) = SumFunctionOnSet(f, S)
  BY DEF WorthOf, SumFunction
<1>2. \A op \in S : f[op] = Values[op] /\ Values[op] \in Nat
  BY CoinTyped
<1> HIDE DEF f
<1>3. SumFunctionOnSet(f, S) = SumFunctionOnSet(Values, S)
  BY <1>2, SumCongruence
<1>4. SumFunctionOnSet(Values, S) \in Nat
  BY <1>2, SumNatural
<1>5. QED
  BY <1>1, <1>2, <1>3, <1>4

(* Coins that are taken away take their worth with them.                    *)
LEMMA WorthOfDifference ==
    ASSUME NEW S \in SUBSET Coin, IsFiniteSet(S), NEW T \in SUBSET S
    PROVE  /\ IsFiniteSet(T) /\ IsFiniteSet(S \ T)
           /\ WorthOf(T) <= WorthOf(S)
           /\ WorthOf(S \ T) = WorthOf(S) - WorthOf(T)
PROOF
<1>1. IsFiniteSet(T) /\ IsFiniteSet(S \ T)
  BY FS_Subset, FS_Difference
<1>2. /\ WorthOf(S) = SumFunctionOnSet(Values, S)
      /\ WorthOf(T) = SumFunctionOnSet(Values, T)
      /\ WorthOf(S \ T) = SumFunctionOnSet(Values, S \ T)
      /\ \A op \in S : Values[op] \in Nat
  BY <1>1, WorthIsSum
<1>3. QED
  BY <1>1, <1>2, SumOfSubset

(* Coins put together are worth at most what each part is.                  *)
LEMMA WorthOfUnion ==
    ASSUME NEW S \in SUBSET Coin, IsFiniteSet(S),
           NEW T \in SUBSET Coin, IsFiniteSet(T)
    PROVE  /\ IsFiniteSet(S \cup T)
           /\ WorthOf(S \cup T) <= WorthOf(S) + WorthOf(T)
           /\ S \cap T = {} => WorthOf(S \cup T) = WorthOf(S) + WorthOf(T)
PROOF
<1> DEFINE R == T \ S
<1>1. /\ IsFiniteSet(R) /\ WorthOf(R) <= WorthOf(T) /\ R \in SUBSET Coin
  BY WorthOfDifference, FS_Difference
<1>2. /\ S \cup T = S \cup R /\ S \cap R = {}
      /\ S \cap T = {} => R = T
  OBVIOUS
<1> HIDE DEF R
<1>3. IsFiniteSet(S \cup R) /\ S \cup R \in SUBSET Coin
  BY <1>1, FS_Union
<1>4. /\ WorthOf(S) = SumFunctionOnSet(Values, S) /\ WorthOf(S) \in Nat
      /\ WorthOf(R) = SumFunctionOnSet(Values, R) /\ WorthOf(R) \in Nat
      /\ WorthOf(S \cup R) = SumFunctionOnSet(Values, S \cup R)
      /\ \A op \in S \cup R : Values[op] \in Nat
  BY <1>1, <1>3, WorthIsSum
<1>5. WorthOf(S \cup R) = WorthOf(S) + WorthOf(R)
  BY <1>1, <1>2, <1>4, SumDisjointUnion
<1>6. WorthOf(T) \in Nat
  BY WorthIsSum
<1>7. WorthOf(S \cup T) = WorthOf(S) + WorthOf(R)
  BY <1>2, <1>5
<1>8. IsFiniteSet(S \cup T)
  BY FS_Union
<1>9. S \cap T = {} => WorthOf(R) = WorthOf(T)
  BY <1>2
<1>10. WorthOf(R) <= WorthOf(T) /\ WorthOf(R) \in Nat /\ WorthOf(S) \in Nat
  BY <1>1, <1>4
<1>11. QED
  BY <1>6, <1>7, <1>8, <1>9, <1>10

(* The worth of a union of sets of coins.                                   *)
LEMMA WorthOfUnions ==
    ASSUME NEW I, IsFiniteSet(I), NEW F \in [I -> SUBSET Coin],
           \A i \in I : IsFiniteSet(F[i]),
           NEW g, \A i \in I : g[i] = WorthOf(F[i])
    PROVE  /\ UNION Range(F) \subseteq Coin
           /\ IsFiniteSet(UNION Range(F))
           /\ WorthOf(UNION Range(F)) <= SumFunctionOnSet(g, I)
           /\ (\A i, j \in I : i # j => F[i] \cap F[j] = {})
                 => WorthOf(UNION Range(F)) = SumFunctionOnSet(g, I)
PROOF
<1>1. \A i \in I : g[i] = SumFunctionOnSet(Values, F[i])
  BY WorthIsSum
<1>2. Values \in [Coin -> Nat]
  BY CoinTyped DEF Values
<1>3. /\ IsFiniteSet(UNION Range(F))
      /\ SumFunctionOnSet(Values, UNION Range(F)) <= SumFunctionOnSet(g, I)
      /\ (\A i, j \in I : i # j => F[i] \cap F[j] = {})
            => SumFunctionOnSet(Values, UNION Range(F)) = SumFunctionOnSet(g, I)
  BY <1>1, <1>2, SumOfUnion
<1>4. UNION Range(F) \in SUBSET Coin
  BY DEF Range
<1>5. WorthOf(UNION Range(F)) = SumFunctionOnSet(Values, UNION Range(F))
  BY <1>3, <1>4, WorthIsSum
<1>6. QED
  BY <1>3, <1>4, <1>5

(* The outputs of a transaction are worth their sum: GetTotalOutput is at   *)
(* most that, and is that if it does not wrap.                              *)
LEMMA WorthOfOutputs ==
    ASSUME NEW t \in Tx
    PROVE  /\ OutPointsOf(t) \subseteq Coin
           /\ IsFiniteSet(OutPointsOf(t))
           /\ WorthOf(OutPointsOf(t)) \in Nat
           /\ WorthOf(OutPointsOf(t)) = SumFunction(Outputs[t])
           /\ TotalOutput(t) \in 0 .. Wrap - 1
           /\ TotalOutput(t) <= WorthOf(OutPointsOf(t))
           /\ WorthOf(OutPointsOf(t)) < Wrap
                => TotalOutput(t) = WorthOf(OutPointsOf(t))
PROOF
<1> DEFINE out == Outputs[t]
           I == DOMAIN out
           h == [i \in I |-> <<t, i>>]
<1>1. /\ Wrap \in Nat \ {0} /\ out \in Seq(0 .. Wrap - 1) /\ out \in Seq(Nat)
      /\ IsFiniteSet(I)
  <2>1. Wrap \in Nat \ {0} /\ out \in Seq(0 .. Wrap - 1)
    BY TransactionsAssumption
  <2>2. out \in Seq(Nat)
    BY <2>1
  <2>3. I = 1 .. Len(out) /\ Len(out) \in Int
    BY <2>2
  <2>4. IsFiniteSet(1 .. Len(out))
    BY <2>3, FS_Interval
  <2>5. QED
    BY <2>1, <2>2, <2>3, <2>4
<1>2. OutPointsOf(t) \subseteq Coin
  BY DEF Coin
<1>3. OutPointsOf(t) = {h[i] : i \in I}
  <2>1. ASSUME NEW op \in {t} \X I
        PROVE  op \in {h[i] : i \in I}
    <3>1. PICK i \in I : op = <<t, i>>
      BY <2>1
    <3>2. h[i] = op
      BY <3>1
    <3>3. QED
      BY <3>2
  <2>2. \A i \in I : h[i] \in {t} \X I
    OBVIOUS
  <2>3. OutPointsOf(t) = {t} \X I
    BY DEF OutPointsOf
  <2> HIDE DEF h, I
  <2>4. QED
    BY <2>1, <2>2, <2>3
<1>4. \A i \in I : out[i] \in Nat /\ out[i] = Values[h[i]]
  BY <1>1, <1>2, <1>3 DEF Values, ValueOf
<1>5. \A i, j \in I : h[i] = h[j] => i = j
  OBVIOUS
<1>6. SumFunction(out) = SumFunctionOnSet(out, I)
  BY DEF SumFunction
<1>7. /\ WrappedSum(out) \in 0 .. Wrap - 1
      /\ SumFunction(out) \in Nat
      /\ WrappedSum(out) <= SumFunction(out)
      /\ SumFunction(out) < Wrap => WrappedSum(out) = SumFunction(out)
  BY <1>1, WrappedSumBound
<1>8. TotalOutput(t) = WrappedSum(out)
  BY DEF TotalOutput
<1>9. out = Outputs[t]
  OBVIOUS
<1> HIDE DEF out, I, h
<1>10. IsFiniteSet(OutPointsOf(t))
       /\ SumFunctionOnSet(out, I) = SumFunctionOnSet(Values, OutPointsOf(t))
  <2>1. /\ IsFiniteSet({h[i] : i \in I})
        /\ SumFunctionOnSet(out, I) = SumFunctionOnSet(Values, {h[i] : i \in I})
    <3>1. IsFiniteSet(I)
      BY <1>1
    <3>2. QED
      BY <1>4, <1>5, <3>1, SumReindexed
  <2>2. QED
    BY <1>3, <2>1
<1>11. WorthOf(OutPointsOf(t)) = SumFunctionOnSet(Values, OutPointsOf(t))
  BY <1>2, <1>10, WorthIsSum
<1>12. QED
  BY <1>2, <1>6, <1>7, <1>8, <1>9, <1>10, <1>11

(* The total of distinct coins, added up as the code does in any order, is  *)
(* at most what they are worth, and is that if it does not wrap.            *)
LEMMA WorthOfList ==
    ASSUME NEW coins \in Seq(Coin),
           \A i, j \in DOMAIN coins : coins[i] = coins[j] => i = j
    PROVE  LET S == {coins[i] : i \in DOMAIN coins}
               total == WrappedSum([i \in DOMAIN coins |-> ValueOf(coins[i])])
           IN  /\ S \subseteq Coin
               /\ IsFiniteSet(S)
               /\ WorthOf(S) \in Nat
               /\ total \in 0 .. Wrap - 1
               /\ total <= WorthOf(S)
               /\ WorthOf(S) < Wrap => total = WorthOf(S)
PROOF
<1> DEFINE I == DOMAIN coins
           S == {coins[i] : i \in I}
           v == [i \in I |-> ValueOf(coins[i])]
<1>1. /\ I = 1 .. Len(coins) /\ Len(coins) \in Nat
      /\ \A i \in I : coins[i] \in Coin
  OBVIOUS
<1>2. IsFiniteSet(I)
  <2>1. IsFiniteSet(1 .. Len(coins))
    BY <1>1, FS_Interval
  <2>2. QED
    BY <1>1, <2>1
<1>3. v \in Seq(Nat) /\ DOMAIN v = I
  BY <1>1, CoinTyped
<1>4. \A i \in I : v[i] \in Nat /\ v[i] = Values[coins[i]]
  BY <1>1, CoinTyped
<1>5. S \subseteq Coin
  BY <1>1
<1>6. /\ WrappedSum(v) \in 0 .. Wrap - 1
      /\ SumFunction(v) \in Nat
      /\ WrappedSum(v) <= SumFunction(v)
      /\ SumFunction(v) < Wrap => WrappedSum(v) = SumFunction(v)
  <2> HIDE DEF v
  <2>1. QED
    BY <1>3, WrappedSumBound, TransactionsAssumption
<1>7. SumFunction(v) = SumFunctionOnSet(v, I)
  BY <1>3 DEF SumFunction
<1>8. IsFiniteSet(S) /\ SumFunctionOnSet(v, I) = SumFunctionOnSet(Values, S)
  <2>1. \A i, j \in I : coins[i] = coins[j] => i = j
    OBVIOUS
  <2> HIDE DEF v, I
  <2>2. QED
    BY <1>2, <1>4, <2>1, SumReindexed
<1>9. WorthOf(S) = SumFunctionOnSet(Values, S)
  <2> HIDE DEF S
  <2>1. QED
    BY <1>5, <1>8, WorthIsSum
<1> HIDE DEF v, S
<1>10. /\ S \subseteq Coin /\ IsFiniteSet(S) /\ WorthOf(S) \in Nat
       /\ WrappedSum(v) \in 0 .. Wrap - 1
       /\ WrappedSum(v) <= WorthOf(S)
       /\ WorthOf(S) < Wrap => WrappedSum(v) = WorthOf(S)
  BY <1>5, <1>6, <1>7, <1>8, <1>9
<1>11. QED
  BY <1>10 DEF v, S

(* The total that the node compares with the outputs of a transaction whose *)
(* inputs name distinct coins.                                              *)
LEMMA WorthOfInputs ==
    ASSUME NEW t \in Tx, InputSet(t) \subseteq Coin,
           \A i \in DOMAIN Inputs[t] : \A j \in 1 .. i-1 : Inputs[t][j] # Inputs[t][i]
    PROVE  /\ IsFiniteSet(InputSet(t))
           /\ WorthOf(InputSet(t)) \in Nat
           /\ TotalInput(t) \in 0 .. Wrap - 1
           /\ TotalInput(t) <= WorthOf(InputSet(t))
           /\ WorthOf(InputSet(t)) < Wrap => TotalInput(t) = WorthOf(InputSet(t))
PROOF
<1> DEFINE ins == Inputs[t]
<1>1. /\ InputSet(t) = {ins[i] : i \in DOMAIN ins}
      /\ TotalInput(t) = WrappedSum([i \in DOMAIN ins |-> ValueOf(ins[i])])
  BY DEF InputSet, TotalInput
<1>2. ins \in Seq(Coin)
  <2>1. ins \in Seq(OutPoint)
    BY TransactionsAssumption
  <2>2. \A i \in DOMAIN ins : ins[i] \in Coin
    BY <1>1
  <2>3. QED
    BY <2>1, <2>2
<1>3. \A i, j \in DOMAIN ins : ins[i] = ins[j] => i = j
  <2>1. DOMAIN ins = 1 .. Len(ins) /\ Len(ins) \in Nat
    BY <1>2
  <2>2. \A i, j \in DOMAIN ins : i < j => ins[i] # ins[j]
    BY <2>1
  <2>3. QED
    BY <2>1, <2>2
<1> HIDE DEF ins
<1>4. QED
  BY <1>1, <1>2, <1>3, WorthOfList
=============================================================================
