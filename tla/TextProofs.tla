----------------------------- MODULE TextProofs -----------------------------
(****************************************************************************)
(* What the node, the miner and the wallet write, and what they read, for  *)
(* hashes of any size, blocks of any contents, and integers of any width:  *)
(* the bytes and hex digits of blocks (Wire), and the numbers and strings  *)
(* of JSON texts (Json).                                                   *)
(*                                                                         *)
(* A text that is read stands within a longer one.  Holds(t, i, s) says    *)
(* that t has the bytes of s from place i on: a lemma on something written *)
(* says that it is read at i whatever comes before it, and what comes      *)
(* after it.                                                               *)
(****************************************************************************)
EXTENDS Wire, Json, SequenceTheorems, WellFoundedInduction, TLAPS

(* A set of naturals that is not empty has a smallest element. *)
LEMMA LeastElement ==
    ASSUME NEW S, S \subseteq Nat, S # {}
    PROVE  \E k \in S : \A j \in S : k <= j
PROOF
<1> DEFINE R == {ss \in Nat \X Nat : ss[1] < ss[2]}
<1>1. IsWellFoundedOn(R, Nat)
  BY NatLessThanWellFounded DEF OpToRel
<1> HIDE DEF R
<1>2. PICK k \in S : \A j \in S : ~(<<j, k>> \in R)
  BY <1>1, WFMin
<1>3. ASSUME NEW j \in S
      PROVE  k <= j
  <2>1. k \in Nat /\ j \in Nat
    OBVIOUS
  <2>2. j < k => <<j, k>> \in R
    BY <2>1 DEF R
  <2>3. QED
    BY <1>2, <2>1, <2>2
<1>4. QED
  BY <1>3

(* A set of naturals with 0 and every successor of its elements is Nat.     *)
LEMMA NatInductionOnSet ==
    ASSUME NEW G, 0 \in G, \A n \in Nat : n \in G => n + 1 \in G
    PROVE  Nat \subseteq G
PROOF
<1>1. SUFFICES ASSUME Nat \ G # {}
               PROVE  FALSE
  OBVIOUS
<1>2. PICK k \in Nat \ G : \A j \in Nat \ G : k <= j
  BY <1>1, LeastElement
<1>3. k # 0 /\ k - 1 \in Nat /\ (k - 1) + 1 = k
  OBVIOUS
<1>4. k - 1 \notin Nat \ G
  BY <1>2, <1>3
<1>5. QED
  BY <1>3, <1>4

-----------------------------------------------------------------------------
(* Recursion. *)

(* f solves the equation of Step where the rank is below n.                 *)
Solves(D, rank, Step, f, n) == \A x \in D : rank[x] < n => f[x] = Step[f][x]

(* Step[f] at a place depends only on f at places of a lower rank.           *)
Ranked(D, S, rank, Step) ==
    /\ S # {}
    /\ rank \in [D -> Nat]
    /\ Step \in [[D -> S] -> [D -> S]]
    /\ \A g, h \in [D -> S], x \in D :
          (\A y \in D : rank[y] < rank[x] => g[y] = h[y]) => Step[g][x] = Step[h][x]

(* Then the equation f = Step[f] has a solution.                             *)
LEMMA RecursionExists ==
    ASSUME NEW D, NEW S, NEW rank, NEW Step, Ranked(D, S, rank, Step)
    PROVE  \E f \in [D -> S] : f = Step[f]
PROOF
<1> USE DEF Ranked
<1>0. PICK s \in S : TRUE
  OBVIOUS
<1> DEFINE Sol(f, n) == Solves(D, rank, Step, f, n)
           Solvable == {n \in Nat : \E f \in [D -> S] : Sol(f, n)}
           Unique == {n \in Nat : \A f, g \in [D -> S] :
                         Sol(f, n) /\ Sol(g, n) => \A x \in D : rank[x] < n => f[x] = g[x]}
<1>1. Nat \subseteq Solvable
  <2>1. 0 \in Solvable
    <3>1. [x \in D |-> s] \in [D -> S]
      OBVIOUS
    <3>2. \A x \in D : ~(rank[x] < 0)
      OBVIOUS
    <3>3. Sol([x \in D |-> s], 0)
      BY <3>2 DEF Solves
    <3>4. QED
      BY <3>1, <3>3
  <2>2. ASSUME NEW n \in Nat, n \in Solvable
        PROVE  n + 1 \in Solvable
    <3>1. PICK f \in [D -> S] : Sol(f, n)
      BY <2>2
    <3>2. Step[f] \in [D -> S]
      OBVIOUS
    <3>3. ASSUME NEW x \in D, rank[x] < n + 1
          PROVE  Step[f][x] = Step[Step[f]][x]
      <4>1. \A y \in D : rank[y] < rank[x] => f[y] = Step[f][y]
        BY <3>1, <3>3 DEF Solves
      <4>2. QED
        BY <3>2, <4>1
    <3>4. Sol(Step[f], n + 1)
      BY <3>3 DEF Solves
    <3>5. QED
      BY <3>2, <3>4
  <2> HIDE DEF Solvable
  <2>3. QED
    BY <2>1, <2>2, NatInductionOnSet
<1>2. Nat \subseteq Unique
  <2>1. 0 \in Unique
    OBVIOUS
  <2>2. ASSUME NEW n \in Nat, n \in Unique
        PROVE  n + 1 \in Unique
    <3>1. SUFFICES ASSUME NEW f \in [D -> S], NEW g \in [D -> S],
                          Sol(f, n + 1), Sol(g, n + 1), NEW x \in D, rank[x] < n + 1
                   PROVE  f[x] = g[x]
      OBVIOUS
    <3>2. Sol(f, n) /\ Sol(g, n)
      BY <3>1 DEF Solves
    <3>3. \A y \in D : rank[y] < rank[x] => f[y] = g[y]
      BY <2>2, <3>1, <3>2
    <3>4. QED
      BY <3>1, <3>3 DEF Solves
  <2> HIDE DEF Unique
  <2>3. QED
    BY <2>1, <2>2, NatInductionOnSet
<1> DEFINE sol(n) == CHOOSE f \in [D -> S] : Sol(f, n)
           F == [x \in D |-> sol(rank[x] + 1)[x]]
<1>3. ASSUME NEW n \in Nat
      PROVE  sol(n) \in [D -> S] /\ Sol(sol(n), n)
  BY <1>1
<1>4. F \in [D -> S]
  <2>1. ASSUME NEW x \in D
        PROVE  sol(rank[x] + 1)[x] \in S
    <3>1. rank[x] + 1 \in Nat
      OBVIOUS
    <3>2. QED
      BY <3>1, <1>3
  <2>2. QED
    BY <2>1
<1>5. ASSUME NEW x \in D
      PROVE  F[x] = Step[F][x]
  <2> DEFINE f == sol(rank[x] + 1)
  <2>1. rank[x] \in Nat /\ f \in [D -> S] /\ Sol(f, rank[x] + 1)
    BY <1>3
  <2>2. ASSUME NEW y \in D, rank[y] < rank[x]
        PROVE  F[y] = f[y]
    <3> DEFINE g == sol(rank[y] + 1)
    <3>1. rank[y] + 1 \in Nat /\ g \in [D -> S] /\ Sol(g, rank[y] + 1)
      BY <1>3
    <3>2. Sol(f, rank[y] + 1)
      <4>1. \A z \in D : rank[z] < rank[y] + 1 => rank[z] < rank[x] + 1
        BY <2>2
      <4> HIDE DEF f
      <4>2. QED
        BY <2>1, <4>1 DEF Solves
    <3>3. g[y] = f[y]
      <4> HIDE DEF f, g
      <4>1. rank[y] + 1 \in Unique
        BY <1>2, <3>1
      <4>2. rank[y] < rank[y] + 1
        BY <3>1
      <4>3. QED
        BY <2>1, <3>1, <3>2, <4>1, <4>2
    <3>4. QED
      BY <3>3
  <2>3. f[x] = Step[f][x]
    <3>1. rank[x] < rank[x] + 1
      BY <2>1
    <3> HIDE DEF f
    <3>2. QED
      BY <2>1, <3>1 DEF Solves
  <2>4. Step[F][x] = Step[f][x]
    <3> HIDE DEF f, F
    <3>1. QED
      BY <1>4, <2>1, <2>2
  <2>5. QED
    BY <2>3, <2>4
<1>6. F = Step[F]
  <2>1. Step[F] \in [D -> S]
    BY <1>4
  <2> HIDE DEF F
  <2>2. QED
    BY <1>4, <1>5, <2>1
<1>7. QED
  BY <1>4, <1>6

-----------------------------------------------------------------------------
(* Texts and places. *)

(* The text t has the bytes s from place i on.                              *)
Holds(t, i, s) ==
    /\ i \in Nat \ {0}
    /\ i - 1 + Len(s) <= Len(t)
    /\ \A k \in 1 .. Len(s) : t[i + k - 1] = s[k]

(* The length, the domain and the elements of a string of bytes. *)
LEMMA BytesLen ==
    ASSUME NEW s \in Bytes
    PROVE  /\ Len(s) \in Nat
           /\ DOMAIN s = 1 .. Len(s)
           /\ \A k \in 1 .. Len(s) : s[k] \in Byte /\ s[k] \in Nat
PROOF
<1>1. /\ Len(s) \in Nat /\ DOMAIN s = 1 .. Len(s)
      /\ \A k \in 1 .. Len(s) : s[k] \in Byte
  BY LenProperties, ElementOfSeq DEF Bytes
<1>2. Byte \subseteq Nat
  BY DEF Byte
<1>3. QED
  BY <1>1, <1>2

(* Two strings of bytes, one after the other. *)
LEMMA ConcatBytes ==
    ASSUME NEW s \in Bytes, NEW u \in Bytes
    PROVE  s \o u \in Bytes /\ Len(s \o u) = Len(s) + Len(u)
BY ConcatProperties DEF Bytes

(* A text that has a concatenation has both parts of it.                    *)
LEMMA HoldsConcat ==
    ASSUME NEW t \in Bytes, NEW i, NEW s \in Bytes, NEW u \in Bytes
    PROVE  Holds(t, i, s \o u) <=> Holds(t, i, s) /\ Holds(t, i + Len(s), u)
PROOF
<1>1. /\ Len(s) \in Nat /\ Len(u) \in Nat /\ Len(s \o u) = Len(s) + Len(u)
      /\ \A k \in 1 .. Len(s) + Len(u) :
            (s \o u)[k] = IF k <= Len(s) THEN s[k] ELSE u[k - Len(s)]
      /\ Len(t) \in Nat
  BY BytesLen, ConcatProperties DEF Bytes
<1>2. ASSUME Holds(t, i, s \o u)
      PROVE  Holds(t, i, s) /\ Holds(t, i + Len(s), u)
  <2>1. /\ i \in Nat \ {0} /\ i - 1 + Len(s) + Len(u) <= Len(t)
        /\ \A k \in 1 .. Len(s) + Len(u) :
              t[i + k - 1] = IF k <= Len(s) THEN s[k] ELSE u[k - Len(s)]
    BY <1>1, <1>2 DEF Holds
  <2>2. Holds(t, i, s)
    BY <1>1, <2>1 DEF Holds
  <2>3. ASSUME NEW k \in 1 .. Len(u)
        PROVE  t[i + Len(s) + k - 1] = u[k]
    <3>1. /\ k + Len(s) \in 1 .. Len(s) + Len(u) /\ ~(k + Len(s) <= Len(s))
          /\ i + (k + Len(s)) - 1 = i + Len(s) + k - 1 /\ (k + Len(s)) - Len(s) = k
      BY <1>1, <2>1
    <3>2. QED
      BY <2>1, <3>1
  <2>4. Holds(t, i + Len(s), u)
    BY <1>1, <2>1, <2>3 DEF Holds
  <2>5. QED
    BY <2>2, <2>4
<1>3. ASSUME Holds(t, i, s), Holds(t, i + Len(s), u)
      PROVE  Holds(t, i, s \o u)
  <2>1. /\ i \in Nat \ {0} /\ i - 1 + Len(s) + Len(u) <= Len(t)
        /\ \A k \in 1 .. Len(s) : t[i + k - 1] = s[k]
        /\ \A k \in 1 .. Len(u) : t[i + Len(s) + k - 1] = u[k]
    BY <1>1, <1>3 DEF Holds
  <2>2. ASSUME NEW k \in 1 .. Len(s) + Len(u)
        PROVE  t[i + k - 1] = (s \o u)[k]
    <3>1. CASE k <= Len(s)
      BY <1>1, <2>1, <3>1
    <3>2. CASE ~(k <= Len(s))
      <4>1. k - Len(s) \in 1 .. Len(u) /\ i + Len(s) + (k - Len(s)) - 1 = i + k - 1
        BY <1>1, <2>1, <3>2
      <4>2. QED
        BY <1>1, <2>1, <3>2, <4>1
    <3>3. QED
      BY <3>1, <3>2
  <2>3. QED
    BY <1>1, <2>1, <2>2 DEF Holds
<1>4. QED
  BY <1>2, <1>3

(* A text has itself.                                                       *)
LEMMA HoldsItself ==
    ASSUME NEW t \in Bytes
    PROVE  Holds(t, 1, t)
BY BytesLen DEF Holds

(* What is read of a text where it has s.                                   *)
LEMMA HeldPart ==
    ASSUME NEW t \in Bytes, NEW i, NEW s \in Bytes, Holds(t, i, s)
    PROVE  /\ SubSeq(t, i, i + Len(s) - 1) = s
           /\ i \in Nat \ {0} /\ i + Len(s) \in Nat \ {0}
           /\ i + Len(s) <= Len(t) + 1
           /\ \A k \in 0 .. Len(s) - 1 : i + k \in DOMAIN t /\ t[i + k] = s[k + 1]
PROOF
<1>1. /\ i \in Nat \ {0} /\ Len(s) \in Nat /\ Len(t) \in Nat
      /\ i - 1 + Len(s) <= Len(t)
      /\ \A k \in 1 .. Len(s) : t[i + k - 1] = s[k] /\ s[k] \in Byte
      /\ DOMAIN t = 1 .. Len(t)
  BY BytesLen DEF Holds
<1>2. ASSUME NEW k \in 0 .. Len(s) - 1
      PROVE  i + k \in DOMAIN t /\ t[i + k] = s[k + 1]
  <2>1. k + 1 \in 1 .. Len(s) /\ i + (k + 1) - 1 = i + k
    BY <1>1
  <2>2. QED
    BY <1>1, <2>1
<1> DEFINE n == i + Len(s) - 1
<1>3. n \in Int /\ i \in Int /\ \A j \in i .. n : t[j] \in Byte
  BY <1>1, BytesLen
<1>4. /\ SubSeq(t, i, n) \in Seq(Byte)
      /\ Len(SubSeq(t, i, n)) = IF i <= n THEN n - i + 1 ELSE 0
      /\ \A j \in 1 .. n - i + 1 : SubSeq(t, i, n)[j] = t[i + j - 1]
  <2> HIDE DEF n
  <2>1. QED
    BY <1>3, SubSeqProperties
<1>5. Len(SubSeq(t, i, n)) = Len(s) /\ n - i + 1 = Len(s)
  BY <1>1, <1>4
<1>6. \A j \in 1 .. Len(s) : SubSeq(t, i, n)[j] = s[j]
  BY <1>1, <1>4, <1>5
<1>7. SubSeq(t, i, n) = s
  <2> HIDE DEF n
  <2>1. QED
    BY <1>4, <1>5, <1>6, SeqEqual DEF Bytes
<1>8. QED
  BY <1>1, <1>2, <1>7

(* Texts joined one after the other: how it goes on with each of them.      *)
LEMMA FlattenSteps ==
    ASSUME NEW seqs \in Seq(Bytes)
    PROVE  \E f \in [0 .. Len(seqs) -> Bytes] :
              /\ f[0] = <<>>
              /\ \A k \in 1 .. Len(seqs) : f[k] = f[k-1] \o seqs[k]
              /\ f[Len(seqs)] = FlattenSeq(seqs)
PROOF
<1> DEFINE n == Len(seqs)
           D == 1 .. n
           Step == [g \in [D -> Bytes] |->
                      [i \in D |-> IF i = 1 THEN seqs[i] ELSE g[i-1] \o seqs[i]]]
           flatten == CHOOSE f : f = [i \in 1 .. n |->
                         IF i = 1 THEN seqs[i] ELSE f[i-1] \o seqs[i]]
           rank == [i \in D |-> i]
<1>1. n \in Nat /\ \A i \in D : seqs[i] \in Bytes
  BY LenProperties, ElementOfSeq
<1>2. <<>> \in Bytes /\ Len(<<>>) = 0
  BY EmptySeq DEF Bytes
<1>3. CASE n = 0
  <2>1. seqs = <<>>
    BY <1>3, EmptySeq
  <2>2. FlattenSeq(seqs) = seqs
    BY <1>3 DEF FlattenSeq
  <2>3. WITNESS [k \in 0 .. n |-> <<>>] \in [0 .. n -> Bytes]
  <2>4. QED
    BY <1>2, <1>3, <2>1, <2>2
<1>4. CASE n # 0
  <2>1. ASSUME NEW g \in [D -> Bytes], NEW i \in D
        PROVE  (IF i = 1 THEN seqs[i] ELSE g[i-1] \o seqs[i]) \in Bytes
    <3>1. CASE i = 1
      BY <1>1, <3>1
    <3>2. CASE i # 1
      <4>1. i - 1 \in D
        BY <1>1, <3>2
      <4>2. g[i-1] \in Bytes /\ seqs[i] \in Bytes
        BY <1>1, <4>1
      <4>3. QED
        BY <3>2, <4>2, ConcatBytes
    <3>3. QED
      BY <3>1, <3>2
  <2>2. Step \in [[D -> Bytes] -> [D -> Bytes]]
    <3>1. ASSUME NEW g \in [D -> Bytes]
          PROVE  [i \in D |-> IF i = 1 THEN seqs[i] ELSE g[i-1] \o seqs[i]] \in [D -> Bytes]
      BY <2>1
    <3>2. QED
      BY <3>1
  <2>3. rank \in [D -> Nat]
    OBVIOUS
  <2>4. ASSUME NEW g \in [D -> Bytes], NEW h \in [D -> Bytes], NEW x \in D,
               \A y \in D : rank[y] < rank[x] => g[y] = h[y]
        PROVE  Step[g][x] = Step[h][x]
    <3>1. x # 1 => x - 1 \in D /\ rank[x - 1] < rank[x]
      BY <1>1
    <3>2. QED
      BY <2>4, <3>1
  <2>5. \E f \in [D -> Bytes] : f = Step[f]
    <3> HIDE DEF D, Step, rank
    <3>1. Ranked(D, Bytes, rank, Step)
      BY <1>2, <2>2, <2>3, <2>4 DEF Ranked
    <3>2. QED
      BY <3>1, RecursionExists
  <2>6. PICK g \in [D -> Bytes] : g = Step[g]
    BY <2>5
  <2>7. g = [i \in 1 .. n |-> IF i = 1 THEN seqs[i] ELSE g[i-1] \o seqs[i]]
    BY <2>6
  <2>8. flatten = [i \in 1 .. n |-> IF i = 1 THEN seqs[i] ELSE flatten[i-1] \o seqs[i]]
    <3> HIDE DEF n
    <3>1. QED
      BY <2>7
  <2>9. FlattenSeq(seqs) = flatten[n]
    BY <1>4 DEF FlattenSeq
  <2> DEFINE f == [k \in 0 .. n |-> IF k = 0 THEN <<>> ELSE flatten[k]]
             G == {k \in Nat : k \in D => flatten[k] \in Bytes}
  <2>10. \A i \in D : flatten[i] = IF i = 1 THEN seqs[i] ELSE flatten[i-1] \o seqs[i]
    <3> HIDE DEF flatten
    <3>1. QED
      BY <2>8
  <2>11. Nat \subseteq G
    <3> HIDE DEF flatten
    <3>1. 0 \in G
      OBVIOUS
    <3>2. ASSUME NEW k \in Nat, k \in G
          PROVE  k + 1 \in G
      <4>1. SUFFICES ASSUME k + 1 \in D
                     PROVE  flatten[k + 1] \in Bytes
        OBVIOUS
      <4>2. CASE k = 0
        BY <1>1, <2>10, <4>1, <4>2
      <4>3. CASE k # 0
        <5>1. k \in D /\ k + 1 # 1 /\ (k + 1) - 1 = k
          BY <1>1, <4>1, <4>3
        <5>2. flatten[k] \in Bytes /\ seqs[k + 1] \in Bytes
          BY <1>1, <3>2, <4>1, <5>1
        <5>3. flatten[k + 1] = flatten[k] \o seqs[k + 1]
          BY <2>10, <4>1, <5>1
        <5>4. QED
          BY <5>2, <5>3, ConcatBytes
      <4>4. QED
        BY <4>2, <4>3
    <3> HIDE DEF G
    <3>3. QED
      BY <3>1, <3>2, NatInductionOnSet
  <2> HIDE DEF flatten
  <2>12. f \in [0 .. n -> Bytes]
    BY <1>1, <1>2, <2>11
  <2>13. ASSUME NEW k \in 1 .. n
         PROVE  f[k] = f[k-1] \o seqs[k]
    <3>1. CASE k = 1
      <4>1. f[k] = seqs[k] /\ f[k-1] = <<>>
        BY <1>1, <2>10, <3>1
      <4>2. QED
        BY <1>1, <4>1, ConcatEmptySeq DEF Bytes
    <3>2. CASE k # 1
      BY <1>1, <2>10, <3>2
    <3>3. QED
      BY <3>1, <3>2
  <2>14. f[0] = <<>> /\ f[n] = FlattenSeq(seqs)
    BY <1>1, <1>4, <2>9
  <2>15. QED
    BY <2>12, <2>13, <2>14
<1>5. QED
  BY <1>3, <1>4

-----------------------------------------------------------------------------
(* Numbers. *)

(* v >> 8(n + 1) is the quotient of v >> 8n.                                 *)
LEMMA ShiftedSteps ==
    ASSUME NEW v \in Nat
    PROVE  /\ Shifted8(v, 0) = v
           /\ \A n \in Nat : /\ Shifted8(v, n) \in Nat
                             /\ Shifted8(v, n + 1) = Shifted8(v, n) \div 256
PROOF
<1> DEFINE Step == [g \in [Nat -> Nat] |->
                       [k \in Nat |-> IF k = 0 THEN v ELSE g[k-1] \div 256]]
           left == CHOOSE f : f = [k \in Nat |-> IF k = 0 THEN v ELSE f[k-1] \div 256]
           rank == [k \in Nat |-> k]
<1>1. Ranked(Nat, Nat, rank, Step)
  <2>1. \A m \in Nat : m \div 256 \in Nat
    OBVIOUS
  <2>2. Step \in [[Nat -> Nat] -> [Nat -> Nat]] /\ rank \in [Nat -> Nat]
    BY <2>1
  <2>3. ASSUME NEW g \in [Nat -> Nat], NEW h \in [Nat -> Nat], NEW x \in Nat,
               \A y \in Nat : rank[y] < rank[x] => g[y] = h[y]
        PROVE  Step[g][x] = Step[h][x]
    <3>1. x # 0 => x - 1 \in Nat /\ rank[x - 1] < rank[x]
      OBVIOUS
    <3>2. QED
      BY <2>3, <3>1
  <2>4. QED
    BY <2>2, <2>3 DEF Ranked
<1>2. \E f \in [Nat -> Nat] : f = Step[f]
  <2> DEFINE N == Nat
  <2>1. Ranked(N, N, rank, Step)
    BY <1>1
  <2> HIDE DEF Step, rank, N
  <2>2. \E f \in [N -> N] : f = Step[f]
    BY <2>1, RecursionExists
  <2>3. QED
    BY <2>2 DEF N
<1>3. \E g : g = [k \in Nat |-> IF k = 0 THEN v ELSE g[k-1] \div 256]
  BY <1>2
<1>4. left = [k \in Nat |-> IF k = 0 THEN v ELSE left[k-1] \div 256]
  BY <1>3
<1>5. \A n : Shifted8(v, n) = left[n]
  BY DEF Shifted8
<1> HIDE DEF left
<1>6. left[0] = v /\ \A n \in Nat : left[n + 1] = left[n] \div 256
  BY <1>4
<1> DEFINE G == {n \in Nat : left[n] \in Nat}
<1>7. 0 \in G /\ \A n \in Nat : n \in G => n + 1 \in G
  BY <1>6
<1>8. Nat \subseteq G
  <2> HIDE DEF G
  <2>1. QED
    BY <1>7, NatInductionOnSet
<1>9. QED
  BY <1>5, <1>6, <1>8

(* A number is written in as many bytes as its type has.                    *)
LEMMA LittleBytes ==
    ASSUME NEW v \in Nat, NEW n \in Nat
    PROVE  Little(v, n) \in Bytes /\ Len(Little(v, n)) = n
PROOF
<1>1. ASSUME NEW k \in 1 .. n
      PROVE  Shifted8(v, k - 1) % 256 \in Byte
  <2>1. k - 1 \in Nat
    OBVIOUS
  <2>2. Shifted8(v, k - 1) \in Nat
    BY <2>1, ShiftedSteps
  <2>3. QED
    BY <2>2 DEF Byte
<1>2. Little(v, n) \in [1 .. n -> Byte]
  BY <1>1 DEF Little
<1>3. QED
  BY <1>2 DEF Bytes

(* Where a number is written, it is read.                                   *)
LEMMA NumberIsRead ==
    ASSUME NEW n \in Nat, NEW v \in UInt(n), NEW t \in Bytes, NEW i,
           Holds(t, i, Little(v, n))
    PROVE  ReadLittle(t, i, n) = <<v, i + n>>
PROOF
<1> DEFINE value == CHOOSE f : f = [k \in 0 .. n |->
                       IF k = 0 THEN 0 ELSE 256 * f[k-1] + t[i + n - k]]
           w == [k \in 0 .. n |-> Shifted8(v, n - k)]
<1>1. v \in Nat /\ Shifted8(v, n) = 0
  BY DEF UInt
<1>2. i \in Nat \ {0} /\ \A k \in 0 .. n - 1 : t[i + k] = Shifted8(v, k) % 256
  <2>1. Little(v, n) \in Bytes /\ Len(Little(v, n)) = n
    BY <1>1, LittleBytes
  <2>2. i \in Nat \ {0} /\ \A k \in 0 .. n - 1 : t[i + k] = Little(v, n)[k + 1]
    <3> DEFINE s == Little(v, n)
    <3>1. s \in Bytes /\ Holds(t, i, s)
      BY <2>1
    <3> HIDE DEF s
    <3>2. i \in Nat \ {0} /\ \A k \in 0 .. Len(s) - 1 : t[i + k] = s[k + 1]
      BY <3>1, HeldPart
    <3>3. QED
      BY <2>1, <3>2 DEF s
  <2>3. \A k \in 0 .. n - 1 : Little(v, n)[k + 1] = Shifted8(v, k) % 256
    BY DEF Little
  <2>4. QED
    BY <2>2, <2>3
<1>3. ASSUME NEW k \in 1 .. n
      PROVE  Shifted8(v, n - k) = 256 * Shifted8(v, n - k + 1) + t[i + n - k]
  <2>1. n - k \in 0 .. n - 1 /\ n - k \in Nat /\ i + (n - k) = i + n - k
    BY <1>2
  <2>2. t[i + n - k] = Shifted8(v, n - k) % 256
    BY <1>2, <2>1
  <2>3. Shifted8(v, n - k) \in Nat
        /\ Shifted8(v, n - k + 1) = Shifted8(v, n - k) \div 256
    <3>1. \A m \in Nat : Shifted8(v, m) \in Nat
            /\ Shifted8(v, m + 1) = Shifted8(v, m) \div 256
      BY <1>1, ShiftedSteps, ZenonT(60)
    <3>2. QED
      BY <2>1, <3>1
  <2>4. \A m \in Nat : m = 256 * (m \div 256) + (m % 256)
    BY Z3
  <2>5. QED
    BY <2>2, <2>3, <2>4, ZenonT(60)
<1>4. ASSUME NEW k \in 0 .. n
      PROVE  w[k] = IF k = 0 THEN 0 ELSE 256 * w[k-1] + t[i + n - k]
  <2>1. CASE k = 0
    BY <1>1, <2>1
  <2>2. CASE k # 0
    <3>1. k \in 1 .. n /\ k - 1 \in 0 .. n /\ n - (k - 1) = n - k + 1
      BY <2>2
    <3>2. QED
      BY <1>3, <2>2, <3>1
  <2>3. QED
    BY <2>1, <2>2
<1>5. w = [k \in 0 .. n |-> IF k = 0 THEN 0 ELSE 256 * w[k-1] + t[i + n - k]]
  BY <1>4
<1>6. value = [k \in 0 .. n |-> IF k = 0 THEN 0 ELSE 256 * value[k-1] + t[i + n - k]]
  <2> HIDE DEF w
  <2>1. QED
    BY <1>5, ZenonT(60)
<1>7. ReadLittle(t, i, n) = <<value[n], i + n>>
  BY DEF ReadLittle
<1> HIDE DEF value
<1> DEFINE G == {k \in Nat : k <= n => value[k] = w[k]}
<1>8. 0 \in G
  <2>1. 0 \in 0 .. n
    OBVIOUS
  <2>2. value[0] = 0 /\ w[0] = 0
    <3>1. value[0] = 0
      BY <1>6, <2>1
    <3>2. w[0] = 0
      BY <1>1, <2>1
    <3>3. QED
      BY <3>1, <3>2
  <2>3. QED
    BY <2>2
<1>9. ASSUME NEW k \in Nat, k \in G
      PROVE  k + 1 \in G
  <2>1. SUFFICES ASSUME k + 1 <= n
                 PROVE  value[k + 1] = w[k + 1]
    OBVIOUS
  <2>2. k + 1 \in 0 .. n /\ k + 1 # 0 /\ (k + 1) - 1 = k /\ value[k] = w[k]
    BY <1>9, <2>1
  <2> HIDE DEF w
  <2>3. value[k + 1] = 256 * value[k] + t[i + n - (k + 1)]
    BY <1>6, <2>2
  <2>4. w[k + 1] = 256 * w[k] + t[i + n - (k + 1)]
    BY <1>4, <2>2
  <2>5. QED
    BY <2>2, <2>3, <2>4
<1>10. n \in G
  <2> HIDE DEF G
  <2>1. QED
    BY <1>8, <1>9, NatInductionOnSet
<1>11. value[n] = v
  <2>1. n \in 0 .. n /\ n - n = 0
    OBVIOUS
  <2>2. value[n] = Shifted8(v, n - n)
    BY <1>10, <2>1
  <2>3. QED
    BY <1>1, <2>1, <2>2, ShiftedSteps
<1>12. QED
  BY <1>7, <1>11

-----------------------------------------------------------------------------
(* Parts of a block. *)

(* A hash is read where it is written.                                      *)
LEMMA HashIsRead ==
    ASSUME NEW h \in HashBytes, NEW t \in Bytes, NEW i, Holds(t, i, h)
    PROVE  Read(t, i, HashSize) = <<h, i + HashSize>>
PROOF
<1>1. h \in Bytes /\ Len(h) = HashSize
  BY WireAssumption DEF HashBytes, Bytes
<1>2. QED
  BY <1>1, HeldPart, SMTT(60) DEF Read

(* A hash is a string of HashSize bytes. *)
LEMMA HashLen ==
    ASSUME NEW h \in HashBytes
    PROVE  h \in Bytes /\ Len(h) = HashSize
BY WireAssumption DEF HashBytes, Bytes

(* push_script: the bytes of a script follow their number. *)
LEMMA ScriptBytes ==
    ASSUME NEW s \in Sized(Byte)
    PROVE  /\ s \in Bytes /\ Len(s) \in UInt(4) /\ Len(s) \in Nat
           /\ Script(s) \in Bytes /\ Len(Script(s)) = 4 + Len(s)
PROOF
<1>1. s \in Bytes /\ Len(s) \in UInt(4) /\ Len(s) \in Nat
  BY DEF Sized, Bytes, UInt
<1>2. Little(Len(s), 4) \in Bytes /\ Len(Little(Len(s), 4)) = 4
  BY <1>1, LittleBytes
<1>3. QED
  BY <1>1, <1>2, ConcatBytes DEF Script

(* A script is read where it is written.                                    *)
LEMMA ScriptIsRead ==
    ASSUME NEW s \in Sized(Byte), NEW t \in Bytes, NEW i, Holds(t, i, Script(s))
    PROVE  ReadScript(t, i) = <<s, i + Len(Script(s))>>
PROOF
<1>1. /\ s \in Bytes /\ Len(s) \in UInt(4) /\ Len(s) \in Nat
      /\ Len(Script(s)) = 4 + Len(s)
  BY ScriptBytes
<1> DEFINE l == Little(Len(s), 4)
<1>2. l \in Bytes /\ Len(l) = 4
  BY <1>1, LittleBytes
<1>3. Holds(t, i, l) /\ Holds(t, i + 4, s) /\ i \in Nat \ {0}
  <2>1. Holds(t, i, l \o s)
    BY DEF Script
  <2> HIDE DEF l
  <2>2. QED
    <3>1. Holds(t, i, l) /\ Holds(t, i + 4, s)
      BY <1>1, <1>2, <2>1, HoldsConcat
    <3>2. QED
      BY <3>1 DEF Holds
<1>4. ReadLittle(t, i, 4) = <<Len(s), i + 4>>
  BY <1>1, <1>3, NumberIsRead
<1> DEFINE j == i + 4
<1>5. SubSeq(t, j, j + Len(s) - 1) = s
  <2>1. Holds(t, j, s)
    BY <1>3
  <2> HIDE DEF j
  <2>2. QED
    BY <1>1, <2>1, HeldPart
<1>6. Read(t, j, Len(s)) = <<s, j + Len(s)>>
  BY <1>5 DEF Read
<1>7. ReadScript(t, i) = Read(t, j, Len(s))
  BY <1>4 DEF ReadScript
<1>8. j + Len(s) = i + Len(Script(s))
  BY <1>1, <1>3
<1>9. QED
  BY <1>6, <1>7, <1>8

(* How long the bytes of an input are. *)
LEMMA InputLen ==
    ASSUME NEW in \in InputData
    PROVE  /\ InputBytes(in) \in Bytes
           /\ Len(InputBytes(in)) = HashSize + 8 + Len(Script(in.scriptSig))
PROOF
<1> DEFINE h == in.prevTxHash
           n == Little(in.prevVout, 4)
           s == Script(in.scriptSig)
           q == Little(in.sequence, 4)
<1>1. h \in Bytes /\ Len(h) = HashSize /\ HashSize \in Nat
  BY HashLen, WireAssumption DEF InputData
<1>2. n \in Bytes /\ Len(n) = 4 /\ q \in Bytes /\ Len(q) = 4
  BY LittleBytes DEF InputData, UInt
<1>3. s \in Bytes
  BY ScriptBytes DEF InputData
<1>4. InputBytes(in) = h \o n \o s \o q
  BY DEF InputBytes
<1> HIDE DEF h, n, s, q
<1>5. h \o n \in Bytes /\ Len(h \o n) = HashSize + 4
  BY <1>1, <1>2, ConcatBytes
<1>6. h \o n \o s \in Bytes /\ Len(h \o n \o s) = HashSize + 4 + Len(s)
  BY <1>3, <1>5, ConcatBytes
<1>7. h \o n \o s \o q \in Bytes /\ Len(h \o n \o s \o q) = HashSize + 4 + Len(s) + 4
  BY <1>2, <1>6, ConcatBytes
<1>8. Len(s) \in Nat
  BY <1>3, BytesLen
<1>9. QED
  BY <1>1, <1>4, <1>7, <1>8 DEF s

(* An input is read where it is written.                                    *)
LEMMA InputIsRead ==
    ASSUME NEW in \in InputData, NEW t \in Bytes, NEW i, Holds(t, i, InputBytes(in))
    PROVE  ReadInput(t, i) = <<in, i + Len(InputBytes(in))>>
PROOF
<1> DEFINE h == in.prevTxHash
           n == Little(in.prevVout, 4)
           s == Script(in.scriptSig)
           q == Little(in.sequence, 4)
           j == i + HashSize
           k == j + 4
           m == k + Len(s)
<1>1. h \in Bytes /\ Len(h) = HashSize /\ HashSize \in Nat
  BY HashLen, WireAssumption DEF InputData
<1>2. n \in Bytes /\ Len(n) = 4 /\ q \in Bytes /\ Len(q) = 4
  BY LittleBytes DEF InputData, UInt
<1>3. s \in Bytes /\ Len(s) \in Nat
  BY ScriptBytes, BytesLen DEF InputData
<1>4. i \in Nat \ {0} /\ Holds(t, i, h \o n \o s \o q)
  BY DEF InputBytes, Holds
<1>5. Len(InputBytes(in)) = HashSize + 8 + Len(s)
  BY InputLen
<1>6. Holds(t, i, h) /\ Holds(t, j, n) /\ Holds(t, k, s) /\ Holds(t, m, q)
  <2> HIDE DEF h, n, s, q
  <2>1. h \o n \in Bytes /\ Len(h \o n) = HashSize + 4
    BY <1>1, <1>2, ConcatBytes
  <2>2. h \o n \o s \in Bytes /\ Len(h \o n \o s) = HashSize + 4 + Len(s)
    BY <1>3, <2>1, ConcatBytes
  <2>3. Holds(t, i, h \o n \o s) /\ Holds(t, i + (HashSize + 4 + Len(s)), q)
    BY <1>2, <1>4, <2>2, HoldsConcat
  <2>4. Holds(t, i, h \o n) /\ Holds(t, i + (HashSize + 4), s)
    BY <1>3, <2>1, <2>3, HoldsConcat
  <2>5. Holds(t, i, h) /\ Holds(t, i + HashSize, n)
    BY <1>1, <1>2, <2>4, HoldsConcat
  <2>6. j = i + HashSize /\ k = i + (HashSize + 4) /\ m = i + (HashSize + 4 + Len(s))
    BY <1>1, <1>3, <1>4
  <2>7. QED
    BY <2>3, <2>4, <2>5, <2>6
<1>7. Read(t, i, HashSize) = <<h, j>>
  BY <1>6, HashIsRead DEF InputData
<1>8. ReadLittle(t, j, 4) = <<in.prevVout, k>>
  BY <1>6, NumberIsRead DEF InputData
<1>9. ReadScript(t, k) = <<in.scriptSig, m>>
  BY <1>6, ScriptIsRead DEF InputData
<1>10. ReadLittle(t, m, 4) = <<in.sequence, m + 4>>
  BY <1>6, NumberIsRead DEF InputData
<1>11. m + 4 = i + Len(InputBytes(in))
  BY <1>1, <1>3, <1>4, <1>5
<1>12. in = [prevTxHash |-> h, prevVout |-> in.prevVout, scriptSig |-> in.scriptSig,
             sequence |-> in.sequence]
  BY DEF InputData
<1> HIDE DEF h, n, s, q, j, k, m
<1>13. QED
  BY <1>7, <1>8, <1>9, <1>10, <1>11, <1>12 DEF ReadInput

(* How long the bytes of an output are. *)
LEMMA OutputLen ==
    ASSUME NEW out \in OutputData
    PROVE  /\ OutputBytes(out) \in Bytes
           /\ Len(OutputBytes(out)) = 8 + Len(Script(out.scriptPubKey))
PROOF
<1>1. Little(out.value, 8) \in Bytes /\ Len(Little(out.value, 8)) = 8
  BY LittleBytes DEF OutputData, UInt
<1>2. Script(out.scriptPubKey) \in Bytes
  BY ScriptBytes DEF OutputData
<1>3. QED
  BY <1>1, <1>2, ConcatBytes DEF OutputBytes

(* An output is read where it is written.                                   *)
LEMMA OutputIsRead ==
    ASSUME NEW out \in OutputData, NEW t \in Bytes, NEW i, Holds(t, i, OutputBytes(out))
    PROVE  ReadOutput(t, i) = <<out, i + Len(OutputBytes(out))>>
PROOF
<1> DEFINE v == Little(out.value, 8)
           s == Script(out.scriptPubKey)
           j == i + 8
           k == j + Len(s)
<1>1. v \in Bytes /\ Len(v) = 8
  BY LittleBytes DEF OutputData, UInt
<1>2. s \in Bytes /\ Len(s) \in Nat
  BY ScriptBytes, BytesLen DEF OutputData
<1>3. i \in Nat \ {0} /\ Holds(t, i, v \o s)
  BY DEF OutputBytes, Holds
<1>4. Len(OutputBytes(out)) = 8 + Len(s)
  BY OutputLen
<1>5. Holds(t, i, v) /\ Holds(t, j, s)
  <2> HIDE DEF v, s
  <2>1. QED
    BY <1>1, <1>2, <1>3, HoldsConcat
<1>6. ReadLittle(t, i, 8) = <<out.value, j>>
  BY <1>5, NumberIsRead DEF OutputData
<1>7. ReadScript(t, j) = <<out.scriptPubKey, k>>
  BY <1>5, ScriptIsRead DEF OutputData
<1>8. k = i + Len(OutputBytes(out))
  BY <1>2, <1>3, <1>4
<1>9. out = [value |-> out.value, scriptPubKey |-> out.scriptPubKey]
  BY DEF OutputData
<1> HIDE DEF v, s, j, k
<1>10. QED
  BY <1>6, <1>7, <1>8, <1>9 DEF ReadOutput

-----------------------------------------------------------------------------
(* Vectors. *)

(* How long the bytes of a vector are: four for the number of its items, and*)
(* theirs.                                                                  *)
LEMMA CountedLen ==
    ASSUME NEW texts \in Seq(Bytes)
    PROVE  /\ FlattenSeq(texts) \in Bytes
           /\ Counted(texts) \in Bytes
           /\ Len(Counted(texts)) = 4 + Len(FlattenSeq(texts))
PROOF
<1>1. Len(texts) \in Nat
  BY LenProperties
<1>2. PICK f \in [0 .. Len(texts) -> Bytes] : f[Len(texts)] = FlattenSeq(texts)
  BY FlattenSteps
<1>3. FlattenSeq(texts) \in Bytes
  BY <1>1, <1>2
<1>4. Little(Len(texts), 4) \in Bytes /\ Len(Little(Len(texts), 4)) = 4
  BY <1>1, LittleBytes
<1>5. QED
  BY <1>3, <1>4, ConcatBytes DEF Counted

(* The first k + 1 items of a vector.                                       *)
LEMMA FirstItems ==
    ASSUME NEW S, NEW items \in Seq(S)
    PROVE  /\ SubSeq(items, 1, 0) = <<>>
           /\ \A k \in 1 .. Len(items) :
                 SubSeq(items, 1, k) = Append(SubSeq(items, 1, k - 1), items[k])
           /\ SubSeq(items, 1, Len(items)) = items
PROOF
<1>1. Len(items) \in Nat /\ \A k \in 1 .. Len(items) : items[k] \in S
  BY LenProperties, ElementOfSeq
<1>2. SubSeq(items, 1, 0) = <<>>
  BY SubSeqEmpty
<1>3. ASSUME NEW k \in 1 .. Len(items)
      PROVE  SubSeq(items, 1, k) = Append(SubSeq(items, 1, k - 1), items[k])
  <2>1. 1 \in 1 .. Len(items) /\ k \in 1 .. Len(items) /\ k - 1 \in Int /\ 1 \in Int
    BY <1>1
  <2>2. SubSeq(items, 1, k) = SubSeq(items, 1, k - 1) \o <<items[k]>>
    BY <2>1, SubSeqRecursiveSecond
  <2>3. \A j \in 1 .. k - 1 : items[j] \in S
    BY <1>1
  <2>4. SubSeq(items, 1, k - 1) \in Seq(S)
    <3> DEFINE m == k - 1
    <3>1. m \in Int /\ \A j \in 1 .. m : items[j] \in S
      BY <2>1, <2>3
    <3> HIDE DEF m
    <3>2. SubSeq(items, 1, m) \in Seq(S)
      BY <2>1, <3>1, SubSeqProperties
    <3>3. QED
      BY <3>2 DEF m
  <2>5. QED
    BY <1>1, <2>2, <2>4, AppendIsConcat
<1>4. QED
  BY <1>2, <1>3, SubSeqFull

(* The loop of ReadCounted, for the number of items and the place after it. *)
ReadLoop(count, read) ==
    CHOOSE g : g = [k \in 0 .. count[1] |->
        IF k = 0 THEN <<<<>>, count[2]>>
        ELSE <<Append(g[k-1][1], read[g[k-1][2]][1]), read[g[k-1][2]][2]>>]

(* A vector is read where it is written, if its items are.                  *)
LEMMA CountedIsRead ==
    ASSUME NEW S, NEW items \in Seq(S), Len(items) \in UInt(4),
           NEW texts \in Seq(Bytes), Len(texts) = Len(items),
           NEW t \in Bytes, NEW i, NEW read,
           \A j \in 1 .. Len(items), k \in Nat :
              Holds(t, k, texts[j]) => read[k] = <<items[j], k + Len(texts[j])>>,
           Holds(t, i, Counted(texts))
    PROVE  ReadCounted(t, i, read) = <<items, i + Len(Counted(texts))>>
PROOF
<1> DEFINE n == Len(items)
           p == i + 4
<1>1. n \in Nat
  BY LenProperties
<1>2. PICK f \in [0 .. n -> Bytes] :
         /\ f[0] = <<>>
         /\ \A k \in 1 .. n : f[k] = f[k-1] \o texts[k]
         /\ f[n] = FlattenSeq(texts)
  BY FlattenSteps
<1>3. i \in Nat \ {0} /\ Holds(t, i, Little(n, 4)) /\ Holds(t, p, f[n])
  <2> DEFINE l == Little(n, 4)
             r == FlattenSeq(texts)
  <2>1. l \in Bytes /\ Len(l) = 4 /\ r \in Bytes
    BY <1>1, LittleBytes, CountedLen
  <2>2. Holds(t, i, l \o r)
    BY DEF Counted
  <2> HIDE DEF l, r
  <2>3. Holds(t, i, l) /\ Holds(t, i + 4, r)
    BY <2>1, <2>2, HoldsConcat
  <2>4. QED
    BY <1>2, <2>3 DEF Holds, l, r
<1>4. ReadLittle(t, i, 4) = <<n, p>>
  BY <1>3, NumberIsRead
<1>5. \A k \in 1 .. n : texts[k] \in Bytes /\ f[k-1] \in Bytes /\ f[k] \in Bytes
                          /\ Len(f[k]) = Len(f[k-1]) + Len(texts[k])
  <2>1. ASSUME NEW k \in 1 .. n
        PROVE  texts[k] \in Bytes /\ f[k-1] \in Bytes /\ f[k] \in Bytes
    <3>1. k - 1 \in 0 .. n /\ k \in 0 .. n
      BY <1>1
    <3>2. QED
      BY <3>1, ElementOfSeq
  <2>2. ASSUME NEW k \in 1 .. n
        PROVE  Len(f[k]) = Len(f[k-1]) + Len(texts[k])
    <3>1. f[k] = f[k-1] \o texts[k] /\ texts[k] \in Bytes /\ f[k-1] \in Bytes
      BY <1>2, <2>1
    <3>2. QED
      BY <3>1, ConcatBytes
  <2>3. QED
    BY <2>1, <2>2
<1> DEFINE Down == {m \in Nat : m <= n => Holds(t, p, f[n - m])}
<1>6. \A k \in 0 .. n : Holds(t, p, f[k])
  <2>1. 0 \in Down
    BY <1>1, <1>3
  <2>2. ASSUME NEW m \in Nat, m \in Down
        PROVE  m + 1 \in Down
    <3>1. SUFFICES ASSUME m + 1 <= n
                   PROVE  Holds(t, p, f[n - (m + 1)])
      OBVIOUS
    <3> DEFINE k == n - m
    <3>2. k \in 1 .. n /\ Holds(t, p, f[k]) /\ n - (m + 1) = k - 1
      BY <1>1, <2>2, <3>1
    <3>3. Holds(t, p, f[k-1] \o texts[k])
      BY <1>2, <3>2
    <3> HIDE DEF p, k
    <3>4. Holds(t, p, f[k-1])
      BY <1>5, <3>2, <3>3, HoldsConcat
    <3>5. QED
      BY <3>2, <3>4
  <2> HIDE DEF Down
  <2>3. Nat \subseteq Down
    BY <2>1, <2>2, NatInductionOnSet
  <2>4. ASSUME NEW k \in 0 .. n
        PROVE  Holds(t, p, f[k])
    <3>1. n - k \in Nat /\ n - k <= n /\ n - (n - k) = k
      BY <1>1
    <3>2. QED
      BY <2>3, <3>1 DEF Down
  <2>5. QED
    BY <2>4
<1>7. ASSUME NEW k \in 1 .. n
      PROVE  /\ p + Len(f[k-1]) \in Nat
             /\ read[p + Len(f[k-1])] = <<items[k], p + Len(f[k])>>
  <2>1. Holds(t, p, f[k-1] \o texts[k])
    <3>1. k \in 0 .. n
      BY <1>1
    <3>2. f[k] = f[k-1] \o texts[k]
      BY <1>2, Zenon
    <3>3. Holds(t, p, f[k])
      BY <1>6, <3>1
    <3>4. QED
      BY <3>2, <3>3, Zenon
  <2>2. Holds(t, p + Len(f[k-1]), texts[k])
    <3> HIDE DEF p
    <3>1. QED
      BY <1>5, <2>1, HoldsConcat
  <2>3. p + Len(f[k-1]) \in Nat
    BY <2>2 DEF Holds
  <2>4. read[p + Len(f[k-1])] = <<items[k], p + Len(f[k-1]) + Len(texts[k])>>
    BY <2>2, <2>3
  <2>5. Len(f[k-1]) \in Nat /\ Len(texts[k]) \in Nat
    BY <1>5, BytesLen
  <2>6. p + Len(f[k-1]) + Len(texts[k]) = p + Len(f[k])
    <3>1. Len(f[k]) = Len(f[k-1]) + Len(texts[k])
      BY <1>5, Zenon
    <3> p \in Nat
      BY <1>3
    <3>2. \A x, y, z : y \in Nat /\ z \in Nat /\ x = y + z => p + y + z = p + x
      OBVIOUS
    <3>3. QED
      BY <2>5, <3>1, <3>2, ZenonT(60)
  <2>7. QED
    BY <2>3, <2>4, <2>6
<1> DEFINE w == [k \in 0 .. n |-> <<SubSeq(items, 1, k), p + Len(f[k])>>]
           Body(g, k) == IF k = 0 THEN <<<<>>, p>>
                         ELSE <<Append(g[k-1][1], read[g[k-1][2]][1]), read[g[k-1][2]][2]>>
           loop == ReadLoop(<<n, p>>, read)
<1>8. ASSUME NEW k \in 0 .. n
      PROVE  w[k] = Body(w, k)
  <2>1. CASE k = 0
    <3>1. SubSeq(items, 1, 0) = <<>> /\ Len(f[0]) = 0
      BY <1>2, FirstItems, EmptySeq
    <3>2. p + 0 = p
      BY <1>3
    <3>3. QED
      BY <1>1, <2>1, <3>1, <3>2
  <2>2. CASE k # 0
    <3>1. k \in 1 .. n /\ k - 1 \in 0 .. n
      BY <2>2
    <3>2. w[k-1] = <<SubSeq(items, 1, k - 1), p + Len(f[k-1])>>
      BY <3>1
    <3>3. read[p + Len(f[k-1])] = <<items[k], p + Len(f[k])>>
      BY <1>7, <3>1
    <3>4. SubSeq(items, 1, k) = Append(SubSeq(items, 1, k - 1), items[k])
      BY <3>1, FirstItems
    <3>5. w[k] = <<SubSeq(items, 1, k), p + Len(f[k])>>
      OBVIOUS
    <3> HIDE DEF w, p
    <3>6. w[k-1][1] = SubSeq(items, 1, k - 1) /\ w[k-1][2] = p + Len(f[k-1])
      BY <3>2
    <3>7. /\ read[w[k-1][2]][1] = items[k]
          /\ read[w[k-1][2]][2] = p + Len(f[k])
      BY <3>3, <3>6
    <3>8. <<Append(w[k-1][1], read[w[k-1][2]][1]), read[w[k-1][2]][2]>> = w[k]
      BY <3>4, <3>5, <3>6, <3>7
    <3>9. QED
      BY <2>2, <3>8
  <2>3. QED
    BY <2>1, <2>2
<1>9. w = [k \in 0 .. n |-> Body(w, k)]
  <2> HIDE DEF Body
  <2>1. QED
    BY <1>8
<1>10. loop = [k \in 0 .. n |-> Body(loop, k)]
  <2> DEFINE c == <<n, p>>
             BodyOf(g, k) == IF k = 0 THEN <<<<>>, c[2]>>
                             ELSE <<Append(g[k-1][1], read[g[k-1][2]][1]),
                                    read[g[k-1][2]][2]>>
  <2>1. w = [k \in 0 .. c[1] |-> BodyOf(w, k)]
    <3> HIDE DEF w
    <3>1. QED
      BY <1>9, ZenonT(60)
  <2> HIDE DEF w
  <2>2. ReadLoop(c, read) = [k \in 0 .. c[1] |-> BodyOf(ReadLoop(c, read), k)]
    <3> HIDE DEF c
    <3>1. QED
      BY <2>1 DEF ReadLoop
  <2>3. QED
    BY <2>2
<1>11. ReadCounted(t, i, read) = loop[n]
  <2>1. ReadCounted(t, i, read)
          = ReadLoop(ReadLittle(t, i, 4), read)[ReadLittle(t, i, 4)[1]]
    BY DEF ReadCounted, ReadLoop
  <2> DEFINE c == ReadLittle(t, i, 4)
  <2>2. c = <<n, p>> /\ c[1] = n
    BY <1>4
  <2>3. ReadCounted(t, i, read) = ReadLoop(c, read)[c[1]]
    BY <2>1
  <2> HIDE DEF c, n, p
  <2>4. ReadLoop(c, read)[c[1]] = ReadLoop(<<n, p>>, read)[n]
    BY <2>2, Zenon
  <2>5. QED
    BY <2>3, <2>4, Zenon
<1> HIDE DEF loop
<1> DEFINE Up == {k \in Nat : k <= n => loop[k] = w[k]}
<1>12. n \in Up
  <2>1. 0 \in Up
    <3>1. 0 \in 0 .. n /\ loop[0] = Body(loop, 0) /\ w[0] = Body(w, 0)
      <4>1. 0 \in 0 .. n
        BY <1>1
      <4> HIDE DEF w, Body
      <4>2. QED
        BY <1>8, <1>10, <4>1
    <3>2. QED
      BY <3>1
  <2>2. ASSUME NEW k \in Nat, k \in Up
        PROVE  k + 1 \in Up
    <3>1. SUFFICES ASSUME k + 1 <= n
                   PROVE  loop[k + 1] = w[k + 1]
      OBVIOUS
    <3>2. k + 1 \in 0 .. n /\ k + 1 # 0 /\ (k + 1) - 1 = k /\ loop[k] = w[k]
      <4> HIDE DEF w, n
      <4>1. n \in Nat
        BY <1>1
      <4>2. k <= n /\ loop[k] = w[k]
        BY <2>2, <3>1, <4>1
      <4> HIDE DEF Up
      <4>3. k + 1 \in 0 .. n /\ k + 1 # 0 /\ (k + 1) - 1 = k
        BY <3>1, <4>1
      <4>4. QED
        BY <4>2, <4>3
    <3>3. loop[k + 1] = Body(loop, k + 1) /\ w[k + 1] = Body(w, k + 1)
      <4> HIDE DEF w, Body
      <4>1. QED
        BY <1>8, <1>10, <3>2
    <3>4. Body(loop, k + 1) = Body(w, k + 1)
      <4> HIDE DEF w, p
      <4>1. QED
        BY <3>2
    <3>5. QED
      BY <3>3, <3>4
  <2> HIDE DEF Up
  <2>3. QED
    BY <1>1, <2>1, <2>2, NatInductionOnSet
<1>13. loop[n] = <<items, p + Len(f[n])>>
  <2>1. n \in 0 .. n /\ SubSeq(items, 1, n) = items
    BY <1>1, FirstItems
  <2>2. QED
    BY <1>12, <2>1
<1>14. p + Len(f[n]) = i + Len(Counted(texts))
  <2>1. Len(Counted(texts)) = 4 + Len(f[n]) /\ f[n] \in Bytes
    BY <1>2, CountedLen
  <2>2. QED
    BY <1>3, <2>1, BytesLen
<1>15. QED
  BY <1>11, <1>13, <1>14

(* The bytes of the items of a vector are as many strings of bytes. *)
LEMMA TextsOfItems ==
    ASSUME NEW S, NEW items \in Seq(S), NEW texts \in [DOMAIN items -> Bytes]
    PROVE  texts \in Seq(Bytes) /\ Len(texts) = Len(items) /\ DOMAIN items = 1 .. Len(items)
PROOF
<1>1. Len(items) \in Nat /\ DOMAIN items = 1 .. Len(items)
  BY LenProperties
<1>2. QED
  BY <1>1

-----------------------------------------------------------------------------
(* Transactions and blocks. *)

InputTexts(tx) == [i \in DOMAIN tx.inputs |-> InputBytes(tx.inputs[i])]
OutputTexts(tx) == [i \in DOMAIN tx.outputs |-> OutputBytes(tx.outputs[i])]

(* The inputs and outputs of a transaction, and their bytes. *)
LEMMA TxTexts ==
    ASSUME NEW tx \in TxData
    PROVE  /\ tx.inputs \in Seq(InputData) /\ Len(tx.inputs) \in UInt(4)
           /\ InputTexts(tx) \in Seq(Bytes) /\ Len(InputTexts(tx)) = Len(tx.inputs)
           /\ \A j \in 1 .. Len(tx.inputs) : /\ tx.inputs[j] \in InputData
                                             /\ InputTexts(tx)[j] = InputBytes(tx.inputs[j])
           /\ tx.outputs \in Seq(OutputData) /\ Len(tx.outputs) \in UInt(4)
           /\ OutputTexts(tx) \in Seq(Bytes) /\ Len(OutputTexts(tx)) = Len(tx.outputs)
           /\ \A j \in 1 .. Len(tx.outputs) : /\ tx.outputs[j] \in OutputData
                                              /\ OutputTexts(tx)[j]
                                                   = OutputBytes(tx.outputs[j])
PROOF
<1>1. /\ tx.inputs \in Seq(InputData) /\ Len(tx.inputs) \in UInt(4)
      /\ tx.outputs \in Seq(OutputData) /\ Len(tx.outputs) \in UInt(4)
  BY DEF TxData, Sized
<1>2. /\ DOMAIN tx.inputs = 1 .. Len(tx.inputs)
      /\ \A j \in 1 .. Len(tx.inputs) : tx.inputs[j] \in InputData
      /\ DOMAIN tx.outputs = 1 .. Len(tx.outputs)
      /\ \A j \in 1 .. Len(tx.outputs) : tx.outputs[j] \in OutputData
  BY <1>1, LenProperties, ElementOfSeq
<1>3. InputTexts(tx) \in [DOMAIN tx.inputs -> Bytes]
  BY <1>2, InputLen DEF InputTexts
<1>4. OutputTexts(tx) \in [DOMAIN tx.outputs -> Bytes]
  BY <1>2, OutputLen DEF OutputTexts
<1>5. InputTexts(tx) \in Seq(Bytes) /\ Len(InputTexts(tx)) = Len(tx.inputs)
  BY <1>1, <1>3, TextsOfItems
<1>6. OutputTexts(tx) \in Seq(Bytes) /\ Len(OutputTexts(tx)) = Len(tx.outputs)
  BY <1>1, <1>4, TextsOfItems
<1>7. /\ \A j \in 1 .. Len(tx.inputs) : InputTexts(tx)[j] = InputBytes(tx.inputs[j])
      /\ \A j \in 1 .. Len(tx.outputs) : OutputTexts(tx)[j] = OutputBytes(tx.outputs[j])
  BY <1>2 DEF InputTexts, OutputTexts
<1>8. QED
  BY <1>1, <1>2, <1>5, <1>6, <1>7

(* How long the bytes of a transaction are. *)
LEMMA TxLen ==
    ASSUME NEW tx \in TxData
    PROVE  /\ TxBytes(tx) \in Bytes
           /\ Len(TxBytes(tx)) = 8 + Len(Counted(InputTexts(tx))) + Len(Counted(OutputTexts(tx)))
PROOF
<1> DEFINE v == Little(tx.version, 4)
           is == Counted(InputTexts(tx))
           os == Counted(OutputTexts(tx))
           l == Little(tx.lockTime, 4)
<1>1. v \in Bytes /\ Len(v) = 4 /\ l \in Bytes /\ Len(l) = 4
  BY LittleBytes DEF TxData, UInt
<1>2. is \in Bytes /\ os \in Bytes /\ Len(is) \in Nat /\ Len(os) \in Nat
  BY TxTexts, CountedLen, BytesLen
<1>3. TxBytes(tx) = v \o is \o os \o l
  BY DEF TxBytes, InputTexts, OutputTexts
<1> HIDE DEF v, is, os, l
<1>4. v \o is \in Bytes /\ Len(v \o is) = 4 + Len(is)
  BY <1>1, <1>2, ConcatBytes
<1>5. v \o is \o os \in Bytes /\ Len(v \o is \o os) = 4 + Len(is) + Len(os)
  BY <1>2, <1>4, ConcatBytes
<1>6. v \o is \o os \o l \in Bytes /\ Len(v \o is \o os \o l) = 4 + Len(is) + Len(os) + 4
  BY <1>1, <1>5, ConcatBytes
<1>7. QED
  BY <1>2, <1>3, <1>6 DEF is, os

(* A transaction is read where it is written.                               *)
LEMMA TxIsRead ==
    ASSUME NEW tx \in TxData, NEW t \in Bytes, NEW i, Holds(t, i, TxBytes(tx))
    PROVE  ReadTx(t, i) = <<tx, i + Len(TxBytes(tx))>>
PROOF
<1> DEFINE v == Little(tx.version, 4)
           is == Counted(InputTexts(tx))
           os == Counted(OutputTexts(tx))
           l == Little(tx.lockTime, 4)
           j == i + 4
           k == j + Len(is)
           m == k + Len(os)
           inputs == [p \in DOMAIN t |-> ReadInput(t, p)]
           outputs == [p \in DOMAIN t |-> ReadOutput(t, p)]
<1>1. v \in Bytes /\ Len(v) = 4 /\ l \in Bytes /\ Len(l) = 4
  BY LittleBytes DEF TxData, UInt
<1>2. is \in Bytes /\ os \in Bytes /\ Len(is) \in Nat /\ Len(os) \in Nat
  BY TxTexts, CountedLen, BytesLen
<1>3. i \in Nat \ {0} /\ Holds(t, i, v \o is \o os \o l)
  BY DEF TxBytes, InputTexts, OutputTexts, Holds
<1>4. Len(TxBytes(tx)) = 8 + Len(is) + Len(os)
  BY TxLen
<1>5. Holds(t, i, v) /\ Holds(t, j, is) /\ Holds(t, k, os) /\ Holds(t, m, l)
  <2> HIDE DEF v, is, os, l
  <2>1. v \o is \in Bytes /\ Len(v \o is) = 4 + Len(is)
    BY <1>1, <1>2, ConcatBytes
  <2>2. v \o is \o os \in Bytes /\ Len(v \o is \o os) = 4 + Len(is) + Len(os)
    BY <1>2, <2>1, ConcatBytes
  <2>3. Holds(t, i, v \o is \o os) /\ Holds(t, i + (4 + Len(is) + Len(os)), l)
    BY <1>1, <1>3, <2>2, HoldsConcat
  <2>4. Holds(t, i, v \o is) /\ Holds(t, i + (4 + Len(is)), os)
    BY <1>2, <2>1, <2>3, HoldsConcat
  <2>5. Holds(t, i, v) /\ Holds(t, i + 4, is)
    BY <1>1, <1>2, <2>4, HoldsConcat
  <2>6. k = i + (4 + Len(is)) /\ m = i + (4 + Len(is) + Len(os))
    BY <1>2, <1>3
  <2>7. QED
    BY <2>3, <2>4, <2>5, <2>6
<1>6. ReadLittle(t, i, 4) = <<tx.version, j>>
  BY <1>5, NumberIsRead DEF TxData
<1>7. ReadCounted(t, j, inputs) = <<tx.inputs, k>>
  <2>1. ASSUME NEW n \in 1 .. Len(tx.inputs), NEW p \in Nat, Holds(t, p, InputTexts(tx)[n])
        PROVE  inputs[p] = <<tx.inputs[n], p + Len(InputTexts(tx)[n])>>
    <3> DEFINE in == tx.inputs[n]
    <3>1. in \in InputData /\ InputTexts(tx)[n] = InputBytes(in)
      BY TxTexts
    <3> HIDE DEF in
    <3>2. InputBytes(in) \in Bytes /\ Len(InputBytes(in)) \in Nat \ {0}
      BY <3>1, InputLen, ScriptBytes, WireAssumption DEF InputData
    <3>3. 0 \in 0 .. Len(InputBytes(in)) - 1 /\ p + 0 = p
      BY <3>2
    <3>4. p \in DOMAIN t
      <4>1. Holds(t, p, InputBytes(in))
        BY <2>1, <3>1
      <4>2. \A a \in 0 .. Len(InputBytes(in)) - 1 : p + a \in DOMAIN t
        BY <3>2, <4>1, HeldPart
      <4>3. QED
        BY <3>3, <4>2
    <3>5. ReadInput(t, p) = <<in, p + Len(InputBytes(in))>>
      BY <2>1, <3>1, InputIsRead
    <3>6. QED
      BY <3>1, <3>4, <3>5 DEF in
  <2> DEFINE texts == InputTexts(tx)
             items == tx.inputs
  <2>2. /\ items \in Seq(InputData) /\ Len(items) \in UInt(4)
        /\ texts \in Seq(Bytes) /\ Len(texts) = Len(items)
    BY TxTexts
  <2>3. /\ Holds(t, j, Counted(texts)) /\ k = j + Len(Counted(texts))
        /\ \A n \in 1 .. Len(items), p \in Nat :
              Holds(t, p, texts[n]) => inputs[p] = <<items[n], p + Len(texts[n])>>
    BY <1>5, <2>1
  <2> HIDE DEF texts, items, inputs, j, k
  <2>4. ReadCounted(t, j, inputs) = <<items, j + Len(Counted(texts))>>
    BY <2>2, <2>3, CountedIsRead
  <2>5. QED
    BY <2>3, <2>4 DEF items
<1>8. ReadCounted(t, k, outputs) = <<tx.outputs, m>>
  <2>1. ASSUME NEW n \in 1 .. Len(tx.outputs), NEW p \in Nat,
               Holds(t, p, OutputTexts(tx)[n])
        PROVE  outputs[p] = <<tx.outputs[n], p + Len(OutputTexts(tx)[n])>>
    <3> DEFINE out == tx.outputs[n]
    <3>1. out \in OutputData /\ OutputTexts(tx)[n] = OutputBytes(out)
      BY TxTexts
    <3> HIDE DEF out
    <3>2. OutputBytes(out) \in Bytes /\ Len(OutputBytes(out)) \in Nat \ {0}
      BY <3>1, OutputLen, ScriptBytes DEF OutputData
    <3>3. 0 \in 0 .. Len(OutputBytes(out)) - 1 /\ p + 0 = p
      BY <3>2
    <3>4. p \in DOMAIN t
      <4>1. Holds(t, p, OutputBytes(out))
        BY <2>1, <3>1
      <4>2. \A a \in 0 .. Len(OutputBytes(out)) - 1 : p + a \in DOMAIN t
        BY <3>2, <4>1, HeldPart
      <4>3. QED
        BY <3>3, <4>2
    <3>5. ReadOutput(t, p) = <<out, p + Len(OutputBytes(out))>>
      BY <2>1, <3>1, OutputIsRead
    <3>6. QED
      BY <3>1, <3>4, <3>5 DEF out
  <2> DEFINE texts == OutputTexts(tx)
             items == tx.outputs
  <2>2. /\ items \in Seq(OutputData) /\ Len(items) \in UInt(4)
        /\ texts \in Seq(Bytes) /\ Len(texts) = Len(items)
    BY TxTexts
  <2>3. /\ Holds(t, k, Counted(texts)) /\ m = k + Len(Counted(texts))
        /\ \A n \in 1 .. Len(items), p \in Nat :
              Holds(t, p, texts[n]) => outputs[p] = <<items[n], p + Len(texts[n])>>
    BY <1>5, <2>1
  <2> HIDE DEF texts, items, outputs, k, m
  <2>4. ReadCounted(t, k, outputs) = <<items, k + Len(Counted(texts))>>
    BY <2>2, <2>3, CountedIsRead
  <2>5. QED
    BY <2>3, <2>4 DEF items
<1>9. ReadLittle(t, m, 4) = <<tx.lockTime, m + 4>>
  BY <1>5, NumberIsRead DEF TxData
<1>10. m + 4 = i + Len(TxBytes(tx))
  BY <1>2, <1>3, <1>4
<1>11. tx = [version |-> tx.version, inputs |-> tx.inputs, outputs |-> tx.outputs,
             lockTime |-> tx.lockTime]
  BY DEF TxData
<1> HIDE DEF j, k, m
<1>12. ReadTx(t, i) = <<[version |-> tx.version, inputs |-> tx.inputs,
                         outputs |-> tx.outputs,
                         lockTime |-> tx.lockTime], m + 4>>
  BY <1>6, <1>7, <1>8, <1>9 DEF ReadTx
<1>13. QED
  BY <1>10, <1>11, <1>12

BlockTexts(b) == [i \in DOMAIN b.transactions |-> TxBytes(b.transactions[i])]

(* The transactions of a block, and their bytes. *)
LEMMA BlockTextsTyped ==
    ASSUME NEW b \in BlockData
    PROVE  /\ b.transactions \in Seq(TxData) /\ Len(b.transactions) \in UInt(4)
           /\ BlockTexts(b) \in Seq(Bytes) /\ Len(BlockTexts(b)) = Len(b.transactions)
           /\ \A j \in 1 .. Len(b.transactions) :
                 /\ b.transactions[j] \in TxData
                 /\ BlockTexts(b)[j] = TxBytes(b.transactions[j])
PROOF
<1>1. b.transactions \in Seq(TxData) /\ Len(b.transactions) \in UInt(4)
  BY DEF BlockData, Sized
<1>2. /\ DOMAIN b.transactions = 1 .. Len(b.transactions)
      /\ \A j \in 1 .. Len(b.transactions) : b.transactions[j] \in TxData
  BY <1>1, LenProperties, ElementOfSeq
<1>3. BlockTexts(b) \in [DOMAIN b.transactions -> Bytes]
  BY <1>2, TxLen DEF BlockTexts
<1>4. BlockTexts(b) \in Seq(Bytes) /\ Len(BlockTexts(b)) = Len(b.transactions)
  BY <1>1, <1>3, TextsOfItems
<1>5. QED
  BY <1>1, <1>2, <1>4 DEF BlockTexts

(* A block is read where it is written, from the first place of a text on.  *)
LEMMA BlockIsRead ==
    ASSUME NEW b \in BlockData
    PROVE  /\ BlockBytes(b) \in Bytes
           /\ ReadBlock(BlockBytes(b)) = <<b, Len(BlockBytes(b)) + 1>>
PROOF
<1> DEFINE t == BlockBytes(b)
           v == Little(b.version, 4)
           h == b.prevBlockHash
           r == b.merkleRoot
           s == Little(b.timestamp, 4)
           g == Little(b.targetBits, 4)
           n == Little(b.nonce, 4)
           txs == Counted(BlockTexts(b))
           H == HashSize
           transactions == [p \in DOMAIN t |-> ReadTx(t, p)]
<1>1. /\ v \in Bytes /\ Len(v) = 4 /\ s \in Bytes /\ Len(s) = 4
      /\ g \in Bytes /\ Len(g) = 4 /\ n \in Bytes /\ Len(n) = 4
  BY LittleBytes DEF BlockData, UInt
<1>2. /\ h \in Bytes /\ Len(h) = H /\ r \in Bytes /\ Len(r) = H
      /\ H \in Nat
  BY HashLen, WireAssumption DEF BlockData
<1>3. txs \in Bytes /\ Len(txs) \in Nat
  BY BlockTextsTyped, CountedLen, BytesLen
<1>4. t = v \o h \o r \o s \o g \o n \o txs
  BY DEF BlockBytes, BlockTexts
<1> HIDE DEF v, h, r, s, g, n, txs
<1>5. v \o h \in Bytes /\ Len(v \o h) = 4 + H
  <2>1. v \in Bytes /\ Len(v) = 4 /\ h \in Bytes /\ Len(h) = H
    BY <1>1, <1>2
  <2>2. QED
    BY <2>1, ConcatBytes
<1>6. v \o h \o r \in Bytes /\ Len(v \o h \o r) = 4 + H + H
  BY <1>2, <1>5, ConcatBytes
<1>7. v \o h \o r \o s \in Bytes /\ Len(v \o h \o r \o s) = 8 + H + H
  BY <1>1, <1>2, <1>6, ConcatBytes
<1>8. v \o h \o r \o s \o g \in Bytes /\ Len(v \o h \o r \o s \o g) = 12 + H + H
  BY <1>1, <1>2, <1>7, ConcatBytes
<1>9. v \o h \o r \o s \o g \o n \in Bytes /\ Len(v \o h \o r \o s \o g \o n) = 16 + H + H
  <2> DEFINE c == v \o h \o r \o s \o g
  <2>1. c \in Bytes /\ Len(c) = 12 + H + H /\ n \in Bytes /\ Len(n) = 4
    BY <1>1, <1>8
  <2> HIDE DEF c
  <2>2. c \o n \in Bytes /\ Len(c \o n) = 12 + H + H + 4
    BY <2>1, ConcatBytes
  <2>3. QED
    BY <1>2, <2>2 DEF c
<1>10. t \in Bytes /\ Len(t) = 16 + H + H + Len(txs)
  BY <1>3, <1>4, <1>9, ConcatBytes
<1>11. Holds(t, 1, v \o h \o r \o s \o g \o n \o txs)
  BY <1>4, <1>10, HoldsItself
<1> HIDE DEF t
<1>12. Holds(t, 1, v \o h \o r \o s \o g \o n) /\ Holds(t, 1 + (16 + H + H), txs)
  BY <1>3, <1>9, <1>10, <1>11, HoldsConcat
<1>13. Holds(t, 1, v \o h \o r \o s \o g) /\ Holds(t, 1 + (12 + H + H), n)
  BY <1>1, <1>8, <1>10, <1>12, HoldsConcat
<1>14. Holds(t, 1, v \o h \o r \o s) /\ Holds(t, 1 + (8 + H + H), g)
  BY <1>1, <1>7, <1>10, <1>13, HoldsConcat
<1>15. Holds(t, 1, v \o h \o r) /\ Holds(t, 1 + (4 + H + H), s)
  BY <1>1, <1>6, <1>10, <1>14, HoldsConcat
<1>16. Holds(t, 1, v \o h) /\ Holds(t, 1 + (4 + H), r)
  BY <1>2, <1>5, <1>10, <1>15, HoldsConcat
<1>17. Holds(t, 1, v) /\ Holds(t, 1 + 4, h)
  BY <1>1, <1>2, <1>10, <1>16, HoldsConcat
<1>18. /\ 1 + 4 = 5 /\ 1 + (4 + H) = 5 + H /\ 1 + (4 + H + H) = 5 + H + H
       /\ 1 + (8 + H + H) = 5 + H + H + 4 /\ 1 + (12 + H + H) = 5 + H + H + 4 + 4
       /\ 1 + (16 + H + H) = 5 + H + H + 4 + 4 + 4
  BY <1>2
<1> DEFINE i2 == 5 + H
           i3 == i2 + H
           i4 == i3 + 4
           i5 == i4 + 4
           i6 == i5 + 4
           end == i6 + Len(txs)
<1>19. ReadLittle(t, 1, 4) = <<b.version, 5>>
  <2>1. Holds(t, 1, Little(b.version, 4))
    BY <1>17 DEF v
  <2>2. b.version \in UInt(4)
    BY DEF BlockData
  <2>3. QED
    BY <1>10, <2>1, <2>2, NumberIsRead
<1>20. Read(t, 5, HashSize) = <<b.prevBlockHash, i2>>
  <2>1. Holds(t, 5, b.prevBlockHash)
    BY <1>17, <1>18 DEF h
  <2>2. QED
    BY <1>10, <2>1, HashIsRead DEF BlockData
<1>21. Read(t, i2, HashSize) = <<b.merkleRoot, i3>>
  <2>1. Holds(t, i2, b.merkleRoot)
    BY <1>16, <1>18 DEF r
  <2> HIDE DEF i2
  <2>2. QED
    BY <1>10, <2>1, HashIsRead DEF BlockData
<1>22. ReadLittle(t, i3, 4) = <<b.timestamp, i4>>
  <2>1. Holds(t, i3, Little(b.timestamp, 4))
    BY <1>15, <1>18 DEF s
  <2>2. b.timestamp \in UInt(4)
    BY DEF BlockData
  <2> HIDE DEF i3
  <2>3. QED
    BY <1>10, <2>1, <2>2, NumberIsRead
<1>23. ReadLittle(t, i4, 4) = <<b.targetBits, i5>>
  <2>1. Holds(t, i4, Little(b.targetBits, 4))
    BY <1>14, <1>18 DEF g
  <2>2. b.targetBits \in UInt(4)
    BY DEF BlockData
  <2> HIDE DEF i4
  <2>3. QED
    BY <1>10, <2>1, <2>2, NumberIsRead
<1>24. ReadLittle(t, i5, 4) = <<b.nonce, i6>>
  <2>1. Holds(t, i5, Little(b.nonce, 4))
    BY <1>13, <1>18 DEF n
  <2>2. b.nonce \in UInt(4)
    BY DEF BlockData
  <2> HIDE DEF i5
  <2>3. QED
    BY <1>10, <2>1, <2>2, NumberIsRead
<1>25. ReadCounted(t, i6, transactions) = <<b.transactions, end>>
  <2>1. ASSUME NEW k \in 1 .. Len(b.transactions), NEW p \in Nat,
               Holds(t, p, BlockTexts(b)[k])
        PROVE  transactions[p] = <<b.transactions[k], p + Len(BlockTexts(b)[k])>>
    <3> DEFINE tx == b.transactions[k]
    <3>1. tx \in TxData /\ BlockTexts(b)[k] = TxBytes(tx)
      BY BlockTextsTyped
    <3> HIDE DEF tx
    <3>2. TxBytes(tx) \in Bytes /\ Len(TxBytes(tx)) \in Nat \ {0}
      <4>1. Counted(InputTexts(tx)) \in Bytes /\ Counted(OutputTexts(tx)) \in Bytes
        BY <3>1, TxTexts, CountedLen
      <4>2. Len(Counted(InputTexts(tx))) \in Nat /\ Len(Counted(OutputTexts(tx))) \in Nat
        BY <4>1, BytesLen
      <4>3. QED
        BY <3>1, <4>2, TxLen
    <3>3. 0 \in 0 .. Len(TxBytes(tx)) - 1 /\ p + 0 = p
      BY <3>2
    <3>4. p \in DOMAIN t
      <4> DEFINE u == TxBytes(tx)
      <4>1. t \in Bytes /\ Holds(t, p, u) /\ u \in Bytes /\ 0 \in 0 .. Len(u) - 1
        BY <1>10, <2>1, <3>1, <3>2, <3>3
      <4> HIDE DEF u
      <4>2. p + 0 \in DOMAIN t
        BY <4>1, HeldPart
      <4>3. QED
        BY <3>3, <4>2
    <3>5. ReadTx(t, p) = <<tx, p + Len(TxBytes(tx))>>
      BY <1>10, <2>1, <3>1, TxIsRead
    <3>6. QED
      BY <3>1, <3>4, <3>5 DEF tx
  <2> DEFINE texts == BlockTexts(b)
             items == b.transactions
  <2>2. /\ items \in Seq(TxData) /\ Len(items) \in UInt(4)
        /\ texts \in Seq(Bytes) /\ Len(texts) = Len(items)
    BY BlockTextsTyped
  <2>3. /\ Holds(t, i6, Counted(texts)) /\ end = i6 + Len(Counted(texts))
        /\ \A k \in 1 .. Len(items), p \in Nat :
              Holds(t, p, texts[k]) => transactions[p] = <<items[k], p + Len(texts[k])>>
    BY <1>12, <1>18, <2>1 DEF txs
  <2> HIDE DEF texts, items, transactions, i6, end
  <2>4. ReadCounted(t, i6, transactions) = <<items, i6 + Len(Counted(texts))>>
    BY <1>10, <2>2, <2>3, CountedIsRead
  <2>5. QED
    BY <2>3, <2>4 DEF items
<1>26. end = Len(t) + 1
  BY <1>2, <1>3, <1>10
<1>27. b = [version |-> b.version, prevBlockHash |-> b.prevBlockHash,
            merkleRoot |-> b.merkleRoot,
            timestamp |-> b.timestamp, targetBits |-> b.targetBits, nonce |-> b.nonce,
            transactions |-> b.transactions]
  BY DEF BlockData
<1> HIDE DEF i2, i3, i4, i5, i6, end
<1>28. ReadBlock(t) =
         <<[version |-> b.version, prevBlockHash |-> b.prevBlockHash,
            merkleRoot |-> b.merkleRoot,
            timestamp |-> b.timestamp, targetBits |-> b.targetBits, nonce |-> b.nonce,
            transactions |-> b.transactions], end>>
  <2> DEFINE version == ReadLittle(t, 1, 4)
             parent == Read(t, version[2], HashSize)
             root == Read(t, parent[2], HashSize)
             timestamp == ReadLittle(t, root[2], 4)
             bits == ReadLittle(t, timestamp[2], 4)
             nonce == ReadLittle(t, bits[2], 4)
             all == ReadCounted(t, nonce[2], transactions)
  <2>1. ReadBlock(t) =
          <<[version |-> version[1], prevBlockHash |-> parent[1], merkleRoot |-> root[1],
             timestamp |-> timestamp[1], targetBits |-> bits[1], nonce |-> nonce[1],
             transactions |-> all[1]], all[2]>>
    BY DEF ReadBlock
  <2> HIDE DEF transactions
  <2>2. version = <<b.version, 5>>
    BY <1>19
  <2> HIDE DEF version
  <2>3. parent = <<b.prevBlockHash, i2>>
    BY <1>20, <2>2
  <2> HIDE DEF parent
  <2>4. root = <<b.merkleRoot, i3>>
    BY <1>21, <2>3
  <2> HIDE DEF root
  <2>5. timestamp = <<b.timestamp, i4>>
    BY <1>22, <2>4
  <2> HIDE DEF timestamp
  <2>6. bits = <<b.targetBits, i5>>
    BY <1>23, <2>5
  <2> HIDE DEF bits
  <2>7. nonce = <<b.nonce, i6>>
    BY <1>24, <2>6
  <2> HIDE DEF nonce
  <2>8. all = <<b.transactions, end>>
    BY <1>25, <2>7
  <2> HIDE DEF all
  <2>9. QED
    BY <2>1, <2>2, <2>3, <2>4, <2>5, <2>6, <2>7, <2>8
<1>29. QED
  BY <1>10, <1>26, <1>27, <1>28 DEF t

-----------------------------------------------------------------------------
(* Hexadecimal digits. *)

Letter16(n) == IF n < 10 THEN 48 + n ELSE 87 + n
Value16(c) == IF c < 58 THEN c - 48 ELSE c - 87

(* A hex digit that "%02x" writes has the value it is written for. *)
LEMMA DigitIsRead ==
    ASSUME NEW n \in 0 .. 15
    PROVE  Letter16(n) \in Byte /\ Letter16(n) >= 48 /\ Value16(Letter16(n)) = n
BY DEF Letter16, Value16, Byte

(* Bytes are read back from their hexadecimal digits.                       *)
LEMMA HexIsRead ==
    ASSUME NEW s \in Bytes
    PROVE  HexText(s) \in Bytes /\ Unhex(HexText(s)) = s
PROOF
<1> DEFINE n == Len(s)
           t == HexText(s)
<1>1. n \in Nat /\ DOMAIN s = 1 .. n /\ \A i \in 1 .. n : s[i] \in Byte /\ s[i] \in Nat
  BY BytesLen
<1>2. t = [k \in 1 .. 2 * n |->
             Letter16(IF k % 2 = 1 THEN s[(k + 1) \div 2] \div 16
                      ELSE s[(k + 1) \div 2] % 16)]
  BY DEF HexText, Letter16
<1>3. ASSUME NEW x \in Byte
      PROVE  x \div 16 \in 0 .. 15 /\ x % 16 \in 0 .. 15 /\ 16 * (x \div 16) + (x % 16) = x
  BY Z3 DEF Byte
<1>4. ASSUME NEW k \in 1 .. 2 * n
      PROVE  (k + 1) \div 2 \in 1 .. n
  BY <1>1, Z3
<1>5. ASSUME NEW k \in 1 .. 2 * n
      PROVE  t[k] \in Byte
  <2>1. s[(k + 1) \div 2] \in Byte
    BY <1>1, <1>4
  <2>2. QED
    BY <1>2, <1>3, <2>1, DigitIsRead
<1>6. t \in [1 .. 2 * n -> Byte] /\ 2 * n \in Nat
  <2>1. DOMAIN t = 1 .. 2 * n /\ t = [k \in 1 .. 2 * n |-> t[k]]
    BY <1>2
  <2>2. QED
    BY <1>1, <1>5, <2>1
<1>7. t \in Bytes /\ Len(t) = 2 * n
  <2> HIDE DEF t, n
  <2>1. QED
    BY <1>6 DEF Bytes
<1>8. ASSUME NEW i \in 1 .. n
      PROVE  16 * Value16(t[2*i - 1]) + Value16(t[2*i]) = s[i]
  <2>1. /\ 2*i - 1 \in 1 .. 2 * n /\ (2*i - 1) % 2 = 1 /\ (2*i - 1 + 1) \div 2 = i
        /\ 2*i \in 1 .. 2 * n /\ (2*i) % 2 = 0 /\ (2*i + 1) \div 2 = i
    BY <1>1, Z3
  <2>2. t[2*i - 1] = Letter16(s[i] \div 16) /\ t[2*i] = Letter16(s[i] % 16)
    BY <1>2, <2>1
  <2>3. s[i] \in Byte
    BY <1>1
  <2>4. QED
    BY <1>3, <2>2, <2>3, DigitIsRead
<1>9. Unhex(t) = [i \in 1 .. Len(t) \div 2 |-> 16 * Value16(t[2*i - 1]) + Value16(t[2*i])]
  BY DEF Unhex, Value16
<1>10. Len(t) \div 2 = n
  <2>1. \A m \in Nat : (2 * m) \div 2 = m
    BY Z3
  <2> HIDE DEF n, t
  <2>2. QED
    BY <1>1, <1>7, <2>1
<1>11. s = [i \in 1 .. n |-> s[i]]
  <2>1. s \in [1 .. n -> Byte]
    BY LenProperties DEF Bytes
  <2> HIDE DEF n
  <2>2. QED
    BY <2>1
<1> HIDE DEF t, n
<1>12. Unhex(t) = s
  BY <1>8, <1>9, <1>10, <1>11
<1>13. QED
  BY <1>7, <1>12 DEF t

-----------------------------------------------------------------------------

(* Whatever block a miner has built, submitblock reads it back from its hex  *)
(* digits, to the last of them.                                             *)
THEOREM BlocksArrive ==
    ASSUME NEW b \in BlockData
    PROVE  LET raw == Unhex(HexText(BlockBytes(b))) IN ReadBlock(raw) = <<b, Len(raw) + 1>>
BY BlockIsRead, HexIsRead

(* Two transactions that differ have different bytes: what the other modules *)
(* take for granted when they let a transaction be its own identifier.      *)
THEOREM TransactionsDiffer ==
    ASSUME NEW tx \in TxData, NEW other \in TxData, TxBytes(tx) = TxBytes(other)
    PROVE  tx = other
PROOF
<1> DEFINE t == TxBytes(tx)
<1>1. t \in Bytes
  BY TxLen
<1>2. Holds(t, 1, TxBytes(tx)) /\ Holds(t, 1, TxBytes(other))
  BY <1>1, HoldsItself
<1> HIDE DEF t
<1>3. ReadTx(t, 1)[1] = tx /\ ReadTx(t, 1)[1] = other
  BY <1>1, <1>2, TxIsRead
<1>4. QED
  BY <1>3

-----------------------------------------------------------------------------
(* Bytes, digits and names of JSON texts.                                   *)

(* A set of naturals that is not empty has a smallest element.               *)
LEMMA MinIs ==
    ASSUME NEW S, S \subseteq Nat, S # {}
    PROVE  Min(S) \in S /\ \A j \in S : Min(S) <= j
PROOF
<1>1. \E k \in S : \A j \in S : k <= j
  BY LeastElement
<1>2. QED
  BY <1>1 DEF Min

(* Past stops at the first byte that is not in S, or at the end.             *)
LEMMA PastStops ==
    ASSUME NEW t \in Bytes, NEW i \in 1 .. Len(t) + 1, NEW S
    PROVE  /\ Past(t, i, S) \in i .. Len(t) + 1
           /\ \A j \in i .. Past(t, i, S) - 1 : j \in 1 .. Len(t) /\ t[j] \in S
           /\ Past(t, i, S) <= Len(t) => t[Past(t, i, S)] \notin S
PROOF
<1> DEFINE K == {k \in i .. Len(t) + 1 : k > Len(t) \/ t[k] \notin S}
<1>1. Len(t) \in Nat
  BY BytesLen
<1>2. K \subseteq Nat /\ Len(t) + 1 \in K
  BY <1>1
<1>3. Past(t, i, S) = Min(K)
  BY DEF Past
<1>4. Min(K) \in K /\ \A j \in K : Min(K) <= j
  <2> HIDE DEF K
  <2>1. QED
    BY <1>2, MinIs
<1>5. ASSUME NEW j \in i .. Min(K) - 1
      PROVE  j \in 1 .. Len(t) /\ t[j] \in S
  <2>1. Min(K) \in i .. Len(t) + 1
    BY <1>4
  <2>2. j \in i .. Len(t) + 1 /\ j <= Len(t) /\ j \in 1 .. Len(t) /\ ~(Min(K) <= j)
    <3> HIDE DEF K
    <3>1. QED
      BY <1>1, <2>1
  <2>3. j \notin K
    <3> HIDE DEF K
    <3>1. QED
      BY <1>4, <2>2
  <2>4. QED
    BY <2>2, <2>3
<1>6. Min(K) \in i .. Len(t) + 1 /\ (Min(K) <= Len(t) => t[Min(K)] \notin S)
  BY <1>1, <1>4
<1>7. QED
  BY <1>3, <1>5, <1>6

(* A run of bytes of S ends at the first byte that is not of S. *)
LEMMA PastIs ==
    ASSUME NEW t \in Bytes, NEW i \in 1 .. Len(t) + 1, NEW S,
           NEW j \in i .. Len(t) + 1, \A k \in i .. j - 1 : t[k] \in S,
           j > Len(t) \/ t[j] \notin S
    PROVE  Past(t, i, S) = j
PROOF
<1> DEFINE p == Past(t, i, S)
<1>1. /\ p \in i .. Len(t) + 1
      /\ \A k \in i .. p - 1 : k \in 1 .. Len(t) /\ t[k] \in S
      /\ p <= Len(t) => t[p] \notin S
  BY PastStops
<1>2. Len(t) \in Nat
  BY BytesLen
<1> HIDE DEF p
<1>3. ~(p < j)
  BY <1>1, <1>2
<1>4. ~(j < p)
  BY <1>1, <1>2
<1>5. QED
  BY <1>1, <1>2, <1>3, <1>4 DEF p

(* A run that has not begun is empty. *)
LEMMA PastHere ==
    ASSUME NEW t \in Bytes, NEW i \in 1 .. Len(t) + 1, NEW S, i > Len(t) \/ t[i] \notin S
    PROVE  Past(t, i, S) = i
PROOF
<1>1. Len(t) \in Nat /\ i \in i .. Len(t) + 1 /\ \A k \in i .. i - 1 : t[k] \in S
  BY BytesLen
<1>2. QED
  BY <1>1, PastIs

(* Past a byte of S, it goes on as from the place after it.                 *)
LEMMA PastNext ==
    ASSUME NEW t \in Bytes, NEW i \in 1 .. Len(t), NEW S, t[i] \in S
    PROVE  Past(t, i, S) = Past(t, i + 1, S) /\ i + 1 \in 1 .. Len(t) + 1
PROOF
<1> DEFINE p == Past(t, i + 1, S)
<1>1. Len(t) \in Nat /\ i + 1 \in 1 .. Len(t) + 1 /\ i \in 1 .. Len(t) + 1
  BY BytesLen
<1>2. /\ p \in i + 1 .. Len(t) + 1
      /\ \A k \in i + 1 .. p - 1 : k \in 1 .. Len(t) /\ t[k] \in S
      /\ p <= Len(t) => t[p] \notin S
  BY <1>1, PastStops
<1> HIDE DEF p
<1>3. p \in i .. Len(t) + 1 /\ (p > Len(t) \/ t[p] \notin S)
        /\ \A k \in i .. p - 1 : t[k] \in S
  BY <1>1, <1>2
<1>4. Past(t, i, S) = p
  BY <1>1, <1>3, PastIs
<1>5. QED
  BY <1>1, <1>4 DEF p

-----------------------------------------------------------------------------
(* The order of names. *)

Sign(u, i) == IF i \in DOMAIN u THEN u[i] ELSE -1

(* The order of std::string is that of the first byte in which two strings  *)
(* differ.                                                                  *)
LEMMA BeforeBySign ==
    ASSUME NEW s \in Bytes, NEW t \in Bytes
    PROVE  /\ Before(s, t) <=> \E i \in Nat \ {0} :
                 Sign(s, i) < Sign(t, i) /\ \A j \in 1 .. i-1 : Sign(s, j) = Sign(t, j)
           /\ \A i : Sign(s, i) \in Int /\ Sign(s, i) >= -1
PROOF
<1>1. /\ DOMAIN s = 1 .. Len(s) /\ DOMAIN t = 1 .. Len(t) /\ Len(s) \in Nat
      /\ Len(t) \in Nat
      /\ \A k \in 1 .. Len(s) : s[k] \in Nat
      /\ \A k \in 1 .. Len(t) : t[k] \in Nat
  BY BytesLen
<1>2. \A i : Sign(s, i) \in Int /\ Sign(s, i) >= -1
  BY <1>1 DEF Sign
<1>3. Before(s, t) <=> \E i \in DOMAIN t : Sign(s, i) < t[i]
                                          /\ \A j \in 1 .. i-1 : Sign(s, j) = t[j]
  BY DEF Before, Sign
<1>4. ASSUME NEW i \in DOMAIN t
      PROVE  i \in Nat \ {0} /\ t[i] = Sign(t, i) /\ \A j \in 1 .. i-1 : t[j] = Sign(t, j)
  BY <1>1 DEF Sign
<1>5. ASSUME NEW i \in Nat \ {0}, Sign(s, i) < Sign(t, i)
      PROVE  i \in DOMAIN t
  BY <1>2, <1>5 DEF Sign
<1>6. QED
  BY <1>2, <1>3, <1>4, <1>5

(* It is a strict total order.                                              *)
LEMMA BeforeIsStrict ==
    ASSUME NEW s \in Bytes, NEW t \in Bytes, NEW u \in Bytes
    PROVE  /\ ~Before(s, s)
           /\ Before(s, t) /\ Before(t, u) => Before(s, u)
PROOF
<1>1. ~Before(s, s)
  BY BeforeBySign
<1>2. ASSUME Before(s, t), Before(t, u)
      PROVE  Before(s, u)
  <2>1. PICK i \in Nat \ {0} :
           Sign(s, i) < Sign(t, i) /\ \A j \in 1 .. i-1 : Sign(s, j) = Sign(t, j)
    BY <1>2, BeforeBySign
  <2>2. PICK k \in Nat \ {0} :
           Sign(t, k) < Sign(u, k) /\ \A j \in 1 .. k-1 : Sign(t, j) = Sign(u, j)
    BY <1>2, BeforeBySign
  <2>3. \A j : Sign(s, j) \in Int /\ Sign(t, j) \in Int /\ Sign(u, j) \in Int
    BY BeforeBySign
  <2>4. \E m \in Nat \ {0} : Sign(s, m) < Sign(u, m)
          /\ \A j \in 1 .. m-1 : Sign(s, j) = Sign(u, j)
    <3>1. CASE i < k
      BY <2>1, <2>2, <2>3, <3>1
    <3>2. CASE ~(i < k)
      <4>1. CASE i = k
        BY <2>1, <2>2, <2>3, <4>1
      <4>2. CASE k < i
        BY <2>1, <2>2, <2>3, <4>2
      <4>3. QED
        BY <3>2, <4>1, <4>2
    <3>3. QED
      BY <3>1, <3>2
  <2>5. QED
    BY <2>4, BeforeBySign
<1>3. QED
  BY <1>1, <1>2

(* Of two strings that differ, one comes before the other. *)
LEMMA BeforeIsTotal ==
    ASSUME NEW s \in Bytes, NEW t \in Bytes, s # t
    PROVE  Before(s, t) \/ Before(t, s)
PROOF
<1> DEFINE K == {k \in Nat \ {0} : Sign(s, k) # Sign(t, k)}
<1>1. /\ DOMAIN s = 1 .. Len(s) /\ DOMAIN t = 1 .. Len(t) /\ Len(s) \in Nat
      /\ Len(t) \in Nat
      /\ \A k \in 1 .. Len(s) : s[k] \in Nat
      /\ \A k \in 1 .. Len(t) : t[k] \in Nat
  BY BytesLen
<1>2. K # {}
  <2>1. SUFFICES ASSUME \A k \in Nat \ {0} : Sign(s, k) = Sign(t, k)
                 PROVE  s = t
    OBVIOUS
  <2>2. \A k \in Nat \ {0} : k \in 1 .. Len(s) <=> k \in 1 .. Len(t)
    BY <1>1, <2>1 DEF Sign
  <2>3. Len(s) = Len(t)
    <3>1. ~(Len(s) < Len(t))
      <4>1. Len(s) < Len(t) => Len(t) \in Nat \ {0} /\ Len(t) \in 1 .. Len(t)
                                 /\ Len(t) \notin 1 .. Len(s)
        BY <1>1
      <4>2. QED
        BY <2>2, <4>1
    <3>2. ~(Len(t) < Len(s))
      <4>1. Len(t) < Len(s) => Len(s) \in Nat \ {0} /\ Len(s) \in 1 .. Len(s)
                                 /\ Len(s) \notin 1 .. Len(t)
        BY <1>1
      <4>2. QED
        BY <2>2, <4>1
    <3>3. \A m, n \in Nat : ~(m < n) /\ ~(n < m) => m = n
      OBVIOUS
    <3>4. QED
      BY <1>1, <3>1, <3>2, <3>3, Zenon
  <2>4. \A k \in 1 .. Len(s) : s[k] = t[k]
    BY <1>1, <2>1, <2>3 DEF Sign
  <2>5. QED
    BY <2>3, <2>4, SeqEqual DEF Bytes
<1>3. PICK m \in K : \A j \in K : m <= j
  <2>1. K \subseteq Nat
    OBVIOUS
  <2> HIDE DEF K
  <2>2. QED
    BY <1>2, <2>1, LeastElement
<1>4. \A j \in 1 .. m-1 : Sign(s, j) = Sign(t, j)
  BY <1>3
<1>5. Sign(s, m) \in Int /\ Sign(t, m) \in Int
  BY BeforeBySign
<1>6. Sign(s, m) < Sign(t, m) \/ Sign(t, m) < Sign(s, m)
  BY <1>5
<1>7. QED
  BY <1>4, <1>6, BeforeBySign

(* Where t has s, a run that does not go past s is the same in both.        *)
LEMMA PastShifts ==
    ASSUME NEW t \in Bytes, NEW s \in Bytes, NEW i, Holds(t, i, s), NEW S,
           NEW a \in 1 .. Len(s) + 1, Past(t, i + a - 1, S) <= i + Len(s)
    PROVE  Past(s, a, S) = Past(t, i + a - 1, S) - i + 1
PROOF
<1> DEFINE p == Past(t, i + a - 1, S)
           j == p - i + 1
<1>1. /\ Len(t) \in Nat /\ Len(s) \in Nat /\ i \in Nat \ {0} /\ i - 1 + Len(s) <= Len(t)
      /\ \A k \in 1 .. Len(s) : t[i + k - 1] = s[k]
  BY BytesLen DEF Holds
<1>2. i + a - 1 \in 1 .. Len(t) + 1
  BY <1>1
<1>3. /\ p \in i + a - 1 .. Len(t) + 1
      /\ \A k \in i + a - 1 .. p - 1 : k \in 1 .. Len(t) /\ t[k] \in S
      /\ p <= Len(t) => t[p] \notin S
      /\ p <= i + Len(s)
  <2> HIDE DEF p
  <2>1. QED
    BY <1>2, PastStops DEF p
<1> HIDE DEF p
<1>4. j \in a .. Len(s) + 1 /\ p = i + j - 1
  BY <1>1, <1>3
<1>5. \A k \in a .. j - 1 : s[k] \in S
  <2>1. SUFFICES ASSUME NEW k \in a .. j - 1
                 PROVE  s[k] \in S
    OBVIOUS
  <2>2. k \in 1 .. Len(s) /\ i + k - 1 \in i + a - 1 .. p - 1
    BY <1>1, <1>3, <1>4
  <2>3. QED
    BY <1>1, <1>3, <2>2
<1>6. j > Len(s) \/ s[j] \notin S
  <2>1. SUFFICES ASSUME ~(j > Len(s))
                 PROVE  s[j] \notin S
    OBVIOUS
  <2>2. j \in 1 .. Len(s) /\ p <= Len(t) /\ i + j - 1 = p
    BY <1>1, <1>3, <1>4, <2>1
  <2>3. QED
    BY <1>1, <1>3, <2>2
<1> HIDE DEF j
<1>7. Past(s, a, S) = j
  BY <1>1, <1>4, <1>5, <1>6, PastIs
<1>8. QED
  BY <1>7 DEF j, p

(* It does not go past s if what follows s ends it.                         *)
LEMMA PastStays ==
    ASSUME NEW t \in Bytes, NEW s \in Bytes, NEW i, Holds(t, i, s), NEW S,
           NEW a \in 1 .. Len(s) + 1, i + Len(s) > Len(t) \/ t[i + Len(s)] \notin S
    PROVE  Past(t, i + a - 1, S) <= i + Len(s)
PROOF
<1> DEFINE p == Past(t, i + a - 1, S)
<1>1. Len(t) \in Nat /\ Len(s) \in Nat /\ i \in Nat \ {0} /\ i - 1 + Len(s) <= Len(t)
  BY BytesLen DEF Holds
<1>2. i + a - 1 \in 1 .. Len(t) + 1
  BY <1>1
<1>3. /\ p \in i + a - 1 .. Len(t) + 1
      /\ \A k \in i + a - 1 .. p - 1 : k \in 1 .. Len(t) /\ t[k] \in S
  <2> HIDE DEF p
  <2>1. QED
    BY <1>2, PastStops DEF p
<1> HIDE DEF p
<1>4. p > i + Len(s) => i + Len(s) \in i + a - 1 .. p - 1 /\ ~(i + Len(s) > Len(t))
  BY <1>1, <1>3
<1>5. p <= i + Len(s)
  BY <1>1, <1>3, <1>4
<1>6. QED
  BY <1>5 DEF p

-----------------------------------------------------------------------------
(* The number read, whether it is an integer or not.                        *)
NumberAt(t, i) == IF NumberEnd(t, i) = Point(t, i) THEN Whole(t, i) ELSE Float(t, i)

(* parse_number: an integer if nothing follows its digits, else a double    *)
(* that needs one digit.                                                    *)
LEMMA NumberParts ==
    ASSUME NEW t, NEW i
    PROVE  ParseNumber(t, i) =
             IF NumberAt(t, i) = Throws THEN Throws
               ELSE Got(NumberAt(t, i), NumberEnd(t, i))
BY DEF ParseNumber, NumberAt

(* peek gives the byte at a place, and 0 past the end. *)
LEMMA AtIs ==
    ASSUME NEW t \in Bytes, NEW i \in Nat \ {0}
    PROVE  /\ At(t, i) \in Byte /\ At(t, i) \in Nat
           /\ i <= Len(t) => At(t, i) = t[i]
           /\ At(t, i) # 0 => i \in 1 .. Len(t)
           /\ i > Len(t) => At(t, i) = 0
BY BytesLen DEF At, Byte

(* They follow each other.                                                  *)
LEMMA NumberPlaces ==
    ASSUME NEW t \in Bytes, NEW i \in 1 .. Len(t), At(t, i) \in Digit \cup {Minus}
    PROVE  /\ First(t, i) \in i .. Len(t) + 1
           /\ Point(t, i) \in First(t, i) .. Len(t) + 1 /\ Point(t, i) > i
           /\ Mantissa(t, i) \in Point(t, i) .. Len(t) + 1
           /\ At(t, Point(t, i)) = Dot => Mantissa(t, i) > Point(t, i)
           /\ NumberEnd(t, i) \in Mantissa(t, i) .. Len(t) + 1
           /\ At(t, Mantissa(t, i)) \in {69, 101} => NumberEnd(t, i) > Mantissa(t, i)
PROOF
<1> DEFINE f == First(t, i)
           p == Point(t, i)
           m == Mantissa(t, i)
<1>1. Len(t) \in Nat
  BY BytesLen
<1>2. f \in i .. i + 1 /\ f \in 1 .. Len(t) + 1
  BY <1>1 DEF First
<1>3. p \in f .. Len(t) + 1 /\ p > i
  <2>1. p \in f .. Len(t) + 1
    <3> HIDE DEF f
    <3>1. QED
      BY <1>2, PastStops DEF Point, f
  <2>2. CASE At(t, i) = Minus
    <3>1. f = i + 1
      BY <2>2 DEF First
    <3> HIDE DEF f, p
    <3>2. QED
      BY <1>1, <2>1, <3>1
  <2>3. CASE At(t, i) # Minus
    <3>1. f = i /\ t[i] \in Digit
      BY <1>1, <2>3, AtIs DEF First
    <3>2. p = Past(t, i, Digit)
      BY <3>1 DEF Point
    <3>3. Past(t, i, Digit) = Past(t, i + 1, Digit) /\ i + 1 \in 1 .. Len(t) + 1
      BY <3>1, PastNext
    <3>4. Past(t, i + 1, Digit) \in i + 1 .. Len(t) + 1
      BY <3>3, PastStops
    <3> HIDE DEF f, p
    <3>5. QED
      BY <1>1, <2>1, <3>2, <3>3, <3>4
  <2>4. QED
    BY <2>2, <2>3
<1>4. m \in p .. Len(t) + 1 /\ (At(t, p) = Dot => m > p)
  <2> HIDE DEF f, p
  <2>0. m = Fraction(t, p)
    BY DEF Mantissa, p
  <2> HIDE DEF m
  <2>1. CASE At(t, p) = Dot
    <3>1. p + 1 \in 1 .. Len(t) + 1
      <4>1. p \in Nat \ {0}
        BY <1>1, <1>2, <1>3
      <4>2. QED
        BY <1>1, <2>1, <4>1, AtIs DEF Dot
    <3>2. Past(t, p + 1, Digit) \in p + 1 .. Len(t) + 1
      BY <3>1, PastStops
    <3>3. m = Past(t, p + 1, Digit)
      BY <2>0, <2>1 DEF Fraction
    <3>4. QED
      BY <1>1, <1>2, <1>3, <3>2, <3>3
  <2>2. CASE At(t, p) # Dot
    BY <1>1, <1>2, <1>3, <2>0, <2>2 DEF Fraction
  <2>3. QED
    BY <2>1, <2>2
<1>5. /\ NumberEnd(t, i) \in m .. Len(t) + 1
      /\ At(t, m) \in {69, 101} => NumberEnd(t, i) > m
  <2> HIDE DEF f, p, m
  <2>0. m \in Nat \ {0} /\ NumberEnd(t, i) = Exponent(t, m)
    BY <1>1, <1>2, <1>3, <1>4 DEF NumberEnd, m
  <2>1. CASE At(t, m) \in {69, 101}
    <3> DEFINE b == m + (IF At(t, m + 1) \in {43, Minus} THEN 2 ELSE 1)
    <3>1. m + 1 \in 1 .. Len(t) + 1
      <4>1. m \in 1 .. Len(t)
        BY <2>0, <2>1, AtIs
      <4>2. QED
        BY <1>1, <4>1
    <3>2. At(t, m + 1) \in {43, Minus} => m + 1 \in 1 .. Len(t)
      <4>1. m + 1 \in Nat \ {0}
        BY <2>0
      <4>2. QED
        BY <4>1, AtIs DEF Minus
    <3>3. b \in 1 .. Len(t) + 1 /\ b > m
      BY <1>1, <2>0, <3>1, <3>2
    <3>4. Exponent(t, m) = Past(t, b, Digit)
      BY <2>1 DEF Exponent
    <3> HIDE DEF b
    <3>5. Past(t, b, Digit) \in b .. Len(t) + 1
      BY <3>3, PastStops
    <3>6. QED
      BY <1>1, <2>0, <3>3, <3>4, <3>5
  <2>2. CASE ~(At(t, m) \in {69, 101})
    BY <1>1, <1>4, <2>0, <2>2 DEF Exponent
  <2>3. QED
    BY <2>1, <2>2
<1>6. QED
  BY <1>1, <1>2, <1>3, <1>4, <1>5

(* Parts of a text that another has.                                        *)
LEMMA HeldSub ==
    ASSUME NEW t \in Bytes, NEW s \in Bytes, NEW i, Holds(t, i, s),
           NEW a \in 1 .. Len(s) + 1, NEW b \in a - 1 .. Len(s)
    PROVE  /\ SubSeq(t, i + a - 1, i + b - 1) = SubSeq(s, a, b)
           /\ SubSeq(s, a, b) \in Bytes /\ Len(SubSeq(s, a, b)) = b - a + 1
PROOF
<1> DEFINE x == SubSeq(t, i + a - 1, i + b - 1)
           y == SubSeq(s, a, b)
<1>1. /\ Len(t) \in Nat /\ Len(s) \in Nat /\ i \in Nat \ {0} /\ i - 1 + Len(s) <= Len(t)
      /\ \A k \in 1 .. Len(s) : t[i + k - 1] = s[k] /\ s[k] \in Byte
      /\ \A k \in 1 .. Len(t) : t[k] \in Byte
  BY BytesLen DEF Holds
<1>2. y \in Seq(Byte) /\ Len(y) = b - a + 1 /\ \A k \in 1 .. b - a + 1 : y[k] = s[a + k - 1]
  <2>1. a \in Int /\ b \in Int /\ \A k \in a .. b : s[k] \in Byte
    BY <1>1
  <2>2. /\ y \in Seq(Byte) /\ Len(y) = (IF a <= b THEN b - a + 1 ELSE 0)
        /\ \A k \in 1 .. b - a + 1 : y[k] = s[a + k - 1]
    BY <2>1, SubSeqProperties
  <2>3. (IF a <= b THEN b - a + 1 ELSE 0) = b - a + 1
    BY <1>1
  <2>4. QED
    BY <2>2, <2>3
<1>3. x \in Seq(Byte) /\ Len(x) = b - a + 1
        /\ \A k \in 1 .. b - a + 1 : x[k] = t[i + a - 1 + k - 1]
  <2> DEFINE m == i + a - 1
             n == i + b - 1
  <2>1. m \in Int /\ n \in Int /\ \A k \in m .. n : t[k] \in Byte
    BY <1>1
  <2>2. n - m + 1 = b - a + 1 /\ (IF m <= n THEN n - m + 1 ELSE 0) = b - a + 1
    BY <1>1
  <2> HIDE DEF m, n
  <2>3. /\ SubSeq(t, m, n) \in Seq(Byte)
             /\ Len(SubSeq(t, m, n)) = (IF m <= n THEN n - m + 1 ELSE 0)
        /\ \A k \in 1 .. n - m + 1 : SubSeq(t, m, n)[k] = t[m + k - 1]
    BY <2>1, SubSeqProperties
  <2>4. QED
    BY <2>2, <2>3 DEF m, n
<1> HIDE DEF x, y
<1>4. ASSUME NEW k \in 1 .. Len(x)
      PROVE  x[k] = y[k]
  <2>1. k \in 1 .. b - a + 1 /\ a + k - 1 \in 1 .. Len(s)
          /\ i + a - 1 + k - 1 = i + (a + k - 1) - 1
    BY <1>1, <1>3
  <2>2. QED
    BY <1>1, <1>2, <1>3, <2>1
<1>5. x = y
  BY <1>2, <1>3, <1>4, SeqEqual
<1>6. QED
  BY <1>2, <1>5 DEF x, y, Bytes

(* peek at a place of a text that holds s is peek at a place of s. *)
LEMMA AtShifts ==
    ASSUME NEW t \in Bytes, NEW s \in Bytes, NEW i, Holds(t, i, s),
           NEW a \in 1 .. Len(s) + 1
    PROVE  /\ a <= Len(s) => At(t, i + a - 1) = At(s, a)
           /\ a = Len(s) + 1 => At(s, a) = 0
           /\ i + a - 1 \in 1 .. Len(t) + 1
PROOF
<1>1. Len(t) \in Nat /\ Len(s) \in Nat /\ i \in Nat \ {0} /\ i - 1 + Len(s) <= Len(t)
  BY BytesLen DEF Holds
<1>2. a <= Len(s) => At(t, i + a - 1) = At(s, a)
  BY <1>1 DEF At, Holds
<1>3. QED
  BY <1>1, <1>2 DEF At

(* The places where the parts of a number end are those of s.               *)
SamePlaces(t, i, s) ==
    /\ At(t, i) = At(s, 1)
    /\ First(t, i) = First(s, 1) + i - 1
    /\ Point(t, i) = Point(s, 1) + i - 1
    /\ Mantissa(t, i) = Mantissa(s, 1) + i - 1
    /\ NumberEnd(t, i) = NumberEnd(s, 1) + i - 1

(* Then they are the same number.                                           *)
LEMMA NumberSame ==
    ASSUME NEW t \in Bytes, NEW s \in Bytes, NEW i, Holds(t, i, s), Len(s) > 0,
           At(s, 1) \in Digit \cup {Minus}, SamePlaces(t, i, s)
    PROVE  ParseNumber(t, i) =
             IF ParseNumber(s, 1) = Throws THEN Throws
             ELSE <<ParseNumber(s, 1)[1], ParseNumber(s, 1)[2] + i - 1>>
PROOF
<1> DEFINE f == First(s, 1)
           p == Point(s, 1)
           m == Mantissa(s, 1)
           e == NumberEnd(s, 1)
<1>1. /\ Len(t) \in Nat /\ Len(s) \in Nat /\ i \in Nat \ {0} /\ i - 1 + Len(s) <= Len(t)
      /\ \A k \in 1 .. Len(s) : t[i + k - 1] = s[k]
  BY BytesLen DEF Holds
<1>2. /\ f \in 1 .. Len(s) + 1 /\ p \in f .. Len(s) + 1 /\ m \in p .. Len(s) + 1
      /\ e \in m .. Len(s) + 1
  <2>1. 1 \in 1 .. Len(s)
    BY <1>1
  <2>2. QED
    BY <2>1, NumberPlaces
<1>3. /\ First(t, i) = f + i - 1 /\ Point(t, i) = p + i - 1 /\ Mantissa(t, i) = m + i - 1
      /\ NumberEnd(t, i) = e + i - 1 /\ At(t, i) = At(s, 1)
  BY DEF SamePlaces
<1> HIDE DEF f, p, m, e
<1>4. Whole(t, i) = Whole(s, 1)
  <2>1. SubSeq(t, i + f - 1, i + (p - 1) - 1) = SubSeq(s, f, p - 1)
    <3>1. p - 1 \in f - 1 .. Len(s)
      BY <1>1, <1>2
    <3>2. QED
      BY <1>2, <3>1, HeldSub, ZenonT(60)
  <2>2. First(t, i) = i + f - 1 /\ Point(t, i) - 1 = i + (p - 1) - 1
    BY <1>1, <1>2, <1>3
  <2>3. QED
    BY <1>3, <2>1, <2>2 DEF Whole, f, p
<1>5. SubSeq(t, i, NumberEnd(t, i) - 1) = SubSeq(s, 1, e - 1)
  <2>1. e - 1 \in 1 - 1 .. Len(s) /\ 1 \in 1 .. Len(s) + 1
    BY <1>1, <1>2
  <2>2. SubSeq(t, i + 1 - 1, i + (e - 1) - 1) = SubSeq(s, 1, e - 1)
    BY <2>1, HeldSub, ZenonT(60)
  <2>3. i + 1 - 1 = i /\ i + (e - 1) - 1 = NumberEnd(t, i) - 1
    BY <1>1, <1>2, <1>3
  <2>4. QED
    BY <2>2, <2>3
<1>6. (\E k \in First(t, i) .. Mantissa(t, i) - 1 : t[k] \in Digit)
         <=> (\E k \in f .. m - 1 : s[k] \in Digit)
  <2>1. ASSUME NEW k \in First(t, i) .. Mantissa(t, i) - 1, t[k] \in Digit
        PROVE  \E j \in f .. m - 1 : s[j] \in Digit
    <3>1. k - i + 1 \in f .. m - 1 /\ k - i + 1 \in 1 .. Len(s) /\ i + (k - i + 1) - 1 = k
      BY <1>1, <1>2, <1>3
    <3>2. s[k - i + 1] = t[k]
      BY <1>1, <3>1
    <3>3. QED
      BY <2>1, <3>1, <3>2
  <2>2. ASSUME NEW k \in f .. m - 1, s[k] \in Digit
        PROVE  \E j \in First(t, i) .. Mantissa(t, i) - 1 : t[j] \in Digit
    <3>1. i + k - 1 \in First(t, i) .. Mantissa(t, i) - 1 /\ k \in 1 .. Len(s)
      BY <1>1, <1>2, <1>3
    <3>2. QED
      BY <1>1, <2>2, <3>1
  <2>3. QED
    BY <2>1, <2>2
<1>7. NumberEnd(t, i) = Point(t, i) <=> e = p
  BY <1>1, <1>2, <1>3
<1>8. Float(t, i) = Float(s, 1)
  <2> DEFINE x == Stod(SubSeq(s, 1, e - 1))
             B == \E k \in First(t, i) .. Mantissa(t, i) - 1 : t[k] \in Digit
             C == \E k \in f .. m - 1 : s[k] \in Digit
  <2>1. Float(s, 1) = IF x \in Doubles /\ C THEN Double(x) ELSE Throws
    BY DEF Float, f, m, e
  <2>2. Float(t, i) = IF x \in Doubles /\ B THEN Double(x) ELSE Throws
    BY <1>5 DEF Float
  <2>3. B <=> C
    BY <1>6
  <2> HIDE DEF x, B, C
  <2>4. QED
    BY <2>1, <2>2, <2>3
<1>9. NumberAt(t, i) = NumberAt(s, 1)
  BY <1>4, <1>7, <1>8 DEF NumberAt, e, p
<1>10. ParseNumber(s, 1) = IF NumberAt(s, 1) = Throws THEN Throws
         ELSE Got(NumberAt(s, 1), e)
  BY NumberParts DEF e
<1>11. ParseNumber(t, i) =
         IF NumberAt(s, 1) = Throws THEN Throws ELSE Got(NumberAt(s, 1), e + i - 1)
  BY <1>3, <1>9, NumberParts
<1>12. QED
  BY <1>10, <1>11 DEF Got, Throws

(* What may follow a value that dump has written.                           *)
Enders == {Comma, CloseBracket, CloseBrace, 10}
Ends(t, j) == j > Len(t) \/ t[j] \in Enders

(* There, a number has the same parts in the text it is written to.         *)
LEMMA NumberHeld ==
    ASSUME NEW t \in Bytes, NEW s \in Bytes, NEW i, Holds(t, i, s), Len(s) > 0,
           At(s, 1) \in Digit \cup {Minus}, Ends(t, i + Len(s))
    PROVE  SamePlaces(t, i, s)
PROOF
<1> DEFINE f == First(s, 1)
           p == Point(s, 1)
           m == Mantissa(s, 1)
           Same(a, c) == At(t, i + a - 1) = c <=> At(s, a) = c
<1>1. Len(t) \in Nat /\ Len(s) \in Nat /\ i \in Nat \ {0} /\ i - 1 + Len(s) <= Len(t)
  BY BytesLen DEF Holds
<1>2. /\ f \in 1 .. Len(s) + 1 /\ p \in f .. Len(s) + 1 /\ m \in p .. Len(s) + 1
      /\ NumberEnd(s, 1) \in m .. Len(s) + 1
  <2>1. 1 \in 1 .. Len(s)
    BY <1>1
  <2>2. QED
    BY <2>1, NumberPlaces
<1>3. At(t, i + Len(s)) \in Enders \cup {0}
  <2>1. i + Len(s) \in Nat \ {0}
    BY <1>1
  <2>2. QED
    BY <2>1, AtIs DEF Ends
<1>4. ASSUME NEW a \in 1 .. Len(s) + 1, NEW c \in {Dot, 69, 101, 43, Minus}
      PROVE  Same(a, c)
  <2>1. CASE a <= Len(s)
    BY <2>1, AtShifts
  <2>2. CASE a = Len(s) + 1
    <3>1. At(s, a) = 0 /\ i + a - 1 = i + Len(s)
      BY <1>1, <2>2, AtShifts
    <3>2. c \notin Enders \cup {0}
      BY DEF Enders, Dot, Minus, Comma, CloseBracket, CloseBrace
    <3>3. QED
      BY <1>3, <3>1, <3>2
  <2>3. QED
    BY <1>1, <2>1, <2>2
<1>5. ASSUME NEW a \in 1 .. Len(s) + 1
      PROVE  Past(t, i + a - 1, Digit) = Past(s, a, Digit) + i - 1
  <2>1. i + Len(s) > Len(t) \/ t[i + Len(s)] \notin Digit
    <3>1. \A c \in Enders : c \notin Digit
      BY DEF Enders, Digit, Comma, CloseBracket, CloseBrace
    <3>2. QED
      BY <3>1, Zenon DEF Ends
  <2>2. Past(t, i + a - 1, Digit) <= i + Len(s)
    BY <2>1, PastStays
  <2>3. Past(s, a, Digit) = Past(t, i + a - 1, Digit) - i + 1
    BY <2>2, PastShifts
  <2>4. Past(t, i + a - 1, Digit) \in Int
    <3>1. i + a - 1 \in 1 .. Len(t) + 1
      BY <1>1
    <3>2. Past(t, i + a - 1, Digit) \in i + a - 1 .. Len(t) + 1
      BY <3>1, PastStops
    <3>3. QED
      BY <1>1, <3>2
  <2>5. QED
    BY <1>1, <2>3, <2>4
<1> HIDE DEF f, p, m
<1>6. At(t, i) = At(s, 1) /\ First(t, i) = f + i - 1
  <2>1. 1 \in 1 .. Len(s) + 1 /\ 1 <= Len(s) /\ i + 1 - 1 = i
    BY <1>1
  <2>2. At(t, i) = At(s, 1)
    BY <2>1, AtShifts
  <2>3. QED
    BY <1>1, <2>2 DEF First, f
<1>7. Point(t, i) = p + i - 1
  <2>1. Point(t, i) = Past(t, i + f - 1, Digit)
    BY <1>1, <1>2, <1>6 DEF Point
  <2>2. p = Past(s, f, Digit)
    BY DEF Point, p, f
  <2>3. QED
    BY <1>2, <1>5, <2>1, <2>2
<1>8. Mantissa(t, i) = m + i - 1
  <2>1. At(t, Point(t, i)) = Dot <=> At(s, p) = Dot
    <3>1. p \in 1 .. Len(s) + 1 /\ Point(t, i) = i + p - 1
      BY <1>1, <1>2, <1>7
    <3>2. QED
      BY <1>4, <3>1
  <2>2. Mantissa(t, i) = Fraction(t, Point(t, i)) /\ m = Fraction(s, p)
    BY DEF Mantissa, m, p
  <2>3. CASE At(s, p) = Dot
    <3>1. p + 1 \in 1 .. Len(s) + 1
      <4>1. p \in Nat \ {0}
        BY <1>1, <1>2
      <4>2. p \in 1 .. Len(s)
        BY <2>3, <4>1, AtIs DEF Dot
      <4>3. QED
        BY <1>1, <4>2
    <3>2. Mantissa(t, i) = Past(t, Point(t, i) + 1, Digit) /\ m = Past(s, p + 1, Digit)
      BY <2>1, <2>2, <2>3 DEF Fraction
    <3>3. Point(t, i) + 1 = i + (p + 1) - 1
      BY <1>1, <1>2, <1>7
    <3>4. QED
      BY <1>5, <3>1, <3>2, <3>3
  <2>4. CASE At(s, p) # Dot
    BY <1>7, <2>1, <2>2, <2>4 DEF Fraction
  <2>5. QED
    BY <2>3, <2>4
<1>9. NumberEnd(t, i) = NumberEnd(s, 1) + i - 1
  <2>1. m \in 1 .. Len(s) + 1 /\ Mantissa(t, i) = i + m - 1
    BY <1>1, <1>2, <1>8
  <2>2. At(t, Mantissa(t, i)) \in {69, 101} <=> At(s, m) \in {69, 101}
    BY <1>4, <2>1
  <2>3. NumberEnd(t, i) = Exponent(t, Mantissa(t, i)) /\ NumberEnd(s, 1) = Exponent(s, m)
    BY DEF NumberEnd, m
  <2>4. CASE At(s, m) \in {69, 101}
    <3> DEFINE b == m + (IF At(s, m + 1) \in {43, Minus} THEN 2 ELSE 1)
               u == Mantissa(t, i)
               c == u + (IF At(t, u + 1) \in {43, Minus} THEN 2 ELSE 1)
    <3>1. m + 1 \in 1 .. Len(s) + 1
      <4>1. m \in Nat \ {0}
        BY <1>1, <2>1
      <4>2. m \in 1 .. Len(s)
        BY <2>4, <4>1, AtIs
      <4>3. QED
        BY <1>1, <4>2
    <3>2. u + 1 = i + (m + 1) - 1
      BY <1>1, <2>1
    <3>3. At(t, u + 1) \in {43, Minus} <=> At(s, m + 1) \in {43, Minus}
      BY <1>4, <3>1, <3>2
    <3>4. b \in 1 .. Len(s) + 1
      <4>1. m + 1 \in Nat \ {0}
        BY <1>1, <2>1
      <4>2. At(s, m + 1) \in {43, Minus} => m + 1 \in 1 .. Len(s)
        BY <4>1, AtIs DEF Minus
      <4>3. QED
        BY <1>1, <2>1, <3>1, <4>2
    <3>5. c = i + b - 1
      BY <1>1, <2>1, <3>3
    <3>6. NumberEnd(t, i) = Past(t, c, Digit) /\ NumberEnd(s, 1) = Past(s, b, Digit)
      BY <2>2, <2>3, <2>4 DEF Exponent
    <3> HIDE DEF b, c
    <3>7. QED
      BY <1>5, <3>4, <3>5, <3>6
  <2>5. CASE ~(At(s, m) \in {69, 101})
    BY <1>8, <2>2, <2>3, <2>5 DEF Exponent
  <2>6. QED
    BY <2>4, <2>5
<1>10. QED
  BY <1>6, <1>7, <1>8, <1>9 DEF SamePlaces, f, p, m

(* The value of digits, one after the other.                                *)
LEMMA NumberSteps ==
    ASSUME NEW d \in Bytes
    PROVE  \E v \in [0 .. Len(d) -> Int] :
              /\ v[0] = 0
              /\ \A k \in 1 .. Len(d) : v[k] = 10 * v[k-1] + d[k] - 48
              /\ NumberOf(d) = v[Len(d)]
PROOF
<1> DEFINE n == Len(d)
           D == 0 .. n
           Step == [g \in [D -> Int] |->
                      [k \in D |-> IF k = 0 THEN 0 ELSE 10 * g[k-1] + d[k] - 48]]
           rank == [k \in D |-> k]
           value == CHOOSE f : f = [k \in 0 .. n |->
                       IF k = 0 THEN 0 ELSE 10 * f[k-1] + d[k] - 48]
<1>1. n \in Nat /\ \A k \in 1 .. n : d[k] \in Nat
  BY BytesLen
<1>2. \E f \in [D -> Int] : f = Step[f]
  <2>1. ASSUME NEW g \in [D -> Int], NEW k \in D
        PROVE  (IF k = 0 THEN 0 ELSE 10 * g[k-1] + d[k] - 48) \in Int
    <3>1. k # 0 => k - 1 \in D /\ k \in 1 .. n
      BY <1>1
    <3>2. QED
      BY <1>1, <3>1, SMTT(60)
  <2>2. Step \in [[D -> Int] -> [D -> Int]]
    <3>1. ASSUME NEW g \in [D -> Int]
          PROVE  [k \in D |-> IF k = 0 THEN 0 ELSE 10 * g[k-1] + d[k] - 48] \in [D -> Int]
      BY <2>1
    <3>2. QED
      BY <3>1
  <2>3. rank \in [D -> Nat]
    BY <1>1
  <2>4. ASSUME NEW g \in [D -> Int], NEW h \in [D -> Int], NEW x \in D,
               \A y \in D : rank[y] < rank[x] => g[y] = h[y]
        PROVE  Step[g][x] = Step[h][x]
    <3>1. x # 0 => x - 1 \in D /\ rank[x - 1] < rank[x]
      BY <1>1
    <3>2. QED
      BY <2>4, <3>1
  <2> DEFINE S == Int
  <2>5. Ranked(D, S, rank, Step)
    <3> HIDE DEF D, Step, rank
    <3>1. QED
      BY <2>2, <2>3, <2>4 DEF Ranked
  <2> HIDE DEF D, Step, rank, S
  <2>6. \E f \in [D -> S] : f = Step[f]
    BY <2>5, RecursionExists
  <2>7. QED
    BY <2>6 DEF S
<1>3. PICK g \in [D -> Int] : g = Step[g]
  BY <1>2
<1>4. g = [k \in 0 .. n |-> IF k = 0 THEN 0 ELSE 10 * g[k-1] + d[k] - 48]
  BY <1>3
<1>5. value = [k \in 0 .. n |-> IF k = 0 THEN 0 ELSE 10 * value[k-1] + d[k] - 48]
  <2> HIDE DEF n
  <2>1. QED
    BY <1>4
<1>6. NumberOf(d) = value[n]
  BY DEF NumberOf
<1> HIDE DEF value
<1>7. value[0] = 0 /\ \A k \in 1 .. n : value[k] = 10 * value[k-1] + d[k] - 48
  BY <1>1, <1>5
<1> DEFINE G == {k \in Nat : k <= n => value[k] \in Int}
<1>8. 0 \in G /\ \A k \in Nat : k \in G => k + 1 \in G
  <2>1. 0 \in G
    BY <1>7
  <2>2. ASSUME NEW k \in Nat, k \in G, k + 1 <= n
        PROVE  value[k + 1] \in Int
    <3>1. k + 1 \in 1 .. n /\ (k + 1) - 1 = k /\ value[k] \in Int
      BY <1>1, <2>2
    <3>2. value[k + 1] = 10 * value[k] + d[k + 1] - 48
      BY <1>7, <3>1
    <3>3. QED
      BY <1>1, <3>1, <3>2
  <2>3. QED
    BY <2>1, <2>2
<1>9. Nat \subseteq G
  <2> HIDE DEF G
  <2>1. QED
    BY <1>8, NatInductionOnSet
<1>10. value \in [0 .. n -> Int]
  <2>1. \A k \in 0 .. n : value[k] \in Int
    BY <1>1, <1>9
  <2>2. QED
    BY <1>5, <2>1
<1>11. QED
  BY <1>6, <1>7, <1>10

(* One more digit.                                                          *)
LEMMA NumberOfMore ==
    ASSUME NEW d \in Bytes, NEW c \in Byte
    PROVE  /\ NumberOf(d \o <<c>>) = 10 * NumberOf(d) + c - 48
           /\ NumberOf(d) \in Int
           /\ NumberOf(<<>>) = 0
PROOF
<1> DEFINE n == Len(d)
           e == d \o <<c>>
<1>1. n \in Nat /\ \A k \in 1 .. n : d[k] \in Nat
  BY BytesLen
<1>2. <<c>> \in Bytes /\ Len(<<c>>) = 1 /\ <<c>>[1] = c
  BY DEF Bytes
<1>3. e \in Bytes /\ Len(e) = n + 1 /\ (\A k \in 1 .. n : e[k] = d[k]) /\ e[n + 1] = c
  <2>1. /\ e \in Bytes /\ Len(e) = n + 1
        /\ \A k \in 1 .. n + 1 : e[k] = IF k <= n THEN d[k] ELSE <<c>>[k - n]
    BY <1>2, ConcatProperties DEF Bytes
  <2>2. n + 1 \in 1 .. n + 1 /\ ~(n + 1 <= n) /\ (n + 1) - n = 1
          /\ \A k \in 1 .. n : k \in 1 .. n + 1 /\ k <= n
    BY <1>1
  <2> HIDE DEF e
  <2>3. QED
    BY <1>2, <2>1, <2>2
<1>4. PICK v \in [0 .. n -> Int] :
         /\ v[0] = 0
         /\ \A k \in 1 .. n : v[k] = 10 * v[k-1] + d[k] - 48
         /\ NumberOf(d) = v[n]
  BY NumberSteps
<1>5. PICK w \in [0 .. n + 1 -> Int] :
         /\ w[0] = 0
         /\ \A k \in 1 .. n + 1 : w[k] = 10 * w[k-1] + e[k] - 48
         /\ NumberOf(e) = w[n + 1]
  <2> HIDE DEF e
  <2>1. \E w \in [0 .. Len(e) -> Int] :
         /\ w[0] = 0
         /\ \A k \in 1 .. Len(e) : w[k] = 10 * w[k-1] + e[k] - 48
         /\ NumberOf(e) = w[Len(e)]
    BY <1>3, NumberSteps
  <2>2. QED
    BY <1>3, <2>1
<1> DEFINE G == {k \in Nat : k <= n => w[k] = v[k]}
<1> HIDE DEF e
<1>6. n \in G
  <2>1. 0 \in G
    BY <1>4, <1>5
  <2>2. ASSUME NEW k \in Nat, k \in G, k + 1 <= n
        PROVE  w[k + 1] = v[k + 1]
    <3>1. k + 1 \in 1 .. n /\ k + 1 \in 1 .. n + 1 /\ (k + 1) - 1 = k /\ w[k] = v[k]
      BY <1>1, <2>2
    <3>2. e[k + 1] = d[k + 1]
      BY <1>3, <3>1
    <3>3. w[k + 1] = 10 * w[k] + e[k + 1] - 48 /\ v[k + 1] = 10 * v[k] + d[k + 1] - 48
      BY <1>4, <1>5, <3>1
    <3>4. QED
      BY <3>1, <3>2, <3>3
  <2>3. \A k \in Nat : k \in G => k + 1 \in G
    BY <2>2
  <2> HIDE DEF G
  <2>4. QED
    BY <1>1, <2>1, <2>3, NatInductionOnSet
<1>7. NumberOf(e) = 10 * NumberOf(d) + c - 48
  <2>1. n + 1 \in 1 .. n + 1 /\ (n + 1) - 1 = n /\ w[n] = v[n]
    BY <1>1, <1>6
  <2>2. w[n + 1] = 10 * w[n] + c - 48
    BY <1>3, <1>5, <2>1
  <2>3. QED
    BY <1>4, <1>5, <2>1, <2>2
<1>8. NumberOf(<<>>) = 0
  <2>1. <<>> \in Bytes /\ Len(<<>>) = 0
    BY EmptySeq DEF Bytes
  <2>2. \E u \in [0 .. Len(<<>>) -> Int] :
         /\ u[0] = 0
         /\ \A k \in 1 .. Len(<<>>) : u[k] = 10 * u[k-1] + <<>>[k] - 48
         /\ NumberOf(<<>>) = u[Len(<<>>)]
    BY <2>1, NumberSteps
  <2>3. QED
    BY <2>1, <2>2
<1>9. NumberOf(d) \in Int
  BY <1>1, <1>4
<1>10. QED
  BY <1>7, <1>8, <1>9 DEF e

(* Digits make a natural number. *)
LEMMA DigitsAreNat ==
    ASSUME NEW d \in Seq(Digit)
    PROVE  d \in Bytes /\ NumberOf(d) \in Nat
PROOF
<1>1. Digit \subseteq Byte
  BY DEF Digit, Byte
<1>2. d \in Bytes
  BY <1>1, SeqMonotonic DEF Bytes
<1>3. Len(d) \in Nat /\ \A k \in 1 .. Len(d) : d[k] \in Digit
  BY LenProperties, ElementOfSeq
<1>4. PICK v \in [0 .. Len(d) -> Int] :
         /\ v[0] = 0
         /\ \A k \in 1 .. Len(d) : v[k] = 10 * v[k-1] + d[k] - 48
         /\ NumberOf(d) = v[Len(d)]
  BY <1>2, NumberSteps
<1> DEFINE G == {k \in Nat : k <= Len(d) => v[k] >= 0}
<1>5. 0 \in G
  BY <1>4
<1>6. ASSUME NEW k \in Nat, k \in G, k + 1 <= Len(d)
      PROVE  v[k + 1] >= 0
  <2>1. k + 1 \in 1 .. Len(d) /\ k \in 0 .. Len(d) /\ (k + 1) - 1 = k /\ v[k] >= 0
    BY <1>3, <1>6
  <2>2. v[k + 1] = 10 * v[k] + d[k + 1] - 48 /\ d[k + 1] \in Digit /\ v[k] \in Int
    BY <1>3, <1>4, <2>1
  <2>3. QED
    BY <2>1, <2>2 DEF Digit
<1>7. \A k \in Nat : k \in G => k + 1 \in G
  BY <1>6
<1>8. Len(d) \in G
  <2> HIDE DEF G
  <2>1. QED
    BY <1>3, <1>5, <1>7, NatInductionOnSet
<1>9. NumberOf(d) \in Nat
  BY <1>3, <1>4, <1>8
<1>10. QED
  BY <1>2, <1>9

(* The digits of a number have its value.                                   *)
LEMMA DigitsSteps ==
    \A n \in Nat : /\ Digits[n] = IF n < 10 THEN <<48 + n>>
                        ELSE Digits[n \div 10] \o <<48 + (n % 10)>>
PROOF
<1> DEFINE N == Nat
           Body(g, n) == IF n < 10 THEN <<48 + n>> ELSE g[n \div 10] \o <<48 + (n % 10)>>
           Step == [g \in [N -> Bytes] |-> [n \in N |-> Body(g, n)]]
           rank == [n \in N |-> n]
<1>1. ASSUME NEW n \in Nat
      PROVE  /\ n < 10 => 48 + n \in Byte
             /\ ~(n < 10) => n \div 10 \in Nat /\ n \div 10 < n
             /\ 48 + (n % 10) \in Byte
  BY Z3 DEF Byte
<1>2. ASSUME NEW c \in Byte
      PROVE  <<c>> \in Bytes
  BY DEF Bytes
<1>3. ASSUME NEW g \in [N -> Bytes], NEW n \in N
      PROVE  Body(g, n) \in Bytes
  <2>1. CASE n < 10
    BY <1>1, <1>2, <2>1
  <2>2. CASE ~(n < 10)
    <3>1. g[n \div 10] \in Bytes /\ <<48 + (n % 10)>> \in Bytes
      BY <1>1, <1>2, <2>2
    <3>2. g[n \div 10] \o <<48 + (n % 10)>> \in Bytes
      BY <3>1, ConcatBytes
    <3>3. QED
      BY <2>2, <3>2
  <2>3. QED
    BY <2>1, <2>2
<1>4. Step \in [[N -> Bytes] -> [N -> Bytes]]
  <2> HIDE DEF Body
  <2>1. \A g \in [N -> Bytes] : [n \in N |-> Body(g, n)] \in [N -> Bytes]
    BY <1>3
  <2>2. QED
    BY <2>1
<1>5. rank \in [N -> Nat]
  OBVIOUS
<1>6. ASSUME NEW g \in [N -> Bytes], NEW h \in [N -> Bytes], NEW x \in N,
             \A y \in N : rank[y] < rank[x] => g[y] = h[y]
      PROVE  Step[g][x] = Step[h][x]
  <2>1. ~(x < 10) => g[x \div 10] = h[x \div 10]
    <3>1. ~(x < 10) => x \div 10 \in N /\ rank[x \div 10] < rank[x]
      BY <1>1
    <3>2. QED
      BY <1>6, <3>1
  <2>2. Body(g, x) = Body(h, x)
    BY <2>1
  <2> HIDE DEF Body
  <2>3. Step[g][x] = Body(g, x) /\ Step[h][x] = Body(h, x)
    OBVIOUS
  <2>4. QED
    BY <2>2, <2>3
<1>7. \E f \in [N -> Bytes] : f = Step[f]
  <2> HIDE DEF N, Step, rank
  <2>0. Bytes # {}
    BY EmptySeq DEF Bytes
  <2>1. Ranked(N, Bytes, rank, Step)
    BY <2>0, <1>4, <1>5, <1>6 DEF Ranked
  <2>2. QED
    BY <2>1, RecursionExists
<1>8. PICK f \in [N -> Bytes] : f = Step[f]
  BY <1>7
<1>9. f = [n \in Nat |-> IF n < 10 THEN <<48 + n>> ELSE f[n \div 10] \o <<48 + (n % 10)>>]
  <2>1. Step[f] = [n \in N |-> Body(f, n)]
    <3> HIDE DEF Body
    <3>1. QED
      OBVIOUS
  <2>2. QED
    BY <1>8, <2>1, SMTT(60)
<1>10. Digits = [n \in Nat |-> IF n < 10 THEN <<48 + n>>
                 ELSE Digits[n \div 10] \o <<48 + (n % 10)>>]
  BY <1>9 DEF Digits
<1>11. QED
  BY <1>10

(* The digits that are written for a number make that number. *)
LEMMA DigitsAreNumber ==
    ASSUME NEW n \in Nat
    PROVE  /\ Digits[n] \in Seq(Digit) /\ Len(Digits[n]) > 0
           /\ NumberOf(Digits[n]) = n
PROOF
<1> DEFINE Good(m) == /\ Digits[m] \in Seq(Digit) /\ Len(Digits[m]) > 0
                      /\ NumberOf(Digits[m]) = m
           G == {k \in Nat : \A m \in 0 .. k : Good(m)}
<1>1. ASSUME NEW c \in Digit
      PROVE  /\ <<c>> \in Seq(Digit) /\ Len(<<c>>) = 1 /\ <<c>> \in Bytes /\ c \in Byte
             /\ NumberOf(<<c>>) = c - 48
  <2>1. c \in Byte /\ c \in Int
    BY DEF Digit, Byte
  <2>2. <<>> \in Bytes /\ <<>> \o <<c>> = <<c>>
    BY <2>1, ConcatEmptySeq, EmptySeq DEF Bytes
  <2>3. NumberOf(<<>> \o <<c>>) = 10 * NumberOf(<<>>) + c - 48 /\ NumberOf(<<>>) = 0
    BY <2>1, <2>2, NumberOfMore
  <2>4. NumberOf(<<c>>) = c - 48
    BY <2>1, <2>2, <2>3
  <2>5. QED
    BY <2>1, <2>4 DEF Bytes
<1>2. ASSUME NEW k \in Nat, \A j \in 0 .. k - 1 : Good(j)
      PROVE  Good(k)
  <2>1. CASE k < 10
    <3>1. Digits[k] = <<48 + k>>
      BY <2>1, DigitsSteps
    <3>2. 48 + k \in Digit /\ (48 + k) - 48 = k
      BY <2>1 DEF Digit
    <3>3. QED
      BY <1>1, <3>1, <3>2
  <2>2. CASE ~(k < 10)
    <3> DEFINE q == k \div 10
               c == 48 + (k % 10)
    <3>1. q \in 0 .. k - 1 /\ c \in Digit /\ k = 10 * q + c - 48 /\ q \in Nat
      BY <2>2, Z3 DEF Digit
    <3>2. Digits[k] = Digits[q] \o <<c>>
      BY <2>2, DigitsSteps
    <3> HIDE DEF q, c
    <3>3. Good(q)
      BY <1>2, <3>1
    <3>4. /\ Digits[q] \o <<c>> \in Seq(Digit)
          /\ Len(Digits[q] \o <<c>>) = Len(Digits[q]) + 1
      <4>1. <<c>> \in Seq(Digit) /\ Len(<<c>>) = 1
        BY <1>1, <3>1
      <4>2. QED
        BY <3>3, <4>1, ConcatProperties
    <3>5. NumberOf(Digits[q] \o <<c>>) = 10 * q + c - 48
      <4>1. Digits[q] \in Bytes /\ c \in Byte
        BY <1>1, <3>1, <3>3, DigitsAreNat
      <4>2. QED
        BY <3>3, <4>1, NumberOfMore
    <3>6. Len(Digits[q]) \in Nat
      BY <3>3, LenProperties
    <3>7. QED
      BY <3>1, <3>2, <3>4, <3>5, <3>6
  <2>3. QED
    BY <2>1, <2>2
<1> HIDE DEF Good
<1>3. 0 \in G
  <2>1. Good(0)
    BY <1>2
  <2>2. QED
    BY <2>1
<1>4. ASSUME NEW k \in Nat, k \in G
      PROVE  k + 1 \in G
  <2>1. \A j \in 0 .. (k + 1) - 1 : Good(j)
    BY <1>4
  <2>2. Good(k + 1)
    BY <1>2, <2>1
  <2>3. \A j \in 0 .. k + 1 : j \in 0 .. k \/ j = k + 1
    OBVIOUS
  <2>4. QED
    BY <1>4, <2>2, <2>3
<1>5. n \in G
  <2> HIDE DEF G
  <2>1. QED
    BY <1>3, <1>4, NatInductionOnSet
<1>6. Good(n)
  BY <1>5
<1>7. QED
  BY <1>6 DEF Good

(* What is read from t: nothing, or something of V, and a place from i on.  *)
Gives(got, V, i, t) == got = Throws \/ \E v \in V, j \in i .. Len(t) + 1 : got = <<v, j>>

(* What parse_number makes of digits is an int64_t, a uint64_t, or an       *)
(* exception.                                                               *)
LEMMA IntegerTyped ==
    ASSUME NEW d \in Seq(Digit), NEW negative \in BOOLEAN
    PROVE  Integer(negative, d) = Throws \/ Integer(negative, d) \in Flat
PROOF
<1> DEFINE n == NumberOf(d)
<1>1. n \in Nat
  BY DigitsAreNat
<1>2. MaxSigned \in Nat /\ MaxUnsigned = 2 * MaxSigned + 1
  BY JsonAssumption
<1>3. ASSUME NEW m \in -MaxSigned-1 .. MaxSigned
      PROVE  Signed(m) \in Flat
  BY DEF Signed, Flat
<1>4. ASSUME NEW m \in 0 .. MaxUnsigned
      PROVE  Unsigned(m) \in Flat
  BY DEF Unsigned, Flat
<1>5. Integer(negative, d) =
        IF d = <<>> \/ n > (IF negative THEN MaxSigned + 1 ELSE MaxUnsigned) THEN Throws
        ELSE IF negative THEN Signed(-n)
        ELSE IF Len(d) > ShortDigits \/ n > MaxSigned THEN Unsigned(n)
        ELSE Signed(n)
  BY DEF Integer
<1> HIDE DEF n
<1>6. CASE d = <<>> \/ n > (IF negative THEN MaxSigned + 1 ELSE MaxUnsigned)
  BY <1>5, <1>6
<1>7. CASE ~(d = <<>> \/ n > (IF negative THEN MaxSigned + 1 ELSE MaxUnsigned))
  <2>1. CASE negative
    <3>1. -n \in -MaxSigned-1 .. MaxSigned
      BY <1>1, <1>2, <1>7, <2>1
    <3>2. Integer(negative, d) = Signed(-n)
      BY <1>5, <1>7, <2>1
    <3>3. QED
      BY <1>3, <3>1, <3>2
  <2>2. CASE ~negative
    <3>1. n \in 0 .. MaxUnsigned
      BY <1>1, <1>2, <1>7, <2>2
    <3>2. CASE Len(d) > ShortDigits \/ n > MaxSigned
      <4>1. Integer(negative, d) = Unsigned(n)
        BY <1>5, <1>7, <2>2, <3>2
      <4>2. QED
        BY <1>4, <3>1, <4>1
    <3>3. CASE ~(Len(d) > ShortDigits \/ n > MaxSigned)
      <4>1. n \in -MaxSigned-1 .. MaxSigned
        BY <1>1, <1>2, <3>3
      <4>2. Integer(negative, d) = Signed(n)
        BY <1>5, <1>7, <2>2, <3>3
      <4>3. QED
        BY <1>3, <4>1, <4>2
    <3>4. QED
      BY <3>2, <3>3
  <2>3. QED
    BY <2>1, <2>2
<1>8. QED
  BY <1>6, <1>7

(* Something that has been read is no exception. *)
LEMMA ThrowsIsNothing ==
    \A v, i : Got(v, i) # Throws /\ Got(v, i)[1] = v /\ Got(v, i)[2] = i
PROOF
<1>1. SUFFICES ASSUME NEW v, NEW i
               PROVE  <<v, i>> # <<>>
  BY DEF Got, Throws
<1>2. Len(<<v, i>>) = 2 /\ Len(<<>>) = 0
  OBVIOUS
<1>3. QED
  BY <1>2

(* What a number is read as.                                                *)
LEMMA NumberTyped ==
    ASSUME NEW t \in Bytes, NEW i \in 1 .. Len(t), At(t, i) \in Digit \cup {Minus}
    PROVE  Gives(ParseNumber(t, i), Flat, i + 1, t)
PROOF
<1> DEFINE f == First(t, i)
           p == Point(t, i)
           e == NumberEnd(t, i)
<1>1. Len(t) \in Nat /\ \A k \in 1 .. Len(t) : t[k] \in Byte
  BY BytesLen
<1>2. /\ f \in i .. Len(t) + 1 /\ p \in f .. Len(t) + 1 /\ p > i
      /\ Mantissa(t, i) \in p .. Len(t) + 1
      /\ e \in Mantissa(t, i) .. Len(t) + 1
  BY NumberPlaces
<1>3. ParseNumber(t, i) = IF NumberAt(t, i) = Throws THEN Throws ELSE Got(NumberAt(t, i), e)
  BY NumberParts
<1>4. e \in i + 1 .. Len(t) + 1
  <2> HIDE DEF f, p, e
  <2>1. QED
    BY <1>1, <1>2
<1>5. Whole(t, i) = Throws \/ Whole(t, i) \in Flat
  <2> DEFINE d == SubSeq(t, f, p - 1)
             q == p - 1
             negative == At(t, i) = Minus
  <2>1. d \in Seq(Digit)
    <3>1. f \in 1 .. Len(t) + 1
      <4> HIDE DEF f
      <4>1. QED
        BY <1>2
    <3>2. \A k \in f .. Past(t, f, Digit) - 1 : t[k] \in Digit
      <4> HIDE DEF f
      <4>1. QED
        BY <3>1, PastStops
    <3>3. \A k \in f .. q : t[k] \in Digit
      BY <3>2 DEF Point
    <3>4. f \in Int /\ q \in Int
      <4> HIDE DEF f, p
      <4>1. QED
        BY <1>2
    <3> HIDE DEF f, q
    <3>5. SubSeq(t, f, q) \in Seq(Digit)
      BY <3>3, <3>4, SubSeqProperties
    <3>6. QED
      BY <3>5 DEF q
  <2>2. Whole(t, i) = Integer(negative, d) /\ negative \in BOOLEAN
    BY DEF Whole
  <2> HIDE DEF d, negative
  <2>3. QED
    BY <2>1, <2>2, IntegerTyped
<1>6. Float(t, i) = Throws \/ Float(t, i) \in Flat
  BY DEF Float, Double, Flat
<1> HIDE DEF f, p, e
<1>7. QED
  BY <1>3, <1>4, <1>5, <1>6 DEF Gives, Got, NumberAt

(* A numeral is read where it is written.                                   *)
LEMMA NumeralIsRead ==
    ASSUME NEW s \in Numerals, NEW t \in Bytes, NEW i, Holds(t, i, s), Ends(t, i + Len(s))
    PROVE  /\ ParseNumber(t, i) = IF ParseNumber(s, 1) = Throws THEN Throws
                                  ELSE <<ParseNumber(s, 1)[1], i + Len(s)>>
           /\ At(t, i) \in Digit \cup {Minus}
           /\ Len(s) > 0
PROOF
<1>1. s \in Bytes /\ At(s, 1) \in Digit \cup {Minus} /\ NumberEnd(s, 1) = Len(s) + 1
  BY DEF Numerals
<1>2. Len(s) > 0
  <2>1. At(s, 1) # 0 /\ 1 \in Nat \ {0}
    BY <1>1 DEF Digit, Minus
  <2>2. QED
    BY <1>1, <2>1, AtIs
<1>3. ParseNumber(s, 1) # Throws => ParseNumber(s, 1)[2] = Len(s) + 1
  BY <1>1, NumberParts, ThrowsIsNothing
<1>4. SamePlaces(t, i, s)
  BY <1>1, <1>2, NumberHeld
<1>5. ParseNumber(t, i) = IF ParseNumber(s, 1) = Throws THEN Throws
                          ELSE <<ParseNumber(s, 1)[1], ParseNumber(s, 1)[2] + i - 1>>
  BY <1>1, <1>2, <1>4, NumberSame
<1>6. Len(s) + 1 + i - 1 = i + Len(s)
  BY <1>1, BytesLen DEF Holds
<1>7. QED
  BY <1>1, <1>2, <1>3, <1>4, <1>5, <1>6 DEF SamePlaces

-----------------------------------------------------------------------------
(* Integers. *)

(* What an integer is read as.                                              *)
IntegerAsRead(n) ==
    IF n < 0 THEN Signed(n)
    ELSE IF Len(Digits[n]) > ShortDigits \/ n > MaxSigned THEN Unsigned(n) ELSE Signed(n)

(* A number that std::to_string has written is read as IntegerAsRead says.  *)
LEMMA DecimalIsRead ==
    ASSUME NEW n \in -MaxSigned-1 .. MaxUnsigned
    PROVE  /\ Decimal(n) \in Numerals
           /\ ParseNumber(Decimal(n), 1) # Throws
           /\ ParseNumber(Decimal(n), 1)[1] = IntegerAsRead(n)
PROOF
<1> DEFINE s == Decimal(n)
           m == IF n < 0 THEN -n ELSE n
           d == Digits[m]
           a == IF n < 0 THEN 2 ELSE 1
<1>1. MaxSigned \in Nat /\ MaxUnsigned = 2 * MaxSigned + 1
  BY JsonAssumption
<1>2. m \in Nat /\ a \in 1 .. 2 /\ m <= (IF n < 0 THEN MaxSigned + 1 ELSE MaxUnsigned)
        /\ (n < 0 => -m = n)
  BY <1>1
<1>3. s = IF n < 0 THEN <<Minus>> \o d ELSE d
  BY DEF Decimal
<1>4. d \in Seq(Digit) /\ d \in Bytes /\ Len(d) > 0 /\ Len(d) \in Nat /\ NumberOf(d) = m
      /\ \A k \in 1 .. Len(d) : d[k] \in Digit
  <2> HIDE DEF m
  <2>1. d \in Seq(Digit) /\ Len(d) > 0 /\ NumberOf(d) = m
    BY <1>2, DigitsAreNumber
  <2> HIDE DEF d
  <2>2. QED
    BY <2>1, DigitsAreNat, LenProperties, ElementOfSeq
<1> HIDE DEF m, s, d
<1>5. /\ s \in Bytes /\ Len(s) = Len(d) + a - 1 /\ Holds(s, a, d)
      /\ At(s, 1) = Minus <=> n < 0
      /\ At(s, 1) \in Digit \cup {Minus}
  <2>1. CASE n < 0
    <3>1. <<Minus>> \in Bytes /\ Len(<<Minus>>) = 1 /\ <<Minus>>[1] = Minus
      BY DEF Bytes, Byte, Minus
    <3>2. s = <<Minus>> \o d
      BY <1>3, <2>1
    <3> DEFINE o == <<Minus>>
    <3> HIDE DEF o
    <3>3. s \in Bytes /\ Len(s) = 1 + Len(d)
      BY <1>4, <3>1, <3>2, ConcatBytes DEF o
    <3>4. Holds(s, 1, o) /\ Holds(s, 1 + 1, d)
      <4>1. s = o \o d /\ o \in Bytes /\ Len(o) = 1
        BY <3>1, <3>2 DEF o
      <4>2. Holds(s, 1, o \o d)
        BY <3>3, <4>1, HoldsItself
      <4>3. QED
        BY <1>4, <3>3, <4>1, <4>2, HoldsConcat
    <3>5. At(s, 1) = Minus
      <4>1. s[1 + 1 - 1] = Minus
        BY <3>1, <3>4 DEF Holds, o
      <4>2. QED
        BY <1>4, <3>3, <4>1 DEF At
    <3>6. QED
      BY <1>4, <2>1, <3>3, <3>4, <3>5
  <2>2. CASE ~(n < 0)
    <3>1. s = d /\ a = 1
      BY <1>3, <2>2
    <3>2. Holds(d, 1, d)
      BY <1>4, HoldsItself
    <3>3. At(d, 1) \in Digit
      BY <1>4 DEF At
    <3>4. Minus \notin Digit
      BY DEF Minus, Digit
    <3> HIDE DEF a
    <3>5. QED
      BY <1>4, <2>2, <3>1, <3>2, <3>3, <3>4
  <2>3. QED
    BY <2>1, <2>2
<1>6. First(s, 1) = a
  BY <1>5 DEF First
<1>7. Point(s, 1) = Len(s) + 1
  <2>1. \A k \in a .. Len(s) + 1 - 1 : s[k] \in Digit
    <3>1. SUFFICES ASSUME NEW k \in a .. Len(s) + 1 - 1
                   PROVE  s[k] \in Digit
      OBVIOUS
    <3>2. k - a + 1 \in 1 .. Len(d) /\ a + (k - a + 1) - 1 = k
      BY <1>4, <1>5
    <3>3. s[a + (k - a + 1) - 1] = d[k - a + 1]
      BY <1>5, <3>2 DEF Holds
    <3>4. QED
      BY <1>4, <3>2, <3>3
  <2>2. a \in 1 .. Len(s) + 1 /\ Len(s) + 1 \in a .. Len(s) + 1 /\ Len(s) + 1 > Len(s)
    BY <1>4, <1>5
  <2> DEFINE j == Len(s) + 1
  <2>3. s \in Bytes /\ a \in 1 .. Len(s) + 1 /\ j \in a .. Len(s) + 1 /\ j > Len(s)
        /\ \A k \in a .. j - 1 : s[k] \in Digit
    BY <1>5, <2>1, <2>2
  <2> HIDE DEF a, j
  <2>4. Past(s, a, Digit) = j
    BY <2>3, PastIs
  <2>5. QED
    BY <1>6, <2>4 DEF Point, j
<1>8. At(s, Len(s) + 1) = 0
  BY <1>4, <1>5 DEF At
<1>9. Mantissa(s, 1) = Len(s) + 1
  BY <1>7, <1>8 DEF Mantissa, Fraction, Dot
<1>10. NumberEnd(s, 1) = Len(s) + 1
  BY <1>8, <1>9 DEF NumberEnd, Exponent
<1>11. SubSeq(s, First(s, 1), Point(s, 1) - 1) = d
  <2>1. SubSeq(s, a, a + Len(d) - 1) = d
    <3>1. s \in Bytes /\ d \in Bytes /\ Holds(s, a, d)
      BY <1>4, <1>5
    <3> HIDE DEF a
    <3>2. QED
      BY <3>1, HeldPart
  <2>2. a + Len(d) - 1 = Point(s, 1) - 1
    BY <1>4, <1>5, <1>7
  <2>3. QED
    BY <1>6, <2>1, <2>2
<1>12. Whole(s, 1) = IntegerAsRead(n)
  <2>1. Whole(s, 1) = Integer(n < 0, d)
    <3>1. (At(s, 1) = Minus) = (n < 0)
      BY <1>5
    <3>2. QED
      BY <1>11, <3>1, Zenon DEF Whole
  <2>2. d # <<>> /\ ~(NumberOf(d) > (IF n < 0 THEN MaxSigned + 1 ELSE MaxUnsigned))
    BY <1>1, <1>2, <1>4
  <2>3. Integer(n < 0, d) =
          IF n < 0 THEN Signed(-NumberOf(d))
          ELSE IF Len(d) > ShortDigits \/ NumberOf(d) > MaxSigned THEN Unsigned(NumberOf(d))
          ELSE Signed(NumberOf(d))
    BY <2>2 DEF Integer
  <2>4. CASE n < 0
    BY <1>2, <1>4, <2>1, <2>3, <2>4 DEF IntegerAsRead
  <2>5. CASE ~(n < 0)
    <3>1. d = Digits[n] /\ NumberOf(d) = n
      BY <1>4, <2>5 DEF d, m
    <3>2. QED
      BY <2>1, <2>3, <2>5, <3>1 DEF IntegerAsRead
  <2>6. QED
    BY <2>4, <2>5
<1>13. Whole(s, 1) # Throws
  <2>1. \A x, y : <<x, y>> # <<>>
    BY ThrowsIsNothing DEF Got, Throws
  <2>2. QED
    BY <1>12, <2>1 DEF IntegerAsRead, Signed, Unsigned, Throws
<1>14. ParseNumber(s, 1) = Got(IntegerAsRead(n), Len(s) + 1)
  BY <1>7, <1>10, <1>12, <1>13, NumberParts DEF NumberAt
<1>15. QED
  BY <1>5, <1>10, <1>14, ThrowsIsNothing DEF Numerals, s

-----------------------------------------------------------------------------
(* Strings.                                                                 *)

(* The bytes that are escaped by a letter.                                  *)
LEMMA LetterFacts ==
    /\ DOMAIN Letter = {34, 92, 8, 12, 10, 13, 9}
    /\ Letter[34] = 34 /\ Letter[92] = 92 /\ Letter[8] = 98 /\ Letter[12] = 102
    /\ Letter[10] = 110 /\ Letter[13] = 114 /\ Letter[9] = 116
BY DEF Letter

(* The letters of escapes stand for the bytes that they are written for.    *)
LEMMA LettersDiffer ==
    /\ \A c \in DOMAIN Letter : Unescaped(Letter[c]) = c
    /\ \A l \in {47} \cup {Letter[c] : c \in DOMAIN Letter} : Unescaped(l) \in Byte
    /\ \A c \in DOMAIN Letter : c \in Byte /\ Letter[c] \in 34 .. 116
PROOF
<1>1. \A c, d \in DOMAIN Letter : Letter[c] = Letter[d] => c = d
  BY LetterFacts
<1>2. \A c \in DOMAIN Letter : Letter[c] # 47 /\ c # 47 /\ c \in Byte
        /\ Letter[c] \in 34 .. 116
  BY LetterFacts DEF Byte
<1>3. ASSUME NEW c \in DOMAIN Letter
      PROVE  Unescaped(Letter[c]) = c
  BY <1>1, <1>2 DEF Unescaped
<1>4. Unescaped(47) = 47
  BY <1>2 DEF Unescaped
<1>5. 47 \in Byte
  BY DEF Byte
<1>6. QED
  BY <1>2, <1>3, <1>4, <1>5

(* A code unit of four hex digits gives bytes, and one below 128 gives      *)
(* itself.                                                                  *)
LEMMA Utf8Typed ==
    ASSUME NEW code \in Nat, code < 256 * 256
    PROVE  Utf8(code) \in Bytes /\ (code < 128 => Utf8(code) = <<code>>)
PROOF
<1> DEFINE high == code \div 64
           low == 128 + (code % 64)
           top == 224 + high \div 64
           middle == 128 + (high % 64)
<1>1. /\ high \in Nat /\ high < 32 * 32 /\ low \in 128 .. 191
      /\ code < 128 => code \in Byte
  BY Z3 DEF Byte
<1>2. Utf8(code) = IF code < 128 THEN <<code>>
                   ELSE IF high < 32 THEN <<192 + high, low>> ELSE <<top, middle, low>>
  BY Zenon DEF Utf8
<1> HIDE DEF high, low
<1>3. /\ top \in 224 .. 239 /\ middle \in 128 .. 191
      /\ high < 32 => 192 + high \in Byte
  BY <1>1, Z3 DEF Byte
<1>4. low \in Byte /\ top \in Byte /\ middle \in Byte
  BY <1>1, <1>3 DEF Byte
<1> DEFINE second == 192 + high
<1> HIDE DEF top, middle, second
<1>5. \A x, y, z \in Byte : <<x>> \in Bytes /\ <<x, y>> \in Bytes /\ <<x, y, z>> \in Bytes
  BY DEF Bytes
<1>6. Utf8(code) = IF code < 128 THEN <<code>>
                   ELSE IF high < 32 THEN <<second, low>> ELSE <<top, middle, low>>
  BY <1>2 DEF second
<1>7. high < 32 => second \in Byte
  BY <1>3 DEF second
<1>8. QED
  BY <1>1, <1>4, <1>5, <1>6, <1>7

HexLetters == Digit \cup (65 .. 70) \cup (97 .. 102)

(* The hex digits of an escape have the values that they are written for.   *)
LEMMA HexValueTyped ==
    /\ \A c \in HexLetters : HexValue(c) \in 0 .. 15
    /\ \A n \in 0 .. 15 : HexDigit(n) \in HexLetters /\ HexDigit(n) \in Byte
         /\ HexValue(HexDigit(n)) = n
PROOF
<1>1. \A c \in HexLetters : HexValue(c) \in 0 .. 15
  BY DEF HexLetters, HexValue, Digit
<1>2. \A n \in 0 .. 15 : HexDigit(n) \in HexLetters /\ HexDigit(n) \in Byte
  BY DEF HexLetters, HexDigit, Digit, Byte
<1>3. \A n \in 0 .. 15 : HexValue(HexDigit(n)) = n
  BY DEF HexValue, HexDigit, Digit
<1>4. QED
  BY <1>1, <1>2, <1>3

(* What an escape is read as.                                               *)
LEMMA EscapedTyped ==
    ASSUME NEW t \in Bytes, NEW k \in 1 .. Len(t)
    PROVE  Gives(Escaped(t, k), Bytes, k + 2, t)
PROOF
<1> DEFINE letter == At(t, k + 1)
           Letters == {47} \cup {Letter[c] : c \in DOMAIN Letter}
           H == /\ letter = 117
                /\ k + 5 <= Len(t)
                /\ \A j \in k+2 .. k+5 : t[j] \in HexLetters
           code == ((HexValue(t[k+2]) * 16 + HexValue(t[k+3])) * 16
                       + HexValue(t[k+4])) * 16 + HexValue(t[k+5])
<1>1. Len(t) \in Nat
  BY BytesLen
<1>2. Escaped(t, k) = IF letter \in Letters THEN Got(<<Unescaped(letter)>>, k + 2)
                      ELSE IF H THEN Got(Utf8(code), k + 6) ELSE Throws
  BY DEF Escaped, HexLetters
<1>3. CASE letter \in Letters
  <2>1. letter # 0
    <3>1. 0 \notin Letters
      <4>1. \A c \in DOMAIN Letter : Letter[c] # 0
        BY LetterFacts
      <4>2. QED
        BY <4>1
    <3>2. QED
      BY <1>3, <3>1
  <2>2. k + 1 \in 1 .. Len(t)
    BY <2>1, AtIs
  <2>3. <<Unescaped(letter)>> \in Bytes
    <3>1. Unescaped(letter) \in Byte
      BY <1>3, LettersDiffer
    <3>2. QED
      BY <3>1 DEF Bytes
  <2>4. k + 2 \in k + 2 .. Len(t) + 1
    BY <1>1, <2>2
  <2>5. Escaped(t, k) = <<<<Unescaped(letter)>>, k + 2>>
    BY <1>2, <1>3 DEF Got
  <2>6. QED
    BY <2>3, <2>4, <2>5 DEF Gives
<1>4. CASE letter \notin Letters /\ H
  <2>1. code \in Nat /\ code < 256 * 256
    <3>1. /\ t[k+2] \in HexLetters /\ t[k+3] \in HexLetters
          /\ t[k+4] \in HexLetters /\ t[k+5] \in HexLetters
      BY <1>4
    <3>2. /\ HexValue(t[k+2]) \in 0 .. 15 /\ HexValue(t[k+3]) \in 0 .. 15
          /\ HexValue(t[k+4]) \in 0 .. 15 /\ HexValue(t[k+5]) \in 0 .. 15
      BY <3>1, HexValueTyped
    <3>3. \A x, y, z, w \in 0 .. 15 :
             LET c == ((x * 16 + y) * 16 + z) * 16 + w IN c \in Nat /\ c < 256 * 256
      BY Z3
    <3>4. QED
      BY <3>2, <3>3, ZenonT(60)
  <2>2. Utf8(code) \in Bytes
    <3> HIDE DEF code
    <3>1. QED
      BY <2>1, Utf8Typed
  <2>3. Escaped(t, k) = <<Utf8(code), k + 6>>
    BY <1>2, <1>4 DEF Got
  <2>4. k + 6 \in k + 2 .. Len(t) + 1
    BY <1>1, <1>4
  <2> HIDE DEF code
  <2>5. QED
    BY <2>2, <2>3, <2>4 DEF Gives
<1>5. CASE letter \notin Letters /\ ~H
  BY <1>2, <1>5 DEF Gives
<1>6. QED
  BY <1>3, <1>4, <1>5

(* What is written for a byte of a string.                                  *)
Unescapable == 32 .. 255 \ {Quote, Backslash}
EscapeOne(c) == IF c \in Unescapable THEN <<c>> ELSE EscapeByte(c)

(* A byte is escaped with a letter if there is one for it, and else with hex*)
(* digits.                                                                  *)
LEMMA EscapeByteTyped ==
    ASSUME NEW c \in Byte, c \notin Unescapable
    PROVE  /\ EscapeByte(c) \in Bytes
           /\ c \in DOMAIN Letter => EscapeByte(c) = <<Backslash, Letter[c]>>
           /\ c \notin DOMAIN Letter =>
                /\ EscapeByte(c) = <<Backslash, 117, 48, 48, HexDigit(c \div 16),
                                     HexDigit(c % 16)>>
                /\ c \in 0 .. 31
PROOF
<1>1. Backslash \in Byte /\ 117 \in Byte /\ 48 \in Byte
  BY DEF Backslash, Byte
<1>2. CASE c \in DOMAIN Letter
  <2>1. Letter[c] \in Byte
    <3>1. Letter[c] \in 34 .. 116
      BY <1>2, LettersDiffer
    <3>2. QED
      BY <3>1 DEF Byte
  <2>2. EscapeByte(c) = <<Backslash, Letter[c]>>
    BY <1>2 DEF EscapeByte
  <2>3. QED
    BY <1>1, <1>2, <2>1, <2>2 DEF Bytes
<1>3. CASE c \notin DOMAIN Letter
  <2>1. c \in 0 .. 31
    BY <1>3, LetterFacts DEF Byte, Unescapable, Quote, Backslash
  <2>2. c \div 16 \in 0 .. 15 /\ c % 16 \in 0 .. 15
    BY <2>1, Z3
  <2>3. HexDigit(c \div 16) \in Byte /\ HexDigit(c % 16) \in Byte
    BY <2>2, HexValueTyped
  <2>4. EscapeByte(c) = <<Backslash, 117, 48, 48, HexDigit(c \div 16), HexDigit(c % 16)>>
    BY <1>3 DEF EscapeByte
  <2> DEFINE a == HexDigit(c \div 16)
             b == HexDigit(c % 16)
  <2> HIDE DEF a, b
  <2>5. <<Backslash, 117, 48, 48, a, b>> \in Bytes
    BY <1>1, <2>3 DEF Bytes, a, b
  <2>6. QED
    BY <1>3, <2>1, <2>4, <2>5 DEF a, b
<1>4. QED
  BY <1>2, <1>3

(* Any byte is written as bytes. *)
LEMMA EscapeOneTyped ==
    ASSUME NEW c \in Byte
    PROVE  EscapeOne(c) \in Bytes
PROOF
<1>1. <<c>> \in Bytes
  BY DEF Bytes
<1>2. QED
  BY <1>1, EscapeByteTyped DEF EscapeOne

(* What holds at a place if it holds at all later ones.                     *)
LEMMA DownInduction ==
    ASSUME NEW n \in Nat, NEW G,
           \A i \in 1 .. n : (\A j \in i + 1 .. n : j \in G) => i \in G
    PROVE  \A i \in 1 .. n : i \in G
PROOF
<1> DEFINE H == {k \in Nat : \A i \in 1 .. n : i > n - k => i \in G}
<1>1. 0 \in H
  OBVIOUS
<1>2. ASSUME NEW k \in Nat, k \in H
      PROVE  k + 1 \in H
  <2>1. SUFFICES ASSUME NEW i \in 1 .. n, i > n - (k + 1)
                 PROVE  i \in G
    OBVIOUS
  <2>2. \A j \in i + 1 .. n : j \in 1 .. n /\ j > n - k
    BY <2>1
  <2>3. \A j \in i + 1 .. n : j \in G
    BY <1>2, <2>2
  <2>4. QED
    BY <2>3
<1>3. n \in H
  <2> HIDE DEF H
  <2>1. QED
    BY <1>1, <1>2, NatInductionOnSet
<1>4. QED
  BY <1>3

(* A run of bytes of S, and what is taken of it first.                      *)
LEMMA RunTyped ==
    ASSUME NEW t \in Bytes, NEW i \in 1 .. Len(t) + 1, NEW S
    PROVE  /\ SubSeq(t, i, Past(t, i, S) - 1) \in Bytes
           /\ i > Len(t) \/ t[i] \notin S => SubSeq(t, i, Past(t, i, S) - 1) = <<>>
           /\ i <= Len(t) /\ t[i] \in S =>
                SubSeq(t, i, Past(t, i, S) - 1) = <<t[i]>>
                  \o SubSeq(t, i + 1, Past(t, i + 1, S) - 1)
PROOF
<1> DEFINE p == Past(t, i, S)
           q == p - 1
<1>1. Len(t) \in Nat /\ \A k \in 1 .. Len(t) : t[k] \in Byte
  BY BytesLen
<1>2. p \in i .. Len(t) + 1
  BY PastStops
<1> HIDE DEF p
<1>3. SubSeq(t, i, q) \in Bytes
  <2>1. i \in Int /\ q \in Int /\ \A k \in i .. q : t[k] \in Byte
    BY <1>1, <1>2
  <2> HIDE DEF q
  <2>2. QED
    BY <2>1, SubSeqProperties DEF Bytes
<1>4. ASSUME i > Len(t) \/ t[i] \notin S
      PROVE  SubSeq(t, i, q) = <<>>
  <2>1. p = i
    BY <1>4, PastHere DEF p
  <2>2. i \in Int /\ q \in Int /\ q < i
    BY <1>1, <2>1
  <2> HIDE DEF q
  <2>3. QED
    BY <2>2, SubSeqEmpty
<1>5. ASSUME i <= Len(t), t[i] \in S
      PROVE  SubSeq(t, i, q) = <<t[i]>> \o SubSeq(t, i + 1, Past(t, i + 1, S) - 1)
  <2>1. i \in 1 .. Len(t)
    BY <1>1, <1>5
  <2>2. p = Past(t, i + 1, S) /\ i + 1 \in 1 .. Len(t) + 1
    BY <1>5, <2>1, PastNext DEF p
  <2>3. p \in i + 1 .. Len(t) + 1
    BY <2>2, PastStops
  <2>4. q \in i .. Len(t)
    BY <1>1, <2>3
  <2>5. t \in Seq(Byte)
    BY DEF Bytes
  <2> HIDE DEF q
  <2>6. SubSeq(t, i, q) = <<t[i]>> \o SubSeq(t, i + 1, q)
    BY <2>1, <2>4, <2>5, SubSeqRecursiveFirst
  <2>7. QED
    BY <2>2, <2>6 DEF q
<1>6. QED
  BY <1>3, <1>4, <1>5 DEF q, p

(* Byte after byte: what Escape writes from each place on.                  *)
LEMMA EscapeSteps ==
    ASSUME NEW s \in Bytes
    PROVE  \E from \in [1 .. Len(s) + 1 -> Bytes] :
              /\ from[Len(s) + 1] = <<>>
              /\ \A i \in 1 .. Len(s) : from[i] = EscapeOne(s[i]) \o from[i + 1]
              /\ Escape(s) = from[1]
PROOF
<1> DEFINE n == Len(s)
           D == 1 .. n + 1
           P(i) == Past(s, i, Unescapable)
           Rest(g, i) == IF P(i) > n THEN <<>> ELSE EscapeByte(s[P(i)]) \o g[P(i) + 1]
           Body(g, i) == SubSeq(s, i, P(i) - 1) \o Rest(g, i)
           Step == [g \in [D -> Bytes] |-> [i \in D |-> Body(g, i)]]
           rank == [i \in D |-> n + 1 - i]
<1>1. n \in Nat /\ \A i \in 1 .. n : s[i] \in Byte
  BY BytesLen
<1>2. \A i \in D : /\ P(i) \in i .. n + 1
                   /\ P(i) <= n => s[P(i)] \notin Unescapable /\ P(i) \in 1 .. n
                        /\ P(i) + 1 \in D
                                     /\ P(i) + 1 > i
  <2>1. ASSUME NEW i \in D
        PROVE  P(i) \in i .. n + 1 /\ (P(i) <= n => s[P(i)] \notin Unescapable)
    BY PastStops
  <2> HIDE DEF P
  <2>2. QED
    BY <1>1, <2>1
<1>3. <<>> \in Bytes
  BY EmptySeq DEF Bytes
<1>4. \A i \in D : SubSeq(s, i, P(i) - 1) \in Bytes
  BY RunTyped
<1>5. \A i \in D : P(i) <= n => EscapeByte(s[P(i)]) \in Bytes
  <2> HIDE DEF P
  <2>1. QED
    BY <1>1, <1>2, EscapeByteTyped
<1>6. ASSUME NEW g, NEW i \in D, \A j \in D : j > i => g[j] \in Bytes
      PROVE  Body(g, i) \in Bytes /\ Rest(g, i) \in Bytes
  <2>1. Rest(g, i) \in Bytes
    <3>1. CASE P(i) > n
      <4> HIDE DEF P
      <4>1. QED
        BY <1>3, <3>1
    <3>2. CASE ~(P(i) > n)
      <4> HIDE DEF P
      <4>1. P(i) <= n
        BY <1>1, <1>2, <3>2
      <4>2. EscapeByte(s[P(i)]) \in Bytes /\ g[P(i) + 1] \in Bytes
        BY <1>2, <1>5, <1>6, <4>1
      <4>3. EscapeByte(s[P(i)]) \o g[P(i) + 1] \in Bytes
        BY <4>2, ConcatBytes
      <4>4. QED
        BY <3>2, <4>3
    <3>3. QED
      BY <3>1, <3>2
  <2> HIDE DEF Rest, P
  <2>2. QED
    BY <1>4, <2>1, ConcatBytes
<1>7. Step \in [[D -> Bytes] -> [D -> Bytes]]
  <2> HIDE DEF Body
  <2>1. \A g \in [D -> Bytes] : [i \in D |-> Body(g, i)] \in [D -> Bytes]
    BY <1>6
  <2>2. QED
    BY <2>1
<1>8. rank \in [D -> Nat]
  BY <1>1
<1>9. ASSUME NEW g \in [D -> Bytes], NEW h \in [D -> Bytes], NEW x \in D,
             \A y \in D : rank[y] < rank[x] => g[y] = h[y]
      PROVE  Step[g][x] = Step[h][x]
  <2>1. P(x) <= n => g[P(x) + 1] = h[P(x) + 1]
    <3> HIDE DEF P
    <3>1. ASSUME P(x) <= n
          PROVE  P(x) + 1 \in D /\ rank[P(x) + 1] < rank[x]
      BY <1>1, <1>2, <3>1
    <3>2. QED
      BY <1>9, <3>1
  <2>2. Rest(g, x) = Rest(h, x)
    <3>1. P(x) > n \/ P(x) <= n
      <4> HIDE DEF P
      <4>1. QED
        BY <1>1, <1>2
    <3> HIDE DEF P
    <3>2. QED
      BY <2>1, <3>1
  <2>3. Body(g, x) = Body(h, x)
    <3> HIDE DEF Rest, P
    <3>1. QED
      BY <2>2
  <2> HIDE DEF Body
  <2>4. Step[g][x] = Body(g, x) /\ Step[h][x] = Body(h, x)
    OBVIOUS
  <2>5. QED
    BY <2>3, <2>4
<1>10. \E f \in [D -> Bytes] : f = Step[f]
  <2> HIDE DEF D, Step, rank
  <2>1. Ranked(D, Bytes, rank, Step)
    BY <1>3, <1>7, <1>8, <1>9 DEF Ranked
  <2>2. QED
    BY <2>1, RecursionExists
<1>11. PICK f \in [D -> Bytes] : f = Step[f]
  BY <1>10
<1>12. f = [i \in D |-> Body(f, i)]
  <2> HIDE DEF Body
  <2>1. QED
    BY <1>11
<1> DEFINE from == CHOOSE g : g = [i \in 1 .. Len(s) + 1 |-> EscapedFrom(s, i, g)]
<1>0. Escape(s) = from[1]
  BY DEF Escape
<1>13. from = [i \in D |-> Body(from, i)]
  <2>1. \A g : [i \in D |-> Body(g, i)] = [i \in 1 .. Len(s) + 1 |-> EscapedFrom(s, i, g)]
    BY Zenon DEF EscapedFrom, Unescapable
  <2>2. f = [i \in 1 .. Len(s) + 1 |-> EscapedFrom(s, i, f)]
    BY <1>12, <2>1, Zenon
  <2>3. from = [i \in 1 .. Len(s) + 1 |-> EscapedFrom(s, i, from)]
    BY <2>2, Zenon
  <2>4. QED
    BY <2>1, <2>3, Zenon
<1> HIDE DEF from
<1>14. \A i \in D : from[i] \in Bytes
  <2> DEFINE G == {i \in D : from[i] \in Bytes}
             m == n + 1
  <2>1. ASSUME NEW i \in 1 .. m, \A j \in i + 1 .. m : j \in G
        PROVE  i \in G
    <3>1. i \in D /\ \A j \in D : j > i => from[j] \in Bytes
      BY <1>1, <2>1
    <3> HIDE DEF D, Body
    <3>2. Body(from, i) \in Bytes
      BY <1>6, <3>1
    <3>3. from[i] = Body(from, i)
      BY <1>13, <3>1
    <3>4. QED
      BY <3>1, <3>2, <3>3
  <2>2. m \in Nat
    BY <1>1
  <2> HIDE DEF G, m
  <2>3. \A i \in 1 .. m : i \in G
    BY <2>1, <2>2, DownInduction
  <2>4. QED
    BY <2>3 DEF G, m
<1>15. ASSUME NEW i \in D
       PROVE  /\ i = n + 1 => from[i] = <<>>
              /\ i <= n /\ from[i + 1] \in Bytes => from[i] = EscapeOne(s[i]) \o from[i + 1]
  <2>1. from[i] = SubSeq(s, i, P(i) - 1) \o Rest(from, i)
    <3> HIDE DEF P, Rest
    <3>1. QED
      BY <1>13
  <2>2. CASE i = n + 1
    <3>1. i > Len(s) /\ i > n
      BY <1>1, <2>2
    <3>2. SubSeq(s, i, P(i) - 1) = <<>> /\ P(i) = i
      BY <3>1, RunTyped, PastHere
    <3>3. Rest(from, i) = <<>>
      BY <3>1, <3>2
    <3>4. from[i] = <<>>
      BY <2>1, <3>2, <3>3, <1>3, ConcatEmptySeq DEF Bytes
    <3>5. ~(i <= n)
      BY <1>1, <2>2
    <3>6. QED
      BY <3>4, <3>5
  <2>3. CASE i # n + 1 /\ s[i] \notin Unescapable
    <3>1. i \in 1 .. n /\ s[i] \in Byte
      BY <1>1, <2>3
    <3>2. SubSeq(s, i, P(i) - 1) = <<>> /\ P(i) = i
      BY <2>3, RunTyped, PastHere
    <3>3. Rest(from, i) = EscapeByte(s[i]) \o from[i + 1]
      <4>1. ~(i > n)
        BY <1>1, <3>1
      <4>2. QED
        BY <3>2, <4>1
    <3>4. EscapeOne(s[i]) = EscapeByte(s[i]) /\ EscapeByte(s[i]) \in Bytes
      BY <2>3, <3>1, EscapeByteTyped DEF EscapeOne
    <3> HIDE DEF Rest, P
    <3>5. ASSUME from[i + 1] \in Bytes
          PROVE  from[i] = EscapeOne(s[i]) \o from[i + 1]
      <4> DEFINE r == EscapeByte(s[i]) \o from[i + 1]
      <4>1. r \in Bytes
        BY <3>4, <3>5, ConcatBytes
      <4>2. from[i] = <<>> \o r
        BY <2>1, <3>2, <3>3
      <4> HIDE DEF r
      <4>3. <<>> \o r = r
        BY <4>1, ConcatEmptySeq DEF Bytes
      <4>4. QED
        BY <3>4, <4>2, <4>3 DEF r
    <3>6. QED
      BY <2>3, <3>5
  <2>4. CASE i # n + 1 /\ s[i] \in Unescapable
    <3>1. i \in 1 .. n /\ s[i] \in Byte /\ i <= n /\ i + 1 \in D
      BY <1>1, <2>4
    <3> DEFINE r == Rest(from, i)
               u == SubSeq(s, i + 1, P(i + 1) - 1)
               o == <<s[i]>>
    <3>2. P(i) = P(i + 1)
      BY <2>4, <3>1, PastNext
    <3>3. SubSeq(s, i, P(i) - 1) = o \o u
      BY <2>4, <3>1, RunTyped
    <3>4. Rest(from, i) = Rest(from, i + 1)
      BY <3>2
    <3>5. from[i + 1] = u \o r
      <4>1. from[i + 1] = SubSeq(s, i + 1, P(i + 1) - 1) \o Rest(from, i + 1)
        <5> HIDE DEF P, Rest
        <5>1. QED
          BY <1>13, <3>1
      <4>2. QED
        BY <3>4, <4>1
    <3>6. from[i] = (o \o u) \o r
      BY <2>1, <3>3
    <3>7. u \in Seq(Byte) /\ o \in Seq(Byte)
      BY <1>4, <3>1 DEF Bytes
    <3>8. r \in Seq(Byte)
      <4> HIDE DEF P, Body
      <4>1. QED
        BY <1>6, <1>14 DEF Bytes
    <3>9. (o \o u) \o r = o \o (u \o r)
      <4> HIDE DEF o, u, r
      <4>1. QED
        BY <3>7, <3>8, ConcatAssociative, SMTT(60)
    <3>10. EscapeOne(s[i]) = o
      BY <2>4 DEF EscapeOne
    <3> HIDE DEF o, u, r
    <3>11. QED
      BY <2>4, <3>5, <3>6, <3>9, <3>10
  <2>5. QED
    BY <2>2, <2>3, <2>4
<1>16. QED
  <2>1. n + 1 \in D /\ 1 \in D /\ \A i \in 1 .. n : i \in D /\ i + 1 \in D /\ i <= n
    BY <1>1
  <2>2. from \in [D -> Bytes]
    <3> HIDE DEF Body
    <3>1. QED
      BY <1>13, <1>14
  <2>3. from[n + 1] = <<>> /\ \A i \in 1 .. n : from[i] = EscapeOne(s[i]) \o from[i + 1]
    BY <1>15, <1>14, <2>1
  <2>4. Escape(s) = from[1]
    BY <1>0
  <2>5. QED
    BY <2>2, <2>3, <2>4

(* One turn of the loop of parse_string: a run of plain bytes, and then the *)
(* quote that ends the string, or an escape, or neither.                    *)
LEMMA RestAtIs ==
    ASSUME NEW t, NEW j, NEW rest
    PROVE  RestAt(t, j, rest) =
             LET k == Past(t, j, Plain)
                 e == Escaped(t, k)
             IN  IF k > Len(t) THEN Throws
                 ELSE IF t[k] = Quote THEN Got(SubSeq(t, j, k - 1), k + 1)
                 ELSE IF e = Throws \/ rest[e[2]] = Throws THEN Throws
                 ELSE Got(SubSeq(t, j, k - 1) \o e[1] \o rest[e[2]][1], rest[e[2]][2])
BY DEF RestAt, RestFrom, RestWith, Then

(* What is read is of the set it should be, and ends within the text. *)
LEMMA GivesUse ==
    ASSUME NEW got, NEW V, NEW i, NEW t, Gives(got, V, i, t), got # Throws
    PROVE  /\ got = <<got[1], got[2]>> /\ got[1] \in V /\ got[2] \in i .. Len(t) + 1
BY DEF Gives

(* Where nothing but later places are looked at, and they are typed.        *)
LEMMA RestAtTyped ==
    ASSUME NEW t \in Bytes, NEW rest, NEW j \in 1 .. Len(t) + 1,
           \A k \in j + 1 .. Len(t) + 1 : Gives(rest[k], Bytes, k + 1, t)
    PROVE  Gives(RestAt(t, j, rest), Bytes, j + 1, t)
PROOF
<1> DEFINE k == Past(t, j, Plain)
           e == Escaped(t, k)
           x == SubSeq(t, j, k - 1)
<1>1. Len(t) \in Nat
  BY BytesLen
<1>2. k \in j .. Len(t) + 1 /\ x \in Bytes
  BY PastStops, RunTyped
<1>3. RestAt(t, j, rest) =
        IF k > Len(t) THEN Throws
        ELSE IF t[k] = Quote THEN Got(x, k + 1)
        ELSE IF e = Throws \/ rest[e[2]] = Throws THEN Throws
        ELSE Got(x \o e[1] \o rest[e[2]][1], rest[e[2]][2])
  BY RestAtIs
<1> HIDE DEF k, x
<1>4. CASE k > Len(t)
  BY <1>3, <1>4 DEF Gives
<1>5. CASE ~(k > Len(t)) /\ t[k] = Quote
  <2>1. k + 1 \in j + 1 .. Len(t) + 1
    BY <1>1, <1>2, <1>5
  <2>2. RestAt(t, j, rest) = <<x, k + 1>>
    BY <1>3, <1>5 DEF Got
  <2>3. QED
    BY <1>2, <2>1, <2>2 DEF Gives
<1>6. CASE ~(k > Len(t)) /\ t[k] # Quote
  <2>1. k \in 1 .. Len(t)
    BY <1>1, <1>2, <1>6
  <2>2. Gives(e, Bytes, k + 2, t)
    BY <2>1, EscapedTyped
  <2> HIDE DEF e
  <2>3. CASE e = Throws \/ rest[e[2]] = Throws
    BY <1>3, <1>6, <2>3 DEF Gives
  <2>4. CASE e # Throws /\ rest[e[2]] # Throws
    <3>1. e[1] \in Bytes /\ e[2] \in k + 2 .. Len(t) + 1
      BY <2>2, <2>4, GivesUse
    <3> DEFINE m == e[2]
               r == rest[m]
    <3>2. m \in j + 1 .. Len(t) + 1 /\ m \in Nat
      BY <1>1, <1>2, <3>1
    <3> HIDE DEF m
    <3>3. Gives(r, Bytes, m + 1, t) /\ r # Throws
      BY <2>4, <3>2 DEF m
    <3> HIDE DEF r
    <3>4. r[1] \in Bytes /\ r[2] \in m + 1 .. Len(t) + 1
      BY <3>3, GivesUse
    <3>5. r[2] \in j + 1 .. Len(t) + 1
      BY <1>1, <3>2, <3>4
    <3> DEFINE y == x \o e[1] \o r[1]
    <3>6. y \in Bytes
      BY <1>2, <3>1, <3>4, ConcatBytes
    <3>7. RestAt(t, j, rest) = <<y, r[2]>>
      BY <1>3, <1>6, <2>4 DEF Got, r, m
    <3> HIDE DEF y
    <3>8. QED
      BY <3>5, <3>6, <3>7 DEF Gives
  <2>5. QED
    BY <2>3, <2>4
<1>7. QED
  BY <1>4, <1>5, <1>6

(* That turn depends only on what follows it. *)
LEMMA RestAtSame ==
    ASSUME NEW t \in Bytes, NEW g, NEW h, NEW j \in 1 .. Len(t) + 1,
           \A k \in j + 1 .. Len(t) + 1 : g[k] = h[k]
    PROVE  RestAt(t, j, g) = RestAt(t, j, h)
PROOF
<1> DEFINE k == Past(t, j, Plain)
           e == Escaped(t, k)
           x == SubSeq(t, j, k - 1)
<1>1. Len(t) \in Nat
  BY BytesLen
<1>2. k \in j .. Len(t) + 1
  BY PastStops
<1>3. \A rest : RestAt(t, j, rest) =
        IF k > Len(t) THEN Throws
        ELSE IF t[k] = Quote THEN Got(x, k + 1)
        ELSE IF e = Throws \/ rest[e[2]] = Throws THEN Throws
        ELSE Got(x \o e[1] \o rest[e[2]][1], rest[e[2]][2])
  BY RestAtIs
<1> HIDE DEF k, x
<1>4. CASE k > Len(t)
  BY <1>3, <1>4
<1>5. CASE ~(k > Len(t))
  <2>1. k \in 1 .. Len(t)
    BY <1>1, <1>2, <1>5
  <2>2. Gives(e, Bytes, k + 2, t)
    BY <2>1, EscapedTyped
  <2> HIDE DEF e
  <2>3. CASE e = Throws
    BY <1>3, <2>3
  <2>4. CASE e # Throws
    <3>1. e[2] \in k + 2 .. Len(t) + 1
      BY <2>2, <2>4, GivesUse
    <3>2. e[2] \in j + 1 .. Len(t) + 1
      BY <1>1, <1>2, <3>1
    <3>3. g[e[2]] = h[e[2]]
      BY <3>2
    <3>4. QED
      BY <1>3, <3>3
  <2>5. QED
    BY <2>3, <2>4
<1>6. QED
  BY <1>4, <1>5

(* The loop of ParseString is the function it is meant to be.               *)
LEMMA RestOfStringSteps ==
    ASSUME NEW t \in Bytes
    PROVE  /\ \A j \in 1 .. Len(t) + 1 : RestOfString(t)[j] = RestAt(t, j, RestOfString(t))
           /\ \A j \in 1 .. Len(t) + 1 : Gives(RestOfString(t)[j], Bytes, j + 1, t)
PROOF
<1> DEFINE n == Len(t)
           D == 1 .. n + 1
           S == {Throws} \cup (Bytes \X D)
           Sane(g) == [j \in D |-> IF Gives(g[j], Bytes, j + 1, t) THEN g[j] ELSE Throws]
           Step == [g \in [D -> S] |-> [j \in D |-> RestAt(t, j, Sane(g))]]
           rank == [j \in D |-> n + 1 - j]
<1>1. n \in Nat
  BY BytesLen
<1>2. \A g : \A j \in D : Gives(Sane(g)[j], Bytes, j + 1, t)
  BY DEF Gives
<1>3. ASSUME NEW g, NEW j \in D
      PROVE  Gives(RestAt(t, j, Sane(g)), Bytes, j + 1, t)
  <2>1. \A k \in j + 1 .. Len(t) + 1 : k \in D
    BY <1>1
  <2>2. \A k \in j + 1 .. Len(t) + 1 : Gives(Sane(g)[k], Bytes, k + 1, t)
    BY <1>2, <2>1
  <2> HIDE DEF Sane
  <2>3. QED
    BY <2>2, RestAtTyped
<1>4. ASSUME NEW got, NEW j \in D, Gives(got, Bytes, j + 1, t)
      PROVE  got \in S
  <2>1. CASE got = Throws
    BY <2>1
  <2>2. CASE got # Throws
    <3>1. got = <<got[1], got[2]>> /\ got[1] \in Bytes /\ got[2] \in j + 1 .. n + 1
      BY <1>4, <2>2, GivesUse
    <3>2. got[2] \in D
      BY <1>1, <3>1
    <3> HIDE DEF D
    <3>3. QED
      BY <3>1, <3>2
  <2>3. QED
    BY <2>1, <2>2
<1>5. Step \in [[D -> S] -> [D -> S]]
  <2>1. \A g : [j \in D |-> RestAt(t, j, Sane(g))] \in [D -> S]
    <3> HIDE DEF S, Sane, D
    <3>1. QED
      BY <1>3, <1>4
  <2> HIDE DEF Sane
  <2>2. QED
    BY <2>1
<1>6. rank \in [D -> Nat]
  BY <1>1
<1>7. ASSUME NEW g \in [D -> S], NEW h \in [D -> S], NEW x \in D,
             \A y \in D : rank[y] < rank[x] => g[y] = h[y]
      PROVE  Step[g][x] = Step[h][x]
  <2>1. \A k \in x + 1 .. Len(t) + 1 : k \in D /\ rank[k] < rank[x]
    BY <1>1
  <2>2. \A k \in x + 1 .. Len(t) + 1 : Sane(g)[k] = Sane(h)[k]
    BY <1>7, <2>1
  <2> HIDE DEF Sane
  <2>3. RestAt(t, x, Sane(g)) = RestAt(t, x, Sane(h))
    BY <2>2, RestAtSame
  <2>4. QED
    BY <2>3
<1>8. \E f \in [D -> S] : f = Step[f]
  <2> HIDE DEF D, S, Step, rank
  <2>0. S # {}
    BY DEF S
  <2>1. Ranked(D, S, rank, Step)
    BY <2>0, <1>5, <1>6, <1>7 DEF Ranked
  <2>2. QED
    BY <2>1, RecursionExists
<1>9. PICK f \in [D -> S] : f = Step[f]
  BY <1>8
<1>10. f = [j \in D |-> RestAt(t, j, Sane(f))]
  <2> HIDE DEF Sane
  <2>1. QED
    BY <1>9
<1>11. Sane(f) = f
  <2>1. \A j \in D : Gives(f[j], Bytes, j + 1, t)
    <3> HIDE DEF Sane
    <3>1. QED
      BY <1>3, <1>10
  <2>2. \A j \in D : Sane(f)[j] = f[j]
    BY <2>1
  <2> HIDE DEF S
  <2>3. QED
    BY <1>9, <2>2
<1>12. f = [j \in D |-> RestAt(t, j, f)]
  <2> HIDE DEF Sane
  <2>1. QED
    BY <1>10, <1>11
<1> DEFINE loop == RestOfString(t)
<1>13. loop = [j \in D |-> RestAt(t, j, loop)]
  <2>1. f = [j \in 1 .. Len(t) + 1 |-> RestAt(t, j, f)]
    BY <1>12
  <2>2. QED
    BY <2>1, Zenon DEF RestOfString
<1> HIDE DEF loop
<1>14. \A j \in D : loop[j] = RestAt(t, j, loop)
  BY <1>13
<1>15. \A j \in D : Gives(loop[j], Bytes, j + 1, t)
  <2> DEFINE G == {j \in D : Gives(loop[j], Bytes, j + 1, t)}
             m == n + 1
  <2>1. ASSUME NEW i \in 1 .. m, \A j \in i + 1 .. m : j \in G
        PROVE  i \in G
    <3>1. \A k \in i + 1 .. Len(t) + 1 : Gives(loop[k], Bytes, k + 1, t)
      BY <2>1
    <3>2. Gives(RestAt(t, i, loop), Bytes, i + 1, t)
      BY <3>1, RestAtTyped
    <3>3. QED
      BY <1>14, <3>2
  <2>2. m \in Nat
    BY <1>1
  <2> HIDE DEF G, m
  <2>3. \A i \in 1 .. m : i \in G
    BY <2>1, <2>2, DownInduction
  <2>4. QED
    BY <2>3 DEF G, m
<1>16. QED
  BY <1>14, <1>15 DEF loop

(* Strings of bytes can be put together in any order. *)
LEMMA ThreeParts ==
    ASSUME NEW o1 \in Bytes, NEW u1 \in Bytes, NEW f1 \in Bytes
    PROVE  (o1 \o u1) \o f1 = o1 \o (u1 \o f1)
PROOF
  BY ConcatAssociative DEF Bytes

(* Joining, as an operator that the provers do not look into.               *)
Cat(s, u) == s \o u

(* The same of Cat, which the provers leave as it is. *)
LEMMA CatParts ==
    ASSUME NEW o1 \in Bytes, NEW u1 \in Bytes, NEW f1 \in Bytes
    PROVE  Cat(Cat(o1, u1), f1) = Cat(o1, Cat(u1, f1)) /\ Cat(o1, u1) \in Bytes
BY ThreeParts, ConcatProperties DEF Cat, Bytes

(* Where a backslash is, the escape it begins comes first.                  *)
LEMMA RestAtEscape ==
    ASSUME NEW t \in Bytes, NEW j \in 1 .. Len(t), t[j] = Backslash,
           NEW x \in Bytes, NEW m \in 1 .. Len(t) + 1, Escaped(t, j) = <<x, m>>,
           RestOfString(t)[m] # Throws
    PROVE  RestOfString(t)[j] = <<x \o RestOfString(t)[m][1], RestOfString(t)[m][2]>>
PROOF
<1> DEFINE rest == RestOfString(t)
           k == Past(t, j, Plain)
           e == Escaped(t, k)
           u == SubSeq(t, j, k - 1)
<1>1. t[j] \notin Plain /\ t[j] # Quote
  BY DEF Plain, Backslash, Quote
<1>2. Len(t) \in Nat /\ j \in 1 .. Len(t) + 1
  BY BytesLen
<1>3. k = j /\ u = <<>>
  BY <1>1, <1>2, PastHere, RunTyped
<1>4. RestAt(t, j, rest) =
        IF k > Len(t) THEN Throws
        ELSE IF t[k] = Quote THEN Got(u, k + 1)
        ELSE IF e = Throws \/ rest[e[2]] = Throws THEN Throws
        ELSE Got(u \o e[1] \o rest[e[2]][1], rest[e[2]][2])
  BY RestAtIs
<1>5. e = <<x, m>> /\ e # Throws /\ e[1] = x /\ e[2] = m
  BY <1>3, ThrowsIsNothing DEF Got
<1>6. ~(k > Len(t)) /\ t[k] # Quote
  BY <1>1, <1>2, <1>3
<1>9. rest[j] = RestAt(t, j, rest)
  BY <1>2, RestOfStringSteps
<1>10. rest[m] # Throws
  OBVIOUS
<1> HIDE DEF k, e, u, rest
<1>7. RestAt(t, j, rest) = <<u \o x \o rest[m][1], rest[m][2]>>
  BY <1>4, <1>5, <1>6, <1>10 DEF Got
<1>8. u \o x = x
  BY <1>3, ConcatEmptySeq DEF Bytes
<1>11. QED
  BY <1>7, <1>8, <1>9 DEF rest

(* A byte that stands for itself comes first.                               *)
LEMMA RestAtPlain ==
    ASSUME NEW t \in Bytes, NEW j \in 1 .. Len(t), t[j] \in Plain,
           RestOfString(t)[j + 1] # Throws
    PROVE  RestOfString(t)[j] = <<<<t[j]>> \o RestOfString(t)[j + 1][1],
                                  RestOfString(t)[j + 1][2]>>
PROOF
<1> DEFINE rest == RestOfString(t)
           k == Past(t, j + 1, Plain)
           e == Escaped(t, k)
           u == SubSeq(t, j + 1, k - 1)
           o == <<t[j]>>
<1>1. Len(t) \in Nat /\ j \in 1 .. Len(t) + 1 /\ j + 1 \in 1 .. Len(t) + 1 /\ j <= Len(t)
  BY BytesLen
<1>2. Past(t, j, Plain) = k /\ SubSeq(t, j, k - 1) = o \o u /\ u \in Bytes
  BY <1>1, PastNext, RunTyped
<1>3. k \in 1 .. Len(t) + 1
  <2>1. k \in j + 1 .. Len(t) + 1
    BY <1>1, PastStops
  <2>2. QED
    BY <1>1, <2>1
<1>4. o \in Bytes
  BY BytesLen DEF Bytes
<1>5. rest[j] = RestAt(t, j, rest) /\ rest[j + 1] = RestAt(t, j + 1, rest)
  BY <1>1, RestOfStringSteps
<1> HIDE DEF rest
<1>6. rest[j + 1] =
        IF k > Len(t) THEN Throws
        ELSE IF t[k] = Quote THEN Got(u, k + 1)
        ELSE IF e = Throws \/ rest[e[2]] = Throws THEN Throws
        ELSE Got(u \o e[1] \o rest[e[2]][1], rest[e[2]][2])
  BY <1>5, RestAtIs
<1>7. rest[j] =
        IF k > Len(t) THEN Throws
        ELSE IF t[k] = Quote THEN Got(o \o u, k + 1)
        ELSE IF e = Throws \/ rest[e[2]] = Throws THEN Throws
        ELSE Got((o \o u) \o e[1] \o rest[e[2]][1], rest[e[2]][2])
  BY <1>2, <1>5, RestAtIs
<1>8. ~(k > Len(t)) => Gives(e, Bytes, k + 2, t)
  BY <1>1, <1>3, EscapedTyped
<1>9. \A m \in 1 .. Len(t) + 1 : Gives(rest[m], Bytes, m + 1, t)
  BY RestOfStringSteps DEF rest
<1>10. rest[j + 1] # Throws
  BY DEF rest
<1> HIDE DEF k, e, u, o
<1>11. ~(k > Len(t))
  BY <1>6, <1>10
<1>12. rest[j] = <<o \o rest[j + 1][1], rest[j + 1][2]>>
  <2>1. CASE t[k] = Quote
    BY <1>6, <1>7, <1>11, <2>1 DEF Got
  <2>2. CASE t[k] # Quote
    <3> DEFINE r == rest[e[2]]
    <3>1. e # Throws /\ r # Throws
      BY <1>6, <1>10, <1>11, <2>2
    <3>2. e[1] \in Bytes /\ e[2] \in k + 2 .. Len(t) + 1
      BY <1>8, <1>11, <3>1, GivesUse
    <3>3. e[2] \in 1 .. Len(t) + 1
      BY <1>1, <1>3, <3>2
    <3>4. r[1] \in Bytes
      BY <1>9, <3>1, <3>3, GivesUse, SMTT(60)
    <3>5. rest[j + 1] = <<u \o e[1] \o r[1], r[2]>>
            /\ rest[j] = <<(o \o u) \o e[1] \o r[1], r[2]>>
      BY <1>6, <1>7, <1>11, <2>2, <3>1 DEF Got
    <3> DEFINE y == u \o e[1] \o r[1]
    <3>6. (o \o u) \o e[1] \o r[1] = o \o y
      <4> DEFINE f == e[1]
                 g == r[1]
      <4>1. o \in Bytes /\ u \in Bytes /\ f \in Bytes /\ g \in Bytes
        BY <1>2, <1>4, <3>2, <3>4
      <4> HIDE DEF f, g
      <4>2. (o \o u) \o f \o g = o \o (u \o f \o g)
        <5>1. Cat(Cat(Cat(o, u), f), g) = Cat(o, Cat(Cat(u, f), g))
          BY <4>1, CatParts
        <5>2. QED
          BY <5>1 DEF Cat
      <4>3. QED
        BY <4>2, Zenon DEF f, g
    <3>7. rest[j + 1] = <<y, r[2]>> /\ rest[j] = <<o \o y, r[2]>>
      BY <3>5, <3>6
    <3> HIDE DEF y, r
    <3>8. QED
      BY <3>7
  <2>3. QED
    BY <2>1, <2>2
<1>13. QED
  BY <1>12 DEF rest, o

(* What is written for a byte is read as that byte.                         *)
LEMMA EscapeOneIsRead ==
    ASSUME NEW t \in Bytes, NEW c \in Byte, NEW j, Holds(t, j, EscapeOne(c)),
           RestOfString(t)[j + Len(EscapeOne(c))] # Throws
    PROVE  RestOfString(t)[j] = <<<<c>> \o RestOfString(t)[j + Len(EscapeOne(c))][1],
                                  RestOfString(t)[j + Len(EscapeOne(c))][2]>>
PROOF
<1> DEFINE rest == RestOfString(t)
           s == EscapeOne(c)
<1>1. Len(t) \in Nat /\ j \in Nat \ {0} /\ j - 1 + Len(s) <= Len(t) /\ s \in Bytes
      /\ \A k \in 1 .. Len(s) : t[j + k - 1] = s[k]
  BY BytesLen, EscapeOneTyped DEF Holds
<1>2. \A m \in 1 .. Len(t) + 1 : rest[m] = RestAt(t, m, rest)
        /\ Gives(rest[m], Bytes, m + 1, t)
  BY RestOfStringSteps
<1>3. <<c>> \in Bytes
  BY DEF Bytes
<1>4. CASE c \in Unescapable
  <2>1. s = <<c>> /\ Len(s) = 1 /\ s[1] = c
    BY <1>4 DEF EscapeOne
  <2>2. j \in 1 .. Len(t) /\ t[j] = c
    <3>1. t[j + 1 - 1] = c
      BY <1>1, <2>1
    <3>2. QED
      BY <1>1, <2>1, <3>1
  <2>3. c \in Plain
    BY <1>4 DEF Unescapable, Plain
  <2>4. QED
    BY <2>1, <2>2, <2>3, RestAtPlain
<1>5. CASE c \notin Unescapable
  <2>1. s = EscapeByte(c)
    BY <1>5 DEF EscapeOne
  <2> DEFINE m == j + Len(s)
  <2> HIDE DEF s
  <2>2. ASSUME Len(s) > 0, s[1] = Backslash, Escaped(t, j) = <<<<c>>, m>>
        PROVE  rest[j] = <<<<c>> \o rest[m][1], rest[m][2]>>
    <3>1. Len(s) \in Nat
      BY <1>1, BytesLen
    <3>2. j \in 1 .. Len(t) /\ t[j] = Backslash /\ j \in 1 .. Len(t) + 1
            /\ m \in 1 .. Len(t) + 1
      <4>1. t[j + 1 - 1] = s[1]
        BY <1>1, <2>2, <3>1
      <4>2. QED
        BY <1>1, <2>2, <3>1, <4>1
    <3>3. rest[m] # Throws
      BY DEF s
    <3> DEFINE x == <<c>>
    <3>4. x \in Bytes /\ Escaped(t, j) = <<x, m>>
      BY <1>3, <2>2
    <3> HIDE DEF m, x
    <3>5. rest[j] = <<x \o rest[m][1], rest[m][2]>>
      BY <3>2, <3>3, <3>4, RestAtEscape
    <3>6. QED
      BY <3>5 DEF x
  <2>3. CASE c \in DOMAIN Letter
    <3>1. s = <<Backslash, Letter[c]>>
      BY <1>5, <2>1, <2>3, EscapeByteTyped
    <3>2. Len(s) = 2 /\ s[1] = Backslash /\ s[2] = Letter[c]
      BY <3>1
    <3>3. At(t, j + 1) = Letter[c]
      <4>1. t[j + 2 - 1] = s[2] /\ j + 2 - 1 = j + 1 /\ j + 1 <= Len(t)
        BY <1>1, <3>2
      <4>2. QED
        BY <3>2, <4>1 DEF At
    <3>4. Escaped(t, j) = <<<<Unescaped(Letter[c])>>, j + 2>>
      BY <2>3, <3>3 DEF Escaped, Got
    <3>5. Unescaped(Letter[c]) = c
      BY <2>3, LettersDiffer
    <3>6. QED
      BY <2>2, <3>2, <3>4, <3>5 DEF s
  <2>4. CASE c \notin DOMAIN Letter
    <3> DEFINE a == HexDigit(c \div 16)
               b == HexDigit(c % 16)
    <3>1. c \in 0 .. 31 /\ s = <<Backslash, 117, 48, 48, a, b>>
      BY <1>5, <2>1, <2>4, EscapeByteTyped
    <3>2. c \div 16 \in 0 .. 15 /\ c % 16 \in 0 .. 15 /\ 0 \in 0 .. 15
            /\ (c \div 16) * 16 + (c % 16) = c
      <4>1. c \in 0 .. 31
        BY <3>1
      <4>2. \A n \in 0 .. 31 : n \div 16 \in 0 .. 15 /\ n % 16 \in 0 .. 15
                                /\ (n \div 16) * 16 + (n % 16) = n
        <5>1. SUFFICES ASSUME NEW n \in 0 .. 31
                       PROVE  n \div 16 \in 0 .. 15 /\ n % 16 \in 0 .. 15
                                /\ (n \div 16) * 16 + (n % 16) = n
          OBVIOUS
        <5>2. n \div 16 \in 0 .. 1 /\ n % 16 \in 0 .. 15 /\ n = 16 * (n \div 16) + (n % 16)
          BY Z3
        <5>3. QED
          BY <5>2, Z3
      <4>3. QED
        BY <4>1, <4>2
    <3>3. /\ a \in HexLetters /\ b \in HexLetters /\ 48 \in HexLetters
          /\ HexValue(a) = c \div 16 /\ HexValue(b) = c % 16 /\ HexValue(48) = 0
      <4>1. 48 = HexDigit(0)
        BY DEF HexDigit
      <4>2. QED
        BY <3>2, <4>1, HexValueTyped
    <3> HIDE DEF a, b
    <3>4. /\ Len(s) = 6 /\ s[1] = Backslash /\ s[2] = 117 /\ s[3] = 48 /\ s[4] = 48
          /\ s[5] = a
          /\ s[6] = b
      BY <3>1
    <3>5. /\ At(t, j + 1) = 117 /\ t[j + 2] = 48 /\ t[j + 3] = 48 /\ t[j + 4] = a
          /\ t[j + 5] = b
          /\ j + 5 <= Len(t)
      <4>1. /\ t[j + 2 - 1] = 117 /\ t[j + 3 - 1] = 48 /\ t[j + 4 - 1] = 48
            /\ t[j + 5 - 1] = a
            /\ t[j + 6 - 1] = b
        BY <1>1, <3>4
      <4>2. /\ j + 2 - 1 = j + 1 /\ j + 3 - 1 = j + 2 /\ j + 4 - 1 = j + 3
            /\ j + 5 - 1 = j + 4
            /\ j + 6 - 1 = j + 5 /\ j + 5 <= Len(t) /\ j + 1 <= Len(t)
        BY <1>1, <3>4
      <4>3. QED
        BY <4>1, <4>2 DEF At
    <3>6. \A k \in j + 2 .. j + 5 : t[k] \in HexLetters
      <4>1. \A k \in j + 2 .. j + 5 : k = j + 2 \/ k = j + 3 \/ k = j + 4 \/ k = j + 5
        BY <1>1
      <4>2. QED
        BY <3>3, <3>5, <4>1
    <3>7. 117 \notin {47} \cup {Letter[d] : d \in DOMAIN Letter}
      BY LetterFacts
    <3> DEFINE code == ((HexValue(t[j+2]) * 16 + HexValue(t[j+3])) * 16
                       + HexValue(t[j+4])) * 16 + HexValue(t[j+5])
    <3>8. Escaped(t, j) = <<Utf8(code), j + 6>>
      <4> HIDE DEF code
      <4>1. \A k \in j + 2 .. j + 5 : t[k] \in Digit \cup (65 .. 70) \cup (97 .. 102)
        BY <3>6 DEF HexLetters
      <4>2. QED
        BY <3>5, <3>7, <4>1 DEF Escaped, Got, code
    <3>9. code = c
      <4> DEFINE x == c \div 16
                 y == c % 16
      <4>1. x \in 0 .. 15 /\ y \in 0 .. 15 /\ x * 16 + y = c
        BY <3>2, Zenon
      <4>2. HexValue(t[j+2]) = 0 /\ HexValue(t[j+3]) = 0 /\ HexValue(t[j+4]) = x
              /\ HexValue(t[j+5]) = y
        BY <3>3, <3>5
      <4>3. code = ((0 * 16 + 0) * 16 + x) * 16 + y
        BY <4>2, Zenon
      <4> HIDE DEF x, y, code
      <4>4. QED
        BY <4>1, <4>3
    <3>10. Utf8(c) = <<c>>
      BY <3>1, Utf8Typed
    <3> HIDE DEF code
    <3>11. QED
      BY <2>2, <3>4, <3>8, <3>9, <3>10 DEF s
  <2>5. QED
    BY <2>3, <2>4
<1>6. QED
  BY <1>4, <1>5

(* What follows each place of a sequence.                                   *)
LEMMA Tails ==
    ASSUME NEW S, NEW seq \in Seq(S)
    PROVE  /\ Len(seq) \in Nat
           /\ SubSeq(seq, Len(seq) + 1, Len(seq)) = <<>>
           /\ SubSeq(seq, 1, Len(seq)) = seq
           /\ \A a \in 1 .. Len(seq) :
                 SubSeq(seq, a, Len(seq)) = <<seq[a]>> \o SubSeq(seq, a + 1, Len(seq))
           /\ \A a \in 1 .. Len(seq) + 1 :
                 /\ SubSeq(seq, a, Len(seq)) \in Seq(S)
                 /\ Len(SubSeq(seq, a, Len(seq))) = Len(seq) + 1 - a
                 /\ \A k \in 1 .. Len(seq) + 1 - a : SubSeq(seq, a, Len(seq))[k]
                      = seq[a + k - 1]
PROOF
<1> DEFINE n == Len(seq)
<1>1. n \in Nat
  BY LenProperties
<1>2. SubSeq(seq, n + 1, n) = <<>>
  <2>1. n + 1 \in Int /\ n \in Int /\ n < n + 1
    BY <1>1
  <2> HIDE DEF n
  <2>2. QED
    BY <2>1, SubSeqEmpty
<1>3. SubSeq(seq, 1, n) = seq
  BY SubSeqFull
<1>4. ASSUME NEW a \in 1 .. n
      PROVE  SubSeq(seq, a, n) = <<seq[a]>> \o SubSeq(seq, a + 1, n)
  <2>1. n \in a .. Len(seq)
    BY <1>1
  <2>2. QED
    BY <2>1, SubSeqRecursiveFirst
<1>5. ASSUME NEW a \in 1 .. n + 1
      PROVE  /\ SubSeq(seq, a, n) \in Seq(S) /\ Len(SubSeq(seq, a, n)) = n + 1 - a
             /\ \A k \in 1 .. n + 1 - a : SubSeq(seq, a, n)[k] = seq[a + k - 1]
  <2>1. a \in Int /\ n \in Int
    BY <1>1
  <2>2. \A i \in a .. n : seq[i] \in S
    BY <1>1, ElementOfSeq
  <2> HIDE DEF n
  <2>3. /\ SubSeq(seq, a, n) \in Seq(S)
        /\ Len(SubSeq(seq, a, n)) = IF a <= n THEN n - a + 1 ELSE 0
        /\ \A i \in 1 .. n - a + 1 : SubSeq(seq, a, n)[i] = seq[a + i - 1]
    BY <2>1, <2>2, SubSeqProperties
  <2>4. (IF a <= n THEN n - a + 1 ELSE 0) = n + 1 - a /\ n - a + 1 = n + 1 - a
    BY <1>1
  <2>5. QED
    BY <2>3, <2>4
<1>6. QED
  BY <1>1, <1>2, <1>3, <1>4, <1>5

(* A string is read back from what Escape writes and a quote.               *)
LEMMA EscapeIsRead ==
    ASSUME NEW s \in Bytes, NEW t \in Bytes, NEW i, Holds(t, i, Escape(s) \o <<Quote>>)
    PROVE  /\ RestOfString(t)[i] = <<s, i + Len(Escape(s)) + 1>>
           /\ Escape(s) \in Bytes /\ Quoted(s) \in Bytes
           /\ Len(Quoted(s)) = Len(Escape(s)) + 2
PROOF
<1> DEFINE rest == RestOfString(t)
           n == Len(s)
           Rest(a) == SubSeq(s, a, n)
           q == <<Quote>>
<1>1. PICK from \in [1 .. n + 1 -> Bytes] :
         /\ from[n + 1] = <<>>
         /\ \A a \in 1 .. n : from[a] = EscapeOne(s[a]) \o from[a + 1]
         /\ Escape(s) = from[1]
  BY EscapeSteps
<1>2. n \in Nat /\ \A a \in 1 .. n : s[a] \in Byte
  BY BytesLen
<1>3. q \in Bytes /\ Len(q) = 1 /\ q[1] = Quote
  BY DEF Bytes, Byte, Quote
<1>4. /\ Rest(n + 1) = <<>> /\ Rest(1) = s
      /\ \A a \in 1 .. n : Rest(a) = <<s[a]>> \o Rest(a + 1)
  BY Tails DEF Bytes
<1> DEFINE Good(a) == \A j : Holds(t, j, from[a] \o q)
           => rest[j] = <<Rest(a), j + Len(from[a]) + 1>>
           G == {a \in 1 .. n + 1 : Good(a)}
<1> HIDE DEF rest, q, Rest, n
<1>5. ASSUME NEW j, Holds(t, j, from[n + 1] \o q)
      PROVE  rest[j] = <<Rest(n + 1), j + Len(from[n + 1]) + 1>>
  <2>1. from[n + 1] = <<>> /\ Len(from[n + 1]) = 0 /\ <<>> \o q = q
    BY <1>1, <1>3, EmptySeq, ConcatEmptySeq DEF Bytes
  <2>2. Holds(t, j, q)
    BY <1>5, <2>1
  <2>3. Len(t) \in Nat
    BY BytesLen
  <2>4. j \in 1 .. Len(t) /\ t[j + 1 - 1] = Quote /\ j + 1 - 1 = j
    BY <1>3, <2>2, <2>3 DEF Holds
  <2>5. j \in 1 .. Len(t) + 1 /\ t[j] = Quote /\ ~(j > Len(t)) /\ t[j] \notin Plain
    BY <2>3, <2>4 DEF Plain
  <2>6. rest[j] = RestAt(t, j, rest)
    BY <2>5, RestOfStringSteps DEF rest
  <2>7. Past(t, j, Plain) = j
    BY <2>5, PastHere
  <2>8. SubSeq(t, j, j - 1) = <<>>
    BY <2>4, SubSeqEmpty
  <2>9. RestAt(t, j, rest) = <<<<>>, j + 1>>
    BY <2>5, <2>7, <2>8, RestAtIs DEF Got
  <2>10. j + 0 + 1 = j + 1
    BY <2>4
  <2>11. QED
    BY <1>4, <2>1, <2>6, <2>9, <2>10
<1>6. ASSUME NEW a \in 1 .. n, Good(a + 1), NEW j, Holds(t, j, from[a] \o q)
      PROVE  rest[j] = <<Rest(a), j + Len(from[a]) + 1>>
  <2> DEFINE o == EscapeOne(s[a])
             f == from[a + 1]
             m == j + Len(o)
  <2>1. a + 1 \in 1 .. n + 1 /\ a \in 1 .. n + 1 /\ s[a] \in Byte
    BY <1>2
  <2>2. o \in Bytes /\ f \in Bytes /\ from[a] = o \o f
    BY <1>1, <2>1, EscapeOneTyped
  <2> HIDE DEF o, f
  <2>3. (o \o f) \o q = o \o (f \o q) /\ f \o q \in Bytes /\ Len(o \o f) = Len(o) + Len(f)
    <3>1. o \in Bytes /\ f \in Bytes /\ q \in Bytes
      BY <1>3, <2>2
    <3>2. (o \o f) \o q = o \o (f \o q)
      BY <3>1, ThreeParts, SMTT(60)
    <3>3. f \o q \in Bytes /\ Len(o \o f) = Len(o) + Len(f)
      BY <3>1, ConcatBytes
    <3>4. QED
      BY <3>2, <3>3
  <2>4. Holds(t, j, o) /\ Holds(t, m, f \o q)
    <3> DEFINE w == f \o q
    <3>1. Holds(t, j, o \o w) /\ w \in Bytes
      BY <1>6, <2>2, <2>3
    <3> HIDE DEF w
    <3>2. Holds(t, j, o) /\ Holds(t, m, w)
      BY <2>2, <3>1, HoldsConcat
    <3>3. QED
      BY <3>2 DEF w
  <2>5. rest[m] = <<Rest(a + 1), m + Len(f) + 1>>
    BY <1>6, <2>4 DEF f
  <2>6. rest[m] # Throws /\ rest[m][1] = Rest(a + 1) /\ rest[m][2] = m + Len(f) + 1
    BY <2>5, ThrowsIsNothing DEF Got
  <2>7. rest[j] = <<<<s[a]>> \o rest[m][1], rest[m][2]>>
    BY <2>1, <2>4, <2>6, EscapeOneIsRead DEF o, rest
  <2>8. m + Len(f) + 1 = j + Len(from[a]) + 1
    <3>1. j \in Nat /\ Len(o) \in Nat /\ Len(f) \in Nat /\ Len(from[a]) = Len(o) + Len(f)
      BY <2>2, <2>3, <2>4, BytesLen DEF Holds
    <3>2. QED
      BY <3>1
  <2> HIDE DEF m
  <2>9. QED
    BY <1>4, <2>6, <2>7, <2>8
<1>7. \A a \in 1 .. n + 1 : a \in G
  <2>1. n + 1 \in Nat
    BY <1>2
  <2>2. Good(n + 1) /\ \A a \in 1 .. n : Good(a + 1) => Good(a)
    BY <1>5, <1>6
  <2> HIDE DEF Good
  <2>3. ASSUME NEW a \in 1 .. n + 1, \A b \in a + 1 .. n + 1 : b \in G
        PROVE  a \in G
    <3>1. CASE a = n + 1
      BY <2>2, <3>1
    <3>2. CASE a # n + 1
      <4>1. a \in 1 .. n /\ a + 1 \in a + 1 .. n + 1
        BY <1>2, <3>2
      <4>2. QED
        BY <2>2, <2>3, <4>1
    <3>3. QED
      BY <3>1, <3>2
  <2> HIDE DEF G
  <2>4. QED
    BY <2>1, <2>3, DownInduction
<1>8. 1 \in 1 .. n + 1
  BY <1>2
<1>9. rest[i] = <<s, i + Len(Escape(s)) + 1>>
  <2>1. Good(1)
    BY <1>7, <1>8
  <2> DEFINE x == from[1]
  <2>2. x = Escape(s) /\ Holds(t, i, x \o q)
    BY <1>1 DEF q
  <2>3. rest[i] = <<Rest(1), i + Len(x) + 1>>
    BY <2>1, <2>2
  <2>4. QED
    BY <1>4, <2>2, <2>3
<1>10. Escape(s) \in Bytes
  BY <1>1, <1>8
<1>11. Quoted(s) \in Bytes /\ Len(Quoted(s)) = Len(Escape(s)) + 2
  <2> DEFINE x == Escape(s)
             y == q \o x
  <2>1. y \in Bytes /\ Len(y) = 1 + Len(x) /\ Len(x) \in Nat
    BY <1>3, <1>10, ConcatBytes, BytesLen
  <2>2. Quoted(s) = y \o q
    BY DEF Quoted, q
  <2> HIDE DEF y
  <2>3. y \o q \in Bytes /\ Len(y \o q) = Len(y) + 1
    <3>1. y \in Bytes /\ q \in Bytes
      BY <1>3, <2>1
    <3>2. y \o q \in Bytes /\ Len(y \o q) = Len(y) + Len(q)
      BY <3>1, ConcatBytes
    <3>3. QED
      BY <1>3, <3>2
  <2>4. QED
    BY <2>1, <2>2, <2>3
<1>12. QED
  BY <1>9, <1>10, <1>11 DEF rest

(* parse_string reads what dump has written for a string. *)
LEMMA QuotedIsRead ==
    ASSUME NEW s \in Bytes, NEW t \in Bytes, NEW i, Holds(t, i, Quoted(s))
    PROVE  /\ ParseString(t, i) = <<String(s), i + Len(Quoted(s))>>
           /\ At(t, i) = Quote /\ i \in 1 .. Len(t)
PROOF
<1> DEFINE q == <<Quote>>
           x == Escape(s)
<1>1. q \in Bytes /\ Len(q) = 1 /\ q[1] = Quote
  BY DEF Bytes, Byte, Quote
<1>2. x \in Bytes
  <2>1. PICK from \in [1 .. Len(s) + 1 -> Bytes] : x = from[1]
    BY EscapeSteps
  <2>2. 1 \in 1 .. Len(s) + 1
    BY BytesLen
  <2>3. QED
    BY <2>1, <2>2
<1>3. Quoted(s) = (q \o x) \o q
  BY DEF Quoted
<1> HIDE DEF q, x
<1>4. (q \o x) \o q = q \o (x \o q) /\ x \o q \in Bytes
  BY <1>1, <1>2, ThreeParts, ConcatBytes
<1>5. Holds(t, i, q) /\ Holds(t, i + 1, x \o q)
  <2> DEFINE w == x \o q
  <2>1. Holds(t, i, q \o w) /\ w \in Bytes
    BY <1>3, <1>4
  <2> HIDE DEF w
  <2>2. Holds(t, i, q) /\ Holds(t, i + Len(q), w)
    BY <1>1, <2>1, HoldsConcat
  <2>3. QED
    BY <1>1, <2>2 DEF w
<1>6. RestOfString(t)[i + 1] = <<s, i + 1 + Len(x) + 1>> /\ Len(Quoted(s)) = Len(x) + 2
        /\ Len(x) \in Nat
  BY <1>2, <1>5, EscapeIsRead, BytesLen DEF q, x
<1>7. i \in 1 .. Len(t) /\ t[i + 1 - 1] = Quote /\ i + 1 - 1 = i
  BY <1>1, <1>5, BytesLen DEF Holds
<1>8. At(t, i) = Quote
  BY <1>7 DEF At
<1>9. i + 1 + Len(x) + 1 = i + Len(Quoted(s))
  BY <1>6, <1>7
<1> DEFINE r == RestOfString(t)[i + 1]
<1>10. ParseString(t, i) = IF r = Throws THEN Throws ELSE Got(String(r[1]), r[2])
  BY <1>7 DEF ParseString, Then
<1> HIDE DEF r
<1>11. r = <<s, i + Len(Quoted(s))>>
  BY <1>6, <1>9 DEF r
<1>12. ParseString(t, i) = <<String(s), i + Len(Quoted(s))>>
  BY <1>10, <1>11, ThrowsIsNothing DEF Got
<1>13. QED
  BY <1>7, <1>8, <1>12

(* What ParseString gives, at any place.                                    *)
LEMMA StringTyped ==
    ASSUME NEW t \in Bytes, NEW i \in 1 .. Len(t) + 1
    PROVE  /\ Gives(ParseString(t, i), {"string"} \X Bytes, i + 1, t)
           /\ Gives(ParseString(t, i), Flat, i + 1, t)
PROOF
<1> DEFINE j == IF i <= Len(t) THEN i + 1 ELSE i
           r == RestOfString(t)[j]
<1>1. j \in 1 .. Len(t) + 1 /\ j >= i /\ Len(t) \in Nat
  BY BytesLen
<1>2. Gives(r, Bytes, j + 1, t)
  BY <1>1, RestOfStringSteps
<1>3. ParseString(t, i) = IF r = Throws THEN Throws ELSE Got(String(r[1]), r[2])
  BY DEF ParseString, Then
<1> HIDE DEF j, r
<1>4. CASE r = Throws
  BY <1>3, <1>4 DEF Gives
<1>5. CASE r # Throws
  <2>1. r[1] \in Bytes /\ r[2] \in j + 1 .. Len(t) + 1
    BY <1>2, <1>5, GivesUse
  <2>2. r[2] \in i + 1 .. Len(t) + 1
    BY <1>1, <2>1
  <2>3. String(r[1]) \in {"string"} \X Bytes /\ String(r[1]) \in Flat
    BY <2>1 DEF String, Flat
  <2>4. ParseString(t, i) = <<String(r[1]), r[2]>>
    BY <1>3, <1>5 DEF Got
  <2>5. QED
    BY <2>2, <2>3, <2>4 DEF Gives
<1>6. QED
  BY <1>4, <1>5
=============================================================================
