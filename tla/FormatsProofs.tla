--------------------------- MODULE FormatsProofs ----------------------------
(****************************************************************************)
(* JSON values written and read again, nested as deep as the stack has     *)
(* room for; and the exchanges of clients and server that are made of      *)
(* them, for any methods, parameters, results, blocks, and texts of other  *)
(* clients.                                                                *)
(*                                                                         *)
(* The parser reads a text from its end: what it reads at a place depends  *)
(* on later places only (TypedAfter, SameAfter).  That gives it a meaning, *)
(* and values of bounded depth.  A value is written after those in it: the *)
(* round trip goes from one depth to the next.                             *)
(****************************************************************************)
EXTENDS Formats, TextProofs

-----------------------------------------------------------------------------
(* The levels of values.                                                    *)

(* The members of an object: named once, in the order of their names.       *)
Sorted(members) ==
    \A i, j \in DOMAIN members : i < j => Before(members[i][1], members[j][1])
MembersTo(S) == {members \in Seq(Bytes \X S) : Sorted(members)}

(* The values one level above those of S. *)
Above(S) == Flat \cup ({"array"} \X Seq(S)) \cup ({"object"} \X MembersTo(S))

LevelsTo(f, n) == f = [d \in 0 .. n |-> IF d = 0 THEN Flat ELSE Above(f[d-1])]

(* The values that are nested n deep at most can be built level by level.   *)
LEMMA LevelsExist == \A n \in Nat : \E f : LevelsTo(f, n)
PROOF
<1> DEFINE G == {n \in Nat : \E f : LevelsTo(f, n)}
<1>1. 0 \in G
  <2> DEFINE f == [d \in 0 .. 0 |-> Flat]
  <2>1. f = [d \in 0 .. 0 |-> IF d = 0 THEN Flat ELSE Above(f[d-1])]
    <3>1. \A d \in 0 .. 0 : d = 0
      OBVIOUS
    <3> HIDE DEF f
    <3>2. [d \in 0 .. 0 |-> Flat] = [d \in 0 .. 0 |-> IF d = 0 THEN Flat ELSE Above(f[d-1])]
      BY <3>1, Zenon
    <3>3. QED
      BY <3>2 DEF f
  <2> HIDE DEF f
  <2>2. LevelsTo(f, 0)
    BY <2>1 DEF LevelsTo
  <2>3. QED
    BY <2>2
<1>2. ASSUME NEW n \in Nat, n \in G
      PROVE  n + 1 \in G
  <2>1. PICK f : LevelsTo(f, n)
    BY <1>2
  <2> DEFINE h == [d \in 0 .. n + 1 |-> IF d = n + 1 THEN Above(f[n]) ELSE f[d]]
  <2>2. \A d \in 0 .. n + 1 : h[d] = IF d = 0 THEN Flat ELSE Above(h[d-1])
    <3>1. \A d \in 0 .. n : f[d] = IF d = 0 THEN Flat ELSE Above(f[d-1])
      BY <2>1 DEF LevelsTo
    <3>2. /\ h[n + 1] = Above(f[n])
          /\ \A d \in 0 .. n : h[d] = f[d]
      <4>1. n + 1 \in 0 .. n + 1 /\ \A d \in 0 .. n : d \in 0 .. n + 1 /\ d # n + 1
        OBVIOUS
      <4>2. QED
        BY <4>1
    <3> HIDE DEF h
    <3>3. ASSUME NEW d \in 0 .. n + 1
          PROVE  h[d] = IF d = 0 THEN Flat ELSE Above(h[d-1])
      <4>1. CASE d = n + 1
        <5>1. d # 0 /\ d - 1 = n /\ n \in 0 .. n
          BY <4>1
        <5>2. h[d - 1] = f[n]
          BY <3>2, <5>1
        <5>3. QED
          BY <3>2, <4>1, <5>1, <5>2
      <4>2. CASE d = 0
        <5>1. d \in 0 .. n
          BY <4>2
        <5>2. QED
          BY <3>1, <3>2, <4>2, <5>1
      <4>3. CASE d # n + 1 /\ d # 0
        <5>1. d \in 0 .. n /\ d - 1 \in 0 .. n
          BY <4>3
        <5>2. h[d] = f[d] /\ h[d-1] = f[d-1] /\ f[d] = Above(f[d-1])
          BY <3>1, <3>2, <4>3, <5>1
        <5>3. QED
          BY <4>3, <5>2
      <4>4. QED
        BY <4>1, <4>2, <4>3
    <3>4. QED
      BY <3>3
  <2>3. DOMAIN h = 0 .. n + 1 /\ h = [d \in 0 .. n + 1 |-> h[d]]
    OBVIOUS
  <2> HIDE DEF h
  <2>4. LevelsTo(h, n + 1)
    <3>1. [d \in 0 .. n + 1 |-> h[d]]
            = [d \in 0 .. n + 1 |-> IF d = 0 THEN Flat ELSE Above(h[d-1])]
      BY <2>2, Zenon
    <3>2. QED
      BY <2>3, <3>1, Zenon DEF LevelsTo
  <2>5. QED
    BY <2>4
<1> HIDE DEF G
<1>3. Nat \subseteq G
  BY <1>1, <1>2, NatInductionOnSet
<1>4. QED
  BY <1>3 DEF G

(* There is one way to build them. *)
LEMMA LevelsAgree ==
    ASSUME NEW n \in Nat, NEW m \in Nat, n <= m, NEW f, LevelsTo(f, n), NEW h,
           LevelsTo(h, m)
    PROVE  \A d \in 0 .. n : f[d] = h[d]
PROOF
<1> DEFINE G == {d \in Nat : d <= n => f[d] = h[d]}
<1>1. /\ \A d \in 0 .. n : f[d] = IF d = 0 THEN Flat ELSE Above(f[d-1])
      /\ \A d \in 0 .. m : h[d] = IF d = 0 THEN Flat ELSE Above(h[d-1])
  BY DEF LevelsTo
<1>2. 0 \in G
  BY <1>1
<1>3. ASSUME NEW d \in Nat, d \in G
      PROVE  d + 1 \in G
  <2>1. CASE d + 1 <= n
    <3>1. d + 1 \in 0 .. n /\ d + 1 \in 0 .. m /\ d + 1 - 1 = d /\ d + 1 # 0 /\ d <= n
      BY <2>1
    <3>2. f[d + 1] = Above(f[d]) /\ h[d + 1] = Above(h[d]) /\ f[d] = h[d]
      BY <1>1, <1>3, <3>1
    <3>3. QED
      BY <3>2
  <2>2. QED
    BY <2>1
<1> HIDE DEF G
<1>4. Nat \subseteq G
  BY <1>2, <1>3, NatInductionOnSet
<1>5. QED
  BY <1>4 DEF G

(* The levels of values are the sets they are meant to be.                  *)
LEMMA ValuesSteps ==
    /\ ValuesTo[0] = Flat
    /\ \A d \in Nat : ValuesTo[d + 1] = Above(ValuesTo[d])
PROOF
<1> DEFINE F(n) == CHOOSE f : LevelsTo(f, n)
           Step(g) == [d \in Nat |->
                          IF d = 0 THEN Flat
                          ELSE LET inner == g[d-1]
                               IN  Flat \cup ({"array"} \X Seq(inner)) \cup Objects(inner)]
           Solution(g) == g = Step(g)
           h == [n \in Nat |-> F(n)[n]]
<1>1. \A n \in Nat : LevelsTo(F(n), n)
  BY LevelsExist
<1>2. \A n \in Nat : \A d \in 0 .. n : F(n)[d] = IF d = 0 THEN Flat ELSE Above(F(n)[d-1])
  <2> HIDE DEF F
  <2>1. QED
    BY <1>1 DEF LevelsTo
<1>3. \A n \in Nat : h[n] = F(n)[n]
  OBVIOUS
<1>4. h[0] = Flat
  <2> HIDE DEF F, h
  <2>1. F(0)[0] = Flat
    BY <1>2
  <2>2. QED
    BY <1>3, <2>1
<1>5. ASSUME NEW d \in Nat
      PROVE  h[d + 1] = Above(h[d])
  <2>1. d + 1 \in Nat /\ d <= d + 1 /\ d \in 0 .. d /\ d + 1 \in 0 .. d + 1 /\ d + 1 # 0
          /\ d + 1 - 1 = d
    OBVIOUS
  <2> HIDE DEF F, h
  <2>2. F(d)[d] = F(d + 1)[d]
    <3> DEFINE a == F(d)
               b == F(d + 1)
               e == d + 1
    <3>1. LevelsTo(a, d) /\ LevelsTo(b, e) /\ e \in Nat /\ d <= e
      BY <1>1, <2>1
    <3> HIDE DEF a, b, e
    <3>2. \A k \in 0 .. d : a[k] = b[k]
      BY <3>1, LevelsAgree
    <3>3. QED
      BY <2>1, <3>2 DEF a, b, e
  <2>3. F(d + 1)[d + 1] = Above(F(d + 1)[d])
    BY <1>2, <2>1
  <2>4. QED
    BY <1>3, <2>1, <2>2, <2>3
<1>6. \A S : Flat \cup ({"array"} \X Seq(S)) \cup Objects(S) = Above(S)
  BY DEF Above, Objects, MembersTo, Sorted
<1>7. \A g : Step(g) = [d \in Nat |-> IF d = 0 THEN Flat ELSE Above(g[d-1])]
  BY <1>6
<1>8. Solution(h)
  <2>1. h = [n \in Nat |-> h[n]]
    OBVIOUS
  <2> HIDE DEF h, Step, F
  <2>2. ASSUME NEW d \in Nat
        PROVE  h[d] = IF d = 0 THEN Flat ELSE Above(h[d-1])
    <3>1. CASE d = 0
      BY <1>4, <3>1
    <3>2. CASE d # 0
      <4>1. d - 1 \in Nat /\ d - 1 + 1 = d
        BY <3>2
      <4>2. h[d - 1 + 1] = Above(h[d - 1])
        BY <1>5, <4>1
      <4>3. QED
        BY <3>2, <4>1, <4>2
    <3>3. QED
      BY <3>1, <3>2
  <2>3. [d \in Nat |-> h[d]] = [d \in Nat |-> IF d = 0 THEN Flat ELSE Above(h[d-1])]
    BY <2>2, Zenon
  <2>4. QED
    BY <1>7, <2>1, <2>3, Zenon
<1>9. ValuesTo = CHOOSE g : Solution(g)
  BY DEF ValuesTo
<1> HIDE DEF Solution, h
<1>10. Solution(ValuesTo)
  BY <1>8, <1>9
<1>11. \A d \in Nat : ValuesTo[d] = IF d = 0 THEN Flat ELSE Above(ValuesTo[d-1])
  <2> DEFINE V == ValuesTo
  <2>1. V = Step(V)
    BY <1>10 DEF Solution
  <2> HIDE DEF V, Step
  <2>2. V = [d \in Nat |-> IF d = 0 THEN Flat ELSE Above(V[d-1])]
    BY <1>7, <2>1
  <2>3. \A d \in Nat : V[d] = IF d = 0 THEN Flat ELSE Above(V[d-1])
    BY <2>2
  <2>4. QED
    BY <2>3 DEF V
<1>12. ASSUME NEW d \in Nat
       PROVE  ValuesTo[d + 1] = Above(ValuesTo[d])
  <2>1. d + 1 \in Nat /\ d + 1 # 0 /\ d + 1 - 1 = d
    OBVIOUS
  <2>2. QED
    BY <1>11, <2>1
<1>13. QED
  BY <1>11, <1>12

(* More values make more objects and arrays. *)
LEMMA MembersWiden ==
    ASSUME NEW S, NEW T, S \subseteq T
    PROVE  MembersTo(S) \subseteq MembersTo(T) /\ Seq(S) \subseteq Seq(T)
             /\ Above(S) \subseteq Above(T)
PROOF
<1>1. Seq(S) \subseteq Seq(T)
  BY SeqMonotonic
<1>2. Seq(Bytes \X S) \subseteq Seq(Bytes \X T)
  <2> DEFINE A == Bytes \X S
             B == Bytes \X T
  <2>1. A \subseteq B
    OBVIOUS
  <2> HIDE DEF A, B
  <2>2. QED
    BY <2>1, SeqMonotonic DEF A, B
<1>3. MembersTo(S) \subseteq MembersTo(T)
  BY <1>2 DEF MembersTo
<1>4. Above(S) \subseteq Above(T)
  BY <1>1, <1>3 DEF Above
<1>5. QED
  BY <1>1, <1>3, <1>4

(* Values may nest deeper than they do.                                     *)
LEMMA ValuesWiden ==
    ASSUME NEW d \in Nat, NEW e \in Nat, d <= e
    PROVE  ValuesTo[d] \subseteq ValuesTo[e] /\ Flat \subseteq ValuesTo[d]
PROOF
<1> DEFINE V == ValuesTo
<1>1. V[0] = Flat /\ \A k \in Nat : V[k + 1] = Above(V[k])
  BY ValuesSteps
<1> HIDE DEF V
<1>2. \A k \in Nat : V[k] \subseteq V[k + 1]
  <2> DEFINE G == {k \in Nat : V[k] \subseteq V[k + 1]}
  <2>1. 0 \in G
    BY <1>1 DEF Above
  <2>2. ASSUME NEW k \in Nat, k \in G
        PROVE  k + 1 \in G
    <3>1. V[k + 1] = Above(V[k]) /\ V[k + 1 + 1] = Above(V[k + 1])
            /\ V[k] \subseteq V[k + 1]
      BY <1>1, <2>2
    <3> DEFINE A == V[k]
               B == V[k + 1]
    <3>2. A \subseteq B
      BY <3>1
    <3> HIDE DEF A, B
    <3>3. Above(A) \subseteq Above(B)
      BY <3>2, MembersWiden
    <3>4. V[k + 1] \subseteq V[k + 1 + 1]
      BY <3>1, <3>3 DEF A, B
    <3>5. QED
      BY <3>4
  <2> HIDE DEF G
  <2>3. Nat \subseteq G
    BY <2>1, <2>2, NatInductionOnSet
  <2>4. QED
    BY <2>3 DEF G
<1>3. \A k \in Nat : V[d] \subseteq V[d + k] /\ V[0] \subseteq V[k]
  <2> DEFINE G == {k \in Nat : V[d] \subseteq V[d + k] /\ V[0] \subseteq V[k]}
  <2>1. 0 \in G
    <3>1. d + 0 = d
      OBVIOUS
    <3>2. QED
      BY <3>1
  <2>2. ASSUME NEW k \in Nat, k \in G
        PROVE  k + 1 \in G
    <3>1. d + k \in Nat /\ d + (k + 1) = d + k + 1
      OBVIOUS
    <3>2. V[d + k] \subseteq V[d + k + 1] /\ V[k] \subseteq V[k + 1]
      BY <1>2, <3>1
    <3>3. V[d] \subseteq V[d + (k + 1)] /\ V[0] \subseteq V[k + 1]
      BY <2>2, <3>1, <3>2
    <3>4. QED
      BY <3>3
  <2> HIDE DEF G
  <2>3. Nat \subseteq G
    BY <2>1, <2>2, NatInductionOnSet
  <2>4. QED
    BY <2>3 DEF G
<1>4. e - d \in Nat /\ d + (e - d) = e
  OBVIOUS
<1>5. QED
  BY <1>1, <1>3, <1>4 DEF V

(* What InsertAt makes of a sequence, place by place.                       *)
LEMMA Inserted ==
    ASSUME NEW S, NEW seq \in Seq(S), NEW e \in S, NEW p \in 1 .. Len(seq) + 1
    PROVE  /\ InsertAt(seq, p, e) \in Seq(S)
           /\ Len(InsertAt(seq, p, e)) = Len(seq) + 1
           /\ \A k \in 1 .. Len(seq) + 1 :
                InsertAt(seq, p, e)[k] =
                   IF k < p THEN seq[k] ELSE IF k = p THEN e ELSE seq[k - 1]
PROOF
<1> DEFINE n == Len(seq)
           a == SubSeq(seq, 1, p - 1)
           b == SubSeq(seq, p, n)
           o == <<e>>
           x == a \o o
<1>1. n \in Nat /\ p \in Nat /\ p >= 1 /\ p <= n + 1 /\ \A k \in 1 .. n : seq[k] \in S
  BY LenProperties, ElementOfSeq
<1>2. a \in Seq(S) /\ Len(a) = p - 1 /\ \A k \in 1 .. p - 1 : a[k] = seq[k]
  <2> DEFINE q == p - 1
  <2>1. 1 \in Int /\ q \in Int /\ \A k \in 1 .. q : seq[k] \in S
    BY <1>1
  <2> HIDE DEF q
  <2>2. /\ SubSeq(seq, 1, q) \in Seq(S)
        /\ Len(SubSeq(seq, 1, q)) = IF 1 <= q THEN q - 1 + 1 ELSE 0
        /\ \A i \in 1 .. q - 1 + 1 : SubSeq(seq, 1, q)[i] = seq[1 + i - 1]
    BY <2>1, SubSeqProperties
  <2>3. (IF 1 <= q THEN q - 1 + 1 ELSE 0) = q
    BY <1>1 DEF q
  <2>4. \A i \in 1 .. q : i \in 1 .. q - 1 + 1 /\ 1 + i - 1 = i
    BY <2>1
  <2>5. /\ SubSeq(seq, 1, q) \in Seq(S) /\ Len(SubSeq(seq, 1, q)) = q
        /\ \A k \in 1 .. q : SubSeq(seq, 1, q)[k] = seq[k]
    BY <2>2, <2>3, <2>4
  <2>6. QED
    BY <2>5 DEF q
<1>3. b \in Seq(S) /\ Len(b) = n + 1 - p /\ \A k \in 1 .. n + 1 - p : b[k] = seq[p + k - 1]
  BY Tails
<1>4. o \in Seq(S) /\ Len(o) = 1 /\ o[1] = e
  OBVIOUS
<1>5. InsertAt(seq, p, e) = x \o b
  BY DEF InsertAt
<1> HIDE DEF a, b, o, n
<1>6. /\ x \in Seq(S) /\ Len(x) = p
      /\ \A k \in 1 .. p : x[k] = IF k < p THEN seq[k] ELSE e
  <2>1. /\ x \in Seq(S) /\ Len(x) = Len(a) + Len(o)
        /\ \A k \in 1 .. Len(a) + Len(o) : x[k] = IF k <= Len(a) THEN a[k]
             ELSE o[k - Len(a)]
    BY <1>2, <1>4, ConcatProperties
  <2> HIDE DEF x
  <2>2. Len(a) + Len(o) = p
    BY <1>1, <1>2, <1>4
  <2>3. ASSUME NEW k \in 1 .. p
        PROVE  x[k] = IF k < p THEN seq[k] ELSE e
    <3>1. x[k] = IF k <= p - 1 THEN a[k] ELSE o[k - (p - 1)]
      BY <1>2, <2>1, <2>2
    <3>2. CASE k < p
      <4>1. k \in 1 .. p - 1 /\ k <= p - 1
        BY <1>1, <3>2
      <4>2. QED
        BY <1>2, <3>1, <3>2, <4>1
    <3>3. CASE ~(k < p)
      <4>1. k - (p - 1) = 1 /\ ~(k <= p - 1)
        BY <1>1, <3>3
      <4>2. QED
        BY <1>4, <3>1, <3>3, <4>1
    <3>4. QED
      BY <3>2, <3>3
  <2>4. QED
    BY <2>1, <2>2, <2>3
<1> HIDE DEF x
<1> DEFINE r == x \o b
<1>7. /\ r \in Seq(S) /\ Len(r) = Len(x) + Len(b)
      /\ \A k \in 1 .. Len(x) + Len(b) : r[k] = IF k <= Len(x) THEN x[k] ELSE b[k - Len(x)]
  BY <1>3, <1>6, ConcatProperties
<1> HIDE DEF r
<1>8. Len(x) + Len(b) = n + 1
  BY <1>1, <1>3, <1>6
<1>9. ASSUME NEW k \in 1 .. n + 1
      PROVE  r[k] = IF k < p THEN seq[k] ELSE IF k = p THEN e ELSE seq[k - 1]
  <2>1. r[k] = IF k <= p THEN x[k] ELSE b[k - p]
    BY <1>6, <1>7, <1>8
  <2>2. CASE k <= p
    <3>1. k \in 1 .. p /\ (k < p \/ k = p)
      BY <1>1, <2>2
    <3>2. r[k] = IF k < p THEN seq[k] ELSE e
      BY <1>6, <2>1, <2>2, <3>1
    <3>3. QED
      BY <3>1, <3>2
  <2>3. CASE ~(k <= p)
    <3>1. k - p \in 1 .. n + 1 - p /\ p + (k - p) - 1 = k - 1 /\ ~(k < p) /\ k # p
      BY <1>1, <2>3
    <3>2. b[k - p] = seq[p + (k - p) - 1]
      BY <1>3, <3>1
    <3>3. QED
      BY <2>1, <2>3, <3>1, <3>2
  <2>4. QED
    BY <2>2, <2>3
<1>10. InsertAt(seq, p, e) = r
  BY <1>5 DEF r
<1>11. QED
  BY <1>7, <1>8, <1>9, <1>10 DEF n

(* Where WithMember puts a member: before the first larger name.            *)
LEMMA WithMemberIs ==
    ASSUME NEW S, NEW member \in Bytes \X S, NEW members \in MembersTo(S),
           ~Has(members, member[1])
    PROVE  \E p \in 1 .. Len(members) + 1 :
              /\ WithMember(member, members) = InsertAt(members, p, member)
              /\ \A k \in 1 .. p - 1 : Before(members[k][1], member[1])
              /\ \A k \in p .. Len(members) : Before(member[1], members[k][1])
PROOF
<1> DEFINE n == Len(members)
           name == member[1]
           L == {k \in 1 .. n + 1 : k > n \/ Before(name, members[k][1])}
           p == Min(L)
<1>1. /\ n \in Nat /\ DOMAIN members = 1 .. n /\ Sorted(members)
      /\ \A k \in 1 .. n : members[k] \in Bytes \X S
  BY LenProperties, ElementOfSeq DEF MembersTo
<1>2. \A k \in 1 .. n : members[k][1] \in Bytes /\ members[k][1] # name
  BY <1>1 DEF Has
<1>3. name \in Bytes
  OBVIOUS
<1>4. n + 1 \in L /\ L \subseteq Nat /\ L # {}
  BY <1>1
<1>5. p \in L /\ \A j \in L : p <= j
  <2> HIDE DEF L
  <2>1. QED
    BY <1>4, MinIs
<1>6. WithMember(member, members) = InsertAt(members, p, member)
  BY DEF WithMember
<1> HIDE DEF p
<1>7. p \in 1 .. n + 1
  BY <1>5
<1>8. ASSUME NEW k \in 1 .. p - 1
      PROVE  Before(members[k][1], name)
  <2>1. k \in 1 .. n /\ k < p /\ k \in 1 .. n + 1
    BY <1>1, <1>7
  <2>2. k \notin L
    BY <1>1, <1>5, <2>1
  <2>3. ~Before(name, members[k][1])
    BY <2>1, <2>2
  <2> DEFINE other == members[k][1]
  <2>4. other \in Bytes /\ other # name
    BY <1>2, <2>1
  <2> HIDE DEF other, name
  <2>5. Before(other, name) \/ Before(name, other)
    BY <1>3, <2>4, BeforeIsTotal
  <2>6. QED
    BY <2>3, <2>5 DEF other
<1>9. ASSUME NEW k \in p .. n
      PROVE  Before(name, members[k][1])
  <2>1. p \in 1 .. n /\ k \in 1 .. n
    BY <1>1, <1>7
  <2>2. Before(name, members[p][1])
    BY <1>1, <1>5, <2>1
  <2>3. CASE k = p
    BY <2>2, <2>3
  <2>4. CASE k # p
    <3>1. p < k
      BY <1>7, <2>1, <2>4
    <3>2. Before(members[p][1], members[k][1])
      BY <1>1, <2>1, <3>1 DEF Sorted
    <3> DEFINE a == members[p][1]
               b == members[k][1]
    <3>3. a \in Bytes /\ b \in Bytes
      BY <1>2, <2>1
    <3> HIDE DEF a, b, name
    <3>4. Before(name, a) /\ Before(a, b)
      BY <2>2, <3>2 DEF a, b
    <3>5. Before(name, b)
      BY <1>3, <3>3, <3>4, BeforeIsStrict
    <3>6. QED
      BY <3>5 DEF b
  <2>5. QED
    BY <2>3, <2>4
<1>10. QED
  BY <1>6, <1>7, <1>8, <1>9

(* A member that is put in its place leaves the names of an object in order.*)
LEMMA WithMemberTyped ==
    ASSUME NEW S, NEW member \in Bytes \X S, NEW members \in MembersTo(S)
    PROVE  WithMember(member, members) \in MembersTo(S)
PROOF
<1>1. CASE Has(members, member[1])
  BY <1>1 DEF WithMember
<1>2. CASE ~Has(members, member[1])
  <2> DEFINE n == Len(members)
             name == member[1]
             r == WithMember(member, members)
  <2>1. PICK p \in 1 .. n + 1 :
              /\ r = InsertAt(members, p, member)
              /\ \A k \in 1 .. p - 1 : Before(members[k][1], name)
              /\ \A k \in p .. n : Before(name, members[k][1])
    BY <1>2, WithMemberIs
  <2>2. /\ n \in Nat /\ DOMAIN members = 1 .. n /\ Sorted(members)
        /\ members \in Seq(Bytes \X S)
    BY LenProperties DEF MembersTo
  <2>3. /\ r \in Seq(Bytes \X S) /\ Len(r) = n + 1
        /\ \A k \in 1 .. n + 1 : r[k] = IF k < p THEN members[k] ELSE IF k = p THEN member
             ELSE members[k - 1]
    <3> DEFINE T == Bytes \X S
    <3>1. members \in Seq(T) /\ member \in T
      BY <2>2
    <3> HIDE DEF T
    <3>2. p \in 1 .. Len(members) + 1
      BY <2>1
    <3> HIDE DEF n, r, name
    <3>3. /\ InsertAt(members, p, member) \in Seq(T)
          /\ Len(InsertAt(members, p, member)) = Len(members) + 1
          /\ \A k \in 1 .. Len(members) + 1 :
                InsertAt(members, p, member)[k] =
                   IF k < p THEN members[k] ELSE IF k = p THEN member ELSE members[k - 1]
      BY <3>1, <3>2, Inserted
    <3>4. QED
      BY <2>1, <3>3 DEF T, n
  <2>4. DOMAIN r = 1 .. n + 1
    BY <2>3, LenProperties
  <2> HIDE DEF r, n, name
  <2>5. ASSUME NEW i \in 1 .. n + 1, NEW j \in 1 .. n + 1, i < j
        PROVE  Before(r[i][1], r[j][1])
    <3>1. \A a, b \in 1 .. n : a < b => Before(members[a][1], members[b][1])
      BY <2>2 DEF Sorted
    <3>2. CASE j < p
      <4>1. i < p /\ i \in 1 .. n /\ j \in 1 .. n
        BY <2>2, <2>5, <3>2
      <4>2. r[i] = members[i] /\ r[j] = members[j]
        BY <2>3, <3>2, <4>1
      <4>3. QED
        BY <2>5, <3>1, <4>1, <4>2
    <3>3. CASE j = p
      <4>1. i < p /\ i \in 1 .. p - 1
        BY <2>2, <2>5, <3>3
      <4>2. r[i] = members[i] /\ r[j] = member
        BY <2>3, <3>3, <4>1
      <4>3. QED
        BY <2>1, <4>1, <4>2 DEF name
    <3>4. CASE p < j
      <4>1. j - 1 \in p .. n /\ j - 1 \in 1 .. n /\ ~(j < p) /\ j # p
        BY <2>2, <3>4
      <4>2. r[j] = members[j - 1]
        BY <2>3, <4>1
      <4>3. CASE i < p
        <5>1. i \in 1 .. n /\ i < j - 1
          BY <2>2, <4>1, <4>3
        <5>2. r[i] = members[i]
          BY <2>3, <4>3
        <5>3. QED
          BY <3>1, <4>1, <4>2, <5>1, <5>2
      <4>4. CASE i = p
        <5>1. r[i] = member
          BY <2>3, <4>4
        <5>2. QED
          BY <2>1, <4>1, <4>2, <5>1 DEF name
      <4>5. CASE p < i
        <5>1. i - 1 \in 1 .. n /\ i - 1 < j - 1 /\ ~(i < p) /\ i # p
          BY <2>2, <2>5, <4>1, <4>5
        <5>2. r[i] = members[i - 1]
          BY <2>3, <5>1
        <5>3. QED
          BY <3>1, <4>1, <4>2, <5>1, <5>2
      <4>6. QED
        BY <2>2, <4>3, <4>4, <4>5
    <3>5. QED
      BY <2>2, <3>2, <3>3, <3>4
  <2>6. Sorted(r)
    BY <2>4, <2>5 DEF Sorted
  <2>7. QED
    BY <2>3, <2>6 DEF MembersTo, r
<1>3. QED
  BY <1>1, <1>2

(* A member whose name is smaller than all others becomes the first.        *)
LEMMA WithSmallest ==
    ASSUME NEW S, NEW member \in Bytes \X S, NEW members \in MembersTo(S),
           \A k \in 1 .. Len(members) : Before(member[1], members[k][1])
    PROVE  WithMember(member, members) = <<member>> \o members
PROOF
<1> DEFINE n == Len(members)
           name == member[1]
           T == Bytes \X S
<1>1. /\ n \in Nat /\ DOMAIN members = 1 .. n
      /\ members \in Seq(T) /\ \A k \in 1 .. n : members[k] \in T
  BY LenProperties, ElementOfSeq DEF MembersTo
<1>2. name \in Bytes /\ \A k \in 1 .. n : members[k][1] \in Bytes
  BY <1>1
<1>3. \A s \in Bytes : ~Before(s, s)
  BY BeforeIsStrict
<1>4. ~Has(members, name)
  BY <1>1, <1>2, <1>3 DEF Has
<1>5. PICK p \in 1 .. n + 1 :
              /\ WithMember(member, members) = InsertAt(members, p, member)
              /\ \A k \in 1 .. p - 1 : Before(members[k][1], name)
  BY <1>4, WithMemberIs
<1>6. p = 1
  <2>1. SUFFICES ASSUME p # 1 PROVE FALSE
    OBVIOUS
  <2>2. 1 \in 1 .. p - 1 /\ 1 \in 1 .. n
    BY <1>1, <2>1
  <2> DEFINE other == members[1][1]
  <2>3. other \in Bytes /\ Before(other, name) /\ Before(name, other)
    BY <1>2, <1>5, <2>2
  <2> HIDE DEF other, name
  <2>4. Before(name, name)
    BY <1>2, <2>3, BeforeIsStrict
  <2>5. QED
    BY <1>2, <1>3, <2>4
<1>7. SubSeq(members, 1, 0) = <<>> /\ SubSeq(members, 1, n) = members
  BY <1>1, SubSeqEmpty, SubSeqFull
<1>8. WithMember(member, members) = (<<>> \o <<member>>) \o members
  BY <1>5, <1>6, <1>7 DEF InsertAt
<1>9. <<>> \o <<member>> = <<member>>
  <2>1. <<member>> \in Seq(T)
    OBVIOUS
  <2>2. QED
    BY <2>1, ConcatEmptySeq
<1>10. QED
  BY <1>8, <1>9

-----------------------------------------------------------------------------
(* Reading.                                                                 *)

(* The values that can begin at k: the deeper, the more of the text is left.*)
LevelAt(t, k) == ValuesTo[Len(t) + 1 - k]

(* read gives items and members, from the places after i on.                *)
TypedAt(t, k, read) ==
    /\ Gives(read[<<"items", k>>], Seq(LevelAt(t, k)), k + 1, t)
    /\ Gives(read[<<"members", k>>], MembersTo(LevelAt(t, k)), k + 1, t)
TypedAfter(t, i, read) == \A k \in i + 1 .. Len(t) + 1 : TypedAt(t, k, read)

SameAfter(t, i, g, h) ==
    \A k \in i + 1 .. Len(t) + 1 : /\ g[<<"items", k>>] = h[<<"items", k>>]
                                   /\ g[<<"members", k>>] = h[<<"members", k>>]

(* What is read is also of a larger set, and comes after an earlier place.  *)
LEMMA GivesWiden ==
    ASSUME NEW got, NEW A, NEW B, A \subseteq B, NEW i \in Int, NEW j \in Int, j <= i,
           NEW t \in Bytes,
           Gives(got, A, i, t)
    PROVE  Gives(got, B, j, t)
PROOF
<1>1. CASE got = Throws
  BY <1>1 DEF Gives
<1>2. CASE got # Throws
  <2>1. got = <<got[1], got[2]>> /\ got[1] \in A /\ got[2] \in i .. Len(t) + 1
    BY <1>2, GivesUse
  <2>2. Len(t) \in Nat
    BY BytesLen
  <2>3. got[2] \in j .. Len(t) + 1 /\ got[1] \in B
    BY <2>1, <2>2
  <2>4. QED
    BY <2>1, <2>3 DEF Gives
<1>3. QED
  BY <1>1, <1>2

(* The later a value starts, the fewer brackets it can have. *)
LEMMA LevelsNest ==
    ASSUME NEW t \in Bytes, NEW i \in 1 .. Len(t) + 1, NEW k \in i .. Len(t) + 1
    PROVE  /\ LevelAt(t, k) \subseteq LevelAt(t, i) /\ Flat \subseteq LevelAt(t, i)
           /\ k > i => Above(LevelAt(t, k)) \subseteq LevelAt(t, i)
PROOF
<1> DEFINE d == Len(t) + 1 - k
           e == Len(t) + 1 - i
<1>1. Len(t) \in Nat
  BY BytesLen
<1>2. d \in Nat /\ e \in Nat /\ d <= e
  BY <1>1
<1> HIDE DEF d, e
<1>3. ValuesTo[d] \subseteq ValuesTo[e] /\ Flat \subseteq ValuesTo[e]
  BY <1>2, ValuesWiden
<1>4. ASSUME k > i
      PROVE  Above(ValuesTo[d]) \subseteq ValuesTo[e]
  <2> DEFINE f == d + 1
  <2>1. f \in Nat /\ f <= e
    BY <1>1, <1>4 DEF d, e
  <2>2. ValuesTo[f] = Above(ValuesTo[d])
    BY <1>2, ValuesSteps
  <2> HIDE DEF f
  <2>3. ValuesTo[f] \subseteq ValuesTo[e]
    BY <1>2, <2>1, ValuesWiden
  <2>4. QED
    BY <2>2, <2>3
<1>5. QED
  BY <1>3, <1>4 DEF LevelAt, d, e

(* Of the words null, true and false: each is read as its value, or not at  *)
(* all.                                                                     *)
LEMMA WordTyped ==
    ASSUME NEW t \in Bytes, NEW i \in 1 .. Len(t) + 1
    PROVE  /\ Gives(Word(t, i, True, Bool(TRUE)), Flat, i + 1, t)
           /\ Gives(Word(t, i, False, Bool(FALSE)), Flat, i + 1, t)
           /\ Gives(Word(t, i, NullWord, Null), Flat, i + 1, t)
PROOF
<1>1. Len(t) \in Nat
  BY BytesLen
<1>2. ASSUME NEW word, Len(word) \in Nat \ {0}, NEW v \in Flat
      PROVE  Gives(Word(t, i, word, v), Flat, i + 1, t)
  <2> DEFINE n == Len(word)
  <2>1. Word(t, i, word, v) = Throws
        \/ (i + n - 1 <= Len(t) /\ Word(t, i, word, v) = <<v, i + n>>)
    BY DEF Word, Got
  <2>2. i + n - 1 <= Len(t) => i + n \in i + 1 .. Len(t) + 1
    BY <1>1, <1>2
  <2>3. QED
    BY <2>1, <2>2 DEF Gives
<1>3. Len(True) = 4 /\ Len(False) = 5 /\ Len(NullWord) = 4
  BY DEF True, False, NullWord
<1>4. Bool(TRUE) \in Flat /\ Bool(FALSE) \in Flat /\ Null \in Flat
  BY DEF Bool, Null, Flat
<1>5. Len(True) \in Nat \ {0} /\ Len(False) \in Nat \ {0} /\ Len(NullWord) \in Nat \ {0}
  BY <1>3
<1>6. Gives(Word(t, i, True, Bool(TRUE)), Flat, i + 1, t)
  BY <1>2, <1>4, <1>5, Zenon
<1>7. Gives(Word(t, i, False, Bool(FALSE)), Flat, i + 1, t)
  BY <1>2, <1>4, <1>5, Zenon
<1>8. Gives(Word(t, i, NullWord, Null), Flat, i + 1, t)
  BY <1>2, <1>4, <1>5, Zenon
<1>9. QED
  BY <1>6, <1>7, <1>8

(* The cases of ValueAt, one at a time.                                     *)
LEMMA ValueCases ==
    ASSUME NEW t, NEW i, NEW read
    PROVE  LET c == At(t, i)
               k == SkipWs(t, i + 1)
               ms == read[<<"members", k>>]
               is == read[<<"items", k>>]
           IN  /\ c = OpenBrace => ValueAt(t, i, read) =
                    IF At(t, k) = CloseBrace THEN Got(Object(<<>>), k + 1)
                    ELSE IF ms = Throws THEN Throws ELSE Got(Object(ms[1]), ms[2])
               /\ c = OpenBracket => ValueAt(t, i, read) =
                    IF At(t, k) = CloseBracket THEN Got(Array(<<>>), k + 1)
                    ELSE IF is = Throws THEN Throws ELSE Got(Array(is[1]), is[2])
               /\ c = Quote => ValueAt(t, i, read) = ParseString(t, i)
               /\ c = 116 => ValueAt(t, i, read) = Word(t, i, True, Bool(TRUE))
               /\ c = 102 => ValueAt(t, i, read) = Word(t, i, False, Bool(FALSE))
               /\ c = 110 => ValueAt(t, i, read) = Word(t, i, NullWord, Null)
               /\ c \in Digit \cup {Minus} => ValueAt(t, i, read) = ParseNumber(t, i)
               /\ c \notin {OpenBrace, OpenBracket, Quote, 116, 102, 110} \cup Digit
                    \cup {Minus}
                    => ValueAt(t, i, read) = Throws
PROOF
<1> DEFINE c == At(t, i)
           k == SkipWs(t, i + 1)
           ms == read[<<"members", k>>]
           is == read[<<"items", k>>]
           A == IF At(t, k) = CloseBrace THEN Got(Object(<<>>), k + 1)
                ELSE IF ms = Throws THEN Throws ELSE Got(Object(ms[1]), ms[2])
           B == IF At(t, k) = CloseBracket THEN Got(Array(<<>>), k + 1)
                    ELSE IF is = Throws THEN Throws ELSE Got(Array(is[1]), is[2])
           S == ParseString(t, i)
           W1 == Word(t, i, True, Bool(TRUE))
           W2 == Word(t, i, False, Bool(FALSE))
           W3 == Word(t, i, NullWord, Null)
           N == ParseNumber(t, i)
           V == ValueAt(t, i, read)
<1>1. True[1] = 116 /\ False[1] = 102 /\ NullWord[1] = 110
  BY DEF True, False, NullWord
<1>2. V = CASE c = OpenBrace -> A [] c = OpenBracket -> B [] c = Quote -> S
            [] c = True[1] -> W1 [] c = False[1] -> W2 [] c = NullWord[1] -> W3
            [] c \in Digit \cup {Minus} -> N [] OTHER -> Throws
  BY DEF ValueAt, Then
<1> HIDE DEF c, A, B, S, W1, W2, W3, N, V
<1>3. V = CASE c = OpenBrace -> A [] c = OpenBracket -> B [] c = Quote -> S
            [] c = 116 -> W1 [] c = 102 -> W2 [] c = 110 -> W3
            [] c \in Digit \cup {Minus} -> N [] OTHER -> Throws
  BY <1>1, <1>2
<1>4. c = OpenBrace => V = A
  BY <1>3 DEF OpenBrace, OpenBracket, Quote, Digit, Minus
<1>5. c = OpenBracket => V = B
  BY <1>3 DEF OpenBrace, OpenBracket, Quote, Digit, Minus
<1>6. c = Quote => V = S
  BY <1>3 DEF OpenBrace, OpenBracket, Quote, Digit, Minus
<1>7. /\ c = 116 => V = W1
      /\ c = 102 => V = W2
      /\ c = 110 => V = W3
  BY <1>3 DEF OpenBrace, OpenBracket, Quote, Digit, Minus
<1>8. c \in Digit \cup {Minus} => V = N
  BY <1>3 DEF OpenBrace, OpenBracket, Quote, Digit, Minus
<1>9. c \notin {OpenBrace, OpenBracket, Quote, 116, 102, 110} \cup Digit \cup {Minus}
      => V = Throws
  BY <1>3 DEF OpenBrace, OpenBracket, Quote, Digit, Minus
<1>10. QED
  BY <1>4, <1>5, <1>6, <1>7, <1>8, <1>9 DEF c, A, B, S, W1, W2, W3, N, V

(* parse_value: the first byte says what follows, if it is neither array nor*)
(* object.                                                                  *)
LEMMA FlatCases ==
    ASSUME NEW t, NEW i, NEW read
    PROVE  /\ At(t, i) = Quote => ValueAt(t, i, read) = ParseString(t, i)
           /\ At(t, i) = 116 => ValueAt(t, i, read) = Word(t, i, True, Bool(TRUE))
           /\ At(t, i) = 102 => ValueAt(t, i, read) = Word(t, i, False, Bool(FALSE))
           /\ At(t, i) = 110 => ValueAt(t, i, read) = Word(t, i, NullWord, Null)
           /\ At(t, i) \in Digit \cup {Minus} => ValueAt(t, i, read) = ParseNumber(t, i)
           /\ At(t, i) \notin {OpenBrace, OpenBracket, Quote, 116, 102, 110} \cup Digit
                \cup {Minus}
                => ValueAt(t, i, read) = Throws
BY ValueCases, ZenonT(60)

(* parse_value gives a value that is nested no deeper than the text is long *)
(* from there on.                                                           *)
LEMMA ValueAtTyped ==
    ASSUME NEW t \in Bytes, NEW i \in 1 .. Len(t) + 1, NEW read, TypedAfter(t, i, read)
    PROVE  Gives(ValueAt(t, i, read), LevelAt(t, i), i + 1, t)
PROOF
<1> DEFINE c == At(t, i)
           k == SkipWs(t, i + 1)
           ms == read[<<"members", k>>]
           is == read[<<"items", k>>]
           got == ValueAt(t, i, read)
           W == LevelAt(t, i)
<1>1. Len(t) \in Nat
  BY BytesLen
<1>2. Flat \subseteq W
  <2>1. i \in i .. Len(t) + 1
    BY <1>1
  <2>2. QED
    BY <2>1, LevelsNest
<1>3. /\ c = OpenBrace => got =
                    IF At(t, k) = CloseBrace THEN Got(Object(<<>>), k + 1)
                    ELSE IF ms = Throws THEN Throws ELSE Got(Object(ms[1]), ms[2])
      /\ c = OpenBracket => got =
                    IF At(t, k) = CloseBracket THEN Got(Array(<<>>), k + 1)
                    ELSE IF is = Throws THEN Throws ELSE Got(Array(is[1]), is[2])
      /\ c = Quote => got = ParseString(t, i)
      /\ c = 116 => got = Word(t, i, True, Bool(TRUE))
      /\ c = 102 => got = Word(t, i, False, Bool(FALSE))
      /\ c = 110 => got = Word(t, i, NullWord, Null)
      /\ c \in Digit \cup {Minus} => got = ParseNumber(t, i)
      /\ c \notin {OpenBrace, OpenBracket, Quote, 116, 102, 110} \cup Digit \cup {Minus}
                    => got = Throws
  BY ValueCases
<1>4. ASSUME Gives(got, Flat, i + 1, t)
      PROVE  Gives(got, W, i + 1, t)
  <2> DEFINE j == i + 1
  <2>1. j \in Int /\ j <= j
    BY <1>1
  <2> HIDE DEF j, W, got
  <2>2. Gives(got, Flat, j, t)
    BY <1>4 DEF j
  <2>3. QED
    BY <1>2, <2>1, <2>2, GivesWiden DEF j
<1>5. /\ Gives(ParseString(t, i), Flat, i + 1, t)
      /\ Gives(Word(t, i, True, Bool(TRUE)), Flat, i + 1, t)
      /\ Gives(Word(t, i, False, Bool(FALSE)), Flat, i + 1, t)
      /\ Gives(Word(t, i, NullWord, Null), Flat, i + 1, t)
  BY StringTyped, WordTyped
<1>6. c # 0 => i \in 1 .. Len(t)
  BY <1>1, AtIs
<1>7. c \in Digit \cup {Minus} => Gives(ParseNumber(t, i), Flat, i + 1, t)
  <2>1. c \in Digit \cup {Minus} => c # 0
    BY DEF Digit, Minus
  <2>2. QED
    BY <1>6, <2>1, NumberTyped
<1>8. ASSUME c \in {OpenBrace, OpenBracket}
      PROVE  Gives(got, W, i + 1, t)
  <2>1. i \in 1 .. Len(t) /\ i + 1 \in 1 .. Len(t) + 1
    BY <1>1, <1>6, <1>8 DEF OpenBrace, OpenBracket
  <2>2. k \in i + 1 .. Len(t) + 1
    BY <2>1, PastStops DEF SkipWs
  <2>3. k \in i .. Len(t) + 1 /\ k > i /\ k \in 1 .. Len(t) + 1
    BY <1>1, <2>2
  <2> DEFINE X == LevelAt(t, k)
  <2>4. Above(X) \subseteq W
    BY <2>3, LevelsNest
  <2>5. Gives(ms, MembersTo(X), k + 1, t) /\ Gives(is, Seq(X), k + 1, t)
    BY <2>2 DEF TypedAfter, TypedAt
  <2>6. At(t, k) # 0 => k + 1 \in i + 1 .. Len(t) + 1
    <3>1. At(t, k) # 0 => k \in 1 .. Len(t)
      BY <1>1, <2>3, AtIs
    <3>2. QED
      BY <1>1, <2>3, <3>1
  <2>7. \A m \in k + 1 .. Len(t) + 1 : m \in i + 1 .. Len(t) + 1
    BY <1>1, <2>3
  <2>8. <<>> \in Seq(X) /\ <<>> \in MembersTo(X)
    <3>1. \A S : <<>> \in Seq(S)
      BY EmptySeq
    <3>2. QED
      BY <3>1 DEF MembersTo, Sorted
  <2> HIDE DEF c, k, ms, is, got, W, X
  <2>9. CASE c = OpenBrace
    <3>1. CASE At(t, k) = CloseBrace
      <4>1. got = <<Object(<<>>), k + 1>>
        BY <1>3, <2>9, <3>1 DEF Got
      <4>2. Object(<<>>) \in W
        BY <2>4, <2>8 DEF Above, Object
      <4>3. k + 1 \in i + 1 .. Len(t) + 1
        BY <2>6, <3>1 DEF CloseBrace
      <4>4. QED
        BY <4>1, <4>2, <4>3 DEF Gives
    <3>2. CASE At(t, k) # CloseBrace /\ ms = Throws
      BY <1>3, <2>9, <3>2 DEF Gives
    <3>3. CASE At(t, k) # CloseBrace /\ ms # Throws
      <4>1. got = <<Object(ms[1]), ms[2]>>
        BY <1>3, <2>9, <3>3 DEF Got
      <4>2. ms[1] \in MembersTo(X) /\ ms[2] \in k + 1 .. Len(t) + 1
        BY <2>5, <3>3, GivesUse
      <4>3. Object(ms[1]) \in W
        BY <2>4, <4>2 DEF Above, Object
      <4>4. QED
        BY <2>7, <4>1, <4>2, <4>3 DEF Gives
    <3>4. QED
      BY <3>1, <3>2, <3>3
  <2>10. CASE c = OpenBracket
    <3>1. CASE At(t, k) = CloseBracket
      <4>1. got = <<Array(<<>>), k + 1>>
        BY <1>3, <2>10, <3>1 DEF Got
      <4>2. Array(<<>>) \in W
        BY <2>4, <2>8 DEF Above, Array
      <4>3. k + 1 \in i + 1 .. Len(t) + 1
        BY <2>6, <3>1 DEF CloseBracket
      <4>4. QED
        BY <4>1, <4>2, <4>3 DEF Gives
    <3>2. CASE At(t, k) # CloseBracket /\ is = Throws
      BY <1>3, <2>10, <3>2 DEF Gives
    <3>3. CASE At(t, k) # CloseBracket /\ is # Throws
      <4>1. got = <<Array(is[1]), is[2]>>
        BY <1>3, <2>10, <3>3 DEF Got
      <4>2. is[1] \in Seq(X) /\ is[2] \in k + 1 .. Len(t) + 1
        BY <2>5, <3>3, GivesUse
      <4>3. Array(is[1]) \in W
        BY <2>4, <4>2 DEF Above, Array
      <4>4. QED
        BY <2>7, <4>1, <4>2, <4>3 DEF Gives
    <3>4. QED
      BY <3>1, <3>2, <3>3
  <2>11. QED
    BY <1>8, <2>9, <2>10 DEF c
<1>9. ASSUME c \notin {OpenBrace, OpenBracket}
      PROVE  Gives(got, W, i + 1, t)
  <2> HIDE DEF c, got, W
  <2>1. CASE c \in {Quote, 116, 102, 110} \cup Digit \cup {Minus}
    <3>1. Gives(got, Flat, i + 1, t)
      BY <1>3, <1>5, <1>7, <2>1
    <3>2. QED
      BY <1>4, <3>1
  <2>2. CASE c \notin {Quote, 116, 102, 110} \cup Digit \cup {Minus}
    <3>1. got = Throws
      BY <1>3, <1>9, <2>2
    <3>2. QED
      BY <3>1 DEF Gives
  <2>3. QED
    BY <2>1, <2>2
<1>10. QED
  BY <1>8, <1>9

(* parse_value depends only on what comes later in the text. *)
LEMMA ValueAtSame ==
    ASSUME NEW t \in Bytes, NEW i \in 1 .. Len(t) + 1, NEW g, NEW h, SameAfter(t, i, g, h)
    PROVE  ValueAt(t, i, g) = ValueAt(t, i, h)
PROOF
<1> DEFINE c == At(t, i)
           k == SkipWs(t, i + 1)
<1>1. Len(t) \in Nat
  BY BytesLen
<1>2. c # 0 => i \in 1 .. Len(t)
  BY <1>1, AtIs
<1>3. CASE c \in {OpenBrace, OpenBracket}
  <2>1. i \in 1 .. Len(t) /\ i + 1 \in 1 .. Len(t) + 1
    BY <1>1, <1>2, <1>3 DEF OpenBrace, OpenBracket
  <2>2. k \in i + 1 .. Len(t) + 1
    BY <2>1, PastStops DEF SkipWs
  <2>3. g[<<"items", k>>] = h[<<"items", k>>] /\ g[<<"members", k>>] = h[<<"members", k>>]
    BY <2>2 DEF SameAfter
  <2> HIDE DEF k
  <2>4. QED
    BY <2>3 DEF ValueAt, k
<1>4. CASE c \notin {OpenBrace, OpenBracket}
  <2> DEFINE P == ParseString(t, i)
             N == ParseNumber(t, i)
             A == Word(t, i, True, Bool(TRUE))
             B == Word(t, i, False, Bool(FALSE))
             D == Word(t, i, NullWord, Null)
             E == {OpenBrace, OpenBracket, Quote, 116, 102, 110} \cup Digit \cup {Minus}
             Flats(r) == /\ c = Quote => ValueAt(t, i, r) = P
                         /\ c = 116 => ValueAt(t, i, r) = A
                         /\ c = 102 => ValueAt(t, i, r) = B
                         /\ c = 110 => ValueAt(t, i, r) = D
                         /\ c \in Digit \cup {Minus} => ValueAt(t, i, r) = N
                         /\ c \notin E => ValueAt(t, i, r) = Throws
  <2>1. Flats(g)
    BY FlatCases
  <2>2. Flats(h)
    BY FlatCases
  <2>3. c = Quote \/ c = 116 \/ c = 102 \/ c = 110 \/ c \in Digit \cup {Minus} \/ c \notin E
    BY <1>4
  <2> HIDE DEF c, P, N, A, B, D, E
  <2>4. QED
    BY <2>1, <2>2, <2>3
<1>5. QED
  BY <1>3, <1>4

(* After blanks there is less that can still be read.                       *)
LEMMA AfterBlanks ==
    ASSUME NEW t \in Bytes, NEW i \in 1 .. Len(t) + 1
    PROVE  /\ SkipWs(t, i) \in i .. Len(t) + 1 /\ SkipWs(t, i) \in 1 .. Len(t) + 1
           /\ \A read : TypedAfter(t, i, read) => TypedAfter(t, SkipWs(t, i), read)
           /\ \A g, h : SameAfter(t, i, g, h) => SameAfter(t, SkipWs(t, i), g, h)
           /\ LevelAt(t, SkipWs(t, i)) \subseteq LevelAt(t, i)
PROOF
<1> DEFINE k == SkipWs(t, i)
<1>1. Len(t) \in Nat
  BY BytesLen
<1>2. k \in i .. Len(t) + 1
  BY PastStops DEF SkipWs
<1> HIDE DEF k
<1>3. k \in 1 .. Len(t) + 1 /\ \A m \in k + 1 .. Len(t) + 1 : m \in i + 1 .. Len(t) + 1
  BY <1>1, <1>2
<1>4. LevelAt(t, k) \subseteq LevelAt(t, i)
  BY <1>2, LevelsNest
<1>5. \A read : TypedAfter(t, i, read) => TypedAfter(t, k, read)
  BY <1>3 DEF TypedAfter
<1>6. \A g, h : SameAfter(t, i, g, h) => SameAfter(t, k, g, h)
  BY <1>3 DEF SameAfter
<1>7. QED
  BY <1>2, <1>3, <1>4, <1>5, <1>6 DEF k

ItemHere(t, i, read) == ValueAt(t, SkipWs(t, i), read)

(* One turn of the loop of parse_array: an item, and then a bracket, a      *)
(* comma, or neither.                                                       *)
LEMMA ItemsCases ==
    ASSUME NEW t, NEW i, NEW read
    PROVE  LET item == ItemHere(t, i, read)
               end == EndOf(t, item)
               r == read[<<"items", end + 1>>]
           IN  ItemsAt(t, i, read) =
                 IF item = Throws THEN Throws
                 ELSE IF At(t, end) = CloseBracket THEN Got(<<item[1]>>, end + 1)
                 ELSE IF At(t, end) = Comma
                 THEN IF r = Throws THEN Throws ELSE Got(<<item[1]>> \o r[1], r[2])
                 ELSE Throws
BY DEF ItemsAt, ItemsFrom, Then, ItemHere

(* A value after blanks, and the place after the blanks that follow it.     *)
LEMMA ItemTyped ==
    ASSUME NEW t \in Bytes, NEW i \in 1 .. Len(t) + 1, NEW read, TypedAfter(t, i, read),
           ItemHere(t, i, read) # Throws
    PROVE  /\ ItemHere(t, i, read) = <<ItemHere(t, i, read)[1], ItemHere(t, i, read)[2]>>
           /\ ItemHere(t, i, read)[1] \in LevelAt(t, i)
           /\ EndOf(t, ItemHere(t, i, read)) \in i + 1 .. Len(t) + 1
           /\ At(t, EndOf(t, ItemHere(t, i, read))) # 0 =>
                 EndOf(t, ItemHere(t, i, read)) + 1 \in i + 2 .. Len(t) + 1
PROOF
<1> DEFINE k == SkipWs(t, i)
           item == ItemHere(t, i, read)
           e == EndOf(t, item)
<1>1. Len(t) \in Nat
  BY BytesLen
<1>2. k \in i .. Len(t) + 1 /\ k \in 1 .. Len(t) + 1 /\ TypedAfter(t, k, read)
      /\ LevelAt(t, k) \subseteq LevelAt(t, i)
  BY AfterBlanks
<1>3. Gives(item, LevelAt(t, k), k + 1, t)
  <2> HIDE DEF k
  <2>1. Gives(ValueAt(t, k, read), LevelAt(t, k), k + 1, t)
    BY <1>2, ValueAtTyped
  <2>2. QED
    BY <2>1 DEF ItemHere, k
<1> HIDE DEF k
<1>4. item = <<item[1], item[2]>> /\ item[1] \in LevelAt(t, k)
        /\ item[2] \in k + 1 .. Len(t) + 1
  <2> HIDE DEF item
  <2>1. item # Throws
    BY DEF item
  <2>2. QED
    BY <1>3, <2>1, GivesUse
<1> DEFINE j == item[2]
<1>5. j \in 1 .. Len(t) + 1 /\ j \in i + 1 .. Len(t) + 1
  <2> HIDE DEF item
  <2>1. QED
    BY <1>1, <1>2, <1>4
<1>6. e \in j .. Len(t) + 1
  <2> HIDE DEF item, j
  <2>1. SkipWs(t, j) \in j .. Len(t) + 1
    BY <1>5, AfterBlanks
  <2>2. QED
    BY <2>1 DEF EndOf, j
<1> HIDE DEF item, e, j
<1>7. e \in i + 1 .. Len(t) + 1 /\ e \in Nat \ {0}
  BY <1>1, <1>5, <1>6
<1>8. At(t, e) # 0 => e + 1 \in i + 2 .. Len(t) + 1
  <2>1. At(t, e) # 0 => e \in 1 .. Len(t)
    BY <1>7, AtIs
  <2>2. QED
    BY <1>1, <1>7, <2>1
<1>9. QED
  BY <1>2, <1>4, <1>7, <1>8 DEF item, e, j

(* The items of an array are values. *)
LEMMA ItemsAtTyped ==
    ASSUME NEW t \in Bytes, NEW i \in 1 .. Len(t) + 1, NEW read, TypedAfter(t, i, read)
    PROVE  Gives(ItemsAt(t, i, read), Seq(LevelAt(t, i)), i + 1, t)
PROOF
<1> DEFINE item == ItemHere(t, i, read)
           e == EndOf(t, item)
           r == read[<<"items", e + 1>>]
           got == ItemsAt(t, i, read)
           X == LevelAt(t, i)
<1>1. Len(t) \in Nat
  BY BytesLen
<1>2. got = IF item = Throws THEN Throws
                 ELSE IF At(t, e) = CloseBracket THEN Got(<<item[1]>>, e + 1)
                 ELSE IF At(t, e) = Comma
                 THEN IF r = Throws THEN Throws ELSE Got(<<item[1]>> \o r[1], r[2])
                 ELSE Throws
  BY ItemsCases
<1>3. item # Throws => /\ item[1] \in X /\ (At(t, e) # 0 => e + 1 \in i + 2 .. Len(t) + 1)
  BY ItemTyped
<1>8. SUFFICES Gives(got, Seq(X), i + 1, t)
  OBVIOUS
<1> HIDE DEF item, got, X
<1>4. CASE got = Throws
  BY <1>4 DEF Gives
<1>5. CASE item # Throws /\ At(t, e) = CloseBracket
  <2> HIDE DEF e, r
  <2>1. got = <<<<item[1]>>, e + 1>>
    BY <1>2, <1>5 DEF Got
  <2>2. <<item[1]>> \in Seq(X) /\ e + 1 \in i + 1 .. Len(t) + 1
    BY <1>1, <1>3, <1>5 DEF CloseBracket
  <2>3. QED
    BY <2>1, <2>2 DEF Gives
<1>6. CASE item # Throws /\ At(t, e) # CloseBracket /\ At(t, e) = Comma /\ r # Throws
  <2> DEFINE m == e + 1
  <2>1. m \in i + 2 .. Len(t) + 1
    BY <1>3, <1>6 DEF Comma
  <2>2. m \in i + 1 .. Len(t) + 1 /\ m \in i .. Len(t) + 1 /\ m \in Int
    BY <1>1, <2>1
  <2> HIDE DEF m
  <2>3. Gives(r, Seq(LevelAt(t, m)), m + 1, t)
    BY <2>2 DEF TypedAfter, TypedAt, m
  <2>4. LevelAt(t, m) \subseteq X
    BY <2>2, LevelsNest DEF X
  <2> HIDE DEF e, r
  <2>5. r[1] \in Seq(LevelAt(t, m)) /\ r[2] \in m + 1 .. Len(t) + 1
    BY <1>6, <2>3, GivesUse
  <2>6. r[1] \in Seq(X) /\ r[2] \in i + 1 .. Len(t) + 1
    <3>1. Seq(LevelAt(t, m)) \subseteq Seq(X)
      BY <2>4, MembersWiden
    <3>2. QED
      BY <1>1, <2>2, <2>5, <3>1
  <2> DEFINE o == <<item[1]>>
             y == o \o r[1]
  <2>7. o \in Seq(X)
    BY <1>3, <1>6
  <2> HIDE DEF o
  <2>8. y \in Seq(X)
    BY <2>6, <2>7, ConcatProperties
  <2> HIDE DEF y
  <2>9. got = <<y, r[2]>>
    BY <1>2, <1>6 DEF Got, y, o
  <2>10. QED
    BY <2>6, <2>8, <2>9 DEF Gives
<1>7. QED
  <2> HIDE DEF e, r
  <2>1. QED
    BY <1>2, <1>4, <1>5, <1>6

(* They depend only on what comes later in the text. *)
LEMMA ItemsAtSame ==
    ASSUME NEW t \in Bytes, NEW i \in 1 .. Len(t) + 1, NEW g, NEW h,
           TypedAfter(t, i, g), SameAfter(t, i, g, h)
    PROVE  ItemsAt(t, i, g) = ItemsAt(t, i, h) /\ ItemHere(t, i, g) = ItemHere(t, i, h)
PROOF
<1> DEFINE item == ItemHere(t, i, g)
           e == EndOf(t, item)
           a == g[<<"items", e + 1>>]
           b == h[<<"items", e + 1>>]
<1>1. item = ItemHere(t, i, h)
  <2> DEFINE k == SkipWs(t, i)
  <2>1. k \in 1 .. Len(t) + 1 /\ SameAfter(t, k, g, h)
    BY AfterBlanks
  <2> HIDE DEF k
  <2>2. ValueAt(t, k, g) = ValueAt(t, k, h)
    BY <2>1, ValueAtSame
  <2>3. QED
    BY <2>2 DEF ItemHere, k
<1>2. ItemsAt(t, i, g) = IF item = Throws THEN Throws
                 ELSE IF At(t, e) = CloseBracket THEN Got(<<item[1]>>, e + 1)
                 ELSE IF At(t, e) = Comma
                 THEN IF a = Throws THEN Throws ELSE Got(<<item[1]>> \o a[1], a[2])
                 ELSE Throws
  BY ItemsCases
<1>3. ItemsAt(t, i, h) = IF item = Throws THEN Throws
                 ELSE IF At(t, e) = CloseBracket THEN Got(<<item[1]>>, e + 1)
                 ELSE IF At(t, e) = Comma
                 THEN IF b = Throws THEN Throws ELSE Got(<<item[1]>> \o b[1], b[2])
                 ELSE Throws
  <2> DEFINE item2 == ItemHere(t, i, h)
             e2 == EndOf(t, item2)
             b2 == h[<<"items", e2 + 1>>]
  <2>1. ItemsAt(t, i, h) = IF item2 = Throws THEN Throws
                 ELSE IF At(t, e2) = CloseBracket THEN Got(<<item2[1]>>, e2 + 1)
                 ELSE IF At(t, e2) = Comma
                 THEN IF b2 = Throws THEN Throws ELSE Got(<<item2[1]>> \o b2[1], b2[2])
                 ELSE Throws
    BY ItemsCases
  <2>2. item2 = item
    BY <1>1
  <2> HIDE DEF item, item2
  <2>3. QED
    BY <2>1, <2>2
<1>4. item # Throws /\ At(t, e) = Comma => a = b
  <2>1. item # Throws /\ At(t, e) = Comma => e + 1 \in i + 2 .. Len(t) + 1
    BY ItemTyped DEF Comma
  <2> HIDE DEF item, e
  <2>2. item # Throws /\ At(t, e) = Comma => e + 1 \in i + 1 .. Len(t) + 1
    BY <2>1, BytesLen
  <2>3. QED
    BY <2>2 DEF SameAfter
<1> HIDE DEF item, e, a, b
<1>5. ItemsAt(t, i, g) = ItemsAt(t, i, h)
  BY <1>2, <1>3, <1>4
<1>6. QED
  BY <1>1, <1>5 DEF item

NameHere(t, i) == ParseString(t, SkipWs(t, i))
ColonHere(t, name) == SkipWs(t, name[2])
(* Where the value of a member begins, or the blanks before it.             *)
AfterColon(t, i) == ColonHere(t, NameHere(t, i)) + 1
NameGiven(t, i) == NameHere(t, i) # Throws /\ At(t, ColonHere(t, NameHere(t, i))) = Colon
MemberOf(t, i, value) == <<NameHere(t, i)[1][2], value[1]>>

(* One turn of the loop of parse_object: a name, a colon and a value, and   *)
(* then a brace, a comma, or neither.                                       *)
LEMMA MembersCases ==
    ASSUME NEW t, NEW i, NEW read
    PROVE  LET value == ItemHere(t, AfterColon(t, i), read)
               end == EndOf(t, value)
               r == read[<<"members", end + 1>>]
           IN  MembersAt(t, i, read) =
                 IF ~NameGiven(t, i) \/ value = Throws THEN Throws
                 ELSE IF At(t, end) = CloseBrace
                   THEN Got(<<MemberOf(t, i, value)>>, end + 1)
                 ELSE IF At(t, end) = Comma
                 THEN IF r = Throws THEN Throws
                   ELSE Got(WithMember(MemberOf(t, i, value), r[1]), r[2])
                 ELSE Throws
BY DEF MembersAt, MembersNamed, MembersFrom, Then, EndOf, ItemHere, AfterColon, NameGiven,
   MemberOf, NameHere,
       ColonHere

(* The name of a member is a string, and its value comes later in the text. *)
LEMMA NameTyped ==
    ASSUME NEW t \in Bytes, NEW i \in 1 .. Len(t) + 1, NameGiven(t, i)
    PROVE  /\ NameHere(t, i)[1][2] \in Bytes
           /\ AfterColon(t, i) \in i + 2 .. Len(t) + 1
           /\ AfterColon(t, i) \in 1 .. Len(t) + 1
           /\ \A read : TypedAfter(t, i, read) => TypedAfter(t, AfterColon(t, i), read)
           /\ \A g, h : SameAfter(t, i, g, h) => SameAfter(t, AfterColon(t, i), g, h)
           /\ LevelAt(t, AfterColon(t, i)) \subseteq LevelAt(t, i)
PROOF
<1> DEFINE k == SkipWs(t, i)
           name == NameHere(t, i)
           e == ColonHere(t, name)
           m == e + 1
<1>1. Len(t) \in Nat
  BY BytesLen
<1>2. k \in i .. Len(t) + 1 /\ k \in 1 .. Len(t) + 1
  BY AfterBlanks
<1>3. Gives(name, {"string"} \X Bytes, k + 1, t)
  <2> HIDE DEF k
  <2>1. Gives(ParseString(t, k), {"string"} \X Bytes, k + 1, t)
    BY <1>2, StringTyped
  <2>2. QED
    BY <2>1 DEF NameHere, k
<1> HIDE DEF k
<1>4. name # Throws /\ At(t, e) = Colon
  BY DEF NameGiven
<1> DEFINE j == name[2]
<1>5. name[1] \in {"string"} \X Bytes /\ j \in k + 1 .. Len(t) + 1
  <2> HIDE DEF name
  <2>1. QED
    BY <1>3, <1>4, GivesUse
<1>6. name[1][2] \in Bytes
  <2> HIDE DEF name
  <2>1. QED
    BY <1>5
<1>7. j \in 1 .. Len(t) + 1 /\ j \in i + 1 .. Len(t) + 1
  <2> HIDE DEF name, j
  <2>1. QED
    BY <1>1, <1>2, <1>5
<1>8. e \in j .. Len(t) + 1
  <2> HIDE DEF name, j
  <2>1. SkipWs(t, j) \in j .. Len(t) + 1
    BY <1>7, AfterBlanks
  <2>2. QED
    BY <2>1 DEF ColonHere, j
<1> HIDE DEF name, e, j
<1>9. e \in 1 .. Len(t)
  <2>1. e \in Nat \ {0} /\ At(t, e) # 0
    BY <1>1, <1>4, <1>7, <1>8 DEF Colon
  <2>2. QED
    BY <2>1, AtIs
<1>10. m \in i + 2 .. Len(t) + 1 /\ m \in 1 .. Len(t) + 1 /\ m \in i .. Len(t) + 1
  BY <1>1, <1>7, <1>8, <1>9
<1>11. AfterColon(t, i) = m
  BY DEF AfterColon, m, e, name
<1> HIDE DEF m
<1>12. \A n \in m + 1 .. Len(t) + 1 : n \in i + 1 .. Len(t) + 1
  BY <1>1, <1>10
<1>13. LevelAt(t, m) \subseteq LevelAt(t, i)
  BY <1>10, LevelsNest
<1>14. \A read : TypedAfter(t, i, read) => TypedAfter(t, m, read)
  BY <1>12 DEF TypedAfter
<1>15. \A g, h : SameAfter(t, i, g, h) => SameAfter(t, m, g, h)
  BY <1>12 DEF SameAfter
<1>16. QED
  BY <1>6, <1>10, <1>11, <1>13, <1>14, <1>15 DEF name

(* The members of an object are values, with their names in order. *)
LEMMA MembersAtTyped ==
    ASSUME NEW t \in Bytes, NEW i \in 1 .. Len(t) + 1, NEW read, TypedAfter(t, i, read)
    PROVE  Gives(MembersAt(t, i, read), MembersTo(LevelAt(t, i)), i + 1, t)
PROOF
<1> DEFINE q == AfterColon(t, i)
           value == ItemHere(t, q, read)
           e == EndOf(t, value)
           r == read[<<"members", e + 1>>]
           got == MembersAt(t, i, read)
           X == LevelAt(t, i)
           member == MemberOf(t, i, value)
<1>1. Len(t) \in Nat
  BY BytesLen
<1>2. got = IF ~NameGiven(t, i) \/ value = Throws THEN Throws
                 ELSE IF At(t, e) = CloseBrace THEN Got(<<member>>, e + 1)
                 ELSE IF At(t, e) = Comma
                 THEN IF r = Throws THEN Throws ELSE Got(WithMember(member, r[1]), r[2])
                 ELSE Throws
  BY MembersCases
<1>3. ASSUME NameGiven(t, i), value # Throws
      PROVE  member \in Bytes \X X /\ (At(t, e) # 0 => e + 1 \in i + 2 .. Len(t) + 1)
  <2>1. /\ NameHere(t, i)[1][2] \in Bytes
        /\ q \in i + 2 .. Len(t) + 1 /\ q \in 1 .. Len(t) + 1
        /\ TypedAfter(t, q, read) /\ LevelAt(t, q) \subseteq X
    BY <1>3, NameTyped
  <2> HIDE DEF q
  <2>2. value[1] \in LevelAt(t, q) /\ (At(t, e) # 0 => e + 1 \in q + 2 .. Len(t) + 1)
    BY <1>3, <2>1, ItemTyped
  <2>3. member \in Bytes \X X
    BY <2>1, <2>2 DEF MemberOf
  <2> HIDE DEF value, e
  <2>4. At(t, e) # 0 => e + 1 \in i + 2 .. Len(t) + 1
    BY <1>1, <2>1, <2>2
  <2>5. QED
    BY <2>3, <2>4
<1>4. SUFFICES Gives(got, MembersTo(X), i + 1, t)
  OBVIOUS
<1> HIDE DEF q, value, got, X, member
<1>5. CASE got = Throws
  BY <1>5 DEF Gives
<1>6. CASE NameGiven(t, i) /\ value # Throws /\ At(t, e) = CloseBrace
  <2> HIDE DEF e, r
  <2>1. got = <<<<member>>, e + 1>>
    BY <1>2, <1>6 DEF Got
  <2>2. e + 1 \in i + 1 .. Len(t) + 1 /\ member \in Bytes \X X
    BY <1>1, <1>3, <1>6 DEF CloseBrace
  <2> DEFINE ms == <<member>>
  <2>3. ms \in MembersTo(X)
    <3>1. ms \in Seq(Bytes \X X)
      BY <2>2
    <3>2. DOMAIN ms = {1}
      OBVIOUS
    <3>3. Sorted(ms)
      BY <3>2 DEF Sorted
    <3>4. QED
      BY <3>1, <3>3 DEF MembersTo
  <2> HIDE DEF ms
  <2>4. got = <<ms, e + 1>>
    BY <2>1 DEF ms
  <2>5. QED
    BY <2>2, <2>3, <2>4 DEF Gives
<1>7. CASE NameGiven(t, i) /\ value # Throws /\ At(t, e) # CloseBrace /\ At(t, e) = Comma
             /\ r # Throws
  <2> DEFINE m == e + 1
  <2>1. m \in i + 2 .. Len(t) + 1 /\ member \in Bytes \X X
    BY <1>3, <1>7 DEF Comma
  <2>2. m \in i + 1 .. Len(t) + 1 /\ m \in i .. Len(t) + 1 /\ m \in Int
    BY <1>1, <2>1
  <2> HIDE DEF m
  <2>3. Gives(r, MembersTo(LevelAt(t, m)), m + 1, t)
    BY <2>2 DEF TypedAfter, TypedAt, m
  <2>4. LevelAt(t, m) \subseteq X
    BY <2>2, LevelsNest DEF X
  <2> HIDE DEF e, r
  <2>5. r[1] \in MembersTo(LevelAt(t, m)) /\ r[2] \in m + 1 .. Len(t) + 1
    BY <1>7, <2>3, GivesUse
  <2>6. r[1] \in MembersTo(X) /\ r[2] \in i + 1 .. Len(t) + 1
    <3>1. MembersTo(LevelAt(t, m)) \subseteq MembersTo(X)
      BY <2>4, MembersWiden
    <3>2. QED
      BY <1>1, <2>2, <2>5, <3>1
  <2> DEFINE y == WithMember(member, r[1])
  <2>7. y \in MembersTo(X)
    BY <2>1, <2>6, WithMemberTyped
  <2> HIDE DEF y
  <2>8. got = <<y, r[2]>>
    BY <1>2, <1>7 DEF Got, y
  <2>9. QED
    BY <2>6, <2>7, <2>8 DEF Gives
<1>8. QED
  <2> HIDE DEF e, r
  <2>1. QED
    BY <1>2, <1>5, <1>6, <1>7

(* They depend only on what comes later in the text. *)
LEMMA MembersAtSame ==
    ASSUME NEW t \in Bytes, NEW i \in 1 .. Len(t) + 1, NEW g, NEW h,
           TypedAfter(t, i, g), SameAfter(t, i, g, h)
    PROVE  MembersAt(t, i, g) = MembersAt(t, i, h)
PROOF
<1> DEFINE q == AfterColon(t, i)
           value == ItemHere(t, q, g)
           e == EndOf(t, value)
           a == g[<<"members", e + 1>>]
           b == h[<<"members", e + 1>>]
           member == MemberOf(t, i, value)
<1>1. CASE ~NameGiven(t, i)
  BY <1>1, MembersCases
<1>2. CASE NameGiven(t, i)
  <2>1. /\ q \in i + 2 .. Len(t) + 1 /\ q \in 1 .. Len(t) + 1
        /\ TypedAfter(t, q, g) /\ SameAfter(t, q, g, h)
    BY <1>2, NameTyped
  <2>2. value = ItemHere(t, q, h)
    <3> HIDE DEF q
    <3>1. ItemHere(t, q, g) = ItemHere(t, q, h)
      BY <2>1, ItemsAtSame
    <3>2. QED
      BY <3>1
  <2>3. MembersAt(t, i, g) = IF value = Throws THEN Throws
                 ELSE IF At(t, e) = CloseBrace THEN Got(<<member>>, e + 1)
                 ELSE IF At(t, e) = Comma
                 THEN IF a = Throws THEN Throws ELSE Got(WithMember(member, a[1]), a[2])
                 ELSE Throws
    BY <1>2, MembersCases
  <2>4. MembersAt(t, i, h) = IF value = Throws THEN Throws
                 ELSE IF At(t, e) = CloseBrace THEN Got(<<member>>, e + 1)
                 ELSE IF At(t, e) = Comma
                 THEN IF b = Throws THEN Throws ELSE Got(WithMember(member, b[1]), b[2])
                 ELSE Throws
    <3> DEFINE value2 == ItemHere(t, q, h)
               e2 == EndOf(t, value2)
               b2 == h[<<"members", e2 + 1>>]
               member2 == MemberOf(t, i, value2)
    <3>1. MembersAt(t, i, h) = IF value2 = Throws THEN Throws
                 ELSE IF At(t, e2) = CloseBrace THEN Got(<<member2>>, e2 + 1)
                 ELSE IF At(t, e2) = Comma
                 THEN IF b2 = Throws THEN Throws ELSE Got(WithMember(member2, b2[1]), b2[2])
                 ELSE Throws
      BY <1>2, MembersCases
    <3>2. value2 = value
      BY <2>2
    <3> HIDE DEF value, value2
    <3>3. QED
      BY <3>1, <3>2
  <2>5. value # Throws /\ At(t, e) = Comma => a = b
    <3>1. value # Throws /\ At(t, e) = Comma => e + 1 \in q + 2 .. Len(t) + 1
      <4> HIDE DEF q
      <4>1. QED
        BY <2>1, ItemTyped DEF Comma
    <3> HIDE DEF value, e, q
    <3>2. value # Throws /\ At(t, e) = Comma => e + 1 \in i + 1 .. Len(t) + 1
      BY <2>1, <3>1, BytesLen
    <3>3. QED
      BY <3>2 DEF SameAfter
  <2> HIDE DEF value, e, a, b, member
  <2>6. QED
    BY <2>3, <2>4, <2>5
<1>3. QED
  BY <1>1, <1>2

(* Reading items and members is the function it is meant to be.             *)
LEMMA ReaderSteps ==
    ASSUME NEW t \in Bytes
    PROVE  /\ \A k \in 1 .. Len(t) + 1 :
                 /\ Reader(t)[<<"items", k>>] = ItemsAt(t, k, Reader(t))
                 /\ Reader(t)[<<"members", k>>] = MembersAt(t, k, Reader(t))
                 /\ TypedAt(t, k, Reader(t))
           /\ \A i \in 0 .. Len(t) + 1 : TypedAfter(t, i, Reader(t))
PROOF
<1> DEFINE n == Len(t)
           K == {"items", "members"}
           D == K \X (1 .. n + 1)
           OK(g, p) == IF p[1] = "items"
                       THEN Gives(g[p], Seq(LevelAt(t, p[2])), p[2] + 1, t)
                       ELSE Gives(g[p], MembersTo(LevelAt(t, p[2])), p[2] + 1, t)
           Sane(g) == [p \in D |-> IF OK(g, p) THEN g[p] ELSE Throws]
           Body(g, p) == IF p[1] = "items" THEN ItemsAt(t, p[2], g)
                           ELSE MembersAt(t, p[2], g)
           L == (UNION {Seq(LevelAt(t, k)) : k \in 1 .. n + 1})
                  \cup (UNION {MembersTo(LevelAt(t, k)) : k \in 1 .. n + 1})
           S == {Throws} \cup (L \X (1 .. n + 1))
           Step == [g \in [D -> S] |-> [p \in D |-> Body(Sane(g), p)]]
           rank == [p \in D |-> n + 1 - p[2]]
<1>1. n \in Nat
  BY BytesLen
<1>2. \A k \in 1 .. n + 1 : <<"items", k>> \in D /\ <<"members", k>> \in D
  OBVIOUS
<1>3. \A p \in D : /\ p[2] \in 1 .. n + 1
                   /\ p = <<"items", p[2]>> \/ p = <<"members", p[2]>>
                   /\ p[1] = "items" \/ p[1] = "members"
  OBVIOUS
<1>4. ASSUME NEW g, NEW k \in 1 .. n + 1
      PROVE  TypedAt(t, k, Sane(g))
  <2> DEFINE a == <<"items", k>>
             b == <<"members", k>>
             s == Sane(g)
  <2>1. /\ a \in D /\ b \in D /\ a[1] = "items" /\ a[2] = k
        /\ b[1] # "items" /\ b[2] = k
    BY <1>2
  <2>2. s[a] = (IF OK(g, a) THEN g[a] ELSE Throws)
          /\ s[b] = (IF OK(g, b) THEN g[b] ELSE Throws)
    <3> HIDE DEF OK, D, a, b
    <3>1. QED
      BY <2>1
  <2> HIDE DEF s
  <2>3. Gives(s[a], Seq(LevelAt(t, k)), k + 1, t)
    <3>1. OK(g, a) <=> Gives(g[a], Seq(LevelAt(t, k)), k + 1, t)
      BY <2>1
    <3>2. Gives(Throws, Seq(LevelAt(t, k)), k + 1, t)
      BY DEF Gives
    <3> HIDE DEF OK, a
    <3>3. QED
      BY <2>2, <3>1, <3>2
  <2>4. Gives(s[b], MembersTo(LevelAt(t, k)), k + 1, t)
    <3>1. OK(g, b) <=> Gives(g[b], MembersTo(LevelAt(t, k)), k + 1, t)
      BY <2>1
    <3>2. Gives(Throws, MembersTo(LevelAt(t, k)), k + 1, t)
      BY DEF Gives
    <3> HIDE DEF OK, b
    <3>3. QED
      BY <2>2, <3>1, <3>2
  <2>5. QED
    BY <2>3, <2>4 DEF TypedAt, s, a, b
<1>5. ASSUME NEW g, NEW i \in 0 .. n + 1
      PROVE  TypedAfter(t, i, Sane(g))
  <2>1. \A k \in i + 1 .. n + 1 : k \in 1 .. n + 1
    BY <1>1
  <2> HIDE DEF Sane
  <2>2. QED
    BY <1>4, <2>1 DEF TypedAfter
<1>6. ASSUME NEW g, NEW p \in D
      PROVE  IF p[1] = "items"
             THEN Gives(Body(Sane(g), p), Seq(LevelAt(t, p[2])), p[2] + 1, t)
             ELSE Gives(Body(Sane(g), p), MembersTo(LevelAt(t, p[2])), p[2] + 1, t)
  <2> DEFINE k == p[2]
             s == Sane(g)
  <2>1. k \in 1 .. n + 1 /\ k \in 0 .. n + 1
    BY <1>3
  <2>2. TypedAfter(t, k, s)
    <3> HIDE DEF Sane, k
    <3>1. QED
      BY <1>5, <2>1
  <2> HIDE DEF s, k
  <2>3. Gives(ItemsAt(t, k, s), Seq(LevelAt(t, k)), k + 1, t)
    BY <2>1, <2>2, ItemsAtTyped
  <2>4. Gives(MembersAt(t, k, s), MembersTo(LevelAt(t, k)), k + 1, t)
    BY <2>1, <2>2, MembersAtTyped
  <2>5. QED
    BY <2>3, <2>4 DEF k, s
<1>7. ASSUME NEW g, NEW p \in D
      PROVE  Body(Sane(g), p) \in S
  <2> DEFINE k == p[2]
             got == Body(Sane(g), p)
  <2>1. k \in 1 .. n + 1
    BY <1>3
  <2>2. Gives(got, Seq(LevelAt(t, k)), k + 1, t)
        \/ Gives(got, MembersTo(LevelAt(t, k)), k + 1, t)
    BY <1>6
  <2> HIDE DEF got, k
  <2>3. CASE got = Throws
    BY <2>3 DEF got
  <2>4. CASE got # Throws
    <3>1. got = <<got[1], got[2]>> /\ got[2] \in k + 1 .. n + 1
          /\ (got[1] \in Seq(LevelAt(t, k)) \/ got[1] \in MembersTo(LevelAt(t, k)))
      BY <2>2, <2>4, GivesUse
    <3>2. got[2] \in 1 .. n + 1
      BY <1>1, <2>1, <3>1
    <3>3. got[1] \in L
      <4> DEFINE x == got[1]
                 A(m) == Seq(LevelAt(t, m))
                 B(m) == MembersTo(LevelAt(t, m))
                 N == 1 .. n + 1
      <4>1. x \in A(k) \/ x \in B(k)
        BY <3>1
      <4>2. k \in N
        BY <2>1
      <4> HIDE DEF x, A, B, N
      <4>3. x \in (UNION {A(m) : m \in N}) \cup (UNION {B(m) : m \in N})
        BY <4>1, <4>2
      <4>4. QED
        BY <4>3 DEF A, B, N, x
    <3> HIDE DEF L
    <3>4. got \in S
      BY <3>1, <3>2, <3>3
    <3>5. QED
      BY <3>4 DEF got
  <2>5. QED
    BY <2>3, <2>4
<1>8. Step \in [[D -> S] -> [D -> S]]
  <2>1. \A g : [p \in D |-> Body(Sane(g), p)] \in [D -> S]
    <3> HIDE DEF S, Sane, Body, D
    <3>1. QED
      BY <1>7
  <2> HIDE DEF S, Sane, Body, D
  <2>2. QED
    BY <2>1
<1>9. rank \in [D -> Nat]
  <2>1. \A p \in D : n + 1 - p[2] \in Nat
    BY <1>1, <1>3
  <2> HIDE DEF D
  <2>2. QED
    BY <2>1
<1>10. ASSUME NEW g \in [D -> S], NEW h \in [D -> S], NEW x \in D,
              \A y \in D : rank[y] < rank[x] => g[y] = h[y]
       PROVE  Step[g][x] = Step[h][x]
  <2> DEFINE i == x[2]
             a == Sane(g)
             b == Sane(h)
  <2>1. i \in 1 .. n + 1 /\ i \in 0 .. n + 1
    BY <1>3
  <2>2. ASSUME NEW k \in i + 1 .. n + 1
        PROVE  a[<<"items", k>>] = b[<<"items", k>>]
                 /\ a[<<"members", k>>] = b[<<"members", k>>]
    <3>1. k \in 1 .. n + 1 /\ n + 1 - k < n + 1 - i
      BY <1>1, <2>1
    <3> DEFINE p == <<"items", k>>
               q == <<"members", k>>
    <3>2. p \in D /\ q \in D /\ p[2] = k /\ q[2] = k
      BY <1>2, <3>1
    <3>3. rank[p] < rank[x] /\ rank[q] < rank[x]
      <4> HIDE DEF D, p, q
      <4>1. rank[p] = n + 1 - p[2] /\ rank[q] = n + 1 - q[2] /\ rank[x] = n + 1 - x[2]
        BY <3>2
      <4> HIDE DEF rank
      <4>2. QED
        BY <3>1, <3>2, <4>1
    <3> HIDE DEF D, p, q, rank
    <3>4. g[p] = h[p] /\ g[q] = h[q]
      BY <1>10, <3>2, <3>3
    <3>5. (OK(g, p) <=> OK(h, p)) /\ (OK(g, q) <=> OK(h, q))
      BY <3>4
    <3> HIDE DEF OK
    <3>6. a[p] = b[p] /\ a[q] = b[q]
      BY <3>2, <3>4, <3>5
    <3> HIDE DEF a, b
    <3>7. QED
      BY <3>6 DEF p, q
  <2>3. TypedAfter(t, i, a)
    <3> HIDE DEF Sane, i
    <3>1. QED
      BY <1>5, <2>1
  <2> HIDE DEF a, b, i
  <2>4. SameAfter(t, i, a, b)
    BY <2>2 DEF SameAfter
  <2>5. ItemsAt(t, i, a) = ItemsAt(t, i, b) /\ MembersAt(t, i, a) = MembersAt(t, i, b)
    BY <2>1, <2>3, <2>4, ItemsAtSame, MembersAtSame
  <2>6. Body(a, x) = Body(b, x)
    BY <2>5 DEF i
  <2>7. Step[g][x] = Body(a, x) /\ Step[h][x] = Body(b, x)
    <3> HIDE DEF S, D, Sane, Body
    <3>1. QED
      BY DEF a, b
  <2>8. QED
    BY <2>6, <2>7
<1>11. PICK f \in [D -> S] : f = Step[f]
  <2> HIDE DEF D, S, Step, rank
  <2>0. S # {}
    BY DEF S
  <2>1. Ranked(D, S, rank, Step)
    BY <2>0, <1>8, <1>9, <1>10 DEF Ranked
  <2>2. QED
    BY <2>1, RecursionExists
<1>12. f = [p \in D |-> Body(Sane(f), p)]
  <2> HIDE DEF Sane, Body, D, S
  <2>1. QED
    BY <1>11
<1>13. Sane(f) = f
  <2>1. \A p \in D : f[p] = Body(Sane(f), p)
    <3> HIDE DEF Sane, Body, D
    <3>1. QED
      BY <1>12
  <2>2. ASSUME NEW p \in D
        PROVE  OK(f, p)
    <3> DEFINE x == Body(Sane(f), p)
    <3>1. IF p[1] = "items" THEN Gives(x, Seq(LevelAt(t, p[2])), p[2] + 1, t)
          ELSE Gives(x, MembersTo(LevelAt(t, p[2])), p[2] + 1, t)
      BY <1>6
    <3>2. f[p] = x
      BY <2>1
    <3> HIDE DEF x, D
    <3>3. QED
      BY <3>1, <3>2
  <2>3. f = [p \in D |-> f[p]]
    OBVIOUS
  <2> HIDE DEF OK, D
  <2>4. [p \in D |-> f[p]] = Sane(f)
    BY <2>2
  <2>5. QED
    BY <2>3, <2>4
<1>14. f = [p \in D |-> Body(f, p)]
  <2> HIDE DEF Sane, Body, D
  <2>1. QED
    BY <1>12, <1>13
<1> DEFINE Solution(g) == g = [p \in D |-> Body(g, p)]
<1>15. Reader(t) = CHOOSE g : Solution(g)
  BY DEF Reader
<1> DEFINE R == Reader(t)
<1>16. Solution(R)
  <2>1. Solution(f)
    <3> HIDE DEF Body, D
    <3>1. QED
      BY <1>14
  <2> HIDE DEF Solution
  <2>2. QED
    BY <1>15, <2>1
<1> DEFINE Typed(g) == \A p \in D : OK(g, p)
<1>17. R = f
  <2> SUFFICES \A p \in D : R[p] = f[p]
    <3>1. R = [p \in D |-> Body(R, p)] /\ f = [p \in D |-> Body(f, p)]
      <4> HIDE DEF R, Body, D
      <4>1. QED
        BY <1>14, <1>16
    <3>2. ASSUME \A p \in D : R[p] = f[p] PROVE R = f
      <4> DEFINE A(p) == Body(R, p)
                 B(p) == Body(f, p)
      <4>1. R = [p \in D |-> A(p)] /\ f = [p \in D |-> B(p)]
        BY <3>1
      <4> HIDE DEF A, B, R, D
      <4>2. \A p \in D : R[p] = A(p) /\ f[p] = B(p)
        BY <4>1
      <4>3. \A p \in D : A(p) = B(p)
        BY <3>2, <4>2
      <4>4. QED
        BY <4>1, <4>3
    <3>3. QED
      BY <3>2
  <2> DEFINE G == {k \in 1 .. n + 1 : R[<<"items", k>>] = f[<<"items", k>>]
                                      /\ R[<<"members", k>>] = f[<<"members", k>>]}
  <2>1. \A p \in D : R[p] = Body(R, p) /\ f[p] = Body(f, p)
    <3> HIDE DEF Body, D, R
    <3>1. QED
      BY <1>14, <1>16
  <2>2. ASSUME NEW i \in 1 .. n + 1, \A k \in i + 1 .. n + 1 : k \in G
        PROVE  i \in G
    <3> DEFINE a == <<"items", i>>
               b == <<"members", i>>
    <3>1. a \in D /\ b \in D /\ a[1] = "items" /\ a[2] = i /\ b[1] # "items" /\ b[2] = i
      BY <1>2
    <3>2. SameAfter(t, i, f, R)
      <4> HIDE DEF R
      <4>1. QED
        BY <2>2 DEF SameAfter
    <3>3. TypedAfter(t, i, f)
      <4>1. i \in 0 .. n + 1
        BY <1>1
      <4> HIDE DEF Sane
      <4>2. TypedAfter(t, i, Sane(f))
        BY <1>5, <4>1
      <4>3. QED
        BY <1>13, <4>2
    <3> HIDE DEF R
    <3>4. ItemsAt(t, i, f) = ItemsAt(t, i, R) /\ MembersAt(t, i, f) = MembersAt(t, i, R)
      BY <3>2, <3>3, ItemsAtSame, MembersAtSame
    <3>5. R[a] = Body(R, a) /\ f[a] = Body(f, a) /\ R[b] = Body(R, b) /\ f[b] = Body(f, b)
      <4> HIDE DEF D, Body, a, b
      <4>1. QED
        BY <2>1, <3>1
    <3>6. Body(R, a) = ItemsAt(t, i, R) /\ Body(f, a) = ItemsAt(t, i, f)
          /\ Body(R, b) = MembersAt(t, i, R) /\ Body(f, b) = MembersAt(t, i, f)
      BY <3>1
    <3>7. R[a] = f[a] /\ R[b] = f[b]
      <4> HIDE DEF Body, a, b
      <4>1. QED
        BY <3>4, <3>5, <3>6
    <3>8. QED
      BY <3>7
  <2>3. \A k \in 1 .. n + 1 : k \in G
    <3> DEFINE m == n + 1
    <3>1. m \in Nat
      BY <1>1
    <3>2. \A i \in 1 .. m : (\A k \in i + 1 .. m : k \in G) => i \in G
      BY <2>2
    <3> HIDE DEF G, m
    <3>3. \A i \in 1 .. m : i \in G
      BY <3>1, <3>2, DownInduction
    <3>4. QED
      BY <3>3 DEF m
  <2> HIDE DEF R
  <2>4. QED
    BY <1>3, <2>3
<1>18. ASSUME NEW k \in 1 .. n + 1
       PROVE  R[<<"items", k>>] = ItemsAt(t, k, R)
                /\ R[<<"members", k>>] = MembersAt(t, k, R)
              /\ TypedAt(t, k, R)
  <2> DEFINE a == <<"items", k>>
             b == <<"members", k>>
  <2>1. a \in D /\ b \in D /\ a[1] = "items" /\ a[2] = k /\ b[1] # "items" /\ b[2] = k
    BY <1>2
  <2> HIDE DEF R
  <2>2. R[a] = Body(R, a) /\ R[b] = Body(R, b)
    <3> HIDE DEF D, Body, a, b
    <3>1. QED
      BY <1>16, <2>1
  <2>3. Body(R, a) = ItemsAt(t, k, R) /\ Body(R, b) = MembersAt(t, k, R)
    BY <2>1
  <2>4. TypedAt(t, k, R)
    <3> HIDE DEF Sane
    <3>1. TypedAt(t, k, Sane(f))
      BY <1>4
    <3>2. QED
      BY <1>13, <1>17, <3>1
  <2> HIDE DEF Body, a, b
  <2>5. R[a] = ItemsAt(t, k, R) /\ R[b] = MembersAt(t, k, R)
    BY <2>2, <2>3
  <2>6. QED
    BY <2>4, <2>5 DEF a, b
<1>19. ASSUME NEW i \in 0 .. n + 1
       PROVE  TypedAfter(t, i, R)
  <2>1. \A k \in i + 1 .. n + 1 : k \in 1 .. n + 1
    BY <1>1
  <2> HIDE DEF R
  <2>2. QED
    BY <1>18, <2>1 DEF TypedAfter
<1>20. QED
  BY <1>18, <1>19

-----------------------------------------------------------------------------
(* The forms and the depth of a value.                                      *)

(* The two forms of a value that nests others; all others are flat.          *)
LEMMA Kinds ==
    ASSUME NEW d \in Nat, NEW v \in ValuesTo[d]
    PROVE  /\ v[1] = "array" =>
                 d > 0 /\ d - 1 \in Nat /\ v = <<"array", v[2]>>
                   /\ v[2] \in Seq(ValuesTo[d-1])
           /\ v[1] = "object" =>
                 d > 0 /\ d - 1 \in Nat /\ v = <<"object", v[2]>>
                   /\ v[2] \in MembersTo(ValuesTo[d-1])
           /\ v[1] \notin {"array", "object"} => v \in Flat
PROOF
<1>1. \A w \in Flat : w[1] \notin {"array", "object"}
  BY DEF Flat, Null
<1>2. CASE d = 0
  <2>1. v \in Flat
    BY <1>2, ValuesSteps
  <2>2. QED
    BY <1>1, <2>1
<1>3. CASE d # 0
  <2> DEFINE e == d - 1
             X == ValuesTo[e]
             A == Seq(X)
             B == MembersTo(X)
  <2>1. e \in Nat /\ e + 1 = d /\ d > 0
    BY <1>3
  <2> HIDE DEF e
  <2>2. ValuesTo[e + 1] = Above(X)
    BY <2>1, ValuesSteps
  <2>3. v \in Flat \/ v \in {"array"} \X A \/ v \in {"object"} \X B
    BY <2>1, <2>2 DEF Above
  <2> HIDE DEF A, B
  <2>4. v \in {"array"} \X A => v[1] = "array" /\ v = <<"array", v[2]>> /\ v[2] \in A
    OBVIOUS
  <2>5. v \in {"object"} \X B => v[1] = "object" /\ v = <<"object", v[2]>> /\ v[2] \in B
    OBVIOUS
  <2>6. "array" # "object"
    OBVIOUS
  <2>7. /\ v[1] = "array" => v = <<"array", v[2]>> /\ v[2] \in A
        /\ v[1] = "object" => v = <<"object", v[2]>> /\ v[2] \in B
        /\ v[1] \notin {"array", "object"} => v \in Flat
    BY <1>1, <2>3, <2>4, <2>5, <2>6
  <2>8. QED
    BY <2>1, <2>7 DEF A, B, e
<1>4. QED
  BY <1>2, <1>3

(* The values that are neither array nor object. *)
LEMMA FlatKinds ==
    ASSUME NEW v \in Flat
    PROVE  \/ v = Null /\ v[1] = "null"
           \/ v[1] = "bool" /\ v = Bool(v[2]) /\ v[2] \in BOOLEAN
           \/ v[1] = "int64" /\ v = Signed(v[2]) /\ v[2] \in -MaxSigned-1 .. MaxSigned
           \/ v[1] = "uint64" /\ v = Unsigned(v[2]) /\ v[2] \in 0 .. MaxUnsigned
           \/ v[1] = "double" /\ v = Double(v[2]) /\ v[2] \in Doubles
           \/ v[1] = "string" /\ v = String(v[2]) /\ v[2] \in Bytes
PROOF
<1> DEFINE A == -MaxSigned-1 .. MaxSigned
           B == 0 .. MaxUnsigned
<1>1. v = Null \/ v \in {"bool"} \X BOOLEAN \/ v \in {"int64"} \X A \/ v \in {"uint64"} \X B
      \/ v \in {"double"} \X Doubles \/ v \in {"string"} \X Bytes
  BY DEF Flat
<1>2. v = Null => v[1] = "null"
  BY DEF Null
<1> HIDE DEF A, B
<1>3. v \in {"bool"} \X BOOLEAN => v[1] = "bool" /\ v = Bool(v[2]) /\ v[2] \in BOOLEAN
  BY DEF Bool
<1>4. v \in {"int64"} \X A => v[1] = "int64" /\ v = Signed(v[2]) /\ v[2] \in A
  BY DEF Signed
<1>5. v \in {"uint64"} \X B => v[1] = "uint64" /\ v = Unsigned(v[2]) /\ v[2] \in B
  BY DEF Unsigned
<1>6. v \in {"double"} \X Doubles => v[1] = "double" /\ v = Double(v[2]) /\ v[2] \in Doubles
  BY DEF Double
<1>7. v \in {"string"} \X Bytes => v[1] = "string" /\ v = String(v[2]) /\ v[2] \in Bytes
  BY DEF String
<1>8. QED
  BY <1>1, <1>2, <1>3, <1>4, <1>5, <1>6, <1>7 DEF A, B

(* The values that a value holds, and how deep it is nested.                *)
Inner(v) ==
    IF v[1] = "array" THEN {v[2][k] : k \in DOMAIN v[2]}
    ELSE IF v[1] = "object" THEN {v[2][k][2] : k \in DOMAIN v[2]}
    ELSE {}

Nests(v) == {d \in Nat : v \in ValuesTo[d]}
Nesting(v) == CHOOSE d \in Nests(v) : \A e \in Nests(v) : d <= e

(* The members of an object are pairs of a name and a value, and the names  *)
(* are in order.                                                            *)
LEMMA MembersAre ==
    ASSUME NEW S, NEW members \in MembersTo(S)
    PROVE  /\ members \in Seq(Bytes \X S) /\ Len(members) \in Nat
           /\ DOMAIN members = 1 .. Len(members)
           /\ \A k \in 1 .. Len(members) : /\ members[k] = <<members[k][1], members[k][2]>>
                                           /\ members[k][1] \in Bytes /\ members[k][2] \in S
           /\ \A j, k \in 1 .. Len(members) : j < k => Before(members[j][1], members[k][1])
PROOF
<1>1. members \in Seq(Bytes \X S) /\ Sorted(members)
  BY DEF MembersTo
<1>2. Len(members) \in Nat /\ DOMAIN members = 1 .. Len(members)
      /\ \A k \in 1 .. Len(members) : members[k] \in Bytes \X S
  BY <1>1, LenProperties, ElementOfSeq
<1>3. \A k \in 1 .. Len(members) : /\ members[k] = <<members[k][1], members[k][2]>>
                                   /\ members[k][1] \in Bytes /\ members[k][2] \in S
  BY <1>2
<1>4. \A j, k \in 1 .. Len(members) : j < k => Before(members[j][1], members[k][1])
  BY <1>1, <1>2 DEF Sorted
<1>5. QED
  BY <1>1, <1>2, <1>3, <1>4

(* The values in a value are nested less deep. *)
LEMMA InnerTyped ==
    ASSUME NEW d \in Nat, NEW v \in ValuesTo[d], NEW w \in Inner(v)
    PROVE  d > 0 /\ d - 1 \in Nat /\ w \in ValuesTo[d-1]
PROOF
<1>1. CASE v[1] = "array"
  <2> DEFINE X == ValuesTo[d-1]
             items == v[2]
  <2>1. d > 0 /\ d - 1 \in Nat /\ items \in Seq(X)
    BY <1>1, Kinds
  <2>2. PICK k \in DOMAIN items : w = items[k]
    BY <1>1 DEF Inner
  <2> HIDE DEF X, items
  <2>3. DOMAIN items = 1 .. Len(items)
    BY <2>1, LenProperties
  <2>4. items[k] \in X
    BY <2>1, <2>3, ElementOfSeq
  <2>5. QED
    BY <2>1, <2>2, <2>4 DEF X
<1>2. CASE v[1] = "object"
  <2> DEFINE X == ValuesTo[d-1]
             members == v[2]
  <2>1. d > 0 /\ d - 1 \in Nat /\ members \in MembersTo(X)
    BY <1>2, Kinds
  <2>2. "object" # "array"
    OBVIOUS
  <2>3. PICK k \in DOMAIN members : w = members[k][2]
    BY <1>2, <2>2 DEF Inner
  <2> HIDE DEF X, members
  <2>4. DOMAIN members = 1 .. Len(members)
          /\ \A j \in 1 .. Len(members) : members[j][2] \in X
    BY <2>1, MembersAre
  <2>5. QED
    BY <2>1, <2>3, <2>4 DEF X
<1>3. CASE v[1] # "array" /\ v[1] # "object"
  BY <1>3 DEF Inner
<1>4. QED
  BY <1>1, <1>2, <1>3

(* Every value has a depth, the smallest at which it can be built. *)
LEMMA NestingIs ==
    ASSUME NEW d \in Nat, NEW v \in ValuesTo[d]
    PROVE  Nesting(v) \in Nat /\ v \in ValuesTo[Nesting(v)] /\ Nesting(v) <= d
PROOF
<1> DEFINE N == Nests(v)
<1>1. d \in N /\ N \subseteq Nat /\ N # {}
  BY DEF Nests
<1>2. \E k \in N : \A e \in N : k <= e
  <2> HIDE DEF N
  <2>1. QED
    BY <1>1, LeastElement
<1>3. Nesting(v) \in N /\ \A e \in N : Nesting(v) <= e
  BY <1>2 DEF Nesting
<1>4. QED
  BY <1>1, <1>3 DEF Nests

(* It is smaller for the values in it. *)
LEMMA InnerIsLess ==
    ASSUME NEW d \in Nat, NEW v \in ValuesTo[d], NEW w \in Inner(v)
    PROVE  w \in ValuesTo[d] /\ Nesting(w) < Nesting(v)
PROOF
<1> DEFINE n == Nesting(v)
<1>1. n \in Nat /\ v \in ValuesTo[n]
  BY NestingIs
<1> HIDE DEF n
<1>2. n > 0 /\ n - 1 \in Nat /\ w \in ValuesTo[n-1]
  BY <1>1, InnerTyped
<1>3. Nesting(w) <= n - 1 /\ Nesting(w) \in Nat
  <2> DEFINE m == n - 1
  <2>1. m \in Nat /\ w \in ValuesTo[m]
    BY <1>2
  <2> HIDE DEF m
  <2>2. Nesting(w) <= m /\ Nesting(w) \in Nat
    BY <2>1, NestingIs
  <2>3. QED
    BY <2>2 DEF m
<1>4. Nesting(w) < n
  BY <1>1, <1>3
<1>5. d > 0 /\ d - 1 \in Nat /\ w \in ValuesTo[d-1]
  BY InnerTyped
<1>6. w \in ValuesTo[d]
  <2> DEFINE m == d - 1
  <2>1. m \in Nat /\ m <= d /\ w \in ValuesTo[m]
    BY <1>5
  <2> HIDE DEF m
  <2>2. QED
    BY <2>1, ValuesWiden
<1>7. QED
  BY <1>4, <1>6 DEF n

-----------------------------------------------------------------------------
(* Writing. *)

Parts(texts) == [k \in DOMAIN texts |-> IF k = 1 THEN texts[k] ELSE <<Comma>> \o texts[k]]

(* Texts with commas between them, as the parts that dump appends one by    *)
(* one.                                                                     *)
LEMMA PartsTyped ==
    ASSUME NEW texts \in Seq(Bytes)
    PROVE  /\ Parts(texts) \in Seq(Bytes) /\ Len(Parts(texts)) = Len(texts)
           /\ Len(texts) \in Nat
           /\ \A k \in 1 .. Len(texts) :
                 Parts(texts)[k] = IF k = 1 THEN texts[k] ELSE <<Comma>> \o texts[k]
           /\ CommaSeparated(texts) = FlattenSeq(Parts(texts))
           /\ CommaSeparated(texts) \in Bytes
PROOF
<1> DEFINE n == Len(texts)
           E(k) == IF k = 1 THEN texts[k] ELSE <<Comma>> \o texts[k]
           p == [k \in 1 .. n |-> E(k)]
<1>1. n \in Nat /\ DOMAIN texts = 1 .. n /\ \A k \in 1 .. n : texts[k] \in Bytes
  BY LenProperties, ElementOfSeq
<1>2. Parts(texts) = p
  BY <1>1 DEF Parts
<1>3. CommaSeparated(texts) = FlattenSeq(Parts(texts))
  BY DEF CommaSeparated, Parts
<1>4. \A k \in 1 .. n : E(k) \in Bytes
  <2>1. <<Comma>> \in Bytes
    BY DEF Bytes, Byte, Comma
  <2>2. \A k \in 1 .. n : <<Comma>> \o texts[k] \in Bytes
    BY <1>1, <2>1, ConcatBytes
  <2>3. QED
    BY <1>1, <2>2
<1> HIDE DEF E, n
<1>5. p \in Seq(Bytes) /\ Len(p) = n
  BY <1>1, <1>4
<1>6. \A k \in 1 .. n : p[k] = E(k)
  OBVIOUS
<1> HIDE DEF p
<1>7. FlattenSeq(p) \in Bytes
  <2>1. PICK f \in [0 .. Len(p) -> Bytes] : f[Len(p)] = FlattenSeq(p)
    BY <1>5, FlattenSteps
  <2>2. Len(p) \in 0 .. Len(p)
    BY <1>1, <1>5
  <2>3. QED
    BY <2>1, <2>2
<1>8. QED
  BY <1>1, <1>2, <1>3, <1>5, <1>6, <1>7 DEF n, E

(* Value::dump, for each type of value. *)
LEMMA WrittenCases ==
    ASSUME NEW v, NEW write
    PROVE  /\ v[1] = "null" => Written(v, write) = NullWord
           /\ v[1] = "bool" => Written(v, write) = IF v[2] THEN True ELSE False
           /\ v[1] \in {"int64", "uint64"} => Written(v, write) = Decimal(v[2])
           /\ v[1] = "double" => Written(v, write) = Shown(v[2])
           /\ v[1] = "string" => Written(v, write) = Quoted(v[2])
           /\ v[1] = "array" => Written(v, write) =
                 <<OpenBracket>> \o CommaSeparated(ItemTexts(write, v[2]))
                   \o <<CloseBracket>>
           /\ v[1] = "object" => Written(v, write) =
                 <<OpenBrace>> \o CommaSeparated(MemberTexts(write, v[2])) \o <<CloseBrace>>
PROOF
<1> DEFINE c == v[1]
           D == Decimal(v[2])
           F == Shown(v[2])
           B == IF v[2] THEN True ELSE False
           Q == Quoted(v[2])
           X == <<OpenBracket>> \o CommaSeparated(ItemTexts(write, v[2]))
                  \o <<CloseBracket>>
           Y == <<OpenBrace>> \o CommaSeparated(MemberTexts(write, v[2])) \o <<CloseBrace>>
           W == Written(v, write)
<1>1. W = CASE c = "null" -> NullWord [] c = "bool" -> B [] c \in {"int64", "uint64"} -> D
            [] c = "double" -> F [] c = "string" -> Q [] c = "array" -> X
              [] c = "object" -> Y
  BY DEF Written
<1> HIDE DEF c, D, F, B, Q, X, Y, W
<1>2. (c = "null" => W = NullWord) /\ (c = "bool" => W = B)
  BY <1>1
<1>3. (c \in {"int64", "uint64"} => W = D) /\ (c = "double" => W = F)
        /\ (c = "string" => W = Q)
  BY <1>1
<1>4. (c = "array" => W = X) /\ (c = "object" => W = Y)
  BY <1>1
<1>5. QED
  BY <1>2, <1>3, <1>4 DEF c, D, F, B, Q, X, Y, W

(* A string is written as bytes. *)
LEMMA QuotedTyped ==
    ASSUME NEW s \in Bytes
    PROVE  Quoted(s) \in Bytes
PROOF
<1> DEFINE q == <<Quote>>
           x == Escape(s)
           y == q \o x
<1>1. q \in Bytes
  BY DEF Bytes, Byte, Quote
<1>2. x \in Bytes
  <2>1. PICK from \in [1 .. Len(s) + 1 -> Bytes] : x = from[1]
    BY EscapeSteps
  <2>2. 1 \in 1 .. Len(s) + 1
    BY BytesLen
  <2>3. QED
    BY <2>1, <2>2
<1>3. Quoted(s) = y \o q
  BY DEF Quoted
<1> HIDE DEF q, x
<1>4. y \in Bytes
  BY <1>1, <1>2, ConcatBytes
<1> HIDE DEF y
<1>5. y \o q \in Bytes
  BY <1>1, <1>4, ConcatBytes
<1>6. QED
  BY <1>3, <1>5

(* So are the words and the punctuation. *)
LEMMA WordsTyped ==
    /\ NullWord \in Bytes /\ True \in Bytes /\ False \in Bytes
    /\ \A c \in Byte : <<c>> \in Bytes /\ Len(<<c>>) = 1
    /\ {Quote, Comma, Colon, OpenBracket, CloseBracket, OpenBrace, CloseBrace, 10}
         \subseteq Byte
PROOF
<1>1. \A n \in {116, 114, 117, 101, 102, 97, 108, 115, 110} : n \in Byte
  BY DEF Byte
<1>2. NullWord \in Seq(Byte)
  <2>1. 110 \in Byte /\ 117 \in Byte /\ 108 \in Byte
    BY <1>1
  <2>2. QED
    BY <2>1 DEF NullWord
<1>3. True \in Seq(Byte)
  <2>1. 116 \in Byte /\ 114 \in Byte /\ 117 \in Byte /\ 101 \in Byte
    BY <1>1
  <2>2. QED
    BY <2>1 DEF True
<1>4. False \in Seq(Byte)
  <2>1. 102 \in Byte /\ 97 \in Byte /\ 108 \in Byte /\ 115 \in Byte /\ 101 \in Byte
    BY <1>1
  <2>2. QED
    BY <2>1 DEF False
<1>5. \A c \in Byte : <<c>> \in Bytes /\ Len(<<c>>) = 1
  BY DEF Bytes
<1>6. {Quote, Comma, Colon, OpenBracket, CloseBracket, OpenBrace, CloseBrace, 10}
        \subseteq Byte
  BY DEF Byte, Quote, Comma, Colon, OpenBracket, CloseBracket, OpenBrace, CloseBrace
<1>7. QED
  BY <1>2, <1>3, <1>4, <1>5, <1>6 DEF Bytes

(* A text in brackets is a text, two bytes longer. *)
LEMMA EnclosedTyped ==
    ASSUME NEW a \in Byte, NEW x \in Bytes, NEW b \in Byte
    PROVE  <<a>> \o x \o <<b>> \in Bytes /\ Len(<<a>> \o x \o <<b>>) = Len(x) + 2
PROOF
<1> DEFINE o == <<a>>
           c == <<b>>
           y == o \o x
<1>1. o \in Bytes /\ Len(o) = 1 /\ c \in Bytes /\ Len(c) = 1 /\ Len(x) \in Nat
  BY WordsTyped, BytesLen
<1> HIDE DEF o, c
<1>2. y \in Bytes /\ Len(y) = 1 + Len(x)
  BY <1>1, ConcatBytes
<1> HIDE DEF y
<1>3. y \o c \in Bytes /\ Len(y \o c) = Len(y) + Len(c)
  BY <1>1, <1>2, ConcatBytes
<1>4. Len(y \o c) = Len(x) + 2
  BY <1>1, <1>2, <1>3
<1>5. QED
  BY <1>3, <1>4 DEF o, c, y

(* Where it stands, the brackets and what is between them have their places.*)
LEMMA EnclosedHeld ==
    ASSUME NEW a \in Byte, NEW x \in Bytes, NEW b \in Byte, NEW t \in Bytes, NEW i,
           Holds(t, i, <<a>> \o x \o <<b>>)
    PROVE  /\ i \in 1 .. Len(t) /\ t[i] = a /\ Holds(t, i + 1, x)
           /\ i + Len(x) + 1 \in 1 .. Len(t) /\ t[i + Len(x) + 1] = b
PROOF
<1> DEFINE o == <<a>>
           c == <<b>>
           y == o \o x
<1>1. o \in Bytes /\ Len(o) = 1 /\ o[1] = a /\ c \in Bytes /\ Len(c) = 1 /\ c[1] = b
        /\ Len(x) \in Nat
  BY WordsTyped, BytesLen
<1> HIDE DEF o, c
<1>2. y \in Bytes /\ Len(y) = 1 + Len(x)
  BY <1>1, ConcatBytes
<1>3. Holds(t, i, y \o c)
  BY DEF o, c
<1>4. Holds(t, i, y) /\ Holds(t, i + Len(y), c)
  <2> HIDE DEF y
  <2>1. QED
    BY <1>1, <1>2, <1>3, HoldsConcat
<1>5. Holds(t, i, o) /\ Holds(t, i + 1, x)
  BY <1>1, <1>4, HoldsConcat
<1> HIDE DEF y
<1>6. Len(t) \in Nat /\ i \in Nat \ {0}
  BY <1>4, BytesLen DEF Holds
<1> DEFINE k == i + Len(y)
<1>7. i + 1 - 1 = i /\ k = i + Len(x) + 1 /\ k + 1 - 1 = k /\ k \in Nat \ {0}
  BY <1>1, <1>2, <1>6
<1>8. i - 1 + 1 <= Len(t) /\ t[i + 1 - 1] = a
  BY <1>1, <1>5 DEF Holds
<1>9. Holds(t, k, c)
  BY <1>4
<1> HIDE DEF k
<1>10. k - 1 + 1 <= Len(t) /\ t[k + 1 - 1] = b
  BY <1>1, <1>9 DEF Holds
<1>11. i \in 1 .. Len(t) /\ k \in 1 .. Len(t) /\ t[i] = a /\ t[k] = b
  BY <1>6, <1>7, <1>8, <1>10
<1>12. QED
  BY <1>5, <1>7, <1>11

(* The items and members of a value are written as bytes if the values in   *)
(* them are.                                                                *)
LEMMA TextsTyped ==
    ASSUME NEW S, NEW write, \A w \in S : write[w] \in Bytes
    PROVE  /\ \A items \in Seq(S) : /\ ItemTexts(write, items) \in Seq(Bytes)
                                    /\ Len(ItemTexts(write, items)) = Len(items)
                                    /\ \A k \in 1 .. Len(items) :
                                          ItemTexts(write, items)[k] = write[items[k]]
           /\ \A members \in Seq(Bytes \X S) :
                 /\ MemberTexts(write, members) \in Seq(Bytes)
                 /\ Len(MemberTexts(write, members)) = Len(members)
                 /\ \A k \in 1 .. Len(members) :
                       MemberTexts(write, members)[k] = MemberText(write, members[k])
           /\ \A m \in Bytes \X S : MemberText(write, m) \in Bytes
PROOF
<1>1. ASSUME NEW m \in Bytes \X S
      PROVE  MemberText(write, m) \in Bytes
  <2> DEFINE q == Quoted(m[1])
             c == <<Colon>>
             x == q \o c
             w == write[m[2]]
  <2>1. m[1] \in Bytes /\ m[2] \in S
    OBVIOUS
  <2>2. q \in Bytes /\ c \in Bytes /\ w \in Bytes
    BY <2>1, QuotedTyped, WordsTyped
  <2>3. MemberText(write, m) = x \o w
    BY DEF MemberText
  <2> HIDE DEF q, c, w
  <2>4. x \in Bytes
    BY <2>2, ConcatBytes
  <2> HIDE DEF x
  <2>5. x \o w \in Bytes
    BY <2>2, <2>4, ConcatBytes
  <2>6. QED
    BY <2>3, <2>5
<1>2. ASSUME NEW items \in Seq(S)
      PROVE  /\ ItemTexts(write, items) \in Seq(Bytes)
             /\ Len(ItemTexts(write, items)) = Len(items)
             /\ \A k \in 1 .. Len(items) : ItemTexts(write, items)[k] = write[items[k]]
  <2> DEFINE n == Len(items)
             r == [k \in 1 .. n |-> write[items[k]]]
  <2>1. n \in Nat /\ DOMAIN items = 1 .. n /\ \A k \in 1 .. n : items[k] \in S
    BY LenProperties, ElementOfSeq
  <2>2. ItemTexts(write, items) = r
    BY <2>1 DEF ItemTexts
  <2>3. \A k \in 1 .. n : write[items[k]] \in Bytes
    BY <2>1
  <2> HIDE DEF n
  <2>4. r \in Seq(Bytes) /\ Len(r) = n
    BY <2>1, <2>3
  <2>5. QED
    BY <2>2, <2>4 DEF n
<1>3. ASSUME NEW members \in Seq(Bytes \X S)
      PROVE  /\ MemberTexts(write, members) \in Seq(Bytes)
             /\ Len(MemberTexts(write, members)) = Len(members)
             /\ \A k \in 1 .. Len(members) :
                   MemberTexts(write, members)[k] = MemberText(write, members[k])
  <2> DEFINE n == Len(members)
             r == [k \in 1 .. n |-> MemberText(write, members[k])]
  <2>1. n \in Nat /\ DOMAIN members = 1 .. n /\ \A k \in 1 .. n : members[k] \in Bytes \X S
    BY LenProperties, ElementOfSeq
  <2>2. MemberTexts(write, members) = r
    BY <2>1 DEF MemberTexts
  <2>3. \A k \in 1 .. n : MemberText(write, members[k]) \in Bytes
    BY <1>1, <2>1
  <2> HIDE DEF n
  <2>4. r \in Seq(Bytes) /\ Len(r) = n
    BY <2>1, <2>3
  <2>5. QED
    BY <2>2, <2>4 DEF n
<1>4. QED
  BY <1>1, <1>2, <1>3

(* What is written for a flat value.                                        *)
LEMMA FlatWritten ==
    ASSUME NEW v \in Flat, NEW write
    PROVE  Written(v, write) \in Bytes
PROOF
<1>1. MaxSigned \in Nat /\ MaxUnsigned = 2 * MaxSigned + 1
  BY JsonAssumption
<1>2. \A n \in -MaxSigned-1 .. MaxUnsigned : Decimal(n) \in Bytes
  BY DecimalIsRead DEF Numerals
<1>3. /\ \A n \in -MaxSigned-1 .. MaxSigned : n \in -MaxSigned-1 .. MaxUnsigned
      /\ \A n \in 0 .. MaxUnsigned : n \in -MaxSigned-1 .. MaxUnsigned
  BY <1>1
<1>4. CASE v[1] = "null"
  BY <1>4, WrittenCases, WordsTyped
<1>5. CASE v[1] = "bool"
  BY <1>5, WrittenCases, WordsTyped
<1>6. CASE v[1] \in {"int64", "uint64"}
  <2>1. v[2] \in -MaxSigned-1 .. MaxUnsigned
    BY <1>3, <1>6, FlatKinds
  <2>2. QED
    BY <1>2, <1>6, <2>1, WrittenCases
<1>7. CASE v[1] = "double"
  <2>1. Shown(v[2]) \in Bytes
    BY <1>7, FlatKinds, DoublesAssumption DEF Numerals
  <2>2. QED
    BY <1>7, <2>1, WrittenCases
<1>8. CASE v[1] = "string"
  <2>1. v[2] \in Bytes
    BY <1>8, FlatKinds
  <2>2. QED
    BY <1>8, <2>1, WrittenCases, QuotedTyped
<1>9. QED
  BY <1>4, <1>5, <1>6, <1>7, <1>8, FlatKinds

(* The values of the items and members of a value are in it. *)
LEMMA InnerOfSeq ==
    ASSUME NEW d \in Nat, NEW v \in ValuesTo[d]
    PROVE  /\ v[1] = "array" => v[2] \in Seq(Inner(v))
           /\ v[1] = "object" => v[2] \in Seq(Bytes \X Inner(v))
PROOF
<1>1. CASE v[1] = "array"
  <2> DEFINE items == v[2]
             X == ValuesTo[d-1]
             I == Inner(v)
  <2>1. items \in Seq(X)
    BY <1>1, Kinds
  <2>2. I = {items[k] : k \in DOMAIN items}
    BY <1>1 DEF Inner
  <2> HIDE DEF items, X, I
  <2>3. Len(items) \in Nat /\ DOMAIN items = 1 .. Len(items)
          /\ items = [k \in 1 .. Len(items) |-> items[k]]
    BY <2>1, LenProperties
  <2>4. \A k \in 1 .. Len(items) : items[k] \in I
    BY <2>2, <2>3
  <2>5. items \in [1 .. Len(items) -> I]
    BY <2>3, <2>4
  <2>6. items \in Seq(I)
    BY <2>3, <2>5, SeqDef
  <2>7. "array" # "object"
    OBVIOUS
  <2>8. QED
    BY <1>1, <2>6, <2>7 DEF items, I
<1>2. CASE v[1] = "object"
  <2> DEFINE members == v[2]
             X == ValuesTo[d-1]
             I == Inner(v)
  <2>1. members \in MembersTo(X)
    BY <1>2, Kinds
  <2>7. "array" # "object"
    OBVIOUS
  <2>2. I = {members[k][2] : k \in DOMAIN members}
    BY <1>2, <2>7 DEF Inner
  <2> HIDE DEF members, X, I
  <2>3. /\ Len(members) \in Nat /\ DOMAIN members = 1 .. Len(members)
        /\ \A k \in 1 .. Len(members) : /\ members[k] = <<members[k][1], members[k][2]>>
                                        /\ members[k][1] \in Bytes
        /\ members \in Seq(Bytes \X X)
    BY <2>1, MembersAre
  <2>4. \A k \in 1 .. Len(members) : members[k][2] \in I
    BY <2>2, <2>3
  <2>5. \A k \in 1 .. Len(members) : members[k] \in Bytes \X I
    BY <2>3, <2>4
  <2>6. members \in [1 .. Len(members) -> Bytes \X I]
    <3> DEFINE T == Bytes \X X
    <3>1. members \in Seq(T)
      BY <2>3
    <3> HIDE DEF T
    <3>2. members \in [1 .. Len(members) -> T]
      BY <3>1, LenProperties
    <3> DEFINE U == Bytes \X I
    <3>3. \A k \in 1 .. Len(members) : members[k] \in U
      BY <2>5
    <3> HIDE DEF U
    <3>4. members \in [1 .. Len(members) -> U]
      BY <3>2, <3>3
    <3>5. QED
      BY <3>4 DEF U
  <2>8. members \in Seq(Bytes \X I)
    BY <2>3, <2>6, SeqDef
  <2>9. QED
    BY <1>2, <2>7, <2>8 DEF members, I
<1>3. QED
  BY <1>1, <1>2

(* A value is written as bytes if the values in it are. *)
LEMMA WrittenTyped ==
    ASSUME NEW d \in Nat, NEW v \in ValuesTo[d], NEW write,
           \A w \in Inner(v) : write[w] \in Bytes
    PROVE  Written(v, write) \in Bytes
PROOF
<1> DEFINE I == Inner(v)
<1>1. CASE v[1] = "array"
  <2> DEFINE items == v[2]
             x == CommaSeparated(ItemTexts(write, items))
  <2>1. items \in Seq(I)
    BY <1>1, InnerOfSeq
  <2> HIDE DEF items, I
  <2>2. ItemTexts(write, items) \in Seq(Bytes)
    BY <2>1, TextsTyped DEF I
  <2>3. x \in Bytes
    BY <2>2, PartsTyped
  <2>4. Written(v, write) = <<OpenBracket>> \o x \o <<CloseBracket>>
    BY <1>1, WrittenCases DEF items
  <2> HIDE DEF x
  <2>5. OpenBracket \in Byte /\ CloseBracket \in Byte
    BY WordsTyped
  <2>6. <<OpenBracket>> \o x \o <<CloseBracket>> \in Bytes
    BY <2>3, <2>5, EnclosedTyped
  <2>7. QED
    BY <2>4, <2>6
<1>2. CASE v[1] = "object"
  <2> DEFINE members == v[2]
             x == CommaSeparated(MemberTexts(write, members))
  <2>1. members \in Seq(Bytes \X I)
    BY <1>2, InnerOfSeq
  <2> HIDE DEF members, I
  <2>2. MemberTexts(write, members) \in Seq(Bytes)
    BY <2>1, TextsTyped DEF I
  <2>3. x \in Bytes
    BY <2>2, PartsTyped
  <2>4. Written(v, write) = <<OpenBrace>> \o x \o <<CloseBrace>>
    BY <1>2, WrittenCases DEF members
  <2> HIDE DEF x
  <2>5. OpenBrace \in Byte /\ CloseBrace \in Byte
    BY WordsTyped
  <2>6. <<OpenBrace>> \o x \o <<CloseBrace>> \in Bytes
    BY <2>3, <2>5, EnclosedTyped
  <2>7. QED
    BY <2>4, <2>6
<1>3. CASE v[1] \notin {"array", "object"}
  BY <1>3, Kinds, FlatWritten
<1>4. QED
  BY <1>1, <1>2, <1>3

(* What is written for a value depends only on what is written for the      *)
(* values in it.                                                            *)
LEMMA WrittenSame ==
    ASSUME NEW d \in Nat, NEW v \in ValuesTo[d], NEW g, NEW h,
           \A w \in Inner(v) : g[w] = h[w]
    PROVE  Written(v, g) = Written(v, h)
PROOF
<1>1. CASE v[1] = "array"
  <2> DEFINE items == v[2]
  <2>1. \A k \in DOMAIN items : items[k] \in Inner(v)
    BY <1>1 DEF Inner
  <2>2. ItemTexts(g, items) = ItemTexts(h, items)
    BY <2>1 DEF ItemTexts
  <2>3. QED
    BY <1>1, <2>2, WrittenCases
<1>2. CASE v[1] = "object"
  <2> DEFINE members == v[2]
  <2>1. "array" # "object"
    OBVIOUS
  <2>2. \A k \in DOMAIN members : members[k][2] \in Inner(v)
    BY <1>2, <2>1 DEF Inner
  <2>3. \A k \in DOMAIN members : MemberText(g, members[k]) = MemberText(h, members[k])
    BY <2>2 DEF MemberText
  <2>4. MemberTexts(g, members) = MemberTexts(h, members)
    BY <2>3 DEF MemberTexts
  <2>5. QED
    BY <1>2, <2>4, WrittenCases
<1>3. CASE v[1] \notin {"array", "object"}
  BY <1>3 DEF Written
<1>4. QED
  BY <1>1, <1>2, <1>3

(* Dump writes a value with what it writes for the values in it.            *)
LEMMA DumpSteps ==
    \A v \in Values : Dump[v] = Written(v, Dump) /\ Dump[v] \in Bytes
PROOF
<1> DEFINE D == Values
           Step == [g \in [D -> Bytes] |-> [v \in D |-> Written(v, g)]]
           rank == [v \in D |-> Nesting(v)]
           Solution(g) == g = [v \in D |-> Written(v, g)]
           n == MaxNesting
<1>1. n \in Nat /\ D = ValuesTo[n]
  BY JsonAssumption DEF Values
<1>2. ASSUME NEW v \in D
      PROVE  Nesting(v) \in Nat /\ \A w \in Inner(v) : w \in D /\ Nesting(w) < Nesting(v)
  BY <1>1, NestingIs, InnerIsLess
<1>3. ASSUME NEW g \in [D -> Bytes], NEW v \in D
      PROVE  Written(v, g) \in Bytes
  <2>1. \A w \in Inner(v) : g[w] \in Bytes
    BY <1>2
  <2> HIDE DEF D, n
  <2>2. QED
    BY <1>1, <2>1, WrittenTyped
<1> HIDE DEF n
<1>4. Step \in [[D -> Bytes] -> [D -> Bytes]]
  <2> HIDE DEF D
  <2>1. \A g \in [D -> Bytes] : [v \in D |-> Written(v, g)] \in [D -> Bytes]
    BY <1>3
  <2>2. QED
    BY <2>1
<1>5. rank \in [D -> Nat]
  <2> HIDE DEF D
  <2>1. QED
    BY <1>2
<1>6. ASSUME NEW g \in [D -> Bytes], NEW h \in [D -> Bytes], NEW x \in D,
             \A y \in D : rank[y] < rank[x] => g[y] = h[y]
      PROVE  Step[g][x] = Step[h][x]
  <2> HIDE DEF D
  <2>1. \A w \in Inner(x) : g[w] = h[w]
    <3>1. \A w \in Inner(x) : w \in D /\ rank[w] < rank[x]
      BY <1>2
    <3> HIDE DEF rank
    <3>2. QED
      BY <1>6, <3>1
  <2>2. Written(x, g) = Written(x, h)
    BY <1>1, <2>1, WrittenSame
  <2>3. QED
    BY <2>2
<1>7. \E f \in [D -> Bytes] : f = Step[f]
  <2> HIDE DEF D, Step, rank
  <2>1. Bytes # {}
    BY WordsTyped
  <2>2. Ranked(D, Bytes, rank, Step)
    BY <1>4, <1>5, <1>6, <2>1 DEF Ranked
  <2>3. QED
    BY <2>2, RecursionExists
<1>8. PICK f : Solution(f)
  <2> HIDE DEF D
  <2>1. QED
    BY <1>7
<1>9. Dump = CHOOSE g : Solution(g)
  BY DEF Dump
<1>10. Solution(Dump)
  <2> HIDE DEF Solution
  <2>1. QED
    BY <1>8, <1>9
<1>11. \A v \in D : Dump[v] = Written(v, Dump)
  <2> DEFINE g == Dump
  <2>1. g = [v \in D |-> Written(v, g)]
    BY <1>10
  <2> HIDE DEF g, D
  <2>2. \A v \in D : g[v] = Written(v, g)
    BY <2>1
  <2>3. QED
    BY <2>2 DEF g
<1>12. \A v \in D : Dump[v] \in Bytes
  <2> DEFINE G == {m \in Nat : \A v \in D : Nesting(v) < m => Dump[v] \in Bytes}
  <2> HIDE DEF D
  <2>1. 0 \in G
    BY <1>2
  <2>2. ASSUME NEW m \in Nat, m \in G
        PROVE  m + 1 \in G
    <3>1. ASSUME NEW v \in D, Nesting(v) < m + 1
          PROVE  Dump[v] \in Bytes
      <4>1. \A w \in Inner(v) : w \in D /\ Nesting(w) < m
        <5>1. \A w \in Inner(v) : w \in D /\ Nesting(w) < Nesting(v) /\ Nesting(w) \in Nat
                /\ Nesting(v) \in Nat
          BY <1>2
        <5>2. QED
          BY <3>1, <5>1
      <4>2. \A w \in Inner(v) : Dump[w] \in Bytes
        BY <2>2, <4>1
      <4>3. Written(v, Dump) \in Bytes
        BY <1>1, <4>2, WrittenTyped
      <4>4. QED
        BY <1>11, <4>3
    <3>2. QED
      BY <3>1
  <2> HIDE DEF G
  <2>3. Nat \subseteq G
    BY <2>1, <2>2, NatInductionOnSet
  <2>4. ASSUME NEW v \in D
        PROVE  Dump[v] \in Bytes
    <3>1. Nesting(v) \in Nat
      BY <1>2
    <3>2. Nesting(v) + 1 \in G /\ Nesting(v) < Nesting(v) + 1
      BY <2>3, <3>1
    <3>3. QED
      BY <3>2 DEF G
  <2>5. QED
    BY <2>4
<1>13. QED
  BY <1>11, <1>12

(* Values are told from what is no value.                                   *)
LEMMA ValueIsSomething ==
    ASSUME NEW d \in Nat, NEW v \in ValuesTo[d]
    PROVE  v # Throws
PROOF
<1>1. CASE v[1] \in {"array", "object"}
  <2>1. v = <<v[1], v[2]>>
    BY <1>1, Kinds
  <2>2. QED
    BY <2>1 DEF Throws
<1>2. CASE v[1] \notin {"array", "object"}
  <2>1. v \in Flat
    BY <1>2, Kinds
  <2>2. QED
    BY <2>1, FlatKinds DEF Throws, Null, Bool, Signed, Unsigned, Double, String
<1>3. QED
  BY <1>1, <1>2

(* What a value that nests no deeper than d may be read back as.            *)
ReadTo(d) == ValuesTo[d] \cup {Throws}

ItemsBack(read, items) == [k \in DOMAIN items |-> read[items[k]]]
MembersBack(read, members) ==
    [k \in DOMAIN members |-> <<members[k][1], read[members[k][2]]>>]

(* What dump and parse make of a value, for each type of it. *)
LEMMA ReadBackCases ==
    ASSUME NEW v, NEW read
    PROVE  /\ v[1] \in {"null", "bool", "string"} => ReadBack(v, read) = v
           /\ v[1] \in {"int64", "uint64"} => ReadBack(v, read) =
                IF v[2] >= 0 THEN IF Len(Digits[v[2]]) > ShortDigits \/ v[2] > MaxSigned
                                  THEN Unsigned(v[2]) ELSE Signed(v[2])
                ELSE v
           /\ v[1] = "double" => ReadBack(v, read) = ValueRead(ParseNumber(Shown(v[2]), 1))
           /\ v[1] = "array" => ReadBack(v, read) =
                IF \E k \in DOMAIN v[2] : read[v[2][k]] = Throws THEN Throws
                ELSE Array(ItemsBack(read, v[2]))
           /\ v[1] = "object" => ReadBack(v, read) =
                IF \E k \in DOMAIN v[2] : read[v[2][k][2]] = Throws THEN Throws
                ELSE Object(MembersBack(read, v[2]))
PROOF
<1> DEFINE c == v[1]
           p == v[2] >= 0
           N == IF Len(Digits[v[2]]) > ShortDigits \/ v[2] > MaxSigned
                THEN Unsigned(v[2]) ELSE Signed(v[2])
           D == ValueRead(ParseNumber(Shown(v[2]), 1))
           X == IF \E k \in DOMAIN v[2] : read[v[2][k]] = Throws THEN Throws
                ELSE Array(ItemsBack(read, v[2]))
           Y == IF \E k \in DOMAIN v[2] : read[v[2][k][2]] = Throws THEN Throws
                ELSE Object(MembersBack(read, v[2]))
           W == ReadBack(v, read)
<1>1. W = CASE c \in {"int64", "uint64"} /\ p -> N [] c = "double" -> D [] c = "array" -> X
            [] c = "object" -> Y [] OTHER -> v
  BY DEF ReadBack, ItemsBack, MembersBack
<1> HIDE DEF c, p, N, D, X, Y, W
<1>2. c \in {"null", "bool", "string"} => W = v
  BY <1>1
<1>3. c \in {"int64", "uint64"} => W = IF p THEN N ELSE v
  BY <1>1
<1>4. c = "double" => W = D
  BY <1>1
<1>5. (c = "array" => W = X) /\ (c = "object" => W = Y)
  BY <1>1
<1>6. QED
  BY <1>2, <1>3, <1>4, <1>5 DEF c, p, N, D, X, Y, W

(* What a flat value is read back as: for numbers, what ParseNumber makes of*)
(* their text.                                                              *)
LEMMA FlatBack ==
    ASSUME NEW v \in Flat, NEW read
    PROVE  /\ ReadBack(v, read) \in Flat \cup {Throws}
           /\ v[1] \in {"int64", "uint64"} => ReadBack(v, read) = IntegerAsRead(v[2])
PROOF
<1> DEFINE r == ReadBack(v, read)
<1>1. MaxSigned \in Nat /\ MaxUnsigned = 2 * MaxSigned + 1
  BY JsonAssumption
<1>2. CASE v[1] \in {"null", "bool", "string"}
  <2>1. r = v
    BY <1>2, ReadBackCases
  <2>2. QED
    BY <1>2, <2>1
<1>3. CASE v[1] \in {"int64", "uint64"}
  <2> DEFINE n == v[2]
  <2>1. (v = Signed(n) /\ n \in -MaxSigned-1 .. MaxSigned)
        \/ (v = Unsigned(n) /\ n \in 0 .. MaxUnsigned)
    BY <1>3, FlatKinds
  <2>2. r = IF n >= 0 THEN IF Len(Digits[n]) > ShortDigits \/ n > MaxSigned
                           THEN Unsigned(n) ELSE Signed(n)
            ELSE v
    BY <1>3, ReadBackCases
  <2> HIDE DEF n, r
  <2>3. n < 0 => v = Signed(n)
    BY <1>1, <2>1
  <2>4. n \in Int /\ n \in -MaxSigned-1 .. MaxUnsigned
    BY <1>1, <2>1
  <2>5. r = IntegerAsRead(n)
    BY <2>2, <2>3, <2>4 DEF IntegerAsRead
  <2>6. r \in Flat
    <3>1. CASE n < 0
      <4>1. r = Signed(n) /\ n \in -MaxSigned-1 .. MaxSigned
        BY <1>1, <2>4, <2>5, <3>1 DEF IntegerAsRead
      <4>2. QED
        BY <4>1 DEF Flat, Signed
    <3>2. CASE ~(n < 0)
      <4>1. n \in 0 .. MaxUnsigned
        BY <1>1, <2>4, <3>2
      <4>2. CASE n > MaxSigned
        <5>1. r = Unsigned(n)
          BY <2>5, <3>2, <4>2 DEF IntegerAsRead
        <5>2. QED
          BY <4>1, <5>1 DEF Flat, Unsigned
      <4>3. CASE ~(n > MaxSigned)
        <5>1. r = Unsigned(n) \/ r = Signed(n)
          BY <2>5, <3>2 DEF IntegerAsRead
        <5>2. n \in -MaxSigned-1 .. MaxSigned
          BY <1>1, <4>1, <4>3
        <5>3. QED
          BY <4>1, <5>1, <5>2 DEF Flat, Unsigned, Signed
      <4>4. QED
        BY <4>2, <4>3
    <3>3. QED
      BY <3>1, <3>2
  <2>7. QED
    BY <1>3, <2>5, <2>6 DEF n, r
<1>4. CASE v[1] = "double"
  <2> DEFINE s == Shown(v[2])
             got == ParseNumber(s, 1)
  <2>1. s \in Numerals
    BY <1>4, FlatKinds, DoublesAssumption
  <2> HIDE DEF s
  <2>2. s \in Bytes /\ At(s, 1) \in Digit \cup {Minus}
    BY <2>1 DEF Numerals
  <2>3. 1 \in 1 .. Len(s)
    <3>1. At(s, 1) # 0 /\ 1 \in Nat \ {0}
      BY <2>2 DEF Digit, Minus
    <3>2. QED
      BY <2>2, <3>1, AtIs
  <2>4. Gives(got, Flat, 1 + 1, s)
    BY <2>2, <2>3, NumberTyped
  <2> HIDE DEF got
  <2>5. got = Throws \/ got[1] \in Flat
    BY <2>2, <2>4, GivesUse
  <2>6. r = IF got = Throws THEN Throws ELSE got[1]
    BY <1>4, ReadBackCases DEF s, got, ValueRead
  <2>7. QED
    BY <1>4, <2>5, <2>6
<1>5. QED
  BY <1>2, <1>3, <1>4, FlatKinds

(* What they make of the items and the members of a value. *)
LEMMA ItemsBackTyped ==
    ASSUME NEW S, NEW X, NEW read, \A w \in S : read[w] \in X
    PROVE  /\ \A items \in Seq(S) : /\ ItemsBack(read, items) \in Seq(X)
                                    /\ Len(ItemsBack(read, items)) = Len(items)
                                    /\ \A k \in 1 .. Len(items) :
                                          ItemsBack(read, items)[k] = read[items[k]]
           /\ \A members \in MembersTo(S) :
                 /\ MembersBack(read, members) \in MembersTo(X)
                 /\ Len(MembersBack(read, members)) = Len(members)
                 /\ \A k \in 1 .. Len(members) :
                       MembersBack(read, members)[k]
                         = <<members[k][1], read[members[k][2]]>>
PROOF
<1>1. ASSUME NEW items \in Seq(S)
      PROVE  /\ ItemsBack(read, items) \in Seq(X)
             /\ Len(ItemsBack(read, items)) = Len(items)
             /\ \A k \in 1 .. Len(items) : ItemsBack(read, items)[k] = read[items[k]]
  <2> DEFINE n == Len(items)
             r == [k \in 1 .. n |-> read[items[k]]]
  <2>1. n \in Nat /\ DOMAIN items = 1 .. n /\ \A k \in 1 .. n : items[k] \in S
    BY LenProperties, ElementOfSeq
  <2>2. ItemsBack(read, items) = r
    BY <2>1 DEF ItemsBack
  <2>3. \A k \in 1 .. n : read[items[k]] \in X
    BY <2>1
  <2> HIDE DEF n
  <2>4. r \in Seq(X) /\ Len(r) = n
    BY <2>1, <2>3
  <2>5. QED
    BY <2>2, <2>4 DEF n
<1>2. ASSUME NEW members \in MembersTo(S)
      PROVE  /\ MembersBack(read, members) \in MembersTo(X)
             /\ Len(MembersBack(read, members)) = Len(members)
             /\ \A k \in 1 .. Len(members) :
                   MembersBack(read, members)[k] = <<members[k][1], read[members[k][2]]>>
  <2> DEFINE n == Len(members)
             E(k) == <<members[k][1], read[members[k][2]]>>
             r == [k \in 1 .. n |-> E(k)]
  <2>1. /\ n \in Nat /\ DOMAIN members = 1 .. n
        /\ \A k \in 1 .. n : members[k][1] \in Bytes /\ members[k][2] \in S
        /\ \A j, k \in 1 .. n : j < k => Before(members[j][1], members[k][1])
    BY MembersAre
  <2>2. MembersBack(read, members) = r
    BY <2>1 DEF MembersBack
  <2>3. \A k \in 1 .. n : E(k) \in Bytes \X X /\ E(k)[1] = members[k][1]
    BY <2>1
  <2> HIDE DEF n, E
  <2>4. r \in Seq(Bytes \X X) /\ Len(r) = n /\ DOMAIN r = 1 .. n
          /\ \A k \in 1 .. n : r[k] = E(k)
    BY <2>1, <2>3
  <2> HIDE DEF r
  <2>5. Sorted(r)
    BY <2>1, <2>3, <2>4 DEF Sorted
  <2>6. r \in MembersTo(X)
    BY <2>4, <2>5 DEF MembersTo
  <2>7. QED
    BY <2>2, <2>4, <2>6 DEF n, E
<1>3. QED
  BY <1>1, <1>2

(* They nest it no deeper. *)
LEMMA ReadBackTyped ==
    ASSUME NEW d \in Nat, NEW v \in ValuesTo[d], NEW read,
           \A w \in Inner(v) : d > 0 /\ read[w] \in ReadTo(d-1)
    PROVE  ReadBack(v, read) \in ReadTo(d)
PROOF
<1> DEFINE I == Inner(v)
<1>0. CASE ReadBack(v, read) = Throws
  BY <1>0 DEF ReadTo
<1>1. CASE v[1] = "array" /\ ReadBack(v, read) # Throws
  <2> DEFINE items == v[2]
             e == d - 1
             X == ValuesTo[e]
             b == ItemsBack(read, items)
  <2>a. e \in Nat /\ e + 1 = d
    BY <1>1, Kinds
  <2>b. items \in Seq(I)
    BY <1>1, InnerOfSeq
  <2>c. \A w \in I : read[w] \in X
    <3>1. \A k \in DOMAIN items : read[items[k]] # Throws
      BY <1>1, ReadBackCases
    <3>2. I = {items[k] : k \in DOMAIN items}
      BY <1>1 DEF Inner
    <3>3. \A w \in I : read[w] # Throws
      BY <3>1, <3>2
    <3>4. QED
      BY <3>3 DEF ReadTo
  <2>1. items \in Seq(I) /\ e \in Nat /\ e + 1 = d /\ \A w \in I : read[w] \in X
    BY <2>a, <2>b, <2>c
  <2> HIDE DEF items, I, X, e
  <2>2. b \in Seq(X)
    BY <2>1, ItemsBackTyped
  <2>3. ReadBack(v, read) = Array(b)
    BY <1>1, ReadBackCases DEF items
  <2>4. ValuesTo[d] = Above(X)
    BY <2>1, ValuesSteps DEF X
  <2> HIDE DEF b
  <2>5. QED
    BY <2>2, <2>3, <2>4 DEF Above, Array, ReadTo
<1>2. CASE v[1] = "object" /\ ReadBack(v, read) # Throws
  <2> DEFINE members == v[2]
             e == d - 1
             X == ValuesTo[e]
             b == MembersBack(read, members)
  <2>a. e \in Nat /\ e + 1 = d /\ members \in MembersTo(X)
    BY <1>2, Kinds
  <2>b. members \in Seq(Bytes \X I)
    BY <1>2, InnerOfSeq
  <2>c. \A w \in I : read[w] \in X
    <3>1. \A k \in DOMAIN members : read[members[k][2]] # Throws
      BY <1>2, ReadBackCases
    <3>2. I = {members[k][2] : k \in DOMAIN members}
      <4>1. "array" # "object"
        OBVIOUS
      <4>2. QED
        BY <1>2, <4>1 DEF Inner
    <3>3. \A w \in I : read[w] # Throws
      BY <3>1, <3>2
    <3>4. QED
      BY <3>3 DEF ReadTo
  <2>1. members \in Seq(Bytes \X I) /\ e \in Nat /\ e + 1 = d /\ members \in MembersTo(X)
        /\ \A w \in I : read[w] \in X
    BY <2>a, <2>b, <2>c
  <2> HIDE DEF members, I, X, e
  <2>2. members \in MembersTo(I)
    BY <2>1 DEF MembersTo
  <2>3. b \in MembersTo(X)
    BY <2>1, <2>2, ItemsBackTyped
  <2>4. ReadBack(v, read) = Object(b)
    BY <1>2, ReadBackCases DEF members
  <2>5. ValuesTo[d] = Above(X)
    BY <2>1, ValuesSteps DEF X
  <2> HIDE DEF b
  <2>6. QED
    BY <2>3, <2>4, <2>5 DEF Above, Object, ReadTo
<1>3. CASE v[1] \notin {"array", "object"}
  <2>1. v \in Flat
    BY <1>3, Kinds
  <2>2. ReadBack(v, read) \in Flat \cup {Throws}
    BY <2>1, FlatBack
  <2>3. Flat \subseteq ValuesTo[d]
    <3>1. d <= d
      OBVIOUS
    <3>2. QED
      BY <3>1, ValuesWiden
  <2>4. QED
    BY <2>2, <2>3 DEF ReadTo
<1>4. QED
  BY <1>0, <1>1, <1>2, <1>3

(* What they make of it depends only on what they make of the values in it. *)
LEMMA ReadBackSame ==
    ASSUME NEW d \in Nat, NEW v \in ValuesTo[d], NEW g, NEW h,
           \A w \in Inner(v) : g[w] = h[w]
    PROVE  ReadBack(v, g) = ReadBack(v, h)
PROOF
<1>1. CASE v[1] = "array"
  <2> DEFINE items == v[2]
  <2>1. \A k \in DOMAIN items : items[k] \in Inner(v)
    BY <1>1 DEF Inner
  <2>2. ItemsBack(g, items) = ItemsBack(h, items)
    BY <2>1 DEF ItemsBack
  <2>3. (\E k \in DOMAIN items : g[items[k]] = Throws)
          <=> (\E k \in DOMAIN items : h[items[k]] = Throws)
    BY <2>1
  <2>4. QED
    BY <1>1, <2>2, <2>3, ReadBackCases
<1>2. CASE v[1] = "object"
  <2> DEFINE members == v[2]
  <2>1. "array" # "object"
    OBVIOUS
  <2>2. \A k \in DOMAIN members : members[k][2] \in Inner(v)
    BY <1>2, <2>1 DEF Inner
  <2>3. MembersBack(g, members) = MembersBack(h, members)
    BY <2>2 DEF MembersBack
  <2>4. (\E k \in DOMAIN members : g[members[k][2]] = Throws)
           <=> (\E k \in DOMAIN members : h[members[k][2]] = Throws)
    BY <2>2
  <2>5. QED
    BY <1>2, <2>3, <2>4, ReadBackCases
<1>3. CASE v[1] \notin {"array", "object"}
  BY <1>3 DEF ReadBack
<1>4. QED
  BY <1>1, <1>2, <1>3

(* AsRead reads a value back with what it reads back of the values in it.   *)
LEMMA AsReadSteps ==
    /\ \A v \in Values : AsRead[v] = ReadBack(v, AsRead)
    /\ \A d \in 0 .. MaxNesting : \A v \in ValuesTo[d] : AsRead[v] \in ReadTo(d)
PROOF
<1> DEFINE D == Values
           n == MaxNesting
           Sane(g) == [v \in D |-> IF g[v] \in ReadTo(Nesting(v)) THEN g[v] ELSE Null]
           R == D \cup {Throws}
           Step == [g \in [D -> R] |-> [v \in D |-> ReadBack(v, Sane(g))]]
           rank == [v \in D |-> Nesting(v)]
           Solution(g) == g = [v \in D |-> ReadBack(v, g)]
<1>1. n \in Nat /\ D = ValuesTo[n]
  BY JsonAssumption DEF Values
<1>2. ASSUME NEW v \in D
      PROVE  /\ Nesting(v) \in Nat /\ Nesting(v) <= n /\ v \in ValuesTo[Nesting(v)]
             /\ \A w \in Inner(v) : /\ w \in D /\ Nesting(w) \in Nat
                                    /\ Nesting(w) < Nesting(v)
  BY <1>1, NestingIs, InnerIsLess
<1> HIDE DEF n
<1>3. \A d \in Nat : Null \in ValuesTo[d]
  <2>1. Null \in Flat
    BY DEF Flat
  <2>2. \A d \in Nat : Flat \subseteq ValuesTo[d]
    BY ValuesWiden
  <2>3. QED
    BY <2>1, <2>2
<1>4. ASSUME NEW g, NEW v \in D
      PROVE  Sane(g)[v] \in ReadTo(Nesting(v))
  <2> HIDE DEF D
  <2>1. QED
    BY <1>2, <1>3 DEF ReadTo
<1>5. ASSUME NEW g, \A w \in D : g[w] \in ReadTo(Nesting(w)), NEW v \in D
      PROVE  ReadBack(v, g) \in ReadTo(Nesting(v))
  <2> DEFINE e == Nesting(v)
  <2>1. e \in Nat /\ v \in ValuesTo[e]
    BY <1>2
  <2>2. ASSUME NEW w \in Inner(v)
        PROVE  e > 0 /\ g[w] \in ReadTo(e-1)
    <3> DEFINE m == Nesting(w)
               k == e - 1
    <3>1. m \in Nat /\ k \in Nat /\ m <= k /\ e > 0 /\ w \in D
      <4>1. w \in D /\ m \in Nat /\ m < e
        BY <1>2
      <4> HIDE DEF D, m, e
      <4>2. QED
        BY <2>1, <4>1
    <3>2. g[w] \in ReadTo(m)
      BY <1>5, <3>1
    <3> HIDE DEF m, k, D
    <3>3. g[w] \in ReadTo(k)
      BY <3>1, <3>2, ValuesWiden DEF ReadTo
    <3>4. QED
      BY <3>1, <3>3 DEF k
  <2> HIDE DEF e
  <2>3. ReadBack(v, g) \in ReadTo(e)
    BY <2>1, <2>2, ReadBackTyped
  <2>4. QED
    BY <2>3 DEF e
<1>6. ASSUME NEW g, NEW v \in D
      PROVE  ReadBack(v, Sane(g)) \in ReadTo(Nesting(v))
  <2> HIDE DEF Sane, D
  <2>1. QED
    BY <1>4, <1>5
<1>7. ASSUME NEW v \in D
      PROVE  ReadTo(Nesting(v)) \subseteq R
  BY <1>1, <1>2, ValuesWiden DEF ReadTo
<1>8. Step \in [[D -> R] -> [D -> R]]
  <2> HIDE DEF D, Sane
  <2>1. \A g : [v \in D |-> ReadBack(v, Sane(g))] \in [D -> R]
    BY <1>6, <1>7
  <2>2. QED
    BY <2>1
<1>9. rank \in [D -> Nat]
  <2> HIDE DEF D
  <2>1. QED
    BY <1>2
<1>10. ASSUME NEW g \in [D -> R], NEW h \in [D -> R], NEW x \in D,
             \A y \in D : rank[y] < rank[x] => g[y] = h[y]
       PROVE  Step[g][x] = Step[h][x]
  <2> HIDE DEF D
  <2>1. \A w \in Inner(x) : g[w] = h[w] /\ w \in D
    <3>1. \A w \in Inner(x) : w \in D /\ rank[w] < rank[x]
      BY <1>2
    <3> HIDE DEF rank
    <3>2. QED
      BY <1>10, <3>1
  <2>2. \A w \in Inner(x) : Sane(g)[w] = Sane(h)[w]
    BY <2>1
  <2> HIDE DEF Sane
  <2>3. ReadBack(x, Sane(g)) = ReadBack(x, Sane(h))
    BY <1>1, <2>2, ReadBackSame
  <2>4. QED
    BY <2>3
<1>11. \E f \in [D -> R] : f = Step[f]
  <2>0. D # {}
    BY <1>1, <1>3
  <2> HIDE DEF D, Step, rank
  <2>1. Ranked(D, R, rank, Step)
    BY <2>0, <1>8, <1>9, <1>10 DEF Ranked
  <2>2. QED
    BY <2>1, RecursionExists
<1>12. PICK f \in [D -> R] : f = Step[f]
  BY <1>11
<1>13. f = [v \in D |-> ReadBack(v, Sane(f))]
  <2> HIDE DEF D, Sane
  <2>1. QED
    BY <1>12
<1>14. Sane(f) = f
  <2> HIDE DEF D, R
  <2>1. \A v \in D : f[v] \in ReadTo(Nesting(v))
    <3>1. \A v \in D : f[v] = ReadBack(v, Sane(f))
      <4> HIDE DEF Sane
      <4>1. QED
        BY <1>13
    <3> HIDE DEF Sane
    <3>2. QED
      BY <1>6, <3>1
  <2>2. f = [v \in D |-> f[v]]
    OBVIOUS
  <2>3. [v \in D |-> f[v]] = Sane(f)
    BY <2>1
  <2>4. QED
    BY <2>2, <2>3
<1>15. Solution(f)
  <2> HIDE DEF D, Sane
  <2>1. QED
    BY <1>13, <1>14
<1>16. AsRead = CHOOSE g : Solution(g)
  BY DEF AsRead
<1>17. Solution(AsRead)
  <2> HIDE DEF Solution
  <2>1. QED
    BY <1>15, <1>16
<1>18. \A v \in D : AsRead[v] = ReadBack(v, AsRead)
  <2> DEFINE g == AsRead
  <2>1. g = [v \in D |-> ReadBack(v, g)]
    BY <1>17
  <2> HIDE DEF g, D
  <2>2. \A v \in D : g[v] = ReadBack(v, g)
    BY <2>1
  <2>3. QED
    BY <2>2 DEF g
<1>19. \A d \in 0 .. n : \A v \in ValuesTo[d] : AsRead[v] \in ReadTo(d)
  <2> DEFINE G == {d \in Nat : d <= n => \A v \in ValuesTo[d] : AsRead[v] \in ReadTo(d)}
  <2>0. ASSUME NEW d \in Nat, d <= n, NEW v \in ValuesTo[d],
               \A w \in Inner(v) : d > 0 /\ AsRead[w] \in ReadTo(d-1)
        PROVE  AsRead[v] \in ReadTo(d)
    <3>1. v \in D
      BY <1>1, <2>0, ValuesWiden
    <3>2. ReadBack(v, AsRead) \in ReadTo(d)
      BY <2>0, ReadBackTyped
    <3> HIDE DEF D
    <3>3. QED
      BY <1>18, <3>1, <3>2
  <2> HIDE DEF D
  <2>1. 0 \in G
    <3>1. ASSUME NEW v \in ValuesTo[0]
          PROVE  AsRead[v] \in ReadTo(0)
      <4>1. \A w \in Inner(v) : FALSE
        <5>1. 0 \in Nat /\ ~(0 > 0)
          OBVIOUS
        <5>2. QED
          BY <5>1, InnerTyped
      <4>2. 0 \in Nat /\ 0 <= n
        BY <1>1
      <4>3. QED
        BY <2>0, <4>1, <4>2
    <3>2. QED
      BY <3>1
  <2>2. ASSUME NEW d \in Nat, d \in G
        PROVE  d + 1 \in G
    <3>1. ASSUME d + 1 <= n, NEW v \in ValuesTo[d + 1]
          PROVE  AsRead[v] \in ReadTo(d + 1)
      <4> DEFINE e == d + 1
      <4>1. e \in Nat /\ e <= n /\ e > 0 /\ e - 1 = d /\ d <= n
        BY <1>1, <3>1
      <4> HIDE DEF e
      <4>2. v \in ValuesTo[e]
        BY <3>1 DEF e
      <4>3. ASSUME NEW w \in Inner(v)
            PROVE  AsRead[w] \in ReadTo(e-1)
        <5>1. w \in ValuesTo[e-1]
          BY <4>1, <4>2, InnerTyped
        <5>2. QED
          BY <2>2, <4>1, <5>1
      <4>4. AsRead[v] \in ReadTo(e)
        BY <2>0, <4>1, <4>2, <4>3
      <4>5. QED
        BY <4>4 DEF e
    <3>2. QED
      BY <3>1
  <2> HIDE DEF G
  <2>3. Nat \subseteq G
    BY <2>1, <2>2, NatInductionOnSet
  <2>4. \A d \in 0 .. n : d \in Nat /\ d <= n
    BY <1>1
  <2>5. QED
    BY <2>3, <2>4 DEF G
<1>20. QED
  BY <1>18, <1>19 DEF n

-----------------------------------------------------------------------------
(* Reading what has been written.                                           *)

(* Where the texts between commas are.                                      *)
LEMMA CommaPlaces ==
    ASSUME NEW texts \in Seq(Bytes), Len(texts) > 0, NEW t \in Bytes, NEW i,
           Holds(t, i, CommaSeparated(texts))
    PROVE  \E pos \in [1 .. Len(texts) -> Nat] :
              /\ pos[1] = i
              /\ \A k \in 1 .. Len(texts) : Holds(t, pos[k], texts[k])
              /\ \A k \in 1 .. Len(texts) - 1 :
                    /\ pos[k] + Len(texts[k]) \in 1 .. Len(t)
                    /\ t[pos[k] + Len(texts[k])] = Comma
                    /\ pos[k+1] = pos[k] + Len(texts[k]) + 1
              /\ pos[Len(texts)] + Len(texts[Len(texts)]) = i + Len(CommaSeparated(texts))
PROOF
<1> DEFINE n == Len(texts)
           parts == Parts(texts)
           all == CommaSeparated(texts)
<1>1. /\ n \in Nat /\ n > 0 /\ parts \in Seq(Bytes) /\ Len(parts) = n
      /\ \A k \in 1 .. n : parts[k] = IF k = 1 THEN texts[k] ELSE <<Comma>> \o texts[k]
      /\ all = FlattenSeq(parts) /\ all \in Bytes
  BY PartsTyped
<1>2. \A k \in 1 .. n : texts[k] \in Bytes /\ Len(texts[k]) \in Nat
  BY ElementOfSeq, BytesLen
<1>3. \A k \in 1 .. n : parts[k] \in Bytes
  BY <1>1, ElementOfSeq
<1>4. Holds(t, i, all) /\ i \in Nat \ {0}
  BY DEF Holds
<1> HIDE DEF parts
<1>5. PICK f \in [0 .. n -> Bytes] :
          f[0] = <<>> /\ (\A k \in 1 .. n : f[k] = f[k-1] \o parts[k]) /\ f[n] = all
  BY <1>1, FlattenSteps
<1> HIDE DEF all, n
<1>6. \A k \in 0 .. n : f[k] \in Bytes /\ Len(f[k]) \in Nat
  BY <1>5, BytesLen
<1>7. \A k \in 1 .. n : k - 1 \in 0 .. n /\ k \in 0 .. n
  BY <1>1
<1>8. \A k \in 0 .. n : Holds(t, i, f[k])
  <2> DEFINE G == {k \in 0 .. n : Holds(t, i, f[k])}
  <2>1. n \in G
    BY <1>1, <1>4, <1>5
  <2>2. ASSUME NEW k \in 1 .. n, k \in G
        PROVE  k - 1 \in G
    <3>1. f[k-1] \in Bytes /\ parts[k] \in Bytes /\ f[k] = f[k-1] \o parts[k]
            /\ Holds(t, i, f[k])
      BY <1>3, <1>5, <1>6, <1>7, <2>2
    <3>2. Holds(t, i, f[k-1])
      BY <3>1, HoldsConcat
    <3>3. QED
      BY <1>7, <3>2
  <2> HIDE DEF G
  <2>3. DEFINE H == {j \in Nat : j <= n => n - j \in G}
  <2>4. 0 \in H
    BY <1>1, <2>1
  <2>5. ASSUME NEW j \in Nat, j \in H
        PROVE  j + 1 \in H
    <3>1. ASSUME j + 1 <= n
          PROVE  n - (j + 1) \in G
      <4>1. n - j \in 1 .. n /\ n - j \in G /\ (n - j) - 1 = n - (j + 1)
        BY <1>1, <2>5, <3>1
      <4>2. (n - j) - 1 \in G
        BY <2>2, <4>1
      <4>3. QED
        BY <4>1, <4>2
    <3>2. QED
      BY <3>1
  <2> HIDE DEF H
  <2>6. Nat \subseteq H
    BY <2>4, <2>5, NatInductionOnSet
  <2>7. \A k \in 0 .. n : n - k \in Nat /\ n - k <= n /\ n - (n - k) = k
    BY <1>1
  <2>8. \A k \in 0 .. n : k \in G
    BY <2>6, <2>7 DEF H
  <2>9. QED
    BY <2>8 DEF G
<1>9. \A k \in 1 .. n : Holds(t, i + Len(f[k-1]), parts[k])
        /\ Len(f[k]) = Len(f[k-1]) + Len(parts[k])
  <2> SUFFICES ASSUME NEW k \in 1 .. n
               PROVE  Holds(t, i + Len(f[k-1]), parts[k])
                        /\ Len(f[k]) = Len(f[k-1]) + Len(parts[k])
    OBVIOUS
  <2>1. f[k-1] \in Bytes /\ parts[k] \in Bytes /\ f[k] = f[k-1] \o parts[k]
          /\ Holds(t, i, f[k])
    BY <1>3, <1>5, <1>6, <1>7, <1>8
  <2> DEFINE a == f[k-1]
             b == parts[k]
  <2> HIDE DEF a, b
  <2>2. a \in Bytes /\ b \in Bytes /\ f[k] = a \o b /\ Holds(t, i, a \o b)
    BY <2>1 DEF a, b
  <2>3. Holds(t, i + Len(a), b)
    BY <2>2, HoldsConcat
  <2>4. Len(a \o b) = Len(a) + Len(b)
    BY <2>2, ConcatBytes
  <2>5. QED
    BY <2>2, <2>3, <2>4 DEF a, b
<1> DEFINE pos == [k \in 1 .. n |-> IF k = 1 THEN i ELSE i + Len(f[k-1]) + 1]
<1>10. Len(f[0]) = 0
  BY <1>5
<1>11. ASSUME NEW k \in 1 .. n
       PROVE  /\ pos[k] \in Nat
              /\ Holds(t, pos[k], texts[k])
              /\ pos[k] + Len(texts[k]) = i + Len(f[k])
              /\ k > 1 => /\ i + Len(f[k-1]) \in 1 .. Len(t)
                          /\ t[i + Len(f[k-1])] = Comma
                          /\ pos[k] = i + Len(f[k-1]) + 1
  <2>1. CASE k = 1
    <3>1. pos[k] = i /\ parts[k] = texts[k] /\ f[k-1] = f[0]
      BY <1>1, <2>1
    <3>2. i + 0 = i
      BY <1>4
    <3>3. Holds(t, i, texts[k])
      BY <1>9, <1>10, <3>1, <3>2
    <3>4. Len(f[k]) = Len(texts[k])
      <4>1. Len(f[k]) = Len(f[k-1]) + Len(parts[k]) /\ Len(texts[k]) \in Nat
        BY <1>2, <1>9
      <4>2. Len(f[k-1]) = 0 /\ Len(parts[k]) = Len(texts[k])
        BY <1>10, <3>1
      <4>3. QED
        BY <4>1, <4>2
    <3>5. QED
      BY <1>4, <2>1, <3>1, <3>3, <3>4
  <2>2. CASE k # 1
    <3> DEFINE j == i + Len(f[k-1])
    <3>1. j \in Nat /\ j \in Nat \ {0}
      BY <1>4, <1>6, <1>7
    <3>2. pos[k] = j + 1 /\ parts[k] = <<Comma>> \o texts[k]
      BY <1>1, <2>2
    <3>3. Holds(t, j, <<Comma>> \o texts[k])
      BY <1>9, <3>2
    <3> HIDE DEF j
    <3>4. <<Comma>> \in Bytes /\ Len(<<Comma>>) = 1
      BY WordsTyped
    <3>5. Holds(t, j, <<Comma>>) /\ Holds(t, j + 1, texts[k])
      BY <1>2, <3>3, <3>4, HoldsConcat
    <3>6. j \in 1 .. Len(t) /\ t[j] = Comma
      <4>1. Len(t) \in Nat
        BY BytesLen
      <4>2. QED
        BY <3>1, <3>4, <3>5, <4>1 DEF Holds
    <3>7. Len(parts[k]) = 1 + Len(texts[k])
      BY <1>2, <3>2, <3>4, ConcatBytes
    <3>8. i + Len(f[k]) = j + 1 + Len(texts[k])
      <4> DEFINE w == Len(texts[k])
                 x == Len(f[k-1])
                 y == Len(parts[k])
                 z == Len(f[k])
      <4>1. w \in Nat
        BY <1>2
      <4>2. x \in Nat
        BY <1>6, <1>7
      <4>3. z = x + y /\ y = 1 + w
        BY <1>9, <3>7
      <4> HIDE DEF w, x, y, z
      <4>4. i + z = i + x + 1 + w
        BY <1>4, <4>1, <4>2, <4>3
      <4>5. QED
        BY <4>4 DEF w, x, z, j
    <3>9. QED
      BY <3>1, <3>2, <3>5, <3>6, <3>8 DEF j
  <2>3. QED
    BY <2>1, <2>2
<1>12. DOMAIN pos = 1 .. n /\ pos = [k \in 1 .. n |-> pos[k]] /\ pos[1] = i
  BY <1>1
<1> HIDE DEF pos
<1>13. pos \in [1 .. n -> Nat]
  BY <1>11, <1>12
<1>14. ASSUME NEW k \in 1 .. n - 1
       PROVE  /\ pos[k] + Len(texts[k]) \in 1 .. Len(t)
              /\ t[pos[k] + Len(texts[k])] = Comma
              /\ pos[k+1] = pos[k] + Len(texts[k]) + 1
  <2>1. k \in 1 .. n /\ k + 1 \in 1 .. n /\ k + 1 > 1 /\ (k + 1) - 1 = k
    BY <1>1
  <2>2. pos[k] + Len(texts[k]) = i + Len(f[k])
    BY <1>11, <2>1
  <2>3. i + Len(f[k]) \in 1 .. Len(t) /\ t[i + Len(f[k])] = Comma
          /\ pos[k+1] = i + Len(f[k]) + 1
    BY <1>11, <2>1
  <2>4. QED
    BY <2>2, <2>3
<1>15. pos[n] + Len(texts[n]) = i + Len(all)
  BY <1>1, <1>5, <1>11
<1>16. QED
  BY <1>11, <1>12, <1>13, <1>14, <1>15 DEF n, all

(* A value begins here: no blank, and not the end of an array or object.    *)
Starts(t, i) == i \in 1 .. Len(t) /\ t[i] \notin Space \cup {CloseBracket, CloseBrace}

(* v is read up to the place i, or nothing is.                              *)
GotUnless(v, i) == IF v = Throws THEN Throws ELSE <<v, i>>

(* The value is read where its text is, up to its end.                      *)
IsReadAs(t, i, text, got, v) ==
    Starts(t, i) /\ got = GotUnless(v, i + Len(text))

(* A word that stands in a text is read as its value. *)
LEMMA WordIsRead ==
    ASSUME NEW w \in Bytes, NEW t \in Bytes, NEW i, Holds(t, i, w), Len(w) > 0, NEW v
    PROVE  /\ Word(t, i, w, v) = <<v, i + Len(w)>>
           /\ i \in 1 .. Len(t) /\ t[i] = w[1] /\ At(t, i) = w[1]
PROOF
<1>1. /\ SubSeq(t, i, i + Len(w) - 1) = w
      /\ i \in Nat \ {0} /\ i + Len(w) \in Nat \ {0} /\ i + Len(w) <= Len(t) + 1
  BY HeldPart
<1>2. Len(w) \in Nat /\ Len(t) \in Nat
  BY BytesLen
<1>3. i + Len(w) - 1 <= Len(t)
  BY <1>1, <1>2
<1>4. Word(t, i, w, v) = <<v, i + Len(w)>>
  BY <1>1, <1>3 DEF Word, Got
<1>5. i \in 1 .. Len(t)
  BY <1>1, <1>2, <1>3
<1>6. t[i] = w[1]
  <2>1. 1 \in 1 .. Len(w) /\ i + 1 - 1 = i
    BY <1>1, <1>2
  <2>2. t[i + 1 - 1] = w[1]
    BY <2>1 DEF Holds
  <2>3. QED
    BY <2>1, <2>2
<1>7. At(t, i) = t[i]
  BY <1>5, AtIs
<1>8. QED
  BY <1>4, <1>5, <1>6, <1>7

(* What dump has written for a value that is neither array nor object,      *)
(* parse_value reads.                                                       *)
LEMMA FlatIsRead ==
    ASSUME NEW v \in Flat, NEW write, NEW back, NEW read, NEW t \in Bytes, NEW i,
           Holds(t, i, Written(v, write)), Ends(t, i + Len(Written(v, write)))
    PROVE  IsReadAs(t, i, Written(v, write), ValueAt(t, i, read), ReadBack(v, back))
PROOF
<1> DEFINE text == Written(v, write)
<1>0. v # Throws
  <2>1. 0 \in Nat /\ Flat \subseteq ValuesTo[0]
    BY ValuesWiden
  <2>2. QED
    BY <2>1, ValueIsSomething
<1>1. CASE v = Null /\ v[1] = "null"
  <2>1. text = NullWord /\ ReadBack(v, back) = v
    BY <1>1, WrittenCases, ReadBackCases
  <2>2. NullWord \in Bytes /\ Len(NullWord) > 0 /\ NullWord[1] = 110
    BY WordsTyped DEF NullWord
  <2>3. /\ Word(t, i, NullWord, Null) = <<Null, i + Len(NullWord)>>
        /\ i \in 1 .. Len(t) /\ t[i] = 110 /\ At(t, i) = 110
    BY <2>1, <2>2, WordIsRead
  <2>4. ValueAt(t, i, read) = Word(t, i, NullWord, Null)
    BY <2>3, FlatCases
  <2>5. Starts(t, i)
    BY <2>3 DEF Starts, Space, CloseBracket, CloseBrace
  <2>6. QED
    BY <1>0, <1>1, <2>1, <2>3, <2>4, <2>5 DEF IsReadAs, GotUnless
<1>2. CASE v[1] = "bool" /\ v = Bool(v[2]) /\ v[2] \in BOOLEAN
  <2>0. ReadBack(v, back) = v /\ text = IF v[2] THEN True ELSE False
    BY <1>2, WrittenCases, ReadBackCases
  <2>1. CASE v[2] = TRUE
    <3>1. text = True /\ v = Bool(TRUE)
      BY <1>2, <2>0, <2>1
    <3>2. True \in Bytes /\ Len(True) > 0 /\ True[1] = 116
      BY WordsTyped DEF True
    <3>a. Holds(t, i, True)
      BY <3>1
    <3>3. /\ Word(t, i, True, Bool(TRUE)) = <<Bool(TRUE), i + Len(True)>>
          /\ i \in 1 .. Len(t) /\ t[i] = 116 /\ At(t, i) = 116
      <4> DEFINE w == True
                 b == Bool(TRUE)
      <4>1. w \in Bytes /\ Len(w) > 0 /\ w[1] = 116 /\ Holds(t, i, w)
        BY <3>2, <3>a
      <4> HIDE DEF w, b
      <4>2. Word(t, i, w, b) = <<b, i + Len(w)>> /\ i \in 1 .. Len(t) /\ t[i] = w[1]
              /\ At(t, i) = w[1]
        BY <4>1, WordIsRead
      <4>3. QED
        BY <4>1, <4>2 DEF w, b
    <3>4. ValueAt(t, i, read) = Word(t, i, True, Bool(TRUE))
      BY <3>3, FlatCases
    <3>5. Starts(t, i)
      BY <3>3 DEF Starts, Space, CloseBracket, CloseBrace
    <3>6. QED
      BY <1>0, <2>0, <3>1, <3>3, <3>4, <3>5 DEF IsReadAs, GotUnless
  <2>2. CASE v[2] = FALSE
    <3>1. text = False /\ v = Bool(FALSE)
      BY <1>2, <2>0, <2>2
    <3>2. False \in Bytes /\ Len(False) > 0 /\ False[1] = 102
      BY WordsTyped DEF False
    <3>a. Holds(t, i, False)
      BY <3>1
    <3>3. /\ Word(t, i, False, Bool(FALSE)) = <<Bool(FALSE), i + Len(False)>>
          /\ i \in 1 .. Len(t) /\ t[i] = 102 /\ At(t, i) = 102
      <4> DEFINE w == False
                 b == Bool(FALSE)
      <4>1. w \in Bytes /\ Len(w) > 0 /\ w[1] = 102 /\ Holds(t, i, w)
        BY <3>2, <3>a
      <4> HIDE DEF w, b
      <4>2. Word(t, i, w, b) = <<b, i + Len(w)>> /\ i \in 1 .. Len(t) /\ t[i] = w[1]
              /\ At(t, i) = w[1]
        BY <4>1, WordIsRead
      <4>3. QED
        BY <4>1, <4>2 DEF w, b
    <3>4. ValueAt(t, i, read) = Word(t, i, False, Bool(FALSE))
      BY <3>3, FlatCases
    <3>5. Starts(t, i)
      BY <3>3 DEF Starts, Space, CloseBracket, CloseBrace
    <3>6. QED
      BY <1>0, <2>0, <3>1, <3>3, <3>4, <3>5 DEF IsReadAs, GotUnless
  <2>3. QED
    BY <1>2, <2>1, <2>2
<1>3. ASSUME text \in Numerals, ReadBack(v, back) = ValueRead(ParseNumber(text, 1))
      PROVE  IsReadAs(t, i, text, ValueAt(t, i, read), ReadBack(v, back))
  <2> DEFINE got == ParseNumber(text, 1)
             b == ValueRead(got)
  <2>0. got # Throws => b # Throws
    <3>1. 1 \in 1 .. Len(text) /\ text \in Bytes /\ At(text, 1) \in Digit \cup {Minus}
      <4>1. /\ text \in Bytes /\ At(text, 1) \in Digit \cup {Minus}
            /\ At(text, 1) # 0 /\ 1 \in Nat \ {0}
        BY <1>3 DEF Numerals, Digit, Minus
      <4>2. QED
        BY <4>1, AtIs
    <3>2. Gives(got, Flat, 1 + 1, text)
      BY <3>1, NumberTyped
    <3> HIDE DEF got
    <3>3. got # Throws => got[1] \in Flat
      BY <3>1, <3>2, GivesUse
    <3>4. \A w \in Flat : w # Throws
      <4>1. 0 \in Nat /\ Flat \subseteq ValuesTo[0]
        BY ValuesWiden
      <4>2. QED
        BY <4>1, ValueIsSomething
    <3>5. QED
      BY <3>3, <3>4 DEF ValueRead
  <2>1. /\ ParseNumber(t, i) = IF b = Throws THEN Throws ELSE <<b, i + Len(text)>>
        /\ At(t, i) \in Digit \cup {Minus}
    <3>1. /\ ParseNumber(t, i) = IF got = Throws THEN Throws ELSE <<got[1], i + Len(text)>>
          /\ At(t, i) \in Digit \cup {Minus}
      BY <1>3, NumeralIsRead
    <3> HIDE DEF got, text
    <3>2. QED
      BY <2>0, <3>1 DEF ValueRead
  <2>2. ValueAt(t, i, read) = ParseNumber(t, i)
    BY <2>1, FlatCases
  <2>3. i \in 1 .. Len(t) /\ t[i] = At(t, i)
    <3>1. i \in Nat \ {0}
      BY DEF Holds
    <3>2. At(t, i) # 0
      BY <2>1 DEF Digit, Minus
    <3>3. i \in 1 .. Len(t)
      BY <3>1, <3>2, AtIs
    <3>4. QED
      BY <3>1, <3>3, AtIs
  <2>4. Starts(t, i)
    <3>1. t[i] \in Digit \cup {Minus}
      BY <2>1, <2>3
    <3>2. \A c \in Digit \cup {Minus} : c \notin Space \cup {CloseBracket, CloseBrace}
      BY DEF Space, CloseBracket, CloseBrace, Digit, Minus
    <3>3. QED
      BY <2>3, <3>1, <3>2 DEF Starts
  <2>5. ReadBack(v, back) = b
    BY <1>3
  <2> HIDE DEF b, text
  <2>6. QED
    BY <2>1, <2>2, <2>4, <2>5 DEF IsReadAs, GotUnless
<1>4. CASE v[1] \in {"int64", "uint64"} /\ v[2] \in -MaxSigned-1 .. MaxUnsigned
  <2>1. text = Decimal(v[2]) /\ ReadBack(v, back) = IntegerAsRead(v[2])
    BY <1>4, WrittenCases, FlatBack
  <2>2. /\ Decimal(v[2]) \in Numerals
        /\ ValueRead(ParseNumber(Decimal(v[2]), 1)) = IntegerAsRead(v[2])
    BY <1>4, DecimalIsRead DEF ValueRead
  <2>3. QED
    BY <1>3, <2>1, <2>2
<1>5. CASE v[1] = "double" /\ v = Double(v[2]) /\ v[2] \in Doubles
  <2>1. text = Shown(v[2]) /\ ReadBack(v, back) = ValueRead(ParseNumber(Shown(v[2]), 1))
    BY <1>5, WrittenCases, ReadBackCases
  <2>2. Shown(v[2]) \in Numerals
    BY <1>5, DoublesAssumption
  <2>3. QED
    BY <1>3, <2>1, <2>2
<1>6. CASE v[1] = "string" /\ v = String(v[2]) /\ v[2] \in Bytes
  <2>1. text = Quoted(v[2]) /\ ReadBack(v, back) = v
    BY <1>6, WrittenCases, ReadBackCases
  <2>2. /\ ParseString(t, i) = <<String(v[2]), i + Len(Quoted(v[2]))>>
        /\ At(t, i) = Quote /\ i \in 1 .. Len(t)
    BY <1>6, <2>1, QuotedIsRead
  <2>3. ValueAt(t, i, read) = ParseString(t, i)
    BY <2>2, FlatCases
  <2>4. t[i] = Quote
    BY <2>2, AtIs
  <2>5. Starts(t, i)
    BY <2>2, <2>4 DEF Starts, Space, CloseBracket, CloseBrace, Quote
  <2>6. QED
    BY <1>0, <1>6, <2>1, <2>2, <2>3, <2>5 DEF IsReadAs, GotUnless
<1>7. /\ \A n \in -MaxSigned-1 .. MaxSigned : n \in -MaxSigned-1 .. MaxUnsigned
      /\ \A n \in 0 .. MaxUnsigned : n \in -MaxSigned-1 .. MaxUnsigned
  BY JsonAssumption
<1>8. QED
  <2>1. \/ v = Null /\ v[1] = "null"
        \/ v[1] = "bool" /\ v = Bool(v[2]) /\ v[2] \in BOOLEAN
        \/ v[1] = "int64" /\ v[2] \in -MaxSigned-1 .. MaxSigned
        \/ v[1] = "uint64" /\ v[2] \in 0 .. MaxUnsigned
        \/ v[1] = "double" /\ v = Double(v[2]) /\ v[2] \in Doubles
        \/ v[1] = "string" /\ v = String(v[2]) /\ v[2] \in Bytes
    BY FlatKinds
  <2>2. CASE v[1] = "int64" /\ v[2] \in -MaxSigned-1 .. MaxSigned
    BY <1>4, <1>7, <2>2
  <2>3. CASE v[1] = "uint64" /\ v[2] \in 0 .. MaxUnsigned
    BY <1>4, <1>7, <2>3
  <2>4. QED
    BY <1>1, <1>2, <1>5, <1>6, <2>1, <2>2, <2>3

(* A value with nothing but its text before a comma or a bracket.           *)
LEMMA ItemIsRead ==
    ASSUME NEW t \in Bytes, NEW p, NEW e \in 1 .. Len(t), NEW v, NEW read, Starts(t, p),
           ValueAt(t, p, read) = GotUnless(v, e), t[e] \in {Comma, CloseBracket, CloseBrace}
    PROVE  /\ v = Throws => ItemHere(t, p, read) = Throws
           /\ v # Throws => /\ ItemHere(t, p, read) = <<v, e>>
                            /\ ItemHere(t, p, read) # Throws
                            /\ EndOf(t, ItemHere(t, p, read)) = e
           /\ At(t, e) = t[e]
PROOF
<1>1. Len(t) \in Nat
  BY BytesLen
<1>2. p \in 1 .. Len(t) /\ p \in 1 .. Len(t) + 1 /\ t[p] \notin Space
  BY <1>1 DEF Starts
<1>3. SkipWs(t, p) = p
  BY <1>2, PastHere DEF SkipWs
<1>4. e \in 1 .. Len(t) + 1 /\ t[e] \notin Space
  BY <1>1 DEF Space, Comma, CloseBracket, CloseBrace
<1>5. SkipWs(t, e) = e
  BY <1>4, PastHere DEF SkipWs
<1>6. ItemHere(t, p, read) = IF v = Throws THEN Throws ELSE <<v, e>>
  BY <1>3 DEF ItemHere, GotUnless
<1>7. At(t, e) = t[e]
  BY AtIs
<1>8. QED
  BY <1>5, <1>6, <1>7 DEF EndOf, Throws

(* The texts, and the values read again, of what is in an array or object. *)
LEMMA DumpTexts ==
    ASSUME NEW S, \A w \in S : Dump[w] \in Bytes
    PROVE  /\ \A items \in Seq(S) : /\ ItemTexts(Dump, items) \in Seq(Bytes)
                                    /\ Len(ItemTexts(Dump, items)) = Len(items)
                                    /\ \A k \in 1 .. Len(items) :
                                          ItemTexts(Dump, items)[k] = Dump[items[k]]
           /\ \A members \in Seq(Bytes \X S) :
                 /\ MemberTexts(Dump, members) \in Seq(Bytes)
                 /\ Len(MemberTexts(Dump, members)) = Len(members)
                 /\ \A k \in 1 .. Len(members) :
                       MemberTexts(Dump, members)[k] = MemberText(Dump, members[k])
           /\ \A m \in Bytes \X S : MemberText(Dump, m) \in Bytes
BY TextsTyped

(* Two intervals that are the same have the same end. *)
LEMMA SameLength ==
    ASSUME NEW a \in Nat, NEW b \in Nat, 1 .. a = 1 .. b
    PROVE  a = b
PROOF
<1>1. CASE a < b
  <2>1. b \in 1 .. b /\ b \notin 1 .. a
    BY <1>1
  <2>2. QED
    BY <2>1
<1>2. CASE b < a
  <2>1. a \in 1 .. a /\ a \notin 1 .. b
    BY <1>2
  <2>2. QED
    BY <2>1
<1>3. QED
  BY <1>1, <1>2

(* What is made of items and members, one by one. *)
LEMMA PartsAsRead ==
    ASSUME NEW S
    PROVE  LET X == {AsRead[w] : w \in S}
           IN  /\ \A items \in Seq(S) : /\ ItemsBack(AsRead, items) \in Seq(X)
                                        /\ Len(ItemsBack(AsRead, items)) = Len(items)
                                        /\ \A k \in 1 .. Len(items) :
                                              ItemsBack(AsRead, items)[k] = AsRead[items[k]]
               /\ \A members \in MembersTo(S) :
                     /\ MembersBack(AsRead, members) \in MembersTo(X)
                     /\ Len(MembersBack(AsRead, members)) = Len(members)
                     /\ \A k \in 1 .. Len(members) :
                           MembersBack(AsRead, members)[k]
                               = <<members[k][1], AsRead[members[k][2]]>>
PROOF
<1> DEFINE X == {AsRead[w] : w \in S}
<1>1. \A w \in S : AsRead[w] \in X
  OBVIOUS
<1> HIDE DEF X
<1>2. ASSUME NEW items \in Seq(S)
      PROVE  /\ ItemsBack(AsRead, items) \in Seq(X)
             /\ Len(ItemsBack(AsRead, items)) = Len(items)
             /\ \A k \in 1 .. Len(items) : ItemsBack(AsRead, items)[k] = AsRead[items[k]]
  <2> DEFINE b == ItemsBack(AsRead, items)
  <2>1. b \in Seq(X)
    BY <1>1, ItemsBackTyped
  <2>2. Len(items) \in Nat /\ DOMAIN items = 1 .. Len(items)
    BY LenProperties
  <2>3. DOMAIN b = DOMAIN items /\ \A k \in DOMAIN items : b[k] = AsRead[items[k]]
    BY DEF ItemsBack
  <2> HIDE DEF b
  <2>4. Len(b) \in Nat /\ DOMAIN b = 1 .. Len(b)
    BY <2>1, LenProperties, SMTT(60)
  <2>5. Len(b) = Len(items)
    <3>1. 1 .. Len(b) = 1 .. Len(items)
      BY <2>2, <2>3, <2>4
    <3>2. QED
      BY <2>2, <2>4, <3>1, SameLength
  <2>6. QED
    BY <2>1, <2>2, <2>3, <2>5 DEF b
<1>3. ASSUME NEW members \in MembersTo(S)
      PROVE  /\ MembersBack(AsRead, members) \in MembersTo(X)
             /\ Len(MembersBack(AsRead, members)) = Len(members)
             /\ \A k \in 1 .. Len(members) :
                   MembersBack(AsRead, members)[k]
                     = <<members[k][1], AsRead[members[k][2]]>>
  <2> DEFINE b == MembersBack(AsRead, members)
  <2>1. b \in MembersTo(X)
    BY <1>1, ItemsBackTyped
  <2>2. Len(members) \in Nat /\ DOMAIN members = 1 .. Len(members)
    BY MembersAre
  <2>3. /\ DOMAIN b = DOMAIN members
        /\ \A k \in DOMAIN members : b[k] = <<members[k][1], AsRead[members[k][2]]>>
    BY DEF MembersBack
  <2> HIDE DEF b
  <2>4. Len(b) \in Nat /\ DOMAIN b = 1 .. Len(b)
    BY <2>1, MembersAre, SMTT(60)
  <2>5. Len(b) = Len(members)
    <3>1. 1 .. Len(b) = 1 .. Len(members)
      BY <2>2, <2>3, <2>4
    <3>2. QED
      BY <2>2, <2>4, <3>1, SameLength
  <2>6. QED
    BY <2>1, <2>2, <2>3, <2>5 DEF b
<1>4. QED
  BY <1>2, <1>3 DEF X

(* The text of v is read as what AsRead says, wherever it is.               *)
IsRead(v) ==
    \A t \in Bytes : \A i :
        Holds(t, i, Dump[v]) /\ Ends(t, i + Len(Dump[v])) =>
            IsReadAs(t, i, Dump[v], ValueAt(t, i, Reader(t)), AsRead[v])

(* The loop of parse_array reads the items that dump has written between the*)
(* brackets.                                                                *)
LEMMA ItemsAreRead ==
    ASSUME NEW S, \A w \in S : IsRead(w) /\ Dump[w] \in Bytes,
           NEW items \in Seq(S), Len(items) > 0, NEW t \in Bytes, NEW i,
           NEW e \in 1 .. Len(t),
           Holds(t, i, CommaSeparated(ItemTexts(Dump, items))),
           e = i + Len(CommaSeparated(ItemTexts(Dump, items))), t[e] = CloseBracket
    PROVE  /\ Reader(t)[<<"items", i>>] =
                 IF \E k \in 1 .. Len(items) : AsRead[items[k]] = Throws THEN Throws
                 ELSE <<ItemsBack(AsRead, items), e + 1>>
           /\ Starts(t, i)
PROOF
<1> DEFINE texts == ItemTexts(Dump, items)
           n == Len(items)
           X == {AsRead[w] : w \in S}
           back == ItemsBack(AsRead, items)
           read == Reader(t)
<1>1. /\ texts \in Seq(Bytes) /\ Len(texts) = n
      /\ \A k \in 1 .. n : texts[k] = Dump[items[k]]
  <2>1. \A w \in S : Dump[w] \in Bytes
    OBVIOUS
  <2>2. QED
    BY <2>1, DumpTexts
<1>2. back \in Seq(X) /\ Len(back) = n /\ \A k \in 1 .. n : back[k] = AsRead[items[k]]
  BY PartsAsRead
<1>3. n \in Nat /\ n > 0 /\ Len(t) \in Nat /\ \A k \in 1 .. n : items[k] \in S
  BY LenProperties, ElementOfSeq, BytesLen
<1> HIDE DEF texts, n
<1>4. PICK pos \in [1 .. n -> Nat] :
              /\ pos[1] = i
              /\ \A k \in 1 .. n : Holds(t, pos[k], texts[k])
              /\ \A k \in 1 .. n - 1 :
                    /\ pos[k] + Len(texts[k]) \in 1 .. Len(t)
                    /\ t[pos[k] + Len(texts[k])] = Comma
                    /\ pos[k+1] = pos[k] + Len(texts[k]) + 1
              /\ pos[n] + Len(texts[n]) = i + Len(CommaSeparated(texts))
  <2>1. Len(texts) > 0 /\ Holds(t, i, CommaSeparated(texts))
    BY <1>1, <1>3 DEF texts
  <2>2. QED
    BY <1>1, <2>1, CommaPlaces, ZenonT(60)
<1>5. pos[n] + Len(texts[n]) = e
  BY <1>4 DEF texts
<1> HIDE DEF back, read
<1>6. ASSUME NEW k \in 1 .. n
      PROVE  /\ Starts(t, pos[k])
             /\ back[k] = Throws => ItemsAt(t, pos[k], read) = Throws
             /\ back[k] # Throws /\ k = n
                  => ItemsAt(t, pos[k], read) = Got(<<back[k]>>, e + 1)
             /\ back[k] # Throws /\ k < n => ItemsAt(t, pos[k], read) =
                           IF read[<<"items", pos[k+1]>>] = Throws THEN Throws
                           ELSE Got(<<back[k]>> \o read[<<"items", pos[k+1]>>][1],
                                    read[<<"items", pos[k+1]>>][2])
  <2> DEFINE p == pos[k]
             end == p + Len(texts[k])
             v == back[k]
  <2>1. /\ k = n => end = e /\ end \in 1 .. Len(t) /\ t[end] = CloseBracket
        /\ k < n => end \in 1 .. Len(t) /\ t[end] = Comma /\ pos[k+1] = end + 1
    <3>1. k < n => k \in 1 .. n - 1
      BY <1>3
    <3>2. QED
      BY <1>4, <1>5, <3>1
  <2>2. k = n \/ k < n
    BY <1>3
  <2>3. Ends(t, end)
    BY <2>1, <2>2 DEF Ends, Enders
  <2>4. IsReadAs(t, p, texts[k], ValueAt(t, p, read), v)
    <3>1. /\ texts[k] = Dump[items[k]] /\ v = AsRead[items[k]] /\ items[k] \in S
          /\ Holds(t, p, texts[k])
      BY <1>1, <1>2, <1>3, <1>4
    <3>2. QED
      BY <2>3, <3>1 DEF IsRead, read
  <2>5. Starts(t, p) /\ ValueAt(t, p, read) = GotUnless(v, end)
    BY <2>4 DEF IsReadAs
  <2> HIDE DEF p, end, v
  <2>6. end \in 1 .. Len(t) /\ t[end] \in {Comma, CloseBracket, CloseBrace}
    BY <2>1, <2>2
  <2>7. /\ v = Throws => ItemHere(t, p, read) = Throws
        /\ v # Throws => /\ ItemHere(t, p, read) = <<v, end>>
                         /\ ItemHere(t, p, read) # Throws
                         /\ EndOf(t, ItemHere(t, p, read)) = end
        /\ At(t, end) = t[end]
    BY <2>5, <2>6, ItemIsRead
  <2> DEFINE r == read[<<"items", end + 1>>]
  <2>8. ItemsAt(t, p, read) =
                 IF v = Throws THEN Throws
                 ELSE IF At(t, end) = CloseBracket THEN Got(<<v>>, end + 1)
                 ELSE IF At(t, end) = Comma
                 THEN IF r = Throws THEN Throws ELSE Got(<<v>> \o r[1], r[2])
                 ELSE Throws
    <3> DEFINE item == ItemHere(t, p, read)
               q == EndOf(t, item)
    <3>1. ItemsAt(t, p, read) =
                 IF item = Throws THEN Throws
                 ELSE IF At(t, q) = CloseBracket THEN Got(<<item[1]>>, q + 1)
                 ELSE IF At(t, q) = Comma
                 THEN IF read[<<"items", q + 1>>] = Throws THEN Throws
                      ELSE Got(<<item[1]>> \o read[<<"items", q + 1>>][1],
                               read[<<"items", q + 1>>][2])
                 ELSE Throws
      BY ItemsCases
    <3>2. /\ v = Throws => item = Throws
          /\ v # Throws => item # Throws /\ item[1] = v /\ q = end
      BY <2>7
    <3> HIDE DEF item, q
    <3>3. QED
      BY <3>1, <3>2
  <2>9. v # Throws /\ k = n => ItemsAt(t, p, read) = Got(<<v>>, e + 1)
    BY <2>1, <2>7, <2>8
  <2>10. Comma # CloseBracket
    BY DEF Comma, CloseBracket
  <2>11. v # Throws /\ k < n => ItemsAt(t, p, read) = IF r = Throws THEN Throws
           ELSE Got(<<v>> \o r[1], r[2])
    BY <2>1, <2>7, <2>8, <2>10
  <2>12. k < n => r = read[<<"items", pos[k+1]>>]
    BY <2>1
  <2> HIDE DEF r
  <2>13. QED
    BY <2>5, <2>8, <2>9, <2>11, <2>12 DEF p, v
<1> DEFINE Lost(k) == \E j \in k .. n : back[j] = Throws
           G == {k \in 1 .. n : read[<<"items", pos[k]>>] =
                                   IF Lost(k) THEN Throws
                                     ELSE <<SubSeq(back, k, n), e + 1>>}
<1>7. ASSUME NEW k \in 1 .. n, \A j \in k + 1 .. n : j \in G
      PROVE  k \in G
  <2>1. read[<<"items", pos[k]>>] = ItemsAt(t, pos[k], read)
    <3>1. pos[k] \in 1 .. Len(t) + 1
      <4>1. Starts(t, pos[k])
        BY <1>6
      <4>2. pos[k] \in 1 .. Len(t)
        BY <4>1 DEF Starts
      <4>3. QED
        BY <1>3, <4>2
    <3>2. QED
      BY <3>1, ReaderSteps DEF read
  <2>2. SubSeq(back, k, n) = <<back[k]>> \o SubSeq(back, k + 1, n)
    BY <1>2, Tails
  <2>a. Lost(k) <=> back[k] = Throws \/ (k < n /\ Lost(k + 1))
    <3>1. k .. n = {k} \cup (k + 1 .. n)
      BY <1>3
    <3>2. k + 1 .. n # {} => k < n
      BY <1>3
    <3>3. QED
      BY <3>1, <3>2
  <2>b. CASE back[k] = Throws
    BY <1>6, <2>1, <2>a, <2>b
  <2>3. CASE back[k] # Throws /\ k = n
    <3>1. SubSeq(back, n + 1, n) = <<>>
      BY <1>2, Tails
    <3>2. <<back[k]>> \o <<>> = <<back[k]>>
      OBVIOUS
    <3>3. SubSeq(back, k, n) = <<back[k]>>
      BY <2>2, <2>3, <3>1, <3>2
    <3>4. ~Lost(k)
      BY <1>3, <2>3, <2>a
    <3> HIDE DEF Lost
    <3>5. QED
      BY <1>6, <2>1, <2>3, <3>3, <3>4 DEF Got
  <2>4. CASE back[k] # Throws /\ k < n
    <3> DEFINE tail == SubSeq(back, k + 1, n)
               r == read[<<"items", pos[k+1]>>]
    <3>1. k + 1 \in k + 1 .. n
      BY <1>3, <2>4
    <3>2. r = IF Lost(k + 1) THEN Throws ELSE <<tail, e + 1>>
      BY <1>7, <3>1
    <3>a. Lost(k) <=> Lost(k + 1)
      BY <2>4, <2>a
    <3>3. ItemsAt(t, pos[k], read) = IF r = Throws THEN Throws
            ELSE Got(<<back[k]>> \o r[1], r[2])
      BY <1>6, <2>4
    <3> HIDE DEF r, tail, Lost
    <3>4. ItemsAt(t, pos[k], read) = IF Lost(k) THEN Throws
            ELSE <<<<back[k]>> \o tail, e + 1>>
      BY <3>2, <3>3, <3>a, ThrowsIsNothing DEF Got
    <3>5. QED
      BY <2>1, <2>2, <3>4 DEF tail
  <2>5. k = n \/ k < n
    BY <1>3
  <2>6. QED
    BY <2>b, <2>3, <2>4, <2>5
<1> HIDE DEF G
<1>8. \A k \in 1 .. n : k \in G
  BY <1>3, <1>7, DownInduction
<1>9. 1 \in 1 .. n /\ SubSeq(back, 1, n) = back
  BY <1>2, <1>3, Tails
<1>a. Lost(1) <=> \E k \in 1 .. n : AsRead[items[k]] = Throws
  BY <1>2
<1> HIDE DEF Lost
<1>10. read[<<"items", i>>] = IF Lost(1) THEN Throws ELSE <<back, e + 1>>
  BY <1>4, <1>8, <1>9 DEF G
<1>11. Starts(t, i)
  BY <1>4, <1>6, <1>9
<1>12. QED
  BY <1>10, <1>11, <1>a DEF back, read, n

(* A member: its name, the colon, and its value before a comma or a bracket.*)
LEMMA MemberIsRead ==
    ASSUME NEW s \in Bytes, NEW w, IsRead(w), Dump[w] \in Bytes, NEW t \in Bytes, NEW p,
           NEW m, m = <<s, w>>, Holds(t, p, MemberText(Dump, m)),
           NEW e \in 1 .. Len(t), e = p + Len(MemberText(Dump, m)),
           t[e] \in {Comma, CloseBrace}
    PROVE  LET value == ItemHere(t, AfterColon(t, p), Reader(t))
           IN  /\ Starts(t, p) /\ NameGiven(t, p)
               /\ AsRead[w] = Throws => value = Throws
               /\ AsRead[w] # Throws => /\ value # Throws
                                        /\ MemberOf(t, p, value) = <<s, AsRead[w]>>
                                        /\ EndOf(t, value) = e
               /\ At(t, e) = t[e]
PROOF
<1> DEFINE q == Quoted(s)
           c == <<Colon>>
           d == Dump[w]
           x == q \o c
           j == p + Len(q)
<1>1. q \in Bytes /\ c \in Bytes /\ d \in Bytes /\ Len(c) = 1
  BY QuotedTyped, WordsTyped
<1>2. MemberText(Dump, m) = x \o d
  BY DEF MemberText
<1>3. /\ ParseString(t, p) = <<String(s), p + Len(q)>> /\ At(t, p) = Quote
      /\ p \in 1 .. Len(t)
      /\ Holds(t, j, c) /\ Holds(t, j + 1, d) /\ e = j + 1 + Len(d)
      /\ j \in Nat \ {0}
  <2> HIDE DEF q, c, d
  <2>0. q \o c \in Bytes /\ Len(q \o c) = Len(q) + Len(c)
    BY <1>1, ConcatBytes
  <2>1. x \in Bytes /\ Len(x) = Len(q) + 1
    BY <1>1, <2>0
  <2> HIDE DEF x
  <2>a. Holds(t, p, x \o d) /\ e = p + Len(x \o d)
    BY <1>2
  <2>b. Holds(t, p, x) /\ Holds(t, p + Len(x), d)
    BY <1>1, <2>1, <2>a, HoldsConcat
  <2>c. Len(x \o d) = Len(x) + Len(d)
    BY <1>1, <2>1, ConcatBytes
  <2>2. Holds(t, p, x) /\ Holds(t, p + Len(x), d) /\ e = p + (Len(x) + Len(d))
    BY <2>a, <2>b, <2>c
  <2>3. Holds(t, p, q) /\ Holds(t, p + Len(q), c)
    BY <1>1, <2>2, HoldsConcat DEF x
  <2>4. ParseString(t, p) = <<String(s), p + Len(q)>> /\ At(t, p) = Quote
          /\ p \in 1 .. Len(t)
    BY <2>3, QuotedIsRead DEF q
  <2>5. Len(q) \in Nat /\ Len(d) \in Nat /\ p \in Nat /\ p > 0
    BY <1>1, <2>4, BytesLen
  <2>6. p + Len(x) = j + 1 /\ e = j + 1 + Len(d) /\ j \in Nat \ {0}
    BY <2>1, <2>2, <2>5
  <2>7. QED
    BY <2>2, <2>3, <2>4, <2>6
<1> HIDE DEF q, c, d, x
<1>4. Len(t) \in Nat /\ Len(d) \in Nat
  BY <1>1, BytesLen
<1>5. j \in 1 .. Len(t) /\ t[j] = Colon
  <2>1. c[1] = Colon
    BY DEF c
  <2> HIDE DEF j
  <2>2. QED
    BY <1>1, <1>3, <1>4, <2>1 DEF Holds
<1>6. t[p] = Quote
  <2>1. p \in Nat \ {0} /\ p <= Len(t)
    BY <1>3, <1>4
  <2>2. At(t, p) = t[p]
    BY <2>1, AtIs
  <2>3. QED
    BY <1>3, <2>2
<1>7. Starts(t, p)
  BY <1>3, <1>6 DEF Starts, Space, CloseBracket, CloseBrace, Quote
<1>8. SkipWs(t, p) = p
  <2>1. p \in 1 .. Len(t) + 1 /\ t[p] \notin Space
    BY <1>3, <1>4, <1>6 DEF Space, Quote
  <2>2. QED
    BY <2>1, PastHere DEF SkipWs
<1>9. SkipWs(t, j) = j /\ At(t, j) = Colon
  <2>1. j \in 1 .. Len(t) + 1 /\ t[j] \notin Space
    BY <1>4, <1>5 DEF Space, Colon
  <2> HIDE DEF j
  <2>2. SkipWs(t, j) = j
    BY <2>1, PastHere DEF SkipWs
  <2>3. At(t, j) = t[j]
    BY <1>5, AtIs
  <2>4. QED
    BY <1>5, <2>2, <2>3
<1>10. NameHere(t, p) = <<String(s), j>> /\ NameHere(t, p) # Throws
  <2>1. NameHere(t, p) = <<String(s), j>>
    BY <1>3, <1>8 DEF NameHere
  <2>2. QED
    BY <2>1, ThrowsIsNothing DEF Got
<1>11. ColonHere(t, NameHere(t, p)) = j
  BY <1>9, <1>10 DEF ColonHere
<1>12. NameGiven(t, p) /\ AfterColon(t, p) = j + 1
  BY <1>9, <1>10, <1>11 DEF NameGiven, AfterColon
<1> DEFINE value == ItemHere(t, AfterColon(t, p), Reader(t))
           y == j + 1
<1>13. Ends(t, y + Len(d)) /\ t[e] \in {Comma, CloseBracket, CloseBrace} /\ e = y + Len(d)
  <2>1. y + Len(d) = e
    BY <1>3
  <2>2. QED
    BY <2>1 DEF Ends, Enders
<1>14. IsReadAs(t, y, d, ValueAt(t, y, Reader(t)), AsRead[w])
  <2> HIDE DEF y
  <2>1. Holds(t, y, d)
    BY <1>3 DEF y
  <2>2. QED
    BY <1>13, <2>1 DEF IsRead, d
<1> HIDE DEF y, j
<1>15. Starts(t, y) /\ ValueAt(t, y, Reader(t)) = GotUnless(AsRead[w], e)
  BY <1>13, <1>14 DEF IsReadAs
<1>16. /\ AsRead[w] = Throws => value = Throws
       /\ AsRead[w] # Throws => /\ value = <<AsRead[w], e>> /\ value # Throws
                                /\ EndOf(t, value) = e
       /\ At(t, e) = t[e]
  <2>1. value = ItemHere(t, y, Reader(t))
    BY <1>12 DEF y
  <2> HIDE DEF value
  <2>2. QED
    BY <1>13, <1>15, <2>1, ItemIsRead
<1>17. AsRead[w] # Throws => MemberOf(t, p, value) = <<s, AsRead[w]>>
  <2>1. NameHere(t, p)[1][2] = s
    BY <1>10 DEF String
  <2> HIDE DEF value
  <2>2. QED
    BY <1>16, <2>1 DEF MemberOf
<1>18. QED
  BY <1>7, <1>12, <1>16, <1>17

(* The loop of parse_object reads the members that dump has written between *)
(* the braces: each goes in front of those that follow it, since their names*)
(* are in order.                                                            *)
LEMMA MembersAreRead ==
    ASSUME NEW S, \A w \in S : IsRead(w) /\ Dump[w] \in Bytes,
           NEW members \in MembersTo(S), Len(members) > 0, NEW t \in Bytes, NEW i,
           NEW e \in 1 .. Len(t),
           Holds(t, i, CommaSeparated(MemberTexts(Dump, members))),
           e = i + Len(CommaSeparated(MemberTexts(Dump, members))), t[e] = CloseBrace
    PROVE  /\ Reader(t)[<<"members", i>>] =
                 IF \E k \in 1 .. Len(members) : AsRead[members[k][2]] = Throws THEN Throws
                 ELSE <<MembersBack(AsRead, members), e + 1>>
           /\ Starts(t, i)
PROOF
<1> DEFINE texts == MemberTexts(Dump, members)
           n == Len(members)
           X == {AsRead[w] : w \in S}
           back == MembersBack(AsRead, members)
           read == Reader(t)
<1>0. /\ members \in Seq(Bytes \X S)
      /\ \A k \in 1 .. n : /\ members[k] = <<members[k][1], members[k][2]>>
                           /\ members[k][1] \in Bytes /\ members[k][2] \in S
  BY MembersAre
<1>1. /\ texts \in Seq(Bytes) /\ Len(texts) = n
      /\ \A k \in 1 .. n : texts[k] = MemberText(Dump, members[k])
  <2>1. \A w \in S : Dump[w] \in Bytes
    OBVIOUS
  <2>2. QED
    BY <1>0, <2>1, DumpTexts
<1>2. /\ back \in MembersTo(X) /\ Len(back) = n
      /\ \A k \in 1 .. n : back[k] = <<members[k][1], AsRead[members[k][2]]>>
  BY PartsAsRead
<1>3. n \in Nat /\ n > 0 /\ Len(t) \in Nat
  BY MembersAre, BytesLen
<1> HIDE DEF texts, n
<1>4. PICK pos \in [1 .. n -> Nat] :
              /\ pos[1] = i
              /\ \A k \in 1 .. n : Holds(t, pos[k], texts[k])
              /\ \A k \in 1 .. n - 1 :
                    /\ pos[k] + Len(texts[k]) \in 1 .. Len(t)
                    /\ t[pos[k] + Len(texts[k])] = Comma
                    /\ pos[k+1] = pos[k] + Len(texts[k]) + 1
              /\ pos[n] + Len(texts[n]) = i + Len(CommaSeparated(texts))
  <2>1. Len(texts) > 0 /\ Holds(t, i, CommaSeparated(texts))
    BY <1>1, <1>3 DEF texts
  <2>2. QED
    BY <1>1, <2>1, CommaPlaces
<1>5. pos[n] + Len(texts[n]) = e
  BY <1>4 DEF texts
<1> HIDE DEF back, read, X
<1>6. ASSUME NEW k \in 1 .. n
      PROVE  /\ Starts(t, pos[k])
             /\ back[k][2] = Throws => MembersAt(t, pos[k], read) = Throws
             /\ back[k][2] # Throws /\ k = n
                   => MembersAt(t, pos[k], read) = Got(<<back[k]>>, e + 1)
             /\ back[k][2] # Throws /\ k < n => MembersAt(t, pos[k], read) =
                           IF read[<<"members", pos[k+1]>>] = Throws THEN Throws
                           ELSE Got(WithMember(back[k], read[<<"members", pos[k+1]>>][1]),
                                    read[<<"members", pos[k+1]>>][2])
  <2> DEFINE p == pos[k]
             end == p + Len(texts[k])
             v == back[k]
             m == members[k]
             value == ItemHere(t, AfterColon(t, p), read)
  <2>1. /\ k = n => end = e /\ end \in 1 .. Len(t) /\ t[end] = CloseBrace
        /\ k < n => end \in 1 .. Len(t) /\ t[end] = Comma /\ pos[k+1] = end + 1
    <3>1. k < n => k \in 1 .. n - 1
      BY <1>3
    <3>2. QED
      BY <1>4, <1>5, <3>1
  <2>2. k = n \/ k < n
    BY <1>3
  <2>3. end \in 1 .. Len(t) /\ t[end] \in {Comma, CloseBrace}
    BY <2>1, <2>2
  <2>4. /\ m = <<m[1], m[2]>> /\ m[1] \in Bytes /\ m[2] \in S
        /\ texts[k] = MemberText(Dump, m)
        /\ v = <<m[1], AsRead[m[2]]>> /\ Holds(t, p, texts[k])
    BY <1>0, <1>1, <1>2, <1>4
  <2>5. IsRead(m[2]) /\ Dump[m[2]] \in Bytes
    BY <2>4
  <2> HIDE DEF p, v, m
  <2>6. Holds(t, p, MemberText(Dump, m)) /\ end = p + Len(MemberText(Dump, m))
    BY <2>4
  <2> HIDE DEF end
  <2>7. /\ Starts(t, p) /\ NameGiven(t, p)
        /\ v[2] = Throws => value = Throws
        /\ v[2] # Throws => /\ value # Throws /\ MemberOf(t, p, value) = v
                            /\ EndOf(t, value) = end
        /\ At(t, end) = t[end]
    <3> DEFINE a == m[1]
               w == m[2]
    <3>1. a \in Bytes /\ m = <<a, w>> /\ IsRead(w) /\ Dump[w] \in Bytes
            /\ v = <<a, AsRead[w]>>
      BY <2>4, <2>5
    <3> HIDE DEF a, w
    <3>2. QED
      BY <2>3, <2>6, <3>1, MemberIsRead DEF read
  <2> DEFINE z == EndOf(t, value)
             r == read[<<"members", z + 1>>]
  <2>8. MembersAt(t, p, read) =
                 IF ~NameGiven(t, p) \/ value = Throws THEN Throws
                 ELSE IF At(t, z) = CloseBrace THEN Got(<<MemberOf(t, p, value)>>, z + 1)
                 ELSE IF At(t, z) = Comma
                 THEN IF r = Throws THEN Throws
                   ELSE Got(WithMember(MemberOf(t, p, value), r[1]), r[2])
                 ELSE Throws
    BY MembersCases
  <2>9. v[2] # Throws => z = end
    BY <2>7
  <2> HIDE DEF value, z
  <2>a. v[2] = Throws => MembersAt(t, p, read) = Throws
    BY <2>7, <2>8
  <2>10. v[2] # Throws /\ k = n => MembersAt(t, p, read) = Got(<<v>>, e + 1)
    BY <2>1, <2>7, <2>8, <2>9
  <2>11. Comma # CloseBrace
    BY DEF Comma, CloseBrace
  <2>12. v[2] # Throws /\ k < n => MembersAt(t, p, read) = IF r = Throws THEN Throws
           ELSE Got(WithMember(v, r[1]), r[2])
    BY <2>1, <2>7, <2>8, <2>9, <2>11
  <2>13. v[2] # Throws /\ k < n => r = read[<<"members", pos[k+1]>>]
    BY <2>1, <2>9
  <2> HIDE DEF r
  <2>14. QED
    BY <2>7, <2>a, <2>10, <2>12, <2>13 DEF p, v
<1> DEFINE Lost(k) == \E j \in k .. n : back[j][2] = Throws
           G == {k \in 1 .. n : read[<<"members", pos[k]>>] =
                                   IF Lost(k) THEN Throws
                                     ELSE <<SubSeq(back, k, n), e + 1>>}
<1>a. /\ back \in Seq(Bytes \X X) /\ \A j, k \in 1 .. n : j < k
           => Before(back[j][1], back[k][1])
      /\ \A k \in 1 .. n : back[k] \in Bytes \X X
  <2>1. /\ back \in Seq(Bytes \X X) /\ Len(back) = n
        /\ \A j, k \in 1 .. n : j < k => Before(back[j][1], back[k][1])
    BY <1>2, MembersAre
  <2>2. QED
    BY <2>1, ElementOfSeq
<1>7. ASSUME NEW k \in 1 .. n, \A j \in k + 1 .. n : j \in G
      PROVE  k \in G
  <2>1. read[<<"members", pos[k]>>] = MembersAt(t, pos[k], read)
    <3>1. pos[k] \in 1 .. Len(t) + 1
      <4>1. Starts(t, pos[k])
        BY <1>6
      <4>2. pos[k] \in 1 .. Len(t)
        BY <4>1 DEF Starts
      <4>3. QED
        BY <1>3, <4>2
    <3>2. QED
      BY <3>1, ReaderSteps DEF read
  <2> DEFINE tail == SubSeq(back, k + 1, n)
  <2>2. SubSeq(back, k, n) = <<back[k]>> \o tail
    BY <1>2, <1>a, Tails
  <2>a. Lost(k) <=> back[k][2] = Throws \/ (k < n /\ Lost(k + 1))
    <3>1. k .. n = {k} \cup (k + 1 .. n)
      BY <1>3
    <3>2. k + 1 .. n # {} => k < n
      BY <1>3
    <3>3. QED
      BY <3>1, <3>2
  <2>b. CASE back[k][2] = Throws
    BY <1>6, <2>1, <2>a, <2>b
  <2>3. CASE back[k][2] # Throws /\ k = n
    <3>1. tail = <<>>
      BY <1>2, <1>a, <2>3, Tails
    <3>2. <<back[k]>> \o <<>> = <<back[k]>>
      OBVIOUS
    <3>3. SubSeq(back, k, n) = <<back[k]>>
      BY <2>2, <3>1, <3>2
    <3>4. ~Lost(k)
      BY <1>3, <2>3, <2>a
    <3> HIDE DEF Lost
    <3>5. QED
      BY <1>6, <2>1, <2>3, <3>3, <3>4 DEF Got
  <2>4. CASE back[k][2] # Throws /\ k < n
    <3> DEFINE r == read[<<"members", pos[k+1]>>]
               b == back[k]
    <3>1. k + 1 \in k + 1 .. n /\ k + 1 \in 1 .. n + 1
      BY <1>3, <2>4
    <3>2. r = IF Lost(k + 1) THEN Throws ELSE <<tail, e + 1>>
      BY <1>7, <3>1
    <3>a. Lost(k) <=> Lost(k + 1)
      BY <2>4, <2>a
    <3>3. MembersAt(t, pos[k], read) = IF r = Throws THEN Throws
            ELSE Got(WithMember(b, r[1]), r[2])
      BY <1>6, <2>4
    <3> HIDE DEF Lost
    <3>4. /\ tail \in Seq(Bytes \X X) /\ Len(tail) = n - k
          /\ \A j \in 1 .. n - k : tail[j] = back[k + j]
      <4> DEFINE a == k + 1
      <4>1. a \in 1 .. n + 1 /\ n + 1 - a = n - k /\ \A j \in 1 .. n - k : a + j - 1 = k + j
        BY <1>3, <3>1
      <4> HIDE DEF a
      <4>2. /\ SubSeq(back, a, n) \in Seq(Bytes \X X) /\ Len(SubSeq(back, a, n)) = n + 1 - a
            /\ \A j \in 1 .. n + 1 - a : SubSeq(back, a, n)[j] = back[a + j - 1]
        BY <1>2, <1>a, <4>1, Tails, SMTT(60)
      <4>3. QED
        BY <4>1, <4>2 DEF a
    <3> HIDE DEF tail
    <3>5. \A j \in 1 .. n - k : k + j \in 1 .. n /\ k < k + j
      BY <1>3
    <3>6. \A i1, j1 \in 1 .. n - k : i1 < j1 => k + i1 < k + j1
      BY <1>3
    <3>7. tail \in MembersTo(X)
      <4>1. DOMAIN tail = 1 .. n - k
        BY <3>4, LenProperties
      <4>2. Sorted(tail)
        <5>1. ASSUME NEW i1 \in 1 .. n - k, NEW j1 \in 1 .. n - k, i1 < j1
              PROVE  Before(tail[i1][1], tail[j1][1])
          <6>1. tail[i1] = back[k + i1] /\ tail[j1] = back[k + j1]
            BY <3>4
          <6>2. k + i1 \in 1 .. n /\ k + j1 \in 1 .. n /\ k + i1 < k + j1
            BY <3>5, <3>6, <5>1
          <6>3. Before(back[k + i1][1], back[k + j1][1])
            BY <1>a, <6>2
          <6>4. QED
            BY <6>1, <6>3
        <5>2. QED
          BY <4>1, <5>1 DEF Sorted
      <4>3. QED
        BY <3>4, <4>2 DEF MembersTo
    <3>8. b \in Bytes \X X /\ \A j \in 1 .. Len(tail) : Before(b[1], tail[j][1])
      BY <1>a, <3>4, <3>5
    <3> HIDE DEF r, b
    <3>9. WithMember(b, tail) = <<b>> \o tail
      BY <3>7, <3>8, WithSmallest
    <3>10. MembersAt(t, pos[k], read) = IF Lost(k) THEN Throws ELSE <<<<b>> \o tail, e + 1>>
      BY <3>2, <3>3, <3>9, <3>a, ThrowsIsNothing DEF Got
    <3>11. QED
      BY <2>1, <2>2, <3>10 DEF b
  <2>5. k = n \/ k < n
    BY <1>3
  <2>6. QED
    BY <2>b, <2>3, <2>4, <2>5
<1> HIDE DEF G
<1>8. \A k \in 1 .. n : k \in G
  BY <1>3, <1>7, DownInduction
<1>9. 1 \in 1 .. n /\ SubSeq(back, 1, n) = back
  BY <1>2, <1>3, <1>a, Tails
<1>b. Lost(1) <=> \E k \in 1 .. n : AsRead[members[k][2]] = Throws
  <2>1. \A k \in 1 .. n : back[k][2] = AsRead[members[k][2]]
    BY <1>2
  <2> HIDE DEF back, n
  <2>2. QED
    BY <2>1
<1> HIDE DEF Lost
<1>10. read[<<"members", i>>] = IF Lost(1) THEN Throws ELSE <<back, e + 1>>
  BY <1>4, <1>8, <1>9 DEF G
<1>11. Starts(t, i)
  BY <1>4, <1>6, <1>9
<1>12. QED
  BY <1>10, <1>11, <1>b DEF back, read, n

(* Without items there is nothing between the brackets. *)
LEMMA EmptyParts ==
    ASSUME NEW texts \in Seq(Bytes), Len(texts) = 0
    PROVE  Len(CommaSeparated(texts)) = 0
PROOF
<1>1. /\ Parts(texts) \in Seq(Bytes) /\ Len(Parts(texts)) = 0
      /\ CommaSeparated(texts) = FlattenSeq(Parts(texts))
  BY PartsTyped
<1> DEFINE parts == Parts(texts)
<1> HIDE DEF parts
<1>2. FlattenSeq(parts) = <<>>
  BY <1>1, FlattenSteps DEF parts
<1>3. QED
  BY <1>1, <1>2 DEF parts

(* An array or object that is written, between its brackets.                *)
LEMMA BracketsAreRead ==
    ASSUME NEW a \in {OpenBracket, OpenBrace}, NEW b \in {CloseBracket, CloseBrace},
           NEW x \in Bytes, NEW t \in Bytes, NEW i, Holds(t, i, <<a>> \o x \o <<b>>)
    PROVE  LET e == i + Len(x) + 1
           IN  /\ Starts(t, i) /\ At(t, i) = a
               /\ Holds(t, i + 1, x) /\ e \in 1 .. Len(t) /\ t[e] = b
               /\ e = (i + 1) + Len(x)
               /\ i + Len(<<a>> \o x \o <<b>>) = e + 1
               /\ Starts(t, i + 1) => /\ SkipWs(t, i + 1) = i + 1
                                      /\ At(t, i + 1) \notin {CloseBracket, CloseBrace}
               /\ Len(x) = 0 => /\ SkipWs(t, i + 1) = i + 1
                                /\ At(t, i + 1) = b /\ e = i + 1
PROOF
<1> DEFINE e == i + Len(x) + 1
<1>1. a \in Byte /\ b \in Byte
  BY WordsTyped
<1>2. /\ Len(<<a>> \o x \o <<b>>) = Len(x) + 2
      /\ i \in 1 .. Len(t) /\ t[i] = a /\ Holds(t, i + 1, x) /\ e \in 1 .. Len(t)
      /\ t[e] = b
  <2>1. Len(<<a>> \o x \o <<b>>) = Len(x) + 2
    BY <1>1, EnclosedTyped
  <2>2. /\ i \in 1 .. Len(t) /\ t[i] = a /\ Holds(t, i + 1, x)
        /\ i + Len(x) + 1 \in 1 .. Len(t) /\ t[i + Len(x) + 1] = b
    BY <1>1, EnclosedHeld
  <2>3. QED
    BY <2>1, <2>2
<1>3. Len(x) \in Nat /\ Len(t) \in Nat /\ i \in Nat
  BY <1>2, BytesLen
<1>4. e = (i + 1) + Len(x) /\ i + Len(<<a>> \o x \o <<b>>) = e + 1
  BY <1>2, <1>3
<1>5. Starts(t, i)
  BY <1>2 DEF Starts, Space, OpenBracket, OpenBrace, CloseBracket, CloseBrace
<1>6. At(t, i) = a
  BY <1>2, <1>3, AtIs
<1>7. \A j \in 1 .. Len(t) : /\ At(t, j) = t[j]
                             /\ t[j] \notin Space => SkipWs(t, j) = j
  <2>1. ASSUME NEW j \in 1 .. Len(t)
        PROVE  At(t, j) = t[j] /\ (t[j] \notin Space => SkipWs(t, j) = j)
    <3>1. j \in 1 .. Len(t) + 1 /\ j \in Nat \ {0} /\ j <= Len(t)
      BY <1>3
    <3>2. At(t, j) = t[j]
      BY <3>1, AtIs
    <3>3. QED
      BY <3>1, <3>2, PastHere DEF SkipWs
  <2>2. QED
    BY <2>1
<1>8. Starts(t, i + 1) => /\ SkipWs(t, i + 1) = i + 1
                          /\ At(t, i + 1) \notin {CloseBracket, CloseBrace}
  BY <1>7 DEF Starts
<1>9. Len(x) = 0 => /\ SkipWs(t, i + 1) = i + 1
                    /\ At(t, i + 1) = b /\ e = i + 1
  <2>1. SUFFICES ASSUME Len(x) = 0
                 PROVE  SkipWs(t, i + 1) = i + 1 /\ At(t, i + 1) = b /\ e = i + 1
    OBVIOUS
  <2>2. e = i + 1
    BY <1>3, <2>1
  <2>3. b \notin Space
    BY DEF Space, CloseBracket, CloseBrace
  <2>4. QED
    BY <1>2, <1>7, <2>2, <2>3
<1> HIDE DEF e
<1>10. QED
  BY <1>2, <1>4, <1>5, <1>6, <1>8, <1>9 DEF e

(* A value is read if the values in it are.                                 *)
LEMMA ReadFromInner ==
    ASSUME NEW d \in Nat, d <= MaxNesting, NEW v \in ValuesTo[d],
           \A w \in Inner(v) : IsRead(w)
    PROVE  IsRead(v)
PROOF
<1> DEFINE I == Inner(v)
<1>1. MaxNesting \in Nat /\ v \in Values
  <2>1. MaxNesting \in Nat
    BY JsonAssumption
  <2>2. QED
    BY <2>1, ValuesWiden DEF Values
<1>2. \A w \in I : IsRead(w) /\ Dump[w] \in Bytes
  <2>1. ASSUME NEW w \in I
        PROVE  w \in Values
    <3>1. w \in ValuesTo[d]
      BY InnerIsLess
    <3>2. QED
      BY <1>1, <3>1, ValuesWiden DEF Values
  <2>2. QED
    BY <2>1, DumpSteps
<1>3. /\ Dump[v] = Written(v, Dump) /\ Dump[v] \in Bytes
      /\ AsRead[v] = ReadBack(v, AsRead)
  BY <1>1, DumpSteps, AsReadSteps
<1> SUFFICES ASSUME NEW t \in Bytes, NEW i, Holds(t, i, Dump[v]), Ends(t, i + Len(Dump[v]))
             PROVE  IsReadAs(t, i, Dump[v], ValueAt(t, i, Reader(t)), AsRead[v])
  BY DEF IsRead
<1> DEFINE read == Reader(t)
           text == Dump[v]
<1> HIDE DEF read
<1>4. CASE v[1] \notin {"array", "object"}
  <2>1. v \in Flat
    BY <1>4, Kinds
  <2>2. Holds(t, i, Written(v, Dump)) /\ Ends(t, i + Len(Written(v, Dump)))
    BY <1>3
  <2>3. IsReadAs(t, i, Written(v, Dump), ValueAt(t, i, read), ReadBack(v, AsRead))
    BY <2>1, <2>2, FlatIsRead
  <2>4. QED
    BY <1>3, <2>3 DEF read
<1>5. CASE v[1] = "array"
  <2> DEFINE items == v[2]
             x == CommaSeparated(ItemTexts(Dump, items))
             back == ItemsBack(AsRead, items)
             e == i + Len(x) + 1
             a == OpenBracket
             b == CloseBracket
             X == {AsRead[w] : w \in I}
  <2>1. items \in Seq(I)
    BY <1>5, InnerOfSeq
  <2>a. Len(items) \in Nat /\ DOMAIN items = 1 .. Len(items)
    BY <2>1, LenProperties
  <2> DEFINE Lost == \E k \in 1 .. Len(items) : AsRead[items[k]] = Throws
  <2>2. /\ text = <<a>> \o x \o <<b>>
        /\ AsRead[v] = IF Lost THEN Throws ELSE Array(back)
    <3>1. text = <<a>> \o x \o <<b>>
      BY <1>3, <1>5, WrittenCases
    <3>2. AsRead[v] = IF \E k \in DOMAIN v[2] : AsRead[v[2][k]] = Throws THEN Throws
                      ELSE Array(ItemsBack(AsRead, v[2]))
      BY <1>3, <1>5, ReadBackCases
    <3>3. QED
      BY <2>a, <3>1, <3>2
  <2> HIDE DEF items, I
  <2>3. ItemTexts(Dump, items) \in Seq(Bytes) /\ Len(ItemTexts(Dump, items)) = Len(items)
    BY <1>2, <2>1, DumpTexts
  <2>4. x \in Bytes
    BY <2>3, PartsTyped
  <2>5. back \in Seq(X) /\ Len(back) = Len(items) /\ Len(items) \in Nat
    BY <2>1, PartsAsRead, LenProperties
  <2>6. /\ Starts(t, i) /\ At(t, i) = a
        /\ Holds(t, i + 1, x) /\ e \in 1 .. Len(t) /\ t[e] = b /\ e = (i + 1) + Len(x)
        /\ i + Len(<<a>> \o x \o <<b>>) = e + 1
        /\ Starts(t, i + 1) => /\ SkipWs(t, i + 1) = i + 1
                               /\ At(t, i + 1) \notin {CloseBracket, CloseBrace}
        /\ Len(x) = 0 => /\ SkipWs(t, i + 1) = i + 1
                         /\ At(t, i + 1) = b /\ e = i + 1
    <3> HIDE DEF x
    <3>1. a \in {OpenBracket, OpenBrace} /\ b \in {CloseBracket, CloseBrace}
            /\ Holds(t, i, <<a>> \o x \o <<b>>)
      BY <2>2
    <3>2. QED
      BY <2>4, <3>1, BracketsAreRead
  <2>7. LET k == SkipWs(t, i + 1)
            r == read[<<"items", k>>]
        IN  ValueAt(t, i, read) =
                    IF At(t, k) = CloseBracket THEN Got(Array(<<>>), k + 1)
                    ELSE IF r = Throws THEN Throws ELSE Got(Array(r[1]), r[2])
    BY <2>6, ValueCases, ZenonT(60)
  <2>8. CASE Len(items) = 0
    <3>1. Len(x) = 0
      BY <2>3, <2>8, EmptyParts
    <3>2. back = <<>>
      BY <2>5, <2>8, EmptySeq
    <3>a. ~Lost
      BY <2>8
    <3> HIDE DEF x, back, text, Lost
    <3>3. ValueAt(t, i, read) = Got(Array(<<>>), e + 1)
      BY <2>6, <2>7, <3>1
    <3>4. QED
      BY <2>2, <2>6, <3>2, <3>3, <3>a DEF IsReadAs, GotUnless, Got, read, text, Array,
         Throws
  <2>9. CASE Len(items) > 0
    <3>1. /\ read[<<"items", i + 1>>] = IF Lost THEN Throws ELSE <<back, e + 1>>
          /\ Starts(t, i + 1)
      BY <1>2, <2>1, <2>6, <2>9, ItemsAreRead DEF read
    <3> HIDE DEF x, back, text, e, Lost
    <3>2. ValueAt(t, i, read) = IF Lost THEN Throws ELSE Got(Array(back), e + 1)
      <4> DEFINE r == read[<<"items", i + 1>>]
      <4>1. ValueAt(t, i, read) = IF r = Throws THEN Throws ELSE Got(Array(r[1]), r[2])
        BY <2>6, <2>7, <3>1
      <4>2. r = IF Lost THEN Throws ELSE <<back, e + 1>>
        BY <3>1
      <4> HIDE DEF r
      <4>3. QED
        BY <4>1, <4>2 DEF Throws
    <3>3. CASE Lost
      BY <2>2, <2>6, <3>2, <3>3 DEF IsReadAs, GotUnless, read, text
    <3>4. CASE ~Lost
      <4>1. AsRead[v] = Array(back) /\ AsRead[v] # Throws
        BY <2>2, <3>4 DEF Array, Throws
      <4>2. ValueAt(t, i, read) = <<AsRead[v], e + 1>>
        BY <3>2, <3>4, <4>1 DEF Got
      <4>3. i + Len(text) = e + 1
        BY <2>2, <2>6
      <4>4. QED
        BY <2>6, <4>1, <4>2, <4>3 DEF IsReadAs, GotUnless, read, text
    <3>5. QED
      BY <3>3, <3>4
  <2>10. QED
    BY <2>5, <2>8, <2>9
<1>6. CASE v[1] = "object"
  <2> DEFINE members == v[2]
             x == CommaSeparated(MemberTexts(Dump, members))
             back == MembersBack(AsRead, members)
             e == i + Len(x) + 1
             a == OpenBrace
             b == CloseBrace
             X == {AsRead[w] : w \in I}
  <2>0. members \in Seq(Bytes \X I)
    BY <1>6, InnerOfSeq
  <2>1. members \in MembersTo(I)
    <3>1. Sorted(members)
      BY <1>6, Kinds DEF MembersTo
    <3>2. QED
      BY <2>0, <3>1 DEF MembersTo
  <2>a. Len(members) \in Nat /\ DOMAIN members = 1 .. Len(members)
    BY <2>1, MembersAre
  <2> DEFINE Lost == \E k \in 1 .. Len(members) : AsRead[members[k][2]] = Throws
  <2>2. /\ text = <<a>> \o x \o <<b>>
        /\ AsRead[v] = IF Lost THEN Throws ELSE Object(back)
    <3>1. text = <<a>> \o x \o <<b>>
      BY <1>3, <1>6, WrittenCases
    <3>2. AsRead[v] = IF \E k \in DOMAIN v[2] : AsRead[v[2][k][2]] = Throws THEN Throws
                      ELSE Object(MembersBack(AsRead, v[2]))
      BY <1>3, <1>6, ReadBackCases
    <3>3. QED
      BY <2>a, <3>1, <3>2
  <2> HIDE DEF members, I
  <2>3. MemberTexts(Dump, members) \in Seq(Bytes)
          /\ Len(MemberTexts(Dump, members)) = Len(members)
    BY <1>2, <2>0, DumpTexts
  <2>4. x \in Bytes
    BY <2>3, PartsTyped
  <2>5. back \in MembersTo(X) /\ Len(back) = Len(members) /\ Len(members) \in Nat
    BY <2>1, PartsAsRead, MembersAre
  <2>6. /\ Starts(t, i) /\ At(t, i) = a
        /\ Holds(t, i + 1, x) /\ e \in 1 .. Len(t) /\ t[e] = b /\ e = (i + 1) + Len(x)
        /\ i + Len(<<a>> \o x \o <<b>>) = e + 1
        /\ Starts(t, i + 1) => /\ SkipWs(t, i + 1) = i + 1
                               /\ At(t, i + 1) \notin {CloseBracket, CloseBrace}
        /\ Len(x) = 0 => /\ SkipWs(t, i + 1) = i + 1
                         /\ At(t, i + 1) = b /\ e = i + 1
    <3> HIDE DEF x
    <3>1. a \in {OpenBracket, OpenBrace} /\ b \in {CloseBracket, CloseBrace}
            /\ Holds(t, i, <<a>> \o x \o <<b>>)
      BY <2>2
    <3>2. QED
      BY <2>4, <3>1, BracketsAreRead
  <2>7. LET k == SkipWs(t, i + 1)
            r == read[<<"members", k>>]
        IN  ValueAt(t, i, read) =
                    IF At(t, k) = CloseBrace THEN Got(Object(<<>>), k + 1)
                    ELSE IF r = Throws THEN Throws ELSE Got(Object(r[1]), r[2])
    BY <2>6, ValueCases, ZenonT(60)
  <2>8. CASE Len(members) = 0
    <3>1. Len(x) = 0
      BY <2>3, <2>8, EmptyParts
    <3>2. back = <<>>
      BY <2>5, <2>8, EmptySeq, MembersAre
    <3>a. ~Lost
      BY <2>8
    <3> HIDE DEF x, back, text, Lost
    <3>3. ValueAt(t, i, read) = Got(Object(<<>>), e + 1)
      BY <2>6, <2>7, <3>1
    <3>4. QED
      BY <2>2, <2>6, <3>2, <3>3, <3>a DEF IsReadAs, GotUnless, Got, read, text, Object,
         Throws
  <2>9. CASE Len(members) > 0
    <3>1. /\ read[<<"members", i + 1>>] = IF Lost THEN Throws ELSE <<back, e + 1>>
          /\ Starts(t, i + 1)
      BY <1>2, <2>1, <2>6, <2>9, MembersAreRead DEF read
    <3> HIDE DEF x, back, text, e, Lost
    <3>2. ValueAt(t, i, read) = IF Lost THEN Throws ELSE Got(Object(back), e + 1)
      <4> DEFINE r == read[<<"members", i + 1>>]
      <4>1. ValueAt(t, i, read) = IF r = Throws THEN Throws ELSE Got(Object(r[1]), r[2])
        BY <2>6, <2>7, <3>1
      <4>2. r = IF Lost THEN Throws ELSE <<back, e + 1>>
        BY <3>1
      <4> HIDE DEF r
      <4>3. QED
        BY <4>1, <4>2 DEF Throws
    <3>3. CASE Lost
      BY <2>2, <2>6, <3>2, <3>3 DEF IsReadAs, GotUnless, read, text
    <3>4. CASE ~Lost
      <4>1. AsRead[v] = Object(back) /\ AsRead[v] # Throws
        BY <2>2, <3>4 DEF Object, Throws
      <4>2. ValueAt(t, i, read) = <<AsRead[v], e + 1>>
        BY <3>2, <3>4, <4>1 DEF Got
      <4>3. i + Len(text) = e + 1
        BY <2>2, <2>6
      <4>4. QED
        BY <2>6, <4>1, <4>2, <4>3 DEF IsReadAs, GotUnless, read, text
    <3>5. QED
      BY <3>3, <3>4
  <2>10. QED
    BY <2>5, <2>8, <2>9
<1>7. QED
  BY <1>4, <1>5, <1>6

(* Every text that is written for a value is read as what AsRead says.      *)
LEMMA ValuesAreRead == \A v \in Values : IsRead(v)
PROOF
<1> DEFINE G == {d \in Nat : d <= MaxNesting => \A v \in ValuesTo[d] : IsRead(v)}
<1>1. 0 \in G
  <2>1. ASSUME 0 <= MaxNesting, NEW v \in ValuesTo[0]
        PROVE  IsRead(v)
    <3>1. \A w \in Inner(v) : FALSE
      <4>1. 0 \in Nat /\ ~(0 > 0)
        OBVIOUS
      <4>2. QED
        BY <4>1, InnerTyped
    <3>2. QED
      BY <2>1, <3>1, ReadFromInner
  <2>2. QED
    BY <2>1
<1>2. ASSUME NEW d \in Nat, d \in G
      PROVE  d + 1 \in G
  <2>1. ASSUME d + 1 <= MaxNesting, NEW v \in ValuesTo[d + 1]
        PROVE  IsRead(v)
    <3> DEFINE e == d + 1
    <3>1. e \in Nat /\ e <= MaxNesting /\ e - 1 = d /\ d <= MaxNesting /\ v \in ValuesTo[e]
      BY <2>1, JsonAssumption
    <3> HIDE DEF e
    <3>2. ASSUME NEW w \in Inner(v)
          PROVE  IsRead(w)
      <4>1. w \in ValuesTo[e-1]
        BY <3>1, InnerTyped
      <4>2. QED
        BY <1>2, <3>1, <4>1
    <3>3. QED
      BY <3>1, <3>2, ReadFromInner
  <2>2. QED
    BY <2>1
<1> HIDE DEF G
<1>3. Nat \subseteq G
  BY <1>1, <1>2, NatInductionOnSet
<1>4. MaxNesting \in Nat /\ MaxNesting <= MaxNesting
  BY JsonAssumption
<1>5. QED
  BY <1>3, <1>4 DEF G, Values

(* json::parse reads a text that begins with what dump has written.         *)
LEMMA ParseReads ==
    ASSUME NEW v \in Values, NEW t \in Bytes, Holds(t, 1, Dump[v]),
           Ends(t, 1 + Len(Dump[v]))
    PROVE  /\ Parse(t) = AsRead[v] /\ AsRead[v] \in Values \cup {Throws}
           /\ Len(t) > 0
PROOF
<1> DEFINE read == Reader(t)
           text == Dump[v]
<1>1. IsReadAs(t, 1, text, ValueAt(t, 1, read), AsRead[v])
  BY ValuesAreRead DEF IsRead
<1>2. /\ Starts(t, 1)
      /\ ValueAt(t, 1, read) = IF AsRead[v] = Throws THEN Throws
           ELSE Got(AsRead[v], 1 + Len(text))
  BY <1>1 DEF IsReadAs, GotUnless, Got
<1>3. Len(t) \in Nat /\ Len(t) > 0 /\ 1 \in 1 .. Len(t) + 1 /\ t[1] \notin Space
  BY <1>2, BytesLen DEF Starts
<1>4. SkipWs(t, 1) = 1
  BY <1>3, PastHere DEF SkipWs
<1> HIDE DEF read, text
<1> DEFINE got == ValueAt(t, 1, read)
<1>5. IF AsRead[v] = Throws THEN got = Throws ELSE got # Throws /\ got[1] = AsRead[v]
  BY <1>2, ThrowsIsNothing
<1>6. Parse(t) = IF got = Throws THEN Throws ELSE got[1]
  BY <1>4 DEF Parse, ValueRead, read
<1>7. AsRead[v] \in Values \cup {Throws}
  <2>1. MaxNesting \in 0 .. MaxNesting /\ MaxNesting \in Nat
    BY JsonAssumption
  <2>2. QED
    BY <2>1, AsReadSteps DEF Values, ReadTo
<1>8. QED
  BY <1>3, <1>5, <1>6, <1>7

(* What has been written for a value is read as what AsRead says: as that   *)
(* value, but that an integer that is not negative may change its type, and *)
(* that a double is read as what is printed for it, perhaps an integer and  *)
(* perhaps out of range, and then nothing is read.                          *)
THEOREM RoundTrip == \A v \in Values : Parse(Dump[v]) = AsRead[v]
PROOF
<1> SUFFICES ASSUME NEW v \in Values
             PROVE  Parse(Dump[v]) = AsRead[v]
  OBVIOUS
<1> DEFINE t == Dump[v]
<1>1. t \in Bytes
  BY DumpSteps
<1>2. Holds(t, 1, t) /\ Len(t) \in Nat
  BY <1>1, HoldsItself, BytesLen
<1>3. Ends(t, 1 + Len(t))
  BY <1>2 DEF Ends
<1>4. QED
  BY <1>1, <1>2, <1>3, ParseReads

(* Whatever a text holds, it nests values no deeper than it is long.        *)
LEMMA ParseTyped ==
    ASSUME NEW t \in Bytes
    PROVE  Parse(t) = Throws \/ Parse(t) \in ValuesTo[Len(t)]
PROOF
<1> DEFINE i == SkipWs(t, 1)
           read == Reader(t)
           got == ValueAt(t, i, read)
<1>1. Len(t) \in Nat /\ 1 \in 1 .. Len(t) + 1
  BY BytesLen
<1>2. i \in 1 .. Len(t) + 1 /\ LevelAt(t, i) \subseteq LevelAt(t, 1)
  BY <1>1, AfterBlanks
<1>3. TypedAfter(t, i, read)
  <2>1. i \in 0 .. Len(t) + 1
    BY <1>1, <1>2
  <2> HIDE DEF i
  <2>2. QED
    BY <2>1, ReaderSteps
<1> HIDE DEF i, read
<1>4. Gives(got, LevelAt(t, i), i + 1, t)
  BY <1>2, <1>3, ValueAtTyped
<1>5. got = Throws \/ \E v \in LevelAt(t, i), j \in i + 1 .. Len(t) + 1 : got = <<v, j>>
  BY <1>4 DEF Gives
<1>6. LevelAt(t, 1) = ValuesTo[Len(t)]
  <2>1. Len(t) + 1 - 1 = Len(t)
    BY <1>1
  <2>2. QED
    BY <2>1 DEF LevelAt
<1>7. Parse(t) = IF got = Throws THEN Throws ELSE got[1]
  BY DEF Parse, ValueRead, i, read
<1> HIDE DEF got
<1>8. QED
  BY <1>2, <1>5, <1>6, <1>7

-----------------------------------------------------------------------------
(* Requests and replies.                                                    *)

(* Members of objects with the names A, B, C, and D. *)
LEMMA NamesInOrder ==
    ASSUME NEW a \in Nat, NEW b \in Nat, a < b
    PROVE  Before(<<a>>, <<b>>)
PROOF
<1> DEFINE s == <<a>>
           t == <<b>>
           Letter1(u, i) == IF i \in DOMAIN u THEN u[i] ELSE -1
<1>1. Letter1(s, 1) < t[1] /\ 1 \in DOMAIN t
  OBVIOUS
<1>2. \A j \in 1 .. 1-1 : Letter1(s, j) = t[j]
  OBVIOUS
<1> HIDE DEF s, t
<1>3. Before(s, t)
  BY <1>1, <1>2 DEF Before
<1>4. QED
  BY <1>3 DEF s, t

(* A member whose name is given once is the one that find finds. *)
LEMMA MemberIs ==
    ASSUME NEW members, NEW k \in DOMAIN members,
           \A j \in DOMAIN members : members[j][1] = members[k][1] => j = k
    PROVE  /\ Has(members, members[k][1])
           /\ Member(members, members[k][1]) = members[k][2]
PROOF
<1> DEFINE name == members[k][1]
           c == CHOOSE j \in DOMAIN members : members[j][1] = name
<1>1. c \in DOMAIN members /\ members[c][1] = name
  OBVIOUS
<1>2. c = k
  BY <1>1
<1>3. Member(members, name) = members[c][2]
  BY DEF Member
<1>4. QED
  BY <1>2, <1>3 DEF Has

(* The object of three members: what it has, and how it is read again.      *)
LEMMA ThreeMembers ==
    ASSUME NEW A, NEW B, NEW C, A # B, A # C, B # C, NEW x, NEW y, NEW z
    PROVE  LET m == <<<<A, x>>, <<B, y>>, <<C, z>>>>
           IN  /\ \A name : Has(m, name) <=> name \in {A, B, C}
               /\ Member(m, A) = x /\ Member(m, B) = y /\ Member(m, C) = z
               /\ MembersBack(AsRead, m)
                    = <<<<A, AsRead[x]>>, <<B, AsRead[y]>>, <<C, AsRead[z]>>>>
               /\ {m[k][1] : k \in DOMAIN m} = {A, B, C}
PROOF
<1> DEFINE m == <<<<A, x>>, <<B, y>>, <<C, z>>>>
<1>1. /\ DOMAIN m = {1, 2, 3}
      /\ m[1][1] = A /\ m[2][1] = B /\ m[3][1] = C
      /\ m[1][2] = x /\ m[2][2] = y /\ m[3][2] = z
  OBVIOUS
<1>2. MembersBack(AsRead, m) = <<<<A, AsRead[x]>>, <<B, AsRead[y]>>, <<C, AsRead[z]>>>>
  BY DEF MembersBack
<1> HIDE DEF m
<1>3. \A name : Has(m, name) <=> name \in {A, B, C}
  BY <1>1 DEF Has
<1>4. Member(m, A) = x
  <2>1. 1 \in DOMAIN m /\ \A j \in DOMAIN m : m[j][1] = m[1][1] => j = 1
    BY <1>1
  <2>2. QED
    BY <1>1, <2>1, MemberIs
<1>5. Member(m, B) = y
  <2>1. 2 \in DOMAIN m /\ \A j \in DOMAIN m : m[j][1] = m[2][1] => j = 2
    BY <1>1
  <2>2. QED
    BY <1>1, <2>1, MemberIs
<1>6. Member(m, C) = z
  <2>1. 3 \in DOMAIN m /\ \A j \in DOMAIN m : m[j][1] = m[3][1] => j = 3
    BY <1>1
  <2>2. QED
    BY <1>1, <2>1, MemberIs
<1>7. {m[k][1] : k \in DOMAIN m} = {A, B, C}
  BY <1>1
<1>8. QED
  BY <1>2, <1>3, <1>4, <1>5, <1>6, <1>7 DEF m

(* The same for four members. *)
LEMMA FourMembers ==
    ASSUME NEW A, NEW B, NEW C, NEW D, A # B, A # C, A # D, B # C, B # D, C # D,
           NEW w, NEW x, NEW y, NEW z
    PROVE  LET m == <<<<A, w>>, <<B, x>>, <<C, y>>, <<D, z>>>>
           IN  /\ \A name : Has(m, name) <=> name \in {A, B, C, D}
               /\ Member(m, A) = w /\ Member(m, B) = x /\ Member(m, C) = y
               /\ Member(m, D) = z
               /\ MembersBack(AsRead, m) =
                    <<<<A, AsRead[w]>>, <<B, AsRead[x]>>, <<C, AsRead[y]>>,
                      <<D, AsRead[z]>>>>
PROOF
<1> DEFINE m == <<<<A, w>>, <<B, x>>, <<C, y>>, <<D, z>>>>
<1>1. /\ DOMAIN m = {1, 2, 3, 4}
      /\ m[1][1] = A /\ m[2][1] = B /\ m[3][1] = C /\ m[4][1] = D
      /\ m[1][2] = w /\ m[2][2] = x /\ m[3][2] = y /\ m[4][2] = z
  OBVIOUS
<1>2. MembersBack(AsRead, m) =
          <<<<A, AsRead[w]>>, <<B, AsRead[x]>>, <<C, AsRead[y]>>, <<D, AsRead[z]>>>>
  BY DEF MembersBack
<1> HIDE DEF m
<1>3. \A name : Has(m, name) <=> name \in {A, B, C, D}
  BY <1>1 DEF Has
<1>4. Member(m, A) = w
  <2>1. 1 \in DOMAIN m /\ \A j \in DOMAIN m : m[j][1] = m[1][1] => j = 1
    BY <1>1
  <2>2. QED
    BY <1>1, <2>1, MemberIs
<1>5. Member(m, B) = x
  <2>1. 2 \in DOMAIN m /\ \A j \in DOMAIN m : m[j][1] = m[2][1] => j = 2
    BY <1>1
  <2>2. QED
    BY <1>1, <2>1, MemberIs
<1>6. Member(m, C) = y
  <2>1. 3 \in DOMAIN m /\ \A j \in DOMAIN m : m[j][1] = m[3][1] => j = 3
    BY <1>1
  <2>2. QED
    BY <1>1, <2>1, MemberIs
<1>7. Member(m, D) = z
  <2>1. 4 \in DOMAIN m /\ \A j \in DOMAIN m : m[j][1] = m[4][1] => j = 4
    BY <1>1
  <2>2. QED
    BY <1>1, <2>1, MemberIs
<1>8. QED
  BY <1>2, <1>3, <1>4, <1>5, <1>6, <1>7 DEF m

(* Members in the order of their names are those of a value.                *)
LEMMA OrderedMembers ==
    ASSUME NEW d \in Nat, NEW m \in Seq(Bytes \X ValuesTo[d]),
           \A j \in 1 .. Len(m) - 1 : Before(m[j][1], m[j+1][1]), Len(m) <= 4
    PROVE  Object(m) \in ValuesTo[d + 1]
PROOF
<1> DEFINE n == Len(m)
           N(j) == m[j][1]
<1>1. n \in Nat /\ DOMAIN m = 1 .. n /\ \A j \in 1 .. n : N(j) \in Bytes
  BY LenProperties, ElementOfSeq
<1> HIDE DEF n, N
<1>2. \A i, j, k \in 1 .. n : Before(N(i), N(j)) /\ Before(N(j), N(k)) => Before(N(i), N(k))
  BY <1>1, BeforeIsStrict
<1>3. \A j \in 1 .. n : j < n => Before(N(j), N(j+1))
  <2>1. \A j \in 1 .. n : j < n => j \in 1 .. n - 1
    BY <1>1
  <2>2. QED
    BY <2>1 DEF n, N
<1>4. /\ n > 1 => Before(N(1), N(2))
      /\ n > 2 => Before(N(2), N(3)) /\ Before(N(1), N(3))
      /\ n > 3 => Before(N(3), N(4)) /\ Before(N(2), N(4)) /\ Before(N(1), N(4))
  <2>1. /\ n > 1 => 1 \in 1 .. n /\ 2 \in 1 .. n /\ 1 < n /\ 1 + 1 = 2
        /\ n > 2 => 3 \in 1 .. n /\ 2 < n /\ 2 + 1 = 3
        /\ n > 3 => 4 \in 1 .. n /\ 3 < n /\ 3 + 1 = 4
        /\ n > 3 => n > 2
        /\ n > 2 => n > 1
    BY <1>1
  <2>2. /\ n > 1 => Before(N(1), N(2))
        /\ n > 2 => Before(N(2), N(3))
        /\ n > 3 => Before(N(3), N(4))
    BY <1>3, <2>1
  <2>3. n > 2 => Before(N(1), N(3))
    BY <1>2, <2>1, <2>2
  <2>4. n > 3 => Before(N(2), N(4))
    BY <1>2, <2>1, <2>2
  <2>5. n > 3 => Before(N(1), N(4))
    BY <1>2, <2>1, <2>2, <2>4
  <2>6. QED
    BY <2>2, <2>3, <2>4, <2>5
<1>5. \A i, j \in 1 .. n : i < j => \/ i = 1 /\ j = 2 /\ n > 1
                                    \/ i \in {1, 2} /\ j = 3 /\ n > 2
                                    \/ i \in {1, 2, 3} /\ j = 4 /\ n > 3
  <2>1. n <= 4
    BY DEF n
  <2>2. QED
    BY <1>1, <2>1
<1>6. \A i, j \in 1 .. n : i < j => Before(N(i), N(j))
  BY <1>4, <1>5
<1>7. Sorted(m)
  BY <1>1, <1>6 DEF Sorted, N
<1>8. m \in MembersTo(ValuesTo[d])
  BY <1>7 DEF MembersTo
<1>9. ValuesTo[d + 1] = Above(ValuesTo[d])
  BY ValuesSteps
<1>10. QED
  BY <1>8, <1>9 DEF Above, Object

(* What results and ids are.                                                *)
Held == ValuesTo[MaxNesting - 1]

(* The depths of parameters, results and texts. *)
LEMMA Depths ==
    /\ MaxNesting - 2 \in Nat /\ MaxNesting - 1 \in Nat /\ MaxNesting \in Nat
    /\ (MaxNesting - 2) + 1 = MaxNesting - 1 /\ (MaxNesting - 1) + 1 = MaxNesting
    /\ Flat \subseteq Held /\ Held \subseteq Values /\ Flat \subseteq Values
    /\ ValuesTo[MaxNesting - 2] \subseteq Values
PROOF
<1>1. MaxNesting \in Nat /\ MaxNesting > 1
  BY JsonAssumption, RpcCallAssumption
<1> DEFINE a == MaxNesting - 2
           b == MaxNesting - 1
<1>2. a \in Nat /\ b \in Nat /\ a + 1 = b /\ b + 1 = MaxNesting /\ a <= MaxNesting
        /\ b <= MaxNesting
  BY <1>1
<1> HIDE DEF a, b
<1>3. /\ ValuesTo[a] \subseteq ValuesTo[MaxNesting]
      /\ ValuesTo[b] \subseteq ValuesTo[MaxNesting]
      /\ Flat \subseteq ValuesTo[b]
  BY <1>1, <1>2, ValuesWiden
<1>4. QED
  BY <1>1, <1>2, <1>3 DEF a, b, Held, Values

(* A string is a value, and is read as it is. *)
LEMMA StringsAreFlat ==
    ASSUME NEW s \in Bytes
    PROVE  /\ String(s) \in Flat /\ AsRead[String(s)] = String(s)
           /\ AsRead[String(s)] # Throws
PROOF
<1>1. String(s) \in Flat
  BY DEF String, Flat
<1>2. String(s) \in Values
  BY <1>1, Depths
<1>3. AsRead[String(s)] = ReadBack(String(s), AsRead)
  BY <1>2, AsReadSteps
<1>4. ReadBack(String(s), AsRead) = String(s)
  <2>1. String(s)[1] = "string"
    BY DEF String
  <2>2. QED
    BY <2>1, ReadBackCases
<1>5. String(s) # Throws
  BY DEF String, Throws
<1>6. QED
  BY <1>1, <1>3, <1>4, <1>5

(* Parameters make an array, which is read as the array of what is made of  *)
(* them.                                                                    *)
LEMMA ArrayAsRead ==
    ASSUME NEW ps \in Passed
    PROVE  /\ Array(ps) \in Held /\ AsRead[Array(ps)] = Array(AsReadAll(ps))
           /\ AsRead[Array(ps)] # Throws
PROOF
<1>1. Array(ps) \in Held
  <2> DEFINE a == MaxNesting - 2
  <2>1. a \in Nat /\ a + 1 = MaxNesting - 1
    BY Depths
  <2>2. ValuesTo[a + 1] = Above(ValuesTo[a])
    BY <2>1, ValuesSteps
  <2>3. Array(ps) \in Above(ValuesTo[a])
    BY DEF Above, Array, Passed
  <2> HIDE DEF a
  <2>4. QED
    BY <2>1, <2>2, <2>3 DEF Held
<1>2. Array(ps) \in Values
  BY <1>1, Depths
<1>3. AsRead[Array(ps)] = ReadBack(Array(ps), AsRead)
  BY <1>2, AsReadSteps
<1>4. ReadBack(Array(ps), AsRead) = Array(ItemsBack(AsRead, ps))
  <2>1. Array(ps)[1] = "array" /\ Array(ps)[2] = ps
    BY DEF Array
  <2>2. ~\E k \in DOMAIN ps : AsRead[ps[k]] = Throws
    BY DEF Passed
  <2>3. QED
    BY <2>1, <2>2, ReadBackCases
<1>5. ItemsBack(AsRead, ps) = AsReadAll(ps)
  BY DEF ItemsBack, AsReadAll
<1>6. Array(AsReadAll(ps)) # Throws
  BY DEF Array, Throws
<1>7. QED
  BY <1>1, <1>3, <1>4, <1>5, <1>6

(* An object is read as the object of what is made of its members. *)
LEMMA ObjectAsRead ==
    ASSUME NEW m, Object(m) \in Values
    PROVE  AsRead[Object(m)] = IF \E k \in DOMAIN m : AsRead[m[k][2]] = Throws THEN Throws
                               ELSE Object(MembersBack(AsRead, m))
PROOF
<1>1. AsRead[Object(m)] = ReadBack(Object(m), AsRead)
  BY AsReadSteps
<1>2. Object(m)[1] = "object" /\ Object(m)[2] = m
  BY DEF Object
<1>3. ReadBack(Object(m), AsRead) = IF \E k \in DOMAIN m : AsRead[m[k][2]] = Throws
        THEN Throws
                                    ELSE Object(MembersBack(AsRead, m))
  BY <1>2, ReadBackCases
<1>4. QED
  BY <1>1, <1>3

(* The names of the members of requests and replies are strings, and differ.*)
LEMMA NamesAre ==
    /\ {Code, Error, Id, Jsonrpc, Message, Method, Params, Result} \subseteq Bytes
    /\ Before(Code, Message) /\ Before(Error, Id) /\ Before(Id, Jsonrpc)
    /\ Before(Jsonrpc, Method)
    /\ Before(Method, Params) /\ Before(Jsonrpc, Result)
    /\ Id # Jsonrpc /\ Id # Method /\ Id # Params /\ Jsonrpc # Method /\ Jsonrpc # Params
    /\ Method # Params /\ Id # Result /\ Jsonrpc # Result /\ Error # Id /\ Error # Jsonrpc
    /\ Error # Result
    /\ Version \in Flat /\ AsRead[Version] = Version /\ Version # Throws
PROOF
<1>1. {99, 101, 105, 106, 109, 112, 114} \subseteq Byte
        /\ {99, 101, 105, 106, 109, 112, 114} \subseteq Nat
      /\ 50 \in Byte
  BY DEF Byte
<1>2. {Code, Error, Id, Jsonrpc, Message, Method, Params, Result} \subseteq Bytes
        /\ <<50>> \in Bytes
  BY <1>1, WordsTyped DEF Code, Error, Id, Jsonrpc, Message, Method, Params, Result
<1>3. /\ Before(Code, Message) /\ Before(Error, Id) /\ Before(Id, Jsonrpc)
      /\ Before(Jsonrpc, Method)
      /\ Before(Method, Params) /\ Before(Jsonrpc, Result)
  <2>1. 99 < 109 /\ 101 < 105 /\ 105 < 106 /\ 106 < 109 /\ 109 < 112 /\ 106 < 114
    OBVIOUS
  <2>2. QED
    BY <1>1, <2>1, NamesInOrder DEF Code, Error, Id, Jsonrpc, Message, Method, Params,
       Result
<1>4. /\ Id # Jsonrpc /\ Id # Method /\ Id # Params /\ Jsonrpc # Method /\ Jsonrpc # Params
      /\ Method # Params /\ Id # Result /\ Jsonrpc # Result /\ Error # Id /\ Error # Jsonrpc
      /\ Error # Result
  BY DEF Error, Id, Jsonrpc, Method, Params, Result
<1>5. Version \in Flat /\ AsRead[Version] = Version /\ Version # Throws
  BY <1>2, StringsAreFlat DEF Version
<1>6. QED
  BY <1>2, <1>3, <1>4, <1>5

(* A request of the client: the members that it is read as.                 *)
LEMMA RequestAsRead ==
    ASSUME NEW m \in Bytes, NEW ps \in Passed
    PROVE  /\ Object(RequestOf(<<m, ps>>)) \in Values
           /\ AsRead[Object(RequestOf(<<m, ps>>))] = Object(RequestOf(<<m, AsReadAll(ps)>>))
PROOF
<1> DEFINE x == Version
           y == String(m)
           z == Array(ps)
           r == <<<<Jsonrpc, x>>, <<Method, y>>, <<Params, z>>>>
           d == MaxNesting - 1
<1>1. RequestOf(<<m, ps>>) = r /\ RequestOf(<<m, AsReadAll(ps)>>)
                                     = <<<<Jsonrpc, x>>, <<Method, y>>,
                                         <<Params, Array(AsReadAll(ps))>>>>
  BY DEF RequestOf
<1>2. x \in Held /\ y \in Held /\ z \in Held /\ AsRead[x] = x /\ AsRead[y] = y
      /\ AsRead[z] = Array(AsReadAll(ps)) /\ AsRead[x] # Throws /\ AsRead[y] # Throws
      /\ AsRead[z] # Throws
  BY NamesAre, StringsAreFlat, ArrayAsRead, Depths
<1> HIDE DEF x, y, z
<1>3. d \in Nat /\ d + 1 = MaxNesting /\ Held = ValuesTo[d]
  BY Depths DEF Held
<1> HIDE DEF d
<1>4. r \in Seq(Bytes \X ValuesTo[d]) /\ Len(r) = 3
  BY <1>2, <1>3, NamesAre
<1>5. \A j \in 1 .. Len(r) - 1 : Before(r[j][1], r[j+1][1])
  <2>1. r[1][1] = Jsonrpc /\ r[2][1] = Method /\ r[3][1] = Params
    OBVIOUS
  <2> HIDE DEF r
  <2>2. \A j \in 1 .. Len(r) - 1 : (j = 1 /\ j + 1 = 2) \/ (j = 2 /\ j + 1 = 3)
    <3>1. Len(r) - 1 = 2
      BY <1>4
    <3>2. \A j \in 1 .. 2 : (j = 1 /\ j + 1 = 2) \/ (j = 2 /\ j + 1 = 3)
      OBVIOUS
    <3>3. QED
      BY <3>1, <3>2
  <2>3. QED
    BY <2>1, <2>2, NamesAre
<1>6. Object(r) \in ValuesTo[d + 1]
  <2> HIDE DEF r
  <2>1. Len(r) <= 4
    BY <1>4
  <2>2. QED
    BY <1>3, <1>4, <1>5, <2>1, OrderedMembers
<1>7. Object(r) \in Values
  BY <1>3, <1>6 DEF Values
<1>8. MembersBack(AsRead, r) = <<<<Jsonrpc, AsRead[x]>>, <<Method, AsRead[y]>>,
                                 <<Params, AsRead[z]>>>>
  BY NamesAre, ThreeMembers
<1>a. \A k \in DOMAIN r : r[k][2] \in {x, y, z}
  OBVIOUS
<1> HIDE DEF r
<1>9. AsRead[Object(r)] = Object(MembersBack(AsRead, r))
  <2>1. ~\E k \in DOMAIN r : AsRead[r[k][2]] = Throws
    BY <1>2, <1>a
  <2>2. QED
    BY <1>7, <2>1, ObjectAsRead
<1>10. QED
  BY <1>1, <1>2, <1>7, <1>8, <1>9

(* The first text of a batch, with its number 0.                            *)
Numbered(call) == <<<<Id, Signed(0)>>>> \o RequestOf(call)

(* A call of a batch has its number as a fourth member, before the others.  *)
LEMMA NumberedIs ==
    ASSUME NEW call, NEW n
    PROVE  <<<<Id, n>>>> \o RequestOf(call)
               = <<<<Id, n>>, <<Jsonrpc, Version>>, <<Method, String(call[1])>>,
                   <<Params, Array(call[2])>>>>
PROOF
<1> DEFINE a == <<Id, n>>
           b == <<Jsonrpc, Version>>
           c == <<Method, String(call[1])>>
           d == <<Params, Array(call[2])>>
<1>1. RequestOf(call) = <<b, c, d>>
  BY DEF RequestOf
<1> HIDE DEF a, b, c, d
<1>2. <<a>> \o <<b, c, d>> = <<a, b, c, d>>
  <2> DEFINE S == {a, b, c, d}
             s == <<a>>
             t == <<b, c, d>>
             u == <<a, b, c, d>>
  <2>1. s \in Seq(S) /\ t \in Seq(S) /\ u \in Seq(S) /\ Len(s) = 1 /\ Len(t) = 3
          /\ Len(u) = 4
    OBVIOUS
  <2>2. s[1] = a /\ t[1] = b /\ t[2] = c /\ t[3] = d /\ u[1] = a /\ u[2] = b /\ u[3] = c
          /\ u[4] = d
    OBVIOUS
  <2> HIDE DEF S, s, t, u
  <2>3. /\ s \o t \in Seq(S) /\ Len(s \o t) = 4
        /\ (s \o t)[1] = a /\ (s \o t)[2] = b /\ (s \o t)[3] = c /\ (s \o t)[4] = d
    <3> DEFINE v == s \o t
    <3>0. /\ s \o t \in Seq(S)
          /\ Len(s \o t) = Len(s) + Len(t)
          /\ \A i \in 1 .. Len(s) + Len(t) : (s \o t)[i] = IF i <= Len(s) THEN s[i]
               ELSE t[i - Len(s)]
      BY <2>1, ConcatProperties
    <3> HIDE DEF v
    <3>1. v \in Seq(S) /\ Len(v) = 4
      BY <2>1, <3>0 DEF v
    <3>2. \A k \in 1 .. 4 : v[k] = IF k <= 1 THEN s[k] ELSE t[k - 1]
      BY <2>1, <3>0 DEF v
    <3>3. \A k \in 1 .. 4 : v[k] = IF k <= 1 THEN s[k] ELSE t[k - 1]
      BY <3>2
    <3>4. v[1] = a /\ v[2] = b /\ v[3] = c /\ v[4] = d
      BY <2>2, <3>3
    <3>5. QED
      BY <3>1, <3>4 DEF v
  <2> DEFINE v == s \o t
  <2> HIDE DEF v
  <2>4. v \in Seq(S) /\ Len(v) = Len(u) /\ v[1] = u[1] /\ v[2] = u[2] /\ v[3] = u[3]
          /\ v[4] = u[4]
    BY <2>1, <2>2, <2>3 DEF v
  <2>5. \A k \in 1 .. Len(v) : k \in {1, 2, 3, 4}
    BY <2>1, <2>4
  <2>6. \A k \in 1 .. Len(v) : v[k] = u[k]
    BY <2>4, <2>5
  <2>7. v = u
    BY <2>1, <2>4, <2>6, SeqEqual
  <2>8. QED
    BY <2>7 DEF v, s, t, u
<1>3. QED
  BY <1>1, <1>2 DEF a, b, c, d

(* Its number is an int64_t. *)
LEMMA SmallNumbers ==
    ASSUME NEW n \in 0 .. MaxSigned
    PROVE  Signed(n) \in Flat
BY JsonAssumption DEF Signed, Flat

(* An int64_t that is not negative is read back, as IntegerAsRead says.     *)
LEMMA SmallAsRead ==
    ASSUME NEW n \in 0 .. MaxSigned
    PROVE  AsRead[Signed(n)] = IntegerAsRead(n) /\ AsRead[Signed(n)] # Throws
PROOF
<1>1. Signed(n) \in Flat /\ Signed(n) \in Values
  BY SmallNumbers, Depths
<1>2. AsRead[Signed(n)] = ReadBack(Signed(n), AsRead)
  BY <1>1, AsReadSteps
<1>3. Signed(n)[1] = "int64" /\ Signed(n)[2] = n
  BY DEF Signed
<1>4. ReadBack(Signed(n), AsRead) = IntegerAsRead(n)
  BY <1>1, <1>3, FlatBack
<1>5. IntegerAsRead(n) # Throws
  BY DEF IntegerAsRead, Signed, Unsigned, Throws
<1>6. QED
  BY <1>2, <1>4, <1>5

(* The number of the first call is read as it is. *)
LEMMA ZeroAsRead == AsRead[Signed(0)] = Signed(0) /\ AsRead[Signed(0)] # Throws
PROOF
<1>1. MaxSigned \in Nat /\ ShortDigits \in Nat \ {0} /\ 0 \in 0 .. MaxSigned
  BY JsonAssumption
<1>2. Len(Digits[0]) = 1
  <2>1. Digits[0] = IF 0 < 10 THEN <<48 + 0>> ELSE Digits[0 \div 10] \o <<48 + (0 % 10)>>
    BY DigitsSteps
  <2>2. Digits[0] = <<48>>
    BY <2>1
  <2>3. QED
    BY <2>2
<1>3. IntegerAsRead(0) = Signed(0)
  BY <1>1, <1>2 DEF IntegerAsRead
<1>4. QED
  BY <1>1, <1>3, SmallAsRead

(* A call of a batch is read as a call with its number and its parameters.  *)
LEMMA NumberedAsRead ==
    ASSUME NEW m \in Bytes, NEW ps \in Passed, NEW n \in 0 .. MaxSigned
    PROVE  /\ Object(<<<<Id, Signed(n)>>>> \o RequestOf(<<m, ps>>)) \in Values
           /\ AsRead[Object(<<<<Id, Signed(n)>>>> \o RequestOf(<<m, ps>>))]
                 = Object(<<<<Id, AsRead[Signed(n)]>>>> \o RequestOf(<<m, AsReadAll(ps)>>))
PROOF
<1> DEFINE w == Signed(n)
           x == Version
           y == String(m)
           z == Array(ps)
           r == <<<<Id, w>>, <<Jsonrpc, x>>, <<Method, y>>, <<Params, z>>>>
           d == MaxNesting - 1
<1>1. /\ <<<<Id, w>>>> \o RequestOf(<<m, ps>>) = r
      /\ <<<<Id, AsRead[w]>>>> \o RequestOf(<<m, AsReadAll(ps)>>)
           = <<<<Id, AsRead[w]>>, <<Jsonrpc, x>>, <<Method, y>>,
               <<Params, Array(AsReadAll(ps))>>>>
  BY NumberedIs
<1>2. w \in Held /\ x \in Held /\ y \in Held /\ z \in Held /\ AsRead[x] = x /\ AsRead[y] = y
      /\ AsRead[z] = Array(AsReadAll(ps)) /\ AsRead[x] # Throws /\ AsRead[y] # Throws
      /\ AsRead[z] # Throws
  BY NamesAre, StringsAreFlat, ArrayAsRead, Depths, SmallNumbers
<1> HIDE DEF w, x, y, z
<1>3. d \in Nat /\ d + 1 = MaxNesting /\ Held = ValuesTo[d]
  BY Depths DEF Held
<1> HIDE DEF d
<1>4. r \in Seq(Bytes \X ValuesTo[d]) /\ Len(r) = 4
  BY <1>2, <1>3, NamesAre
<1>5. \A j \in 1 .. Len(r) - 1 : Before(r[j][1], r[j+1][1])
  <2>1. r[1][1] = Id /\ r[2][1] = Jsonrpc /\ r[3][1] = Method /\ r[4][1] = Params
    OBVIOUS
  <2> HIDE DEF r
  <2>2. \A j \in 1 .. Len(r) - 1 : (j = 1 /\ j + 1 = 2) \/ (j = 2 /\ j + 1 = 3)
        \/ (j = 3 /\ j + 1 = 4)
    <3>1. Len(r) - 1 = 3
      BY <1>4
    <3>2. \A j \in 1 .. 3 : (j = 1 /\ j + 1 = 2) \/ (j = 2 /\ j + 1 = 3)
          \/ (j = 3 /\ j + 1 = 4)
      OBVIOUS
    <3>3. QED
      BY <3>1, <3>2
  <2>3. QED
    BY <2>1, <2>2, NamesAre
<1>6. Object(r) \in ValuesTo[d + 1]
  <2> HIDE DEF r
  <2>1. Len(r) <= 4
    BY <1>4
  <2>2. QED
    BY <1>3, <1>4, <1>5, <2>1, OrderedMembers
<1>7. Object(r) \in Values
  BY <1>3, <1>6 DEF Values
<1>8. MembersBack(AsRead, r)
        = <<<<Id, AsRead[w]>>, <<Jsonrpc, AsRead[x]>>, <<Method, AsRead[y]>>,
            <<Params, AsRead[z]>>>>
  BY NamesAre, FourMembers
<1>a. \A k \in DOMAIN r : r[k][2] \in {w, x, y, z}
  OBVIOUS
<1> HIDE DEF r
<1>9. AsRead[Object(r)] = Object(MembersBack(AsRead, r))
  <2>1. AsRead[w] # Throws
    BY SmallAsRead DEF w
  <2>2. ~\E k \in DOMAIN r : AsRead[r[k][2]] = Throws
    BY <1>2, <1>a, <2>1
  <2>3. QED
    BY <1>7, <2>2, ObjectAsRead
<1>10. QED
  BY <1>1, <1>2, <1>7, <1>8, <1>9 DEF w

(* handle_request finds the call in an object with version, method and      *)
(* parameters.                                                              *)
LEMMA CallFound ==
    ASSUME NEW ms, NEW m, NEW ps,
           Has(ms, Jsonrpc), Member(ms, Jsonrpc) = Version,
           Has(ms, Method), Member(ms, Method) = String(m),
           Has(ms, Params), Member(ms, Params) = Array(ps)
    PROVE  CallOf(ms) = IF m \in Methods THEN <<"call", m, ps, IdOf(ms)>>
             ELSE <<"error", -11, IdOf(ms)>>
PROOF
<1>1. /\ Version[1] = "string" /\ String(m)[1] = "string" /\ String(m)[2] = m
      /\ Array(ps)[1] = "array" /\ Array(ps)[2] = ps
  BY DEF Version, String, Array
<1> DEFINE id == IdOf(ms)
<1> HIDE DEF id
<1>2. CallOf(ms) =
        IF ~Has(ms, Jsonrpc) THEN <<"error", -10, id>>
        ELSE IF Member(ms, Jsonrpc)[1] # "string" THEN <<"gone">>
        ELSE IF Member(ms, Jsonrpc) # Version THEN <<"error", -10, id>>
        ELSE IF Has(ms, Method) /\ Member(ms, Method)[1] # "string" THEN <<"gone">>
        ELSE IF Has(ms, Params) /\ Member(ms, Params)[1] # "array" THEN <<"error", -12, id>>
        ELSE IF ~Has(ms, Method) \/ Member(ms, Method)[2] \notin Methods
          THEN <<"error", -11, id>>
        ELSE <<"call", Member(ms, Method)[2],
               IF Has(ms, Params) THEN Member(ms, Params)[2] ELSE <<>>, id>>
  BY DEF CallOf, id
<1> DEFINE a == Version
           b == String(m)
           c == Array(ps)
<1>3. a[1] = "string" /\ b[1] = "string" /\ b[2] = m /\ c[1] = "array" /\ c[2] = ps
  BY <1>1
<1> HIDE DEF a, b, c
<1>4. Member(ms, Jsonrpc) = a /\ Member(ms, Method) = b /\ Member(ms, Params) = c
  BY DEF a, b, c
<1>5. Member(ms, Jsonrpc)[1] = "string" /\ Member(ms, Jsonrpc) = Version
  BY <1>3, <1>4 DEF a
<1>6. Member(ms, Method)[1] = "string" /\ Member(ms, Method)[2] = m
  BY <1>3, <1>4
<1>7. Member(ms, Params)[1] = "array" /\ Member(ms, Params)[2] = ps
  BY <1>3, <1>4
<1>8. QED
  BY <1>2, <1>5, <1>6, <1>7 DEF id

(* It finds in a body what it finds in the object that the body is read as. *)
LEMMA ContentIs ==
    ASSUME NEW t, t # <<>>, NEW ms, Parse(t) = Object(ms)
    PROVE  ContentOf(t) = CallOf(ms) /\ RequestId(Parse(t)) = IdOf(ms)
PROOF
<1>1. Object(ms) # Throws /\ Object(ms) # Null /\ Object(ms)[1] = "object"
        /\ Object(ms)[2] = ms
  BY DEF Object, Throws, Null
<1> DEFINE v == Object(ms)
<1> HIDE DEF v
<1>2. v # Throws /\ v # Null /\ v[1] = "object" /\ v[2] = ms /\ Parse(t) = v
  BY <1>1 DEF v
<1>3. QED
  BY <1>2 DEF ContentOf, RequestId

(* What the server makes of a call.                                         *)
CallFrom(call, id) ==
    IF call[1] \in Methods THEN <<"call", call[1], AsReadAll(call[2]), id>>
    ELSE <<"error", -11, id>>

(* The text of RpcClient::call is read as that call. *)
LEMMA RequestArrives ==
    ASSUME NEW m \in Bytes, NEW ps \in Passed
    PROVE  LET t == Dump[Object(RequestOf(<<m, ps>>))]
           IN  /\ t \in Bytes /\ Parse(t) \in Values
               /\ ContentOf(t) = CallFrom(<<m, ps>>, Null) /\ RequestId(Parse(t)) = Null
PROOF
<1> DEFINE v == Object(RequestOf(<<m, ps>>))
           t == Dump[v]
           qs == AsReadAll(ps)
           ms == RequestOf(<<m, qs>>)
<1>1. v \in Values /\ AsRead[v] = Object(ms)
  BY RequestAsRead
<1> HIDE DEF v
<1>2. t \in Bytes
  BY <1>1, DumpSteps
<1>3. Holds(t, 1, t) /\ Len(t) \in Nat
  BY <1>2, HoldsItself, BytesLen
<1>4. Ends(t, 1 + Len(t))
  BY <1>3 DEF Ends
<1>5. Parse(t) = Object(ms) /\ Parse(t) \in Values /\ Len(t) > 0
  <2>1. Object(ms) # Throws
    BY DEF Object, Throws
  <2>2. QED
    BY <1>1, <1>2, <1>3, <1>4, <2>1, ParseReads
<1>6. t # <<>>
  BY <1>5
<1> HIDE DEF t
<1>7. ContentOf(t) = CallOf(ms) /\ RequestId(Parse(t)) = IdOf(ms)
  BY <1>5, <1>6, ContentIs
<1>8. ms = <<<<Jsonrpc, Version>>, <<Method, String(m)>>, <<Params, Array(qs)>>>>
  BY DEF RequestOf
<1> HIDE DEF ms, qs
<1>9. /\ Has(ms, Jsonrpc) /\ Member(ms, Jsonrpc) = Version
      /\ Has(ms, Method) /\ Member(ms, Method) = String(m)
      /\ Has(ms, Params) /\ Member(ms, Params) = Array(qs)
      /\ ~Has(ms, Id)
  BY <1>8, NamesAre, ThreeMembers
<1>10. IdOf(ms) = Null
  BY <1>9 DEF IdOf
<1>11. CallOf(ms) = IF m \in Methods THEN <<"call", m, qs, Null>>
         ELSE <<"error", -11, Null>>
  BY <1>9, <1>10, CallFound
<1>12. QED
  BY <1>2, <1>5, <1>7, <1>10, <1>11 DEF CallFrom, t, v, qs

(* The texts of a batch.                                                    *)
BatchParts(calls) ==
    [i \in DOMAIN calls |->
        Dump[Object(<<<<Id, Signed(i - 1)>>>> \o RequestOf(calls[i]))]
            \o (IF i < Len(calls) THEN <<10>> ELSE <<>>)]

(* The text of batch_call is made of the texts of its calls, one after the  *)
(* other.                                                                   *)
LEMMA BatchTyped ==
    ASSUME NEW calls \in Seq(Names \X Passed), Len(calls) <= MaxSigned
    PROVE  /\ BatchParts(calls) \in Seq(Bytes) /\ Len(BatchParts(calls)) = Len(calls)
           /\ BatchText(calls) = FlattenSeq(BatchParts(calls)) /\ BatchText(calls) \in Bytes
PROOF
<1> DEFINE n == Len(calls)
           v(i) == Object(<<<<Id, Signed(i - 1)>>>> \o RequestOf(calls[i]))
           end(i) == IF i < n THEN <<10>> ELSE <<>>
           p(i) == Dump[v(i)] \o end(i)
           r == [i \in 1 .. n |-> p(i)]
<1>1. n \in Nat /\ DOMAIN calls = 1 .. n /\ \A i \in 1 .. n : calls[i] \in Names \X Passed
  BY LenProperties, ElementOfSeq
<1>2. BatchParts(calls) = r
  BY <1>1 DEF BatchParts
<1>3. BatchText(calls) = FlattenSeq(BatchParts(calls))
  BY DEF BatchText, BatchParts
<1>4. ASSUME NEW i \in 1 .. n
      PROVE  p(i) \in Bytes
  <2>1. calls[i] = <<calls[i][1], calls[i][2]>> /\ calls[i][1] \in Bytes
          /\ calls[i][2] \in Passed
    BY <1>1, RpcCallAssumption
  <2>2. i - 1 \in 0 .. MaxSigned
    BY <1>1, JsonAssumption
  <2>3. v(i) \in Values
    <3> DEFINE m == calls[i][1]
               ps == calls[i][2]
               k == i - 1
    <3>1. m \in Bytes /\ ps \in Passed /\ k \in 0 .. MaxSigned /\ calls[i] = <<m, ps>>
      BY <2>1, <2>2
    <3> HIDE DEF m, ps, k
    <3>2. Object(<<<<Id, Signed(k)>>>> \o RequestOf(<<m, ps>>)) \in Values
      BY <3>1, NumberedAsRead
    <3>3. QED
      BY <3>1, <3>2 DEF k
  <2> HIDE DEF v
  <2>4. Dump[v(i)] \in Bytes
    BY <2>3, DumpSteps
  <2>5. end(i) \in Bytes
    BY WordsTyped DEF Bytes
  <2> HIDE DEF end
  <2>6. QED
    BY <2>4, <2>5, ConcatBytes
<1> HIDE DEF p, n
<1>5. r \in Seq(Bytes) /\ Len(r) = n
  BY <1>1, <1>4
<1> HIDE DEF r
<1>6. FlattenSeq(r) \in Bytes
  <2>1. PICK f \in [0 .. Len(r) -> Bytes] : f[Len(r)] = FlattenSeq(r)
    BY <1>5, FlattenSteps
  <2>2. Len(r) \in 0 .. Len(r)
    BY <1>1, <1>5
  <2>3. QED
    BY <2>1, <2>2
<1>7. QED
  BY <1>2, <1>3, <1>5, <1>6 DEF n

(* A concatenation begins with its first text.                              *)
LEMMA FirstOfMany ==
    ASSUME NEW seqs \in Seq(Bytes), Len(seqs) > 0
    PROVE  FlattenSeq(seqs) \in Bytes /\ Holds(FlattenSeq(seqs), 1, seqs[1])
PROOF
<1> DEFINE n == Len(seqs)
           all == FlattenSeq(seqs)
<1>1. n \in Nat /\ n > 0 /\ \A k \in 1 .. n : seqs[k] \in Bytes
  BY LenProperties, ElementOfSeq
<1>2. PICK f \in [0 .. n -> Bytes] :
          f[0] = <<>> /\ (\A k \in 1 .. n : f[k] = f[k-1] \o seqs[k]) /\ f[n] = all
  BY FlattenSteps
<1> HIDE DEF n, all
<1>3. all \in Bytes /\ Holds(all, 1, all)
  <2>1. n \in 0 .. n
    BY <1>1
  <2>2. QED
    BY <1>2, <2>1, HoldsItself
<1> DEFINE H == {j \in Nat : j < n => Holds(all, 1, f[n - j])}
<1>4. 0 \in H
  <2>1. n - 0 = n
    BY <1>1
  <2>2. QED
    BY <1>2, <1>3, <2>1
<1>5. ASSUME NEW j \in Nat, j \in H
      PROVE  j + 1 \in H
  <2>1. ASSUME j + 1 < n
        PROVE  Holds(all, 1, f[n - (j + 1)])
    <3> DEFINE k == n - j
    <3>1. k \in 1 .. n /\ k - 1 \in 0 .. n /\ k - 1 = n - (j + 1) /\ j < n
      BY <1>1, <1>5, <2>1
    <3>2. Holds(all, 1, f[k])
      BY <1>5, <3>1
    <3> HIDE DEF k
    <3>3. f[k-1] \in Bytes /\ seqs[k] \in Bytes /\ f[k] = f[k-1] \o seqs[k]
      BY <1>1, <1>2, <3>1
    <3>4. Holds(all, 1, f[k-1])
      BY <1>3, <3>2, <3>3, HoldsConcat
    <3>5. QED
      BY <3>1, <3>4
  <2>2. QED
    BY <2>1
<1> HIDE DEF H
<1>6. Nat \subseteq H
  BY <1>4, <1>5, NatInductionOnSet
<1>7. n - 1 \in Nat /\ n - 1 < n /\ n - (n - 1) = 1 /\ 1 \in 1 .. n /\ 1 - 1 = 0
  BY <1>1
<1>8. Holds(all, 1, f[1])
  BY <1>6, <1>7 DEF H
<1>9. f[1] = f[0] \o seqs[1]
  BY <1>2, <1>7
<1>10. <<>> \o seqs[1] = seqs[1]
  BY <1>1, <1>7, ConcatEmptySeq DEF Bytes
<1>11. QED
  BY <1>2, <1>3, <1>8, <1>9, <1>10 DEF all

(* What is read of it is its first call: an LF, or the end, follows that    *)
(* text.                                                                    *)
LEMMA BatchArrives ==
    ASSUME NEW calls \in Seq(Names \X Passed), Len(calls) <= MaxSigned, calls # <<>>
    PROVE  /\ Parse(BatchText(calls)) \in Values
           /\ ContentOf(BatchText(calls)) = CallFrom(calls[1], Signed(0))
           /\ RequestId(Parse(BatchText(calls))) = Signed(0)
PROOF
<1> DEFINE t == BatchText(calls)
           parts == BatchParts(calls)
           m == calls[1][1]
           ps == calls[1][2]
           v == Object(<<<<Id, Signed(0)>>>> \o RequestOf(<<m, ps>>))
           d == Dump[v]
           end == IF 1 < Len(calls) THEN <<10>> ELSE <<>>
           qs == AsReadAll(ps)
           ms == <<<<Id, Signed(0)>>>> \o RequestOf(<<m, qs>>)
<1>1. Len(calls) \in Nat /\ Len(calls) > 0 /\ DOMAIN calls = 1 .. Len(calls)
        /\ 1 \in 1 .. Len(calls)
  BY LenProperties, EmptySeq
<1>2. calls[1] \in Names \X Passed /\ calls[1] = <<m, ps>> /\ m \in Bytes /\ ps \in Passed
  BY <1>1, ElementOfSeq, RpcCallAssumption
<1>3. /\ parts \in Seq(Bytes) /\ Len(parts) = Len(calls)
      /\ t = FlattenSeq(parts) /\ t \in Bytes
  BY BatchTyped
<1>4. parts[1] = d \o end
  <2> DEFINE p(i) == Dump[Object(<<<<Id, Signed(i - 1)>>>> \o RequestOf(calls[i]))]
                        \o (IF i < Len(calls) THEN <<10>> ELSE <<>>)
  <2>1. parts = [i \in DOMAIN calls |-> p(i)]
    BY DEF BatchParts
  <2>2. p(1) = d \o end
    <3>1. 1 - 1 = 0
      OBVIOUS
    <3>2. Signed(1 - 1) = Signed(0) /\ RequestOf(calls[1]) = RequestOf(<<m, ps>>)
      BY <1>2, <3>1
    <3>3. QED
      BY <3>2
  <2> HIDE DEF p, d, end, parts
  <2>3. QED
    BY <1>1, <2>1, <2>2
<1> HIDE DEF m, ps
<1>5. /\ v \in Values /\ AsRead[v] = Object(ms)
  <2>1. 0 \in 0 .. MaxSigned
    BY JsonAssumption
  <2>2. QED
    BY <1>2, <2>1, NumberedAsRead, ZeroAsRead
<1> HIDE DEF v, parts, t
<1>6. d \in Bytes /\ Len(d) \in Nat
  BY <1>5, DumpSteps, BytesLen
<1>7. end \in Bytes
  BY WordsTyped DEF Bytes
<1> HIDE DEF d
<1>8. Holds(t, 1, d \o end)
  BY <1>1, <1>3, <1>4, FirstOfMany
<1>9. Holds(t, 1, d) /\ Holds(t, 1 + Len(d), end)
  <2> HIDE DEF end
  <2>1. QED
    BY <1>3, <1>6, <1>7, <1>8, HoldsConcat
<1>10. Ends(t, 1 + Len(d))
  <2>1. CASE 1 < Len(calls)
    <3>1. end = <<10>> /\ Len(end) = 1 /\ end[1] = 10
      BY <2>1
    <3>2. t[1 + Len(d)] = 10
      <4> DEFINE j == 1 + Len(d)
      <4>1. j \in Nat /\ j + 1 - 1 = j
        BY <1>6
      <4> HIDE DEF j, end
      <4>2. Holds(t, j, end)
        BY <1>9 DEF j
      <4>3. t[j + 1 - 1] = 10
        BY <3>1, <4>2 DEF Holds
      <4>4. QED
        BY <4>1, <4>3 DEF j
    <3>3. QED
      BY <3>2 DEF Ends, Enders
  <2>2. CASE ~(1 < Len(calls))
    <3>1. Len(parts) = 1 /\ 1 \in 1 .. 1
      BY <1>1, <1>3, <2>2
    <3>2. end = <<>>
      BY <2>2
    <3>3. parts[1] = d
      BY <1>4, <1>6, <3>2, ConcatEmptySeq DEF Bytes
    <3>4. PICK f \in [0 .. Len(parts) -> Bytes] :
                /\ f[0] = <<>>
                /\ \A k \in 1 .. Len(parts) : f[k] = f[k-1] \o parts[k]
                /\ f[Len(parts)] = FlattenSeq(parts)
      BY <1>3, FlattenSteps
    <3>5. FlattenSeq(parts) = f[1] /\ f[1] = f[1-1] \o parts[1] /\ 1 - 1 = 0
      BY <3>1, <3>4
    <3>6. t = <<>> \o d
      BY <1>3, <3>3, <3>4, <3>5
    <3>7. t = d
      BY <1>6, <3>6, ConcatEmptySeq DEF Bytes
    <3>8. QED
      BY <1>6, <3>7 DEF Ends
  <2>3. QED
    BY <2>1, <2>2
<1>11. Parse(t) = Object(ms) /\ Parse(t) \in Values /\ Len(t) > 0
  <2>1. Object(ms) # Throws
    BY DEF Object, Throws
  <2>2. QED
    BY <1>3, <1>5, <1>9, <1>10, <2>1, ParseReads DEF d
<1>12. t # <<>>
  BY <1>11
<1> HIDE DEF ms
<1>13. ContentOf(t) = CallOf(ms) /\ RequestId(Parse(t)) = IdOf(ms)
  BY <1>11, <1>12, ContentIs
<1>14. ms = <<<<Id, Signed(0)>>, <<Jsonrpc, Version>>, <<Method, String(m)>>,
              <<Params, Array(qs)>>>>
  BY NumberedIs DEF ms
<1> HIDE DEF qs
<1>15. /\ Has(ms, Jsonrpc) /\ Member(ms, Jsonrpc) = Version
       /\ Has(ms, Method) /\ Member(ms, Method) = String(m)
       /\ Has(ms, Params) /\ Member(ms, Params) = Array(qs)
       /\ Has(ms, Id) /\ Member(ms, Id) = Signed(0)
  <2> DEFINE w == Signed(0)
             x == Version
             y == String(m)
             z == Array(qs)
  <2>1. ms = <<<<Id, w>>, <<Jsonrpc, x>>, <<Method, y>>, <<Params, z>>>>
    BY <1>14
  <2> HIDE DEF w, x, y, z
  <2> DEFINE o == <<<<Id, w>>, <<Jsonrpc, x>>, <<Method, y>>, <<Params, z>>>>
  <2>2. /\ \A name : Has(o, name) <=> name \in {Id, Jsonrpc, Method, Params}
        /\ Member(o, Id) = w /\ Member(o, Jsonrpc) = x /\ Member(o, Method) = y
        /\ Member(o, Params) = z
    BY NamesAre, FourMembers
  <2> HIDE DEF o
  <2>3. ms = o
    BY <2>1 DEF o
  <2>4. QED
    BY <2>2, <2>3 DEF w, x, y, z
<1>16. IdOf(ms) = Signed(0)
  BY <1>15 DEF IdOf
<1>17. CallOf(ms) = IF m \in Methods THEN <<"call", m, qs, Signed(0)>>
         ELSE <<"error", -11, Signed(0)>>
  BY <1>15, <1>16, CallFound
<1>18. calls[1][1] = m /\ calls[1][2] = ps
  BY DEF m, ps
<1>19. QED
  BY <1>11, <1>13, <1>16, <1>17, <1>18 DEF CallFrom, t, qs

(* Whatever a body holds, the id that is answered can be written again.     *)
LEMMA IdTyped ==
    ASSUME NEW value \in Values
    PROVE  RequestId(value) \in Held
PROOF
<1> DEFINE d == MaxNesting - 1
           ms == value[2]
           c == CHOOSE k \in DOMAIN ms : ms[k][1] = Id
<1>1. Null \in Held
  BY Depths DEF Flat
<1>2. CASE value[1] = "object" /\ Has(ms, Id)
  <2>1. value \in ValuesTo[MaxNesting] /\ MaxNesting \in Nat
    BY Depths DEF Values
  <2>2. ms \in MembersTo(Held)
    BY <1>2, <2>1, Kinds DEF Held
  <2> HIDE DEF ms
  <2>3. c \in DOMAIN ms
    BY <1>2 DEF Has
  <2>4. ms[c][2] \in Held
    <3> HIDE DEF c
    <3>1. QED
      BY <2>2, <2>3, MembersAre
  <2>5. Member(ms, Id) = ms[c][2]
    BY DEF Member
  <2>6. RequestId(value) = Member(ms, Id)
    BY <1>2 DEF RequestId, IdOf, ms
  <2>7. QED
    BY <2>4, <2>5, <2>6
<1>3. CASE value[1] = "object" /\ ~Has(ms, Id)
  BY <1>1, <1>3 DEF RequestId, IdOf
<1>4. CASE value[1] # "object"
  BY <1>1, <1>4 DEF RequestId
<1>5. QED
  BY <1>2, <1>3, <1>4

(* What the server can find in a body.                                      *)
ContentFits(t) ==
    LET content == ContentOf(t)
        id == RequestId(Parse(t))
    IN  \/ content = <<"gone">>
        \/ content = <<"page">>
        \/ /\ id \in Held
           /\ \E code \in {-10, -11, -12} : content = <<"error", code, id>>
        \/ /\ id \in Held
           /\ \E m, ps : content = <<"call", m, ps, id>>

(* Whatever the body, it is refused for a reason, or it is a call. *)
LEMMA ContentTyped ==
    ASSUME NEW t, Parse(t) = Throws \/ Parse(t) \in Values
    PROVE  ContentFits(t)
PROOF
<1> DEFINE value == Parse(t)
           id == RequestId(value)
<1>1. CASE t = <<>>
  BY <1>1 DEF ContentFits, ContentOf
<1>2. CASE t # <<>> /\ value = Throws
  BY <1>2 DEF ContentFits, ContentOf
<1>3. CASE t # <<>> /\ value # Throws
  <2>1. id \in Held
    BY <1>3, IdTyped
  <2>2. ContentOf(t) = IF value = Null THEN <<"page">>
                       ELSE IF value[1] # "object" THEN <<"error", -10, Null>>
                       ELSE CallOf(value[2])
    BY <1>3 DEF ContentOf
  <2>3. CASE value = Null
    BY <2>2, <2>3 DEF ContentFits
  <2>4. CASE value # Null /\ value[1] # "object"
    <3>1. id = Null
      BY <2>4 DEF RequestId
    <3>2. ContentOf(t) = <<"error", -10, id>>
      BY <2>2, <2>4, <3>1
    <3> HIDE DEF id
    <3>3. QED
      BY <2>1, <3>2 DEF ContentFits, id
  <2>5. CASE value # Null /\ value[1] = "object"
    <3> DEFINE ms == value[2]
    <3>1. id = IdOf(ms) /\ ContentOf(t) = CallOf(ms)
      BY <2>2, <2>5 DEF RequestId
    <3> HIDE DEF id, ms
    <3>2. CallOf(ms) =
            IF ~Has(ms, Jsonrpc) THEN <<"error", -10, id>>
            ELSE IF Member(ms, Jsonrpc)[1] # "string" THEN <<"gone">>
            ELSE IF Member(ms, Jsonrpc) # Version THEN <<"error", -10, id>>
            ELSE IF Has(ms, Method) /\ Member(ms, Method)[1] # "string" THEN <<"gone">>
            ELSE IF Has(ms, Params) /\ Member(ms, Params)[1] # "array"
              THEN <<"error", -12, id>>
            ELSE IF ~Has(ms, Method) \/ Member(ms, Method)[2] \notin Methods
              THEN <<"error", -11, id>>
            ELSE <<"call", Member(ms, Method)[2],
                   IF Has(ms, Params) THEN Member(ms, Params)[2] ELSE <<>>, id>>
      BY <3>1 DEF CallOf
    <3> DEFINE a == Member(ms, Method)[2]
               b == IF Has(ms, Params) THEN Member(ms, Params)[2] ELSE <<>>
    <3>3. \/ CallOf(ms) = <<"gone">>
          \/ CallOf(ms) = <<"error", -10, id>>
          \/ CallOf(ms) = <<"error", -11, id>>
          \/ CallOf(ms) = <<"error", -12, id>>
          \/ CallOf(ms) = <<"call", a, b, id>>
      BY <3>2
    <3> HIDE DEF a, b
    <3>4. \/ CallOf(ms) = <<"gone">>
          \/ \E code \in {-10, -11, -12} : CallOf(ms) = <<"error", code, id>>
          \/ \E m, ps : CallOf(ms) = <<"call", m, ps, id>>
      BY <3>3
    <3>5. QED
      BY <2>1, <3>1, <3>4 DEF ContentFits, id
  <2>6. QED
    BY <1>3, <2>3, <2>4, <2>5
<1>4. QED
  BY <1>1, <1>2, <1>3

(* An object of three members that is written, and read again.              *)
LEMMA ThreeMembersRead ==
    ASSUME NEW A \in Bytes, NEW B \in Bytes, NEW C \in Bytes, Before(A, B), Before(B, C),
           A # B, A # C, B # C, NEW x \in Held, NEW y \in Held, NEW z \in Held
    PROVE  LET t == Dump[Object(<<<<A, x>>, <<B, y>>, <<C, z>>>>)]
           IN  /\ t \in Bytes
               /\ Parse(t) =
                    IF Throws \in {AsRead[x], AsRead[y], AsRead[z]} THEN Throws
                    ELSE Object(<<<<A, AsRead[x]>>, <<B, AsRead[y]>>, <<C, AsRead[z]>>>>)
PROOF
<1> DEFINE r == <<<<A, x>>, <<B, y>>, <<C, z>>>>
           d == MaxNesting - 1
           v == Object(r)
           t == Dump[v]
<1>1. d \in Nat /\ d + 1 = MaxNesting /\ Held = ValuesTo[d]
  BY Depths DEF Held
<1> HIDE DEF d
<1>2. r \in Seq(Bytes \X ValuesTo[d]) /\ Len(r) = 3
  BY <1>1
<1>3. \A j \in 1 .. Len(r) - 1 : Before(r[j][1], r[j+1][1])
  <2>1. r[1][1] = A /\ r[2][1] = B /\ r[3][1] = C
    OBVIOUS
  <2> HIDE DEF r
  <2>2. \A j \in 1 .. Len(r) - 1 : (j = 1 /\ j + 1 = 2) \/ (j = 2 /\ j + 1 = 3)
    <3>1. Len(r) - 1 = 2
      BY <1>2
    <3>2. \A j \in 1 .. 2 : (j = 1 /\ j + 1 = 2) \/ (j = 2 /\ j + 1 = 3)
      OBVIOUS
    <3>3. QED
      BY <3>1, <3>2
  <2>3. QED
    BY <2>1, <2>2
<1>4. MembersBack(AsRead, r) = <<<<A, AsRead[x]>>, <<B, AsRead[y]>>, <<C, AsRead[z]>>>>
  BY ThreeMembers
<1>a. (\E k \in DOMAIN r : AsRead[r[k][2]] = Throws)
        <=> Throws \in {AsRead[x], AsRead[y], AsRead[z]}
  <2>1. DOMAIN r = {1, 2, 3} /\ r[1][2] = x /\ r[2][2] = y /\ r[3][2] = z
    OBVIOUS
  <2> HIDE DEF r
  <2>2. QED
    BY <2>1
<1> HIDE DEF r
<1>5. v \in Values
  <2>1. Len(r) <= 4
    BY <1>2
  <2>2. v \in ValuesTo[d + 1]
    BY <1>1, <1>2, <1>3, <2>1, OrderedMembers
  <2>3. QED
    BY <1>1, <2>2 DEF Values
<1>6. AsRead[v] = IF Throws \in {AsRead[x], AsRead[y], AsRead[z]} THEN Throws
                  ELSE Object(MembersBack(AsRead, r))
  BY <1>5, <1>a, ObjectAsRead
<1> HIDE DEF v
<1>7. t \in Bytes /\ Parse(t) = AsRead[v]
  BY <1>5, DumpSteps, RoundTrip
<1>8. QED
  BY <1>4, <1>6, <1>7 DEF r, v

(* The code and message of an error are a value. *)
LEMMA ErrorObjectTyped ==
    ASSUME NEW code \in ErrorCodes, NEW message \in Bytes
    PROVE  ErrorObject(code, message) \in Held
             /\ AsRead[ErrorObject(code, message)] # Throws
PROOF
<1> DEFINE x == Double(Stod(Decimal(code)))
           y == String(message)
           r == <<<<Code, x>>, <<Message, y>>>>
<1>0. /\ Stod(Decimal(code)) \in Doubles /\ Shown(Stod(Decimal(code))) = Decimal(code)
      /\ code \in -MaxSigned-1 .. MaxUnsigned
  BY JsonAssumption, RpcCallAssumption DEF ErrorCodes
<1>1. x \in Flat /\ AsRead[x] # Throws
  <2>1. x \in Flat
    BY <1>0 DEF Double, Flat
  <2>2. AsRead[x] = ReadBack(x, AsRead)
    BY <2>1, Depths, AsReadSteps
  <2>3. x[1] = "double" /\ x[2] = Stod(Decimal(code))
    BY DEF Double
  <2>4. ReadBack(x, AsRead) = ValueRead(ParseNumber(Decimal(code), 1))
    BY <1>0, <2>3, ReadBackCases
  <2>5. ParseNumber(Decimal(code), 1) # Throws
          /\ ParseNumber(Decimal(code), 1)[1] = IntegerAsRead(code)
    BY <1>0, DecimalIsRead
  <2>6. AsRead[x] = IntegerAsRead(code)
    BY <2>2, <2>4, <2>5 DEF ValueRead
  <2>7. IntegerAsRead(code) # Throws
    BY DEF IntegerAsRead, Signed, Unsigned, Throws
  <2>8. QED
    BY <2>1, <2>6, <2>7
<1>2. y \in Flat /\ AsRead[y] # Throws
  BY StringsAreFlat
<1>3. ErrorObject(code, message) = Object(r)
  BY DEF ErrorObject
<1> HIDE DEF x, y
<1>4. ValuesTo[0] = Flat
  BY ValuesSteps
<1>5. r \in Seq(Bytes \X ValuesTo[0]) /\ Len(r) = 2
  BY <1>1, <1>2, <1>4, NamesAre
<1>6. \A j \in 1 .. Len(r) - 1 : Before(r[j][1], r[j+1][1])
  <2>1. r[1][1] = Code /\ r[2][1] = Message
    OBVIOUS
  <2> HIDE DEF r
  <2>2. \A j \in 1 .. Len(r) - 1 : j = 1 /\ j + 1 = 2
    BY <1>5
  <2>3. QED
    BY <2>1, <2>2, NamesAre
<1>b. \A k \in DOMAIN r : r[k][2] \in {x, y}
  OBVIOUS
<1> HIDE DEF r
<1>7. Object(r) \in ValuesTo[1]
  <2>1. 0 \in Nat /\ 0 + 1 = 1 /\ Len(r) <= 4
    BY <1>5
  <2>2. Object(r) \in ValuesTo[0 + 1]
    BY <1>5, <1>6, <2>1, OrderedMembers
  <2>3. QED
    BY <2>1, <2>2
<1>8. ValuesTo[1] \subseteq Held
  <2> DEFINE d == MaxNesting - 1
  <2>1. d \in Nat /\ 1 \in Nat /\ 1 <= d
    BY JsonAssumption, RpcCallAssumption
  <2> HIDE DEF d
  <2>2. ValuesTo[1] \subseteq ValuesTo[d]
    BY <2>1, ValuesWiden
  <2>3. QED
    BY <2>2 DEF Held, d
<1>9. AsRead[Object(r)] # Throws
  <2>1. Object(r) \in Values
    BY <1>7, <1>8, Depths
  <2>2. ~\E k \in DOMAIN r : AsRead[r[k][2]] = Throws
    BY <1>1, <1>2, <1>b
  <2>3. AsRead[Object(r)] = Object(MembersBack(AsRead, r))
    BY <2>1, <2>2, ObjectAsRead
  <2>4. QED
    BY <2>3 DEF Object, Throws
<1>10. QED
  BY <1>3, <1>7, <1>8, <1>9

(* A reply in JSON: it can be read if the id can, as an object with the id. *)
ReplyReads(answer, body, id) ==
    /\ answer \in {"json"} \X Bytes
    /\ Has(body, Id) /\ Member(body, Id) = AsRead[id]
    /\ Parse(answer[2]) = IF AsRead[id] = Throws THEN Throws ELSE Object(body)

(* A reply with a result can be read: it has the id and the result, and no  *)
(* error.                                                                   *)
LEMMA ResultReads ==
    ASSUME NEW result \in Held, AsRead[result] # Throws, NEW id \in Held
    PROVE  \E body : /\ ReplyReads(ResultReply(result, id), body, id)
                     /\ {body[k][1] : k \in DOMAIN body} = {Id, Jsonrpc, Result}
                     /\ ~Has(body, Error) /\ Member(body, Result) = AsRead[result]
PROOF
<1> DEFINE x == AsRead[id]
           y == AsRead[Version]
           z == AsRead[result]
           body == <<<<Id, x>>, <<Jsonrpc, y>>, <<Result, z>>>>
           t == Dump[Object(<<<<Id, id>>, <<Jsonrpc, Version>>, <<Result, result>>>>)]
<1>1. t \in Bytes /\ Parse(t) = IF x = Throws THEN Throws ELSE Object(body)
  <2>1. /\ Id \in Bytes /\ Jsonrpc \in Bytes /\ Result \in Bytes /\ Before(Id, Jsonrpc)
        /\ Before(Jsonrpc, Result)
        /\ Id # Jsonrpc /\ Id # Result /\ Jsonrpc # Result /\ Version \in Held
    BY NamesAre, Depths
  <2>2. t \in Bytes /\ Parse(t) = IF Throws \in {x, y, z} THEN Throws ELSE Object(body)
    BY <2>1, ThreeMembersRead
  <2>3. y # Throws /\ z # Throws
    BY NamesAre
  <2> HIDE DEF x, y, z, body, t
  <2>4. QED
    BY <2>2, <2>3
<1>2. ResultReply(result, id) = <<"json", t>>
  BY DEF ResultReply
<1> HIDE DEF x, y, z, t
<1>3. /\ \A name : Has(body, name) <=> name \in {Id, Jsonrpc, Result}
      /\ Member(body, Id) = x /\ Member(body, Result) = z
      /\ {body[k][1] : k \in DOMAIN body} = {Id, Jsonrpc, Result}
  BY NamesAre, ThreeMembers
<1> HIDE DEF body
<1>4. ReplyReads(<<"json", t>>, body, id)
  BY <1>1, <1>3 DEF ReplyReads, x
<1>5. ~Has(body, Error)
  BY <1>3, NamesAre
<1>6. QED
  BY <1>2, <1>3, <1>4, <1>5 DEF z

(* A reply with an error can be read: it has the id and the error. *)
LEMMA ErrorReads ==
    ASSUME NEW code \in ErrorCodes, NEW what \in Bytes, NEW id \in Held
    PROVE  \E body : /\ ReplyReads(ErrorReply(code, what, id), body, id)
                     /\ {body[k][1] : k \in DOMAIN body} = {Id, Jsonrpc, Error}
                     /\ Has(body, Error)
PROOF
<1> DEFINE e == ErrorObject(code, what)
           w == AsRead[e]
           x == AsRead[id]
           y == AsRead[Version]
           body == <<<<Error, w>>, <<Id, x>>, <<Jsonrpc, y>>>>
           t == Dump[Object(<<<<Error, e>>, <<Id, id>>, <<Jsonrpc, Version>>>>)]
<1>1. e \in Held /\ w # Throws
  BY ErrorObjectTyped
<1>2. ErrorReply(code, what, id) = <<"json", t>>
  BY DEF ErrorReply
<1> HIDE DEF e
<1>3. t \in Bytes /\ Parse(t) = IF x = Throws THEN Throws ELSE Object(body)
  <2>1. /\ Id \in Bytes /\ Jsonrpc \in Bytes /\ Error \in Bytes /\ Before(Error, Id)
        /\ Before(Id, Jsonrpc)
        /\ Id # Jsonrpc /\ Error # Id /\ Error # Jsonrpc /\ Version \in Held
    BY NamesAre, Depths
  <2>2. t \in Bytes /\ Parse(t) = IF Throws \in {w, x, y} THEN Throws ELSE Object(body)
    BY <1>1, <2>1, ThreeMembersRead
  <2>3. y # Throws
    BY NamesAre
  <2> HIDE DEF w, x, y, body, t
  <2>4. QED
    BY <1>1, <2>2, <2>3
<1> HIDE DEF w, x, y, t
<1>4. /\ \A name : Has(body, name) <=> name \in {Error, Id, Jsonrpc}
      /\ Member(body, Id) = x
      /\ {body[k][1] : k \in DOMAIN body} = {Error, Id, Jsonrpc}
  BY NamesAre, ThreeMembers
<1> HIDE DEF body
<1>5. ReplyReads(<<"json", t>>, body, id)
  BY <1>3, <1>4 DEF ReplyReads, x
<1>6. QED
  BY <1>2, <1>4, <1>5

-----------------------------------------------------------------------------
(* The inductive invariant: what has been asked, handled and answered so far *)
(* is what the handlers of client and server make of it.                     *)

Fresh ==
    /\ asked = <<>> /\ batch = FALSE
    /\ handled = None /\ produced = None /\ reply = None /\ outcome = None

(* A call, a batch of calls, or the text of somebody else. *)
RequestFits ==
    \/ /\ batch = FALSE /\ asked = <<asked[1]>> /\ asked[1] \in Names \X Passed
       /\ request = Dump[Object(RequestOf(asked[1]))]
    \/ /\ batch = TRUE /\ asked \in Seq(Names \X Passed) /\ Len(asked) <= MaxSigned
       /\ request = BatchText(asked)
    \/ batch = FALSE /\ asked = <<>> /\ request \in Foreign

(* Refused; or the handler has returned; or it has thrown. *)
Answered ==
    LET content == ContentOf(request)
    IN  \/ /\ content[1] # "call" /\ handled = None /\ produced = None
           /\ reply = IF content[1] = "error" THEN ErrorReply(content[2], <<>>, content[3])
                      ELSE content
        \/ /\ content[1] = "call" /\ handled = <<content[2], content[3]>>
           /\ produced \in Results /\ reply = ResultReply(produced, content[4])
        \/ /\ content[1] = "call" /\ handled = <<content[2], content[3]>> /\ produced = None
           /\ \E what \in Complaints : reply = ErrorReply(-13, what, content[4])

ReplyFits == (reply = None /\ handled = None /\ produced = None) \/ Answered

OutcomeOfReply ==
    LET value == IF reply[1] = "json" THEN Parse(reply[2]) ELSE Throws
    IN  IF reply[1] = "gone" THEN <<"false">>
        ELSE IF value = Throws THEN <<"thrown">>
        ELSE IF batch THEN BatchOutcomeOf(value)
        ELSE OutcomeOf(value)

OutcomeFits ==
    outcome # None => /\ reply # None /\ (asked # <<>> \/ batch)
                      /\ outcome = OutcomeOfReply

RpcInv == IF request = None THEN Fresh ELSE RequestFits /\ ReplyFits /\ OutcomeFits

SubmittedFits ==
    submitted # None =>
        /\ request # None /\ submitted \in Blocks
        /\ asked = <<<<SubmitBlock, <<String(HexText(BlockBytes(submitted)))>>>>>>

FormatsInv == RpcInv /\ SubmittedFits

-----------------------------------------------------------------------------
(* null is read as null. *)
LEMMA NullAsRead == AsRead[Null] = Null /\ AsRead[Null] # Throws
PROOF
<1>1. Null \in Flat /\ Null[1] = "null"
  BY DEF Null, Flat
<1>2. Null \in Values
  BY <1>1, Depths
<1>3. AsRead[Null] = ReadBack(Null, AsRead)
  BY <1>2, AsReadSteps
<1>4. ReadBack(Null, AsRead) = Null
  BY <1>1, ReadBackCases
<1>5. Null # Throws
  BY DEF Null, Throws
<1>6. QED
  BY <1>3, <1>4, <1>5

(* What the invariant says of a request: it can be read, or is refused, and  *)
(* a call of RpcClient is read as the call that it is, with an id that can   *)
(* be read back.                                                             *)
LEMMA RequestRead ==
    ASSUME RequestFits
    PROVE  /\ request \in Bytes /\ request # None
           /\ ContentFits(request)
           /\ asked # <<>> => /\ asked[1] \in Names \X Passed
                              /\ \E id : ContentOf(request) = CallFrom(asked[1], id)
                              /\ AsRead[RequestId(Parse(request))] # Throws
           /\ (batch /\ asked = <<>>) => ContentOf(request) = <<"page">>
PROOF
<1> DEFINE t == request
           content == ContentOf(t)
<1>1. None \notin Bytes /\ Names \subseteq Bytes
  BY RpcCallAssumption
<1>2. ASSUME NEW u \in Bytes, Len(u) <= MaxNesting
      PROVE  Parse(u) = Throws \/ Parse(u) \in Values
  <2>1. Len(u) \in Nat
    BY BytesLen
  <2>2. ValuesTo[Len(u)] \subseteq Values
    BY <1>2, <2>1, Depths, ValuesWiden DEF Values
  <2>3. QED
    BY <2>2, ParseTyped
<1>3. CASE /\ batch = FALSE /\ asked = <<asked[1]>> /\ asked[1] \in Names \X Passed
           /\ request = Dump[Object(RequestOf(asked[1]))]
  <2> DEFINE m == asked[1][1]
             ps == asked[1][2]
  <2>1. m \in Names /\ ps \in Passed /\ asked[1] = <<m, ps>>
    BY <1>3
  <2> HIDE DEF m, ps
  <2>2. m \in Bytes
    BY <2>1, <1>1
  <2>3. /\ t \in Bytes /\ Parse(t) \in Values /\ content = CallFrom(<<m, ps>>, Null)
        /\ RequestId(Parse(t)) = Null
    BY <1>3, <2>1, <2>2, RequestArrives
  <2>4. ContentFits(t)
    BY <2>3, ContentTyped
  <2>5. QED
    BY <1>1, <1>3, <2>1, <2>3, <2>4, NullAsRead
<1>4. CASE /\ batch = TRUE /\ asked \in Seq(Names \X Passed) /\ Len(asked) <= MaxSigned
           /\ request = BatchText(asked)
  <2>1. t \in Bytes
    BY <1>4, BatchTyped
  <2>2. CASE asked = <<>>
    <3>1. t = <<>>
      <4> DEFINE parts == BatchParts(asked)
      <4>1. parts \in Seq(Bytes) /\ Len(parts) = 0 /\ t = FlattenSeq(parts)
        BY <1>4, <2>2, BatchTyped
      <4> HIDE DEF parts
      <4>2. QED
        BY <4>1, FlattenSteps
    <3>2. content = <<"page">>
      BY <3>1 DEF ContentOf
    <3>3. QED
      BY <1>1, <2>1, <2>2, <3>2 DEF ContentFits
  <2>3. CASE asked # <<>>
    <3>1. /\ Parse(t) \in Values /\ content = CallFrom(asked[1], Signed(0))
          /\ RequestId(Parse(t)) = Signed(0)
      BY <1>4, <2>3, BatchArrives
    <3>2. ContentFits(t)
      BY <3>1, ContentTyped
    <3>3. asked[1] \in Names \X Passed
      BY <1>4, <2>3
    <3>4. QED
      BY <1>1, <2>1, <2>3, <3>1, <3>2, <3>3, ZeroAsRead
  <2>4. QED
    BY <2>2, <2>3
<1>5. CASE batch = FALSE /\ asked = <<>> /\ request \in Foreign
  <2>1. t \in Bytes /\ Len(t) < MaxNesting
    BY <1>5, RpcCallAssumption
  <2>2. Len(t) <= MaxNesting
    BY <2>1, BytesLen, Depths
  <2>3. Parse(t) = Throws \/ Parse(t) \in Values
    BY <2>1, <2>2, <1>2
  <2>4. ContentFits(t)
    BY <2>3, ContentTyped
  <2>5. QED
    BY <1>1, <1>5, <2>1, <2>4
<1>6. QED
  BY <1>3, <1>4, <1>5 DEF RequestFits

(* What the invariant says of an answer: why it is given, and that it can be *)
(* read, with the id of the request.                                         *)
Refused ==
    /\ ContentOf(request) \in {<<"gone">>, <<"page">>} /\ reply = ContentOf(request)
    /\ handled = None /\ produced = None

FailsWith(body) ==
    /\ produced = None
    /\ ReplyReads(reply, body, RequestId(Parse(request)))
    /\ {body[k][1] : k \in DOMAIN body} = {Id, Jsonrpc, Error}
    /\ Has(body, Error)

ReturnsIn(body) ==
    /\ produced # None
    /\ ReplyReads(reply, body, RequestId(Parse(request)))
    /\ {body[k][1] : k \in DOMAIN body} = {Id, Jsonrpc, Result}
    /\ ~Has(body, Error) /\ Member(body, Result) = AsRead[produced]

(* So each answer can be read, or is none in JSON; and it says whether the  *)
(* handler has returned.                                                    *)
LEMMA ReplyRead ==
    ASSUME ContentFits(request), Answered
    PROVE  \/ Refused
           \/ /\ ContentOf(request)[1] = "error" /\ handled = None
              /\ \E body : FailsWith(body)
           \/ /\ ContentOf(request)[1] = "call"
              /\ handled = <<ContentOf(request)[2], ContentOf(request)[3]>>
              /\ \E body : FailsWith(body) \/ ReturnsIn(body)
PROOF
<1> DEFINE content == ContentOf(request)
           id == RequestId(Parse(request))
<1>1. /\ \A result \in Results : result \in Held /\ AsRead[result] # Throws
      /\ None \notin Results /\ Complaints \subseteq Bytes
  BY RpcCallAssumption DEF Held
<1>2. CASE content = <<"gone">> \/ content = <<"page">>
  <2>1. content[1] \in {"gone", "page"}
    BY <1>2
  <2>2. Refused
    BY <1>2, <2>1 DEF Answered, Refused
  <2>3. QED
    BY <2>2
<1>3. ASSUME id \in Held, NEW code \in {-10, -11, -12}, content = <<"error", code, id>>
      PROVE  content[1] = "error" /\ handled = None /\ \E body : FailsWith(body)
  <2>1. content[1] = "error" /\ content[2] = code /\ content[3] = id
    BY <1>3
  <2>2. reply = ErrorReply(code, <<>>, id) /\ handled = None /\ produced = None
    BY <2>1 DEF Answered
  <2> DEFINE what == <<>>
  <2>3. code \in ErrorCodes /\ what \in Bytes
    BY <1>3, EmptySeq DEF Bytes, ErrorCodes
  <2>4. reply = ErrorReply(code, what, id)
    BY <2>2
  <2>9. id \in Held
    BY <1>3
  <2> HIDE DEF what, id, content
  <2>5. \E body : /\ ReplyReads(ErrorReply(code, what, id), body, id)
                  /\ {body[k][1] : k \in DOMAIN body} = {Id, Jsonrpc, Error}
                  /\ Has(body, Error)
    BY <2>3, <2>9, ErrorReads
  <2>6. QED
    BY <2>1, <2>2, <2>4, <2>5 DEF FailsWith, id, content
<1>4. ASSUME id \in Held, NEW m, NEW ps, content = <<"call", m, ps, id>>
      PROVE  /\ content[1] = "call" /\ handled = <<content[2], content[3]>>
             /\ \E body : FailsWith(body) \/ ReturnsIn(body)
  <2>1. content[1] = "call" /\ content[4] = id
    BY <1>4
  <2>2. handled = <<content[2], content[3]>>
    BY <2>1 DEF Answered
  <2>3. CASE produced \in Results /\ reply = ResultReply(produced, id)
    <3>1. produced \in Held /\ produced # None /\ AsRead[produced] # Throws
      BY <1>1, <2>3
    <3>2. \E body : /\ ReplyReads(ResultReply(produced, id), body, id)
                    /\ {body[k][1] : k \in DOMAIN body} = {Id, Jsonrpc, Result}
                    /\ ~Has(body, Error) /\ Member(body, Result) = AsRead[produced]
      BY <1>4, <3>1, ResultReads
    <3>3. QED
      BY <2>1, <2>2, <2>3, <3>1, <3>2 DEF ReturnsIn
  <2>4. ASSUME produced = None, NEW what \in Complaints, reply = ErrorReply(-13, what, id)
        PROVE  \E body : FailsWith(body)
    <3>1. what \in Bytes /\ -13 \in ErrorCodes
      BY <1>1 DEF ErrorCodes
    <3>2. \E body : /\ ReplyReads(ErrorReply(-13, what, id), body, id)
                    /\ {body[k][1] : k \in DOMAIN body} = {Id, Jsonrpc, Error}
                    /\ Has(body, Error)
      BY <1>4, <3>1, ErrorReads
    <3>3. QED
      BY <2>4, <3>2 DEF FailsWith
  <2>5. QED
    BY <2>1, <2>2, <2>3, <2>4 DEF Answered
<1>5. QED
  BY <1>2, <1>3, <1>4 DEF ContentFits

(* A reply in JSON is something, and an object if its id can be read.       *)
LEMMA ReplyIsJson ==
    ASSUME NEW answer, NEW body, NEW id, ReplyReads(answer, body, id)
    PROVE  /\ answer[1] = "json" /\ answer # None
           /\ AsRead[id] = Throws => Parse(answer[2]) = Throws
           /\ AsRead[id] # Throws => Parse(answer[2]) = Object(body)
           /\ Object(body) # Throws
           /\ Object(body)[1] = "object" /\ Object(body)[2] = body
PROOF
<1>1. answer[1] = "json" /\ answer # None
  BY RpcCallAssumption DEF ReplyReads
<1>2. Object(body) # Throws
  BY DEF Object, Throws
<1>3. Object(body)[1] = "object" /\ Object(body)[2] = body
  BY DEF Object
<1>4. QED
  BY <1>1, <1>2, <1>3 DEF ReplyReads

-----------------------------------------------------------------------------
(* The invariant is inductive. *)

(* Whoever asks, the request fits: neither reply nor outcome is there yet.  *)
LEMMA AskKeepsInv ==
    ASSUME RpcInv, Ask
    PROVE  RpcInv'
PROOF
<1>1. request = None /\ Fresh
  BY DEF Ask, RpcInv
<1>2. Parameters \subseteq Passed
  BY RpcCallAssumption DEF Passed
<1>3. ASSUME NEW method \in Names, NEW params \in Passed, Call(method, params)
      PROVE  RequestFits' /\ request' \in Bytes
  <2>1. asked' = <<<<method, params>>>> /\ asked'[1] = <<method, params>>
    BY <1>3 DEF Call
  <2>2. RequestFits'
    BY <1>1, <1>3, <2>1 DEF Call, RequestFits, Fresh
  <2>3. method \in Bytes
    BY RpcCallAssumption
  <2>4. QED
    BY <1>3, <2>2, <2>3, RequestArrives DEF Call
<1>4. ASSUME NEW calls \in Batches, BatchCall(calls)
      PROVE  RequestFits' /\ request' \in Bytes
  <2>1. calls \in Seq(Names \X Passed) /\ Len(calls) <= MaxSigned
    BY RpcCallAssumption DEF Passed
  <2>2. BatchText(calls) \in Bytes
    BY <2>1, BatchTyped
  <2>3. QED
    BY <1>4, <2>1, <2>2 DEF BatchCall, RequestFits
<1>5. ASSUME NEW text \in Foreign, OtherRequest(text)
      PROVE  RequestFits' /\ request' \in Bytes
  <2>1. text \in Bytes
    BY RpcCallAssumption
  <2>2. QED
    BY <1>1, <1>5, <2>1 DEF OtherRequest, RequestFits, Fresh
<1>6. RequestFits' /\ request' \in Bytes
  BY <1>2, <1>3, <1>4, <1>5 DEF Ask
<1>7. ReplyFits' /\ OutcomeFits'
  <2>1. UNCHANGED <<handled, produced, reply, outcome>>
    BY DEF Ask, Call, BatchCall, OtherRequest
  <2>2. QED
    BY <1>1, <2>1 DEF Fresh, ReplyFits, OutcomeFits
<1>8. request' # None
  BY <1>6, RpcCallAssumption
<1>9. QED
  BY <1>6, <1>7, <1>8 DEF RpcInv

(* An answer is something: the node gives no second one.                     *)
LEMMA AnsweredIsSomething ==
    ASSUME ContentFits(request), Answered
    PROVE  reply # None
PROOF
<1>1. Refused => reply # None
  BY RpcCallAssumption DEF Refused
<1>2. \A body : FailsWith(body) \/ ReturnsIn(body) => reply # None
  BY ReplyIsJson DEF FailsWith, ReturnsIn
<1>3. QED
  BY <1>1, <1>2, ReplyRead

(* The answer to a request fits, whether it is refused or handled.           *)
LEMMA ServeKeepsInv ==
    ASSUME RpcInv, Serve
    PROVE  RpcInv'
PROOF
<1> DEFINE content == ContentOf(request)
<1>1. /\ request # None /\ reply = None
      /\ RequestFits /\ ReplyFits /\ OutcomeFits
  BY DEF RpcInv, Serve
<1>2. outcome = None
  BY <1>1 DEF OutcomeFits
<1>3. UNCHANGED <<asked, batch, request, outcome>>
  BY DEF Serve
<1>4. handled = None /\ produced = None
  <2>1. ~Answered
    BY <1>1, RequestRead, AnsweredIsSomething
  <2>2. QED
    BY <1>1, <2>1 DEF ReplyFits
<1>5. Answered'
  <2>1. ContentOf(request') = content
    BY <1>3
  <2>2. CASE Refuse(content)
    BY <1>4, <2>1, <2>2 DEF Refuse, Answered
  <2>3. CASE \E result \in Results : HandleReturn(content, result)
    BY <2>1, <2>3 DEF HandleReturn, Answered
  <2>4. CASE \E what \in Complaints : HandleThrow(content, what)
    BY <1>4, <2>1, <2>4 DEF HandleThrow, Answered
  <2>5. QED
    BY <2>2, <2>3, <2>4 DEF Serve
<1>6. RequestFits'
  BY <1>1, <1>3 DEF RequestFits
<1>7. OutcomeFits'
  BY <1>2, <1>3 DEF OutcomeFits
<1>8. QED
  BY <1>1, <1>3, <1>5, <1>6, <1>7 DEF RpcInv, ReplyFits

(* The client reads an answer that is there. *)
LEMMA ReceiveKeepsInv ==
    ASSUME RpcInv, Receive
    PROVE  RpcInv'
PROOF
<1>1. UNCHANGED <<asked, batch, request, handled, produced, reply>>
  BY DEF Receive
<1>2. /\ reply # None /\ (asked # <<>> \/ batch)
      /\ outcome' = OutcomeOfReply
  BY DEF Receive, OutcomeOfReply
<1>3. request # None
  BY <1>2 DEF RpcInv, Fresh
<1>4. RequestFits /\ ReplyFits
  BY <1>3 DEF RpcInv
<1>5. RequestFits'
  BY <1>1, <1>4 DEF RequestFits
<1>6. ReplyFits'
  BY <1>1, <1>4 DEF ReplyFits, Answered
<1>7. OutcomeOfReply' = OutcomeOfReply
  BY <1>1 DEF OutcomeOfReply
<1>8. OutcomeFits'
  BY <1>1, <1>2, <1>7 DEF OutcomeFits
<1>9. QED
  BY <1>1, <1>3, <1>5, <1>6, <1>8 DEF RpcInv

(* Nothing changes: the invariant is about these variables only.             *)
LEMMA StutterKeepsInv ==
    ASSUME RpcInv, UNCHANGED vars
    PROVE  RpcInv'
PROOF
<1>1. UNCHANGED <<asked, batch, request, handled, produced, reply, outcome>>
  BY DEF vars
<1>2. RequestFits' <=> RequestFits
  BY <1>1 DEF RequestFits
<1>3. ReplyFits' <=> ReplyFits
  BY <1>1 DEF ReplyFits, Answered
<1>4. OutcomeFits' <=> OutcomeFits
  <2>1. OutcomeOfReply' = OutcomeOfReply
    BY <1>1 DEF OutcomeOfReply
  <2>2. QED
    BY <1>1, <2>1 DEF OutcomeFits
<1>5. Fresh' <=> Fresh
  BY <1>1 DEF Fresh
<1>6. QED
  BY <1>1, <1>2, <1>3, <1>4, <1>5 DEF RpcInv

(* What Submit passes is an array of one string. *)
LEMMA SubmitAsks ==
    ASSUME RpcInv, request = None, NEW block \in Blocks, Submit(block)
    PROVE  RpcInv' /\ SubmittedFits'
PROOF
<1> DEFINE text == HexText(BlockBytes(block))
           params == <<String(text)>>
<1>1. text \in Bytes
  BY FormatsAssumption, BlockIsRead, HexIsRead
<1>2. params \in Passed
  <2>1. String(text) \in Flat
    BY <1>1, StringsAreFlat
  <2>2. Flat \subseteq ValuesTo[MaxNesting - 2]
    <3> DEFINE d == MaxNesting - 2
    <3>1. d \in Nat /\ d <= d
      BY Depths
    <3> HIDE DEF d
    <3>2. Flat \subseteq ValuesTo[d]
      BY <3>1, ValuesWiden
    <3>3. QED
      BY <3>2 DEF d
  <2>3. String(text) \in ValuesTo[MaxNesting - 2]
    BY <2>1, <2>2
  <2>4. \A S : \A s \in S : <<s>> \in Seq(S)
    OBVIOUS
  <2>5. AsRead[String(text)] # Throws
    BY <1>1, StringsAreFlat
  <2>6. \A s : DOMAIN <<s>> = {1} /\ <<s>>[1] = s
    OBVIOUS
  <2> DEFINE s == String(text)
  <2> HIDE DEF s
  <2>7. /\ <<s>> \in Seq(ValuesTo[MaxNesting - 2])
        /\ \A i \in DOMAIN <<s>> : AsRead[<<s>>[i]] # Throws
    BY <2>3, <2>4, <2>5, <2>6 DEF s
  <2>8. QED
    BY <2>7 DEF Passed, s
<1> HIDE DEF text
<1>3. Call(SubmitBlock, params) /\ submitted' = block
  BY DEF Submit, text
<1>4. SubmitBlock \in Names /\ SubmitBlock \in Bytes
  BY FormatsAssumption, RpcCallAssumption
<1> HIDE DEF params
<1>5. Fresh
  BY DEF RpcInv
<1>6. asked' = <<<<SubmitBlock, params>>>> /\ asked'[1] = <<SubmitBlock, params>>
  BY <1>3 DEF Call
<1>7. RequestFits'
  BY <1>2, <1>3, <1>4, <1>5, <1>6 DEF Call, RequestFits, Fresh
<1>8. request' \in Bytes
  BY <1>2, <1>3, <1>4, RequestArrives DEF Call
<1>9. ReplyFits' /\ OutcomeFits'
  BY <1>3, <1>5 DEF Call, Fresh, ReplyFits, OutcomeFits
<1>10. request' # None
  BY <1>8, RpcCallAssumption
<1>11. SubmittedFits'
  BY <1>3, <1>6, <1>10 DEF SubmittedFits, params, text
<1>12. QED
  BY <1>7, <1>9, <1>10, <1>11 DEF RpcInv

(* The inductive invariant: whatever has been asked, the call that was       *)
(* handled, the answer and the outcome are what RpcClient::call, batch_call  *)
(* and RpcServer::handle_request make of it.                                 *)
THEOREM FormatsInvariant == FormatsSpec => []FormatsInv
PROOF
<1>1. FormatsInit => FormatsInv
  BY DEF FormatsInit, Init, FormatsInv, RpcInv, Fresh, SubmittedFits, RequestFits
<1>2. FormatsInv /\ [FormatsNext]_formatsVars => FormatsInv'
  <2>1. SUFFICES ASSUME FormatsInv, [FormatsNext]_formatsVars
                 PROVE  RpcInv' /\ SubmittedFits'
    BY DEF FormatsInv
  <2>2. RpcInv /\ SubmittedFits
    BY <2>1 DEF FormatsInv
  <2>3. CASE Next /\ UNCHANGED submitted
    <3>1. CASE Ask
      <4>1. request = None
        BY <3>1 DEF Ask
      <4>2. SubmittedFits'
        BY <2>2, <2>3, <4>1 DEF SubmittedFits
      <4>3. QED
        BY <2>2, <3>1, <4>2, AskKeepsInv
    <3>2. CASE Serve
      <4>1. SubmittedFits'
        BY <2>2, <2>3, <3>2 DEF SubmittedFits, Serve
      <4>2. QED
        BY <2>2, <3>2, <4>1, ServeKeepsInv
    <3>3. CASE Receive
      <4>1. SubmittedFits'
        BY <2>2, <2>3, <3>3 DEF SubmittedFits, Receive
      <4>2. QED
        BY <2>2, <3>3, <4>1, ReceiveKeepsInv
    <3>4. QED
      BY <2>3, <3>1, <3>2, <3>3 DEF Next
  <2>4. CASE request = None /\ \E block \in Blocks : Submit(block)
    BY <2>2, <2>4, SubmitAsks
  <2>5. CASE UNCHANGED <<vars, submitted>>
    <3>1. SubmittedFits'
      BY <2>2, <2>5 DEF SubmittedFits, vars
    <3>2. QED
      BY <2>2, <2>5, <3>1, StutterKeepsInv
  <2>6. QED
    BY <2>1, <2>3, <2>4, <2>5 DEF FormatsNext, formatsVars
<1>3. QED
  BY <1>1, <1>2, PTL DEF FormatsSpec

-----------------------------------------------------------------------------
(* The properties. *)

(* What the reply to a call of RpcClient::call or batch_call is.             *)
LEMMA CallsAnswered ==
    ASSUME RpcInv, asked # <<>>, reply # None
    PROVE  LET m == asked[1][1]
           IN  /\ m \in Methods => handled = <<m, AsReadAll(asked[1][2])>>
               /\ m \notin Methods => handled = None
               /\ AsRead[RequestId(Parse(request))] # Throws
               /\ \E body : FailsWith(body) \/ ReturnsIn(body)
PROOF
<1> DEFINE m == asked[1][1]
           qs == AsReadAll(asked[1][2])
           content == ContentOf(request)
<1>1. RequestFits /\ ReplyFits
  BY DEF RpcInv, Fresh
<1>a. AsRead[RequestId(Parse(request))] # Throws
  BY <1>1, RequestRead
<1>2. PICK id : content = CallFrom(asked[1], id)
  BY <1>1, RequestRead
<1>3. /\ m \in Methods => content = <<"call", m, qs, id>>
      /\ m \notin Methods => content = <<"error", -11, id>>
  BY <1>2 DEF CallFrom
<1> HIDE DEF m, qs
<1>4. /\ m \in Methods => content[1] = "call" /\ content[2] = m /\ content[3] = qs
      /\ m \notin Methods => content[1] = "error"
  BY <1>3
<1>5. ContentFits(request) /\ Answered
  BY <1>1, RequestRead DEF ReplyFits
<1> HIDE DEF content
<1>6. \/ Refused
      \/ content[1] = "error" /\ handled = None /\ \E body : FailsWith(body)
      \/ /\ content[1] = "call" /\ handled = <<content[2], content[3]>>
         /\ \E body : FailsWith(body) \/ ReturnsIn(body)
  BY <1>5, ReplyRead DEF content
<1>7. Refused => content[1] \in {"gone", "page"}
  <2>1. <<"gone">>[1] = "gone" /\ <<"page">>[1] = "page"
    OBVIOUS
  <2>2. Refused => content = <<"gone">> \/ content = <<"page">>
    BY DEF Refused, content
  <2>3. QED
    BY <2>1, <2>2
<1>8. ~Refused
  BY <1>4, <1>7
<1>9. "error" # "call"
  OBVIOUS
<1>10. QED
  BY <1>4, <1>6, <1>8, <1>9, <1>a DEF m, qs

(* Calls reach their method with their parameters as they are read, or are   *)
(* refused because there is no such method, and no call of RpcClient ends    *)
(* the node (RpcServer::handle_request).                                     *)
THEOREM CallsReach == FormatsSpec => []CallsReachTheirMethod
PROOF
<1>1. FormatsInv => CallsReachTheirMethod
  <2>1. SUFFICES ASSUME RpcInv, asked # <<>>, reply # None
                 PROVE  LET method == asked[1][1]
                        IN  /\ reply[1] = "json"
                            /\ method \in Methods
                                 => handled = <<method, AsReadAll(asked[1][2])>>
                            /\ method \notin Methods => handled = None
    BY DEF CallsReachTheirMethod, FormatsInv
  <2>2. PICK body : FailsWith(body) \/ ReturnsIn(body)
    BY <2>1, CallsAnswered
  <2>3. reply[1] = "json"
    BY <2>2, ReplyIsJson DEF FailsWith, ReturnsIn
  <2>4. QED
    BY <2>1, <2>3, CallsAnswered
<1>2. QED
  BY <1>1, FormatsInvariant, PTL

(* RpcClient::call returns what the handler returned, and false if it threw  *)
(* or there is no such method: it takes neither for the other.               *)
THEOREM ResultsAreTold == FormatsSpec => []ResultsComeBack
PROOF
<1>1. FormatsInv => ResultsComeBack
  <2>1. SUFFICES ASSUME RpcInv, outcome # None, ~batch
                 PROVE  outcome = IF produced = None THEN <<"false">>
                                  ELSE <<"result", AsRead[produced]>>
    BY DEF ResultsComeBack, FormatsInv
  <2>2. reply # None /\ asked # <<>> /\ outcome = OutcomeOfReply
    BY <2>1 DEF RpcInv, Fresh, OutcomeFits
  <2>3. PICK body : FailsWith(body) \/ ReturnsIn(body)
    BY <2>1, <2>2, CallsAnswered
  <2>4. /\ reply[1] = "json" /\ Parse(reply[2]) = Object(body) /\ Object(body) # Throws
        /\ Object(body)[1] = "object" /\ Object(body)[2] = body
    BY <2>1, <2>2, <2>3, CallsAnswered, ReplyIsJson DEF FailsWith, ReturnsIn
  <2>5. "json" # "gone"
    OBVIOUS
  <2>6. outcome = OutcomeOf(Object(body))
    BY <2>1, <2>2, <2>4, <2>5 DEF OutcomeOfReply
  <2>7. outcome = IF Has(body, Error) THEN <<"false">>
          ELSE <<"result", Member(body, Result)>>
    BY <2>4, <2>6 DEF OutcomeOf
  <2>8. QED
    BY <2>3, <2>7 DEF FailsWith, ReturnsIn
<1>2. QED
  BY <1>1, FormatsInvariant, PTL

(* What gets no answer in JSON, and why.                                     *)
LEMMA NoContent ==
    ASSUME NEW t
    PROVE  /\ ContentOf(t) = <<"page">> => t = <<>> \/ Parse(t) = Null
           /\ ContentOf(t) = <<"gone">> =>
                \/ Parse(t) = Throws
                \/ /\ Parse(t)[1] = "object"
                   /\ \E name \in {Jsonrpc, Method} :
                         Has(Parse(t)[2], name) /\ Member(Parse(t)[2], name)[1] # "string"
PROOF
<1> DEFINE value == Parse(t)
           ms == value[2]
           id == IdOf(ms)
<1>1. <<"page">> # <<"gone">> /\ \A x, y : <<"error", x, y>> \notin {<<"page">>, <<"gone">>}
  <2>1. /\ <<"page">>[1] = "page" /\ <<"gone">>[1] = "gone"
        /\ \A x, y : <<"error", x, y>>[1] = "error"
    OBVIOUS
  <2>2. "page" # "gone" /\ "error" \notin {"page", "gone"}
    OBVIOUS
  <2>3. QED
    BY <2>1, <2>2
<1>2. \A x, y, z : <<"call", x, y, z>> \notin {<<"page">>, <<"gone">>}
  <2>1. /\ <<"page">>[1] = "page" /\ <<"gone">>[1] = "gone"
        /\ \A x, y, z : <<"call", x, y, z>>[1] = "call"
    OBVIOUS
  <2>2. "call" \notin {"page", "gone"}
    OBVIOUS
  <2>3. QED
    BY <2>1, <2>2
<1>3. ContentOf(t) = IF t = <<>> THEN <<"page">> ELSE IF value = Throws THEN <<"gone">>
                     ELSE IF value = Null THEN <<"page">>
                     ELSE IF value[1] # "object" THEN <<"error", -10, Null>>
                     ELSE CallOf(ms)
  BY DEF ContentOf
<1>4. CallOf(ms) =
        IF ~Has(ms, Jsonrpc) THEN <<"error", -10, id>>
        ELSE IF Member(ms, Jsonrpc)[1] # "string" THEN <<"gone">>
        ELSE IF Member(ms, Jsonrpc) # Version THEN <<"error", -10, id>>
        ELSE IF Has(ms, Method) /\ Member(ms, Method)[1] # "string" THEN <<"gone">>
        ELSE IF Has(ms, Params) /\ Member(ms, Params)[1] # "array" THEN <<"error", -12, id>>
        ELSE IF ~Has(ms, Method) \/ Member(ms, Method)[2] \notin Methods
          THEN <<"error", -11, id>>
        ELSE <<"call", Member(ms, Method)[2],
               IF Has(ms, Params) THEN Member(ms, Params)[2] ELSE <<>>, id>>
  BY DEF CallOf
<1> DEFINE c == CallOf(ms)
<1>5. c # <<"page">>
  BY <1>1, <1>2, <1>4
<1>6. c = <<"gone">> => \E name \in {Jsonrpc, Method} : Has(ms, name)
        /\ Member(ms, name)[1] # "string"
  BY <1>1, <1>2, <1>4
<1> HIDE DEF c, ms, value, id
<1>7. QED
  BY <1>1, <1>3, <1>5, <1>6 DEF c, ms, value

(* Every answer in JSON that handle_request gives, to any body, is an object *)
(* with the id of the request and either a result or an error, unless what   *)
(* is printed for a double in that id cannot be read; and it gives none only *)
(* to what it cannot read, to null, and to a version or a method of another  *)
(* type.                                                                     *)
THEOREM RepliesMatch == FormatsSpec => []RepliesMatchRequests
PROOF
<1>1. FormatsInv => RepliesMatchRequests
  <2> DEFINE value == Parse(request)
             id == RequestId(value)
             back == AsRead[id]
             answer == Parse(reply[2])
  <2>1. SUFFICES ASSUME RpcInv, reply # None
                 PROVE  /\ reply[1] = "json" =>
                              IF back = Throws THEN answer = Throws
                              ELSE /\ answer # Throws /\ answer[1] = "object"
                                   /\ {answer[2][k][1] : k \in DOMAIN answer[2]}
                                         \in {{Id, Jsonrpc, Result}, {Id, Jsonrpc, Error}}
                                   /\ Member(answer[2], Id) = back
                        /\ reply = <<"page">> => request = <<>> \/ value = Null
                        /\ reply = <<"gone">> =>
                              \/ value = Throws
                              \/ /\ value[1] = "object"
                                 /\ \E name \in {Jsonrpc, Method} :
                                       Has(value[2], name)
                                         /\ Member(value[2], name)[1] # "string"
    BY DEF RepliesMatchRequests, FormatsInv
  <2>2. RequestFits /\ ReplyFits
    BY <2>1 DEF RpcInv, Fresh
  <2>3. ContentFits(request) /\ Answered
    BY <2>1, <2>2, RequestRead DEF ReplyFits
  <2>4. CASE Refused
    <3>1. reply = ContentOf(request) /\ reply[1] # "json"
      <4>1. <<"gone">>[1] # "json" /\ <<"page">>[1] # "json"
        OBVIOUS
      <4>2. QED
        BY <2>4, <4>1 DEF Refused
    <3>2. QED
      BY <3>1, NoContent
  <2>5. CASE ~Refused
    <3>1. PICK body : FailsWith(body) \/ ReturnsIn(body)
      BY <2>3, <2>5, ReplyRead
    <3> HIDE DEF value
    <3>2. /\ ReplyReads(reply, body, id)
          /\ {body[k][1] : k \in DOMAIN body}
               \in {{Id, Jsonrpc, Result}, {Id, Jsonrpc, Error}}
      BY <3>1 DEF FailsWith, ReturnsIn, value
    <3> HIDE DEF id
    <3>3. /\ reply[1] = "json"
          /\ back = Throws => answer = Throws
          /\ back # Throws => answer = Object(body)
          /\ Object(body) # Throws /\ Object(body)[1] = "object" /\ Object(body)[2] = body
      BY <3>2, ReplyIsJson
    <3>4. Member(body, Id) = back
      BY <3>2 DEF ReplyReads
    <3>5. reply \notin {<<"page">>, <<"gone">>}
      <4>1. <<"gone">>[1] # "json" /\ <<"page">>[1] # "json"
        OBVIOUS
      <4>2. QED
        BY <3>3, <4>1
    <3> HIDE DEF back, answer
    <3>6. QED
      BY <3>2, <3>3, <3>4, <3>5
  <2>6. QED
    BY <2>4, <2>5
<1>2. QED
  BY <1>1, FormatsInvariant, PTL

(* RpcClient::batch_call never gives results, and of its calls the node runs *)
(* the first at most, with its parameters.                                   *)
THEOREM BatchRunsFirst == FormatsSpec => []BatchRunsFirstCallOnly
PROOF
<1>1. FormatsInv => BatchRunsFirstCallOnly
  <2>1. SUFFICES ASSUME RpcInv, batch, outcome # None
                 PROVE  /\ outcome # <<"results">>
                        /\ asked = <<>> => handled = None
                        /\ asked # <<>> =>
                              /\ outcome = <<"false">>
                              /\ handled \in {None, <<asked[1][1], AsReadAll(asked[1][2])>>}
    BY DEF BatchRunsFirstCallOnly, FormatsInv
  <2>2. /\ reply # None /\ outcome = OutcomeOfReply
        /\ RequestFits /\ ReplyFits
    BY <2>1 DEF RpcInv, Fresh, OutcomeFits
  <2>0. <<"thrown">> # <<"results">> /\ <<"false">> # <<"results">>
    OBVIOUS
  <2>3. CASE asked = <<>>
    <3>1. ContentFits(request) /\ Answered /\ ContentOf(request) = <<"page">>
      BY <2>1, <2>2, <2>3, RequestRead DEF ReplyFits
    <3>2. <<"page">>[1] = "page" /\ "page" # "call" /\ "page" # "error" /\ "page" # "gone"
            /\ "page" # "json"
      OBVIOUS
    <3>3. reply = <<"page">> /\ handled = None
      BY <3>1, <3>2 DEF Answered
    <3>4. OutcomeOfReply = <<"thrown">>
      BY <3>2, <3>3 DEF OutcomeOfReply
    <3>5. QED
      BY <2>0, <2>2, <2>3, <3>3, <3>4
  <2>4. CASE asked # <<>>
    <3>1. PICK body : FailsWith(body) \/ ReturnsIn(body)
      BY <2>1, <2>2, <2>4, CallsAnswered
    <3>2. /\ reply[1] = "json" /\ Parse(reply[2]) = Object(body) /\ Object(body) # Throws
          /\ Object(body)[1] = "object"
      BY <2>1, <2>2, <2>4, <3>1, CallsAnswered, ReplyIsJson DEF FailsWith, ReturnsIn
    <3>3. "json" # "gone" /\ "object" # "array"
      OBVIOUS
    <3>4. OutcomeOfReply = BatchOutcomeOf(Object(body))
      BY <2>1, <3>2, <3>3 DEF OutcomeOfReply
    <3>5. OutcomeOfReply = <<"false">>
      BY <3>2, <3>3, <3>4 DEF BatchOutcomeOf
    <3>6. handled \in {None, <<asked[1][1], AsReadAll(asked[1][2])>>}
      BY <2>1, <2>2, <2>4, CallsAnswered
    <3>7. QED
      BY <2>0, <2>2, <2>4, <3>5, <3>6
  <2>5. QED
    BY <2>3, <2>4
<1>2. QED
  BY <1>1, FormatsInvariant, PTL

(* The handler of submitblock in main.cpp reads the block that the miner has *)
(* built, to the last byte of the text.                                      *)
THEOREM BlocksAreSubmitted == FormatsSpec => []SubmittedBlocksArrive
PROOF
<1>1. FormatsInv => SubmittedBlocksArrive
  <2> DEFINE text == HexText(BlockBytes(submitted))
  <2>1. SUFFICES ASSUME RpcInv, SubmittedFits, submitted # None, handled # None
                 PROVE  LET raw == Unhex(handled[2][1][2])
                        IN  ReadBlock(raw) = <<submitted, Len(raw) + 1>>
    BY DEF SubmittedBlocksArrive, FormatsInv
  <2>2. submitted \in BlockData /\ asked = <<<<SubmitBlock, <<String(text)>>>>>>
    BY <2>1, FormatsAssumption DEF SubmittedFits
  <2>3. text \in Bytes
    BY <2>2, BlockIsRead, HexIsRead
  <2> HIDE DEF text
  <2>4. /\ asked # <<>> /\ asked[1][1] = SubmitBlock /\ asked[1][2] = <<String(text)>>
    BY <2>2
  <2>5. reply # None
    <3>1. RequestFits /\ Answered
      BY <2>1 DEF RpcInv, Fresh, ReplyFits
    <3>2. QED
      BY <3>1, RequestRead, AnsweredIsSomething
  <2>6. handled = <<SubmitBlock, AsReadAll(<<String(text)>>)>>
    BY <2>1, <2>4, <2>5, CallsAnswered, FormatsAssumption
  <2>7. AsReadAll(<<String(text)>>)[1] = String(text)
    BY <2>3, StringsAreFlat DEF AsReadAll
  <2>8. handled[2][1][2] = text
    BY <2>6, <2>7 DEF String
  <2>9. QED
    BY <2>2, <2>8, BlocksArrive DEF text
<1>2. QED
  BY <1>1, FormatsInvariant, PTL
=============================================================================
