---------------------------- MODULE FoldProofs ----------------------------
(***************************************************************************)
(* Lemmas about folds and concatenation.  FoldLeft() and FlattenSeq() of   *)
(* the community modules are functions defined by recursion, the first     *)
(* over sets of positions; that there is one, and what it is for the first *)
(* positions of a sequence, needs an induction, which is carried out here  *)
(* by way of a first counterexample.                                       *)
(***************************************************************************)
EXTENDS Integers, SequencesExt, SequenceTheorems, WellFoundedInduction, TLAPS

-----------------------------------------------------------------------------
(* First and last positions.                                               *)

\* Every nonempty set of positions has a first one.
LEMMA FirstOne ==
  ASSUME NEW S \in SUBSET Nat, S # {}
  PROVE  Min(S) \in S /\ \A k \in S : Min(S) <= k
<1>1. IsWellFoundedOn(OpToRel(<, Nat), Nat)
  BY NatLessThanWellFounded
<1>2. \E m \in S : \A k \in S : <<k, m>> \notin OpToRel(<, Nat)
  BY <1>1, WFMin
<1>3. \E m \in S : \A k \in S : ~ (k < m)
  BY <1>2 DEF OpToRel
<1>4. \E m \in S : \A k \in S : m <= k
  BY <1>3
<1> QED
  BY <1>4 DEF Min


\* Every nonempty set of positions up to n has a last one.
LEMMA LastOne ==
  ASSUME NEW n \in Nat, NEW S \in SUBSET (1 .. n), S # {}
  PROVE  Max(S) \in S /\ \A k \in S : k <= Max(S)
<1> DEFINE bounds == {m \in Nat : \A k \in S : k <= m}
<1>1. n \in bounds
  OBVIOUS
<1>2. PICK m : m = Min(bounds)
  OBVIOUS
<1>3. m \in bounds /\ \A k \in bounds : m <= k
  <2>1. bounds \in SUBSET Nat /\ bounds # {}
    BY <1>1
  <2> HIDE DEF bounds
  <2> QED
    BY <1>2, <2>1, FirstOne
<1>4. m \in Nat /\ \A k \in S : k <= m
  BY <1>3
<1>5. m # 0
  <2>1. PICK k \in S : k \in 1 .. n
    OBVIOUS
  <2>2. k <= m
    BY <1>4
  <2> QED
    BY <2>1, <2>2
<1>6. m - 1 \in Nat /\ ~ (m <= m - 1)
  BY <1>4, <1>5
<1>7. m - 1 \notin bounds
  BY <1>3, <1>6
<1>8. PICK k \in S : ~ (k <= m - 1)
  BY <1>6, <1>7
<1>9. k = m
  <2>1. k \in Nat /\ k <= m
    BY <1>4
  <2> QED
    BY <1>4, <1>8, <2>1
<1>10. \E x \in S : \A y \in S : x >= y
  BY <1>4, <1>9
<1>11. Max(S) \in S /\ \A y \in S : Max(S) >= y
  BY <1>10 DEF Max
<1> QED
  BY <1>11

\* What holds of 0 and is handed on from each position to the next one, up to z,
\* holds of all of them.
LEMMA UpTo ==
  ASSUME NEW z \in Nat, NEW good \in SUBSET Nat, 0 \in good,
         \A k \in good : k < z => k + 1 \in good
  PROVE  0 .. z \subseteq good
<1> DEFINE bad == {k \in 0 .. z : k \notin good}
<1> SUFFICES ASSUME bad # {} PROVE FALSE
  OBVIOUS
<1>1. PICK m : m = Min(bad)
  OBVIOUS
<1>2. m \in bad /\ \A k \in bad : m <= k
  <2>1. bad \in SUBSET Nat
    OBVIOUS
  <2> HIDE DEF bad
  <2> QED
    BY <1>1, <2>1, FirstOne
<1>3. m \in 0 .. z /\ m \notin good /\ m # 0
  BY <1>2
<1>4. PICK k \in Nat : m = k + 1
  <2>1. m - 1 \in Nat /\ m = (m - 1) + 1
    BY <1>3
  <2> QED
    BY <2>1
<1>5. k \in 0 .. z /\ k < z /\ ~ (m <= k)
  BY <1>3, <1>4
<1>6. k \in good
  BY <1>2, <1>5
<1> QED
  BY <1>3, <1>4, <1>5, <1>6

-----------------------------------------------------------------------------
(* FoldLeft()                                                              *)

\* What folding the sequence q from base with step, a function of the result so
\* far and the next element, computes for every set of positions in D.
IsFold(f, step, base, q, D) ==
  f = [s \in SUBSET D |-> IF s = {} THEN base
                           ELSE step[f[s \ {Max(s)}]][q[Max(s)]]]

\* There is such a function, whose values are results.
LEMMA FoldIs ==
  ASSUME NEW R, NEW C, NEW step \in [R -> [C -> R]], NEW base \in R, NEW q \in Seq(C)
  PROVE  \E f \in [SUBSET (1 .. Len(q)) -> R] : IsFold(f, step, base, q, 1 .. Len(q))
<1>1. PICK z \in Nat : z = Len(q)
  BY LenProperties
<1> DEFINE Has(k) == \E f \in [SUBSET (1 .. k) -> R] : IsFold(f, step, base, q, 1 .. k)
<1>2. Has(0)
  <2> DEFINE f == [s \in SUBSET (1 .. 0) |-> base]
  <2>1. \A s \in SUBSET (1 .. 0) : s = {}
    OBVIOUS
  <2>2. f \in [SUBSET (1 .. 0) -> R] /\ \A s \in SUBSET (1 .. 0) : f[s] = base
    OBVIOUS
  <2> HIDE DEF f
  <2>3. IsFold(f, step, base, q, 1 .. 0)
    BY <2>1, <2>2 DEF IsFold
  <2> QED
    BY <2>2, <2>3
<1>3. ASSUME NEW k \in Nat, k + 1 <= z, Has(k)
      PROVE  Has(k + 1)
  <2>1. PICK f \in [SUBSET (1 .. k) -> R] : IsFold(f, step, base, q, 1 .. k)
    BY <1>3
  <2> DEFINE g == [s \in SUBSET (1 .. k + 1) |->
                     IF s = {} THEN base ELSE step[f[s \ {Max(s)}]][q[Max(s)]]]
  <2>2. ASSUME NEW s \in SUBSET (1 .. k + 1), s # {}
        PROVE  /\ Max(s) \in s /\ s \ {Max(s)} \in SUBSET (1 .. k)
               /\ q[Max(s)] \in C
    <3>1. PICK m : m = Max(s)
      OBVIOUS
    <3>2. m \in s /\ \A i \in s : i <= m
      <4>1. k + 1 \in Nat
        OBVIOUS
      <4> QED
        BY <2>2, <3>1, <4>1, LastOne
    <3>3. m \in 1 .. k + 1
      BY <3>2
    <3>4. \A i \in s \ {m} : i \in 1 .. k
      BY <3>2, <3>3
    <3>5. m \in 1 .. Len(q)
      BY <1>1, <1>3, <3>3
    <3>6. q[m] \in C
      BY <3>5, ElementOfSeq
    <3> QED
      BY <3>1, <3>2, <3>4, <3>6
  <2>3. g \in [SUBSET (1 .. k + 1) -> R]
    <3>1. ASSUME NEW s \in SUBSET (1 .. k + 1), s # {}
          PROVE  step[f[s \ {Max(s)}]][q[Max(s)]] \in R
      <4>1. f[s \ {Max(s)}] \in R /\ q[Max(s)] \in C
        BY <2>2, <3>1
      <4> QED
        BY SMTT(30), <4>1
    <3> QED
      BY <3>1
  <2>4. \A s \in SUBSET (1 .. k) : f[s] = g[s]
    <3> TAKE s \in SUBSET (1 .. k)
    <3>1. s \in SUBSET (1 .. k + 1)
      OBVIOUS
    <3>2. f[s] = IF s = {} THEN base ELSE step[f[s \ {Max(s)}]][q[Max(s)]]
      BY <2>1 DEF IsFold
    <3> QED
      BY <3>1, <3>2
  <2>5. \A s \in SUBSET (1 .. k + 1) :
          g[s] = IF s = {} THEN base ELSE step[g[s \ {Max(s)}]][q[Max(s)]]
    <3> TAKE s \in SUBSET (1 .. k + 1)
    <3>1. CASE s = {}
      BY <3>1
    <3>2. CASE s # {}
      <4>1. f[s \ {Max(s)}] = g[s \ {Max(s)}]
        BY <2>2, <2>4, <3>2
      <4>2. g[s] = step[f[s \ {Max(s)}]][q[Max(s)]]
        BY <3>2
      <4> HIDE DEF g
      <4> QED
        BY <3>2, <4>1, <4>2
    <3> QED
      BY <3>1, <3>2
  <2> HIDE DEF g
  <2>6. g = [s \in SUBSET (1 .. k + 1) |->
               IF s = {} THEN base ELSE step[g[s \ {Max(s)}]][q[Max(s)]]]
    BY <2>3, <2>5
  <2>7. IsFold(g, step, base, q, 1 .. k + 1)
    BY <2>6 DEF IsFold
  <2> QED
    BY <2>3, <2>7
<1> DEFINE good == {k \in Nat : k <= z => Has(k)}
<1> HIDE DEF Has
<1>4. 0 .. z \subseteq good
  <2>1. good \in SUBSET Nat /\ 0 \in good
    BY <1>2
  <2>2. \A k \in good : k < z => k + 1 \in good
    BY <1>3
  <2> HIDE DEF good
  <2> QED
    BY <2>1, <2>2, UpTo
<1>5. z \in good
  <2> HIDE DEF good
  <2>1. z \in 0 .. z
    OBVIOUS
  <2> QED
    BY <1>4, <2>1
<1>6. Has(z)
  BY <1>5
<1> QED
  BY <1>1, <1>6 DEF Has

\* The last of the first positions, and the ones in front of it: the fold of the
\* first k + 1 elements is one step from that of the first k.
LEMMA FirstPositions ==
  ASSUME NEW k \in Nat
  PROVE  /\ 1 .. k + 1 # {} /\ Max(1 .. k + 1) = k + 1
         /\ (1 .. k + 1) \ {k + 1} = 1 .. k
<1>1. PICK s : s = 1 .. k + 1
  OBVIOUS
<1>2. k + 1 \in Nat /\ s \in SUBSET (1 .. k + 1) /\ k + 1 \in s /\ s # {}
  BY <1>1
<1>3. PICK m : m = Max(s)
  OBVIOUS
<1>4. m \in s /\ \A i \in s : i <= m
  BY <1>2, <1>3, LastOne
<1>5. m = k + 1
  <2>1. k + 1 <= m
    BY <1>2, <1>4
  <2>2. m \in 1 .. k + 1
    BY <1>1, <1>4
  <2> QED
    BY <1>2, <2>1, <2>2
<1>6. s \ {k + 1} = 1 .. k
  BY <1>1
<1> QED
  BY <1>1, <1>2, <1>3, <1>5, <1>6

-----------------------------------------------------------------------------
(* Concatenation.                                                          *)

\* An element at the end of the second sequence is one at the end of both.
LEMMA AppendBehind ==
  ASSUME NEW S, NEW s \in Seq(S), NEW t \in Seq(S), NEW e \in S
  PROVE  s \o Append(t, e) = Append(s \o t, e)
<1>1. Append(t, e) = t \o <<e>> /\ Append(s \o t, e) = (s \o t) \o <<e>>
  BY ConcatProperties, AppendIsConcat
<1>2. <<e>> \in Seq(S)
  OBVIOUS
<1> QED
  BY <1>1, <1>2, ConcatAssociative

-----------------------------------------------------------------------------
(* Joining a sequence of sequences.                                        *)

\* What the first i of n sequences amount to.
Joins(f, q, n) == f = [i \in 1 .. n |-> IF i = 1 THEN q[i] ELSE f[i - 1] \o q[i]]

Agree(f, g, z) == \A i \in 1 .. z : f[i] = g[i]

\* Two such functions agree as far as the sequences do.
LEMMA JoinsAgree ==
  ASSUME NEW f, NEW g, NEW q, NEW r, NEW m \in Nat, NEW n \in Nat, Joins(f, q, m), Joins(g, r, n),
         NEW z \in Nat, z <= m, z <= n, Agree(q, r, z)
  PROVE  Agree(f, g, z)
<1>1. \A i \in 1 .. m : f[i] = IF i = 1 THEN q[i] ELSE f[i - 1] \o q[i]
  BY DEF Joins
<1>2. \A i \in 1 .. n : g[i] = IF i = 1 THEN r[i] ELSE g[i - 1] \o r[i]
  BY DEF Joins
<1> DEFINE good == {k \in Nat : k \in 1 .. z => f[k] = g[k]}
<1>3. 0 .. z \subseteq good
  <2>1. good \in SUBSET Nat /\ 0 \in good
    OBVIOUS
  <2>2. \A k \in good : k < z => k + 1 \in good
    <3> SUFFICES ASSUME NEW k \in Nat, k \in 1 .. z => f[k] = g[k], k < z
                 PROVE  f[k + 1] = g[k + 1]
      OBVIOUS
    <3>1. PICK j \in 1 .. z : j = k + 1 /\ j - 1 = k
      OBVIOUS
    <3>2. j \in 1 .. m /\ j \in 1 .. n /\ q[j] = r[j]
      BY DEF Agree
    <3>3. CASE k = 0
      BY <1>1, <1>2, <3>1, <3>2, <3>3
    <3>4. CASE k # 0
      <4>1. f[k] = g[k]
        BY <3>4
      <4>2. j # 1
        BY <3>1, <3>4
      <4>3. f[j] = f[j - 1] \o q[j]
        BY <1>1, <3>2, <4>2
      <4>4. g[j] = g[j - 1] \o r[j]
        BY <1>2, <3>2, <4>2
      <4> QED
        BY ONLY <3>1, <3>2, <4>1, <4>3, <4>4
    <3> QED
      BY <3>3, <3>4
  <2> HIDE DEF good
  <2> QED
    BY <2>1, <2>2, UpTo
<1> QED
  BY <1>3 DEF Agree

\* There is one, whose values are sequences.
LEMMA JoinsThere ==
  ASSUME NEW S, NEW q \in Seq(Seq(S))
  PROVE  \E f \in [1 .. Len(q) -> Seq(S)] : Joins(f, q, Len(q))
<1>1. PICK z \in Nat : z = Len(q)
  BY LenProperties
<1> DEFINE Has(k) == \E f \in [1 .. k -> Seq(S)] : Joins(f, q, k)
<1>2. Has(0)
  <2> DEFINE f == [i \in 1 .. 0 |-> <<>>]
  <2>1. f \in [1 .. 0 -> Seq(S)]
    OBVIOUS
  <2>2. f = [i \in 1 .. 0 |-> IF i = 1 THEN q[i] ELSE f[i - 1] \o q[i]]
    OBVIOUS
  <2> HIDE DEF f
  <2> QED
    BY <2>1, <2>2 DEF Joins
<1>3. ASSUME NEW k \in Nat, k < z, Has(k)
      PROVE  Has(k + 1)
  <2>1. PICK f \in [1 .. k -> Seq(S)] : Joins(f, q, k)
    BY <1>3
  <2>2. \A i \in 1 .. k : f[i] = IF i = 1 THEN q[i] ELSE f[i - 1] \o q[i]
    BY <2>1 DEF Joins
  <2>3. PICK j \in Nat : j = k + 1
    OBVIOUS
  <2>4. q[j] \in Seq(S)
    <3>1. j \in 1 .. Len(q)
      BY <1>1, <1>3, <2>3
    <3> QED
      BY <3>1, ElementOfSeq
  <2>5. PICK last : last = IF j = 1 THEN q[j] ELSE f[k] \o q[j]
    OBVIOUS
  <2>6. last \in Seq(S)
    <3>1. CASE j = 1
      BY <2>4, <2>5, <3>1
    <3>2. CASE j # 1
      <4>1. f[k] \in Seq(S)
        BY <2>1, <2>3, <3>2
      <4>2. f[k] \o q[j] \in Seq(S)
        BY <2>4, <4>1, ConcatProperties
      <4> QED
        BY <2>5, <3>2, <4>2
    <3> QED
      BY <3>1, <3>2
  <2>7. PICK g : g = [i \in 1 .. j |-> IF i = j THEN last ELSE f[i]]
    OBVIOUS
  <2>8. g \in [1 .. j -> Seq(S)]
    BY <2>3, <2>6, <2>7
  <2>9. ASSUME NEW i \in 1 .. j
        PROVE  g[i] = IF i = 1 THEN q[i] ELSE g[i - 1] \o q[i]
    <3>1. i - 1 = k <=> i = j
      BY <2>3
    <3>2. i # 1 => i - 1 \in 1 .. k /\ g[i - 1] = f[i - 1]
      BY <2>3, <2>7
    <3>3. CASE i = j
      BY <2>5, <2>7, <3>1, <3>2, <3>3
    <3>4. CASE i # j
      <4>1. i \in 1 .. k
        BY <2>3, <3>4
      <4>2. g[i] = f[i]
        BY <2>7, <3>4
      <4> QED
        BY <2>2, <3>2, <4>1, <4>2
    <3> QED
      BY <3>3, <3>4
  <2>10. Joins(g, q, j)
    BY <2>8, <2>9 DEF Joins
  <2> QED
    BY <2>3, <2>8, <2>10
<1> DEFINE good == {k \in Nat : k <= z => Has(k)}
<1> HIDE DEF Has
<1>4. 0 .. z \subseteq good
  <2>1. good \in SUBSET Nat /\ 0 \in good
    BY <1>2
  <2>2. \A k \in good : k < z => k + 1 \in good
    BY <1>3
  <2> HIDE DEF good
  <2> QED
    BY <2>1, <2>2, UpTo
<1>5. z \in good
  <2> HIDE DEF good
  <2>1. z \in 0 .. z
    OBVIOUS
  <2> QED
    BY <1>4, <2>1
<1>6. Has(z)
  BY <1>5
<1> QED
  BY <1>1, <1>6 DEF Has

LEMMA FlattenNothing == FlattenSeq(<<>>) = <<>>
BY DEF FlattenSeq

\* FlattenSeq() is what all sequences amount to.
LEMMA FlattenJoins ==
  ASSUME NEW S, NEW q \in Seq(Seq(S)), q # <<>>,
         NEW f \in [1 .. Len(q) -> Seq(S)], Joins(f, q, Len(q))
  PROVE  FlattenSeq(q) = f[Len(q)]
<1>1. PICK z \in Nat : z = Len(q) /\ z # 0
  BY LenProperties, EmptySeq
<1>2. PICK g : g = CHOOSE h : h = [i \in 1 .. Len(q) |->
                                      IF i = 1 THEN q[i] ELSE h[i - 1] \o q[i]]
  OBVIOUS
<1>3. FlattenSeq(q) = g[z]
  BY <1>1, <1>2 DEF FlattenSeq
<1>4. Joins(g, q, Len(q))
  BY <1>2 DEF Joins
<1>5. Agree(f, g, z)
  <2>1. Joins(f, q, z) /\ Joins(g, q, z) /\ z <= z
    BY <1>1, <1>4
  <2>2. Agree(q, q, z)
    BY DEF Agree
  <2> QED
    BY ONLY <2>1, <2>2, JoinsAgree, z \in Nat
<1>6. z \in 1 .. z
  BY <1>1
<1> QED
  BY <1>1, <1>3, <1>5, <1>6 DEF Agree

\* One sequence more.
LEMMA FlattenAppend ==
  ASSUME NEW S, NEW q \in Seq(Seq(S)), NEW e \in Seq(S)
  PROVE  /\ FlattenSeq(q) \in Seq(S)
         /\ FlattenSeq(Append(q, e)) = FlattenSeq(q) \o e
<1>1. PICK z \in Nat : z = Len(q)
  BY LenProperties
<1>0. PICK r : r = Append(q, e)
  OBVIOUS
<1>2. /\ r \in Seq(Seq(S)) /\ Len(r) = z + 1 /\ r # <<>>
      /\ \A i \in 1 .. z : r[i] = q[i]
      /\ r[z + 1] = e
  BY <1>0, <1>1, AppendProperties
<1>3. PICK g \in [1 .. Len(r) -> Seq(S)] : Joins(g, r, Len(r))
  BY <1>2, JoinsThere
<1>4. PICK y \in Nat : y = z + 1 /\ y - 1 = z /\ y \in 1 .. Len(r)
  BY <1>2
<1>5. FlattenSeq(r) = g[y]
  BY <1>2, <1>3, <1>4, FlattenJoins
<1>6. g[y] = IF y = 1 THEN e ELSE g[z] \o e
  BY <1>2, <1>3, <1>4 DEF Joins
<1>7. CASE q = <<>>
  <2>1. FlattenSeq(q) = <<>> /\ z = 0
    BY <1>1, <1>7, FlattenNothing, EmptySeq
  <2>2. <<>> \o e = e /\ <<>> \in Seq(S)
    BY EmptySeq, ConcatEmptySeq
  <2> QED
    BY <1>0, <1>4, <1>5, <1>6, <2>1, <2>2
<1>8. CASE q # <<>>
  <2>1. PICK f \in [1 .. Len(q) -> Seq(S)] : Joins(f, q, Len(q))
    BY JoinsThere
  <2>2. z # 0 /\ z \in 1 .. z
    BY <1>1, <1>8, EmptySeq
  <2>3. FlattenSeq(q) = f[z]
    BY <1>1, <1>8, <2>1, FlattenJoins
  <2>4. f[z] \in Seq(S)
    BY <1>1, <2>1, <2>2
  <2>5. /\ Joins(f, q, z) /\ Joins(g, r, y) /\ z <= z /\ z <= y
        /\ Agree(q, r, z)
    BY <1>1, <1>2, <1>3, <1>4, <2>1 DEF Agree
  <2>6. Agree(f, g, z)
    BY ONLY <2>5, JoinsAgree, z \in Nat, y \in Nat
  <2>7. g[y] = f[z] \o e
    <3>1. y # 1
      BY <1>4, <2>2
    <3>2. g[z] = f[z]
      BY <2>2, <2>6 DEF Agree
    <3> QED
      BY ONLY <1>6, <3>1, <3>2
  <2> QED
    BY <1>0, <1>5, <2>3, <2>4, <2>7
<1> QED
  BY <1>7, <1>8
=============================================================================
