----------------------------- MODULE DataLemmas -----------------------------
(***************************************************************************)
(* Facts about numbers, finite sets and sequences that several of the      *)
(* proofs need: least elements, induction over the natural numbers, and    *)
(* the results of Min, SetToSeq and FlattenSeq.                            *)
(***************************************************************************)
EXTENDS Integers, Sequences, FiniteSetsExt, SequencesExt, FunctionTheorems,
        FiniteSetTheorems, SequenceTheorems, WellFoundedInduction, TLAPS

(* A set of natural numbers that is not empty has a least element.         *)
LEMMA LeastNatural ==
    ASSUME NEW T, T \subseteq Nat, T # {}
    PROVE  \E x \in T : \A y \in T : x <= y
<1> DEFINE R == OpToRel(<, Nat)
<1>1. IsWellFoundedOn(R, Nat)
  BY NatLessThanWellFounded
<1>2. \A x, y \in Nat : <<y, x>> \in R <=> y < x
  BY DEF OpToRel
<1> HIDE DEF R
<1>3. PICK x \in T : \A y \in T : ~(<<y, x>> \in R)
  BY <1>1, WFMin
<1>4. \A y \in T : ~(y < x)
  BY <1>2, <1>3
<1>5. \A y \in T : x <= y
  BY <1>4
<1> QED BY <1>5

(* Min picks that element.                                                 *)
LEMMA MinIsLeast ==
    ASSUME NEW T, T \subseteq Nat, T # {}
    PROVE  Min(T) \in T /\ \A y \in T : Min(T) <= y
<1>1. \E x \in T : \A y \in T : x <= y
  BY LeastNatural
<1> QED BY <1>1 DEF Min

(* Max picks the greatest element, where there is a bound.                 *)
LEMMA MaxIsGreatest ==
    ASSUME NEW T, T \subseteq Nat, T # {}, NEW b \in Nat, \A y \in T : y <= b
    PROVE  Max(T) \in T /\ \A y \in T : y <= Max(T)
<1> DEFINE U == {b - y : y \in T}
<1>1. U \subseteq Nat /\ U # {}
  <2>1. ASSUME NEW y \in T PROVE b - y \in Nat
    <3>1. y \in Nat /\ y <= b
      OBVIOUS
    <3> QED BY <3>1
  <2> QED BY <2>1
<1>2. PICK u \in U : \A v \in U : u <= v
  <2> HIDE DEF U
  <2> QED BY <1>1, LeastNatural
<1>3. PICK x \in T : u = b - x
  OBVIOUS
<1>4. ASSUME NEW y \in T PROVE x >= y
  <2>1. b - x <= b - y
    BY <1>2, <1>3
  <2> QED BY <2>1
<1>5. \E z \in T : \A y \in T : z >= y
  BY <1>4
<1>6. Max(T) \in T /\ \A y \in T : Max(T) >= y
  BY <1>5 DEF Max
<1> QED BY <1>6

(* Induction, for the set T of the numbers a statement holds of.           *)
LEMMA SetInduction ==
    ASSUME NEW T, 0 \in T, \A n \in Nat : n \in T => n + 1 \in T
    PROVE  Nat \subseteq T
<1> SUFFICES ASSUME Nat \ T # {} PROVE FALSE
  OBVIOUS
<1>1. PICK m \in Nat \ T : \A y \in Nat \ T : m <= y
  BY LeastNatural
<1>2. m # 0 /\ m - 1 \in Nat /\ ~(m <= m - 1) /\ (m - 1) + 1 = m
  BY <1>1
<1>3. m - 1 \in T
  BY <1>1, <1>2
<1> QED BY <1>1, <1>2, <1>3

(* The same up to a bound.                                                 *)
LEMMA BoundedInduction ==
    ASSUME NEW n \in Nat, NEW T, 0 \in T, \A k \in 1 .. n : k - 1 \in T => k \in T
    PROVE  0 .. n \subseteq T
<1> DEFINE U == {m \in Nat : m <= n => m \in T}
<1>1. 0 \in U
  OBVIOUS
<1>2. ASSUME NEW m \in Nat, m \in U PROVE m + 1 \in U
  <2>1. CASE m + 1 <= n
    <3>1. m <= n /\ m + 1 \in 1 .. n /\ (m + 1) - 1 = m
      BY <2>1
    <3>2. m \in T
      BY <1>2, <3>1
    <3> QED BY <3>1, <3>2
  <2>2. CASE ~(m + 1 <= n)
    BY <2>2
  <2> QED BY <2>1, <2>2
<1> HIDE DEF U
<1>3. Nat \subseteq U
  BY <1>1, <1>2, SetInduction
<1>4. ASSUME NEW k \in 0 .. n PROVE k \in T
  <2>1. k \in U /\ k <= n
    BY <1>3
  <2> QED BY <2>1 DEF U
<1> QED BY <1>4

(* F gives the k-th step from every value of S; f lists the stages from a. *)
IsStep(F, n, S) == \A k \in 1 .. n, x \in S : F[k][x] \in S

IsIteration(f, n, a, F) == f[0] = a /\ \A k \in 1 .. n : f[k] = F[k][f[k - 1]]

(* A value can be iterated n times: there is a function of the stages.     *)
LEMMA IterationExists ==
    ASSUME NEW n \in Nat, NEW S, NEW a \in S, NEW F, IsStep(F, n, S)
    PROVE  \E f \in [0 .. n -> S] : IsIteration(f, n, a, F)
<1> USE DEF IsStep, IsIteration
<1> DEFINE Upto(m) == \E f \in [0 .. m -> S] :
                         f[0] = a /\ \A k \in 1 .. m : f[k] = F[k][f[k - 1]]
           T == {m \in 0 .. n : Upto(m)}
<1>1. 0 \in T
  <2>1. PICK f \in [0 .. 0 -> S] : f = [k \in 0 .. 0 |-> a]
    OBVIOUS
  <2>2. f[0] = a /\ 1 .. 0 = {}
    BY <2>1
  <2>3. Upto(0)
    BY <2>2
  <2> QED BY <2>3
<1>2. ASSUME NEW k \in 1 .. n, k - 1 \in T PROVE k \in T
  <2>1. k - 1 \in 0 .. n /\ Upto(k - 1)
    BY <1>2
  <2>2. PICK f \in [0 .. (k - 1) -> S] :
           f[0] = a /\ \A j \in 1 .. (k - 1) : f[j] = F[j][f[j - 1]]
    BY <2>1
  <2> DEFINE g == [j \in 0 .. k |-> IF j = k THEN F[k][f[k - 1]] ELSE f[j]]
  <2>3. f[k - 1] \in S
    BY <2>1
  <2>4. F[k][f[k - 1]] \in S
    BY <2>3
  <2>5. g \in [0 .. k -> S]
    BY <2>4
  <2>6. g[0] = a
    BY <2>2
  <2>7. ASSUME NEW j \in 1 .. k PROVE g[j] = F[j][g[j - 1]]
    <3>1. g[j - 1] = f[j - 1]
      OBVIOUS
    <3>2. CASE j = k
      BY <3>1, <3>2
    <3>3. CASE j # k
      <4>1. j \in 1 .. (k - 1) /\ g[j] = f[j]
        BY <3>3
      <4> QED BY <2>2, <3>1, <4>1
    <3> QED BY <3>2, <3>3
  <2> HIDE DEF g
  <2>8. Upto(k)
    BY <2>5, <2>6, <2>7
  <2> QED BY <2>8
<1> HIDE DEF T
<1>3. 0 .. n \subseteq T
  BY <1>1, <1>2, BoundedInduction
<1>4. n \in T
  BY <1>3
<1> QED BY <1>4 DEF T

(* There are n indices in 1 .. n.                                          *)
LEMMA IndexCount ==
    ASSUME NEW n \in Nat
    PROVE  IsFiniteSet(1 .. n) /\ Cardinality(1 .. n) = n
<1>1. 1 \in Int /\ n \in Int
  OBVIOUS
<1>2. /\ IsFiniteSet(1 .. n)
      /\ Cardinality(1 .. n) = IF 1 > n THEN 0 ELSE n - 1 + 1
  BY <1>1, FS_Interval, Zenon
<1>3. (IF 1 > n THEN 0 ELSE n - 1 + 1) = n
  OBVIOUS
<1> QED BY <1>2, <1>3

(* A function on 1 .. n is a sequence, and so are two sequences in a row.   *)
LEMMA FunctionIsSeq ==
    ASSUME NEW S, NEW n \in Nat, NEW f \in [1 .. n -> S]
    PROVE  f \in Seq(S)
OBVIOUS

LEMMA ConcatIsSeq ==
    ASSUME NEW S, NEW a \in Seq(S), NEW b \in Seq(S)
    PROVE  a \o b \in Seq(S)
OBVIOUS

(* SetToSeq enumerates a finite set.                                       *)
LEMMA SetToSeqFacts ==
    ASSUME NEW S, IsFiniteSet(S)
    PROVE  /\ SetToSeq(S) \in Seq(S)
           /\ SetToSeq(S) \in Bijection(1 .. Len(SetToSeq(S)), S)
<1> DEFINE n == Cardinality(S)
<1>1. n \in Nat /\ ExistsBijection(1 .. n, S)
  BY FS_CardinalityType
<1>2. PICK f : f \in Bijection(1 .. n, S)
  BY <1>1, Fun_ExistsBij
<1>3. f \in [1 .. n -> S] /\ IsInjective(f)
  BY <1>2 DEF Bijection, Injection
<1> DEFINE s == SetToSeq(S)
<1>4. s \in [1 .. n -> S] /\ IsInjective(s)
  BY <1>3 DEF SetToSeq
<1> HIDE DEF s
<1>5. s \in Seq(S) /\ Len(s) = n
  BY <1>1, <1>4
<1>6. s \in Injection(1 .. n, S)
  BY <1>4 DEF Injection
<1>7. s \in Surjection(1 .. n, S)
  <2>1. Cardinality(1 .. n) = Cardinality(S)
    BY <1>1, IndexCount
  <2> QED BY <1>6, <2>1, FS_Injection
<1> QED BY <1>5, <1>6, <1>7 DEF s, Bijection

(* f lists what FlattenSeq has after each of the sequences.                *)
IsFlattening(f, seqs) ==
    /\ \A i \in 1 .. Len(seqs) : f[i] = IF i = 1 THEN seqs[i] ELSE f[i - 1] \o seqs[i]
    /\ Len(seqs) # 0 => FlattenSeq(seqs) = f[Len(seqs)]

LEMMA FlattenSeqStages ==
    ASSUME NEW S, NEW seqs \in Seq(Seq(S))
    PROVE  \E f : IsFlattening(f, seqs)
<1> DEFINE n == Len(seqs)
           Step(f, m) == [i \in 1 .. m |-> IF i = 1 THEN seqs[i] ELSE f[i - 1] \o seqs[i]]
           Exists(m) == \E f : f = Step(f, m)
           T == {m \in Nat : m <= n => Exists(m)}
<1>1. n \in Nat /\ \A i \in 1 .. n : seqs[i] \in Seq(S)
  OBVIOUS
<1>2. 0 \in T
  <2>1. <<>> = Step(<<>>, 0)
    BY 1 .. 0 = {}
  <2> QED BY <2>1
<1>3. ASSUME NEW m \in Nat, m \in T PROVE m + 1 \in T
  <2> SUFFICES ASSUME m + 1 <= n PROVE Exists(m + 1)
    <3> HIDE DEF Exists
    <3> QED OBVIOUS
  <2>0. Exists(m)
    <3> HIDE DEF Exists
    <3> QED BY <1>1, <1>3
  <2>1. PICK g : g = Step(g, m)
    BY <2>0
  <2> DEFINE h == [i \in 1 .. m + 1 |-> IF i = m + 1
                                        THEN IF i = 1 THEN seqs[i] ELSE g[m] \o seqs[i]
                                        ELSE g[i]]
  <2>2. \A i \in 1 .. m + 1 : h[i] = IF i = 1 THEN seqs[i] ELSE h[i - 1] \o seqs[i]
    <3> TAKE i \in 1 .. m + 1
    <3>1. CASE i = m + 1
      BY <3>1
    <3>2. CASE i \in 1 .. m
      <4>1. h[i] = g[i] /\ (i # 1 => h[i - 1] = g[i - 1])
        BY <3>2
      <4>2. g[i] = IF i = 1 THEN seqs[i] ELSE g[i - 1] \o seqs[i]
        <5> HIDE DEF h
        <5> QED BY <2>1, <3>2, Zenon
      <4> HIDE DEF h
      <4> QED BY <4>1, <4>2
    <3> QED BY <3>1, <3>2
  <2>3. h = [i \in 1 .. m + 1 |-> h[i]]
    OBVIOUS
  <2> HIDE DEF h
  <2>4. h = Step(h, m + 1)
    BY <2>2, <2>3
  <2> QED BY <2>4
<1>4. \E f : f = Step(f, n)
  <2> HIDE DEF T
  <2>1. Nat \subseteq T
    BY <1>2, <1>3, SetInduction
  <2>2. n \in T
    BY <1>1, <2>1
  <2>3. Exists(n)
    <3> HIDE DEF Exists
    <3> QED BY <1>1, <2>2 DEF T
  <2> QED BY <2>3
<1> DEFINE flat == CHOOSE f : f = Step(f, n)
<1>5. flat = Step(flat, n)
  BY <1>4
<1>6. n # 0 => FlattenSeq(seqs) = flat[n]
  BY DEF FlattenSeq
<1> HIDE DEF flat
<1>7. \A i \in 1 .. n : flat[i] = IF i = 1 THEN seqs[i] ELSE flat[i - 1] \o seqs[i]
  BY <1>5, Zenon
<1> QED BY <1>6, <1>7 DEF IsFlattening

(* What FlattenSeq makes of sequences of elements of S is one.             *)
LEMMA FlattenSeqType ==
    ASSUME NEW S, NEW seqs \in Seq(Seq(S))
    PROVE  FlattenSeq(seqs) \in Seq(S)
<1> DEFINE n == Len(seqs)
<1>1. n \in Nat /\ \A i \in 1 .. n : seqs[i] \in Seq(S)
  OBVIOUS
<1>2. PICK flat : IsFlattening(flat, seqs)
  BY FlattenSeqStages
<1>6. n # 0 => FlattenSeq(seqs) = flat[n]
  BY <1>2 DEF IsFlattening
<1>7. \A i \in 1 .. n : flat[i] = IF i = 1 THEN seqs[i] ELSE flat[i - 1] \o seqs[i]
  BY <1>2 DEF IsFlattening
<1> DEFINE U == {m \in Nat : m \in 1 .. n => flat[m] \in Seq(S)}
<1>8. 0 \in U
  OBVIOUS
<1>9. ASSUME NEW m \in Nat, m \in U PROVE m + 1 \in U
  <2> SUFFICES ASSUME m + 1 \in 1 .. n PROVE flat[m + 1] \in Seq(S)
    OBVIOUS
  <2>1. seqs[m + 1] \in Seq(S)
    BY <1>1
  <2>2. CASE m = 0
    BY <1>7, <2>1, <2>2
  <2>3. CASE m # 0
    <3>1. m \in 1 .. n /\ m + 1 # 1 /\ (m + 1) - 1 = m
      BY <1>1, <2>3
    <3>2. flat[m] \in Seq(S)
      BY <1>9, <3>1
    <3>3. flat[m + 1] = flat[m] \o seqs[m + 1]
      BY <1>7, <3>1
    <3> QED BY <2>1, <3>2, <3>3
  <2> QED BY <2>2, <2>3
<1>10. n \in U
  <2> HIDE DEF U
  <2> QED BY <1>1, <1>8, <1>9, SetInduction
<1>11. CASE n = 0
  <2>1. seqs = <<>>
    BY <1>11
  <2>2. FlattenSeq(seqs) = seqs
    BY <1>11 DEF FlattenSeq
  <2>3. <<>> \in Seq(S)
    OBVIOUS
  <2> QED BY ONLY <2>1, <2>2, <2>3
<1>12. CASE n # 0
  BY <1>1, <1>6, <1>10, <1>12
<1> QED BY <1>11, <1>12

-----------------------------------------------------------------------------
(* How many of the first k entries, and of all entries, of q are in S.     *)
CountTo(q, k, S) == Cardinality({j \in 1 .. k : q[j] \in S})

CountAll(q, S) == CountTo(q, Len(q), S)

LEMMA CountFacts ==
    ASSUME NEW q, NEW S, NEW k \in Nat
    PROVE  /\ CountTo(q, k, S) \in Nat
           /\ CountTo(q, 0, S) = 0
           /\ CountTo(q, k + 1, S) = CountTo(q, k, S) + IF q[k + 1] \in S THEN 1 ELSE 0
           /\ \A i \in 0 .. k : CountTo(q, i, S) <= CountTo(q, k, S)
<1> DEFINE J(i) == {j \in 1 .. i : q[j] \in S}
<1>1. \A i \in Nat : IsFiniteSet(J(i)) /\ Cardinality(J(i)) \in Nat
  <2> TAKE i \in Nat
  <2>1. IsFiniteSet(1 .. i) /\ J(i) \in SUBSET (1 .. i)
    BY IndexCount
  <2> HIDE DEF J
  <2> QED BY <2>1, FS_Subset, FS_CardinalityType
<1>2. J(0) = {}
  OBVIOUS
<1>3. J(k + 1) = IF q[k + 1] \in S THEN J(k) \cup {k + 1} ELSE J(k)
  OBVIOUS
<1>4. k + 1 \notin J(k)
  OBVIOUS
<1>5. \A i \in 0 .. k : i \in Nat /\ J(i) \in SUBSET J(k)
  OBVIOUS
<1> HIDE DEF J
<1>6. Cardinality(J(k) \cup {k + 1}) = Cardinality(J(k)) + 1
  BY <1>1, <1>4, FS_AddElement
<1>7. \A i \in 0 .. k : Cardinality(J(i)) <= Cardinality(J(k))
  BY <1>1, <1>5, FS_Subset
<1>8. /\ Cardinality(J(k)) \in Nat /\ Cardinality(J(0)) = 0
      /\ Cardinality(J(k + 1)) = Cardinality(J(k)) + IF q[k + 1] \in S THEN 1 ELSE 0
  BY <1>1, <1>2, <1>3, <1>6, FS_EmptySet
<1> QED BY <1>7, <1>8 DEF CountTo, J

LEMMA CountStep ==
    ASSUME NEW q, NEW S, NEW k \in Nat \ {0}
    PROVE  CountTo(q, k, S) = CountTo(q, k - 1, S) + IF q[k] \in S THEN 1 ELSE 0
<1> DEFINE j == k - 1
<1>1. j \in Nat /\ k = j + 1
  OBVIOUS
<1> HIDE DEF j
<1>2. CountTo(q, j + 1, S) = CountTo(q, j, S) + IF q[j + 1] \in S THEN 1 ELSE 0
  BY <1>1, CountFacts, Zenon
<1> QED BY <1>1, <1>2 DEF j

(* Counting in two sequences in a row.                                     *)
ConcatCounts(a, b, c, S) ==
    /\ \A k \in 0 .. Len(a) : CountTo(c, k, S) = CountTo(a, k, S)
    /\ \A k \in 0 .. Len(b) : CountTo(c, Len(a) + k, S) = CountAll(a, S) + CountTo(b, k, S)
    /\ CountAll(c, S) = CountAll(a, S) + CountAll(b, S)

LEMMA CountConcat ==
    ASSUME NEW M, NEW a \in Seq(M), NEW b \in Seq(M), NEW S
    PROVE  ConcatCounts(a, b, a \o b, S)
<1> DEFINE c == a \o b
           m == Len(a)
           n == Len(b)
<1>1. /\ m \in Nat /\ n \in Nat /\ Len(c) = m + n
      /\ \A j \in 1 .. m : c[j] = a[j]
      /\ \A j \in 1 .. n : c[m + j] = b[j]
  OBVIOUS
<1> HIDE DEF c, m, n
<1>2. \A k \in 0 .. m : CountTo(c, k, S) = CountTo(a, k, S)
  <2> TAKE k \in 0 .. m
  <2>1. \A j \in 1 .. k : c[j] = a[j]
    BY <1>1
  <2>2. {j \in 1 .. k : c[j] \in S} = {j \in 1 .. k : a[j] \in S}
    BY <2>1
  <2> QED BY <2>2 DEF CountTo
<1> DEFINE T == {k \in 0 .. n : CountTo(c, m + k, S) = CountTo(a, m, S) + CountTo(b, k, S)}
<1>3. 0 \in T
  <2>1. CountTo(c, m, S) = CountTo(a, m, S) /\ CountTo(b, 0, S) = 0
        /\ CountTo(a, m, S) \in Nat
    BY <1>1, <1>2, CountFacts
  <2> QED BY <1>1, <2>1
<1>4. ASSUME NEW k \in 1 .. n, k - 1 \in T PROVE k \in T
  <2>1. CountTo(c, m + (k - 1), S) = CountTo(a, m, S) + CountTo(b, k - 1, S)
    BY <1>4
  <2>2. m + (k - 1) \in Nat /\ (m + k) - 1 = m + (k - 1) /\ m + k \in Nat \ {0}
        /\ k - 1 \in Nat /\ k \in Nat \ {0}
    BY <1>1
  <2> DEFINE one == IF b[k] \in S THEN 1 ELSE 0
  <2>3. CountTo(c, m + k, S) = CountTo(c, m + (k - 1), S) + one
    <3>1. CountTo(c, m + k, S) = CountTo(c, (m + k) - 1, S) + IF c[m + k] \in S THEN 1 ELSE 0
      BY <2>2, CountStep, Zenon
    <3>2. c[m + k] = b[k]
      BY <1>1
    <3> QED BY <2>2, <3>1, <3>2
  <2>4. CountTo(b, k, S) = CountTo(b, k - 1, S) + one
    BY <2>2, CountStep, Zenon
  <2>5. /\ one \in Nat /\ CountTo(a, m, S) \in Nat /\ CountTo(b, k - 1, S) \in Nat
        /\ CountTo(c, m + (k - 1), S) \in Nat
    BY <1>1, <2>2, CountFacts
  <2> HIDE DEF one
  <2>6. CountTo(c, m + k, S) = CountTo(a, m, S) + CountTo(b, k, S)
    BY <2>1, <2>3, <2>4, <2>5
  <2> QED BY <2>6
<1> HIDE DEF T
<1>5. 0 .. n \subseteq T
  BY <1>1, <1>3, <1>4, BoundedInduction
<1>6. \A k \in 0 .. n : CountTo(c, m + k, S) = CountTo(a, m, S) + CountTo(b, k, S)
  BY <1>5 DEF T
<1>7. CountTo(c, Len(c), S) = CountTo(a, m, S) + CountTo(b, n, S)
  BY <1>1, <1>6
<1> QED BY <1>2, <1>6, <1>7 DEF c, m, n, CountAll, ConcatCounts

(* The elements of A that g gives to each of I.                            *)
Graph(I, A, g) == {e \in I \X A : e[2] \in g[e[1]]}

(* The k-th sequence has as many entries in S as g gives to the k-th index. *)
CountsAre(I, A, g, M, seqs, S, ids) ==
    /\ IsFiniteSet(I) /\ IsFiniteSet(A) /\ g \in [I -> SUBSET A]
    /\ seqs \in Seq(Seq(M)) /\ ids \in Bijection(1 .. Len(seqs), I)
    /\ \A k \in 1 .. Len(seqs) : CountAll(seqs[k], S) = Cardinality(g[ids[k]])

(* Then all the sequences in a row have as many as g gives altogether.     *)
LEMMA FlattenCount ==
    ASSUME NEW I, NEW A, NEW g, NEW M, NEW seqs, NEW S, NEW ids,
           CountsAre(I, A, g, M, seqs, S, ids)
    PROVE  CountAll(FlattenSeq(seqs), S) = Cardinality(Graph(I, A, g))
<1>0. /\ IsFiniteSet(I) /\ IsFiniteSet(A) /\ g \in [I -> SUBSET A]
      /\ seqs \in Seq(Seq(M)) /\ ids \in Bijection(1 .. Len(seqs), I)
      /\ \A k \in 1 .. Len(seqs) : CountAll(seqs[k], S) = Cardinality(g[ids[k]])
  BY DEF CountsAre
<1> USE <1>0
<1> DEFINE n == Len(seqs)
           G == {e \in I \X A : e[2] \in g[e[1]]}
           U(k) == {e \in G : \E j \in 1 .. k : e[1] = ids[j]}
           W(k) == {ids[k]} \X g[ids[k]]
<1>1. n \in Nat /\ \A k \in 1 .. n : seqs[k] \in Seq(M)
  OBVIOUS
<1>2. /\ ids \in [1 .. n -> I]
      /\ \A j, k \in 1 .. n : ids[j] = ids[k] => j = k
      /\ \A i \in I : \E k \in 1 .. n : ids[k] = i
  BY DEF Bijection, Injection, Surjection, IsInjective
<1>3. PICK flat : IsFlattening(flat, seqs)
  BY FlattenSeqStages
<1>4. /\ \A k \in 1 .. n : flat[k] = IF k = 1 THEN seqs[k] ELSE flat[k - 1] \o seqs[k]
      /\ n # 0 => FlattenSeq(seqs) = flat[n]
  BY <1>3 DEF IsFlattening
<1>5. \A k : IsFiniteSet(U(k)) /\ Cardinality(U(k)) \in Nat
  <2> TAKE k
  <2>1. IsFiniteSet(I \X A)
    BY FS_Product
  <2>2. U(k) \in SUBSET (I \X A)
    OBVIOUS
  <2> HIDE DEF U
  <2> QED BY <2>1, <2>2, FS_Subset, FS_CardinalityType
<1>6. ASSUME NEW k \in 1 .. n
      PROVE  Cardinality(U(k)) = Cardinality(U(k - 1)) + Cardinality(g[ids[k]])
  <2>0. k \in Nat
    BY <1>1
  <2>1. ids[k] \in I /\ g[ids[k]] \in SUBSET A /\ k \in Nat
    <3> HIDE DEF n
    <3>1. ids[k] \in I
      BY <1>2
    <3> QED BY <2>0, <3>1
  <2>2. U(k) = U(k - 1) \cup W(k)
    <3>1. ASSUME NEW e \in U(k) PROVE e \in U(k - 1) \cup W(k)
      <4>1. PICK j \in 1 .. k : e[1] = ids[j]
        OBVIOUS
      <4>2. CASE j = k
        BY <4>1, <4>2
      <4>3. CASE j # k
        <5>1. j \in 1 .. (k - 1)
          BY <2>1, <4>3
        <5> QED BY <4>1, <5>1
      <4> QED BY <4>2, <4>3
    <3>2. ASSUME NEW e \in U(k - 1) PROVE e \in U(k)
      <4>1. PICK j \in 1 .. (k - 1) : e[1] = ids[j]
        OBVIOUS
      <4>2. j \in 1 .. k
        BY <2>1
      <4> QED BY <4>1, <4>2
    <3>3. ASSUME NEW e \in W(k) PROVE e \in U(k)
      <4>1. k \in 1 .. k
        BY <2>1
      <4>2. e \in I \X A /\ e[1] = ids[k] /\ e[2] \in g[ids[k]]
        BY <2>1
      <4> QED BY <4>1, <4>2
    <3> HIDE DEF U, W
    <3> QED BY <3>1, <3>2, <3>3
  <2>3. U(k - 1) \cap W(k) = {}
    <3> SUFFICES ASSUME NEW e \in U(k - 1), e \in W(k) PROVE FALSE
      OBVIOUS
    <3>1. PICK j \in 1 .. (k - 1) : e[1] = ids[j]
      OBVIOUS
    <3>2. e[1] = ids[k]
      OBVIOUS
    <3>3. j \in 1 .. n /\ j # k
      BY <1>1, <2>1
    <3> QED BY <1>2, <3>1, <3>2, <3>3
  <2>4. IsFiniteSet(W(k)) /\ Cardinality(W(k)) = Cardinality(g[ids[k]])
    <3>1. IsFiniteSet(g[ids[k]]) /\ IsFiniteSet({ids[k]}) /\ Cardinality({ids[k]}) = 1
      BY <2>1, FS_Subset, FS_Singleton
    <3>2. Cardinality(g[ids[k]]) \in Nat
      BY <3>1, FS_CardinalityType
    <3> DEFINE one == {ids[k]}
               X == g[ids[k]]
    <3>3. IsFiniteSet(one \X X) /\ Cardinality(one \X X) = Cardinality(one) * Cardinality(X)
      <4> HIDE DEF one, X
      <4>1. IsFiniteSet(one) /\ IsFiniteSet(X)
        BY <3>1 DEF one, X
      <4> QED BY ONLY <4>1, FS_Product, Zenon
    <3> QED BY <3>1, <3>2, <3>3
  <2> HIDE DEF U, W
  <2>5. Cardinality(W(k)) \in Nat
    BY <2>4, FS_CardinalityType
  <2>6. Cardinality(U(k - 1) \cup W(k))
           = Cardinality(U(k - 1)) + Cardinality(W(k)) - Cardinality(U(k - 1) \cap W(k))
    BY <1>5, <2>4, FS_Union
  <2>7. Cardinality(U(k - 1) \cap W(k)) = 0
    BY <2>3, FS_EmptySet
  <2> QED BY <1>5, <2>2, <2>4, <2>5, <2>6, <2>7
<1>7. Cardinality(U(0)) = 0
  <2>1. U(0) = {}
    OBVIOUS
  <2> QED BY <2>1, FS_EmptySet
<1>8. U(n) = G
  BY <1>2
<1> HIDE DEF U, W, G
<1> DEFINE Good(k) == flat[k] \in Seq(M) /\ CountAll(flat[k], S) = Cardinality(U(k))
           T == {k \in 0 .. n : k # 0 => Good(k)}
<1>9. 0 \in T
  BY <1>1
<1>10. ASSUME NEW k \in 1 .. n, k - 1 \in T PROVE k \in T
  <2>1. seqs[k] \in Seq(M) /\ CountAll(seqs[k], S) = Cardinality(g[ids[k]])
    BY <1>1
  <2>2. Cardinality(U(k)) = Cardinality(U(k - 1)) + CountAll(seqs[k], S)
    BY <1>6, <2>1
  <2>3. CountAll(seqs[k], S) \in Nat
    <3>1. Len(seqs[k]) \in Nat
      BY <2>1
    <3> QED BY <3>1, CountFacts DEF CountAll
  <2>4. CASE k = 1
    <3>1. flat[k] = seqs[k] /\ k - 1 = 0
      BY <1>4, <2>4
    <3> HIDE DEF n
    <3>2. Good(k)
      BY <1>7, <2>1, <2>2, <2>3, <3>1
    <3> QED BY <3>2
  <2>5. CASE k # 1
    <3>1. k - 1 # 0 /\ k - 1 \in 0 .. n
      BY <1>1, <2>5
    <3>2. Good(k - 1)
      BY <1>10, <3>1
    <3>3. flat[k] = flat[k - 1] \o seqs[k]
      BY <1>4, <2>5
    <3>4. CountAll(flat[k - 1] \o seqs[k], S) = CountAll(flat[k - 1], S) + CountAll(seqs[k], S)
      BY <2>1, <3>2, CountConcat DEF ConcatCounts
    <3>5. Good(k)
      BY <2>1, <2>2, <3>2, <3>3, <3>4, ConcatIsSeq, Zenon
    <3> QED BY <3>5
  <2> QED BY <2>4, <2>5
<1> HIDE DEF T, Good, n
<1>11. 0 .. n \subseteq T
  BY <1>1, <1>9, <1>10, BoundedInduction
<1>12. CASE n # 0
  <2>1. n \in T
    BY <1>1, <1>11
  <2>2. Good(n)
    BY <1>12, <2>1 DEF T
  <2> QED BY <1>4, <1>8, <1>12, <2>2 DEF Good, G, Graph
<1>13. CASE n = 0
  <2>1. FlattenSeq(seqs) = seqs
    BY <1>13 DEF FlattenSeq, n
  <2>2. CountAll(seqs, S) = 0
    BY <1>13, CountFacts DEF CountAll, n
  <2> QED BY <1>7, <1>8, <1>13, <2>1, <2>2 DEF G, Graph
<1> QED BY <1>12, <1>13

(* A first entry counts for itself.                                        *)
LEMMA CountCons ==
    ASSUME NEW M, NEW h \in M, NEW q \in Seq(M), NEW S
    PROVE  /\ \A k \in 0 .. Len(q) :
                 CountTo(<<h>> \o q, 1 + k, S) = (IF h \in S THEN 1 ELSE 0) + CountTo(q, k, S)
           /\ CountAll(<<h>> \o q, S) = (IF h \in S THEN 1 ELSE 0) + CountAll(q, S)
<1> DEFINE one == <<h>>
<1>1. one \in Seq(M) /\ Len(one) = 1 /\ one[1] = h
  OBVIOUS
<1> HIDE DEF one
<1>2. CountAll(one, S) = IF h \in S THEN 1 ELSE 0
  <2>1. CountTo(one, 0, S) = 0 /\ CountTo(one, 0 + 1, S) = CountTo(one, 0, S)
                                     + IF one[0 + 1] \in S THEN 1 ELSE 0
    BY CountFacts, Zenon
  <2> QED BY <1>1, <2>1 DEF CountAll
<1>3. /\ \A k \in 0 .. Len(q) : CountTo(one \o q, Len(one) + k, S) = CountAll(one, S) + CountTo(q, k, S)
      /\ CountAll(one \o q, S) = CountAll(one, S) + CountAll(q, S)
  <2>1. ConcatCounts(one, q, one \o q, S)
    BY <1>1, CountConcat
  <2> QED BY <2>1 DEF ConcatCounts
<1> QED BY <1>1, <1>2, <1>3 DEF one

(* An entry outside S can be left out.                                     *)
LEMMA CountWithout ==
    ASSUME NEW M, NEW a \in Seq(M), NEW h \in M, NEW b \in Seq(M), NEW S, h \notin S
    PROVE  /\ \A k \in 0 .. Len(a) :
                 CountTo(a \o (<<h>> \o b), k, S) = CountTo(a \o b, k, S)
           /\ \A k \in 0 .. Len(b) :
                 CountTo(a \o (<<h>> \o b), Len(a) + (1 + k), S) = CountTo(a \o b, Len(a) + k, S)
           /\ CountAll(a \o (<<h>> \o b), S) = CountAll(a \o b, S)
<1> DEFINE c == <<h>> \o b
<1>1. c \in Seq(M) /\ Len(c) = Len(b) + 1 /\ Len(b) \in Nat
  OBVIOUS
<1>2. /\ \A k \in 0 .. Len(b) : CountTo(c, 1 + k, S) = 0 + CountTo(b, k, S)
      /\ CountAll(c, S) = 0 + CountAll(b, S)
  BY CountCons
<1> HIDE DEF c
<1>3. /\ \A k \in 0 .. Len(b) : CountTo(b, k, S) \in Nat
      /\ CountAll(b, S) \in Nat
  <2>1. \A k \in Nat : CountTo(b, k, S) \in Nat
    BY CountFacts
  <2> QED BY <1>1, <2>1 DEF CountAll
<1>4. ConcatCounts(a, b, a \o b, S)
  BY CountConcat
<1>5. ConcatCounts(a, c, a \o c, S)
  BY <1>1, CountConcat
<1>6. ASSUME NEW k \in 0 .. Len(b)
      PROVE  CountTo(a \o c, Len(a) + (1 + k), S) = CountTo(a \o b, Len(a) + k, S)
  <2>1. 1 + k \in 0 .. Len(c)
    BY <1>1
  <2>2. CountTo(a \o c, Len(a) + (1 + k), S) = CountAll(a, S) + CountTo(c, 1 + k, S)
    BY <1>5, <2>1 DEF ConcatCounts
  <2>3. CountTo(c, 1 + k, S) = CountTo(b, k, S)
    BY <1>2, <1>3
  <2> QED BY <1>4, <2>2, <2>3 DEF ConcatCounts
<1>7. CountAll(a \o c, S) = CountAll(a \o b, S)
  BY <1>2, <1>3, <1>4, <1>5 DEF ConcatCounts
<1> QED BY <1>4, <1>5, <1>6, <1>7 DEF c, ConcatCounts

(* Entries in S that stand for the elements of X, in any order.            *)
LEMMA CountImage ==
    ASSUME NEW A, IsFiniteSet(A), NEW X \in SUBSET A, NEW q, NEW S,
           NEW s \in Bijection(1 .. Len(q), A),
           \A k \in 1 .. Len(q) : q[k] \in S <=> s[k] \in X
    PROVE  CountAll(q, S) = Cardinality(X)
<1> DEFINE J == {k \in 1 .. Len(q) : q[k] \in S}
           f == [k \in J |-> s[k]]
<1>1. /\ s \in [1 .. Len(q) -> A]
      /\ \A j, k \in 1 .. Len(q) : s[j] = s[k] => j = k
      /\ \A a \in A : \E k \in 1 .. Len(q) : s[k] = a
  BY DEF Bijection, Injection, Surjection, IsInjective
<1>2. J \subseteq 1 .. Len(q) /\ \A k \in J : s[k] \in X
  OBVIOUS
<1>3. \A a \in X : \E k \in J : s[k] = a
  BY <1>1
<1>4. \A j, k \in J : f[j] = s[j] /\ f[k] = s[k] /\ (s[j] = s[k] => j = k)
  BY <1>1
<1> HIDE DEF J
<1>5. f \in Bijection(J, X)
  <2>1. f \in [J -> X] /\ DOMAIN f = J
    BY <1>2
  <2>2. \A a \in X : \E k \in J : f[k] = a
    BY <1>3
  <2> QED BY <1>4, <2>1, <2>2 DEF Bijection, Injection, Surjection, IsInjective
<1>6. IsFiniteSet(X)
  BY FS_Subset
<1>7. IsFiniteSet(J) /\ Cardinality(J) = Cardinality(X)
  <2>1. f \in Injection(J, X) /\ f \in Surjection(J, X)
    BY <1>5 DEF Bijection
  <2> QED BY <1>6, <2>1, FS_Injection
<1> QED BY <1>7 DEF CountAll, CountTo, J
=============================================================================
