---------------------------- MODULE Found_proofs ----------------------------
(***************************************************************************)
(* Proofs about the parts that find documents: that nothing the retrievers *)
(* found is lost - the search of the corpus, the inventory of a subject,   *)
(* the circulars that relate to one - and that a crawl captures its        *)
(* listing (Documents).  Each part is proved of its own steps;             *)
(* Documents_proofs composes them.                                         *)
(***************************************************************************)
EXTENDS Drawn_proofs

-----------------------------------------------------------------------------
(***************************************************************************)
(* The pieces of a sequence of sequences are put one behind the other.     *)
(***************************************************************************)
Flat(q) == Citing!FlattenSeq(q)
\* g is what has been put together after each piece.
Laid(g, q) == g[0] = <<>> /\ \A k \in 1..Len(q) : g[k] = g[k - 1] \o q[k]

Lays(g, q, n) == \A k \in 1..n : g[k] = g[k - 1] \o q[k]

\* What is put together piece by piece is one sequence.
LEMMA LaidOnce ==
  ASSUME NEW n \in Nat, NEW q, NEW g, NEW h, g[0] = h[0], Lays(g, q, n), Lays(h, q, n)
  PROVE  g[n] = h[n]
<1> DEFINE T == {k \in 0..n : g[k] = h[k]}
<1>1. 0 \in T
  OBVIOUS
<1>2. ASSUME NEW k \in 1..n, k - 1 \in T
      PROVE  k \in T
  <2>1. k \in 0..n /\ g[k - 1] = h[k - 1]
    BY <1>2
  <2>2. g[k] = g[k - 1] \o q[k] /\ h[k] = h[k - 1] \o q[k]
    BY DEF Lays
  <2>3. QED
    BY <2>1, <2>2
<1> HIDE DEF T
<1>3. n \in T
  BY <1>1, <1>2, Throughout
<1>4. QED
  BY <1>3 DEF T

\* The sequence of the pieces is what has been put together after the last of them.
LEMMA FlatIsLaid ==
  ASSUME NEW S, NEW q \in Seq(Seq(S))
  PROVE  \E g \in [0..Len(q) -> Seq(S)] : Laid(g, q) /\ Flat(q) = g[Len(q)]
<1> DEFINE N == Len(q)
           h[i \in 1..N] == IF i = 1 THEN q[i] ELSE h[i - 1] \o q[i]
           b == <<>>
           F == [k \in Nat |-> [s \in Seq(S) |-> IF k \in 1..N THEN s \o q[k] ELSE s]]
<1>1. b \in Seq(S) /\ N \in Nat /\ \A k \in 1..N : q[k] \in Seq(S)
  OBVIOUS
<1>2. F \in [Nat -> [Seq(S) -> Seq(S)]]
  <2>1. ASSUME NEW k \in Nat, NEW s \in Seq(S)
        PROVE  (IF k \in 1..N THEN s \o q[k] ELSE s) \in Seq(S)
    <3>1. CASE k \in 1..N
      <4>1. q[k] \in Seq(S)
        BY <1>1, <3>1
      <4>2. QED
        BY <3>1, <4>1
    <3>2. CASE k \notin 1..N
      BY <3>2
    <3>3. QED
      BY <3>1, <3>2
  <2>2. QED
    BY <2>1
<1> HIDE DEF F
<1>3. PICK g \in [0..N -> Seq(S)] : StepByStep(g, b, F, N)
  <2> HIDE DEF b, N
  <2>1. QED
    BY <1>1, <1>2, Iterates
<1>4. g[0] = <<>> /\ \A k \in 1..N : g[k] = g[k - 1] \o q[k]
  <2>1. ASSUME NEW k \in 1..N
        PROVE  g[k] = g[k - 1] \o q[k]
    <3>1. k \in Nat /\ k - 1 \in 0..N
      BY <1>1
    <3>2. g[k - 1] \in Seq(S)
      BY <3>1
    <3>3. g[k] = F[k][g[k - 1]]
      BY <1>3 DEF StepByStep
    <3>4. QED
      BY <3>1, <3>2, <3>3 DEF F
  <2>2. QED
    BY <1>3, <2>1 DEF StepByStep
<1>5. CASE N = 0
  <2>1. q = <<>> /\ Flat(q) = q
    BY <1>5 DEF Flat, Citing!FlattenSeq
  <2>2. QED
    BY <1>4, <1>5, <2>1 DEF Laid
<1>7. N # 0 => q[1] \in Seq(S) /\ g[1] = <<>> \o q[1]
  <2> SUFFICES ASSUME N # 0
               PROVE  q[1] \in Seq(S) /\ g[1] = <<>> \o q[1]
    OBVIOUS
  <2>1. 1 \in 1..N /\ 1 - 1 = 0
    BY <1>1
  <2>2. g[1] = g[1 - 1] \o q[1]
    BY <1>4, <2>1
  <2>3. QED
    BY <1>1, <1>4, <2>1, <2>2
<1>6. CASE N # 0
  <2> DEFINE f == [i \in 1..N |-> g[i]]
  <2>1. f = [i \in 1..N |-> IF i = 1 THEN q[i] ELSE f[i - 1] \o q[i]]
    <3>1. ASSUME NEW i \in 1..N
          PROVE  f[i] = IF i = 1 THEN q[i] ELSE f[i - 1] \o q[i]
      <4>1. CASE i = 1
        <5>1. q[1] \in Seq(S) /\ g[1] = <<>> \o q[1]
          BY <1>7
        <5>2. QED
          BY <4>1, <5>1
      <4>2. CASE i # 1
        <5>1. i - 1 \in 1..N
          BY <1>1, <4>2
        <5>2. QED
          BY <1>4, <4>2, <5>1
      <4>3. QED
        BY <4>1, <4>2
    <3>2. QED
      BY <3>1
  <2>2. h = [i \in 1..N |-> IF i = 1 THEN q[i] ELSE h[i - 1] \o q[i]]
    <3> HIDE DEF f, N
    <3>1. QED
      BY <2>1
  <2>3. Flat(q) = h[N]
    BY <1>6 DEF Flat, Citing!FlattenSeq
  <2> HIDE DEF h, N
  <2> DEFINE T == {k \in 0..N : k = 0 \/ h[k] = g[k]}
  <2>4. 0 \in T
    BY <1>1
  <2>5. ASSUME NEW k \in 1..N, k - 1 \in T
        PROVE  k \in T
    <3>1. k \in 0..N
      BY <1>1
    <3>2. CASE k = 1
      <4>1. q[1] \in Seq(S) /\ g[1] = <<>> \o q[1] /\ h[1] = q[1]
        BY <1>7, <2>2, <3>2
      <4>2. QED
        BY <3>1, <3>2, <4>1
    <3>3. CASE k # 1
      <4>1. k - 1 # 0 /\ h[k - 1] = g[k - 1]
        BY <1>1, <2>5, <3>3
      <4>2. h[k] = h[k - 1] \o q[k] /\ g[k] = g[k - 1] \o q[k]
        BY <1>4, <2>2, <3>3
      <4>3. QED
        BY <3>1, <4>1, <4>2
    <3>4. QED
      BY <3>2, <3>3
  <2> HIDE DEF T
  <2>6. N \in T
    BY <1>1, <2>4, <2>5, Throughout
  <2>7. h[N] = g[N]
    BY <1>6, <2>6 DEF T
  <2>8. QED
    BY <1>4, <2>3, <2>7 DEF Laid, N
<1>8. QED
  BY <1>5, <1>6

\* What the pieces have in common and putting them together keeps, the whole has.
LEMMA FlatKeeps ==
  ASSUME NEW S, NEW q \in Seq(Seq(S)), NEW T \in SUBSET Seq(S), <<>> \in T,
         \A a, b \in T : a \o b \in T, \A k \in 1..Len(q) : q[k] \in T
  PROVE  Flat(q) \in T
<1>1. PICK g \in [0..Len(q) -> Seq(S)] : Laid(g, q) /\ Flat(q) = g[Len(q)]
  BY FlatIsLaid
<1> DEFINE N == Len(q)
           G == {k \in 0..N : g[k] \in T}
<1>2. N \in Nat
  OBVIOUS
<1>3. 0 \in G
  BY <1>1 DEF Laid
<1>4. ASSUME NEW k \in 1..N, k - 1 \in G
      PROVE  k \in G
  <2>1. g[k] = g[k - 1] \o q[k]
    BY ONLY <1>1, k \in 1..N DEF Laid
  <2>4. q[k] \in T /\ k \in 0..N
    BY <1>2
  <2>2. g[k - 1] \in T
    BY <1>4
  <2>3. QED
    BY <2>1, <2>2, <2>4
<1> HIDE DEF G, N
<1>5. N \in G
  BY <1>2, <1>3, <1>4, Throughout
<1>6. QED
  BY <1>1, <1>5 DEF G, N

\* It is of what the pieces are of.
LEMMA FlatTyped ==
  ASSUME NEW S, NEW q \in Seq(Seq(S))
  PROVE  Flat(q) \in Seq(S)
<1>1. \A a, b \in Seq(S) : a \o b \in Seq(S)
  OBVIOUS
<1>2. \A k \in 1..Len(q) : q[k] \in Seq(S)
  OBVIOUS
<1>3. Seq(S) \in SUBSET Seq(S) /\ <<>> \in Seq(S)
  OBVIOUS
<1>4. QED
  BY ONLY q \in Seq(Seq(S)), <1>1, <1>2, <1>3, FlatKeeps

\* The pieces of two, one behind the other, make what each makes, one behind the other.
LEMMA FlatJoins ==
  ASSUME NEW S, NEW q \in Seq(Seq(S)), NEW r \in Seq(Seq(S))
  PROVE  Flat(q \o r) = Flat(q) \o Flat(r)
<1> DEFINE M == Len(q)
           N == Len(r)
           w == q \o r
<1>1. /\ M \in Nat /\ N \in Nat /\ w \in Seq(Seq(S)) /\ Len(w) = M + N
      /\ \A k \in 1..M : w[k] = q[k]
      /\ \A k \in 1..N : w[M + k] = r[k]
  OBVIOUS
<1>2. PICK g \in [0..M -> Seq(S)] : Laid(g, q) /\ Flat(q) = g[M]
  BY FlatIsLaid
<1>3. PICK h \in [0..N -> Seq(S)] : Laid(h, r) /\ Flat(r) = h[N]
  BY FlatIsLaid
<1> HIDE DEF w
<1>4. PICK f \in [0..Len(w) -> Seq(S)] : Laid(f, w) /\ Flat(w) = f[Len(w)]
  BY ONLY <1>1, FlatIsLaid
<1> HIDE DEF M, N
<1>5. f[M] = g[M]
  <2>1. f[0] = g[0]
    BY <1>2, <1>4 DEF Laid
  <2>2. Lays(g, q, M)
    BY ONLY <1>2 DEF Laid, Lays, M
  <2>3. ASSUME NEW k \in 1..M
        PROVE  f[k] = f[k - 1] \o q[k]
    <3>1. k \in 1..Len(w) /\ w[k] = q[k]
      BY <1>1
    <3>2. f[k] = f[k - 1] \o w[k]
      BY ONLY <1>4, <3>1 DEF Laid
    <3>3. QED
      BY ONLY <3>1, <3>2
  <2>4. Lays(f, q, M)
    BY ONLY <2>3 DEF Lays
  <2>5. QED
    BY <1>1, <2>1, <2>2, <2>4, LaidOnce
<1> DEFINE G == {k \in 0..N : f[M + k] = g[M] \o h[k]}
<1>6. g[M] \in Seq(S) /\ g[M] \o <<>> = g[M] /\ h[0] = <<>>
  <2>1. g[M] \in Seq(S)
    BY <1>1
  <2>2. QED
    BY <1>3, <2>1 DEF Laid
<1>7. 0 \in G
  <2>1. 0 \in 0..N /\ M + 0 = M
    BY <1>1
  <2>2. QED
    BY ONLY <1>5, <1>6, <2>1 DEF G
<1>8. ASSUME NEW k \in 1..N, k - 1 \in G
      PROVE  k \in G
  <2>1. k \in 0..N /\ k - 1 \in 0..N /\ M + k \in 1..(M + N) /\ (M + k) - 1 = M + (k - 1) /\ k \in DOMAIN r
    BY <1>1 DEF N
  <2>2. f[M + k] = f[M + (k - 1)] \o r[k]
    BY <1>1, <1>4, <2>1 DEF Laid
  <2>3. f[M + (k - 1)] = g[M] \o h[k - 1]
    BY <1>8
  <2>4. h[k] = h[k - 1] \o r[k] /\ h[k - 1] \in Seq(S) /\ r[k] \in Seq(S)
    <3>1. h[k] = h[k - 1] \o r[k]
      BY ONLY <1>3, k \in 1..N DEF Laid, N
    <3>2. h[k - 1] \in Seq(S)
      BY ONLY h \in [0..N -> Seq(S)], <2>1
    <3>3. r[k] \in Seq(S)
      BY ONLY r \in Seq(Seq(S)), <2>1
    <3>4. QED
      BY ONLY <3>1, <3>2, <3>3
  <2>5. (g[M] \o h[k - 1]) \o r[k] = g[M] \o (h[k - 1] \o r[k])
    <3> HIDE DEF G
    <3>1. \A x, y, z \in Seq(S) : (x \o y) \o z = x \o (y \o z)
      OBVIOUS
    <3>2. QED
      BY ONLY <1>6, <2>4, <3>1
  <2>6. f[M + k] = g[M] \o h[k]
    BY ONLY <2>2, <2>3, <2>4, <2>5
  <2>7. QED
    BY <2>1, <2>6
<1> HIDE DEF G
<1>9. N \in G
  BY <1>1, <1>7, <1>8, Throughout
<1>10. QED
  <2>1. N \in 0..N /\ f[M + N] = g[M] \o h[N]
    BY <1>9 DEF G
  <2>2. QED
    BY ONLY <1>1, <1>2, <1>3, <1>4, <2>1 DEF w

(***************************************************************************)
(* What is finite, and any two of which are comparable, can be put in      *)
(* order.                                                                  *)
(***************************************************************************)
Total(R, S)      == \A x, y \in S : <<x, y>> \in R \/ <<y, x>> \in R
Transitive(R, S) == \A x, y, z \in S : <<x, y>> \in R /\ <<y, z>> \in R => <<x, z>> \in R
Greater(R, Q, m) == m \in Q /\ \A x \in Q : <<x, m>> \in R

\* s has each of S once, each before what is not less than it.
InOrder(s, R, S, n) ==
  /\ s \in [1..n -> S] /\ \A i, j \in 1..n : s[i] = s[j] => i = j
  /\ \A x \in S : \E i \in 1..n : s[i] = x
  /\ \A i, j \in 1..n : i < j => <<s[i], s[j]>> \in R

\* A finite set that is not empty has a greatest element.
LEMMA GreatestOfFinite ==
  ASSUME NEW S, IsFiniteSet(S), S # {}, NEW R, Total(R, S), Transitive(R, S)
  PROVE  \E m : Greater(R, S, m)
<1> DEFINE N == Cardinality(S)
           T == {n \in 0..N : \A Q \in SUBSET S : Cardinality(Q) = n /\ Q # {} => \E m : Greater(R, Q, m)}
<1>1. N \in Nat
  BY FS_CardinalityType
<1>2. 0 \in T
  <2>1. \A Q \in SUBSET S : Cardinality(Q) = 0 => Q = {}
    BY FS_Subset, FS_EmptySet
  <2>2. QED
    BY <1>1, <2>1
<1>3. ASSUME NEW n \in 1..N, n - 1 \in T
      PROVE  n \in T
  <2> SUFFICES ASSUME NEW Q \in SUBSET S, Cardinality(Q) = n, Q # {}
               PROVE  \E m : Greater(R, Q, m)
    BY <1>1
  <2>1. PICK a \in Q : TRUE
    OBVIOUS
  <2>2. IsFiniteSet(Q)
    BY FS_Subset
  <2>3. Cardinality(Q \ {a}) = n - 1 /\ Q \ {a} \in SUBSET S
    BY <2>1, <2>2, FS_RemoveElement
  <2>4. <<a, a>> \in R
    BY <2>1 DEF Total
  <2>5. CASE Q \ {a} = {}
    <3>1. Q = {a}
      BY <2>1, <2>5
    <3>2. QED
      BY <2>4, <3>1 DEF Greater
  <2>6. CASE Q \ {a} # {}
    <3>1. PICK b : Greater(R, Q \ {a}, b)
      BY <1>3, <2>3, <2>6
    <3>2. b \in S /\ a \in S /\ b \in Q
      BY <2>1, <3>1 DEF Greater
    <3>3. CASE <<a, b>> \in R
      BY <3>1, <3>2, <3>3 DEF Greater
    <3>4. CASE <<b, a>> \in R
      <4>1. ASSUME NEW x \in Q
            PROVE  <<x, a>> \in R
        <5>1. x = a \/ <<x, b>> \in R
          BY <3>1 DEF Greater
        <5>2. QED
          BY <2>4, <3>2, <3>4, <5>1 DEF Transitive
      <4>2. QED
        BY <2>1, <4>1 DEF Greater
    <3>5. QED
      BY <3>2, <3>3, <3>4 DEF Total
  <2>7. QED
    BY <2>5, <2>6
<1>4. N \in T
  <2> HIDE DEF N, T
  <2>1. QED
    BY <1>1, <1>2, <1>3, Throughout
<1>5. QED
  BY <1>4

\* A finite set has an order.
LEMMA PutInOrder ==
  ASSUME NEW S, IsFiniteSet(S), NEW R, Total(R, S), Transitive(R, S)
  PROVE  \E s : InOrder(s, R, S, Cardinality(S))
<1> DEFINE N == Cardinality(S)
           T == {n \in 0..N : \A Q \in SUBSET S : Cardinality(Q) = n => \E s : InOrder(s, R, Q, n)}
<1>1. N \in Nat
  BY FS_CardinalityType
<1>2. 0 \in T
  <2> SUFFICES ASSUME NEW Q \in SUBSET S, Cardinality(Q) = 0
               PROVE  \E s : InOrder(s, R, Q, 0)
    BY <1>1
  <2>1. Q = {}
    BY FS_Subset, FS_EmptySet
  <2>2. InOrder([i \in 1..0 |-> 0], R, Q, 0)
    BY <2>1 DEF InOrder
  <2>3. QED
    BY <2>2
<1>3. ASSUME NEW n \in 1..N, n - 1 \in T
      PROVE  n \in T
  <2> SUFFICES ASSUME NEW Q \in SUBSET S, Cardinality(Q) = n
               PROVE  \E s : InOrder(s, R, Q, n)
    BY <1>1
  <2>1. IsFiniteSet(Q) /\ Q # {} /\ n \in Nat /\ n >= 1
    BY <1>1, FS_Subset, FS_EmptySet
  <2>2. Total(R, Q) /\ Transitive(R, Q)
    BY DEF Total, Transitive
  <2>3. PICK m : Greater(R, Q, m)
    BY <2>1, <2>2, GreatestOfFinite
  <2>4. m \in Q /\ Cardinality(Q \ {m}) = n - 1 /\ Q \ {m} \in SUBSET S
    BY <2>1, <2>3, FS_RemoveElement DEF Greater
  <2>5. PICK r : InOrder(r, R, Q \ {m}, n - 1)
    BY <1>3, <2>4
  <2> DEFINE s == [i \in 1..n |-> IF i = n THEN m ELSE r[i]]
  <2>6. \A i \in 1..n : i = n \/ i \in 1..(n - 1)
    BY <2>1
  <2>7. n \in 1..n /\ \A i \in 1..(n - 1) : i \in 1..n /\ i # n
    BY <2>1
  <2>8. s[n] = m /\ \A i \in 1..(n - 1) : s[i] = r[i] /\ s[i] \in Q \ {m}
    BY <2>5, <2>7 DEF InOrder
  <2>9. s \in [1..n -> Q]
    BY <2>4, <2>5, <2>6 DEF InOrder
  <2> HIDE DEF s
  <2>10. ASSUME NEW i \in 1..n, NEW j \in 1..n, s[i] = s[j]
         PROVE  i = j
    BY <2>5, <2>6, <2>8, <2>10 DEF InOrder
  <2>11. ASSUME NEW x \in Q
         PROVE  \E i \in 1..n : s[i] = x
    BY <2>5, <2>7, <2>8 DEF InOrder
  <2>12. ASSUME NEW i \in 1..n, NEW j \in 1..n, i < j
         PROVE  <<s[i], s[j]>> \in R
    <3>1. i \in 1..(n - 1)
      BY <2>12
    <3>2. CASE j = n
      BY <2>3, <2>8, <3>1, <3>2 DEF Greater
    <3>3. CASE j \in 1..(n - 1)
      BY <2>5, <2>8, <2>12, <3>1, <3>3 DEF InOrder
    <3>4. QED
      BY <2>6, <3>2, <3>3
  <2>13. InOrder(s, R, Q, n)
    BY <2>9, <2>10, <2>11, <2>12 DEF InOrder
  <2>14. QED
    BY <2>13
<1>4. N \in T
  <2> HIDE DEF N, T
  <2>1. QED
    BY <1>1, <1>2, <1>3, Throughout
<1>5. QED
  BY <1>4

(***************************************************************************)
(* What of a sequence is in a set.                                         *)
(***************************************************************************)
Only(s, T) == Searching!Only(s, T)
Has(s, x)  == \E i \in 1..Len(s) : s[i] = x
Once(s)    == \A i, j \in 1..Len(s) : s[i] = s[j] => i = j
\* g is what is kept after each element.
Sifts(g, s, T, n) ==
  g[0] = <<>> /\ \A k \in 1..n : g[k] = IF s[k] \in T THEN Append(g[k - 1], s[k]) ELSE g[k - 1]

\* What is kept is one sequence.
LEMMA SiftedFrom ==
  ASSUME NEW n \in Nat, NEW s, NEW T, NEW g, NEW h, Sifts(g, s, T, n), Sifts(h, s, T, n)
  PROVE  g[n] = h[n]
<1> DEFINE M == {k \in 0..n : g[k] = h[k]}
<1>1. 0 \in M
  BY DEF Sifts
<1>2. ASSUME NEW k \in 1..n, k - 1 \in M
      PROVE  k \in M
  <2>1. k \in 0..n /\ g[k - 1] = h[k - 1]
    BY <1>2
  <2>2. QED
    BY <2>1 DEF Sifts
<1> HIDE DEF M
<1>3. n \in M
  BY <1>1, <1>2, Throughout
<1>4. QED
  BY <1>3 DEF M

\* What of a sequence is in a set is what is kept after its last element.
LEMMA OnlyIsSifted ==
  ASSUME NEW S, NEW s \in Seq(S), NEW T
  PROVE  \E g \in [0..Len(s) -> Seq(S)] : Sifts(g, s, T, Len(s)) /\ Only(s, T) = g[Len(s)]
<1> DEFINE N == Len(s)
           b == <<>>
           F == [k \in Nat |-> [q \in Seq(S) |-> IF k \in 1..N /\ s[k] \in T THEN Append(q, s[k]) ELSE q]]
           only[n \in 0..N] ==
             IF n = 0 THEN <<>> ELSE IF s[n] \in T THEN Append(only[n - 1], s[n]) ELSE only[n - 1]
<1>1. b \in Seq(S) /\ N \in Nat /\ \A k \in 1..N : s[k] \in S
  OBVIOUS
<1>2. F \in [Nat -> [Seq(S) -> Seq(S)]]
  <2>1. ASSUME NEW k \in Nat, NEW q \in Seq(S)
        PROVE  (IF k \in 1..N /\ s[k] \in T THEN Append(q, s[k]) ELSE q) \in Seq(S)
    <3>1. CASE k \in 1..N
      <4>1. s[k] \in S
        BY <1>1, <3>1
      <4>2. Append(q, s[k]) \in Seq(S)
        BY <4>1
      <4>3. QED
        BY <4>2
    <3>2. CASE k \notin 1..N
      BY <3>2
    <3>3. QED
      BY <3>1, <3>2
  <2>2. QED
    BY <2>1
<1> HIDE DEF F
<1>3. PICK g \in [0..N -> Seq(S)] : StepByStep(g, b, F, N)
  <2> HIDE DEF b, N, only
  <2>1. QED
    BY <1>1, <1>2, Iterates
<1>4. g[0] = <<>> /\ \A k \in 1..N : g[k] = IF s[k] \in T THEN Append(g[k - 1], s[k]) ELSE g[k - 1]
  <2> HIDE DEF N, only
  <2>1. ASSUME NEW k \in 1..N
        PROVE  g[k] = IF s[k] \in T THEN Append(g[k - 1], s[k]) ELSE g[k - 1]
    <3>1. k \in Nat /\ k - 1 \in 0..N
      BY <1>1
    <3>2. g[k - 1] \in Seq(S)
      BY <3>1
    <3>3. g[k] = F[k][g[k - 1]]
      BY <1>3 DEF StepByStep
    <3>4. QED
      BY <3>1, <3>2, <3>3 DEF F
  <2>2. QED
    BY <1>3, <2>1 DEF StepByStep
<1>5. g = [n \in 0..N |-> IF n = 0 THEN <<>> ELSE IF s[n] \in T THEN Append(g[n - 1], s[n]) ELSE g[n - 1]]
  <2> HIDE DEF N, only
  <2>1. \A n \in 0..N : n = 0 \/ n \in 1..N
    BY <1>1
  <2>2. QED
    BY <1>4, <2>1
<1>6. only = [n \in 0..N |-> IF n = 0 THEN <<>> ELSE IF s[n] \in T THEN Append(only[n - 1], s[n]) ELSE only[n - 1]]
  <2> HIDE DEF N
  <2>1. QED
    BY <1>5
<1>7. Only(s, T) = only[N]
  BY DEF Only, Searching!Only
<1> HIDE DEF only
<1>8. Sifts(g, s, T, N)
  BY <1>4 DEF Sifts
<1>9. Sifts(only, s, T, N)
  <2> HIDE DEF N
  <2>1. 0 \in 0..N /\ \A n \in 1..N : n \in 0..N /\ n # 0
    BY <1>1
  <2>2. QED
    BY <1>6, <2>1 DEF Sifts
<1>10. g[N] = only[N]
  <2> HIDE DEF N
  <2>1. QED
    BY <1>1, <1>8, <1>9, SiftedFrom
<1>11. QED
  BY <1>7, <1>8, <1>10

\* It has what both have, and nothing twice.
LEMMA OnlyHas ==
  ASSUME NEW S, NEW s \in Seq(S), NEW T
  PROVE  /\ Only(s, T) \in Seq(S)
         /\ \A x : Has(Only(s, T), x) <=> Has(s, x) /\ x \in T
         /\ Once(s) => Once(Only(s, T))
<1>1. PICK g \in [0..Len(s) -> Seq(S)] : Sifts(g, s, T, Len(s)) /\ Only(s, T) = g[Len(s)]
  BY OnlyIsSifted
<1> DEFINE N == Len(s)
           To(x, k) == \E i \in 1..k : s[i] = x
           M == {k \in 0..N : /\ \A x : Has(g[k], x) <=> To(x, k) /\ x \in T
                              /\ Once(s) => Once(g[k])}
<1>2. N \in Nat /\ \A k \in 1..N : s[k] \in S
  OBVIOUS
<1>3. g[0] = <<>> /\ \A k \in 1..N : g[k] = IF s[k] \in T THEN Append(g[k - 1], s[k]) ELSE g[k - 1]
  BY <1>1 DEF Sifts
<1>4. \A k \in 0..N : g[k] \in Seq(S)
  OBVIOUS
<1>5. 0 \in M
  <2>1. \A x : ~Has(g[0], x) /\ ~To(x, 0)
    BY <1>3 DEF Has
  <2>2. Once(g[0])
    BY <1>3 DEF Once
  <2>3. QED
    BY <1>2, <2>1, <2>2
<1>6. ASSUME NEW k \in 1..N, k - 1 \in M
      PROVE  k \in M
  <2>1. k \in 0..N /\ k - 1 \in 0..N /\ k \in Nat /\ s[k] \in S /\ g[k - 1] \in Seq(S)
    BY <1>2, <1>4
  <2>2. \A x : To(x, k) <=> To(x, k - 1) \/ x = s[k]
    <3>1. \A i \in 1..k : i \in 1..(k - 1) \/ i = k
      BY <2>1
    <3>2. k \in 1..k /\ \A i \in 1..(k - 1) : i \in 1..k
      BY <2>1
    <3>3. QED
      BY <3>1, <3>2
  <2>3. (\A x : Has(g[k - 1], x) <=> To(x, k - 1) /\ x \in T) /\ (Once(s) => Once(g[k - 1]))
    BY <1>6
  <2>4. CASE s[k] \notin T
    <3>1. g[k] = g[k - 1]
      BY <1>3, <2>4
    <3> HIDE DEF To, N
    <3>2. \A x : To(x, k) /\ x \in T <=> To(x, k - 1) /\ x \in T
      BY <2>2, <2>4
    <3>3. QED
      BY ONLY <2>1, <2>3, <3>1, <3>2 DEF M
  <2>5. CASE s[k] \in T
    <3> DEFINE q == g[k - 1]
               a == s[k]
    <3>1. g[k] = Append(q, a)
      BY <1>3, <2>5
    <3>2. /\ Len(Append(q, a)) = Len(q) + 1 /\ Len(q) \in Nat
          /\ Append(q, a)[Len(q) + 1] = a /\ \A i \in 1..Len(q) : Append(q, a)[i] = q[i]
      BY ONLY q \in Seq(S), <2>1
    <3> HIDE DEF q, a
    <3>3. \A x : Has(g[k], x) <=> Has(q, x) \/ x = a
      <4>1. \A i \in 1..(Len(q) + 1) : i \in 1..Len(q) \/ i = Len(q) + 1
        BY ONLY <3>2
      <4>2. Len(q) + 1 \in 1..(Len(q) + 1) /\ \A i \in 1..Len(q) : i \in 1..(Len(q) + 1)
        BY ONLY <3>2
      <4>3. QED
        BY ONLY <3>1, <3>2, <4>1, <4>2 DEF Has
    <3>4. \A x : Has(g[k], x) <=> To(x, k) /\ x \in T
      <4> HIDE DEF To
      <4>1. QED
        BY <2>2, <2>3, <2>5, <3>3 DEF q, a
    <3>5. ASSUME Once(s)
          PROVE  Once(g[k])
      <4>1. Once(q) /\ \A i \in 1..Len(q) : q[i] # a
        <5>1. ~To(a, k - 1)
          <6>1. ASSUME NEW i \in 1..(k - 1), s[i] = s[k]
                PROVE  FALSE
            <7>1. i \in 1..N /\ i # k
              BY <1>2, <2>1
            <7>2. QED
              BY <3>5, <6>1, <7>1 DEF Once
          <6>2. QED
            BY <6>1 DEF a
        <5>2. ~Has(q, a)
          <6> HIDE DEF To
          <6>1. QED
            BY <2>3, <5>1 DEF q
        <5>3. QED
          BY <2>3, <3>5, <5>2 DEF q, Has
      <4>2. \A i \in 1..(Len(q) + 1) : i \in 1..Len(q) \/ i = Len(q) + 1
        BY ONLY <3>2
      <4>3. QED
        BY ONLY <3>1, <3>2, <4>1, <4>2 DEF Once
    <3> HIDE DEF To
    <3>6. QED
      BY <2>1, <3>4, <3>5
  <2>6. QED
    BY <2>4, <2>5
<1> HIDE DEF M, N
<1>7. N \in M
  BY <1>2, <1>5, <1>6, Throughout
<1>8. (\A x : Has(g[N], x) <=> To(x, N) /\ x \in T) /\ (Once(s) => Once(g[N]))
  BY <1>7 DEF M
<1>9. g[N] \in Seq(S)
  BY <1>2, <1>4
<1>10. QED
  BY <1>1, <1>8, <1>9 DEF N, Has

Behind(x, z) == Append(x, z)
Both(x, y)   == x \o y

\* To put an element behind two is to put it behind the second.
LEMMA BehindBoth == \A S : \A x, y \in Seq(S), z \in S : Behind(Both(x, y), z) = Both(x, Behind(y, z))
<1> SUFFICES ASSUME NEW S, NEW x \in Seq(S), NEW y \in Seq(S), NEW z \in S
             PROVE  Behind(Both(x, y), z) = Both(x, Behind(y, z))
  OBVIOUS
<1> QED
  BY DEF Behind, Both

\* Of two sequences, one behind the other, it keeps what it keeps of each.
LEMMA OnlyJoins ==
  ASSUME NEW S, NEW s \in Seq(S), NEW r \in Seq(S), NEW T
  PROVE  Only(s \o r, T) = Only(s, T) \o Only(r, T)
<1> DEFINE M == Len(s)
           N == Len(r)
           w == s \o r
<1>1. /\ M \in Nat /\ N \in Nat /\ w \in Seq(S) /\ Len(w) = M + N
      /\ \A k \in 1..M : w[k] = s[k]
      /\ \A k \in 1..N : w[M + k] = r[k] /\ r[k] \in S
  OBVIOUS
<1>2. PICK g \in [0..M -> Seq(S)] : Sifts(g, s, T, M) /\ Only(s, T) = g[M]
  BY OnlyIsSifted
<1>3. PICK h \in [0..N -> Seq(S)] : Sifts(h, r, T, N) /\ Only(r, T) = h[N]
  BY OnlyIsSifted
<1> HIDE DEF w
<1>11. w \in Seq(S)
  BY <1>1
<1>4. PICK f \in [0..Len(w) -> Seq(S)] : Sifts(f, w, T, Len(w)) /\ Only(w, T) = f[Len(w)]
  BY ONLY <1>11, OnlyIsSifted
<1> HIDE DEF M, N
<1>5. f[M] = g[M]
  <2>1. ASSUME NEW k \in 1..M
        PROVE  f[k] = IF s[k] \in T THEN Append(f[k - 1], s[k]) ELSE f[k - 1]
    <3>1. k \in 1..Len(w) /\ w[k] = s[k]
      BY <1>1
    <3>2. QED
      BY ONLY <1>4, <3>1 DEF Sifts
  <2>2. Sifts(f, s, T, M)
    BY ONLY <1>4, <2>1 DEF Sifts
  <2>3. QED
    BY ONLY <1>1, <1>2, <2>2, SiftedFrom
<1> DEFINE G == {k \in 0..N : f[M + k] = g[M] \o h[k]}
<1>6. g[M] \in Seq(S) /\ g[M] \o <<>> = g[M] /\ h[0] = <<>>
  <2>1. g[M] \in Seq(S)
    BY <1>1
  <2>2. QED
    BY <1>3, <2>1 DEF Sifts
<1>7. 0 \in G
  <2>1. 0 \in 0..N /\ M + 0 = M
    BY <1>1
  <2>2. QED
    BY ONLY <1>5, <1>6, <2>1 DEF G
<1>8. ASSUME NEW k \in 1..N, k - 1 \in G
      PROVE  k \in G
  <2>1. k \in 0..N /\ k - 1 \in 0..N /\ M + k \in 1..(M + N) /\ (M + k) - 1 = M + (k - 1)
    BY <1>1
  <2>2. w[M + k] = r[k] /\ r[k] \in S
    BY <1>1
  <2>3. f[M + k] = IF r[k] \in T THEN Append(f[M + (k - 1)], r[k]) ELSE f[M + (k - 1)]
    BY ONLY <1>1, <1>4, <2>1, <2>2 DEF Sifts
  <2>4. f[M + (k - 1)] = g[M] \o h[k - 1]
    BY <1>8
  <2>5. h[k] = IF r[k] \in T THEN Append(h[k - 1], r[k]) ELSE h[k - 1]
    BY ONLY <1>3, k \in 1..N DEF Sifts
  <2>6. h[k - 1] \in Seq(S)
    BY <2>1
  <2>7. Append(g[M] \o h[k - 1], r[k]) = g[M] \o Append(h[k - 1], r[k])
    <3> DEFINE x == g[M]
               y == h[k - 1]
               z == r[k]
    <3>1. x \in Seq(S) /\ y \in Seq(S) /\ z \in S
      BY <1>6, <2>2, <2>6
    <3> HIDE DEF x, y, z
    <3>2. Behind(Both(x, y), z) = Both(x, Behind(y, z))
      BY ONLY <3>1, BehindBoth
    <3>3. QED
      BY ONLY <3>2 DEF x, y, z, Behind, Both
  <2>8. f[M + k] = g[M] \o h[k]
    BY ONLY <2>3, <2>4, <2>5, <2>7
  <2>9. QED
    BY <2>1, <2>8
<1> HIDE DEF G
<1>9. N \in G
  BY <1>1, <1>7, <1>8, Throughout
<1>10. QED
  <2>1. N \in 0..N /\ f[M + N] = g[M] \o h[N]
    BY <1>9 DEF G
  <2>2. QED
    BY ONLY <1>1, <1>2, <1>3, <1>4, <2>1 DEF w

\* What a sequence has is its range.
LEMMA HasIsRange ==
  ASSUME NEW S, NEW s \in Seq(S), NEW x
  PROVE  x \in Searching!Range(s) <=> Has(s, x)
BY DEF Searching!Range, Has

(***************************************************************************)
(* What enumerates a finite set, none of it twice, has all of it.          *)
(***************************************************************************)
LEMMA Enumerates ==
  ASSUME NEW S, IsFiniteSet(S), NEW s \in [1..Cardinality(S) -> S],
         \A i, j \in 1..Cardinality(S) : s[i] = s[j] => i = j
  PROVE  /\ Cardinality(S) \in Nat /\ s \in Seq(S) /\ Len(s) = Cardinality(S) /\ Once(s)
         /\ \A x : Has(s, x) <=> x \in S
<1> DEFINE N == Cardinality(S)
<1>1. N \in Nat
  BY FS_CardinalityType
<1>2. s \in Seq(S) /\ Len(s) = N
  BY <1>1
<1>3. s \in Injection(1..N, S)
  BY DEF Injection, IsInjective
<1>4. Cardinality(1..N) = N
  BY <1>1, FS_Interval
<1>5. s \in Surjection(1..N, S)
  BY <1>3, <1>4, FS_Injection
<1>6. \A x \in S : \E i \in 1..N : s[i] = x
  BY <1>5 DEF Surjection
<1>7. QED
  BY <1>1, <1>2, <1>6 DEF Has, Once

(***************************************************************************)
(* The first of a sequence.                                                *)
(***************************************************************************)
First(s, n) == Searching!First(s, n)

\* The first n of a sequence.
LEMMA FirstIs ==
  ASSUME NEW S, NEW s \in Seq(S), NEW n \in Nat
  PROVE  /\ First(s, n) \in Seq(S) /\ Len(First(s, n)) = IF n < Len(s) THEN n ELSE Len(s)
         /\ \A i \in 1..Len(First(s, n)) : First(s, n)[i] = s[i]
         /\ n >= Len(s) => First(s, n) = s
BY DEF First, Searching!First

Beyond(s, n) == SubSeq(s, n + 1, Len(s))

\* A sequence is its first n, and what is beyond them.
LEMMA FirstThenRest ==
  ASSUME NEW S, NEW s \in Seq(S), NEW n \in Nat
  PROVE  Beyond(s, n) \in Seq(S) /\ s = First(s, n) \o Beyond(s, n)
<1> DEFINE f == First(s, n)
           r == Beyond(s, n)
<1>1. f \in Seq(S) /\ Len(f) = (IF n < Len(s) THEN n ELSE Len(s)) /\ \A i \in 1..Len(f) : f[i] = s[i]
  BY FirstIs
<1>2. r \in Seq(S) /\ Len(r) = (IF n < Len(s) THEN Len(s) - n ELSE 0) /\ \A i \in 1..Len(r) : r[i] = s[n + i]
  BY DEF Beyond
<1> HIDE DEF f, r
<1>8. f \in Seq(S) /\ r \in Seq(S)
  BY <1>1, <1>2
<1>3. Len(s) \in Nat /\ Len(f \o r) = Len(f) + Len(r) /\ f \o r \in Seq(S)
  BY ONLY s \in Seq(S), <1>8
<1>9. Len(f) = (IF n < Len(s) THEN n ELSE Len(s)) /\ Len(r) = (IF n < Len(s) THEN Len(s) - n ELSE 0)
  BY <1>1, <1>2
<1>4. Len(f \o r) = Len(s)
  BY ONLY n \in Nat, <1>3, <1>9
<1>5. ASSUME NEW i \in 1..Len(s)
      PROVE  (f \o r)[i] = s[i]
  <2>1. CASE i \in 1..Len(f)
    <3>1. (f \o r)[i] = f[i]
      BY <1>1, <1>2, <2>1
    <3>2. QED
      BY <1>1, <2>1, <3>1
  <2>2. CASE i \notin 1..Len(f)
    <3>1. n < Len(s) /\ Len(f) = n /\ i - n \in 1..Len(r) /\ n + (i - n) = i
      BY <1>1, <1>2, <1>3, <2>2
    <3>2. (f \o r)[n + (i - n)] = r[i - n]
      BY <1>1, <1>2, <3>1
    <3>3. QED
      BY <1>2, <3>1, <3>2
  <2>3. QED
    BY <2>1, <2>2
<1>6. s = f \o r
  BY ONLY s \in Seq(S), <1>3, <1>4, <1>5, SeqEqual
<1>7. QED
  BY <1>2, <1>6 DEF f, r

\* The first n of two, if the first has as many, are of the first.
LEMMA FirstOfBoth ==
  ASSUME NEW S, NEW x \in Seq(S), NEW y \in Seq(S), NEW n \in Nat, n <= Len(x)
  PROVE  First(x \o y, n) = First(x, n)
<1>1. x \o y \in Seq(S) /\ Len(x \o y) = Len(x) + Len(y) /\ \A i \in 1..Len(x) : (x \o y)[i] = x[i]
  OBVIOUS
<1> DEFINE z == x \o y
           f == First(z, n)
           g == First(x, n)
<1>2. Len(x) \in Nat /\ Len(y) \in Nat
  OBVIOUS
<1>6. z \in Seq(S) /\ Len(z) = Len(x) + Len(y) /\ \A i \in 1..Len(x) : z[i] = x[i]
  BY <1>1
<1> HIDE DEF z
<1>3. /\ f \in Seq(S) /\ Len(f) = (IF n < Len(z) THEN n ELSE Len(z))
      /\ \A i \in 1..Len(f) : f[i] = z[i]
  BY <1>6, FirstIs
<1>4. /\ g \in Seq(S) /\ Len(g) = (IF n < Len(x) THEN n ELSE Len(x))
      /\ \A i \in 1..Len(g) : g[i] = x[i]
  BY FirstIs
<1> HIDE DEF f, g
<1>5. Len(f) = n /\ Len(g) = n
  BY <1>2, <1>3, <1>4, <1>6
<1>7. \A i \in 1..n : f[i] = g[i]
  BY <1>2, <1>3, <1>4, <1>5, <1>6
<1>8. f = g
  BY ONLY <1>3, <1>4, <1>5, <1>7, SeqEqual
<1>9. QED
  BY <1>8 DEF f, g, z

\* To search more of the store would find no nearer chunk of a circular.
LEMMA NearestIsNearest ==
  ASSUME NEW S, NEW store \in Seq(S), Candidates \in Nat, Reach \in Nat
  PROVE  /\ Searching!Nearest(store) = First(Searching!OwnChunks(store), Candidates)
         /\ Searching!Nearest(store) \in Seq(S)
<1> DEFINE wide == First(store, Reach)
           rest == Beyond(store, Reach)
           near == Only(wide, Indexed)
           more == Only(rest, Indexed)
           all  == Only(store, Indexed)
<1>1. wide \in Seq(S) /\ rest \in Seq(S) /\ store = wide \o rest
  BY FirstIs, FirstThenRest
<1>2. Len(wide) < Reach => wide = store
  BY FirstIs
<1> HIDE DEF wide, rest
<1>3. near \in Seq(S) /\ more \in Seq(S) /\ all \in Seq(S)
  BY <1>1, OnlyHas
<1>4. all = near \o more
  BY <1>1, OnlyJoins
<1>5. Searching!OwnChunks(store) = all /\ Searching!OwnChunks(wide) = near
  BY DEF Searching!OwnChunks, Only
<1> HIDE DEF near, more, all
<1>6. Searching!Nearest(store) = IF Len(near) < Candidates /\ Len(wide) >= Reach
                                 THEN First(all, Candidates) ELSE First(near, Candidates)
  BY <1>5 DEF Searching!Nearest, First, wide
<1>7. ASSUME ~(Len(near) < Candidates)
      PROVE  First(near, Candidates) = First(all, Candidates)
  BY <1>3, <1>4, <1>7, FirstOfBoth
<1>8. ASSUME ~(Len(wide) >= Reach)
      PROVE  First(near, Candidates) = First(all, Candidates)
  <2>1. Len(wide) \in Nat
    BY <1>1
  <2>2. wide = store
    BY <1>2, <1>8, <2>1
  <2>3. QED
    BY <2>2 DEF near, all
<1>9. Searching!Nearest(store) = First(all, Candidates)
  BY <1>6, <1>7, <1>8
<1>10. QED
  BY <1>3, <1>5, <1>9, FirstIs

\* What is ranked is of what there is to rank.
LEMMA RankedTyped ==
  ASSUME NEW S, NEW chunks \in Seq(S)
  PROVE  Searching!Ranked(chunks) \in Seq(S)
<1> DEFINE N == Len(chunks)
           b == <<>>
           New(q, k) == IF k \notin 1..N \/ chunks[k] \in Searching!Range(q) THEN q ELSE Append(q, chunks[k])
           F == [k \in Nat |-> [q \in Seq(S) |-> New(q, k)]]
           ranked[n \in 0..N] ==
             IF n = 0 THEN <<>>
             ELSE IF chunks[n] \in Searching!Range(ranked[n - 1]) THEN ranked[n - 1] ELSE Append(ranked[n - 1], chunks[n])
<1>1. b \in Seq(S) /\ N \in Nat /\ \A k \in 1..N : chunks[k] \in S
  OBVIOUS
<1>2. F \in [Nat -> [Seq(S) -> Seq(S)]]
  <2>1. ASSUME NEW k \in Nat, NEW q \in Seq(S)
        PROVE  New(q, k) \in Seq(S)
    <3>1. CASE k \in 1..N
      <4>1. chunks[k] \in S
        BY <1>1, <3>1
      <4>2. Append(q, chunks[k]) \in Seq(S)
        BY <4>1
      <4>3. QED
        BY <4>2
    <3>2. CASE k \notin 1..N
      BY <3>2
    <3>3. QED
      BY <3>1, <3>2
  <2> HIDE DEF New
  <2>2. QED
    BY <2>1
<1> HIDE DEF F
<1>3. PICK g \in [0..N -> Seq(S)] : StepByStep(g, b, F, N)
  <2> HIDE DEF b, N, ranked
  <2>1. QED
    BY <1>1, <1>2, Iterates
<1>4. g = [n \in 0..N |-> IF n = 0 THEN <<>>
             ELSE IF chunks[n] \in Searching!Range(g[n - 1]) THEN g[n - 1] ELSE Append(g[n - 1], chunks[n])]
  <2> HIDE DEF N, ranked
  <2>1. ASSUME NEW k \in 0..N, k # 0
        PROVE  g[k] = IF chunks[k] \in Searching!Range(g[k - 1]) THEN g[k - 1] ELSE Append(g[k - 1], chunks[k])
    <3>1. k \in Nat /\ k \in 1..N /\ k - 1 \in 0..N
      BY <1>1, <2>1
    <3>2. g[k - 1] \in Seq(S)
      BY <3>1
    <3>3. g[k] = F[k][g[k - 1]]
      BY <1>3, <3>1 DEF StepByStep
    <3>4. QED
      BY <3>1, <3>2, <3>3 DEF F
  <2>2. g[0] = <<>>
    BY <1>3 DEF StepByStep
  <2>3. QED
    BY <2>1, <2>2
<1>5. ranked = [n \in 0..N |-> IF n = 0 THEN <<>>
             ELSE IF chunks[n] \in Searching!Range(ranked[n - 1]) THEN ranked[n - 1] ELSE Append(ranked[n - 1], chunks[n])]
  <2> HIDE DEF N
  <2>1. QED
    BY <1>4
<1>6. Searching!Ranked(chunks) = ranked[N]
  BY DEF Searching!Ranked
<1> HIDE DEF ranked, N
<1> DEFINE M == {k \in 0..N : ranked[k] \in Seq(S)}
<1>7. 0 \in M
  BY <1>1, <1>5
<1>8. ASSUME NEW k \in 1..N, k - 1 \in M
      PROVE  k \in M
  <2>1. k \in 0..N /\ k # 0 /\ ranked[k - 1] \in Seq(S) /\ chunks[k] \in S
    BY <1>1, <1>8
  <2>2. ranked[k] = IF chunks[k] \in Searching!Range(ranked[k - 1]) THEN ranked[k - 1] ELSE Append(ranked[k - 1], chunks[k])
    BY <1>5, <2>1
  <2>3. Append(ranked[k - 1], chunks[k]) \in Seq(S)
    BY <2>1
  <2>4. QED
    BY <2>1, <2>2, <2>3
<1> HIDE DEF M
<1>9. N \in M
  BY <1>1, <1>7, <1>8, Throughout
<1>10. QED
  BY <1>6, <1>9 DEF M

\* Two sequences have what either has.
LEMMA HasBoth ==
  ASSUME NEW S, NEW a \in Seq(S), NEW b \in Seq(S), NEW x
  PROVE  Has(a \o b, x) <=> Has(a, x) \/ Has(b, x)
<1> DEFINE w == a \o b
<1>1. /\ Len(a) \in Nat /\ Len(b) \in Nat /\ Len(w) = Len(a) + Len(b)
      /\ \A i \in 1..Len(a) : w[i] = a[i]
      /\ \A i \in 1..Len(b) : w[Len(a) + i] = b[i]
  OBVIOUS
<1> HIDE DEF w
<1>2. ASSUME NEW i \in 1..Len(w), w[i] = x
      PROVE  Has(a, x) \/ Has(b, x)
  <2>1. CASE i \in 1..Len(a)
    BY <1>1, <1>2, <2>1 DEF Has
  <2>2. CASE i \notin 1..Len(a)
    <3>1. i - Len(a) \in 1..Len(b) /\ Len(a) + (i - Len(a)) = i
      BY <1>1, <2>2
    <3>2. QED
      BY <1>1, <1>2, <3>1 DEF Has
  <2>3. QED
    BY <2>1, <2>2
<1>3. ASSUME NEW i \in 1..Len(a)
      PROVE  i \in 1..Len(w) /\ w[i] = a[i]
  BY <1>1
<1>4. ASSUME NEW i \in 1..Len(b)
      PROVE  Len(a) + i \in 1..Len(w) /\ w[Len(a) + i] = b[i]
  BY <1>1
<1>5. QED
  BY <1>2, <1>3, <1>4 DEF Has, w

\* The sequence of the pieces has what one of them has.
LEMMA FlatHas ==
  ASSUME NEW S, NEW q \in Seq(Seq(S)), NEW x
  PROVE  Has(Flat(q), x) <=> \E k \in 1..Len(q) : Has(q[k], x)
<1>1. PICK g \in [0..Len(q) -> Seq(S)] : Laid(g, q) /\ Flat(q) = g[Len(q)]
  BY FlatIsLaid
<1> DEFINE N == Len(q)
           To(k) == \E j \in 1..k : Has(q[j], x)
           M == {k \in 0..N : Has(g[k], x) <=> To(k)}
<1>2. N \in Nat /\ \A k \in 1..N : q[k] \in Seq(S)
  OBVIOUS
<1>3. 0 \in M
  <2>1. ~Has(g[0], x)
    BY <1>1 DEF Laid, Has
  <2>2. ~To(0)
    OBVIOUS
  <2>3. QED
    BY <1>2, <2>1, <2>2
<1>4. ASSUME NEW k \in 1..N, k - 1 \in M
      PROVE  k \in M
  <2>1. k \in 0..N /\ k - 1 \in 0..N /\ k \in Nat
    BY <1>2
  <2>2. g[k] = g[k - 1] \o q[k]
    BY ONLY <1>1, k \in 1..N DEF Laid
  <2>3. g[k - 1] \in Seq(S) /\ q[k] \in Seq(S)
    BY <1>2, <2>1
  <2>4. Has(g[k], x) <=> Has(g[k - 1], x) \/ Has(q[k], x)
    BY ONLY <2>2, <2>3, HasBoth
  <2>5. To(k) <=> To(k - 1) \/ Has(q[k], x)
    <3>1. \A j \in 1..k : j \in 1..(k - 1) \/ j = k
      BY <2>1
    <3>2. k \in 1..k /\ \A j \in 1..(k - 1) : j \in 1..k
      BY <2>1
    <3>3. QED
      BY <3>1, <3>2
  <2> HIDE DEF To
  <2>6. Has(g[k - 1], x) <=> To(k - 1)
    BY <1>4
  <2>7. QED
    BY <2>1, <2>4, <2>5, <2>6
<1> HIDE DEF M, N
<1>5. N \in M
  BY <1>2, <1>3, <1>4, Throughout
<1>6. QED
  BY <1>1, <1>5 DEF M, N

\* A sequence that has only what is in a set is a sequence of that set.
LEMMA OfThose ==
  ASSUME NEW S, NEW s \in Seq(S), NEW T, \A x : Has(s, x) => x \in T
  PROVE  s \in Seq(T)
<1>1. \A i \in 1..Len(s) : s[i] \in T
  BY DEF Has
<1>2. QED
  BY <1>1

\* Sets are counted as the library counts them.
LEMMA Counts == \A S : Searching!Cardinality(S) = Cardinality(S)
  BY DEF Searching!Cardinality, Cardinality

-----------------------------------------------------------------------------
(***************************************************************************)
(* CorpusSearch.  A question, as it stands from the beginning.             *)
(***************************************************************************)
Questions == [kind : {"chat", "page", "order"}, held : SUBSET Indexed, withdrawn : SUBSET Indexed, words : Seq(Indexed),
              store : Seq(Indexed \union {Law}), named : SUBSET Indexed, hits : Seq(Nat), chunks : SUBSET Nat]
Answers   == [done : BOOLEAN, lexical : Seq(Indexed), semantic : Seq(Indexed), named : SUBSET Indexed, pointers : SUBSET Indexed,
              shown : Seq(Indexed), offset : Nat, passages : Seq(Nat)]
IsAsked(q) == /\ q \in Questions /\ q.withdrawn \subseteq q.held
              /\ IsFiniteSet(q.chunks) /\ \A x : Has(q.hits, x) => x \in q.chunks

\* What is near is indexed, and the law, which is in the same store, displaces none of it.
LEMMA SemanticTyped ==
  ASSUME NEW q, IsAsked(q)
  PROVE  Searching!Semantic(q) \in Seq(Indexed) /\ Searching!NearestByFilter(q) = Searching!Semantic(q)
<1> DEFINE S == Indexed \union {Law}
           own == Only(q.store, Indexed)
<1>1. q.store \in Seq(S) /\ Candidates \in Nat /\ Reach \in Nat
  BY SearchAssumption DEF IsAsked, Questions
<1>2. Searching!Nearest(q.store) = First(Searching!OwnChunks(q.store), Candidates)
  BY <1>1, NearestIsNearest
<1>3. Searching!OwnChunks(q.store) = own
  BY DEF Searching!OwnChunks, Only
<1>4. own \in Seq(S) /\ \A x : Has(own, x) => x \in Indexed
  BY <1>1, OnlyHas
<1> HIDE DEF own, S
<1>5. own \in Seq(Indexed)
  BY <1>4, OfThose
<1>6. First(own, Candidates) \in Seq(Indexed)
  BY <1>1, <1>5, FirstIs
<1>7. Searching!Ranked(First(own, Candidates)) \in Seq(Indexed)
  BY <1>6, RankedTyped
<1>8. QED
  BY <1>2, <1>3, <1>7 DEF Searching!Semantic, Searching!NearestByFilter, First

\* What a rank adds to the score of a circular is a number.
LEMMA ShareIsNat ==
  ASSUME NEW S, NEW ranks \in Seq(S), NEW c
  PROVE  Searching!Share(ranks, c) \in Nat
<1>1. CASE ~Searching!Contains(ranks, c)
  BY <1>1 DEF Searching!Share
<1>2. CASE Searching!Contains(ranks, c)
  <2> DEFINE i == CHOOSE i \in DOMAIN ranks : ranks[i] = c
  <2>1. \E j \in DOMAIN ranks : ranks[j] = c
    BY <1>2 DEF Searching!Contains
  <2>2. i \in DOMAIN ranks
    BY <2>1
  <2>3. i \in Nat /\ i >= 1
    BY <2>2
  <2>4. Searching!Share(ranks, c) = (1000000 * 60) \div (60 + i)
    BY <1>2 DEF Searching!Share, Searching!RrfK
  <2> HIDE DEF i
  <2>5. QED
    BY <2>3, <2>4
<1>3. QED
  BY <1>1, <1>2

\* No more circulars are found than are indexed.
LEMMA FoundIsFinite ==
  ASSUME NEW q, IsAsked(q)
  PROVE  /\ Searching!Found(q) \in SUBSET Indexed /\ IsFiniteSet(Searching!Found(q))
         /\ Cardinality(Searching!Found(q)) <= Cardinality(Indexed)
         /\ Cardinality(Searching!Found(q)) \in Nat /\ Cardinality(Indexed) \in Nat
<1>1. Searching!Semantic(q) \in Seq(Indexed) /\ q.words \in Seq(Indexed) /\ q.named \in SUBSET Indexed
  BY SemanticTyped DEF IsAsked, Questions
<1>2. Searching!Found(q) \in SUBSET Indexed
  BY <1>1 DEF Searching!Found, Searching!Range
<1>3. QED
  BY <1>2, SearchAssumption, FS_Subset, FS_CardinalityType

\* The hits, each once, fall into an order.
LEMMA FusedHasAll ==
  ASSUME NEW q, IsAsked(q)
  PROVE  /\ Searching!Fused(q) \in Seq(Indexed) /\ Once(Searching!Fused(q))
         /\ Len(Searching!Fused(q)) = Cardinality(Searching!Found(q))
         /\ \A x : Has(Searching!Fused(q), x) <=> x \in Searching!Found(q)
<1> DEFINE F == Searching!Found(q)
           N == Cardinality(F)
           R == {p \in F \X F : Searching!Score(q, p[1]) >= Searching!Score(q, p[2])}
           Good(s) == Searching!IsInjective(s) /\ \A i, j \in DOMAIN s : i < j => Searching!Score(q, s[i]) >= Searching!Score(q, s[j])
           f == Searching!Fused(q)
<1>1. \A x : Searching!Score(q, x) \in Nat
  <2>1. Searching!Semantic(q) \in Seq(Indexed) /\ q.words \in Seq(Indexed)
    BY SemanticTyped DEF IsAsked, Questions
  <2>2. ASSUME NEW x
        PROVE  Searching!Score(q, x) \in Nat
    <3>1. Searching!Share(q.words, x) \in Nat /\ Searching!Share(Searching!Semantic(q), x) \in Nat
      BY <2>1, ShareIsNat
    <3>2. QED
      BY <3>1 DEF Searching!Score
  <2>3. QED
    BY <2>2
<1>2. F \in SUBSET Indexed /\ IsFiniteSet(F) /\ N \in Nat
  BY FoundIsFinite
<1>9. f = CHOOSE s \in [1..N -> F] : Good(s)
  BY Counts DEF Searching!Fused
<1> HIDE DEF F, N, f
<1>3. Total(R, F) /\ Transitive(R, F)
  <2>1. \A x, y \in F : <<x, y>> \in R <=> Searching!Score(q, x) >= Searching!Score(q, y)
    OBVIOUS
  <2> HIDE DEF R
  <2>2. QED
    BY <1>1, <2>1 DEF Total, Transitive
<1>4. PICK s : InOrder(s, R, F, N)
  <2> HIDE DEF R
  <2>1. QED
    BY <1>2, <1>3, PutInOrder DEF N
<1>5. s \in [1..N -> F] /\ Good(s)
  <2>1. s \in [1..N -> F] /\ DOMAIN s = 1..N
    BY <1>4 DEF InOrder
  <2>2. Searching!IsInjective(s)
    BY <1>4, <2>1 DEF InOrder, Searching!IsInjective
  <2>3. ASSUME NEW i \in 1..N, NEW j \in 1..N, i < j
        PROVE  Searching!Score(q, s[i]) >= Searching!Score(q, s[j])
    <3>1. <<s[i], s[j]>> \in R
      BY <1>4, <2>3 DEF InOrder
    <3>2. QED
      BY <3>1
  <2>4. QED
    BY <2>1, <2>2, <2>3
<1>6. f \in [1..N -> F] /\ Good(f)
  <2> HIDE DEF Good
  <2>1. QED
    BY <1>5, <1>9
<1>7. \A i, j \in 1..N : f[i] = f[j] => i = j
  BY <1>6 DEF Searching!IsInjective
<1>8. /\ f \in Seq(F) /\ Len(f) = N /\ Once(f)
      /\ \A x : Has(f, x) <=> x \in F
  BY <1>2, <1>6, <1>7, Enumerates DEF N
<1>10. f \in Seq(Indexed)
  BY <1>2, <1>8
<1>11. QED
  BY <1>8, <1>10 DEF f, F, N

\* A finite set can be listed.
LEMMA SomeListing ==
  ASSUME NEW S, IsFiniteSet(S), NEW s,
         s = CHOOSE f \in [1..Cardinality(S) -> S] : \A a, b \in DOMAIN f : f[a] = f[b] => a = b
  PROVE  /\ Cardinality(S) \in Nat /\ s \in Seq(S) /\ Len(s) = Cardinality(S) /\ Once(s)
         /\ \A x : Has(s, x) <=> x \in S
<1> DEFINE N == Cardinality(S)
           Good(f) == \A a, b \in DOMAIN f : f[a] = f[b] => a = b
<1>1. ExistsBijection(1..N, S)
  BY FS_CardinalityType
<1>2. \E f \in [1..N -> S] : Good(f)
  BY <1>1, Zenon DEF ExistsBijection, Bijection, Injection, IsInjective
<1>4. s = CHOOSE f \in [1..N -> S] : Good(f)
  OBVIOUS
<1> HIDE DEF Good, N
<1>3. s \in [1..N -> S] /\ Good(s)
  BY ONLY <1>2, <1>4, Zenon
<1>5. \A i, j \in 1..N : s[i] = s[j] => i = j
  BY <1>3 DEF Good
<1>6. QED
  BY ONLY IsFiniteSet(S), <1>3, <1>5, Enumerates DEF N

\* x is in one of the runs.
Covers(runs, x) == \E j \in 1..Len(runs) : x \in runs[j]

\* A window that is joined to runs covers what the runs and it cover.
LEMMA JoinedCovers ==
  ASSUME NEW C, NEW runs \in Seq(SUBSET C), NEW w \in SUBSET C
  PROVE  /\ Searching!Joined(runs, w) \in Seq(SUBSET C)
         /\ \A x : Covers(Searching!Joined(runs, w), x) <=> Covers(runs, x) \/ x \in w
<1> DEFINE N == Len(runs)
           T == {i \in 1..N : runs[i] \intersect w # {}}
           Near(i) == runs[i] \intersect w # {} /\ \A j \in 1..(i - 1) : runs[j] \intersect w = {}
<1>1. N \in Nat /\ DOMAIN runs = 1..N /\ \A i \in 1..N : runs[i] \in SUBSET C
  OBVIOUS
<1>2. CASE T = {}
  <2>1. Searching!Joined(runs, w) = Append(runs, w)
    BY <1>1, <1>2 DEF Searching!Joined
  <2> DEFINE r == Append(runs, w)
  <2>2. r \in Seq(SUBSET C) /\ Len(r) = N + 1 /\ r[N + 1] = w /\ \A j \in 1..N : r[j] = runs[j]
    OBVIOUS
  <2> HIDE DEF r, N
  <2>3. (\A j \in 1..(N + 1) : j \in 1..N \/ j = N + 1) /\ N + 1 \in 1..(N + 1) /\ \A j \in 1..N : j \in 1..(N + 1)
    BY ONLY <1>1
  <2>4. \A x : Covers(r, x) <=> Covers(runs, x) \/ x \in w
    BY ONLY <2>2, <2>3 DEF Covers, N
  <2>5. QED
    BY <2>1, <2>2, <2>4 DEF r
<1>3. CASE T # {}
  <2> DEFINE i == CHOOSE i \in 1..N : Near(i)
             r == [runs EXCEPT ![i] = @ \union w]
  <2>1. T \in SUBSET Nat
    BY <1>1
  <2>2. PICK m \in T : \A k \in T : m <= k
    BY <1>3, <2>1, Least
  <2>3. m \in 1..N /\ Near(m)
    <3>1. ASSUME NEW j \in 1..(m - 1)
          PROVE  runs[j] \intersect w = {}
      <4>1. m \in 1..N /\ j \in 1..N /\ ~(m <= j)
        BY <1>1
      <4>2. j \notin T
        BY <2>2, <4>1
      <4>3. QED
        BY <4>1, <4>2
    <3>2. QED
      BY <3>1
  <2>4. i \in 1..N
    BY <2>3
  <2>5. Searching!Joined(runs, w) = r
    BY <1>1, <1>3 DEF Searching!Joined
  <2> HIDE DEF i, N
  <2>6. runs \in [1..N -> SUBSET C] /\ r \in [1..N -> SUBSET C] /\ Len(r) = N /\ r \in Seq(SUBSET C)
    <3>1. runs \in [1..N -> SUBSET C]
      BY <1>1
    <3>2. r \in [1..N -> SUBSET C]
      BY <3>1
    <3> HIDE DEF r
    <3>3. QED
      BY <1>1, <3>1, <3>2
  <2>7. r[i] = runs[i] \union w /\ \A j \in 1..N : j # i => r[j] = runs[j]
    BY <1>1, <2>4
  <2> HIDE DEF r
  <2>8. \A x : Covers(r, x) <=> Covers(runs, x) \/ x \in w
    BY ONLY <2>4, <2>6, <2>7 DEF Covers, N
  <2>9. QED
    BY <2>5, <2>6, <2>8
<1>4. QED
  BY <1>2, <1>3

\* The windows around the hits and those around the rest cover every chunk, and nothing else.
LEMMA WindowsCover ==
  ASSUME NEW q, IsAsked(q)
  PROVE  /\ Searching!Windows(q) \in Seq(SUBSET q.chunks)
         /\ \A x : Covers(Searching!Windows(q), x) <=> x \in q.chunks
<1> DEFINE C == q.chunks
           H == q.hits
           rest == C \ Searching!Range(H)
           o == Searching!Orphans(q)
           U == [i \in DOMAIN H |-> Searching!Around(H[i], C)]
           V == [i \in DOMAIN o |-> {o[i]}]
           W == U \o V
<1>1. C \in SUBSET Nat /\ H \in Seq(Nat) /\ IsFiniteSet(C) /\ (\A x : Has(H, x) => x \in C)
  BY DEF IsAsked, Questions
<1>2. Searching!Windows(q) = W
  BY DEF Searching!Windows
<1>3. IsFiniteSet(rest) /\ rest \in SUBSET C
  BY <1>1, FS_Subset
<1>4. o = CHOOSE f \in [1..Cardinality(rest) -> rest] : \A a, b \in DOMAIN f : f[a] = f[b] => a = b
  <2>1. o = CHOOSE f \in [1..Searching!Cardinality(rest) -> rest] : Searching!IsInjective(f)
    BY DEF Searching!Orphans, Searching!SetToSeq
  <2>2. Searching!Cardinality(rest) = Cardinality(rest)
    BY Counts
  <2> HIDE DEF o, rest
  <2>3. QED
    BY <2>1, <2>2 DEF Searching!IsInjective
<1>12. \A x : Has(H, x) <=> x \in Searching!Range(H)
  BY <1>1, HasIsRange
<1>13. \A p \in C : p \in Searching!Around(p, C)
  BY <1>1 DEF Searching!Around, Searching!Radius
<1>14. \A p : Searching!Around(p, C) \in SUBSET C
  BY DEF Searching!Around
<1>15. \A x : x \in rest <=> x \in C /\ ~Has(H, x)
  BY <1>12
<1> HIDE DEF o, rest
<1>5. o \in Seq(rest) /\ \A x : Has(o, x) <=> x \in rest
  BY ONLY <1>3, <1>4, SomeListing
<1>6. o \in Seq(C)
  BY <1>3, <1>5
<1> DEFINE M == Len(H)
           N == Len(o)
<1>7. M \in Nat /\ N \in Nat /\ DOMAIN H = 1..M /\ DOMAIN o = 1..N
  BY <1>1, <1>6
<1>8. U \in Seq(SUBSET C) /\ Len(U) = M /\ \A i \in 1..M : U[i] = Searching!Around(H[i], C)
  <2>1. U \in [1..M -> SUBSET C]
    BY <1>7, <1>14
  <2>2. \A i \in 1..M : U[i] = Searching!Around(H[i], C)
    BY <1>7
  <2> HIDE DEF U
  <2>3. QED
    BY <1>7, <2>1, <2>2
<1>9. V \in Seq(SUBSET C) /\ Len(V) = N /\ \A i \in 1..N : V[i] = {o[i]}
  <2>1. V \in [1..N -> SUBSET C]
    BY <1>6, <1>7
  <2>2. \A i \in 1..N : V[i] = {o[i]}
    BY <1>7
  <2> HIDE DEF V
  <2>3. QED
    BY <1>7, <2>1, <2>2
<1> HIDE DEF U, V, C, H
<1>10. W \in Seq(SUBSET C) /\ \A y : Has(W, y) <=> Has(U, y) \/ Has(V, y)
  BY <1>8, <1>9, HasBoth
<1> HIDE DEF W
<1>11. ASSUME NEW x
       PROVE  Covers(W, x) <=> x \in C
  <2>1. Covers(W, x) <=> \E y : Has(W, y) /\ x \in y
    BY DEF Covers, Has
  <2>2. ASSUME NEW y, Has(U, y), x \in y
        PROVE  x \in C
    BY <1>8, <1>14, <2>2 DEF Has
  <2>3. ASSUME NEW y, Has(V, y), x \in y
        PROVE  x \in C
    BY <1>6, <1>7, <1>9, <2>3 DEF Has
  <2>4. ASSUME x \in C
        PROVE  \E y : (Has(U, y) \/ Has(V, y)) /\ x \in y
    <3>1. CASE Has(H, x)
      <4>1. PICK i \in 1..M : H[i] = x
        BY <3>1 DEF Has
      <4>2. Has(U, U[i]) /\ x \in U[i]
        BY <1>8, <1>13, <2>4, <4>1 DEF Has
      <4>3. QED
        BY <4>2
    <3>2. CASE ~Has(H, x)
      <4>1. Has(o, x)
        BY <1>5, <1>15, <2>4, <3>2
      <4>2. PICK i \in 1..N : o[i] = x
        BY <4>1 DEF Has
      <4>3. Has(V, V[i]) /\ x \in V[i]
        BY <1>9, <4>2 DEF Has
      <4>4. QED
        BY <4>3
    <3>3. QED
      BY <3>1, <3>2
  <2>5. QED
    BY <1>10, <2>1, <2>2, <2>3, <2>4
<1>16. QED
  BY <1>2, <1>10, <1>11 DEF C

\* So do the runs the windows are joined to.
LEMMA RunsCover ==
  ASSUME NEW q, IsAsked(q)
  PROVE  /\ Searching!Runs(q) \in Seq(SUBSET q.chunks)
         /\ \A x : Covers(Searching!Runs(q), x) <=> x \in q.chunks
<1> DEFINE C == q.chunks
           D == Seq(SUBSET C)
           W == Searching!Windows(q)
           N == Len(W)
           b == <<>>
           F == [k \in Nat |-> [r \in D |-> IF k \in 1..N THEN Searching!Joined(r, W[k]) ELSE r]]
           runs[n \in 0..N] == IF n = 0 THEN <<>> ELSE Searching!Joined(runs[n - 1], W[n])
<1>1. W \in D /\ \A x : Covers(W, x) <=> x \in C
  BY WindowsCover
<1>2. Searching!Runs(q) = runs[N]
  BY DEF Searching!Runs
<1> HIDE DEF W
<1>3. N \in Nat /\ b \in D /\ \A k \in 1..N : W[k] \in SUBSET C
  BY <1>1
<1>4. F \in [Nat -> [D -> D]]
  <2>1. ASSUME NEW k \in Nat, NEW r \in D
        PROVE  (IF k \in 1..N THEN Searching!Joined(r, W[k]) ELSE r) \in D
    <3> HIDE DEF N
    <3>1. CASE k \in 1..N
      <4>1. W[k] \in SUBSET C
        BY <1>3, <3>1
      <4>2. Searching!Joined(r, W[k]) \in D
        BY <4>1, JoinedCovers
      <4>3. QED
        BY <4>2
    <3>2. CASE k \notin 1..N
      BY <3>2
    <3>3. QED
      BY <3>1, <3>2
  <2> HIDE DEF D, N
  <2>2. QED
    BY <2>1
<1> HIDE DEF F
<1>5. PICK g \in [0..N -> D] : StepByStep(g, b, F, N)
  <2> HIDE DEF b, N, runs, D
  <2>1. QED
    BY <1>3, <1>4, Iterates
<1>6. g = [n \in 0..N |-> IF n = 0 THEN <<>> ELSE Searching!Joined(g[n - 1], W[n])]
  <2> HIDE DEF N, runs, D
  <2>1. ASSUME NEW k \in 0..N, k # 0
        PROVE  g[k] = Searching!Joined(g[k - 1], W[k])
    <3>1. k \in Nat /\ k \in 1..N /\ k - 1 \in 0..N
      BY <1>3, <2>1
    <3>2. g[k - 1] \in D
      BY <3>1
    <3>3. g[k] = F[k][g[k - 1]]
      BY <1>5, <3>1 DEF StepByStep
    <3>4. QED
      BY <3>1, <3>2, <3>3 DEF F
  <2>2. g[0] = <<>>
    BY <1>5 DEF StepByStep
  <2>3. QED
    BY <2>1, <2>2
<1>7. runs = [n \in 0..N |-> IF n = 0 THEN <<>> ELSE Searching!Joined(runs[n - 1], W[n])]
  <2> HIDE DEF N
  <2>1. QED
    BY <1>6
<1> HIDE DEF runs, N
<1> DEFINE To(x, k) == \E j \in 1..k : x \in W[j]
           M == {k \in 0..N : runs[k] \in D /\ \A x : Covers(runs[k], x) <=> To(x, k)}
<1>8. 0 \in M
  <2>1. runs[0] = <<>>
    BY <1>3, <1>7
  <2>2. \A x : ~Covers(<<>>, x) /\ ~To(x, 0)
    BY DEF Covers
  <2> HIDE DEF To
  <2>4. 0 \in 0..N /\ runs[0] \in D
    BY <1>3, <2>1
  <2> HIDE DEF D
  <2>3. QED
    BY <2>1, <2>2, <2>4
<1>9. ASSUME NEW k \in 1..N, k - 1 \in M
      PROVE  k \in M
  <2>1. k \in 0..N /\ k # 0 /\ k \in Nat /\ W[k] \in SUBSET C
    BY <1>3
  <2>2. runs[k - 1] \in D /\ \A x : Covers(runs[k - 1], x) <=> To(x, k - 1)
    BY <1>9
  <2>3. runs[k] = Searching!Joined(runs[k - 1], W[k])
    BY <1>7, <2>1
  <2>4. runs[k] \in D /\ \A x : Covers(runs[k], x) <=> Covers(runs[k - 1], x) \/ x \in W[k]
    <3> HIDE DEF To, C
    <3>1. runs[k - 1] \in Seq(SUBSET C) /\ W[k] \in SUBSET C
      BY <2>1, <2>2
    <3> DEFINE r == runs[k - 1]
               w == W[k]
    <3>2. r \in Seq(SUBSET C) /\ w \in SUBSET C
      BY <3>1
    <3> HIDE DEF r, w
    <3>3. /\ Searching!Joined(r, w) \in Seq(SUBSET C)
          /\ \A x : Covers(Searching!Joined(r, w), x) <=> Covers(r, x) \/ x \in w
      BY ONLY <3>2, JoinedCovers
    <3>4. QED
      BY ONLY <2>3, <3>3 DEF r, w
  <2>5. \A x : To(x, k) <=> To(x, k - 1) \/ x \in W[k]
    <3>1. \A j \in 1..k : j \in 1..(k - 1) \/ j = k
      BY <2>1
    <3>2. k \in 1..k /\ \A j \in 1..(k - 1) : j \in 1..k
      BY <2>1
    <3>3. QED
      BY <3>1, <3>2
  <2> HIDE DEF To, D
  <2>6. QED
    BY <2>1, <2>2, <2>4, <2>5
<1> HIDE DEF M
<1>10. N \in M
  BY <1>3, <1>8, <1>9, Throughout
<1>11. runs[N] \in D /\ \A x : Covers(runs[N], x) <=> To(x, N)
  BY <1>10 DEF M
<1>12. \A x : To(x, N) <=> x \in C
  BY <1>1 DEF Covers, N
<1> HIDE DEF To
<1>13. QED
  BY <1>2, <1>11, <1>12

\* What is put in the order of the page is all there, and nothing else is.
LEMMA InPageOrderHasAll ==
  ASSUME NEW run \in SUBSET Nat, IsFiniteSet(run)
  PROVE  Searching!InPageOrder(run) \in Seq(run) /\ \A x : Has(Searching!InPageOrder(run), x) <=> x \in run
<1> DEFINE N == Cardinality(run)
           R == {p \in run \X run : p[1] <= p[2]}
           Good(s) == \A i, j \in DOMAIN s : i < j => s[i] < s[j]
           f == Searching!InPageOrder(run)
<1>1. N \in Nat
  BY FS_CardinalityType
<1>2. f = CHOOSE s \in [1..N -> run] : Good(s)
  BY Counts DEF Searching!InPageOrder
<1> HIDE DEF N, f
<1>3. Total(R, run) /\ Transitive(R, run)
  <2>1. \A x, y \in run : <<x, y>> \in R <=> x <= y
    OBVIOUS
  <2> HIDE DEF R
  <2>2. QED
    BY <2>1 DEF Total, Transitive
<1>4. PICK s : InOrder(s, R, run, N)
  <2> HIDE DEF R
  <2>1. QED
    BY <1>3, PutInOrder DEF N
<1>5. s \in [1..N -> run] /\ Good(s)
  <2>1. s \in [1..N -> run] /\ DOMAIN s = 1..N
    BY <1>4 DEF InOrder
  <2>2. ASSUME NEW i \in 1..N, NEW j \in 1..N, i < j
        PROVE  s[i] < s[j]
    <3>1. <<s[i], s[j]>> \in R
      BY <1>4, <2>2 DEF InOrder
    <3>2. s[i] # s[j]
      BY <1>1, <1>4, <2>2 DEF InOrder
    <3>3. s[i] \in Nat /\ s[j] \in Nat
      BY <2>1
    <3>4. QED
      BY <3>1, <3>2, <3>3
  <2>3. QED
    BY <2>1, <2>2
<1>6. f \in [1..N -> run] /\ Good(f)
  <2> HIDE DEF Good
  <2>1. QED
    BY <1>2, <1>5
<1>7. ASSUME NEW i \in 1..N, NEW j \in 1..N, f[i] = f[j]
      PROVE  i = j
  <2>1. f[i] \in Nat /\ f[j] \in Nat /\ DOMAIN f = 1..N
    BY <1>6
  <2>3. ~(i < j) /\ ~(j < i)
    BY <1>6, <1>7, <2>1
  <2>2. QED
    BY <1>1, <2>3
<1>8. QED
  BY <1>6, <1>7, Enumerates DEF f, N

ToldOf(q, a, x) == Has(a.lexical, x) \/ Has(a.semantic, x) \/ x \in a.named \/ x \in a.pointers
Chatted(q, a) ==
  q.kind = "chat" /\ a.done =>
    /\ \A x : Has(Searching!Cut(q, q.words), x) \/ Has(Searching!Cut(q, Searching!Semantic(q)), x) => ToldOf(q, a, x)
    /\ \A x : Has(a.lexical, x) \/ Has(a.semantic, x) => x \notin q.withdrawn
Paged(q, a) ==
  IF q.kind = "page"
  THEN /\ a.shown = Only(First(Searching!Fused(q), a.offset), q.held)
       /\ IF a.done THEN a.offset >= Searching!Total(q) ELSE a.offset = 0 \/ a.offset < Searching!Total(q)
       /\ a.offset <= ArmLimit + Cardinality(Indexed)
  ELSE a.offset = 0
Passed(q, a) ==
  /\ \A x : Has(a.passages, x) => x \in q.chunks
  /\ q.kind = "order" /\ a.done => \A x \in q.chunks : Has(a.passages, x)
SearchSound(q, a) == IsAsked(q) /\ a \in Answers /\ Chatted(q, a) /\ Paged(q, a) /\ Passed(q, a)

\* What is cut of a ranking is held; what is kept of it is not withdrawn.
LEMMA CutTyped ==
  ASSUME NEW q, IsAsked(q), NEW ranks \in Seq(Indexed)
  PROVE  /\ Searching!Cut(q, ranks) \in Seq(Indexed) /\ Searching!Kept(q, ranks) \in Seq(Indexed)
         /\ \A x : Has(Searching!Cut(q, ranks), x) => x \in q.held
         /\ \A x : Has(Searching!Kept(q, ranks), x) <=> Has(Searching!Cut(q, ranks), x) /\ x \in q.held \ q.withdrawn
         /\ \A x : x \in Searching!Demoted(q, ranks) <=> Has(Searching!Cut(q, ranks), x) /\ x \in q.withdrawn
<1> DEFINE there == Only(ranks, q.held)
           cut   == First(there, ArmLimit)
           kept  == Only(cut, q.held \ q.withdrawn)
<1>1. there \in Seq(Indexed) /\ \A x : Has(there, x) => x \in q.held
  BY OnlyHas
<1>2. Searching!Cut(q, ranks) = cut /\ Searching!Kept(q, ranks) = kept
  BY DEF Searching!Cut, Searching!Kept, Only, First
<1> HIDE DEF there
<1>3. cut \in Seq(Indexed) /\ \A x : Has(cut, x) => Has(there, x)
  <2>1. /\ cut \in Seq(Indexed) /\ Len(cut) = (IF ArmLimit < Len(there) THEN ArmLimit ELSE Len(there))
        /\ \A i \in 1..Len(cut) : cut[i] = there[i]
    BY <1>1, FirstIs, SearchAssumption
  <2>2. Len(there) \in Nat
    BY <1>1
  <2> HIDE DEF cut
  <2>3. \A i \in 1..Len(cut) : i \in 1..Len(there)
    BY <2>1, <2>2, SearchAssumption
  <2>4. QED
    BY <2>1, <2>3 DEF Has
<1> HIDE DEF cut
<1>4. kept \in Seq(Indexed) /\ \A x : Has(kept, x) <=> Has(cut, x) /\ x \in q.held \ q.withdrawn
  BY <1>3, OnlyHas
<1> HIDE DEF kept
<1>5. \A x : x \in Searching!Range(cut) <=> Has(cut, x)
  BY <1>3, HasIsRange
<1>6. \A x : x \in Searching!Demoted(q, ranks) <=> Has(cut, x) /\ x \in q.withdrawn
  BY <1>2, <1>5 DEF Searching!Demoted
<1>7. QED
  BY <1>1, <1>2, <1>3, <1>4, <1>6

\* An answer in the chat tells of all that was cut.
LEMMA AnsweringChat ==
  ASSUME SearchSound(question, answer), Searching!AnswerChat
  PROVE  SearchSound(question, answer')
<1> DEFINE q == question
           s == Searching!Semantic(q)
           w == q.words
           a == answer'
<1>1. IsAsked(q) /\ answer \in Answers /\ q.kind = "chat"
  BY DEF SearchSound, Searching!AnswerChat
<1>2. s \in Seq(Indexed) /\ w \in Seq(Indexed) /\ q.named \in SUBSET Indexed /\ q.held \in SUBSET Indexed
      /\ q.withdrawn \in SUBSET Indexed /\ q.withdrawn \subseteq q.held
  BY <1>1, SemanticTyped DEF IsAsked, Questions
<1>3. a = [answer EXCEPT !.done = TRUE, !.lexical = Searching!Kept(q, w), !.semantic = Searching!Kept(q, s),
             !.named = q.named \intersect q.held,
             !.pointers = (Searching!Demoted(q, w) \union Searching!Demoted(q, s)) \ q.named]
  BY DEF Searching!AnswerChat
<1> HIDE DEF q, s, w, a
<1>4. /\ Searching!Kept(q, w) \in Seq(Indexed) /\ (\A x : Has(Searching!Cut(q, w), x) => x \in q.held)
      /\ (\A x : Has(Searching!Kept(q, w), x) <=> Has(Searching!Cut(q, w), x) /\ x \in q.held \ q.withdrawn)
      /\ (\A x : x \in Searching!Demoted(q, w) <=> Has(Searching!Cut(q, w), x) /\ x \in q.withdrawn)
  BY <1>1, <1>2, CutTyped
<1>5. /\ Searching!Kept(q, s) \in Seq(Indexed) /\ (\A x : Has(Searching!Cut(q, s), x) => x \in q.held)
      /\ (\A x : Has(Searching!Kept(q, s), x) <=> Has(Searching!Cut(q, s), x) /\ x \in q.held \ q.withdrawn)
      /\ (\A x : x \in Searching!Demoted(q, s) <=> Has(Searching!Cut(q, s), x) /\ x \in q.withdrawn)
  BY <1>1, <1>2, CutTyped
<1>6. (Searching!Demoted(q, w) \union Searching!Demoted(q, s)) \ q.named \in SUBSET Indexed
  BY <1>2, <1>4, <1>5
<1>7. /\ a \in Answers /\ a.done = TRUE /\ a.lexical = Searching!Kept(q, w) /\ a.semantic = Searching!Kept(q, s)
      /\ a.named = q.named \intersect q.held
      /\ a.pointers = (Searching!Demoted(q, w) \union Searching!Demoted(q, s)) \ q.named
      /\ a.offset = answer.offset /\ a.passages = answer.passages
  <2>1. q.named \intersect q.held \in SUBSET Indexed
    BY <1>2
  <2>2. Searching!Kept(q, w) \in Seq(Indexed) /\ Searching!Kept(q, s) \in Seq(Indexed)
    BY <1>4, <1>5
  <2>3. QED
    BY ONLY <1>1, <1>3, <1>6, <2>1, <2>2 DEF Answers
<1>8. Chatted(q, a)
  <2>1. ASSUME NEW x, Has(Searching!Cut(q, w), x) \/ Has(Searching!Cut(q, s), x)
        PROVE  ToldOf(q, a, x)
    BY <1>4, <1>5, <1>7, <2>1 DEF ToldOf
  <2>2. \A x : Has(a.lexical, x) \/ Has(a.semantic, x) => x \notin q.withdrawn
    BY <1>4, <1>5, <1>7
  <2>3. QED
    BY <2>1, <2>2 DEF Chatted, s, w
<1>9. Paged(q, a) /\ Passed(q, a)
  BY <1>1, <1>7 DEF SearchSound, Paged, Passed, q
<1>10. QED
  BY <1>1, <1>7, <1>8, <1>9 DEF SearchSound, q, a

\* A page continues what the pages before it showed.
LEMMA ReadingPage ==
  ASSUME SearchSound(question, answer), Searching!NextPage
  PROVE  SearchSound(question, answer')
<1> DEFINE q == question
           F == Searching!Fused(q)
           o == answer.offset
           n == o + ArmLimit
           old  == First(F, o)
           upto == First(F, n)
           page == SubSeq(upto, o + 1, Len(upto))
           a == answer'
<1>1. /\ IsAsked(q) /\ answer \in Answers /\ q.kind = "page" /\ ~answer.done /\ o \in Nat
      /\ answer.shown = Only(old, q.held)
      /\ o = 0 \/ o < Searching!Total(q)
  BY DEF SearchSound, Searching!NextPage, Paged, Answers
<1>2. F \in Seq(Indexed) /\ Len(F) = Searching!Total(q) /\ Len(F) = Cardinality(Searching!Found(q))
  BY <1>1, FusedHasAll DEF Searching!Total
<1>3. a = [answer EXCEPT !.shown = @ \o Only(page, q.held), !.offset = @ + ArmLimit, !.done = n >= Searching!Total(q)]
  BY DEF Searching!NextPage, Only, First
<1>4. n \in Nat /\ ArmLimit \in Nat /\ Len(F) \in Nat /\ Len(F) <= Cardinality(Indexed) /\ Cardinality(Indexed) \in Nat
  BY <1>1, <1>2, SearchAssumption, FoundIsFinite
<1> HIDE DEF q, F, a
<1>5. /\ upto \in Seq(Indexed) /\ Len(upto) = (IF n < Len(F) THEN n ELSE Len(F))
      /\ \A i \in 1..Len(upto) : upto[i] = F[i]
  BY <1>2, <1>4, FirstIs
<1>6. /\ old \in Seq(Indexed) /\ Len(old) = (IF o < Len(F) THEN o ELSE Len(F))
      /\ \A i \in 1..Len(old) : old[i] = F[i]
  BY <1>1, <1>2, FirstIs
<1> HIDE DEF upto, old, n
<1>7. First(upto, o) = old /\ page \in Seq(Indexed) /\ upto = First(upto, o) \o page
  <2>1. /\ First(upto, o) \in Seq(Indexed) /\ Len(First(upto, o)) = (IF o < Len(upto) THEN o ELSE Len(upto))
        /\ \A i \in 1..Len(First(upto, o)) : First(upto, o)[i] = upto[i]
    BY <1>1, <1>5, FirstIs
  <2>2. Len(First(upto, o)) = Len(old) /\ Len(old) <= Len(upto)
    BY <1>1, <1>4, <1>5, <1>6, <2>1 DEF n
  <2>3. \A i \in 1..Len(old) : First(upto, o)[i] = old[i]
    BY <1>4, <1>5, <1>6, <2>1, <2>2
  <2>4. First(upto, o) = old
    BY ONLY <1>6, <2>1, <2>2, <2>3, SeqEqual
  <2>5. upto \in Seq(Indexed) /\ o \in Nat
    BY <1>1, <1>5
  <2> HIDE DEF o
  <2>8. Beyond(upto, o) \in Seq(Indexed) /\ upto = First(upto, o) \o Beyond(upto, o)
    BY ONLY <2>5, FirstThenRest
  <2>6. page \in Seq(Indexed) /\ upto = First(upto, o) \o page
    BY <2>8 DEF Beyond
  <2>7. QED
    BY <2>4, <2>6
<1> HIDE DEF page
<1>8. Only(upto, q.held) = Only(old, q.held) \o Only(page, q.held)
  <2>1. old \in Seq(Indexed) /\ page \in Seq(Indexed) /\ upto = old \o page
    BY <1>6, <1>7
  <2>2. QED
    BY ONLY <2>1, OnlyJoins
<1>9. Only(upto, q.held) \in Seq(Indexed)
  BY <1>5, OnlyHas
<1>10. /\ a \in Answers /\ a.shown = Only(upto, q.held) /\ a.offset = n /\ a.done = (n >= Searching!Total(q))
       /\ a.passages = answer.passages
  <2>1. (n >= Searching!Total(q)) \in BOOLEAN /\ n = answer.offset + ArmLimit
    BY DEF n
  <2>2. Only(old, q.held) \o Only(page, q.held) \in Seq(Indexed)
    BY <1>8, <1>9
  <2>4. answer.shown \o Only(page, q.held) = Only(upto, q.held)
    BY <1>1, <1>8
  <2>3. QED
    BY ONLY <1>1, <1>3, <1>4, <1>9, <2>1, <2>4 DEF Answers
<1>11. Paged(q, a)
  <2>1. a.shown = Only(First(Searching!Fused(q), n), q.held) /\ a.offset = n /\ (a.done <=> n >= Searching!Total(q))
    BY <1>10 DEF upto, F
  <2>2. Searching!Total(q) \in Nat /\ n <= ArmLimit + Cardinality(Indexed)
    BY <1>1, <1>2, <1>4 DEF n
  <2>3. QED
    BY ONLY <1>1, <1>4, <2>1, <2>2 DEF Paged
<1>12. Chatted(q, a) /\ Passed(q, a)
  BY <1>1, <1>10 DEF Chatted, Passed, SearchSound, q
<1>13. QED
  BY <1>1, <1>10, <1>11, <1>12 DEF SearchSound, q, a

\* What is put in order is what was asked for.
LEMMA OrderingPassages ==
  ASSUME SearchSound(question, answer), Searching!OrderPassages
  PROVE  SearchSound(question, answer')
<1> DEFINE q == question
           R == Searching!Runs(q)
           p == [i \in DOMAIN R |-> Searching!InPageOrder(R[i])]
           a == answer'
           C == q.chunks
           N == Len(R)
<1>1. IsAsked(q) /\ answer \in Answers /\ q.kind = "order" /\ C \in SUBSET Nat /\ IsFiniteSet(C)
  BY DEF SearchSound, Searching!OrderPassages, IsAsked, Questions
<1>2. a = [answer EXCEPT !.done = TRUE, !.passages = Flat(p)]
  BY DEF Searching!OrderPassages, Flat, Citing!FlattenSeq, Searching!FlattenSeq
<1>3. R \in Seq(SUBSET C) /\ \A x : Covers(R, x) <=> x \in C
  BY <1>1, RunsCover
<1> HIDE DEF q, R, a, C
<1>4. N \in Nat /\ DOMAIN R = 1..N /\ \A i \in 1..N : R[i] \in SUBSET C
  BY <1>3
<1>5. ASSUME NEW i \in 1..N
      PROVE  /\ Searching!InPageOrder(R[i]) \in Seq(Nat)
             /\ \A x : Has(Searching!InPageOrder(R[i]), x) <=> x \in R[i]
  <2>1. R[i] \in SUBSET C /\ R[i] \in SUBSET Nat
    BY <1>1, <1>4
  <2>2. IsFiniteSet(R[i])
    BY <1>1, <2>1, FS_Subset
  <2>3. Searching!InPageOrder(R[i]) \in Seq(R[i]) /\ \A x : Has(Searching!InPageOrder(R[i]), x) <=> x \in R[i]
    BY <2>1, <2>2, InPageOrderHasAll
  <2>4. QED
    BY <2>1, <2>3
<1>6. p \in Seq(Seq(Nat)) /\ Len(p) = N /\ \A i \in 1..N : p[i] = Searching!InPageOrder(R[i])
  <2>1. p \in [1..N -> Seq(Nat)]
    BY <1>4, <1>5
  <2>2. \A i \in 1..N : p[i] = Searching!InPageOrder(R[i])
    BY <1>4
  <2> HIDE DEF p
  <2>3. QED
    BY <1>4, <2>1, <2>2
<1> HIDE DEF p
<1>7. Flat(p) \in Seq(Nat)
  BY <1>6, FlatTyped
<1>8. \A x : Has(Flat(p), x) <=> x \in C
  <2>1. \A x : Has(Flat(p), x) <=> \E k \in 1..Len(p) : Has(p[k], x)
    BY <1>6, FlatHas
  <2>2. \A x : (\E k \in 1..Len(p) : Has(p[k], x)) <=> Covers(R, x)
    BY <1>5, <1>6 DEF Covers
  <2>3. QED
    BY <1>3, <2>1, <2>2
<1>9. a \in Answers /\ a.done = TRUE /\ a.passages = Flat(p) /\ a.offset = answer.offset /\ a.shown = answer.shown
  BY ONLY <1>1, <1>2, <1>7 DEF Answers
<1>10. Passed(q, a) /\ Chatted(q, a) /\ Paged(q, a)
  BY <1>1, <1>8, <1>9 DEF Passed, Chatted, Paged, SearchSound, q, C
<1>11. QED
  BY <1>1, <1>9, <1>10 DEF SearchSound, q, a

\* Every step keeps what is known of an answer.
LEMMA SearchStaysSound ==
  SearchSound(question, answer) /\ [Searching!SearchNext]_searchState => SearchSound(question, answer)'
<1> SUFFICES ASSUME SearchSound(question, answer), [Searching!SearchNext]_searchState
             PROVE  SearchSound(question', answer')
  BY DEF SearchSound, IsAsked, Questions, Answers, Chatted, ToldOf, Paged, Passed
<1>1. CASE UNCHANGED searchState
  BY <1>1 DEF searchState
<1>2. ASSUME Searching!SearchNext
      PROVE  question' = question /\ SearchSound(question, answer')
  BY <1>2, AnsweringChat, ReadingPage, OrderingPassages
  DEF Searching!SearchNext, Searching!AnswerChat, Searching!NextPage, Searching!OrderPassages
<1>3. QED
  BY <1>1, <1>2

\* What has nothing twice is injective.
LEMMA OnceIsInjective ==
  ASSUME NEW S, NEW s \in Seq(S), Once(s)
  PROVE  Searching!IsInjective(s)
BY DEF Searching!IsInjective, Once

\* What the invariant says of an answer.
LEMMA SearchSays ==
  SearchSound(question, answer) => Searching!NothingFoundIsLost /\ Searching!SearchTypeOK
<1> SUFFICES ASSUME SearchSound(question, answer)
             PROVE  Searching!NothingFoundIsLost /\ Searching!SearchTypeOK
  OBVIOUS
<1> DEFINE q == question
           a == answer
           s == Searching!Semantic(q)
           F == Searching!Fused(q)
<1>1. IsAsked(q) /\ q \in Questions /\ a \in Answers
  BY DEF SearchSound, IsAsked
<1>2. s \in Seq(Indexed) /\ Searching!NearestByFilter(q) = s /\ q.words \in Seq(Indexed)
  BY <1>1, SemanticTyped DEF Questions
<1>3. /\ a.lexical \in Seq(Indexed) /\ a.semantic \in Seq(Indexed) /\ a.shown \in Seq(Indexed) /\ a.passages \in Seq(Nat)
      /\ a.offset \in Nat /\ a.done \in BOOLEAN
  BY <1>1 DEF Answers
<1>4. Searching!ChatIsToldOfTheBest
  <2> SUFFICES ASSUME q.kind = "chat", a.done
               PROVE  /\ Searching!Best(q, q.words) \union Searching!Best(q, Searching!NearestByFilter(q))
                           \subseteq Searching!Range(a.lexical) \union Searching!Range(a.semantic) \union a.named \union a.pointers
                      /\ (Searching!Range(a.lexical) \union Searching!Range(a.semantic)) \intersect q.withdrawn = {}
    BY DEF Searching!ChatIsToldOfTheBest
  <2>1. Chatted(q, a)
    BY DEF SearchSound
  <2>2. /\ \A x : x \in Searching!Best(q, q.words) <=> Has(Searching!Cut(q, q.words), x)
        /\ \A x : x \in Searching!Best(q, s) <=> Has(Searching!Cut(q, s), x)
    <3>1. Searching!Cut(q, q.words) \in Seq(Indexed) /\ Searching!Cut(q, s) \in Seq(Indexed)
      BY <1>1, <1>2, CutTyped
    <3>2. QED
      BY <3>1, HasIsRange DEF Searching!Best, Searching!Cut
  <2>3. \A x : (x \in Searching!Range(a.lexical) <=> Has(a.lexical, x)) /\ (x \in Searching!Range(a.semantic) <=> Has(a.semantic, x))
    BY <1>3, HasIsRange
  <2> HIDE DEF q, a, s
  <2>4. QED
    BY <1>2, <2>1, <2>2, <2>3 DEF Chatted, ToldOf, s
<1>5. Searching!PagesCoverTheHits
  <2> SUFFICES ASSUME q.kind = "page", a.done
               PROVE  Searching!Range(a.shown) = Searching!Found(q) \intersect q.held /\ Searching!IsInjective(a.shown)
    BY DEF Searching!PagesCoverTheHits
  <2>1. a.shown = Only(First(F, a.offset), q.held) /\ a.offset >= Searching!Total(q)
    BY DEF SearchSound, Paged
  <2>2. F \in Seq(Indexed) /\ Once(F) /\ (\A x : Has(F, x) <=> x \in Searching!Found(q))
    BY <1>1, FusedHasAll
  <2>3. First(F, a.offset) = F
    BY <1>3, <2>1, <2>2, FirstIs DEF Searching!Total
  <2> HIDE DEF F, q, a
  <2>4. (\A x : Has(a.shown, x) <=> Has(F, x) /\ x \in q.held) /\ Once(a.shown)
    BY <2>1, <2>2, <2>3, OnlyHas
  <2>5. \A x : x \in Searching!Range(a.shown) <=> Has(a.shown, x)
    BY <1>3, HasIsRange
  <2>6. Searching!IsInjective(a.shown)
    BY <1>3, <2>4, OnceIsInjective
  <2>7. QED
    BY <2>2, <2>4, <2>5, <2>6
<1>6. \A x : x \in Searching!Range(a.passages) <=> Has(a.passages, x)
  BY <1>3, HasIsRange
<1>7. Searching!PassagesAreKept
  BY <1>6 DEF SearchSound, Passed, Searching!PassagesAreKept
<1>8. Searching!SearchTypeOK
  <2>1. a.offset \in 0..(ArmLimit + Searching!Cardinality(Indexed))
    <3>1. ArmLimit \in Nat /\ Cardinality(Indexed) \in Nat
      BY SearchAssumption, FS_CardinalityType
    <3>2. a.offset <= ArmLimit + Cardinality(Indexed)
      BY <3>1 DEF SearchSound, Paged
    <3>3. QED
      BY <1>3, <3>1, <3>2, Counts
  <2>2. Searching!Range(a.passages) \subseteq q.chunks
    BY <1>6 DEF SearchSound, Passed
  <2>3. q.kind \in {"chat", "page", "order"} /\ q.withdrawn \subseteq q.held
    BY <1>1 DEF IsAsked, Questions
  <2>4. QED
    BY <1>3, <2>1, <2>2, <2>3 DEF Searching!SearchTypeOK
<1>9. QED
  BY <1>4, <1>5, <1>7, <1>8 DEF Searching!NothingFoundIsLost

SearchStarts ==
  Searching!SearchInit \/ (question = Searching!Asked("order", {}, {}, <<>>, <<>>, {}, <<1>>, {1}) /\ answer = Searching!Open)

\* It holds of a question that has no answer yet.
LEMMA SearchBegins == SearchStarts => SearchSound(question, answer)
<1> SUFFICES ASSUME SearchStarts
             PROVE  SearchSound(question, answer)
  OBVIOUS
<1>1. answer = Searching!Open
  BY DEF SearchStarts, Searching!SearchInit
<1>2. answer \in Answers /\ ~answer.done /\ answer.offset = 0 /\ answer.shown = <<>> /\ answer.passages = <<>>
  <2>1. <<>> \in Seq(Indexed) /\ <<>> \in Seq(Nat)
    OBVIOUS
  <2>2. QED
    BY <1>1, <2>1 DEF Searching!Open, Answers
<1>3. Cardinality(Indexed) \in Nat /\ ArmLimit \in Nat /\ Searching!Cardinality(Indexed) = Cardinality(Indexed)
  BY SearchAssumption, FS_CardinalityType, Counts
<1>4. \A r \in Searching!Rankings : r \in Seq(Indexed)
  BY <1>3 DEF Searching!Rankings
<1>5. \A r \in Searching!Stores : r \in Seq(Indexed \union {Law})
  BY DEF Searching!Stores
<1>6. \A h \in Searching!Hits : h \in Seq(Nat) /\ h \in Seq(1..Paragraphs)
  <2> SUFFICES ASSUME NEW h \in Searching!Hits
               PROVE  h \in Seq(Nat) /\ h \in Seq(1..Paragraphs)
    OBVIOUS
  <2>1. PICK n \in 1..3 : h \in [1..n -> 1..Paragraphs]
    BY DEF Searching!Hits
  <2> DEFINE P == 1..Paragraphs
  <2>2. P \in SUBSET Nat /\ n \in Nat /\ h \in [1..n -> P]
    BY <2>1, SearchAssumption
  <2> HIDE DEF P
  <2>4. h \in [1..n -> Nat]
    BY <2>2
  <2>5. h \in Seq(P) /\ h \in Seq(Nat)
    BY ONLY <2>2, <2>4
  <2>3. QED
    BY <2>5 DEF P
<1>7. IsAsked(question)
  <2>1. ASSUME NEW h \in SUBSET Indexed, NEW w \in SUBSET h, NEW r \in Searching!Rankings, NEW s \in Searching!Stores,
               NEW n \in SUBSET Indexed, NEW k \in {"chat", "page"}, question = Searching!Asked(k, h, w, r, s, n, <<>>, {})
        PROVE  IsAsked(question)
    <3>1. r \in Seq(Indexed) /\ s \in Seq(Indexed \union {Law}) /\ <<>> \in Seq(Nat) /\ {} \in SUBSET Nat
      BY <1>4, <1>5
    <3>2. \A x : ~Has(<<>>, x)
      BY DEF Has
    <3>3. IsFiniteSet({})
      BY FS_EmptySet
    <3>4. question \in Questions /\ question.hits = <<>> /\ question.withdrawn = w /\ question.held = h /\ question.chunks = {}
      BY <2>1, <3>1 DEF Searching!Asked, Questions
    <3>5. QED
      BY <3>2, <3>3, <3>4 DEF IsAsked
  <2>2. ASSUME NEW h \in Seq(Nat), NEW c \in SUBSET Nat, IsFiniteSet(c), \A x : Has(h, x) => x \in c,
               question = Searching!Asked("order", {}, {}, <<>>, <<>>, {}, h, c)
        PROVE  IsAsked(question)
    <3>1. <<>> \in Seq(Indexed) /\ <<>> \in Seq(Indexed \union {Law})
      OBVIOUS
    <3>4. question \in Questions /\ question.hits = h /\ question.withdrawn = {} /\ question.held = {} /\ question.chunks = c
      BY <2>2, <3>1 DEF Searching!Asked, Questions
    <3>5. QED
      BY <2>2, <3>4 DEF IsAsked
  <2>3. ASSUME NEW h \in Searching!Hits, NEW c \in SUBSET (1..Paragraphs),
               question = Searching!Asked("order", {}, {}, <<>>, <<>>, {}, h, c \union Searching!Range(h))
        PROVE  IsAsked(question)
    <3>1. h \in Seq(Nat) /\ h \in Seq(1..Paragraphs)
      BY <1>6
    <3>2. \A x : x \in Searching!Range(h) <=> Has(h, x)
      BY <3>1, HasIsRange
    <3>3. Searching!Range(h) \in SUBSET (1..Paragraphs)
      <4> DEFINE P == 1..Paragraphs
      <4>1. h \in Seq(P)
        BY <3>1
      <4> HIDE DEF P
      <4>2. \A i \in 1..Len(h) : h[i] \in P
        BY ONLY <4>1
      <4>3. Searching!Range(h) \in SUBSET P
        BY ONLY <3>2, <4>2 DEF Has
      <4>4. QED
        BY <4>3 DEF P
    <3>4. IsFiniteSet(1..Paragraphs) /\ 1..Paragraphs \in SUBSET Nat
      BY SearchAssumption, FS_Interval
    <3>5. IsFiniteSet(c \union Searching!Range(h)) /\ c \union Searching!Range(h) \in SUBSET Nat
      BY <3>3, <3>4, FS_Subset
    <3>6. QED
      BY <2>2, <2>3, <3>1, <3>2, <3>5
  <2>4. CASE question = Searching!Asked("order", {}, {}, <<>>, <<>>, {}, <<1>>, {1})
    <3>1. <<1>> \in Seq(Nat) /\ {1} \in SUBSET Nat /\ \A x : Has(<<1>>, x) => x \in {1}
      BY DEF Has
    <3>2. IsFiniteSet({1})
      BY FS_Singleton
    <3>3. QED
      BY <2>2, <2>4, <3>1, <3>2
  <2>5. QED
    BY <2>1, <2>3, <2>4 DEF SearchStarts, Searching!SearchInit
<1>8. Chatted(question, answer)
  BY <1>2 DEF Chatted
<1>9. Passed(question, answer)
  BY <1>2 DEF Passed, Has
<1>10. Paged(question, answer)
  <2> DEFINE F == Searching!Fused(question)
  <2>1. F \in Seq(Indexed)
    BY <1>7, FusedHasAll
  <2> HIDE DEF F
  <2>2. First(F, 0) = <<>>
    BY <2>1, FirstIs
  <2>3. Only(<<>>, question.held) = <<>>
    <3>1. Only(<<>>, question.held) \in Seq(Indexed) /\ \A x : ~Has(Only(<<>>, question.held), x)
      <4>1. <<>> \in Seq(Indexed) /\ \A x : ~Has(<<>>, x)
        BY DEF Has
      <4>2. QED
        BY ONLY <4>1, OnlyHas
    <3> DEFINE e == Only(<<>>, question.held)
    <3> HIDE DEF e
    <3>2. e \in Seq(Indexed) /\ \A i \in 1..Len(e) : FALSE
      BY <3>1 DEF e, Has
    <3>3. Len(e) = 0
      BY <3>2
    <3>4. e = <<>>
      BY <3>2, <3>3
    <3>5. QED
      BY <3>4 DEF e
  <2>4. QED
    BY <1>2, <1>3, <2>2, <2>3 DEF Paged, F
<1>11. QED
  BY <1>2, <1>7, <1>8, <1>9, <1>10 DEF SearchSound

\* The best of what the retrievers found is in every answer.
LEMMA SearchHolds ==
  SearchStarts /\ [][Searching!SearchNext]_searchState
  => [](Searching!NothingFoundIsLost /\ Searching!SearchTypeOK)
<1> DEFINE I == SearchSound(question, answer)
<1>1. SearchStarts => I
  BY SearchBegins
<1>2. I /\ [Searching!SearchNext]_searchState => I'
  BY SearchStaysSound
<1>3. I => Searching!NothingFoundIsLost /\ Searching!SearchTypeOK
  BY SearchSays
<1> HIDE DEF I
<1>4. QED
  BY <1>1, <1>2, <1>3, PTL

-----------------------------------------------------------------------------
(***************************************************************************)
(* InventorySearch.                                                        *)
(***************************************************************************)
Shelved == 1..Shelf

\* The documents are finitely many numbers.
LEMMA ShelvedIs == Shelved = Inventory!Document /\ IsFiniteSet(Shelved) /\ Shelved \in SUBSET Nat
  BY InventoryAssumption, FS_Interval DEF Shelved, Inventory!Document

\* Sets are counted as the library counts them.
LEMMA InventoryCounts == \A S : Inventory!Cardinality(S) = Cardinality(S)
  BY DEF Inventory!Cardinality, Cardinality

\* The members of a sequence are what it has.
LEMMA MembersAre ==
  ASSUME NEW S, NEW s \in Seq(S)
  PROVE  \A x : x \in Inventory!Members(s) <=> Has(s, x)
BY DEF Inventory!Members, Has

\* Documents fall into one order, in which those that hold a term come first.
LEMMA OrderedHasAll ==
  ASSUME NEW ds \in SUBSET Shelved, NEW o, o = Inventory!Ordered(ds)
  PROVE  /\ o \in Seq(Shelved) /\ Len(o) = Cardinality(ds) /\ Cardinality(ds) \in Nat /\ Once(o)
         /\ \A x : Has(o, x) <=> x \in ds
         /\ \A i, j \in 1..Len(o) : i < j /\ o[j] \in inquiry.lexical => o[i] \in inquiry.lexical
<1> DEFINE N == Cardinality(ds)
           B(d, e) == Inventory!Before(d, e)
           R == {p \in ds \X ds : p[1] = p[2] \/ B(p[1], p[2])}
           Good(s) == \A i, j \in DOMAIN s : i < j => B(s[i], s[j])
<1>1. IsFiniteSet(ds) /\ N \in Nat
  BY ShelvedIs, FS_Subset, FS_CardinalityType
<1>2. o = CHOOSE s \in [1..N -> ds] : Good(s)
  BY InventoryCounts DEF Inventory!Ordered
<1>3. /\ \A x, y \in ds : x = y \/ B(x, y) \/ B(y, x)
      /\ \A x, y, z \in ds : B(x, y) /\ B(y, z) => B(x, z)
      /\ \A x \in ds : ~B(x, x)
      /\ \A x, y : B(x, y) /\ y \in inquiry.lexical => x \in inquiry.lexical
  <2>1. \A x \in ds : x \in Nat
    BY ShelvedIs
  <2> DEFINE lex(x) == x \in inquiry.lexical
             den(x) == x \in inquiry.dense
  <2>2. ASSUME NEW x, NEW y
        PROVE  B(x, y) <=> \/ lex(x) /\ ~lex(y)
                           \/ (lex(x) <=> lex(y)) /\ den(x) /\ ~den(y)
                           \/ (lex(x) <=> lex(y)) /\ (den(x) <=> den(y)) /\ x < y
    BY DEF Inventory!Before
  <2> HIDE DEF B, lex, den
  <2>3. ASSUME NEW x \in ds, NEW y \in ds
        PROVE  (x = y \/ B(x, y) \/ B(y, x)) /\ ~B(x, x)
    <3>1. x \in Nat /\ y \in Nat
      BY <2>1
    <3>2. QED
      BY <2>2, <3>1
  <2>4. ASSUME NEW x \in ds, NEW y \in ds, NEW z \in ds, B(x, y), B(y, z)
        PROVE  B(x, z)
    <3>1. x \in Nat /\ y \in Nat /\ z \in Nat
      BY <2>1
    <3>2. QED
      BY <2>2, <2>4, <3>1
  <2>5. \A x, y : B(x, y) /\ y \in inquiry.lexical => x \in inquiry.lexical
    BY <2>2 DEF lex
  <2>6. QED
    BY <2>3, <2>4, <2>5
<1> HIDE DEF N, B
<1>4. Total(R, ds) /\ Transitive(R, ds)
  <2>1. \A x, y \in ds : <<x, y>> \in R <=> x = y \/ B(x, y)
    OBVIOUS
  <2> HIDE DEF R
  <2>2. QED
    BY <1>3, <2>1 DEF Total, Transitive
<1>5. PICK s : InOrder(s, R, ds, N)
  <2> HIDE DEF R
  <2>1. QED
    BY <1>1, <1>4, PutInOrder DEF N
<1>6. s \in [1..N -> ds] /\ Good(s)
  <2>1. s \in [1..N -> ds] /\ DOMAIN s = 1..N
    BY <1>5 DEF InOrder
  <2>2. ASSUME NEW i \in 1..N, NEW j \in 1..N, i < j
        PROVE  B(s[i], s[j])
    <3>1. <<s[i], s[j]>> \in R
      BY <1>5, <2>2 DEF InOrder
    <3>2. s[i] # s[j]
      BY <1>1, <1>5, <2>2 DEF InOrder
    <3>3. QED
      BY <3>1, <3>2
  <2>3. QED
    BY <2>1, <2>2
<1>7. o \in [1..N -> ds] /\ Good(o)
  <2> HIDE DEF Good
  <2>1. QED
    BY <1>2, <1>6
<1>8. ASSUME NEW i \in 1..N, NEW j \in 1..N, o[i] = o[j]
      PROVE  i = j
  <2>1. o[i] \in ds /\ DOMAIN o = 1..N
    BY <1>7
  <2>2. ~(i < j) /\ ~(j < i)
    BY <1>3, <1>7, <1>8, <2>1
  <2>3. QED
    BY <1>1, <2>2
<1>9. o \in Seq(ds) /\ Len(o) = N /\ Once(o) /\ \A x : Has(o, x) <=> x \in ds
  BY <1>1, <1>7, <1>8, Enumerates DEF N
<1>10. \A i, j \in 1..N : i < j /\ o[j] \in inquiry.lexical => o[i] \in inquiry.lexical
  BY <1>3, <1>7
<1>11. o \in Seq(Shelved)
  BY <1>9
<1>12. QED
  BY <1>1, <1>9, <1>10, <1>11 DEF N

\* The first of them hold a term if any of the others does.
LEMMA FirstsAreBest ==
  ASSUME NEW ds \in SUBSET Shelved, NEW n \in Nat, NEW kept, kept = Inventory!Firsts(Inventory!Ordered(ds), n)
  PROVE  /\ kept \in Seq(Shelved) /\ Once(kept) /\ Len(kept) <= n
         /\ \A x : Has(kept, x) => x \in ds
         /\ \A d, e : d \in ds /\ ~Has(kept, d) /\ d \in inquiry.lexical /\ Has(kept, e) => e \in inquiry.lexical
         /\ (\E d \in ds : ~Has(kept, d)) => Len(kept) = n
<1> DEFINE o == Inventory!Ordered(ds)
<1>1. /\ o \in Seq(Shelved) /\ Once(o) /\ (\A x : Has(o, x) <=> x \in ds)
      /\ \A i, j \in 1..Len(o) : i < j /\ o[j] \in inquiry.lexical => o[i] \in inquiry.lexical
  BY OrderedHasAll
<1> HIDE DEF o
<1>2. kept = First(o, n)
  <2>1. Len(o) \in Nat /\ (IF Len(o) < n THEN Len(o) ELSE n) = (IF n < Len(o) THEN n ELSE Len(o))
    BY <1>1
  <2>2. kept = Inventory!Firsts(o, n)
    BY DEF o
  <2>3. QED
    BY <2>1, <2>2 DEF Inventory!Firsts, First, Searching!First
<1>3. /\ kept \in Seq(Shelved) /\ Len(kept) = (IF n < Len(o) THEN n ELSE Len(o))
      /\ \A i \in 1..Len(kept) : kept[i] = o[i]
  BY <1>1, <1>2, FirstIs
<1>4. Len(o) \in Nat /\ Len(kept) \in Nat /\ Len(kept) <= n /\ Len(kept) <= Len(o)
  BY <1>1, <1>3
<1>5. \A i \in 1..Len(kept) : i \in 1..Len(o)
  BY <1>4
<1>6. Once(kept)
  BY <1>1, <1>3, <1>5 DEF Once
<1>7. \A x : Has(kept, x) => x \in ds
  <2>1. \A x : Has(kept, x) => Has(o, x)
    BY <1>3, <1>5 DEF Has
  <2>2. QED
    BY <1>1, <2>1
<1>8. ASSUME NEW d \in ds, ~Has(kept, d)
      PROVE  \E j \in 1..Len(o) : o[j] = d /\ j > Len(kept)
  <2>1. PICK j \in 1..Len(o) : o[j] = d
    BY <1>1 DEF Has
  <2>2. j \notin 1..Len(kept)
    BY <1>3, <1>8, <2>1 DEF Has
  <2>3. QED
    BY <1>4, <2>1, <2>2
<1>9. ASSUME NEW d, NEW e, d \in ds, ~Has(kept, d), d \in inquiry.lexical, Has(kept, e)
      PROVE  e \in inquiry.lexical
  <2>1. PICK j \in 1..Len(o) : o[j] = d /\ j > Len(kept)
    BY <1>8, <1>9
  <2>2. PICK i \in 1..Len(kept) : kept[i] = e
    BY <1>9 DEF Has
  <2>3. i < j /\ i \in 1..Len(o) /\ o[i] = e
    BY <1>3, <1>4, <1>5, <2>1, <2>2
  <2>4. QED
    BY <1>1, <1>9, <2>1, <2>3
<1>10. ASSUME NEW d \in ds, ~Has(kept, d)
       PROVE  Len(kept) = n
  <2>1. PICK j \in 1..Len(o) : o[j] = d /\ j > Len(kept)
    BY <1>8, <1>10
  <2>2. QED
    BY <1>3, <1>4, <2>1
<1>11. QED
  BY <1>3, <1>4, <1>6, <1>7, <1>9, <1>10

Verdicts == {"included", "excluded", "undetermined"}
Words    == {"query", "other", "nothing"}
Inquiries ==
  [at : {"terms", "lexical", "dense", "union", "load", "judge", "cap", "hand", "end"},
   terms : SUBSET Words, failed : SUBSET Words, lexical : SUBSET Shelved, dense : SUBSET Shelved,
   listed : Seq(Shelved), cut : SUBSET Shelved, gone : SUBSET Shelved, judged : Nat, verdict : Seq(Verdicts),
   shown : Seq(Shelved), over : SUBSET Shelved, handed : SUBSET Shelved, small : SUBSET Shelved]

\* How far a search of the inventory has come.
AtFind == {"terms", "lexical", "dense", "union"}
AtList    == {"load", "judge", "cap", "hand", "end"}
AtHand    == {"hand", "end"}
Marked(q, v) == {q.listed[i] : i \in {n \in 1..Len(q.listed) : q.verdict[n] = v}}

\* What is found holds a term, or is near.
MatchedSound(q, sh) ==
  /\ q.at # "terms" => "query" \in q.terms
  /\ q.at \notin {"terms", "lexical"}
     => q.lexical = {d \in Shelved : sh[d].permitted /\ sh[d].says \in q.terms \ q.failed}
\* What was found is listed, cut or gone, and what was cut holds a term only if all that is listed does.
ListedSound(q) ==
  /\ Once(q.listed)
  /\ \A d : d \in q.lexical \/ d \in q.dense <=> Has(q.listed, d) \/ d \in q.cut \/ d \in q.gone
  /\ \A d : (Has(q.listed, d) => d \notin q.cut /\ d \notin q.gone) /\ (d \in q.cut => d \notin q.gone)
  /\ \A d, e : d \in q.cut /\ Has(q.listed, e) /\ d \in q.lexical => e \in q.lexical
  /\ q.cut # {} /\ q.gone = {} => Len(q.listed) = MostJudged
\* What is included is shown, or there were too many.
ShownSound(q, li) ==
  /\ Once(q.shown) /\ Len(q.shown) <= li
  /\ \A d : d \in Marked(q, "included") <=> Has(q.shown, d) \/ d \in q.over
  /\ \A d : Has(q.shown, d) => d \notin q.over
  /\ \A d, e : d \in q.over /\ Has(q.shown, e) /\ d \in q.lexical => e \in q.lexical
InventorySound(q, sh, li) ==
  /\ q \in Inquiries /\ sh \in [Shelved -> Holdings] /\ li \in Limits
  /\ MatchedSound(q, sh)
  /\ q.at \in AtFind => q.listed = <<>> /\ q.cut = {} /\ q.gone = {}
  /\ q.at \in AtList => ListedSound(q)
  /\ q.at = "load" => q.gone = {}
  /\ q.at \in {"judge", "cap", "hand", "end"} => Len(q.verdict) = Len(q.listed)
  /\ IF q.at \in AtHand THEN ShownSound(q, li) ELSE q.shown = <<>> /\ q.over = {}
  /\ q.at = "end" => /\ \A d \in q.handed : Has(q.shown, d)
                     /\ \A d : d \in q.small <=> Has(q.shown, d) /\ d \notin q.handed

\* A search of the inventory begins with nothing.
LEMMA InventoryBegins == Inventory!InventoryInit => InventorySound(inquiry, shelf, limit)
<1> SUFFICES ASSUME Inventory!InventoryInit
             PROVE  InventorySound(inquiry, shelf, limit)
  OBVIOUS
<1>1. shelf \in [Shelved -> Holdings] /\ limit \in Limits /\ inquiry = Inventory!NoInquiry
  BY ShelvedIs DEF Inventory!InventoryInit
<1>2. <<>> \in Seq(Shelved) /\ <<>> \in Seq(Verdicts)
  OBVIOUS
<1>3. inquiry \in Inquiries /\ inquiry.at = "terms" /\ inquiry.listed = <<>> /\ inquiry.cut = {}
      /\ inquiry.gone = {} /\ inquiry.shown = <<>> /\ inquiry.over = {}
  BY <1>1, <1>2 DEF Inquiries, Inventory!NoInquiry, Words
<1>4. QED
  BY <1>1, <1>3 DEF InventorySound, MatchedSound, AtFind, AtList, AtHand

\* What the search finds.
LEMMA Retrieval ==
  ASSUME InventorySound(inquiry, shelf, limit),
         Inventory!ResolveTerms \/ Inventory!MatchTerms \/ Inventory!ScoreChunks
  PROVE  InventorySound(inquiry', shelf', limit')
<1>1. /\ inquiry \in Inquiries /\ shelf \in [Shelved -> Holdings] /\ limit \in Limits /\ shelf' = shelf /\ limit' = limit
      /\ MatchedSound(inquiry, shelf)
      /\ inquiry.at \in AtFind => inquiry.listed = <<>> /\ inquiry.cut = {} /\ inquiry.gone = {}
      /\ inquiry.at \notin AtHand => inquiry.shown = <<>> /\ inquiry.over = {}
  BY DEF InventorySound, Inventory!ResolveTerms, Inventory!MatchTerms, Inventory!ScoreChunks, Inventory!Becomes
<1>2. SUFFICES /\ inquiry' \in Inquiries /\ inquiry'.at \in {"lexical", "dense", "union"}
               /\ MatchedSound(inquiry', shelf)
               /\ inquiry'.listed = <<>> /\ inquiry'.cut = {} /\ inquiry'.gone = {}
               /\ inquiry'.shown = <<>> /\ inquiry'.over = {}
  BY <1>1 DEF InventorySound, AtFind, AtList, AtHand
<1>3. CASE Inventory!ResolveTerms
  <2>1. PICK added \in {{}, {"other"}} : inquiry.at = "terms" /\ inquiry' = [inquiry EXCEPT !.at = "lexical", !.terms = {"query"} \union added]
    BY <1>3 DEF Inventory!ResolveTerms, Inventory!Becomes, Inventory!TermSet
  <2>2. {"query"} \union added \in SUBSET Words
    BY DEF Words
  <2>3. /\ inquiry' \in Inquiries /\ inquiry'.at = "lexical" /\ inquiry'.terms = {"query"} \union added
        /\ inquiry'.listed = inquiry.listed /\ inquiry'.cut = inquiry.cut /\ inquiry'.gone = inquiry.gone
        /\ inquiry'.shown = inquiry.shown /\ inquiry'.over = inquiry.over
    BY <1>1, <2>1, <2>2 DEF Inquiries
  <2>4. QED
    BY <1>1, <2>1, <2>3 DEF MatchedSound, AtFind, AtHand
<1>4. CASE Inventory!MatchTerms
  <2> DEFINE L(failed) == {d \in Shelved : shelf[d].permitted /\ shelf[d].says \in inquiry.terms \ failed}
  <2>1. PICK failed \in SUBSET {"query", "other"} :
          inquiry.at = "lexical" /\ inquiry' = [inquiry EXCEPT !.at = "dense", !.failed = failed, !.lexical = L(failed)]
    BY <1>4, ShelvedIs DEF Inventory!MatchTerms, Inventory!Becomes
  <2>2. failed \in SUBSET Words /\ L(failed) \in SUBSET Shelved
    BY DEF Words
  <2> DEFINE l == L(failed)
  <2>3. l = {d \in Shelved : shelf[d].permitted /\ shelf[d].says \in inquiry.terms \ failed} /\ l \in SUBSET Shelved
    BY <2>2
  <2>4. inquiry' = [inquiry EXCEPT !.at = "dense", !.failed = failed, !.lexical = l]
    BY <2>1
  <2> HIDE DEF l, L
  <2>5. /\ inquiry' \in Inquiries /\ inquiry'.at = "dense" /\ inquiry'.terms = inquiry.terms
        /\ inquiry'.failed = failed /\ inquiry'.lexical = l
        /\ inquiry'.listed = inquiry.listed /\ inquiry'.cut = inquiry.cut /\ inquiry'.gone = inquiry.gone
        /\ inquiry'.shown = inquiry.shown /\ inquiry'.over = inquiry.over
    BY <1>1, <2>2, <2>3, <2>4 DEF Inquiries
  <2>6. MatchedSound(inquiry', shelf)
    BY <1>1, <2>1, <2>3, <2>5 DEF MatchedSound
  <2>7. QED
    BY <1>1, <2>1, <2>5, <2>6 DEF AtFind, AtHand
<1>5. CASE Inventory!ScoreChunks
  <2> DEFINE D == Inventory!Nearest({d \in Inventory!Document : shelf[d].permitted /\ shelf[d].embedded})
  <2>1. inquiry.at = "dense" /\ inquiry' = [inquiry EXCEPT !.at = "union", !.dense = D]
    BY <1>5 DEF Inventory!ScoreChunks, Inventory!Becomes
  <2>2. D \in SUBSET Shelved
    BY ShelvedIs DEF Inventory!Nearest
  <2> HIDE DEF D
  <2>3. /\ inquiry' \in Inquiries /\ inquiry'.at = "union" /\ inquiry'.terms = inquiry.terms
        /\ inquiry'.failed = inquiry.failed /\ inquiry'.lexical = inquiry.lexical
        /\ inquiry'.listed = inquiry.listed /\ inquiry'.cut = inquiry.cut /\ inquiry'.gone = inquiry.gone
        /\ inquiry'.shown = inquiry.shown /\ inquiry'.over = inquiry.over
    BY <1>1, <2>1, <2>2 DEF Inquiries
  <2>4. QED
    BY <1>1, <2>1, <2>3 DEF MatchedSound, AtFind, AtHand
<1>6. QED
  BY <1>3, <1>4, <1>5

\* A sequence without repetitions is no longer than one that has all of its elements.
LEMMA OnceIsShort ==
  ASSUME NEW S, NEW s \in Seq(S), NEW t \in Seq(S), Once(s), \A x : Has(s, x) => Has(t, x)
  PROVE  Len(s) <= Len(t)
<1> DEFINE N == Len(s)
           P == Len(t)
           f == [i \in 1..N |-> CHOOSE j \in 1..P : t[j] = s[i]]
<1>1. N \in Nat /\ P \in Nat
  OBVIOUS
<1>2. ASSUME NEW i \in 1..N
      PROVE  f[i] \in 1..P /\ t[f[i]] = s[i]
  <2>1. \E j \in 1..P : t[j] = s[i]
    BY DEF Has
  <2>2. QED
    BY <2>1
<1>3. f \in [1..N -> 1..P]
  BY <1>2
<1> HIDE DEF f
<1>4. \A i, j \in 1..N : f[i] = f[j] => i = j
  BY <1>2 DEF Once
<1>5. IsFiniteSet(1..P) /\ Cardinality(1..P) = P /\ IsFiniteSet(1..N) /\ Cardinality(1..N) = N
  <2> HIDE DEF N, P
  <2>1. /\ IsFiniteSet(1..P) /\ Cardinality(1..P) = (IF 1 > P THEN 0 ELSE P - 1 + 1)
        /\ IsFiniteSet(1..N) /\ Cardinality(1..N) = (IF 1 > N THEN 0 ELSE N - 1 + 1)
    BY <1>1, FS_Interval
  <2>2. QED
    BY <1>1, <2>1
<1> HIDE DEF N, P
<1>6. N <= P
  <2>1. f \in Injection(1..N, 1..P)
    BY <1>3, <1>4 DEF Injection, IsInjective
  <2>2. Cardinality(1..N) <= Cardinality(1..P)
    BY <1>5, <2>1, FS_Injection
  <2>3. QED
    BY <1>5, <2>2
<1>7. QED
  BY <1>6 DEF N, P

\* What was found is listed, or cut.
LEMMA Uniting ==
  ASSUME InventorySound(inquiry, shelf, limit), Inventory!Unite
  PROVE  InventorySound(inquiry', shelf', limit')
<1> DEFINE ds   == inquiry.lexical \union inquiry.dense
           kept == Inventory!Firsts(Inventory!Ordered(ds), MostJudged)
           cut  == ds \ Inventory!Members(kept)
<1>1. /\ inquiry \in Inquiries /\ shelf \in [Shelved -> Holdings] /\ limit \in Limits /\ shelf' = shelf /\ limit' = limit
      /\ MatchedSound(inquiry, shelf) /\ inquiry.at = "union" /\ inquiry.gone = {}
      /\ inquiry.shown = <<>> /\ inquiry.over = {}
  BY DEF InventorySound, AtFind, AtHand, Inventory!Unite, Inventory!Becomes
<1>2. inquiry' = [inquiry EXCEPT !.at = "load", !.listed = kept, !.cut = cut]
  BY DEF Inventory!Unite, Inventory!Becomes, Inventory!Found
<1>3. ds \in SUBSET Shelved /\ MostJudged \in Nat
  BY <1>1, InventoryAssumption DEF Inquiries
<1>4. /\ kept \in Seq(Shelved) /\ Once(kept) /\ Len(kept) <= MostJudged
      /\ \A x : Has(kept, x) => x \in ds
      /\ \A d, e : d \in ds /\ ~Has(kept, d) /\ d \in inquiry.lexical /\ Has(kept, e) => e \in inquiry.lexical
      /\ (\E d \in ds : ~Has(kept, d)) => Len(kept) = MostJudged
  <2> HIDE DEF ds
  <2>1. QED
    BY <1>3, FirstsAreBest
<1>5. \A x : x \in cut <=> x \in ds /\ ~Has(kept, x)
  <2> HIDE DEF kept, ds
  <2>1. \A x : x \in Inventory!Members(kept) <=> Has(kept, x)
    BY <1>4, MembersAre
  <2>2. QED
    BY <2>1
<1> DEFINE l == inquiry.lexical
           n == inquiry.dense
<1>6. \A x : x \in ds <=> x \in l \/ x \in n
  OBVIOUS
<1> HIDE DEF cut, kept, ds
<1>7. cut \in SUBSET Shelved
  BY <1>3, <1>5
<1>8. /\ inquiry' \in Inquiries /\ inquiry'.at = "load" /\ inquiry'.terms = inquiry.terms
      /\ inquiry'.failed = inquiry.failed /\ inquiry'.lexical = l /\ inquiry'.dense = n
      /\ inquiry'.listed = kept /\ inquiry'.cut = cut /\ inquiry'.gone = {}
      /\ inquiry'.shown = <<>> /\ inquiry'.over = {}
  BY <1>1, <1>2, <1>4, <1>7 DEF Inquiries
<1>9. MatchedSound(inquiry', shelf)
  BY <1>1, <1>8 DEF MatchedSound
<1>10. ListedSound(inquiry')
  <2>1. \A x : Has(kept, x) => x \in l \/ x \in n
    BY ONLY <1>4, <1>6
  <2>2. \A d, e : (d \in l \/ d \in n) /\ ~Has(kept, d) /\ d \in l /\ Has(kept, e) => e \in l
    BY <1>4, <1>6
  <2>3. (\E d : (d \in l \/ d \in n) /\ ~Has(kept, d)) => Len(kept) = MostJudged
    BY ONLY <1>4, <1>6
  <2>4. \A x : x \in cut <=> (x \in l \/ x \in n) /\ ~Has(kept, x)
    BY ONLY <1>5, <1>6
  <2>5. \A x : (x \in l \/ x \in n) <=> Has(kept, x) \/ x \in cut \/ x \in {}
    BY ONLY <2>1, <2>4
  <2>6. \A d, e : d \in cut /\ Has(kept, e) /\ d \in l => e \in l
    BY ONLY <2>2, <2>4
  <2>7. cut # {} => Len(kept) = MostJudged
    BY ONLY <2>3, <2>4
  <2> HIDE DEF l, n
  <2>8. QED
    BY ONLY <1>4, <1>8, <2>4, <2>5, <2>6, <2>7 DEF ListedSound
<1>11. QED
  BY <1>1, <1>8, <1>9, <1>10 DEF InventorySound, AtFind, AtList, AtHand

\* What is there is listed in the order it was in.
LEMMA Loading ==
  ASSUME InventorySound(inquiry, shelf, limit), Inventory!LoadRecords
  PROVE  InventorySound(inquiry', shelf', limit')
<1>1. /\ inquiry \in Inquiries /\ shelf \in [Shelved -> Holdings] /\ limit \in Limits /\ shelf' = shelf /\ limit' = limit
      /\ MatchedSound(inquiry, shelf) /\ inquiry.at = "load" /\ inquiry.gone = {} /\ ListedSound(inquiry)
      /\ inquiry.shown = <<>> /\ inquiry.over = {}
  BY DEF InventorySound, AtFind, AtList, AtHand, Inventory!LoadRecords, Inventory!Becomes
<1> DEFINE s == inquiry.listed
           M == Inventory!Members(s)
           Kept(gone) == Inventory!Ordered(M \ gone)
           Blank(k) == [i \in 1..Len(k) |-> "undetermined"]
<1>2. PICK gone \in SUBSET M :
        inquiry' = [inquiry EXCEPT !.at = "judge", !.listed = Kept(gone), !.gone = gone, !.verdict = Blank(Kept(gone))]
  BY DEF Inventory!LoadRecords, Inventory!Becomes, Inventory!Unjudged
<1> DEFINE kept == Kept(gone)
<1>3. s \in Seq(Shelved) /\ \A x : x \in M <=> Has(s, x)
  <2>1. s \in Seq(Shelved)
    BY <1>1 DEF Inquiries
  <2> HIDE DEF s
  <2>2. QED
    BY <2>1, MembersAre
<1>4. M \ gone \in SUBSET Shelved
  <2> HIDE DEF M
  <2>1. \A x : Has(s, x) => x \in Shelved
    BY <1>3 DEF Has
  <2>2. QED
    BY <1>3, <2>1
<1> HIDE DEF s
<1>5. /\ kept \in Seq(Shelved) /\ Len(kept) = Cardinality(M \ gone) /\ Once(kept)
      /\ \A x : Has(kept, x) <=> x \in M \ gone
  <2> HIDE DEF M
  <2>1. QED
    BY <1>4, OrderedHasAll
<1>6. inquiry' = [inquiry EXCEPT !.at = "judge", !.listed = kept, !.gone = gone, !.verdict = Blank(kept)]
  BY <1>2
<1> DEFINE v == Blank(kept)
<1>7. v \in Seq(Verdicts) /\ Len(v) = Len(kept)
  BY <1>5 DEF Verdicts
<1>8. \A x : Has(kept, x) <=> Has(s, x) /\ x \notin gone
  BY <1>3, <1>5
<1>9. \A x : x \in gone => Has(s, x)
  BY <1>2, <1>3
<1>10. gone = {} => Len(kept) = Len(s)
  <2>1. SUFFICES ASSUME gone = {}
                 PROVE  Len(kept) = Len(s)
    OBVIOUS
  <2>2. Once(s)
    BY <1>1 DEF ListedSound, s
  <2>3. Len(kept) <= Len(s)
    BY <1>3, <1>5, <1>8, OnceIsShort
  <2>4. Len(s) <= Len(kept)
    BY <1>3, <1>5, <1>8, <2>1, <2>2, OnceIsShort
  <2>5. Len(kept) \in Nat /\ Len(s) \in Nat
    BY <1>3, <1>5
  <2>6. QED
    BY <2>3, <2>4, <2>5
<1>11. gone \in SUBSET Shelved
  BY <1>3, <1>9 DEF Has
<1> HIDE DEF M, kept, v
<1>12. /\ inquiry' \in Inquiries /\ inquiry'.at = "judge" /\ inquiry'.terms = inquiry.terms
       /\ inquiry'.failed = inquiry.failed /\ inquiry'.lexical = inquiry.lexical /\ inquiry'.dense = inquiry.dense
       /\ inquiry'.listed = kept /\ inquiry'.cut = inquiry.cut /\ inquiry'.gone = gone
       /\ inquiry'.shown = <<>> /\ inquiry'.over = {} /\ inquiry'.verdict = v
  BY <1>1, <1>5, <1>6, <1>7, <1>11 DEF Inquiries, v
<1>13. MatchedSound(inquiry', shelf)
  BY <1>1, <1>12 DEF MatchedSound
<1> DEFINE l == inquiry.lexical
           n == inquiry.dense
           c == inquiry.cut
<1>14. ListedSound(inquiry')
  <2>1. /\ \A d : d \in l \/ d \in n <=> Has(s, d) \/ d \in c
        /\ \A d : Has(s, d) => d \notin c
        /\ \A d, e : d \in c /\ Has(s, e) /\ d \in l => e \in l
        /\ c # {} => Len(s) = MostJudged
    BY <1>1 DEF ListedSound, s
  <2>2. \A d : d \in l \/ d \in n <=> Has(kept, d) \/ d \in c \/ d \in gone
    BY ONLY <1>8, <1>9, <2>1
  <2>3. \A d : (Has(kept, d) => d \notin c /\ d \notin gone) /\ (d \in c => d \notin gone)
    BY ONLY <1>8, <1>9, <2>1
  <2>4. \A d, e : d \in c /\ Has(kept, e) /\ d \in l => e \in l
    BY ONLY <1>8, <2>1
  <2>5. c # {} /\ gone = {} => Len(kept) = MostJudged
    BY ONLY <1>10, <2>1
  <2> HIDE DEF l, n, c
  <2>6. /\ inquiry'.lexical = l /\ inquiry'.dense = n /\ inquiry'.cut = c
    BY <1>12 DEF l, n, c
  <2>7. QED
    BY ONLY <1>5, <1>12, <2>2, <2>3, <2>4, <2>5, <2>6 DEF ListedSound
<1>15. QED
  BY <1>1, <1>7, <1>12, <1>13, <1>14 DEF InventorySound, AtFind, AtList, AtHand

\* The judge takes nothing from the list.
LEMMA Adjudicating ==
  ASSUME InventorySound(inquiry, shelf, limit), Inventory!JudgeBatch \/ Inventory!SkipJudge \/ Inventory!JudgeEnds
  PROVE  InventorySound(inquiry', shelf', limit')
<1> DEFINE s == inquiry.listed
           N == 1..Len(s)
<1>1. /\ inquiry \in Inquiries /\ shelf \in [Shelved -> Holdings] /\ limit \in Limits /\ shelf' = shelf /\ limit' = limit
      /\ MatchedSound(inquiry, shelf) /\ inquiry.at = "judge" /\ ListedSound(inquiry)
      /\ inquiry.shown = <<>> /\ inquiry.over = {} /\ Len(inquiry.verdict) = Len(s)
  BY DEF InventorySound, AtFind, AtList, AtHand, Inventory!JudgeBatch, Inventory!SkipJudge, Inventory!JudgeEnds,
         Inventory!Becomes
<1>2. s \in Seq(Shelved) /\ inquiry.verdict \in Seq(Verdicts) /\ inquiry.judged \in Nat /\ Len(s) \in Nat
  BY <1>1 DEF Inquiries
<1>3. \A i \in N : inquiry.verdict[i] \in Verdicts
  BY <1>1, <1>2
<1>4. \E v, j, at : /\ v \in [N -> Verdicts] /\ j \in Nat /\ at \in {"judge", "cap"}
                    /\ inquiry' = [inquiry EXCEPT !.at = at, !.judged = j, !.verdict = v]
  <2>1. CASE Inventory!JudgeBatch
    <3>1. \E v : v \in [N -> Verdicts] /\ inquiry' = [inquiry EXCEPT !.judged = @ + PerCall, !.verdict = v]
      <4>1. PICK v \in {Inventory!Unanswered}
                       \union UNION {{Inventory!Answered(named, yes) : yes \in SUBSET named} : named \in SUBSET Inventory!Numbers} :
              inquiry' = [inquiry EXCEPT !.judged = @ + PerCall, !.verdict = v]
        BY <2>1 DEF Inventory!JudgeBatch, Inventory!Becomes
      <4>2. Inventory!Unanswered \in [N -> Verdicts]
        BY <1>3 DEF Inventory!Unanswered, Inventory!Numbers, Inventory!Unjudged, Verdicts
      <4>3. \A named, yes : Inventory!Answered(named, yes) \in [N -> Verdicts]
        BY <1>3 DEF Inventory!Answered, Inventory!Numbers, Inventory!Unjudged, Verdicts
      <4>4. v = Inventory!Unanswered \/ \E named, yes : v = Inventory!Answered(named, yes)
        BY <4>1
      <4>5. v \in [N -> Verdicts]
        BY <4>2, <4>3, <4>4
      <4>6. QED
        BY <4>1, <4>5
    <3>2. PICK v : v \in [N -> Verdicts] /\ inquiry' = [inquiry EXCEPT !.judged = @ + PerCall, !.verdict = v]
      BY <3>1
    <3>3. inquiry.judged + PerCall \in Nat
      BY <1>2, InventoryAssumption
    <3> HIDE DEF N
    <3>4. inquiry' = [inquiry EXCEPT !.at = "judge", !.judged = inquiry.judged + PerCall, !.verdict = v]
      BY <1>1, <3>2 DEF Inquiries
    <3>5. QED
      BY <3>2, <3>3, <3>4
  <2>2. CASE Inventory!SkipJudge
    <3> DEFINE v == [i \in N |-> "included"]
    <3>1. inquiry' = [inquiry EXCEPT !.at = "cap", !.verdict = v]
      BY <2>2 DEF Inventory!SkipJudge, Inventory!Becomes, Inventory!Numbers
    <3>2. v \in [N -> Verdicts]
      BY DEF Verdicts
    <3> HIDE DEF v
    <3>3. inquiry' = [inquiry EXCEPT !.at = "cap", !.judged = inquiry.judged, !.verdict = v]
      BY <1>1, <3>1 DEF Inquiries
    <3>4. QED
      BY <1>2, <3>2, <3>3
  <2>3. CASE Inventory!JudgeEnds
    <3>1. inquiry' = [inquiry EXCEPT !.at = "cap"]
      BY <2>3 DEF Inventory!JudgeEnds, Inventory!Becomes
    <3>2. inquiry.verdict \in [N -> Verdicts]
      BY <1>1, <1>2
    <3>3. inquiry' = [inquiry EXCEPT !.at = "cap", !.judged = inquiry.judged, !.verdict = inquiry.verdict]
      BY <1>1, <3>1 DEF Inquiries
    <3>4. QED
      BY <1>2, <3>2, <3>3
  <2>4. QED
    BY <2>1, <2>2, <2>3
<1>5. PICK v, j, at : /\ v \in [N -> Verdicts] /\ j \in Nat /\ at \in {"judge", "cap"}
                      /\ inquiry' = [inquiry EXCEPT !.at = at, !.judged = j, !.verdict = v]
  BY <1>4
<1>6. v \in Seq(Verdicts) /\ Len(v) = Len(s)
  BY <1>2, <1>5
<1>7. /\ inquiry' \in Inquiries /\ inquiry'.at = at /\ inquiry'.terms = inquiry.terms
      /\ inquiry'.failed = inquiry.failed /\ inquiry'.lexical = inquiry.lexical /\ inquiry'.dense = inquiry.dense
      /\ inquiry'.listed = s /\ inquiry'.cut = inquiry.cut /\ inquiry'.gone = inquiry.gone
      /\ inquiry'.shown = <<>> /\ inquiry'.over = {} /\ inquiry'.verdict = v
  BY <1>1, <1>5, <1>6 DEF Inquiries
<1>8. MatchedSound(inquiry', shelf)
  BY <1>1, <1>5, <1>7 DEF MatchedSound
<1>9. ListedSound(inquiry')
  BY <1>1, <1>7 DEF ListedSound
<1>10. QED
  BY <1>1, <1>5, <1>6, <1>7, <1>8, <1>9 DEF InventorySound, AtFind, AtList, AtHand

\* What is included is shown, or there were too many.
LEMMA Capping ==
  ASSUME InventorySound(inquiry, shelf, limit), Inventory!CapResults
  PROVE  InventorySound(inquiry', shelf', limit')
<1> DEFINE J == Marked(inquiry, "included")
           kept == Inventory!Firsts(Inventory!Ordered(J), limit)
           over == J \ Inventory!Members(kept)
<1>1. /\ inquiry \in Inquiries /\ shelf \in [Shelved -> Holdings] /\ limit \in Limits /\ shelf' = shelf /\ limit' = limit
      /\ MatchedSound(inquiry, shelf) /\ inquiry.at = "cap" /\ ListedSound(inquiry)
      /\ Len(inquiry.verdict) = Len(inquiry.listed)
  BY DEF InventorySound, AtList, Inventory!CapResults, Inventory!Becomes
<1>2. inquiry' = [inquiry EXCEPT !.at = "hand", !.shown = kept, !.over = over]
  BY DEF Inventory!CapResults, Inventory!Becomes, Inventory!Judged, Inventory!Numbers, Marked
<1>3. J \in SUBSET Shelved /\ limit \in Nat
  BY <1>1, InventoryAssumption DEF Inquiries, Marked
<1> HIDE DEF J
<1>4. /\ kept \in Seq(Shelved) /\ Once(kept) /\ Len(kept) <= limit
      /\ \A x : Has(kept, x) => x \in J
      /\ \A d, e : d \in J /\ ~Has(kept, d) /\ d \in inquiry.lexical /\ Has(kept, e) => e \in inquiry.lexical
  BY <1>3, FirstsAreBest
<1>5. \A x : x \in over <=> x \in J /\ ~Has(kept, x)
  <2> HIDE DEF kept
  <2>1. \A x : x \in Inventory!Members(kept) <=> Has(kept, x)
    BY <1>4, MembersAre
  <2>2. QED
    BY <2>1
<1> HIDE DEF over, kept
<1>6. over \in SUBSET Shelved
  BY <1>3, <1>5
<1>7. /\ inquiry' \in Inquiries /\ inquiry'.at = "hand" /\ inquiry'.terms = inquiry.terms
      /\ inquiry'.failed = inquiry.failed /\ inquiry'.lexical = inquiry.lexical /\ inquiry'.dense = inquiry.dense
      /\ inquiry'.listed = inquiry.listed /\ inquiry'.cut = inquiry.cut /\ inquiry'.gone = inquiry.gone
      /\ inquiry'.shown = kept /\ inquiry'.over = over /\ inquiry'.verdict = inquiry.verdict
  BY <1>1, <1>2, <1>4, <1>6 DEF Inquiries
<1>8. MatchedSound(inquiry', shelf)
  BY <1>1, <1>7 DEF MatchedSound
<1>9. ListedSound(inquiry')
  BY <1>1, <1>7 DEF ListedSound
<1>10. ShownSound(inquiry', limit)
  <2>1. Marked(inquiry', "included") = J
    BY <1>7 DEF Marked, J
  <2>2. /\ \A d : d \in J <=> Has(kept, d) \/ d \in over
        /\ \A d : Has(kept, d) => d \notin over
        /\ \A d, e : d \in over /\ Has(kept, e) /\ d \in inquiry.lexical => e \in inquiry.lexical
    BY ONLY <1>4, <1>5
  <2>3. QED
    BY ONLY <1>4, <1>7, <2>1, <2>2 DEF ShownSound
<1>11. QED
  BY <1>1, <1>7, <1>8, <1>9, <1>10 DEF InventorySound, AtFind, AtList, AtHand

\* What is handed on is of what is shown.
LEMMA FitsAreShown ==
  ASSUME NEW s \in Seq(Shelved), shelf \in [Shelved -> Holdings]
  PROVE  \A x \in Inventory!Fits(s) : Has(s, x)
<1> DEFINE N == Len(s)
           M == {x \in Shelved : Has(s, x)}
           S == [ds : SUBSET M, spent : Nat]
           b == [ds |-> {}, spent |-> 0]
           cost(k) == shelf[s[k]].takes
           Then(k, t) == IF t.ds # {} /\ t.spent + cost(k) > Room THEN t
                         ELSE [ds |-> t.ds \union {s[k]}, spent |-> t.spent + cost(k)]
           F == [k \in Nat |-> [t \in S |-> IF k \in 1..N THEN Then(k, t) ELSE t]]
           taken[n \in 0..N] == IF n = 0 THEN b ELSE Then(n, taken[n - 1])
<1>1. N \in Nat /\ \A k \in 1..N : s[k] \in M /\ cost(k) \in Nat
  <2>1. \A k \in 1..N : s[k] \in Shelved /\ s[k] \in M
    BY DEF Has
  <2>2. \A k \in 1..N : shelf[s[k]] \in Holdings
    BY <2>1
  <2>3. \A h \in Holdings : h.takes \in Nat
    BY InventoryAssumption
  <2>4. QED
    BY <2>1, <2>2, <2>3
<1>2. b \in S
  OBVIOUS
<1> HIDE DEF M, cost
<1>3. \A k \in 1..N, t \in S : Then(k, t) \in S
  BY <1>1
<1> HIDE DEF N, Then, b
<1>4. F \in [Nat -> [S -> S]]
  BY <1>3
<1> HIDE DEF F
<1>5. PICK g \in [0..N -> S] : StepByStep(g, b, F, N)
  <2> HIDE DEF S, taken
  <2>1. QED
    BY <1>1, <1>2, <1>4, Iterates
<1>6. g[0] = b /\ \A k \in 1..N : g[k] = Then(k, g[k - 1])
  <2> HIDE DEF S, taken
  <2>1. ASSUME NEW k \in 1..N
        PROVE  g[k] = Then(k, g[k - 1])
    <3>1. k \in Nat /\ k - 1 \in 0..N
      BY <1>1
    <3>2. g[k - 1] \in S
      BY <3>1
    <3>3. g[k] = F[k][g[k - 1]]
      BY <1>5 DEF StepByStep
    <3>4. QED
      BY <3>1, <3>2, <3>3 DEF F
  <2>2. QED
    BY <1>5, <2>1 DEF StepByStep
<1>7. g = [n \in 0..N |-> IF n = 0 THEN b ELSE Then(n, g[n - 1])]
  <2> HIDE DEF S, taken
  <2>1. \A n \in 0..N : n = 0 \/ n \in 1..N
    BY <1>1
  <2>2. QED
    BY <1>6, <2>1
<1>8. taken = [n \in 0..N |-> IF n = 0 THEN b ELSE Then(n, taken[n - 1])]
  <2> HIDE DEF S
  <2>1. QED
    BY <1>7
<1>9. Inventory!Fits(s) = taken[N].ds
  BY DEF Inventory!Fits, N, Then, b, cost
<1> HIDE DEF taken, S
<1>10. taken[N] = g[N]
  <2> DEFINE T == {n \in 0..N : taken[n] = g[n]}
  <2>1. 0 \in 0..N /\ \A n \in 1..N : n \in 0..N /\ n # 0
    BY <1>1
  <2>2. 0 \in T
    BY <1>6, <1>8, <2>1
  <2>3. ASSUME NEW k \in 1..N, k - 1 \in T
        PROVE  k \in T
    BY <1>6, <1>8, <2>1, <2>3
  <2> HIDE DEF T
  <2>4. N \in T
    BY <1>1, <2>2, <2>3, Throughout
  <2>5. QED
    BY <2>4 DEF T
<1>11. g[N].ds \in SUBSET M
  <2>1. N \in 0..N
    BY <1>1
  <2>2. g[N] \in S
    BY <1>5, <2>1
  <2>3. QED
    BY <2>2 DEF S
<1>12. Inventory!Fits(s) \in SUBSET M
  BY <1>9, <1>10, <1>11
<1>13. QED
  BY <1>12 DEF M

\* What is shown is handed on, or was too long.
LEMMA HandingOn ==
  ASSUME InventorySound(inquiry, shelf, limit), Inventory!HandOn
  PROVE  InventorySound(inquiry', shelf', limit')
<1> DEFINE s == inquiry.shown
           fits == Inventory!Fits(s)
           small == Inventory!Members(s) \ fits
<1>1. /\ inquiry \in Inquiries /\ shelf \in [Shelved -> Holdings] /\ limit \in Limits /\ shelf' = shelf /\ limit' = limit
      /\ MatchedSound(inquiry, shelf) /\ inquiry.at = "hand" /\ ListedSound(inquiry) /\ ShownSound(inquiry, limit)
      /\ Len(inquiry.verdict) = Len(inquiry.listed)
  BY DEF InventorySound, AtList, AtHand, Inventory!HandOn, Inventory!Becomes
<1>2. inquiry' = [inquiry EXCEPT !.at = "end", !.handed = fits, !.small = small]
  BY DEF Inventory!HandOn, Inventory!Becomes
<1>3. s \in Seq(Shelved)
  BY <1>1 DEF Inquiries
<1>4. \A x \in fits : Has(s, x)
  <2> HIDE DEF s
  <2>1. QED
    BY <1>1, <1>3, FitsAreShown
<1>5. \A x : x \in small <=> Has(s, x) /\ x \notin fits
  <2> HIDE DEF s, fits
  <2>1. \A x : x \in Inventory!Members(s) <=> Has(s, x)
    BY <1>3, MembersAre
  <2>2. QED
    BY <2>1
<1> HIDE DEF fits, small
<1>6. \A x : Has(s, x) => x \in Shelved
  BY <1>3 DEF Has
<1>7. fits \in SUBSET Shelved /\ small \in SUBSET Shelved
  BY <1>4, <1>5, <1>6
<1>8. /\ inquiry' \in Inquiries /\ inquiry'.at = "end" /\ inquiry'.terms = inquiry.terms
      /\ inquiry'.failed = inquiry.failed /\ inquiry'.lexical = inquiry.lexical /\ inquiry'.dense = inquiry.dense
      /\ inquiry'.listed = inquiry.listed /\ inquiry'.cut = inquiry.cut /\ inquiry'.gone = inquiry.gone
      /\ inquiry'.shown = s /\ inquiry'.over = inquiry.over /\ inquiry'.verdict = inquiry.verdict
      /\ inquiry'.handed = fits /\ inquiry'.small = small
  BY <1>1, <1>2, <1>7 DEF Inquiries
<1>9. MatchedSound(inquiry', shelf)
  BY <1>1, <1>8 DEF MatchedSound
<1>10. ListedSound(inquiry')
  BY <1>1, <1>8 DEF ListedSound
<1>11. ShownSound(inquiry', limit)
  BY <1>1, <1>8 DEF ShownSound, Marked
<1> HIDE DEF s
<1>12. (\A d \in fits : Has(s, d)) /\ \A d : d \in small <=> Has(s, d) /\ d \notin fits
  BY <1>4, <1>5
<1>13. QED
  BY <1>1, <1>8, <1>9, <1>10, <1>11, <1>12 DEF InventorySound, AtFind, AtList, AtHand

\* Every step keeps what is known of a search.
LEMMA InventoryStaysSound ==
  ASSUME InventorySound(inquiry, shelf, limit), [Inventory!InventoryNext]_askState
  PROVE  InventorySound(inquiry', shelf', limit')
<1>1. CASE UNCHANGED askState
  BY <1>1 DEF askState
<1>2. CASE Inventory!InventoryNext
  BY <1>2, Retrieval, Uniting, Loading, Adjudicating, Capping, HandingOn DEF Inventory!InventoryNext
<1>3. QED
  BY <1>1, <1>2

\* What the invariant says of the list.
LEMMA InventorySays ==
  ASSUME InventorySound(inquiry, shelf, limit)
  PROVE  /\ Inventory!InventoryTypeOK
         /\ Inventory!TermsComeFirst /\ Inventory!EveryCandidateIsAccountedFor /\ Inventory!CompleteIsComplete
<1> DEFINE s == inquiry.listed
           t == inquiry.shown
           J(v) == Marked(inquiry, v)
<1>1. /\ inquiry \in Inquiries /\ shelf \in [Shelved -> Holdings] /\ limit \in Limits
      /\ MatchedSound(inquiry, shelf)
      /\ inquiry.at \in AtFind => s = <<>> /\ inquiry.cut = {} /\ inquiry.gone = {}
      /\ inquiry.at \in AtList => ListedSound(inquiry)
      /\ inquiry.at \in {"judge", "cap", "hand", "end"} => Len(inquiry.verdict) = Len(s)
      /\ IF inquiry.at \in AtHand THEN ShownSound(inquiry, limit) ELSE t = <<>> /\ inquiry.over = {}
      /\ inquiry.at = "end" => /\ \A d \in inquiry.handed : Has(t, d)
                               /\ \A d : d \in inquiry.small <=> Has(t, d) /\ d \notin inquiry.handed
  BY DEF InventorySound
<1>2. /\ s \in Seq(Shelved) /\ t \in Seq(Shelved) /\ inquiry.verdict \in Seq(Verdicts)
      /\ inquiry.at \in AtFind \union AtList /\ AtHand \in SUBSET AtList
  BY <1>1 DEF Inquiries, AtFind, AtList, AtHand
<1>3. \A x : (x \in Inventory!Members(s) <=> Has(s, x)) /\ (x \in Inventory!Members(t) <=> Has(t, x))
  <2> HIDE DEF s, t
  <2>1. QED
    BY <1>2, MembersAre
<1>4. \A v : Inventory!Judged(v) = J(v)
  BY DEF Inventory!Judged, Inventory!Numbers, Marked
<1>5. ASSUME NEW v, NEW x
      PROVE  x \in J(v) <=> \E i \in 1..Len(s) : s[i] = x /\ inquiry.verdict[i] = v
  BY DEF Marked
<1>6. Inventory!InventoryTypeOK
  <2>1. \A i \in DOMAIN inquiry.verdict : inquiry.verdict[i] \in Verdicts
    BY <1>2
  <2>2. QED
    BY <1>1, <2>1, ShelvedIs DEF Inventory!InventoryTypeOK, Inquiries, Verdicts, Inventory!Unjudged
<1>7. Inventory!TermsComeFirst
  <2>1. \A d \in inquiry.cut, e \in Inventory!Members(s) : d \in inquiry.lexical => e \in inquiry.lexical
    BY <1>1, <1>2, <1>3 DEF ListedSound
  <2>2. \A d \in inquiry.over, e \in Inventory!Members(t) : d \in inquiry.lexical => e \in inquiry.lexical
    BY <1>1, <1>3 DEF ShownSound
  <2>3. ASSUME inquiry.at \in {"union", "load", "judge", "cap", "hand", "end"}, "query" \notin inquiry.failed,
               NEW d \in Shelved, shelf[d].permitted, shelf[d].says = "query"
        PROVE  d \in inquiry.lexical
    BY <1>1, <2>3 DEF MatchedSound
  <2>4. QED
    BY <2>1, <2>2, <2>3, ShelvedIs DEF Inventory!TermsComeFirst, Inventory!Holds, Inventory!Found
<1>8. ASSUME inquiry.at \in AtHand
      PROVE  /\ ListedSound(inquiry) /\ ShownSound(inquiry, limit)
             /\ \A x : Has(s, x) <=> x \in J("included") \/ x \in J("excluded") \/ x \in J("undetermined")
             /\ \A v, w, x : x \in J(v) /\ x \in J(w) => v = w
  <2>1. ListedSound(inquiry) /\ ShownSound(inquiry, limit) /\ Len(inquiry.verdict) = Len(s)
    BY <1>1, <1>2, <1>8 DEF AtHand
  <2>2. \A i \in 1..Len(s) : inquiry.verdict[i] \in Verdicts
    BY <1>2, <2>1
  <2> HIDE DEF J
  <2>3. \A x : Has(s, x) <=> x \in J("included") \/ x \in J("excluded") \/ x \in J("undetermined")
    BY <1>5, <2>2 DEF Has, Verdicts
  <2>4. ASSUME NEW v, NEW w, NEW x, x \in J(v), x \in J(w)
        PROVE  v = w
    <3>1. PICK i \in 1..Len(s) : s[i] = x /\ inquiry.verdict[i] = v
      BY <1>5, <2>4
    <3>2. PICK j \in 1..Len(s) : s[j] = x /\ inquiry.verdict[j] = w
      BY <1>5, <2>4
    <3>3. i = j
      BY <2>1, <3>1, <3>2 DEF ListedSound, Once
    <3>4. QED
      BY <3>1, <3>2, <3>3
  <2>5. QED
    BY <2>1, <2>3, <2>4
<1>9. Inventory!EveryCandidateIsAccountedFor
  <2> DEFINE parts == <<Inventory!Members(t), J("excluded"), J("undetermined"), inquiry.over, inquiry.cut, inquiry.gone>>
  <2>1. SUFFICES ASSUME inquiry.at \in AtHand
                 PROVE  /\ \A i, j \in DOMAIN parts : i < j => parts[i] \intersect parts[j] = {}
                        /\ UNION {parts[i] : i \in DOMAIN parts} = Inventory!Found
    BY <1>4 DEF Inventory!EveryCandidateIsAccountedFor, AtHand, Inventory!Unjudged
  <2> DEFINE a == parts[1]  b == parts[2]  c == parts[3]  d == parts[4]  e == parts[5]  f == parts[6]
  <2>2. /\ \A x : x \in J("included") <=> x \in a \/ x \in d
        /\ \A x : x \in a => x \notin d
    BY <1>3, <1>8, <2>1 DEF ShownSound
  <2>3. /\ \A x : x \in Inventory!Found <=> Has(s, x) \/ x \in e \/ x \in f
        /\ \A x : (Has(s, x) => x \notin e /\ x \notin f) /\ (x \in e => x \notin f)
    BY <1>8, <2>1 DEF ListedSound, Inventory!Found
  <2>4. /\ \A x : Has(s, x) <=> x \in J("included") \/ x \in b \/ x \in c
        /\ \A x : ~(x \in J("included") /\ x \in b) /\ ~(x \in J("included") /\ x \in c) /\ ~(x \in b /\ x \in c)
    BY <1>8, <2>1 DEF Verdicts
  <2>5. DOMAIN parts = 1..6
    OBVIOUS
  <2>6. /\ a \intersect b = {} /\ a \intersect c = {} /\ a \intersect d = {} /\ a \intersect e = {} /\ a \intersect f = {}
        /\ b \intersect c = {} /\ b \intersect d = {} /\ b \intersect e = {} /\ b \intersect f = {}
        /\ c \intersect d = {} /\ c \intersect e = {} /\ c \intersect f = {}
        /\ d \intersect e = {} /\ d \intersect f = {} /\ e \intersect f = {}
    <3> DEFINE I == J("included")
    <3> HIDE DEF parts, s, I
    <3>1. QED
      BY <2>2, <2>3, <2>4 DEF I
  <2>7. \A x : x \in Inventory!Found <=> x \in a \/ x \in b \/ x \in c \/ x \in d \/ x \in e \/ x \in f
    <3> DEFINE I == J("included")
    <3> HIDE DEF parts, s, I
    <3>1. QED
      BY <2>2, <2>3, <2>4 DEF I
  <2> HIDE DEF parts
  <2>8. \A i \in DOMAIN parts : i = 1 \/ i = 2 \/ i = 3 \/ i = 4 \/ i = 5 \/ i = 6
    BY <2>5
  <2>9. \A i, j \in DOMAIN parts : i < j => parts[i] \intersect parts[j] = {}
    BY <2>6, <2>8
  <2>10. UNION {parts[i] : i \in DOMAIN parts} = Inventory!Found
    BY <2>5, <2>7, <2>8
  <2>11. QED
    BY <2>9, <2>10
<1>10. Inventory!CompleteIsComplete
  <2>1. SUFFICES ASSUME inquiry.at = "end", Inventory!Complete, J("included") = Inventory!Members(s),
                        limit < MostJudged \/ inquiry.cut = {}, inquiry.gone = {}
                 PROVE  inquiry.handed = Inventory!Found
    BY <1>4 DEF Inventory!CompleteIsComplete
  <2>2. /\ ListedSound(inquiry) /\ ShownSound(inquiry, limit)
        /\ \A d \in inquiry.handed : Has(t, d)
        /\ \A d : d \in inquiry.small <=> Has(t, d) /\ d \notin inquiry.handed
    BY <1>1, <1>8, <2>1 DEF AtHand
  <2>3. inquiry.over = {} /\ inquiry.small = {}
    <3>1. IsFiniteSet(inquiry.over) /\ IsFiniteSet(inquiry.small)
      BY <1>1, ShelvedIs, FS_Subset DEF Inquiries
    <3>2. Cardinality(inquiry.over) \in Nat /\ Cardinality(inquiry.small) \in Nat
      BY <3>1, FS_CardinalityType
    <3>3. Cardinality(inquiry.over) + Cardinality(inquiry.small) = 0
      BY <2>1, InventoryCounts DEF Inventory!Complete
    <3>4. QED
      BY <3>1, <3>2, <3>3, FS_EmptySet
  <2>4. \A x : Has(s, x) <=> Has(t, x)
    BY <1>3, <2>1, <2>2, <2>3 DEF ShownSound
  <2>5. inquiry.cut = {}
    <3>1. SUFFICES ASSUME inquiry.cut # {}
                   PROVE  FALSE
      OBVIOUS
    <3>2. Once(s) /\ Len(s) = MostJudged /\ limit < MostJudged /\ Len(t) <= limit
      BY <2>1, <2>2, <3>1 DEF ListedSound, ShownSound
    <3>3. limit \in Nat /\ MostJudged \in Nat /\ Len(t) \in Nat
      BY <1>1, <1>2, InventoryAssumption
    <3> HIDE DEF s, t
    <3>4. Len(s) <= Len(t)
      BY <1>2, <2>4, <3>2, OnceIsShort
    <3>5. QED
      BY <3>2, <3>3, <3>4
  <2>6. \A x : x \in Inventory!Found <=> x \in inquiry.handed
    BY <2>1, <2>2, <2>3, <2>4, <2>5 DEF ListedSound, Inventory!Found
  <2>7. QED
    BY <2>6
<1>11. QED
  BY <1>6, <1>7, <1>9, <1>10

\* Whatever an inventory does not list is accounted for.
LEMMA InventoryHolds ==
  Inventory!InventoryInit /\ [][Inventory!InventoryNext]_askState
  => [](/\ Inventory!InventoryTypeOK
        /\ Inventory!TermsComeFirst /\ Inventory!EveryCandidateIsAccountedFor /\ Inventory!CompleteIsComplete)
<1> DEFINE I == InventorySound(inquiry, shelf, limit)
<1>1. Inventory!InventoryInit => I
  BY InventoryBegins
<1>2. I /\ [Inventory!InventoryNext]_askState => I'
  BY InventoryStaysSound
<1>3. I => /\ Inventory!InventoryTypeOK
           /\ Inventory!TermsComeFirst /\ Inventory!EveryCandidateIsAccountedFor /\ Inventory!CompleteIsComplete
  BY InventorySays
<1> HIDE DEF I
<1>4. QED
  BY <1>1, <1>2, <1>3, PTL

-----------------------------------------------------------------------------
(***************************************************************************)
(* RelationGraph.  `graph` goes to a circular once, and comes to all that  *)
(* relate to it.                                                           *)
(***************************************************************************)
Hops    == Corpus \X Nat
Plan    == [mode : {"graph", "batch", "job", "none"}, todo : Seq(Corpus), depth : Nat, limit : Nat, refresh : BOOLEAN]
DriverStates ==
  [at : {"reading", "off", "next", "around", "deriving", "ended", "stopped"}, plan : Plan, queue : Seq(Hops),
   seen : SUBSET Hops, now : Hops \union {<<>>}, count : Nat, deletes : BOOLEAN, failed : SUBSET Corpus]
CircularsOf(hops) == {s[1] : s \in hops}
Queued(w, c)    == \E i \in 1..Len(w.queue) : w.queue[i][1] = c

\* Neither of two circulars names the other, as far as those outside F say.
Unrelated(F, L, c, e) == (c \notin F => \A x \in L[c] : x.to # e) /\ (e \notin F => \A x \in L[e] : x.to # c)
Within(w, s) == w.plan.depth = 0 \/ s[2] < w.plan.depth
LeftBehind(w, s) == w.at \in {"reading", "around"} => s # w.now

DriverTyped(w) ==
  /\ w \in DriverStates
  /\ w.at \in {"reading", "around"} => w.now \in Hops
  /\ w.at \in {"next", "reading", "around"} => w.plan.mode # "none"
  /\ w.plan.mode = "graph" /\ w.at \in {"reading", "around"} => w.now \in w.seen
  /\ w.plan.mode # "graph" => w.seen = {} /\ w.at # "around"
  /\ w.at = "ended" => w.queue = <<>>
\* Each circular is gone through once, and is no farther than so many were before it.
EachOnce(w) ==
  /\ \A s, t \in w.seen : s[1] = t[1] => s = t
  /\ \A s \in w.seen : s[2] < Cardinality(CircularsOf(w.seen))
  /\ \A i \in 1..Len(w.queue) : w.queue[i][2] <= Cardinality(CircularsOf(w.seen))
Grasps(w, G) ==
  \A s \in w.seen : s[1] \in G \/ s[1] \in w.failed \/ s[1] \in Textless \/ (w.at = "reading" /\ s = w.now)
ComesToAll(w, F, L) ==
  w.plan.mode = "graph" /\ w.plan.limit = 0
  => \A s \in w.seen : LeftBehind(w, s) /\ Within(w, s)
       => \A c \in Corpus : c \in CircularsOf(w.seen) \/ Queued(w, c) \/ Unrelated(F, L, s[1], c)
DriverSound(w, F, L, G) == DriverTyped(w) /\ EachOnce(w) /\ Grasps(w, G) /\ ComesToAll(w, F, L)

GraphTyped ==
  /\ links \in [Corpus -> SUBSET Relating!Row] /\ grasped \in SUBSET Corpus
  /\ status \in [Corpus -> {"active", "amended", "superseded"}]
  /\ keeper \in Relating!Drivers \union {"nobody"} /\ slips \in 0..SlipBound
  /\ DOMAIN driver = Relating!Drivers /\ DOMAIN foreign = Relating!Drivers
GraphSound == GraphTyped /\ \A d \in Relating!Drivers : DriverSound(driver[d], foreign[d], links, grasped)

\* A hop is a circular and its distance.
LEMMA HopsAre ==
  /\ \A h \in Hops : h[1] \in Corpus /\ h[2] \in Nat /\ h = <<h[1], h[2]>>
  /\ \A c \in Corpus, n \in Nat : <<c, n>> \in Hops /\ <<c, n>>[1] = c /\ <<c, n>>[2] = n
  /\ <<>> \notin Hops
BY DEF Hops

\* There are finitely many circulars, and a plan is of them.
LEMMA GraphGiven ==
  /\ IsFiniteSet(Corpus) /\ Cardinality(Corpus) \in Nat /\ "nobody" \notin Relating!Drivers
  /\ \A S \in SUBSET Corpus : IsFiniteSet(S) /\ Cardinality(S) \in Nat /\ Cardinality(S) <= Cardinality(Corpus)
  /\ \A d \in Relating!Drivers : \A p \in Plans[d] : p \in Plan /\ p.mode # "none"
<1>1. IsFiniteSet(Corpus) /\ Cardinality(Corpus) \in Nat
  BY GraphAssumption, FS_CardinalityType DEF Corpus, Relating!Corpus
<1>2. \A S \in SUBSET Corpus : IsFiniteSet(S) /\ Cardinality(S) \in Nat /\ Cardinality(S) <= Cardinality(Corpus)
  BY <1>1, FS_Subset, FS_CardinalityType
<1>3. ASSUME NEW d \in Relating!Drivers, NEW p \in Plans[d]
      PROVE  p \in Plan /\ p.mode # "none"
  BY GraphAssumption DEF Corpus, Relating!Corpus, Relating!Drivers, Plan
<1>4. QED
  BY <1>1, <1>2, <1>3, GraphAssumption DEF Relating!Drivers

\* What another does takes no hold of it.
LEMMA OthersDriveOn ==
  ASSUME NEW w, NEW F, NEW L, NEW G, NEW F2, NEW L2, NEW G2, DriverSound(w, F, L, G),
         F \subseteq F2, G \subseteq G2, \A c \in Corpus \ F2 : L2[c] \subseteq L[c]
  PROVE  DriverSound(w, F2, L2, G2)
<1>1. Grasps(w, G2)
  BY DEF DriverSound, Grasps
<1>2. ASSUME NEW s \in w.seen, NEW c \in Corpus, Unrelated(F, L, s[1], c)
      PROVE  Unrelated(F2, L2, s[1], c)
  <2>1. s[1] \in Corpus
    BY HopsAre DEF DriverSound, DriverTyped, DriverStates
  <2>2. QED
    BY <1>2, <2>1 DEF Unrelated
<1>3. ComesToAll(w, F2, L2)
  BY <1>2 DEF DriverSound, ComesToAll
<1>4. QED
  BY <1>1, <1>3 DEF DriverSound

\* Nothing is to be known of a driver that has not begun, or has died.
LEMMA NobodyDrives ==
  ASSUME NEW w, NEW F, NEW L, NEW G, w = Relating!NoDriver \/ w = Relating!Stopped
  PROVE  DriverSound(w, F, L, G)
<1>1. /\ w.plan.mode = "none" /\ w.seen = {} /\ w.queue = <<>> /\ w.at \in {"off", "stopped"}
      /\ w \in DriverStates
  <2> DEFINE E  == <<>>
             T  == Seq(Corpus)
             Q  == Seq(Hops)
             p  == Relating!NoPlan
             o  == Relating!NoDriver
  <2>1. E \in T /\ E \in Q
    OBVIOUS
  <2>2. p = [mode |-> "none", todo |-> E, depth |-> 0, limit |-> 0, refresh |-> FALSE]
    BY DEF Relating!NoPlan
  <2>3. p \in Plan /\ p.mode = "none"
    <3> HIDE DEF E, p
    <3>1. E \in Seq(Corpus)
      BY <2>1
    <3> HIDE DEF T
    <3>2. QED
      BY <2>2, <3>1 DEF Plan
  <2>4. o = [at |-> "off", plan |-> p, queue |-> E, seen |-> {}, now |-> E, count |-> 0, deletes |-> FALSE,
             failed |-> {}]
    BY DEF Relating!NoDriver
  <2>5. DriverStates = [at : {"reading", "off", "next", "around", "deriving", "ended", "stopped"}, plan : Plan, queue : Q,
                        seen : SUBSET Hops, now : Hops \union {E}, count : Nat, deletes : BOOLEAN, failed : SUBSET Corpus]
    BY DEF DriverStates
  <2> HIDE DEF E, T, Q, p, o
  <2>6. o \in DriverStates /\ o.plan = p /\ o.seen = {} /\ o.queue = E /\ o.at = "off"
    <3>1. o.plan = p /\ o.seen = {} /\ o.queue = E /\ o.at = "off"
      BY <2>4
    <3>2. o \in DriverStates
      BY <2>1, <2>3, <2>4, <2>5
    <3>3. QED
      BY <3>1, <3>2
  <2>7. w.plan = p /\ w.seen = {} /\ w.queue = E /\ w.at \in {"off", "stopped"} /\ w \in DriverStates
    <3>1. w = o \/ w = [o EXCEPT !.at = "stopped"]
      BY DEF Relating!Stopped, o
    <3>2. QED
      BY <2>5, <2>6, <3>1
  <2>8. QED
    BY <2>3, <2>7 DEF E
<1>2. QED
  BY <1>1 DEF DriverSound, DriverTyped, EachOnce, Grasps, ComesToAll

\* All drivers are off in the beginning.
LEMMA GraphStarts == Relating!GraphInit => GraphSound
<1> SUFFICES ASSUME Relating!GraphInit
             PROVE  GraphSound
  OBVIOUS
<1>1. GraphTyped
  <2>1. links = [c \in Corpus |-> {}] /\ grasped = {} /\ status = [c \in Corpus |-> "active"]
    BY DEF Relating!GraphInit, Corpus
  <2>2. DOMAIN driver = Relating!Drivers /\ DOMAIN foreign = Relating!Drivers /\ keeper = "nobody"
    BY DEF Relating!GraphInit, Relating!NobodyYet
  <2>3. slips \in 0..SlipBound
    BY GraphAssumption DEF Relating!GraphInit
  <2>4. QED
    BY <2>1, <2>2, <2>3 DEF GraphTyped
<1>2. \A d \in Relating!Drivers : driver[d] = Relating!NoDriver
  BY DEF Relating!GraphInit
<1>3. QED
  BY <1>1, <1>2, NobodyDrives DEF GraphSound

\* One driver takes a step, and the others go on.
LEMMA OneDrives ==
  ASSUME GraphSound, GraphTyped', NEW d \in Relating!Drivers, NEW w,
         driver' = [driver EXCEPT ![d] = w],
         \A e \in Relating!Drivers \ {d} :
           foreign[e] \subseteq foreign'[e] /\ \A c \in Corpus \ foreign'[e] : links'[c] \subseteq links[c],
         grasped \subseteq grasped',
         DriverSound(w, foreign'[d], links', grasped')
  PROVE  GraphSound'
<1>1. driver'[d] = w /\ \A e \in Relating!Drivers \ {d} : driver'[e] = driver[e]
  BY DEF GraphSound, GraphTyped
<1>2. ASSUME NEW e \in Relating!Drivers
      PROVE  DriverSound(driver'[e], foreign'[e], links', grasped')
  <2>1. CASE e = d
    BY <1>1, <2>1
  <2>2. CASE e # d
    <3>1. driver'[e] = driver[e] /\ DriverSound(driver[e], foreign[e], links, grasped)
      BY <1>1, <2>2 DEF GraphSound
    <3>2. foreign[e] \subseteq foreign'[e] /\ \A c \in Corpus \ foreign'[e] : links'[c] \subseteq links[c]
      BY <2>2
    <3>3. DriverSound(driver[e], foreign'[e], links', grasped')
      BY <3>1, <3>2, OthersDriveOn
    <3>4. QED
      BY <3>1, <3>3
  <2>3. QED
    BY <2>1, <2>2
<1>3. QED
  BY <1>2 DEF GraphSound

\* What is to be gone to is of the circulars there are.
LEMMA WantedTyped ==
  ASSUME NEW s \in Seq(Corpus), NEW T
  PROVE  Relating!Wanted(s, T) \in Seq(Corpus)
<1>1. Relating!Wanted(s, T) = Only(s, T)
  BY DEF Relating!Wanted, Only, Searching!Only
<1>2. QED
  BY <1>1, OnlyHas

\* A driver begins with what its plan names.
LEMMA Starting ==
  ASSUME GraphSound, NEW d \in Relating!Drivers, NEW p \in Plans[d], Relating!Start(d, p)
  PROVE  GraphSound'
<1> DEFINE wants == {c \in Corpus : \/ p.mode = "graph" /\ Len(p.todo) = 1
                                    \/ /\ c \notin Textless
                                       /\ \/ p.refresh \/ p.mode = "job"
                                          \/ IF p.mode = "batch" THEN links[c] = {} ELSE c \notin grasped}
           todo  == Relating!Wanted(p.todo, wants)
           Begun(t) == [i \in DOMAIN t |-> <<t[i], 0>>]
           o == Relating!NoDriver
           w == [o EXCEPT !.at = "next", !.plan = p, !.queue = Begun(todo)]
<1>1. driver' = [driver EXCEPT ![d] = w] /\ UNCHANGED <<grasped, status, keeper, foreign, slips>>
  BY DEF Relating!Start, Relating!Move, Corpus
<1>2. \E S : links' = [c \in Corpus |-> IF c \in S THEN {} ELSE links[c]]
  <2>1. links' = [c \in Corpus |-> IF p.mode = "batch" /\ p.refresh /\ c \in Relating!Range(p.todo) THEN {} ELSE links[c]]
    BY DEF Relating!Start, Corpus
  <2>2. links' = [c \in Corpus |-> IF c \in {e \in Corpus : p.mode = "batch" /\ p.refresh /\ e \in Relating!Range(p.todo)}
                                   THEN {} ELSE links[c]]
    BY <2>1
  <2>3. QED
    BY <2>2
<1>3. PICK S : links' = [c \in Corpus |-> IF c \in S THEN {} ELSE links[c]]
  BY <1>2
<1>4. p \in Plan /\ p.mode # "none"
  BY GraphGiven
<1>5. todo \in Seq(Corpus)
  <2>1. p.todo \in Seq(Corpus)
    BY <1>4 DEF Plan
  <2> HIDE DEF wants
  <2>2. QED
    BY <2>1, WantedTyped
<1> HIDE DEF todo
<1> DEFINE q == Begun(todo)
<1>6. q \in Seq(Hops) /\ \A i \in 1..Len(q) : q[i][2] = 0
  <2>1. \A i \in 1..Len(todo) : todo[i] \in Corpus
    BY <1>5
  <2>2. \A i \in 1..Len(todo) : <<todo[i], 0>> \in Hops /\ <<todo[i], 0>>[2] = 0
    BY <2>1, HopsAre
  <2>3. DOMAIN todo = 1..Len(todo) /\ Len(todo) \in Nat
    BY <1>5
  <2>4. QED
    BY <2>2, <2>3
<1>7. GraphTyped'
  BY <1>1, <1>3 DEF GraphSound, GraphTyped
<1>8. o \in DriverStates /\ o.seen = {}
  <2>1. DriverSound(o, {}, {}, {})
    BY NobodyDrives
  <2>2. o \in DriverStates
    BY <2>1 DEF DriverSound, DriverTyped
  <2>3. QED
    BY <2>2 DEF Relating!NoDriver
<1> HIDE DEF o, q, Begun
<1>9. w = [o EXCEPT !.at = "next", !.plan = p, !.queue = q]
  BY DEF q
<1> HIDE DEF w
<1>10. w \in DriverStates /\ w.at = "next" /\ w.plan = p /\ w.queue = q /\ w.seen = {}
  <2> DEFINE Q == Seq(Hops)
  <2>1. q \in Q
    BY <1>6
  <2>2. DriverStates = [at : {"reading", "off", "next", "around", "deriving", "ended", "stopped"}, plan : Plan, queue : Q,
                        seen : SUBSET Hops, now : Hops \union {<<>>}, count : Nat, deletes : BOOLEAN, failed : SUBSET Corpus]
    BY DEF DriverStates
  <2> HIDE DEF Q
  <2>3. QED
    BY <1>4, <1>8, <1>9, <2>1, <2>2
<1>11. DriverSound(w, foreign'[d], links', grasped')
  <2>1. DriverTyped(w)
    BY <1>4, <1>10 DEF DriverTyped
  <2>2. EachOnce(w)
    <3>1. CircularsOf(w.seen) = {} /\ Cardinality({}) = 0
      BY <1>10, FS_EmptySet DEF CircularsOf
    <3>2. Cardinality(CircularsOf(w.seen)) = 0
      BY <3>1
    <3>3. \A i \in 1..Len(w.queue) : w.queue[i][2] = 0
      BY <1>6, <1>10
    <3>4. \A i \in 1..Len(w.queue) : w.queue[i][2] <= 0
      BY ONLY <3>3
    <3>5. w.seen = {}
      BY <1>10
    <3>6. QED
      BY ONLY <3>2, <3>4, <3>5 DEF EachOnce
  <2>3. QED
    BY <1>10, <2>1, <2>2 DEF DriverSound, Grasps, ComesToAll
<1>12. \A c \in Corpus : links'[c] \subseteq links[c]
  BY <1>3
<1>13. QED
  BY <1>1, <1>7, <1>11, <1>12, OneDrives

\* What a driver that goes on is like.
LEMMA DriverFields ==
  ASSUME NEW w \in DriverStates
  PROVE  /\ w.queue \in Seq(Hops) /\ w.seen \in SUBSET Hops /\ w.failed \in SUBSET Corpus /\ w.plan \in Plan /\ w.count \in Nat
         /\ w.deletes \in BOOLEAN
         /\ \A s \in w.seen : s[1] \in Corpus /\ s[2] \in Nat
         /\ \A i \in 1..Len(w.queue) : w.queue[i] \in Hops
         /\ CircularsOf(w.seen) \in SUBSET Corpus /\ Len(w.queue) \in Nat
         /\ IsFiniteSet(CircularsOf(w.seen)) /\ Cardinality(CircularsOf(w.seen)) \in Nat
         /\ Cardinality(CircularsOf(w.seen)) <= Cardinality(Corpus)
<1>1. w.queue \in Seq(Hops) /\ w.seen \in SUBSET Hops /\ w.failed \in SUBSET Corpus /\ w.plan \in Plan /\ w.count \in Nat
      /\ w.deletes \in BOOLEAN
  BY DEF DriverStates
<1>2. \A s \in w.seen : s[1] \in Corpus /\ s[2] \in Nat
  BY <1>1, HopsAre
<1>3. (\A i \in 1..Len(w.queue) : w.queue[i] \in Hops) /\ Len(w.queue) \in Nat
  <2> DEFINE q == w.queue
  <2>1. q \in Seq(Hops)
    BY <1>1
  <2> HIDE DEF q
  <2>2. (\A i \in 1..Len(q) : q[i] \in Hops) /\ Len(q) \in Nat
    BY <2>1
  <2>3. QED
    BY <2>2 DEF q
<1>4. CircularsOf(w.seen) \in SUBSET Corpus
  BY <1>2 DEF CircularsOf
<1>5. QED
  BY <1>1, <1>2, <1>3, <1>4, GraphGiven

\* The head of the queue is passed over if it was gone to, and is gone to otherwise.
LEMMA GoingTo ==
  ASSUME GraphSound, NEW d \in Relating!Drivers, Relating!Next1(d)
  PROVE  GraphSound'
<1> DEFINE w  == driver[d]
           q  == w.queue
           h  == q[1]
           r  == Tail(q)
           graph == w.plan.mode = "graph"
           reads == ~graph \/ (h[1] \notin Textless /\ (w.plan.refresh \/ h[1] \notin grasped))
           deletes == graph /\ w.plan.refresh /\ h[1] \in grasped /\ h[1] \notin Textless
           skip == graph /\ \E s \in w.seen : s[1] = h[1]
           w1 == [w EXCEPT !.queue = r]
           w2 == [w EXCEPT !.queue = r, !.now = h, !.seen = IF graph THEN w.seen \union {h} ELSE w.seen, !.deletes = deletes,
                           !.at = IF reads THEN "reading" ELSE "around"]
           F == foreign[d]
<1>1. w.at = "next" /\ q # <<>> /\ UNCHANGED <<links, grasped, status, foreign, slips>>
  BY DEF Relating!Next1
<1>2. GraphTyped /\ DriverSound(w, F, links, grasped) /\ w \in DriverStates
  BY DEF GraphSound, DriverSound, DriverTyped
<1>3. IF skip THEN driver' = [driver EXCEPT ![d] = w1] /\ UNCHANGED keeper
      ELSE keeper' = (IF deletes THEN d ELSE keeper) /\ driver' = [driver EXCEPT ![d] = w2]
  <2>1. CASE skip
    BY <2>1 DEF Relating!Next1, Relating!Move
  <2>2. CASE ~skip
    <3>1. keeper' = (IF deletes THEN d ELSE keeper)
      BY <2>2 DEF Relating!Next1
    <3> DEFINE rest == [w EXCEPT !.queue = Tail(@), !.now = w.queue[1]]
               w3 == [rest EXCEPT !.seen = IF w.plan.mode = "graph" THEN @ \union {w.queue[1]} ELSE @, !.deletes = deletes,
                                  !.at = IF reads THEN "reading" ELSE "around"]
    <3>2. driver' = [driver EXCEPT ![d] = w3]
      BY <2>2 DEF Relating!Next1, Relating!Move
    <3>3. w3 = w2
      <4> HIDE DEF w, reads, deletes
      <4>1. rest = [w EXCEPT !.queue = r, !.now = h]
        OBVIOUS
      <4> DEFINE R == rest
      <4>2. R.seen = w.seen
        BY <1>2, <4>1 DEF DriverStates
      <4> HIDE DEF r, h
      <4>3. QED
        BY <1>2, <4>1, <4>2 DEF DriverStates
    <3>4. QED
      BY <2>2, <3>1, <3>2, <3>3
  <2>3. QED
    BY <2>1, <2>2
<1>4. /\ q \in Seq(Hops) /\ Len(q) \in Nat /\ Len(q) > 0 /\ h \in Hops /\ h[1] \in Corpus /\ h[2] \in Nat
      /\ r \in Seq(Hops) /\ Len(r) = Len(q) - 1 /\ \A i \in 1..Len(r) : i + 1 \in 1..Len(q) /\ r[i] = q[i + 1]
  <2>1. q \in Seq(Hops)
    BY <1>2, DriverFields
  <2> HIDE DEF q
  <2>2. Len(q) \in Nat /\ Len(q) > 0 /\ h \in Hops
    BY <1>1, <2>1
  <2>3. r \in Seq(Hops) /\ Len(r) = Len(q) - 1 /\ \A i \in 1..Len(r) : i + 1 \in 1..Len(q) /\ r[i] = q[i + 1]
    BY <1>1, <2>1, <2>2
  <2>4. QED
    BY <2>1, <2>2, <2>3, HopsAre
<1> DEFINE C == CircularsOf(w.seen)
           n == Cardinality(C)
<1>5. /\ C \in SUBSET Corpus /\ n \in Nat /\ IsFiniteSet(C) /\ w.seen \in SUBSET Hops
      /\ \A s \in w.seen : s[1] \in Corpus /\ s[2] \in Nat
  BY <1>2, DriverFields
<1>6. h[2] <= n /\ \A i \in 1..Len(r) : r[i][2] <= n
  <2>1. \A i \in 1..Len(q) : q[i][2] <= n
    BY <1>2 DEF DriverSound, EachOnce
  <2> HIDE DEF q, n, r
  <2>2. 1 \in 1..Len(q)
    BY <1>4
  <2>3. h[2] <= n
    BY <2>1, <2>2
  <2>4. QED
    BY <1>4, <2>1, <2>3
<1>7. \A c : Queued(w, c) => c = h[1] \/ \E i \in 1..Len(r) : r[i][1] = c
  <2> SUFFICES ASSUME NEW c, NEW i \in 1..Len(q), q[i][1] = c, c # h[1]
               PROVE  \E j \in 1..Len(r) : r[j][1] = c
    BY DEF Queued
  <2> HIDE DEF q, r
  <2>1. i # 1
    OBVIOUS
  <2>2. i - 1 \in 1..Len(r) /\ (i - 1) + 1 = i
    BY <1>4, <2>1
  <2>3. r[i - 1] = q[i]
    BY <1>4, <2>2
  <2>4. QED
    BY <2>2, <2>3
<1> HIDE DEF h, r, q
<1>8. CASE skip
  <2>1. driver' = [driver EXCEPT ![d] = w1] /\ UNCHANGED keeper /\ h[1] \in C /\ graph
    BY <1>3, <1>8 DEF CircularsOf
  <2>2. /\ w1 \in DriverStates /\ w1.at = "next" /\ w1.plan = w.plan /\ w1.queue = r /\ w1.seen = w.seen
        /\ w1.failed = w.failed
    <3> DEFINE Q == Seq(Hops)
    <3>1. r \in Q
      BY <1>4
    <3> HIDE DEF w, Q
    <3>2. DriverStates = [at : {"reading", "off", "next", "around", "deriving", "ended", "stopped"}, plan : Plan, queue : Q,
                          seen : SUBSET Hops, now : Hops \union {<<>>}, count : Nat, deletes : BOOLEAN, failed : SUBSET Corpus]
      BY DEF DriverStates, Q
    <3>3. QED
      BY <1>1, <1>2, <3>1, <3>2 DEF w
  <2> HIDE DEF w1, w, C
  <2>3. GraphTyped'
    BY <1>1, <1>2, <2>1 DEF GraphTyped
  <2>4. DriverSound(w1, F, links, grasped)
    <3>1. DriverTyped(w1) /\ Grasps(w1, grasped)
      BY <1>1, <1>2, <2>1, <2>2 DEF DriverSound, DriverTyped, Grasps, w
    <3>2. EachOnce(w1)
      BY <1>2, <1>6, <2>2 DEF DriverSound, EachOnce, n, C
    <3>3. \A c : Queued(w, c) => c \in C \/ Queued(w1, c)
      BY <1>7, <2>1, <2>2 DEF Queued
    <3>4. ComesToAll(w1, F, links)
      BY <1>1, <1>2, <2>2, <3>3 DEF DriverSound, ComesToAll, LeftBehind, Within, C, w
    <3>5. QED
      BY <3>1, <3>2, <3>4 DEF DriverSound
  <2>5. QED
    BY <1>1, <2>1, <2>3, <2>4, OneDrives
<1>9. CASE ~skip
  <2> DEFINE S == IF graph THEN w.seen \union {h} ELSE w.seen
             at == IF reads THEN "reading" ELSE "around"
  <2>1. driver' = [driver EXCEPT ![d] = w2] /\ keeper' = (IF deletes THEN d ELSE keeper) /\ (graph => h[1] \notin C)
    BY <1>3, <1>9 DEF CircularsOf
  <2>2. w2 = [w EXCEPT !.queue = r, !.now = h, !.seen = S, !.deletes = deletes, !.at = at]
    OBVIOUS
  <2>3. S \in SUBSET Hops /\ at \in {"reading", "around"} /\ deletes \in BOOLEAN
    BY <1>4, <1>5
  <2>4. at = "around" => graph /\ h[1] \in grasped \union Textless
    OBVIOUS
  <2>5. ~graph => w.seen = {}
    BY <1>2 DEF DriverSound, DriverTyped
  <2>6. w.plan.mode # "none"
    BY <1>1, <1>2 DEF DriverSound, DriverTyped
  <2> HIDE DEF w2, S, at, deletes
  <2>7. /\ w2 \in DriverStates /\ w2.at = at /\ w2.plan = w.plan /\ w2.queue = r /\ w2.seen = S
        /\ w2.failed = w.failed /\ w2.now = h
    <3> DEFINE Q == Seq(Hops)
    <3>1. r \in Q
      BY <1>4
    <3> HIDE DEF w, Q
    <3>2. DriverStates = [at : {"reading", "off", "next", "around", "deriving", "ended", "stopped"}, plan : Plan, queue : Q,
                          seen : SUBSET Hops, now : Hops \union {<<>>}, count : Nat, deletes : BOOLEAN, failed : SUBSET Corpus]
      BY DEF DriverStates, Q
    <3>3. QED
      BY <1>2, <1>4, <2>2, <2>3, <3>1, <3>2 DEF w
  <2>8. GraphTyped'
    BY <1>1, <1>2, <2>1 DEF GraphTyped
  <2> DEFINE D == CircularsOf(S)
             m == Cardinality(D)
  <2>9. /\ D = IF graph THEN C \union {h[1]} ELSE C
        /\ m = IF graph THEN n + 1 ELSE n
    <3>1. D = IF graph THEN C \union {h[1]} ELSE C
      BY DEF S, CircularsOf
    <3> HIDE DEF D, C
    <3>2. graph => Cardinality(C \union {h[1]}) = Cardinality(C) + 1
      BY <1>5, <2>1, FS_AddElement
    <3>3. QED
      BY <3>1, <3>2
  <2> HIDE DEF D, m, w, C, n, graph
  <2>10. DriverTyped(w2)
    BY <2>3, <2>4, <2>5, <2>6, <2>7, <1>4 DEF DriverTyped, S, graph
  <2>11. EachOnce(w2)
    <3>1. /\ \A s, t \in w.seen : s[1] = t[1] => s = t
          /\ \A s \in w.seen : s[2] < n /\ s[1] \in C
      BY <1>2 DEF DriverSound, EachOnce, C, n, CircularsOf
    <3>2. \A s, t \in S : s[1] = t[1] => s = t
      BY <2>1, <3>1 DEF S
    <3>3. \A s \in S : s[2] < m
      <4> SUFFICES ASSUME NEW s \in S
                   PROVE  s[2] < m
        OBVIOUS
      <4>1. CASE s \in w.seen
        <5>1. s[2] \in Nat /\ s[2] < n
          BY <1>5, <3>1, <4>1
        <5>2. QED
          BY <1>5, <2>9, <5>1
      <4>2. CASE s \notin w.seen
        <5>1. s = h /\ graph
          BY <4>2 DEF S
        <5>2. QED
          BY <1>4, <1>5, <1>6, <2>9, <5>1
      <4>3. QED
        BY <4>1, <4>2
    <3>4. \A i \in 1..Len(r) : r[i][2] <= m
      <4> SUFFICES ASSUME NEW i \in 1..Len(r)
                   PROVE  r[i][2] <= m
        OBVIOUS
      <4>1. r[i] \in Hops
        BY <1>4
      <4>2. r[i][2] \in Nat /\ r[i][2] <= n
        BY <1>6, <4>1, HopsAre
      <4>3. QED
        BY ONLY <1>5, <2>9, <4>2
    <3>5. m = Cardinality(CircularsOf(w2.seen)) /\ w2.seen = S /\ w2.queue = r
      BY <2>7 DEF m, D
    <3>6. QED
      BY ONLY <3>2, <3>3, <3>4, <3>5 DEF EachOnce
  <2>12. Grasps(w2, grasped)
    <3>1. \A s \in w.seen : s[1] \in grasped \/ s[1] \in w.failed \/ s[1] \in Textless
      BY <1>1, <1>2 DEF DriverSound, Grasps, w
    <3>2. \A s \in S : s \in w.seen \/ s = h
      BY DEF S
    <3>3. at = "reading" \/ (at = "around" /\ h[1] \in grasped \union Textless)
      BY <2>3, <2>4
    <3>4. QED
      BY ONLY <2>7, <3>1, <3>2, <3>3 DEF Grasps
  <2>13. ComesToAll(w2, F, links)
    <3>1. \A c : Queued(w, c) => c = h[1] \/ Queued(w2, c)
      BY <1>7, <2>7 DEF Queued
    <3>2. \A c : c \in CircularsOf(w.seen) \/ (graph /\ c = h[1]) => c \in CircularsOf(w2.seen)
      BY <2>7, <2>9 DEF D, C
    <3>3. \A s \in S : s \in w.seen \/ s = h
      BY DEF S
    <3>4. w.at = "next"
      BY <1>1 DEF w
    <3>5. ComesToAll(w, F, links)
      BY <1>2 DEF DriverSound
    <3>6. ASSUME graph, w.plan.limit = 0, NEW s \in w2.seen, LeftBehind(w2, s), Within(w2, s), NEW c \in Corpus
          PROVE  c \in CircularsOf(w2.seen) \/ Queued(w2, c) \/ Unrelated(F, links, s[1], c)
      <4>1. s \in w.seen
        BY <2>3, <2>7, <3>3, <3>6 DEF LeftBehind
      <4>2. LeftBehind(w, s) /\ Within(w, s)
        BY <2>7, <3>4, <3>6 DEF LeftBehind, Within
      <4>3. c \in CircularsOf(w.seen) \/ Queued(w, c) \/ Unrelated(F, links, s[1], c)
        BY <3>5, <3>6, <4>1, <4>2 DEF ComesToAll, graph
      <4>4. QED
        BY ONLY <3>1, <3>2, <3>6, <4>3
    <3>7. w2.plan = w.plan
      BY <2>7
    <3>8. QED
      BY ONLY <3>6, <3>7 DEF ComesToAll, graph
  <2>14. QED
    BY <1>1, <2>1, <2>8, <2>10, <2>11, <2>12, <2>13, OneDrives DEF DriverSound
<1>10. QED
  BY <1>8, <1>9

\* What is left of a driver that ended.
LEMMA EndedIs ==
  ASSUME NEW w \in DriverStates
  PROVE  LET o == Relating!Ended(w) IN
         /\ o \in DriverStates /\ o.at = "ended" /\ o.plan = w.plan /\ o.seen = w.seen /\ o.failed = w.failed /\ o.queue = <<>>
<1> DEFINE o == Relating!NoDriver
           E == <<>>
<1>1. o \in DriverStates
  <2>1. DriverSound(o, {}, {}, {})
    BY NobodyDrives
  <2>2. QED
    BY <2>1 DEF DriverSound, DriverTyped
<1>2. o.queue = E
  BY DEF Relating!NoDriver
<1>3. Relating!Ended(w) = [o EXCEPT !.at = "ended", !.plan = w.plan, !.seen = w.seen, !.failed = w.failed]
  BY DEF Relating!Ended
<1> DEFINE Q == Seq(Hops)
<1>4. DriverStates = [at : {"reading", "off", "next", "around", "deriving", "ended", "stopped"}, plan : Plan, queue : Q,
                      seen : SUBSET Hops, now : Hops \union {<<>>}, count : Nat, deletes : BOOLEAN, failed : SUBSET Corpus]
  BY DEF DriverStates
<1>5. w.seen \in SUBSET Hops /\ w.plan \in Plan /\ w.failed \in SUBSET Corpus
  BY DEF DriverStates
<1> HIDE DEF o, E, Q
<1>6. LET e == Relating!Ended(w) IN
      e \in DriverStates /\ e.at = "ended" /\ e.plan = w.plan /\ e.seen = w.seen /\ e.failed = w.failed /\ e.queue = o.queue
  BY <1>1, <1>3, <1>4, <1>5
<1>7. QED
  BY <1>2, <1>6 DEF E

\* A reading that fails is remembered as one that failed; a driver that dies has gone nowhere.
LEMMA Failing ==
  ASSUME GraphSound, NEW d \in Relating!Drivers, Relating!FailOne(d) \/ Relating!DriverDies(d)
  PROVE  GraphSound'
<1> DEFINE w  == driver[d]
           F  == foreign[d]
           On(at) == [w EXCEPT !.deletes = FALSE, !.failed = w.failed \union {w.now[1]}, !.at = at]
<1>1. GraphTyped /\ DriverSound(w, F, links, grasped) /\ w \in DriverStates
  BY DEF GraphSound, DriverSound, DriverTyped
<1>2. /\ UNCHANGED <<links, grasped, status, foreign>> /\ slips < SlipBound /\ slips' = slips + 1
      /\ keeper' = IF keeper = d THEN "nobody" ELSE keeper
  BY DEF Relating!FailOne, Relating!DriverDies, Relating!NobodyYet
<1>3. \/ driver' = [driver EXCEPT ![d] = Relating!Stopped]
      \/ w.at = "reading" /\ w.plan.mode = "graph" /\ driver' = [driver EXCEPT ![d] = On("around")]
      \/ w.at = "reading" /\ w.plan.mode = "batch" /\ driver' = [driver EXCEPT ![d] = On("next")]
  <2>1. CASE Relating!DriverDies(d)
    BY <2>1 DEF Relating!DriverDies, Relating!Move
  <2>2. CASE Relating!FailOne(d)
    <3> DEFINE on == [w EXCEPT !.deletes = FALSE, !.failed = @ \union {w.now[1]}]
    <3>1. \/ driver' = [driver EXCEPT ![d] = Relating!Stopped]
          \/ w.at = "reading" /\ w.plan.mode = "graph" /\ driver' = [driver EXCEPT ![d] = [on EXCEPT !.at = "around"]]
          \/ w.at = "reading" /\ w.plan.mode = "batch" /\ driver' = [driver EXCEPT ![d] = [on EXCEPT !.at = "next"]]
      BY <2>2 DEF Relating!FailOne, Relating!Move
    <3>2. \A at : [on EXCEPT !.at = at] = On(at)
      <4> HIDE DEF w
      <4>1. QED
        BY <1>1 DEF DriverStates
    <3>3. QED
      BY <3>1, <3>2
  <2>3. QED
    BY <2>1, <2>2
<1>4. GraphTyped'
  <2>1. slips' \in 0..SlipBound
    BY <1>1, <1>2, GraphAssumption DEF GraphTyped
  <2>2. DOMAIN driver' = Relating!Drivers
    BY <1>1, <1>3 DEF GraphTyped
  <2>3. QED
    BY <1>1, <1>2, <2>1, <2>2 DEF GraphTyped
<1>5. CASE driver' = [driver EXCEPT ![d] = Relating!Stopped]
  BY <1>2, <1>4, <1>5, NobodyDrives, OneDrives
<1>6. ASSUME NEW at \in {"around", "next"}, w.at = "reading", w.plan.mode = IF at = "around" THEN "graph" ELSE "batch",
             driver' = [driver EXCEPT ![d] = On(at)]
      PROVE  GraphSound'
  <2> DEFINE v == On(at)
             c == w.now[1]
  <2>1. w.now \in Hops /\ c \in Corpus /\ (w.plan.mode = "graph" => w.now \in w.seen)
    BY <1>1, <1>6, HopsAre DEF DriverSound, DriverTyped
  <2>2. /\ v \in DriverStates /\ v.at = at /\ v.plan = w.plan /\ v.queue = w.queue /\ v.seen = w.seen /\ v.now = w.now
        /\ v.failed = w.failed \union {c}
    <3> DEFINE Q == Seq(Hops)
    <3> HIDE DEF w, Q, c
    <3>1. DriverStates = [at : {"reading", "off", "next", "around", "deriving", "ended", "stopped"}, plan : Plan, queue : Q,
                          seen : SUBSET Hops, now : Hops \union {<<>>}, count : Nat, deletes : BOOLEAN, failed : SUBSET Corpus]
      BY DEF DriverStates, Q
    <3>2. v = [w EXCEPT !.deletes = FALSE, !.failed = w.failed \union {c}, !.at = at]
      BY DEF c
    <3> HIDE DEF v
    <3>3. QED
      BY <1>1, <1>6, <2>1, <3>1, <3>2 DEF w
  <2>3. DriverTyped(v)
    BY <1>1, <1>6, <2>1, <2>2 DEF DriverSound, DriverTyped
  <2> HIDE DEF v, w
  <2>4. EachOnce(v)
    BY <1>1, <2>2 DEF DriverSound, EachOnce
  <2>5. Grasps(v, grasped)
    BY <1>1, <1>6, <2>1, <2>2 DEF DriverSound, Grasps, w
  <2>6. ComesToAll(v, F, links)
    <3>1. \A s, e : (LeftBehind(v, s) => LeftBehind(w, s) \/ v.plan.mode # "graph") /\ (Within(v, s) => Within(w, s))
                    /\ (Queued(w, e) => Queued(v, e))
      BY <1>6, <2>2 DEF LeftBehind, Within, Queued, w
    <3>2. QED
      BY <1>1, <2>2, <3>1 DEF DriverSound, ComesToAll
  <2>7. QED
    BY <1>2, <1>4, <1>6, <2>3, <2>4, <2>5, <2>6, OneDrives DEF DriverSound, v
<1>7. QED
  BY <1>3, <1>5, <1>6

\* Each circular is shown as one of three.
LEMMA DerivesTyped ==
  ASSUME NEW rows, Relating!Derives(rows)
  PROVE  status' \in [Corpus -> {"active", "amended", "superseded"}]
<1>1. status' = [c \in Corpus |-> Relating!StatusOf(rows, c)]
  BY DEF Relating!Derives, Corpus
<1>2. \A c : Relating!StatusOf(rows, c) \in {"active", "amended", "superseded"}
  BY DEF Relating!StatusOf
<1> QED
  BY <1>1, <1>2

\* `graph` ends when there is nothing left to go to, unless it is limited.
LEMMA Ending ==
  ASSUME GraphSound, NEW d \in Relating!Drivers, Relating!EndOne(d)
  PROVE  GraphSound'
<1> DEFINE w  == driver[d]
           v  == Relating!Ended(w)
           F  == foreign[d]
<1>1. GraphTyped /\ DriverSound(w, F, links, grasped) /\ w \in DriverStates
  BY DEF GraphSound, DriverSound, DriverTyped
<1>2. /\ w.at = "next" /\ (w.queue = <<>> \/ w.plan.limit # 0) /\ driver' = [driver EXCEPT ![d] = v]
      /\ UNCHANGED <<links, grasped, keeper, foreign, slips>>
      /\ status' = status \/ Relating!Derives(links)
  BY DEF Relating!EndOne, Relating!Move
<1>3. /\ v \in DriverStates /\ v.at = "ended" /\ v.plan = w.plan /\ v.seen = w.seen /\ v.failed = w.failed /\ v.queue = <<>>
  BY <1>1, EndedIs
<1> HIDE DEF v, w
<1>4. GraphTyped'
  BY <1>1, <1>2, DerivesTyped DEF GraphTyped
<1>5. DriverTyped(v) /\ Grasps(v, grasped)
  BY <1>1, <1>2, <1>3 DEF DriverSound, DriverTyped, Grasps
<1>6. EachOnce(v)
  <2>1. \A i \in 1..Len(v.queue) : FALSE
    BY <1>3
  <2>2. QED
    BY <1>1, <1>3, <2>1 DEF DriverSound, EachOnce
<1>7. ComesToAll(v, F, links)
  <2>1. \A e : w.queue = <<>> => ~Queued(w, e)
    BY DEF Queued
  <2>2. QED
    BY <1>1, <1>2, <1>3, <2>1 DEF DriverSound, ComesToAll, LeftBehind, Within
<1>8. QED
  BY <1>2, <1>4, <1>5, <1>6, <1>7, OneDrives DEF DriverSound

\* What relates to a circular is put behind what is to be gone to.
LEMMA GoingAround ==
  ASSUME GraphSound, NEW d \in Relating!Drivers, Relating!GoAround(d)
  PROVE  GraphSound'
<1> DEFINE w   == driver[d]
           F   == foreign[d]
           c   == w.now[1]
           hop == w.now[2]
           new == Relating!Neighbours(c) \ CircularsOf(w.seen)
           s   == Relating!SetToSeq(new)
           l   == [i \in 1..Cardinality(new) |-> <<s[i], hop + 1>>]
           q   == IF w.plan.depth = 0 \/ hop < w.plan.depth THEN w.queue \o l ELSE w.queue
           v   == [w EXCEPT !.at = "next", !.queue = q]
<1>1. GraphTyped /\ DriverSound(w, F, links, grasped) /\ w \in DriverStates /\ w.at = "around"
  BY DEF GraphSound, DriverSound, DriverTyped, Relating!GoAround
<1>2. driver' = [driver EXCEPT ![d] = v] /\ UNCHANGED <<links, grasped, status, keeper, foreign, slips>>
  <2>1. /\ driver' = [driver EXCEPT ![d] = [w EXCEPT !.at = "next",
                       !.queue = IF w.plan.depth = 0 \/ hop < w.plan.depth
                                 THEN @ \o [i \in 1..Relating!Cardinality(new) |-> <<s[i], hop + 1>>] ELSE @]]
        /\ UNCHANGED <<links, grasped, status, keeper, foreign, slips>>
    BY DEF Relating!GoAround, Relating!Move, CircularsOf
  <2>2. Relating!Cardinality(new) = Cardinality(new)
    BY DEF Relating!Cardinality, Cardinality
  <2>3. [w EXCEPT !.at = "next", !.queue = IF w.plan.depth = 0 \/ hop < w.plan.depth THEN @ \o l ELSE @] = v
    <3> HIDE DEF w, l
    <3>1. QED
      BY <1>1 DEF DriverStates
  <2>4. QED
    BY <2>1, <2>2, <2>3
<1>3. w.now \in w.seen /\ w.now \in Hops /\ c \in Corpus /\ hop \in Nat /\ w.plan.mode = "graph"
  BY <1>1, HopsAre DEF DriverSound, DriverTyped
<1>4. \A e \in Corpus : e \in Relating!Neighbours(c) <=> (\E x \in links[c] : x.to = e) \/ \E x \in links[e] : x.to = c
  BY DEF Relating!Neighbours, Corpus
<1>5. new \in SUBSET Corpus /\ IsFiniteSet(new)
  <2>1. \A x \in links[c] : x.to \in Corpus
    BY <1>1, <1>3 DEF GraphTyped, Relating!Row, Corpus
  <2>2. Relating!Neighbours(c) \in SUBSET Corpus
    BY <2>1 DEF Relating!Neighbours, Corpus
  <2>3. QED
    BY <2>2, GraphGiven
<1> HIDE DEF new
<1>6. s \in Seq(new) /\ Len(s) = Cardinality(new) /\ Cardinality(new) \in Nat /\ \A x : Has(s, x) <=> x \in new
  <2>1. s = CHOOSE f \in [1..Cardinality(new) -> new] : \A a, b \in DOMAIN f : f[a] = f[b] => a = b
    <3>1. s = CHOOSE f \in [1..Relating!Cardinality(new) -> new] : Relating!IsInjective(f)
      BY DEF Relating!SetToSeq
    <3>2. Relating!Cardinality(new) = Cardinality(new)
      BY DEF Relating!Cardinality, Cardinality
    <3> HIDE DEF s
    <3>3. QED
      BY <3>1, <3>2 DEF Relating!IsInjective
  <2> HIDE DEF s
  <2>2. QED
    BY ONLY <1>5, <2>1, SomeListing
<1> HIDE DEF s
<1> DEFINE C == CircularsOf(w.seen)
           n == Cardinality(C)
           o == w.queue
           Y == w.plan.depth = 0 \/ hop < w.plan.depth
<1>7. /\ C \in SUBSET Corpus /\ n \in Nat /\ o \in Seq(Hops) /\ Len(o) \in Nat
      /\ \A i \in 1..Len(o) : o[i] \in Hops
  BY <1>1, DriverFields
<1>8. hop < n /\ \A i \in 1..Len(o) : o[i][2] <= n
  BY <1>1, <1>3 DEF DriverSound, EachOnce
<1>9. /\ l \in Seq(Hops) /\ Len(l) = Len(s) /\ Len(s) \in Nat
      /\ \A i \in 1..Len(s) : l[i][1] = s[i] /\ l[i][2] <= n
  <2>1. \A i \in 1..Len(s) : s[i] \in Corpus
    BY <1>5, <1>6
  <2>2. hop + 1 \in Nat /\ hop + 1 <= n
    BY <1>3, <1>7, <1>8
  <2> HIDE DEF hop
  <2>3. \A i \in 1..Len(s) : <<s[i], hop + 1>> \in Hops /\ <<s[i], hop + 1>>[1] = s[i] /\ <<s[i], hop + 1>>[2] = hop + 1
    BY <2>1, <2>2, HopsAre
  <2>4. Len(s) \in Nat /\ l = [i \in 1..Len(s) |-> <<s[i], hop + 1>>]
    BY <1>6
  <2> HIDE DEF l
  <2>5. l \in Seq(Hops) /\ Len(l) = Len(s) /\ \A i \in 1..Len(s) : l[i] = <<s[i], hop + 1>>
    BY <2>3, <2>4
  <2>6. QED
    BY <2>2, <2>3, <2>4, <2>5
<1> HIDE DEF l, o, n, C, w, hop
<1>10. /\ q \in Seq(Hops)
       /\ \A i \in 1..Len(q) : q[i][2] <= n
       /\ \A i \in 1..Len(o) : \E j \in 1..Len(q) : q[j] = o[i]
       /\ Y => \A x \in new : \E j \in 1..Len(q) : q[j][1] = x
  <2>1. CASE ~Y
    <3>1. q = o
      BY <2>1 DEF o
    <3>2. QED
      BY ONLY <1>7, <1>8, <2>1, <3>1
  <2>2. CASE Y
    <3>1. q = o \o l
      BY <2>2 DEF o
    <3> HIDE DEF q, Y
    <3>2. q \in Seq(Hops) /\ Len(q) = Len(o) + Len(l)
      <4>1. o \in Seq(Hops) /\ l \in Seq(Hops)
        BY <1>7, <1>9
      <4>2. QED
        BY ONLY <3>1, <4>1, ConcatProperties
    <3>3. /\ \A i \in 1..Len(o) : i \in 1..Len(q) /\ q[i] = o[i]
          /\ \A i \in 1..Len(l) : Len(o) + i \in 1..Len(q) /\ q[Len(o) + i] = l[i]
      BY ONLY <1>7, <1>9, <3>1
    <3>4. \A j \in 1..Len(q) : j \in 1..Len(o) \/ (j - Len(o) \in 1..Len(l) /\ Len(o) + (j - Len(o)) = j)
      BY ONLY <1>7, <1>9, <3>2
    <3>5. \A j \in 1..Len(q) : q[j][2] <= n
      <4> SUFFICES ASSUME NEW j \in 1..Len(q)
                   PROVE  q[j][2] <= n
        OBVIOUS
      <4>1. CASE j \in 1..Len(o)
        BY ONLY <1>8, <3>3, <4>1
      <4>2. CASE j \notin 1..Len(o)
        <5> DEFINE i == j - Len(o)
        <5>1. i \in 1..Len(l) /\ Len(o) + i = j
          BY <3>4, <4>2
        <5> HIDE DEF i
        <5>2. q[j] = l[i]
          BY <3>3, <5>1
        <5>3. QED
          BY ONLY <1>9, <5>1, <5>2
      <4>3. QED
        BY <4>1, <4>2
    <3>6. \A x \in new : \E j \in 1..Len(q) : q[j][1] = x
      <4> SUFFICES ASSUME NEW x \in new
                   PROVE  \E j \in 1..Len(q) : q[j][1] = x
        OBVIOUS
      <4>1. PICK i \in 1..Len(s) : s[i] = x
        BY <1>6 DEF Has
      <4>2. i \in 1..Len(l) /\ l[i][1] = x
        BY ONLY <1>9, <4>1
      <4>3. Len(o) + i \in 1..Len(q) /\ q[Len(o) + i] = l[i]
        BY ONLY <3>3, <4>2
      <4>4. QED
        BY ONLY <4>2, <4>3
    <3>7. QED
      BY ONLY <3>2, <3>3, <3>5, <3>6
  <2>3. QED
    BY ONLY <2>1, <2>2
<1> HIDE DEF q
<1>11. /\ v \in DriverStates /\ v.at = "next" /\ v.plan = w.plan /\ v.queue = q /\ v.seen = w.seen
       /\ v.failed = w.failed
  <2> DEFINE Q == Seq(Hops)
  <2>1. q \in Q
    BY <1>10
  <2>2. DriverStates = [at : {"reading", "off", "next", "around", "deriving", "ended", "stopped"}, plan : Plan, queue : Q,
                        seen : SUBSET Hops, now : Hops \union {<<>>}, count : Nat, deletes : BOOLEAN, failed : SUBSET Corpus]
    BY DEF DriverStates
  <2> HIDE DEF Q
  <2>3. QED
    BY <1>1, <2>1, <2>2
<1> HIDE DEF v
<1>12. GraphTyped'
  BY <1>1, <1>2 DEF GraphTyped
<1>13. DriverTyped(v) /\ Grasps(v, grasped)
  BY <1>1, <1>3, <1>11 DEF DriverSound, DriverTyped, Grasps
<1>14. EachOnce(v)
  BY <1>1, <1>10, <1>11 DEF DriverSound, EachOnce, n, C
<1>15. ComesToAll(v, F, links)
  <2> SUFFICES ASSUME w.plan.limit = 0, NEW t \in w.seen, Within(w, t), NEW e \in Corpus
               PROVE  e \in C \/ Queued(v, e) \/ Unrelated(F, links, t[1], e)
    BY <1>3, <1>11 DEF ComesToAll, Within, C
  <2>1. CASE t # w.now
    <3>1. e \in C \/ Queued(w, e) \/ Unrelated(F, links, t[1], e)
      BY <1>1, <1>3, <2>1 DEF DriverSound, ComesToAll, LeftBehind, C
    <3>2. Queued(w, e) => Queued(v, e)
      BY <1>10, <1>11 DEF Queued, o
    <3>3. QED
      BY <3>1, <3>2
  <2>2. CASE t = w.now
    <3>1. Y /\ t[1] = c
      BY <2>2 DEF Within, hop
    <3>2. e \in new => Queued(v, e)
      BY <1>10, <1>11, <3>1 DEF Queued
    <3>3. e \notin new => e \in C \/ (~(\E x \in links[c] : x.to = e) /\ ~(\E x \in links[e] : x.to = c))
      BY <1>4 DEF new, C
    <3>4. QED
      BY <3>1, <3>2, <3>3 DEF Unrelated
  <2>3. QED
    BY <2>1, <2>2
<1>16. QED
  BY <1>2, <1>12, <1>13, <1>14, <1>15, OneDrives DEF DriverSound

\* What is found is about circulars there are.
LEMMA RowsTyped ==
  ASSUME NEW c \in Corpus, NEW t \in Relating!Confirmed(c), NEW s
  PROVE  Relating!ByName(c) \union Relating!Blanket(t, s) \union Relating!Annexed(c, s) \in SUBSET Relating!Row
<1>1. t \in SUBSET Corpus
  BY DEF Relating!Confirmed, Relating!Shortlists, Relating!OnSubject, Corpus
<1>2. Says[c].annexed \in SUBSET Corpus /\ Says[c].names \in SUBSET ({"amends", "clarifies", "supersedes"} \X Corpus)
  BY GraphAssumption DEF Corpus, Relating!Corpus
<1>3. \A k \in {"amends", "clarifies", "supersedes"}, e \in Corpus, b \in {"name", "subject", "annexure"} :
        [kind |-> k, to |-> e, by |-> b] \in Relating!Row
  BY DEF Relating!Row, Relating!Relations, Corpus
<1>4. Relating!ByName(c) \in SUBSET Relating!Row
  BY <1>2, <1>3 DEF Relating!ByName
<1>5. Relating!Blanket(t, s) \in SUBSET Relating!Row
  BY <1>1, <1>3 DEF Relating!Blanket
<1>6. Relating!Annexed(c, s) \in SUBSET Relating!Row
  BY <1>2, <1>3 DEF Relating!Annexed
<1>7. QED
  BY <1>4, <1>5, <1>6

\* What one driver stores changes what is known of no other, and nothing it has been through.
LEMMA ReadingOne ==
  ASSUME GraphSound, NEW d \in Relating!Drivers, Relating!ReadOne(d)
  PROVE  GraphSound'
<1> DEFINE w   == driver[d]
           F   == foreign[d]
           c   == w.now[1]
           job == w.plan.mode = "job"
           old == IF w.deletes \/ job THEN {} ELSE links[c]
           said(targets) == Relating!ByName(c) \union Relating!Blanket(targets, old) \union Relating!Annexed(c, old)
           at  == IF w.plan.mode = "graph" THEN "around" ELSE "next"
           u   == [w EXCEPT !.at = at, !.count = w.count + 1, !.deletes = FALSE]
           v   == IF job THEN Relating!Ended(w) ELSE u
<1>1. GraphTyped /\ DriverSound(w, F, links, grasped) /\ w \in DriverStates /\ w.at = "reading"
  BY DEF GraphSound, DriverSound, DriverTyped, Relating!ReadOne
<1>2. w.now \in Hops /\ c \in Corpus /\ w.plan.mode # "none" /\ (w.plan.mode = "graph" => w.now \in w.seen)
      /\ (w.plan.mode # "graph" => w.seen = {})
  BY <1>1, HopsAre DEF DriverSound, DriverTyped
<1>3. \E rows \in SUBSET Relating!Row : links' = [links EXCEPT ![c] = rows]
  <2>1. PICK found \in {{}} \union {said(targets) : targets \in Relating!Confirmed(c)} :
          links' = [links EXCEPT ![c] = old \union found]
    BY DEF Relating!ReadOne
  <2>2. old \in SUBSET Relating!Row
    BY <1>1, <1>2 DEF GraphTyped
  <2>3. found \in SUBSET Relating!Row
    <3>1. CASE found = {}
      BY <3>1
    <3>2. CASE found # {}
      <4>1. PICK t \in Relating!Confirmed(c) : found = said(t)
        BY <3>2
      <4> HIDE DEF old
      <4>2. QED
        BY <1>2, <4>1, RowsTyped
    <3>3. QED
      BY <3>1, <3>2
  <2>4. QED
    BY <2>1, <2>2, <2>3
<1>4. PICK rows \in SUBSET Relating!Row : links' = [links EXCEPT ![c] = rows]
  BY <1>3
<1>5. /\ keeper' = "nobody" /\ grasped' = grasped \union {c} /\ slips' = slips
      /\ foreign' = [x \in Relating!Drivers |-> IF x = d THEN foreign[x] ELSE foreign[x] \union {c}]
      /\ status' = status \/ Relating!Derives(links')
  BY DEF Relating!ReadOne, Relating!NobodyYet
<1>6. driver' = [driver EXCEPT ![d] = v]
  <2> DEFINE u2 == [w EXCEPT !.at = at, !.count = @ + 1, !.deletes = FALSE]
  <2>1. driver' = [driver EXCEPT ![d] = IF job THEN Relating!Ended(w) ELSE u2]
    BY DEF Relating!ReadOne, Relating!Move
  <2>2. u2 = u
    <3> HIDE DEF w, at
    <3>1. QED
      BY <1>1 DEF DriverStates
  <2>3. QED
    BY <2>1, <2>2
<1>7. links' \in [Corpus -> SUBSET Relating!Row] /\ \A e \in Corpus \ {c} : links'[e] = links[e]
  BY <1>1, <1>4 DEF GraphTyped
<1>8. GraphTyped'
  BY <1>1, <1>2, <1>5, <1>6, <1>7, DerivesTyped DEF GraphTyped
<1>9. foreign'[d] = F /\ \A e \in Relating!Drivers \ {d} : foreign'[e] = foreign[e] \union {c}
  BY <1>1, <1>5 DEF GraphTyped
<1>10. /\ v \in DriverStates /\ v.at = (IF job THEN "ended" ELSE at) /\ v.plan = w.plan /\ v.seen = w.seen
       /\ v.failed = w.failed
       /\ IF job THEN v.queue = <<>> ELSE v.queue = w.queue /\ v.now = w.now
  <2>1. CASE job
    <3>1. v = Relating!Ended(w)
      BY <2>1
    <3> HIDE DEF v, w
    <3>2. QED
      BY <1>1, <2>1, <3>1, EndedIs
  <2>2. CASE ~job
    <3>1. v = u
      BY <2>2
    <3>2. w.count + 1 \in Nat /\ at \in {"around", "next"}
      BY <1>1, DriverFields
    <3> DEFINE k == w.count + 1
               Q == Seq(Hops)
    <3>3. u = [w EXCEPT !.at = at, !.count = k, !.deletes = FALSE]
      OBVIOUS
    <3>4. DriverStates = [at : {"reading", "off", "next", "around", "deriving", "ended", "stopped"}, plan : Plan, queue : Q,
                          seen : SUBSET Hops, now : Hops \union {<<>>}, count : Nat, deletes : BOOLEAN, failed : SUBSET Corpus]
      BY DEF DriverStates
    <3> HIDE DEF v, u, at, k, Q, w
    <3>5. /\ u \in DriverStates /\ u.at = at /\ u.plan = w.plan /\ u.seen = w.seen /\ u.failed = w.failed
          /\ u.queue = w.queue /\ u.now = w.now
      BY <1>1, <3>2, <3>3, <3>4 DEF k
    <3>6. QED
      BY <2>2, <3>1, <3>5
  <2>3. QED
    BY <2>1, <2>2
<1> HIDE DEF v, w
<1>11. DriverTyped(v)
  BY <1>1, <1>2, <1>10 DEF DriverTyped
<1>12. EachOnce(v)
  <2>1. CASE job
    <3>1. \A i \in 1..Len(v.queue) : FALSE
      BY <1>10, <2>1
    <3>2. QED
      BY <1>1, <1>10, <3>1 DEF DriverSound, EachOnce
  <2>2. CASE ~job
    BY <1>1, <1>10, <2>2 DEF DriverSound, EachOnce
  <2>3. QED
    BY <2>1, <2>2
<1>13. Grasps(v, grasped')
  BY <1>1, <1>5, <1>10 DEF DriverSound, Grasps, c
<1>14. ComesToAll(v, F, links')
  <2> SUFFICES ASSUME v.plan.mode = "graph", v.plan.limit = 0, NEW s \in v.seen, LeftBehind(v, s), Within(v, s), NEW e \in Corpus
               PROVE  e \in CircularsOf(v.seen) \/ Queued(v, e) \/ Unrelated(F, links', s[1], e)
    BY DEF ComesToAll
  <2>1. /\ w.plan.mode = "graph" /\ w.plan.limit = 0 /\ s \in w.seen /\ Within(w, s) /\ ~job /\ v.at = "around"
        /\ v.queue = w.queue /\ s # w.now
    BY <1>10 DEF Within, LeftBehind, job, at
  <2>2. e \in CircularsOf(w.seen) \/ Queued(w, e) \/ Unrelated(F, links, s[1], e)
    BY <1>1, <2>1 DEF DriverSound, ComesToAll, LeftBehind
  <2>3. s[1] # c /\ s[1] \in Corpus /\ c \in CircularsOf(w.seen)
    <3>1. s[1] \in Corpus
      BY <1>1, <2>1, DriverFields
    <3>2. w.now \in w.seen
      BY <1>2, <2>1
    <3>3. s[1] # c
      BY <1>1, <2>1, <3>2 DEF DriverSound, EachOnce, c
    <3>4. QED
      BY <3>1, <3>2, <3>3 DEF CircularsOf, c
  <2>4. e # c => links'[s[1]] = links[s[1]] /\ links'[e] = links[e]
    BY <1>7, <2>3
  <2>5. QED
    BY <1>10, <2>1, <2>2, <2>3, <2>4 DEF Unrelated, Queued
<1>15. \A e \in Relating!Drivers \ {d} :
         foreign[e] \subseteq foreign'[e] /\ \A x \in Corpus \ foreign'[e] : links'[x] \subseteq links[x]
  BY <1>7, <1>9
<1>16. DriverSound(v, foreign'[d], links', grasped')
  BY <1>9, <1>11, <1>12, <1>13, <1>14 DEF DriverSound
<1>17. grasped \subseteq grasped'
  BY <1>5
<1>18. QED
  BY <1>6, <1>8, <1>15, <1>16, <1>17, OneDrives

\* Every step keeps what is known of the drivers.
LEMMA GraphStaysSound == GraphSound /\ [Relating!GraphNext]_graphState => GraphSound'
<1> SUFFICES ASSUME GraphSound, [Relating!GraphNext]_graphState
             PROVE  GraphSound'
  OBVIOUS
<1>1. ASSUME UNCHANGED <<links, grasped, status, driver, keeper, foreign, slips>>
      PROVE  GraphSound'
  BY <1>1 DEF GraphSound, GraphTyped
<1>2. ASSUME NEW c, NEW names, NEW gone, Relating!Check(c, names, gone)
      PROVE  GraphSound'
  BY <1>1, <1>2 DEF Relating!Check
<1>3. CASE UNCHANGED graphState
  BY <1>1, <1>3 DEF graphState
<1>4. CASE Relating!GraphNext
  <2>1. \/ \E d \in Relating!Drivers : \/ Relating!Next1(d) \/ Relating!ReadOne(d) \/ Relating!FailOne(d) \/ Relating!GoAround(d)
                                       \/ Relating!EndOne(d) \/ Relating!DriverDies(d) \/ \E p \in Plans[d] : Relating!Start(d, p)
        \/ \E c, gone, names : Relating!Check(c, names, gone)
    BY <1>4 DEF Relating!GraphNext
  <2>2. QED
    BY <1>2, <2>1, GoingTo, ReadingOne, Failing, GoingAround, Ending, Starting
<1>5. QED
  BY <1>3, <1>4

\* What the invariant says of a driver that ended.
LEMMA GraphSaysCovered == GraphSound => Relating!GraphIsCovered /\ Relating!GraphTypeOK
<1> SUFFICES ASSUME GraphSound
             PROVE  Relating!GraphIsCovered /\ Relating!GraphTypeOK
  OBVIOUS
<1>1. ASSUME NEW d \in Relating!Drivers, driver[d].at = "ended", driver[d].plan.mode = "graph", driver[d].plan.limit = 0
      PROVE  /\ \A s \in driver[d].seen : driver[d].plan.depth = 0 \/ s[2] < driver[d].plan.depth =>
                  \A c \in Corpus \ CircularsOf(driver[d].seen) :
                    /\ s[1] \notin foreign[d] => ~\E x \in links[s[1]] : x.to = c
                    /\ c \notin foreign[d] => ~\E x \in links[c] : x.to = s[1]
             /\ CircularsOf(driver[d].seen) \subseteq grasped \union driver[d].failed \union Textless
  <2> DEFINE w == driver[d]
  <2>1. DriverSound(w, foreign[d], links, grasped)
    BY DEF GraphSound
  <2>2. w.queue = <<>>
    BY <1>1, <2>1 DEF DriverSound, DriverTyped
  <2>3. \A c : ~Queued(w, c)
    BY <2>2 DEF Queued
  <2>4. CircularsOf(w.seen) \subseteq grasped \union w.failed \union Textless
    BY <1>1, <2>1 DEF DriverSound, Grasps, CircularsOf
  <2>5. ASSUME NEW s \in w.seen, Within(w, s), NEW c \in Corpus \ CircularsOf(w.seen)
        PROVE  Unrelated(foreign[d], links, s[1], c)
    BY <1>1, <2>1, <2>3, <2>5 DEF DriverSound, ComesToAll, LeftBehind
  <2> HIDE DEF w
  <2>6. ASSUME NEW s \in w.seen, w.plan.depth = 0 \/ s[2] < w.plan.depth, NEW c \in Corpus \ CircularsOf(w.seen)
        PROVE  /\ s[1] \notin foreign[d] => ~\E x \in links[s[1]] : x.to = c
               /\ c \notin foreign[d] => ~\E x \in links[c] : x.to = s[1]
    BY <2>5, <2>6 DEF Unrelated, Within
  <2>7. QED
    BY <2>4, <2>6 DEF w
<1>2. Relating!GraphIsCovered
  BY <1>1 DEF Relating!GraphIsCovered, CircularsOf, Corpus
<1>3. ASSUME NEW d \in Relating!Drivers
      PROVE  /\ driver[d].at \in {"reading", "off", "next", "around", "deriving", "ended", "stopped"}
             /\ driver[d].seen \subseteq Corpus \X (0..Cardinality(Corpus))
  <2> DEFINE w == driver[d]
             n == Cardinality(Corpus)
             m == Cardinality(CircularsOf(w.seen))
  <2>1. DriverSound(w, foreign[d], links, grasped) /\ w \in DriverStates
    BY DEF GraphSound, DriverSound, DriverTyped
  <2>2. w.at \in {"reading", "off", "next", "around", "deriving", "ended", "stopped"}
    BY <2>1 DEF DriverStates
  <2>3. w.seen \in SUBSET Hops /\ m \in Nat /\ m <= n /\ n \in Nat
    BY <2>1, DriverFields, GraphGiven
  <2>4. \A s \in w.seen : s[2] < m
    BY <2>1 DEF DriverSound, EachOnce
  <2> HIDE DEF w, n, m
  <2>5. ASSUME NEW s \in w.seen
        PROVE  s \in Corpus \X (0..n)
    <3>1. s[1] \in Corpus /\ s[2] \in Nat /\ s = <<s[1], s[2]>>
      BY <2>3, HopsAre
    <3>2. s[2] \in 0..n
      BY <2>3, <2>4, <3>1
    <3>3. QED
      BY <3>1, <3>2
  <2>6. QED
    BY <2>2, <2>5 DEF w, n
<1>4. Relating!Cardinality(Corpus) = Cardinality(Corpus)
  BY DEF Relating!Cardinality, Cardinality
<1>5. Relating!GraphTypeOK
  BY <1>3, <1>4 DEF GraphSound, GraphTyped, Relating!GraphTypeOK, Corpus, Relating!NobodyYet
<1>6. QED
  BY <1>2, <1>5

\* Whatever relates to a circular that `graph` went through has been gone through too.
LEMMA GraphCovers ==
  Relating!GraphInit /\ [][Relating!GraphNext]_graphState => [](Relating!GraphIsCovered /\ Relating!GraphTypeOK)
BY GraphStarts, GraphStaysSound, GraphSaysCovered, PTL

-----------------------------------------------------------------------------
(***************************************************************************)
(* ListingCrawl.                                                           *)
(***************************************************************************)
(* Sequences from which an element is taken, or which one is put before.   *)

LEMMA PutBefore ==
  ASSUME NEW S, NEW s \in Seq(S), NEW c \in S, NEW t, t = <<c>> \o s
  PROVE  /\ t \in Seq(S) /\ Len(t) = Len(s) + 1 /\ t[1] = c
         /\ \A i \in 1..Len(s) : t[i + 1] = s[i]
OBVIOUS

LEMMA TakeOut ==
  ASSUME NEW S, NEW s \in Seq(S), NEW i \in 1..Len(s), NEW t, t = Listings!RemoveAt(s, i)
  PROVE  /\ t \in Seq(S) /\ Len(t) = Len(s) - 1
         /\ \A j \in 1..(i - 1) : t[j] = s[j]
         /\ \A j \in i..(Len(s) - 1) : t[j] = s[j + 1]
<1> DEFINE u == SubSeq(s, 1, i - 1)
           v == SubSeq(s, i + 1, Len(s))
           k == i - 1
<1>2. u \in Seq(S) /\ Len(u) = k /\ \A j \in 1..k : u[j] = s[j]
  OBVIOUS
<1>3. v \in Seq(S) /\ Len(v) = Len(s) - i /\ \A j \in 1..Len(v) : v[j] = s[i + j]
  OBVIOUS
<1>4. k \in Nat /\ k = i - 1 /\ i \in Nat /\ Len(s) \in Nat
  OBVIOUS
<1>5. t = u \o v
  BY DEF Listings!RemoveAt
<1> HIDE DEF u, v, k
<1>6. t \in Seq(S) /\ Len(t) = k + Len(v)
  BY <1>2, <1>3, <1>5, ConcatProperties
<1>7. \A j \in 1..k : t[j] = u[j]
  BY <1>2, <1>3, <1>4, <1>5
<1>8. \A j \in 1..Len(v) : t[k + j] = v[j]
  BY <1>2, <1>3, <1>4, <1>5
<1>9. ASSUME NEW j \in i..(Len(s) - 1)
      PROVE  t[j] = s[j + 1]
  <2>1. PICK n \in 1..Len(v) : j = k + n /\ j + 1 = i + n
    <3> j - k \in 1..Len(v) /\ j = k + (j - k) /\ j + 1 = i + (j - k)
      BY <1>3, <1>4
    <3> QED
      OBVIOUS
  <2>2. QED
    BY <1>3, <1>8, <2>1
<1>10. \A j \in 1..(i - 1) : t[j] = s[j]
  BY <1>2, <1>4, <1>7
<1>11. Len(t) = Len(s) - 1
  BY ONLY <1>3, <1>4, <1>6, SMT
<1>12. QED
  BY <1>6, <1>9, <1>10, <1>11

(* A page of a listing, and what a crawl under way has: all it read is of  *)
(* the listing as it was when its first page was read, and that listing is *)
(* still there whole, below what was published since; or some of it was    *)
(* withdrawn, and then there are too few for the crawl as long as the      *)
(* first of them is on top, where it cannot come back to.                  *)

PageOf(o, p) == LET end == IF p * PageSize < Len(o) THEN p * PageSize ELSE Len(o)
                IN SubSeq(o, (p - 1) * PageSize + 1, end)
Top == crawl.got[1][1]

Intact == \E o \in Seq(Listed), k \in Nat :
  /\ Len(o) = crawl.total /\ Len(listing) = Len(o) + k
  /\ \A i \in 1..Len(o) : listing[k + i] = o[i]
  /\ \A p \in 1..crawl.pages : crawl.got[p] # <<>> => crawl.got[p] = PageOf(o, p)
  /\ Top = o[1]
Spoilt == \E k \in 0..Len(listing) :
  Len(listing) - k < crawl.total /\ \A i \in 1..k : listing[i] # Top

CrawlRecords ==
  [at : {"start", "pages", "done"}, restart : {0, 1}, pages : Nat, total : Nat,
   got : Seq(Seq(Listed)), lost : SUBSET Nat, invalid : BOOLEAN,
   status : {"none", "success", "partial", "failed"}]
CrawlTyped ==
  /\ listing \in Seq(Listed \ withdrawn) /\ Listings!IsInjective(listing) /\ withdrawn \subseteq Listed
  /\ advertised \in BOOLEAN /\ changes \in 0..ChangeBound
  /\ crawl \in CrawlRecords
  /\ Len(crawl.got) \in {0, crawl.pages} /\ crawl.lost \subseteq DOMAIN crawl.got
CrawlHolds ==
  /\ crawl.at = "start" => crawl.lost = {}
  /\ crawl.at = "pages" =>
       /\ Len(crawl.got) = crawl.pages /\ crawl.pages > 0
       /\ crawl.got[1] # <<>> /\ Top \in withdrawn \union Listings!Range(listing)
       /\ advertised => crawl.total > 0 /\ (Intact \/ Spoilt)
CrawlInv == CrawlTyped /\ CrawlHolds

LEMMA PageIsPart ==
  ASSUME NEW S, NEW o \in Seq(S), NEW p \in Nat \ {0}
  PROVE  /\ PageOf(o, p) \in Seq(S)
         /\ Len(o) > 0 => PageOf(o, 1) # <<>> /\ PageOf(o, 1)[1] = o[1]
<1> DEFINE end == IF p * PageSize < Len(o) THEN p * PageSize ELSE Len(o)
<1> PageSize \in Nat /\ PageSize > 0
  BY ListingAssumption
<1>1. (p - 1) * PageSize \in Nat /\ p * PageSize \in Nat
  OBVIOUS
<1>2. PageOf(o, p) \in Seq(S)
  BY <1>1 DEF PageOf
<1>3. ASSUME Len(o) > 0
      PROVE  PageOf(o, 1) # <<>> /\ PageOf(o, 1)[1] = o[1]
  <2> DEFINE n == IF PageSize < Len(o) THEN PageSize ELSE Len(o)
  <2>1. n \in Nat /\ n >= 1 /\ n <= Len(o)
    BY <1>3
  <2>2. PageOf(o, 1) = SubSeq(o, 1, n)
    <3>1. 1 * PageSize = PageSize /\ (1 - 1) * PageSize + 1 = 1
      OBVIOUS
    <3>2. QED
      BY <3>1, Zenon DEF PageOf
  <2> HIDE DEF n
  <2>3. QED
    BY <2>1, <2>2
<1>4. QED
  BY <1>2, <1>3

LEMMA ListingInRange ==
  ASSUME CrawlInv, crawl.at = "pages", advertised, Intact
  PROVE  \E i \in 1..Len(listing) : listing[i] = Top
<1>1. PICK o \in Seq(Listed), k \in Nat :
        /\ Len(o) = crawl.total /\ Len(listing) = Len(o) + k
        /\ \A i \in 1..Len(o) : listing[k + i] = o[i]
        /\ Top = o[1]
  BY DEF Intact
<1>2. 1 \in 1..Len(o) /\ k + 1 \in 1..Len(listing)
  BY <1>1 DEF CrawlInv, CrawlHolds
<1>3. QED
  BY <1>1, <1>2

LEMMA PublishKeepsCrawlInv ==
  ASSUME CrawlInv, Listings!Publish
  PROVE  CrawlInv'
<1>1. PICK c \in Listings!New :
        /\ changes < ChangeBound /\ listing' = <<c>> \o listing /\ changes' = changes + 1
        /\ UNCHANGED <<withdrawn, advertised, crawl>>
  BY DEF Listings!Publish
<1>2. /\ listing \in Seq(Listed \ withdrawn) /\ c \in Listed \ withdrawn
      /\ \A i \in 1..Len(listing) : listing[i] # c
  BY DEF CrawlInv, CrawlTyped, Listings!New, Listings!Range
<1>3. /\ listing' \in Seq(Listed \ withdrawn) /\ Len(listing') = Len(listing) + 1 /\ listing'[1] = c
      /\ \A i \in 1..Len(listing) : listing'[i + 1] = listing[i]
  <2>1. /\ <<c>> \o listing \in Seq(Listed \ withdrawn) /\ Len(<<c>> \o listing) = Len(listing) + 1
        /\ (<<c>> \o listing)[1] = c
        /\ \A i \in 1..Len(listing) : (<<c>> \o listing)[i + 1] = listing[i]
    BY <1>2, PutBefore
  <2>2. QED
    BY <1>1, <2>1, Zenon
<1> DEFINE n == Len(listing)
<1>4. n \in Nat /\ DOMAIN listing = 1..n /\ DOMAIN listing' = 1..(n + 1)
  BY <1>2, <1>3
<1>5. \A i \in 1..(n + 1) : i = 1 \/ \E j \in 1..n : i = j + 1
  <2> TAKE i \in 1..(n + 1)
  <2>1. i = 1 \/ (i - 1 \in 1..n /\ i = (i - 1) + 1)
    BY <1>4
  <2>2. QED
    BY <2>1
<1> HIDE DEF n
<1>6. Listings!IsInjective(listing')
  <2> SUFFICES ASSUME NEW a \in 1..(n + 1), NEW b \in 1..(n + 1), listing'[a] = listing'[b]
               PROVE  a = b
    BY <1>4, Zenon DEF Listings!IsInjective
  <2>1. \A i, j \in 1..n : listing[i] = listing[j] => i = j
    BY <1>4, Zenon DEF CrawlInv, CrawlTyped, Listings!IsInjective
  <2>2. \A i \in 1..n : listing'[i + 1] = listing[i] /\ listing[i] # c
    BY <1>2, <1>3 DEF n
  <2>3. listing'[1] = c
    BY <1>3
  <2>4. ASSUME a = 1
        PROVE  a = b
    BY <1>5, <2>2, <2>3, <2>4, Zenon
  <2>5. ASSUME b = 1
        PROVE  a = b
    BY <1>5, <2>2, <2>3, <2>5, Zenon
  <2>6. ASSUME a # 1, b # 1
        PROVE  a = b
    <3>1. PICK i \in 1..n : a = i + 1
      BY <1>5, <2>6, Zenon
    <3>2. PICK j \in 1..n : b = j + 1
      BY <1>5, <2>6, Zenon
    <3>3. listing[i] = listing[j]
      BY <2>2, <3>1, <3>2, Zenon
    <3>4. QED
      BY <2>1, <3>1, <3>2, <3>3, Zenon
  <2>7. QED
    BY <2>4, <2>5, <2>6, Zenon
<1>7. CrawlTyped'
  <2>1. changes' \in 0..ChangeBound
    BY <1>1, ListingAssumption DEF CrawlInv, CrawlTyped
  <2>2. QED
    BY <1>1, <1>3, <1>6, <2>1, Zenon DEF CrawlInv, CrawlTyped, CrawlRecords
<1>8. ASSUME crawl.at = "pages"
      PROVE  /\ c # Top /\ Top \in withdrawn \union Listings!Range(listing')
             /\ advertised /\ (Intact \/ Spoilt) => Intact' \/ Spoilt'
  <2>1. Top \in withdrawn \union Listings!Range(listing)
    BY <1>8 DEF CrawlInv, CrawlHolds
  <2>2. c # Top
    BY <1>2, <2>1 DEF Listings!Range
  <2>3. Top \in withdrawn \union Listings!Range(listing')
    BY <1>3, <1>4, <2>1 DEF Listings!Range, n
  <2>4. ASSUME Intact
        PROVE  Intact'
    <3>1. PICK o \in Seq(Listed), k \in Nat :
            /\ Len(o) = crawl.total /\ Len(listing) = Len(o) + k
            /\ \A i \in 1..Len(o) : listing[k + i] = o[i]
            /\ \A p \in 1..crawl.pages : crawl.got[p] # <<>> => crawl.got[p] = PageOf(o, p)
            /\ Top = o[1]
      BY <2>4 DEF Intact
    <3>2. \A i \in 1..Len(o) : listing'[(k + 1) + i] = o[i]
      <4> TAKE i \in 1..Len(o)
      <4>1. k + i \in 1..Len(listing) /\ (k + 1) + i = (k + i) + 1
        BY <3>1
      <4>2. QED
        BY <1>3, <3>1, <4>1
    <3>3. Len(listing') = Len(o) + (k + 1) /\ k + 1 \in Nat
      <4>1. Len(listing') = Len(listing) + 1 /\ Len(listing) = Len(o) + k /\ Len(o) \in Nat
        BY <1>3, <3>1
      <4>2. QED
        BY ONLY <4>1, k \in Nat, SMT
    <3>4. Top' = Top /\ crawl' = crawl
      BY <1>1 DEF Top
    <3> HIDE DEF Top
    <3>5. QED
      BY <3>1, <3>2, <3>3, <3>4 DEF Intact
  <2>5. ASSUME Spoilt
        PROVE  Spoilt'
    <3>1. PICK k \in 0..Len(listing) : Len(listing) - k < crawl.total /\ \A i \in 1..k : listing[i] # Top
      BY <2>5 DEF Spoilt
    <3>2. \A i \in 1..(k + 1) : listing'[i] # Top
      <4> TAKE i \in 1..(k + 1)
      <4>1. i = 1 \/ \E j \in 1..k : i = j + 1
        <5>1. i = 1 \/ (i - 1 \in 1..k /\ i = (i - 1) + 1)
          OBVIOUS
        <5>2. QED
          BY <5>1
      <4>2. \A j \in 1..k : j \in 1..Len(listing)
        OBVIOUS
      <4>3. QED
        BY <1>3, <2>2, <3>1, <4>1, <4>2
    <3>3. k + 1 \in 0..Len(listing') /\ Len(listing') - (k + 1) < crawl.total
      <4>1. k \in Nat /\ Len(listing) \in Nat /\ k <= Len(listing)
        BY <1>4 DEF n
      <4>2. crawl.total \in Nat
        BY DEF CrawlInv, CrawlTyped, CrawlRecords
      <4>3. QED
        BY <1>3, <3>1, <4>1, <4>2
    <3>4. Top' = Top /\ crawl' = crawl
      BY <1>1 DEF Top
    <3> HIDE DEF Top
    <3>5. QED
      BY <3>2, <3>3, <3>4 DEF Spoilt
  <2>6. QED
    BY <2>2, <2>3, <2>4, <2>5
<1>9. CrawlHolds'
  BY <1>1, <1>8 DEF CrawlInv, CrawlHolds, Top
<1>10. QED
  BY <1>7, <1>9 DEF CrawlInv

LEMMA WithdrawKeepsCrawlInv ==
  ASSUME CrawlInv, Listings!Withdraw
  PROVE  CrawlInv'
<1>1. PICK w \in DOMAIN listing :
        /\ changes < ChangeBound
        /\ listing' = Listings!RemoveAt(listing, w) /\ withdrawn' = withdrawn \union {listing[w]}
        /\ changes' = changes + 1 /\ UNCHANGED <<advertised, crawl>>
  BY DEF Listings!Withdraw
<1> DEFINE n == Len(listing)
<1>2. /\ listing \in Seq(Listed \ withdrawn) /\ n \in Nat /\ DOMAIN listing = 1..n /\ w \in 1..n /\ n > 0
  BY <1>1 DEF CrawlInv, CrawlTyped
<1>3. /\ listing' \in Seq(Listed \ withdrawn) /\ Len(listing') = n - 1
      /\ \A j \in 1..(w - 1) : listing'[j] = listing[j]
      /\ \A j \in w..(n - 1) : listing'[j] = listing[j + 1]
  <2>1. w \in 1..Len(listing)
    BY <1>2
  <2>2. /\ listing' \in Seq(Listed \ withdrawn) /\ Len(listing') = Len(listing) - 1
        /\ \A j \in 1..(w - 1) : listing'[j] = listing[j]
        /\ \A j \in w..(Len(listing) - 1) : listing'[j] = listing[j + 1]
    <3> DEFINE t == Listings!RemoveAt(listing, w)
               S == Listed \ withdrawn
    <3> listing \in Seq(S)
      BY <1>2
    <3> HIDE DEF t, S
    <3>1. /\ t \in Seq(S) /\ Len(t) = Len(listing) - 1
          /\ \A j \in 1..(w - 1) : t[j] = listing[j]
          /\ \A j \in w..(Len(listing) - 1) : t[j] = listing[j + 1]
      BY <2>1, TakeOut DEF t
    <3>2. listing' = t
      BY <1>1 DEF t
    <3>3. QED
      BY <3>1, <3>2, Zenon DEF S
  <2>3. QED
    BY <2>2
<1> HIDE DEF n
<1>4. ASSUME NEW j \in 1..(n - 1)
      PROVE  \E i \in 1..n : i # w /\ listing'[j] = listing[i] /\ i = (IF j < w THEN j ELSE j + 1)
  <2>1. CASE j < w
    <3>1. j \in 1..(w - 1) /\ j \in 1..n /\ j # w
      BY <1>2, <2>1
    <3>2. QED
      BY <1>3, <2>1, <3>1
  <2>2. CASE ~(j < w)
    <3>1. j \in w..(n - 1) /\ j + 1 \in 1..n /\ j + 1 # w
      BY <1>2, <2>2
    <3>2. QED
      BY <1>3, <2>2, <3>1
  <2>3. QED
    BY <2>1, <2>2
<1>5. \A i, j \in 1..n : listing[i] = listing[j] => i = j
  BY <1>2, Zenon DEF CrawlInv, CrawlTyped, Listings!IsInjective
<1>6. DOMAIN listing' = 1..(n - 1) /\ n - 1 \in Nat
  BY <1>2, <1>3
<1>7. Listings!IsInjective(listing')
  <2> SUFFICES ASSUME NEW a \in 1..(n - 1), NEW b \in 1..(n - 1), listing'[a] = listing'[b]
               PROVE  a = b
    BY <1>6, Zenon DEF Listings!IsInjective
  <2>1. PICK i \in 1..n : listing'[a] = listing[i] /\ i = (IF a < w THEN a ELSE a + 1)
    BY <1>4
  <2>2. PICK j \in 1..n : listing'[b] = listing[j] /\ j = (IF b < w THEN b ELSE b + 1)
    BY <1>4
  <2>3. i = j
    BY <1>5, <2>1, <2>2
  <2>4. w \in Nat
    BY <1>2
  <2>5. QED
    BY <2>1, <2>2, <2>3, <2>4
<1>8. listing' \in Seq(Listed \ withdrawn')
  <2>1. \A j \in 1..Len(listing') : listing'[j] \in Listed \ withdrawn'
    <3> SUFFICES ASSUME NEW j \in 1..(n - 1)
                 PROVE  listing'[j] \in Listed \ withdrawn'
      BY <1>3
    <3>1. PICK i \in 1..n : i # w /\ listing'[j] = listing[i]
      BY <1>4
    <3>2. listing[i] \in Listed \ withdrawn
      BY <1>2, <3>1 DEF n
    <3>3. QED
      BY <1>1, <1>2, <1>5, <3>1, <3>2
  <2>2. QED
    BY <1>3, <2>1
<1>9. CrawlTyped'
  <2>1. changes' \in 0..ChangeBound
    BY <1>1, ListingAssumption DEF CrawlInv, CrawlTyped
  <2>2. withdrawn' \subseteq Listed
    BY <1>1, <1>2 DEF CrawlInv, CrawlTyped, n
  <2>3. QED
    BY <1>1, <1>7, <1>8, <2>1, <2>2, Zenon DEF CrawlInv, CrawlTyped, CrawlRecords
<1>10. ASSUME crawl.at = "pages"
       PROVE  /\ Top \in withdrawn' \union Listings!Range(listing')
              /\ advertised /\ (Intact \/ Spoilt) => Intact' \/ Spoilt'
  <2>0. crawl.total \in Nat /\ w \in Nat
    BY <1>2 DEF CrawlInv, CrawlTyped, CrawlRecords
  <2>1. Top \in withdrawn' \union Listings!Range(listing')
    <3>1. CASE Top \in withdrawn
      BY <1>1, <3>1
    <3>2. CASE Top \in Listings!Range(listing)
      <4>1. PICK i \in 1..n : Top = listing[i]
        BY <1>2, <3>2 DEF Listings!Range
      <4>2. CASE i = w
        BY <1>1, <4>1, <4>2
      <4>3. CASE i < w
        <5>1. i \in 1..(w - 1) /\ i \in 1..(n - 1)
          BY <1>2, <4>3
        <5>2. QED
          BY <1>3, <1>6, <4>1, <5>1 DEF Listings!Range
      <4>4. CASE i > w
        <5>1. i - 1 \in w..(n - 1) /\ i - 1 \in 1..(n - 1) /\ (i - 1) + 1 = i
          BY <1>2, <4>4
        <5>2. listing'[i - 1] = listing[i]
          BY <1>3, <5>1
        <5>3. QED
          BY <1>6, <4>1, <5>1, <5>2 DEF Listings!Range
      <4>5. QED
        BY <1>2, <4>2, <4>3, <4>4
    <3>3. QED
      BY <1>10, <3>1, <3>2 DEF CrawlInv, CrawlHolds
  <2>2. Top' = Top /\ crawl' = crawl
    BY <1>1 DEF Top
  <2>3. ASSUME NEW k \in 0..n, n - k < crawl.total \/ (n - k = crawl.total /\ w > k), \A i \in 1..k : listing[i] # Top
        PROVE  Spoilt'
    <3>1. CASE w > k
      <4>1. k \in 0..(n - 1) /\ (n - 1) - k < crawl.total
        BY <1>2, <2>0, <2>3, <3>1
      <4>2. \A i \in 1..k : listing'[i] # Top
        <5> TAKE i \in 1..k
        <5>1. i \in 1..(w - 1)
          BY <2>0, <3>1
        <5>2. QED
          BY <1>3, <2>3, <5>1
      <4> HIDE DEF Top
      <4>3. QED
        BY <1>3, <2>2, <4>1, <4>2 DEF Spoilt
    <3>2. CASE w <= k
      <4>1. k - 1 \in 0..(n - 1) /\ (n - 1) - (k - 1) < crawl.total /\ k \in Nat
        BY <1>2, <2>0, <2>3, <3>2
      <4>2. \A i \in 1..(k - 1) : listing'[i] # Top
        <5> TAKE i \in 1..(k - 1)
        <5>1. i \in 1..(n - 1) /\ i \in 1..k /\ i + 1 \in 1..k
          BY <1>2, <4>1
        <5>2. PICK m \in 1..n : listing'[i] = listing[m] /\ m = (IF i < w THEN i ELSE i + 1)
          BY <1>4, <5>1
        <5>3. m \in 1..k
          BY <5>1, <5>2
        <5>4. QED
          BY <2>3, <5>2, <5>3
      <4> HIDE DEF Top
      <4>3. QED
        BY <1>3, <2>2, <4>1, <4>2 DEF Spoilt
    <3>3. QED
      BY <2>0, <3>1, <3>2
  <2>4. ASSUME Spoilt
        PROVE  Spoilt'
    BY <2>3, <2>4 DEF Spoilt, n
  <2>5. ASSUME Intact, crawl.total > 0
        PROVE  Intact' \/ Spoilt'
    <3>1. PICK o \in Seq(Listed), k \in Nat :
            /\ Len(o) = crawl.total /\ n = Len(o) + k
            /\ \A i \in 1..Len(o) : listing[k + i] = o[i]
            /\ \A p \in 1..crawl.pages : crawl.got[p] # <<>> => crawl.got[p] = PageOf(o, p)
            /\ Top = o[1]
      BY <2>5 DEF Intact, n
    <3>2. k \in 0..n /\ n - k = crawl.total /\ 1 \in 1..Len(o) /\ k + 1 \in 1..n
      BY <2>0, <2>5, <3>1
    <3>3. CASE w > k
      <4>1. \A i \in 1..k : listing[i] # Top
        <5> TAKE i \in 1..k
        <5>1. i \in 1..n /\ i # k + 1
          BY <1>2, <3>2
        <5>2. listing[k + 1] = Top
          BY <3>1, <3>2
        <5>3. QED
          BY <1>5, <3>2, <5>1, <5>2, Zenon
      <4>2. QED
        BY <2>3, <3>2, <3>3, <4>1
    <3>4. CASE w <= k
      <4>1. k - 1 \in Nat /\ n - 1 = Len(o) + (k - 1)
        BY <2>0, <3>1, <3>4, <1>2
      <4>2. \A i \in 1..Len(o) : listing'[(k - 1) + i] = o[i]
        <5> TAKE i \in 1..Len(o)
        <5>1. (k - 1) + i \in w..(n - 1) /\ ((k - 1) + i) + 1 = k + i
          BY <2>0, <3>1, <3>4, <4>1
        <5>2. QED
          BY <1>3, <3>1, <5>1
      <4>3. Intact'
        <5> HIDE DEF Top
        <5>1. QED
          BY <1>3, <2>2, <3>1, <4>1, <4>2 DEF Intact
      <4>4. QED
        BY <4>3
    <3>5. QED
      BY <2>0, <3>3, <3>4
  <2>6. QED
    BY <1>10, <2>1, <2>4, <2>5 DEF CrawlInv, CrawlHolds
<1>11. CrawlHolds'
  BY <1>1, <1>10 DEF CrawlInv, CrawlHolds, Top
<1>12. QED
  BY <1>9, <1>11 DEF CrawlInv

LEMMA SitePageIsPage ==
  ASSUME NEW p
  PROVE  Listings!SitePage(p) = PageOf(listing, p)
BY Zenon DEF Listings!SitePage, PageOf

LEMMA SitePagesArePositive ==
  ASSUME CrawlInv, listing # <<>>
  PROVE  Listings!SitePages \in Nat \ {0} /\ Len(listing) > 0
<1> DEFINE n == Len(listing)
<1>1. n \in Nat /\ n > 0 /\ PageSize \in Nat /\ PageSize > 0
  BY ListingAssumption DEF CrawlInv, CrawlTyped
<1> HIDE DEF n
<1>2. (n + PageSize - 1) \div PageSize \in Nat \ {0}
  BY <1>1
<1>3. QED
  BY <1>1, <1>2 DEF Listings!SitePages, n

LEMMA ReadFirstKeepsCrawlInv ==
  ASSUME CrawlInv, Listings!ReadFirst
  PROVE  CrawlInv'
<1>1. CASE listing = <<>>
  BY <1>1 DEF Listings!ReadFirst, CrawlInv, CrawlTyped, CrawlHolds, CrawlRecords
<1>2. CASE listing # <<>>
  <2> DEFINE P == Listings!SitePages
             first == PageOf(listing, 1)
  <2>1. P \in Nat \ {0} /\ Len(listing) > 0
    BY <1>2, SitePagesArePositive
  <2>2. listing \in Seq(Listed) /\ first \in Seq(Listed) /\ first # <<>> /\ first[1] = listing[1]
    <3>1. listing \in Seq(Listed)
      BY DEF CrawlInv, CrawlTyped
    <3>2. QED
      BY <2>1, <3>1, PageIsPart
  <2> HIDE DEF P, first
  <2>3. /\ crawl' = [crawl EXCEPT !.at = "pages", !.pages = P, !.total = Listings!Advertises.total,
                     !.got = [p \in 1..P |-> IF p = 1 THEN first ELSE <<>>]]
        /\ UNCHANGED <<listing, withdrawn, advertised, changes>>
    BY <1>2, SitePageIsPage DEF Listings!ReadFirst, P, first, Listings!Unread
  <2>4. /\ crawl'.at = "pages" /\ crawl'.pages = P /\ crawl'.total = Listings!Advertises.total
        /\ crawl'.got = [p \in 1..P |-> IF p = 1 THEN first ELSE <<>>]
    BY <2>3 DEF CrawlInv, CrawlTyped, CrawlRecords
  <2>5. crawl'.got \in Seq(Seq(Listed)) /\ Len(crawl'.got) = P /\ crawl'.got[1] = first
    BY <2>1, <2>2, <2>4
  <2>6. Listings!Advertises.total \in Nat
    BY <2>1, <2>2 DEF Listings!Advertises
  <2>7. crawl.lost \subseteq DOMAIN crawl'.got
    BY DEF CrawlInv, CrawlHolds, Listings!ReadFirst
  <2>8. CrawlTyped'
    BY <2>1, <2>3, <2>4, <2>5, <2>6, <2>7 DEF CrawlInv, CrawlTyped, CrawlRecords
  <2>9. Top' = listing[1] /\ Top' \in Listings!Range(listing)
    BY <2>1, <2>2, <2>5 DEF Top, Listings!Range
  <2>10. ASSUME advertised
         PROVE  crawl'.total > 0 /\ Intact'
    <3>1. crawl'.total = Len(listing) /\ Len(listing) \in Nat
      BY <2>2, <2>4, <2>10 DEF Listings!Advertises
    <3>2. \A p \in 1..P : crawl'.got[p] # <<>> => crawl'.got[p] = PageOf(listing, p)
      BY <2>4 DEF first
    <3>3. \A i \in 1..Len(listing) : listing[0 + i] = listing[i]
      OBVIOUS
    <3> HIDE DEF Top
    <3>4. Len(listing) = Len(listing) + 0 /\ 0 \in Nat
      BY <3>1
    <3>5. QED
      BY <2>1, <2>2, <2>3, <2>4, <2>9, <3>1, <3>2, <3>3, <3>4 DEF Intact
  <2>11. CrawlHolds'
    BY <2>1, <2>2, <2>3, <2>4, <2>5, <2>9, <2>10 DEF CrawlHolds
  <2>12. QED
    BY <2>8, <2>11 DEF CrawlInv
<1>3. QED
  BY <1>1, <1>2

\* While the listing is as long as when the first page was read, and has it on top, it is the same.
LEMMA SameLengthSameListing ==
  ASSUME CrawlInv, crawl.at = "pages", advertised, Len(listing) = crawl.total, ~Spoilt
  PROVE  \A p \in 1..crawl.pages : crawl.got[p] # <<>> => crawl.got[p] = PageOf(listing, p)
<1>1. Intact
  BY DEF CrawlInv, CrawlHolds
<1>2. PICK o \in Seq(Listed), k \in Nat :
        /\ Len(o) = crawl.total /\ Len(listing) = Len(o) + k
        /\ \A i \in 1..Len(o) : listing[k + i] = o[i]
        /\ \A p \in 1..crawl.pages : crawl.got[p] # <<>> => crawl.got[p] = PageOf(o, p)
  BY <1>1 DEF Intact
<1>3. k = 0 /\ listing \in Seq(Listed) /\ Len(listing) = Len(o)
  BY <1>2 DEF CrawlInv, CrawlTyped
<1>4. \A i \in 1..Len(o) : listing[i] = o[i]
  BY <1>2, <1>3
<1>5. listing = o
  BY <1>3, <1>4, SeqEqual
<1>6. QED
  BY <1>2, <1>5

\* A page that arrives, or that does not, leaves the rest of the crawl as it was.
LEMMA PageKeepsCrawlInv ==
  ASSUME CrawlInv, NEW p \in DOMAIN crawl.got, Listings!ReadPage(p) \/ Listings!LosePage(p)
  PROVE  CrawlInv'
<1>1. /\ crawl.at = "pages" /\ crawl.got[p] = <<>> /\ p \notin crawl.lost
      /\ UNCHANGED <<listing, withdrawn, advertised, changes>>
  BY DEF Listings!ReadPage, Listings!LosePage, Listings!Awaited, Listings!Unread
<1>2. /\ crawl \in CrawlRecords /\ DOMAIN crawl.got = 1..crawl.pages /\ p # 1 /\ p \in Nat \ {0}
      /\ crawl.lost \subseteq DOMAIN crawl.got /\ Len(crawl.got) = crawl.pages
  <2>1. crawl \in CrawlRecords /\ Len(crawl.got) = crawl.pages /\ crawl.lost \subseteq DOMAIN crawl.got
        /\ crawl.got[1] # <<>>
    BY <1>1 DEF CrawlInv, CrawlTyped, CrawlHolds
  <2>2. crawl.got \in Seq(Seq(Listed))
    BY <2>1 DEF CrawlRecords
  <2>3. DOMAIN crawl.got = 1..crawl.pages
    BY <2>1, <2>2
  <2>4. QED
    BY <1>1, <2>1, <2>3
<1>3. CASE \E invalid \in BOOLEAN : crawl' = [crawl EXCEPT !.lost = @ \union {p}, !.invalid = @ \/ invalid]
  <2>1. PICK invalid \in BOOLEAN : crawl' = [crawl EXCEPT !.lost = @ \union {p}, !.invalid = @ \/ invalid]
    BY <1>3
  <2>2. /\ crawl' \in CrawlRecords /\ crawl'.at = "pages" /\ crawl'.lost = crawl.lost \union {p}
        /\ crawl'.got = crawl.got /\ crawl'.pages = crawl.pages /\ crawl'.total = crawl.total
    BY <1>1, <1>2, <2>1 DEF CrawlRecords
  <2>3. CrawlTyped'
    BY <1>1, <1>2, <2>2, Zenon DEF CrawlInv, CrawlTyped
  <2>4. (Intact => Intact') /\ (Spoilt => Spoilt') /\ Top' = Top
    <3>1. Top' = Top
      BY <2>2, Zenon DEF Top
    <3> HIDE DEF Top
    <3>2. Intact => Intact'
      BY <1>1, <2>2, <3>1 DEF Intact
    <3>3. Spoilt => Spoilt'
      BY <1>1, <2>2, <3>1 DEF Spoilt
    <3>4. QED
      BY <3>1, <3>2, <3>3
  <2>5. CrawlHolds'
    BY <1>1, <2>2, <2>4, Zenon DEF CrawlInv, CrawlHolds
  <2>6. QED
    BY <2>3, <2>5 DEF CrawlInv
<1>4. CASE Listings!Agrees(p) /\ crawl' = [crawl EXCEPT !.got[p] = Listings!SitePage(p)]
  <2> DEFINE page == PageOf(listing, p)
  <2>1. listing \in Seq(Listed) /\ page \in Seq(Listed)
    <3>1. listing \in Seq(Listed)
      BY DEF CrawlInv, CrawlTyped
    <3>2. QED
      BY <1>2, <3>1, PageIsPart
  <2> HIDE DEF page
  <2>2. crawl' = [crawl EXCEPT !.got = [crawl.got EXCEPT ![p] = page]]
    BY <1>4, SitePageIsPage DEF page
  <2>3. /\ crawl' \in CrawlRecords /\ crawl'.at = "pages" /\ crawl'.lost = crawl.lost
        /\ crawl'.pages = crawl.pages /\ crawl'.total = crawl.total
        /\ crawl'.got = [crawl.got EXCEPT ![p] = page]
        /\ Len(crawl'.got) = crawl.pages /\ DOMAIN crawl'.got = 1..crawl.pages
        /\ crawl'.got[p] = page /\ \A q \in 1..crawl.pages : q # p => crawl'.got[q] = crawl.got[q]
    <3> DEFINE got == [crawl.got EXCEPT ![p] = page]
    <3>1. crawl.got \in Seq(Seq(Listed)) /\ p \in 1..Len(crawl.got)
      BY <1>2 DEF CrawlRecords
    <3>2. got \in Seq(Seq(Listed)) /\ Len(got) = Len(crawl.got)
      BY <2>1, <3>1
    <3>3. DOMAIN got = 1..crawl.pages /\ got[p] = page /\ \A q \in 1..crawl.pages : q # p => got[q] = crawl.got[q]
      BY <1>2
    <3> HIDE DEF got
    <3>4. /\ crawl' \in CrawlRecords /\ crawl'.at = "pages" /\ crawl'.lost = crawl.lost
          /\ crawl'.pages = crawl.pages /\ crawl'.total = crawl.total /\ crawl'.got = got
      BY <1>1, <1>2, <2>2, <3>2 DEF CrawlRecords, got
    <3>5. QED
      BY <1>2, <3>2, <3>3, <3>4, Zenon DEF got
  <2>4. CrawlTyped'
    BY <1>1, <1>2, <2>3, Zenon DEF CrawlInv, CrawlTyped
  <2>5. 1 \in 1..crawl.pages
    BY <1>1, <1>2 DEF CrawlInv, CrawlHolds, CrawlRecords
  <2>6. crawl'.got[1] = crawl.got[1] /\ Top' = Top
    BY <1>2, <2>3, <2>5 DEF Top
  <2> HIDE DEF Top
  <2>7. Spoilt => Spoilt'
    BY <1>1, <2>3, <2>6, Zenon DEF Spoilt
  <2>8. ASSUME ~Spoilt, advertised
        PROVE  Intact'
    <3>1. crawl.total > 0 /\ crawl.total \in Nat
      BY <1>1, <1>2, <2>8 DEF CrawlInv, CrawlHolds, CrawlRecords
    <3>2. Len(listing) = crawl.total /\ Len(listing) \in Nat
      BY <1>4, <2>1, <2>8 DEF Listings!Agrees, Listings!Advertises
    <3>3. \A q \in 1..crawl.pages : crawl.got[q] # <<>> => crawl.got[q] = PageOf(listing, q)
      BY <1>1, <2>8, <3>2, SameLengthSameListing
    <3>4. \A q \in 1..crawl.pages : crawl'.got[q] # <<>> => crawl'.got[q] = PageOf(listing, q)
      BY <2>3, <3>3 DEF page
    <3>5. Top = listing[1]
      <4>1. crawl.got[1] = PageOf(listing, 1)
        BY <1>1, <2>5, <3>3, Zenon DEF CrawlInv, CrawlHolds
      <4>2. PageOf(listing, 1)[1] = listing[1]
        BY <1>2, <2>1, <3>1, <3>2, PageIsPart
      <4>3. QED
        BY <4>1, <4>2 DEF Top
    <3>6. Len(listing) = Len(listing) + 0 /\ 0 \in Nat /\ \A i \in 1..Len(listing) : listing[0 + i] = listing[i]
      BY <3>2
    <3>7. QED
      BY <1>1, <2>1, <2>3, <2>6, <3>2, <3>4, <3>5, <3>6 DEF Intact
  <2>9. CrawlHolds'
    BY <1>1, <2>3, <2>6, <2>7, <2>8, Zenon DEF CrawlInv, CrawlHolds
  <2>10. QED
    BY <2>4, <2>9 DEF CrawlInv
<1>5. QED
  BY <1>3, <1>4 DEF Listings!ReadPage, Listings!LosePage

LEMMA CloseKeepsCrawlInv ==
  ASSUME CrawlInv, Listings!Close
  PROVE  CrawlInv' /\ (advertised /\ crawl'.status = "success" /\ crawl.status = "none"
                       => crawl'.got = [p \in 1..Listings!SitePages |-> Listings!SitePage(p)])
<1>1. PICK fails \in BOOLEAN :
        /\ crawl.at = "pages" /\ Listings!Awaited = {}
        /\ crawl' = IF fails \/ Listings!Changed
                    THEN IF crawl.restart = 0 THEN Listings!Fresh(1)
                         ELSE [crawl EXCEPT !.at = "done", !.status = "partial"]
                    ELSE [crawl EXCEPT !.at = "done", !.status = Listings!Amounts]
        /\ UNCHANGED <<listing, withdrawn, advertised, changes>>
  BY DEF Listings!Close
<1>2. crawl \in CrawlRecords /\ crawl.lost \subseteq DOMAIN crawl.got /\ Len(crawl.got) = crawl.pages
  BY <1>1 DEF CrawlInv, CrawlTyped, CrawlHolds
<1>3. Listings!Amounts \in {"success", "partial", "failed"}
  BY DEF Listings!Amounts
<1>4. /\ crawl' \in CrawlRecords /\ crawl'.at # "pages" /\ crawl'.lost \subseteq DOMAIN crawl'.got
      /\ crawl'.at = "start" => crawl'.lost = {} /\ crawl'.status = "none"
      /\ Len(crawl'.got) \in {0, crawl'.pages}
  <2>1. CASE crawl' = Listings!Fresh(1)
    BY <2>1 DEF Listings!Fresh, CrawlRecords
  <2>2. CASE crawl' = [crawl EXCEPT !.at = "done", !.status = "partial"]
    BY <1>2, <2>2 DEF CrawlRecords
  <2>3. CASE crawl' = [crawl EXCEPT !.at = "done", !.status = Listings!Amounts]
    BY <1>2, <1>3, <2>3 DEF CrawlRecords
  <2>4. QED
    BY <1>1, <2>1, <2>2, <2>3
<1>5. CrawlInv'
  BY <1>1, <1>4, Zenon DEF CrawlInv, CrawlTyped, CrawlHolds
<1>6. ASSUME advertised, crawl'.status = "success", crawl.status = "none"
      PROVE  crawl'.got = [p \in 1..Listings!SitePages |-> Listings!SitePage(p)]
  <2>1. ~Listings!Changed /\ crawl' = [crawl EXCEPT !.at = "done", !.status = Listings!Amounts]
    BY <1>1, <1>2, <1>6 DEF Listings!Fresh, CrawlRecords
  <2>2. crawl.lost = {} /\ crawl'.got = crawl.got
    BY <1>2, <1>6, <2>1 DEF Listings!Amounts, CrawlRecords
  <2>3. listing \in Seq(Listed) /\ Len(listing) \in Nat /\ crawl.total > 0 /\ crawl.total \in Nat
        /\ crawl.pages \in Nat /\ crawl.pages > 0 /\ DOMAIN crawl.got = 1..crawl.pages
        /\ crawl.got \in Seq(Seq(Listed))
    BY <1>1, <1>2, <1>6 DEF CrawlInv, CrawlTyped, CrawlHolds, CrawlRecords
  <2>4. Len(listing) = crawl.total /\ Listings!SitePages = crawl.pages /\ Listings!SitePage(1) = crawl.got[1]
    BY <1>6, <2>1, <2>3 DEF Listings!Changed, Listings!Advertises
  <2>5. Top = listing[1]
    <3>1. PageOf(listing, 1)[1] = listing[1]
      BY <2>3, <2>4, PageIsPart, 1 \in Nat \ {0}
    <3>2. crawl.got[1] = PageOf(listing, 1)
      BY <2>4, SitePageIsPage
    <3>3. QED
      BY <3>1, <3>2 DEF Top
  <2>6. ~Spoilt
    <3>1. SUFFICES ASSUME NEW k \in 0..Len(listing), Len(listing) - k < crawl.total,
                          \A i \in 1..k : listing[i] # Top
                   PROVE  FALSE
      BY DEF Spoilt
    <3>2. k > 0
      BY <2>3, <2>4, <3>1
    <3>3. 1 \in 1..k
      BY <3>2
    <3>4. QED
      BY <2>5, <3>1, <3>3
  <2>7. \A p \in 1..crawl.pages : crawl.got[p] # <<>>
    BY <1>1, <2>2, <2>3 DEF Listings!Awaited, Listings!Unread
  <2>8. \A p \in 1..crawl.pages : crawl.got[p] = Listings!SitePage(p)
    BY <1>1, <1>6, <2>4, <2>6, <2>7, SameLengthSameListing, SitePageIsPage
  <2>9. crawl.got = [p \in DOMAIN crawl.got |-> crawl.got[p]]
    <3> DEFINE got == crawl.got
    <3>1. got \in [1..Len(got) -> Seq(Listed)] /\ DOMAIN got = 1..Len(got)
      BY <2>3, LenProperties
    <3> HIDE DEF got
    <3>2. got = [p \in DOMAIN got |-> got[p]]
      BY <3>1
    <3>3. QED
      BY <3>2, Zenon DEF got
  <2>10. QED
    BY <2>2, <2>3, <2>4, <2>8, <2>9
<1>7. QED
  BY <1>5, <1>6

LEMMA CrawlBegins ==
  ASSUME Listings!CrawlInit
  PROVE  CrawlInv
<1> DEFINE n == Cardinality(Listed) - ChangeBound
<1>1. n \in Nat /\ n <= Cardinality(Listed) /\ Cardinality(Listed) \in Nat
  BY ListingAssumption, FS_CardinalityType
<1>2. PICK f : f \in [1..Cardinality(Listed) -> Listed] /\ \A a, b \in 1..Cardinality(Listed) : f[a] = f[b] => a = b
  <2>1. ExistsBijection(1..Cardinality(Listed), Listed)
    BY ListingAssumption, FS_CardinalityType
  <2>2. QED
    BY <2>1, Zenon DEF ExistsBijection, Bijection, Injection, IsInjective
<1> HIDE DEF n
<1>3. \E s \in [1..n -> Listed] : Listings!IsInjective(s)
  <2> DEFINE s == [i \in 1..n |-> f[i]]
  <2>1. \A i \in 1..n : i \in 1..Cardinality(Listed)
    BY <1>1
  <2>2. s \in [1..n -> Listed]
    BY <1>2, <2>1
  <2>3. Listings!IsInjective(s)
    BY <1>2, <2>1 DEF Listings!IsInjective
  <2>4. QED
    BY <2>2, <2>3
<1>4. listing \in [1..n -> Listed] /\ Listings!IsInjective(listing)
  <2>1. listing = CHOOSE s \in [1..n -> Listed] : Listings!IsInjective(s)
    <3>1. Listings!Cardinality(Listed) = Cardinality(Listed)
      BY Zenon DEF Listings!Cardinality, Cardinality
    <3>2. QED
      BY <3>1, Zenon DEF Listings!CrawlInit, n
  <2>2. QED
    BY <1>3, <2>1, Zenon
<1>5. listing \in Seq(Listed)
  BY <1>1, <1>4
<1>6. crawl \in CrawlRecords /\ crawl = Listings!Fresh(0)
  BY DEF Listings!CrawlInit, Listings!Fresh, CrawlRecords
<1>7. listing \in Seq(Listed \ withdrawn) /\ withdrawn \subseteq Listed /\ changes \in 0..ChangeBound
  BY <1>5, ListingAssumption DEF Listings!CrawlInit
<1>8. Len(crawl.got) = 0 /\ crawl.lost = {} /\ crawl.at = "start"
  BY <1>6 DEF Listings!Fresh
<1>9. CrawlHolds
  BY <1>8 DEF CrawlHolds
<1>10. advertised \in BOOLEAN
  BY DEF Listings!CrawlInit
<1>11. CrawlTyped
  BY <1>4, <1>6, <1>7, <1>8, <1>10 DEF CrawlTyped
<1>12. QED
  BY <1>9, <1>11 DEF CrawlInv

LEMMA LoseFirstKeepsCrawlInv ==
  ASSUME CrawlInv, Listings!LoseFirst
  PROVE  CrawlInv'
BY DEF Listings!LoseFirst, CrawlInv, CrawlTyped, CrawlHolds, CrawlRecords

\* A crawl whose status becomes a success is one that is closed.
LEMMA OnlyCloseSucceeds ==
  ASSUME CrawlInv, Listings!CrawlNext, ~Listings!Close
  PROVE  ~(crawl'.status = "success" /\ crawl.status = "none")
<1>1. crawl \in CrawlRecords
  BY DEF CrawlInv, CrawlTyped
<1>2. crawl'.status # crawl.status => crawl'.status = "failed"
  <2>1. CASE Listings!Publish \/ Listings!Withdraw
    BY <2>1 DEF Listings!Publish, Listings!Withdraw
  <2>2. CASE Listings!LoseFirst
    BY <1>1, <2>2 DEF Listings!LoseFirst, CrawlRecords
  <2>3. CASE Listings!ReadFirst
    BY <1>1, <2>3 DEF Listings!ReadFirst, CrawlRecords
  <2>4. CASE \E p \in DOMAIN crawl.got : Listings!ReadPage(p) \/ Listings!LosePage(p)
    BY <1>1, <2>4 DEF Listings!ReadPage, Listings!LosePage, CrawlRecords
  <2>5. QED
    BY <2>1, <2>2, <2>3, <2>4 DEF Listings!CrawlNext
<1>3. QED
  BY <1>2

\* A crawl that ends in success holds the listing as it is at its end (CaptureIsTheListing).
LEMMA CaptureHolds ==
  Listings!CrawlInit /\ [][Listings!CrawlNext]_crawlState
  => [](CrawlInv /\ Listings!CrawlTypeOK) /\ Listings!CaptureIsTheListing
<1>1. Listings!CrawlInit => CrawlInv
  BY CrawlBegins
<1>2. CrawlInv /\ [Listings!CrawlNext]_crawlState => CrawlInv'
  <2>1. CASE Listings!CrawlNext
    BY <2>1, PublishKeepsCrawlInv, WithdrawKeepsCrawlInv, ReadFirstKeepsCrawlInv, LoseFirstKeepsCrawlInv,
       PageKeepsCrawlInv, CloseKeepsCrawlInv DEF Listings!CrawlNext
  <2>2. CASE UNCHANGED crawlState
    <3>1. UNCHANGED <<listing, withdrawn, advertised, changes, crawl>>
      BY <2>2 DEF crawlState
    <3>2. UNCHANGED <<Top, Intact, Spoilt>>
      BY <3>1 DEF Top, Intact, Spoilt
    <3>3. QED
      BY <3>1, <3>2 DEF CrawlInv, CrawlTyped, CrawlHolds
  <2>3. QED
    BY <2>1, <2>2
<1>3. CrawlInv => Listings!CrawlTypeOK
  BY DEF CrawlInv, CrawlTyped, CrawlRecords, Listings!CrawlTypeOK
<1>4. CrawlInv /\ [Listings!CrawlNext]_crawlState
      => [crawl'.status = "success" /\ crawl.status = "none" /\ advertised
          => crawl'.got = [p \in 1..Listings!SitePages |-> Listings!SitePage(p)]]_crawlState
  BY CloseKeepsCrawlInv, OnlyCloseSucceeds
<1>5. QED
  BY <1>1, <1>2, <1>3, <1>4, PTL DEF Listings!CaptureIsTheListing, Listings!crawlVars, crawlState

=============================================================================
