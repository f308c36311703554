----------------------- MODULE WorkloadProfile_proofs -----------------------
(***************************************************************************)
(* For every ring size and bucket duration: type correctness of the        *)
(* sliding window, the true bound on the age of what a profile reports,    *)
(* the age below which nothing is discarded, that a profile is the totals  *)
(* of a suffix of the history, and the bounds of the window it reports.    *)
(*                                                                         *)
(* Neither age is inductive.  The invariant that is relates a bucket's   *)
(* age in time to its age in rotations, Age(idx, i): between two rotations *)
(* that move the ring by r there pass at least r * BucketDuration and at   *)
(* most r * (2 * BucketDuration - 1) ticks.                                *)
(***************************************************************************)
EXTENDS WorkloadProfile, FiniteSetTheorems, WellFoundedInduction, TLAPS

-----------------------------------------------------------------------------
(* Sums: what SumFunctionOnSet of the community module Functions computes. *)
(* A fold over a finite set, in an order that CHOOSE picks, is the sum in  *)
(* any order.  Induction is by the least counterexample: a nonempty set of *)
(* naturals has a least element (WFMin), so a finite set with the smallest *)
(* number of elements among those that lack a property has it.             *)

\* A set of naturals has a least element.
LEMMA NatMin ==
    ASSUME NEW T, T \subseteq Nat, T # {}
    PROVE  \E n \in T : \A m \in T : n <= m
<1> DEFINE R == OpToRel(<, Nat)
<1>1. IsWellFoundedOn(R, Nat)
  BY NatLessThanWellFounded
<1> HIDE DEF R
<1>2. PICK n \in T : \A m \in T : <<m, n>> \notin R
  BY <1>1, WFMin
<1>3. \A m \in T : ~(m < n)
  BY <1>2 DEF OpToRel, R
<1> QED
  BY <1>3

\* Induction over the naturals, with the set of those that have the property in the
\* place of the property.
LEMMA SetInduction ==
    ASSUME NEW G, 0 \in G, \A n \in Nat : n \in G => n + 1 \in G
    PROVE  \A n \in Nat : n \in G
<1> SUFFICES ASSUME NEW b \in Nat, b \notin G
             PROVE  FALSE
  OBVIOUS
<1> DEFINE Bad == {n \in Nat : n \notin G}
<1>1. Bad \subseteq Nat /\ Bad # {}
  OBVIOUS
<1>2. PICK n \in Bad : \A m \in Bad : n <= m
  <2> HIDE DEF Bad
  <2> QED
    BY <1>1, NatMin
<1>3. n # 0 /\ n \in Nat /\ n \notin G
  BY <1>2
<1>4. n - 1 \in Nat /\ n - 1 \notin G /\ (n - 1) + 1 = n
  <2>1. n - 1 \in Nat /\ (n - 1) + 1 = n
    BY <1>3
  <2> QED
    BY <1>3, <2>1
<1>5. n <= n - 1
  BY <1>2, <1>4
<1> QED
  BY <1>3, <1>5

\* Induction over the subsets of a finite set, with the set of those that have the
\* property in the place of the property.
LEMMA SubsetInduction ==
    ASSUME NEW S, IsFiniteSet(S), NEW G,
           \A T \in SUBSET S : (\A x \in T : T \ {x} \in G) => T \in G
    PROVE  \A T \in SUBSET S : T \in G
<1> SUFFICES ASSUME NEW B \in SUBSET S, B \notin G
             PROVE  FALSE
  OBVIOUS
<1> DEFINE Bad == {T \in SUBSET S : T \notin G}
           Sizes == {Cardinality(T) : T \in Bad}
<1>1. \A T \in SUBSET S : IsFiniteSet(T) /\ Cardinality(T) \in Nat
  BY FS_Subset, FS_CardinalityType
<1>2. Sizes \subseteq Nat /\ Sizes # {}
  BY <1>1
<1>3. PICK n \in Sizes : \A m \in Sizes : n <= m
  <2> HIDE DEF Sizes
  <2> QED
    BY <1>2, NatMin
<1>4. PICK T \in Bad : Cardinality(T) = n
  BY <1>3
<1>5. PICK x \in T : T \ {x} \notin G
  BY <1>4
<1>6. T \ {x} \in Bad
  BY <1>4, <1>5
<1>7. Cardinality(T \ {x}) = Cardinality(T) - 1
  BY <1>1, <1>4, <1>5, FS_RemoveElement
<1>8. n <= Cardinality(T \ {x}) /\ n \in Nat
  BY <1>2, <1>3, <1>6
<1> QED
  BY <1>4, <1>7, <1>8

-----------------------------------------------------------------------------
(* The fold. *)

Pick(s) == CHOOSE x \in s : TRUE

\* g is the recursive function that the fold evaluates.
IsIter(g, f, S) ==
    g = [s \in SUBSET S |-> IF s = {} THEN 0 ELSE f[Pick(s)] + g[s \ {Pick(s)}]]

Iter(f, S) == CHOOSE g : IsIter(g, f, S)

\* The library's definition, unfolded.
LEMMA SumIsIter ==
    ASSUME NEW f, NEW S
    PROVE  SumFunctionOnSet(f, S) = Iter(f, S)[S]
BY DEF SumFunctionOnSet, FoldFunctionOnSet, MapThenFoldSet, Iter, IsIter, Pick

\* The element that CHOOSE picks is one of the set.
LEMMA PickIn == \A s : s # {} => Pick(s) \in s
BY DEF Pick

\* Two such functions agree where both are defined.
LEMMA IterAgree ==
    ASSUME NEW f, NEW S, NEW T, IsFiniteSet(S), NEW g, NEW h, IsIter(g, f, S), IsIter(h, f, T)
    PROVE  \A s \in SUBSET (S \cap T) : g[s] = h[s]
<1> DEFINE C == S \cap T
           G == {s \in SUBSET C : g[s] = h[s]}
<1>1. IsFiniteSet(C)
  BY FS_Subset
<1>2. ASSUME NEW s \in SUBSET C, \A x \in s : s \ {x} \in G
      PROVE  s \in G
  <2>1. s \in SUBSET S /\ s \in SUBSET T
    OBVIOUS
  <2>2. g[s] = IF s = {} THEN 0 ELSE f[Pick(s)] + g[s \ {Pick(s)}]
    BY <2>1 DEF IsIter
  <2>3. h[s] = IF s = {} THEN 0 ELSE f[Pick(s)] + h[s \ {Pick(s)}]
    BY <2>1 DEF IsIter
  <2>4. s # {} => g[s \ {Pick(s)}] = h[s \ {Pick(s)}]
    BY <1>2, PickIn
  <2> QED
    BY <2>2, <2>3, <2>4
<1> HIDE DEF C
<1>3. \A s \in SUBSET C : s \in G
  <2> HIDE DEF G
  <2> QED
    BY <1>1, <1>2, SubsetInduction
<1> QED
  BY <1>3 DEF C

\* The fold is defined on every finite set.
LEMMA IterExists ==
    ASSUME NEW f, NEW S, IsFiniteSet(S)
    PROVE  \A s \in SUBSET S : IsIter(Iter(f, s), f, s)
<1> DEFINE G == {s \in SUBSET S : \A t \in SUBSET s : IsIter(Iter(f, t), f, t)}
<1>1. ASSUME NEW s \in SUBSET S, \A x \in s : s \ {x} \in G
      PROVE  s \in G
  <2>1. ASSUME NEW t \in SUBSET s, t # s
        PROVE  IsIter(Iter(f, t), f, t)
    <3>1. PICK x \in s : x \notin t
      BY <2>1
    <3>2. t \in SUBSET (s \ {x})
      BY <3>1
    <3> QED
      BY <3>1, <3>2, <1>1
  <2> DEFINE rest(t) == t \ {Pick(t)}
             g == [t \in SUBSET s |-> IF t = {} THEN 0 ELSE f[Pick(t)] + Iter(f, rest(t))[rest(t)]]
  <2>2. ASSUME NEW t \in SUBSET s, t # {}
        PROVE  g[rest(t)] = Iter(f, rest(t))[rest(t)]
    <3> DEFINE u == rest(t)
    <3>1. u \in SUBSET s /\ u # s /\ Pick(t) \in t /\ Pick(t) \notin u
      BY <2>2, PickIn
    <3>2. IsIter(Iter(f, u), f, u)
      BY <2>1, <3>1
    <3>3. u \in SUBSET u
      OBVIOUS
    <3>4. Iter(f, u)[u] = IF u = {} THEN 0 ELSE f[Pick(u)] + Iter(f, u)[rest(u)]
      BY <3>2, <3>3 DEF IsIter
    <3>5. g[u] = IF u = {} THEN 0 ELSE f[Pick(u)] + Iter(f, rest(u))[rest(u)]
      BY <3>1
    <3>6. CASE u = {}
      BY <3>4, <3>5, <3>6
    <3>7. CASE u # {}
      <4> DEFINE v == rest(u)
      <4>1. v \in SUBSET s /\ v # s /\ v \in SUBSET (u \cap v)
        BY <3>1, <3>7
      <4>2. IsIter(Iter(f, v), f, v)
        BY <2>1, <4>1
      <4>3. IsFiniteSet(u)
        BY <3>1, FS_Subset
      <4>4. Iter(f, u)[v] = Iter(f, v)[v]
        <5> HIDE DEF u, v
        <5> QED
          BY <3>2, <4>1, <4>2, <4>3, IterAgree
      <4> QED
        BY <3>4, <3>5, <3>7, <4>4
    <3> QED
      BY <3>6, <3>7
  <2>3. IsIter(g, f, s)
    BY <2>2 DEF IsIter
  <2> HIDE DEF g
  <2>4. IsIter(Iter(f, s), f, s)
    BY <2>3 DEF Iter
  <2> QED
    BY <2>1, <2>4
<1>2. \A s \in SUBSET S : s \in G
  <2> HIDE DEF G
  <2> QED
    BY <1>1, SubsetInduction
<1> QED
  BY <1>2

-----------------------------------------------------------------------------
(* The sum. *)

Sum(f, S) == SumFunctionOnSet(f, S)

\* The sum, one element at a time, in the order of the fold.
LEMMA SumUnfold ==
    ASSUME NEW f, NEW S, IsFiniteSet(S)
    PROVE  Sum(f, S) = IF S = {} THEN 0 ELSE f[Pick(S)] + Sum(f, S \ {Pick(S)})
<1> DEFINE T == S \ {Pick(S)}
<1>1. S \in SUBSET S /\ T \in SUBSET S /\ T \in SUBSET (S \cap T) /\ T \in SUBSET T
  OBVIOUS
<1>2. IsIter(Iter(f, S), f, S) /\ IsIter(Iter(f, T), f, T)
  BY <1>1, IterExists
<1> HIDE DEF T
<1>3. Iter(f, S)[T] = Iter(f, T)[T]
  BY <1>1, <1>2, IterAgree
<1>4. Iter(f, S)[S] = IF S = {} THEN 0 ELSE f[Pick(S)] + Iter(f, S)[T]
  BY <1>1, <1>2 DEF IsIter, T
<1> QED
  BY <1>3, <1>4, SumIsIter DEF Sum, T

\* The sum of integers is an integer.
LEMMA SumType ==
    ASSUME NEW f, NEW S, IsFiniteSet(S), \A x \in S : f[x] \in Int
    PROVE  Sum(f, S) \in Int
<1> DEFINE G == {T \in SUBSET S : Sum(f, T) \in Int}
<1>1. ASSUME NEW T \in SUBSET S, \A x \in T : T \ {x} \in G
      PROVE  T \in G
  <2>1. Sum(f, T) = IF T = {} THEN 0 ELSE f[Pick(T)] + Sum(f, T \ {Pick(T)})
    BY SumUnfold, FS_Subset
  <2>2. T # {} => f[Pick(T)] \in Int /\ Sum(f, T \ {Pick(T)}) \in Int
    BY <1>1, PickIn
  <2> QED
    BY <2>1, <2>2
<1>2. \A T \in SUBSET S : T \in G
  <2> HIDE DEF G
  <2> QED
    BY <1>1, SubsetInduction
<1> QED
  BY <1>2

\* Any element can be taken out of the sum first.
LEMMA SumRemove ==
    ASSUME NEW f, NEW S, IsFiniteSet(S), \A x \in S : f[x] \in Int
    PROVE  \A x \in S : Sum(f, S) = f[x] + Sum(f, S \ {x})
<1> DEFINE G == {T \in SUBSET S : \A x \in T : Sum(f, T) = f[x] + Sum(f, T \ {x})}
<1>1. ASSUME NEW T \in SUBSET S, \A x \in T : T \ {x} \in G
      PROVE  T \in G
  <2> SUFFICES ASSUME NEW x \in T
               PROVE  Sum(f, T) = f[x] + Sum(f, T \ {x})
    OBVIOUS
  <2> DEFINE p == Pick(T)
  <2>1. p \in T
    BY PickIn
  <2>2. Sum(f, T) = f[p] + Sum(f, T \ {p})
    BY SumUnfold, FS_Subset
  <2> HIDE DEF p
  <2>3. CASE p # x
    <3>1. (T \ {p}) \ {x} = (T \ {x}) \ {p}
      OBVIOUS
    <3>2. Sum(f, T \ {p}) = f[x] + Sum(f, (T \ {p}) \ {x})
      BY <1>1, <2>1, <2>3
    <3>3. Sum(f, T \ {x}) = f[p] + Sum(f, (T \ {x}) \ {p})
      BY <1>1, <2>1, <2>3
    <3> DEFINE a == Sum(f, T)
               b == Sum(f, T \ {p})
               c == Sum(f, T \ {x})
               d == Sum(f, (T \ {p}) \ {x})
               y == f[x]
               z == f[p]
    <3>4. IsFiniteSet((T \ {p}) \ {x}) /\ \A w \in (T \ {p}) \ {x} : f[w] \in Int
      BY FS_Subset
    <3>5. d \in Int /\ y \in Int /\ z \in Int
      BY <3>4, <2>1, SumType
    <3>6. a = z + b /\ b = y + d /\ c = z + d
      BY <2>2, <3>1, <3>2, <3>3
    <3> HIDE DEF a, b, c, d, y, z
    <3>7. a = y + c
      BY <3>5, <3>6
    <3> QED
      BY <3>7 DEF a, c, y
  <2> QED
    BY <2>2, <2>3
<1>2. \A T \in SUBSET S : T \in G
  <2> HIDE DEF G
  <2> QED
    BY <1>1, SubsetInduction
<1> QED
  BY <1>2

\* The sum over no element.
LEMMA SumEmpty == ASSUME NEW f PROVE Sum(f, {}) = 0
BY SumUnfold, FS_EmptySet

\* The sum with one element more.
LEMMA SumAdd ==
    ASSUME NEW f, NEW S, IsFiniteSet(S), NEW x, x \notin S, \A y \in S \cup {x} : f[y] \in Int
    PROVE  Sum(f, S \cup {x}) = f[x] + Sum(f, S)
<1>1. IsFiniteSet(S \cup {x}) /\ (S \cup {x}) \ {x} = S
  BY FS_AddElement
<1> QED
  BY <1>1, SumRemove

\* The sum depends on the values of f on S alone.
LEMMA SumSame ==
    ASSUME NEW f, NEW g, NEW S, IsFiniteSet(S), \A x \in S : f[x] = g[x]
    PROVE  Sum(f, S) = Sum(g, S)
<1> DEFINE G == {T \in SUBSET S : Sum(f, T) = Sum(g, T)}
<1>1. ASSUME NEW T \in SUBSET S, \A x \in T : T \ {x} \in G
      PROVE  T \in G
  <2>1. Sum(f, T) = IF T = {} THEN 0 ELSE f[Pick(T)] + Sum(f, T \ {Pick(T)})
    BY SumUnfold, FS_Subset
  <2>2. Sum(g, T) = IF T = {} THEN 0 ELSE g[Pick(T)] + Sum(g, T \ {Pick(T)})
    BY SumUnfold, FS_Subset
  <2>3. T # {} => /\ f[Pick(T)] = g[Pick(T)]
                  /\ Sum(f, T \ {Pick(T)}) = Sum(g, T \ {Pick(T)})
    BY <1>1, PickIn
  <2> QED
    BY <2>1, <2>2, <2>3
<1>2. \A T \in SUBSET S : T \in G
  <2> HIDE DEF G
  <2> QED
    BY <1>1, SubsetInduction
<1> QED
  BY <1>2

\* The sum over two sets without a common element.
LEMMA SumUnion ==
    ASSUME NEW f, NEW S, NEW T, IsFiniteSet(S), IsFiniteSet(T), S \cap T = {},
           \A x \in S \cup T : f[x] \in Int
    PROVE  Sum(f, S \cup T) = Sum(f, S) + Sum(f, T)
<1> DEFINE G == {U \in SUBSET T : Sum(f, S \cup U) = Sum(f, S) + Sum(f, U)}
<1>0. Sum(f, S) \in Int
  BY SumType
<1>1. ASSUME NEW U \in SUBSET T, \A x \in U : U \ {x} \in G
      PROVE  U \in G
  <2>1. CASE U = {}
    <3>1. S \cup U = S
      BY <2>1
    <3> QED
      BY <1>0, <2>1, <3>1, SumEmpty
  <2>2. CASE U # {}
    <3>1. PICK x \in U : TRUE
      BY <2>2
    <3> DEFINE V == U \ {x}
               a == Sum(f, S)
               b == Sum(f, V)
    <3>2. V \in SUBSET T /\ x \notin V /\ x \notin S \cup V
      OBVIOUS
    <3>3. IsFiniteSet(V) /\ IsFiniteSet(S \cup V)
      BY <3>2, FS_Subset, FS_Union
    <3>4. \A y \in (S \cup V) \cup {x} : f[y] \in Int
      BY <3>2
    <3>5. Sum(f, (S \cup V) \cup {x}) = f[x] + Sum(f, S \cup V)
      BY <3>2, <3>3, <3>4, SumAdd
    <3>6. Sum(f, V \cup {x}) = f[x] + b
      BY <3>2, <3>3, <3>4, SumAdd
    <3>7. Sum(f, S \cup V) = a + b
      BY <1>1, <3>1
    <3>8. (S \cup V) \cup {x} = S \cup U /\ V \cup {x} = U
      OBVIOUS
    <3>9. b \in Int /\ f[x] \in Int
      BY <3>3, <3>4, SumType
    <3>10. Sum(f, S \cup U) = f[x] + (a + b) /\ Sum(f, U) = f[x] + b
      BY <3>5, <3>6, <3>7, <3>8
    <3> HIDE DEF a, b, V
    <3>11. f[x] + (a + b) = a + (f[x] + b)
      BY <1>0, <3>9 DEF a
    <3> QED
      BY <3>10, <3>11 DEF a
  <2> QED
    BY <2>1, <2>2
<1>2. \A U \in SUBSET T : U \in G
  <2> HIDE DEF G
  <2> QED
    BY <1>1, SubsetInduction
<1> QED
  BY <1>2

\* The sum over a union of disjoint sets is the sum of their sums.
LEMMA SumFamily ==
    ASSUME NEW f, NEW I, IsFiniteSet(I), NEW H, NEW g,
           \A i \in I : IsFiniteSet(H[i]) /\ g[i] = Sum(f, H[i]),
           \A i \in I : \A x \in H[i] : f[x] \in Int,
           \A i, j \in I : i # j => H[i] \cap H[j] = {},
           NEW U, \A x : x \in U <=> \E i \in I : x \in H[i]
    PROVE  IsFiniteSet(U) /\ Sum(g, I) = Sum(f, U)
<1> DEFINE Of(J) == UNION {H[i] : i \in J}
           G == {J \in SUBSET I : IsFiniteSet(Of(J)) /\ Sum(g, J) = Sum(f, Of(J))}
<1>0. \A i \in I : g[i] \in Int
  BY SumType
<1>1. ASSUME NEW J \in SUBSET I, \A x \in J : J \ {x} \in G
      PROVE  J \in G
  <2>1. CASE J = {}
    <3>1. Of(J) = {}
      BY <2>1
    <3> QED
      BY <2>1, <3>1, SumEmpty, FS_EmptySet
  <2>2. CASE J # {}
    <3>1. PICK i \in J : TRUE
      BY <2>2
    <3> DEFINE K == J \ {i}
    <3>2. IsFiniteSet(Of(K)) /\ Sum(g, K) = Sum(f, Of(K))
      BY <1>1, <3>1
    <3>3. IsFiniteSet(K) /\ i \notin K /\ K \cup {i} = J
      BY FS_Subset
    <3>4. \A j \in K \cup {i} : g[j] \in Int
      BY <1>0
    <3>5. Sum(g, K \cup {i}) = g[i] + Sum(g, K)
      <4> HIDE DEF K
      <4> QED
        BY <3>3, <3>4, SumAdd
    <3> DEFINE A == Of(K)
               B == H[i]
    <3>6. A \cap B = {} /\ A \cup B = Of(J)
      OBVIOUS
    <3>7. \A x \in A \cup B : f[x] \in Int
      OBVIOUS
    <3>8. IsFiniteSet(A) /\ IsFiniteSet(B) /\ Sum(g, K) = Sum(f, A) /\ g[i] = Sum(f, B)
      BY <3>2
    <3> HIDE DEF A, B, Of
    <3>9. Sum(f, A) \in Int /\ Sum(f, B) \in Int
      BY <3>7, <3>8, SumType
    <3>10. IsFiniteSet(A \cup B) /\ Sum(f, A \cup B) = Sum(f, A) + Sum(f, B)
      <4>1. IsFiniteSet(A \cup B)
        BY <3>8, FS_Union
      <4> QED
        BY <4>1, <3>6, <3>7, <3>8, SumUnion
    <3>11. Sum(g, J) = Sum(f, B) + Sum(f, A)
      BY <3>3, <3>5, <3>8
    <3> DEFINE p == Sum(f, A)
               q == Sum(f, B)
    <3>12. Sum(g, J) = Sum(f, Of(J))
      <4>1. q + p = p + q
        <5> HIDE DEF p, q
        <5>1. p \in Int /\ q \in Int
          BY <3>9 DEF p, q
        <5> QED
          BY <5>1
      <4> QED
        BY <4>1, <3>6, <3>10, <3>11
    <3> QED
      BY <3>6, <3>10, <3>12
  <2> QED
    BY <2>1, <2>2
<1>2. \A J \in SUBSET I : J \in G
  <2> HIDE DEF G
  <2> QED
    BY <1>1, SubsetInduction
<1>3. Of(I) = U
  OBVIOUS
<1>4. I \in G
  BY <1>2
<1> QED
  BY <1>3, <1>4

-----------------------------------------------------------------------------
(* The ring. *)

\* How many rotations ago bucket i was the current one, when idx is.
Age(idx, i) == IF i <= idx THEN idx - i ELSE idx - i + BucketCount

\* The ring b, with idx current since rot, is well formed at time t.
RingInv(b, idx, rot, t) ==
    /\ rot <= t
    /\ \A i \in Indices :
         /\ b[i].StartTime <= t
         /\ rot - b[i].StartTime <= Age(idx, i) * (2 * BucketDuration - 1)
         /\ \A c \in b[i].held :
              /\ b[i].StartTime <= c.at
              /\ c.at <= t
              /\ (Age(idx, i) - 1) * BucketDuration + 1 <= rot - c.at

\* What has left the ring left it old.
Dropped(b, t) ==
    \A c \in recorded : \/ \E i \in Indices : c \in b[i].held
                        \/ t - c.at > MinRetention

IndInv ==
    /\ TypeOK
    /\ RingInv(buckets, currentIdx, lastRotation, now)
    /\ Dropped(buckets, now)
    /\ ret # NoProfile => now - lastRotation < BucketDuration

-----------------------------------------------------------------------------
(* Arithmetic. *)

\* Integer division: the quotient's multiple is within one divisor below.
LEMMA DivBound ==
    ASSUME NEW x \in Nat, NEW d \in Nat \ {0}
    PROVE  /\ x \div d \in Nat
           /\ d * (x \div d) <= x
           /\ x < d * (x \div d) + d
  OBVIOUS

\* Below the modulus % is the identity.
LEMMA ModSmall ==
    ASSUME NEW x \in Nat, NEW d \in Nat \ {0}, x < d
    PROVE  x % d = x
  OBVIOUS

\* Between the modulus and its double % subtracts the modulus once.
LEMMA ModWrap ==
    ASSUME NEW x \in Nat, NEW d \in Nat \ {0}, d <= x, x < 2 * d
    PROVE  x % d = x - d
  OBVIOUS

\* Advancing a ring index by at most the ring's size wraps at most once.
LEMMA Advance ==
    ASSUME NEW a \in Indices, NEW k \in 0 .. BucketCount
    PROVE  /\ (a + k) % BucketCount \in Indices
           /\ (a + k) % BucketCount = IF a + k < BucketCount THEN a + k
                                      ELSE a + k - BucketCount
  <1>0. a + k \in Nat /\ a + k < 2 * BucketCount
    BY WindowAssumption DEF Indices
  <1>1. CASE a + k < BucketCount
    <2>1. (a + k) % BucketCount = a + k
      BY <1>0, <1>1, ModSmall, WindowAssumption
    <2>2. QED
      BY <2>1, <1>0, <1>1, WindowAssumption DEF Indices
  <1>2. CASE ~(a + k < BucketCount)
    <2>0. BucketCount <= a + k
      BY <1>0, <1>2, WindowAssumption
    <2>1. (a + k) % BucketCount = (a + k) - BucketCount
      BY <1>0, <2>0, ModWrap, WindowAssumption, Zenon
    <2>2. QED
      BY <2>1, <1>0, <1>2, WindowAssumption DEF Indices
  <1>3. QED
    BY <1>1, <1>2

\* Multiplication by a natural number is monotone.
LEMMA TimesMono ==
    ASSUME NEW x \in Int, NEW y \in Int, NEW d \in Nat, x <= y
    PROVE  x * d <= y * d
  OBVIOUS

\* Multiplication distributes over a sum.
LEMMA TimesPlus ==
    ASSUME NEW x \in Int, NEW y \in Int, NEW d \in Int
    PROVE  (x + y) * d = x * d + y * d
  OBVIOUS

-----------------------------------------------------------------------------
(* One rotation. *)

\* The number of rotations is a natural within the ring's size; they account
\* for all but less than a bucket's duration of the time, unless capped.
LEMMA RotationsBound ==
    ASSUME TypeOK, lastRotation <= now
    PROVE  /\ Rotations \in 0 .. BucketCount
           /\ Rotations * BucketDuration <= now - lastRotation
           /\ Rotations < BucketCount =>
                now - lastRotation < Rotations * BucketDuration + BucketDuration
  <1> DEFINE e == now - lastRotation
             m == e \div BucketDuration
  <1>1. e \in Nat
    BY DEF TypeOK
  <1>2. /\ m \in Nat
        /\ BucketDuration * m <= e
        /\ e < BucketDuration * m + BucketDuration
    BY <1>1, DivBound, WindowAssumption
  <1>3. Rotations = IF m > BucketCount THEN BucketCount ELSE m
    BY DEF Rotations
  <1> HIDE DEF m, e
  <1>4. CASE m > BucketCount
    <2>1. Rotations = BucketCount
      BY <1>3, <1>4
    <2>2. BucketCount * BucketDuration <= m * BucketDuration
      BY <1>2, <1>4, TimesMono, WindowAssumption
    <2>3. BucketCount * BucketDuration <= e
      BY <2>2, <1>1, <1>2, WindowAssumption
    <2>4. QED
      BY <2>1, <2>3, WindowAssumption DEF e
  <1>5. CASE ~(m > BucketCount)
    <2>1. Rotations = m
      BY <1>3, <1>5
    <2>2. QED
      BY <2>1, <1>1, <1>2, <1>5, WindowAssumption DEF e
  <1>6. QED
    BY <1>4, <1>5

\* The buckets that survive a rotation are those whose age stays below the
\* ring's size, and each is older by the number of rotations.
LEMMA Survivors ==
    ASSUME TypeOK, lastRotation <= now, NEW i \in Indices
    PROVE  /\ RotatedIdx \in Indices
           /\ Age(currentIdx, i) \in Indices
           /\ Age(RotatedIdx, i) \in Indices
           /\ i \notin Expired =>
                /\ Rotations < BucketCount
                /\ Age(RotatedIdx, i) = Age(currentIdx, i) + Rotations
           /\ i \in Expired => Rotations > 0
           /\ i \in Expired => Age(currentIdx, i) + Rotations >= BucketCount
  <1>1. /\ Rotations \in 0 .. BucketCount
        /\ currentIdx \in Indices
    BY RotationsBound DEF TypeOK
  <1>2. /\ RotatedIdx \in Indices
        /\ RotatedIdx = IF currentIdx + Rotations < BucketCount
                        THEN currentIdx + Rotations
                        ELSE currentIdx + Rotations - BucketCount
    BY <1>1, Advance DEF RotatedIdx
  <1>3. ASSUME NEW k \in 1 .. Rotations
        PROVE (currentIdx + k) % BucketCount =
             IF currentIdx + k < BucketCount THEN currentIdx + k
             ELSE currentIdx + k - BucketCount
    <2>1. k \in 0 .. BucketCount
      BY <1>1, WindowAssumption
    <2>2. QED
      BY <2>1, <1>1, Advance
  <1>4. ASSUME i \notin Expired
        PROVE  /\ Rotations < BucketCount
               /\ Age(RotatedIdx, i) = Age(currentIdx, i) + Rotations
    <2>1. \A k \in 1 .. Rotations : (currentIdx + k) % BucketCount # i
      BY <1>4 DEF Expired
    <2>2. \A k \in 1 .. Rotations :
             i # IF currentIdx + k < BucketCount THEN currentIdx + k
                 ELSE currentIdx + k - BucketCount
      BY <2>1, <1>3
    <2>3. CASE i <= currentIdx
      <3> DEFINE k == i - currentIdx + BucketCount
      <3>1. ~(k \in 1 .. Rotations)
        <4>1. SUFFICES ASSUME k \in 1 .. Rotations PROVE FALSE
          OBVIOUS
        <4>2. i # IF currentIdx + k < BucketCount THEN currentIdx + k
                  ELSE currentIdx + k - BucketCount
          BY <4>1, <2>2
        <4>3. QED
          BY <4>2, <2>3, <1>1, WindowAssumption DEF Indices
      <3>2. QED
        BY <3>1, <2>3, <1>1, <1>2, WindowAssumption DEF Indices, Age
    <2>4. CASE ~(i <= currentIdx)
      <3> DEFINE k == i - currentIdx
      <3>1. ~(k \in 1 .. Rotations)
        <4>1. SUFFICES ASSUME k \in 1 .. Rotations PROVE FALSE
          OBVIOUS
        <4>2. i # IF currentIdx + k < BucketCount THEN currentIdx + k
                  ELSE currentIdx + k - BucketCount
          BY <4>1, <2>2
        <4>3. QED
          BY <4>2, <2>4, <1>1, WindowAssumption DEF Indices
      <3>2. QED
        BY <3>1, <2>4, <1>1, <1>2, WindowAssumption DEF Indices, Age
    <2>5. QED
      BY <2>3, <2>4
  <1>5. ASSUME i \in Expired
        PROVE  /\ Rotations > 0
               /\ Age(currentIdx, i) + Rotations >= BucketCount
    <2>1. PICK k \in 1 .. Rotations : (currentIdx + k) % BucketCount = i
      BY <1>5 DEF Expired
    <2>2. i = IF currentIdx + k < BucketCount THEN currentIdx + k
              ELSE currentIdx + k - BucketCount
      BY <2>1, <1>3
    <2>3. QED
      BY <2>2, <1>1, WindowAssumption DEF Indices, Age
  <1>6. QED
    BY <1>1, <1>2, <1>4, <1>5, WindowAssumption DEF Indices, Age

\* A surviving bucket's age in rotations grows by r >= 1 while its age in time
\* grows by e: the two bounds of the invariant carry over.
LEMMA AgeStep ==
    ASSUME NEW a \in Nat, NEW r \in Nat \ {0}, NEW d \in Nat \ {0},
           NEW e \in Nat, r * d <= e, e < r * d + d
    PROVE  /\ e + a * (2 * d - 1) <= (a + r) * (2 * d - 1)
           /\ (a + r - 1) * d + 1 <= e + ((a - 1) * d + 1)
  <1>1. /\ (a + r) * (2 * d - 1) = a * (2 * d - 1) + r * (2 * d - 1)
        /\ (a + r - 1) * d = (a - 1) * d + r * d
        /\ r * (2 * d - 1) = r * d + r * (d - 1)
    OBVIOUS
  <1>2. d - 1 <= r * (d - 1)
    <2>1. 1 * (d - 1) <= r * (d - 1)
      BY TimesMono
    <2>2. QED
      BY <2>1
  <1>3. /\ a * (2 * d - 1) \in Int
        /\ r * (2 * d - 1) \in Int
        /\ r * d \in Int
        /\ r * (d - 1) \in Int
        /\ (a - 1) * d \in Int
    OBVIOUS
  <1>4. QED
    BY <1>1, <1>2, <1>3

\* What maybeRotate discards is older than MinRetention.
LEMMA ExpiredAreOld ==
    ASSUME NEW a \in Nat, NEW r \in Nat, NEW e \in Nat, NEW x \in Int,
           a + r >= BucketCount, r * BucketDuration <= e,
           (a - 1) * BucketDuration + 1 <= x
    PROVE  e + x > MinRetention
  <1> DEFINE d == BucketDuration
  <1>1. /\ d \in Nat
        /\ BucketCount \in Nat
    BY WindowAssumption
  <1>2. (BucketCount - 1) * d <= (a + r - 1) * d
    BY <1>1, TimesMono
  <1>3. (a + r - 1) * d = (a - 1) * d + r * d
    BY <1>1
  <1>4. /\ (a - 1) * d \in Int
        /\ r * d \in Int
        /\ (BucketCount - 1) * d \in Int
    BY <1>1
  <1>5. QED
    BY <1>2, <1>3, <1>4 DEF MinRetention

\* The ring after maybeRotate is well formed, rotated less than a bucket ago,
\* and whatever the rotation discarded was old.
LEMMA RotateRing ==
    ASSUME TypeOK, RingInv(buckets, currentIdx, lastRotation, now),
           Dropped(buckets, now)
    PROVE  /\ RotatedBuckets \in [Indices -> Bucket]
           /\ RotatedIdx \in Indices
           /\ RotatedAt \in Nat
           /\ RingInv(RotatedBuckets, RotatedIdx, RotatedAt, now)
           /\ Dropped(RotatedBuckets, now)
           /\ now - RotatedAt < BucketDuration
  <1> DEFINE e == now - lastRotation
  <1>1. /\ lastRotation <= now
        /\ now \in Nat
        /\ lastRotation \in Nat
        /\ e \in Nat
        /\ BucketCount \in Nat \ {0}
        /\ BucketDuration \in Nat \ {0}
    BY WindowAssumption DEF TypeOK, RingInv
  <1>2. /\ Rotations \in 0 .. BucketCount
        /\ Rotations * BucketDuration <= e
        /\ Rotations < BucketCount => e < Rotations * BucketDuration + BucketDuration
    BY <1>1, RotationsBound
  <1>3. RotatedBuckets \in [Indices -> Bucket]
    <2>1. Reset(now) \in Bucket
      BY <1>1 DEF Reset, Bucket, Counts, NoCounts
    <2>2. \A i \in Indices : buckets[i] \in Bucket
      BY DEF TypeOK
    <2>3. QED
      BY <2>1, <2>2 DEF RotatedBuckets
  <1>4. /\ RotatedAt \in Nat
        /\ RotatedAt <= now
        /\ RotatedAt = IF Rotations > 0 THEN now ELSE lastRotation
    BY <1>1 DEF RotatedAt
  <1>5. now - RotatedAt < BucketDuration
    <2>1. CASE Rotations > 0
      BY <2>1, <1>1, <1>4
    <2>2. CASE ~(Rotations > 0)
      <3>1. Rotations = 0
        BY <2>2, <1>2
      <3>2. QED
        BY <3>1, <1>1, <1>2, <1>4
    <2>3. QED
      BY <2>1, <2>2
  <1>6. RotatedIdx \in Indices
    <2>1. 0 \in Indices
      BY <1>1 DEF Indices
    <2>2. QED
      BY <2>1, <1>1, Survivors
  <1>7. RingInv(RotatedBuckets, RotatedIdx, RotatedAt, now)
    <2> SUFFICES ASSUME NEW i \in Indices
                 PROVE  /\ RotatedBuckets[i].StartTime <= now
                        /\ RotatedAt - RotatedBuckets[i].StartTime
                             <= Age(RotatedIdx, i) * (2 * BucketDuration - 1)
                        /\ \A c \in RotatedBuckets[i].held :
                             /\ RotatedBuckets[i].StartTime <= c.at
                             /\ c.at <= now
                             /\ (Age(RotatedIdx, i) - 1) * BucketDuration + 1
                                  <= RotatedAt - c.at
      BY <1>4 DEF RingInv
    <2>1. /\ Age(currentIdx, i) \in Nat
          /\ Age(RotatedIdx, i) \in Nat
      BY <1>1, Survivors DEF Indices
    <2>2. CASE i \in Expired
      <3>1. /\ RotatedBuckets[i] = Reset(now)
            /\ RotatedAt = now
        BY <2>2, <1>1, <1>4, Survivors DEF RotatedBuckets
      <3>2. /\ RotatedBuckets[i].StartTime = now
            /\ RotatedBuckets[i].held = {}
        BY <3>1 DEF Reset
      <3>3. 0 <= Age(RotatedIdx, i) * (2 * BucketDuration - 1)
        <4>1. 0 * (2 * BucketDuration - 1) <= Age(RotatedIdx, i) * (2 * BucketDuration - 1)
          BY <2>1, <1>1, TimesMono
        <4>2. QED
          BY <4>1, <1>1
      <3>4. QED
        BY <3>1, <3>2, <3>3, <1>1
    <2>3. CASE i \notin Expired
      <3>1. RotatedBuckets[i] = buckets[i]
        BY <2>3 DEF RotatedBuckets
      <3>2. /\ Rotations < BucketCount
            /\ Age(RotatedIdx, i) = Age(currentIdx, i) + Rotations
        BY <2>3, <1>1, Survivors
      <3>3. /\ buckets[i].StartTime \in Nat
            /\ buckets[i].StartTime <= now
            /\ lastRotation - buckets[i].StartTime
                 <= Age(currentIdx, i) * (2 * BucketDuration - 1)
            /\ \A c \in buckets[i].held :
                  /\ c.at \in Nat
                  /\ buckets[i].StartTime <= c.at
                  /\ c.at <= now
                  /\ (Age(currentIdx, i) - 1) * BucketDuration + 1 <= lastRotation - c.at
        BY DEF RingInv, TypeOK, Bucket, Call
      <3>4. CASE Rotations = 0
        BY <3>1, <3>2, <3>3, <3>4, <2>1, <1>4
      <3>5. CASE Rotations > 0
        <4> DEFINE a == Age(currentIdx, i)
                   w == a * (2 * BucketDuration - 1)
                   w2 == (a + Rotations) * (2 * BucketDuration - 1)
                   v == (a - 1) * BucketDuration + 1
                   v2 == (a + Rotations - 1) * BucketDuration + 1
        <4>1. e + w <= w2 /\ v2 <= e + v
          BY <3>2, <3>5, <2>1, <1>1, <1>2, AgeStep
        <4>2. RotatedAt = now
          BY <3>5, <1>4
        <4>3. w \in Int /\ w2 \in Int /\ v \in Int /\ v2 \in Int
          BY <2>1, <1>1, <1>2
        <4>4. now - buckets[i].StartTime <= w2
          <5>1. lastRotation - buckets[i].StartTime <= w
            BY <3>3
          <5> HIDE DEF w, w2
          <5>2. QED
            BY <5>1, <4>1, <4>3, <3>3, <1>1
        <4>5. \A c \in buckets[i].held : v2 <= now - c.at
          <5>1. \A c \in buckets[i].held : c.at \in Nat /\ v <= lastRotation - c.at
            BY <3>3
          <5> HIDE DEF v, v2
          <5>2. QED
            BY <5>1, <4>1, <4>3, <1>1
        <4>6. /\ Age(RotatedIdx, i) * (2 * BucketDuration - 1) = w2
              /\ (Age(RotatedIdx, i) - 1) * BucketDuration + 1 = v2
          <5>1. Age(RotatedIdx, i) = a + Rotations
            BY <3>2
          <5>2. QED
            BY <5>1, <2>1, <1>1, <1>2
        <4> HIDE DEF a, w, w2, v, v2
        <4>7. QED
          BY <4>2, <4>4, <4>5, <4>6, <3>1, <3>3
      <3>6. QED
        BY <3>4, <3>5, <1>2
    <2>4. QED
      BY <2>2, <2>3
  <1>8. Dropped(RotatedBuckets, now)
    <2> SUFFICES ASSUME NEW c \in recorded, NEW i \in Indices, c \in buckets[i].held,
                        \A j \in Indices : c \notin RotatedBuckets[j].held
                 PROVE  now - c.at > MinRetention
      BY DEF Dropped
    <2>1. i \in Expired
      BY DEF RotatedBuckets
    <2>2. /\ Age(currentIdx, i) \in Nat
          /\ Age(currentIdx, i) + Rotations >= BucketCount
      BY <2>1, <1>1, Survivors DEF Indices
    <2>3. /\ (Age(currentIdx, i) - 1) * BucketDuration + 1 <= lastRotation - c.at
          /\ c.at \in Nat
      BY DEF RingInv, TypeOK, Call
    <2>4. e + (lastRotation - c.at) > MinRetention
      BY <2>2, <2>3, <1>1, <1>2, ExpiredAreOld
    <2>5. MinRetention \in Int
      BY <1>1 DEF MinRetention
    <2>6. QED
      BY <2>3, <2>4, <2>5, <1>1
  <1>9. QED
    BY <1>3, <1>4, <1>5, <1>6, <1>7, <1>8

-----------------------------------------------------------------------------
(* The steps. *)

\* Recording into the rotated ring keeps it well formed: the new call is in
\* the current bucket, whose age is 0.
LEMMA RecordStep ==
    ASSUME IndInv, NEW adds \in Counts, NEW node \in Nodes, Record(adds, node)
    PROVE  IndInv'
  <1> DEFINE call == [id |-> calls, at |-> now, node |-> node, adds |-> adds]
             b    == RotatedBuckets[RotatedIdx]
             nb   == [b EXCEPT !.counts = Plus(b.counts, adds),
                               !.held = b.held \cup {call}]
  <1>1. /\ RotatedBuckets \in [Indices -> Bucket]
        /\ RotatedIdx \in Indices
        /\ RotatedAt \in Nat
        /\ RingInv(RotatedBuckets, RotatedIdx, RotatedAt, now)
        /\ Dropped(RotatedBuckets, now)
        /\ now - RotatedAt < BucketDuration
    BY RotateRing DEF IndInv
  <1>2. /\ now \in Nat /\ calls \in Nat /\ recorded \subseteq Call
        /\ BucketDuration \in Nat \ {0} /\ BucketCount \in Nat \ {0}
    BY WindowAssumption DEF IndInv, TypeOK
  <1>3. /\ call \in Call
        /\ call.at = now
    BY <1>2 DEF Call
  <1>4. /\ nb \in Bucket
        /\ nb.StartTime = b.StartTime
        /\ nb.held = b.held \cup {call}
    <2>1. b \in Bucket
      BY <1>1
    <2>2. Plus(b.counts, adds) \in Counts
      BY <2>1 DEF Plus, Bucket, Counts
    <2>3. QED
      BY <2>1, <2>2, <1>3 DEF Bucket
  <1> HIDE DEF call
  <1>5. /\ buckets' = [RotatedBuckets EXCEPT ![RotatedIdx] = nb]
        /\ currentIdx' = RotatedIdx
        /\ lastRotation' = RotatedAt
        /\ nodeLocations' = nodeLocations \cup {node}
        /\ recorded' = recorded \cup {call}
        /\ calls' = calls + 1
        /\ ret' = NoProfile
        /\ now' = now
    BY DEF Record, call
  <1> HIDE DEF nb
  <1>6. TypeOK'
    BY <1>1, <1>2, <1>3, <1>4, <1>5 DEF IndInv, TypeOK
  <1>7. RingInv(buckets', RotatedIdx, RotatedAt, now)
    <2>1. RotatedAt <= now
      BY <1>1 DEF RingInv
    <2> SUFFICES ASSUME NEW i \in Indices
                 PROVE  /\ buckets'[i].StartTime <= now
                        /\ RotatedAt - buckets'[i].StartTime
                             <= Age(RotatedIdx, i) * (2 * BucketDuration - 1)
                        /\ \A c \in buckets'[i].held :
                             /\ buckets'[i].StartTime <= c.at
                             /\ c.at <= now
                             /\ (Age(RotatedIdx, i) - 1) * BucketDuration + 1
                                  <= RotatedAt - c.at
      BY <2>1 DEF RingInv
    <2>2. /\ RotatedBuckets[i].StartTime <= now
          /\ RotatedAt - RotatedBuckets[i].StartTime
               <= Age(RotatedIdx, i) * (2 * BucketDuration - 1)
          /\ \A c \in RotatedBuckets[i].held :
               /\ RotatedBuckets[i].StartTime <= c.at
               /\ c.at <= now
               /\ (Age(RotatedIdx, i) - 1) * BucketDuration + 1 <= RotatedAt - c.at
      BY <1>1 DEF RingInv
    <2>3. CASE i # RotatedIdx
      <3>1. buckets'[i] = RotatedBuckets[i]
        BY <2>3, <1>1, <1>5
      <3>2. QED
        BY <3>1, <2>2
    <2>4. CASE i = RotatedIdx
      <3>1. buckets'[i] = nb
        BY <2>4, <1>1, <1>5
      <3>2. Age(RotatedIdx, i) = 0
        BY <2>4, <1>1, <1>2 DEF Age, Indices
      <3>3. (0 - 1) * BucketDuration + 1 <= RotatedAt - now
        BY <1>1, <1>2
      <3>4. /\ b.StartTime <= call.at
            /\ call.at <= now
            /\ (Age(RotatedIdx, i) - 1) * BucketDuration + 1 <= RotatedAt - call.at
        BY <3>2, <3>3, <2>2, <2>4, <1>2, <1>3
      <3>5. QED
        BY <3>1, <3>4, <2>2, <2>4, <1>4
    <2>5. QED
      BY <2>3, <2>4
  <1>8. Dropped(buckets, now)'
    <2> SUFFICES ASSUME NEW c \in recorded'
                 PROVE  \/ \E i \in Indices : c \in buckets'[i].held
                        \/ now - c.at > MinRetention
      BY <1>5 DEF Dropped, MinRetention
    <2>1. \A i \in Indices : RotatedBuckets[i].held \subseteq buckets'[i].held
      BY <1>1, <1>4, <1>5
    <2>2. call \in buckets'[RotatedIdx].held
      BY <1>1, <1>4, <1>5
    <2>3. QED
      BY <2>1, <2>2, <1>1, <1>5 DEF Dropped
  <1>9. QED
    BY <1>5, <1>6, <1>7, <1>8 DEF IndInv, RingInv, Age, Indices

\* A read leaves the rotated ring.
LEMMA ComputeStep ==
    ASSUME IndInv, ComputeProfile
    PROVE  IndInv'
  <1>1. /\ RotatedBuckets \in [Indices -> Bucket]
        /\ RotatedIdx \in Indices
        /\ RotatedAt \in Nat
        /\ RingInv(RotatedBuckets, RotatedIdx, RotatedAt, now)
        /\ Dropped(RotatedBuckets, now)
        /\ now - RotatedAt < BucketDuration
    BY RotateRing DEF IndInv
  <1>2. /\ buckets' = RotatedBuckets
        /\ currentIdx' = RotatedIdx
        /\ lastRotation' = RotatedAt
        /\ now' = now /\ nodeLocations' = nodeLocations
        /\ recorded' = recorded /\ calls' = calls
    BY DEF ComputeProfile
  <1>3. TypeOK'
    BY <1>1, <1>2 DEF IndInv, TypeOK
  <1>4. RingInv(buckets, currentIdx, lastRotation, now)'
    BY <1>1, <1>2 DEF RingInv, Age, Indices
  <1>5. Dropped(buckets, now)'
    BY <1>1, <1>2 DEF Dropped, MinRetention, Indices
  <1>6. QED
    BY <1>1, <1>2, <1>3, <1>4, <1>5 DEF IndInv

\* A ring of buckets that were all reset when it was last rotated is well
\* formed.
LEMMA FreshRing ==
    ASSUME NEW t \in Nat, NEW idx \in Indices
    PROVE  /\ [i \in Indices |-> Reset(t)] \in [Indices -> Bucket]
           /\ RingInv([i \in Indices |-> Reset(t)], idx, t, t)
  <1>1. /\ Reset(t) \in Bucket
        /\ Reset(t).StartTime = t
        /\ Reset(t).held = {}
    BY DEF Reset, Bucket, Counts, NoCounts
  <1>2. ASSUME NEW i \in Indices
        PROVE  0 <= Age(idx, i) * (2 * BucketDuration - 1)
    <2>1. /\ Age(idx, i) \in Nat
          /\ 2 * BucketDuration - 1 \in Nat
      BY WindowAssumption DEF Age, Indices
    <2>2. 0 * (2 * BucketDuration - 1) <= Age(idx, i) * (2 * BucketDuration - 1)
      BY <2>1, TimesMono
    <2>3. QED
      BY <2>1, <2>2
  <1>3. QED
    BY <1>1, <1>2 DEF RingInv

\* ResetData leaves a fresh ring and an empty history.
LEMMA ResetStep ==
    ASSUME IndInv, ResetData
    PROVE  IndInv'
  <1>1. /\ now \in Nat /\ currentIdx \in Indices
        /\ buckets' = [i \in Indices |-> Reset(now)]
        /\ lastRotation' = now /\ recorded' = {} /\ ret' = NoProfile
        /\ now' = now /\ currentIdx' = currentIdx
        /\ nodeLocations' = nodeLocations /\ calls' = calls
    BY DEF IndInv, TypeOK, ResetData
  <1>2. /\ buckets' \in [Indices -> Bucket]
        /\ RingInv(buckets', currentIdx, now, now)
    BY <1>1, FreshRing
  <1>3. TypeOK'
    BY <1>1, <1>2 DEF IndInv, TypeOK
  <1>4. RingInv(buckets, currentIdx, lastRotation, now)'
    BY <1>1, <1>2 DEF RingInv, Age, Indices
  <1>5. Dropped(buckets, now)'
    BY <1>1 DEF Dropped
  <1>6. QED
    BY <1>1, <1>3, <1>4, <1>5 DEF IndInv

\* Time passing makes nothing younger.
LEMMA TickStep ==
    ASSUME IndInv, Tick
    PROVE  IndInv'
  <1>1. /\ now \in Nat /\ now' = now + 1 /\ ret' = NoProfile
        /\ buckets' = buckets /\ currentIdx' = currentIdx
        /\ lastRotation' = lastRotation /\ nodeLocations' = nodeLocations
        /\ recorded' = recorded /\ calls' = calls
    BY DEF IndInv, TypeOK, Tick
  <1>2. TypeOK'
    BY <1>1 DEF IndInv, TypeOK
  <1>3. RingInv(buckets, currentIdx, lastRotation, now)'
    <2>1. /\ lastRotation \in Nat
          /\ \A i \in Indices : /\ buckets[i].StartTime \in Nat
                               /\ \A c \in buckets[i].held : c.at \in Nat
      BY DEF IndInv, TypeOK, Bucket, Call
    <2>2. RingInv(buckets, currentIdx, lastRotation, now + 1)
      BY <2>1, <1>1 DEF IndInv, RingInv
    <2>3. QED
      BY <2>2, <1>1 DEF RingInv, Age, Indices
  <1>4. Dropped(buckets, now)'
    <2>1. /\ MinRetention \in Int
          /\ \A c \in recorded : c.at \in Nat
      BY WindowAssumption DEF MinRetention, IndInv, TypeOK, Call
    <2>2. \A c \in recorded : \/ \E i \in Indices : c \in buckets[i].held
                             \/ now + 1 - c.at > MinRetention
      BY <2>1, <1>1 DEF IndInv, Dropped
    <2>3. QED
      BY <2>1, <2>2, <1>1 DEF Dropped
  <1>5. QED
    BY <1>1, <1>2, <1>3, <1>4 DEF IndInv

\* The five Record methods differ in what they add.
LEMMA Steps ==
    ASSUME Next
    PROVE  \/ Tick \/ ResetData \/ ComputeProfile
           \/ \E adds \in Counts, node \in Nodes : Record(adds, node)
  <1>1. ASSUME NEW node \in Nodes, RecordPageFault(node) \/ RecordCtxSwitch(node)
        PROVE  \E adds \in Counts : Record(adds, node)
    <2>1. OneEvent(1, 0, 0, 0) \in Counts /\ OneEvent(0, 0, 0, 1) \in Counts
      BY DEF OneEvent, Counts
    <2>2. QED
      BY <1>1, <2>1 DEF RecordPageFault, RecordCtxSwitch
  <1>2. ASSUME NEW node \in Nodes, NEW d \in Deltas,
               RecordCacheMiss(d, node) \/ RecordLockContention(d, node)
        PROVE  \E adds \in Counts : Record(adds, node)
    <2>1. OneEvent(0, d, 0, 0) \in Counts /\ OneEvent(0, 0, d, 0) \in Counts
      BY InputAssumption DEF OneEvent, Counts
    <2>2. QED
      BY <1>2, <2>1 DEF RecordCacheMiss, RecordLockContention
  <1>3. ASSUME NEW node \in Nodes, NEW in \in BulkInputs, RecordBulk(in, node)
        PROVE  \E adds \in Counts : Record(adds, node)
    <2>1. BulkCounts(in) \in Counts
      BY InputAssumption DEF BulkCounts, Counts
    <2>2. QED
      BY <1>3, <2>1 DEF RecordBulk
  <1>4. QED
    BY <1>1, <1>2, <1>3 DEF Next

\* The inductive invariant holds in every reachable state of the window.
THEOREM InductiveInvariant == Spec => []IndInv
  <1>1. Init => IndInv
    <2> SUFFICES ASSUME Init PROVE IndInv
      OBVIOUS
    <2>1. 0 \in Indices /\ 0 \in Nat
      BY WindowAssumption DEF Indices
    <2>2. /\ buckets \in [Indices -> Bucket]
          /\ RingInv(buckets, currentIdx, lastRotation, now)
      BY <2>1, FreshRing DEF Init
    <2>3. QED
      BY <2>1, <2>2 DEF Init, IndInv, TypeOK, Dropped
  <1>2. IndInv /\ [Next]_vars => IndInv'
    <2> SUFFICES ASSUME IndInv, [Next]_vars PROVE IndInv'
      OBVIOUS
    <2>1. CASE Tick
      BY <2>1, TickStep
    <2>2. ASSUME NEW adds \in Counts, NEW node \in Nodes, Record(adds, node)
          PROVE  IndInv'
      BY <2>2, RecordStep
    <2>3. CASE ResetData
      BY <2>3, ResetStep
    <2>4. CASE ComputeProfile
      BY <2>4, ComputeStep
    <2>5. CASE UNCHANGED vars
      BY <2>5 DEF vars, IndInv, TypeOK, RingInv, Dropped, Age, Indices,
                  MinRetention
    <2>6. QED
      BY <2>1, <2>2, <2>3, <2>4, <2>5, Steps
  <1>3. QED
    BY <1>1, <1>2, PTL DEF Spec

\* The fields of the window keep their types, whatever is recorded: in
\* particular currentIdx always indexes the ring, for any positive ring size.
THEOREM TypeCorrect == Spec => []TypeOK
  <1>1. IndInv => TypeOK
    BY DEF IndInv
  <1>2. QED
    BY <1>1, InductiveInvariant, PTL

\* A profile contains nothing older than MaxStaleness when it is computed: the
\* true bound behind the README's "exactly window_size seconds of history".
THEOREM StalenessTheorem == Spec => []StalenessBound
  <1>1. IndInv => StalenessBound
    <2> SUFFICES ASSUME IndInv, ret # NoProfile,
                        NEW i \in Indices, NEW c \in buckets[i].held
                 PROVE  now - c.at <= MaxStaleness
      BY DEF StalenessBound, Held
    <2> DEFINE w == 2 * BucketDuration - 1
               a == Age(currentIdx, i)
    <2>1. /\ now \in Nat /\ lastRotation \in Nat /\ c.at \in Nat
          /\ buckets[i].StartTime \in Nat
          /\ a \in 0 .. BucketCount - 1
          /\ w \in Nat /\ BucketDuration \in Nat /\ BucketCount \in Nat
      BY WindowAssumption DEF IndInv, TypeOK, Bucket, Call, Age, Indices
    <2>2. /\ now - lastRotation < BucketDuration
          /\ lastRotation - buckets[i].StartTime <= a * w
          /\ buckets[i].StartTime <= c.at
      BY DEF IndInv, RingInv
    <2>3. a * w <= (BucketCount - 1) * w
      BY <2>1, TimesMono
    <2>4. MaxStaleness = (BucketCount - 1) * w + (BucketDuration - 1)
      BY DEF MaxStaleness
    <2>5. a * w \in Int /\ (BucketCount - 1) * w \in Int
      BY <2>1
    <2> HIDE DEF a, w
    <2>6. QED
      BY <2>1, <2>2, <2>3, <2>4, <2>5
  <1>2. QED
    BY <1>1, InductiveInvariant, PTL

\* Rotation discards no call that is at most (BucketCount - 1) bucket durations
\* old.
THEOREM RetentionTheorem == Spec => []Retention
  <1>1. IndInv => Retention
    <2> SUFFICES ASSUME IndInv, NEW c \in recorded, now - c.at <= MinRetention
                 PROVE  c \in Held
      BY DEF Retention
    <2>1. /\ now \in Nat /\ c.at \in Nat /\ MinRetention \in Int
      BY WindowAssumption DEF IndInv, TypeOK, Call, MinRetention
    <2>2. \E i \in Indices : c \in buckets[i].held
      BY <2>1 DEF IndInv, Dropped
    <2>3. QED
      BY <2>2 DEF Held
  <1>2. QED
    BY <1>1, InductiveInvariant, PTL

-----------------------------------------------------------------------------
(* A profile is the totals of a suffix of the history.  Which calls the ring *)
(* holds is a matter of order: a call is older than every younger bucket.    *)

Fields == {"EventCount", "PageFaults", "CacheMisses", "LockDurationNs", "CtxSwitches"}

\* What a call adds to the counter f.
Amount(f) == [c \in Call |-> c.adds[f]]

\* The ring b, with idx current since rot, holds a suffix of the history, in
\* the order of its buckets, and counts each call that it holds once.
SuffixRing(b, idx, rot) ==
    /\ \A i \in Indices : b[i].held \subseteq recorded
    /\ \A c \in recorded : c.at < rot + BucketDuration
    /\ \A i, j \in Indices : Age(idx, j) < Age(idx, i) =>
         \A c \in b[i].held : c.at < b[j].StartTime
    /\ \A c \in recorded : \/ \E i \in Indices : c \in b[i].held
                           \/ \A j \in Indices : c.at < b[j].StartTime
    /\ \A i \in Indices : \A f \in Fields : b[i].counts[f] = Sum(Amount(f), b[i].held)

SuffixInv ==
    /\ IsFiniteSet(recorded)
    /\ \A c \in recorded : c.id < calls
    /\ SuffixRing(buckets, currentIdx, lastRotation)
    /\ ret # NoProfile => ret = ProfileOf(buckets)

\* The counters as a function of their names.
LEMMA CountsOf ==
    ASSUME NEW f \in Fields
    PROVE  /\ NoCounts[f] = 0
           /\ \A a \in Counts : a[f] \in Int
           /\ \A a, b \in Counts : Plus(a, b)[f] = a[f] + b[f]
  <1>1. CASE f = "EventCount"
    BY <1>1 DEF NoCounts, Counts, Plus
  <1>2. CASE f = "PageFaults"
    BY <1>2 DEF NoCounts, Counts, Plus
  <1>3. CASE f = "CacheMisses"
    BY <1>3 DEF NoCounts, Counts, Plus
  <1>4. CASE f = "LockDurationNs"
    BY <1>4 DEF NoCounts, Counts, Plus
  <1>5. CASE f = "CtxSwitches"
    BY <1>5 DEF NoCounts, Counts, Plus
  <1>6. QED
    BY <1>1, <1>2, <1>3, <1>4, <1>5 DEF Fields

\* What a call adds is a number.
LEMMA AmountOf ==
    ASSUME NEW f \in Fields, NEW c \in Call
    PROVE  Amount(f)[c] = c.adds[f] /\ c.adds[f] \in Int
  <1>1. c.adds \in Counts
    BY DEF Call
  <1>2. QED
    BY <1>1, CountsOf DEF Amount

\* A bucket that was just reset counts nothing and holds nothing.
LEMMA ResetCounts ==
    ASSUME NEW t, NEW f \in Fields
    PROVE  /\ Reset(t).held = {}
           /\ Reset(t).StartTime = t
           /\ Reset(t).counts[f] = Sum(Amount(f), Reset(t).held)
  <1>1. Reset(t).counts = NoCounts /\ Reset(t).held = {} /\ Reset(t).StartTime = t
    BY DEF Reset
  <1>2. QED
    BY <1>1, CountsOf, SumEmpty

\* A ring of buckets that were all reset, without a history.
LEMMA FreshSuffix ==
    ASSUME NEW t \in Nat, NEW idx \in Indices, recorded = {}
    PROVE  SuffixRing([i \in Indices |-> Reset(t)], idx, t)
  <1>1. \A i \in Indices : /\ [j \in Indices |-> Reset(t)][i] = Reset(t)
                           /\ Reset(t).held = {}
    BY DEF Reset
  <1>2. QED
    BY <1>1, ResetCounts DEF SuffixRing

\* Whatever was recorded before a rotation is older than the rotation.
LEMMA RotationIsLater ==
    ASSUME IndInv, SuffixInv, Rotations > 0
    PROVE  \A c \in recorded : c.at < now
  <1>1. /\ now \in Nat /\ lastRotation \in Nat /\ BucketDuration \in Nat /\ lastRotation <= now
        /\ \A c \in recorded : c.at \in Nat /\ c.at < lastRotation + BucketDuration
    BY WindowAssumption DEF IndInv, TypeOK, RingInv, Call, SuffixInv, SuffixRing
  <1>2. Rotations \in Nat /\ Rotations * BucketDuration <= now - lastRotation
    BY <1>1, RotationsBound, WindowAssumption DEF IndInv
  <1>3. 1 * BucketDuration <= Rotations * BucketDuration
    BY <1>1, <1>2, TimesMono
  <1>4. BucketDuration <= now - lastRotation
    BY <1>1, <1>2, <1>3
  <1>5. QED
    BY <1>1, <1>4

\* maybeRotate drops a prefix of what the ring holds.
LEMMA RotateSuffix ==
    ASSUME IndInv, SuffixInv
    PROVE  SuffixRing(RotatedBuckets, RotatedIdx, RotatedAt)
  <1>1. /\ now \in Nat /\ lastRotation \in Nat /\ lastRotation <= now
        /\ BucketDuration \in Nat /\ BucketCount \in Nat
        /\ Rotations \in Nat
        /\ \A c \in recorded : c.at \in Nat
        /\ \A i \in Indices : buckets[i].StartTime \in Nat /\ buckets[i].StartTime <= now
    BY WindowAssumption, RotationsBound DEF IndInv, TypeOK, RingInv, Call, Bucket
  <1>2. SuffixRing(buckets, currentIdx, lastRotation)
    BY DEF SuffixInv
  <1>3. ASSUME NEW i \in Indices, i \in Expired
        PROVE  /\ RotatedBuckets[i] = Reset(now)
               /\ RotatedBuckets[i].held = {}
               /\ RotatedBuckets[i].StartTime = now
               /\ \A c \in recorded : c.at < now
    <2>1. Rotations > 0
      BY <1>1, <1>3, Survivors DEF IndInv
    <2>2. QED
      BY <1>3, <2>1, RotationIsLater DEF RotatedBuckets, Reset
  <1>4. ASSUME NEW i \in Indices, i \notin Expired
        PROVE  RotatedBuckets[i] = buckets[i]
    BY <1>4 DEF RotatedBuckets
  <1>5. \A i \in Indices : RotatedBuckets[i].held \subseteq recorded
    BY <1>2, <1>3, <1>4 DEF SuffixRing
  <1>6. \A c \in recorded : c.at < RotatedAt + BucketDuration
    BY <1>1, <1>2 DEF SuffixRing, RotatedAt
  <1>7. ASSUME NEW i \in Indices, NEW j \in Indices, Age(RotatedIdx, j) < Age(RotatedIdx, i),
               NEW c \in RotatedBuckets[i].held
        PROVE  c.at < RotatedBuckets[j].StartTime
    <2>1. i \notin Expired /\ c \in buckets[i].held /\ c \in recorded
      BY <1>3, <1>4, <1>5, <1>7
    <2>2. CASE j \in Expired
      BY <1>3, <2>1, <2>2
    <2>3. CASE j \notin Expired
      <3>1. /\ Age(currentIdx, i) \in Int /\ Age(currentIdx, j) \in Int
            /\ Age(RotatedIdx, i) = Age(currentIdx, i) + Rotations
            /\ Age(RotatedIdx, j) = Age(currentIdx, j) + Rotations
        BY <1>1, <2>1, <2>3, Survivors DEF IndInv, Indices
      <3>2. Age(currentIdx, j) < Age(currentIdx, i)
        BY <1>1, <1>7, <3>1
      <3>3. QED
        BY <1>2, <1>4, <2>1, <2>3, <3>2 DEF SuffixRing
    <2>4. QED
      BY <2>2, <2>3
  <1>8. ASSUME NEW c \in recorded, \A i \in Indices : c \notin RotatedBuckets[i].held,
               NEW j \in Indices
        PROVE  c.at < RotatedBuckets[j].StartTime
    <2>1. CASE j \in Expired
      BY <1>3, <2>1
    <2>2. CASE j \notin Expired /\ \E i \in Indices : c \in buckets[i].held
      <3>1. PICK i \in Indices : c \in buckets[i].held
        BY <2>2
      <3>2. i \in Expired
        BY <1>4, <1>8, <3>1
      <3>3. /\ Age(currentIdx, i) \in Int /\ Age(currentIdx, j) \in Int
            /\ Age(RotatedIdx, j) = Age(currentIdx, j) + Rotations
            /\ Age(RotatedIdx, j) \in 0 .. BucketCount - 1
            /\ Age(currentIdx, i) + Rotations >= BucketCount
        BY <1>1, <2>2, <3>2, Survivors DEF IndInv, Indices
      <3>4. Age(currentIdx, j) < Age(currentIdx, i)
        BY <1>1, <3>3
      <3>5. QED
        BY <1>2, <1>4, <2>2, <3>1, <3>4 DEF SuffixRing
    <2>3. CASE j \notin Expired /\ ~\E i \in Indices : c \in buckets[i].held
      BY <1>2, <1>4, <2>3 DEF SuffixRing
    <2>4. QED
      BY <2>1, <2>2, <2>3
  <1>9. ASSUME NEW i \in Indices, NEW f \in Fields
        PROVE  RotatedBuckets[i].counts[f] = Sum(Amount(f), RotatedBuckets[i].held)
    <2>1. CASE i \in Expired
      BY <1>3, <2>1, ResetCounts
    <2>2. CASE i \notin Expired
      BY <1>2, <1>4, <2>2 DEF SuffixRing
    <2>3. QED
      BY <2>1, <2>2
  <1>10. QED
    BY <1>5, <1>6, <1>7, <1>8, <1>9 DEF SuffixRing

\* A Record method counts its call once, in the current bucket.
LEMMA RecordSuffix ==
    ASSUME IndInv, SuffixInv, NEW adds \in Counts, NEW node \in Nodes, Record(adds, node)
    PROVE  SuffixInv'
  <1> DEFINE call == [id |-> calls, at |-> now, node |-> node, adds |-> adds]
             b    == RotatedBuckets[RotatedIdx]
             nb   == [b EXCEPT !.counts = Plus(b.counts, adds),
                               !.held = b.held \cup {call}]
  <1>1. /\ RotatedBuckets \in [Indices -> Bucket] /\ RotatedIdx \in Indices /\ RotatedAt \in Nat
        /\ now - RotatedAt < BucketDuration
    BY RotateRing DEF IndInv
  <1>2. SuffixRing(RotatedBuckets, RotatedIdx, RotatedAt)
    BY RotateSuffix
  <1>3. /\ now \in Nat /\ calls \in Nat /\ recorded \subseteq Call /\ IsFiniteSet(recorded)
        /\ BucketDuration \in Nat
        /\ \A c \in recorded : c.id \in Nat /\ c.id < calls
    BY WindowAssumption DEF IndInv, TypeOK, SuffixInv, Call
  <1>4. call \in Call /\ call.at = now /\ call.id = calls /\ call.adds = adds
    BY <1>3 DEF Call
  <1>5. call \notin recorded
    BY <1>3, <1>4
  <1>6. /\ nb.StartTime = b.StartTime /\ nb.held = b.held \cup {call}
        /\ nb.counts = Plus(b.counts, adds) /\ b.counts \in Counts
    <2>1. b \in Bucket
      BY <1>1
    <2>2. QED
      BY <2>1 DEF Bucket
  <1>7. /\ buckets' = [RotatedBuckets EXCEPT ![RotatedIdx] = nb]
        /\ currentIdx' = RotatedIdx /\ lastRotation' = RotatedAt
        /\ recorded' = recorded \cup {call} /\ calls' = calls + 1 /\ ret' = NoProfile
    BY DEF Record
  <1> HIDE DEF call, nb
  <1>8. /\ buckets'[RotatedIdx] = nb
        /\ \A i \in Indices : i # RotatedIdx => buckets'[i] = RotatedBuckets[i]
        /\ \A i \in Indices : buckets'[i].StartTime = RotatedBuckets[i].StartTime
        /\ \A i \in Indices : RotatedBuckets[i].held \subseteq buckets'[i].held
    BY <1>1, <1>6, <1>7
  <1>9. IsFiniteSet(recorded') /\ \A c \in recorded' : c.id < calls'
    BY <1>3, <1>4, <1>7, FS_AddElement
  <1>10. \A i \in Indices : buckets'[i].held \subseteq recorded'
    BY <1>2, <1>6, <1>7, <1>8 DEF SuffixRing
  <1>11. \A c \in recorded' : c.at < RotatedAt + BucketDuration
    BY <1>1, <1>2, <1>3, <1>4, <1>7 DEF SuffixRing
  <1>12. ASSUME NEW i \in Indices, NEW j \in Indices, Age(RotatedIdx, j) < Age(RotatedIdx, i),
                NEW c \in buckets'[i].held
         PROVE  c.at < buckets'[j].StartTime
    <2>1. i # RotatedIdx
      BY <1>12, WindowAssumption DEF Age, Indices
    <2>2. QED
      BY <1>2, <1>8, <1>12, <2>1 DEF SuffixRing
  <1>13. ASSUME NEW c \in recorded', \A i \in Indices : c \notin buckets'[i].held
         PROVE  \A j \in Indices : c.at < buckets'[j].StartTime
    <2>1. c \in recorded /\ \A i \in Indices : c \notin RotatedBuckets[i].held
      BY <1>1, <1>6, <1>7, <1>8, <1>13
    <2>2. QED
      BY <1>2, <1>8, <2>1 DEF SuffixRing
  <1>14. ASSUME NEW i \in Indices, NEW f \in Fields
         PROVE  buckets'[i].counts[f] = Sum(Amount(f), buckets'[i].held)
    <2>1. CASE i # RotatedIdx
      BY <1>2, <1>8, <2>1 DEF SuffixRing
    <2>2. CASE i = RotatedIdx
      <3>1. b.held \subseteq recorded /\ b.counts[f] = Sum(Amount(f), b.held)
        BY <1>1, <1>2 DEF SuffixRing
      <3>2. IsFiniteSet(b.held) /\ call \notin b.held
        BY <1>3, <1>5, <3>1, FS_Subset
      <3>3. \A c \in b.held \cup {call} : Amount(f)[c] \in Int
        BY <1>3, <1>4, <3>1, AmountOf
      <3>4. Sum(Amount(f), b.held \cup {call}) = Amount(f)[call] + Sum(Amount(f), b.held)
        BY <3>2, <3>3, SumAdd
      <3>5. Amount(f)[call] = adds[f] /\ adds[f] \in Int /\ b.counts[f] \in Int
        BY <1>4, <1>6, AmountOf, CountsOf
      <3>6. nb.counts[f] = b.counts[f] + adds[f]
        BY <1>6, CountsOf
      <3>7. nb.counts[f] = Sum(Amount(f), nb.held)
        BY <1>6, <3>1, <3>4, <3>5, <3>6
      <3>8. QED
        BY <1>8, <2>2, <3>7
    <2>3. QED
      BY <2>1, <2>2
  <1>15. SuffixRing(buckets, currentIdx, lastRotation)'
    BY <1>7, <1>10, <1>11, <1>12, <1>13, <1>14 DEF SuffixRing, Age, Indices, Amount, Fields, Call
  <1>16. QED
    BY <1>7, <1>9, <1>15 DEF SuffixInv

\* The invariant of the history holds in every reachable state of the window.
THEOREM SuffixInvariant == Spec => []SuffixInv
  <1>1. Init => SuffixInv
    <2> SUFFICES ASSUME Init PROVE SuffixInv
      OBVIOUS
    <2>1. 0 \in Indices /\ 0 \in Nat
      BY WindowAssumption DEF Indices
    <2>2. SuffixRing(buckets, currentIdx, lastRotation)
      BY <2>1, FreshSuffix DEF Init
    <2>3. QED
      BY <2>2, FS_EmptySet DEF Init, SuffixInv
  <1>2. IndInv /\ SuffixInv /\ [Next]_vars => SuffixInv'
    <2> SUFFICES ASSUME IndInv, SuffixInv, [Next]_vars PROVE SuffixInv'
      OBVIOUS
    <2>1. CASE Tick
      BY <2>1 DEF Tick, SuffixInv, SuffixRing, Age, Indices, Amount, Fields, Call
    <2>2. ASSUME NEW adds \in Counts, NEW node \in Nodes, Record(adds, node)
          PROVE  SuffixInv'
      BY <2>2, RecordSuffix
    <2>3. CASE ResetData
      <3>1. /\ buckets' = [i \in Indices |-> Reset(now)] /\ currentIdx' = currentIdx
            /\ lastRotation' = now /\ recorded' = {} /\ ret' = NoProfile
            /\ now \in Nat /\ currentIdx \in Indices
        BY <2>3 DEF ResetData, IndInv, TypeOK
      <3>2. \A i \in Indices : buckets'[i] = Reset(now) /\ Reset(now).held = {}
        BY <3>1 DEF Reset
      <3>3. SuffixRing(buckets, currentIdx, lastRotation)'
        BY <3>1, <3>2, ResetCounts DEF SuffixRing
      <3>4. QED
        BY <3>1, <3>3, FS_EmptySet DEF SuffixInv
    <2>4. CASE ComputeProfile
      <3>1. /\ buckets' = RotatedBuckets /\ currentIdx' = RotatedIdx
            /\ lastRotation' = RotatedAt /\ recorded' = recorded /\ calls' = calls
            /\ ret' = ProfileOf(buckets')
        BY <2>4 DEF ComputeProfile
      <3>2. SuffixRing(buckets, currentIdx, lastRotation)'
        BY <3>1, RotateSuffix DEF SuffixRing, Age, Indices, Amount, Fields, Call
      <3>3. QED
        BY <3>1, <3>2 DEF SuffixInv
    <2>5. CASE UNCHANGED vars
      BY <2>5 DEF vars, SuffixInv, SuffixRing
    <2>6. QED
      BY <2>1, <2>2, <2>3, <2>4, <2>5, Steps
  <1>3. QED
    BY <1>1, <1>2, InductiveInvariant, PTL DEF Spec

\* No call is in two buckets.
LEMMA HeldOnce ==
    ASSUME IndInv, SuffixInv, NEW i \in Indices, NEW j \in Indices, i # j
    PROVE  buckets[i].held \cap buckets[j].held = {}
  <1> SUFFICES ASSUME NEW c \in buckets[i].held, c \in buckets[j].held
               PROVE  FALSE
    OBVIOUS
  <1>1. /\ buckets[i].StartTime \in Nat /\ buckets[j].StartTime \in Nat /\ c.at \in Nat
        /\ buckets[i].StartTime <= c.at /\ buckets[j].StartTime <= c.at
    BY DEF IndInv, TypeOK, RingInv, Bucket, Call
  <1>2. \/ Age(currentIdx, j) < Age(currentIdx, i)
        \/ Age(currentIdx, i) < Age(currentIdx, j)
    BY WindowAssumption DEF Age, Indices, IndInv, TypeOK
  <1>3. c.at < buckets[j].StartTime \/ c.at < buckets[i].StartTime
    BY <1>2 DEF SuffixInv, SuffixRing
  <1>4. QED
    BY <1>1, <1>3

\* The sum of a counter over the buckets is its sum over the calls held.
LEMMA TotalIsHeld ==
    ASSUME IndInv, SuffixInv, NEW f \in Fields
    PROVE  SumFunction([i \in Indices |-> buckets[i].counts[f]])
             = SumFunction([c \in Held |-> c.adds[f]])
  <1> DEFINE g == [i \in Indices |-> buckets[i].counts[f]]
             h == [c \in Held |-> c.adds[f]]
             H == [i \in Indices |-> buckets[i].held]
  <1>1. IsFiniteSet(Indices)
    BY FS_Interval, WindowAssumption DEF Indices
  <1>2. \A i \in Indices : /\ buckets[i].held \subseteq recorded
                           /\ \A c \in buckets[i].held : c \in Call
    BY DEF SuffixInv, SuffixRing, IndInv, TypeOK
  <1>3. \A i \in Indices : IsFiniteSet(H[i]) /\ g[i] = Sum(Amount(f), H[i])
    BY <1>2, FS_Subset DEF SuffixInv, SuffixRing
  <1>4. \A i \in Indices : \A c \in H[i] : Amount(f)[c] \in Int
    BY <1>2, AmountOf
  <1>5. \A i, j \in Indices : i # j => H[i] \cap H[j] = {}
    BY HeldOnce
  <1>6. \A c : c \in Held <=> \E i \in Indices : c \in H[i]
    BY DEF Held
  <1>7. \A c \in Held : Amount(f)[c] = h[c]
    BY <1>2, AmountOf DEF Held
  <1>8. Sum(g, Indices) = SumFunction(g) /\ Sum(h, Held) = SumFunction(h)
    BY DEF SumFunction, Sum
  <1> HIDE DEF g, h, H
  <1>9. IsFiniteSet(Held) /\ Sum(g, Indices) = Sum(Amount(f), Held)
    <2> DEFINE A == Amount(f)
    <2>1. /\ \A i \in Indices : IsFiniteSet(H[i]) /\ g[i] = Sum(A, H[i])
          /\ \A i \in Indices : \A c \in H[i] : A[c] \in Int
      BY <1>3, <1>4
    <2> HIDE DEF A
    <2>2. QED
      BY <1>1, <1>5, <1>6, <2>1, SumFamily DEF A
  <1>10. Sum(Amount(f), Held) = Sum(h, Held)
    BY <1>7, <1>9, SumSame
  <1>11. QED
    BY <1>8, <1>9, <1>10 DEF g, h

\* What the ring holds is what was recorded since some moment, and that moment
\* is within the bounds of rotation.
LEMMA HeldIsSuffix ==
    ASSUME IndInv, SuffixInv, StalenessBound, ret # NoProfile
    PROVE  \E horizon \in (now - MaxStaleness) .. (now - MinRetention) :
             {c \in recorded : c.at >= horizon} = Held
  <1> DEFINE Starts == {buckets[i].StartTime : i \in Indices}
             low == now - MaxStaleness
             high == now - MinRetention
  <1>1. /\ now \in Nat /\ BucketDuration \in Nat \ {0} /\ BucketCount \in Nat \ {0}
        /\ \A c \in recorded : c.at \in Nat
    BY WindowAssumption DEF IndInv, TypeOK, Call
  <1>2. low \in Int /\ high \in Int /\ low <= high
    <2>1. BucketDuration * (BucketCount - 1) <= (2 * BucketDuration - 1) * (BucketCount - 1)
      BY <1>1, TimesMono
    <2>2. QED
      BY <1>1, <2>1 DEF MaxStaleness, MinRetention
  <1>3. Starts \subseteq Nat /\ Starts # {}
    BY <1>1 DEF IndInv, TypeOK, Bucket, Indices
  <1>4. PICK m \in Starts : \A x \in Starts : m <= x
    <2> HIDE DEF Starts
    <2>1. QED
      BY <1>3, NatMin
  <1>5. m \in Nat /\ \A i \in Indices : m <= buckets[i].StartTime
    BY <1>3, <1>4
  <1>6. PICK k \in Indices : m = buckets[k].StartTime
    BY <1>4
  <1>7. ASSUME NEW c \in Held
        PROVE  c \in recorded /\ m <= c.at /\ low <= c.at
    <2>1. PICK i \in Indices : c \in buckets[i].held
      BY DEF Held
    <2>2. c \in recorded /\ buckets[i].StartTime <= c.at
      BY <2>1 DEF SuffixInv, SuffixRing, IndInv, RingInv
    <2>3. now - c.at <= MaxStaleness
      BY DEF StalenessBound
    <2>4. c.at \in Nat /\ buckets[i].StartTime \in Nat /\ m <= buckets[i].StartTime
      BY <1>1, <1>5, <2>2 DEF IndInv, TypeOK, Bucket
    <2>5. MaxStaleness \in Int
      BY <1>1 DEF MaxStaleness
    <2>6. QED
      BY <1>1, <1>5, <2>2, <2>3, <2>4, <2>5
  <1>8. ASSUME NEW c \in recorded, c \notin Held
        PROVE  c.at < m /\ c.at < high
    <2>1. \A i \in Indices : c \notin buckets[i].held
      BY <1>8 DEF Held
    <2>2. c.at < m
      BY <1>6, <2>1 DEF SuffixInv, SuffixRing
    <2>3. now - c.at > MinRetention
      BY <2>1 DEF IndInv, Dropped
    <2>4. MinRetention \in Int
      BY <1>1 DEF MinRetention
    <2>5. QED
      BY <1>1, <2>2, <2>3, <2>4
  <1> DEFINE first == IF m < high THEN m ELSE high
             horizon == IF low < first THEN first ELSE low
  <1> HIDE DEF low, high, Starts
  <1>9. horizon \in low .. high
    BY <1>2, <1>5
  <1>10. \A c \in Held : c \in recorded /\ c.at >= horizon
    BY <1>1, <1>2, <1>5, <1>7
  <1>11. \A c \in recorded : c \notin Held => ~(c.at >= horizon)
    BY <1>1, <1>2, <1>5, <1>8
  <1>12. {c \in recorded : c.at >= horizon} = Held
    <2> HIDE DEF horizon
    <2>1. QED
      BY <1>10, <1>11
  <1>13. QED
    BY <1>9, <1>12 DEF low, high

\* A profile is exactly the totals of a suffix of the history, for every ring
\* and every sequence of calls: none is lost, none counted twice, and the suffix
\* begins between MaxStaleness and MinRetention ago.
THEOREM SuffixTheorem == Spec => []ProfileIsSuffix
  <1>1. IndInv /\ SuffixInv /\ StalenessBound => ProfileIsSuffix
    <2> SUFFICES ASSUME IndInv, SuffixInv, StalenessBound, ret # NoProfile
                 PROVE  ProfileIsSuffix
      BY DEF ProfileIsSuffix
    <2>1. PICK horizon \in (now - MaxStaleness) .. (now - MinRetention) :
             {c \in recorded : c.at >= horizon} = Held
      BY HeldIsSuffix
    <2>2. ret = ProfileOf(buckets)
      BY DEF SuffixInv
    <2>3. \A f \in Fields : SumFunction([i \in Indices |-> buckets[i].counts[f]])
                              = SumFunction([c \in Held |-> c.adds[f]])
      BY TotalIsHeld
    <2>4. /\ ret.PageFaults = SumFunction([i \in Indices |-> buckets[i].counts.PageFaults])
          /\ ret.CacheMisses = SumFunction([i \in Indices |-> buckets[i].counts.CacheMisses])
          /\ ret.LockDurationNs = SumFunction([i \in Indices |-> buckets[i].counts.LockDurationNs])
          /\ ret.CtxSwitches = SumFunction([i \in Indices |-> buckets[i].counts.CtxSwitches])
          /\ ret.SampleCount = SumFunction([i \in Indices |-> buckets[i].counts.EventCount])
      BY <2>2 DEF ProfileOf, Total
    <2>5. /\ ret.PageFaults = SumFunction([c \in Held |-> c.adds.PageFaults])
          /\ ret.CacheMisses = SumFunction([c \in Held |-> c.adds.CacheMisses])
          /\ ret.LockDurationNs = SumFunction([c \in Held |-> c.adds.LockDurationNs])
          /\ ret.CtxSwitches = SumFunction([c \in Held |-> c.adds.CtxSwitches])
          /\ ret.SampleCount = SumFunction([c \in Held |-> c.adds.EventCount])
      BY <2>3, <2>4 DEF Fields
    <2>6. QED
      BY <2>1, <2>5 DEF ProfileIsSuffix
  <1>2. QED
    BY <1>1, InductiveInvariant, SuffixInvariant, StalenessTheorem, PTL

-----------------------------------------------------------------------------
(* The bounds of the window that a profile reports. *)

\* g is the recursive function of WindowEndAfter, for buckets 0 .. n.
IsEnd(g, ring, n) ==
    g = [i \in 0 .. n |->
           LET before == IF i = 0 THEN -1 ELSE g[i - 1]
           IN  IF ring[i].StartTime > before
               THEN ring[i].StartTime + BucketDuration
               ELSE before]

\* The loop of ComputeProfile is defined for every number of buckets.
LEMMA EndExists ==
    ASSUME NEW ring
    PROVE  \A n \in Nat : \E g : IsEnd(g, ring, n)
  <1> DEFINE G == {n \in Nat : \E g : IsEnd(g, ring, n)}
             Seen(i, before) == IF ring[i].StartTime > before
                                 THEN ring[i].StartTime + BucketDuration
                                 ELSE before
  <1>1. 0 \in G
    <2> DEFINE g == [i \in 0 .. 0 |-> Seen(i, -1)]
    <2>1. IsEnd(g, ring, 0)
      BY DEF IsEnd
    <2>2. QED
      BY <2>1
  <1>2. ASSUME NEW n \in Nat, n \in G
        PROVE  n + 1 \in G
    <2>1. PICK g : IsEnd(g, ring, n)
      BY <1>2
    <2> DEFINE h == [i \in 0 .. n + 1 |-> IF i = n + 1 THEN Seen(i, g[n]) ELSE g[i]]
    <2>2. \A i \in 0 .. n : h[i] = g[i] /\ i \in 0 .. n + 1 /\ i # n + 1
      OBVIOUS
    <2>3. \A i \in 0 .. n : g[i] = Seen(i, IF i = 0 THEN -1 ELSE g[i - 1])
      BY <2>1 DEF IsEnd
    <2>4. ASSUME NEW i \in 0 .. n + 1
          PROVE  h[i] = Seen(i, IF i = 0 THEN -1 ELSE h[i - 1])
      <3>1. CASE i = n + 1
        <4>1. n \in 0 .. n /\ i # 0 /\ i - 1 = n
          BY <3>1
        <4>2. h[i] = Seen(i, g[n]) /\ h[n] = g[n]
          BY <2>2, <3>1, <4>1
        <4> HIDE DEF h
        <4>3. QED
          BY <4>1, <4>2
      <3>2. CASE i # n + 1
        <4>1. i \in 0 .. n /\ (i # 0 => i - 1 \in 0 .. n)
          BY <3>2
        <4>2. h[i] = g[i] /\ (i # 0 => h[i - 1] = g[i - 1])
          BY <2>2, <4>1
        <4> HIDE DEF h
        <4>3. QED
          BY <2>3, <4>1, <4>2
      <3>3. QED
        BY <3>1, <3>2
    <2>5. IsEnd(h, ring, n + 1)
      <3>1. h = [i \in 0 .. n + 1 |-> h[i]]
        OBVIOUS
      <3> HIDE DEF h
      <3>2. QED
        BY <2>4, <3>1 DEF IsEnd
    <2>6. QED
      BY <2>5
  <1>3. \A n \in Nat : n \in G
    <2> HIDE DEF G
    <2>1. QED
      BY <1>1, <1>2, SetInduction
  <1>4. QED
    BY <1>3

\* It ends between the newest start it has seen and a bucket's duration later.
LEMMA EndBounds ==
    ASSUME NEW ring, NEW n \in Nat, NEW g, IsEnd(g, ring, n), NEW m \in Nat,
           \A i \in 0 .. n : ring[i].StartTime \in Nat /\ ring[i].StartTime <= m
    PROVE  \A i \in 0 .. n : /\ g[i] \in Nat
                             /\ g[i] <= m + BucketDuration
                             /\ \A j \in 0 .. i : ring[j].StartTime <= g[i]
  <1> DEFINE G == {i \in Nat : i <= n => /\ g[i] \in Nat
                                         /\ g[i] <= m + BucketDuration
                                         /\ \A j \in 0 .. i : ring[j].StartTime <= g[i]}
  <1>0. BucketDuration \in Nat
    BY WindowAssumption
  <1>1. 0 \in G
    <2>1. 0 \in 0 .. n
      OBVIOUS
    <2>2. g[0] = IF ring[0].StartTime > -1 THEN ring[0].StartTime + BucketDuration ELSE -1
      BY <2>1 DEF IsEnd
    <2>3. ring[0].StartTime \in Nat /\ ring[0].StartTime <= m
      BY <2>1
    <2>4. g[0] = ring[0].StartTime + BucketDuration
      BY <2>2, <2>3
    <2>5. \A j \in 0 .. 0 : ring[j].StartTime <= g[0]
      BY <1>0, <2>3, <2>4
    <2>6. QED
      BY <1>0, <2>3, <2>4, <2>5
  <1>2. ASSUME NEW i \in Nat, i \in G
        PROVE  i + 1 \in G
    <2> SUFFICES ASSUME i + 1 <= n
                 PROVE  /\ g[i + 1] \in Nat
                        /\ g[i + 1] <= m + BucketDuration
                        /\ \A j \in 0 .. i + 1 : ring[j].StartTime <= g[i + 1]
      OBVIOUS
    <2> DEFINE k == i + 1
               s == ring[k].StartTime
    <2>1. k \in 0 .. n /\ k # 0 /\ k - 1 = i /\ i <= n /\ k \in Nat
      OBVIOUS
    <2>2. /\ g[i] \in Nat /\ g[i] <= m + BucketDuration
          /\ \A j \in 0 .. i : ring[j].StartTime <= g[i]
      BY <1>2, <2>1
    <2>3. s \in Nat /\ s <= m
      BY <2>1
    <2>4. g[k] = IF s > g[i] THEN s + BucketDuration ELSE g[i]
      BY <2>1 DEF IsEnd
    <2>5. \A j \in 0 .. k : j = k \/ j \in 0 .. i
      OBVIOUS
    <2>6. \A j \in 0 .. i : ring[j].StartTime \in Nat
      BY <2>1
    <2> HIDE DEF k, s
    <2>7. g[k] \in Nat /\ g[k] <= m + BucketDuration /\ g[i] <= g[k] /\ s <= g[k]
      BY <1>0, <2>2, <2>3, <2>4
    <2>8. \A j \in 0 .. k : ring[j].StartTime <= g[k]
      BY <2>2, <2>5, <2>6, <2>7 DEF s
    <2>9. QED
      BY <2>7, <2>8 DEF k
  <1>3. \A i \in Nat : i \in G
    <2> HIDE DEF G
    <2>1. QED
      BY <1>1, <1>2, SetInduction
  <1>4. QED
    BY <1>3

\* WindowEnd for a ring whose buckets start by m.
LEMMA WindowEndBounds ==
    ASSUME NEW ring, NEW m \in Nat,
           \A i \in Indices : ring[i].StartTime \in Nat /\ ring[i].StartTime <= m
    PROVE  /\ WindowEndAfter(ring) <= m + BucketDuration
           /\ \A i \in Indices : ring[i].StartTime <= WindowEndAfter(ring)
  <1> DEFINE n == BucketCount - 1
             g == CHOOSE f : IsEnd(f, ring, n)
  <1>1. n \in Nat /\ Indices = 0 .. n
    BY WindowAssumption DEF Indices
  <1>2. WindowEndAfter(ring) = g[n]
    BY DEF WindowEndAfter, IsEnd, Indices
  <1>3. IsEnd(g, ring, n)
    <2> HIDE DEF n
    <2>1. QED
      BY <1>1, EndExists
  <1> HIDE DEF n, g
  <1>4. \A i \in 0 .. n : ring[i].StartTime \in Nat /\ ring[i].StartTime <= m
    BY <1>1
  <1>5. n \in 0 .. n
    BY <1>1
  <1>6. g[n] <= m + BucketDuration /\ \A i \in 0 .. n : ring[i].StartTime <= g[n]
    BY <1>1, <1>3, <1>4, <1>5, EndBounds
  <1>7. QED
    BY <1>1, <1>2, <1>6

\* The least and the greatest of naturals that are at most t.
LEMMA MinMax ==
    ASSUME NEW S, S \subseteq Nat, S # {}, NEW t \in Nat, \A x \in S : x <= t
    PROVE  /\ Min(S) \in S /\ \A x \in S : Min(S) <= x
           /\ Max(S) \in S /\ \A x \in S : x <= Max(S)
  <1>1. \E n \in S : \A x \in S : n <= x
    BY NatMin
  <1>2. \E n \in S : \A x \in S : n >= x
    <2> DEFINE T == {t - x : x \in S}
    <2>0. (\A x \in S : t - x \in Nat) /\ \E x : x \in S
      OBVIOUS
    <2>1. T \subseteq Nat /\ T # {}
      <3>1. PICK x : x \in S
        BY <2>0
      <3>2. t - x \in T
        BY <3>1
      <3>3. QED
        BY <2>0, <3>2
    <2>2. PICK d \in T : \A e \in T : d <= e
      <3> HIDE DEF T
      <3>1. QED
        BY <2>1, NatMin
    <2>3. PICK n \in S : d = t - n
      BY <2>2
    <2>4. \A x \in S : t - n <= t - x
      BY <2>2, <2>3
    <2>5. QED
      BY <2>4
  <1>3. Min(S) \in S /\ \A x \in S : Min(S) <= x
    BY <1>1 DEF Min
  <1>4. Max(S) \in S /\ \A x \in S : Max(S) >= x
    BY <1>2 DEF Max
  <1>5. QED
    BY <1>3, <1>4

\* The bounds that a profile reports, for every ring: it starts no later than
\* any call it contains, and ends between the newest bucket's start and end.
THEOREM BoundsTheorem == Spec => []WindowBounds
  <1>1. IndInv /\ SuffixInv => WindowBounds
    <2> SUFFICES ASSUME IndInv, SuffixInv, ret # NoProfile
                 PROVE  WindowBounds
      BY DEF WindowBounds
    <2> DEFINE Starts == {buckets[i].StartTime : i \in Indices}
               newest == Max(Starts)
    <2>1. /\ now \in Nat /\ BucketDuration \in Nat
          /\ \A i \in Indices : buckets[i].StartTime \in Nat /\ buckets[i].StartTime <= now
      BY WindowAssumption DEF IndInv, TypeOK, RingInv, Bucket
    <2>2. Starts \subseteq Nat /\ Starts # {} /\ \A x \in Starts : x <= now
      BY <2>1, WindowAssumption DEF Indices
    <2>3. ret.WindowStart = Min(Starts) /\ ret.WindowEnd = WindowEndAfter(buckets)
      BY DEF SuffixInv, ProfileOf
    <2>4. /\ Min(Starts) \in Starts /\ \A x \in Starts : Min(Starts) <= x
          /\ newest \in Starts /\ \A x \in Starts : x <= newest
      <3> HIDE DEF Starts
      <3>1. QED
        BY <2>1, <2>2, MinMax
    <2>5. /\ newest \in Nat
          /\ \A i \in Indices : /\ buckets[i].StartTime <= newest
                               /\ Min(Starts) <= buckets[i].StartTime
          /\ \E i \in Indices : newest = buckets[i].StartTime
          /\ Min(Starts) \in Nat
      BY <2>2, <2>4
    <2> HIDE DEF Starts, newest
    <2>6. /\ WindowEndAfter(buckets) <= newest + BucketDuration
          /\ \A i \in Indices : buckets[i].StartTime <= WindowEndAfter(buckets)
      BY <2>1, <2>5, WindowEndBounds
    <2>7. ASSUME NEW c \in Held
          PROVE  Min(Starts) <= c.at
      <3>1. PICK i \in Indices : c \in buckets[i].held
        BY DEF Held
      <3>2. buckets[i].StartTime <= c.at /\ c.at \in Nat
        BY <3>1 DEF IndInv, RingInv, TypeOK, Bucket, Call
      <3>3. QED
        BY <2>1, <2>5, <3>2
    <2>8. newest <= ret.WindowEnd /\ ret.WindowEnd <= newest + BucketDuration
      BY <2>3, <2>5, <2>6
    <2>9. QED
      BY <2>3, <2>7, <2>8 DEF WindowBounds, Starts, newest
  <1>2. QED
    BY <1>1, InductiveInvariant, SuffixInvariant, PTL
=============================================================================
