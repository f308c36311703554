--------------------------- MODULE AkilScore_proofs ---------------------------
(***************************************************************************)
(* Proofs about AkilScore: the score stays on its scale, is what the       *)
(* closed form says, and does not fall when neighbours go away.            *)
(*                                                                         *)
(* The first part is about sums: a fold over a finite set, in an order     *)
(* that CHOOSE picks, is the sum in any order.  The second is about the    *)
(* scorer as a function, the third about the plugin's steps.               *)
(***************************************************************************)
EXTENDS AkilScore, FiniteSetTheorems, WellFoundedInduction, TLAPS

\* A set of naturals has a least element.
LEMMA NatMin ==
    ASSUME NEW T, T \subseteq Nat, T # {}
    PROVE  \E n \in T : \A m \in T : n <= m
<1> DEFINE R == OpToRel(<, Nat)
<1>1. IsWellFoundedOn(R, Nat)
  BY NatLessThanWellFounded
<1> HIDE DEF R
<1>2. PICK n \in T : \A m \in T : <<m, n>> \notin R
  BY <1>1, WFMin
<1>3. \A m \in T : ~(m < n)
  BY <1>2 DEF OpToRel, R
<1> QED
  BY <1>3

\* Induction over the subsets of a finite set, with the set of those that have the
\* property in the place of the property.
LEMMA SubsetInduction ==
    ASSUME NEW S, IsFiniteSet(S), NEW G,
           \A T \in SUBSET S : (\A x \in T : T \ {x} \in G) => T \in G
    PROVE  \A T \in SUBSET S : T \in G
<1> SUFFICES ASSUME NEW B \in SUBSET S, B \notin G
             PROVE  FALSE
  OBVIOUS
<1> DEFINE Bad == {T \in SUBSET S : T \notin G}
           Sizes == {Cardinality(T) : T \in Bad}
<1>1. \A T \in SUBSET S : IsFiniteSet(T) /\ Cardinality(T) \in Nat
  BY FS_Subset, FS_CardinalityType
<1>2. Sizes \subseteq Nat /\ Sizes # {}
  BY <1>1
<1>3. PICK n \in Sizes : \A m \in Sizes : n <= m
  <2> HIDE DEF Sizes
  <2> QED
    BY <1>2, NatMin
<1>4. PICK T \in Bad : Cardinality(T) = n
  BY <1>3
<1>5. PICK x \in T : T \ {x} \notin G
  BY <1>4
<1>6. T \ {x} \in Bad
  BY <1>4, <1>5
<1>7. Cardinality(T \ {x}) = Cardinality(T) - 1
  BY <1>1, <1>4, <1>5, FS_RemoveElement
<1>8. n <= Cardinality(T \ {x}) /\ n \in Nat
  BY <1>2, <1>3, <1>6
<1> QED
  BY <1>4, <1>7, <1>8

-----------------------------------------------------------------------------
(* The fold. *)

Pick(s) == CHOOSE x \in s : TRUE

\* g is the recursive function that the fold evaluates.
IsIter(g, f, S) ==
    g = [s \in SUBSET S |-> IF s = {} THEN 0 ELSE f[Pick(s)] + g[s \ {Pick(s)}]]

Iter(f, S) == CHOOSE g : IsIter(g, f, S)

\* The library's definition, unfolded.
LEMMA SumIsIter ==
    ASSUME NEW f, NEW S
    PROVE  SumFunctionOnSet(f, S) = Iter(f, S)[S]
BY DEF SumFunctionOnSet, FoldFunctionOnSet, MapThenFoldSet, Iter, IsIter, Pick

\* The element that CHOOSE picks is one of the set.
LEMMA PickIn == \A s : s # {} => Pick(s) \in s
BY DEF Pick

\* Two such functions agree where both are defined.
LEMMA IterAgree ==
    ASSUME NEW f, NEW S, NEW T, IsFiniteSet(S), NEW g, NEW h, IsIter(g, f, S), IsIter(h, f, T)
    PROVE  \A s \in SUBSET (S \cap T) : g[s] = h[s]
<1> DEFINE C == S \cap T
           G == {s \in SUBSET C : g[s] = h[s]}
<1>1. IsFiniteSet(C)
  BY FS_Subset
<1>2. ASSUME NEW s \in SUBSET C, \A x \in s : s \ {x} \in G
      PROVE  s \in G
  <2>1. s \in SUBSET S /\ s \in SUBSET T
    OBVIOUS
  <2>2. g[s] = IF s = {} THEN 0 ELSE f[Pick(s)] + g[s \ {Pick(s)}]
    BY <2>1 DEF IsIter
  <2>3. h[s] = IF s = {} THEN 0 ELSE f[Pick(s)] + h[s \ {Pick(s)}]
    BY <2>1 DEF IsIter
  <2>4. s # {} => g[s \ {Pick(s)}] = h[s \ {Pick(s)}]
    BY <1>2, PickIn
  <2> QED
    BY <2>2, <2>3, <2>4
<1> HIDE DEF C
<1>3. \A s \in SUBSET C : s \in G
  <2> HIDE DEF G
  <2> QED
    BY <1>1, <1>2, SubsetInduction
<1> QED
  BY <1>3 DEF C

\* The fold is defined on every finite set.
LEMMA IterExists ==
    ASSUME NEW f, NEW S, IsFiniteSet(S)
    PROVE  \A s \in SUBSET S : IsIter(Iter(f, s), f, s)
<1> DEFINE G == {s \in SUBSET S : \A t \in SUBSET s : IsIter(Iter(f, t), f, t)}
<1>1. ASSUME NEW s \in SUBSET S, \A x \in s : s \ {x} \in G
      PROVE  s \in G
  <2>1. ASSUME NEW t \in SUBSET s, t # s
        PROVE  IsIter(Iter(f, t), f, t)
    <3>1. PICK x \in s : x \notin t
      BY <2>1
    <3>2. t \in SUBSET (s \ {x})
      BY <3>1
    <3> QED
      BY <3>1, <3>2, <1>1
  <2> DEFINE rest(t) == t \ {Pick(t)}
             g == [t \in SUBSET s |-> IF t = {} THEN 0 ELSE f[Pick(t)] + Iter(f, rest(t))[rest(t)]]
  <2>2. ASSUME NEW t \in SUBSET s, t # {}
        PROVE  g[rest(t)] = Iter(f, rest(t))[rest(t)]
    <3> DEFINE u == rest(t)
    <3>1. u \in SUBSET s /\ u # s /\ Pick(t) \in t /\ Pick(t) \notin u
      BY <2>2, PickIn
    <3>2. IsIter(Iter(f, u), f, u)
      BY <2>1, <3>1
    <3>3. u \in SUBSET u
      OBVIOUS
    <3>4. Iter(f, u)[u] = IF u = {} THEN 0 ELSE f[Pick(u)] + Iter(f, u)[rest(u)]
      BY <3>2, <3>3 DEF IsIter
    <3>5. g[u] = IF u = {} THEN 0 ELSE f[Pick(u)] + Iter(f, rest(u))[rest(u)]
      BY <3>1
    <3>6. CASE u = {}
      BY <3>4, <3>5, <3>6
    <3>7. CASE u # {}
      <4> DEFINE v == rest(u)
      <4>1. v \in SUBSET s /\ v # s /\ v \in SUBSET (u \cap v)
        BY <3>1, <3>7
      <4>2. IsIter(Iter(f, v), f, v)
        BY <2>1, <4>1
      <4>3. IsFiniteSet(u)
        BY <3>1, FS_Subset
      <4>4. Iter(f, u)[v] = Iter(f, v)[v]
        <5> HIDE DEF u, v
        <5> QED
          BY <3>2, <4>1, <4>2, <4>3, IterAgree
      <4> QED
        BY <3>4, <3>5, <3>7, <4>4
    <3> QED
      BY <3>6, <3>7
  <2>3. IsIter(g, f, s)
    BY <2>2 DEF IsIter
  <2> HIDE DEF g
  <2>4. IsIter(Iter(f, s), f, s)
    BY <2>3 DEF Iter
  <2> QED
    BY <2>1, <2>4
<1>2. \A s \in SUBSET S : s \in G
  <2> HIDE DEF G
  <2> QED
    BY <1>1, SubsetInduction
<1> QED
  BY <1>2

-----------------------------------------------------------------------------
(* The sum. *)

Sum(f, S) == SumFunctionOnSet(f, S)

\* The sum, one element at a time, in the order of the fold.
LEMMA SumUnfold ==
    ASSUME NEW f, NEW S, IsFiniteSet(S)
    PROVE  Sum(f, S) = IF S = {} THEN 0 ELSE f[Pick(S)] + Sum(f, S \ {Pick(S)})
<1> DEFINE T == S \ {Pick(S)}
<1>1. S \in SUBSET S /\ T \in SUBSET S /\ T \in SUBSET (S \cap T) /\ T \in SUBSET T
  OBVIOUS
<1>2. IsIter(Iter(f, S), f, S) /\ IsIter(Iter(f, T), f, T)
  BY <1>1, IterExists
<1> HIDE DEF T
<1>3. Iter(f, S)[T] = Iter(f, T)[T]
  BY <1>1, <1>2, IterAgree
<1>4. Iter(f, S)[S] = IF S = {} THEN 0 ELSE f[Pick(S)] + Iter(f, S)[T]
  BY <1>1, <1>2 DEF IsIter, T
<1> QED
  BY <1>3, <1>4, SumIsIter DEF Sum, T

\* The sum of integers is an integer.
LEMMA SumType ==
    ASSUME NEW f, NEW S, IsFiniteSet(S), \A x \in S : f[x] \in Int
    PROVE  Sum(f, S) \in Int
<1> DEFINE G == {T \in SUBSET S : Sum(f, T) \in Int}
<1>1. ASSUME NEW T \in SUBSET S, \A x \in T : T \ {x} \in G
      PROVE  T \in G
  <2>1. Sum(f, T) = IF T = {} THEN 0 ELSE f[Pick(T)] + Sum(f, T \ {Pick(T)})
    BY SumUnfold, FS_Subset
  <2>2. T # {} => f[Pick(T)] \in Int /\ Sum(f, T \ {Pick(T)}) \in Int
    BY <1>1, PickIn
  <2> QED
    BY <2>1, <2>2
<1>2. \A T \in SUBSET S : T \in G
  <2> HIDE DEF G
  <2> QED
    BY <1>1, SubsetInduction
<1> QED
  BY <1>2

\* Any element can be taken out of the sum first.
LEMMA SumRemove ==
    ASSUME NEW f, NEW S, IsFiniteSet(S), \A x \in S : f[x] \in Int
    PROVE  \A x \in S : Sum(f, S) = f[x] + Sum(f, S \ {x})
<1> DEFINE G == {T \in SUBSET S : \A x \in T : Sum(f, T) = f[x] + Sum(f, T \ {x})}
<1>1. ASSUME NEW T \in SUBSET S, \A x \in T : T \ {x} \in G
      PROVE  T \in G
  <2> SUFFICES ASSUME NEW x \in T
               PROVE  Sum(f, T) = f[x] + Sum(f, T \ {x})
    OBVIOUS
  <2> DEFINE p == Pick(T)
  <2>1. p \in T
    BY PickIn
  <2>2. Sum(f, T) = f[p] + Sum(f, T \ {p})
    BY SumUnfold, FS_Subset
  <2> HIDE DEF p
  <2>3. CASE p # x
    <3>1. (T \ {p}) \ {x} = (T \ {x}) \ {p}
      OBVIOUS
    <3>2. Sum(f, T \ {p}) = f[x] + Sum(f, (T \ {p}) \ {x})
      BY <1>1, <2>1, <2>3
    <3>3. Sum(f, T \ {x}) = f[p] + Sum(f, (T \ {x}) \ {p})
      BY <1>1, <2>1, <2>3
    <3> DEFINE a == Sum(f, T)
               b == Sum(f, T \ {p})
               c == Sum(f, T \ {x})
               d == Sum(f, (T \ {p}) \ {x})
               y == f[x]
               z == f[p]
    <3>4. IsFiniteSet((T \ {p}) \ {x}) /\ \A w \in (T \ {p}) \ {x} : f[w] \in Int
      BY FS_Subset
    <3>5. d \in Int /\ y \in Int /\ z \in Int
      BY <3>4, <2>1, SumType
    <3>6. a = z + b /\ b = y + d /\ c = z + d
      BY <2>2, <3>1, <3>2, <3>3
    <3> HIDE DEF a, b, c, d, y, z
    <3>7. a = y + c
      BY <3>5, <3>6
    <3> QED
      BY <3>7 DEF a, c, y
  <2> QED
    BY <2>2, <2>3
<1>2. \A T \in SUBSET S : T \in G
  <2> HIDE DEF G
  <2> QED
    BY <1>1, SubsetInduction
<1> QED
  BY <1>2

\* The sum over no element.
LEMMA SumEmpty == ASSUME NEW f PROVE Sum(f, {}) = 0
BY SumUnfold, FS_EmptySet


-----------------------------------------------------------------------------
(* Two facts on sums that the score needs. *)

\* The sum of a constant and two functions.
LEMMA SumLinear ==
    ASSUME NEW S, IsFiniteSet(S), NEW k \in Int, NEW f, NEW g, NEW h,
           \A x \in S : g[x] \in Int /\ h[x] \in Int /\ f[x] = k + g[x] + h[x]
    PROVE  Sum(f, S) = Cardinality(S) * k + Sum(g, S) + Sum(h, S)
<1> DEFINE G == {T \in SUBSET S : Sum(f, T) = Cardinality(T) * k + Sum(g, T) + Sum(h, T)}
<1>1. ASSUME NEW T \in SUBSET S, \A x \in T : T \ {x} \in G
      PROVE  T \in G
  <2>1. CASE T = {}
    <3>1. Cardinality(T) = 0 /\ Sum(f, T) = 0 /\ Sum(g, T) = 0 /\ Sum(h, T) = 0
      BY <2>1, SumEmpty, FS_EmptySet
    <3> QED
      BY <3>1
  <2>2. CASE T # {}
    <3>1. PICK x \in T : TRUE
      BY <2>2
    <3> DEFINE U == T \ {x}
               c == Cardinality(U)
               a == Sum(g, U)
               b == Sum(h, U)
    <3>2. IsFiniteSet(T) /\ IsFiniteSet(U)
      BY FS_Subset
    <3>3. \A y \in T : f[y] \in Int
      OBVIOUS
    <3>4. /\ Sum(f, T) = f[x] + Sum(f, U)
          /\ Sum(g, T) = g[x] + a
          /\ Sum(h, T) = h[x] + b
      BY <3>2, <3>3, SumRemove
    <3>5. Cardinality(T) = c + 1 /\ c \in Int
      <4> DEFINE d == Cardinality(T)
      <4>1. c = d - 1 /\ d \in Nat
        BY <3>2, FS_RemoveElement, FS_CardinalityType
      <4> HIDE DEF c, d
      <4>2. d = c + 1 /\ c \in Int
        BY <4>1
      <4> QED
        BY <4>2 DEF d
    <3>6. Sum(f, U) = c * k + a + b
      BY <1>1, <3>1
    <3>7. a \in Int /\ b \in Int
      BY <3>2, SumType
    <3>8. f[x] = k + g[x] + h[x] /\ g[x] \in Int /\ h[x] \in Int
      OBVIOUS
    <3> HIDE DEF U, a, b, c
    <3>9. (c + 1) * k = c * k + k /\ c * k \in Int
      BY <3>5
    <3>10. (k + g[x] + h[x]) + (c * k + a + b) = (c * k + k) + (g[x] + a) + (h[x] + b)
      BY <3>7, <3>8, <3>9
    <3> QED
      BY <3>4, <3>5, <3>6, <3>8, <3>9, <3>10
  <2> QED
    BY <2>1, <2>2
<1>2. \A T \in SUBSET S : T \in G
  <2> HIDE DEF G
  <2> QED
    BY <1>1, SubsetInduction
<1> QED
  BY <1>2

\* A sum of naturals over more elements is no smaller.
LEMMA SumMonotone ==
    ASSUME NEW S, IsFiniteSet(S), NEW T \in SUBSET S, NEW f, NEW g,
           \A x \in S : g[x] \in Nat, \A x \in T : f[x] = g[x]
    PROVE  Sum(f, T) <= Sum(g, S)
<1> DEFINE G == {U \in SUBSET S : Sum(f, T \cap U) <= Sum(g, U)}
<1>1. ASSUME NEW U \in SUBSET S, \A x \in U : U \ {x} \in G
      PROVE  U \in G
  <2>1. CASE U = {}
    <3>1. T \cap U = {}
      BY <2>1
    <3> QED
      BY <2>1, <3>1, SumEmpty
  <2>2. CASE U # {}
    <3>1. PICK x \in U : TRUE
      BY <2>2
    <3> DEFINE V == U \ {x}
               a == Sum(f, T \cap V)
               b == Sum(g, V)
    <3>2. IsFiniteSet(U) /\ IsFiniteSet(T \cap U) /\ IsFiniteSet(V) /\ IsFiniteSet(T \cap V)
      BY FS_Subset
    <3>3. Sum(g, U) = g[x] + b
      <4>1. \A y \in U : g[y] \in Int
        OBVIOUS
      <4> QED
        BY <4>1, <3>2, SumRemove
    <3>4. a <= b
      BY <1>1, <3>1
    <3>5. a \in Int /\ b \in Int /\ g[x] \in Nat
      <4>1. (\A y \in T \cap V : f[y] \in Int) /\ (\A y \in V : g[y] \in Int)
        OBVIOUS
      <4> QED
        BY <4>1, <3>2, SumType
    <3>6. CASE x \in T
      <4>1. (T \cap U) \ {x} = T \cap V /\ x \in T \cap U
        BY <3>6
      <4>2. \A y \in T \cap U : f[y] \in Int
        OBVIOUS
      <4>3. Sum(f, T \cap U) = g[x] + a
        BY <3>2, <3>6, <4>1, <4>2, SumRemove
      <4> HIDE DEF a, b
      <4> QED
        BY <3>3, <3>4, <3>5, <4>3
    <3>7. CASE x \notin T
      <4>1. T \cap U = T \cap V
        BY <3>7
      <4>2. Sum(f, T \cap U) = a
        BY <4>1
      <4> HIDE DEF a, b
      <4> QED
        BY <3>3, <3>4, <3>5, <4>2
    <3> QED
      BY <3>6, <3>7
  <2> QED
    BY <2>1, <2>2
<1>2. \A U \in SUBSET S : U \in G
  <2> HIDE DEF G
  <2> QED
    BY <1>1, SubsetInduction
<1>3. T \cap S = T /\ S \in SUBSET S
  OBVIOUS
<1> QED
  BY <1>2, <1>3

-----------------------------------------------------------------------------
(* The scorer. *)

\* Division by a positive number.
LEMMA DivBounds ==
    ASSUME NEW D \in Nat \ {0}, NEW x \in Int
    PROVE  x \div D \in Int /\ D * (x \div D) <= x /\ x < D * (x \div D) + D
OBVIOUS

\* A multiple of D decides the order of the factors.
LEMMA FactorOrder ==
    ASSUME NEW D \in Nat \ {0}, NEW a \in Int, NEW b \in Int, D * a < D * b
    PROVE  a < b
<1> SUFFICES ASSUME a >= b PROVE FALSE
  OBVIOUS
<1>1. a - b \in Nat /\ D * (a - b) >= 0
  OBVIOUS
<1>2. D * (a - b) = D * a - D * b
  OBVIOUS
<1> QED
  BY <1>1, <1>2

\* Round is a whole number of points within half a point of its argument.
LEMMA RoundNearest ==
    ASSUME NEW x \in Int
    PROVE  /\ Points(1) = 4 * Unit /\ Points(1) \in Nat \ {0}
           /\ Round(x) \in Int /\ Points(Round(x)) = Points(1) * Round(x)
           /\ Points(Round(x)) <= x + 2 * Unit
           /\ x + 2 * Unit < Points(Round(x)) + Points(1)
<1> DEFINE D == 4 * Unit
           r == Round(x)
<1>0. Unit \in Nat \ {0}
  BY ScorerAssumption
<1>1. Points(1) = D /\ D \in Nat \ {0} /\ D \div 2 = 2 * Unit
  BY <1>0 DEF Points
<1>2. r = (x + 2 * Unit) \div D
  BY <1>1 DEF Round
<1>3. D * r <= x + 2 * Unit /\ x + 2 * Unit < D * r + D /\ r \in Int
  <2> HIDE DEF D
  <2> DEFINE y == x + 2 * Unit
  <2>1. y \in Int
    BY <1>0
  <2> HIDE DEF y
  <2>2. D * (y \div D) <= y /\ y < D * (y \div D) + D /\ y \div D \in Int
    BY <1>1, <2>1, DivBounds
  <2> QED
    BY <1>2, <2>2 DEF y
<1> HIDE DEF r
<1>4. Points(r) = D * r
  BY <1>0, <1>3 DEF Points
<1> QED
  BY <1>1, <1>3, <1>4 DEF r

\* The scale has a hundred points.
LEMMA Scale == Points(100) = 100 * Points(1) /\ Points(1) \in Nat \ {0} /\ Points(0) = 0
BY ScorerAssumption DEF Points

\* Clamp keeps to the scale.
LEMMA ClampType ==
    ASSUME NEW x \in Int
    PROVE  Clamp(x) \in Int /\ 0 <= Clamp(x) /\ Clamp(x) <= 100 * Points(1)
BY Scale DEF Clamp

\* Clamp and Round keep the order.
LEMMA RoundClampMonotone ==
    ASSUME NEW x \in Int, NEW y \in Int, x <= y
    PROVE  Round(Clamp(x)) <= Round(Clamp(y))
<1> DEFINE D == Points(1)
           cx == Clamp(x)
           cy == Clamp(y)
           rx == Round(cx)
           ry == Round(cy)
<1>1. cx <= cy /\ cx \in Int /\ cy \in Int
  BY Scale DEF Clamp
<1> HIDE DEF cx, cy
<1>2. D \in Nat \ {0} /\ rx \in Int /\ ry \in Int
      /\ D * rx <= cx + 2 * Unit /\ cy + 2 * Unit < D * ry + D
  BY <1>1, RoundNearest
<1> HIDE DEF D, rx, ry
<1>3. D * rx < D * ry + D
  <2> DEFINE a == D * rx
             b == D * ry
  <2>1. a \in Int /\ b \in Int /\ a <= cx + 2 * Unit /\ cy + 2 * Unit < b + D
    BY <1>2
  <2> HIDE DEF a, b
  <2>2. a < b + D
    BY <1>1, <1>2, <2>1, ScorerAssumption
  <2> QED
    BY <2>2 DEF a, b
<1>4. D * ry + D = D * (ry + 1)
  BY <1>2
<1>5. rx < ry + 1
  BY <1>2, <1>3, <1>4, FactorOrder
<1> QED
  BY <1>2, <1>5 DEF rx, ry, cx, cy

\* A score on the scale is rounded to a whole point of it; its ends to themselves.
LEMMA RoundRange ==
    ASSUME NEW x \in Int, 0 <= x, x <= 100 * Points(1)
    PROVE  /\ Round(x) \in 0 .. 100
           /\ x = 0 => Round(x) = 0
           /\ x = 100 * Points(1) => Round(x) = 100
<1> DEFINE D == Points(1)
           r == Round(x)
           q == D * r
<1>1. D \in Nat \ {0} /\ D = 4 * Unit /\ r \in Int /\ q <= x + 2 * Unit /\ x + 2 * Unit < q + D
  BY RoundNearest
<1>2. q \in Int /\ q = D * r
  BY <1>1
<1> HIDE DEF D, r, q
<1>3. x <= 100 * D /\ Unit \in Nat \ {0}
  BY ScorerAssumption DEF D
<1>4. D * (-1) < D * r /\ D * r < D * 101
  BY <1>1, <1>2, <1>3
<1>5. -1 < r /\ r < 101
  BY <1>1, <1>4, FactorOrder
<1>6. x = 0 => r < 1
  <2>1. x = 0 => D * r < D * 1
    BY <1>1, <1>2, <1>3
  <2> QED
    BY <1>1, <2>1, FactorOrder
<1>7. x = 100 * D => 99 < r
  <2>1. x = 100 * D => D * 99 < D * r
    BY <1>1, <1>2, <1>3
  <2> QED
    BY <1>1, <2>1, FactorOrder
<1> QED
  BY <1>1, <1>5, <1>6, <1>7 DEF r, D

\* The score of an exact value: within half a point of it, or at the end of the
\* scale that it passes.
LEMMA RoundClampExact ==
    ASSUME NEW e \in Int
    PROVE  LET got == Points(Round(Clamp(e)))
           IN  \/ e <= 0 /\ got = 0
               \/ e >= Points(100) /\ got = Points(100)
               \/ 2 * (got - e) <= Points(1) /\ 2 * (e - got) <= Points(1)
<1> DEFINE D == Points(1)
           c == Clamp(e)
           got == Points(Round(c))
<1>1. D \in Nat \ {0} /\ D = 4 * Unit /\ Points(100) = 100 * D /\ Unit \in Nat /\ Points(0) = 0
  BY Scale, ScorerAssumption DEF Points
<1>2. c \in Int /\ 0 <= c /\ c <= 100 * D
  BY ClampType
<1>3. CASE e <= 0
  <2>1. c = 0
    BY <1>1, <1>3 DEF Clamp
  <2> QED
    BY <1>1, <1>2, <1>3, <2>1, RoundRange
<1>4. CASE e >= 100 * D
  <2>1. c = 100 * D
    <3> HIDE DEF D
    <3> QED
      BY <1>1, <1>4 DEF Clamp
  <2>2. Round(c) = 100
    BY <1>2, <2>1, RoundRange
  <2> QED
    BY <1>1, <1>4, <2>2
<1>5. CASE 0 < e /\ e < 100 * D
  <2>1. c = e
    <3> HIDE DEF D
    <3> QED
      BY <1>1, <1>5 DEF Clamp
  <2>2. got \in Int /\ got <= e + 2 * Unit /\ e + 2 * Unit < got + D
    <3>1. Round(c) \in Int
      BY <1>2, RoundNearest
    <3> QED
      BY <1>2, <2>1, <3>1, RoundNearest
  <2> HIDE DEF D, got, c
  <2>3. 2 * (got - e) <= D /\ 2 * (e - got) <= D
    BY <1>1, <2>2
  <2> QED
    BY <2>3 DEF D, got, c
<1> QED
  BY <1>1, <1>3, <1>4, <1>5

\* The neighbours' and the candidate's share of a penalty.
LEMMA PenaltySplit ==
    ASSUME NEW c \in RuntimeProfile, NEW p \in RuntimeProfile
    PROVE  /\ Pressure(c) \in Int /\ Pressure(p) \in Int /\ p.CacheMissRate * WeightCache \in Int
           /\ Penalty(c, p) = Pressure(c) + Pressure(p) + p.CacheMissRate * WeightCache
           /\ NonNegative(c) /\ NonNegative(p) => Penalty(c, p) >= 0
<1> DEFINE m == p.CacheMissRate * WeightCache
           l(q) == q.LockContentionRatio * WeightLock
           f(q) == q.PageFaultRate * WeightPageFault
           s(q) == q.ContextSwitchRate * WeightCtxSwitch
<1>1. ASSUME NEW q \in RuntimeProfile
      PROVE  /\ q.CacheMissRate \in Int /\ q.LockContentionRatio \in Int
             /\ q.PageFaultRate \in Int /\ q.ContextSwitchRate \in Int
  BY DEF RuntimeProfile
<1>2. /\ WeightCache \in Nat /\ WeightLock \in Nat
      /\ WeightPageFault \in Nat /\ WeightCtxSwitch \in Nat
  BY ScorerAssumption
<1>3. ASSUME NEW a \in Int, NEW b \in Int, NEW w \in Nat
      PROVE  (a + b) * w = a * w + b * w /\ a * w \in Int /\ (a >= 0 => a * w >= 0)
  OBVIOUS
<1>4. m \in Int /\ (NonNegative(p) => m >= 0)
  BY <1>1, <1>2, <1>3 DEF NonNegative
<1>5. ASSUME NEW q \in RuntimeProfile
      PROVE  /\ l(q) \in Int /\ f(q) \in Int /\ s(q) \in Int
             /\ NonNegative(q) => l(q) >= 0 /\ f(q) >= 0 /\ s(q) >= 0
  BY <1>1, <1>2, <1>3 DEF NonNegative
<1>6. /\ (c.LockContentionRatio + p.LockContentionRatio) * WeightLock = l(c) + l(p)
      /\ (c.PageFaultRate + p.PageFaultRate) * WeightPageFault = f(c) + f(p)
      /\ (c.ContextSwitchRate + p.ContextSwitchRate) * WeightCtxSwitch = s(c) + s(p)
  BY <1>1, <1>2, <1>3
<1>7. Penalty(c, p) = m + (l(c) + l(p)) + (f(c) + f(p)) + (s(c) + s(p))
  BY <1>6 DEF Penalty
<1>8. Pressure(c) = l(c) + f(c) + s(c) /\ Pressure(p) = l(p) + f(p) + s(p)
  BY DEF Pressure
<1> DEFINE lc == l(c)
           lp == l(p)
           fc == f(c)
           fp == f(p)
           sc == s(c)
           sp == s(p)
<1>9. /\ m \in Int /\ lc \in Int /\ lp \in Int /\ fc \in Int /\ fp \in Int
      /\ sc \in Int /\ sp \in Int
      /\ NonNegative(c) => lc >= 0 /\ fc >= 0 /\ sc >= 0
      /\ NonNegative(p) => m >= 0 /\ lp >= 0 /\ fp >= 0 /\ sp >= 0
  BY <1>4, <1>5
<1>10. /\ Penalty(c, p) = m + (lc + lp) + (fc + fp) + (sc + sp)
       /\ Pressure(c) = lc + fc + sc /\ Pressure(p) = lp + fp + sp
  BY <1>7, <1>8
<1> HIDE DEF m, lc, lp, fc, fp, sc, sp
<1>11. /\ Pressure(c) \in Int /\ Pressure(p) \in Int /\ m \in Int
       /\ Penalty(c, p) = Pressure(c) + Pressure(p) + m
  BY <1>9, <1>10
<1>12. NonNegative(c) /\ NonNegative(p) => Penalty(c, p) >= 0
  BY <1>9, <1>10
<1> QED
  BY <1>11, <1>12 DEF m

\* The candidate that is scored: without a profile it is silent and known well.
LEMMA AssumedType ==
    ASSUME NEW c \in RuntimeProfile
    PROVE  /\ Assumed(c) \in RuntimeProfile
           /\ Quarters(Assumed(c).Confidence) \in Nat
           /\ NonNegative(c) => NonNegative(Assumed(c))
           /\ Quarters(Assumed(c).Confidence) =
                CASE c.Confidence = "LOW" -> 1 [] c.Confidence = "MEDIUM" -> 3 [] OTHER -> 4
           /\ Pressure(Assumed(c)) = IF c.Confidence = "UNKNOWN" THEN 0 ELSE Pressure(c)
<1>1. CASE c.Confidence = "UNKNOWN"
  <2>1. Assumed(c) = Silent("HIGH")
    BY <1>1 DEF Assumed
  <2>2. Assumed(c) \in RuntimeProfile
    BY <2>1 DEF Silent, RuntimeProfile, Confidences
  <2>3. Pressure(Silent("HIGH")) = 0
    BY ScorerAssumption DEF Pressure, Silent
  <2>4. NonNegative(Silent("HIGH"))
    BY DEF NonNegative, Silent
  <2>5. Quarters(Silent("HIGH").Confidence) = 4
    BY DEF Quarters, Silent
  <2> QED
    BY <1>1, <2>1, <2>2, <2>3, <2>4, <2>5
<1>2. CASE c.Confidence # "UNKNOWN"
  <2>1. Assumed(c) = c
    BY <1>2 DEF Assumed
  <2>2. c.Confidence \in {"LOW", "MEDIUM", "HIGH"}
    BY <1>2 DEF RuntimeProfile, Confidences
  <2>3. Quarters(c.Confidence) =
          CASE c.Confidence = "LOW" -> 1 [] c.Confidence = "MEDIUM" -> 3 [] OTHER -> 4
    BY <2>2 DEF Quarters
  <2>4. Quarters(c.Confidence) \in Nat
    BY <2>2 DEF Quarters
  <2> QED
    BY <1>2, <2>1, <2>3, <2>4
<1> QED
  BY <1>1, <1>2

\* The neighbours' penalties.
Penalties(c, neighbours) == [w \in Known(neighbours) |-> Penalty(Assumed(c), neighbours[w])]

\* The penalty before and after dampening.
Total(c, neighbours) == Sum(Penalties(c, neighbours), Known(neighbours))

Dampened(c, neighbours) == Total(c, neighbours) * Quarters(Assumed(c).Confidence)

\* The early return for a node without neighbours gives what the sum would.
LEMMA ScoreForm ==
    ASSUME NEW c \in RuntimeProfile, NEW nb, IsFiniteSet(DOMAIN nb),
           \A w \in DOMAIN nb : nb[w] \in RuntimeProfile
    PROVE  /\ Total(c, nb) \in Int /\ Dampened(c, nb) \in Int
           /\ Score(c, nb) = Round(Clamp(Points(100) - Dampened(c, nb)))
           /\ Score(c, nb) \in 0 .. 100
<1> DEFINE t == Total(c, nb)
           q == Quarters(Assumed(c).Confidence)
<1>1. IsFiniteSet(Known(nb)) /\ Known(nb) \subseteq DOMAIN nb
  BY FS_Subset DEF Known
<1>2. \A w \in Known(nb) : Penalties(c, nb)[w] \in Int
  <2> SUFFICES ASSUME NEW w \in Known(nb) PROVE Penalty(Assumed(c), nb[w]) \in Int
    BY DEF Penalties
  <2>1. Assumed(c) \in RuntimeProfile /\ nb[w] \in RuntimeProfile
    BY <1>1, AssumedType
  <2> QED
    BY <2>1, PenaltySplit
<1>3. t \in Int /\ q \in Int
  BY <1>1, <1>2, SumType, AssumedType DEF Total
<1>4. Dampened(c, nb) = t * q
  BY DEF Dampened
<1>5. t = SumFunction(Penalties(c, nb))
  BY DEF Total, Sum, SumFunction, Penalties
<1>6. CASE DOMAIN nb = {}
  <2>1. Known(nb) = {}
    BY <1>1, <1>6
  <2>2. t = 0
    BY <2>1, SumEmpty DEF Total
  <2> HIDE DEF t, q
  <2>3. t * q = 0
    BY <1>3, <2>2
  <2>4. Clamp(Points(100) - 0) = Points(100) /\ Points(100) = 100 * Points(1)
        /\ Points(100) \in Int /\ 0 <= Points(100)
    BY Scale DEF Clamp
  <2>5. Round(Points(100)) = 100
    BY <2>4, RoundRange
  <2>6. Score(c, nb) = 100
    BY <1>6 DEF Score
  <2> QED
    BY <1>3, <1>4, <2>3, <2>4, <2>5, <2>6 DEF t
<1>7. CASE DOMAIN nb # {}
  <2>1. Score(c, nb) = Round(Clamp(Points(100) - t * q))
    BY <1>5, <1>7 DEF Score, Penalties
  <2> HIDE DEF t, q
  <2>2. t * q \in Int /\ Points(100) - t * q \in Int
    BY <1>3, Scale
  <2>3. Round(Clamp(Points(100) - t * q)) \in 0 .. 100
    BY <2>2, ClampType, RoundRange
  <2> QED
    BY <1>3, <1>4, <2>1, <2>2, <2>3 DEF t
<1> QED
  BY <1>6, <1>7

-----------------------------------------------------------------------------
(* The plugin's state. *)

Locations == {"candidate", "node", "done"}

CandidateProfiles == Profiles[Candidate] \cup {Absent}

\* The store has profiles of workloads.
StoreOK ==
    /\ DOMAIN store \subseteq Workloads
    /\ \A w \in DOMAIN store : store[w] \in Profiles[w]

\* Each node has a goroutine, whose score is on the scale.
ScoreOK ==
    score \in [Nodes -> [pc : Locations, cand : CandidateProfiles, result : 0 .. 100,
                         failed : BOOLEAN]]

\* What goroutine n knows while nothing changes: what it was told about the candidate
\* is true, and its score follows from what is in the store now.
QuietOK(n) ==
    /\ score[n].pc = "node" => score[n].cand = ProfileOf(Candidate)
    /\ Answered(n) => score[n].result = Score(ProfileOf(Candidate), Colocated(n))

\* The inductive invariant.
IInv ==
    /\ StoreOK /\ ScoreOK
    /\ aggregator \in {"up", "stuck", "down"}
    /\ quiet => \A n \in Nodes : QuietOK(n)

\* Every profile, also that of an absent candidate, is a profile.
LEMMA ProfileTypes ==
    /\ CandidateProfiles \subseteq RuntimeProfile
    /\ \A w \in Workloads : Profiles[w] \subseteq RuntimeProfile
    /\ Absent \in CandidateProfiles
<1>1. Absent \in RuntimeProfile
  BY DEF Absent, Silent, RuntimeProfile, Confidences
<1> QED
  BY <1>1, AkilScoreAssumption DEF CandidateProfiles

\* The neighbours are finitely many profiles of the store, and those that are known
\* are the noisy ones.
LEMMA ColocatedType ==
    ASSUME StoreOK, NEW n
    PROVE  /\ IsFiniteSet(DOMAIN Colocated(n))
           /\ \A w \in DOMAIN Colocated(n) : /\ w \in DOMAIN store
                                             /\ Colocated(n)[w] = store[w]
                                             /\ Colocated(n)[w] \in RuntimeProfile
           /\ Known(Colocated(n)) = Noisy(n)
<1> DEFINE C == {v \in DOMAIN store \ (DaemonSets \cup {Candidate}) : n \in Located[v]}
<1>1. DOMAIN Colocated(n) = C /\ \A w \in C : Colocated(n)[w] = store[w]
  BY DEF Colocated
<1>2. C \subseteq DOMAIN store /\ C \subseteq Workloads
  BY DEF StoreOK
<1>3. IsFiniteSet(C)
  BY <1>2, AkilScoreAssumption, FS_Subset
<1>4. \A w \in C : store[w] \in RuntimeProfile
  BY <1>2, ProfileTypes DEF StoreOK
<1>5. Known(Colocated(n)) = Noisy(n)
  BY <1>1 DEF Known, Noisy
<1> HIDE DEF C
<1> QED
  BY <1>1, <1>2, <1>3, <1>4, <1>5

\* What a query for the candidate's profile answers.
LEMMA ProfileOfType ==
    ASSUME StoreOK
    PROVE  ProfileOf(Candidate) \in CandidateProfiles
BY ProfileTypes DEF StoreOK, ProfileOf, CandidateProfiles

\* A computed score is on the scale.
LEMMA ScoreType ==
    ASSUME StoreOK, NEW c \in CandidateProfiles, NEW n
    PROVE  Score(c, Colocated(n)) \in 0 .. 100
<1> DEFINE nb == Colocated(n)
<1>1. IsFiniteSet(DOMAIN nb) /\ \A w \in DOMAIN nb : nb[w] \in RuntimeProfile
  BY ColocatedType
<1>2. c \in RuntimeProfile
  BY ProfileTypes
<1> HIDE DEF nb
<1>3. Score(c, nb) \in 0 .. 100
  BY <1>1, <1>2, ScoreForm
<1> QED
  BY <1>3 DEF nb

-----------------------------------------------------------------------------
(* The invariant holds in every state. *)

\* Init establishes the invariant.
LEMMA InitIInv == Init => IInv
<1> SUFFICES ASSUME Init PROVE IInv
  OBVIOUS
<1>1. StoreOK
  BY DEF Init, StoreOK, EmptyStore
<1>2. ScoreOK
  BY ProfileTypes DEF Init, ScoreOK, Goroutine, Locations, NeutralScore
<1>3. \A n \in Nodes : QuietOK(n)
  BY DEF Init, QuietOK, Answered, Goroutine
<1> QED
  BY <1>1, <1>2, <1>3 DEF Init, IInv

\* A step of one goroutine that leaves the store alone disturbs only what is said of
\* that goroutine.
LEMMA OneGoroutine ==
    ASSUME IInv, NEW node \in Nodes,
           NEW r \in [pc : Locations, cand : CandidateProfiles, result : 0 .. 100,
                      failed : BOOLEAN],
           score' = [score EXCEPT ![node] = r], UNCHANGED <<store, aggregator, quiet>>,
           quiet => (r.pc = "node" => r.cand = ProfileOf(Candidate)),
           quiet => (r.pc = "done" /\ ~r.failed
                       => r.result = Score(ProfileOf(Candidate), Colocated(node)))
    PROVE  IInv'
<1>1. StoreOK' /\ (aggregator \in {"up", "stuck", "down"})'
  BY DEF IInv, StoreOK
<1>2. ScoreOK'
  BY DEF IInv, ScoreOK
<1>3. ASSUME quiet, NEW n \in Nodes PROVE QuietOK(n)'
  <2>1. ProfileOf(Candidate)' = ProfileOf(Candidate) /\ Colocated(n)' = Colocated(n)
    BY DEF ProfileOf, Colocated
  <2>2. CASE n = node
    <3>1. score'[n] = r
      BY <2>2 DEF IInv, ScoreOK
    <3> QED
      BY <1>3, <2>1, <2>2, <3>1 DEF QuietOK, Answered
  <2>3. CASE n # node
    <3>1. score'[n] = score[n]
      BY <2>3 DEF IInv, ScoreOK
    <3>2. QuietOK(n)
      BY <1>3 DEF IInv
    <3> QED
      BY <2>1, <3>1, <3>2 DEF QuietOK, Answered
  <2> QED
    BY <2>2, <2>3
<1> QED
  BY <1>1, <1>2, <1>3 DEF IInv

\* Every step preserves the invariant.
LEMMA NextIInv == IInv /\ [Next]_vars => IInv'
<1> SUFFICES ASSUME IInv, [Next]_vars PROVE IInv'
  OBVIOUS
<1>0. StoreOK /\ ScoreOK
  BY DEF IInv
<1>1. ASSUME NEW node \in Nodes, QueryProfile(node) PROVE IInv'
  <2> DEFINE g == score[node]
             r == [g EXCEPT !.pc = "node", !.cand = ProfileOf(Candidate)]
  <2>1. g \in [pc : Locations, cand : CandidateProfiles, result : 0 .. 100, failed : BOOLEAN]
    BY <1>0 DEF ScoreOK
  <2>2. score' = [score EXCEPT ![node] = r]
    BY <1>1 DEF QueryProfile
  <2>3. /\ r \in [pc : Locations, cand : CandidateProfiles, result : 0 .. 100, failed : BOOLEAN]
        /\ r.pc = "node" /\ r.cand = ProfileOf(Candidate)
    <3> HIDE DEF g
    <3> QED
      BY <1>0, <2>1, ProfileOfType DEF Locations
  <2> HIDE DEF r
  <2> QED
    BY <1>1, <2>2, <2>3, OneGoroutine DEF QueryProfile
<1>2. ASSUME NEW node \in Nodes, QueryNodeProfiles(node) PROVE IInv'
  <2> DEFINE g == score[node]
             v == Score(g.cand, Colocated(node))
             r == [g EXCEPT !.pc = "done", !.cand = Absent, !.result = v]
  <2>1. /\ g \in [pc : Locations, cand : CandidateProfiles, result : 0 .. 100, failed : BOOLEAN]
        /\ g.pc = "node" /\ (quiet => g.cand = ProfileOf(Candidate))
    BY <1>0, <1>2 DEF ScoreOK, IInv, QuietOK, QueryNodeProfiles
  <2>2. score' = [score EXCEPT ![node] = r]
    BY <1>2 DEF QueryNodeProfiles
  <2>3. v \in 0 .. 100 /\ (quiet => v = Score(ProfileOf(Candidate), Colocated(node)))
    BY <1>0, <2>1, ScoreType
  <2>4. /\ r \in [pc : Locations, cand : CandidateProfiles, result : 0 .. 100, failed : BOOLEAN]
        /\ r.pc = "done" /\ r.result = v
    <3> HIDE DEF g, v
    <3> QED
      BY <2>1, <2>3, ProfileTypes DEF Locations
  <2> HIDE DEF r, v
  <2> QED
    BY <1>2, <2>2, <2>3, <2>4, OneGoroutine DEF QueryNodeProfiles
<1>3. ASSUME NEW node \in Nodes, QueryFails(node) PROVE IInv'
  <2> DEFINE r == [pc |-> "done", cand |-> Absent, result |-> 50, failed |-> TRUE]
  <2>1. /\ r \in [pc : Locations, cand : CandidateProfiles, result : 0 .. 100, failed : BOOLEAN]
        /\ r.pc = "done" /\ r.failed
    BY ProfileTypes DEF Locations
  <2>2. score' = [score EXCEPT ![node] = r]
    <3>1. [Goroutine("done") EXCEPT !.failed = TRUE] = r
      <4> DEFINE no == FALSE
                 yes == TRUE
                 g == Goroutine("done")
      <4>1. g = [pc |-> "done", cand |-> Absent, result |-> 50, failed |-> no]
        BY DEF Goroutine, NeutralScore
      <4> HIDE DEF no, yes, g
      <4>2. [g EXCEPT !.failed = yes]
              = [pc |-> "done", cand |-> Absent, result |-> 50, failed |-> yes]
        BY <4>1
      <4> QED
        BY <4>2, Zenon DEF yes, g
    <3> HIDE DEF r
    <3> QED
      BY <1>3, <3>1 DEF QueryFails
  <2> HIDE DEF r
  <2> QED
    BY <1>3, <2>1, <2>2, OneGoroutine DEF QueryFails
<1>4. ASSUME StartCycle PROVE IInv'
  <2>1. StoreOK' /\ (aggregator \in {"up", "stuck", "down"})'
    BY <1>4 DEF IInv, StoreOK, StartCycle
  <2>2. ScoreOK'
    BY <1>4, ProfileTypes DEF StartCycle, ScoreOK, Goroutine, Locations, NeutralScore
  <2>3. \A n \in Nodes : QuietOK(n)'
    BY <1>4 DEF StartCycle, QuietOK, Answered, Goroutine
  <2> QED
    BY <2>1, <2>2, <2>3 DEF IInv
<1>5. ASSUME NEW w \in Workloads, NEW p \in Profiles[w], ProfileChanges(w, p) PROVE IInv'
  <2>1. StoreOK'
    BY <1>0, <1>5 DEF StoreOK, ProfileChanges
  <2> QED
    BY <1>5, <2>1 DEF IInv, ScoreOK, ProfileChanges
<1>6. ASSUME NEW state \in {"up", "stuck", "down"}, AggregatorChanges(state) PROVE IInv'
  <2>1. StoreOK'
    BY <1>0, <1>6 DEF StoreOK, AggregatorChanges, EmptyStore
  <2> QED
    BY <1>6, <2>1 DEF IInv, ScoreOK, AggregatorChanges
<1>7. CASE UNCHANGED vars
  BY <1>7 DEF vars, IInv, StoreOK, ScoreOK, QuietOK, Answered, ProfileOf, Colocated
<1> QED
  BY <1>1, <1>2, <1>3, <1>4, <1>5, <1>6, <1>7 DEF Next, ScoreStep

\* The invariant holds in every reachable state.
LEMMA Invariance == Spec => []IInv
BY InitIInv, NextIInv, PTL DEF Spec

-----------------------------------------------------------------------------
(* The properties. *)

\* Every score the plugin returns, and the neutral one, is on the framework's scale.
THEOREM TypeCorrect == Spec => []TypeOK
<1>1. IInv => TypeOK
  <2> SUFFICES ASSUME IInv PROVE TypeOK
    OBVIOUS
  <2>1. StoreOK /\ aggregator \in {"up", "stuck", "down"}
    BY DEF IInv
  <2>2. ASSUME NEW n \in Nodes
        PROVE  /\ score[n].pc \in {"candidate", "node", "done"}
               /\ score[n].cand \in Profiles[Candidate] \cup {Absent}
               /\ score[n].result \in 0 .. 100
    BY DEF IInv, ScoreOK, Locations, CandidateProfiles
  <2> QED
    BY <2>1, <2>2 DEF TypeOK, StoreOK
<1> QED
  BY <1>1, Invariance, PTL

\* In a quiet cycle the score is the rounded difference of 100 and the penalty.
LEMMA QuietScore ==
    ASSUME IInv, quiet, NEW n \in Nodes, Answered(n)
    PROVE  /\ ProfileOf(Candidate) \in RuntimeProfile
           /\ Total(ProfileOf(Candidate), Colocated(n)) \in Int
           /\ Dampened(ProfileOf(Candidate), Colocated(n)) \in Int
           /\ score[n].result =
                Round(Clamp(Points(100) - Dampened(ProfileOf(Candidate), Colocated(n))))
<1> DEFINE c == ProfileOf(Candidate)
           nb == Colocated(n)
<1>1. StoreOK /\ score[n].result = Score(c, nb)
  BY DEF IInv, QuietOK
<1>2. c \in RuntimeProfile
  BY <1>1, ProfileOfType, ProfileTypes
<1>3. IsFiniteSet(DOMAIN nb) /\ \A w \in DOMAIN nb : nb[w] \in RuntimeProfile
  BY <1>1, ColocatedType
<1> HIDE DEF c, nb
<1>4. /\ Total(c, nb) \in Int /\ Dampened(c, nb) \in Int
      /\ Score(c, nb) = Round(Clamp(Points(100) - Dampened(c, nb)))
  BY <1>2, <1>3, ScoreForm
<1> QED
  BY <1>1, <1>2, <1>4 DEF c, nb

\* The penalty is the closed form.
LEMMA DampenedIsReference ==
    ASSUME StoreOK, NEW n
    PROVE  Dampened(ProfileOf(Candidate), Colocated(n)) = Reference(n)
<1> DEFINE c == ProfileOf(Candidate)
           nb == Colocated(n)
           N == Noisy(n)
           k == Pressure(Assumed(c))
           q == Quarters(Assumed(c).Confidence)
           f == Penalties(c, nb)
           g == [w \in N |-> Pressure(store[w])]
           h == [w \in N |-> store[w].CacheMissRate * WeightCache]
<1>1. c \in RuntimeProfile
  BY ProfileOfType, ProfileTypes
<1>2. Known(nb) = N /\ N \subseteq DOMAIN nb /\ IsFiniteSet(DOMAIN nb)
  BY ColocatedType DEF Noisy
<1>3. IsFiniteSet(N) /\ Cardinality(N) \in Nat
  BY <1>2, FS_Subset, FS_CardinalityType
<1>4. Assumed(c) \in RuntimeProfile /\ k \in Int /\ q \in Int
  BY <1>1, AssumedType, PenaltySplit
<1>5. ASSUME NEW w \in N
      PROVE  g[w] \in Int /\ h[w] \in Int /\ f[w] = k + g[w] + h[w]
  <2>1. store[w] \in RuntimeProfile /\ nb[w] = store[w]
    BY <1>2, ColocatedType
  <2>2. f[w] = Penalty(Assumed(c), store[w])
    BY <1>2, <2>1 DEF Penalties
  <2> HIDE DEF c
  <2> QED
    BY <1>4, <2>1, <2>2, PenaltySplit
<1>6. Reference(n) = q * (Cardinality(N) * k + Sum(g, N) + Sum(h, N))
  <2>1. /\ k = IF c.Confidence = "UNKNOWN" THEN 0 ELSE Pressure(c)
        /\ q = CASE c.Confidence = "LOW" -> 1 [] c.Confidence = "MEDIUM" -> 3 [] OTHER -> 4
    BY <1>1, AssumedType
  <2>2. Sum(g, N) = SumFunction(g) /\ Sum(h, N) = SumFunction(h)
    BY DEF Sum, SumFunction
  <2> HIDE DEF k, q
  <2> QED
    BY <2>1, <2>2 DEF Reference
<1>7. Dampened(c, nb) = Sum(f, N) * q
  BY <1>2 DEF Dampened, Total
<1> HIDE DEF c, nb, N, k, q, f, g, h
<1>8. Sum(f, N) = Cardinality(N) * k + Sum(g, N) + Sum(h, N)
  BY <1>3, <1>4, <1>5, SumLinear
<1>9. Sum(f, N) \in Int
  <2>1. \A w \in N : f[w] \in Int
    BY <1>4, <1>5
  <2> QED
    BY <1>3, <2>1, SumType
<1> DEFINE t == Sum(f, N)
<1>10. Dampened(c, nb) = t * q /\ Reference(n) = q * t /\ t \in Int
  BY <1>6, <1>7, <1>8, <1>9
<1> HIDE DEF t
<1>11. t * q = q * t
  BY <1>4, <1>10
<1> QED
  BY <1>10, <1>11 DEF c, nb

\* A quiet cycle's score is the closed form, rounded: for every set of workloads,
\* nodes and profiles and all weights.
THEOREM ScoreIsReferenceCorrect == Spec => []ScoreIsReference
<1>1. ASSUME IInv PROVE ScoreIsReference
  <2> SUFFICES ASSUME quiet, NEW n \in Nodes, Answered(n)
               PROVE  LET exact == Points(100) - Reference(n)
                          got   == Points(score[n].result)
                      IN  \/ exact <= 0 /\ got = 0
                          \/ exact >= Points(100) /\ got = Points(100)
                          \/ 2 * (got - exact) <= Points(1) /\ 2 * (exact - got) <= Points(1)
    BY DEF ScoreIsReference
  <2> DEFINE e == Points(100) - Reference(n)
  <2>1. score[n].result = Round(Clamp(e)) /\ Reference(n) \in Int
    BY <1>1, QuietScore, DampenedIsReference DEF IInv
  <2>2. e \in Int
    BY <2>1, Scale
  <2> HIDE DEF e
  <2>3. LET got == Points(Round(Clamp(e)))
        IN  \/ e <= 0 /\ got = 0
            \/ e >= Points(100) /\ got = Points(100)
            \/ 2 * (got - e) <= Points(1) /\ 2 * (e - got) <= Points(1)
    BY <2>2, RoundClampExact
  <2> QED
    BY <2>1, <2>3 DEF e
<1> QED
  BY <1>1, Invariance, PTL

\* More noisy neighbours never raise a quiet cycle's score.
THEOREM NoisierNeverBetterCorrect == Spec => []NoisierNeverBetter
<1>1. ASSUME IInv PROVE NoisierNeverBetter
  <2> SUFFICES ASSUME quiet, NEW m \in Nodes, NEW n \in Nodes, Answered(m), Answered(n),
                      Noisy(m) \subseteq Noisy(n),
                      \A w \in Noisy(n) \cup {Candidate} : NonNegative(ProfileOf(w))
               PROVE  score[m].result >= score[n].result
    BY DEF NoisierNeverBetter
  <2> DEFINE c == ProfileOf(Candidate)
             q == Quarters(Assumed(c).Confidence)
             M == Noisy(m)
             N == Noisy(n)
             f == Penalties(c, Colocated(m))
             g == Penalties(c, Colocated(n))
             a == Total(c, Colocated(m))
             b == Total(c, Colocated(n))
  <2>1. /\ c \in RuntimeProfile /\ a \in Int /\ b \in Int
        /\ score[m].result = Round(Clamp(Points(100) - a * q))
        /\ score[n].result = Round(Clamp(Points(100) - b * q))
    BY <1>1, QuietScore DEF Dampened
  <2>2. /\ Known(Colocated(m)) = M /\ Known(Colocated(n)) = N
        /\ M \subseteq DOMAIN Colocated(m) /\ N \subseteq DOMAIN Colocated(n)
    BY <1>1, ColocatedType DEF IInv, Noisy
  <2>3. IsFiniteSet(N) /\ M \in SUBSET N
    BY <1>1, <2>2, ColocatedType, FS_Subset DEF IInv
  <2>4. ASSUME NEW w \in N PROVE g[w] \in Nat /\ (w \in M => f[w] = g[w])
    <3>1. /\ w \in DOMAIN store /\ Colocated(n)[w] = store[w] /\ store[w] \in RuntimeProfile
          /\ w \in M => Colocated(m)[w] = store[w]
      BY <1>1, <2>2, ColocatedType DEF IInv
    <3>2. g[w] = Penalty(Assumed(c), store[w]) /\ (w \in M => f[w] = g[w])
      BY <2>2, <3>1 DEF Penalties
    <3>3. NonNegative(store[w]) /\ NonNegative(c)
      BY <3>1 DEF ProfileOf
    <3> HIDE DEF c
    <3>4. NonNegative(Assumed(c)) /\ Assumed(c) \in RuntimeProfile
      BY <2>1, <3>3, AssumedType
    <3>5. Penalty(Assumed(c), store[w]) \in Int /\ Penalty(Assumed(c), store[w]) >= 0
      BY <3>1, <3>3, <3>4, PenaltySplit
    <3> QED
      BY <3>2, <3>5
  <2>5. a = Sum(f, M) /\ b = Sum(g, N)
    BY <2>2 DEF Total
  <2>6. a <= b
    <3> HIDE DEF M, N, f, g
    <3>1. Sum(f, M) <= Sum(g, N)
      BY <2>3, <2>4, SumMonotone
    <3> QED
      BY <2>5, <3>1
  <2>7. q \in Nat
    BY <2>1, AssumedType
  <2> HIDE DEF a, b, c, q
  <2>8. a * q \in Int /\ b * q \in Int /\ a * q <= b * q
    <3>1. b - a \in Nat /\ (b - a) * q >= 0
      BY <2>1, <2>6, <2>7
    <3>2. (b - a) * q = b * q - a * q
      BY <2>1, <2>7
    <3> QED
      BY <2>1, <2>7, <3>1, <3>2
  <2> DEFINE x == Points(100) - a * q
             y == Points(100) - b * q
  <2>9. x \in Int /\ y \in Int /\ y <= x
    BY <2>8, Scale
  <2> HIDE DEF x, y
  <2>10. Round(Clamp(y)) <= Round(Clamp(x))
    BY <2>9, RoundClampMonotone
  <2>11. Round(Clamp(x)) \in Int /\ Round(Clamp(y)) \in Int
    BY <2>9, ClampType, RoundRange
  <2> QED
    BY <2>1, <2>10, <2>11 DEF x, y
<1> QED
  BY <1>1, Invariance, PTL
=============================================================================
