------------------------ MODULE RoundSequence_proofs ------------------------
(***************************************************************************)
(* What a round's evaluation guarantees for any finite set of edges and    *)
(* any integer readings.  The argument is the overlap of majorities: a     *)
(* source edge is compatible with a majority counting itself, and two      *)
(* majorities share an edge.                                               *)
(*                                                                         *)
(* With up to four edges a source is far from at most one other, which     *)
(* bounds the distance of the average from it, and an excluded edge is no  *)
(* edge another one needs.  Means are rounded sums, so the first section   *)
(* proves about sums what those arguments use.  Scores are rounded twice,  *)
(* and a rounded quotient grows with the dividend and falls with the       *)
(* divisor, whichever way ties go.                                         *)
(***************************************************************************)
EXTENDS RoundSequence, FiniteSetTheorems, WellFoundedInduction, TLAPS

-----------------------------------------------------------------------------
(* Sums over finite sets.  SumOver is a fold, and what a fold computes is  *)
(* shown by induction: over the naturals as the absence of a least counter-*)
(* example (WFMin), and from there over the subsets of a finite set.       *)

(* Every non-empty set of naturals has a least element. *)
LEMMA LeastElement ==
  ASSUME NEW T \in SUBSET Nat, T # {}
  PROVE  \E n \in T : \A m \in T : n <= m
<1>1. \E n \in T : \A m \in T : ~ (<<m, n>> \in OpToRel(<, Nat))
  BY NatLessThanWellFounded, WFMin, Zenon
<1>2. \A m, n \in Nat : <<m, n>> \in OpToRel(<, Nat) <=> m < n
  BY DEF OpToRel
<1>3. PICK n \in T : \A m \in T : ~ (<<m, n>> \in OpToRel(<, Nat))
  BY <1>1
<1>4. ASSUME NEW m \in T PROVE n <= m
  <2>1. m \in Nat /\ n \in Nat
    OBVIOUS
  <2>2. ~ (m < n)
    BY <1>2, <1>3, <2>1
  <2>3. QED BY <2>1, <2>2
<1>5. QED BY <1>4

(* Induction over the subsets of a finite set: a set C of them that has T  *)
(* whenever it has T without any one of its elements has them all.         *)
LEMMA SubsetInduction ==
  ASSUME NEW S, IsFiniteSet(S), NEW C,
         ASSUME NEW T \in SUBSET S, \A x \in T : T \ {x} \in C
         PROVE  T \in C
  PROVE  \A T \in SUBSET S : T \in C
<1> DEFINE Missed == {T \in SUBSET S : T \notin C}
           Sizes == {Cardinality(T) : T \in Missed}
<1>1. SUFFICES ASSUME Missed # {} PROVE FALSE
  OBVIOUS
<1>2. \A T \in SUBSET S : IsFiniteSet(T) /\ Cardinality(T) \in Nat
  BY FS_Subset, FS_CardinalityType
<1>3. Sizes \in SUBSET Nat /\ Sizes # {}
  BY <1>1, <1>2
<1>4. PICK T \in Missed : \A U \in Missed : Cardinality(T) <= Cardinality(U)
  <2> HIDE DEF Missed
  <2>1. PICK n \in Sizes : \A m \in Sizes : n <= m
    BY <1>3, LeastElement
  <2>2. QED BY <2>1
<1>5. ASSUME NEW x \in T PROVE T \ {x} \in C
  <2>1. /\ T \ {x} \in SUBSET S
        /\ Cardinality(T \ {x}) = Cardinality(T) - 1
    BY <1>2, FS_RemoveElement
  <2>2. ~ (Cardinality(T) <= Cardinality(T) - 1)
    BY <1>2
  <2>3. QED BY <1>4, <2>1, <2>2
<1>6. QED BY <1>5

-----------------------------------------------------------------------------
AnyOf(s) == CHOOSE x \in s : TRUE

(* g computes the sums of f over the sets of D. *)
Sums(f, D, g) ==
  g = [s \in D |-> IF s = {} THEN 0 ELSE f[AnyOf(s)] + g[s \ {AnyOf(s)}]]

SumFunctionOf(f, S) == CHOOSE g : Sums(f, SUBSET S, g)

LEMMA SumIsFold ==
  ASSUME NEW f, NEW S
  PROVE  SumOver(f, S) = SumFunctionOf(f, S)[S]
BY DEF SumOver, FoldFunctionOnSet, MapThenFoldSet, SumFunctionOf, Sums, AnyOf

LEMMA AnyOfIsMember == \A s : s # {} => AnyOf(s) \in s
  BY DEF AnyOf

(* Smaller than n elements. *)
Below(S, n) == {s \in SUBSET S : Cardinality(s) < n}

LEMMA SumsExist ==
  ASSUME NEW f, NEW S, IsFiniteSet(S)
  PROVE  \E g : Sums(f, SUBSET S, g)
<1> DEFINE Without == {n \in Nat : ~ \E g : Sums(f, Below(S, n), g)}
<1>1. \A s \in SUBSET S : IsFiniteSet(s) /\ Cardinality(s) \in Nat
  BY FS_Subset, FS_CardinalityType
<1>2. Without = {}
  <2> SUFFICES ASSUME Without # {} PROVE FALSE
    OBVIOUS
  <2>1. PICK n \in Without : \A m \in Without : n <= m
    BY LeastElement
  <2>2. n # 0
    <3>1. Below(S, 0) = {}
      BY <1>1 DEF Below
    <3>2. Sums(f, Below(S, 0), [s \in {} |-> 0])
      BY <3>1 DEF Sums
    <3>3. QED BY <3>2
  <2>3. n - 1 \in Nat /\ n - 1 \notin Without
    BY <2>1, <2>2
  <2>4. PICK g : Sums(f, Below(S, n - 1), g)
    BY <2>3
  <2> DEFINE h == [s \in Below(S, n) |->
                     IF s = {} THEN 0 ELSE f[AnyOf(s)] + g[s \ {AnyOf(s)}]]
  <2>5. ASSUME NEW s \in Below(S, n - 1)
        PROVE  s \in Below(S, n) /\ h[s] = g[s]
    <3>1. s \in SUBSET S /\ Cardinality(s) \in Nat /\ Cardinality(s) < n - 1
      BY <1>1 DEF Below
    <3>2. n \in Nat
      OBVIOUS
    <3>3. s \in Below(S, n)
      BY <3>1, <3>2 DEF Below
    <3>4. g[s] = IF s = {} THEN 0 ELSE f[AnyOf(s)] + g[s \ {AnyOf(s)}]
      BY <2>4 DEF Sums
    <3>5. QED BY <3>3, <3>4
  <2>6. ASSUME NEW s \in Below(S, n), s # {}
        PROVE  s \ {AnyOf(s)} \in Below(S, n - 1)
    <3>1. AnyOf(s) \in s /\ s \in SUBSET S /\ Cardinality(s) < n
      BY <2>6, AnyOfIsMember DEF Below
    <3>2. Cardinality(s \ {AnyOf(s)}) = Cardinality(s) - 1
      BY <1>1, <3>1, FS_RemoveElement
    <3>3. QED BY <1>1, <2>3, <3>1, <3>2 DEF Below
  <2>7. h = [s \in Below(S, n) |-> IF s = {} THEN 0 ELSE f[AnyOf(s)] + h[s \ {AnyOf(s)}]]
    <3>1. \A s \in Below(S, n) : s # {} => g[s \ {AnyOf(s)}] = h[s \ {AnyOf(s)}]
      BY <2>5, <2>6
    <3>2. QED BY <3>1
  <2> HIDE DEF h
  <2>8. Sums(f, Below(S, n), h)
    BY <2>7 DEF Sums
  <2>9. QED BY <2>1, <2>8
<1>3. Cardinality(S) + 1 \in Nat
  BY <1>1
<1>4. Below(S, Cardinality(S) + 1) = SUBSET S
  BY <1>1, FS_Subset DEF Below
<1>5. PICK g : Sums(f, Below(S, Cardinality(S) + 1), g)
  BY <1>2, <1>3
<1>6. QED BY <1>4, <1>5

LEMMA SumEquation ==
  ASSUME NEW f, NEW S, IsFiniteSet(S)
  PROVE  Sums(f, SUBSET S, SumFunctionOf(f, S))
BY SumsExist DEF SumFunctionOf

(* The sum over a subset does not depend on the set it is a subset of. *)
LEMMA SumOfSubset ==
  ASSUME NEW f, NEW S, IsFiniteSet(S), NEW T \in SUBSET S
  PROVE  SumFunctionOf(f, S)[T] = SumOver(f, T)
<1> DEFINE g == SumFunctionOf(f, S)  h == SumFunctionOf(f, T)
           C == {U \in SUBSET T : g[U] = h[U]}
<1>1. IsFiniteSet(T)
  BY FS_Subset
<1>2. Sums(f, SUBSET S, g) /\ Sums(f, SUBSET T, h)
  BY <1>1, SumEquation
<1> HIDE DEF g, h
<1>3. ASSUME NEW U \in SUBSET T, \A x \in U : U \ {x} \in C
      PROVE  U \in C
  <2>1. U \in SUBSET S
    OBVIOUS
  <2>2. g[U] = IF U = {} THEN 0 ELSE f[AnyOf(U)] + g[U \ {AnyOf(U)}]
    BY <1>2, <2>1 DEF Sums
  <2>3. h[U] = IF U = {} THEN 0 ELSE f[AnyOf(U)] + h[U \ {AnyOf(U)}]
    BY <1>2 DEF Sums
  <2>4. U # {} => g[U \ {AnyOf(U)}] = h[U \ {AnyOf(U)}]
    BY <1>3, AnyOfIsMember
  <2>5. QED BY <2>2, <2>3, <2>4
<1> HIDE DEF C
<1>4. \A U \in SUBSET T : U \in C
  BY <1>1, <1>3, SubsetInduction
<1>5. T \in C
  BY <1>4
<1>6. QED BY <1>5, SumIsFold DEF C, g, h

(* The first summand is that of an arbitrary member. *)
LEMMA SumUnfolds ==
  ASSUME NEW f, NEW S, IsFiniteSet(S)
  PROVE  SumOver(f, S) = IF S = {} THEN 0
                         ELSE f[AnyOf(S)] + SumOver(f, S \ {AnyOf(S)})
<1> DEFINE g == SumFunctionOf(f, S)
<1>1. Sums(f, SUBSET S, g) /\ SumOver(f, S) = g[S]
  BY SumEquation, SumIsFold
<1>2. \A T \in SUBSET S : g[T] = SumOver(f, T)
  BY SumOfSubset
<1> HIDE DEF g
<1>3. g[S] = IF S = {} THEN 0 ELSE f[AnyOf(S)] + g[S \ {AnyOf(S)}]
  BY <1>1 DEF Sums
<1>4. QED BY <1>1, <1>2, <1>3

LEMMA SumIsInteger ==
  ASSUME NEW f, NEW S, IsFiniteSet(S), \A x \in S : f[x] \in Int
  PROVE  SumOver(f, S) \in Int
<1> DEFINE C == {T \in SUBSET S : SumOver(f, T) \in Int}
<1>1. ASSUME NEW T \in SUBSET S, \A x \in T : T \ {x} \in C
      PROVE  T \in C
  <2>1. IsFiniteSet(T)
    BY FS_Subset
  <2>2. SumOver(f, T) = IF T = {} THEN 0 ELSE f[AnyOf(T)] + SumOver(f, T \ {AnyOf(T)})
    BY <2>1, SumUnfolds
  <2>3. QED BY <1>1, <2>2, AnyOfIsMember
<1> HIDE DEF C
<1>2. \A T \in SUBSET S : T \in C
  BY <1>1, SubsetInduction
<1>3. QED BY <1>2 DEF C

(* A sum may begin with any of its summands. *)
LEMMA SumRemoves ==
  ASSUME NEW f, NEW S, IsFiniteSet(S), \A x \in S : f[x] \in Int, NEW y \in S
  PROVE  SumOver(f, S) = f[y] + SumOver(f, S \ {y})
<1> DEFINE C == {T \in SUBSET S : \A x \in T : SumOver(f, T) = f[x] + SumOver(f, T \ {x})}
<1>1. ASSUME NEW T \in SUBSET S, \A x \in T : T \ {x} \in C
      PROVE  T \in C
  <2> SUFFICES ASSUME NEW x \in T PROVE SumOver(f, T) = f[x] + SumOver(f, T \ {x})
    OBVIOUS
  <2> DEFINE p == AnyOf(T)  R == (T \ {p}) \ {x}
  <2>1. IsFiniteSet(T) /\ IsFiniteSet(T \ {x}) /\ IsFiniteSet(R)
    BY FS_Subset
  <2>2. p \in T /\ SumOver(f, T) = f[p] + SumOver(f, T \ {p})
    BY <2>1, SumUnfolds, AnyOfIsMember
  <2> HIDE DEF p
  <2>3. CASE x = p
    BY <2>2, <2>3
  <2>4. CASE x # p
    <3>1. SumOver(f, T \ {p}) = f[x] + SumOver(f, R)
      BY <1>1, <2>2, <2>4
    <3>2. SumOver(f, T \ {x}) = f[p] + SumOver(f, (T \ {x}) \ {p})
      BY <1>1, <2>2, <2>4
    <3>3. (T \ {x}) \ {p} = R
      OBVIOUS
    <3>4. SumOver(f, R) \in Int /\ f[x] \in Int /\ f[p] \in Int
      BY <2>1, <2>2, SumIsInteger
    <3>5. ASSUME NEW a \in Int, NEW b \in Int, NEW c \in Int
          PROVE  a + (b + c) = b + (a + c)
      OBVIOUS
    <3>6. f[p] + (f[x] + SumOver(f, R)) = f[x] + (f[p] + SumOver(f, R))
      BY <3>4, <3>5
    <3>7. QED BY <2>2, <3>1, <3>2, <3>3, <3>6
  <2>5. QED BY <2>3, <2>4
<1> HIDE DEF C
<1>2. \A T \in SUBSET S : T \in C
  BY <1>1, SubsetInduction
<1>3. QED BY <1>2 DEF C

LEMMA SumIsNatural ==
  ASSUME NEW f, NEW S, IsFiniteSet(S), \A x \in S : f[x] \in Nat
  PROVE  SumOver(f, S) \in Nat
<1> DEFINE C == {T \in SUBSET S : SumOver(f, T) \in Nat}
<1>1. ASSUME NEW T \in SUBSET S, \A x \in T : T \ {x} \in C
      PROVE  T \in C
  <2>1. SumOver(f, T) = IF T = {} THEN 0 ELSE f[AnyOf(T)] + SumOver(f, T \ {AnyOf(T)})
    BY FS_Subset, SumUnfolds
  <2>2. QED BY <1>1, <2>1, AnyOfIsMember
<1> HIDE DEF C
<1>2. \A T \in SUBSET S : T \in C
  BY <1>1, SubsetInduction
<1>3. QED BY <1>2 DEF C

(* A sum of summands of at most b. *)
LEMMA SumBounded ==
  ASSUME NEW f, NEW S, IsFiniteSet(S), NEW b \in Int,
         \A x \in S : f[x] \in Int /\ f[x] <= b
  PROVE  SumOver(f, S) <= Cardinality(S) * b
<1> DEFINE C == {T \in SUBSET S : SumOver(f, T) <= Cardinality(T) * b}
<1>1. ASSUME NEW T \in SUBSET S, \A x \in T : T \ {x} \in C
      PROVE  T \in C
  <2> DEFINE p == AnyOf(T)  U == T \ {p}
  <2>1. IsFiniteSet(T) /\ IsFiniteSet(U)
    BY FS_Subset
  <2>2. CASE T = {}
    <3>1. SumOver(f, T) = 0 /\ Cardinality(T) = 0
      BY <2>1, <2>2, SumUnfolds, FS_EmptySet
    <3>2. QED BY <3>1
  <2>3. CASE T # {}
    <3>1. p \in T /\ SumOver(f, T) = f[p] + SumOver(f, U)
      BY <2>1, <2>3, SumUnfolds, AnyOfIsMember
    <3>2. Cardinality(T) \in Nat /\ Cardinality(U) = Cardinality(T) - 1
      BY <2>1, <3>1, FS_RemoveElement, FS_CardinalityType
    <3>3. SumOver(f, U) <= Cardinality(U) * b
      BY <1>1, <3>1
    <3>4. SumOver(f, U) \in Int /\ f[p] \in Int /\ f[p] <= b
      BY <2>1, <3>1, SumIsInteger
    <3>5. ASSUME NEW k \in Int, NEW u \in Int, NEW w \in Int, u <= (k - 1) * b, w <= b
          PROVE  w + u <= k * b
      BY <3>5
    <3> HIDE DEF U, p
    <3>6. SumOver(f, T) <= Cardinality(T) * b
      BY <3>1, <3>2, <3>3, <3>4, <3>5
    <3>7. QED BY <3>6
  <2>4. QED BY <2>2, <2>3
<1> HIDE DEF C
<1>2. \A T \in SUBSET S : T \in C
  BY <1>1, SubsetInduction
<1>3. QED BY <1>2 DEF C

(* A sum is no further from as many times v as its summands are from v.    *)
LEMMA SumNear ==
  ASSUME NEW f, NEW d, NEW S, IsFiniteSet(S), NEW v \in Int,
         \A x \in S : f[x] \in Int /\ d[x] = AbsDiff(f[x], v)
  PROVE  AbsDiff(SumOver(f, S), Cardinality(S) * v) <= SumOver(d, S)
<1> DEFINE C == {T \in SUBSET S :
                   AbsDiff(SumOver(f, T), Cardinality(T) * v) <= SumOver(d, T)}
<1>0. \A x \in S : d[x] \in Int
  BY DEF AbsDiff
<1>1. ASSUME NEW T \in SUBSET S, \A x \in T : T \ {x} \in C
      PROVE  T \in C
  <2> DEFINE p == AnyOf(T)  U == T \ {p}
  <2>1. IsFiniteSet(T) /\ IsFiniteSet(U)
    BY FS_Subset
  <2>2. CASE T = {}
    <3>1. SumOver(f, T) = 0 /\ Cardinality(T) = 0 /\ SumOver(d, T) = 0
      BY <2>1, <2>2, SumUnfolds, FS_EmptySet
    <3>2. QED BY <3>1 DEF AbsDiff
  <2>3. CASE T # {}
    <3>1. /\ p \in T
          /\ SumOver(f, T) = f[p] + SumOver(f, U)
          /\ SumOver(d, T) = d[p] + SumOver(d, U)
      BY <2>1, <2>3, SumUnfolds, AnyOfIsMember
    <3>2. Cardinality(T) \in Nat /\ Cardinality(U) = Cardinality(T) - 1
      BY <2>1, <3>1, FS_RemoveElement, FS_CardinalityType
    <3>3. AbsDiff(SumOver(f, U), Cardinality(U) * v) <= SumOver(d, U)
      BY <1>1, <3>1
    <3>4. /\ SumOver(f, U) \in Int /\ SumOver(d, U) \in Int
          /\ f[p] \in Int /\ d[p] = AbsDiff(f[p], v)
      BY <1>0, <2>1, <3>1, SumIsInteger
    <3>5. ASSUME NEW k \in Int, NEW m \in Int, NEW F \in Int, NEW D \in Int, NEW w \in Int,
                 AbsDiff(F, m) <= D, k = m + v
          PROVE  AbsDiff(w + F, k) <= AbsDiff(w, v) + D
      BY <3>5 DEF AbsDiff
    <3>6. /\ Cardinality(T) * v \in Int /\ Cardinality(U) * v \in Int
          /\ Cardinality(T) * v = Cardinality(U) * v + v
      BY <3>2
    <3> HIDE DEF U, p
    <3>7. AbsDiff(f[p] + SumOver(f, U), Cardinality(T) * v) <= AbsDiff(f[p], v) + SumOver(d, U)
      BY <3>3, <3>4, <3>5, <3>6
    <3>8. QED BY <3>1, <3>4, <3>7
  <2>4. QED BY <2>2, <2>3
<1> HIDE DEF C
<1>2. \A T \in SUBSET S : T \in C
  BY <1>1, SubsetInduction
<1>3. QED BY <1>2 DEF C

(* The sum of the distances is the weighted sum of the sensors' sums.      *)
LEMMA SumWeighted ==
  ASSUME NEW d, NEW t, NEW p, NEW r, NEW S, IsFiniteSet(S),
         \A x \in S : /\ t[x] \in Int /\ p[x] \in Int /\ r[x] \in Int
                      /\ d[x] = 30 * t[x] + 200 * p[x] + r[x]
  PROVE  SumOver(d, S) = 30 * SumOver(t, S) + 200 * SumOver(p, S) + SumOver(r, S)
<1> DEFINE C == {T \in SUBSET S : SumOver(d, T) =
                   30 * SumOver(t, T) + 200 * SumOver(p, T) + SumOver(r, T)}
<1>1. ASSUME NEW T \in SUBSET S, \A x \in T : T \ {x} \in C
      PROVE  T \in C
  <2> DEFINE x == AnyOf(T)  U == T \ {x}
  <2>1. IsFiniteSet(T) /\ IsFiniteSet(U)
    BY FS_Subset
  <2>2. CASE T = {}
    <3>1. SumOver(d, T) = 0 /\ SumOver(t, T) = 0 /\ SumOver(p, T) = 0 /\ SumOver(r, T) = 0
      BY <2>1, <2>2, SumUnfolds
    <3>2. QED BY <3>1
  <2>3. CASE T # {}
    <3>1. /\ x \in T
          /\ SumOver(d, T) = d[x] + SumOver(d, U)
          /\ SumOver(t, T) = t[x] + SumOver(t, U)
          /\ SumOver(p, T) = p[x] + SumOver(p, U)
          /\ SumOver(r, T) = r[x] + SumOver(r, U)
      BY <2>1, <2>3, SumUnfolds, AnyOfIsMember
    <3>2. /\ SumOver(t, U) \in Int /\ SumOver(p, U) \in Int /\ SumOver(r, U) \in Int
          /\ t[x] \in Int /\ p[x] \in Int /\ r[x] \in Int
          /\ d[x] = 30 * t[x] + 200 * p[x] + r[x]
      BY <2>1, <3>1, SumIsInteger
    <3>3. SumOver(d, U) = 30 * SumOver(t, U) + 200 * SumOver(p, U) + SumOver(r, U)
      BY <1>1, <3>1
    <3> HIDE DEF U, x
    <3>4. SumOver(d, T) = 30 * SumOver(t, T) + 200 * SumOver(p, T) + SumOver(r, T)
      BY <3>1, <3>2, <3>3
    <3>5. QED BY <3>4
  <2>4. QED BY <2>2, <2>3
<1> HIDE DEF C
<1>2. \A T \in SUBSET S : T \in C
  BY <1>1, SubsetInduction
<1>3. QED BY <1>2 DEF C

-----------------------------------------------------------------------------
(* Distances and majorities. *)

(* Complete views, the inputs the distances are defined on. *)
CompleteView == [Sensor -> Int]

LEMMA DistanceTriangle ==
  ASSUME NEW a \in CompleteView, NEW b \in CompleteView, NEW c \in CompleteView
  PROVE  PairDistance(a, c) <= PairDistance(a, b) + PairDistance(b, c)
<1> DEFINE T == "temperature"  P == "pressure"  R == "rpm"
<1>1. /\ a.temperature \in Int /\ b.temperature \in Int /\ c.temperature \in Int
      /\ a.pressure \in Int /\ b.pressure \in Int /\ c.pressure \in Int
      /\ a.rpm \in Int /\ b.rpm \in Int /\ c.rpm \in Int
  BY DEF CompleteView, Sensor
<1>2. ASSUME NEW x \in Int, NEW y \in Int, NEW z \in Int
      PROVE  /\ AbsDiff(x, z) <= AbsDiff(x, y) + AbsDiff(y, z)
             /\ AbsDiff(x, y) \in Int
  BY DEF AbsDiff
<1>3. Weight.temperature = 30 /\ Weight.pressure = 200 /\ Weight.rpm = 1
  BY DEF Weight
<1>4. /\ AbsDiff(a.temperature, c.temperature)
           <= AbsDiff(a.temperature, b.temperature) + AbsDiff(b.temperature, c.temperature)
      /\ AbsDiff(a.pressure, c.pressure)
           <= AbsDiff(a.pressure, b.pressure) + AbsDiff(b.pressure, c.pressure)
      /\ AbsDiff(a.rpm, c.rpm) <= AbsDiff(a.rpm, b.rpm) + AbsDiff(b.rpm, c.rpm)
      /\ AbsDiff(a.temperature, c.temperature) \in Int
      /\ AbsDiff(a.temperature, b.temperature) \in Int
      /\ AbsDiff(b.temperature, c.temperature) \in Int
      /\ AbsDiff(a.pressure, c.pressure) \in Int
      /\ AbsDiff(a.pressure, b.pressure) \in Int
      /\ AbsDiff(b.pressure, c.pressure) \in Int
      /\ AbsDiff(a.rpm, c.rpm) \in Int
      /\ AbsDiff(a.rpm, b.rpm) \in Int
      /\ AbsDiff(b.rpm, c.rpm) \in Int
  BY <1>1, <1>2
<1>5. QED BY <1>3, <1>4 DEF PairDistance

LEMMA DistanceSymmetric ==
  ASSUME NEW a \in CompleteView, NEW b \in CompleteView
  PROVE  /\ PairDistance(a, b) = PairDistance(b, a)
         /\ PairDistance(a, b) \in Int
         /\ PairDistance(a, a) = 0
<1>1. /\ a.temperature \in Int /\ b.temperature \in Int
      /\ a.pressure \in Int /\ b.pressure \in Int
      /\ a.rpm \in Int /\ b.rpm \in Int
  BY DEF CompleteView, Sensor
<1>2. Weight.temperature = 30 /\ Weight.pressure = 200 /\ Weight.rpm = 1
  BY DEF Weight
<1>3. ASSUME NEW x \in Int, NEW y \in Int
      PROVE  AbsDiff(x, y) = AbsDiff(y, x) /\ AbsDiff(x, y) \in Int /\ AbsDiff(x, x) = 0
  BY DEF AbsDiff
<1>4. /\ AbsDiff(a.temperature, b.temperature) = AbsDiff(b.temperature, a.temperature)
      /\ AbsDiff(a.pressure, b.pressure) = AbsDiff(b.pressure, a.pressure)
      /\ AbsDiff(a.rpm, b.rpm) = AbsDiff(b.rpm, a.rpm)
      /\ AbsDiff(a.temperature, a.temperature) = 0
      /\ AbsDiff(a.pressure, a.pressure) = 0
      /\ AbsDiff(a.rpm, a.rpm) = 0
      /\ AbsDiff(a.temperature, b.temperature) \in Int
      /\ AbsDiff(a.pressure, b.pressure) \in Int
      /\ AbsDiff(a.rpm, b.rpm) \in Int
  BY <1>1, <1>3
<1>5. QED BY <1>2, <1>4 DEF PairDistance

LEMMA DistanceNatural ==
  ASSUME NEW a \in CompleteView, NEW b \in CompleteView
  PROVE  PairDistance(a, b) \in Nat
<1>1. /\ a.temperature \in Int /\ b.temperature \in Int
      /\ a.pressure \in Int /\ b.pressure \in Int
      /\ a.rpm \in Int /\ b.rpm \in Int
  BY DEF CompleteView, Sensor
<1>2. \A x, y \in Int : AbsDiff(x, y) \in Nat
  BY DEF AbsDiff
<1>3. Weight.temperature = 30 /\ Weight.pressure = 200 /\ Weight.rpm = 1
  BY DEF Weight
<1>4. /\ AbsDiff(a.temperature, b.temperature) \in Nat
      /\ AbsDiff(a.pressure, b.pressure) \in Nat
      /\ AbsDiff(a.rpm, b.rpm) \in Nat
  BY <1>1, <1>2
<1>5. QED BY <1>3, <1>4 DEF PairDistance

LEMMA MajoritiesMeet ==
  ASSUME NEW E, IsFiniteSet(E), NEW A \in SUBSET E, NEW B \in SUBSET E,
         Cardinality(A) >= Quorum(E), Cardinality(B) >= Quorum(E)
  PROVE  A \cap B # {}
<1>1. IsFiniteSet(A) /\ IsFiniteSet(B)
  BY FS_Subset
<1>2. Cardinality(E) \in Nat /\ Cardinality(A) \in Nat /\ Cardinality(B) \in Nat
  BY <1>1, FS_CardinalityType
<1>3. Cardinality(A) + Cardinality(B) > Cardinality(E)
  BY <1>2 DEF Quorum
<1>4. QED BY <1>3, FS_MajoritiesIntersect

(* Each edge of a mutually compatible majority has that majority's support.*)
LEMMA MajorityStays ==
  ASSUME NEW E, IsFiniteSet(E), NEW v, NEW H \in SUBSET E,
         Cardinality(H) >= Quorum(E),
         \A e, f \in H : Compatible(v[e], v[f])
  PROVE  /\ H \subseteq ValidEdges(E, v)
         /\ Cardinality(ValidEdges(E, v)) >= Quorum(E)
<1>1. IsFiniteSet(H) /\ Cardinality(E) \in Nat
  BY FS_Subset, FS_CardinalityType
<1>2. ASSUME NEW e \in H PROVE e \in ValidEdges(E, v)
  <2> DEFINE P == CompatiblePeers(E, v, e)
  <2>1. H \ {e} \subseteq P /\ P \subseteq E
    BY DEF CompatiblePeers
  <2>2. Cardinality(H \ {e}) = Cardinality(H) - 1 /\ IsFiniteSet(H \ {e})
    BY <1>1, FS_RemoveElement
  <2>3. IsFiniteSet(P)
    BY <2>1, FS_Subset
  <2>4. Cardinality(H \ {e}) <= Cardinality(P)
    BY <2>1, <2>3, FS_Subset
  <2>5. Cardinality(P) \in Nat /\ Cardinality(H) \in Nat
    BY <1>1, <2>3, FS_CardinalityType
  <2>6. ~ (Cardinality(P) + 1 < Quorum(E))
    BY <1>1, <2>2, <2>4, <2>5 DEF Quorum
  <2> QED BY <2>6 DEF ValidEdges, Excluded
<1>3. H \subseteq ValidEdges(E, v) /\ ValidEdges(E, v) \subseteq E
  BY <1>2 DEF ValidEdges
<1>4. IsFiniteSet(ValidEdges(E, v))
  BY <1>3, FS_Subset
<1>5. Cardinality(H) <= Cardinality(ValidEdges(E, v))
  BY <1>3, <1>4, FS_Subset
<1>6. Cardinality(ValidEdges(E, v)) \in Nat /\ Cardinality(H) \in Nat
  BY <1>1, <1>4, FS_CardinalityType
<1> QED BY <1>1, <1>3, <1>5, <1>6 DEF Quorum

(* The edges that support e: e itself and its compatible peers. *)
Support(E, v, e) == {e} \cup CompatiblePeers(E, v, e)

(* A valid edge is supported by a majority. *)
LEMMA ValidEdgeHasMajority ==
  ASSUME NEW E, IsFiniteSet(E), NEW v, NEW e \in ValidEdges(E, v)
  PROVE  /\ Support(E, v, e) \in SUBSET E
         /\ Cardinality(Support(E, v, e)) >= Quorum(E)
<1> DEFINE P == CompatiblePeers(E, v, e)
<1>1. e \in E /\ P \subseteq E /\ e \notin P
  BY DEF ValidEdges, CompatiblePeers
<1>2. IsFiniteSet(P)
  BY <1>1, FS_Subset
<1>3. Cardinality(P \cup {e}) = Cardinality(P) + 1
  BY <1>1, <1>2, FS_AddElement
<1>4. ~ (Cardinality(P) + 1 < Quorum(E))
  BY DEF ValidEdges, Excluded
<1>5. Cardinality(P) \in Nat /\ Cardinality(E) \in Nat
  BY <1>2, FS_CardinalityType
<1>6. Cardinality(P) + 1 >= Quorum(E)
  BY <1>4, <1>5 DEF Quorum
<1>7. Support(E, v, e) = P \cup {e}
  BY DEF Support
<1>8. QED BY <1>1, <1>3, <1>6, <1>7

(* An edge and its supporters are within one compatibility limit. *)
LEMMA SupportIsCompatible ==
  ASSUME NEW E, NEW v, \A g \in E : v[g] \in CompleteView,
         NEW e \in E, NEW f \in Support(E, v, e)
  PROVE  f \in E /\ Compatible(v[e], v[f])
<1>1. v[e] \in CompleteView
  OBVIOUS
<1>2. CASE f = e
  BY <1>1, <1>2, DistanceSymmetric DEF Compatible, CompatibilityLimit
<1>3. CASE f \in CompatiblePeers(E, v, e)
  BY <1>3 DEF CompatiblePeers
<1>4. QED BY <1>2, <1>3 DEF Support

(* Of up to four edges a majority misses at most one. *)
LEMMA MajorityMissesOne ==
  ASSUME NEW E, IsFiniteSet(E), Cardinality(E) <= 4,
         NEW A \in SUBSET E, Cardinality(A) >= Quorum(E)
  PROVE  \E x : E \ A \subseteq {x}
<1>1. /\ Cardinality(E) \in Nat /\ Cardinality(A) \in Nat
      /\ IsFiniteSet(E \ A) /\ E \cap A = A
      /\ Cardinality(E \ A) = Cardinality(E) - Cardinality(E \cap A)
  BY FS_Subset, FS_CardinalityType, FS_Difference
<1>2. Cardinality(E \ A) = 0 \/ Cardinality(E \ A) = 1
  <2>1. /\ Cardinality(E \ A) \in Nat
        /\ Cardinality(E \ A) = Cardinality(E) - Cardinality(A)
    BY <1>1, FS_CardinalityType
  <2>2. ASSUME NEW n \in Nat, NEW a \in Nat, n <= 4, a >= (n \div 2) + 1, n - a \in Nat
        PROVE  n - a = 0 \/ n - a = 1
    <3>1. n = 0 \/ n = 1 \/ n = 2 \/ n = 3 \/ n = 4
      BY <2>2
    <3>2. QED BY <2>2, <3>1
  <2>3. QED BY <1>1, <2>1, <2>2 DEF Quorum
<1>3. QED BY <1>1, <1>2, FS_EmptySet, FS_Singleton

-----------------------------------------------------------------------------

(* The inductive invariant: the result is the evaluation of the views.     *)
Evaluated ==
  /\ edges \in SUBSET Edge /\ Encodable(edges)
  /\ view \in [edges -> Reading]
  /\ result = EvaluateRound(edges, view)

THEOREM EvaluatedInvariant == Spec => []Evaluated
<1>1. Init => Evaluated
  BY DEF Init, Evaluated
<1>2. Evaluated /\ [Next]_vars => Evaluated'
  <2> SUFFICES ASSUME Evaluated, [Next]_vars PROVE Evaluated'
    OBVIOUS
  <2>1. CASE UNCHANGED vars
    BY <2>1 DEF vars, Evaluated, EvaluateRound
  <2>2. ASSUME NEW e \in Edge, NEW reading \in Reading, NextRound(e, reading)
        PROVE Evaluated'
    BY <2>2 DEF NextRound, Evaluated, EvaluateRound
  <2>3. QED BY <2>1, <2>2 DEF Next
<1>3. QED BY <1>1, <1>2, PTL DEF Spec

LEMMA ParticipatingFinite ==
  ASSUME Evaluated
  PROVE  IsFiniteSet(edges) /\ Cardinality(edges) \in Nat
BY EdgeAssumption, FS_Subset, FS_CardinalityType DEF Evaluated

(* The fields of the result the properties speak of. *)
LEMMA ResultFields ==
  ASSUME Evaluated
  PROVE  /\ result.sources \in {{}, ValidEdges(edges, view)}
         /\ Cardinality(ValidEdges(edges, view)) >= Quorum(edges) =>
              /\ result.status = "success"
              /\ result.sources = ValidEdges(edges, view)
         /\ \A e \in edges : view[e] \in CompleteView
  BY ReadingAssumption DEF Evaluated, EvaluateRound, Result, ValidEdges, CompleteView

(* Two valid edges share a supporter, within a limit of both. *)
LEMMA ValidEdgesWithinTwoLimits ==
  ASSUME Evaluated, NEW e \in ValidEdges(edges, view), NEW f \in ValidEdges(edges, view)
  PROVE  PairDistance(view[e], view[f]) <= 2 * CompatibilityLimit
<1>1. IsFiniteSet(edges)
  BY ParticipatingFinite
<1>2. PICK g \in edges : g \in Support(edges, view, e) /\ g \in Support(edges, view, f)
  BY <1>1, ValidEdgeHasMajority, MajoritiesMeet
<1>3. e \in edges /\ f \in edges
  BY DEF ValidEdges
<1>4. /\ view[e] \in CompleteView /\ view[f] \in CompleteView
      /\ view[g] \in CompleteView
  BY <1>3, ResultFields
<1>5. /\ PairDistance(view[e], view[g]) <= CompatibilityLimit
      /\ PairDistance(view[f], view[g]) <= CompatibilityLimit
  BY <1>2, <1>3, ResultFields, SupportIsCompatible DEF Compatible
<1>6. PairDistance(view[g], view[f]) = PairDistance(view[f], view[g])
  BY <1>4, DistanceSymmetric
<1>7. PairDistance(view[e], view[f])
        <= PairDistance(view[e], view[g]) + PairDistance(view[g], view[f])
  BY <1>4, DistanceTriangle
<1>8. /\ PairDistance(view[e], view[f]) \in Int
      /\ PairDistance(view[e], view[g]) \in Int
      /\ PairDistance(view[g], view[f]) \in Int
  BY <1>4, DistanceSymmetric
<1>9. QED BY <1>5, <1>6, <1>7, <1>8 DEF CompatibilityLimit

(* evaluateRound keeps an edge that agrees with a majority, and agreement  *)
(* is not transitive: two source edges need not be compatible with each    *)
(* other.  But two majorities overlap, so any two edges whose values are   *)
(* averaged are at most two compatibility limits apart.                    *)
SourcesWithinTwoLimits ==
  \A e, f \in result.sources :
    PairDistance(view[e], view[f]) <= 2 * CompatibilityLimit

(* Two edges averaged into one consensused state are never more than two   *)
(* compatibility limits apart, for every number of edges.                  *)
THEOREM SourcesWithinTwoLimitsHold == Spec => []SourcesWithinTwoLimits
<1>1. Evaluated => SourcesWithinTwoLimits
  BY ResultFields, ValidEdgesWithinTwoLimits DEF SourcesWithinTwoLimits
<1>2. QED BY <1>1, EvaluatedInvariant, PTL

(* Whatever a minority of the edges reports, a majority of mutually        *)
(* compatible edges makes the round succeed and is wholly averaged in.     *)
THEOREM HonestMajorityPrevailsHolds == Spec => []HonestMajorityPrevails
<1>1. Evaluated => HonestMajorityPrevails
  <2> SUFFICES ASSUME Evaluated, NEW H \in SUBSET edges,
                      Cardinality(H) >= Quorum(edges),
                      \A e, f \in H : Compatible(view[e], view[f])
               PROVE  result.status = "success" /\ H \subseteq result.sources
    BY DEF HonestMajorityPrevails
  <2>1. /\ H \subseteq ValidEdges(edges, view)
        /\ Cardinality(ValidEdges(edges, view)) >= Quorum(edges)
    BY ParticipatingFinite, MajorityStays
  <2>2. QED BY <2>1, ResultFields
<1>2. QED BY <1>1, EvaluatedInvariant, PTL

(* An edge no majority supports is never averaged in: a source has to      *)
(* agree with some edge of every majority of mutually compatible edges.    *)
SourcesMeetEveryMajority ==
  \A e \in result.sources, H \in SUBSET edges :
    Cardinality(H) >= Quorum(edges)
      => \E f \in H : Compatible(view[e], view[f])

(* Every source edge agrees with some member of every majority, so no      *)
(* coalition smaller than a majority can carry an outlier into the state.  *)
THEOREM SourcesMeetEveryMajorityHolds == Spec => []SourcesMeetEveryMajority
<1>1. Evaluated => SourcesMeetEveryMajority
  <2> SUFFICES ASSUME Evaluated, NEW e \in result.sources, NEW H \in SUBSET edges,
                      Cardinality(H) >= Quorum(edges)
               PROVE  \E f \in H : Compatible(view[e], view[f])
    BY DEF SourcesMeetEveryMajority
  <2>1. e \in ValidEdges(edges, view) /\ e \in edges
    BY ResultFields DEF ValidEdges
  <2>2. PICK f \in edges : f \in Support(edges, view, e) /\ f \in H
    BY <2>1, ValidEdgeHasMajority, MajoritiesMeet, ParticipatingFinite
  <2>3. QED BY <2>1, <2>2, ResultFields, SupportIsCompatible
<1>2. QED BY <1>1, EvaluatedInvariant, PTL

-----------------------------------------------------------------------------
(* The two roundings of a quotient. *)

(* The rounded quotient is no further than half a divisor from it. *)
LEMMA NearestIsNear ==
  ASSUME NEW ties, NEW a \in Int, NEW b \in Int, b > 0
  PROVE  /\ Nearest(ties, a, b) \in Int
         /\ 2 * AbsDiff(b * Nearest(ties, a, b), a) <= b
<1> DEFINE q == a \div b  r == a % b  m == Nearest(ties, a, b)
<1>1. q \in Int /\ r \in Int /\ 0 <= r /\ r < b /\ a = b * q + r
  OBVIOUS
<1>2. \/ m = q + 1 /\ 2 * r >= b
      \/ m = q /\ 2 * r <= b
  BY <1>1 DEF Nearest
<1> HIDE DEF q, r, m
<1>3. CASE m = q + 1 /\ 2 * r >= b
  <2>1. b * m = b * q + b /\ b * q \in Int
    BY <1>1, <1>3
  <2>2. AbsDiff(b * m, a) = b - r
    BY <1>1, <2>1 DEF AbsDiff
  <2>3. m \in Int /\ 2 * (b - r) <= b
    BY <1>1, <1>3
  <2>4. QED BY <2>2, <2>3 DEF m
<1>4. CASE m = q /\ 2 * r <= b
  <2>1. b * m = b * q /\ b * q \in Int
    BY <1>1, <1>4
  <2>2. AbsDiff(b * m, a) = r
    BY <1>1, <2>1 DEF AbsDiff
  <2>3. QED BY <1>1, <1>4, <2>2 DEF m
<1>5. QED BY <1>2, <1>3, <1>4

(* Go and Python round to the same number or to neighbours, and as 749 is  *)
(* odd they agree whether it reaches the deviation of a suspected edge.    *)
LEMMA RoundingsAgree ==
  ASSUME NEW a \in Int, NEW b \in Int, b > 0
  PROVE  /\ AbsDiff(Nearest("even", a, b), Nearest("away", a, b)) <= 1
         /\ a >= 0 => (Nearest("even", a, b) >= ByzantineDeviation
                         <=> Nearest("away", a, b) >= ByzantineDeviation)
<1> DEFINE q == a \div b  r == a % b
           even == Nearest("even", a, b)  away == Nearest("away", a, b)
<1>1. q \in Int /\ r \in Int
  OBVIOUS
<1>2. even \in {q, q + 1} /\ away \in {q, q + 1}
  BY DEF Nearest
<1>3. a >= 0 /\ even # away => q % 2 # 1
  BY <1>1 DEF Nearest
<1> HIDE DEF q, r, even, away
<1>4. AbsDiff(even, away) <= 1
  BY <1>1, <1>2 DEF AbsDiff
<1>5. ASSUME a >= 0
      PROVE  even >= 750 <=> away >= 750
  <2>1. even = away \/ q # 749
    BY <1>3, <1>5
  <2>2. QED BY <1>1, <1>2, <2>1
<1>6. QED BY <1>4, <1>5 DEF even, away, ByzantineDeviation

(* A larger quotient is never rounded to a smaller number. *)
LEMMA NearestGrows ==
  ASSUME NEW ties, NEW a \in Int, NEW c \in Int, a <= c, NEW b \in Int, b > 0
  PROVE  Nearest(ties, a, b) <= Nearest(ties, c, b)
<1> DEFINE q == a \div b  r == a % b  p == c \div b  t == c % b
<1>1. /\ q \in Int /\ r \in Int /\ 0 <= r /\ r < b /\ a = b * q + r
      /\ p \in Int /\ t \in Int /\ 0 <= t /\ t < b /\ c = b * p + t
  OBVIOUS
<1>2. /\ Nearest(ties, a, b) \in {q, q + 1}
      /\ Nearest(ties, c, b) \in {p, p + 1}
  BY DEF Nearest
<1>3. q = p => r <= t
  <2> HIDE DEF q, r, p, t
  <2>1. QED BY <1>1
<1>4. CASE q = p
  <2>1. Nearest(ties, a, b) = q + 1 => Nearest(ties, c, b) = p + 1
    BY <1>1, <1>3, <1>4 DEF Nearest
  <2> HIDE DEF q, r, p, t
  <2>2. QED BY <1>1, <1>2, <1>4, <2>1
<1>5. CASE q < p
  <2> HIDE DEF q, r, p, t
  <2>1. QED BY <1>1, <1>2, <1>5
<1>6. ~ (q > p)
  <2> HIDE DEF q, r, p, t
  <2>1. SUFFICES ASSUME q > p PROVE FALSE
    OBVIOUS
  <2>2. b * (q - p) >= b /\ b * (q - p) = b * q - b * p
    BY <1>1, <2>1
  <2>3. b * q \in Int /\ b * p \in Int
    BY <1>1
  <2>4. QED BY <1>1, <2>2, <2>3
<1>7. QED BY <1>1, <1>4, <1>5, <1>6

(* Nor is that of a smaller divisor, when both are of a natural number. *)
LEMMA NearestShrinks ==
  ASSUME NEW ties, NEW a \in Nat, NEW b \in Int, b > 0, NEW c \in Int, b <= c
  PROVE  Nearest(ties, a, c) <= Nearest(ties, a, b)
<1> DEFINE q == a \div b  r == a % b  p == a \div c  t == a % c
<1>1. /\ q \in Int /\ r \in Int /\ 0 <= r /\ r < b /\ a = b * q + r
      /\ p \in Int /\ t \in Int /\ 0 <= t /\ t < c /\ a = c * p + t
  OBVIOUS
<1>2. /\ Nearest(ties, a, b) \in {q, q + 1}
      /\ Nearest(ties, a, c) \in {p, p + 1}
  BY DEF Nearest
<1>3. p >= 0
  <2> HIDE DEF q, r, p, t
  <2>1. SUFFICES ASSUME p <= -1 PROVE FALSE
    BY <1>1
  <2>2. c * (p + 1) <= 0 /\ c * (p + 1) = c * p + c /\ c * p \in Int
    BY <1>1, <2>1
  <2>3. QED BY <1>1, <2>2
<1>4. b * p <= c * p /\ b * p \in Int /\ c * p \in Int
  <2> HIDE DEF q, r, p, t
  <2>1. (c - b) * p >= 0 /\ (c - b) * p = c * p - b * p /\ b * p \in Int /\ c * p \in Int
    BY <1>1, <1>3
  <2>2. QED BY <2>1
<1>5. CASE q = p
  <2>1. t <= r
    <3> HIDE DEF q, r, p, t
    <3>1. QED BY <1>1, <1>4, <1>5
  <2>2. Nearest(ties, a, c) = p + 1 => Nearest(ties, a, b) = q + 1
    BY <1>1, <1>5, <2>1 DEF Nearest
  <2> HIDE DEF q, r, p, t
  <2>3. QED BY <1>1, <1>2, <1>5, <2>2
<1>6. CASE p < q
  <2> HIDE DEF q, r, p, t
  <2>1. QED BY <1>1, <1>2, <1>6
<1>7. ~ (p > q)
  <2> HIDE DEF q, r, p, t
  <2>1. SUFFICES ASSUME p > q PROVE FALSE
    OBVIOUS
  <2>2. b * (p - q) >= b /\ b * (p - q) = b * p - b * q /\ b * q \in Int
    BY <1>1, <2>1
  <2>3. QED BY <1>1, <1>4, <2>2
<1>8. QED BY <1>1, <1>5, <1>6, <1>7

LEMMA NearestOfNatural ==
  ASSUME NEW ties, NEW a \in Nat, NEW b \in Int, b > 0
  PROVE  Nearest(ties, a, b) \in Nat
<1> DEFINE m == Nearest(ties, a, b)
<1>1. m \in Int /\ 2 * AbsDiff(b * m, a) <= b
  BY NearestIsNear
<1> HIDE DEF m
<1>2. ASSUME m <= -1 PROVE FALSE
  <2>1. b * (m + 1) <= 0 /\ b * (m + 1) = b * m + b /\ b * m \in Int
    BY <1>1, <1>2
  <2>2. AbsDiff(b * m, a) >= b /\ AbsDiff(b * m, a) \in Int
    BY <2>1 DEF AbsDiff
  <2>3. QED BY <1>1, <2>2
<1>3. m \in Nat
  BY <1>1, <1>2
<1>4. QED BY <1>3 DEF m

(* Dividing a number below n * (n + 1) by n or by n + 1 is, rounded, the   *)
(* same or neighbours.                                                     *)
LEMMA NeighbouringDivisors ==
  ASSUME NEW a \in Int, NEW n \in Int, n > 0, a < n * (n + 1),
         NEW s \in Int, 2 * AbsDiff(n * s, a) <= n, s >= 0,
         NEW t \in Int, 2 * AbsDiff((n + 1) * t, a) <= n + 1
  PROVE  s <= t + 1 /\ t <= s + 1
<1>1. /\ n * s \in Int /\ n * t \in Int /\ n * n \in Int
      /\ (n + 1) * t = n * t + t /\ n * (n + 1) = n * n + n
  OBVIOUS
<1> DEFINE x == n * s  y == n * t  z == n * n
<1>2. /\ 2 * x <= 2 * a + n /\ 2 * a <= 2 * x + n
      /\ 2 * (y + t) <= 2 * a + n + 1 /\ 2 * a <= 2 * (y + t) + n + 1
  <2>1. (n + 1) * t \in Int
    OBVIOUS
  <2>2. /\ 2 * (n * s) <= 2 * a + n /\ 2 * a <= 2 * (n * s) + n
    BY <1>1 DEF AbsDiff
  <2>3. /\ 2 * ((n + 1) * t) <= 2 * a + n + 1 /\ 2 * a <= 2 * ((n + 1) * t) + n + 1
    BY <2>1 DEF AbsDiff
  <2>4. QED BY <1>1, <2>2, <2>3
<1>3. ASSUME s >= t + 2 PROVE FALSE
  <2>1. x >= y + 2 * n
    <3>1. n * (s - t - 2) >= 0 /\ n * (s - t - 2) = n * s - n * t - 2 * n
      BY <1>3
    <3>2. QED BY <1>1, <3>1
  <2> HIDE DEF x, y
  <2>2. t >= n
    <3>1. x \in Int /\ y \in Int
      BY <1>1 DEF x, y
    <3>2. QED BY <1>2, <2>1, <3>1
  <2>3. y >= z
    <3>1. n * (t - n) >= 0 /\ n * (t - n) = n * t - n * n
      BY <2>2
    <3>2. QED BY <1>1, <3>1 DEF y
  <2>4. a < z + n
    BY <1>1
  <2>5. x \in Int /\ y \in Int /\ z \in Int
    BY <1>1 DEF x, y
  <2> HIDE DEF z
  <2>6. QED BY <1>2, <2>1, <2>3, <2>4, <2>5
<1>4. ASSUME t >= s + 2 PROVE FALSE
  <2>1. y >= x + 2 * n
    <3>1. n * (t - s - 2) >= 0 /\ n * (t - s - 2) = n * t - n * s - 2 * n
      BY <1>4
    <3>2. QED BY <1>1, <3>1
  <2>2. x \in Int /\ y \in Int
    BY <1>1
  <2> HIDE DEF x, y
  <2>3. QED BY <1>2, <1>4, <2>1, <2>2
<1>5. QED BY <1>3, <1>4

-----------------------------------------------------------------------------
(* The edge-local engine and the application. *)

(* What the deviation of e is the rounded quotient of. *)
TotalDistance(e) ==
  SumOver([p \in edges \ {e} |-> PairDistance(view[e], view[p])], edges \ {e})

DeviationDivisor == 3 * (FullScale \div 1000) * (Cardinality(edges) - 1)

LEMMA DeviationRounds ==
  ASSUME Evaluated
  PROVE  /\ DeviationDivisor \in Int /\ DeviationDivisor > 0
         /\ \A e \in edges :
              /\ TotalDistance(e) \in Nat
              /\ \A ties : Deviation(ties, edges, view, e)
                             = Nearest(ties, TotalDistance(e), DeviationDivisor)
<1>1. /\ IsFiniteSet(edges) /\ Cardinality(edges) \in Nat
      /\ Cardinality(edges) > 1
  BY ParticipatingFinite DEF Evaluated, Encodable
<1>2. DeviationDivisor \in Int /\ DeviationDivisor > 0
  BY <1>1 DEF DeviationDivisor, FullScale
<1>3. ASSUME NEW e \in edges
      PROVE  /\ TotalDistance(e) \in Nat
             /\ \A ties : Deviation(ties, edges, view, e)
                            = Nearest(ties, TotalDistance(e), DeviationDivisor)
  <2> DEFINE peers == edges \ {e}
             distance == [p \in peers |-> PairDistance(view[e], view[p])]
  <2>1. IsFiniteSet(peers) /\ Cardinality(peers) = Cardinality(edges) - 1
    BY <1>1, FS_RemoveElement
  <2>2. peers # {}
    <3> HIDE DEF peers
    <3>1. QED BY <1>1, <2>1, FS_EmptySet
  <2>3. \A p \in peers : distance[p] \in Nat
    <3>1. \A p \in peers : view[e] \in CompleteView /\ view[p] \in CompleteView
      BY ResultFields
    <3>2. QED BY <3>1, DistanceNatural
  <2>4. SumOver(distance, peers) \in Nat
    <3> HIDE DEF distance, peers
    <3>1. QED BY <2>1, <2>3, SumIsNatural
  <2>5. TotalDistance(e) = SumOver(distance, peers)
    BY DEF TotalDistance
  <2>6. ASSUME NEW ties
        PROVE  Deviation(ties, edges, view, e)
                 = Nearest(ties, SumOver(distance, peers),
                           3 * (FullScale \div 1000) * Cardinality(peers))
    BY <2>2 DEF Deviation
  <2> HIDE DEF distance, peers
  <2>7. QED BY <2>1, <2>4, <2>5, <2>6 DEF DeviationDivisor
<1>4. QED BY <1>2, <1>3

LEMMA EngineExcludesForTheSameReason ==
  ASSUME Evaluated, NEW e \in edges
  PROVE  Reason(Deviation("even", edges, view, e)) = Reason(Deviation("away", edges, view, e))
<1> DEFINE a == TotalDistance(e)  b == DeviationDivisor
<1>1. /\ a \in Nat /\ b \in Int /\ b > 0
      /\ \A ties : Deviation(ties, edges, view, e) = Nearest(ties, a, b)
  BY DeviationRounds
<1> HIDE DEF a, b
<1>2. Nearest("even", a, b) >= ByzantineDeviation <=> Nearest("away", a, b) >= ByzantineDeviation
  BY <1>1, RoundingsAgree
<1>3. QED BY <1>1, <1>2 DEF Reason

(* A deviation is no negative number, the nearer edge deviates no more,    *)
(* and the two programs' deviations are the same or neighbours.            *)
LEMMA Deviations ==
  ASSUME Evaluated, NEW e \in edges
  PROVE  /\ \A ties : Deviation(ties, edges, view, e) \in Nat
         /\ \A ties : \A f \in edges :
              TotalDistance(e) <= TotalDistance(f)
                => Deviation(ties, edges, view, e) <= Deviation(ties, edges, view, f)
         /\ AbsDiff(Deviation("even", edges, view, e), Deviation("away", edges, view, e)) <= 1
<1> DEFINE b == DeviationDivisor
<1>1. /\ b \in Int /\ b > 0
      /\ \A f \in edges :
           /\ TotalDistance(f) \in Nat
           /\ \A ties : Deviation(ties, edges, view, f) = Nearest(ties, TotalDistance(f), b)
  BY DeviationRounds
<1> HIDE DEF b
<1>2. ASSUME NEW ties PROVE Deviation(ties, edges, view, e) \in Nat
  <2>1. Nearest(ties, TotalDistance(e), b) \in Nat
    BY <1>1, NearestOfNatural
  <2>2. QED BY <1>1, <2>1
<1>3. ASSUME NEW ties, NEW f \in edges, TotalDistance(e) <= TotalDistance(f)
      PROVE  Deviation(ties, edges, view, e) <= Deviation(ties, edges, view, f)
  <2>1. Nearest(ties, TotalDistance(e), b) <= Nearest(ties, TotalDistance(f), b)
    BY <1>1, <1>3, NearestGrows
  <2>2. QED BY <1>1, <2>1
<1>4. AbsDiff(Deviation("even", edges, view, e), Deviation("away", edges, view, e)) <= 1
  <2>1. AbsDiff(Nearest("even", TotalDistance(e), b), Nearest("away", TotalDistance(e), b)) <= 1
    BY <1>1, RoundingsAgree
  <2>2. QED BY <1>1, <2>1
<1>5. QED BY <1>2, <1>3, <1>4

(* The trust score of a deviation, without the case of a round of one.     *)
TrustScale == 0..1000

LEMMA TrustIsNatural == TrustScale \subseteq Nat
  BY DEF TrustScale

FullTrust == 1000000
Trust(ties, d) == Nearest(ties, FullTrust, 1000 + d)

LEMMA ScoresAreTrust ==
  ASSUME Evaluated, NEW ties, NEW e \in edges
  PROVE  Result(ties, edges, view).scores[e] = Trust(ties, Deviation(ties, edges, view, e))
<1>1. Deviation(ties, edges, view, e) # NotANumber
  BY Deviations DEF NotANumber
<1>2. Result(ties, edges, view).scores[e] = Score(ties, Deviation(ties, edges, view, e))
  BY DEF Result
<1>3. QED BY <1>1, <1>2 DEF Score, Trust, FullTrust

(* Trust is within 0 and 1. *)
LEMMA TrustRange ==
  ASSUME NEW ties, NEW d \in Nat
  PROVE  Trust(ties, d) \in TrustScale
<1>1. FullTrust \in Nat
  BY SMT DEF FullTrust
<1>2. Trust(ties, d) \in Nat
  BY <1>1, NearestOfNatural DEF Trust
<1>3. Nearest(ties, FullTrust, 1000 + d) <= Nearest(ties, FullTrust, 1000)
  BY <1>1, NearestShrinks
<1>4. Nearest(ties, FullTrust, 1000) = 1000
  BY SMT DEF Nearest, FullTrust
<1>5. QED BY <1>2, <1>3, <1>4, SMT DEF Trust, TrustScale

(* Trust falls as the deviation grows. *)
LEMMA TrustFalls ==
  ASSUME NEW ties, NEW c \in Nat, NEW d \in Nat, c <= d
  PROVE  Trust(ties, d) <= Trust(ties, c)
<1>1. FullTrust \in Nat
  BY SMT DEF FullTrust
<1>2. QED BY <1>1, NearestShrinks DEF Trust

(* Deviations that are the same or neighbours are trusted alike. *)
LEMMA NeighboursTrustedAlike ==
  ASSUME NEW c \in Nat, NEW d \in Nat, AbsDiff(c, d) <= 1
  PROVE  AbsDiff(Trust("even", c), Trust("away", d)) <= 1
<1> DEFINE s == Trust("even", c)  t == Trust("away", d)
<1>1. FullTrust \in Nat /\ \A n \in Nat : n >= 1000 => FullTrust < n * (n + 1)
  <2>1. ASSUME NEW n \in Nat, n >= 1000 PROVE FullTrust < n * (n + 1)
    <3>1. n * (n + 1) = n * n + n /\ n * n \in Nat
      OBVIOUS
    <3>2. (n - 1000) * (n - 1000) >= 0
      OBVIOUS
    <3>3. (n - 1000) * (n - 1000) = n * n - 2000 * n + FullTrust
      BY SMT DEF FullTrust
    <3>4. QED BY <2>1, <3>1, <3>2, <3>3, SMT DEF FullTrust
  <2>2. QED BY <2>1, SMT DEF FullTrust
<1>2. s \in Nat /\ t \in Nat
  <2>1. Trust("even", c) \in TrustScale /\ Trust("away", d) \in TrustScale
    BY TrustRange
  <2>2. QED BY <2>1, TrustIsNatural, Zenon
<1>3. /\ 2 * AbsDiff((1000 + c) * s, FullTrust) <= 1000 + c
      /\ 2 * AbsDiff((1000 + d) * t, FullTrust) <= 1000 + d
  BY <1>1, NearestIsNear DEF Trust
<1>4. d = c \/ d = c + 1 \/ c = d + 1
  BY DEF AbsDiff
<1>5. CASE d = c
  BY <1>1, <1>5, RoundingsAgree DEF Trust
<1> HIDE DEF s, t
<1>6. CASE d = c + 1
  <2> DEFINE n == 1000 + c
  <2>1. 1000 + d = n + 1 /\ n >= 1000 /\ n \in Nat
    BY <1>6
  <2> HIDE DEF n
  <2>2. n \in Int /\ n > 0 /\ FullTrust \in Int /\ FullTrust < n * (n + 1)
    BY <1>1, <2>1
  <2>3. 2 * AbsDiff(n * s, FullTrust) <= n /\ 2 * AbsDiff((n + 1) * t, FullTrust) <= n + 1
    BY <1>3, <2>1 DEF n
  <2>4. s <= t + 1 /\ t <= s + 1
    BY <1>2, <2>2, <2>3, NeighbouringDivisors
  <2>5. QED BY <1>2, <2>4 DEF AbsDiff, s, t
<1>7. CASE c = d + 1
  <2> DEFINE n == 1000 + d
  <2>1. 1000 + c = n + 1 /\ n >= 1000 /\ n \in Nat
    BY <1>7
  <2> HIDE DEF n
  <2>2. n \in Int /\ n > 0 /\ FullTrust \in Int /\ FullTrust < n * (n + 1)
    BY <1>1, <2>1
  <2>3. 2 * AbsDiff(n * t, FullTrust) <= n /\ 2 * AbsDiff((n + 1) * s, FullTrust) <= n + 1
    BY <1>3, <2>1 DEF n
  <2>4. t <= s + 1 /\ s <= t + 1
    BY <1>2, <2>2, <2>3, NeighbouringDivisors
  <2>5. QED BY <1>2, <2>4 DEF AbsDiff, s, t
<1>8. QED BY <1>4, <1>5, <1>6, <1>7 DEF s, t

LEMMA ScoreRange ==
  ASSUME Evaluated, NEW ties, NEW e \in edges
  PROVE  Result(ties, edges, view).scores[e] \in TrustScale
<1>1. Deviation(ties, edges, view, e) \in Nat
  BY Deviations
<1>2. Trust(ties, Deviation(ties, edges, view, e)) \in TrustScale
  BY <1>1, TrustRange
<1>3. QED BY <1>2, ScoresAreTrust

(* An edge nearer to the others in total is trusted no less, by either     *)
(* program.                                                                *)
LEMMA NearerIsTrusted ==
  ASSUME Evaluated, NEW ties, NEW e \in edges, NEW f \in edges,
         TotalDistance(e) <= TotalDistance(f)
  PROVE  Result(ties, edges, view).scores[f] <= Result(ties, edges, view).scores[e]
<1>1. /\ Deviation(ties, edges, view, e) \in Nat
      /\ Deviation(ties, edges, view, f) \in Nat
      /\ Deviation(ties, edges, view, e) <= Deviation(ties, edges, view, f)
  BY Deviations
<1>2. Trust(ties, Deviation(ties, edges, view, f)) <= Trust(ties, Deviation(ties, edges, view, e))
  BY <1>1, TrustFalls
<1>3. QED BY <1>2, ScoresAreTrust

(* The trust ranking orders the edges by how far their views are from the  *)
(* others' in total, on a scale from 0 to 1.                               *)
TrustFollowsDistance ==
  \A e, f \in edges :
    /\ result.scores[e] \in TrustScale
    /\ TotalDistance(e) <= TotalDistance(f) => result.scores[e] >= result.scores[f]

(* evaluateRound rounds twice between the distances and the score it ranks *)
(* by; no rounding ranks a more distant edge above a nearer one, for every *)
(* number of edges and every views.                                        *)
THEOREM TrustFollowsDistanceHolds == Spec => []TrustFollowsDistance
<1>1. Evaluated => TrustFollowsDistance
  <2> SUFFICES ASSUME Evaluated, NEW e \in edges, NEW f \in edges
               PROVE  /\ result.scores[e] \in TrustScale
                      /\ TotalDistance(e) <= TotalDistance(f)
                           => result.scores[e] >= result.scores[f]
    BY DEF TrustFollowsDistance
  <2>1. result = Result("away", edges, view)
    BY DEF Evaluated, EvaluateRound
  <2>2. result.scores[e] \in TrustScale /\ result.scores[f] \in TrustScale
    BY <2>1, ScoreRange, Zenon
  <2>3. TotalDistance(e) <= TotalDistance(f) => result.scores[f] <= result.scores[e]
    BY <2>1, NearerIsTrusted
  <2>4. result.scores[e] \in Nat /\ result.scores[f] \in Nat
    BY <2>2, TrustIsNatural, Zenon
  <2>5. QED BY <2>2, <2>3, <2>4
<1>2. QED BY <1>1, EvaluatedInvariant, PTL

(* ConsensusEngine.evaluate and evaluateRound decide alike on any views:   *)
(* only averages and scores differ, by at most the last digit, for the two *)
(* languages round ties differently; no two edges are scored oppositely.   *)
THEOREM EngineAgrees == Spec => []EngineAgreesWithApplication
<1>1. Evaluated => EngineAgreesWithApplication
  <2> SUFFICES ASSUME Evaluated PROVE EngineAgreesWithApplication
    OBVIOUS
  <2> DEFINE engine == EngineEvaluate(edges, view)
             V == edges \ Excluded(edges, view)
  <2>1. result = EvaluateRound(edges, view)
    BY DEF Evaluated
  <2>2. engine.status = result.status /\ engine.sources = result.sources
    BY <2>1 DEF EngineEvaluate, EvaluateRound, Result
  <2>3. engine.exclusions = result.exclusions
    <3>1. \A e \in Excluded(edges, view) : e \in edges
      BY DEF Excluded
    <3>2. \A ties : Result(ties, edges, view).exclusions =
            [e \in Excluded(edges, view) |-> Reason(Deviation(ties, edges, view, e))]
      BY <3>1 DEF Result
    <3>3. QED BY <2>1, <3>1, <3>2, EngineExcludesForTheSameReason DEF EngineEvaluate, EvaluateRound
  <2>4. ASSUME result.status = "success", NEW s \in Sensor
        PROVE  AbsDiff(engine.state[s], result.state[s]) <= 1
    <3> DEFINE f == [e \in V |-> view[e][s]]
    <3>1. IsFiniteSet(V) /\ Cardinality(V) \in Nat /\ Cardinality(V) > 0
      <4>1. Cardinality(V) >= Quorum(edges)
        BY <2>1, <2>4 DEF EvaluateRound, Result
      <4>2. IsFiniteSet(V) /\ Cardinality(V) \in Nat
        BY ParticipatingFinite, FS_Subset, FS_CardinalityType
      <4>3. QED BY <4>1, <4>2, ParticipatingFinite DEF Quorum
    <3>2. \A e \in V : f[e] \in Int
      BY ResultFields DEF CompleteView
    <3>3. /\ engine.state[s] = Nearest("even", SumOver(f, V), Cardinality(V))
          /\ result.state[s] = Nearest("away", SumOver(f, V), Cardinality(V))
      BY <2>1, <2>4 DEF EngineEvaluate, EvaluateRound, Result, MeanState
    <3> HIDE DEF f, V, engine
    <3>4. SumOver(f, V) \in Int
      BY <3>1, <3>2, SumIsInteger
    <3>5. QED BY <3>1, <3>3, <3>4, RoundingsAgree
  <2>5. ASSUME NEW e \in edges
        PROVE  AbsDiff(engine.scores[e], result.scores[e]) <= 1
    <3>1. /\ Deviation("even", edges, view, e) \in Nat
          /\ Deviation("away", edges, view, e) \in Nat
          /\ AbsDiff(Deviation("even", edges, view, e), Deviation("away", edges, view, e)) <= 1
      BY Deviations
    <3>2. AbsDiff(Trust("even", Deviation("even", edges, view, e)),
                  Trust("away", Deviation("away", edges, view, e))) <= 1
      BY <3>1, NeighboursTrustedAlike
    <3>3. QED BY <2>1, <3>2, ScoresAreTrust DEF EngineEvaluate, EvaluateRound
  <2>6. ASSUME NEW e \in edges, NEW f \in edges, engine.scores[e] > engine.scores[f]
        PROVE  result.scores[e] >= result.scores[f]
    <3>1. TotalDistance(e) \in Nat /\ TotalDistance(f) \in Nat
      BY DeviationRounds
    <3>2. engine.scores[e] \in TrustScale /\ engine.scores[f] \in TrustScale
      BY ScoreRange, Zenon DEF EngineEvaluate
    <3>3. TotalDistance(f) <= TotalDistance(e) => engine.scores[e] <= engine.scores[f]
      BY NearerIsTrusted DEF EngineEvaluate
    <3>4. TotalDistance(e) <= TotalDistance(f)
      <4> HIDE DEF engine
      <4>1. engine.scores[e] \in Nat /\ engine.scores[f] \in Nat
        BY <3>2, TrustIsNatural, Zenon
      <4>2. QED BY <2>6, <3>1, <3>3, <4>1
    <3>5. result.scores[f] <= result.scores[e]
      BY <2>1, <3>4, NearerIsTrusted DEF EvaluateRound
    <3>6. result.scores[e] \in TrustScale /\ result.scores[f] \in TrustScale
      BY <2>1, ScoreRange, Zenon DEF EvaluateRound
    <3>7. result.scores[e] \in Nat /\ result.scores[f] \in Nat
      BY <3>6, TrustIsNatural, Zenon
    <3>8. QED BY <3>5, <3>7
  <2> HIDE DEF engine
  <2>7. QED BY <2>2, <2>3, <2>4, <2>5, <2>6 DEF EngineAgreesWithApplication, engine
<1>2. QED BY <1>1, EvaluatedInvariant, PTL

-----------------------------------------------------------------------------
(* The averaged state and the edges it was averaged from. *)

LEMMA ScaledDistance ==
  ASSUME NEW n \in Nat, NEW x \in Int, NEW y \in Int
  PROVE  n * AbsDiff(x, y) = AbsDiff(n * x, n * y)
<1>1. n * (x - y) = n * x - n * y /\ n * (y - x) = n * y - n * x
  OBVIOUS
<1>2. n * x \in Int /\ n * y \in Int
  OBVIOUS
<1>3. CASE x >= y
  <2>1. n * (x - y) >= 0
    BY <1>3
  <2>2. QED BY <1>1, <1>2, <1>3, <2>1 DEF AbsDiff
<1>4. CASE y > x
  <2>1. n * (y - x) >= 0
    BY <1>4
  <2>2. AbsDiff(x, y) = y - x
    BY <1>4 DEF AbsDiff
  <2>3. AbsDiff(n * x, n * y) = n * y - n * x
    BY <1>1, <1>2, <2>1 DEF AbsDiff
  <2>4. QED BY <1>1, <2>2, <2>3
<1>5. QED BY <1>3, <1>4

(* One sensor's average is as near to an edge as the edges are on average, *)
(* up to half a unit of the last digit.                                    *)
LEMMA MeanIsNear ==
  ASSUME NEW E, IsFiniteSet(E), NEW n \in Nat \ {0}, Cardinality(E) = n,
         NEW v, NEW e \in E, NEW s \in Sensor, \A f \in E : v[f] \in CompleteView
  PROVE  /\ MeanState("away", v, E)[s] \in Int
         /\ 2 * n * AbsDiff(MeanState("away", v, E)[s], v[e][s])
              <= n + 2 * SumOver([f \in E |-> AbsDiff(v[f][s], v[e][s])], E)
<1> DEFINE held == [f \in E |-> v[f][s]]
           apart == [f \in E |-> AbsDiff(v[f][s], v[e][s])]
           x == v[e][s]
           sum == SumOver(held, E)
           m == Nearest("away", sum, n)
           far == SumOver(apart, E)
<1>1. \A f \in E : held[f] \in Int /\ apart[f] = AbsDiff(held[f], x)
  BY DEF CompleteView
<1>2. x \in Int /\ \A f \in E : apart[f] \in Int
  BY <1>1 DEF AbsDiff
<1>3. MeanState("away", v, E)[s] = m
  BY DEF MeanState
<1> HIDE DEF held, apart, x
<1>4. sum \in Int /\ far \in Int
  BY <1>1, <1>2, SumIsInteger
<1>5. AbsDiff(sum, n * x) <= far
  BY <1>1, <1>2, SumNear
<1> HIDE DEF sum, far
<1>6. m \in Int /\ 2 * AbsDiff(n * m, sum) <= n
  BY <1>4, NearestIsNear
<1> HIDE DEF m
<1>7. 2 * n * AbsDiff(m, x) <= n + 2 * far
  <2>1. n * AbsDiff(m, x) = AbsDiff(n * m, n * x)
    BY <1>2, <1>6, ScaledDistance
  <2>2. n * m \in Int /\ n * x \in Int
    BY <1>2, <1>6
  <2>3. AbsDiff(n * m, n * x) <= AbsDiff(n * m, sum) + AbsDiff(sum, n * x)
    BY <1>4, <2>2 DEF AbsDiff
  <2>4. AbsDiff(n * m, sum) \in Int /\ AbsDiff(sum, n * x) \in Int /\ AbsDiff(m, x) \in Int
    BY <1>2, <1>4, <1>6, <2>2 DEF AbsDiff
  <2>5. 2 * n * AbsDiff(m, x) = 2 * (n * AbsDiff(m, x)) /\ n * AbsDiff(m, x) \in Int
    BY <2>4
  <2>6. QED BY <1>4, <1>5, <1>6, <2>1, <2>3, <2>4, <2>5
<1>8. QED BY <1>3, <1>6, <1>7 DEF x, far, apart

(* A valid edge is compatible with all valid edges but one, itself         *)
(* included, and that one is at most two limits away.                      *)
LEMMA DistancesToSource ==
  ASSUME Evaluated, Cardinality(edges) <= 4, NEW e \in ValidEdges(edges, view)
  PROVE  SumOver([f \in ValidEdges(edges, view) |-> PairDistance(view[f], view[e])],
                 ValidEdges(edges, view))
           <= Cardinality(ValidEdges(edges, view)) * CompatibilityLimit
<1> DEFINE V == ValidEdges(edges, view)
           d == [f \in V |-> PairDistance(view[f], view[e])]
           L == CompatibilityLimit
<1>1. /\ V \subseteq edges /\ IsFiniteSet(V) /\ IsFiniteSet(edges)
      /\ Cardinality(V) \in Nat
      /\ \A f \in edges : view[f] \in CompleteView
  BY ParticipatingFinite, ResultFields, FS_Subset, FS_CardinalityType DEF ValidEdges
<1>2. \A f \in V : d[f] \in Int
  BY <1>1, DistanceSymmetric
<1>3. d[e] = 0
  BY <1>1, DistanceSymmetric
<1>4. PICK x : edges \ Support(edges, view, e) \subseteq {x}
  BY <1>1, ValidEdgeHasMajority, MajorityMissesOne
<1>5. ASSUME NEW f \in V, f # x
      PROVE  d[f] <= L
  <2>1. f \in Support(edges, view, e) /\ e \in edges /\ f \in edges
    BY <1>1, <1>4, <1>5
  <2>2. PairDistance(view[e], view[f]) <= L
    BY <1>1, <2>1, SupportIsCompatible DEF Compatible
  <2>3. QED BY <1>1, <2>1, <2>2, DistanceSymmetric
<1>6. ASSUME x \in V
      PROVE  d[x] <= 2 * L
  <2>1. PairDistance(view[x], view[e]) <= 2 * L
    BY <1>6, ValidEdgesWithinTwoLimits
  <2>2. QED BY <1>6, <2>1
<1>7. L = 630000
  BY DEF CompatibilityLimit
<1> HIDE DEF d, V
<1>8. SumOver(d, V) <= Cardinality(V) * L
  <2>1. CASE x \notin V \/ x = e
    <3>1. \A f \in V : d[f] \in Int /\ d[f] <= L
      BY <1>2, <1>3, <1>5, <1>7, <2>1
    <3> HIDE DEF L
    <3>2. QED BY <1>1, <1>7, <3>1, SumBounded
  <2>2. CASE x \in V /\ x # e
    <3> DEFINE W == V \ {x}  U == W \ {e}
    <3>1. e \in V /\ e \in W
      BY <2>2 DEF V
    <3>2. /\ IsFiniteSet(W) /\ Cardinality(W) = Cardinality(V) - 1
          /\ IsFiniteSet(U) /\ Cardinality(U) = Cardinality(W) - 1
      BY <1>1, <2>2, <3>1, FS_RemoveElement
    <3>3. SumOver(d, V) = d[x] + SumOver(d, W) /\ SumOver(d, W) = d[e] + SumOver(d, U)
      BY <1>1, <1>2, <2>2, <3>1, <3>2, SumRemoves
    <3>4. SumOver(d, U) <= Cardinality(U) * L /\ SumOver(d, U) \in Int
      <4>1. \A f \in U : d[f] \in Int /\ d[f] <= L
        BY <1>2, <1>5
      <4> HIDE DEF L, U
      <4>2. L \in Int
        BY <1>7
      <4>3. QED BY <3>2, <4>1, <4>2, SumBounded, SumIsInteger
    <3>5. d[x] \in Int /\ d[x] <= 2 * L
      BY <1>2, <1>6, <2>2
    <3> HIDE DEF W, U
    <3>6. QED BY <1>1, <1>3, <1>7, <3>2, <3>3, <3>4, <3>5
  <2>3. QED BY <2>1, <2>2
<1>9. QED BY <1>8 DEF d, V

LEMMA SourceOfMean ==
  ASSUME Evaluated, NEW e \in result.sources
  PROVE  /\ e \in ValidEdges(edges, view)
         /\ result.state = MeanState("away", view, ValidEdges(edges, view))
BY DEF Evaluated, EvaluateRound, Result, ValidEdges

(* The average is as near to a source as the sources are on average, up to *)
(* half a thousandth in each of its three values.                          *)
LEMMA MeanNearSource ==
  ASSUME Evaluated, NEW e \in ValidEdges(edges, view), NEW k \in Int,
         SumOver([f \in ValidEdges(edges, view) |-> PairDistance(view[f], view[e])],
                 ValidEdges(edges, view))
           <= Cardinality(ValidEdges(edges, view)) * k
  PROVE  2 * PairDistance(MeanState("away", view, ValidEdges(edges, view)), view[e])
           <= 2 * k + Weight.temperature + Weight.pressure + Weight.rpm
<1> DEFINE V == ValidEdges(edges, view)
           n == Cardinality(V)
           mean == MeanState("away", view, V)
           apart(s) == [f \in V |-> AbsDiff(view[f][s], view[e][s])]
           d == [f \in V |-> PairDistance(view[f], view[e])]
<1>1. e \in V
  OBVIOUS
<1>2. /\ IsFiniteSet(V) /\ n \in Nat \ {0}
      /\ \A f \in V : view[f] \in CompleteView
  <2>1. V \in SUBSET edges
    BY DEF ValidEdges
  <2>2. IsFiniteSet(V) /\ n \in Nat
    BY <2>1, ParticipatingFinite, FS_Subset, FS_CardinalityType
  <2>3. n # 0
    BY <1>1, <2>2, FS_EmptySet
  <2>4. QED BY <2>1, <2>2, <2>3, ParticipatingFinite, ResultFields
<1>3. \A s \in Sensor :
        /\ mean[s] \in Int
        /\ 2 * n * AbsDiff(mean[s], view[e][s]) <= n + 2 * SumOver(apart(s), V)
  BY <1>1, <1>2, MeanIsNear
<1>4. SumOver(d, V) <= n * k
  OBVIOUS
<1>5. \A s \in Sensor, f \in V : view[f][s] \in Int /\ apart(s)[f] \in Int
  BY <1>1, <1>2 DEF CompleteView, AbsDiff
<1>6. "temperature" \in Sensor /\ "pressure" \in Sensor /\ "rpm" \in Sensor
  BY DEF Sensor
<1>7. /\ SumOver(d, V) = 30 * SumOver(apart("temperature"), V)
                           + 200 * SumOver(apart("pressure"), V)
                           + SumOver(apart("rpm"), V)
      /\ \A s \in Sensor : SumOver(apart(s), V) \in Int
  <2>1. \A f \in V : d[f] = 30 * apart("temperature")[f]
                              + 200 * apart("pressure")[f] + apart("rpm")[f]
    <3>1. Weight.temperature = 30 /\ Weight.pressure = 200 /\ Weight.rpm = 1
      BY DEF Weight
    <3>2. \A s \in Sensor, f \in V : apart(s)[f] = AbsDiff(view[f][s], view[e][s])
      OBVIOUS
    <3>3. QED BY <1>5, <1>6, <3>1, <3>2 DEF PairDistance
  <2> HIDE DEF d, apart, V
  <2>2. QED BY <1>2, <1>5, <1>6, <2>1, SumWeighted, SumIsInteger
<1> DEFINE at == AbsDiff(mean.temperature, view[e].temperature)
           ap == AbsDiff(mean.pressure, view[e].pressure)
           ar == AbsDiff(mean.rpm, view[e].rpm)
           t == SumOver(apart("temperature"), V)
           p == SumOver(apart("pressure"), V)
           r == SumOver(apart("rpm"), V)
<1>8. /\ 2 * n * at <= n + 2 * t /\ 2 * n * ap <= n + 2 * p /\ 2 * n * ar <= n + 2 * r
      /\ t \in Int /\ p \in Int /\ r \in Int
      /\ 30 * t + 200 * p + r <= n * k
  <2> HIDE DEF mean, apart
  <2>1. QED BY <1>3, <1>4, <1>6, <1>7
<1>9. at \in Int /\ ap \in Int /\ ar \in Int
  <2>1. \A x, y \in Int : AbsDiff(x, y) \in Int
    BY DEF AbsDiff
  <2> HIDE DEF mean, apart
  <2>2. QED BY <1>1, <1>3, <1>5, <1>6, <2>1
<1>10. PairDistance(mean, view[e]) = 30 * at + 200 * ap + ar
  <2>1. Weight.temperature = 30 /\ Weight.pressure = 200 /\ Weight.rpm = 1
    BY DEF Weight
  <2>2. PairDistance(mean, view[e])
          = Weight.temperature * at + Weight.pressure * ap + Weight.rpm * ar
    BY DEF PairDistance
  <2> HIDE DEF at, ap, ar
  <2>3. QED BY <1>9, <2>1, <2>2
<1> HIDE DEF n, at, ap, ar, t, p, r
<1>11. 2 * (30 * at + 200 * ap + ar) <= 2 * k + 231
  <2> DEFINE far == 30 * at + 200 * ap + ar
  <2>1. /\ 2 * n * at = 2 * (n * at) /\ 2 * n * ap = 2 * (n * ap) /\ 2 * n * ar = 2 * (n * ar)
        /\ n * at \in Int /\ n * ap \in Int /\ n * ar \in Int
    BY <1>2, <1>9
  <2>2. n * far = 30 * (n * at) + 200 * (n * ap) + n * ar
    BY <1>2, <1>9
  <2>3. n * k \in Int
    BY <1>2
  <2>4. 2 * (n * far) <= 231 * n + 2 * (n * k)
    <3> HIDE DEF far
    <3>1. QED BY <1>2, <1>8, <2>1, <2>2, <2>3
  <2>5. far \in Int
    BY <1>9
  <2> HIDE DEF far
  <2>6. SUFFICES ASSUME 2 * far >= 2 * k + 232 PROVE FALSE
    BY <2>5 DEF far
  <2>7. n * (2 * far - 2 * k - 232) >= 0
    BY <1>2, <2>5, <2>6
  <2>8. n * (2 * far - 2 * k - 232) = 2 * (n * far) - 2 * (n * k) - 232 * n
    BY <1>2, <2>5
  <2>9. n * far \in Int
    BY <1>2, <2>5
  <2>10. QED BY <1>2, <2>3, <2>4, <2>7, <2>8, <2>9
<1>12. Weight.temperature + Weight.pressure + Weight.rpm = 231
  BY DEF Weight
<1>13. QED BY <1>10, <1>11, <1>12 DEF mean, V, Weight

(* buildValidState: with up to four edges the averaged state is compatible *)
(* with every edge it was averaged from, up to the rounding of its three   *)
(* values.  A source may be two limits from another one, but from one only,*)
(* and the average counts its own distance, which is none.                 *)
THEOREM ConsensusNear == Spec => []ConsensusNearEverySource
<1>1. Evaluated => ConsensusNearEverySource
  <2> SUFFICES ASSUME Evaluated, Cardinality(edges) <= 4, NEW e \in result.sources
               PROVE  2 * PairDistance(result.state, view[e])
                        <= 2 * CompatibilityLimit
                             + Weight.temperature + Weight.pressure + Weight.rpm
    BY DEF ConsensusNearEverySource
  <2>1. e \in ValidEdges(edges, view) /\ result.state = MeanState("away", view, ValidEdges(edges, view))
    BY SourceOfMean
  <2>2. CompatibilityLimit \in Int
    BY DEF CompatibilityLimit
  <2>3. QED BY <2>1, <2>2, DistancesToSource, MeanNearSource
<1>2. QED BY <1>1, EvaluatedInvariant, PTL

(* With any number of edges it is within two limits of them, and rounding. *)
ConsensusWithinTwoLimits ==
  \A e \in result.sources :
    2 * PairDistance(result.state, view[e])
      <= 4 * CompatibilityLimit + Weight.temperature + Weight.pressure + Weight.rpm

(* buildValidState: a chain of edges in which each agrees with a majority  *)
(* but not with all can draw the average out of an edge's agreement; for   *)
(* every number of edges it draws it no further than twice as far.         *)
THEOREM ConsensusWithinTwo == Spec => []ConsensusWithinTwoLimits
<1>1. Evaluated => ConsensusWithinTwoLimits
  <2> SUFFICES ASSUME Evaluated, NEW e \in result.sources
               PROVE  2 * PairDistance(result.state, view[e])
                        <= 4 * CompatibilityLimit
                             + Weight.temperature + Weight.pressure + Weight.rpm
    BY DEF ConsensusWithinTwoLimits
  <2> DEFINE V == ValidEdges(edges, view)
             d == [f \in V |-> PairDistance(view[f], view[e])]
             k == 2 * CompatibilityLimit
  <2>1. e \in V /\ result.state = MeanState("away", view, V)
    BY SourceOfMean
  <2>2. k \in Int /\ 2 * k = 4 * CompatibilityLimit
    BY SMT DEF CompatibilityLimit
  <2>3. IsFiniteSet(V)
    BY ParticipatingFinite, FS_Subset DEF ValidEdges
  <2>4. \A f \in V : d[f] \in Int /\ d[f] <= k
    <3>1. \A f \in V : view[f] \in CompleteView
      BY ResultFields DEF ValidEdges
    <3>2. \A f \in V : PairDistance(view[f], view[e]) <= 2 * CompatibilityLimit
      BY <2>1, ValidEdgesWithinTwoLimits
    <3>3. QED BY <2>1, <3>1, <3>2, DistanceSymmetric
  <2> HIDE DEF k
  <2>5. SumOver(d, V) <= Cardinality(V) * k
    <3> HIDE DEF d, V
    <3>1. QED BY <2>2, <2>3, <2>4, SumBounded
  <2>6. 2 * PairDistance(MeanState("away", view, V), view[e])
          <= 2 * k + Weight.temperature + Weight.pressure + Weight.rpm
    BY <2>1, <2>2, <2>5, MeanNearSource
  <2>7. QED BY <2>1, <2>2, <2>6
<1>2. QED BY <1>1, EvaluatedInvariant, PTL

-----------------------------------------------------------------------------
(* An excluded edge. *)

(* The others carry the round without e. *)
CarryWithout(E, v, e) ==
  /\ Cardinality(E \ {e}) >= Quorum(E)
  /\ \A f, g \in E \ {e} : Compatible(v[f], v[g])

(* Two valid edges that disagree need each other edge's support, that of e *)
(* included, which then is not excluded.                                   *)
LEMMA OthersCarry ==
  ASSUME NEW E, IsFiniteSet(E), Cardinality(E) <= 4,
         NEW v, \A f \in E : v[f] \in CompleteView,
         NEW e \in Excluded(E, v)
  PROVE  /\ Cardinality(ValidEdges(E, v)) >= Quorum(E) <=> CarryWithout(E, v, e)
         /\ CarryWithout(E, v, e) => ValidEdges(E, v) = E \ {e}
<1> DEFINE V == ValidEdges(E, v)
<1>1. e \in E /\ V \subseteq E \ {e} /\ Cardinality(E) \in Nat
  BY FS_CardinalityType DEF Excluded, ValidEdges
<1>2. ASSUME CarryWithout(E, v, e)
      PROVE  Cardinality(V) >= Quorum(E) /\ V = E \ {e}
  <2>1. E \ {e} \subseteq V /\ Cardinality(V) >= Quorum(E)
    BY <1>2, MajorityStays DEF CarryWithout
  <2>2. QED BY <1>1, <2>1
<1>3. ASSUME Cardinality(V) >= Quorum(E)
      PROVE  CarryWithout(E, v, e)
  <2>1. V = E \ {e}
    <3>1. V \in SUBSET E
      BY <1>1
    <3>2. PICK x : E \ V \subseteq {x}
      BY <1>3, <3>1, MajorityMissesOne
    <3>3. QED BY <1>1, <3>2
  <2>2. ASSUME NEW f \in V, NEW g \in V, ~ Compatible(v[f], v[g])
        PROVE  FALSE
    <3>1. /\ f \in E /\ g \in E /\ f # e /\ g # e
          /\ v[f] \in CompleteView /\ v[g] \in CompleteView /\ v[e] \in CompleteView
      BY <1>1
    <3>2. f # g
      BY <2>2, <3>1, DistanceSymmetric DEF Compatible, CompatibilityLimit
    <3>3. ~ Compatible(v[g], v[f])
      BY <2>2, <3>1, DistanceSymmetric DEF Compatible
    <3>4. g \notin Support(E, v, f) /\ f \notin Support(E, v, g)
      BY <2>2, <3>1, <3>3, SupportIsCompatible
    <3>5. e \in Support(E, v, f) /\ e \in Support(E, v, g)
      <4>1. PICK x : E \ Support(E, v, f) \subseteq {x}
        BY ValidEdgeHasMajority, MajorityMissesOne
      <4>2. PICK y : E \ Support(E, v, g) \subseteq {y}
        BY ValidEdgeHasMajority, MajorityMissesOne
      <4>3. x = g /\ y = f
        BY <3>1, <3>4, <4>1, <4>2
      <4>4. QED BY <1>1, <3>1, <4>1, <4>2, <4>3
    <3>6. Compatible(v[f], v[e]) /\ Compatible(v[g], v[e])
      BY <3>1, <3>5, SupportIsCompatible
    <3>7. Compatible(v[e], v[f]) /\ Compatible(v[e], v[g])
      BY <3>1, <3>6, DistanceSymmetric DEF Compatible
    <3>8. {f, g} \subseteq CompatiblePeers(E, v, e) /\ CompatiblePeers(E, v, e) \subseteq E
      BY <3>1, <3>7 DEF CompatiblePeers
    <3>9. Cardinality({f, g}) = 2
      <4>1. IsFiniteSet({f}) /\ Cardinality({f}) = 1 /\ g \notin {f}
        BY <3>2, FS_Singleton
      <4>2. Cardinality({f} \cup {g}) = 2
        BY <4>1, FS_AddElement
      <4>3. {f, g} = {f} \cup {g}
        OBVIOUS
      <4>4. QED BY <4>2, <4>3
    <3>10. /\ Cardinality(CompatiblePeers(E, v, e)) \in Nat
           /\ 2 <= Cardinality(CompatiblePeers(E, v, e))
      BY <3>8, <3>9, FS_Subset, FS_CardinalityType
    <3>11. QED BY <1>1, <3>10 DEF Excluded, Quorum
  <2>3. QED BY <1>3, <2>1, <2>2 DEF CarryWithout
<1>4. QED BY <1>2, <1>3

(* evaluateRound: with up to four edges, an excluded edge that stays       *)
(* excluded changes neither the outcome nor the sources nor the average by *)
(* what it reports.                                                        *)
THEOREM ExcludedEdgePowerless == Spec => ExcludedEdgeHasNoInfluence
<1> DEFINE Powerless ==
      \A e \in edges :
        (/\ Cardinality(edges) <= 4
         /\ e \in DOMAIN result.exclusions
         /\ e \in DOMAIN result'.exclusions
         /\ \A f \in edges \ {e} : view'[f] = view[f])
          => /\ result'.status = result.status
             /\ result'.sources = result.sources
             /\ result'.state = result.state
<1>1. Evaluated /\ Evaluated' /\ [Next]_vars => [Powerless]_vars
  <2> SUFFICES ASSUME Evaluated, Evaluated', [Next]_vars,
                      NEW e \in edges,
                      Cardinality(edges) <= 4,
                      e \in DOMAIN result.exclusions,
                      e \in DOMAIN result'.exclusions,
                      \A f \in edges \ {e} : view'[f] = view[f]
               PROVE  /\ result'.status = result.status
                      /\ result'.sources = result.sources
                      /\ result'.state = result.state
    OBVIOUS
  <2>1. edges' = edges
    BY DEF Next, NextRound, vars
  <2>2. /\ result = EvaluateRound(edges, view)
        /\ result' = EvaluateRound(edges, view')
    BY <2>1 DEF Evaluated, EvaluateRound
  <2>3. /\ IsFiniteSet(edges)
        /\ \A f \in edges : view[f] \in CompleteView /\ view'[f] \in CompleteView
    BY <2>1, ParticipatingFinite, ReadingAssumption DEF Evaluated, CompleteView
  <2>4. ASSUME NEW v
        PROVE  /\ EvaluateRound(edges, v).status =
                    IF Cardinality(ValidEdges(edges, v)) >= Quorum(edges)
                      THEN "success" ELSE "failed_consensus"
               /\ EvaluateRound(edges, v).sources =
                    IF Cardinality(ValidEdges(edges, v)) >= Quorum(edges)
                      THEN ValidEdges(edges, v) ELSE {}
               /\ EvaluateRound(edges, v).state =
                    IF Cardinality(ValidEdges(edges, v)) >= Quorum(edges)
                      THEN MeanState("away", v, ValidEdges(edges, v)) ELSE << >>
               /\ DOMAIN EvaluateRound(edges, v).exclusions = Excluded(edges, v)
    BY DEF EvaluateRound, Result, ValidEdges
  <2>5. e \in Excluded(edges, view) /\ e \in Excluded(edges, view')
    BY <2>2, <2>4
  <2>6. CarryWithout(edges, view, e) <=> CarryWithout(edges, view', e)
    BY DEF CarryWithout
  <2>7. CASE CarryWithout(edges, view, e)
    <3> DEFINE V == edges \ {e}
    <3>1. /\ ValidEdges(edges, view) = V /\ ValidEdges(edges, view') = V
          /\ Cardinality(V) >= Quorum(edges)
      BY <2>3, <2>5, <2>6, <2>7, OthersCarry
    <3>2. MeanState("away", view, V) = MeanState("away", view', V)
      <4>1. \A s \in Sensor : [f \in V |-> view[f][s]] = [f \in V |-> view'[f][s]]
        OBVIOUS
      <4>2. QED BY <4>1 DEF MeanState
    <3>3. QED BY <2>2, <2>4, <3>1, <3>2
  <2>8. CASE ~ CarryWithout(edges, view, e)
    <3>1. /\ ~ (Cardinality(ValidEdges(edges, view)) >= Quorum(edges))
          /\ ~ (Cardinality(ValidEdges(edges, view')) >= Quorum(edges))
      BY <2>3, <2>5, <2>6, <2>8, OthersCarry
    <3>2. QED BY <2>2, <2>4, <3>1
  <2>9. QED BY <2>7, <2>8
<1>2. QED BY <1>1, EvaluatedInvariant, PTL DEF Spec, ExcludedEdgeHasNoInfluence
=============================================================================
