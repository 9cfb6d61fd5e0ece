----------------------------- MODULE DataProofs -----------------------------
(***************************************************************************)
(* Lemmas about Data.  What the C type does to a sum: the result is in its *)
(* range and differs from the sum by a multiple of its width.  And the sum *)
(* of a function over a finite set: SumOver is a fold, that is, a function *)
(* chosen to satisfy a recursive equation; here is shown that there is     *)
(* one, what its type is, and how the sum changes with one value of the    *)
(* function.  The induction is over the subsets of a finite set, which the *)
(* strict subset ordering makes well-founded.  At the end, the keys of an  *)
(* input file (module Input).                                              *)
(***************************************************************************)
EXTENDS Data, FiniteSetTheorems, WellFoundedInduction, TLAPS

LEMMA WidthIsPositive == Modulus \in Nat \ {0} /\ INT_MAX \in Nat
BY DataAssumption DEF Modulus

\* The remainder of a division by the width of the type lies in its range.
LEMMA WrapType == ASSUME NEW v \in Int PROVE Wrap(v) \in Int32
<1> DEFINE m == Modulus
           r == (v + INT_MAX + 1) % m
<1>1. INT_MAX \in Nat
    BY DataAssumption
<1>2. m \in Nat /\ m > 0 /\ m = 2 * (INT_MAX + 1)
    BY <1>1 DEF Modulus
<1>3. v + INT_MAX + 1 \in Int
    BY <1>1
<1> HIDE DEF m
<1>4. r \in 0 .. m - 1
    BY <1>2, <1>3
<1> HIDE DEF r
<1>5. r - (INT_MAX + 1) \in -(INT_MAX + 1) .. INT_MAX
    BY <1>1, <1>2, <1>4
<1> QED
    BY <1>5 DEF r, m, Wrap, Int32

LEMMA Int32IsInt == Int32 \subseteq Int /\ 0 .. INT_MAX \subseteq Int32
BY DataAssumption DEF Int32

\* Of finitely many things one has the largest number.
LEMMA LargestIs ==
    ASSUME NEW H, IsFiniteSet(H), H /= {}, NEW f, \A x \in H : f[x] \in Nat
    PROVE  \E x \in H : \A y \in H : f[y] <= f[x]
<1> DEFINE Above(x) == {y \in H : f[y] >= f[x]}
           T == {Above(x) : x \in H}
<1>1. IsWellFoundedOn(StrictSubsetOrdering(H), FiniteSubsetsOf(H))
    BY FS_StrictSubsetOrderingWellFounded
<1>2. T \subseteq FiniteSubsetsOf(H) /\ T /= {}
    <2>1. \A x \in H : Above(x) \in SUBSET H
        OBVIOUS
    <2>2. FiniteSubsetsOf(H) = SUBSET H
        BY FS_FiniteSubsetsOfFinite
    <2>3. T \subseteq SUBSET H /\ T /= {}
        <3> HIDE DEF Above
        <3> QED
            BY <2>1
    <2> QED
        BY <2>2, <2>3
<1>3. PICK t \in T : \A u \in T : <<u, t>> \notin StrictSubsetOrdering(H)
    <2> HIDE DEF T
    <2> QED
        BY <1>1, <1>2, WFMin
<1>4. PICK x \in H : t = Above(x)
    BY <1>3
<1>5. ASSUME NEW y \in H, f[y] > f[x] PROVE FALSE
    <2>1. Above(y) \subseteq Above(x)
        BY <1>5
    <2>2. x \in Above(x) /\ x \notin Above(y)
        BY <1>5
    <2>3. <<Above(y), Above(x)>> \in StrictSubsetOrdering(H)
        BY <2>1, <2>2 DEF StrictSubsetOrdering
    <2> QED
        BY <1>3, <1>4, <2>3
<1> QED
    BY <1>5

LEMMA SmallMultiple ==
    ASSUME NEW m \in Nat \ {0}, NEW d \in Int, m * d < m, m * d > -m
    PROVE  d = 0
<1>1. d >= 1 => m * d >= m
    <2>1. ASSUME NEW e \in Nat PROVE m * (1 + e) = m + m * e /\ m * e \in Nat
        OBVIOUS
    <2>2. d >= 1 => d - 1 \in Nat /\ d = 1 + (d - 1)
        OBVIOUS
    <2> QED
        BY <2>1, <2>2
<1>2. d <= -1 => m * d <= -m
    <2>1. ASSUME NEW e \in Nat PROVE m * (-1 - e) = -m - m * e /\ m * e \in Nat
        OBVIOUS
    <2>2. d <= -1 => -d - 1 \in Nat /\ d = -1 - (-d - 1)
        OBVIOUS
    <2> QED
        BY <2>1, <2>2
<1> QED
    BY <1>1, <1>2

\* Two numbers that differ by a multiple of the divisor have one remainder.
LEMMA SameRemainder ==
    ASSUME NEW m \in Nat \ {0}, NEW a \in Int, NEW q \in Int
    PROVE  (a + q * m) % m = a % m
<1> DEFINE b == a + q * m
           s == a \div m
           t == b \div m
           r == a % m
           u == b % m
<1>1. q * m \in Int /\ b \in Int
    OBVIOUS
<1>2. a = m * s + r /\ r \in 0 .. m - 1 /\ s \in Int
    OBVIOUS
<1>3. b = m * t + u /\ u \in 0 .. m - 1 /\ t \in Int
    <2> HIDE DEF b
    <2> QED
        BY <1>1
<1>4. m * t + u = m * s + r + q * m
    BY <1>2, <1>3
<1> HIDE DEF b, s, t, r, u
<1>5. m * (t - s - q) = m * t - m * s - q * m /\ t - s - q \in Int
    BY <1>2, <1>3
<1>6. m * (t - s - q) = r - u
    <2>1. m * t \in Int /\ m * s \in Int /\ q * m \in Int
        BY <1>2, <1>3
    <2> QED
        BY <1>2, <1>3, <1>4, <1>5, <2>1
<1>7. t - s - q = 0
    <2> DEFINE d == t - s - q
    <2>1. d \in Int /\ m * d = r - u
        BY <1>5, <1>6
    <2> HIDE DEF d
    <2>2. m * d < m /\ m * d > -m
        BY <1>2, <1>3, <2>1
    <2>3. d = 0
        BY <2>1, <2>2, SmallMultiple
    <2> QED
        BY <2>3 DEF d
<1>8. r = u
    BY <1>2, <1>3, <1>6, <1>7
<1> QED
    BY <1>8 DEF b, r, u

\* A sum that leaves the range wraps around by a multiple of the width.
LEMMA WrapByWidth ==
    ASSUME NEW v \in Int
    PROVE  \E q \in Int : Wrap(v) = v + q * Modulus
<1> DEFINE m == Modulus
           u == v + INT_MAX + 1
<1>1. m \in Nat \ {0} /\ u \in Int /\ INT_MAX \in Nat
    BY WidthIsPositive
<1> HIDE DEF m
<1>2. u \div m \in Int /\ (u % m) = u - (u \div m) * m /\ (-(u \div m)) * m = -((u \div m) * m)
    <2> HIDE DEF u
    <2> QED
        BY <1>1
<1>3. Wrap(v) = v + (-(u \div m)) * m
    <2>1. Wrap(v) = (u % m) - (INT_MAX + 1)
        BY DEF Wrap, m
    <2> QED
        BY <1>1, <1>2, <2>1
<1> QED
    BY <1>2, <1>3 DEF m

LEMMA WrapIgnoresWidth ==
    ASSUME NEW v \in Int, NEW q \in Int
    PROVE  Wrap(v + q * Modulus) = Wrap(v)
<1> DEFINE m == Modulus
           u == v + INT_MAX + 1
<1>1. m \in Nat \ {0} /\ u \in Int /\ INT_MAX \in Nat
    BY WidthIsPositive
<1> HIDE DEF m
<1>2. (u + q * m) % m = u % m
    <2> HIDE DEF u
    <2> QED
        BY <1>1, SameRemainder
<1>3. q * m \in Int /\ (v + q * m) + INT_MAX + 1 = u + q * m
    BY <1>1
<1>4. Wrap(v + q * m) = ((u + q * m) % m) - (INT_MAX + 1)
    BY <1>3 DEF Wrap, m
<1>5. Wrap(v) = (u % m) - (INT_MAX + 1)
    BY DEF Wrap, m
<1> QED
    BY <1>2, <1>4, <1>5 DEF m

-----------------------------------------------------------------------------
(* Induction over a finite set *)

\* A family of subsets of a finite set that has each set whose strict subsets
\* it has, has all of them.
LEMMA SubsetInduction ==
    ASSUME NEW S, IsFiniteSet(S), NEW X,
           \A T \in SUBSET S : (\A U \in SUBSET T : U /= T => U \in X) => T \in X
    PROVE  SUBSET S \subseteq X
<1> DEFINE Rest == (SUBSET S) \ X
<1> SUFFICES ASSUME Rest /= {} PROVE FALSE
    BY Zenon
<1>1. IsWellFoundedOn(StrictSubsetOrdering(S), SUBSET S)
    <2>1. IsWellFoundedOn(StrictSubsetOrdering(S), FiniteSubsetsOf(S))
        BY FS_StrictSubsetOrderingWellFounded
    <2>2. FiniteSubsetsOf(S) = SUBSET S
        BY FS_FiniteSubsetsOfFinite
    <2> QED
        BY <2>1, <2>2
<1>2. PICK T \in Rest : \A U \in Rest : <<U, T>> \notin StrictSubsetOrdering(S)
    <2> HIDE DEF Rest
    <2>1. Rest \subseteq SUBSET S
        BY DEF Rest
    <2> QED
        BY <1>1, <2>1, WFMin
<1>3. ASSUME NEW U \in SUBSET T, U /= T
      PROVE  U \in X
    <2>1. <<U, T>> \in StrictSubsetOrdering(S)
        BY <1>3 DEF StrictSubsetOrdering
    <2> QED
        BY <1>2, <2>1, <1>3
<1> QED
    BY <1>2, <1>3

-----------------------------------------------------------------------------
(* The recursive equation of a sum, on the subsets of S, and its solution. *)

Picked(s) == CHOOSE k \in s : TRUE

Unfold(iter, f, s) == IF s = {} THEN 0 ELSE f[Picked(s)] + iter[s \ {Picked(s)}]

Solves(iter, f, S) == iter = [s \in SUBSET S |-> Unfold(iter, f, s)]

LEMMA PickedIn == \A s : s /= {} => Picked(s) \in s
BY DEF Picked

LEMMA SolvesAt ==
    ASSUME NEW f, NEW S, NEW g, Solves(g, f, S)
    PROVE  \A s \in SUBSET S : g[s] = Unfold(g, f, s)
BY DEF Solves

\* Two solutions agree where both are defined.
LEMMA SolutionUnique ==
    ASSUME NEW f, NEW S, NEW T, IsFiniteSet(S), S \subseteq T,
           NEW g, Solves(g, f, S), NEW h, Solves(h, f, T)
    PROVE  \A s \in SUBSET S : g[s] = h[s]
<1> DEFINE X == {s \in SUBSET S : g[s] = h[s]}
<1>1. ASSUME NEW s \in SUBSET S, \A u \in SUBSET s : u /= s => u \in X
      PROVE  s \in X
    <2>1. g[s] = Unfold(g, f, s)
        BY SolvesAt
    <2>2. h[s] = Unfold(h, f, s)
        BY SolvesAt
    <2>3. s /= {} => g[s \ {Picked(s)}] = h[s \ {Picked(s)}]
        BY <1>1, PickedIn
    <2> QED
        BY <2>1, <2>2, <2>3 DEF Unfold
<1> HIDE DEF X
<1>2. SUBSET S \subseteq X
    BY <1>1, SubsetInduction
<1> QED
    BY <1>2 DEF X

LEMMA SolutionExists ==
    ASSUME NEW f, NEW S, IsFiniteSet(S)
    PROVE  \E g : Solves(g, f, S)
<1> DEFINE X == {T \in SUBSET S : \E g : Solves(g, f, T)}
<1>1. ASSUME NEW T \in SUBSET S, \A U \in SUBSET T : U /= T => U \in X
      PROVE  T \in X
    <2> DEFINE G(U) == CHOOSE g : Solves(g, f, U)
               new == [s \in SUBSET T |->
                          IF s = {} THEN 0
                          ELSE f[Picked(s)] + G(s \ {Picked(s)})[s \ {Picked(s)}]]
    <2>1. ASSUME NEW U \in SUBSET T, U /= T
          PROVE  Solves(G(U), f, U)
        BY <1>1, <2>1
    <2> HIDE DEF G
    <2>2. ASSUME NEW s \in SUBSET T, s /= T
          PROVE  new[s] = G(s)[s]
        <3>1. Solves(G(s), f, s)
            BY <2>1, <2>2
        <3>2. G(s)[s] = IF s = {} THEN 0 ELSE f[Picked(s)] + G(s)[s \ {Picked(s)}]
            <4> DEFINE h == G(s)
            <4>1. Solves(h, f, s) /\ s \in SUBSET s
                BY <3>1
            <4> HIDE DEF h
            <4>2. h[s] = Unfold(h, f, s)
                BY <4>1, SolvesAt
            <4> QED
                BY <4>2 DEF h, Unfold
        <3>3. CASE s = {}
            BY <3>2, <3>3
        <3>4. CASE s /= {}
            <4> DEFINE u == s \ {Picked(s)}
            <4>1. u \subseteq s /\ u \in SUBSET T /\ u /= T
                BY <3>4, PickedIn, <2>2
            <4>2. Solves(G(u), f, u)
                BY <2>1, <4>1
            <4>3. IsFiniteSet(u)
                BY <4>1, FS_Subset
            <4> HIDE DEF u
            <4>4. G(u)[u] = G(s)[u]
                BY <3>1, <4>1, <4>2, <4>3, SolutionUnique
            <4> QED
                BY <3>2, <3>4, <4>4 DEF u
        <3> QED
            BY <3>3, <3>4
    <2>3. ASSUME NEW s \in SUBSET T, s /= {}
          PROVE  new[s \ {Picked(s)}] = G(s \ {Picked(s)})[s \ {Picked(s)}]
        <3>1. s \ {Picked(s)} \in SUBSET T /\ s \ {Picked(s)} /= T
            BY <2>3, PickedIn
        <3> HIDE DEF new
        <3> QED
            BY <2>2, <3>1
    <2>4. Solves(new, f, T)
        <3>1. ASSUME NEW s \in SUBSET T
              PROVE  new[s] = IF s = {} THEN 0 ELSE f[Picked(s)] + new[s \ {Picked(s)}]
            <4>1. new[s] = IF s = {} THEN 0
                           ELSE f[Picked(s)] + G(s \ {Picked(s)})[s \ {Picked(s)}]
                OBVIOUS
            <4> HIDE DEF new
            <4> QED
                BY <4>1, <2>3
        <3>2. new = [s \in SUBSET T |-> new[s]]
            OBVIOUS
        <3> HIDE DEF new
        <3>3. new = [s \in SUBSET T |-> Unfold(new, f, s)]
            BY <3>1, <3>2, Zenon DEF Unfold
        <3> QED
            BY <3>3 DEF Solves
    <2> HIDE DEF new
    <2> QED
        BY <2>4
<1>2. SUBSET S \subseteq X
    <2> HIDE DEF X
    <2> QED
        BY <1>1, SubsetInduction
<1> QED
    BY <1>2

-----------------------------------------------------------------------------
(* SumOver *)

\* SumOver(f, S) is the value at S of a solution on the subsets of S.
LEMMA SumIsSolution ==
    ASSUME NEW f, NEW S, IsFiniteSet(S)
    PROVE  \E g : Solves(g, f, S) /\ SumOver(f, S) = g[S]
<1> DEFINE it == CHOOSE g : Solves(g, f, S)
<1>1. Solves(it, f, S)
    BY SolutionExists, Zenon
<1>2. SumOver(f, S) = it[S]
    BY Zenon DEF SumOver, MapThenSumSet, MapThenFoldSet, Solves, Picked, Unfold
<1> QED
    BY <1>1, <1>2

LEMMA SolutionType ==
    ASSUME NEW S, IsFiniteSet(S), NEW f \in [S -> Int], NEW g, Solves(g, f, S)
    PROVE  \A s \in SUBSET S : g[s] \in Int
<1> DEFINE X == {s \in SUBSET S : g[s] \in Int}
<1>1. ASSUME NEW s \in SUBSET S, \A u \in SUBSET s : u /= s => u \in X
      PROVE  s \in X
    <2>1. g[s] = Unfold(g, f, s)
        BY SolvesAt
    <2>2. s /= {} => g[s \ {Picked(s)}] \in Int /\ f[Picked(s)] \in Int
        BY <1>1, PickedIn
    <2> QED
        BY <2>1, <2>2 DEF Unfold
<1> HIDE DEF X
<1>2. SUBSET S \subseteq X
    BY <1>1, SubsetInduction
<1> QED
    BY <1>2 DEF X

\* The sum of integers is an integer.
LEMMA SumType ==
    ASSUME NEW S, IsFiniteSet(S), NEW f \in [S -> Int]
    PROVE  SumOver(f, S) \in Int
BY SumIsSolution, SolutionType

\* A change of one value changes the sum by as much.
LEMMA SumUpdate ==
    ASSUME NEW S, IsFiniteSet(S), NEW f \in [S -> Int], NEW k \in S,
           NEW f2 \in [S -> Int], \A j \in S : j /= k => f2[j] = f[j]
    PROVE  SumOver(f2, S) = SumOver(f, S) - f[k] + f2[k]
<1> DEFINE v == f2[k]
<1>1. v \in Int
    OBVIOUS
<1> HIDE DEF v
<1>2. PICK g : Solves(g, f, S) /\ SumOver(f, S) = g[S]
    BY SumIsSolution
<1>3. PICK h : Solves(h, f2, S) /\ SumOver(f2, S) = h[S]
    BY SumIsSolution
<1> DEFINE X == {s \in SUBSET S : h[s] = IF k \in s THEN g[s] - f[k] + v ELSE g[s]}
<1>4. ASSUME NEW s \in SUBSET S, \A u \in SUBSET s : u /= s => u \in X
      PROVE  s \in X
    <2> DEFINE j == Picked(s)
               u == s \ {j}
    <2>1. g[s] = Unfold(g, f, s) /\ h[s] = Unfold(h, f2, s)
        BY <1>2, <1>3, SolvesAt
    <2>2. /\ g[s] = IF s = {} THEN 0 ELSE f[j] + g[u]
          /\ h[s] = IF s = {} THEN 0 ELSE f2[j] + h[u]
        BY <2>1 DEF Unfold
    <2>3. CASE s = {}
        BY <2>2, <2>3
    <2>4. CASE s /= {}
        <3>1. j \in s /\ u \in SUBSET s /\ u /= s /\ (k \in u <=> k \in s /\ k /= j)
            BY <2>4, PickedIn
        <3> HIDE DEF j, u
        <3>2. h[u] = IF k \in u THEN g[u] - f[k] + v ELSE g[u]
            BY <3>1, <1>4
        <3>3. f[j] \in Int /\ f[k] \in Int /\ g[u] \in Int
            BY <3>1, <1>1, <1>2, SolutionType
        <3>4. f2[j] = IF j = k THEN v ELSE f[j]
            BY <3>1 DEF v
        <3>5. g[s] = f[j] + g[u] /\ h[s] = f2[j] + h[u]
            BY <2>2, <2>4
        <3>6. CASE j = k
            BY <1>1, <3>1, <3>2, <3>3, <3>4, <3>5, <3>6
        <3>7. CASE j /= k
            BY <1>1, <3>1, <3>2, <3>3, <3>4, <3>5, <3>7
        <3> QED
            BY <3>6, <3>7
    <2> QED
        BY <2>3, <2>4
<1>5. SUBSET S \subseteq X
    <2> HIDE DEF X
    <2> QED
        BY <1>4, SubsetInduction
<1>6. h[S] = g[S] - f[k] + v
    BY <1>5
<1> QED
    BY <1>2, <1>3, <1>6 DEF v

-----------------------------------------------------------------------------
(* The keys of an input file *)

\* createInput with the largest result of rand() and the size of the database
File(RAND_MAX, SIZ_DATABASE) == INSTANCE Input

\* A quotient of a number below the square of the divisor is below the divisor.
LEMMA QuotientBelow ==
    ASSUME NEW s \in Nat \ {0}, NEW r \in Nat, r < s * s
    PROVE  r \div s \in 0 .. s - 1
<1>1. r \div s \in Nat /\ s * (r \div s) <= r
  BY SMT
<1>2. ASSUME NEW q \in Nat, s * q <= r PROVE q < s
  <2>1. SUFFICES ASSUME q >= s PROVE FALSE
    BY SMT
  <2>2. PICK d \in Nat : q = s + d
    <3>1. q - s \in Nat /\ q = s + (q - s)
      BY <2>1, SMT
    <3> QED
      BY <3>1
  <2>3. s * q = s * s + s * d /\ s * d >= 0
    BY <2>2, SMT
  <2> QED
    BY <1>2, <2>3, SMT
<1>3. r \div s < s
  BY <1>1, <1>2
<1> QED
  BY <1>1, <1>3, SMT

\* createInput writes only keys of the database when the square of its size is
\* larger than RAND_MAX, as it is with the sizes in constant.h: the assertion of
\* KVS::lock then holds for every line.
THEOREM KeysExist ==
    ASSUME NEW size \in Nat \ {0}, NEW max \in Nat, max < size * size,
           NEW line \in File(max, size)!createInput
    PROVE  line.from \in File(max, size)!Key /\ line.to \in File(max, size)!Key
<1>1. ASSUME NEW r \in File(max, size)!rand PROVE r \div size \in File(max, size)!Key
  <2>1. r \in Nat /\ r < size * size
    BY SMT DEF File!rand
  <2> QED
    BY <2>1, QuotientBelow DEF File!Key
<1>2. File(max, size)!FromKey \subseteq File(max, size)!Key
  BY <1>1 DEF File!FromKey
<1>3. line.from \in File(max, size)!FromKey /\ line.to \in File(max, size)!FromKey
  BY DEF File!createInput
<1> QED
  BY <1>2, <1>3

\* With a smaller database some line has a key that does not exist, which ends
\* the leader in the assertion of KVS::lock.
THEOREM KeyMissing ==
    ASSUME NEW size \in Nat \ {0}, NEW max \in Nat, max >= size * size
    PROVE  \E line \in File(max, size)!createInput : line.from \notin File(max, size)!Key
<1>1. size * size \in File(max, size)!rand
  BY SMT DEF File!rand
<1>2. (size * size) \div size = size
  BY SMT
<1>3. size \in File(max, size)!FromKey
  BY <1>1, <1>2 DEF File!FromKey
<1>4. 0 \in {r % 1000 : r \in File(max, size)!rand}
  <2>1. 0 \in File(max, size)!rand /\ 0 % 1000 = 0
    BY SMT DEF File!rand
  <2> QED
    BY <2>1
<1>5. [from |-> size, to |-> size, diff |-> 0] \in File(max, size)!createInput
  BY <1>3, <1>4 DEF File!createInput
<1>6. size \notin File(max, size)!Key
  BY SMT DEF File!Key
<1> QED
  BY <1>5, <1>6
=============================================================================
