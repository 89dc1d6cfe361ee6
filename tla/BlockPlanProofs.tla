-------------------------- MODULE BlockPlanProofs ---------------------------
(***************************************************************************)
(* What the range arithmetic of module BlockPlan computes, for every       *)
(* MaxEnd, every set of blocks and every chunk size: the runs of a set of  *)
(* blocks, common parts, gaps, grid cells and the chunks of a plan.  The   *)
(* first lemmas are about natural numbers: the least-number principle,     *)
(* induction, the members of a set in ascending order, and loops.          *)
(***************************************************************************)
EXTENDS BlockPlan, FiniteSetTheorems, WellFoundedInduction, TLAPS

-----------------------------------------------------------------------------
(* Natural numbers and finite sets of them *)

(* Every non-empty set of naturals has a least member. *)
LEMMA NatLeast ==
  ASSUME NEW S \in SUBSET Nat, S # {}
  PROVE  \E m \in S : \A k \in S : m <= k
<1> DEFINE R == OpToRel(<, Nat)
<1>1. IsWellFoundedOn(R, Nat)
  BY NatLessThanWellFounded
<1>2. \A x, y \in Nat : x < y => <<x, y>> \in R
  BY DEF OpToRel
<1> HIDE DEF R
<1>3. PICK m \in S : \A y \in S : ~ (<<y, m>> \in R)
  BY <1>1, WFMin
<1>4. ASSUME NEW k \in S PROVE m <= k
  <2>1. m \in Nat /\ k \in Nat
    OBVIOUS
  <2>2. ~(k < m)
    BY <2>1, <1>2, <1>3
  <2> QED BY <2>1, <2>2
<1> QED BY <1>3, <1>4

(* Induction: a set that has 0, and n + 1 whenever it has n, has every      *)
(* natural.                                                                 *)
LEMMA NatInductive ==
  ASSUME NEW S, 0 \in S, \A n \in Nat : n \in S => n + 1 \in S
  PROVE  \A n \in Nat : n \in S
<1> SUFFICES ASSUME NEW n \in Nat, n \notin S PROVE FALSE
  OBVIOUS
<1>1. Nat \ S \in SUBSET Nat /\ Nat \ S # {}
  OBVIOUS
<1>2. PICK m \in Nat \ S : \A k \in Nat \ S : m <= k
  BY <1>1, NatLeast
<1>3. m # 0 /\ m - 1 \in Nat
  BY <1>2
<1>4. m - 1 \in S
  BY <1>2, <1>3
<1>5. (m - 1) + 1 \in S
  BY <1>3, <1>4
<1> QED BY <1>2, <1>5

(* Min of FiniteSetsExt is the least member of a set of naturals. *)
LEMMA MinNat ==
  ASSUME NEW S \in SUBSET Nat, S # {}
  PROVE  /\ Min(S) \in S
         /\ Min(S) \in Nat
         /\ \A x \in S : Min(S) <= x
<1>1. \E m \in S : \A y \in S : m <= y
  BY NatLeast
<1>2. Min(S) \in S /\ \A x \in S : Min(S) <= x
  BY <1>1, Zenon DEF Min
<1> QED BY <1>2

(* Max of FiniteSetsExt is the greatest member of a bounded set of naturals. *)
LEMMA MaxNat ==
  ASSUME NEW n \in Int, NEW S \in SUBSET (0..n), S # {}
  PROVE  /\ Max(S) \in S
         /\ Max(S) \in 0..n
         /\ \A x \in S : x <= Max(S)
<1> DEFINE T == {k \in Nat : n - k \in S}
<1>2. PICK s \in S : TRUE
  OBVIOUS
<1>1. n \in Nat
  <2>1. s \in 0..n
    OBVIOUS
  <2> QED BY <2>1
<1>3. n - s \in T
  BY <1>1, <1>2
<1>4. PICK m \in T : \A k \in T : m <= k
  BY <1>3, NatLeast
<1>5. ASSUME NEW x \in S PROVE x <= n - m
  <2>1. n - x \in T
    BY <1>1
  <2> QED BY <2>1, <1>4, <1>1
<1>6. \E y \in S : \A x \in S : y >= x
  <2>1. n - m \in S
    BY <1>4
  <2>2. \A x \in S : n - m >= x
    BY <1>5, <1>1, <1>4
  <2> QED BY <2>1, <2>2
<1>7. Max(S) \in S /\ \A x \in S : Max(S) >= x
  BY <1>6, Zenon DEF Max
<1> QED BY <1>7, <1>1

(* Min and Max of two integers. *)
LEMMA MinPair ==
  ASSUME NEW a \in Int, NEW b \in Int
  PROVE  Min({a, b}) = IF a <= b THEN a ELSE b
<1>1. \E m \in {a, b} : \A y \in {a, b} : m <= y
  <2>1. CASE a <= b  BY <2>1
  <2>2. CASE ~(a <= b)  BY <2>2
  <2> QED BY <2>1, <2>2
<1>2. Min({a, b}) \in {a, b} /\ \A x \in {a, b} : Min({a, b}) <= x
  BY <1>1, Zenon DEF Min
<1> QED BY <1>2

LEMMA MaxPair ==
  ASSUME NEW a \in Int, NEW b \in Int
  PROVE  Max({a, b}) = IF a >= b THEN a ELSE b
<1>1. \E m \in {a, b} : \A y \in {a, b} : m >= y
  <2>1. CASE a >= b  BY <2>1
  <2>2. CASE ~(a >= b)  BY <2>2
  <2> QED BY <2>1, <2>2
<1>2. Max({a, b}) \in {a, b} /\ \A x \in {a, b} : Max({a, b}) >= x
  BY <1>1, Zenon DEF Max
<1> QED BY <1>2

-----------------------------------------------------------------------------
(* Counting a set in ascending order *)

(* A finite set of n naturals has, for each k < n, a member above exactly k *)
(* others.                                                                  *)
LEMMA RankExists ==
  ASSUME NEW S \in SUBSET Nat, IsFiniteSet(S), NEW k \in 0..(Cardinality(S) - 1)
  PROVE  \E x \in S : Cardinality({y \in S : y < x}) = k
<1> DEFINE Rank(x) == Cardinality({y \in S : y < x})
           D == {j \in Nat : j < Cardinality(S) => \E x \in S : Rank(x) = j}
<1>0. \A x \in S : x \in Nat
  OBVIOUS
<1>1. Cardinality(S) \in Nat
  BY FS_CardinalityType
<1>2. 0 \in D
  <2>1. SUFFICES ASSUME 0 < Cardinality(S) PROVE \E x \in S : Rank(x) = 0
    OBVIOUS
  <2>2. S # {}
    BY <2>1, FS_EmptySet, <1>1
  <2>3. Min(S) \in S /\ Min(S) \in Nat /\ \A x \in S : Min(S) <= x
    BY <2>2, MinNat
  <2>4. {y \in S : y < Min(S)} = {}
    <3>1. ASSUME NEW y \in S PROVE ~(y < Min(S))
      BY <2>3, <1>0
    <3> QED BY <3>1
  <2> QED BY <2>3, <2>4, FS_EmptySet
<1>3. ASSUME NEW j \in Nat, j \in D PROVE j + 1 \in D
  <2>1. SUFFICES ASSUME j + 1 < Cardinality(S) PROVE \E x \in S : Rank(x) = j + 1
    OBVIOUS
  <2>2. PICK x \in S : Rank(x) = j
    BY <1>1, <1>3, <2>1
  <2> DEFINE L == {y \in S : y < x}
             A == {y \in S : y > x}
  <2>3. IsFiniteSet(L) /\ Cardinality(L) = j
    BY <2>2, FS_Subset
  <2>4. Cardinality(L \cup {x}) = j + 1
    BY <2>3, FS_AddElement
  <2>5. A # {}
    <3>1. SUFFICES ASSUME A = {} PROVE FALSE
      OBVIOUS
    <3>2. S = L \cup {x}
      <4>1. ASSUME NEW y \in S PROVE y < x \/ y = x
        BY <3>1, <1>0
      <4> QED BY <4>1
    <3> QED BY <3>2, <2>4, <2>1, <1>1
  <2>6. Min(A) \in A /\ \A y \in A : Min(A) <= y
    BY <2>5, MinNat
  <2>7. {y \in S : y < Min(A)} = L \cup {x}
    <3>1. Min(A) \in Nat /\ x < Min(A) /\ x \in Nat
      BY <2>6, <1>0
    <3>2. ASSUME NEW y \in S PROVE y < Min(A) <=> y < x \/ y = x
      BY <3>1, <2>6, <1>0
    <3> QED BY <3>2
  <2> QED BY <2>4, <2>6, <2>7
<1>4. k \in D
  <2> HIDE DEF D
  <2> QED BY <1>1, <1>2, <1>3, NatInductive
<1> QED BY <1>1, <1>4

(* The count determines the member and grows with it. *)
LEMMA RankOrder ==
  ASSUME NEW S \in SUBSET Nat, IsFiniteSet(S), NEW x \in S, NEW z \in S
  PROVE  /\ Cardinality({y \in S : y < x}) \in 0..(Cardinality(S) - 1)
         /\ x < z <=> Cardinality({y \in S : y < x}) < Cardinality({y \in S : y < z})
<1> DEFINE L(u) == {y \in S : y < u}
<1>0. \A u \in S : u \in Nat
  OBVIOUS
<1>1. ASSUME NEW u \in S
      PROVE  /\ IsFiniteSet(L(u)) /\ Cardinality(L(u)) \in Nat
             /\ IsFiniteSet(L(u) \cup {u})
             /\ Cardinality(L(u) \cup {u}) = Cardinality(L(u)) + 1
  <2>1. IsFiniteSet(L(u))
    BY FS_Subset
  <2>2. u \notin L(u)
    OBVIOUS
  <2> QED BY <2>1, <2>2, FS_AddElement, FS_CardinalityType
<1>2. ASSUME NEW u \in S, NEW v \in S, u < v
      PROVE  Cardinality(L(u)) < Cardinality(L(v))
  <2>1. L(u) \cup {u} \in SUBSET L(v)
    <3>1. ASSUME NEW y \in L(u) PROVE y \in L(v)
      BY <1>0, <1>2
    <3> QED BY <3>1, <1>2
  <2>2. Cardinality(L(u) \cup {u}) <= Cardinality(L(v))
    BY <2>1, <1>1, FS_Subset
  <2> HIDE DEF L
  <2>3. Cardinality(L(u)) \in Nat /\ Cardinality(L(v)) \in Nat
    BY <1>1
  <2>4. Cardinality(L(u) \cup {u}) = Cardinality(L(u)) + 1
    BY <1>1
  <2> QED BY <2>2, <2>3, <2>4
<1>3. Cardinality(L(x)) < Cardinality(S)
  <2>1. L(x) \cup {x} \in SUBSET S
    OBVIOUS
  <2>2. Cardinality(L(x) \cup {x}) <= Cardinality(S)
    BY <2>1, FS_Subset
  <2>3. Cardinality(S) \in Nat
    BY FS_CardinalityType
  <2> HIDE DEF L
  <2> QED BY <1>1, <2>2, <2>3
<1>4. Cardinality(S) \in Nat
  BY FS_CardinalityType
<1>5. x < z \/ x = z \/ z < x
  OBVIOUS
<1> HIDE DEF L
<1>6. x < z <=> Cardinality(L(x)) < Cardinality(L(z))
  <2>1. Cardinality(L(x)) \in Nat /\ Cardinality(L(z)) \in Nat
    BY <1>1
  <2>2. CASE x < z
    BY <2>2, <1>2
  <2>3. CASE x = z
    BY <2>3, <2>1, <1>0
  <2>4. CASE z < x
    BY <2>4, <2>1, <1>2, <1>0
  <2> QED BY <2>2, <2>3, <2>4, <1>5
<1>7. Cardinality(L(x)) \in 0..(Cardinality(S) - 1)
  <2>1. Cardinality(L(x)) \in Nat
    BY <1>1
  <2> QED BY <2>1, <1>3, <1>4
<1> QED BY <1>6, <1>7 DEF L

-----------------------------------------------------------------------------
(* Loops *)

(* The bodies of the n rounds of a loop over values in A. *)
Rounds(n, A) == [1..n -> [A -> A]]

(* h holds the values of the loop from the start to the end of round n. *)
Iterates(h, n, A, base, step) ==
  /\ h \in [0..n -> A]
  /\ h[0] = base
  /\ \A i \in 1..n : h[i] = step[i][h[i - 1]]

(* A loop that steps within A has a value after each of its n rounds. *)
LEMMA LoopExists ==
  ASSUME NEW n \in Nat, NEW A, NEW base \in A, NEW step \in Rounds(n, A)
  PROVE  \E h : Iterates(h, n, A, base, step)
<1> USE DEF Rounds
<1> DEFINE Runs(f, m) == f[0] = base /\ \A i \in 1..m : f[i] = step[i][f[i - 1]]
           D == {m \in Nat : m <= n => \E f \in [0..m -> A] : Runs(f, m)}
<1>1. 0 \in D
  <2>1. [i \in 0..0 |-> base] \in [0..0 -> A] /\ Runs([i \in 0..0 |-> base], 0)
    OBVIOUS
  <2> QED BY <2>1
<1>2. ASSUME NEW m \in Nat, m \in D PROVE m + 1 \in D
  <2>1. SUFFICES ASSUME m + 1 <= n PROVE \E f \in [0..(m + 1) -> A] : Runs(f, m + 1)
    OBVIOUS
  <2>2. PICK f \in [0..m -> A] : Runs(f, m)
    BY <1>2, <2>1
  <2> DEFINE g == [i \in 0..(m + 1) |-> IF i <= m THEN f[i] ELSE step[m + 1][f[m]]]
  <2>3. m + 1 \in 1..n /\ f[m] \in A
    BY <2>1
  <2>4. step[m + 1][f[m]] \in A
    BY <2>3
  <2>5. g \in [0..(m + 1) -> A]
    BY <2>4
  <2>6. ASSUME NEW i \in 1..(m + 1) PROVE g[i] = step[i][g[i - 1]]
    <3>1. CASE i <= m
      BY <3>1, <2>2
    <3>2. CASE i = m + 1
      BY <3>2
    <3> QED BY <3>1, <3>2
  <2>7. g[0] = base
    BY <2>2
  <2> QED BY <2>5, <2>6, <2>7
<1>3. n \in D
  <2> HIDE DEF D
  <2> QED BY <1>1, <1>2, NatInductive
<1> QED BY <1>3 DEF Iterates

(* What holds at the start of a loop, and after a round if before it, holds *)
(* at its end.                                                              *)
LEMMA LoopInvariant ==
  ASSUME NEW n \in Nat, NEW h, NEW Good,
         h[0] \in Good[0],
         \A i \in 1..n : h[i - 1] \in Good[i - 1] => h[i] \in Good[i]
  PROVE  \A i \in 0..n : h[i] \in Good[i]
<1> DEFINE D == {m \in Nat : m <= n => h[m] \in Good[m]}
<1>1. 0 \in D
  OBVIOUS
<1>2. ASSUME NEW m \in Nat, m \in D PROVE m + 1 \in D
  <2>1. SUFFICES ASSUME m + 1 <= n PROVE h[m + 1] \in Good[m + 1]
    OBVIOUS
  <2>2. m + 1 \in 1..n /\ (m + 1) - 1 = m /\ h[m] \in Good[m]
    BY <1>2, <2>1
  <2> QED BY <2>2
<1>3. \A m \in Nat : m \in D
  <2> HIDE DEF D
  <2> QED BY <1>1, <1>2, NatInductive
<1> QED BY <1>3

-----------------------------------------------------------------------------
(* Finite images *)

(* A function has finitely many values on a finite domain. *)
LEMMA ImageFinite ==
  ASSUME NEW S, IsFiniteSet(S), NEW f, DOMAIN f = S
  PROVE  IsFiniteSet({f[x] : x \in S}) /\ Cardinality({f[x] : x \in S}) <= Cardinality(S)
<1> DEFINE T == {f[x] : x \in S}
           g == [x \in S |-> f[x]]
<1>1. g \in [S -> T] /\ \A t \in T : \E x \in S : g[x] = t
  OBVIOUS
<1>2. g \in Surjection(S, T)
  <2> HIDE DEF T, g
  <2> QED BY <1>1 DEF Surjection
<1> HIDE DEF g, T
<1>3. IsFiniteSet(T) /\ Cardinality(T) <= Cardinality(S)
  BY <1>2, FS_Surjection
<1> QED BY <1>3 DEF T

-----------------------------------------------------------------------------
(* Ranges *)

LEMMA RangesType ==
  ASSUME NEW r \in Ranges
  PROVE  /\ r = [start |-> r.start, end |-> r.end]
         /\ r.start \in Nat /\ r.end \in Nat
         /\ r.start <= r.end /\ r.end <= MaxEnd
BY BlockPlanAssumption DEF Ranges, NewRange, Block

LEMMA NewRangeIs ==
  ASSUME NEW s \in Nat, NEW e \in Int
  PROVE  /\ NewRange(s, e) # NoRange <=> s <= e /\ e <= MaxEnd
         /\ NewRange(s, e) # NoRange => /\ NewRange(s, e) = [start |-> s, end |-> e]
                                        /\ NewRange(s, e) \in Ranges
<1>1. CASE s > e \/ e > MaxEnd
  BY <1>1, BlockPlanAssumption DEF NewRange
<1>2. CASE ~(s > e \/ e > MaxEnd)
  <2>1. NewRange(s, e) = [start |-> s, end |-> e]
    BY <1>2 DEF NewRange
  <2>2. [start |-> s, end |-> e] \in [start : Nat, end : Nat]
    BY <1>2
  <2>3. NewRange(s, e) # NoRange
    BY <2>1, <2>2, BlockPlanAssumption
  <2>4. s \in Block /\ e \in Block
    BY <1>2, BlockPlanAssumption DEF Block
  <2>5. NewRange(s, e) \in Ranges
    BY <2>3, <2>4 DEF Ranges
  <2> QED BY <1>2, <2>1, <2>3, <2>5, BlockPlanAssumption
<1> QED BY <1>1, <1>2

(* Ascending lists a finite set of naturals in order, each member once. *)
LEMMA AscendingIs ==
  ASSUME NEW S \in SUBSET Nat, IsFiniteSet(S)
  PROVE  LET A == Ascending(S) n == Cardinality(S)
         IN /\ n \in Nat /\ A \in [1..n -> S] /\ Len(A) = n /\ A \in Seq(Nat)
            /\ \A i, k \in 1..n : i < k => A[i] < A[k]
            /\ \A x \in S : \E i \in 1..n : A[i] = x
            /\ \A i \in 1..(n - 1) : \A x \in S : x <= A[i] \/ A[i + 1] <= x
<1> DEFINE A == Ascending(S)
           n == Cardinality(S)
           Rank(x) == Cardinality({y \in S : y < x})
<1>1. n \in Nat
  BY FS_CardinalityType
<1>2. \A i \in 1..n : A[i] \in S /\ Rank(A[i]) = i - 1
  <2> SUFFICES ASSUME NEW i \in 1..n PROVE A[i] \in S /\ Rank(A[i]) = i - 1
    OBVIOUS
  <2>1. i - 1 \in 0..(n - 1)
    BY <1>1
  <2>2. \E x \in S : Rank(x) = i - 1
    BY <2>1, RankExists
  <2>3. A[i] = CHOOSE x \in S : Rank(x) = i - 1
    BY DEF Ascending
  <2> HIDE DEF A, Rank
  <2> QED BY <2>2, <2>3
<1>3. A \in [1..n -> S] /\ Len(A) = n /\ A \in Seq(Nat)
  <2> DEFINE C(i) == CHOOSE x \in S : Rank(x) = i - 1
  <2>1. A = [i \in 1..n |-> C(i)]
    BY DEF Ascending
  <2> HIDE DEF A, n, C, Rank
  <2>2. \A i \in 1..n : C(i) \in S
    BY <1>2, <2>1
  <2>3. A \in [1..n -> S]
    BY <2>1, <2>2
  <2>4. A \in [1..n -> Nat]
    BY <2>1, <2>2
  <2>5. A \in Seq(Nat)
    BY <1>1, <2>4
  <2>6. Len(A) = n
    BY <1>1, <2>3, <2>5
  <2> QED BY <2>3, <2>5, <2>6
<1>4. \A x \in S : Rank(x) \in 0..(n - 1)
  BY RankOrder
<1>5. \A x, z \in S : x < z <=> Rank(x) < Rank(z)
  BY RankOrder
<1>6. \A x \in S : x \in Nat
  OBVIOUS
<1> HIDE DEF A, n, Rank
<1>7. \A i, k \in 1..n : i < k => A[i] < A[k]
  <2> SUFFICES ASSUME NEW i \in 1..n, NEW k \in 1..n, i < k PROVE A[i] < A[k]
    OBVIOUS
  <2>1. A[i] \in S /\ A[k] \in S /\ Rank(A[i]) = i - 1 /\ Rank(A[k]) = k - 1
    BY <1>2
  <2>2. Rank(A[i]) < Rank(A[k])
    BY <2>1, <1>1
  <2> QED BY <2>1, <2>2, <1>5
<1>8. \A x \in S : \E i \in 1..n : A[i] = x
  <2> SUFFICES ASSUME NEW x \in S PROVE \E i \in 1..n : A[i] = x
    OBVIOUS
  <2>1. Rank(x) + 1 \in 1..n
    BY <1>1, <1>4
  <2>2. A[Rank(x) + 1] \in S /\ Rank(A[Rank(x) + 1]) = Rank(x)
    BY <2>1, <1>2, <1>4
  <2>3. A[Rank(x) + 1] = x
    <3> DEFINE z == A[Rank(x) + 1]
    <3>1. z \in S /\ ~(Rank(x) < Rank(z)) /\ ~(Rank(z) < Rank(x))
      BY <2>2, <1>4
    <3>2. ~(x < z) /\ ~(z < x)
      BY <3>1, <1>5
    <3>3. z \in Nat /\ x \in Nat
      BY <3>1, <1>6
    <3> HIDE DEF z
    <3>4. z = x
      BY <3>2, <3>3
    <3> QED BY <3>4 DEF z
  <2> QED BY <2>1, <2>3
<1>9. \A i \in 1..(n - 1) : \A x \in S : x <= A[i] \/ A[i + 1] <= x
  <2> SUFFICES ASSUME NEW i \in 1..(n - 1), NEW x \in S PROVE x <= A[i] \/ A[i + 1] <= x
    OBVIOUS
  <2>1. PICK k \in 1..n : A[k] = x
    BY <1>8
  <2>2. i \in 1..n /\ i + 1 \in 1..n
    BY <1>1
  <2>3. A[i] \in Nat /\ A[i + 1] \in Nat /\ x \in Nat
    BY <2>2, <1>2, <1>6
  <2>4. k < i \/ k = i \/ k = i + 1 \/ i + 1 < k
    BY <2>2
  <2> QED BY <2>1, <2>2, <2>3, <2>4, <1>7
<1> QED BY <1>1, <1>3, <1>7, <1>8, <1>9 DEF A, n

-----------------------------------------------------------------------------
(* Multiranges *)

(* The runs of a set of blocks: each is a maximal interval of the set, they *)
(* are in order and apart, and together they are the set.                   *)
LEMMA MultirangeIs ==
  ASSUME NEW blocks \in SUBSET Block
  PROVE  LET M == Multirange(blocks)
         IN /\ M \in Seq(Ranges)
            /\ \A i \in DOMAIN M : /\ BlocksOf(M[i]) \subseteq blocks
                                   /\ M[i].end + 1 \notin blocks
            /\ \A b \in blocks : \E i \in DOMAIN M : b \in BlocksOf(M[i])
            /\ \A i, k \in DOMAIN M : i < k => M[i].end + 1 < M[k].start
<1> DEFINE S == {b \in blocks : b - 1 \notin blocks}
           EndOf(s) == Min({b \in blocks : b >= s /\ b + 1 \notin blocks})
           starts == Ascending(S)
           m == Cardinality(S)
           M == Multirange(blocks)
<1>1. MaxEnd \in Nat /\ \A b \in blocks : b \in Nat /\ b <= MaxEnd
  BY BlockPlanAssumption DEF Block
<1>2. S \in SUBSET Nat /\ IsFiniteSet(S)
  BY <1>1, FS_BoundedSetOfNaturals
<1>3. /\ m \in Nat /\ starts \in [1..m -> S] /\ Len(starts) = m /\ starts \in Seq(Nat)
      /\ \A i, k \in 1..m : i < k => starts[i] < starts[k]
      /\ \A x \in S : \E i \in 1..m : starts[i] = x
  BY <1>2, AscendingIs
<1>4. ASSUME NEW s \in blocks
      PROVE  /\ EndOf(s) \in blocks /\ EndOf(s) >= s /\ EndOf(s) + 1 \notin blocks
             /\ \A x \in s..EndOf(s) : x \in blocks
  <2> DEFINE T == {b \in blocks : b >= s /\ b + 1 \notin blocks}
  <2>1. T \in SUBSET Nat
    BY <1>1
  <2>2. T # {}
    <3> DEFINE G == {b \in blocks : b >= s}
    <3>1. G \in SUBSET (0..MaxEnd) /\ G # {}
      BY <1>1
    <3>2. Max(G) \in G /\ \A x \in G : x <= Max(G)
      <4>1. MaxEnd \in Int
        BY <1>1
      <4> HIDE DEF G
      <4> QED BY <3>1, <4>1, MaxNat
    <3>3. Max(G) + 1 \notin blocks
      <4>1. Max(G) \in Nat /\ Max(G) >= s
        BY <3>2, <1>1
      <4>2. ~(Max(G) + 1 <= Max(G)) /\ Max(G) + 1 >= s
        BY <4>1, <1>1
      <4> QED BY <3>2, <4>2
    <3> QED BY <3>2, <3>3
  <2>3. Min(T) \in T /\ Min(T) \in Nat /\ \A x \in T : Min(T) <= x
    BY <2>1, <2>2, MinNat
  <2>4. ASSUME NEW x \in s..Min(T), x \notin blocks PROVE FALSE
    <3> DEFINE U == {y \in Nat : s <= y /\ y <= Min(T) /\ y \notin blocks}
    <3>1. s \in Nat
      BY <1>1
    <3>2. x \in U
      BY <2>4, <3>1, <2>3
    <3>3. PICK u \in U : \A y \in U : u <= y
      BY <3>2, NatLeast
    <3>4. u # s /\ u - 1 \in Nat /\ s <= u - 1 /\ u - 1 < Min(T)
      BY <3>1, <3>3, <2>3
    <3>5. u - 1 \notin U
      BY <3>3, <3>4
    <3>6. u - 1 \in blocks
      BY <3>4, <3>5, <2>3
    <3>7. u - 1 + 1 \notin blocks
      BY <3>3
    <3>8. u - 1 \in T
      BY <3>1, <3>4, <3>6, <3>7
    <3>9. Min(T) <= u - 1
      BY <3>8, <2>3
    <3> QED BY <3>4, <3>9, <2>3
  <2>5. EndOf(s) = Min(T)
    OBVIOUS
  <2> QED BY <2>3, <2>4, <2>5
<1>5. M = [i \in 1..m |-> [start |-> starts[i], end |-> EndOf(starts[i])]]
  <2>1. DOMAIN starts = 1..m
    BY <1>3
  <2> QED BY <2>1 DEF Multirange
<1> HIDE DEF EndOf, starts, M, m
<1>6. ASSUME NEW i \in 1..m
      PROVE  /\ starts[i] \in blocks /\ starts[i] - 1 \notin blocks
             /\ M[i].start = starts[i] /\ M[i].end = EndOf(starts[i])
             /\ M[i] \in Ranges
  <2>1. starts[i] \in blocks /\ starts[i] - 1 \notin blocks
    BY <1>3
  <2>2. M[i] = [start |-> starts[i], end |-> EndOf(starts[i])]
    BY <1>5
  <2>3. EndOf(starts[i]) \in blocks /\ EndOf(starts[i]) >= starts[i]
    BY <2>1, <1>4
  <2>4. /\ starts[i] \in Nat /\ EndOf(starts[i]) \in Int
        /\ starts[i] <= EndOf(starts[i]) /\ EndOf(starts[i]) <= MaxEnd
    BY <2>1, <2>3, <1>1
  <2>5. M[i] \in Ranges
    BY <2>2, <2>4, NewRangeIs
  <2> QED BY <2>1, <2>2, <2>5
<1>7. M \in Seq(Ranges) /\ DOMAIN M = 1..m
  <2>1. DOMAIN M = 1..m /\ M \in [1..m -> Ranges]
    BY <1>5, <1>6
  <2> QED BY <2>1, <1>3
<1>8. ASSUME NEW i \in 1..m
      PROVE  BlocksOf(M[i]) \subseteq blocks /\ M[i].end + 1 \notin blocks
  BY <1>4, <1>6 DEF BlocksOf
<1>9. ASSUME NEW b \in blocks PROVE \E i \in 1..m : b \in BlocksOf(M[i])
  <2> DEFINE T == {s \in Nat : s <= b /\ \A x \in s..b : x \in blocks}
  <2>1. b \in T
    BY <1>1
  <2>2. PICK s \in T : \A y \in T : s <= y
    BY <2>1, NatLeast
  <2>3. s \in blocks
    BY <2>2, <1>1
  <2>4. s - 1 \notin blocks
    <3>1. SUFFICES ASSUME s - 1 \in blocks PROVE FALSE
      OBVIOUS
    <3>2. s - 1 \in Nat /\ s - 1 <= b
      BY <3>1, <1>1, <2>2
    <3>3. ASSUME NEW x \in (s - 1)..b PROVE x \in blocks
      <4>1. x = s - 1 \/ x \in s..b
        BY <3>2, <1>1, <2>2
      <4> QED BY <4>1, <3>1, <2>2
    <3>4. s - 1 \in T
      BY <3>2, <3>3
    <3> QED BY <3>4, <2>2
  <2>5. PICK i \in 1..m : starts[i] = s
    BY <2>3, <2>4, <1>3
  <2>6. EndOf(s) \in blocks /\ EndOf(s) >= s /\ EndOf(s) + 1 \notin blocks
    BY <2>3, <1>4
  <2>7. b <= EndOf(s)
    <3>1. SUFFICES ASSUME EndOf(s) < b PROVE FALSE
      BY <2>6, <1>1
    <3>2. EndOf(s) + 1 \in s..b
      BY <3>1, <2>6, <1>1, <2>2
    <3> QED BY <3>2, <2>2, <2>6
  <2>8. b \in s..EndOf(s)
    BY <2>2, <2>6, <2>7, <1>1
  <2> QED BY <2>5, <2>8, <1>6 DEF BlocksOf
<1>10. ASSUME NEW i \in 1..m, NEW k \in 1..m, i < k PROVE M[i].end + 1 < M[k].start
  <2>1. starts[i] < starts[k] /\ starts[i] \in Nat /\ starts[k] \in Nat
    BY <1>10, <1>3
  <2>2. EndOf(starts[i]) \in Nat
    BY <1>1, <1>4, <1>6
  <2>3. starts[k] - 1 \notin starts[i]..EndOf(starts[i])
    BY <1>4, <1>6
  <2> QED BY <2>1, <2>2, <2>3, <1>6
<1> QED BY <1>7, <1>8, <1>9, <1>10 DEF M

-----------------------------------------------------------------------------
(* Flattened *)

(* F has the members of the first n sequences, in an order that R allows if *)
(* it allows the order within the sequences and from one to a later one.    *)
Flat(F, seqs, n, R) ==
  /\ \A i \in 1..n : \A j \in DOMAIN seqs[i] : \E k \in DOMAIN F : F[k] = seqs[i][j]
  /\ \A k \in DOMAIN F : \E i \in 1..n : \E j \in DOMAIN seqs[i] : F[k] = seqs[i][j]
  /\ \A k, l \in DOMAIN F : k < l => <<F[k], F[l]>> \in R

Sorted(seqs, R) ==
  /\ \A i \in DOMAIN seqs : \A j, k \in DOMAIN seqs[i] : j < k => <<seqs[i][j], seqs[i][k]>> \in R
  /\ \A i, k \in DOMAIN seqs : i < k =>
       \A j \in DOMAIN seqs[i], l \in DOMAIN seqs[k] : <<seqs[i][j], seqs[k][l]>> \in R

LEMMA ShiftedIn ==
  ASSUME NEW m \in Nat, NEW l \in Nat, NEW j \in 1..l
  PROVE  m + j \in 1..(m + l)
OBVIOUS

LEMMA FlatStep ==
  ASSUME NEW A, NEW seqs \in Seq(Seq(A)), NEW R, Sorted(seqs, R),
         NEW F \in Seq(A), NEW n \in Nat, n + 1 \in DOMAIN seqs, Flat(F, seqs, n, R)
  PROVE  F \o seqs[n + 1] \in Seq(A) /\ Flat(F \o seqs[n + 1], seqs, n + 1, R)
<1> DEFINE s == seqs[n + 1]
           G == F \o s
<1>1. s \in Seq(A)
  OBVIOUS
<1>2. /\ G \in Seq(A) /\ DOMAIN G = 1..(Len(F) + Len(s)) /\ Len(F) \in Nat /\ Len(s) \in Nat
      /\ DOMAIN F = 1..Len(F) /\ DOMAIN s = 1..Len(s)
      /\ \A k \in 1..Len(F) : G[k] = F[k]
      /\ \A j \in 1..Len(s) : G[Len(F) + j] = s[j]
  BY <1>1
<1>3. \A i \in 1..n : i \in DOMAIN seqs /\ i < n + 1
  OBVIOUS
<1>4. \A k \in DOMAIN G : k \in DOMAIN F \/ (k - Len(F) \in DOMAIN s /\ G[k] = s[k - Len(F)])
  BY <1>2
<1> HIDE DEF G, s
<1>5. ASSUME NEW i \in 1..(n + 1), NEW j \in DOMAIN seqs[i]
      PROVE  \E k \in DOMAIN G : G[k] = seqs[i][j]
  <2>1. CASE i \in 1..n
    <3>1. PICK k \in DOMAIN F : F[k] = seqs[i][j]
      BY <2>1 DEF Flat
    <3>2. k \in DOMAIN G /\ G[k] = F[k]
      BY <1>2
    <3> QED BY <3>1, <3>2
  <2>2. CASE i = n + 1
    <3>1. j \in 1..Len(s) /\ s[j] = seqs[i][j]
      BY <2>2, <1>2 DEF s
    <3>2. Len(F) + j \in 1..(Len(F) + Len(s))
      BY <3>1, <1>2, ShiftedIn, Zenon
    <3>3. Len(F) + j \in DOMAIN G /\ G[Len(F) + j] = s[j]
      BY <3>1, <3>2, <1>2, Zenon
    <3> QED BY <3>1, <3>3, Zenon
  <2> QED BY <2>1, <2>2
<1>6. ASSUME NEW k \in DOMAIN G
      PROVE  \E i \in 1..(n + 1) : \E j \in DOMAIN seqs[i] : G[k] = seqs[i][j]
  <2>1. CASE k \in DOMAIN F
    <3>1. PICK i \in 1..n : \E j \in DOMAIN seqs[i] : F[k] = seqs[i][j]
      BY <2>1 DEF Flat
    <3>2. i \in 1..(n + 1) /\ G[k] = F[k]
      BY <2>1, <1>2
    <3> QED BY <3>1, <3>2
  <2>2. CASE k - Len(F) \in DOMAIN s /\ G[k] = s[k - Len(F)]
    <3>1. n + 1 \in 1..(n + 1)
      OBVIOUS
    <3> QED BY <2>2, <3>1 DEF s
  <2> QED BY <2>1, <2>2, <1>4
<1>7. ASSUME NEW k \in DOMAIN G, NEW l \in DOMAIN G, k < l PROVE <<G[k], G[l]>> \in R
  <2>1. CASE l \in DOMAIN F
    <3>1. k \in DOMAIN F
      BY <2>1, <1>2, <1>7
    <3>2. G[k] = F[k] /\ G[l] = F[l]
      BY <2>1, <3>1, <1>2
    <3> QED BY <2>1, <3>1, <3>2, <1>7 DEF Flat
  <2>2. CASE k \in DOMAIN F /\ l - Len(F) \in DOMAIN s /\ G[l] = s[l - Len(F)]
    <3>1. PICK i \in 1..n : \E j \in DOMAIN seqs[i] : F[k] = seqs[i][j]
      BY <2>2 DEF Flat
    <3>2. PICK j \in DOMAIN seqs[i] : F[k] = seqs[i][j]
      BY <3>1
    <3>3. i \in DOMAIN seqs /\ i < n + 1
      BY <1>3
    <3>4. <<seqs[i][j], seqs[n + 1][l - Len(F)]>> \in R
      BY <2>2, <3>3 DEF Sorted, s
    <3>5. G[k] = F[k]
      BY <2>2, <1>2
    <3> QED BY <2>2, <3>2, <3>4, <3>5 DEF s
  <2>3. CASE /\ k \notin DOMAIN F
             /\ k - Len(F) \in DOMAIN s /\ G[k] = s[k - Len(F)]
             /\ l - Len(F) \in DOMAIN s /\ G[l] = s[l - Len(F)]
    <3>1. k - Len(F) < l - Len(F)
      BY <1>2, <1>7
    <3>2. <<s[k - Len(F)], s[l - Len(F)]>> \in R
      BY <2>3, <3>1 DEF Sorted, s
    <3> QED BY <2>3, <3>2
  <2> QED BY <2>1, <2>2, <2>3, <1>4
<1>8. Flat(G, seqs, n + 1, R)
  BY <1>5, <1>6, <1>7 DEF Flat
<1> QED BY <1>2, <1>8 DEF G, s

LEMMA FlattenIs ==
  ASSUME NEW A, NEW seqs \in Seq(Seq(A)), NEW R, Sorted(seqs, R)
  PROVE  Flattened(seqs) \in Seq(A) /\ Flat(Flattened(seqs), seqs, Len(seqs), R)
<1> DEFINE n == Len(seqs)
           Eq(f) == f = [i \in 0..n |-> IF i = 0 THEN <<>> ELSE f[i - 1] \o seqs[i]]
           out == CHOOSE f : Eq(f)
<1>1. n \in Nat /\ DOMAIN seqs = 1..n /\ \A i \in 1..n : seqs[i] \in Seq(A)
  OBVIOUS
<1>2. Flattened(seqs) = out[n]
  BY DEF Flattened
<1> HIDE DEF n
<1>3. \E f : Eq(f)
  <2> DEFINE step == [i \in 1..n |-> [x \in Seq(A) |-> x \o seqs[i]]]
  <2>1. \A i \in 1..n : \A x \in Seq(A) : x \o seqs[i] \in Seq(A)
    BY <1>1
  <2>2. step \in Rounds(n, Seq(A))
    BY <2>1 DEF Rounds
  <2>3. PICK h : Iterates(h, n, Seq(A), <<>>, step)
    <3>1. <<>> \in Seq(A)
      OBVIOUS
    <3> HIDE DEF step
    <3> QED BY <1>1, <2>2, <3>1, LoopExists
  <2>4. ASSUME NEW i \in 0..n
        PROVE  h[i] = IF i = 0 THEN <<>> ELSE h[i - 1] \o seqs[i]
    <3>1. CASE i = 0
      BY <3>1, <2>3 DEF Iterates
    <3>2. CASE i # 0
      <4>1. i \in 1..n /\ i - 1 \in 0..n
        BY <3>2, <1>1
      <4>2. h[i] = step[i][h[i - 1]] /\ h[i - 1] \in Seq(A)
        BY <4>1, <2>3 DEF Iterates
      <4>3. h[i] = h[i - 1] \o seqs[i]
        BY <4>1, <4>2
      <4> QED BY <3>2, <4>3
    <3> QED BY <3>1, <3>2
  <2>5. h = [i \in 0..n |-> h[i]]
    BY <2>3 DEF Iterates
  <2>6. Eq(h)
    BY <2>4, <2>5
  <2> HIDE DEF Eq
  <2> QED BY <2>6
<1>4. Eq(out)
  <2> HIDE DEF Eq
  <2> QED BY <1>3
<1> HIDE DEF out
<1>5. out[0] = <<>> /\ \A i \in 1..n : out[i] = out[i - 1] \o seqs[i]
  <2>1. \A i \in 0..n : out[i] = IF i = 0 THEN <<>> ELSE out[i - 1] \o seqs[i]
    BY <1>4, Zenon
  <2>2. 0 \in 0..n /\ \A i \in 1..n : i \in 0..n /\ i # 0
    BY <1>1
  <2> HIDE DEF Eq
  <2> QED BY <2>1, <2>2
<1> HIDE DEF Eq
<1> DEFINE Good == [i \in 0..n |-> {x \in Seq(A) : Flat(x, seqs, i, R)}]
<1>6. out[0] \in Good[0]
  <2>1. Flat(<<>>, seqs, 0, R)
    BY DEF Flat
  <2>2. <<>> \in Seq(A) /\ 0 \in 0..n
    BY <1>1
  <2> QED BY <2>1, <2>2, <1>5
<1>7. ASSUME NEW i \in 1..n, out[i - 1] \in Good[i - 1] PROVE out[i] \in Good[i]
  <2> DEFINE k == i - 1
  <2>1. k \in 0..n /\ i \in 0..n /\ k \in Nat /\ k + 1 = i /\ k + 1 \in DOMAIN seqs
    BY <1>1
  <2>2. out[k] \in Seq(A) /\ Flat(out[k], seqs, k, R)
    BY <1>7, <2>1
  <2>3. out[i] = out[k] \o seqs[k + 1]
    BY <1>5, <2>1
  <2> HIDE DEF k
  <2>4. out[i] \in Seq(A) /\ Flat(out[i], seqs, k + 1, R)
    BY <2>1, <2>2, <2>3, FlatStep
  <2> QED BY <2>1, <2>4
<1>8. \A i \in 0..n : out[i] \in Good[i]
  <2> HIDE DEF Good
  <2> QED BY <1>1, <1>6, <1>7, LoopInvariant
<1>9. out[n] \in Seq(A) /\ Flat(out[n], seqs, n, R)
  <2>1. n \in 0..n
    BY <1>1
  <2> QED BY <1>8, <2>1
<1> QED BY <1>2, <1>9 DEF n

(* The members alone, when order does not matter. *)
LEMMA FlattenMembers ==
  ASSUME NEW A, NEW seqs \in Seq(Seq(A))
  PROVE  /\ Flattened(seqs) \in Seq(A)
         /\ \A x : (\E k \in DOMAIN Flattened(seqs) : Flattened(seqs)[k] = x)
                     <=> \E i \in DOMAIN seqs : \E j \in DOMAIN seqs[i] : seqs[i][j] = x
<1> DEFINE R == A \X A
           F == Flattened(seqs)
<1>1. \A i \in DOMAIN seqs : \A j \in DOMAIN seqs[i] : seqs[i][j] \in A
  OBVIOUS
<1>2. Sorted(seqs, R)
  BY <1>1 DEF Sorted
<1> HIDE DEF R
<1>3. F \in Seq(A) /\ Flat(F, seqs, Len(seqs), R)
  BY <1>2, FlattenIs
<1>4. DOMAIN seqs = 1..Len(seqs)
  OBVIOUS
<1> HIDE DEF F
<1>5. \A x : (\E k \in DOMAIN F : F[k] = x)
              <=> \E i \in DOMAIN seqs : \E j \in DOMAIN seqs[i] : seqs[i][j] = x
  <2> SUFFICES ASSUME NEW x
               PROVE  (\E k \in DOMAIN F : F[k] = x)
                        <=> \E i \in DOMAIN seqs : \E j \in DOMAIN seqs[i] : seqs[i][j] = x
    OBVIOUS
  <2>1. ASSUME NEW k \in DOMAIN F, F[k] = x
        PROVE  \E i \in DOMAIN seqs : \E j \in DOMAIN seqs[i] : seqs[i][j] = x
    BY <2>1, <1>3, <1>4 DEF Flat
  <2>2. ASSUME NEW i \in DOMAIN seqs, NEW j \in DOMAIN seqs[i], seqs[i][j] = x
        PROVE  \E k \in DOMAIN F : F[k] = x
    BY <2>2, <1>3, <1>4 DEF Flat
  <2> QED BY <2>1, <2>2
<1> QED BY <1>3, <1>5 DEF F

-----------------------------------------------------------------------------
(* Common parts *)

LEMMA IntersectIs ==
  ASSUME NEW x \in Ranges, NEW y \in Ranges
  PROVE  /\ Intersect(x, y) # NoRange => Intersect(x, y) \in Ranges
         /\ Intersect(x, y) # NoRange <=> \E b \in Nat : b \in BlocksOf(x) /\ b \in BlocksOf(y)
         /\ Intersect(x, y) # NoRange =>
              /\ Intersect(x, y).start = Greatest(x.start, y.start)
              /\ Intersect(x, y).end = Least(x.end, y.end)
         /\ Intersect(x, y) # NoRange =>
              \A b \in Int : b \in BlocksOf(Intersect(x, y)) <=> b \in BlocksOf(x) /\ b \in BlocksOf(y)
<1> DEFINE s == Greatest(x.start, y.start)
           e == Least(x.end, y.end)
<1>1. /\ x.start \in Nat /\ x.end \in Nat /\ x.start <= x.end /\ x.end <= MaxEnd
      /\ y.start \in Nat /\ y.end \in Nat /\ y.start <= y.end /\ y.end <= MaxEnd
      /\ MaxEnd \in Nat
  BY RangesType, BlockPlanAssumption
<1>2. /\ s \in Nat /\ e \in Nat /\ e <= MaxEnd
      /\ x.start <= s /\ y.start <= s /\ (s = x.start \/ s = y.start)
      /\ e <= x.end /\ e <= y.end /\ (e = x.end \/ e = y.end)
  BY <1>1 DEF Greatest, Least
<1>3. Intersect(x, y) = NewRange(s, e)
  BY DEF Intersect
<1> HIDE DEF s, e
<1>4. /\ NewRange(s, e) # NoRange <=> s <= e
      /\ NewRange(s, e) # NoRange => /\ NewRange(s, e) \in Ranges
                                     /\ NewRange(s, e) = [start |-> s, end |-> e]
  <2>1. e \in Int
    BY <1>2
  <2> QED BY <2>1, <1>2, NewRangeIs
<1>5. \A b \in Int : b \in BlocksOf(x) /\ b \in BlocksOf(y) <=> s <= b /\ b <= e
  BY <1>1, <1>2 DEF BlocksOf
<1>6. NewRange(s, e) # NoRange <=> \E b \in Nat : b \in BlocksOf(x) /\ b \in BlocksOf(y)
  BY <1>2, <1>4, <1>5
<1>7. NewRange(s, e) # NoRange =>
        /\ NewRange(s, e).start = s /\ NewRange(s, e).end = e
        /\ \A b \in Int : b \in BlocksOf(NewRange(s, e)) <=> s <= b /\ b <= e
  BY <1>2, <1>4 DEF BlocksOf
<1> QED BY <1>3, <1>4, <1>5, <1>6, <1>7 DEF s, e

(* intersect_ranges returns the intersections of a left and a right range. *)
LEMMA IntersectRangesIs ==
  ASSUME NEW left \in Seq(Ranges), NEW right \in Seq(Ranges)
  PROVE  LET I == IntersectRanges(left, right)
         IN /\ I \in Seq(Ranges)
            /\ \A i \in DOMAIN left, k \in DOMAIN right :
                 Intersect(left[i], right[k]) # NoRange =>
                   \E j \in DOMAIN I : I[j] = Intersect(left[i], right[k])
            /\ \A j \in DOMAIN I : \E i \in DOMAIN left, k \in DOMAIN right :
                 I[j] = Intersect(left[i], right[k]) /\ I[j] # NoRange
<1> DEFINE cell(i, k) == Valid(Intersect(left[i], right[k]))
           rowOf(i) == [k \in DOMAIN right |-> cell(i, k)]
           flat(i) == Flattened(rowOf(i))
           all == [i \in DOMAIN left |-> flat(i)]
           I == IntersectRanges(left, right)
<1>1. \A i \in DOMAIN left, k \in DOMAIN right :
        /\ left[i] \in Ranges /\ right[k] \in Ranges
        /\ cell(i, k) \in Seq(Ranges)
        /\ \A j \in DOMAIN cell(i, k) : /\ cell(i, k)[j] = Intersect(left[i], right[k])
                                        /\ Intersect(left[i], right[k]) # NoRange
        /\ Intersect(left[i], right[k]) # NoRange =>
             1 \in DOMAIN cell(i, k) /\ cell(i, k)[1] = Intersect(left[i], right[k])
  <2> SUFFICES ASSUME NEW i \in DOMAIN left, NEW k \in DOMAIN right
               PROVE  /\ left[i] \in Ranges /\ right[k] \in Ranges
                      /\ cell(i, k) \in Seq(Ranges)
                      /\ \A j \in DOMAIN cell(i, k) :
                           /\ cell(i, k)[j] = Intersect(left[i], right[k])
                           /\ Intersect(left[i], right[k]) # NoRange
                      /\ Intersect(left[i], right[k]) # NoRange =>
                           1 \in DOMAIN cell(i, k) /\ cell(i, k)[1] = Intersect(left[i], right[k])
    OBVIOUS
  <2> DEFINE x == Intersect(left[i], right[k])
  <2>1. left[i] \in Ranges /\ right[k] \in Ranges
    OBVIOUS
  <2>2. x # NoRange => x \in Ranges
    BY <2>1, IntersectIs
  <2> HIDE DEF x
  <2>3. CASE x = NoRange
    <3>1. cell(i, k) = <<>>
      BY <2>3 DEF Valid, x
    <3> QED BY <3>1, <2>1, <2>3 DEF x
  <2>4. CASE x # NoRange
    <3>1. cell(i, k) = <<x>>
      BY <2>4 DEF Valid, x
    <3>2. <<x>> \in Seq(Ranges) /\ DOMAIN <<x>> = {1} /\ <<x>>[1] = x
      BY <2>2, <2>4
    <3> HIDE DEF cell
    <3> QED BY <3>1, <3>2, <2>1, <2>4 DEF x
  <2> QED BY <2>3, <2>4
<1>2. I = Flattened(all)
  BY DEF IntersectRanges
<1> HIDE DEF cell
<1>3. ASSUME NEW i \in DOMAIN left
      PROVE  /\ flat(i) \in Seq(Ranges)
             /\ \A x : (\E k \in DOMAIN flat(i) : flat(i)[k] = x)
                  <=> \E k \in DOMAIN right : \E j \in DOMAIN cell(i, k) : cell(i, k)[j] = x
  <2>1. DOMAIN rowOf(i) = DOMAIN right /\ \A k \in DOMAIN right : rowOf(i)[k] = cell(i, k)
    OBVIOUS
  <2>2. rowOf(i) \in Seq(Seq(Ranges))
    <3>1. rowOf(i) \in [1..Len(right) -> Seq(Ranges)]
      BY <1>1
    <3>2. Len(right) \in Nat
      OBVIOUS
    <3> HIDE DEF rowOf
    <3> QED BY <3>1, <3>2
  <2> DEFINE m == rowOf(i)
  <2>3. m \in Seq(Seq(Ranges)) /\ DOMAIN m = DOMAIN right /\ \A k \in DOMAIN right : m[k] = cell(i, k)
    BY <2>1, <2>2
  <2>4. flat(i) = Flattened(m)
    OBVIOUS
  <2> HIDE DEF m, flat
  <2>5. /\ Flattened(m) \in Seq(Ranges)
        /\ \A x : (\E k \in DOMAIN Flattened(m) : Flattened(m)[k] = x)
             <=> \E k \in DOMAIN m : \E j \in DOMAIN m[k] : m[k][j] = x
    <3>1. m \in Seq(Seq(Ranges))
      BY <2>3
    <3> QED BY <3>1, FlattenMembers, Zenon
  <2>6. \A x : (\E k \in DOMAIN m : \E j \in DOMAIN m[k] : m[k][j] = x)
           <=> \E k \in DOMAIN right : \E j \in DOMAIN cell(i, k) : cell(i, k)[j] = x
    BY <2>3
  <2> QED BY <2>4, <2>5, <2>6
<1> HIDE DEF flat
<1>4. DOMAIN all = DOMAIN left /\ \A i \in DOMAIN left : all[i] = flat(i)
  OBVIOUS
<1>5. all \in Seq(Seq(Ranges))
  <2>1. all \in [1..Len(left) -> Seq(Ranges)] /\ Len(left) \in Nat
    BY <1>3
  <2> HIDE DEF all
  <2> QED BY <2>1
<1> HIDE DEF all
<1>6. /\ I \in Seq(Ranges)
      /\ \A x : (\E k \in DOMAIN I : I[k] = x)
           <=> \E i \in DOMAIN left : \E j \in DOMAIN flat(i) : flat(i)[j] = x
  <2>1. /\ Flattened(all) \in Seq(Ranges)
        /\ \A x : (\E k \in DOMAIN Flattened(all) : Flattened(all)[k] = x)
             <=> \E i \in DOMAIN all : \E j \in DOMAIN all[i] : all[i][j] = x
    BY <1>5, FlattenMembers, Zenon
  <2>2. \A x : (\E i \in DOMAIN all : \E j \in DOMAIN all[i] : all[i][j] = x)
           <=> \E i \in DOMAIN left : \E j \in DOMAIN flat(i) : flat(i)[j] = x
    BY <1>4
  <2> HIDE DEF I
  <2> QED BY <1>2, <2>1, <2>2
<1> HIDE DEF I
<1>7. ASSUME NEW i \in DOMAIN left, NEW k \in DOMAIN right,
             Intersect(left[i], right[k]) # NoRange
      PROVE  \E j \in DOMAIN I : I[j] = Intersect(left[i], right[k])
  <2>1. 1 \in DOMAIN cell(i, k) /\ cell(i, k)[1] = Intersect(left[i], right[k])
    BY <1>1, <1>7
  <2>2. \E j \in DOMAIN flat(i) : flat(i)[j] = Intersect(left[i], right[k])
    BY <2>1, <1>3
  <2> QED BY <2>2, <1>6
<1>8. ASSUME NEW j \in DOMAIN I
      PROVE  \E i \in DOMAIN left, k \in DOMAIN right :
               I[j] = Intersect(left[i], right[k]) /\ I[j] # NoRange
  <2>1. PICK i \in DOMAIN left : \E l \in DOMAIN flat(i) : flat(i)[l] = I[j]
    BY <1>6
  <2>2. PICK k \in DOMAIN right : \E l \in DOMAIN cell(i, k) : cell(i, k)[l] = I[j]
    BY <2>1, <1>3
  <2> QED BY <2>2, <1>1
<1> QED BY <1>6, <1>7, <1>8 DEF I

-----------------------------------------------------------------------------
(* The gaps of a range *)

Walk == [gaps : Seq(Ranges), next : Nat]

(* After the first n spans: acc.next is past every block of them in range,  *)
(* and below it every block of range is in a span or in a gap.              *)
Walked(acc, range, covered, n) ==
  /\ acc \in Walk
  /\ range.start <= acc.next
  /\ \A j \in 1..n : \A b \in BlocksOf(range) : b \in BlocksOf(covered[j]) => b < acc.next
  /\ \A b \in BlocksOf(range) : b < acc.next =>
       \/ \E j \in DOMAIN covered : b \in BlocksOf(covered[j])
       \/ \E i \in DOMAIN acc.gaps : b \in BlocksOf(acc.gaps[i])
  /\ \A i \in DOMAIN acc.gaps :
       /\ range.start <= acc.gaps[i].start /\ acc.gaps[i].end <= range.end
       /\ acc.gaps[i].end < acc.next
       /\ \A j \in DOMAIN covered : \A b \in BlocksOf(acc.gaps[i]) : b \notin BlocksOf(covered[j])
  /\ \A i, k \in DOMAIN acc.gaps : i < k => acc.gaps[i].end < acc.gaps[k].start

(* A gap pushed behind the gaps found so far. *)
LEMMA PushGap ==
  ASSUME NEW range \in Ranges, NEW covered \in Seq(Ranges), NEW n \in Nat,
         NEW acc, Walked(acc, range, covered, n),
         NEW e \in Nat, acc.next <= e, e <= range.end, NEW m \in Nat, e < m,
         \A j \in DOMAIN covered : \A b \in acc.next..e : b \notin BlocksOf(covered[j])
  PROVE  LET G == acc.gaps \o Valid(NewRange(acc.next, e))
         IN /\ G \in Seq(Ranges)
            /\ \A b \in BlocksOf(range) : b <= e =>
                 \/ \E j \in DOMAIN covered : b \in BlocksOf(covered[j])
                 \/ \E i \in DOMAIN G : b \in BlocksOf(G[i])
            /\ \A i \in DOMAIN G :
                 /\ range.start <= G[i].start /\ G[i].end <= range.end
                 /\ G[i].end < m
                 /\ \A j \in DOMAIN covered : \A b \in BlocksOf(G[i]) : b \notin BlocksOf(covered[j])
            /\ \A i, k \in DOMAIN G : i < k => G[i].end < G[k].start
<1> DEFINE x == [start |-> acc.next, end |-> e]
           gs == acc.gaps
           G == Append(gs, x)
           l == Len(gs)
<1>1. /\ range.start \in Nat /\ range.end \in Nat /\ range.end <= MaxEnd
      /\ acc.next \in Nat /\ gs \in Seq(Ranges) /\ range.start <= acc.next
  BY RangesType DEF Walked, Walk
<1>2. NewRange(acc.next, e) = x /\ x \in Ranges /\ NewRange(acc.next, e) # NoRange
  <2>1. e \in Int
    OBVIOUS
  <2>2. MaxEnd \in Nat
    BY BlockPlanAssumption
  <2> QED BY <1>1, <2>1, <2>2, NewRangeIs
<1>3. acc.gaps \o Valid(NewRange(acc.next, e)) = G
  <2>1. Valid(NewRange(acc.next, e)) = <<x>>
    BY <1>2 DEF Valid
  <2> HIDE DEF x
  <2>2. gs \o <<x>> = Append(gs, x)
    BY <1>1
  <2> QED BY <2>1, <2>2
<1>4. x.start = acc.next /\ x.end = e /\ BlocksOf(x) = acc.next..e
  BY DEF BlocksOf
<1> HIDE DEF x
<1>5. /\ G \in Seq(Ranges) /\ l \in Nat /\ DOMAIN gs = 1..l /\ DOMAIN G = 1..(l + 1)
      /\ \A i \in 1..l : G[i] = gs[i]
      /\ G[l + 1] = x
  BY <1>1, <1>2
<1>6. /\ \A b \in BlocksOf(range) : b < acc.next =>
           \/ \E j \in DOMAIN covered : b \in BlocksOf(covered[j])
           \/ \E i \in 1..l : b \in BlocksOf(gs[i])
      /\ \A i \in 1..l :
           /\ range.start <= gs[i].start /\ gs[i].end <= range.end
           /\ gs[i].end < acc.next
           /\ \A j \in DOMAIN covered : \A b \in BlocksOf(gs[i]) : b \notin BlocksOf(covered[j])
      /\ \A i, k \in 1..l : i < k => gs[i].end < gs[k].start
  BY <1>5 DEF Walked
<1>7. \A i \in 1..l : gs[i].end \in Nat
  BY <1>5, <1>1, RangesType
<1> HIDE DEF G, gs, l
<1>8. ASSUME NEW b \in BlocksOf(range), b <= e
      PROVE  \/ \E j \in DOMAIN covered : b \in BlocksOf(covered[j])
             \/ \E i \in DOMAIN G : b \in BlocksOf(G[i])
  <2>1. b \in Int
    BY DEF BlocksOf
  <2>2. CASE b < acc.next
    <3>1. CASE \E j \in DOMAIN covered : b \in BlocksOf(covered[j])
      BY <3>1
    <3>2. CASE \E i \in 1..l : b \in BlocksOf(gs[i])
      <4>1. PICK i \in 1..l : b \in BlocksOf(gs[i])
        BY <3>2
      <4>2. i \in 1..(l + 1) /\ G[i] = gs[i]
        BY <1>5
      <4> QED BY <4>1, <4>2, <1>5
    <3> QED BY <3>1, <3>2, <2>2, <1>6
  <2>3. CASE acc.next <= b
    <3>1. b \in BlocksOf(x) /\ l + 1 \in 1..(l + 1)
      BY <2>1, <2>3, <1>8, <1>4, <1>5, <1>1
    <3> QED BY <3>1, <1>5
  <2> QED BY <2>1, <2>2, <2>3, <1>1
<1>9. ASSUME NEW i \in DOMAIN G
      PROVE  /\ range.start <= G[i].start /\ G[i].end <= range.end
             /\ G[i].end < m
             /\ \A j \in DOMAIN covered : \A b \in BlocksOf(G[i]) : b \notin BlocksOf(covered[j])
  <2>1. CASE i \in 1..l
    BY <2>1, <1>1, <1>5, <1>6, <1>7
  <2>2. CASE i = l + 1
    BY <2>2, <1>1, <1>4, <1>5
  <2> QED BY <2>1, <2>2, <1>5
<1>10. ASSUME NEW i \in DOMAIN G, NEW k \in DOMAIN G, i < k
       PROVE  G[i].end < G[k].start
  <2>1. i \in 1..l
    BY <1>5, <1>10
  <2>2. CASE k \in 1..l
    BY <2>1, <2>2, <1>5, <1>6, <1>10
  <2>3. CASE k = l + 1
    BY <2>1, <2>3, <1>4, <1>5, <1>6
  <2> QED BY <2>2, <2>3, <1>5
<1> QED BY <1>3, <1>5, <1>8, <1>9, <1>10 DEF gs, G

LEMMA PassWalks ==
  ASSUME NEW range \in Ranges, NEW covered \in Seq(Ranges),
         \A i, k \in DOMAIN covered : i < k => covered[i].end + 1 < covered[k].start,
         NEW n \in Nat, n + 1 \in DOMAIN covered,
         NEW acc, Walked(acc, range, covered, n)
  PROVE  LET hit == Intersect(covered[n + 1], range)
         IN /\ hit = NoRange => Walked(acc, range, covered, n + 1)
            /\ hit # NoRange => Walked(Pass(acc, hit), range, covered, n + 1)
<1> DEFINE c == covered[n + 1]
           hit == Intersect(c, range)
<1>1. c \in Ranges
  OBVIOUS
<1>2. /\ c.start \in Nat /\ c.end \in Nat /\ c.start <= c.end /\ c.end <= MaxEnd
      /\ range.start \in Nat /\ range.end \in Nat /\ range.start <= range.end /\ range.end <= MaxEnd
      /\ MaxEnd \in Nat /\ MaxU64 \in Nat /\ MaxEnd < MaxU64
  BY <1>1, RangesType, BlockPlanAssumption
<1>3. /\ hit # NoRange => hit \in Ranges
      /\ hit # NoRange <=> \E b \in Nat : b \in BlocksOf(c) /\ b \in BlocksOf(range)
      /\ hit # NoRange => /\ hit.start = Greatest(c.start, range.start)
                          /\ hit.end = Least(c.end, range.end)
      /\ hit # NoRange =>
           \A b \in Int : b \in BlocksOf(hit) <=> b \in BlocksOf(c) /\ b \in BlocksOf(range)
  BY <1>1, IntersectIs
<1> HIDE DEF hit
<1>4. /\ acc \in Walk /\ acc.next \in Nat /\ acc.gaps \in Seq(Ranges) /\ range.start <= acc.next
  BY DEF Walked, Walk
<1>5. \A b \in BlocksOf(range) : b \in Nat
  BY <1>2 DEF BlocksOf
<1>6. \A j \in 1..(n + 1) : j \in 1..n \/ j = n + 1
  OBVIOUS
<1>7. CASE hit = NoRange
  <2>1. \A b \in BlocksOf(range) : b \notin BlocksOf(c)
    BY <1>3, <1>5, <1>7
  <2>2. \A j \in 1..(n + 1) : \A b \in BlocksOf(range) : b \in BlocksOf(covered[j]) => b < acc.next
    BY <2>1, <1>6 DEF Walked
  <2> QED BY <1>7, <2>2 DEF Walked, hit
<1>8. CASE hit # NoRange
  <2>1. /\ hit.start \in Nat /\ hit.end \in Nat /\ hit.start <= hit.end /\ hit.end <= range.end
        /\ hit.start >= range.start
        /\ hit.start > range.start => hit.start = c.start
        /\ BlocksOf(hit) = hit.start..hit.end
    <3>1. hit.start \in Nat /\ hit.end \in Nat /\ hit.start <= hit.end /\ BlocksOf(hit) = hit.start..hit.end
      BY <1>3, <1>8, RangesType DEF BlocksOf
    <3> QED BY <3>1, <1>2, <1>3, <1>8 DEF Greatest, Least
  <2>2. Saturate(hit.end + 1) = hit.end + 1
    BY <2>1, <1>2 DEF Saturate, Least
  <2> DEFINE next == Greatest(acc.next, hit.end + 1)
             P == Pass(acc, hit)
  <2>3. next \in Nat /\ acc.next <= next /\ hit.end < next /\ (next = acc.next \/ next = hit.end + 1)
    BY <2>1, <1>4 DEF Greatest
  <2> HIDE DEF next
  <2>4. \A j \in 1..(n + 1) : \A b \in BlocksOf(range) : b \in BlocksOf(covered[j]) => b < next
    <3> SUFFICES ASSUME NEW j \in 1..(n + 1), NEW b \in BlocksOf(range), b \in BlocksOf(covered[j])
                 PROVE  b < next
      OBVIOUS
    <3>0. b \in Nat
      BY <1>5
    <3>1. CASE j \in 1..n
      <4>1. b < acc.next
        BY <3>1 DEF Walked
      <4> QED BY <3>0, <4>1, <2>3, <1>4
    <3>2. CASE j = n + 1
      <4>1. b \in BlocksOf(hit)
        BY <3>0, <3>2, <1>3, <1>8
      <4> QED BY <3>0, <4>1, <2>1, <2>3
    <3> QED BY <3>1, <3>2, <1>6
  <2>5. ASSUME NEW b \in BlocksOf(range), hit.start <= b, b < next, acc.next <= b
        PROVE  b \in BlocksOf(covered[n + 1])
    <3>1. b \in Nat /\ next = hit.end + 1
      BY <2>5, <1>5, <1>4, <2>3
    <3>2. b \in BlocksOf(hit)
      BY <3>1, <2>1, <2>5
    <3> QED BY <3>1, <3>2, <1>3, <1>8
  <2>6. CASE hit.start > acc.next
    <3> DEFINE e == hit.start - 1
               G == acc.gaps \o Valid(NewRange(acc.next, e))
    <3>1. P = [gaps |-> G, next |-> next]
      BY <2>2, <2>6 DEF Pass, next
    <3>2. e \in Nat /\ acc.next <= e /\ e <= range.end /\ e < next /\ e < c.start
      <4>1. hit.start > range.start
        BY <2>1, <2>6, <1>4, <1>2
      <4>2. hit.start = c.start
        BY <4>1, <2>1
      <4>3. e \in Nat /\ e < hit.start /\ acc.next <= e /\ e < hit.end
        BY <2>1, <2>6, <1>4
      <4>4. e < c.start
        BY <4>2, <4>3
      <4> HIDE DEF e
      <4>5. e <= range.end /\ e < next
        BY <4>3, <2>1, <2>3, <1>2
      <4> QED BY <4>3, <4>4, <4>5
    <3>3. \A j \in DOMAIN covered : \A b \in acc.next..e : b \notin BlocksOf(covered[j])
      <4> SUFFICES ASSUME NEW j \in DOMAIN covered, NEW b \in acc.next..e, b \in BlocksOf(covered[j])
                   PROVE  FALSE
        OBVIOUS
      <4>0. b \in BlocksOf(range) /\ b \in Nat /\ acc.next <= b /\ b <= e
        BY <1>2, <1>4, <3>2 DEF BlocksOf
      <4>1. CASE j <= n
        <5>1. j \in 1..n
          BY <4>1
        <5>2. b < acc.next
          BY <5>1, <4>0 DEF Walked
        <5> QED BY <5>2, <4>0, <1>4
      <4>2. CASE j > n
        <5>0. covered[j] \in Ranges
          OBVIOUS
        <5>1. covered[j].start \in Nat /\ covered[j].start <= b
          BY <5>0, <4>0, RangesType DEF BlocksOf
        <5>2. c.start <= covered[j].start
          <6>1. CASE j = n + 1
            BY <6>1, <1>2
          <6>2. CASE n + 1 < j
            <7>1. c.end + 1 < covered[j].start
              BY <6>2
            <7> QED BY <7>1, <5>1, <1>2
          <6> QED BY <6>1, <6>2, <4>2
        <5> QED BY <5>1, <5>2, <4>0, <3>2, <1>2
      <4> QED BY <4>1, <4>2
    <3> HIDE DEF e
    <3>4. /\ G \in Seq(Ranges)
          /\ \A b \in BlocksOf(range) : b <= e =>
               \/ \E j \in DOMAIN covered : b \in BlocksOf(covered[j])
               \/ \E i \in DOMAIN G : b \in BlocksOf(G[i])
          /\ \A i \in DOMAIN G :
               /\ range.start <= G[i].start /\ G[i].end <= range.end
               /\ G[i].end < next
               /\ \A j \in DOMAIN covered : \A b \in BlocksOf(G[i]) : b \notin BlocksOf(covered[j])
          /\ \A i, k \in DOMAIN G : i < k => G[i].end < G[k].start
      BY <2>3, <3>2, <3>3, PushGap
    <3> HIDE DEF G
    <3>5. \A b \in BlocksOf(range) : b < next =>
            \/ \E j \in DOMAIN covered : b \in BlocksOf(covered[j])
            \/ \E i \in DOMAIN G : b \in BlocksOf(G[i])
      <4> SUFFICES ASSUME NEW b \in BlocksOf(range), b < next
                   PROVE  \/ \E j \in DOMAIN covered : b \in BlocksOf(covered[j])
                          \/ \E i \in DOMAIN G : b \in BlocksOf(G[i])
        OBVIOUS
      <4>1. b \in Nat /\ (b <= e \/ (hit.start <= b /\ acc.next <= b))
        BY <1>5, <1>4, <2>1, <2>6 DEF e
      <4> QED BY <4>1, <3>4, <2>5
    <3> HIDE DEF P
    <3>6. P \in Walk /\ P.gaps = G /\ P.next = next
      BY <3>1, <3>4, <2>3 DEF Walk
    <3>7. range.start <= next
      BY <1>2, <1>4, <2>3
    <3>8. Walked(P, range, covered, n + 1)
      BY <2>4, <3>4, <3>5, <3>6, <3>7 DEF Walked
    <3> QED BY <1>8, <3>8 DEF hit, P
  <2>7. CASE hit.start <= acc.next
    <3>1. P = [gaps |-> acc.gaps, next |-> next]
      <4>1. ~(hit.start > acc.next)
        BY <2>1, <2>7, <1>4
      <4> QED BY <4>1, <2>2 DEF Pass, next
    <3>2. P \in Walk /\ P.gaps = acc.gaps /\ P.next = next
      BY <3>1, <1>4, <2>3 DEF Walk
    <3> HIDE DEF P
    <3>3. range.start <= next
      BY <1>2, <1>4, <2>3
    <3>4. \A b \in BlocksOf(range) : b < next =>
            \/ \E j \in DOMAIN covered : b \in BlocksOf(covered[j])
            \/ \E i \in DOMAIN acc.gaps : b \in BlocksOf(acc.gaps[i])
      <4> SUFFICES ASSUME NEW b \in BlocksOf(range), b < next
                   PROVE  \/ \E j \in DOMAIN covered : b \in BlocksOf(covered[j])
                          \/ \E i \in DOMAIN acc.gaps : b \in BlocksOf(acc.gaps[i])
        OBVIOUS
      <4>1. b \in Nat /\ (b < acc.next \/ (hit.start <= b /\ acc.next <= b))
        BY <1>5, <1>4, <2>1, <2>7
      <4>2. CASE b < acc.next
        BY <4>2 DEF Walked
      <4> QED BY <4>1, <4>2, <2>5
    <3>5. \A i \in DOMAIN acc.gaps :
            /\ range.start <= acc.gaps[i].start /\ acc.gaps[i].end <= range.end
            /\ acc.gaps[i].end < next
            /\ \A j \in DOMAIN covered : \A b \in BlocksOf(acc.gaps[i]) : b \notin BlocksOf(covered[j])
      <4>1. \A i \in DOMAIN acc.gaps : acc.gaps[i].end \in Nat
        BY <1>4, RangesType
      <4>2. \A i \in DOMAIN acc.gaps : acc.gaps[i].end < acc.next
        BY DEF Walked
      <4>3. \A i \in DOMAIN acc.gaps : acc.gaps[i].end < next
        BY <4>1, <4>2, <1>4, <2>3
      <4> QED BY <4>3 DEF Walked
    <3>6. \A i, k \in DOMAIN acc.gaps : i < k => acc.gaps[i].end < acc.gaps[k].start
      BY DEF Walked
    <3>7. Walked(P, range, covered, n + 1)
      BY <2>4, <3>2, <3>3, <3>4, <3>5, <3>6 DEF Walked
    <3> QED BY <1>8, <3>7 DEF hit, P
  <2> QED BY <2>6, <2>7, <2>1, <1>4
<1> QED BY <1>7, <1>8

(* The gaps are the blocks of range that no span covers, in order. *)
LEMMA UncoveredIs ==
  ASSUME NEW range \in Ranges, NEW covered \in Seq(Ranges),
         \A i, k \in DOMAIN covered : i < k => covered[i].end + 1 < covered[k].start
  PROVE  LET G == Uncovered(range, covered)
         IN /\ G \in Seq(Ranges)
            /\ \A b \in BlocksOf(range) :
                 \/ \E j \in DOMAIN covered : b \in BlocksOf(covered[j])
                 \/ \E i \in DOMAIN G : b \in BlocksOf(G[i])
            /\ \A i \in DOMAIN G :
                 /\ range.start <= G[i].start /\ G[i].end <= range.end
                 /\ \A j \in DOMAIN covered : \A b \in BlocksOf(G[i]) : b \notin BlocksOf(covered[j])
            /\ \A i, k \in DOMAIN G : i < k => G[i].end < G[k].start
<1> DEFINE n == Len(covered)
           Hit(i) == Intersect(covered[i], range)
           base == [gaps |-> <<>>, next |-> range.start]
           Round(i, x) == IF Hit(i) = NoRange THEN x ELSE Pass(x, Hit(i))
           Eq(h) == h = [i \in 0..n |->
             IF i = 0 THEN base
             ELSE IF Hit(i) = NoRange THEN h[i - 1] ELSE Pass(h[i - 1], Hit(i))]
           walk == CHOOSE h : Eq(h)
           end == walk[n]
<1>1. /\ range.start \in Nat /\ range.end \in Nat /\ range.start <= range.end /\ range.end <= MaxEnd
      /\ n \in Nat /\ DOMAIN covered = 1..n
  BY RangesType
<1>2. Uncovered(range, covered) = IF end.next <= range.end
                                  THEN end.gaps \o Valid(NewRange(end.next, range.end))
                                  ELSE end.gaps
  BY DEF Uncovered
<1>3. base \in Walk
  BY <1>1 DEF Walk
<1>4. ASSUME NEW i \in 1..n, NEW x \in Walk PROVE Round(i, x) \in Walk
  <2>1. CASE Hit(i) = NoRange
    BY <2>1
  <2>2. CASE Hit(i) # NoRange
    <3> DEFINE hit == Hit(i)
    <3>1. hit \in Ranges
      <4>1. covered[i] \in Ranges
        BY <1>1
      <4> QED BY <4>1, <2>2, IntersectIs
    <3> HIDE DEF hit
    <3>2. hit.start \in Nat /\ hit.end \in Nat /\ hit.end <= MaxEnd
      BY <3>1, RangesType
    <3>3. x.gaps \in Seq(Ranges) /\ x.next \in Nat
      BY DEF Walk
    <3>4. Saturate(hit.end + 1) \in Nat
      BY <3>2, BlockPlanAssumption DEF Saturate, Least
    <3>5. Greatest(x.next, Saturate(hit.end + 1)) \in Nat
      BY <3>3, <3>4 DEF Greatest
    <3> DEFINE y == NewRange(x.next, hit.start - 1)
    <3>6. Valid(y) \in Seq(Ranges)
      <4>1. hit.start - 1 \in Int
        BY <3>2
      <4>2. y # NoRange => y \in Ranges
        BY <4>1, <3>3, NewRangeIs
      <4> HIDE DEF y
      <4> QED BY <4>2 DEF Valid
    <3> HIDE DEF y
    <3>7. x.gaps \o Valid(y) \in Seq(Ranges)
      BY <3>3, <3>6
    <3>8. Pass(x, hit) \in Walk
      BY <3>3, <3>5, <3>7 DEF Pass, Walk, y
    <3> QED BY <2>2, <3>8 DEF hit
  <2> QED BY <2>1, <2>2
<1>5. Eq(walk)
  <2> DEFINE step == [i \in 1..n |-> [x \in Walk |-> Round(i, x)]]
  <2>1. step \in [1..n -> [Walk -> Walk]]
    <3> HIDE DEF Round, Hit
    <3> QED BY <1>4
  <2>2. PICK h : Iterates(h, n, Walk, base, step)
    <3>1. step \in Rounds(n, Walk)
      BY <2>1 DEF Rounds
    <3> HIDE DEF step, base, n
    <3> QED BY <1>1, <1>3, <3>1, LoopExists
  <2>3. ASSUME NEW i \in 0..n
        PROVE  h[i] = IF i = 0 THEN base
                      ELSE IF Hit(i) = NoRange THEN h[i - 1] ELSE Pass(h[i - 1], Hit(i))
    <3>1. CASE i = 0
      BY <3>1, <2>2 DEF Iterates
    <3>2. CASE i # 0
      <4>1. i \in 1..n /\ i - 1 \in 0..n
        BY <3>2, <1>1
      <4>2. h[i - 1] \in Walk
        BY <4>1, <2>2 DEF Iterates
      <4>3. h[i] = step[i][h[i - 1]]
        BY <4>1, <2>2 DEF Iterates
      <4>4. step[i][h[i - 1]] = Round(i, h[i - 1])
        <5> HIDE DEF Round
        <5> QED BY <4>1, <4>2
      <4> HIDE DEF step, Hit
      <4> QED BY <3>2, <4>3, <4>4
    <3> QED BY <3>1, <3>2
  <2>4. Eq(h)
    <3>1. h \in [0..n -> Walk]
      BY <2>2 DEF Iterates
    <3> HIDE DEF step, Hit, base
    <3> QED BY <2>3, <3>1
  <2> HIDE DEF Eq
  <2> QED BY <2>4
<1> DEFINE Good == [i \in 0..n |-> {x \in Walk : Walked(x, range, covered, i)}]
<1>6. walk[0] \in Good[0]
  <2> HIDE DEF walk
  <2>1. walk[0] = base
    <3> HIDE DEF Hit, base
    <3> QED BY <1>1, <1>5
  <2>2. base.gaps = <<>> /\ base.next = range.start /\ DOMAIN <<>> = {}
    OBVIOUS
  <2>3. \A b \in BlocksOf(range) : b \in Nat /\ ~(b < range.start)
    BY <1>1 DEF BlocksOf
  <2> HIDE DEF base
  <2>4. Walked(base, range, covered, 0)
    BY <1>1, <1>3, <2>2, <2>3 DEF Walked
  <2> QED BY <2>1, <2>4, <1>1, <1>3
<1>7. \A i \in 1..n : walk[i - 1] \in Good[i - 1] => walk[i] \in Good[i]
  <2> SUFFICES ASSUME NEW i \in 1..n, walk[i - 1] \in Good[i - 1] PROVE walk[i] \in Good[i]
    OBVIOUS
  <2> HIDE DEF walk
  <2> DEFINE k == i - 1
             x == walk[k]
  <2>1. i \in 0..n /\ k \in 0..n /\ i = k + 1 /\ k \in Nat /\ i # 0 /\ k + 1 \in DOMAIN covered
    BY <1>1
  <2>2. x \in Walk /\ Walked(x, range, covered, k)
    BY <2>1
  <2>3. walk[i] = IF Hit(i) = NoRange THEN x ELSE Pass(x, Hit(i))
    <3> HIDE DEF Hit, base
    <3> QED BY <2>1, <1>5
  <2>4. Walked(walk[i], range, covered, i)
    <3>1. Hit(i) = Intersect(covered[k + 1], range)
      BY <2>1
    <3> HIDE DEF x, k, Hit
    <3>2. /\ Hit(i) = NoRange => Walked(x, range, covered, k + 1)
          /\ Hit(i) # NoRange => Walked(Pass(x, Hit(i)), range, covered, k + 1)
      BY <2>1, <2>2, <3>1, PassWalks
    <3> QED BY <2>1, <2>3, <3>2
  <2>5. walk[i] \in Walk
    BY <2>4 DEF Walked
  <2> QED BY <2>1, <2>4, <2>5
<1>8. \A i \in 0..n : walk[i] \in Good[i]
  <2> HIDE DEF walk, Good, n
  <2> QED BY <1>1, <1>6, <1>7, LoopInvariant
<1>9. Walked(end, range, covered, n)
  <2> HIDE DEF walk
  <2> QED BY <1>1, <1>8
<1> HIDE DEF end
<1>10. end.next \in Nat /\ end.gaps \in Seq(Ranges)
  BY <1>9 DEF Walked, Walk
<1>11. \A b \in BlocksOf(range) : b \in Nat /\ b <= range.end
  BY <1>1 DEF BlocksOf
<1>12. CASE end.next <= range.end
  <2>1. \A j \in DOMAIN covered : \A b \in end.next..range.end : b \notin BlocksOf(covered[j])
    <3> SUFFICES ASSUME NEW j \in DOMAIN covered, NEW b \in end.next..range.end,
                        b \in BlocksOf(covered[j])
                 PROVE  FALSE
      OBVIOUS
    <3>1. range.start <= end.next
      BY <1>9 DEF Walked
    <3>2. b \in BlocksOf(range) /\ b \in Nat /\ end.next <= b
      BY <3>1, <1>1, <1>10 DEF BlocksOf
    <3>3. b < end.next
      BY <3>2, <1>1, <1>9 DEF Walked
    <3> QED BY <3>2, <3>3, <1>10
  <2> DEFINE m == range.end + 1
             e == range.end
             G == end.gaps \o Valid(NewRange(end.next, e))
  <2>2. m \in Nat /\ e < m /\ e \in Nat /\ e <= range.end /\ end.next <= e
    BY <1>1, <1>12
  <2> HIDE DEF m
  <2>3. /\ G \in Seq(Ranges)
        /\ \A b \in BlocksOf(range) : b <= e =>
             \/ \E j \in DOMAIN covered : b \in BlocksOf(covered[j])
             \/ \E i \in DOMAIN G : b \in BlocksOf(G[i])
        /\ \A i \in DOMAIN G :
             /\ range.start <= G[i].start /\ G[i].end <= range.end
             /\ G[i].end < m
             /\ \A j \in DOMAIN covered : \A b \in BlocksOf(G[i]) : b \notin BlocksOf(covered[j])
        /\ \A i, k \in DOMAIN G : i < k => G[i].end < G[k].start
    BY <1>1, <1>9, <2>1, <2>2, PushGap
  <2>4. Uncovered(range, covered) = G
    BY <1>2, <1>12
  <2> HIDE DEF G
  <2> QED BY <2>3, <2>4, <1>11
<1>13. CASE end.next > range.end
  <2>1. Uncovered(range, covered) = end.gaps
    BY <1>2, <1>13, <1>1, <1>10
  <2>2. \A b \in BlocksOf(range) : b < end.next
    BY <1>1, <1>10, <1>11, <1>13
  <2> QED BY <2>1, <2>2, <1>9, <1>10 DEF Walked
<1> QED BY <1>12, <1>13, <1>1, <1>10

-----------------------------------------------------------------------------
(* Grid cells *)

(* Which cell a block is in. *)
LEMMA CellOf ==
  ASSUME NEW a \in Nat, NEW d \in Nat \ {0}
  PROVE  /\ a \div d \in Nat /\ a \div d <= a
         /\ (a \div d) * d \in Nat
         /\ (a \div d) * d <= a /\ a < (a \div d) * d + d
<1> DEFINE q == a \div d
<1>1. q \in Nat /\ q * d <= a /\ a < q * d + d
  OBVIOUS
<1> HIDE DEF q
<1>2. q * d \in Nat
  BY <1>1
<1>3. q <= q * d
  BY <1>1
<1> QED BY <1>1, <1>2, <1>3 DEF q

LEMMA CellsApart ==
  ASSUME NEW i \in Nat, NEW k \in Nat, NEW d \in Nat \ {0}
  PROVE  /\ i * d \in Nat /\ (i + 1) * d = i * d + d
         /\ i < k => i * d + d <= k * d
         /\ i <= k => i * d <= k * d
         /\ i * d = k * d => i = k
         /\ (i * d) % d = 0
<1>1. i * d \in Nat /\ k * d \in Nat /\ (i + 1) * d = i * d + d /\ (k + 1) * d = k * d + d
  OBVIOUS
<1>2. i < k => (i + 1) * d <= k * d
  OBVIOUS
<1>3. k < i => (k + 1) * d <= i * d
  OBVIOUS
<1>4. (i * d) % d = 0
  OBVIOUS
<1> QED BY <1>1, <1>2, <1>3, <1>4

GridCell(k, chunk) == [start |-> k * chunk, end |-> Least(k * chunk + chunk - 1, MaxEnd)]

GridCells(chunk) == {GridCell(k, chunk) : k \in {j \in Nat : j * chunk <= MaxEnd}}

LEMMA CellEndIs ==
  ASSUME NEW k \in Nat, NEW chunk \in Nat \ {0}
  PROVE  CellEnd(k, chunk) = Least(k * chunk + chunk - 1, MaxEnd)
<1> DEFINE x == k * chunk
           y == Saturate(k + 1) * chunk
<1>1. x \in Nat /\ (k + 1) * chunk = x + chunk /\ k + 1 <= x + chunk
  <2>1. x \in Nat /\ (k + 1) * chunk = x + chunk
    OBVIOUS
  <2>2. k + 1 <= (k + 1) * chunk
    OBVIOUS
  <2> QED BY <2>1, <2>2
<1>2. MaxEnd \in Nat /\ MaxU64 \in Nat /\ MaxEnd < MaxU64
  BY BlockPlanAssumption
<1>3. y \in Nat /\ (y = x + chunk \/ (y >= MaxU64 /\ x + chunk >= MaxU64))
  <2>1. CASE k + 1 <= MaxU64
    <3>1. Saturate(k + 1) = k + 1
      BY <2>1, <1>2 DEF Saturate, Least
    <3>2. y = (k + 1) * chunk
      BY <3>1
    <3>3. (k + 1) * chunk = x + chunk /\ x + chunk \in Nat
      BY <1>1
    <3> HIDE DEF x, y
    <3> QED BY <3>2, <3>3
  <2>2. CASE k + 1 > MaxU64
    <3>1. Saturate(k + 1) = MaxU64
      BY <2>2, <1>2 DEF Saturate, Least
    <3>2. MaxU64 * chunk \in Nat /\ MaxU64 * chunk >= MaxU64
      BY <1>2
    <3> QED BY <3>1, <3>2, <2>2, <1>1, <1>2
  <2> QED BY <2>1, <2>2, <1>2
<1> HIDE DEF x, y
<1>4. CellEnd(k, chunk) = Least(Saturate(Saturate(y) - 1), MaxEnd)
  BY DEF CellEnd, y
<1>5. Least(Saturate(Saturate(y) - 1), MaxEnd) = Least(x + chunk - 1, MaxEnd)
  <2>1. CASE y >= MaxU64
    <3>1. Saturate(y) = MaxU64
      BY <2>1, <1>2, <1>3 DEF Saturate, Least
    <3>2. Saturate(MaxU64 - 1) = MaxU64 - 1
      BY <1>2 DEF Saturate, Least
    <3>3. Least(MaxU64 - 1, MaxEnd) = MaxEnd
      BY <1>2 DEF Least
    <3>4. Least(x + chunk - 1, MaxEnd) = MaxEnd
      BY <2>1, <1>1, <1>2, <1>3 DEF Least
    <3> QED BY <3>1, <3>2, <3>3, <3>4
  <2>2. CASE y < MaxU64
    <3>1. Saturate(y) = y /\ y = x + chunk
      BY <2>2, <1>2, <1>3 DEF Saturate, Least
    <3>2. Saturate(y - 1) = y - 1
      BY <3>1, <2>2, <1>1, <1>2, <1>3 DEF Saturate, Least
    <3>3. Saturate(Saturate(y) - 1) = y - 1
      BY <3>1, <3>2
    <3>4. y - 1 = x + chunk - 1
      BY <3>1, <1>1
    <3> QED BY <3>3, <3>4
  <2> QED BY <2>1, <2>2, <1>2, <1>3
<1> QED BY <1>4, <1>5 DEF x

LEMMA GridCellFields ==
  ASSUME NEW k \in Nat, NEW chunk \in Nat \ {0}, k * chunk <= MaxEnd
  PROVE  LET c == GridCell(k, chunk)
         IN /\ c \in Ranges /\ c.start = k * chunk
            /\ c.end = Least(k * chunk + chunk - 1, MaxEnd)
            /\ c.end <= MaxEnd /\ c.end <= k * chunk + chunk - 1
            /\ c.end = MaxEnd \/ c.end = k * chunk + chunk - 1
<1> DEFINE s == k * chunk
           e == Least(k * chunk + chunk - 1, MaxEnd)
<1>1. s \in Nat
  OBVIOUS
<1>2. MaxEnd \in Nat
  BY BlockPlanAssumption
<1>3. e \in Nat /\ s <= e /\ e <= MaxEnd /\ e <= s + chunk - 1 /\ (e = MaxEnd \/ e = s + chunk - 1)
  <2> HIDE DEF s
  <2>1. e = Least(s + chunk - 1, MaxEnd) /\ s <= MaxEnd
    BY DEF s
  <2> QED BY <2>1, <1>1, <1>2 DEF Least
<1>4. GridCell(k, chunk) = [start |-> s, end |-> e]
  BY DEF GridCell
<1> HIDE DEF s, e
<1>5. [start |-> s, end |-> e] \in Ranges
  <2>1. e \in Int
    BY <1>3
  <2> QED BY <2>1, <1>1, <1>3, NewRangeIs
<1> QED BY <1>3, <1>4, <1>5 DEF s, e

(* align_chunks returns the cells from the one of the first block to the    *)
(* one of the last.                                                         *)
LEMMA AlignIs ==
  ASSUME NEW g \in Ranges, NEW chunk \in Nat \ {0}
  PROVE  LET first == g.start \div chunk
             last == g.end \div chunk
             cells == AlignChunks(g, chunk)
         IN /\ first \in Nat /\ last \in Nat /\ first <= last /\ last * chunk <= MaxEnd
            /\ DOMAIN cells = 1..(last - first + 1)
            /\ \A i \in DOMAIN cells : cells[i] = GridCell(first + i - 1, chunk)
            /\ cells \in Seq(GridCells(chunk))
<1> DEFINE first == g.start \div chunk
           q == g.end \div chunk
           S == {k \in first..(first + MaxEnd) : CellEnd(k, chunk) >= g.end}
           cells == AlignChunks(g, chunk)
<1>1. /\ g.start \in Nat /\ g.end \in Nat /\ g.start <= g.end /\ g.end <= MaxEnd
      /\ MaxEnd \in Nat /\ MaxU64 \in Nat /\ MaxEnd < MaxU64
  BY RangesType, BlockPlanAssumption
<1>2. first \in Nat /\ first * chunk \in Nat /\ first * chunk <= g.start /\ g.start < first * chunk + chunk
  BY <1>1, CellOf
<1>3. q \in Nat /\ q <= g.end /\ q * chunk \in Nat /\ q * chunk <= g.end /\ g.end < q * chunk + chunk
  BY <1>1, CellOf
<1>4. cells = [i \in 1..(Min(S) - first + 1) |-> Cell(first + i - 1, chunk)]
  BY DEF AlignChunks
<1> HIDE DEF first, q
<1>5. first <= q
  <2> SUFFICES ASSUME q < first PROVE FALSE
    BY <1>2, <1>3
  <2>1. q * chunk + chunk <= first * chunk
    BY <1>2, <1>3, CellsApart
  <2> QED BY <2>1, <1>1, <1>2, <1>3
<1>6. \A k \in Nat : CellEnd(k, chunk) >= g.end <=> q <= k
  <2> SUFFICES ASSUME NEW k \in Nat PROVE CellEnd(k, chunk) >= g.end <=> q <= k
    OBVIOUS
  <2> DEFINE x == k * chunk
             y == q * chunk
  <2>1. CellEnd(k, chunk) = Least(x + chunk - 1, MaxEnd)
    BY CellEndIs
  <2>2. /\ x \in Nat /\ y \in Nat /\ y <= g.end /\ g.end < y + chunk
        /\ k < q => x + chunk <= y
        /\ q <= k => y <= x
    BY <1>3, CellsApart
  <2> HIDE DEF x, y
  <2>3. CASE k < q
    BY <2>1, <2>2, <2>3, <1>1, <1>3 DEF Least
  <2>4. CASE q <= k
    BY <2>1, <2>2, <2>4, <1>1, <1>3 DEF Least
  <2> QED BY <2>3, <2>4, <1>3
<1>7. Min(S) = q
  <2>1. q \in S
    BY <1>1, <1>2, <1>3, <1>5, <1>6
  <2>2. \A k \in S : k \in Nat /\ q <= k
    BY <1>1, <1>2, <1>6
  <2> HIDE DEF S
  <2>3. S \in SUBSET Nat /\ S # {}
    BY <2>1, <2>2
  <2>4. Min(S) \in S /\ Min(S) \in Nat /\ Min(S) <= q
    BY <2>1, <2>3, MinNat
  <2>5. q <= Min(S)
    BY <2>2, <2>4
  <2> QED BY <2>4, <2>5, <1>3
<1>8. cells = [i \in 1..(q - first + 1) |-> Cell(first + i - 1, chunk)]
  BY <1>4, <1>7
<1>9. ASSUME NEW k \in Nat, k <= q
      PROVE  Cell(k, chunk) = GridCell(k, chunk) /\ k * chunk <= MaxEnd
  <2>1. k * chunk \in Nat /\ k * chunk <= q * chunk
    BY <1>3, <1>9, CellsApart
  <2> DEFINE x == k * chunk
             y == q * chunk
  <2> HIDE DEF x, y
  <2>2. x \in Nat /\ x <= MaxEnd
    BY <2>1, <1>1, <1>3 DEF x, y
  <2>3. Saturate(x) = x
    BY <2>2, <1>1 DEF Saturate, Least
  <2>4. Cell(k, chunk) = [start |-> Saturate(x), end |-> CellEnd(k, chunk)]
    BY DEF Cell, x
  <2>5. GridCell(k, chunk) = [start |-> x, end |-> CellEnd(k, chunk)]
    BY CellEndIs DEF GridCell, x
  <2> QED BY <2>2, <2>3, <2>4, <2>5 DEF x
<1>10. q * chunk <= MaxEnd
  BY <1>3, <1>9
<1> HIDE DEF cells
<1>11. DOMAIN cells = 1..(q - first + 1)
  BY <1>8
<1>12. ASSUME NEW i \in DOMAIN cells
       PROVE  cells[i] = GridCell(first + i - 1, chunk) /\ cells[i] \in GridCells(chunk)
  <2> DEFINE k == first + i - 1
  <2>1. k \in Nat /\ k <= q
    BY <1>2, <1>3, <1>11
  <2>2. cells[i] = Cell(k, chunk)
    BY <1>8, <1>11
  <2> HIDE DEF k
  <2>3. cells[i] = GridCell(k, chunk) /\ k * chunk <= MaxEnd
    BY <2>1, <2>2, <1>9
  <2>4. k \in {j \in Nat : j * chunk <= MaxEnd}
    BY <2>1, <2>3
  <2>5. cells[i] \in GridCells(chunk)
    BY <2>3, <2>4, Zenon DEF GridCells
  <2> QED BY <2>3, <2>5 DEF k
<1>13. cells \in Seq(GridCells(chunk))
  <2> DEFINE m == q - first + 1
  <2>1. m \in Nat
    BY <1>2, <1>3, <1>5
  <2>2. cells \in [1..m -> GridCells(chunk)]
    <3>1. cells = [i \in 1..m |-> cells[i]]
      BY <1>8
    <3> QED BY <3>1, <1>11, <1>12
  <2> HIDE DEF m
  <2> QED BY <2>1, <2>2
<1> QED BY <1>2, <1>3, <1>5, <1>10, <1>11, <1>12, <1>13 DEF first, q, cells

(* A cell ended at safe. *)
Clip(cell, safe) == NewRange(cell.start, Least(cell.end, safe))

LEMMA ClipIs ==
  ASSUME NEW k \in Nat, NEW chunk \in Nat \ {0}, k * chunk <= MaxEnd, NEW safe \in Nat
  PROVE  LET c == Clip(GridCell(k, chunk), safe)
         IN /\ c # NoRange <=> k * chunk <= safe
            /\ c # NoRange =>
                 /\ c \in Ranges /\ c.start = k * chunk
                 /\ c.end = Least(GridCell(k, chunk).end, safe)
<1> DEFINE g == GridCell(k, chunk)
           s == k * chunk
           e == Least(g.end, safe)
<1>1. g \in Ranges /\ g.start = s
  BY GridCellFields
<1>2. g.end \in Nat /\ s \in Nat /\ s <= g.end /\ g.end <= MaxEnd
  BY <1>1, RangesType
<1> HIDE DEF g, s
<1>3. e \in Int /\ e <= g.end /\ e <= safe /\ (e = g.end \/ e = safe)
  BY <1>2 DEF Least
<1>4. Clip(g, safe) = NewRange(s, e)
  BY <1>1 DEF Clip
<1> HIDE DEF e
<1>5. MaxEnd \in Nat
  BY BlockPlanAssumption
<1>6. /\ NewRange(s, e) # NoRange <=> s <= e /\ e <= MaxEnd
      /\ NewRange(s, e) # NoRange => /\ NewRange(s, e) = [start |-> s, end |-> e]
                                     /\ NewRange(s, e) \in Ranges
  BY <1>2, <1>3, NewRangeIs
<1>7. NewRange(s, e) # NoRange <=> s <= safe
  BY <1>2, <1>3, <1>5, <1>6
<1> QED BY <1>4, <1>6, <1>7 DEF g, s, e

(* out holds the first n cells, ended at safe and each once. *)
Pushed(out, cells, n, safe) ==
  /\ out \in Seq(Ranges)
  /\ \A l \in 1..n : Clip(cells[l], safe) # NoRange =>
       \E j \in DOMAIN out : out[j] = Clip(cells[l], safe)
  /\ \A j \in DOMAIN out : \E l \in 1..n : out[j] = Clip(cells[l], safe)
  /\ \A j, k \in DOMAIN out : j < k => out[j].start < out[k].start

LEMMA GridCellsType ==
  ASSUME NEW chunk \in Nat \ {0}, NEW safe \in Nat,
         NEW x \in GridCells(chunk), NEW y \in GridCells(chunk)
  PROVE  /\ x.start \in Nat
         /\ Clip(x, safe) # NoRange => Clip(x, safe) \in Ranges /\ Clip(x, safe).start = x.start
         /\ x.start = y.start => x = y
<1>1. PICK k \in Nat : x = GridCell(k, chunk) /\ k * chunk <= MaxEnd
  BY Zenon DEF GridCells
<1>2. PICK l \in Nat : y = GridCell(l, chunk) /\ l * chunk <= MaxEnd
  BY Zenon DEF GridCells
<1>3. x.start = k * chunk /\ y.start = l * chunk /\ k * chunk \in Nat
  BY <1>1, <1>2, GridCellFields
<1>4. Clip(x, safe) # NoRange => Clip(x, safe) \in Ranges /\ Clip(x, safe).start = k * chunk
  BY <1>1, ClipIs
<1>5. k * chunk = l * chunk => k = l
  BY CellsApart
<1> QED BY <1>1, <1>2, <1>3, <1>4, <1>5

LEMMA PushCellPushes ==
  ASSUME NEW chunk \in Nat \ {0}, NEW safe \in Nat, NEW cells \in Seq(GridCells(chunk)),
         \A k, l \in DOMAIN cells : k < l => cells[k].start <= cells[l].start,
         NEW n \in Nat, n + 1 \in DOMAIN cells, NEW out, Pushed(out, cells, n, safe)
  PROVE  Pushed(PushCell(out, cells[n + 1], safe), cells, n + 1, safe)
<1> DEFINE c == cells[n + 1]
           x == Clip(c, safe)
           P == PushCell(out, c, safe)
<1>1. /\ c \in GridCells(chunk) /\ out \in Seq(Ranges)
      /\ \A l \in 1..n : l \in DOMAIN cells /\ cells[l] \in GridCells(chunk)
  BY DEF Pushed
<1>2. \A l \in 1..(n + 1) : l \in 1..n \/ l = n + 1
  OBVIOUS
<1>3. \A l \in 1..n : l \in 1..(n + 1)
  OBVIOUS
<1>4. P = IF x = NoRange \/ (out # <<>> /\ out[Len(out)] = x) THEN out ELSE Append(out, x)
  BY DEF PushCell, Clip
<1>5. CASE x = NoRange
  <2>1. P = out
    BY <1>4, <1>5
  <2> HIDE DEF P
  <2>2. \A l \in 1..(n + 1) : Clip(cells[l], safe) # NoRange =>
          \E j \in DOMAIN out : out[j] = Clip(cells[l], safe)
    BY <1>2, <1>5 DEF Pushed
  <2>3. Pushed(out, cells, n + 1, safe)
    BY <2>2, <1>3 DEF Pushed
  <2> QED BY <2>1, <2>3 DEF P
<1>6. CASE x # NoRange /\ out # <<>> /\ out[Len(out)] = x
  <2>1. P = out
    BY <1>4, <1>6
  <2> HIDE DEF P
  <2>2. Len(out) \in DOMAIN out /\ out[Len(out)] = x
    BY <1>1, <1>6
  <2>3. \A l \in 1..(n + 1) : Clip(cells[l], safe) # NoRange =>
          \E j \in DOMAIN out : out[j] = Clip(cells[l], safe)
    BY <1>2, <2>2 DEF Pushed
  <2>4. Pushed(out, cells, n + 1, safe)
    BY <2>3, <1>3 DEF Pushed
  <2> QED BY <2>1, <2>4 DEF P
<1>7. CASE x # NoRange /\ ~(out # <<>> /\ out[Len(out)] = x)
  <2> DEFINE m == Len(out)
  <2>1. P = Append(out, x)
    BY <1>4, <1>7
  <2>2. x \in Ranges /\ x.start = c.start /\ c.start \in Nat
    BY <1>1, <1>7, GridCellsType
  <2> HIDE DEF x
  <2>3. /\ m \in Nat /\ DOMAIN out = 1..m
        /\ Append(out, x) \in Seq(Ranges) /\ DOMAIN Append(out, x) = 1..(m + 1)
        /\ \A j \in 1..m : Append(out, x)[j] = out[j]
        /\ Append(out, x)[m + 1] = x
    BY <1>1, <2>2
  <2> HIDE DEF P, m
  <2>4. /\ P \in Seq(Ranges) /\ DOMAIN P = 1..(m + 1)
        /\ \A j \in 1..m : P[j] = out[j]
        /\ P[m + 1] = x
        /\ \A j \in 1..m : j \in DOMAIN P
        /\ m + 1 \in DOMAIN P
    BY <2>1, <2>3
  <2>5. \A l \in 1..(n + 1) : Clip(cells[l], safe) # NoRange =>
          \E j \in DOMAIN P : P[j] = Clip(cells[l], safe)
    <3> SUFFICES ASSUME NEW l \in 1..(n + 1), Clip(cells[l], safe) # NoRange
                 PROVE  \E j \in DOMAIN P : P[j] = Clip(cells[l], safe)
      OBVIOUS
    <3>1. CASE l \in 1..n
      <4>1. PICK j \in DOMAIN out : out[j] = Clip(cells[l], safe)
        BY <3>1 DEF Pushed
      <4> QED BY <4>1, <2>3, <2>4
    <3>2. CASE l = n + 1
      BY <3>2, <2>4 DEF x
    <3> QED BY <3>1, <3>2, <1>2
  <2>6. \A j \in DOMAIN P : \E l \in 1..(n + 1) : P[j] = Clip(cells[l], safe)
    <3> SUFFICES ASSUME NEW j \in DOMAIN P PROVE \E l \in 1..(n + 1) : P[j] = Clip(cells[l], safe)
      OBVIOUS
    <3>1. CASE j \in 1..m
      <4>1. PICK l \in 1..n : out[j] = Clip(cells[l], safe)
        BY <3>1, <2>3 DEF Pushed
      <4> QED BY <3>1, <4>1, <2>4, <1>3
    <3>2. CASE j = m + 1
      <4>1. n + 1 \in 1..(n + 1)
        OBVIOUS
      <4> QED BY <3>2, <4>1, <2>4 DEF x
    <3> QED BY <3>1, <3>2, <2>3, <2>4
  <2>7. ASSUME NEW j \in 1..m PROVE out[j].start < x.start
    <3>1. m \in 1..m /\ out # <<>> /\ out[m] = out[Len(out)] /\ out[m] # x
      <4>1. m \in 1..m
        BY <2>3
      <4>2. out # <<>>
        BY <4>1, <2>3 DEF m
      <4>3. out[m] = out[Len(out)]
        BY DEF m
      <4> QED BY <4>1, <4>2, <4>3, <1>7
    <3>2. PICK l \in 1..n : out[m] = Clip(cells[l], safe)
      BY <3>1, <2>3 DEF Pushed
    <3>3. out[m] \in Ranges /\ out[j] \in Ranges
      BY <3>1, <2>3, <1>1
    <3>4. out[m] # NoRange
      BY <3>3 DEF Ranges
    <3>5. out[m].start = cells[l].start /\ cells[l].start \in Nat
      BY <3>2, <3>4, <1>1, GridCellsType
    <3>6. cells[l].start <= c.start
      BY <1>1
    <3>7. cells[l].start # c.start
      <4> SUFFICES ASSUME cells[l].start = c.start PROVE FALSE
        OBVIOUS
      <4>1. cells[l] = c
        BY <1>1, GridCellsType
      <4> QED BY <4>1, <3>1, <3>2 DEF x
    <3>8. out[m].start < x.start
      BY <2>2, <3>5, <3>6, <3>7
    <3>9. out[j].start \in Nat /\ (j = m \/ out[j].start < out[m].start)
      <4>1. out[j].start \in Nat
        BY <3>3, RangesType
      <4>2. j < m => out[j].start < out[m].start
        BY <3>1, <2>3 DEF Pushed
      <4> QED BY <4>1, <4>2, <2>3
    <3> QED BY <3>5, <3>8, <3>9, <2>2
  <2>8. \A j, k \in DOMAIN P : j < k => P[j].start < P[k].start
    <3> SUFFICES ASSUME NEW j \in DOMAIN P, NEW k \in DOMAIN P, j < k
                 PROVE  P[j].start < P[k].start
      OBVIOUS
    <3>1. j \in 1..m /\ (k \in 1..m \/ k = m + 1)
      BY <2>3, <2>4
    <3>2. CASE k \in 1..m
      <4>1. out[j].start < out[k].start
        BY <3>1, <3>2, <2>3 DEF Pushed
      <4> QED BY <3>1, <3>2, <4>1, <2>4
    <3>3. CASE k = m + 1
      BY <3>1, <3>3, <2>4, <2>7
    <3> QED BY <3>1, <3>2, <3>3
  <2>9. Pushed(P, cells, n + 1, safe)
    BY <2>4, <2>5, <2>6, <2>8 DEF Pushed
  <2> QED BY <2>9 DEF P
<1> QED BY <1>5, <1>6, <1>7

(* The number of the first and of the last cell of a range. *)
FirstCell(g, chunk) == g.start \div chunk
LastCell(g, chunk) == g.end \div chunk

LEMMA FillChunksIs ==
  ASSUME NEW span, NEW covered, NEW chunk \in Nat \ {0}, NEW safe \in Nat,
         Uncovered(span, covered) \in Seq(Ranges),
         \A i, k \in DOMAIN Uncovered(span, covered) :
           i < k => Uncovered(span, covered)[i].end < Uncovered(span, covered)[k].start
  PROVE  LET gaps == Uncovered(span, covered)
             plan == FillChunks(span, covered, chunk, safe)
         IN /\ plan \in Seq(Ranges)
            /\ \A i \in DOMAIN gaps :
                 \A k \in FirstCell(gaps[i], chunk)..LastCell(gaps[i], chunk) :
                   k * chunk <= safe =>
                     \E j \in DOMAIN plan : plan[j] = Clip(GridCell(k, chunk), safe)
            /\ \A j \in DOMAIN plan : \E i \in DOMAIN gaps :
                 \E k \in FirstCell(gaps[i], chunk)..LastCell(gaps[i], chunk) :
                   plan[j] = Clip(GridCell(k, chunk), safe)
            /\ \A i, k \in DOMAIN plan : i < k => plan[i].start < plan[k].start
<1> DEFINE gaps == Uncovered(span, covered)
           A == GridCells(chunk)
           aligned == [i \in DOMAIN gaps |-> AlignChunks(gaps[i], chunk)]
           cells == Flattened(aligned)
           n == Len(cells)
           R == {p \in A \X A : p[1].start <= p[2].start}
           first(i) == FirstCell(gaps[i], chunk)
           last(i) == LastCell(gaps[i], chunk)
           Eq(h) == h = [i \in 0..n |-> IF i = 0 THEN <<>> ELSE PushCell(h[i - 1], cells[i], safe)]
           out == CHOOSE h : Eq(h)
<1>1. FillChunks(span, covered, chunk, safe) = out[n]
  BY DEF FillChunks
<1> HIDE DEF gaps
<1>2. gaps \in Seq(Ranges) /\ \A i, k \in DOMAIN gaps : i < k => gaps[i].end < gaps[k].start
  BY DEF gaps
<1>3. ASSUME NEW i \in DOMAIN gaps
      PROVE  /\ gaps[i] \in Ranges
             /\ first(i) \in Nat /\ last(i) \in Nat /\ first(i) <= last(i)
             /\ last(i) * chunk <= MaxEnd
             /\ DOMAIN aligned[i] = 1..(last(i) - first(i) + 1)
             /\ \A j \in DOMAIN aligned[i] : aligned[i][j] = GridCell(first(i) + j - 1, chunk)
             /\ aligned[i] \in Seq(A)
  <2>1. gaps[i] \in Ranges
    BY <1>2
  <2>2. aligned[i] = AlignChunks(gaps[i], chunk)
    OBVIOUS
  <2> HIDE DEF aligned, A
  <2> QED BY <2>1, <2>2, AlignIs DEF FirstCell, LastCell, A
<1>4. DOMAIN aligned = DOMAIN gaps /\ aligned \in Seq(Seq(A))
  <2>1. aligned \in [1..Len(gaps) -> Seq(A)]
    <3> HIDE DEF A
    <3> QED BY <1>2, <1>3
  <2>2. Len(gaps) \in Nat /\ DOMAIN gaps = 1..Len(gaps)
    BY <1>2
  <2> HIDE DEF aligned, A
  <2> QED BY <2>1, <2>2
<1> HIDE DEF aligned, first, last
<1>5. ASSUME NEW i \in DOMAIN gaps, NEW j \in DOMAIN aligned[i]
      PROVE  LET k == first(i) + j - 1
             IN /\ k \in Nat /\ k \in first(i)..last(i) /\ k * chunk <= MaxEnd
                /\ aligned[i][j] = GridCell(k, chunk)
                /\ aligned[i][j].start = k * chunk
                /\ aligned[i][j] \in A
  <2> DEFINE k == first(i) + j - 1
  <2>1. k \in Nat /\ k \in first(i)..last(i) /\ k <= last(i)
    BY <1>3
  <2>2. aligned[i][j] = GridCell(k, chunk) /\ aligned[i][j] \in A
    <3> HIDE DEF A
    <3> QED BY <1>3
  <2> HIDE DEF k
  <2>3. k * chunk \in Nat /\ k * chunk <= last(i) * chunk /\ last(i) * chunk \in Nat
    BY <1>3, <2>1, CellsApart
  <2>4. k * chunk <= MaxEnd
    <3> DEFINE u == k * chunk
               v == last(i) * chunk
    <3>1. u \in Nat /\ v \in Nat /\ u <= v /\ v <= MaxEnd /\ MaxEnd \in Nat
      BY <2>3, <1>3, BlockPlanAssumption
    <3> HIDE DEF u, v
    <3>2. u <= MaxEnd
      BY <3>1
    <3> QED BY <3>2 DEF u
  <2>5. aligned[i][j].start = k * chunk
    BY <2>1, <2>2, <2>4, GridCellFields
  <2> QED BY <2>1, <2>2, <2>4, <2>5 DEF k
<1>6. ASSUME NEW i \in DOMAIN gaps, NEW k \in DOMAIN gaps, i < k
      PROVE  last(i) <= first(k)
  <2>1. gaps[i].end < gaps[k].start
    BY <1>2, <1>6
  <2>2. gaps[i].end \in Nat /\ gaps[k].start \in Nat
    BY <1>3, RangesType
  <2> DEFINE a == last(i)
             b == first(k)
  <2>3. /\ a \in Nat /\ a * chunk \in Nat /\ a * chunk <= gaps[i].end
        /\ b \in Nat /\ b * chunk \in Nat /\ gaps[k].start < b * chunk + chunk
    BY <2>2, CellOf DEF last, first, FirstCell, LastCell
  <2> HIDE DEF a, b
  <2>4. b < a => b * chunk + chunk <= a * chunk
    BY <2>3, CellsApart
  <2>5. a <= b
    <3> DEFINE u == a * chunk
               v == b * chunk
    <3> HIDE DEF u, v
    <3>1. u \in Nat /\ v \in Nat /\ u <= gaps[i].end /\ gaps[k].start < v + chunk
          /\ (b < a => v + chunk <= u)
      BY <2>3, <2>4 DEF u, v
    <3> QED BY <3>1, <2>1, <2>2, <2>3
  <2> QED BY <2>5 DEF a, b
<1>7. ASSUME NEW i \in DOMAIN gaps, NEW k \in DOMAIN gaps,
             NEW j \in DOMAIN aligned[i], NEW l \in DOMAIN aligned[k],
             i < k \/ (i = k /\ j < l)
      PROVE  <<aligned[i][j], aligned[k][l]>> \in R
  <2> DEFINE a == first(i) + j - 1
             b == first(k) + l - 1
  <2>1. /\ a \in Nat /\ a <= last(i) /\ first(i) <= a
        /\ aligned[i][j].start = a * chunk /\ aligned[i][j] \in A
    <3>1. first(i) \in Nat /\ last(i) \in Nat
      BY <1>3
    <3> QED BY <1>5, <3>1
  <2>2. /\ b \in Nat /\ b <= last(k) /\ first(k) <= b
        /\ aligned[k][l].start = b * chunk /\ aligned[k][l] \in A
    <3>1. first(k) \in Nat /\ last(k) \in Nat
      BY <1>3
    <3> QED BY <1>5, <3>1
  <2>3. a <= b
    <3>1. CASE i < k
      <4>1. last(i) <= first(k) /\ last(i) \in Nat /\ first(k) \in Nat
        BY <3>1, <1>3, <1>6
      <4> HIDE DEF a, b
      <4> QED BY <4>1, <2>1, <2>2
    <3>2. CASE i = k /\ j < l
      <4>1. first(i) \in Nat /\ j \in Int /\ l \in Int
        BY <3>2, <1>3
      <4> QED BY <3>2, <4>1
    <3> QED BY <3>1, <3>2, <1>7
  <2> HIDE DEF a, b, A
  <2>4. a * chunk <= b * chunk
    BY <2>1, <2>2, <2>3, CellsApart
  <2>5. aligned[i][j].start <= aligned[k][l].start
    BY <2>1, <2>2, <2>4
  <2> QED BY <2>1, <2>2, <2>5
<1>8. Sorted(aligned, R)
  <2> HIDE DEF R, A
  <2> QED BY <1>4, <1>7 DEF Sorted
<1>9. cells \in Seq(A) /\ Flat(cells, aligned, Len(aligned), R)
  <2> HIDE DEF R, A, cells
  <2> QED BY <1>4, <1>8, FlattenIs DEF cells
<1>10. DOMAIN aligned = 1..Len(aligned) /\ DOMAIN gaps = 1..Len(aligned)
  BY <1>4
<1> HIDE DEF cells
<1>11. /\ \A i \in DOMAIN gaps : \A j \in DOMAIN aligned[i] :
            \E k \in DOMAIN cells : cells[k] = aligned[i][j]
       /\ \A k \in DOMAIN cells : \E i \in DOMAIN gaps : \E j \in DOMAIN aligned[i] :
            cells[k] = aligned[i][j]
       /\ \A k, l \in DOMAIN cells : k < l => <<cells[k], cells[l]>> \in R
  BY <1>9, <1>10, ZenonT(60) DEF Flat
<1>12. \A k, l \in DOMAIN cells : k < l => cells[k].start <= cells[l].start
  <2> HIDE DEF A
  <2> QED BY <1>11
<1>13. n \in Nat /\ DOMAIN cells = 1..n
  <2> HIDE DEF A
  <2> QED BY <1>9
<1> HIDE DEF n, R
<1>14. ASSUME NEW i \in 1..n, NEW x \in Seq(Ranges) PROVE PushCell(x, cells[i], safe) \in Seq(Ranges)
  <2> DEFINE c == Clip(cells[i], safe)
  <2>1. cells[i] \in A
    <3> HIDE DEF A
    <3> QED BY <1>9, <1>13
  <2>2. c # NoRange => c \in Ranges
    BY <2>1, GridCellsType
  <2>3. PushCell(x, cells[i], safe) = IF c = NoRange \/ (x # <<>> /\ x[Len(x)] = c) THEN x ELSE Append(x, c)
    BY DEF PushCell, Clip
  <2> HIDE DEF c
  <2>4. c \in Ranges => Append(x, c) \in Seq(Ranges)
    OBVIOUS
  <2> QED BY <2>2, <2>3, <2>4
<1> HIDE DEF A
<1>15. Eq(out)
  <2> DEFINE step == [i \in 1..n |-> [x \in Seq(Ranges) |-> PushCell(x, cells[i], safe)]]
  <2>1. step \in [1..n -> [Seq(Ranges) -> Seq(Ranges)]]
    BY <1>14
  <2>2. <<>> \in Seq(Ranges)
    OBVIOUS
  <2>3. PICK h : Iterates(h, n, Seq(Ranges), <<>>, step)
    <3>1. step \in Rounds(n, Seq(Ranges))
      BY <2>1 DEF Rounds
    <3> HIDE DEF step
    <3> QED BY <1>13, <2>2, <3>1, LoopExists
  <2>4. ASSUME NEW i \in 0..n
        PROVE  h[i] = IF i = 0 THEN <<>> ELSE PushCell(h[i - 1], cells[i], safe)
    <3>1. CASE i = 0
      BY <3>1, <2>3 DEF Iterates
    <3>2. CASE i # 0
      <4>1. i \in 1..n /\ i - 1 \in 0..n
        BY <3>2, <1>13
      <4>2. h[i - 1] \in Seq(Ranges)
        BY <4>1, <2>3 DEF Iterates
      <4> QED BY <3>2, <4>1, <4>2, <2>3 DEF Iterates
    <3> QED BY <3>1, <3>2
  <2>5. Eq(h)
    BY <2>3, <2>4 DEF Iterates
  <2> HIDE DEF Eq
  <2> QED BY <2>5
<1> HIDE DEF out
<1>16. out[0] = <<>> /\ \A i \in 1..n : out[i] = PushCell(out[i - 1], cells[i], safe)
  <2>1. \A i \in 1..n : i \in 0..n /\ i # 0
    BY <1>13
  <2> QED BY <2>1, <1>13, <1>15
<1> DEFINE Good == [i \in 0..n |-> {x \in Seq(Ranges) : Pushed(x, cells, i, safe)}]
<1>17. out[0] \in Good[0]
  <2>1. Pushed(<<>>, cells, 0, safe)
    BY DEF Pushed
  <2> QED BY <2>1, <1>13, <1>16
<1>18. \A i \in 1..n : out[i - 1] \in Good[i - 1] => out[i] \in Good[i]
  <2> SUFFICES ASSUME NEW i \in 1..n, out[i - 1] \in Good[i - 1] PROVE out[i] \in Good[i]
    OBVIOUS
  <2> DEFINE k == i - 1
             x == out[k]
  <2>1. i \in 0..n /\ k \in 0..n /\ i = k + 1 /\ k \in Nat /\ k + 1 \in DOMAIN cells
    BY <1>13
  <2>2. x \in Seq(Ranges) /\ Pushed(x, cells, k, safe)
    BY <2>1
  <2>3. out[i] = PushCell(x, cells[k + 1], safe)
    BY <2>1, <1>16
  <2> HIDE DEF k, x
  <2>4. Pushed(PushCell(x, cells[k + 1], safe), cells, k + 1, safe)
    BY <2>1, <2>2, <1>9, <1>12, PushCellPushes DEF A
  <2>5. out[i] \in Seq(Ranges) /\ Pushed(out[i], cells, i, safe)
    <3>1. Pushed(out[i], cells, i, safe)
      BY <2>1, <2>3, <2>4, Zenon
    <3> QED BY <3>1, Zenon DEF Pushed
  <2> QED BY <2>1, <2>5
<1>19. Pushed(out[n], cells, n, safe)
  <2>1. \A i \in 0..n : out[i] \in Good[i]
    <3> HIDE DEF Good
    <3> QED BY <1>13, <1>17, <1>18, LoopInvariant
  <2> QED BY <2>1, <1>13
<1> DEFINE plan == out[n]
<1> HIDE DEF plan
<1>20. /\ plan \in Seq(Ranges)
       /\ \A l \in DOMAIN cells : Clip(cells[l], safe) # NoRange =>
            \E j \in DOMAIN plan : plan[j] = Clip(cells[l], safe)
       /\ \A j \in DOMAIN plan : \E l \in DOMAIN cells : plan[j] = Clip(cells[l], safe)
       /\ \A j, k \in DOMAIN plan : j < k => plan[j].start < plan[k].start
  BY <1>13, <1>19, Zenon DEF Pushed, plan
<1>21. ASSUME NEW i \in DOMAIN gaps, NEW k \in first(i)..last(i), k * chunk <= safe
       PROVE  \E j \in DOMAIN plan : plan[j] = Clip(GridCell(k, chunk), safe)
  <2> DEFINE j == k - first(i) + 1
  <2>1. j \in DOMAIN aligned[i] /\ first(i) + j - 1 = k
    BY <1>3
  <2> HIDE DEF j
  <2>2. aligned[i][j] = GridCell(k, chunk) /\ k \in Nat /\ k * chunk <= MaxEnd
    BY <2>1, <1>5
  <2>3. PICK l \in DOMAIN cells : cells[l] = aligned[i][j]
    BY <2>1, <1>11
  <2>4. Clip(cells[l], safe) # NoRange
    <3>1. k \in Nat /\ k * chunk <= MaxEnd /\ k * chunk <= safe
      BY <2>2, <1>21
    <3>2. Clip(GridCell(k, chunk), safe) # NoRange
      BY <3>1, ClipIs
    <3> QED BY <2>2, <2>3, <3>2
  <2> QED BY <2>2, <2>3, <2>4, <1>20
<1>22. ASSUME NEW j \in DOMAIN plan
       PROVE  \E i \in DOMAIN gaps : \E k \in first(i)..last(i) :
                plan[j] = Clip(GridCell(k, chunk), safe)
  <2>1. PICK l \in DOMAIN cells : plan[j] = Clip(cells[l], safe)
    BY <1>20
  <2>2. PICK i \in DOMAIN gaps : \E m \in DOMAIN aligned[i] : cells[l] = aligned[i][m]
    BY <1>11
  <2>3. PICK m \in DOMAIN aligned[i] : cells[l] = aligned[i][m]
    BY <2>2
  <2> DEFINE k == first(i) + m - 1
  <2>4. k \in first(i)..last(i) /\ aligned[i][m] = GridCell(k, chunk)
    BY <1>5
  <2> HIDE DEF k
  <2>5. plan[j] = Clip(GridCell(k, chunk), safe)
    BY <2>1, <2>3, <2>4
  <2> QED BY <2>4, <2>5
<1>23. plan = FillChunks(span, covered, chunk, safe)
  BY <1>1 DEF plan, out, n, cells, aligned, gaps
<1> QED BY <1>20, <1>21, <1>22, <1>23 DEF gaps, first, last

LEMMA CellOrder ==
  ASSUME NEW a \in Nat, NEW b \in Nat, a <= b, NEW d \in Nat \ {0}
  PROVE  a \div d <= b \div d
<1> DEFINE p == a \div d
           q == b \div d
<1>1. /\ p \in Nat /\ p * d \in Nat /\ p * d <= a
      /\ q \in Nat /\ q * d \in Nat /\ b < q * d + d
  BY CellOf
<1> HIDE DEF p, q
<1>2. q < p => q * d + d <= p * d
  BY <1>1, CellsApart
<1> DEFINE u == p * d
           v == q * d
<1> HIDE DEF u, v
<1>3. u \in Nat /\ v \in Nat /\ u <= a /\ b < v + d /\ (q < p => v + d <= u)
  BY <1>1, <1>2 DEF u, v
<1>4. p <= q
  BY <1>1, <1>3
<1> QED BY <1>4 DEF p, q

(* A cell ended at the safe head is what PlansReachGaps says of a chunk. *)
LEMMA ClippedCell ==
  ASSUME NEW k \in Nat, NEW chunk \in Nat \ {0}, k * chunk <= MaxEnd, NEW safe \in Nat,
         k * chunk <= safe
  PROVE  LET c == Clip(GridCell(k, chunk), safe)
         IN /\ c \in Ranges /\ c.start = k * chunk /\ c.start % chunk = 0
            /\ c.end = Least(Least(c.start + chunk - 1, safe), MaxEnd)
            /\ c.end <= k * chunk + chunk - 1
            /\ \A b \in Int : b \in BlocksOf(c) <=>
                 k * chunk <= b /\ b < k * chunk + chunk /\ b <= safe /\ b <= MaxEnd
<1> DEFINE c == Clip(GridCell(k, chunk), safe)
           x == k * chunk
<1>1. c \in Ranges /\ c.start = x /\ c.end = Least(GridCell(k, chunk).end, safe)
  BY ClipIs
<1>2. GridCell(k, chunk).end = Least(x + chunk - 1, MaxEnd)
  BY GridCellFields
<1>3. x \in Nat /\ x % chunk = 0
  BY CellsApart
<1>4. c.end = Least(Least(x + chunk - 1, MaxEnd), safe)
  BY <1>1, <1>2
<1> HIDE DEF x, c
<1>5. MaxEnd \in Nat
  BY BlockPlanAssumption
<1>6. c.end = Least(Least(c.start + chunk - 1, safe), MaxEnd)
  BY <1>1, <1>3, <1>4, <1>5 DEF Least
<1>7. c.end <= x + chunk - 1
  BY <1>3, <1>4, <1>5 DEF Least
<1>8. \A b \in Int : b <= c.end <=> b <= x + chunk - 1 /\ b <= safe /\ b <= MaxEnd
  BY <1>3, <1>4, <1>5 DEF Least
<1>9. c.end \in Nat
  BY <1>1, RangesType
<1>10. \A b \in Int : b \in BlocksOf(c) <=> x <= b /\ b < x + chunk /\ b <= safe /\ b <= MaxEnd
  BY <1>1, <1>3, <1>8, <1>9 DEF BlocksOf
<1> QED BY <1>1, <1>3, <1>6, <1>7, <1>10 DEF x, c

(* The span of whole cells around a range that may be filled in part. *)
LEMMA GridSpanIs ==
  ASSUME NEW r \in Ranges, NEW chunk \in Nat \ {0}, NEW safe \in Block, r.start <= safe
  PROVE  LET f == GridSpan(r, chunk, safe)
         IN /\ f \in Ranges /\ f # NoRange
            /\ f.start <= r.start /\ f.end <= safe
            /\ \A b \in BlocksOf(r) : b <= safe => b \in BlocksOf(f)
<1> DEFINE p == (r.start \div chunk) * chunk
           q == r.end \div chunk
           x == q * chunk
           E == Saturate(Saturate(Saturate(q + 1) * chunk) - 1)
           e == Least(Least(E, safe), MaxEnd)
           f == GridSpan(r, chunk, safe)
<1>1. /\ r.start \in Nat /\ r.end \in Nat /\ r.start <= r.end /\ r.end <= MaxEnd
      /\ MaxEnd \in Nat /\ safe \in Nat /\ safe <= MaxEnd /\ MaxU64 \in Nat
  BY RangesType, BlockPlanAssumption DEF Block
<1>2. p \in Nat /\ p <= r.start
  BY <1>1, CellOf
<1>3. q \in Nat /\ x \in Nat /\ r.end < x + chunk
  BY <1>1, CellOf
<1>4. f = NewRange(p, e)
  BY DEF GridSpan
<1> HIDE DEF p, q, x
<1>5. Least(E, MaxEnd) = Least(x + chunk - 1, MaxEnd)
  <2>1. CellEnd(q, chunk) = Least(E, MaxEnd)
    BY DEF CellEnd
  <2>2. CellEnd(q, chunk) = Least(x + chunk - 1, MaxEnd)
    BY <1>3, CellEndIs DEF x
  <2> QED BY <2>1, <2>2
<1>6. E \in Nat
  <2> DEFINE y == Saturate(Saturate(q + 1) * chunk) - 1
  <2>1. Saturate(q + 1) \in Nat
    BY <1>1, <1>3 DEF Saturate, Least
  <2>2. Saturate(q + 1) * chunk \in Nat
    BY <2>1
  <2> DEFINE z == Saturate(q + 1) * chunk
  <2>3. z \in Nat
    BY <2>2
  <2> HIDE DEF z
  <2>4. Saturate(z) \in Nat
    BY <2>3, <1>1 DEF Saturate, Least
  <2>5. y \in Int
    BY <2>4 DEF z
  <2> HIDE DEF y
  <2>6. Saturate(y) \in Nat
    BY <2>5, <1>1 DEF Saturate, Least
  <2> QED BY <2>6 DEF y
<1> HIDE DEF E
<1>7. r.end <= E
  BY <1>1, <1>3, <1>5, <1>6 DEF Least
<1>8. e \in Nat /\ e <= safe /\ e <= MaxEnd /\ r.start <= e /\ (e >= r.end \/ e = safe)
  BY <1>1, <1>6, <1>7 DEF Least
<1> HIDE DEF e
<1>9. f = [start |-> p, end |-> e] /\ f \in Ranges /\ f # NoRange
  <2>1. e \in Int /\ p <= e
    BY <1>1, <1>2, <1>8
  <2> HIDE DEF f
  <2> QED BY <2>1, <1>2, <1>4, <1>8, NewRangeIs
<1>10. f.start = p /\ f.end = e /\ BlocksOf(f) = p..e
  BY <1>9 DEF BlocksOf
<1> HIDE DEF f
<1>11. \A b \in BlocksOf(r) : b <= safe => b \in BlocksOf(f)
  <2> SUFFICES ASSUME NEW b \in BlocksOf(r), b <= safe PROVE b \in p..e
    BY <1>10
  <2>1. b \in Int /\ r.start <= b /\ b <= r.end
    BY <1>1 DEF BlocksOf
  <2> QED BY <2>1, <1>1, <1>2, <1>8
<1> QED BY <1>2, <1>8, <1>9, <1>10, <1>11 DEF f

=============================================================================
