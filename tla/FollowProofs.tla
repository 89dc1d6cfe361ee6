---------------------------- MODULE FollowProofs ----------------------------
(***************************************************************************)
(* What Follow keeps for every chain, every number of leaders and every    *)
(* size of window and fetch: types and the order of the marks of a follow  *)
(* row, durable rows, and one block per height in the store as long as the *)
(* transactions that write rows do not overlap.                            *)
(***************************************************************************)
EXTENDS Follow, FiniteSetTheorems, WellFoundedInduction, TLAPS

-----------------------------------------------------------------------------
(* Natural numbers and finite sets of them *)

(* Every non-empty set of naturals has a least member. *)
LEMMA NatLeast ==
  ASSUME NEW S \in SUBSET Nat, S # {}
  PROVE  \E m \in S : \A k \in S : m <= k
<1> DEFINE R == OpToRel(<, Nat)
<1>1. IsWellFoundedOn(R, Nat)
  BY NatLessThanWellFounded
<1>2. \A x, y \in Nat : x < y => <<x, y>> \in R
  BY DEF OpToRel
<1> HIDE DEF R
<1>3. PICK m \in S : \A y \in S : ~ (<<y, m>> \in R)
  BY <1>1, WFMin, Zenon
<1>4. ASSUME NEW k \in S PROVE m <= k
  <2>1. m \in Nat /\ k \in Nat
    OBVIOUS
  <2>2. ~(k < m)
    BY <2>1, <1>2, <1>3, Zenon
  <2> QED BY <2>1, <2>2
<1> QED BY <1>3, <1>4

(* Induction: a set that has 0, and n + 1 whenever it has n, has every      *)
(* natural.                                                                 *)
LEMMA NatInductive ==
  ASSUME NEW S, 0 \in S, \A n \in Nat : n \in S => n + 1 \in S
  PROVE  \A n \in Nat : n \in S
<1> SUFFICES ASSUME NEW n \in Nat, n \notin S PROVE FALSE
  OBVIOUS
<1>1. Nat \ S \in SUBSET Nat /\ Nat \ S # {}
  OBVIOUS
<1>2. PICK m \in Nat \ S : \A k \in Nat \ S : m <= k
  BY <1>1, NatLeast, Zenon
<1>3. m # 0 /\ m - 1 \in Nat
  BY <1>2
<1>4. m - 1 \in S
  BY <1>2, <1>3
<1>5. (m - 1) + 1 \in S
  BY <1>3, <1>4
<1> QED BY <1>2, <1>5

(* Min of FiniteSetsExt is the least member of a set of naturals. *)
LEMMA MinNat ==
  ASSUME NEW S \in SUBSET Nat, S # {}
  PROVE  /\ Min(S) \in S
         /\ Min(S) \in Nat
         /\ \A x \in S : Min(S) <= x
<1>1. \E m \in S : \A y \in S : m <= y
  BY NatLeast
<1>2. Min(S) \in S /\ \A x \in S : Min(S) <= x
  BY <1>1, Zenon DEF Min
<1> QED BY <1>2, Zenon

(* Max of FiniteSetsExt is the greatest member of a bounded set of naturals. *)
LEMMA MaxNat ==
  ASSUME NEW n \in Int, NEW S \in SUBSET (0..n), S # {}
  PROVE  /\ Max(S) \in S
         /\ Max(S) \in 0..n
         /\ \A x \in S : x <= Max(S)
<1> DEFINE T == {k \in Nat : n - k \in S}
<1>2. PICK s \in S : TRUE
  BY Zenon
<1>1. n \in Nat
  <2>1. s \in 0..n
    OBVIOUS
  <2> QED BY <2>1
<1>3. n - s \in T
  BY <1>1, <1>2
<1>4. PICK m \in T : \A k \in T : m <= k
  BY <1>3, NatLeast, Zenon
<1>5. ASSUME NEW x \in S PROVE x <= n - m
  <2>1. n - x \in T
    BY <1>1
  <2> QED BY <2>1, <1>4, <1>1
<1>6. \E y \in S : \A x \in S : y >= x
  <2>1. n - m \in S
    BY <1>4
  <2>2. \A x \in S : n - m >= x
    BY <1>5, <1>1, <1>4
  <2> QED BY <2>1, <2>2
<1>7. Max(S) \in S /\ \A x \in S : Max(S) >= x
  BY <1>6, Zenon DEF Max
<1> QED BY <1>7, <1>1, Zenon

(* Min and Max of two integers. *)
LEMMA MinPair ==
  ASSUME NEW a \in Int, NEW b \in Int
  PROVE  Min({a, b}) = IF a <= b THEN a ELSE b
<1>1. \E m \in {a, b} : \A y \in {a, b} : m <= y
  <2>1. CASE a <= b  BY <2>1
  <2>2. CASE ~(a <= b)  BY <2>2
  <2> QED BY <2>1, <2>2
<1>2. Min({a, b}) \in {a, b} /\ \A x \in {a, b} : Min({a, b}) <= x
  BY <1>1, Zenon DEF Min
<1> QED BY <1>2

LEMMA MaxPair ==
  ASSUME NEW a \in Int, NEW b \in Int
  PROVE  Max({a, b}) = IF a >= b THEN a ELSE b
<1>1. \E m \in {a, b} : \A y \in {a, b} : m >= y
  <2>1. CASE a >= b  BY <2>1
  <2>2. CASE ~(a >= b)  BY <2>2
  <2> QED BY <2>1, <2>2
<1>2. Max({a, b}) \in {a, b} /\ \A x \in {a, b} : Max({a, b}) >= x
  BY <1>1, Zenon DEF Max
<1> QED BY <1>2

-----------------------------------------------------------------------------
(* Counting a set in ascending order *)

(* A finite set of n naturals has, for each k < n, a member above exactly k *)
(* others.                                                                  *)
LEMMA RankExists ==
  ASSUME NEW S \in SUBSET Nat, IsFiniteSet(S), NEW k \in 0..(Cardinality(S) - 1)
  PROVE  \E x \in S : Cardinality({y \in S : y < x}) = k
<1> DEFINE Rank(x) == Cardinality({y \in S : y < x})
           D == {j \in Nat : j < Cardinality(S) => \E x \in S : Rank(x) = j}
<1>0. \A x \in S : x \in Nat
  OBVIOUS
<1>1. Cardinality(S) \in Nat
  BY FS_CardinalityType
<1>2. 0 \in D
  <2>1. SUFFICES ASSUME 0 < Cardinality(S) PROVE \E x \in S : Rank(x) = 0
    OBVIOUS
  <2>2. S # {}
    BY <2>1, FS_EmptySet, <1>1
  <2>3. Min(S) \in S /\ Min(S) \in Nat /\ \A x \in S : Min(S) <= x
    BY <2>2, MinNat
  <2>4. {y \in S : y < Min(S)} = {}
    <3>1. ASSUME NEW y \in S PROVE ~(y < Min(S))
      BY <2>3, <1>0
    <3> QED BY <3>1, Zenon
  <2> QED BY <2>3, <2>4, FS_EmptySet, Zenon
<1>3. ASSUME NEW j \in Nat, j \in D PROVE j + 1 \in D
  <2>1. SUFFICES ASSUME j + 1 < Cardinality(S) PROVE \E x \in S : Rank(x) = j + 1
    OBVIOUS
  <2>2. PICK x \in S : Rank(x) = j
    BY <1>1, <1>3, <2>1
  <2> DEFINE L == {y \in S : y < x}
             A == {y \in S : y > x}
  <2>3. IsFiniteSet(L) /\ Cardinality(L) = j
    BY <2>2, FS_Subset
  <2>4. Cardinality(L \cup {x}) = j + 1
    BY <2>3, FS_AddElement
  <2>5. A # {}
    <3>1. SUFFICES ASSUME A = {} PROVE FALSE
      OBVIOUS
    <3>2. S = L \cup {x}
      <4>1. ASSUME NEW y \in S PROVE y < x \/ y = x
        BY <3>1, <1>0
      <4> QED BY <4>1, Zenon
    <3> QED BY <3>2, <2>4, <2>1, <1>1
  <2>6. Min(A) \in A /\ \A y \in A : Min(A) <= y
    BY <2>5, MinNat
  <2>7. {y \in S : y < Min(A)} = L \cup {x}
    <3>1. Min(A) \in Nat /\ x < Min(A) /\ x \in Nat
      BY <2>6, <1>0, Zenon
    <3>2. ASSUME NEW y \in S PROVE y < Min(A) <=> y < x \/ y = x
      BY <3>1, <2>6, <1>0
    <3> QED BY <3>2, Zenon
  <2> QED BY <2>4, <2>6, <2>7, Zenon
<1>4. k \in D
  <2> HIDE DEF D
  <2> QED BY <1>1, <1>2, <1>3, NatInductive
<1> QED BY <1>1, <1>4

-----------------------------------------------------------------------------
(* The inductive invariant: what each variable and the state of each tick   *)
(* hold.                                                                    *)

HeadRow == [latest : Height, hash : Hash, safe : Height, finalized : Height]

FollowRows == UNION {[D -> Progress] : D \in SUBSET Sel}

Blocks == SUBSET (Height \X Hash)

Search == [points : Blocks, floor : Nat, from : Nat, wide : BOOLEAN, low : Nat, high : Nat,
           fork : Int]

Pc == InFollow \cup {"out", "idle", "publish", "retain", "purge"}

Tick == [pc : Pc, heads : HeadRow, row : FollowRows, known : Blocks, hashes : Blocks,
         todo : SUBSET (Height \cup Sel), span : SUBSET Height, members : SUBSET Sel,
         got : SUBSET RowType, end : Hash \cup {NoHash}, rb : Search]

OneHash(S) == \A q, r \in S : q.block = r.block => q.hash = r.hash

(* What a tick has at hand: the rows it fetched are of one chain, the       *)
(* search stays within its points, todo holds what the step works off, and  *)
(* a fetch has a span.                                                      *)
TickOK(t) ==
  /\ OneHash(t.got)
  /\ t.rb.low <= t.rb.high /\ t.rb.high <= Cardinality(Heights(t.rb.points))
  /\ t.pc = "check" => t.todo \subseteq Height
  /\ t.pc \in {"logs", "resolve"} => t.todo \subseteq LogSel \cap DOMAIN t.row
  /\ (t.pc \in {"store", "insert"} /\ t.members \cap BlockSel = {})
       => t.todo \subseteq LogSel \cap DOMAIN t.row
  /\ t.pc = "finalize" => t.todo \subseteq DOMAIN t.row
  /\ t.pc \in {"resolve", "store", "insert"} => t.span # {}

ChainInv == /\ fork \in Seq(Height) /\ Len(fork) <= MaxForks
            /\ latest \in Height /\ settled \in Height

ClientInv == subs \subseteq Sel /\ halted \in BOOLEAN /\ lock \in Leader \cup {NoLeader}

ProgressInv ==
  /\ progress \in FollowRows
  /\ \A s \in DOMAIN progress : /\ progress[s].finalized <= progress[s].promoted
                                /\ progress[s].promoted <= progress[s].head

FillType == [sel : Sel, block : Height, got : SUBSET RowType]

StoreInv == /\ rows \subseteq RowType
            /\ coverage \in [Sel -> SUBSET Height] /\ heads \in HeadRow
            /\ fills \subseteq FillType /\ \A f \in fills : OneHash(f.got)

TicksInv == tk \in [Leader -> Tick] /\ \A l \in Leader : TickOK(tk[l])

FollowInv == ChainInv /\ ClientInv /\ ProgressInv /\ StoreInv /\ TicksInv

-----------------------------------------------------------------------------
(* The operators of the model *)

LEMMA HashAtType ==
  ASSUME ChainInv, NEW v \in Hash, NEW n
  PROVE  HashAt(v, n) \in Hash
<1> DEFINE S == {w \in 0..v : w = 0 \/ fork[w] <= n}
<1>1. v \in Int /\ 0 <= v /\ v <= MaxForks /\ MaxForks \in Nat
  BY FollowAssumption DEF Hash
<1>2. S \in SUBSET (0..v) /\ 0 \in S
  BY <1>1
<1> HIDE DEF S
<1>3. Max(S) \in 0..v
  BY <1>1, <1>2, MaxNat
<1> QED BY <1>1, <1>3 DEF HashAt, Hash, S

LEMMA CanonicalType ==
  ASSUME ChainInv, NEW n
  PROVE  Canonical(n) \in Hash
<1>1. Len(fork) \in Hash
  BY FollowAssumption DEF ChainInv, Hash
<1> QED BY <1>1, HashAtType DEF Canonical

LEMMA BelowType ==
  ASSUME NEW n \in Height, NEW lag \in Nat
  PROVE  Below(n, lag) \in Height
BY FollowAssumption DEF Below, Height

LEMMA MinHeight ==
  ASSUME NEW S \in SUBSET Height, S # {}
  PROVE  Min(S) \in S /\ Min(S) \in Height
<1>1. S \in SUBSET Nat
  BY DEF Height
<1> QED BY <1>1, MinNat

LEMMA MaxHeightOf ==
  ASSUME NEW S \in SUBSET Height, S # {}
  PROVE  Max(S) \in S /\ Max(S) \in Height /\ \A x \in S : x <= Max(S)
<1>1. MaxHeight \in Int /\ S \in SUBSET (0..MaxHeight)
  BY FollowAssumption DEF Height
<1> QED BY <1>1, MaxNat DEF Height

LEMMA MaxOfTwo ==
  ASSUME NEW a \in Height, NEW b \in Height
  PROVE  Max({a, b}) \in Height /\ a <= Max({a, b}) /\ b <= Max({a, b})
<1>1. a \in Int /\ b \in Int
  BY DEF Height
<1> QED BY <1>1, MaxPair

LEMMA HeightsType ==
  ASSUME NEW points \in Blocks
  PROVE  /\ Heights(points) \in SUBSET Height
         /\ Heights(points) \in SUBSET Nat
         /\ IsFiniteSet(Heights(points))
         /\ Cardinality(Heights(points)) \in Nat
<1>1. Heights(points) \in SUBSET Height
  BY DEF Heights, Blocks
<1>2. IsFiniteSet(Height)
  BY FollowAssumption, FS_Interval DEF Height
<1>3. IsFiniteSet(Heights(points))
  BY <1>1, <1>2, FS_Subset
<1>4. Heights(points) \in SUBSET Nat
  BY <1>1 DEF Height
<1> QED BY <1>1, <1>3, <1>4, FS_CardinalityType

(* The height of a rank below the number of heights. *)
LEMMA RankHeight ==
  ASSUME NEW points \in Blocks, NEW k \in Nat, k < Cardinality(Heights(points))
  PROVE  (CHOOSE x \in Heights(points) : Cardinality({y \in Heights(points) : y < x}) = k) \in Height
<1> DEFINE H == Heights(points)
<1>1. H \in SUBSET Height /\ H \in SUBSET Nat /\ IsFiniteSet(H) /\ Cardinality(H) \in Nat
  BY HeightsType
<1> HIDE DEF H
<1>2. k \in 0..(Cardinality(H) - 1)
  BY <1>1 DEF H
<1>3. \E x \in H : Cardinality({y \in H : y < x}) = k
  BY <1>1, <1>2, RankExists
<1>4. (CHOOSE x \in H : Cardinality({y \in H : y < x}) = k) \in H
  BY <1>3, Zenon
<1> QED BY <1>1, <1>4 DEF H

LEMMA RowFields ==
  ASSUME NEW row \in FollowRows
  PROVE  /\ DOMAIN row \in SUBSET Sel
         /\ row = [s \in DOMAIN row |-> row[s]]
         /\ \A s \in DOMAIN row :
              /\ row[s] \in Progress
              /\ row[s].from \in 0..(MaxHeight + 1)
              /\ row[s].head \in Height /\ row[s].promoted \in Height /\ row[s].finalized \in Height
              /\ row[s].hash \in Hash \cup {NoHash}
<1>1. PICK D \in SUBSET Sel : row \in [D -> Progress]
  BY DEF FollowRows
<1> QED BY <1>1 DEF Progress

LEMMA RowsOf ==
  ASSUME NEW D \in SUBSET Sel, NEW row, row \in [D -> Progress]
  PROVE  row \in FollowRows
BY DEF FollowRows

LEMMA EmptyRows == <<>> \in FollowRows
<1>1. <<>> \in [{} -> Progress]
  OBVIOUS
<1>2. {} \in SUBSET Sel
  OBVIOUS
<1> QED BY <1>1, <1>2 DEF FollowRows

LEMMA FreshType ==
  ASSUME NEW safe \in Height
  PROVE  /\ Fresh(safe) \in Progress
         /\ Fresh(safe).finalized <= Fresh(safe).promoted
         /\ Fresh(safe).promoted <= Fresh(safe).head
BY FollowAssumption DEF Fresh, Progress, Height

LEMMA PointsType ==
  ASSUME StoreInv, NEW row \in FollowRows, NEW from, NEW to
  PROVE  PointsIn(row, from, to) \in Blocks
<1>1. \A r \in rows : r.block \in Height /\ r.hash \in Hash
  BY DEF StoreInv, RowType
<1>2. \A s \in DOMAIN row : row[s].hash # NoHash => row[s].head \in Height /\ row[s].hash \in Hash
  BY RowFields
<1> QED BY <1>1, <1>2 DEF PointsIn, Blocks

LEMMA LearnType ==
  ASSUME ChainInv, NEW t \in Tick, NEW n, NEW h \in Learn(t, n)
  PROVE  /\ h \in Hash \cup {NoHash}
         /\ n \in Height => Learned(t, n, h) \in Blocks
<1>1. t.known \in Blocks
  BY DEF Tick
<1>2. \A k \in t.known : k[2] \in Hash
  BY <1>1 DEF Blocks
<1>3. h \in Hash \cup {NoHash}
  BY <1>2, CanonicalType DEF Learn
<1> QED BY <1>1, <1>3 DEF Learned, Blocks

LEMMA KindsType ==
  ASSUME NEW s \in Sel
  PROVE  Kinds(s) \subseteq Kind \cup {Header}
BY FollowAssumption DEF Kinds, Sel

LEMMA IncomingType ==
  ASSUME ChainInv, NEW S \in SUBSET Sel, NEW span \in SUBSET Height
  PROVE  /\ Incoming(S, span) \in SUBSET RowType
         /\ OneHash(Incoming(S, span))
         /\ \A r \in Incoming(S, span) : r.finality = "unsafe" /\ r.block \in span
<1>1. \A r \in Incoming(S, span) :
        \E s \in S : \E k \in Kinds(s) : \E n \in span :
          r = [kind |-> k, block |-> n, hash |-> Canonical(n), finality |-> "unsafe"]
  BY DEF Incoming
<1>2. \A r \in Incoming(S, span) :
        /\ r \in RowType /\ r.hash = Canonical(r.block) /\ r.finality = "unsafe" /\ r.block \in span
  BY <1>1, CanonicalType, KindsType DEF RowType
<1> QED BY <1>2 DEF OneHash

-----------------------------------------------------------------------------
(* The store *)

Finality == {"unsafe", "safe", "finalized"}

(* S has every durable row of the store, no weaker than it is. *)
Keeps(S) ==
  \A r \in rows : r.finality # "unsafe" =>
    \E q \in S : /\ q.kind = r.kind /\ q.block = r.block /\ q.hash = r.hash
                 /\ Stronger(q.finality, r.finality) = q.finality

LEMMA StrongerType ==
  ASSUME NEW x \in Finality, NEW y
  PROVE  /\ Stronger(x, y) \in Finality
         /\ Stronger(Stronger(x, y), x) = Stronger(x, y)
         /\ Stronger(x, x) = x
BY DEF Stronger, Finality

LEMMA RowTypeFields ==
  ASSUME NEW r \in RowType
  PROVE  /\ r.kind \in Kind \cup {Header} /\ r.block \in Height /\ r.hash \in Hash
         /\ r.finality \in Finality
         /\ \A f \in Finality :
              /\ [r EXCEPT !.finality = f] \in RowType
              /\ [r EXCEPT !.finality = f].kind = r.kind
              /\ [r EXCEPT !.finality = f].block = r.block
              /\ [r EXCEPT !.finality = f].hash = r.hash
              /\ [r EXCEPT !.finality = f].finality = f
BY DEF RowType, Finality

(* S has no block that the store does not have. *)
Within(S) == \A q \in S : \E r \in rows : q.block = r.block /\ q.hash = r.hash

LEMMA SubsetWithin ==
  ASSUME NEW S \in SUBSET rows
  PROVE  Within(S)
BY DEF Within

(* Rows whose finality is raised one by one. *)
LEMMA RaiseKeeps ==
  ASSUME rows \subseteq RowType, NEW S,
         \A q \in S : \E r \in rows : \E y : q = [r EXCEPT !.finality = Stronger(r.finality, y)]
  PROVE  S \in SUBSET RowType /\ Within(S)
<1>1. ASSUME NEW q \in S
      PROVE  q \in RowType /\ \E r \in rows : q.block = r.block /\ q.hash = r.hash
  <2>1. PICK r \in rows : \E y : q = [r EXCEPT !.finality = Stronger(r.finality, y)]
    OBVIOUS
  <2>2. PICK y : q = [r EXCEPT !.finality = Stronger(r.finality, y)]
    BY <2>1
  <2>3. r \in RowType
    OBVIOUS
  <2>4. Stronger(r.finality, y) \in Finality
    BY <2>3, RowTypeFields, StrongerType
  <2> QED BY <2>2, <2>3, <2>4, RowTypeFields
<1> QED BY <1>1 DEF Within

LEMMA RaisedKeeps ==
  ASSUME rows \subseteq RowType, NEW S,
         \A r \in rows : \E y : [r EXCEPT !.finality = Stronger(r.finality, y)] \in S
  PROVE  Keeps(S)
<1> SUFFICES ASSUME NEW r \in rows
             PROVE  \E q \in S : /\ q.kind = r.kind /\ q.block = r.block /\ q.hash = r.hash
                                 /\ Stronger(q.finality, r.finality) = q.finality
  BY DEF Keeps
<1>1. PICK y : [r EXCEPT !.finality = Stronger(r.finality, y)] \in S
  OBVIOUS
<1>2. r \in RowType
  OBVIOUS
<1> DEFINE f == Stronger(r.finality, y)
           q == [r EXCEPT !.finality = f]
<1>3. f \in Finality /\ Stronger(f, r.finality) = f
  BY <1>2, RowTypeFields, StrongerType
<1> HIDE DEF f
<1>4. q.kind = r.kind /\ q.block = r.block /\ q.hash = r.hash /\ q.finality = f
  BY <1>2, <1>3, RowTypeFields
<1>5. q \in S
  BY <1>1 DEF f
<1> HIDE DEF q
<1> QED BY <1>3, <1>4, <1>5

LEMMA SubsetKeeps ==
  ASSUME rows \subseteq RowType, NEW S, \A r \in rows : r.finality # "unsafe" => r \in S
  PROVE  Keeps(S)
<1>1. \A r \in rows : Stronger(r.finality, r.finality) = r.finality
  BY RowTypeFields, StrongerType
<1> QED BY <1>1 DEF Keeps

(* Incoming rows that no stored row disagrees with. *)
Agrees(S) == \A r \in S, q \in rows : q.block = r.block => q.hash = r.hash

LEMMA NoConflictAgrees ==
  ASSUME NEW S, HashConflict(S) = {}
  PROVE  Agrees(S)
BY DEF HashConflict, Agrees

(* The finality Insert gives a stored row is one it raises the row to. *)
LEMMA InsertKeeps ==
  ASSUME rows \subseteq RowType, NEW incoming \in SUBSET RowType
  PROVE  /\ Insert(incoming) \in SUBSET RowType
         /\ Keeps(Insert(incoming))
         /\ \A q \in Insert(incoming) :
              \/ \E r \in rows : q.block = r.block /\ q.hash = r.hash
              \/ q \in incoming /\ \A r \in rows : ~SameKey(q, r)
<1> DEFINE new == {r \in incoming : ~\E q \in rows : SameKey(q, r)}
           Hit(q) == \E r \in incoming : SameKey(q, r) /\ q.hash = r.hash
           y(q) == (CHOOSE r \in incoming : SameKey(q, r)).finality
           Up(q) == [q EXCEPT !.finality = IF Hit(q) THEN Stronger(q.finality, y(q)) ELSE q.finality]
           old == {Up(q) : q \in rows}
<1>1. Insert(incoming) = new \cup old
  BY DEF Insert
<1>2. ASSUME NEW q \in rows
      PROVE  \E z : Up(q) = [q EXCEPT !.finality = Stronger(q.finality, z)]
  <2>1. q.finality \in Finality
    BY RowTypeFields
  <2>2. Stronger(q.finality, q.finality) = q.finality
    BY <2>1, StrongerType
  <2>3. CASE Hit(q)
    <3>1. Up(q) = [q EXCEPT !.finality = Stronger(q.finality, y(q))]
      BY <2>3
    <3> HIDE DEF y, Hit, Up
    <3> QED BY <3>1
  <2>4. CASE ~Hit(q)
    <3>1. Up(q) = [q EXCEPT !.finality = q.finality]
      BY <2>4
    <3>2. Up(q) = [q EXCEPT !.finality = Stronger(q.finality, q.finality)]
      BY <3>1, <2>2
    <3> HIDE DEF y, Hit, Up
    <3> QED BY <3>2
  <2> QED BY <2>3, <2>4, Zenon
<1> HIDE DEF Up
<1>3. old \in SUBSET RowType /\ Within(old)
  <2>1. \A q \in old : \E r \in rows : \E z : q = [r EXCEPT !.finality = Stronger(r.finality, z)]
    BY <1>2
  <2> HIDE DEF old
  <2> QED BY <2>1, RaiseKeeps, Zenon
<1>4. Keeps(old)
  <2>1. \A r \in rows : \E z : [r EXCEPT !.finality = Stronger(r.finality, z)] \in old
    BY <1>2
  <2> HIDE DEF old
  <2> QED BY <2>1, RaisedKeeps
<1>5. \A r \in new : r \in incoming /\ \A q \in rows : ~SameKey(r, q)
  BY DEF SameKey
<1>6. new \in SUBSET RowType
  OBVIOUS
<1> HIDE DEF new, old
<1>7. Keeps(new \cup old)
  BY <1>4 DEF Keeps
<1>8. \A q \in new \cup old :
        \/ \E r \in rows : q.block = r.block /\ q.hash = r.hash
        \/ q \in incoming /\ \A r \in rows : ~SameKey(q, r)
  BY <1>3, <1>5 DEF Within
<1> QED BY <1>1, <1>3, <1>6, <1>7, <1>8

LEMMA StoredHashesType ==
  ASSUME rows \subseteq RowType, NEW n
  PROVE  StoredHashes(n) \subseteq Hash
BY DEF StoredHashes, BlockRows, RowType

LEMMA RewindType ==
  ASSUME NEW p \in Progress, p.finalized <= p.promoted, p.promoted <= p.head,
         NEW n \in Int, NEW parent \in Hash \cup {NoHash}
  PROVE  LET w == Rewind(p, n, parent)
         IN w \in Progress /\ w.finalized <= w.promoted /\ w.promoted <= w.head
<1>1. /\ p.head \in Height /\ p.promoted \in Height /\ p.finalized \in Height
      /\ p.hash \in Hash \cup {NoHash}
  BY DEF Progress
<1>2. CASE p.head < n
  BY <1>2 DEF Rewind
<1>3. CASE ~(p.head < n)
  <2> DEFINE m == Min({p.head, n - 1})
             h == Max({m, p.promoted})
             hash == IF p.promoted >= n THEN NoHash ELSE parent
  <2>1. p.head \in Int /\ p.promoted \in Int /\ n - 1 \in Int
    BY <1>1 DEF Height
  <2>2. m \in Int /\ m <= p.head
    BY <2>1, MinPair
  <2> HIDE DEF m
  <2>3. h \in Int /\ p.promoted <= h /\ (h = m \/ h = p.promoted)
    BY <2>1, <2>2, MaxPair
  <2> HIDE DEF h
  <2>4. h \in Height
    BY <1>1, <2>1, <2>2, <2>3, FollowAssumption DEF Height
  <2>5. hash \in Hash \cup {NoHash}
    OBVIOUS
  <2>6. Rewind(p, n, parent) = [p EXCEPT !.hash = hash, !.head = h]
    BY <1>3 DEF Rewind, h, m
  <2> HIDE DEF hash
  <2> QED BY <2>3, <2>4, <2>5, <2>6, Zenon DEF Progress
<1> QED BY <1>2, <1>3

-----------------------------------------------------------------------------
(* The state of a tick *)

LEMMA TickFields ==
  ASSUME NEW t \in Tick
  PROVE  /\ t.pc \in Pc /\ t.heads \in HeadRow /\ t.row \in FollowRows
         /\ t.known \in Blocks /\ t.hashes \in Blocks
         /\ t.todo \in SUBSET (Height \cup Sel) /\ t.span \in SUBSET Height
         /\ t.members \in SUBSET Sel /\ t.got \in SUBSET RowType
         /\ t.end \in Hash \cup {NoHash} /\ t.rb \in Search
         /\ t.heads.latest \in Height /\ t.heads.hash \in Hash
         /\ t.heads.safe \in Height /\ t.heads.finalized \in Height
         /\ t.rb.points \in Blocks /\ t.rb.low \in Nat /\ t.rb.high \in Nat /\ t.rb.fork \in Int
<1>1. /\ t.pc \in Pc /\ t.heads \in HeadRow /\ t.row \in FollowRows
      /\ t.known \in Blocks /\ t.hashes \in Blocks
      /\ t.todo \in SUBSET (Height \cup Sel) /\ t.span \in SUBSET Height
      /\ t.members \in SUBSET Sel /\ t.got \in SUBSET RowType
      /\ t.end \in Hash \cup {NoHash} /\ t.rb \in Search
  BY DEF Tick
<1>2. /\ t.heads.latest \in Height /\ t.heads.hash \in Hash
      /\ t.heads.safe \in Height /\ t.heads.finalized \in Height
  BY <1>1 DEF HeadRow
<1>3. t.rb.points \in Blocks /\ t.rb.low \in Nat /\ t.rb.high \in Nat /\ t.rb.fork \in Int
  BY <1>1 DEF Search
<1> QED BY <1>1, <1>2, <1>3

LEMMA NoSearchType ==
  NoSearch \in Search /\ NoSearch.low <= NoSearch.high
  /\ NoSearch.high <= Cardinality(Heights(NoSearch.points))
<1>1. NoSearch \in Search
  BY DEF NoSearch, Search, Blocks
<1>2. NoSearch.low = 0 /\ NoSearch.high = 0 /\ NoSearch.points \in Blocks
  BY DEF NoSearch, Blocks
<1>3. Cardinality(Heights(NoSearch.points)) \in Nat
  BY <1>2, HeightsType
<1> QED BY <1>1, <1>2, <1>3

LEMMA AtType ==
  ASSUME NEW pc \in Pc \ {"resolve", "store", "insert"}
  PROVE  /\ At(pc) \in Tick /\ TickOK(At(pc))
         /\ At(pc).pc = pc /\ At(pc).got = {} /\ At(pc).todo = {}
         /\ \A h \in HeadRow : [At(pc) EXCEPT !.heads = h] \in Tick /\ TickOK([At(pc) EXCEPT !.heads = h])
<1>1. NoHeads \in HeadRow
  BY FollowAssumption DEF NoHeads, HeadRow, Height, Hash
<1>2. At(pc) \in Tick
  BY <1>1, EmptyRows, NoSearchType DEF At, Tick, Blocks
<1>3. At(pc).pc = pc /\ At(pc).got = {} /\ At(pc).todo = {} /\ At(pc).rb = NoSearch
  BY DEF At
<1>4. OneHash({})
  BY DEF OneHash
<1>5. TickOK(At(pc))
  BY <1>3, <1>4, NoSearchType DEF TickOK
<1>6. ASSUME NEW h \in HeadRow
      PROVE  [At(pc) EXCEPT !.heads = h] \in Tick /\ TickOK([At(pc) EXCEPT !.heads = h])
  <2> DEFINE x == [At(pc) EXCEPT !.heads = h]
  <2>1. x \in Tick
    BY <1>2 DEF Tick
  <2>2. x.pc = pc /\ x.got = {} /\ x.todo = {} /\ x.rb = NoSearch
    BY <1>2, <1>3 DEF Tick
  <2> HIDE DEF x
  <2>3. x \in Tick /\ TickOK(x)
    BY <2>1, <2>2, <1>4, NoSearchType DEF TickOK
  <2> QED BY <2>3 DEF x
<1> QED BY <1>2, <1>3, <1>5, <1>6

LEMMA SetTick ==
  ASSUME TicksInv, NEW l \in Leader, NEW x \in Tick, TickOK(x), tk' = [tk EXCEPT ![l] = x]
  PROVE  TicksInv'
<1>1. tk' \in [Leader -> Tick]
  BY DEF TicksInv
<1>2. \A k \in Leader : tk'[k] = IF k = l THEN x ELSE tk[k]
  BY DEF TicksInv
<1>3. \A k \in Leader : TickOK(tk'[k])
  BY <1>2 DEF TicksInv
<1> QED BY <1>1, <1>3 DEF TicksInv

LEMMA EndFollowOK ==
  ASSUME TicksInv, NEW l \in Leader, EndFollow(l)
  PROVE  TicksInv'
<1> DEFINE x == [At("publish") EXCEPT !.heads = tk[l].heads]
<1>1. tk[l].heads \in HeadRow
  BY TickFields DEF TicksInv
<1>2. "publish" \in Pc \ {"resolve", "store", "insert"}
  BY DEF Pc
<1>3. x \in Tick /\ TickOK(x)
  BY <1>1, <1>2, AtType
<1>4. tk' = [tk EXCEPT ![l] = x]
  BY DEF EndFollow
<1> HIDE DEF x
<1> QED BY <1>3, <1>4, SetTick, Zenon

LEMMA StartRollBackOK ==
  ASSUME TicksInv, StoreInv, ProgressInv, NEW l \in Leader,
         NEW detected \in Height, NEW known \in Blocks, StartRollBack(l, detected, known)
  PROVE  TicksInv'
<1> DEFINE heads_ == {progress[s].head : s \in DOMAIN progress}
           top    == Max({detected} \cup heads_)
           floor  == Below(top, Window)
           points == PointsIn(progress, floor, top)
           promoted == {progress[s].promoted + 1 : s \in DOMAIN progress}
           from   == Min({floor} \cup promoted)
           high   == Cardinality(Heights(points))
           rb == [NoSearch EXCEPT !.points = points, !.floor = floor, !.from = from, !.high = high]
           x == [At("search") EXCEPT !.heads = tk[l].heads, !.known = known, !.row = progress,
                                     !.rb = rb]
<1>1. tk' = [tk EXCEPT ![l] = x]
  BY DEF StartRollBack
<1>2. progress \in FollowRows /\ \A s \in DOMAIN progress : progress[s].head \in Height
      /\ progress[s].promoted \in Height
  BY RowFields DEF ProgressInv
<1>3. top \in Height
  <2>1. {detected} \cup heads_ \in SUBSET Height /\ {detected} \cup heads_ # {}
    BY <1>2
  <2> HIDE DEF heads_
  <2> QED BY <2>1, MaxHeightOf
<1> HIDE DEF top
<1>4. floor \in Nat
  BY <1>3, FollowAssumption DEF Below, Height
<1> HIDE DEF floor
<1>5. points \in Blocks
  BY <1>2, PointsType
<1> HIDE DEF points
<1>6. from \in Nat
  <2>1. {floor} \cup promoted \in SUBSET Nat /\ {floor} \cup promoted # {}
    BY <1>2, <1>4 DEF Height
  <2> HIDE DEF promoted
  <2> QED BY <2>1, MinNat
<1> HIDE DEF from
<1>7. high \in Nat
  BY <1>5, HeightsType
<1> HIDE DEF high
<1>8. rb \in Search /\ rb.low = 0 /\ rb.high = high /\ rb.points = points
  <2>1. NoSearch \in Search /\ NoSearch.low = 0
    BY NoSearchType DEF NoSearch
  <2> QED BY <2>1, <1>4, <1>5, <1>6, <1>7, Zenon DEF Search
<1> HIDE DEF rb
<1>9. rb \in Search /\ rb.low <= rb.high /\ rb.high <= Cardinality(Heights(rb.points))
  <2>1. high <= Cardinality(Heights(points))
    BY <1>7 DEF high
  <2> QED BY <1>7, <1>8, <2>1
<1>10. tk[l].heads \in HeadRow
  BY TickFields DEF TicksInv
<1>11. At("search") \in Tick /\ At("search").pc = "search" /\ At("search").got = {}
  BY AtType DEF Pc, InFollow
<1>12. x \in Tick /\ x.pc = "search" /\ x.got = {} /\ x.rb = rb
  BY <1>2, <1>9, <1>10, <1>11, Zenon DEF Tick
<1> HIDE DEF x
<1>13. TickOK(x)
  <2>1. OneHash({})
    BY DEF OneHash
  <2> QED BY <2>1, <1>9, <1>12 DEF TickOK
<1> QED BY <1>1, <1>12, <1>13, SetTick, Zenon

-----------------------------------------------------------------------------
(* The steps of a tick that change only its own state *)

LEMMA TickStep ==
  ASSUME FollowInv, TicksInv', UNCHANGED <<chainVars, followVars, dataVars, lock>>
  PROVE  FollowInv' /\ Keeps(rows')
<1>1. /\ fork' = fork /\ latest' = latest /\ settled' = settled /\ subs' = subs
      /\ progress' = progress /\ halted' = halted /\ rows' = rows /\ coverage' = coverage
      /\ heads' = heads /\ fills' = fills /\ lock' = lock
  BY DEF chainVars, followVars, dataVars
<1>2. ChainInv' /\ ClientInv' /\ ProgressInv' /\ StoreInv'
  BY <1>1 DEF FollowInv, ChainInv, ClientInv, ProgressInv, StoreInv
<1>3. Keeps(rows)
  BY SubsetKeeps DEF FollowInv, StoreInv
<1> QED BY <1>1, <1>2, <1>3 DEF FollowInv

LEMMA GotoOK ==
  ASSUME TicksInv, NEW l \in Leader, NEW pc \in {"headers", "retain", "purge"}, Goto(l, pc)
  PROVE  TicksInv'
<1> DEFINE t == tk[l]
           x == [t EXCEPT !.pc = pc]
<1>1. t \in Tick /\ TickOK(t)
  BY DEF TicksInv
<1>2. tk' = [tk EXCEPT ![l] = x]
  BY DEF Goto
<1> HIDE DEF t
<1>3. x \in Tick /\ x.pc = pc /\ x.got = t.got /\ x.rb = t.rb
  BY <1>1 DEF Tick, Pc, InFollow
<1> HIDE DEF x
<1>4. TickOK(x)
  BY <1>1, <1>3 DEF TickOK
<1> QED BY <1>2, <1>3, <1>4, SetTick, Zenon

LEMMA EndTickOK ==
  ASSUME TicksInv, NEW l \in Leader, EndTick(l)
  PROVE  TicksInv'
<1> DEFINE pc == IF lock = l THEN "idle" ELSE "out"
<1>1. pc \in Pc \ {"resolve", "store", "insert"}
  BY DEF Pc
<1>2. tk' = [tk EXCEPT ![l] = At(pc)]
  BY DEF EndTick
<1> HIDE DEF pc
<1> QED BY <1>1, <1>2, AtType, SetTick, Zenon

LEMMA StartTickOK ==
  ASSUME FollowInv, NEW l \in Leader, StartTick(l)
  PROVE  TicksInv'
<1> DEFINE h == [latest |-> latest, hash |-> Canonical(latest),
                 safe |-> Below(latest, SafeLag), finalized |-> Below(latest, FinalizedLag)]
           x == [At("plan") EXCEPT !.heads = h]
<1>1. h \in HeadRow
  <2>1. latest \in Height /\ Canonical(latest) \in Hash
    BY CanonicalType DEF FollowInv, ChainInv
  <2>2. Below(latest, SafeLag) \in Height /\ Below(latest, FinalizedLag) \in Height
    <3>1. SafeLag \in Nat /\ FinalizedLag \in Nat
      BY FollowAssumption DEF Height
    <3> QED BY <2>1, <3>1, BelowType
  <2> QED BY <2>1, <2>2 DEF HeadRow
<1>2. tk' = [tk EXCEPT ![l] = x]
  BY DEF StartTick
<1>3. x \in Tick /\ TickOK(x)
  BY <1>1, AtType DEF Pc, InFollow
<1> HIDE DEF x
<1> QED BY <1>2, <1>3, SetTick, Zenon DEF FollowInv

LEMMA CheckHeadOK ==
  ASSUME FollowInv, NEW l \in Leader, CheckHead(l)
  PROVE  TicksInv'
<1> DEFINE t == tk[l]
           n == Min(t.todo)
<1>1. t \in Tick /\ TickOK(t) /\ t.pc = "check" /\ t.todo # {}
  BY DEF FollowInv, TicksInv, CheckHead
<1>2. n \in Height /\ t.todo \subseteq Height
  BY <1>1, MinHeight DEF TickOK
<1>3. PICK h \in Learn(t, n) :
        IF \A s \in Unpromoted(t.row) : t.row[s].head = n => t.row[s].hash = h
        THEN tk' = [tk EXCEPT ![l].todo = @ \ {n}, ![l].known = Learned(t, n, h)]
        ELSE StartRollBack(l, n, Learned(t, n, h))
  BY DEF CheckHead
<1>4. Learned(t, n, h) \in Blocks
  BY <1>1, <1>2, <1>3, LearnType DEF FollowInv
<1>5. CASE tk' = [tk EXCEPT ![l].todo = @ \ {n}, ![l].known = Learned(t, n, h)]
  <2> DEFINE k == Learned(t, n, h)
             x == [t EXCEPT !.todo = @ \ {n}, !.known = k]
  <2>1. tk' = [tk EXCEPT ![l] = x]
    BY <1>5, Zenon
  <2> HIDE DEF t, n, k
  <2>2. x \in Tick /\ x.pc = t.pc /\ x.got = t.got /\ x.rb = t.rb /\ x.todo = t.todo \ {n}
    BY <1>1, <1>2, <1>4, Zenon DEF Tick, k
  <2> HIDE DEF x
  <2>3. TickOK(x)
    BY <1>1, <1>2, <2>2, Zenon DEF TickOK
  <2> QED BY <2>1, <2>2, <2>3, SetTick, Zenon DEF FollowInv
<1>6. CASE StartRollBack(l, n, Learned(t, n, h))
  BY <1>2, <1>4, <1>6, StartRollBackOK DEF FollowInv
<1> QED BY <1>3, <1>5, <1>6

LEMMA ProbeOK ==
  ASSUME FollowInv, NEW l \in Leader, Probe(l)
  PROVE  TicksInv'
<1> DEFINE t == tk[l]
           mid == (t.rb.low + t.rb.high) \div 2
           n == CHOOSE x \in Heights(t.rb.points) :
                  Cardinality({y \in Heights(t.rb.points) : y < x}) = mid
<1>1. t \in Tick /\ TickOK(t) /\ t.pc = "search" /\ t.rb.low < t.rb.high
  BY Zenon DEF FollowInv, TicksInv, Probe
<1>2. /\ t.rb \in Search /\ t.rb.points \in Blocks /\ t.rb.low \in Nat /\ t.rb.high \in Nat
      /\ t.rb.high <= Cardinality(Heights(t.rb.points))
  BY <1>1, TickFields, Zenon DEF TickOK
<1>3. mid \in Nat /\ t.rb.low <= mid /\ mid < t.rb.high
  <2> DEFINE a == t.rb.low
             b == t.rb.high
  <2>1. a \in Nat /\ b \in Nat /\ a < b
    BY <1>1, <1>2
  <2> HIDE DEF a, b
  <2>2. (a + b) \div 2 \in Nat /\ a <= (a + b) \div 2 /\ (a + b) \div 2 < b
    BY <2>1
  <2> QED BY <2>2 DEF a, b
<1>4. n \in Height
  <2>1. Cardinality(Heights(t.rb.points)) \in Nat
    BY <1>2, HeightsType
  <2> HIDE DEF mid
  <2>2. mid < Cardinality(Heights(t.rb.points))
    BY <1>2, <1>3, <2>1
  <2> QED BY <1>2, <1>3, <2>2, RankHeight, ZenonT(60)
<1> DEFINE R(h) == IF \E p \in t.rb.points : p[1] = n /\ p[2] # h
                   THEN [t.rb EXCEPT !.high = mid] ELSE [t.rb EXCEPT !.low = mid + 1]
<1>5. PICK h \in Learn(t, n) :
        tk' = [tk EXCEPT ![l].known = Learned(t, n, h), ![l].rb = R(h)]
  BY Zenon DEF Probe
<1>6. Learned(t, n, h) \in Blocks
  BY <1>1, <1>4, <1>5, LearnType DEF FollowInv
<1> DEFINE k == Learned(t, n, h)
           rb == R(h)
           x == [t EXCEPT !.known = k, !.rb = rb]
<1>7. tk' = [tk EXCEPT ![l] = x]
  <2>1. tk' = [tk EXCEPT ![l].known = k, ![l].rb = rb]
    BY <1>5
  <2> HIDE DEF k, rb
  <2> QED BY <2>1, ZenonT(60)
<1>8. rb \in Search /\ rb.low <= rb.high /\ rb.high <= Cardinality(Heights(rb.points))
  <2>1. Cardinality(Heights(t.rb.points)) \in Nat
    BY <1>2, HeightsType
  <2> DEFINE b == t.rb
  <2>2. /\ b \in Search /\ b.low \in Nat /\ b.high \in Nat
        /\ b.high <= Cardinality(Heights(b.points)) /\ Cardinality(Heights(b.points)) \in Nat
        /\ b.low <= mid /\ mid < b.high
        /\ rb = [b EXCEPT !.high = mid] \/ rb = [b EXCEPT !.low = mid + 1]
    BY <1>2, <1>3, <2>1, Zenon
  <2> HIDE DEF b, mid, rb
  <2>3. CASE rb = [b EXCEPT !.high = mid]
    <3>1. rb \in Search /\ rb.low = b.low /\ rb.high = mid /\ rb.points = b.points
      BY <1>3, <2>2, <2>3 DEF Search
    <3> QED BY <3>1, <2>2, <1>3
  <2>4. CASE rb = [b EXCEPT !.low = mid + 1]
    <3>1. rb \in Search /\ rb.low = mid + 1 /\ rb.high = b.high /\ rb.points = b.points
      BY <1>3, <2>2, <2>4 DEF Search
    <3> QED BY <3>1, <2>2, <1>3
  <2> QED BY <2>2, <2>3, <2>4
<1> HIDE DEF t, n, k, rb
<1>9. x \in Tick /\ x.pc = "search" /\ x.got = t.got /\ x.rb = rb
  BY <1>1, <1>6, <1>8, Zenon DEF Tick, k
<1> HIDE DEF x
<1>10. TickOK(x)
  BY <1>1, <1>8, <1>9 DEF TickOK
<1> QED BY <1>7, <1>9, <1>10, SetTick, Zenon DEF FollowInv

LEMMA FoundOK ==
  ASSUME FollowInv, NEW l \in Leader, Found(l)
  PROVE  TicksInv'
<1> DEFINE t == tk[l]
           size == Cardinality(Heights(t.rb.points))
           wider == t.rb.points \cup PointsIn(t.row, t.rb.from, t.rb.floor - 1)
           first == CHOOSE x \in Heights(t.rb.points) :
                      Cardinality({y \in Heights(t.rb.points) : y < x}) = t.rb.low
<1>1. t \in Tick /\ TickOK(t) /\ t.pc = "search" /\ t.rb.low = t.rb.high
  BY Zenon DEF FollowInv, TicksInv, Found
<1>2. /\ t.rb \in Search /\ t.rb.points \in Blocks /\ t.rb.low \in Nat /\ t.rb.high \in Nat
      /\ t.rb.high <= size /\ size \in Nat /\ t.heads.latest \in Height /\ t.row \in FollowRows
  BY <1>1, TickFields, HeightsType DEF TickOK
<1>3. \/ EndFollow(l)
      \/ tk' = [tk EXCEPT ![l].rb = [t.rb EXCEPT
               !.points = wider, !.wide = TRUE, !.low = 0, !.high = Cardinality(Heights(wider))]]
      \/ /\ t.rb.low # size
         /\ tk' = [tk EXCEPT ![l].pc = "rollback",
                             ![l].rb.fork = Min({first, t.heads.latest + 1})]
  BY DEF Found
<1>4. CASE EndFollow(l)
  BY <1>4, EndFollowOK DEF FollowInv
<1>5. CASE tk' = [tk EXCEPT ![l].rb = [t.rb EXCEPT
               !.points = wider, !.wide = TRUE, !.low = 0, !.high = Cardinality(Heights(wider))]]
  <2> DEFINE high == Cardinality(Heights(wider))
             rb == [t.rb EXCEPT !.points = wider, !.wide = TRUE, !.low = 0, !.high = high]
             x == [t EXCEPT !.rb = rb]
  <2>1. wider \in Blocks
    <3>1. PointsIn(t.row, t.rb.from, t.rb.floor - 1) \in Blocks
      BY <1>2, PointsType DEF FollowInv
    <3> QED BY <3>1, <1>2 DEF Blocks
  <2>2. tk' = [tk EXCEPT ![l] = x]
    BY <1>5
  <2> HIDE DEF wider
  <2>3. high \in Nat
    BY <2>1, HeightsType
  <2> HIDE DEF t, high
  <2>4. rb \in Search /\ rb.low = 0 /\ rb.high = high /\ rb.points = wider
    BY <1>2, <2>1, <2>3, Zenon DEF Search
  <2> HIDE DEF rb
  <2>5. x \in Tick /\ x.pc = "search" /\ x.got = t.got /\ x.rb = rb
    BY <1>1, <2>4 DEF Tick
  <2>6. rb.high <= Cardinality(Heights(rb.points)) /\ rb.low <= rb.high
    BY <2>3, <2>4 DEF high
  <2> HIDE DEF x
  <2>7. TickOK(x)
    BY <1>1, <2>5, <2>6 DEF TickOK
  <2> QED BY <2>2, <2>5, <2>7, SetTick, Zenon DEF FollowInv
<1>6. CASE /\ t.rb.low # size
           /\ tk' = [tk EXCEPT ![l].pc = "rollback",
                               ![l].rb.fork = Min({first, t.heads.latest + 1})]
  <2> DEFINE f == Min({first, t.heads.latest + 1})
             rb == [t.rb EXCEPT !.fork = f]
             x == [t EXCEPT !.pc = "rollback", !.rb = rb]
  <2>1. first \in Height
    <3>1. t.rb.low < size
      <4> HIDE DEF size
      <4> QED BY <1>1, <1>2, <1>6
    <3> QED BY <3>1, <1>2, RankHeight
  <2>2. tk' = [tk EXCEPT ![l] = x]
    <3>1. tk' = [tk EXCEPT ![l].pc = "rollback", ![l].rb.fork = f]
      BY <1>6
    <3> HIDE DEF f
    <3> QED BY <3>1, <1>1, <1>2, Zenon DEF Tick, Search, FollowInv, TicksInv
  <2> HIDE DEF first
  <2>3. f \in Int
    <3>1. first \in Int /\ t.heads.latest + 1 \in Int
      BY <1>2, <2>1 DEF Height
    <3> QED BY <3>1, MinPair
  <2> HIDE DEF t, f
  <2>4. rb \in Search /\ rb.low = t.rb.low /\ rb.high = t.rb.high /\ rb.points = t.rb.points
    BY <1>2, <2>3 DEF Search
  <2> HIDE DEF rb
  <2>5. x \in Tick /\ x.pc = "rollback" /\ x.got = t.got /\ x.rb = rb
    BY <1>1, <2>4, Zenon DEF Tick, Pc, InFollow
  <2> HIDE DEF x
  <2>6. TickOK(x)
    BY <1>1, <2>4, <2>5 DEF TickOK
  <2> QED BY <2>2, <2>5, <2>6, SetTick, Zenon DEF FollowInv
<1> QED BY <1>3, <1>4, <1>5, <1>6

LEMMA NextSpanType ==
  ASSUME NEW head \in Height, NEW top \in Height, NEW cap \in Nat
  PROVE  NextSpan(head, top, cap) \in SUBSET Height
<1> DEFINE e == Min({top, head + cap})
<1>1. head \in Nat /\ top \in Nat /\ top <= MaxHeight /\ MaxHeight \in Nat
  BY FollowAssumption DEF Height
<1>2. e \in Int /\ e <= top
  BY <1>1, MinPair
<1>3. NextSpan(head, top, cap) = (head + 1)..e
  BY DEF NextSpan
<1> HIDE DEF e
<1> QED BY <1>1, <1>2, <1>3 DEF Height

LEMMA FetchHeadersOK ==
  ASSUME FollowInv, NEW l \in Leader, NEW s \in Sel, FetchHeaders(l, s)
  PROVE  TicksInv'
<1> DEFINE t == tk[l]
           span == NextSpan(t.row[s].head, t.heads.latest, HeaderCap)
<1>1. t \in Tick /\ TickOK(t) /\ s \in BlockSel \cap DOMAIN t.row /\ span # {}
  BY DEF FollowInv, TicksInv, FetchHeaders
<1>2. t.row \in FollowRows /\ t.heads.latest \in Height /\ t.known \in Blocks
  BY <1>1, TickFields
<1>3. t.row[s].head \in Height
  BY <1>1, <1>2, RowFields
<1>4. span \in SUBSET Height
  BY <1>2, <1>3, NextSpanType, FollowAssumption, Zenon
<1>5. \/ StartRollBack(l, t.row[s].head, t.known)
      \/ EndFollow(l)
      \/ tk' = [tk EXCEPT ![l].pc = "store", ![l].span = span, ![l].members = {s},
                          ![l].got = Incoming({s}, span),
                          ![l].end = Canonical(Max(span))]
  BY DEF FetchHeaders
<1>6. CASE StartRollBack(l, t.row[s].head, t.known)
  BY <1>2, <1>3, <1>6, StartRollBackOK DEF FollowInv
<1>7. CASE EndFollow(l)
  BY <1>7, EndFollowOK DEF FollowInv
<1>8. CASE tk' = [tk EXCEPT ![l].pc = "store", ![l].span = span, ![l].members = {s},
                            ![l].got = Incoming({s}, span),
                            ![l].end = Canonical(Max(span))]
  <2> DEFINE got == Incoming({s}, span)
             end == Canonical(Max(span))
             x == [t EXCEPT !.pc = "store", !.span = span, !.members = {s}, !.got = got, !.end = end]
  <2>1. got \in SUBSET RowType /\ OneHash(got)
    <3>1. {s} \in SUBSET Sel
      OBVIOUS
    <3> HIDE DEF span
    <3> QED BY <3>1, <1>4, IncomingType DEF FollowInv
  <2>2. end \in Hash
    BY CanonicalType DEF FollowInv
  <2>3. tk' = [tk EXCEPT ![l] = x]
    <3>1. tk' = [tk EXCEPT ![l].pc = "store", ![l].span = span, ![l].members = {s},
                           ![l].got = got, ![l].end = end]
      BY <1>8
    <3> HIDE DEF span, got, end
    <3> QED BY <3>1, Zenon
  <2> HIDE DEF t, span, got, end
  <2>4. /\ x \in Tick /\ x.pc = "store" /\ x.got = got /\ x.rb = t.rb /\ x.span = span
        /\ x.members = {s}
    BY <1>1, <1>4, <2>1, <2>2, Zenon DEF Tick, Pc, InFollow
  <2> HIDE DEF x
  <2>5. x.members \cap BlockSel # {}
    BY <2>4, <1>1
  <2>6. TickOK(x)
    BY <1>1, <2>1, <2>4, <2>5 DEF TickOK
  <2> QED BY <2>3, <2>4, <2>6, SetTick, Zenon DEF FollowInv
<1> QED BY <1>5, <1>6, <1>7, <1>8, Zenon

LEMMA NoHeadersOK ==
  ASSUME FollowInv, NEW l \in Leader, NoHeaders(l)
  PROVE  TicksInv'
<1> DEFINE t == tk[l]
           todo == LogSel \cap DOMAIN t.row
           x == [t EXCEPT !.pc = "logs", !.todo = todo]
<1>1. t \in Tick /\ TickOK(t)
  BY DEF FollowInv, TicksInv
<1>2. tk' = [tk EXCEPT ![l] = x]
  <2>1. tk' = [tk EXCEPT ![l].pc = "logs", ![l].todo = todo]
    BY DEF NoHeaders
  <2> HIDE DEF todo
  <2> QED BY <2>1, Zenon
<1>3. todo \in SUBSET (Height \cup Sel)
  BY DEF Sel
<1>4. todo \subseteq LogSel \cap DOMAIN t.row
  OBVIOUS
<1> HIDE DEF t, todo
<1>5. x \in Tick /\ x.pc = "logs" /\ x.got = t.got /\ x.rb = t.rb /\ x.todo = todo /\ x.row = t.row
  BY <1>1, <1>3, Zenon DEF Tick, Pc, InFollow
<1> HIDE DEF x
<1>6. TickOK(x)
  BY <1>1, <1>4, <1>5 DEF TickOK
<1> QED BY <1>2, <1>5, <1>6, SetTick, Zenon DEF FollowInv

LEMMA NoMoreLogsOK ==
  ASSUME FollowInv, NEW l \in Leader, NoMoreLogs(l)
  PROVE  TicksInv'
<1> DEFINE t == tk[l]
           todo == DOMAIN t.row
           x == [t EXCEPT !.pc = "finalize", !.todo = todo]
<1>1. t \in Tick /\ TickOK(t)
  BY DEF FollowInv, TicksInv
<1>2. tk' = [tk EXCEPT ![l] = x]
  <2>1. tk' = [tk EXCEPT ![l].pc = "finalize", ![l].todo = todo]
    BY DEF NoMoreLogs
  <2> HIDE DEF todo
  <2> QED BY <2>1, Zenon
<1>3. todo \in SUBSET (Height \cup Sel)
  <2>1. t.row \in FollowRows
    BY <1>1, TickFields
  <2> QED BY <2>1, RowFields
<1>4. todo \subseteq DOMAIN t.row
  OBVIOUS
<1> HIDE DEF t, todo
<1>5. x \in Tick /\ x.pc = "finalize" /\ x.got = t.got /\ x.rb = t.rb /\ x.todo = todo /\ x.row = t.row
  BY <1>1, <1>3, Zenon DEF Tick, Pc, InFollow
<1> HIDE DEF x
<1>6. TickOK(x)
  BY <1>1, <1>4, <1>5 DEF TickOK
<1> QED BY <1>2, <1>5, <1>6, SetTick, Zenon DEF FollowInv

LEMMA FetchLogsOK ==
  ASSUME FollowInv, NEW l \in Leader, NEW members \in SUBSET tk[l].todo, NEW s \in members,
         FetchLogs(l, s, members)
  PROVE  TicksInv'
<1> DEFINE t == tk[l]
           span == NextSpan(t.row[s].head, t.heads.latest, Cap)
           got == Incoming(members, span)
           x == [t EXCEPT !.pc = "resolve", !.span = span, !.members = members, !.got = got]
<1>1. t \in Tick /\ TickOK(t) /\ t.pc = "logs" /\ span # {}
  BY DEF FollowInv, TicksInv, FetchLogs
<1>2. t.todo \subseteq LogSel \cap DOMAIN t.row /\ members \in SUBSET t.todo
  BY <1>1 DEF TickOK
<1>3. t.row \in FollowRows /\ t.heads.latest \in Height
  BY <1>1, TickFields
<1>4. t.row[s].head \in Height
  BY <1>2, <1>3, RowFields
<1>5. span \in SUBSET Height
  BY <1>3, <1>4, NextSpanType, FollowAssumption
<1>6. members \in SUBSET Sel
  BY <1>2 DEF Sel
<1>7. tk' = [tk EXCEPT ![l] = x]
  <2>1. tk' = [tk EXCEPT ![l].pc = "resolve", ![l].span = span, ![l].members = members,
                         ![l].got = got]
    BY DEF FetchLogs
  <2> HIDE DEF span, got
  <2> QED BY <2>1, Zenon
<1> HIDE DEF span
<1>8. got \in SUBSET RowType /\ OneHash(got)
  BY <1>5, <1>6, IncomingType DEF FollowInv
<1> HIDE DEF t, got
<1>9. /\ x \in Tick /\ x.pc = "resolve" /\ x.got = got /\ x.rb = t.rb /\ x.span = span
      /\ x.todo = t.todo /\ x.row = t.row
  BY <1>1, <1>5, <1>6, <1>8, Zenon DEF Tick, Pc, InFollow
<1> HIDE DEF x
<1>10. TickOK(x)
  BY <1>1, <1>2, <1>8, <1>9 DEF TickOK
<1> QED BY <1>7, <1>9, <1>10, SetTick, Zenon DEF FollowInv

LEMMA ResolveEndOK ==
  ASSUME FollowInv, NEW l \in Leader, ResolveEnd(l)
  PROVE  TicksInv'
<1> DEFINE t == tk[l]
           end == Max(t.span)
           own == {k[2] : k \in {k \in t.hashes : k[1] = end}}
           asked == own = {} /\ BlockRows(end) = {}
           From == IF own # {} THEN own ELSE IF ~asked THEN StoredHashes(end) ELSE Learn(t, end)
<1>1. t \in Tick /\ TickOK(t) /\ t.pc = "resolve"
  BY DEF FollowInv, TicksInv, ResolveEnd
<1>2. /\ t.span \in SUBSET Height /\ t.span # {} /\ t.hashes \in Blocks /\ t.known \in Blocks
      /\ t.todo \subseteq LogSel \cap DOMAIN t.row
  BY <1>1, TickFields DEF TickOK
<1>3. end \in Height
  BY <1>2, MaxHeightOf
<1>4. PICK h \in From :
        IF \E r \in t.got : r.block = end /\ r.hash # h
        THEN EndFollow(l)
        ELSE tk' = [tk EXCEPT ![l].pc = "store", ![l].end = h,
                              ![l].known = IF asked THEN Learned(t, end, h) ELSE @]
  BY Zenon DEF ResolveEnd
<1>5. /\ h \in Hash \cup {NoHash}
      /\ asked => Learned(t, end, h) \in Blocks
  <2>1. CASE h \in own
    <3>1. h \in Hash
      BY <2>1, <1>2, Zenon DEF Blocks
    <3>2. ~asked
      BY <2>1
    <3> QED BY <3>1, <3>2, Zenon
  <2>2. CASE h \in StoredHashes(end) /\ ~asked
    BY <2>2, StoredHashesType, ZenonT(60) DEF FollowInv, StoreInv
  <2>3. CASE h \in Learn(t, end)
    BY <2>3, <1>1, <1>3, LearnType DEF FollowInv
  <2> QED BY <2>1, <2>2, <2>3, <1>4, Zenon
<1>6. CASE EndFollow(l)
  BY <1>6, EndFollowOK, Zenon DEF FollowInv
<1>7. CASE tk' = [tk EXCEPT ![l].pc = "store", ![l].end = h,
                            ![l].known = IF asked THEN Learned(t, end, h) ELSE @]
  <2> DEFINE k == IF asked THEN Learned(t, end, h) ELSE t.known
             x == [t EXCEPT !.pc = "store", !.end = h, !.known = k]
  <2>1. k \in Blocks
    BY <1>2, <1>5, Zenon
  <2>2. tk' = [tk EXCEPT ![l] = x]
    <3> HIDE DEF end, asked
    <3> QED BY <1>7, Zenon
  <2> HIDE DEF t, k
  <2>3. /\ x \in Tick /\ x.pc = "store" /\ x.got = t.got /\ x.rb = t.rb /\ x.span = t.span
        /\ x.todo = t.todo /\ x.row = t.row
    BY <1>1, <1>5, <2>1, ZenonT(60) DEF Tick, Pc, InFollow
  <2> HIDE DEF x
  <2>4. TickOK(x)
    BY <1>1, <1>2, <2>3, ZenonT(60) DEF TickOK
  <2> QED BY <2>2, <2>3, <2>4, SetTick, Zenon DEF FollowInv
<1> QED BY <1>4, <1>6, <1>7, Zenon

-----------------------------------------------------------------------------
(* The steps of a tick that change the store *)

LEMMA PlanOK ==
  ASSUME FollowInv, NEW l \in Leader, Plan(l)
  PROVE  FollowInv' /\ Keeps(rows')
<1> DEFINE t == tk[l]
           new == [s \in subs \ DOMAIN progress |-> Fresh(t.heads.safe)]
           all == [s \in DOMAIN progress \cup subs |->
                     IF s \in DOMAIN progress THEN progress[s] ELSE new[s]]
           row == Restrict(all, subs)
           todo == {row[s].head : s \in Unpromoted(row)}
           known == {<<t.heads.latest, t.heads.hash>>}
<1>1. t \in Tick /\ TickOK(t) /\ TicksInv
  BY DEF FollowInv, TicksInv
<1>2. /\ UNCHANGED <<chainVars, subs, halted, dataVars, lock>>
      /\ \/ EndFollow(l) /\ UNCHANGED progress
         \/ /\ progress' = all
            /\ tk' = [tk EXCEPT ![l] =
                 [t EXCEPT !.pc = "check", !.row = row, !.known = known, !.hashes = known,
                           !.todo = todo]]
  BY DEF Plan
<1>3. CASE EndFollow(l) /\ UNCHANGED progress
  <2>1. UNCHANGED <<chainVars, followVars, dataVars, lock>>
    BY <1>2, <1>3 DEF followVars
  <2> QED BY <2>1, <1>1, <1>3, EndFollowOK, TickStep
<1>4. CASE /\ progress' = all
           /\ tk' = [tk EXCEPT ![l] =
                [t EXCEPT !.pc = "check", !.row = row, !.known = known, !.hashes = known,
                          !.todo = todo]]
  <2>1. progress \in FollowRows /\ DOMAIN progress \in SUBSET Sel /\ subs \in SUBSET Sel
    BY RowFields DEF FollowInv, ProgressInv, ClientInv
  <2>2. t.heads \in HeadRow /\ t.heads.safe \in Height /\ t.heads.latest \in Height /\ t.heads.hash \in Hash
    BY <1>1, TickFields
  <2> DEFINE D == DOMAIN progress \cup subs
  <2>3. \A s \in D : all[s] = IF s \in DOMAIN progress THEN progress[s] ELSE Fresh(t.heads.safe)
    OBVIOUS
  <2>4. \A s \in D : /\ all[s] \in Progress
                     /\ all[s].finalized <= all[s].promoted /\ all[s].promoted <= all[s].head
    <3> HIDE DEF all
    <3>1. ASSUME NEW s \in DOMAIN progress
          PROVE  /\ progress[s] \in Progress
                 /\ progress[s].finalized <= progress[s].promoted
                 /\ progress[s].promoted <= progress[s].head
      BY <2>1, RowFields DEF FollowInv, ProgressInv
    <3> QED BY <3>1, <2>2, <2>3, FreshType, Zenon
  <2>5. DOMAIN all = D /\ all = [s \in D |-> all[s]]
    OBVIOUS
  <2> HIDE DEF all
  <2>6. all \in FollowRows
    <3>1. D \in SUBSET Sel
      BY <2>1
    <3>2. all \in [D -> Progress]
      BY <2>4, <2>5
    <3> HIDE DEF D
    <3> QED BY <3>1, <3>2, RowsOf
  <2>7. row \in FollowRows
    <3>1. row \in [subs -> Progress]
      BY <2>4 DEF Restrict
    <3> QED BY <2>1, <3>1, RowsOf
  <2> HIDE DEF row
  <2>8. todo \in SUBSET Height
    BY <2>7, RowFields DEF Unpromoted
  <2>9. known \in Blocks
    BY <2>2 DEF Blocks
  <2> DEFINE x == [t EXCEPT !.pc = "check", !.row = row, !.known = known, !.hashes = known,
                            !.todo = todo]
  <2>10. tk' = [tk EXCEPT ![l] = x]
    BY <1>4
  <2> HIDE DEF t, todo, known
  <2>11. x \in Tick /\ x.pc = "check" /\ x.got = t.got /\ x.rb = t.rb /\ x.todo = todo
    BY <1>1, <2>7, <2>8, <2>9, Zenon DEF Tick, Pc, InFollow
  <2> HIDE DEF x
  <2>12. TickOK(x)
    BY <1>1, <2>8, <2>11 DEF TickOK
  <2>13. TicksInv'
    BY <1>1, <2>10, <2>11, <2>12, SetTick, Zenon
  <2>14. ProgressInv'
    BY <1>4, <2>4, <2>5, <2>6 DEF ProgressInv
  <2>15. ChainInv' /\ ClientInv' /\ StoreInv'
    BY <1>2 DEF FollowInv, ChainInv, ClientInv, StoreInv, chainVars, dataVars
  <2>16. Keeps(rows')
    BY <1>2, SubsetKeeps DEF FollowInv, StoreInv, dataVars
  <2> QED BY <2>13, <2>14, <2>15, <2>16 DEF FollowInv
<1> QED BY <1>2, <1>3, <1>4

LEMMA RollBackOK ==
  ASSUME FollowInv, NEW l \in Leader, RollBack(l)
  PROVE  FollowInv' /\ Keeps(rows')
<1> DEFINE t == tk[l]
           below == t.rb.fork - 1
<1>1. t \in Tick /\ TickOK(t) /\ TicksInv
  BY DEF FollowInv, TicksInv
<1>2. t.rb.fork \in Int /\ t.heads \in HeadRow
  BY <1>1, TickFields
<1>3. PICK parent \in (IF below < 0 THEN {NoHash} ELSE Learn(t, below)) :
        /\ rows' = KeptBelow(t.rb.fork)
        /\ progress' = [s \in DOMAIN progress |-> Rewind(progress[s], t.rb.fork, parent)]
        /\ \/ tk' = [tk EXCEPT ![l] = [At("halt") EXCEPT !.heads = t.heads]]
           \/ EndFollow(l)
  BY DEF RollBack
<1>4. UNCHANGED <<chainVars, subs, halted, coverage, heads, fills, lock>>
  BY DEF RollBack
<1>5. parent \in Hash \cup {NoHash}
  <2>1. CASE parent = NoHash
    BY <2>1
  <2>2. CASE parent \in Learn(t, below)
    BY <2>2, <1>1, LearnType DEF FollowInv
  <2> QED BY <2>1, <2>2, <1>3
<1>6. ProgressInv'
  <2>1. progress \in FollowRows /\ DOMAIN progress \in SUBSET Sel
    BY RowFields, Zenon DEF FollowInv, ProgressInv
  <2>2. ASSUME NEW s \in DOMAIN progress
        PROVE  LET w == Rewind(progress[s], t.rb.fork, parent)
               IN w \in Progress /\ w.finalized <= w.promoted /\ w.promoted <= w.head
    <3>1. /\ progress[s] \in Progress /\ progress[s].finalized <= progress[s].promoted
          /\ progress[s].promoted <= progress[s].head
      BY <2>1, RowFields DEF FollowInv, ProgressInv
    <3> QED BY <3>1, <1>2, <1>5, RewindType, Zenon
  <2>3. progress' \in [DOMAIN progress -> Progress]
    BY <1>3, <2>2
  <2>4. progress' \in FollowRows
    BY <2>1, <2>3, RowsOf
  <2>5. \A s \in DOMAIN progress' : /\ progress'[s].finalized <= progress'[s].promoted
                                    /\ progress'[s].promoted <= progress'[s].head
    BY <1>3, <2>2
  <2> QED BY <2>4, <2>5 DEF ProgressInv
<1>7. rows' \subseteq rows /\ \A r \in rows : r.finality # "unsafe" => r \in rows'
  BY <1>3 DEF KeptBelow
<1>8. StoreInv'
  BY <1>4, <1>7, Zenon DEF FollowInv, StoreInv
<1>9. Keeps(rows')
  BY <1>7, SubsetKeeps DEF FollowInv, StoreInv
<1>10. TicksInv'
  <2>1. CASE EndFollow(l)
    BY <2>1, <1>1, EndFollowOK
  <2>2. CASE tk' = [tk EXCEPT ![l] = [At("halt") EXCEPT !.heads = t.heads]]
    <3> DEFINE x == [At("halt") EXCEPT !.heads = t.heads]
    <3>1. x \in Tick /\ TickOK(x)
      BY <1>2, AtType DEF Pc, InFollow
    <3>2. tk' = [tk EXCEPT ![l] = x]
      BY <2>2
    <3> HIDE DEF x
    <3> QED BY <1>1, <3>1, <3>2, SetTick, Zenon
  <2> QED BY <2>1, <2>2, <1>3, Zenon
<1>11. ChainInv' /\ ClientInv'
  BY <1>4 DEF FollowInv, ChainInv, ClientInv, chainVars
<1> QED BY <1>6, <1>8, <1>9, <1>10, <1>11, Zenon DEF FollowInv

LEMMA HaltOK ==
  ASSUME FollowInv, NEW l \in Leader, Halt(l)
  PROVE  FollowInv' /\ Keeps(rows')
<1>1. TicksInv'
  BY EndFollowOK DEF Halt, FollowInv
<1>2. ChainInv' /\ ClientInv' /\ ProgressInv' /\ StoreInv'
  BY DEF Halt, FollowInv, ChainInv, ClientInv, ProgressInv, StoreInv, chainVars, dataVars
<1>3. Keeps(rows')
  BY SubsetKeeps DEF Halt, FollowInv, StoreInv, dataVars
<1> QED BY <1>1, <1>2, <1>3 DEF FollowInv

LEMMA CheckFetchedOK ==
  ASSUME FollowInv, NEW l \in Leader, CheckFetched(l)
  PROVE  TicksInv'
<1> DEFINE t == tk[l]
           conflict == HashConflict(t.got)
           x == [t EXCEPT !.pc = "insert"]
<1>1. t \in Tick /\ TickOK(t) /\ TicksInv /\ t.pc = "store"
  BY DEF FollowInv, TicksInv, CheckFetched
<1>2. t.got \in SUBSET RowType /\ t.known \in Blocks
  BY <1>1, TickFields
<1>3. \/ conflict # {} /\ StartRollBack(l, Min(conflict), t.known)
      \/ tk' = [tk EXCEPT ![l] = x]
  BY Zenon DEF CheckFetched, Goto
<1>4. CASE conflict # {} /\ StartRollBack(l, Min(conflict), t.known)
  <2>1. conflict \in SUBSET Height
    BY <1>2 DEF HashConflict, RowType
  <2> HIDE DEF conflict
  <2>2. Min(conflict) \in Height
    BY <1>4, <2>1, MinHeight
  <2> QED BY <1>2, <1>4, <2>2, StartRollBackOK, Zenon DEF FollowInv
<1>5. CASE tk' = [tk EXCEPT ![l] = x]
  <2> HIDE DEF t
  <2>1. /\ x \in Tick /\ x.pc = "insert" /\ x.got = t.got /\ x.rb = t.rb /\ x.span = t.span
        /\ x.todo = t.todo /\ x.row = t.row /\ x.members = t.members
    BY <1>1, Zenon DEF Tick, Pc, InFollow
  <2> HIDE DEF x
  <2>2. TickOK(x)
    BY <1>1, <2>1 DEF TickOK
  <2> QED BY <1>1, <1>5, <2>1, <2>2, SetTick, ZenonT(60)
<1> QED BY <1>3, <1>4, <1>5

LEMMA StoreFetchedOK ==
  ASSUME FollowInv, NEW l \in Leader, StoreFetched(l)
  PROVE  FollowInv' /\ Keeps(rows')
<1> DEFINE t == tk[l]
           end == Max(t.span)
           headers == t.members \cap BlockSel # {}
           hashes == IF headers THEN t.hashes \cup {<<r.block, r.hash>> : r \in t.got} ELSE t.hashes
           todo == IF headers THEN LogSel \cap DOMAIN t.row ELSE t.todo \ t.members
           x == [t EXCEPT !.pc = "logs", !.span = {}, !.members = {}, !.got = {}, !.end = NoHash,
                          !.hashes = hashes, !.todo = todo]
           Next_ == [s \in DOMAIN progress |->
                      IF s \in t.members THEN [progress[s] EXCEPT !.head = end, !.hash = t.end]
                                         ELSE progress[s]]
<1>1. t \in Tick /\ TickOK(t) /\ TicksInv /\ t.pc = "insert"
  BY ZenonT(60) DEF FollowInv, TicksInv, StoreFetched
<1>2. /\ t.got \in SUBSET RowType /\ t.span \in SUBSET Height /\ t.span # {}
      /\ t.end \in Hash \cup {NoHash} /\ t.hashes \in Blocks
      /\ (~headers => t.todo \subseteq LogSel \cap DOMAIN t.row)
  BY <1>1, TickFields, ZenonT(60) DEF TickOK
<1>3. UNCHANGED <<chainVars, subs, halted, coverage, heads, fills, lock>>
  BY ZenonT(60) DEF StoreFetched
<1>4. \/ EndFollow(l) /\ UNCHANGED <<progress, rows>>
      \/ /\ \A s \in t.members : s \in DOMAIN progress /\ ~(progress[s].head > end)
         /\ rows' = Insert(t.got) /\ progress' = Next_ /\ tk' = [tk EXCEPT ![l] = x]
  BY ZenonT(60) DEF StoreFetched
<1>6. CASE EndFollow(l) /\ UNCHANGED <<progress, rows>>
  <2>1. UNCHANGED <<chainVars, followVars, dataVars, lock>>
    BY <1>3, <1>6 DEF followVars, dataVars
  <2> QED BY <2>1, <1>1, <1>6, EndFollowOK, TickStep, Zenon
<1>7. CASE /\ \A s \in t.members : s \in DOMAIN progress /\ ~(progress[s].head > end)
           /\ rows' = Insert(t.got) /\ progress' = Next_ /\ tk' = [tk EXCEPT ![l] = x]
  <2>1. rows' \in SUBSET RowType /\ Keeps(rows')
    <3>1. rows \subseteq RowType
      BY DEF FollowInv, StoreInv
    <3> QED BY <3>1, <1>2, <1>7, InsertKeeps, Zenon
  <2>2. end \in Height
    BY <1>2, MaxHeightOf
  <2>3. progress \in FollowRows /\ DOMAIN progress \in SUBSET Sel
    BY RowFields DEF FollowInv, ProgressInv
  <2> HIDE DEF end
  <2>4. ASSUME NEW s \in DOMAIN progress
        PROVE  /\ Next_[s] \in Progress
               /\ Next_[s].finalized <= Next_[s].promoted /\ Next_[s].promoted <= Next_[s].head
    <3>1. /\ progress[s] \in Progress /\ progress[s].finalized <= progress[s].promoted
          /\ progress[s].promoted <= progress[s].head
          /\ progress[s].promoted \in Height /\ progress[s].head \in Height
      BY <2>3, RowFields DEF FollowInv, ProgressInv
    <3>2. CASE s \in t.members
      <4> DEFINE p == progress[s]
                 w == [p EXCEPT !.head = end, !.hash = t.end]
      <4>1. p.promoted <= end
        <5>1. ~(progress[s].head > end)
          BY <3>2, <1>7, Zenon
        <5>2. Height \subseteq Nat
          BY FollowAssumption DEF Height
        <5>3. progress[s].promoted \in Nat /\ progress[s].head \in Nat /\ end \in Nat
          BY <3>1, <5>2, <2>2, Zenon
        <5> DEFINE a == progress[s].promoted
                   b == progress[s].head
        <5>4. a \in Nat /\ b \in Nat /\ end \in Nat /\ a <= b /\ ~(b > end)
          BY <3>1, <5>1, <5>3
        <5> HIDE DEF a, b
        <5>5. a <= end
          BY <5>4
        <5> QED BY <5>5 DEF a
      <4>2. Next_[s] = w
        BY <3>2
      <4>3. p \in Progress /\ p.finalized <= p.promoted
        BY <3>1
      <4> HIDE DEF p, Next_
      <4>4. w \in Progress /\ w.finalized = p.finalized /\ w.promoted = p.promoted /\ w.head = end
        BY <4>3, <1>2, <2>2, Zenon DEF Progress
      <4> QED BY <4>1, <4>2, <4>3, <4>4
    <3>3. CASE s \notin t.members
      <4>1. Next_[s] = progress[s]
        BY <3>3
      <4> HIDE DEF Next_
      <4> QED BY <3>1, <4>1
    <3> QED BY <3>2, <3>3
  <2>5. DOMAIN Next_ = DOMAIN progress /\ Next_ = [s \in DOMAIN progress |-> Next_[s]]
    OBVIOUS
  <2> HIDE DEF Next_
  <2>6. ProgressInv'
    <3>1. Next_ \in [DOMAIN progress -> Progress]
      BY <2>4, <2>5
    <3>2. Next_ \in FollowRows
      BY <3>1, <2>3, RowsOf
    <3> QED BY <3>2, <2>4, <2>5, <1>7 DEF ProgressInv
  <2>7. hashes \in Blocks
    <3>1. {<<r.block, r.hash>> : r \in t.got} \in Blocks
      BY <1>2 DEF RowType, Blocks
    <3> QED BY <3>1, <1>2 DEF Blocks
  <2>8. todo \subseteq LogSel \cap DOMAIN t.row /\ todo \in SUBSET (Height \cup Sel)
    BY <1>2 DEF Sel
  <2> HIDE DEF t, hashes, todo
  <2>9. x \in Tick /\ x.pc = "logs" /\ x.got = {} /\ x.rb = t.rb /\ x.todo = todo /\ x.row = t.row
    BY <1>1, <2>7, <2>8, Zenon DEF Tick, Pc, InFollow
  <2>10. tk' = [tk EXCEPT ![l] = x]
    BY <1>7, Zenon
  <2> HIDE DEF x
  <2>11. TickOK(x)
    <3>1. OneHash({})
      BY DEF OneHash
    <3> QED BY <3>1, <1>1, <2>8, <2>9 DEF TickOK
  <2>12. TicksInv'
    BY <1>1, <2>9, <2>10, <2>11, SetTick, Zenon
  <2>13. ChainInv' /\ ClientInv'
    BY <1>3 DEF FollowInv, ChainInv, ClientInv, chainVars
  <2>14. StoreInv'
    BY <1>3, <2>1, Zenon DEF FollowInv, StoreInv
  <2> QED BY <2>1, <2>6, <2>12, <2>13, <2>14 DEF FollowInv
<1> QED BY <1>4, <1>6, <1>7, ZenonT(60)

(* A promoted segment lies within the heights, and both marks stay in order. *)
LEMMA PartsType ==
  ASSUME NEW p \in Progress, NEW h \in HeadRow
  PROVE  /\ PromotedTo(p, h) \in Height
         /\ Min({h.finalized, PromotedTo(p, h)}) \in Height
         /\ \A q \in Parts(p, h) : q.from \in Nat /\ q.to \in Height /\ q.finality \in Finality
<1>1. p.head \in Height /\ p.promoted \in Height /\ p.finalized \in Height
  BY DEF Progress
<1>2. h.safe \in Height /\ h.finalized \in Height
  BY DEF HeadRow
<1>3. Min({h.safe, p.head}) \in Height
  BY <1>1, <1>2, MinHeight
<1>4. PromotedTo(p, h) \in Height
  BY <1>1, <1>3, MaxOfTwo, Zenon DEF PromotedTo
<1> DEFINE f == Min({h.finalized, PromotedTo(p, h)})
           m == Max({p.promoted, f})
<1>5. f \in Height
  BY <1>2, <1>4, MinHeight
<1>6. m \in Height
  <2> HIDE DEF f
  <2> QED BY <1>1, <1>5, MaxOfTwo, Zenon
<1>7. Parts(p, h) =
        (IF f > p.finalized
         THEN {[from |-> p.finalized + 1, to |-> f, finality |-> "finalized"]} ELSE {})
        \cup
        (IF PromotedTo(p, h) >= m + 1
         THEN {[from |-> m + 1, to |-> PromotedTo(p, h), finality |-> "safe"]} ELSE {})
  BY DEF Parts
<1>8. Height \subseteq Nat
  BY FollowAssumption DEF Height
<1> HIDE DEF f, m
<1>9. ASSUME NEW q \in Parts(p, h)
      PROVE  q.from \in Nat /\ q.to \in Height /\ q.finality \in Finality
  <2>1. CASE q = [from |-> p.finalized + 1, to |-> f, finality |-> "finalized"]
    <3> DEFINE a == p.finalized + 1
    <3>1. a \in Nat
      <4>1. p.finalized \in Nat
        BY <1>1, <1>8, Zenon
      <4> QED BY <4>1
    <3> HIDE DEF a
    <3>2. q = [from |-> a, to |-> f, finality |-> "finalized"]
      BY <2>1 DEF a
    <3> QED BY <3>1, <3>2, <1>5 DEF Finality
  <2>2. CASE q = [from |-> m + 1, to |-> PromotedTo(p, h), finality |-> "safe"]
    BY <2>2, <1>4, <1>6, <1>8 DEF Finality
  <2> QED BY <1>7, <1>9, <2>1, <2>2
<1> QED BY <1>4, <1>5, <1>9 DEF f

LEMMA RestOK ==
  ASSUME TicksInv, NEW l \in Leader, NEW s, tk[l].pc = "finalize",
         IF tk[l].todo = {s} THEN EndFollow(l) ELSE tk' = [tk EXCEPT ![l].todo = @ \ {s}]
  PROVE  TicksInv'
<1>1. CASE tk[l].todo = {s}
  BY <1>1, EndFollowOK
<1>2. CASE tk[l].todo # {s}
  <2> DEFINE t == tk[l]
             todo == t.todo \ {s}
             x == [t EXCEPT !.todo = todo]
  <2>1. t \in Tick /\ TickOK(t) /\ t.pc = "finalize"
    BY DEF TicksInv
  <2>2. tk' = [tk EXCEPT ![l] = x]
    <3>1. tk' = [tk EXCEPT ![l].todo = todo]
      BY <1>2
    <3> HIDE DEF todo
    <3> QED BY <3>1 DEF TicksInv
  <2>3. todo \subseteq DOMAIN t.row /\ todo \in SUBSET (Height \cup Sel)
    BY <2>1, TickFields DEF TickOK
  <2> HIDE DEF t, todo
  <2>4. x \in Tick /\ x.pc = "finalize" /\ x.got = t.got /\ x.rb = t.rb /\ x.todo = todo /\ x.row = t.row
    BY <2>1, <2>3 DEF Tick
  <2> HIDE DEF x
  <2>5. TickOK(x)
    BY <2>1, <2>3, <2>4 DEF TickOK
  <2> QED BY <2>2, <2>4, <2>5, SetTick, Zenon
<1> QED BY <1>1, <1>2

LEMMA FinalizeOK ==
  ASSUME FollowInv, NEW l \in Leader, NEW s \in Sel, Finalize(l, s)
  PROVE  FollowInv' /\ Keeps(rows') /\ Within(rows')
<1> DEFINE t == tk[l]
           p == t.row[s]
           parts == Parts(p, t.heads)
           promoted == PromotedTo(p, t.heads)
           finalized == Min({t.heads.finalized, promoted})
           up == IF promoted > p.promoted THEN promoted ELSE progress[s].promoted
           fin == IF finalized > p.finalized THEN finalized ELSE progress[s].finalized
           Rest == IF t.todo = {s} THEN EndFollow(l) ELSE tk' = [tk EXCEPT ![l].todo = @ \ {s}]
           Raise(r) == IF r.kind \in Kinds(s) /\ \E q \in parts : r.block \in q.from..q.to
                       THEN Stronger(r.finality, (CHOOSE q \in parts : r.block \in q.from..q.to).finality)
                       ELSE r.finality
           Blocked == UNION {q.from..q.to : q \in parts}
<1>1. t \in Tick /\ TickOK(t) /\ TicksInv /\ t.pc = "finalize" /\ s \in t.todo
  BY ZenonT(60) DEF FollowInv, TicksInv, Finalize
<1>2. t.row \in FollowRows /\ t.heads \in HeadRow /\ t.known \in Blocks /\ s \in DOMAIN t.row
  BY <1>1, TickFields DEF TickOK
<1>3. p \in Progress
  BY <1>2, RowFields
<1>4. /\ promoted \in Height /\ finalized \in Height
      /\ \A q \in parts : q.from \in Nat /\ q.to \in Height /\ q.finality \in Finality
  BY <1>2, <1>3, PartsType, ZenonT(60)
<1>5. UNCHANGED <<chainVars, subs, halted, heads, fills, lock>>
  BY Zenon DEF Finalize
<1>6. \/ Rest /\ UNCHANGED <<progress, rows, coverage>>
      \/ \E broken \in SUBSET {r.block : r \in rows} :
           broken # {} /\ StartRollBack(l, Min(broken), t.known) /\ UNCHANGED <<progress, rows, coverage>>
      \/ EndFollow(l) /\ UNCHANGED <<progress, rows, coverage>>
      \/ /\ s \in DOMAIN progress
         /\ up \in progress[s].promoted..progress[s].head /\ fin \in progress[s].finalized..up
         /\ rows' = {[r EXCEPT !.finality = Raise(r)] : r \in rows}
         /\ coverage' = [coverage EXCEPT ![s] = @ \cup Blocked]
         /\ progress' = [progress EXCEPT ![s].promoted = up, ![s].finalized = fin]
         /\ Rest
  <2>1. CASE parts = {} \/ \E q \in parts : EndHashes(s, p, q.to) = {}
    BY <2>1, ZenonT(60) DEF Finalize
  <2>2. CASE ~(parts = {} \/ \E q \in parts : EndHashes(s, p, q.to) = {})
    <3>1. PICK end \in [parts -> Hash \cup {NoHash}] :
            LET broken == UNION {Broken(s, q, end[q]) : q \in parts}
            IN IF broken # {}
               THEN StartRollBack(l, Min(broken), t.known) /\ UNCHANGED <<progress, rows, coverage>>
               ELSE IF \/ s \notin DOMAIN progress
                       \/ up \notin progress[s].promoted..progress[s].head
                       \/ fin \notin progress[s].finalized..up
               THEN EndFollow(l) /\ UNCHANGED <<progress, rows, coverage>>
               ELSE /\ rows' = {[r EXCEPT !.finality = Raise(r)] : r \in rows}
                    /\ coverage' = [coverage EXCEPT ![s] = @ \cup Blocked]
                    /\ progress' = [progress EXCEPT ![s].promoted = up, ![s].finalized = fin]
                    /\ Rest
      BY <2>2, ZenonT(60) DEF Finalize
    <3> DEFINE broken == UNION {Broken(s, q, end[q]) : q \in parts}
    <3>2. broken \in SUBSET {r.block : r \in rows}
      <4>1. ASSUME NEW q \in parts PROVE Broken(s, q, end[q]) \subseteq {r.block : r \in rows}
        BY Zenon DEF Broken
      <4> QED BY <4>1, Zenon
    <3> HIDE DEF broken
    <3>3. CASE broken # {}
      <4>1. StartRollBack(l, Min(broken), t.known) /\ UNCHANGED <<progress, rows, coverage>>
        BY <3>1, <3>3 DEF broken
      <4> QED BY <4>1, <3>2, <3>3, Zenon
    <3>4. CASE broken = {}
      <4> HIDE DEF up, fin, Raise, Blocked, Rest
      <4> QED BY <3>1, <3>4 DEF broken
    <3> QED BY <3>3, <3>4, ZenonT(60)
  <2> QED BY <2>1, <2>2, ZenonT(60)
<1> HIDE DEF Rest
<1>7. ASSUME TicksInv', UNCHANGED <<progress, rows, coverage>>
      PROVE  FollowInv' /\ Keeps(rows') /\ Within(rows')
  <2>1. UNCHANGED <<chainVars, followVars, dataVars, lock>>
    BY <1>5, <1>7 DEF followVars, dataVars
  <2>2. Within(rows')
    BY <1>7, SubsetWithin
  <2> QED BY <2>1, <2>2, <1>7, TickStep
<1>8. Rest => TicksInv'
  BY <1>1, RestOK DEF Rest
<1>9. CASE Rest /\ UNCHANGED <<progress, rows, coverage>>
  BY <1>7, <1>8, <1>9
<1>10. CASE EndFollow(l) /\ UNCHANGED <<progress, rows, coverage>>
  BY <1>1, <1>7, <1>10, EndFollowOK, ZenonT(60)
<1>11. CASE \E broken \in SUBSET {r.block : r \in rows} :
           broken # {} /\ StartRollBack(l, Min(broken), t.known) /\ UNCHANGED <<progress, rows, coverage>>
  <2>1. PICK broken \in SUBSET {r.block : r \in rows} :
           broken # {} /\ StartRollBack(l, Min(broken), t.known) /\ UNCHANGED <<progress, rows, coverage>>
    BY <1>11
  <2>2. broken \in SUBSET Height
    BY DEF FollowInv, StoreInv, RowType
  <2>3. Min(broken) \in Height
    BY <2>1, <2>2, MinHeight, Zenon
  <2>4. TicksInv'
    BY <1>2, <2>1, <2>3, StartRollBackOK DEF FollowInv
  <2> QED BY <1>7, <2>1, <2>4, Zenon
<1>12. CASE
         /\ s \in DOMAIN progress
         /\ up \in progress[s].promoted..progress[s].head /\ fin \in progress[s].finalized..up
         /\ rows' = {[r EXCEPT !.finality = Raise(r)] : r \in rows}
         /\ coverage' = [coverage EXCEPT ![s] = @ \cup Blocked]
         /\ progress' = [progress EXCEPT ![s].promoted = up, ![s].finalized = fin]
         /\ Rest
  <2>1. rows \subseteq RowType
    BY DEF FollowInv, StoreInv
  <2>2. ASSUME NEW r \in rows
        PROVE  \E y : Raise(r) = Stronger(r.finality, y)
    <3>1. CASE Raise(r) = r.finality
      <4>1. r.finality = Stronger(r.finality, r.finality)
        BY <2>1, RowTypeFields, StrongerType
      <4> HIDE DEF Raise
      <4> QED BY <3>1, <4>1
    <3>2. CASE Raise(r) # r.finality
      BY <3>2, Zenon
    <3> QED BY <3>1, <3>2, Zenon
  <2> HIDE DEF Raise
  <2>3. \A q \in rows' : \E r \in rows : \E y : q = [r EXCEPT !.finality = Stronger(r.finality, y)]
    <3>1. ASSUME NEW q \in rows'
          PROVE  \E r \in rows : \E y : q = [r EXCEPT !.finality = Stronger(r.finality, y)]
      <4>1. PICK r \in rows : q = [r EXCEPT !.finality = Raise(r)]
        BY <1>12, Zenon
      <4>2. PICK y : Raise(r) = Stronger(r.finality, y)
        BY <2>2, Zenon
      <4> QED BY <4>1, <4>2, Zenon
    <3> QED BY <3>1, Zenon
  <2>4. \A r \in rows : \E y : [r EXCEPT !.finality = Stronger(r.finality, y)] \in rows'
    BY <1>12, <2>2, Zenon
  <2>5. rows' \in SUBSET RowType /\ Keeps(rows') /\ Within(rows')
    BY <2>1, <2>3, <2>4, RaiseKeeps, RaisedKeeps, ZenonT(60)
  <2>6. Blocked \in SUBSET Height
    <3>1. ASSUME NEW q \in parts, NEW n \in q.from..q.to
          PROVE  n \in Height
      <4>1. q.from \in Nat /\ q.to \in Height
        BY <1>4, Zenon
      <4> QED BY <3>1, <4>1, FollowAssumption DEF Height
    <3> HIDE DEF parts
    <3> QED BY <3>1, Zenon
  <2> HIDE DEF Blocked
  <2>7. coverage' \in [Sel -> SUBSET Height]
    BY <1>12, <2>6 DEF FollowInv, StoreInv
  <2>8. StoreInv'
    BY <1>5, <2>5, <2>7, Zenon DEF FollowInv, StoreInv
  <2>9. progress \in FollowRows /\ DOMAIN progress \in SUBSET Sel /\ progress[s] \in Progress
    BY <1>12, RowFields DEF FollowInv, ProgressInv
  <2> DEFINE w == [progress[s] EXCEPT !.promoted = up, !.finalized = fin]
  <2>10. /\ up \in Height /\ fin \in Height /\ fin <= up /\ up <= progress[s].head
         /\ w \in Progress /\ w.promoted = up /\ w.finalized = fin /\ w.head = progress[s].head
    <3>1. progress[s].promoted \in Height /\ progress[s].head \in Height /\ progress[s].finalized \in Height
      BY <1>12, <2>9, RowFields
    <3>2. up \in progress[s].promoted..progress[s].head /\ fin \in progress[s].finalized..up
      BY <1>12, ZenonT(60)
    <3> HIDE DEF up, fin
    <3>3. up \in Height /\ up <= progress[s].head
      BY <3>1, <3>2, FollowAssumption DEF Height
    <3>4. fin \in Height /\ fin <= up
      BY <3>1, <3>2, <3>3, FollowAssumption DEF Height
    <3>5. w \in Progress /\ w.promoted = up /\ w.finalized = fin /\ w.head = progress[s].head
      BY <2>9, <3>3, <3>4, Zenon DEF Progress
    <3> QED BY <3>3, <3>4, <3>5, Zenon
  <2>11. progress' = [progress EXCEPT ![s] = w]
    <3> HIDE DEF up, fin
    <3>1. progress' = [progress EXCEPT ![s].promoted = up, ![s].finalized = fin]
      BY <1>12
    <3>2. progress \in [DOMAIN progress -> Progress]
      BY <2>9, RowFields
    <3> QED BY <1>12, <3>1, <3>2, Zenon DEF Progress
  <2> HIDE DEF w, up, fin
  <2>12. ProgressInv'
    <3>1. progress' \in [DOMAIN progress -> Progress]
      BY <2>9, <2>10, <2>11, RowFields, Zenon
    <3>2. progress' \in FollowRows
      BY <2>9, <3>1, RowsOf, Zenon
    <3>3. ASSUME NEW y \in DOMAIN progress'
          PROVE  progress'[y].finalized <= progress'[y].promoted /\ progress'[y].promoted <= progress'[y].head
      <4>1. y \in DOMAIN progress
        BY <3>1
      <4>2. CASE y = s
        <5>1. progress'[y] = w
          BY <2>11, <4>1, <4>2
        <5> QED BY <5>1, <2>10
      <4>3. CASE y # s
        <5>1. progress'[y] = progress[y]
          BY <2>11, <4>1, <4>3
        <5> QED BY <4>1, <5>1 DEF FollowInv, ProgressInv
      <4> QED BY <4>2, <4>3
    <3> QED BY <3>2, <3>3 DEF ProgressInv
  <2>13. ChainInv' /\ ClientInv'
    BY <1>5 DEF FollowInv, ChainInv, ClientInv, chainVars
  <2> QED BY <1>8, <1>12, <2>5, <2>8, <2>12, <2>13, Zenon DEF FollowInv
<1> QED BY <1>6, <1>9, <1>10, <1>11, <1>12, ZenonT(60)

LEMMA PublishOK ==
  ASSUME FollowInv, NEW l \in Leader, Publish(l)
  PROVE  FollowInv' /\ Keeps(rows')
<1> DEFINE h == tk[l].heads
           safe == Max({heads.safe, h.safe})
           finalized == Max({heads.finalized, h.finalized})
<1>1. TicksInv'
  BY GotoOK DEF FollowInv, Publish
<1>2. h \in HeadRow /\ heads \in HeadRow
  BY TickFields DEF FollowInv, TicksInv, StoreInv
<1>3. safe \in Height /\ finalized \in Height
  BY <1>2, MaxOfTwo, Zenon DEF HeadRow
<1>4. heads' = [h EXCEPT !.safe = safe, !.finalized = finalized]
  BY DEF Publish
<1> HIDE DEF h, safe, finalized
<1>5. heads' \in HeadRow
  BY <1>2, <1>3, <1>4, Zenon DEF HeadRow
<1>6. UNCHANGED <<chainVars, followVars, rows, coverage, fills, lock>>
  BY Zenon DEF Publish
<1>7. ChainInv' /\ ClientInv' /\ ProgressInv' /\ StoreInv'
  BY <1>5, <1>6 DEF FollowInv, ChainInv, ClientInv, ProgressInv, StoreInv, chainVars, followVars, OneHash
<1>8. Keeps(rows')
  BY <1>6, SubsetKeeps, Zenon DEF FollowInv, StoreInv
<1> QED BY <1>1, <1>7, <1>8 DEF FollowInv

LEMMA UnfollowOK ==
  ASSUME FollowInv, NEW l \in Leader, Unfollow(l)
  PROVE  FollowInv' /\ Keeps(rows')
<1>1. TicksInv'
  BY GotoOK DEF FollowInv, Unfollow
<1>2. UNCHANGED <<chainVars, subs, halted, dataVars, lock>>
  BY DEF Unfollow
<1> DEFINE D == DOMAIN progress \cap subs
<1>3. progress' = [s \in D |-> progress[s]]
  BY DEF Unfollow, Restrict
<1>4. progress \in FollowRows /\ DOMAIN progress \in SUBSET Sel
      /\ \A s \in DOMAIN progress : progress[s] \in Progress
  BY RowFields DEF FollowInv, ProgressInv
<1>5. progress' \in [D -> Progress] /\ D \in SUBSET Sel
  BY <1>3, <1>4
<1>6. ProgressInv'
  <2>1. progress' \in FollowRows
    <3> HIDE DEF D
    <3> QED BY <1>5, RowsOf
  <2> QED BY <2>1, <1>3 DEF FollowInv, ProgressInv
<1>7. ChainInv' /\ ClientInv' /\ StoreInv'
  BY <1>2, Zenon DEF FollowInv, ChainInv, ClientInv, StoreInv, chainVars, dataVars, OneHash
<1>8. Keeps(rows')
  BY <1>2, SubsetKeeps DEF FollowInv, StoreInv, dataVars
<1> QED BY <1>1, <1>6, <1>7, <1>8 DEF FollowInv

LEMMA PurgeOK ==
  ASSUME FollowInv, NEW l \in Leader, NEW passed, Purge(l, passed)
  PROVE  FollowInv' /\ Keeps(rows')
<1>1. TicksInv'
  BY EndTickOK DEF FollowInv, Purge
<1>2. UNCHANGED <<chainVars, followVars, coverage, heads, fills, lock>>
  BY DEF Purge
<1>3. rows' \subseteq rows /\ \A r \in rows : r.finality # "unsafe" => r \in rows'
  BY DEF Purge, KeptAbove
<1>4. ChainInv' /\ ClientInv' /\ ProgressInv'
  BY <1>2 DEF FollowInv, ChainInv, ClientInv, ProgressInv, chainVars, followVars
<1>5. StoreInv'
  BY <1>2, <1>3 DEF FollowInv, StoreInv, OneHash
<1>6. Keeps(rows')
  BY <1>3, SubsetKeeps DEF FollowInv, StoreInv
<1> QED BY <1>1, <1>4, <1>5, <1>6 DEF FollowInv

LEMMA LockStep ==
  ASSUME FollowInv, TicksInv', lock' \in Leader \cup {NoLeader},
         UNCHANGED <<chainVars, followVars, dataVars>>
  PROVE  FollowInv' /\ Keeps(rows')
<1>1. ChainInv' /\ ClientInv' /\ ProgressInv' /\ StoreInv'
  BY DEF FollowInv, ChainInv, ClientInv, ProgressInv, StoreInv, chainVars, followVars, dataVars, OneHash
<1>2. Keeps(rows')
  BY SubsetKeeps DEF FollowInv, StoreInv, dataVars
<1> QED BY <1>1, <1>2, Zenon DEF FollowInv

LEMMA NewTick ==
  ASSUME TicksInv, NEW l \in Leader, NEW pc \in {"idle", "out"}, tk' = [tk EXCEPT ![l] = At(pc)]
  PROVE  TicksInv'
<1>1. At(pc) \in Tick /\ TickOK(At(pc))
  BY AtType DEF Pc
<1> QED BY <1>1, SetTick, Zenon

(* One step of one engine *)
LEMMA LeaderStepOK ==
  ASSUME FollowInv, NEW l \in Leader, LeaderStep(l)
  PROVE  FollowInv' /\ Keeps(rows')
<1>1. CASE Elect(l)
  <2>1. TicksInv'
    BY <1>1, NewTick, Zenon DEF Elect, FollowInv
  <2> QED BY <1>1, <2>1, LockStep DEF Elect
<1>2. CASE StartTick(l)
  BY <1>2, StartTickOK, TickStep, Zenon DEF StartTick
<1>3. CASE Plan(l)
  BY <1>3, PlanOK
<1>4. CASE CheckHead(l)
  BY <1>4, CheckHeadOK, TickStep DEF CheckHead
<1>5. CASE Verified(l)
  <2>1. TicksInv'
    BY <1>5, GotoOK DEF Verified, FollowInv
  <2> QED BY <1>5, <2>1, TickStep DEF Verified
<1>6. CASE Probe(l)
  BY <1>6, ProbeOK, TickStep, ZenonT(60) DEF Probe
<1>7. CASE Found(l)
  BY <1>7, FoundOK, TickStep, Zenon DEF Found
<1>8. CASE RollBack(l)
  BY <1>8, RollBackOK
<1>9. CASE Halt(l)
  BY <1>9, HaltOK
<1>10. CASE NoHeaders(l)
  BY <1>10, NoHeadersOK, TickStep, Zenon DEF NoHeaders
<1>11. CASE NoMoreLogs(l)
  BY <1>11, NoMoreLogsOK, TickStep, ZenonT(60) DEF NoMoreLogs
<1>12. CASE ResolveEnd(l)
  BY <1>12, ResolveEndOK, TickStep, Zenon DEF ResolveEnd
<1>13. CASE StoreFetched(l)
  BY <1>13, StoreFetchedOK
<1>22. CASE CheckFetched(l)
  BY <1>22, CheckFetchedOK, TickStep DEF CheckFetched
<1>14. ASSUME NEW s \in Sel, FetchHeaders(l, s)
       PROVE  FollowInv' /\ Keeps(rows')
  BY <1>14, FetchHeadersOK, TickStep, Zenon DEF FetchHeaders
<1>15. ASSUME NEW s \in Sel, Finalize(l, s)
       PROVE  FollowInv' /\ Keeps(rows')
  BY <1>15, FinalizeOK
<1>16. ASSUME NEW members \in SUBSET tk[l].todo, NEW s \in members, FetchLogs(l, s, members)
       PROVE  FollowInv' /\ Keeps(rows')
  BY <1>16, FetchLogsOK, TickStep, Zenon DEF FetchLogs
<1>17. CASE NotReady(l)
  <2>1. EndFollow(l) /\ UNCHANGED <<chainVars, followVars, dataVars, lock>>
    BY <1>17, ZenonT(60) DEF NotReady
  <2> QED BY <2>1, EndFollowOK, TickStep DEF FollowInv
<1>18. CASE Publish(l)
  BY <1>18, PublishOK
<1>19. CASE NoRetention(l)
  <2>1. TicksInv'
    BY <1>19, EndTickOK DEF NoRetention, FollowInv
  <2> QED BY <1>19, <2>1, TickStep, Zenon DEF NoRetention
<1>20. CASE Unfollow(l)
  BY <1>20, UnfollowOK
<1>21. ASSUME NEW n \in 0..heads.safe, Purge(l, n)
       PROVE  FollowInv' /\ Keeps(rows')
  BY <1>21, PurgeOK
<1> QED
  BY Zenon, <1>1, <1>2, <1>3, <1>4, <1>5, <1>6, <1>7, <1>8, <1>9, <1>10, <1>11, <1>12, <1>13,
     <1>14, <1>15, <1>16, <1>17, <1>18, <1>19, <1>20, <1>21, <1>22 DEF LeaderStep, FollowStep

LEMMA FaultStepOK ==
  ASSUME FollowInv, FaultStep
  PROVE  FollowInv' /\ Keeps(rows')
<1>1. CASE LoseLock
  <2>1. TicksInv'
    BY <1>1 DEF LoseLock, FollowInv, TicksInv
  <2> QED BY <1>1, <2>1, LockStep DEF LoseLock
<1>2. ASSUME NEW l \in Leader, Crash(l)
      PROVE  FollowInv' /\ Keeps(rows')
  <2>1. TicksInv'
    BY <1>2, NewTick, ZenonT(60) DEF Crash, FollowInv
  <2>2. lock' \in Leader \cup {NoLeader}
    BY <1>2 DEF Crash, FollowInv, ClientInv
  <2> QED BY <1>2, <2>1, <2>2, LockStep DEF Crash
<1>3. ASSUME NEW l \in Leader, FollowFails(l)
      PROVE  FollowInv' /\ Keeps(rows')
  <2>1. TicksInv'
    BY <1>3, EndFollowOK DEF FollowFails, FollowInv
  <2> QED BY <1>3, <2>1, TickStep DEF FollowFails
<1>4. ASSUME NEW l \in Leader, PublishFails(l)
      PROVE  FollowInv' /\ Keeps(rows')
  <2>1. TicksInv'
    BY <1>4, EndTickOK DEF PublishFails, FollowInv
  <2> QED BY <1>4, <2>1, TickStep DEF PublishFails
<1> QED BY <1>1, <1>2, <1>3, <1>4 DEF FaultStep

LEMMA ChainStepOK ==
  ASSUME FollowInv, ChainStep
  PROVE  FollowInv' /\ Keeps(rows')
<1>1. UNCHANGED <<followVars, dataVars, lock, tk>>
  BY Zenon DEF ChainStep, Grow, Reorg
<1>2. Keeps(rows')
  BY <1>1, SubsetKeeps DEF FollowInv, StoreInv, dataVars
<1>3. ClientInv' /\ ProgressInv' /\ StoreInv' /\ TicksInv'
  BY <1>1, Zenon DEF FollowInv, ClientInv, ProgressInv, StoreInv, TicksInv, followVars, dataVars, OneHash, TickOK
<1>4. fork \in Seq(Height) /\ Len(fork) <= MaxForks /\ latest \in Height /\ settled \in Height
  BY DEF FollowInv, ChainInv
<1>5. SafeLag \in Nat /\ Height \subseteq Nat /\ MaxHeight \in Nat /\ MaxForks \in Nat
  BY FollowAssumption DEF Height
<1>6. ChainInv'
  <2>1. CASE Grow
    <3>1. latest' \in Height /\ fork' = fork
      BY <2>1, <1>4, <1>5 DEF Grow, Height
    <3>2. Below(latest', SafeLag) \in Height
      BY <3>1, <1>5, BelowType
    <3>3. settled' \in Height
      BY <2>1, <3>2, <1>4, MaxOfTwo, Zenon DEF Grow
    <3> QED BY <3>1, <3>3, <1>4 DEF ChainInv
  <2>2. ASSUME NEW n \in Height, NEW top \in Height, Reorg(n, top)
        PROVE  ChainInv'
    <3>1. fork' = Append(fork, n) /\ Len(fork) < MaxForks /\ latest' = top
      BY <2>2 DEF Reorg
    <3>2. fork' \in Seq(Height) /\ Len(fork') <= MaxForks
      BY <3>1, <1>4, <1>5
    <3>3. Below(top, SafeLag) \in Height
      BY <1>5, BelowType
    <3>4. settled' \in Height
      BY <2>2, <3>3, <1>4, MaxOfTwo, Zenon DEF Reorg
    <3> QED BY <3>1, <3>2, <3>4 DEF ChainInv
  <2> QED BY <2>1, <2>2 DEF ChainStep
<1> QED BY <1>2, <1>3, <1>6 DEF FollowInv

LEMMA AttachOK ==
  ASSUME FollowInv, NEW s \in Sel, NEW safe \in Height,
         progress' = [x \in DOMAIN progress \cup {s} |-> IF x = s THEN Fresh(safe) ELSE progress[x]]
  PROVE  ProgressInv'
<1> DEFINE D == DOMAIN progress \cup {s}
<1>1. progress' = [x \in D |-> IF x = s THEN Fresh(safe) ELSE progress[x]]
  OBVIOUS
<1>2. /\ Fresh(safe) \in Progress
      /\ Fresh(safe).finalized <= Fresh(safe).promoted
      /\ Fresh(safe).promoted <= Fresh(safe).head
  BY FreshType
<1>3. DOMAIN progress \in SUBSET Sel /\ \A x \in DOMAIN progress : progress[x] \in Progress
  BY RowFields, Zenon DEF FollowInv, ProgressInv
<1>4. progress' \in [D -> Progress] /\ D \in SUBSET Sel
  BY <1>1, <1>2, <1>3
<1>5. progress' \in FollowRows
  <2> HIDE DEF D
  <2> QED BY <1>4, RowsOf
<1>6. ASSUME NEW x \in D
      PROVE  progress'[x].finalized <= progress'[x].promoted /\ progress'[x].promoted <= progress'[x].head
  <2>1. CASE x = s
    <3>1. progress'[x] = Fresh(safe)
      BY <1>1, <2>1
    <3> QED BY <3>1, <1>2
  <2>2. CASE x # s
    <3>1. progress'[x] = progress[x] /\ x \in DOMAIN progress
      BY <1>1, <2>2
    <3> QED BY <3>1 DEF FollowInv, ProgressInv
  <2> QED BY <2>1, <2>2
<1> QED BY <1>1, <1>5, <1>6 DEF ProgressInv

LEMMA CheckFillOK ==
  ASSUME FollowInv, NEW s \in Sel, NEW n \in Height, CheckFill(s, n)
  PROVE  /\ StoreInv' /\ Keeps(rows')
         /\ \A f \in fills' : f \in fills \/ Agrees(f.got)
<1> DEFINE got == Incoming({s}, {n})
           fin == IF n <= heads.finalized THEN "finalized" ELSE "safe"
           durable == {[r EXCEPT !.finality = fin] : r \in got}
           f == [sel |-> s, block |-> n, got |-> durable]
<1>1. got \in SUBSET RowType /\ OneHash(got)
  BY IncomingType, Zenon DEF FollowInv
<1>2. /\ HashConflict(got) = {} /\ fills' = fills \cup {f}
      /\ rows' = rows /\ coverage' = coverage /\ heads' = heads
  BY Zenon DEF CheckFill
<1>3. fin \in Finality
  BY DEF Finality
<1>4. Agrees(got)
  BY <1>2, NoConflictAgrees, Zenon
<1> HIDE DEF got, fin
<1>5. ASSUME NEW r \in got
      PROVE  LET d == [r EXCEPT !.finality = fin] IN d \in RowType /\ d.block = r.block /\ d.hash = r.hash
  BY <1>1, <1>3 DEF RowType, Finality
<1>6. durable \in SUBSET RowType
  BY <1>5
<1>7. \A d \in durable : \E r \in got : d.block = r.block /\ d.hash = r.hash
  BY <1>5, Zenon
<1> HIDE DEF durable
<1>8. OneHash(durable) /\ Agrees(durable)
  BY <1>1, <1>4, <1>7 DEF OneHash, Agrees
<1>9. f \in FillType /\ f.got = durable
  BY <1>6 DEF FillType
<1> HIDE DEF f
<1>10. StoreInv'
  <2>1. fills' \subseteq FillType
    BY <1>2, <1>9 DEF FollowInv, StoreInv
  <2>2. \A g \in fills' : OneHash(g.got)
    BY <1>2, <1>8, <1>9 DEF FollowInv, StoreInv
  <2> QED BY <1>2, <2>1, <2>2 DEF FollowInv, StoreInv
<1>11. Keeps(rows')
  BY <1>2, SubsetKeeps DEF FollowInv, StoreInv
<1>12. \A g \in fills' : g \in fills \/ Agrees(g.got)
  BY <1>2, <1>8, <1>9
<1> QED BY <1>10, <1>11, <1>12

LEMMA FillOK ==
  ASSUME FollowInv, NEW f \in fills, Fill(f) \/ DropFill(f)
  PROVE  StoreInv' /\ Keeps(rows') /\ fills' = fills \ {f}
<1>1. /\ f \in FillType /\ rows \subseteq RowType
      /\ fills \subseteq FillType /\ \A g \in fills : OneHash(g.got)
      /\ coverage \in [Sel -> SUBSET Height] /\ heads \in HeadRow
  BY DEF FollowInv, StoreInv
<1>2. f.sel \in Sel /\ f.block \in Height /\ f.got \in SUBSET RowType
  BY <1>1 DEF FillType
<1>3. fills' = fills \ {f} /\ heads' = heads
  BY DEF Fill, DropFill
<1>4. CASE Fill(f)
  <2>1. rows' = Insert(f.got) /\ coverage' = [coverage EXCEPT ![f.sel] = @ \cup {f.block}]
    BY <1>4, Zenon DEF Fill
  <2>2. rows' \in SUBSET RowType /\ Keeps(rows')
    BY <1>1, <1>2, <2>1, InsertKeeps
  <2>3. coverage' \in [Sel -> SUBSET Height]
    BY <1>1, <1>2, <2>1, Zenon
  <2> QED BY <1>1, <1>3, <2>2, <2>3, Zenon DEF StoreInv
<1>5. CASE DropFill(f)
  <2>1. rows' = rows /\ coverage' = coverage
    BY <1>5 DEF DropFill
  <2>2. Keeps(rows')
    BY <1>1, <2>1, SubsetKeeps, Zenon
  <2> QED BY <1>1, <1>3, <2>1, <2>2 DEF StoreInv
<1> QED BY <1>3, <1>4, <1>5

LEMMA ClientStepOK ==
  ASSUME FollowInv, ClientStep
  PROVE  FollowInv' /\ Keeps(rows')
<1>1. UNCHANGED <<chainVars, lock, tk>>
  BY Zenon DEF ClientStep, Subscribe, Attach, AttachHot, Expire, CheckFill, Fill, DropFill, Resume
<1>2. ChainInv' /\ TicksInv'
  BY <1>1, Zenon DEF FollowInv, ChainInv, TicksInv, chainVars, TickOK
<1>3. ASSUME UNCHANGED dataVars
      PROVE  StoreInv' /\ Keeps(rows')
  BY <1>3, SubsetKeeps DEF FollowInv, StoreInv, dataVars
<1>4. ASSUME NEW s \in Sel, Subscribe(s) \/ Expire(s)
      PROVE  FollowInv' /\ Keeps(rows')
  <2>1. UNCHANGED <<progress, halted, dataVars>> /\ subs' \subseteq subs \cup {s}
    BY <1>4, Zenon DEF Subscribe, Expire
  <2>2. ClientInv' /\ ProgressInv'
    BY <2>1, <1>1, Zenon DEF FollowInv, ClientInv, ProgressInv
  <2> QED BY <2>1, <2>2, <1>2, <1>3 DEF FollowInv
<1>5. ASSUME NEW s \in Sel, NEW safe \in Height, UNCHANGED <<subs, halted, dataVars>>,
             progress' = [x \in DOMAIN progress \cup {s} |-> IF x = s THEN Fresh(safe) ELSE progress[x]]
      PROVE  FollowInv' /\ Keeps(rows')
  <2>1. ClientInv'
    BY <1>5, <1>1 DEF FollowInv, ClientInv
  <2>2. ProgressInv'
    BY <1>5, AttachOK
  <2> QED BY <1>5, <2>1, <2>2, <1>2, <1>3, Zenon DEF FollowInv
<1>6. ASSUME NEW s \in Sel, Attach(s)
      PROVE  FollowInv' /\ Keeps(rows')
  <2>1. heads.safe \in Height
    BY DEF FollowInv, StoreInv, HeadRow
  <2> QED BY <1>5, <1>6, <2>1 DEF Attach
<1>7. ASSUME NEW a \in Asked, AttachHot(a[1], a[2])
      PROVE  FollowInv' /\ Keeps(rows')
  <2>1. a[1] \in Sel /\ a[2] \in 1..MaxHeight
    BY FollowAssumption
  <2>2. a[2] - 1 \in Height
    BY <2>1, FollowAssumption DEF Height
  <2> QED BY <1>5, <1>7, <2>1, <2>2 DEF AttachHot
<1>8. ASSUME StoreInv', Keeps(rows'), UNCHANGED followVars
      PROVE  FollowInv' /\ Keeps(rows')
  <2>1. ClientInv' /\ ProgressInv'
    BY <1>8, <1>1 DEF FollowInv, ClientInv, ProgressInv, followVars
  <2> QED BY <1>8, <2>1, <1>2, Zenon DEF FollowInv
<1>9. ASSUME NEW f \in Filling, CheckFill(f[1], f[2])
      PROVE  FollowInv' /\ Keeps(rows')
  <2>1. f[1] \in Sel /\ f[2] \in Height
    BY FollowAssumption
  <2>2. UNCHANGED followVars
    BY <1>9 DEF CheckFill
  <2> QED BY <1>8, <1>9, <2>1, <2>2, CheckFillOK
<1>10. ASSUME NEW f \in fills, Fill(f) \/ DropFill(f)
       PROVE  FollowInv' /\ Keeps(rows')
  <2>1. UNCHANGED followVars
    BY <1>10 DEF Fill, DropFill
  <2> QED BY <1>8, <1>10, <2>1, FillOK, Zenon
<1>11. CASE Resume
  <2>1. UNCHANGED <<subs, progress, dataVars>> /\ halted' = FALSE
    BY <1>11 DEF Resume
  <2>2. ClientInv' /\ ProgressInv'
    BY <2>1, <1>1, Zenon DEF FollowInv, ClientInv, ProgressInv
  <2> QED BY <2>1, <2>2, <1>2, <1>3 DEF FollowInv
<1> QED BY <1>4, <1>6, <1>7, <1>9, <1>10, <1>11 DEF ClientStep

-----------------------------------------------------------------------------
(* Transactions between their check and their insert *)

(* A step of l alone, after which l is not about to insert. *)
Leaves(l) == (\A k \in Leader \ {l} : tk'[k] = tk[k]) /\ tk'[l].pc # "insert"

LEMMA SetLeaves ==
  ASSUME TicksInv, NEW l \in Leader, NEW x, x.pc # "insert", tk' = [tk EXCEPT ![l] = x]
  PROVE  Leaves(l)
BY DEF TicksInv, Leaves

LEMMA EndFollowLeaves ==
  ASSUME TicksInv, NEW l \in Leader, EndFollow(l)
  PROVE  Leaves(l)
<1> DEFINE x == [At("publish") EXCEPT !.heads = tk[l].heads]
<1>1. x.pc # "insert"
  BY DEF At
<1>2. tk' = [tk EXCEPT ![l] = x]
  BY DEF EndFollow
<1> HIDE DEF x
<1> QED BY <1>1, <1>2, SetLeaves, Zenon

LEMMA StartRollBackLeaves ==
  ASSUME TicksInv, NEW l \in Leader, NEW detected, NEW known, StartRollBack(l, detected, known)
  PROVE  Leaves(l)
<1>1. PICK rb : tk' = [tk EXCEPT ![l] = [At("search") EXCEPT
                  !.heads = tk[l].heads, !.known = known, !.row = progress, !.rb = rb]]
  BY Zenon DEF StartRollBack
<1> DEFINE x == [At("search") EXCEPT !.heads = tk[l].heads, !.known = known, !.row = progress, !.rb = rb]
<1>2. x.pc # "insert"
  BY DEF At
<1>3. tk' = [tk EXCEPT ![l] = x]
  BY <1>1
<1> HIDE DEF x
<1> QED BY <1>2, <1>3, SetLeaves, Zenon

LEMMA AtLeaves ==
  ASSUME TicksInv, NEW l \in Leader, NEW pc, pc # "insert", tk' = [tk EXCEPT ![l] = At(pc)]
  PROVE  Leaves(l)
<1>1. At(pc).pc # "insert"
  BY DEF At
<1> QED BY <1>1, SetLeaves, Zenon

LEMMA GotoLeaves ==
  ASSUME TicksInv, NEW l \in Leader, NEW pc, pc # "insert", Goto(l, pc)
  PROVE  Leaves(l)
<1> DEFINE x == [tk[l] EXCEPT !.pc = pc]
<1>1. tk[l] \in Tick
  BY DEF TicksInv
<1>2. x.pc # "insert"
  BY <1>1 DEF Tick
<1>3. tk' = [tk EXCEPT ![l] = x]
  BY DEF Goto
<1> HIDE DEF x
<1> QED BY <1>2, <1>3, SetLeaves, Zenon

LEMMA EndTickLeaves ==
  ASSUME TicksInv, NEW l \in Leader, EndTick(l)
  PROVE  Leaves(l)
<1> DEFINE pc == IF lock = l THEN "idle" ELSE "out"
<1>1. pc # "insert" /\ tk' = [tk EXCEPT ![l] = At(pc)]
  BY DEF EndTick
<1> HIDE DEF pc
<1> QED BY <1>1, AtLeaves, Zenon

LEMMA FinalizeLeaves ==
  ASSUME TicksInv, NEW l \in Leader, NEW s \in Sel, Finalize(l, s)
  PROVE  Leaves(l)
<1> DEFINE t == tk[l]
           parts == Parts(t.row[s], t.heads)
           Rest == IF t.todo = {s} THEN EndFollow(l) ELSE tk' = [tk EXCEPT ![l].todo = @ \ {s}]
<1>1. t \in Tick /\ t.pc = "finalize"
  BY DEF TicksInv, Finalize
<1>2. \/ Rest \/ EndFollow(l) \/ \E d : StartRollBack(l, d, t.known)
  <2>1. CASE parts = {} \/ \E q \in parts : EndHashes(s, t.row[s], q.to) = {}
    BY <2>1, Zenon DEF Finalize
  <2>2. CASE ~(parts = {} \/ \E q \in parts : EndHashes(s, t.row[s], q.to) = {})
    <3>1. PICK end \in [parts -> Hash \cup {NoHash}] :
            LET broken == UNION {Broken(s, q, end[q]) : q \in parts}
            IN \/ StartRollBack(l, Min(broken), t.known) \/ EndFollow(l) \/ Rest
      BY <2>2, Zenon DEF Finalize
    <3> HIDE DEF Rest
    <3> QED BY <3>1
  <2> QED BY <2>1, <2>2
<1>3. CASE Rest
  <2> DEFINE x == [t EXCEPT !.todo = @ \ {s}]
  <2>1. EndFollow(l) \/ tk' = [tk EXCEPT ![l] = x]
    BY <1>3
  <2>2. x.pc # "insert"
    BY <1>1 DEF Tick
  <2> HIDE DEF x
  <2> QED BY <2>1, <2>2, SetLeaves, EndFollowLeaves
<1> HIDE DEF Rest
<1> QED BY <1>2, <1>3, EndFollowLeaves, StartRollBackLeaves, Zenon

LEMMA CheckHeadLeaves ==
  ASSUME TicksInv, NEW l \in Leader, CheckHead(l)
  PROVE  Leaves(l)
<1> DEFINE t == tk[l]
           n == Min(t.todo)
<1>1. t \in Tick /\ t.pc = "check"
  BY DEF TicksInv, CheckHead
<1>2. PICK h \in Learn(t, n) : \/ tk' = [tk EXCEPT ![l].todo = @ \ {n}, ![l].known = Learned(t, n, h)]
                               \/ StartRollBack(l, n, Learned(t, n, h))
  BY Zenon DEF CheckHead
<1>3. CASE tk' = [tk EXCEPT ![l].todo = @ \ {n}, ![l].known = Learned(t, n, h)]
  <2> DEFINE k == Learned(t, n, h)
             x == [t EXCEPT !.todo = @ \ {n}, !.known = k]
  <2>1. tk' = [tk EXCEPT ![l] = x]
    BY <1>3
  <2> HIDE DEF n, k
  <2>2. x.pc # "insert"
    BY <1>1 DEF Tick
  <2> HIDE DEF x
  <2> QED BY <2>1, <2>2, SetLeaves, Zenon
<1> QED BY <1>2, <1>3, StartRollBackLeaves

LEMMA ProbeLeaves ==
  ASSUME TicksInv, NEW l \in Leader, Probe(l)
  PROVE  Leaves(l)
<1> DEFINE t == tk[l]
<1>1. t \in Tick /\ t.pc = "search"
  BY DEF TicksInv, Probe
<1> DEFINE mid == (t.rb.low + t.rb.high) \div 2
           n == CHOOSE x \in Heights(t.rb.points) :
                  Cardinality({y \in Heights(t.rb.points) : y < x}) = mid
<1>2. PICK h \in Learn(t, n) :
        tk' = [tk EXCEPT ![l].known = Learned(t, n, h),
                         ![l].rb = IF \E p \in t.rb.points : p[1] = n /\ p[2] # h
                                   THEN [t.rb EXCEPT !.high = mid]
                                   ELSE [t.rb EXCEPT !.low = mid + 1]]
  BY Zenon DEF Probe
<1> DEFINE known == Learned(t, n, h)
           rb == IF \E p \in t.rb.points : p[1] = n /\ p[2] # h
                 THEN [t.rb EXCEPT !.high = mid] ELSE [t.rb EXCEPT !.low = mid + 1]
           x == [t EXCEPT !.known = known, !.rb = rb]
<1>3. tk' = [tk EXCEPT ![l] = x]
  <2>1. tk' = [tk EXCEPT ![l].known = known, ![l].rb = rb]
    BY <1>2
  <2> HIDE DEF known, rb
  <2> QED BY <2>1
<1> HIDE DEF known, rb
<1>4. x.pc # "insert"
  BY <1>1 DEF Tick
<1> HIDE DEF x
<1> QED BY <1>3, <1>4, SetLeaves, ZenonT(60)

LEMMA FoundLeaves ==
  ASSUME TicksInv, NEW l \in Leader, Found(l)
  PROVE  Leaves(l)
<1> DEFINE t == tk[l]
<1>1. t \in Tick /\ t.pc = "search"
  BY DEF TicksInv, Found
<1>2. \/ EndFollow(l)
      \/ \E rb : tk' = [tk EXCEPT ![l].rb = rb]
      \/ \E n : tk' = [tk EXCEPT ![l].pc = "rollback", ![l].rb.fork = n]
  BY Zenon DEF Found
<1>3. ASSUME NEW rb, tk' = [tk EXCEPT ![l].rb = rb]
      PROVE  Leaves(l)
  <2> DEFINE x == [t EXCEPT !.rb = rb]
  <2>1. tk' = [tk EXCEPT ![l] = x]
    BY <1>3
  <2>2. x.pc # "insert"
    BY <1>1 DEF Tick
  <2> HIDE DEF x
  <2> QED BY <2>1, <2>2, SetLeaves, Zenon
<1>4. ASSUME NEW n, tk' = [tk EXCEPT ![l].pc = "rollback", ![l].rb.fork = n]
      PROVE  Leaves(l)
  <2> DEFINE x == [t EXCEPT !.pc = "rollback", !.rb.fork = n]
  <2>1. tk' = [tk EXCEPT ![l] = x]
    BY <1>4, Zenon
  <2>2. x.pc # "insert"
    BY <1>1 DEF Tick
  <2> HIDE DEF x
  <2> QED BY <2>1, <2>2, SetLeaves
<1> QED BY <1>2, <1>3, <1>4, EndFollowLeaves

LEMMA PlanLeaves ==
  ASSUME TicksInv, NEW l \in Leader, Plan(l)
  PROVE  Leaves(l)
<1> DEFINE t == tk[l]
<1>1. t \in Tick
  BY DEF TicksInv
<1>2. \/ EndFollow(l)
      \/ \E row, b, todo : tk' = [tk EXCEPT ![l] =
           [t EXCEPT !.pc = "check", !.row = row, !.known = b, !.hashes = b, !.todo = todo]]
  BY Zenon DEF Plan
<1>3. ASSUME NEW row, NEW b, NEW todo, tk' = [tk EXCEPT ![l] =
               [t EXCEPT !.pc = "check", !.row = row, !.known = b, !.hashes = b, !.todo = todo]]
      PROVE  Leaves(l)
  <2> DEFINE x == [t EXCEPT !.pc = "check", !.row = row, !.known = b, !.hashes = b, !.todo = todo]
  <2>1. tk' = [tk EXCEPT ![l] = x]
    BY <1>3
  <2>2. x.pc # "insert"
    BY <1>1 DEF Tick
  <2> HIDE DEF x
  <2> QED BY <2>1, <2>2, SetLeaves
<1> QED BY <1>2, <1>3, EndFollowLeaves, Zenon

LEMMA FetchHeadersLeaves ==
  ASSUME TicksInv, NEW l \in Leader, NEW s \in Sel, FetchHeaders(l, s)
  PROVE  Leaves(l)
<1> DEFINE t == tk[l]
           span == NextSpan(t.row[s].head, t.heads.latest, HeaderCap)
           got == Incoming({s}, span)
           end == Canonical(Max(span))
<1>1. t \in Tick
  BY DEF TicksInv
<1>2. \/ EndFollow(l)
      \/ StartRollBack(l, t.row[s].head, t.known)
      \/ tk' = [tk EXCEPT ![l].pc = "store", ![l].span = span, ![l].members = {s},
                          ![l].got = got, ![l].end = end]
  BY Zenon DEF FetchHeaders
<1> HIDE DEF span, got, end
<1>3. CASE tk' = [tk EXCEPT ![l].pc = "store", ![l].span = span, ![l].members = {s},
                            ![l].got = got, ![l].end = end]
  <2> DEFINE x == [t EXCEPT !.pc = "store", !.span = span, !.members = {s}, !.got = got, !.end = end]
  <2>1. tk' = [tk EXCEPT ![l] = x]
    BY <1>3, Zenon
  <2>2. x.pc # "insert"
    BY <1>1 DEF Tick
  <2> HIDE DEF x
  <2> QED BY <2>1, <2>2, SetLeaves, Zenon
<1> QED BY <1>2, <1>3, EndFollowLeaves, StartRollBackLeaves

LEMMA FetchLogsLeaves ==
  ASSUME TicksInv, NEW l \in Leader, NEW first, NEW members, FetchLogs(l, first, members)
  PROVE  Leaves(l)
<1> DEFINE t == tk[l]
<1>1. t \in Tick
  BY DEF TicksInv
<1>2. PICK span, got : tk' = [tk EXCEPT ![l].pc = "resolve", ![l].span = span,
                                        ![l].members = members, ![l].got = got]
  BY Zenon DEF FetchLogs
<1> DEFINE x == [t EXCEPT !.pc = "resolve", !.span = span, !.members = members, !.got = got]
<1>3. tk' = [tk EXCEPT ![l] = x]
  BY <1>2, Zenon
<1>4. x.pc # "insert"
  BY <1>1 DEF Tick
<1> HIDE DEF x
<1> QED BY <1>3, <1>4, SetLeaves, Zenon

LEMMA WalkLeaves ==
  ASSUME TicksInv, NEW l \in Leader, NoHeaders(l) \/ NoMoreLogs(l)
  PROVE  Leaves(l)
<1> DEFINE t == tk[l]
<1>1. t \in Tick
  BY DEF TicksInv
<1>2. PICK pc \in {"logs", "finalize"} : \E todo : tk' = [tk EXCEPT ![l].pc = pc, ![l].todo = todo]
  BY DEF NoHeaders, NoMoreLogs
<1>3. PICK todo : tk' = [tk EXCEPT ![l].pc = pc, ![l].todo = todo]
  BY <1>2, Zenon
<1> DEFINE x == [t EXCEPT !.pc = pc, !.todo = todo]
<1>4. tk' = [tk EXCEPT ![l] = x]
  BY <1>3, ZenonT(60)
<1>5. x.pc # "insert"
  BY <1>1, <1>2 DEF Tick
<1> HIDE DEF x
<1> QED BY <1>4, <1>5, SetLeaves, Zenon

LEMMA ResolveEndLeaves ==
  ASSUME TicksInv, NEW l \in Leader, ResolveEnd(l)
  PROVE  Leaves(l)
<1> DEFINE t == tk[l]
<1>1. t \in Tick
  BY DEF TicksInv
<1>2. \/ EndFollow(l)
      \/ \E h, known : tk' = [tk EXCEPT ![l].pc = "store", ![l].end = h, ![l].known = known]
  BY Zenon DEF ResolveEnd
<1>3. ASSUME NEW h, NEW known, tk' = [tk EXCEPT ![l].pc = "store", ![l].end = h, ![l].known = known]
      PROVE  Leaves(l)
  <2> DEFINE x == [t EXCEPT !.pc = "store", !.end = h, !.known = known]
  <2>1. tk' = [tk EXCEPT ![l] = x]
    BY <1>3, Zenon
  <2>2. x.pc # "insert"
    BY <1>1 DEF Tick
  <2> HIDE DEF x
  <2> QED BY <2>1, <2>2, SetLeaves
<1> QED BY <1>2, <1>3, EndFollowLeaves, Zenon

LEMMA StoreFetchedLeaves ==
  ASSUME TicksInv, NEW l \in Leader, StoreFetched(l)
  PROVE  Leaves(l)
<1> DEFINE t == tk[l]
<1>1. t \in Tick
  BY DEF TicksInv
<1>2. \/ EndFollow(l)
      \/ \E hashes, todo : tk' = [tk EXCEPT ![l] =
           [t EXCEPT !.pc = "logs", !.span = {}, !.members = {}, !.got = {}, !.end = NoHash,
                     !.hashes = hashes, !.todo = todo]]
  BY Zenon DEF StoreFetched
<1>3. ASSUME NEW hashes, NEW todo, tk' = [tk EXCEPT ![l] =
               [t EXCEPT !.pc = "logs", !.span = {}, !.members = {}, !.got = {}, !.end = NoHash,
                         !.hashes = hashes, !.todo = todo]]
      PROVE  Leaves(l)
  <2> DEFINE x == [t EXCEPT !.pc = "logs", !.span = {}, !.members = {}, !.got = {}, !.end = NoHash,
                            !.hashes = hashes, !.todo = todo]
  <2>1. tk' = [tk EXCEPT ![l] = x]
    BY <1>3
  <2>2. x.pc # "insert"
    BY <1>1 DEF Tick
  <2> HIDE DEF x
  <2> QED BY <2>1, <2>2, SetLeaves
<1> QED BY <1>2, <1>3, EndFollowLeaves, Zenon

(* A step of l stores new blocks only when it commits what it checked, and  *)
(* it has checked what it is about to insert.                               *)
LEMMA LeaderMoves ==
  ASSUME FollowInv, NEW l \in Leader, LeaderStep(l)
  PROVE  /\ fills' = fills
         /\ \A k \in Leader \ {l} : tk'[k] = tk[k]
         /\ tk'[l].pc = "insert" => rows' = rows /\ Agrees(tk'[l].got)
         /\ \/ Within(rows')
            \/ tk[l].pc = "insert" /\ tk'[l].pc # "insert" /\ rows' = Insert(tk[l].got)
<1>1. TicksInv
  BY DEF FollowInv
<1>2. ASSUME UNCHANGED dataVars
      PROVE  fills' = fills /\ Within(rows')
  BY <1>2, SubsetWithin DEF dataVars
<1>3. CASE CheckFetched(l)
  <2> DEFINE t == tk[l]
             x == [t EXCEPT !.pc = "insert"]
  <2>1. /\ UNCHANGED dataVars
        /\ \/ StartRollBack(l, Min(HashConflict(t.got)), t.known)
           \/ HashConflict(t.got) = {} /\ tk' = [tk EXCEPT ![l] = x]
    BY <1>3 DEF CheckFetched, Goto
  <2>2. CASE HashConflict(t.got) = {} /\ tk' = [tk EXCEPT ![l] = x]
    <3>1. tk \in [Leader -> Tick] /\ t \in Tick
      BY <1>1 DEF TicksInv
    <3>2. x.got = t.got
      BY <3>1 DEF Tick
    <3> HIDE DEF x
    <3>3. tk'[l] = x /\ \A k \in Leader \ {l} : tk'[k] = tk[k]
      BY <2>2, <3>1
    <3>4. Agrees(t.got)
      BY <2>2, NoConflictAgrees
    <3>5. rows' = rows
      BY <2>1 DEF dataVars
    <3> QED BY <1>2, <2>1, <3>2, <3>3, <3>4, <3>5
  <2>3. CASE StartRollBack(l, Min(HashConflict(t.got)), t.known)
    BY <1>1, <1>2, <2>1, <2>3, StartRollBackLeaves, Zenon DEF Leaves
  <2> QED BY <2>1, <2>2, <2>3
<1>4. ASSUME Leaves(l), fills' = fills, Within(rows')
      PROVE  /\ fills' = fills
             /\ \A k \in Leader \ {l} : tk'[k] = tk[k]
             /\ tk'[l].pc = "insert" => rows' = rows /\ Agrees(tk'[l].got)
             /\ \/ Within(rows')
                \/ tk[l].pc = "insert" /\ tk'[l].pc # "insert" /\ rows' = Insert(tk[l].got)
  BY <1>4, Zenon DEF Leaves
<1>5. CASE StoreFetched(l)
  <2>1. Leaves(l)
    BY <1>1, <1>5, StoreFetchedLeaves
  <2>2. fills' = fills /\ tk[l].pc = "insert" /\ (rows' = rows \/ rows' = Insert(tk[l].got))
    BY <1>5, ZenonT(60) DEF StoreFetched
  <2>3. CASE rows' = rows
    BY <2>1, <2>2, <2>3, <1>4, SubsetWithin, ZenonT(60)
  <2>4. CASE rows' = Insert(tk[l].got)
    BY <2>1, <2>2, <2>4, Zenon DEF Leaves
  <2> QED BY <2>2, <2>3, <2>4
<1>6. ASSUME NEW s \in Sel, Finalize(l, s)
      PROVE  Leaves(l) /\ fills' = fills /\ Within(rows')
  <2>1. fills' = fills
    BY <1>6, ZenonT(60) DEF Finalize
  <2> QED BY <1>1, <1>6, <2>1, FinalizeLeaves, FinalizeOK
<1>7. CASE RollBack(l)
  <2>1. fills' = fills /\ rows' = KeptBelow(tk[l].rb.fork)
    BY <1>7 DEF RollBack
  <2>2. EndFollow(l) \/ tk' = [tk EXCEPT ![l] = [At("halt") EXCEPT !.heads = tk[l].heads]]
    BY <1>7 DEF RollBack
  <2>3. [At("halt") EXCEPT !.heads = tk[l].heads].pc # "insert"
    BY DEF At
  <2>4. Leaves(l)
    BY <1>1, <2>2, <2>3, SetLeaves, EndFollowLeaves, Zenon
  <2>5. Within(rows')
    BY <2>1, SubsetWithin DEF KeptBelow
  <2> QED BY <1>4, <2>1, <2>4, <2>5, ZenonT(60)
<1>8. ASSUME NEW n \in 0..heads.safe, Purge(l, n)
      PROVE  Leaves(l) /\ fills' = fills /\ Within(rows')
  <2>1. fills' = fills /\ rows' \subseteq rows /\ EndTick(l)
    BY <1>8 DEF Purge, KeptAbove
  <2> QED BY <1>1, <2>1, EndTickLeaves, SubsetWithin, Zenon
<1>9. CASE Elect(l)
  BY <1>1, <1>2, <1>4, <1>9, AtLeaves, Zenon DEF Elect
<1>10. CASE StartTick(l)
  <2> DEFINE h == [latest |-> latest, hash |-> Canonical(latest),
                   safe |-> Below(latest, SafeLag), finalized |-> Below(latest, FinalizedLag)]
             x == [At("plan") EXCEPT !.heads = h]
  <2>1. tk' = [tk EXCEPT ![l] = x] /\ UNCHANGED dataVars
    BY <1>10 DEF StartTick
  <2> HIDE DEF h
  <2>2. x.pc # "insert"
    BY Zenon DEF At
  <2> HIDE DEF x
  <2> QED BY <1>1, <1>2, <1>4, <2>1, <2>2, SetLeaves, ZenonT(60)
<1>11. CASE Plan(l) \/ CheckHead(l) \/ Probe(l) \/ Found(l) \/ NoHeaders(l) \/ NoMoreLogs(l) \/ ResolveEnd(l)
  <2>1. UNCHANGED dataVars
    BY <1>11, Zenon DEF Plan, CheckHead, Probe, Found, NoHeaders, NoMoreLogs, ResolveEnd
  <2>2. Leaves(l)
    BY <1>1, <1>11, PlanLeaves, CheckHeadLeaves, ProbeLeaves, FoundLeaves, WalkLeaves, ResolveEndLeaves, Zenon
  <2> QED BY <1>2, <1>4, <2>1, <2>2, Zenon
<1>12. CASE Verified(l) \/ Unfollow(l)
  <2>1. UNCHANGED dataVars /\ (Goto(l, "headers") \/ Goto(l, "purge"))
    BY <1>12 DEF Verified, Unfollow
  <2>2. Leaves(l)
    BY <1>1, <2>1, GotoLeaves
  <2> QED BY <1>2, <1>4, <2>1, <2>2, Zenon
<1>13. CASE Halt(l) \/ NotReady(l)
  <2>1. UNCHANGED dataVars /\ EndFollow(l)
    BY <1>13, ZenonT(60) DEF Halt, NotReady
  <2> QED BY <1>1, <1>2, <1>4, <2>1, EndFollowLeaves, ZenonT(60)
<1>14. CASE Publish(l)
  <2>1. rows' = rows /\ fills' = fills /\ Goto(l, "retain")
    BY <1>14, Zenon DEF Publish
  <2> QED BY <1>1, <1>4, <2>1, GotoLeaves, SubsetWithin, Zenon
<1>15. CASE NoRetention(l)
  BY <1>1, <1>2, <1>4, <1>15, EndTickLeaves, Zenon DEF NoRetention
<1>16. ASSUME NEW s \in Sel, FetchHeaders(l, s)
       PROVE  Leaves(l) /\ fills' = fills /\ Within(rows')
  <2>1. UNCHANGED dataVars
    BY <1>16, Zenon DEF FetchHeaders
  <2> QED BY <1>1, <1>2, <1>16, <2>1, FetchHeadersLeaves, Zenon
<1>17. ASSUME NEW members \in SUBSET tk[l].todo, NEW s \in members, FetchLogs(l, s, members)
       PROVE  Leaves(l) /\ fills' = fills /\ Within(rows')
  <2>1. UNCHANGED dataVars
    BY <1>17 DEF FetchLogs
  <2> QED BY <1>1, <1>2, <1>17, <2>1, FetchLogsLeaves, Zenon
<1> QED
  BY <1>3, <1>4, <1>5, <1>6, <1>7, <1>8, <1>9, <1>10, <1>11, <1>12, <1>13, <1>14, <1>15, <1>16, <1>17, Zenon
     DEF LeaderStep, FollowStep

(* Every transaction that has passed its check and not inserted yet agrees  *)
(* with the store.                                                          *)
Sound ==
  /\ OneHash(rows)
  /\ \A l \in Leader : tk[l].pc = "insert" => Agrees(tk[l].got)
  /\ \A f \in fills : Agrees(f.got)

(* A step stores a block the store does not have while another transaction  *)
(* stands between its check and its insert.                                 *)
Overlap ==
  /\ ~Within(rows')
  /\ \/ \E l \in Leader : tk[l].pc = "insert" /\ tk'[l].pc = "insert"
     \/ fills \cap fills' # {}

LEMMA InsertOneHash ==
  ASSUME rows \subseteq RowType, NEW incoming \in SUBSET RowType,
         OneHash(rows), OneHash(incoming), Agrees(incoming)
  PROVE  OneHash(Insert(incoming))
<1>1. \A q \in Insert(incoming) : \/ \E r \in rows : q.block = r.block /\ q.hash = r.hash
                                  \/ q \in incoming
  BY InsertKeeps
<1>2. ASSUME NEW q \in Insert(incoming), NEW r \in Insert(incoming), q.block = r.block
      PROVE  q.hash = r.hash
  <2>1. CASE q \in incoming /\ r \in incoming
    BY <1>2, <2>1 DEF OneHash
  <2>2. CASE q \in incoming /\ \E x \in rows : r.block = x.block /\ r.hash = x.hash
    BY <1>2, <2>2 DEF Agrees
  <2>3. CASE r \in incoming /\ \E x \in rows : q.block = x.block /\ q.hash = x.hash
    BY <1>2, <2>3, Zenon DEF Agrees
  <2>4. CASE /\ \E x \in rows : q.block = x.block /\ q.hash = x.hash
             /\ \E x \in rows : r.block = x.block /\ r.hash = x.hash
    BY <1>2, <2>4, Zenon DEF OneHash
  <2> QED BY <1>1, <2>1, <2>2, <2>3, <2>4, Zenon
<1> QED BY <1>2 DEF OneHash

(* A step keeps what a transaction has checked, or checks it now; and it    *)
(* stores new blocks only by committing what was checked.                   *)
LEMMA StepMoves ==
  ASSUME FollowInv, Sound, [Next]_vars
  PROVE  /\ \A k \in Leader : tk'[k].pc = "insert" =>
              \/ tk[k].pc = "insert" /\ tk'[k].got = tk[k].got
              \/ rows' = rows /\ Agrees(tk'[k].got)
         /\ \A f \in fills' : f \in fills \/ (rows' = rows /\ Agrees(f.got))
         /\ \/ Within(rows')
            \/ \E S \in SUBSET RowType : rows' = Insert(S) /\ OneHash(S) /\ Agrees(S)
<1> DEFINE A == \A k \in Leader : tk'[k].pc = "insert" =>
                  \/ tk[k].pc = "insert" /\ tk'[k].got = tk[k].got
                  \/ rows' = rows /\ Agrees(tk'[k].got)
           B == \A f \in fills' : f \in fills \/ (rows' = rows /\ Agrees(f.got))
           C == \/ Within(rows')
                \/ \E S \in SUBSET RowType : rows' = Insert(S) /\ OneHash(S) /\ Agrees(S)
<1> SUFFICES A /\ B /\ C
  OBVIOUS
<1>1. TicksInv
  BY DEF FollowInv
<1>2. ASSUME tk' = tk PROVE A
  BY <1>2
<1>3. ASSUME UNCHANGED dataVars PROVE B /\ C
  BY <1>3, SubsetWithin DEF dataVars
<1>4. ASSUME NEW l \in Leader, Leaves(l) PROVE A
  BY <1>4, Zenon DEF Leaves
<1>5. CASE UNCHANGED vars
  BY <1>2, <1>3, <1>5 DEF vars
<1>6. CASE ChainStep
  BY <1>2, <1>3, <1>6, ZenonT(60) DEF ChainStep, Grow, Reorg
<1>7. ASSUME NEW l \in Leader, LeaderStep(l)
      PROVE  A /\ B /\ C
  <2>1. /\ fills' = fills
        /\ \A k \in Leader \ {l} : tk'[k] = tk[k]
        /\ tk'[l].pc = "insert" => rows' = rows /\ Agrees(tk'[l].got)
        /\ \/ Within(rows')
           \/ tk[l].pc = "insert" /\ tk'[l].pc # "insert" /\ rows' = Insert(tk[l].got)
    BY <1>7, LeaderMoves, ZenonT(60)
  <2>2. A
    BY <2>1
  <2>3. B
    BY <2>1, Zenon
  <2>4. C
    <3>1. tk[l].got \in SUBSET RowType /\ OneHash(tk[l].got)
      BY <1>1, TickFields, Zenon DEF TicksInv, TickOK
    <3>2. tk[l].pc = "insert" => Agrees(tk[l].got)
      BY DEF Sound
    <3> QED BY <2>1, <3>1, <3>2
  <2> QED BY <2>2, <2>3, <2>4, Zenon
<1>8. CASE FaultStep
  <2>1. B /\ C
    BY <1>3, <1>8, ZenonT(60) DEF FaultStep, LoseLock, Crash, FollowFails, PublishFails
  <2>2. CASE LoseLock
    BY <1>2, <2>1, <2>2, Zenon DEF LoseLock
  <2>3. ASSUME NEW l \in Leader, Crash(l) \/ FollowFails(l) \/ PublishFails(l)
        PROVE  A
    <3>1. tk' = [tk EXCEPT ![l] = At("out")] \/ EndFollow(l) \/ EndTick(l)
      BY <2>3 DEF Crash, FollowFails, PublishFails
    <3>2. Leaves(l)
      BY <1>1, <3>1, AtLeaves, EndFollowLeaves, EndTickLeaves
    <3> QED BY <1>4, <3>2, Zenon
  <2> HIDE DEF A, B, C
  <2> QED BY <1>8, <2>1, <2>2, <2>3 DEF FaultStep
<1>9. CASE ClientStep
  <2>1. tk' = tk
    BY <1>9, ZenonT(60) DEF ClientStep, Subscribe, Attach, AttachHot, Expire, CheckFill, Fill, DropFill, Resume
  <2>2. A
    BY <1>2, <2>1, Zenon
  <2>3. ASSUME NEW f \in Filling, CheckFill(f[1], f[2])
        PROVE  B /\ C
    <3>1. f[1] \in Sel /\ f[2] \in Height
      BY FollowAssumption
    <3>2. \A g \in fills' : g \in fills \/ Agrees(g.got)
      BY <2>3, <3>1, CheckFillOK
    <3>3. rows' = rows
      BY <2>3 DEF CheckFill
    <3>4. Within(rows')
      BY <3>3, SubsetWithin, Zenon
    <3> QED BY <3>2, <3>3, <3>4, Zenon
  <2>4. ASSUME NEW f \in fills, Fill(f) \/ DropFill(f)
        PROVE  B /\ C
    <3>1. fills' = fills \ {f}
      BY <2>4, FillOK, Zenon
    <3>2. f.got \in SUBSET RowType /\ OneHash(f.got) /\ Agrees(f.got)
      BY DEF FollowInv, StoreInv, FillType, Sound
    <3>3. rows' = rows \/ rows' = Insert(f.got)
      BY <2>4 DEF Fill, DropFill
    <3>4. rows' = rows => Within(rows')
      BY SubsetWithin, Zenon
    <3> QED BY <3>1, <3>2, <3>3, <3>4, Zenon
  <2>5. ASSUME UNCHANGED dataVars PROVE B /\ C
    BY <1>3, <2>5
  <2>6. B /\ C
    <3> HIDE DEF B, C
    <3> QED BY <1>9, <2>3, <2>4, <2>5, ZenonT(60) DEF ClientStep, Subscribe, Attach, AttachHot, Expire, Resume
  <2> QED BY <2>2, <2>6, Zenon
<1> HIDE DEF A, B, C
<1> QED BY <1>5, <1>6, <1>7, <1>8, <1>9, Zenon DEF Next

LEMMA SoundNext ==
  ASSUME FollowInv, Sound, [Next]_vars, ~Overlap
  PROVE  Sound'
<1>1. /\ \A k \in Leader : tk'[k].pc = "insert" =>
           \/ tk[k].pc = "insert" /\ tk'[k].got = tk[k].got
           \/ rows' = rows /\ Agrees(tk'[k].got)
      /\ \A f \in fills' : f \in fills \/ (rows' = rows /\ Agrees(f.got))
      /\ \/ Within(rows')
         \/ \E S \in SUBSET RowType : rows' = Insert(S) /\ OneHash(S) /\ Agrees(S)
  BY StepMoves, Zenon
<1>2. CASE Within(rows')
  <2>1. OneHash(rows')
    BY <1>2 DEF Within, Sound, OneHash
  <2>2. ASSUME NEW S, Agrees(S)
        PROVE  \A r \in S, q \in rows' : q.block = r.block => q.hash = r.hash
    BY <1>2, <2>2 DEF Within, Agrees
  <2>3. ASSUME NEW k \in Leader, tk'[k].pc = "insert"
        PROVE  \A r \in tk'[k].got, q \in rows' : q.block = r.block => q.hash = r.hash
    <3>1. Agrees(tk'[k].got)
      BY <1>1, <2>3, Zenon DEF Sound
    <3> QED BY <2>2, <3>1, Zenon
  <2>4. ASSUME NEW f \in fills'
        PROVE  \A r \in f.got, q \in rows' : q.block = r.block => q.hash = r.hash
    <3>1. Agrees(f.got)
      BY <1>1, <2>4, ZenonT(60) DEF Sound
    <3> QED BY <2>2, <3>1
  <2> QED BY <2>1, <2>3, <2>4, Zenon DEF Sound, Agrees, OneHash
<1>3. CASE ~Within(rows')
  <2>1. OneHash(rows')
    <3>1. rows \subseteq RowType /\ OneHash(rows)
      BY DEF FollowInv, StoreInv, Sound
    <3> QED BY <1>1, <1>3, <3>1, InsertOneHash, Zenon
  <2>2. rows' # rows
    BY <1>3, SubsetWithin, Zenon
  <2>3. \A k \in Leader : tk'[k].pc # "insert"
    BY <1>1, <1>3, <2>2, Zenon DEF Overlap
  <2>4. fills' = {}
    BY <1>1, <1>3, <2>2 DEF Overlap
  <2> QED BY <2>1, <2>3, <2>4, Zenon DEF Sound, OneHash
<1> QED BY <1>2, <1>3

-----------------------------------------------------------------------------
(* The theorems *)

LEMMA FollowInit == Init => FollowInv
<1> SUFFICES ASSUME Init PROVE FollowInv
  OBVIOUS
<1>1. ChainInv
  BY FollowAssumption DEF Init, ChainInv, Height
<1>2. ClientInv
  BY Zenon DEF Init, ClientInv
<1>3. ProgressInv
  BY EmptyRows DEF Init, ProgressInv
<1>4. StoreInv
  <2>1. heads \in HeadRow
    BY FollowAssumption DEF Init, NoHeads, HeadRow, Height, Hash
  <2> QED BY <2>1 DEF Init, StoreInv, OneHash
<1>5. TicksInv
  <2>1. At("out") \in Tick /\ TickOK(At("out"))
    BY AtType DEF Pc
  <2> QED BY <2>1 DEF Init, TicksInv
<1> QED BY <1>1, <1>2, <1>3, <1>4, <1>5 DEF FollowInv

LEMMA FollowNext == FollowInv /\ [Next]_vars => FollowInv' /\ Keeps(rows')
<1> SUFFICES ASSUME FollowInv, [Next]_vars PROVE FollowInv' /\ Keeps(rows')
  OBVIOUS
<1>1. CASE UNCHANGED vars
  <2>1. UNCHANGED <<chainVars, followVars, dataVars, lock>> /\ tk' = tk
    BY <1>1 DEF vars
  <2>2. TicksInv'
    BY <2>1, Zenon DEF FollowInv, TicksInv, TickOK
  <2> QED BY <2>1, <2>2, TickStep
<1>2. CASE Next
  BY <1>2, ChainStepOK, ClientStepOK, FaultStepOK, LeaderStepOK DEF Next
<1> QED BY <1>1, <1>2

(* The state that ticks, clients, fills and reorganizations share is always *)
(* well formed, for any chain, selectors, lags and caps: in particular the  *)
(* three marks of a follow row keep their order finalized <= promoted <=    *)
(* head through advance_follow_head, advance_follow_promotion and           *)
(* rewind_follow, whichever of them two engines interleave.                 *)
THEOREM FollowTypeCorrect == Spec => []TypeOK
<1>1. FollowInv => TypeOK
  BY RowFields DEF FollowInv, TypeOK, ChainInv, ClientInv, ProgressInv, StoreInv
<1> QED BY <1>1, FollowInit, FollowNext, PTL DEF Spec

(* One block per height, as long as transactions do not overlap: if no new  *)
(* block is stored while another transaction has passed hash_conflict and   *)
(* not inserted its rows yet, then the logs and the header stored at one    *)
(* height always belong to one block, whatever ticks, fills, rollbacks,     *)
(* reorganizations, crashes and changes of leader happen in between.  The   *)
(* condition is what the code relies on and does not enforce: insert_logs   *)
(* and insert_blocks select first and insert later, which READ COMMITTED    *)
(* does not isolate.                                                        *)
THEOREM OneHashWithoutOverlap == Spec /\ [][~Overlap]_vars => []OneHashPerHeight
<1>1. Init => Sound
  BY DEF Init, Sound, OneHash, At
<1>2. Sound => OneHashPerHeight
  BY DEF Sound, OneHash, OneHashPerHeight
<1>3. FollowInv /\ Sound /\ [Next]_vars /\ [~Overlap]_vars => Sound'
  <2> SUFFICES ASSUME FollowInv, Sound, [Next]_vars, [~Overlap]_vars PROVE Sound'
    OBVIOUS
  <2>1. CASE ~Overlap
    BY <2>1, SoundNext, Zenon
  <2>2. CASE UNCHANGED vars
    <3>1. rows' = rows /\ tk' = tk /\ fills' = fills
      BY <2>2 DEF vars, dataVars
    <3> QED BY <3>1 DEF Sound, OneHash, Agrees
  <2> QED BY <2>1, <2>2
<1> QED BY <1>1, <1>2, <1>3, FollowInit, FollowNext, PTL DEF Spec

(* No step of any engine, client or fault removes a safe or finalized row   *)
(* or weakens its finality: roll back and retention delete unsafe rows      *)
(* only, and a second write of a row keeps the stronger finality.           *)
THEOREM DurableRowsKept == Spec => DurableKept
<1>1. Keeps(rows') => (\A r \in rows : r.finality # "unsafe" =>
         \E q \in rows' : /\ q.kind = r.kind /\ q.block = r.block /\ q.hash = r.hash
                          /\ Stronger(q.finality, r.finality) = q.finality)
  BY DEF Keeps
<1> QED BY <1>1, FollowInit, FollowNext, PTL DEF Spec, DurableKept

=============================================================================
