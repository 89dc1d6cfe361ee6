--------------------------- MODULE CoverageProofs ---------------------------
(***************************************************************************)
(* Coverage rows stay canonical and say exactly what was recorded, for     *)
(* every MaxEnd, every set of chunk sizes and every sequence of adds; and  *)
(* the plans and answers computed from them are right.                     *)
(***************************************************************************)
EXTENDS Coverage, BlockPlanProofs

-----------------------------------------------------------------------------
(* Rows and the blocks they cover *)

Finality == {"none", "safe", "finalized"}

Piece == [start : Nat, end : Nat, finality : {"safe", "finalized"}]

Holds(row, b) == row.start <= b /\ b < row.end

(* Rows in order, none empty, none overlapping, no two that could be one. *)
Canon(rs) ==
  /\ rs \in Seq(Piece)
  /\ \A i \in DOMAIN rs : rs[i].start < rs[i].end
  /\ \A i, k \in DOMAIN rs : i < k => rs[i].end <= rs[k].start
  /\ \A i, k \in DOMAIN rs : k = i + 1 /\ rs[i].end = rs[k].start => rs[i].finality # rs[k].finality

LEMMA PieceFields ==
  ASSUME NEW rs \in Seq(Piece)
  PROVE  /\ DOMAIN rs = 1..Len(rs) /\ Len(rs) \in Nat
         /\ \A i \in DOMAIN rs : /\ rs[i] \in Piece
                                 /\ rs[i].start \in Nat /\ rs[i].end \in Nat
                                 /\ rs[i].finality \in {"safe", "finalized"}
<1>1. \A r \in Piece : r.start \in Nat /\ r.end \in Nat /\ r.finality \in {"safe", "finalized"}
  BY DEF Piece
<1>2. DOMAIN rs = 1..Len(rs) /\ Len(rs) \in Nat /\ \A i \in DOMAIN rs : rs[i] \in Piece
  OBVIOUS
<1> QED BY <1>1, <1>2

(* FinalityAt is the finality of the row that holds the block, if one does. *)
LEMMA FinalityOutside ==
  ASSUME NEW rs, NEW b, \A i \in DOMAIN rs : ~Holds(rs[i], b)
  PROVE  FinalityAt(rs, b) = "none"
<1>1. {i \in DOMAIN rs : rs[i].start <= b /\ b < rs[i].end} = {}
  BY DEF Holds
<1> QED BY <1>1 DEF FinalityAt

LEMMA FinalityInside ==
  ASSUME NEW rs \in Seq(Piece), NEW b \in Nat, NEW i \in DOMAIN rs, Holds(rs[i], b)
  PROVE  \E k \in DOMAIN rs : Holds(rs[k], b) /\ FinalityAt(rs, b) = rs[k].finality
<1> DEFINE S == {k \in DOMAIN rs : rs[k].start <= b /\ b < rs[k].end}
<1>1. S \in SUBSET Nat /\ S # {}
  BY DEF Holds
<1>2. Min(S) \in S
  BY <1>1, MinNat
<1>3. FinalityAt(rs, b) = rs[Min(S)].finality
  BY <1>1 DEF FinalityAt
<1> QED BY <1>2, <1>3 DEF Holds

LEMMA FinalityType ==
  ASSUME NEW rs \in Seq(Piece), NEW b \in Nat
  PROVE  /\ FinalityAt(rs, b) \in Finality
         /\ FinalityAt(rs, b) # "none" <=> \E i \in DOMAIN rs : Holds(rs[i], b)
<1>1. CASE \E i \in DOMAIN rs : Holds(rs[i], b)
  BY <1>1, FinalityInside, PieceFields DEF Finality
<1>2. CASE ~\E i \in DOMAIN rs : Holds(rs[i], b)
  BY <1>2, FinalityOutside DEF Finality
<1> QED BY <1>1, <1>2

LEMMA FinalityOfRow ==
  ASSUME NEW rs, Canon(rs), NEW b \in Nat, NEW i \in DOMAIN rs, Holds(rs[i], b)
  PROVE  FinalityAt(rs, b) = rs[i].finality
<1>1. rs \in Seq(Piece)
  BY DEF Canon
<1>2. PICK k \in DOMAIN rs : Holds(rs[k], b) /\ FinalityAt(rs, b) = rs[k].finality
  BY <1>1, FinalityInside
<1>3. ~(i < k) /\ ~(k < i)
  BY <1>1, <1>2, PieceFields DEF Canon, Holds
<1>4. i = k
  BY <1>1, <1>3, PieceFields
<1> QED BY <1>2, <1>4

LEMMA StrongerType ==
  ASSUME NEW x \in Finality, NEW y \in Finality
  PROVE  /\ Stronger(x, y) \in Finality
         /\ Stronger(x, y) = "none" <=> x = "none" /\ y = "none"
         /\ Stronger(x, y) = "finalized" <=> x = "finalized" \/ y = "finalized"
BY DEF Finality, Stronger

LEMMA MergedType ==
  ASSUME NEW rs \in Seq(Piece), NEW s \in Nat, NEW e \in Nat, NEW f \in {"safe", "finalized"},
         NEW b \in Nat
  PROVE  MergedAt(rs, s, e, f, b) \in Finality
<1>1. f \in Finality
  BY DEF Finality
<1> QED BY <1>1, FinalityType, StrongerType DEF MergedAt

(* No bound lies inside a window, so its blocks have one finality. *)
LEMMA WindowUniform ==
  ASSUME NEW rs \in Seq(Piece), NEW s \in Nat, NEW e \in Nat, NEW f,
         NEW a \in Nat, NEW z \in Nat, NEW b \in Nat, a <= b, b < z,
         s <= a \/ z <= s, e <= a \/ z <= e,
         \A i \in DOMAIN rs : /\ rs[i].start <= a \/ z <= rs[i].start
                              /\ rs[i].end <= a \/ z <= rs[i].end
  PROVE  MergedAt(rs, s, e, f, b) = MergedAt(rs, s, e, f, a)
<1>1. ASSUME NEW i \in DOMAIN rs
      PROVE  (rs[i].start <= b /\ b < rs[i].end) <=> (rs[i].start <= a /\ a < rs[i].end)
  <2>1. /\ rs[i].start \in Nat /\ rs[i].end \in Nat
        /\ rs[i].start <= a \/ z <= rs[i].start
        /\ rs[i].end <= a \/ z <= rs[i].end
    BY PieceFields
  <2>2. (rs[i].start <= b <=> rs[i].start <= a) /\ (b < rs[i].end <=> a < rs[i].end)
    BY <2>1
  <2> QED BY <2>2, Zenon
<1>2. {i \in DOMAIN rs : rs[i].start <= b /\ b < rs[i].end}
        = {i \in DOMAIN rs : rs[i].start <= a /\ a < rs[i].end}
  BY <1>1
<1>3. FinalityAt(rs, b) = FinalityAt(rs, a)
  BY <1>2 DEF FinalityAt
<1>4. (s <= b /\ b < e) <=> (s <= a /\ a < e)
  OBVIOUS
<1> QED BY <1>3, <1>4 DEF MergedAt

(* Below cut, the rows say of each block what g does. *)
Says(rs, cut, g) ==
  /\ Canon(rs)
  /\ \A i \in DOMAIN rs : rs[i].end <= cut
  /\ \A i \in DOMAIN rs : \A b \in Nat : Holds(rs[i], b) => g[b] = rs[i].finality
  /\ \A b \in Nat : b < cut /\ g[b] # "none" => \E i \in DOMAIN rs : Holds(rs[i], b)

LEMMA PushWindowType ==
  ASSUME NEW rs \in Seq(Piece), NEW a \in Nat, NEW z \in Nat, NEW f \in Finality
  PROVE  PushWindow(rs, a, z, f) \in Seq(Piece)
<1>1. CASE f = "none"
  BY <1>1 DEF PushWindow
<1>2. CASE f # "none"
  <2>1. [start |-> a, end |-> z, finality |-> f] \in Piece
    BY <1>2 DEF Piece, Finality
  <2>2. Append(rs, [start |-> a, end |-> z, finality |-> f]) \in Seq(Piece)
    BY <2>1
  <2>3. ASSUME rs # <<>> PROVE [rs EXCEPT ![Len(rs)].end = z] \in Seq(Piece)
    <3>1. Len(rs) \in 1..Len(rs) /\ rs[Len(rs)] \in Piece
      BY <2>3
    <3>2. [rs[Len(rs)] EXCEPT !.end = z] \in Piece
      BY <3>1 DEF Piece
    <3>3. [rs EXCEPT ![Len(rs)] = [rs[Len(rs)] EXCEPT !.end = z]] \in Seq(Piece)
      BY <3>1, <3>2
    <3> QED BY <3>3
  <2> QED BY <1>2, <2>2, <2>3 DEF PushWindow
<1> QED BY <1>1, <1>2

(* One round of merge_spans. *)
LEMMA PushWindowSays ==
  ASSUME NEW g \in [Nat -> Finality], NEW rs, NEW a \in Nat, NEW z \in Nat, a < z,
         Says(rs, a, g),
         \A b \in Nat : a <= b /\ b < z => g[b] = g[a]
  PROVE  Says(PushWindow(rs, a, z, g[a]), z, g)
<1> DEFINE new == PushWindow(rs, a, z, g[a])
           n == Len(rs)
<1>1. rs \in Seq(Piece) /\ Canon(rs)
  BY DEF Says, Canon
<1>2. DOMAIN rs = 1..n /\ n \in Nat
  BY <1>1, PieceFields
<1>3. \A i \in 1..n : /\ rs[i].start \in Nat /\ rs[i].end \in Nat
                      /\ rs[i].start < rs[i].end /\ rs[i].end <= a
  BY <1>1, <1>2, PieceFields DEF Says, Canon
<1>4. g[a] \in Finality
  OBVIOUS
<1>5. new \in Seq(Piece)
  BY <1>1, <1>4, PushWindowType
<1>6. CASE g[a] = "none"
  <2>1. new = rs
    BY <1>6 DEF PushWindow
  <2>2. \A i \in DOMAIN rs : rs[i].end <= z
    BY <1>2, <1>3
  <2>3. ASSUME NEW b \in Nat, b < z, g[b] # "none" PROVE \E i \in DOMAIN rs : Holds(rs[i], b)
    <3>1. b < a
      BY <2>3, <1>6
    <3> QED BY <3>1, <2>3 DEF Says
  <2> QED BY <2>1, <2>2, <2>3 DEF Says
<1>7. CASE g[a] # "none" /\ rs # <<>> /\ rs[Len(rs)].end = a /\ rs[Len(rs)].finality = g[a]
  <2>1. n \in 1..n /\ rs[Len(rs)] = rs[n]
    BY <1>1, <1>2, <1>7
  <2>2. new = [rs EXCEPT ![n].end = z]
    BY <1>7 DEF PushWindow
  <2>3. /\ DOMAIN new = 1..n /\ Len(new) = n
        /\ \A i \in 1..n : i # n => new[i] = rs[i]
        /\ new[n] = [rs[n] EXCEPT !.end = z]
    BY <1>1, <1>2, <2>1, <2>2
  <2>4. rs[n].end = a /\ rs[n].finality = g[a] /\ rs[n] \in Piece
    BY <1>7, <2>1, <1>1, <1>2, PieceFields
  <2>5. new[n].start = rs[n].start /\ new[n].end = z /\ new[n].finality = rs[n].finality
    BY <2>3, <2>4 DEF Piece
  <2> HIDE DEF new, n
  <2>6. \A i \in 1..n : /\ new[i].start = rs[i].start /\ new[i].finality = rs[i].finality
                        /\ i # n => new[i].end = rs[i].end
                        /\ new[i].start < new[i].end /\ new[i].end <= z
    <3> SUFFICES ASSUME NEW i \in 1..n
                 PROVE  /\ new[i].start = rs[i].start /\ new[i].finality = rs[i].finality
                        /\ i # n => new[i].end = rs[i].end
                        /\ new[i].start < new[i].end /\ new[i].end <= z
      OBVIOUS
    <3>1. rs[i].start \in Nat /\ rs[i].end \in Nat /\ rs[i].start < rs[i].end /\ rs[i].end <= a
      BY <1>3
    <3>2. CASE i = n
      BY <3>1, <3>2, <2>4, <2>5
    <3>3. CASE i # n
      BY <3>1, <3>3, <2>3
    <3> QED BY <3>2, <3>3
  <2>7. Canon(new)
    <3>1. ASSUME NEW i \in 1..n, NEW k \in 1..n, i < k PROVE new[i].end <= new[k].start
      BY <3>1, <2>6, <1>1, <1>2 DEF Canon
    <3>2. ASSUME NEW i \in 1..n, NEW k \in 1..n, k = i + 1, new[i].end = new[k].start
          PROVE  new[i].finality # new[k].finality
      <4>1. i # n
        BY <3>2, <1>2
      <4>2. i \in DOMAIN rs /\ k \in DOMAIN rs /\ rs[i].end = rs[k].start
        BY <3>2, <2>6, <1>2, <4>1, Zenon
      <4>3. rs[i].finality # rs[k].finality
        BY <3>2, <1>1, <4>2, Zenon DEF Canon
      <4> QED BY <2>6, <4>3, Zenon
    <3> QED BY <2>3, <2>6, <3>1, <3>2, <1>5 DEF Canon, new
  <2>8. ASSUME NEW i \in 1..n, NEW b \in Nat, Holds(new[i], b) PROVE g[b] = new[i].finality
    <3>1. CASE Holds(rs[i], b)
      BY <3>1, <2>6, <1>2 DEF Says
    <3>2. CASE ~Holds(rs[i], b)
      <4>1. i = n /\ a <= b /\ b < z
        BY <3>2, <2>8, <2>4, <2>5, <2>6, <1>3 DEF Holds
      <4> QED BY <4>1, <2>4, <2>5
    <3> QED BY <3>1, <3>2
  <2>9. ASSUME NEW b \in Nat, b < z, g[b] # "none" PROVE \E i \in 1..n : Holds(new[i], b)
    <3>1. CASE b < a
      <4>1. PICK i \in 1..n : Holds(rs[i], b)
        BY <3>1, <2>9, <1>2 DEF Says
      <4>2. Holds(new[i], b)
        BY <4>1, <2>5, <2>6, <1>3, <2>9 DEF Holds
      <4> QED BY <4>2
    <3>2. CASE a <= b
      <4>1. Holds(new[n], b)
        BY <3>2, <2>1, <2>4, <2>5, <1>3, <2>9 DEF Holds
      <4> QED BY <4>1, <2>1
    <3> QED BY <3>1, <3>2
  <2> QED BY <2>3, <2>6, <2>7, <2>8, <2>9 DEF Says, new
<1>8. CASE g[a] # "none" /\ ~(rs # <<>> /\ rs[Len(rs)].end = a /\ rs[Len(rs)].finality = g[a])
  <2> DEFINE row == [start |-> a, end |-> z, finality |-> g[a]]
  <2>1. new = Append(rs, row)
    BY <1>8 DEF PushWindow
  <2>2. row.start = a /\ row.end = z /\ row.finality = g[a]
    OBVIOUS
  <2>3. row \in Piece
    BY <1>8, <1>4 DEF Piece, Finality
  <2> HIDE DEF row
  <2>4. /\ DOMAIN new = 1..(n + 1) /\ Len(new) = n + 1
        /\ \A i \in 1..n : new[i] = rs[i]
        /\ new[n + 1] = row
    BY <1>1, <2>1, <2>3
  <2>5. \A i \in 1..(n + 1) : i = n + 1 \/ i \in 1..n
    BY <1>2
  <2>6. n + 1 \in 1..(n + 1)
    BY <1>2
  <2>7. n # 0 => n \in 1..n /\ (rs[n].end # a \/ rs[n].finality # g[a])
    <3>1. SUFFICES ASSUME n # 0 PROVE n \in 1..n /\ (rs[n].end # a \/ rs[n].finality # g[a])
      OBVIOUS
    <3>2. rs # <<>> /\ rs[Len(rs)] = rs[n]
      BY <3>1, <1>1
    <3> QED BY <3>1, <3>2, <1>8, <1>2
  <2> HIDE DEF new, n
  <2>8. \A i \in 1..(n + 1) : new[i].start < new[i].end /\ new[i].end <= z
    BY <2>2, <2>4, <2>5, <1>3
  <2>9. Canon(new)
    <3>1. ASSUME NEW i \in 1..(n + 1), NEW k \in 1..(n + 1), i < k
          PROVE  new[i].end <= new[k].start
      <4>1. i \in 1..n
        BY <3>1, <1>2
      <4>2. CASE k = n + 1
        BY <4>1, <4>2, <2>2, <2>4, <1>3
      <4>3. CASE k \in 1..n
        BY <3>1, <4>1, <4>3, <2>4, <1>1, <1>2 DEF Canon
      <4> QED BY <4>2, <4>3, <2>5
    <3>2. ASSUME NEW i \in 1..(n + 1), NEW k \in 1..(n + 1), k = i + 1, new[i].end = new[k].start
          PROVE  new[i].finality # new[k].finality
      <4>1. i \in 1..n
        BY <3>2, <1>2
      <4>2. CASE k = n + 1
        BY <3>2, <4>1, <4>2, <2>2, <2>4, <2>7, <1>2
      <4>3. CASE k \in 1..n
        <5>1. i \in DOMAIN rs /\ k \in DOMAIN rs /\ new[i] = rs[i] /\ new[k] = rs[k]
          BY <4>1, <4>3, <2>4, <1>2, Zenon
        <5> QED BY <3>2, <5>1, <1>1, Zenon DEF Canon
      <4> QED BY <4>2, <4>3, <2>5
    <3> QED BY <2>4, <2>8, <3>1, <3>2, <1>5 DEF Canon, new
  <2>10. ASSUME NEW i \in 1..(n + 1), NEW b \in Nat, Holds(new[i], b)
         PROVE  g[b] = new[i].finality
    <3>1. CASE i \in 1..n
      BY <3>1, <2>4, <2>10, <1>2 DEF Says
    <3>2. CASE i = n + 1
      BY <3>2, <2>2, <2>4, <2>10 DEF Holds
    <3> QED BY <3>1, <3>2, <2>5
  <2>11. ASSUME NEW b \in Nat, b < z, g[b] # "none" PROVE \E i \in 1..(n + 1) : Holds(new[i], b)
    <3>1. CASE b < a
      <4>1. PICK i \in 1..n : Holds(rs[i], b)
        BY <3>1, <2>11, <1>2 DEF Says
      <4>2. Holds(new[i], b) /\ i \in 1..(n + 1)
        BY <4>1, <2>4, <1>2
      <4> QED BY <4>2
    <3>2. CASE a <= b
      <4>1. Holds(new[n + 1], b)
        BY <3>2, <2>2, <2>4, <2>11 DEF Holds
      <4> QED BY <4>1, <2>6
    <3> QED BY <3>1, <3>2
  <2> QED BY <2>4, <2>8, <2>9, <2>10, <2>11 DEF Says, new
<1> QED BY <1>6, <1>7, <1>8

(* merge_spans keeps the rows canonical, and the merged rows give every     *)
(* block what the old rows and the new range together give it.              *)
THEOREM MergeSpansMerges ==
  ASSUME NEW rs \in Seq(Piece), NEW s \in Nat, NEW e \in Nat, NEW f \in {"safe", "finalized"}
  PROVE  /\ Canon(MergeSpans(rs, s, e, f))
         /\ \A b \in Nat : FinalityAt(MergeSpans(rs, s, e, f), b) = MergedAt(rs, s, e, f, b)
<1> DEFINE B == {s, e} \cup {rs[i].start : i \in DOMAIN rs} \cup {rs[i].end : i \in DOMAIN rs}
           bounds == Ascending(B)
           m == Cardinality(B)
           g == [b \in Nat |-> MergedAt(rs, s, e, f, b)]
<1>1. B \in SUBSET Nat /\ s \in B /\ e \in B
  BY PieceFields
<1>2. IsFiniteSet(B)
  <2>1. IsFiniteSet(DOMAIN rs)
    BY PieceFields, FS_Interval
  <2>2. IsFiniteSet({rs[i].start : i \in DOMAIN rs})
    <3> DEFINE u == [i \in DOMAIN rs |-> rs[i].start]
    <3>1. IsFiniteSet({u[i] : i \in DOMAIN rs})
      <4>1. DOMAIN u = DOMAIN rs
        OBVIOUS
      <4> HIDE DEF u
      <4> QED BY <2>1, <4>1, ImageFinite
    <3>2. {u[i] : i \in DOMAIN rs} = {rs[i].start : i \in DOMAIN rs}
      OBVIOUS
    <3> QED BY <3>1, <3>2
  <2>3. IsFiniteSet({rs[i].end : i \in DOMAIN rs})
    <3> DEFINE u == [i \in DOMAIN rs |-> rs[i].end]
    <3>1. IsFiniteSet({u[i] : i \in DOMAIN rs})
      <4>1. DOMAIN u = DOMAIN rs
        OBVIOUS
      <4> HIDE DEF u
      <4> QED BY <2>1, <4>1, ImageFinite
    <3>2. {u[i] : i \in DOMAIN rs} = {rs[i].end : i \in DOMAIN rs}
      OBVIOUS
    <3> QED BY <3>1, <3>2
  <2>4. IsFiniteSet({s, e})
    <3>1. IsFiniteSet({s} \cup {e})
      BY FS_Singleton, FS_AddElement
    <3>2. {s} \cup {e} = {s, e}
      OBVIOUS
    <3> QED BY <3>1, <3>2
  <2> QED BY <2>2, <2>3, <2>4, FS_Union
<1>3. /\ m \in Nat /\ bounds \in [1..m -> B] /\ Len(bounds) = m
      /\ \A i, k \in 1..m : i < k => bounds[i] < bounds[k]
      /\ \A x \in B : \E i \in 1..m : bounds[i] = x
      /\ \A i \in 1..(m - 1) : \A x \in B : x <= bounds[i] \/ bounds[i + 1] <= x
  BY <1>1, <1>2, AscendingIs
<1>4. m # 0 /\ m - 1 \in Nat
  BY <1>1, <1>3
<1>5. \A i \in 1..m : bounds[i] \in Nat
  BY <1>1, <1>3
<1>6. \A i \in DOMAIN rs : rs[i].start \in B /\ rs[i].end \in B
  OBVIOUS
<1>7. g \in [Nat -> Finality]
  BY MergedType
<1>8. \A b \in Nat : g[b] = MergedAt(rs, s, e, f, b)
  OBVIOUS
<1> DEFINE Eq(h) == h = [i \in 0..(m - 1) |->
             IF i = 0 THEN <<>>
             ELSE PushWindow(h[i - 1], bounds[i], bounds[i + 1],
                             MergedAt(rs, s, e, f, bounds[i]))]
           out == CHOOSE h : Eq(h)
<1>9. MergeSpans(rs, s, e, f) = out[m - 1]
  BY <1>3 DEF MergeSpans
<1> HIDE DEF B, bounds, m, g
<1>10. Eq(out)
  <2> DEFINE step == [i \in 1..(m - 1) |-> [x \in Seq(Piece) |->
                        PushWindow(x, bounds[i], bounds[i + 1],
                                   MergedAt(rs, s, e, f, bounds[i]))]]
  <2>1. \A i \in 1..(m - 1) : i \in 1..m /\ i + 1 \in 1..m
    BY <1>3
  <2>2. ASSUME NEW i \in 1..(m - 1), NEW x \in Seq(Piece)
        PROVE  PushWindow(x, bounds[i], bounds[i + 1], MergedAt(rs, s, e, f, bounds[i]))
                 \in Seq(Piece)
    BY <2>1, <1>5, MergedType, PushWindowType
  <2>3. step \in [1..(m - 1) -> [Seq(Piece) -> Seq(Piece)]]
    BY <2>2
  <2>4. <<>> \in Seq(Piece)
    OBVIOUS
  <2>5. PICK h : Iterates(h, m - 1, Seq(Piece), <<>>, step)
    <3>1. step \in Rounds(m - 1, Seq(Piece))
      BY <2>3 DEF Rounds
    <3> HIDE DEF step
    <3> QED BY <1>4, <2>4, <3>1, LoopExists
  <2>6. ASSUME NEW i \in 0..(m - 1)
        PROVE  h[i] = IF i = 0 THEN <<>>
                      ELSE PushWindow(h[i - 1], bounds[i], bounds[i + 1],
                                      MergedAt(rs, s, e, f, bounds[i]))
    <3>1. CASE i = 0
      BY <3>1, <2>5 DEF Iterates
    <3>2. CASE i # 0
      <4>1. i \in 1..(m - 1) /\ i - 1 \in 0..(m - 1)
        BY <3>2, <1>4
      <4>2. h[i - 1] \in Seq(Piece)
        BY <4>1, <2>5 DEF Iterates
      <4> QED BY <3>2, <4>1, <4>2, <2>5 DEF Iterates
    <3> QED BY <3>1, <3>2
  <2>7. Eq(h)
    BY <2>5, <2>6 DEF Iterates
  <2> HIDE DEF Eq
  <2> QED BY <2>7
<1>11. /\ out[0] = <<>>
       /\ \A i \in 1..(m - 1) :
            out[i] = PushWindow(out[i - 1], bounds[i], bounds[i + 1], g[bounds[i]])
  <2> HIDE DEF out
  <2>1. out[0] = <<>>
    BY <1>4, <1>10
  <2>2. ASSUME NEW i \in 1..(m - 1)
        PROVE  out[i] = PushWindow(out[i - 1], bounds[i], bounds[i + 1], g[bounds[i]])
    <3>1. i \in 0..(m - 1) /\ i # 0 /\ i \in 1..m
      BY <1>3, <1>4
    <3>2. g[bounds[i]] = MergedAt(rs, s, e, f, bounds[i])
      BY <3>1, <1>5, <1>8
    <3> QED BY <3>1, <3>2, <1>10
  <2> QED BY <2>1, <2>2
<1> HIDE DEF out, Eq
<1> DEFINE Good == [i \in 0..(m - 1) |-> {x \in Seq(Piece) : Says(x, bounds[i + 1], g)}]
<1>12. out[0] \in Good[0]
  <2>1. ASSUME NEW b \in Nat, b < bounds[1] PROVE g[b] = "none"
    <3>1. \A x \in B : b < x
      <4> SUFFICES ASSUME NEW x \in B PROVE b < x
        OBVIOUS
      <4>1. PICK k \in 1..m : bounds[k] = x
        BY <1>3
      <4>2. 1 \in 1..m /\ (k = 1 \/ 1 < k)
        BY <1>4, <1>3
      <4>3. bounds[1] <= bounds[k]
        BY <4>2, <1>3, <1>5
      <4> QED BY <4>1, <4>2, <4>3, <2>1, <1>5
    <3>2. ~(s <= b)
      BY <3>1, <1>1
    <3>3. \A i \in DOMAIN rs : ~Holds(rs[i], b)
      BY <3>1, <1>6, PieceFields DEF Holds
    <3>4. FinalityAt(rs, b) = "none"
      BY <3>3, FinalityOutside
    <3> QED BY <3>2, <3>4, <1>8 DEF MergedAt
  <2>2. Says(<<>>, bounds[1], g)
    BY <2>1 DEF Says, Canon
  <2> QED BY <2>2, <1>4, <1>11
<1>13. ASSUME NEW i \in 1..(m - 1), out[i - 1] \in Good[i - 1] PROVE out[i] \in Good[i]
  <2>1. i - 1 \in 0..(m - 1) /\ i \in 0..(m - 1) /\ i \in 1..m /\ i + 1 \in 1..m /\ i - 1 + 1 = i
    BY <1>3, <1>4
  <2>2. Says(out[i - 1], bounds[i], g)
    BY <1>13, <2>1
  <2>3. bounds[i] \in Nat /\ bounds[i + 1] \in Nat /\ bounds[i] < bounds[i + 1]
    BY <2>1, <1>3, <1>5
  <2>4. ASSUME NEW b \in Nat, bounds[i] <= b, b < bounds[i + 1] PROVE g[b] = g[bounds[i]]
    <3>1. \A x \in B : x <= bounds[i] \/ bounds[i + 1] <= x
      BY <1>3
    <3>2. MergedAt(rs, s, e, f, b) = MergedAt(rs, s, e, f, bounds[i])
      <4> DEFINE a == bounds[i]
                 z == bounds[i + 1]
      <4>1. a \in Nat /\ z \in Nat /\ a <= b /\ b < z
        BY <2>3, <2>4
      <4>2. (s <= a \/ z <= s) /\ (e <= a \/ z <= e)
        BY <3>1, <1>1
      <4>3. \A j \in DOMAIN rs : /\ rs[j].start <= a \/ z <= rs[j].start
                                 /\ rs[j].end <= a \/ z <= rs[j].end
        BY <3>1, <1>6
      <4> HIDE DEF a, z
      <4>4. MergedAt(rs, s, e, f, b) = MergedAt(rs, s, e, f, a)
        BY <4>1, <4>2, <4>3, WindowUniform
      <4> QED BY <4>4 DEF a
    <3> QED BY <3>2, <2>3, <1>8
  <2>5. Says(out[i], bounds[i + 1], g)
    <3> DEFINE a == bounds[i]
               z == bounds[i + 1]
               x == out[i - 1]
    <3>1. out[i] = PushWindow(x, a, z, g[a])
      BY <1>11
    <3>2. a \in Nat /\ z \in Nat /\ a < z /\ Says(x, a, g)
      BY <2>2, <2>3
    <3>3. \A b \in Nat : a <= b /\ b < z => g[b] = g[a]
      BY <2>4
    <3> HIDE DEF a, z, x
    <3>4. Says(PushWindow(x, a, z, g[a]), z, g)
      BY <3>2, <3>3, <1>7, PushWindowSays
    <3> QED BY <3>1, <3>4 DEF z
  <2>6. out[i] \in Seq(Piece)
    BY <2>5 DEF Says, Canon
  <2> QED BY <2>1, <2>5, <2>6
<1>14. Says(out[m - 1], bounds[m], g)
  <2>1. out[m - 1] \in Good[m - 1]
    <3> DEFINE n == m - 1
    <3>1. n \in Nat /\ \A i \in 1..n : out[i - 1] \in Good[i - 1] => out[i] \in Good[i]
      BY <1>4, <1>13
    <3> HIDE DEF Good, n
    <3>2. \A i \in 0..n : out[i] \in Good[i]
      BY <3>1, <1>12, LoopInvariant
    <3>3. n \in 0..n
      BY <3>1
    <3> QED BY <3>2, <3>3 DEF n
  <2> QED BY <2>1, <1>4
<1>15. ASSUME NEW b \in Nat PROVE FinalityAt(out[m - 1], b) = g[b]
  <2>1. Canon(out[m - 1]) /\ out[m - 1] \in Seq(Piece)
    BY <1>14 DEF Says, Canon
  <2>2. CASE \E i \in DOMAIN out[m - 1] : Holds(out[m - 1][i], b)
    BY <2>1, <2>2, <1>14, FinalityOfRow DEF Says
  <2>3. CASE ~\E i \in DOMAIN out[m - 1] : Holds(out[m - 1][i], b)
    <3>1. FinalityAt(out[m - 1], b) = "none"
      BY <2>3, FinalityOutside
    <3>2. CASE b < bounds[m]
      BY <3>1, <3>2, <2>3, <1>14 DEF Says
    <3>3. CASE ~(b < bounds[m])
      <4>1. \A x \in B : x <= b
        <5> SUFFICES ASSUME NEW x \in B PROVE x <= b
          OBVIOUS
        <5>1. PICK k \in 1..m : bounds[k] = x
          BY <1>3
        <5>2. m \in 1..m /\ (k = m \/ k < m)
          BY <1>4, <1>3
        <5>3. bounds[k] <= bounds[m]
          BY <5>2, <1>3, <1>5
        <5> QED BY <5>1, <5>2, <5>3, <3>3, <1>5
      <4>2. ~(b < e)
        BY <4>1, <1>1
      <4>3. \A i \in DOMAIN rs : ~Holds(rs[i], b)
        BY <4>1, <1>6, PieceFields DEF Holds
      <4>4. FinalityAt(rs, b) = "none"
        BY <4>3, FinalityOutside
      <4> QED BY <3>1, <4>2, <4>4, <1>8 DEF MergedAt
    <3> QED BY <3>2, <3>3
  <2> QED BY <2>2, <2>3
<1> QED BY <1>8, <1>9, <1>14, <1>15 DEF Says

-----------------------------------------------------------------------------
(* The rows under adds and moving heads *)

(* Published heads never pass what some tick has read. *)
HeadsOrdered ==
  /\ read \in [safe : Block, finalized : Block] /\ heads \in [safe : Block, finalized : Block]
  /\ read.finalized <= read.safe
  /\ heads.safe <= read.safe /\ heads.finalized <= read.finalized

(* The inductive invariant: canonical rows that claim nothing the heads     *)
(* read so far do not allow, over heads that are in order.                  *)
CoverageInv == HeadsOrdered /\ Canon(spans) /\ CoverageWithinRead

LEMMA HeadsNat ==
  ASSUME HeadsOrdered
  PROVE  /\ read.safe \in Nat /\ read.finalized \in Nat
         /\ read.safe <= MaxEnd /\ read.finalized <= MaxEnd
         /\ heads.safe \in Nat /\ heads.finalized \in Nat
BY BlockPlanAssumption DEF HeadsOrdered, Block

(* A row is within the heads when its blocks are. *)
LEMMA WithinByBlock ==
  ASSUME NEW rs, Canon(rs), NEW safe \in Nat, NEW finalized \in Nat
  PROVE  (\A i \in DOMAIN rs :
            rs[i].end - 1 <= (IF rs[i].finality = "finalized" THEN finalized ELSE safe))
         <=> (\A b \in Nat :
                /\ FinalityAt(rs, b) = "finalized" => b <= finalized
                /\ FinalityAt(rs, b) = "safe" => b <= safe)
<1>1. rs \in Seq(Piece)
  BY DEF Canon
<1>2. ASSUME \A i \in DOMAIN rs :
               rs[i].end - 1 <= (IF rs[i].finality = "finalized" THEN finalized ELSE safe),
             NEW b \in Nat
      PROVE  /\ FinalityAt(rs, b) = "finalized" => b <= finalized
             /\ FinalityAt(rs, b) = "safe" => b <= safe
  <2>1. CASE \E i \in DOMAIN rs : Holds(rs[i], b)
    <3>1. PICK i \in DOMAIN rs : Holds(rs[i], b)
      BY <2>1
    <3>2. FinalityAt(rs, b) = rs[i].finality
      BY <3>1, FinalityOfRow
    <3>3. b <= rs[i].end - 1
      BY <3>1, <1>1, PieceFields DEF Holds
    <3>4. rs[i].end - 1 <= (IF rs[i].finality = "finalized" THEN finalized ELSE safe)
      BY <1>2
    <3>5. rs[i].end \in Nat
      BY <1>1, PieceFields
    <3> QED BY <3>2, <3>3, <3>4, <3>5
  <2>2. CASE ~\E i \in DOMAIN rs : Holds(rs[i], b)
    BY <2>2, FinalityOutside
  <2> QED BY <2>1, <2>2
<1>3. ASSUME \A b \in Nat : /\ FinalityAt(rs, b) = "finalized" => b <= finalized
                            /\ FinalityAt(rs, b) = "safe" => b <= safe,
             NEW i \in DOMAIN rs
      PROVE  rs[i].end - 1 <= (IF rs[i].finality = "finalized" THEN finalized ELSE safe)
  <2>1. /\ rs[i].start \in Nat /\ rs[i].end \in Nat /\ rs[i].start < rs[i].end
        /\ rs[i].finality \in {"safe", "finalized"}
    BY <1>1, PieceFields DEF Canon
  <2>2. rs[i].end - 1 \in Nat /\ Holds(rs[i], rs[i].end - 1)
    BY <2>1 DEF Holds
  <2>3. FinalityAt(rs, rs[i].end - 1) = rs[i].finality
    BY <2>2, FinalityOfRow
  <2> QED BY <2>1, <2>2, <2>3, <1>3
<1> QED BY <1>2, <1>3

LEMMA AddKeepsInv ==
  ASSUME CoverageInv, NEW range \in Ranges, NEW f \in {"safe", "finalized"},
         range.end <= (IF f = "finalized" THEN read.finalized ELSE read.safe),
         AddCoverage(range, f)
  PROVE  CoverageInv'
<1> DEFINE old(b) == FinalityAt(spans, b)
           new(b) == FinalityAt(spans', b)
<1>1. range.start \in Nat /\ range.end \in Nat /\ range.end + 1 \in Nat
  BY RangesType
<1>2. read' = read /\ heads' = heads /\ spans' = MergeSpans(spans, range.start, range.end + 1, f)
  BY DEF AddCoverage
<1>3. Canon(spans) /\ spans \in Seq(Piece)
  BY DEF CoverageInv, Canon
<1>4. Canon(spans')
  BY <1>1, <1>2, <1>3, MergeSpansMerges
<1>5. \A b \in Nat : new(b) = MergedAt(spans, range.start, range.end + 1, f, b)
  BY <1>1, <1>2, <1>3, MergeSpansMerges
<1>6. read.safe \in Nat /\ read.finalized \in Nat /\ read.finalized <= read.safe
  BY HeadsNat DEF CoverageInv, HeadsOrdered
<1>7. \A b \in Nat : /\ old(b) = "finalized" => b <= read.finalized
                     /\ old(b) = "safe" => b <= read.safe
  BY <1>3, <1>6, WithinByBlock DEF CoverageInv, CoverageWithinRead
<1>8. ASSUME NEW b \in Nat
      PROVE  /\ new(b) = "finalized" => b <= read.finalized
             /\ new(b) = "safe" => b <= read.safe
  <2>1. new(b) = MergedAt(spans, range.start, range.end + 1, f, b)
    BY <1>5
  <2>2. CASE range.start <= b /\ b < range.end + 1
    <3>1. new(b) = Stronger(old(b), f)
      BY <2>1, <2>2 DEF MergedAt
    <3>2. old(b) \in Finality
      BY <1>3, FinalityType
    <3>3. b <= range.end
      BY <2>2, <1>1
    <3>4. ASSUME new(b) = "finalized" PROVE b <= read.finalized
      <4>1. old(b) = "finalized" \/ f = "finalized"
        <5>1. f \in Finality
          BY DEF Finality
        <5>2. Stronger(old(b), f) = "finalized"
          BY <3>1, <3>4
        <5> HIDE DEF old, new
        <5> QED BY <5>1, <5>2, <3>2, StrongerType
      <4> QED BY <4>1, <3>3, <1>1, <1>6, <1>7
    <3> HIDE DEF old, new
    <3>5. b <= read.safe
      BY <3>3, <1>1, <1>6
    <3> QED BY <3>4, <3>5
  <2>3. CASE ~(range.start <= b /\ b < range.end + 1)
    <3>1. new(b) = old(b)
      BY <2>1, <2>3 DEF MergedAt
    <3> QED BY <3>1, <1>7
  <2> QED BY <2>2, <2>3
<1>9. CoverageWithinRead'
  BY <1>2, <1>4, <1>6, <1>8, WithinByBlock DEF CoverageWithinRead
<1>10. HeadsOrdered'
  BY <1>2 DEF CoverageInv, HeadsOrdered
<1> QED BY <1>4, <1>9, <1>10 DEF CoverageInv

(* Every fill and promotion adds a range that the heads read allow. *)
LEMMA FillAdds ==
  ASSUME CoverageInv, NEW chunk \in Ranges, NEW range \in Ranges, range.end <= heads.safe,
         NEW finalized \in 0..heads.finalized, Fill(chunk, range, finalized)
  PROVE  \E f \in {"safe", "finalized"} :
           /\ range.end <= (IF f = "finalized" THEN read.finalized ELSE read.safe)
           /\ AddCoverage(range, f)
<1> DEFINE h == [heads EXCEPT !.finalized = finalized]
           f == FillFinality(chunk, h)
<1>1. /\ heads.safe \in Nat /\ heads.finalized \in Nat /\ finalized <= heads.finalized
      /\ read.safe \in Nat /\ read.finalized \in Nat
      /\ heads.safe <= read.safe /\ heads.finalized <= read.finalized
  BY HeadsNat DEF CoverageInv, HeadsOrdered
<1>2. h.finalized = finalized
  BY DEF CoverageInv, HeadsOrdered
<1>3. /\ range.start \in Nat /\ range.end \in Nat /\ range.start <= range.end
      /\ chunk.start \in Nat /\ chunk.end \in Nat
  BY RangesType
<1>4. range.end <= chunk.end
  <2>1. range.end \in BlocksOf(chunk)
    BY <1>3 DEF Fill, BlocksOf
  <2> QED BY <2>1, <1>3 DEF BlocksOf
<1>5. f \in {"safe", "finalized"} /\ (f = "finalized" => chunk.end <= finalized)
  BY <1>2 DEF FillFinality
<1>6. AddCoverage(range, f)
  BY DEF Fill
<1> HIDE DEF f
<1>7. range.end <= (IF f = "finalized" THEN read.finalized ELSE read.safe)
  BY <1>1, <1>3, <1>4, <1>5
<1> QED BY <1>5, <1>6, <1>7

(* Every other step leaves the rows alone. *)
LEMMA StepAdds ==
  ASSUME CoverageInv, Next
  PROVE  \/ \E range \in Ranges, f \in {"safe", "finalized"} :
              /\ range.end <= (IF f = "finalized" THEN read.finalized ELSE read.safe)
              /\ AddCoverage(range, f)
         \/ \E safe, finalized \in Block : ReadHeads(safe, finalized) \/ Publish(safe, finalized)
<1>1. ASSUME NEW chunk \in {r \in Ranges : r.end <= heads.safe},
             NEW range \in {r \in Ranges : r.end <= heads.safe},
             NEW finalized \in 0..heads.finalized, Fill(chunk, range, finalized)
      PROVE  \E r \in Ranges, f \in {"safe", "finalized"} :
               /\ r.end <= (IF f = "finalized" THEN read.finalized ELSE read.safe)
               /\ AddCoverage(r, f)
  <2>1. chunk \in Ranges /\ range \in Ranges /\ range.end <= heads.safe
    OBVIOUS
  <2> QED BY <1>1, <2>1, FillAdds
<1>2. ASSUME NEW range \in Ranges, NEW f \in {"safe", "finalized"}, Promote(range, f)
      PROVE  \E r \in Ranges, g \in {"safe", "finalized"} :
               /\ r.end <= (IF g = "finalized" THEN read.finalized ELSE read.safe)
               /\ AddCoverage(r, g)
  BY <1>2 DEF Promote
<1> QED BY <1>1, <1>2 DEF Next

LEMMA GreatestIs ==
  ASSUME NEW a \in Nat, NEW b \in Nat
  PROVE  /\ Greatest(a, b) \in {a, b}
         /\ a <= Greatest(a, b) /\ b <= Greatest(a, b)
BY DEF Greatest

(* A tick that reads heads only raises what was read. *)
LEMMA ReadKeepsInv ==
  ASSUME CoverageInv, NEW safe \in Block, NEW finalized \in Block, ReadHeads(safe, finalized)
  PROVE  CoverageInv'
<1>1. /\ spans' = spans /\ heads' = heads /\ finalized <= safe
      /\ read' = Raised(read, safe, finalized)
  BY DEF ReadHeads
<1>2. /\ read'.safe = Greatest(read.safe, safe)
      /\ read'.finalized = Greatest(read.finalized, finalized)
      /\ read' = [safe |-> read'.safe, finalized |-> read'.finalized]
  BY <1>1 DEF Raised
<1>3. /\ read.safe \in Nat /\ read.finalized \in Nat /\ heads.safe \in Nat
      /\ heads.finalized \in Nat /\ safe \in Nat /\ finalized \in Nat
      /\ read.finalized <= read.safe
      /\ heads.safe <= read.safe /\ heads.finalized <= read.finalized
  BY HeadsNat, BlockPlanAssumption DEF CoverageInv, HeadsOrdered, Block
<1>4. /\ read'.safe \in {read.safe, safe} /\ read'.finalized \in {read.finalized, finalized}
      /\ read.safe <= read'.safe /\ read.finalized <= read'.finalized
      /\ safe <= read'.safe
  BY <1>2, <1>3, GreatestIs
<1>5. read'.safe \in Nat /\ read'.finalized \in Nat
  BY <1>3, <1>4
<1>6. HeadsOrdered'
  <2>1. read'.safe \in Block /\ read'.finalized \in Block
    BY <1>4 DEF CoverageInv, HeadsOrdered
  <2>2. read' \in [safe : Block, finalized : Block]
    BY <1>2, <2>1
  <2>3. read'.finalized <= read'.safe
    BY <1>1, <1>3, <1>4, <1>5
  <2>4. heads'.safe <= read'.safe /\ heads'.finalized <= read'.finalized
    BY <1>1, <1>3, <1>4, <1>5
  <2>5. heads' \in [safe : Block, finalized : Block]
    BY <1>1 DEF CoverageInv, HeadsOrdered
  <2> QED BY <2>2, <2>3, <2>4, <2>5 DEF HeadsOrdered
<1>7. CoverageWithinRead'
  <2>1. spans \in Seq(Piece)
    BY DEF CoverageInv, Canon
  <2>2. ASSUME NEW i \in DOMAIN spans
        PROVE  spans[i].end - 1
                 <= (IF spans[i].finality = "finalized" THEN read'.finalized ELSE read'.safe)
    <3>1. spans[i].end \in Nat
      BY <2>1, PieceFields
    <3>2. spans[i].end - 1
            <= (IF spans[i].finality = "finalized" THEN read.finalized ELSE read.safe)
      BY DEF CoverageInv, CoverageWithinRead
    <3> QED BY <1>3, <1>4, <1>5, <3>1, <3>2
  <2> QED BY <1>1, <2>2 DEF CoverageWithinRead
<1>8. Canon(spans')
  BY <1>1 DEF CoverageInv
<1> QED BY <1>6, <1>7, <1>8 DEF CoverageInv

(* What is published was read before. *)
LEMMA PublishKeepsInv ==
  ASSUME CoverageInv, NEW safe \in Block, NEW finalized \in Block, Publish(safe, finalized)
  PROVE  CoverageInv'
<1>1. /\ spans' = spans /\ read' = read
      /\ heads' = Raised(heads, safe, finalized)
      /\ safe <= read.safe /\ finalized <= read.finalized
  BY DEF Publish
<1>2. /\ heads'.safe = Greatest(heads.safe, safe)
      /\ heads'.finalized = Greatest(heads.finalized, finalized)
      /\ heads' = [safe |-> heads'.safe, finalized |-> heads'.finalized]
  BY <1>1 DEF Raised
<1>3. /\ heads.safe \in Nat /\ heads.finalized \in Nat /\ safe \in Nat /\ finalized \in Nat
      /\ heads.safe <= read.safe /\ heads.finalized <= read.finalized
  BY HeadsNat, BlockPlanAssumption DEF CoverageInv, HeadsOrdered, Block
<1>4. heads'.safe \in {heads.safe, safe} /\ heads'.finalized \in {heads.finalized, finalized}
  BY <1>2, <1>3, GreatestIs
<1>5. HeadsOrdered'
  <2>1. heads'.safe \in Block /\ heads'.finalized \in Block
    BY <1>4 DEF CoverageInv, HeadsOrdered
  <2>2. heads' \in [safe : Block, finalized : Block]
    BY <1>2, <2>1
  <2>3. heads'.safe <= read.safe /\ heads'.finalized <= read.finalized
    BY <1>1, <1>3, <1>4
  <2> QED BY <1>1, <2>2, <2>3 DEF CoverageInv, HeadsOrdered
<1>6. Canon(spans') /\ CoverageWithinRead'
  BY <1>1 DEF CoverageInv, CoverageWithinRead
<1> QED BY <1>5, <1>6 DEF CoverageInv

LEMMA CoverageInvHolds == Spec => []CoverageInv
<1>1. Init => CoverageInv
  <2> SUFFICES ASSUME Init PROVE CoverageInv
    OBVIOUS
  <2>1. Canon(<<>>)
    BY DEF Canon
  <2> QED BY <2>1, BlockPlanAssumption
          DEF Init, NoHeads, CoverageInv, HeadsOrdered, CoverageWithinRead, Block
<1>2. CoverageInv /\ [Next]_vars => CoverageInv'
  <2> SUFFICES ASSUME CoverageInv, [Next]_vars PROVE CoverageInv'
    OBVIOUS
  <2>1. CASE UNCHANGED vars
    BY <2>1 DEF vars, CoverageInv, HeadsOrdered, CoverageWithinRead
  <2> QED BY <2>1, StepAdds, AddKeepsInv, ReadKeepsInv, PublishKeepsInv
<1> QED BY <1>1, <1>2, PTL DEF Spec

(* No sequence of adds makes rows overlap or leaves two that could be one:  *)
(* the exclusion constraint of the coverage table is never violated.        *)
THEOREM SpansStayCanonical == Spec => []SpansCanonical
<1>1. CoverageInv => SpansCanonical
  <2> SUFFICES ASSUME CoverageInv PROVE SpansCanonical
    OBVIOUS
  <2>1. spans \in Seq(Piece) /\ Canon(spans)
    BY DEF CoverageInv, Canon
  <2>2. /\ DOMAIN spans = 1..Len(spans) /\ Len(spans) \in Nat
        /\ \A i \in DOMAIN spans : /\ spans[i] \in Piece
                                   /\ spans[i].start \in Nat /\ spans[i].end \in Nat
                                   /\ spans[i].finality \in {"safe", "finalized"}
                                   /\ spans[i].start < spans[i].end
    BY <2>1, PieceFields DEF Canon
  <2>3. ASSUME NEW i \in DOMAIN spans PROVE spans[i] \in Span
    <3>1. spans[i].end - 1 <= MaxEnd
      <4>1. /\ read.safe \in Nat /\ read.finalized \in Nat
            /\ read.safe <= MaxEnd /\ read.finalized <= MaxEnd
        BY HeadsNat DEF CoverageInv
      <4>2. spans[i].end - 1
              <= (IF spans[i].finality = "finalized" THEN read.finalized ELSE read.safe)
        BY DEF CoverageInv, CoverageWithinRead
      <4> QED BY <4>1, <4>2, <2>2, BlockPlanAssumption
    <3>2. spans[i].start \in 0..(MaxEnd + 1) /\ spans[i].end \in 0..(MaxEnd + 1)
      BY <3>1, <2>2, BlockPlanAssumption
    <3>3. spans[i] = [start |-> spans[i].start, end |-> spans[i].end,
                      finality |-> spans[i].finality]
      BY <2>2 DEF Piece
    <3> QED BY <3>2, <3>3, <2>2 DEF Span
  <2>4. spans \in Seq(Span)
    <3>1. spans \in [1..Len(spans) -> Span]
      BY <2>1, <2>2, <2>3
    <3> QED BY <3>1, <2>2
  <2>5. ASSUME NEW i \in 1..(Len(spans) - 1)
        PROVE  \/ spans[i].end < spans[i + 1].start
               \/ spans[i].end = spans[i + 1].start /\ spans[i].finality # spans[i + 1].finality
    <3>1. i \in DOMAIN spans /\ i + 1 \in DOMAIN spans /\ i < i + 1
      BY <2>2
    <3>2. spans[i].end <= spans[i + 1].start
      BY <3>1, <2>1 DEF Canon
    <3>3. spans[i].end = spans[i + 1].start => spans[i].finality # spans[i + 1].finality
      BY <3>1, <2>1 DEF Canon
    <3> QED BY <3>1, <3>2, <3>3, <2>2
  <2> QED BY <2>2, <2>4, <2>5 DEF SpansCanonical
<1> QED BY <1>1, CoverageInvHolds, PTL

(* Coverage never claims a block above the highest safe head that a tick    *)
(* has read, nor finality above the highest finalized one, although fills   *)
(* decide on published heads that may be stale and promotions run before    *)
(* the heads they use are published.                                        *)
THEOREM CoverageStaysWithinRead == Spec => []CoverageWithinRead
<1>1. CoverageInv => CoverageWithinRead
  BY DEF CoverageInv
<1> QED BY <1>1, CoverageInvHolds, PTL

(* The rows implement the timeline: every add raises the blocks of its      *)
(* range and changes no other, so coverage is never lost or downgraded.     *)
THEOREM RowsImplementTimeline == Spec => TimelineSpec
<1> DEFINE line == [b \in Block |-> FinalityAt(spans, b)]
<1>1. Init => Timeline!Init
  <2> SUFFICES ASSUME Init PROVE Timeline!Init
    OBVIOUS
  <2>1. \A b : FinalityAt(<<>>, b) = "none"
    BY FinalityOutside
  <2> QED BY <2>1 DEF Init, Timeline!Init
<1>2. CoverageInv /\ [Next]_vars => [Timeline!Next]_line
  <2> SUFFICES ASSUME CoverageInv, [Next]_vars PROVE [Timeline!Next]_line
    OBVIOUS
  <2>1. ASSUME NEW range \in Ranges, NEW f \in {"safe", "finalized"}, AddCoverage(range, f)
        PROVE  Timeline!Next
    <3>1. range.start \in Nat /\ range.end \in Nat /\ range.end + 1 \in Nat
      BY RangesType
    <3>2. spans \in Seq(Piece)
      BY DEF CoverageInv, Canon
    <3>3. \A b \in Nat : FinalityAt(spans', b)
                           = MergedAt(spans, range.start, range.end + 1, f, b)
      BY <2>1, <3>1, <3>2, MergeSpansMerges DEF AddCoverage
    <3>4. ASSUME NEW b \in Block
          PROVE  FinalityAt(spans', b) = IF b \in BlocksOf(range)
                                         THEN Timeline!Stronger(line[b], f) ELSE line[b]
      <4>1. b \in Nat
        BY BlockPlanAssumption DEF Block
      <4>2. b \in BlocksOf(range) <=> range.start <= b /\ b < range.end + 1
        BY <3>1, <4>1 DEF BlocksOf
      <4>3. \A x, y : Timeline!Stronger(x, y) = Stronger(x, y)
        BY DEF Timeline!Stronger, Stronger
      <4> QED BY <3>3, <4>1, <4>2, <4>3 DEF MergedAt
    <3>5. line' = [b \in Block |-> IF b \in BlocksOf(range)
                                   THEN Timeline!Stronger(line[b], f) ELSE line[b]]
      BY <3>4
    <3>6. Timeline!Add(BlocksOf(range), f)
      BY <3>5 DEF Timeline!Add
    <3> QED BY <3>6 DEF Timeline!Next
  <2>2. ASSUME NEW safe \in Block, NEW finalized \in Block,
               ReadHeads(safe, finalized) \/ Publish(safe, finalized)
        PROVE  line' = line
    BY <2>2 DEF ReadHeads, Publish
  <2>3. CASE UNCHANGED vars
    BY <2>3 DEF vars
  <2> QED BY <2>1, <2>2, <2>3, StepAdds
<1> QED BY <1>1, <1>2, CoverageInvHolds, PTL DEF Spec, TimelineSpec, Timeline!Spec

-----------------------------------------------------------------------------
(* The answer's segments *)

(* An answer's segments partition the served range and each block has the   *)
(* finality of its segment, whatever range below safe is served.            *)
THEOREM SegmentsAlwaysPartition == Spec => []SegmentsPartition
<1>1. CoverageInv => SegmentsPartition
  <2> SUFFICES ASSUME CoverageInv, NEW served \in Ranges, served.end <= heads.safe
               PROVE  LET segments == DurableSegments(served, heads)
                      IN /\ \A b \in BlocksOf(served) :
                              Cardinality({i \in DOMAIN segments : b \in BlocksOf(segments[i])}) = 1
                         /\ \A i \in DOMAIN segments : \A b \in BlocksOf(segments[i]) :
                              b \in BlocksOf(served) /\ segments[i].finality = RowFinality(b, heads)
    BY DEF SegmentsPartition
  <2> DEFINE segments == DurableSegments(served, heads)
             s == served.start
             e == served.end
             F == heads.finalized
             low == Segment(s, Least(e, F), "finalized")
             high == Segment(Greatest(s, F + 1), e, "safe")
  <2>1. s \in Nat /\ e \in Nat /\ s <= e /\ F \in Nat /\ heads.safe \in Nat
    BY RangesType, BlockPlanAssumption DEF CoverageInv, HeadsOrdered, Block
  <2>2. /\ BlocksOf(low) = s..Least(e, F) /\ low.finality = "finalized"
        /\ BlocksOf(high) = Greatest(s, F + 1)..e /\ high.finality = "safe"
        /\ BlocksOf(served) = s..e
    BY DEF Segment, BlocksOf
  <2> DEFINE Once(segs) ==
               /\ \A b \in BlocksOf(served) :
                    \E k \in DOMAIN segs : {i \in DOMAIN segs : b \in BlocksOf(segs[i])} = {k}
               /\ \A i \in DOMAIN segs : \A b \in BlocksOf(segs[i]) :
                    b \in BlocksOf(served) /\ segs[i].finality = RowFinality(b, heads)
  <2>3. ASSUME NEW b \in BlocksOf(low), s <= F
        PROVE  b \in BlocksOf(served) /\ b <= F /\ low.finality = RowFinality(b, heads)
    BY <2>1, <2>2, <2>3 DEF Least, RowFinality
  <2>4. ASSUME NEW b \in BlocksOf(high), F < e
        PROVE  b \in BlocksOf(served) /\ F < b /\ high.finality = RowFinality(b, heads)
    BY <2>1, <2>2, <2>4 DEF Greatest, RowFinality
  <2>5. ASSUME NEW b \in BlocksOf(served)
        PROVE  /\ b <= F => b \in BlocksOf(low)
               /\ F < b => b \in BlocksOf(high)
               /\ b \in Int /\ s <= b /\ b <= e
    BY <2>1, <2>2 DEF Least, Greatest
  <2> HIDE DEF low, high
  <2>6. Once(segments)
    <3>1. CASE s <= F /\ F < e
      <4>1. DOMAIN segments = {1, 2} /\ segments[1] = low /\ segments[2] = high
        <5>1. segments = <<low>> \o <<high>>
          BY <3>1, <2>1 DEF DurableSegments, low, high
        <5> HIDE DEF segments
        <5> QED BY <5>1
      <4>2. ASSUME NEW b \in BlocksOf(served)
            PROVE  \E k \in DOMAIN segments :
                     {i \in DOMAIN segments : b \in BlocksOf(segments[i])} = {k}
        <5>1. CASE b <= F
          <6>1. b \in BlocksOf(low) /\ b \notin BlocksOf(high)
            BY <5>1, <2>1, <2>4, <2>5, <3>1
          <6> QED BY <4>1, <6>1
        <5>2. CASE F < b
          <6>1. b \notin BlocksOf(low) /\ b \in BlocksOf(high)
            BY <5>2, <2>1, <2>3, <2>5, <3>1
          <6> QED BY <4>1, <6>1
        <5> QED BY <5>1, <5>2, <2>1, <2>5
      <4>3. ASSUME NEW i \in DOMAIN segments, NEW b \in BlocksOf(segments[i])
            PROVE  b \in BlocksOf(served) /\ segments[i].finality = RowFinality(b, heads)
        BY <4>1, <2>3, <2>4, <3>1
      <4> QED BY <4>2, <4>3
    <3>2. CASE s <= F /\ ~(F < e)
      <4>1. segments = <<low>>
        BY <3>2 DEF DurableSegments, low
      <4>2. \A b \in BlocksOf(served) : b \in BlocksOf(low)
        BY <3>2, <2>1, <2>5
      <4>3. DOMAIN segments = {1} /\ segments[1] = low
        BY <4>1
      <4> QED BY <4>2, <4>3, <2>3, <3>2
    <3>3. CASE ~(s <= F)
      <4>1. F < e
        BY <3>3, <2>1
      <4>2. segments = <<high>>
        BY <3>3, <4>1 DEF DurableSegments, high
      <4>3. \A b \in BlocksOf(served) : b \in BlocksOf(high)
        BY <3>3, <2>1, <2>5
      <4>4. DOMAIN segments = {1} /\ segments[1] = high
        BY <4>2
      <4> QED BY <4>1, <4>3, <4>4, <2>4
    <3> QED BY <3>1, <3>2, <3>3
  <2> HIDE DEF segments
  <2>7. ASSUME NEW b \in BlocksOf(served)
        PROVE  Cardinality({i \in DOMAIN segments : b \in BlocksOf(segments[i])}) = 1
    BY <2>6, FS_Singleton
  <2> QED BY <2>6, <2>7 DEF segments
<1> QED BY <1>1, CoverageInvHolds, PTL

-----------------------------------------------------------------------------
(* The served prefix *)

(* What is served is the longest prefix of the query on which both          *)
(* addresses are covered, whatever rows there are: longest_covered_prefix   *)
(* and intersect_ranges are right for all coverage.                         *)
THEOREM PrefixAlwaysLongest == Spec => []PrefixIsLongest
<1>1. PrefixIsLongest
  <2> SUFFICES ASSUME NEW query \in Ranges, NEW other \in SUBSET Block
               PROVE  LET covered == IntersectRanges(Covered(query),
                                                     Multirange(other \cap BlocksOf(query)))
                          prefix  == LongestCoveredPrefix(covered, query)
                          both    == CoveredBlocks \cap other
                      IN IF query.start \notin both THEN prefix = NoRange
                         ELSE /\ prefix.start = query.start
                              /\ BlocksOf(prefix) \subseteq both \cap BlocksOf(query)
                              /\ prefix.end = query.end \/ prefix.end + 1 \notin both
    BY DEF PrefixIsLongest
  <2> DEFINE X == CoveredBlocks \cap BlocksOf(query)
             Y == other \cap BlocksOf(query)
             L == Multirange(X)
             R == Multirange(Y)
             covered == IntersectRanges(L, R)
             prefix == LongestCoveredPrefix(covered, query)
             both == CoveredBlocks \cap other
             s == query.start
             hits == {i \in DOMAIN covered : s \in BlocksOf(covered[i])}
  <2>1. /\ s \in Nat /\ query.end \in Nat /\ s <= query.end /\ query.end <= MaxEnd
        /\ BlocksOf(query) = s..query.end /\ MaxEnd \in Nat
    BY RangesType, BlockPlanAssumption DEF BlocksOf
  <2>2. X \in SUBSET Block /\ Y \in SUBSET Block
    BY DEF CoveredBlocks
  <2>3. covered = IntersectRanges(Covered(query), Multirange(other \cap BlocksOf(query)))
    BY DEF Covered
  <2>4. /\ L \in Seq(Ranges)
        /\ \A i \in DOMAIN L : BlocksOf(L[i]) \subseteq X /\ L[i].end + 1 \notin X
        /\ \A b \in X : \E i \in DOMAIN L : b \in BlocksOf(L[i])
    BY <2>2, MultirangeIs
  <2>5. /\ R \in Seq(Ranges)
        /\ \A i \in DOMAIN R : BlocksOf(R[i]) \subseteq Y /\ R[i].end + 1 \notin Y
        /\ \A b \in Y : \E i \in DOMAIN R : b \in BlocksOf(R[i])
    BY <2>2, MultirangeIs
  <2> HIDE DEF L, R
  <2>6. /\ covered \in Seq(Ranges)
        /\ \A i \in DOMAIN L, k \in DOMAIN R :
             Intersect(L[i], R[k]) # NoRange =>
               \E j \in DOMAIN covered : covered[j] = Intersect(L[i], R[k])
        /\ \A j \in DOMAIN covered : \E i \in DOMAIN L, k \in DOMAIN R :
             covered[j] = Intersect(L[i], R[k]) /\ covered[j] # NoRange
    BY <2>4, <2>5, IntersectRangesIs
  <2> HIDE DEF covered
  <2>7. ASSUME NEW j \in DOMAIN covered
        PROVE  /\ covered[j].end \in Nat
               /\ \A b \in Int : b \in BlocksOf(covered[j]) => b \in X /\ b \in Y
               /\ ~(covered[j].end + 1 \in X /\ covered[j].end + 1 \in Y)
    <3>1. PICK i \in DOMAIN L, k \in DOMAIN R :
                 covered[j] = Intersect(L[i], R[k]) /\ covered[j] # NoRange
      BY <2>6
    <3>2. L[i] \in Ranges /\ R[k] \in Ranges
      BY <2>4, <2>5
    <3>3. /\ covered[j].end = Least(L[i].end, R[k].end)
          /\ \A b \in Int : b \in BlocksOf(covered[j]) <=> b \in BlocksOf(L[i]) /\ b \in BlocksOf(R[k])
      BY <3>1, <3>2, IntersectIs
    <3>4. L[i].end \in Nat /\ R[k].end \in Nat
      BY <3>2, RangesType
    <3>5. covered[j].end = L[i].end \/ covered[j].end = R[k].end
      BY <3>3 DEF Least
    <3>6. ~(covered[j].end + 1 \in X /\ covered[j].end + 1 \in Y)
      BY <3>5, <2>4, <2>5
    <3> QED BY <3>3, <3>4, <3>5, <3>6, <2>4, <2>5
  <2>8. s \in both <=> hits # {}
    <3>1. s \in both <=> s \in X /\ s \in Y
      BY <2>1
    <3>2. ASSUME s \in X, s \in Y PROVE hits # {}
      <4>1. PICK i \in DOMAIN L : s \in BlocksOf(L[i])
        BY <3>2, <2>4
      <4>2. PICK k \in DOMAIN R : s \in BlocksOf(R[k])
        BY <3>2, <2>5
      <4>3. L[i] \in Ranges /\ R[k] \in Ranges
        BY <2>4, <2>5
      <4>4. Intersect(L[i], R[k]) # NoRange /\ s \in BlocksOf(Intersect(L[i], R[k]))
        BY <4>1, <4>2, <4>3, <2>1, IntersectIs
      <4> QED BY <4>4, <2>6
    <3>3. ASSUME hits # {} PROVE s \in X /\ s \in Y
      BY <3>3, <2>1, <2>7
    <3> QED BY <3>1, <3>2, <3>3
  <2>9. CASE s \notin both
    <3>1. prefix = NoRange
      BY <2>8, <2>9 DEF LongestCoveredPrefix
    <3> QED BY <3>1, <2>3, <2>9
  <2>10. CASE s \in both
    <3>1. hits # {} /\ hits \in SUBSET Nat
      <4>1. DOMAIN covered = 1..Len(covered)
        BY <2>6
      <4> QED BY <4>1, <2>8, <2>10
    <3> DEFINE j == Min(hits)
               e == Least(covered[j].end, query.end)
    <3>2. j \in DOMAIN covered /\ s \in BlocksOf(covered[j])
      <4>1. Min(hits) \in hits
        <5> HIDE DEF hits
        <5> QED BY <3>1, MinNat
      <4> QED BY <4>1
    <3>3. prefix = NewRange(s, e)
      BY <3>1 DEF LongestCoveredPrefix
    <3> HIDE DEF j
    <3>4. covered[j] \in Ranges /\ covered[j].start <= s /\ s <= covered[j].end
      <4>1. covered[j] \in Ranges
        BY <3>2, <2>6
      <4> QED BY <4>1, <3>2, RangesType DEF BlocksOf
    <3>5. /\ covered[j].end \in Nat
          /\ \A b \in Int : b \in BlocksOf(covered[j]) => b \in X /\ b \in Y
          /\ ~(covered[j].end + 1 \in X /\ covered[j].end + 1 \in Y)
      BY <3>2, <2>7
    <3>6. e \in Nat /\ s <= e /\ e <= MaxEnd /\ e <= query.end /\ e <= covered[j].end
          /\ (e = query.end \/ e = covered[j].end)
      BY <3>4, <3>5, <2>1 DEF Least
    <3> HIDE DEF e
    <3>7. prefix = [start |-> s, end |-> e]
      <4>1. e \in Int
        BY <3>6
      <4> QED BY <4>1, <3>3, <3>6, <2>1, NewRangeIs
    <3>8. prefix.start = s /\ prefix.end = e /\ BlocksOf(prefix) = s..e
      BY <3>7 DEF BlocksOf
    <3> HIDE DEF prefix
    <3>9. ASSUME NEW b \in BlocksOf(prefix) PROVE b \in both /\ b \in BlocksOf(query)
      <4>1. b \in Int /\ s <= b /\ b <= e
        BY <3>8, <3>6, <2>1
      <4>2. b \in BlocksOf(covered[j])
        <5>1. covered[j].start \in Nat
          BY <3>4, RangesType
        <5> QED BY <4>1, <5>1, <3>4, <3>5, <3>6, <2>1 DEF BlocksOf
      <4>3. b \in X /\ b \in Y
        BY <4>1, <4>2, <3>5
      <4> QED BY <4>3
    <3>10. prefix.end = query.end \/ prefix.end + 1 \notin both
      <4>1. SUFFICES ASSUME e # query.end, e + 1 \in both PROVE FALSE
        BY <3>8
      <4>2. e = covered[j].end /\ e + 1 \in BlocksOf(query)
        BY <4>1, <3>6, <2>1
      <4>3. e + 1 \in X /\ e + 1 \in Y
        BY <4>1, <4>2
      <4> QED BY <4>2, <4>3, <3>5
    <3> QED BY <2>3, <2>10, <3>8, <3>9, <3>10 DEF prefix
  <2> QED BY <2>9, <2>10
<1> QED BY <1>1, PTL

-----------------------------------------------------------------------------
(* The plan of a query *)

(* A plan reaches every block a query lacks and may fill, in cells that     *)
(* lack a block, each once, for all rows, ranges, heads and chunk sizes.    *)
THEOREM PlansAlwaysReachGaps == Spec => []PlansReachGaps
<1>1. PlansReachGaps
  <2> SUFFICES ASSUME NEW durable \in Ranges, NEW fillEnd \in Block, NEW chunk \in Chunk
               PROVE  LET plan == Planned(durable, fillEnd, chunk)
                      IN /\ \A b \in BlocksOf(durable) \ CoveredBlocks :
                              b <= fillEnd => \E i \in DOMAIN plan : b \in BlocksOf(plan[i])
                         /\ \A i \in DOMAIN plan :
                              /\ BlocksOf(plan[i]) \ CoveredBlocks # {}
                              /\ plan[i].start % chunk = 0
                              /\ plan[i].end = Least(Least(plan[i].start + chunk - 1, fillEnd), MaxEnd)
                         /\ \A i, k \in DOMAIN plan : i < k => plan[i].end < plan[k].start
    BY DEF PlansReachGaps
  <2> DEFINE fill == GridSpan(durable, chunk, fillEnd)
             span == [start |-> fill.start, end |-> Greatest(fill.end, durable.end)]
             X == CoveredBlocks \cap BlocksOf(span)
             covered == Covered(span)
             gaps == Uncovered(fill, covered)
             plan == Planned(durable, fillEnd, chunk)
             first(i) == FirstCell(gaps[i], chunk)
             last(i) == LastCell(gaps[i], chunk)
             cell(k) == Clip(GridCell(k, chunk), fillEnd)
  <2>1. chunk \in Nat \ {0} /\ fillEnd \in Nat /\ fillEnd <= MaxEnd
    BY CoverageAssumption, BlockPlanAssumption DEF Block
  <2>2. /\ durable.start \in Nat /\ durable.end \in Nat /\ durable.start <= durable.end
        /\ durable.end <= MaxEnd /\ MaxEnd \in Nat
    BY RangesType, BlockPlanAssumption
  <2>3. \A b \in BlocksOf(durable) : b \in Nat /\ durable.start <= b
    BY <2>2 DEF BlocksOf
  <2>4. CASE ~(durable.start <= fillEnd)
    <3>1. plan = <<>>
      BY <2>4 DEF Planned
    <3>2. \A b \in BlocksOf(durable) : ~(b <= fillEnd)
      BY <2>1, <2>2, <2>3, <2>4
    <3> HIDE DEF plan
    <3>3. DOMAIN plan = {}
      BY <3>1
    <3> QED BY <3>2, <3>3 DEF plan
  <2>5. CASE durable.start <= fillEnd
    <3>1. /\ fill \in Ranges /\ fill # NoRange
          /\ fill.start <= durable.start /\ fill.end <= fillEnd
          /\ \A b \in BlocksOf(durable) : b <= fillEnd => b \in BlocksOf(fill)
      BY <2>1, <2>5, GridSpanIs
    <3>2. plan = FillChunks(fill, covered, chunk, fillEnd)
      BY <2>5, <3>1 DEF Planned
    <3> HIDE DEF fill
    <3>3. fill.start \in Nat /\ fill.end \in Nat /\ fill.start <= fill.end /\ fill.end <= MaxEnd
      BY <3>1, RangesType
    <3>4. \A b \in BlocksOf(fill) : b \in BlocksOf(span) /\ b \in Nat
      BY <2>2, <3>3 DEF BlocksOf, Greatest
    <3>5. /\ covered \in Seq(Ranges)
          /\ \A i \in DOMAIN covered : BlocksOf(covered[i]) \subseteq X
          /\ \A b \in X : \E i \in DOMAIN covered : b \in BlocksOf(covered[i])
          /\ \A i, k \in DOMAIN covered : i < k => covered[i].end + 1 < covered[k].start
      <4>1. X \in SUBSET Block
        BY DEF CoveredBlocks
      <4>2. covered = Multirange(X)
        BY DEF Covered
      <4> HIDE DEF X, covered
      <4> QED BY <4>1, <4>2, MultirangeIs
    <3> HIDE DEF covered
    <3>6. \A b \in BlocksOf(fill) :
            b \in CoveredBlocks <=> \E j \in DOMAIN covered : b \in BlocksOf(covered[j])
      BY <3>4, <3>5
    <3>7. /\ gaps \in Seq(Ranges)
          /\ \A b \in BlocksOf(fill) :
               \/ \E j \in DOMAIN covered : b \in BlocksOf(covered[j])
               \/ \E i \in DOMAIN gaps : b \in BlocksOf(gaps[i])
          /\ \A i \in DOMAIN gaps :
               /\ fill.start <= gaps[i].start /\ gaps[i].end <= fill.end
               /\ \A j \in DOMAIN covered : \A b \in BlocksOf(gaps[i]) : b \notin BlocksOf(covered[j])
          /\ \A i, k \in DOMAIN gaps : i < k => gaps[i].end < gaps[k].start
      BY <3>1, <3>5, UncoveredIs
    <3>8. /\ plan \in Seq(Ranges)
          /\ \A i \in DOMAIN gaps : \A k \in first(i)..last(i) :
               k * chunk <= fillEnd => \E j \in DOMAIN plan : plan[j] = cell(k)
          /\ \A j \in DOMAIN plan : \E i \in DOMAIN gaps : \E k \in first(i)..last(i) :
               plan[j] = cell(k)
          /\ \A i, k \in DOMAIN plan : i < k => plan[i].start < plan[k].start
      <4> DEFINE p == FillChunks(fill, covered, chunk, fillEnd)
      <4>1. /\ p \in Seq(Ranges)
            /\ \A i \in DOMAIN gaps : \A k \in first(i)..last(i) :
                 k * chunk <= fillEnd => \E j \in DOMAIN p : p[j] = cell(k)
            /\ \A j \in DOMAIN p : \E i \in DOMAIN gaps : \E k \in first(i)..last(i) :
                 p[j] = cell(k)
            /\ \A i, k \in DOMAIN p : i < k => p[i].start < p[k].start
        BY <2>1, <3>7, FillChunksIs
      <4>2. plan = p
        BY <3>2
      <4> HIDE DEF plan, p, gaps, first, last, cell
      <4> QED BY <4>1, <4>2, ZenonT(60)
    <3> HIDE DEF gaps, plan
    <3>9. ASSUME NEW i \in DOMAIN gaps
          PROVE  /\ gaps[i].start \in Nat /\ gaps[i].end \in Nat /\ gaps[i].start <= gaps[i].end
                 /\ gaps[i].end <= fillEnd /\ gaps[i].end <= MaxEnd
                 /\ \A b \in BlocksOf(gaps[i]) : b \notin CoveredBlocks
                 /\ first(i) \in Nat /\ last(i) \in Nat
                 /\ first(i) * chunk \in Nat /\ last(i) * chunk \in Nat
                 /\ gaps[i].start < first(i) * chunk + chunk
                 /\ last(i) * chunk <= gaps[i].end
      <4>1. gaps[i] \in Ranges
        BY <3>7
      <4>2. gaps[i].start \in Nat /\ gaps[i].end \in Nat /\ gaps[i].start <= gaps[i].end
            /\ gaps[i].end <= MaxEnd
        BY <4>1, RangesType
      <4>3. gaps[i].end <= fillEnd
        BY <4>2, <3>1, <3>3, <3>7, <2>1
      <4>4. \A b \in BlocksOf(gaps[i]) : b \notin CoveredBlocks
        <5> SUFFICES ASSUME NEW b \in BlocksOf(gaps[i]) PROVE b \notin CoveredBlocks
          OBVIOUS
        <5>1. b \in BlocksOf(fill)
          <6>1. fill.start <= gaps[i].start /\ gaps[i].end <= fill.end
            BY <3>7
          <6> QED BY <6>1, <4>2, <3>3 DEF BlocksOf
        <5> QED BY <5>1, <3>6, <3>7
      <4>5. first(i) \in Nat /\ first(i) * chunk \in Nat /\ gaps[i].start < first(i) * chunk + chunk
        BY <4>2, <2>1, CellOf DEF FirstCell
      <4>6. last(i) \in Nat /\ last(i) * chunk \in Nat /\ last(i) * chunk <= gaps[i].end
        BY <4>2, <2>1, CellOf DEF LastCell
      <4> QED BY <4>2, <4>3, <4>4, <4>5, <4>6
    <3> HIDE DEF first, last
    <3>10. ASSUME NEW i \in DOMAIN gaps, NEW k \in first(i)..last(i)
           PROVE  /\ k \in Nat /\ k * chunk <= gaps[i].end /\ k * chunk <= fillEnd
                  /\ k * chunk <= MaxEnd /\ k * chunk \in Nat
                  /\ gaps[i].start < k * chunk + chunk
      <4>1. k \in Nat /\ first(i) <= k /\ k <= last(i)
        BY <3>9
      <4> DEFINE u == first(i) * chunk
                 v == k * chunk
                 w == last(i) * chunk
      <4>2. u <= v /\ v <= w /\ v \in Nat
        BY <4>1, <3>9, <2>1, CellsApart
      <4>3. u \in Nat /\ w \in Nat /\ gaps[i].start < u + chunk /\ w <= gaps[i].end
        BY <3>9
      <4> HIDE DEF u, v, w
      <4>4. v <= gaps[i].end /\ v <= fillEnd /\ v <= MaxEnd /\ gaps[i].start < v + chunk
        BY <4>2, <4>3, <3>9, <2>1, <2>2
      <4> QED BY <4>1, <4>2, <4>4 DEF v
    <3>11. ASSUME NEW k \in Nat, k * chunk <= MaxEnd, k * chunk <= fillEnd
           PROVE  /\ cell(k) \in Ranges /\ cell(k).start = k * chunk /\ cell(k).start % chunk = 0
                  /\ cell(k).end = Least(Least(cell(k).start + chunk - 1, fillEnd), MaxEnd)
                  /\ cell(k).end <= k * chunk + chunk - 1
                  /\ \A b \in Int : b \in BlocksOf(cell(k)) <=>
                       k * chunk <= b /\ b < k * chunk + chunk /\ b <= fillEnd /\ b <= MaxEnd
      BY <2>1, <3>11, ClippedCell
    <3> HIDE DEF cell
    <3>12. ASSUME NEW b \in BlocksOf(durable), b \notin CoveredBlocks, b <= fillEnd
           PROVE  \E j \in DOMAIN plan : b \in BlocksOf(plan[j])
      <4>1. b \in BlocksOf(fill) /\ b \in Nat
        BY <3>1, <3>12, <2>3
      <4>2. PICK i \in DOMAIN gaps : b \in BlocksOf(gaps[i])
        BY <4>1, <3>6, <3>7, <3>12
      <4>3. gaps[i].start <= b /\ b <= gaps[i].end
        BY <4>2, <3>9 DEF BlocksOf
      <4> DEFINE k == b \div chunk
      <4>4. k \in Nat /\ k * chunk \in Nat /\ k * chunk <= b /\ b < k * chunk + chunk
        BY <4>1, <2>1, CellOf
      <4>5. first(i) <= k /\ k <= last(i)
        BY <4>1, <4>3, <3>9, <2>1, CellOrder DEF first, last, FirstCell, LastCell
      <4> HIDE DEF k
      <4>6. k \in first(i)..last(i)
        BY <4>4, <4>5, <3>9
      <4>7. k * chunk <= fillEnd /\ k * chunk <= MaxEnd
        BY <4>6, <3>10
      <4>8. PICK j \in DOMAIN plan : plan[j] = cell(k)
        BY <4>6, <4>7, <3>8
      <4>9. b <= MaxEnd
        BY <4>1, <4>3, <3>9, <2>2
      <4>10. b \in BlocksOf(cell(k))
        <5>1. b \in BlocksOf(cell(k)) <=>
                k * chunk <= b /\ b < k * chunk + chunk /\ b <= fillEnd /\ b <= MaxEnd
          <6>1. b \in Int
            BY <4>1
          <6> QED BY <6>1, <4>4, <4>7, <3>11, Zenon
        <5> QED BY <5>1, <4>4, <4>9, <3>12, Zenon
      <4> QED BY <4>8, <4>10
    <3>13. ASSUME NEW j \in DOMAIN plan
           PROVE  /\ BlocksOf(plan[j]) \ CoveredBlocks # {}
                  /\ plan[j].start % chunk = 0
                  /\ plan[j].end = Least(Least(plan[j].start + chunk - 1, fillEnd), MaxEnd)
                  /\ \E k \in Nat : /\ plan[j].start = k * chunk /\ k * chunk \in Nat
                                    /\ plan[j].end <= k * chunk + chunk - 1
                                    /\ plan[j].end \in Nat
      <4>1. PICK i \in DOMAIN gaps : \E k \in first(i)..last(i) : plan[j] = cell(k)
        BY <3>8
      <4>2. PICK k \in first(i)..last(i) : plan[j] = cell(k)
        BY <4>1
      <4>3. /\ k \in Nat /\ k * chunk <= gaps[i].end /\ k * chunk <= fillEnd
            /\ k * chunk <= MaxEnd /\ k * chunk \in Nat /\ gaps[i].start < k * chunk + chunk
        BY <3>10
      <4>4. /\ cell(k) \in Ranges /\ cell(k).start = k * chunk /\ cell(k).start % chunk = 0
            /\ cell(k).end = Least(Least(cell(k).start + chunk - 1, fillEnd), MaxEnd)
            /\ cell(k).end <= k * chunk + chunk - 1
            /\ \A b \in Int : b \in BlocksOf(cell(k)) <=>
                 k * chunk <= b /\ b < k * chunk + chunk /\ b <= fillEnd /\ b <= MaxEnd
        BY <4>3, <3>11
      <4> DEFINE v == k * chunk
                 b == Greatest(gaps[i].start, v)
      <4>5. /\ v \in Nat /\ v <= gaps[i].end /\ gaps[i].start < v + chunk
            /\ \A y \in Int : y \in BlocksOf(cell(k)) <=>
                 v <= y /\ y < v + chunk /\ y <= fillEnd /\ y <= MaxEnd
        BY <4>3, <4>4
      <4> HIDE DEF v
      <4>6. /\ b \in Nat /\ v <= b /\ b < v + chunk /\ b <= gaps[i].end /\ gaps[i].start <= b
            /\ b <= fillEnd /\ b <= MaxEnd
        <5>1. b \in {gaps[i].start, v} /\ v <= b /\ gaps[i].start <= b
          BY <4>5, <3>9, GreatestIs
        <5> HIDE DEF b
        <5> QED BY <5>1, <4>5, <3>9, <2>1, <2>2
      <4> HIDE DEF b
      <4>7. b \in BlocksOf(cell(k))
        BY <4>5, <4>6
      <4>8. b \notin CoveredBlocks
        <5>1. b \in BlocksOf(gaps[i])
          BY <4>6, <3>9 DEF BlocksOf
        <5> QED BY <5>1, <3>9
      <4>9. cell(k).end \in Nat
        BY <4>4, RangesType
      <4>10. BlocksOf(plan[j]) \ CoveredBlocks # {}
        BY <4>2, <4>7, <4>8, Zenon
      <4> QED BY <4>2, <4>3, <4>4, <4>9, <4>10, Zenon
    <3>14. ASSUME NEW i \in DOMAIN plan, NEW l \in DOMAIN plan, i < l
           PROVE  plan[i].end < plan[l].start
      <4>1. PICK x \in Nat : /\ plan[i].start = x * chunk /\ x * chunk \in Nat
                             /\ plan[i].end <= x * chunk + chunk - 1 /\ plan[i].end \in Nat
        BY <3>13
      <4>2. PICK y \in Nat : plan[l].start = y * chunk /\ y * chunk \in Nat
        BY <3>13
      <4>3. x * chunk < y * chunk
        BY <4>1, <4>2, <3>8, <3>14
      <4>4. /\ x < y => x * chunk + chunk <= y * chunk
            /\ y <= x => y * chunk <= x * chunk
        BY <2>1, CellsApart
      <4> DEFINE u == x * chunk
                 v == y * chunk
      <4> HIDE DEF u, v
      <4>5. /\ u \in Nat /\ v \in Nat /\ u < v /\ (x < y => u + chunk <= v) /\ (y <= x => v <= u)
            /\ plan[i].end <= u + chunk - 1 /\ plan[i].end \in Nat /\ plan[l].start = v
        BY <4>1, <4>2, <4>3, <4>4 DEF u, v
      <4> QED BY <4>5, <2>1
    <3> QED BY <3>12, <3>13, <3>14 DEF plan
  <2> QED BY <2>4, <2>5
<1> QED BY <1>1, PTL

=============================================================================
