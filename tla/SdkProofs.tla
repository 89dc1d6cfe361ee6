----------------------------- MODULE SdkProofs ------------------------------
(* Safety of the SDK's stream and cursors, for every chain length, page     *)
(* limit, chunk and number of forks.                                        *)
EXTENDS Sdk, FiniteSetTheorems, WellFoundedInduction, TLAPS

-----------------------------------------------------------------------------
(* Numbers and ranges *)

(* Every non-empty set of naturals has a least member. *)
LEMMA NatLeast ==
  ASSUME NEW S \in SUBSET Nat, S # {}
  PROVE  \E m \in S : \A k \in S : m <= k
<1> DEFINE R == OpToRel(<, Nat)
<1>1. IsWellFoundedOn(R, Nat)
  BY NatLessThanWellFounded, Zenon
<1>2. \A x, y \in Nat : x < y => <<x, y>> \in R
  BY DEF OpToRel
<1> HIDE DEF R
<1>3. PICK m \in S : \A y \in S : ~ (<<y, m>> \in R)
  BY <1>1, WFMin, Zenon
<1>4. ASSUME NEW k \in S PROVE m <= k
  <2>1. m \in Nat /\ k \in Nat
    OBVIOUS
  <2>2. ~(k < m)
    BY <2>1, <1>2, <1>3, Zenon
  <2> QED BY <2>1, <2>2
<1> QED BY <1>3, <1>4

(* Min of FiniteSetsExt is the least member of a set of naturals. *)
LEMMA MinNat ==
  ASSUME NEW S \in SUBSET Nat, S # {}
  PROVE  /\ Min(S) \in S
         /\ Min(S) \in Nat
         /\ \A x \in S : Min(S) <= x
<1>1. \E m \in S : \A y \in S : m <= y
  BY NatLeast
<1>2. Min(S) \in S /\ \A x \in S : Min(S) <= x
  BY <1>1, Zenon DEF Min
<1> QED BY <1>2, Zenon

(* Max of FiniteSetsExt is the greatest member of a bounded set of naturals. *)
LEMMA MaxNat ==
  ASSUME NEW n \in Int, NEW S \in SUBSET (0..n), S # {}
  PROVE  /\ Max(S) \in S
         /\ Max(S) \in 0..n
         /\ \A x \in S : x <= Max(S)
<1> DEFINE T == {k \in Nat : n - k \in S}
<1>2. PICK s \in S : TRUE
  BY Zenon
<1>1. n \in Nat
  <2>1. s \in 0..n
    OBVIOUS
  <2> QED BY <2>1
<1>3. n - s \in T
  BY <1>1, <1>2
<1>4. PICK m \in T : \A k \in T : m <= k
  BY <1>3, NatLeast, Zenon
<1>5. ASSUME NEW x \in S PROVE x <= n - m
  <2>1. n - x \in T
    BY <1>1
  <2> QED BY <2>1, <1>4, <1>1
<1>6. \E y \in S : \A x \in S : y >= x
  <2>1. n - m \in S
    BY <1>4
  <2>2. \A x \in S : n - m >= x
    BY <1>5, <1>1, <1>4
  <2> QED BY <2>1, <2>2
<1>7. Max(S) \in S /\ \A x \in S : Max(S) >= x
  BY <1>6, Zenon DEF Max
<1> QED BY <1>7, <1>1, Zenon

(* Min and Max of two integers. *)
LEMMA MinPair ==
  ASSUME NEW a \in Int, NEW b \in Int
  PROVE  Min({a, b}) = IF a <= b THEN a ELSE b
<1>1. \E m \in {a, b} : \A y \in {a, b} : m <= y
  <2>1. CASE a <= b  BY <2>1
  <2>2. CASE ~(a <= b)  BY <2>2
  <2> QED BY <2>1, <2>2
<1>2. Min({a, b}) \in {a, b} /\ \A x \in {a, b} : Min({a, b}) <= x
  BY <1>1, Zenon DEF Min
<1> QED BY <1>2

LEMMA MaxPair ==
  ASSUME NEW a \in Int, NEW b \in Int
  PROVE  Max({a, b}) = IF a >= b THEN a ELSE b
<1>1. \E m \in {a, b} : \A y \in {a, b} : m >= y
  <2>1. CASE a >= b  BY <2>1
  <2>2. CASE ~(a >= b)  BY <2>2
  <2> QED BY <2>1, <2>2
<1>2. Max({a, b}) \in {a, b} /\ \A x \in {a, b} : Max({a, b}) >= x
  BY <1>1, Zenon DEF Max
<1> QED BY <1>2

(* A function has finitely many values on a finite domain. *)
LEMMA ImageFinite ==
  ASSUME NEW S, IsFiniteSet(S), NEW f, DOMAIN f = S
  PROVE  IsFiniteSet({f[x] : x \in S}) /\ Cardinality({f[x] : x \in S}) <= Cardinality(S)
<1> DEFINE T == {f[x] : x \in S}
           g == [x \in S |-> f[x]]
<1>1. g \in [S -> T] /\ \A t \in T : \E x \in S : g[x] = t
  OBVIOUS
<1>2. g \in Surjection(S, T)
  <2> HIDE DEF T, g
  <2> QED BY <1>1 DEF Surjection
<1> HIDE DEF g, T
<1>3. IsFiniteSet(T) /\ Cardinality(T) <= Cardinality(S)
  BY <1>2, FS_Surjection
<1> QED BY <1>3 DEF T

LEMMA RangesType ==
  ASSUME NEW r \in Ranges
  PROVE  /\ r = [start |-> r.start, end |-> r.end]
         /\ r.start \in Nat /\ r.end \in Nat
         /\ r.start <= r.end /\ r.end <= MaxEnd
BY BlockPlanAssumption DEF Ranges, NewRange, Block

LEMMA NewRangeIs ==
  ASSUME NEW s \in Nat, NEW e \in Int
  PROVE  /\ NewRange(s, e) # NoRange <=> s <= e /\ e <= MaxEnd
         /\ NewRange(s, e) # NoRange => /\ NewRange(s, e) = [start |-> s, end |-> e]
                                        /\ NewRange(s, e) \in Ranges
<1>1. CASE s > e \/ e > MaxEnd
  BY <1>1, BlockPlanAssumption DEF NewRange
<1>2. CASE ~(s > e \/ e > MaxEnd)
  <2>1. NewRange(s, e) = [start |-> s, end |-> e]
    BY <1>2 DEF NewRange
  <2>2. [start |-> s, end |-> e] \in [start : Nat, end : Nat]
    BY <1>2
  <2>3. NewRange(s, e) # NoRange
    BY <2>1, <2>2, BlockPlanAssumption
  <2>4. s \in Block /\ e \in Block
    BY <1>2, BlockPlanAssumption DEF Block
  <2>5. NewRange(s, e) \in Ranges
    BY <2>3, <2>4 DEF Ranges
  <2> QED BY <1>2, <2>1, <2>3, <2>5, BlockPlanAssumption
<1> QED BY <1>1, <1>2

(* The part of an interval up to one of its members. *)
LEMMA IntervalPart ==
  ASSUME NEW i \in Nat, NEW k \in Nat, NEW r \in i..k, NEW x \in i..r
  PROVE  x \in i..k /\ x <= r
OBVIOUS

LEMMA IntervalFloor ==
  ASSUME NEW i \in Nat, NEW k \in Nat
  PROVE  \A n \in i..k : n \in Nat /\ n >= i /\ i <= n /\ n <= k
OBVIOUS

LEMMA IntervalHas ==
  ASSUME NEW i \in Nat, NEW k \in Nat, NEW n \in Nat, i <= n, n <= k
  PROVE  n \in i..k
OBVIOUS

LEMMA BelowNext ==
  ASSUME NEW n \in Nat, NEW i \in 0..n, NEW k \in Nat, k < i + 1
  PROVE  k <= i /\ k \in 0..i /\ k <= n
OBVIOUS

LEMMA Positive ==
  ASSUME NEW i \in Nat, NEW k \in Nat, i > 0, i <= k
  PROVE  k # 0
OBVIOUS

LEMMA Reflexive ==
  ASSUME NEW i \in Nat
  PROVE  i <= i /\ ~(i > i)
OBVIOUS

(* The greater of two heights. *)
LEMMA GreatestIs ==
  ASSUME NEW x \in Nat, NEW y \in Nat
  PROVE  Greatest(x, y) \in Nat /\ x <= Greatest(x, y) /\ y <= Greatest(x, y)
BY DEF Greatest

LEMMA GreatestAbove ==
  ASSUME NEW x \in Nat, NEW y \in Nat, x <= y
  PROVE  Greatest(x, y) = y
BY DEF Greatest

(* The height behind one, and a start at most one above a height. *)
LEMMA BehindIs ==
  ASSUME NEW s \in Nat, NEW e \in Nat, s <= e
  PROVE  e + 1 \in Nat /\ s <= e + 1
OBVIOUS

LEMMA StartAbove ==
  ASSUME NEW s \in Nat, NEW w \in Nat, NEW n \in Nat, s <= w, w = s \/ w <= n + 1
  PROVE  w > s => w # s /\ w - 1 <= n
OBVIOUS

(* Sequences of one length with the same elements are equal. *)
LEMMA SeqEqual ==
  ASSUME NEW T, NEW s \in Seq(T), NEW t \in Seq(T), Len(s) = Len(t),
         \A i \in 1..Len(s) : s[i] = t[i]
  PROVE  s = t
OBVIOUS

(* A prefix of a sequence, and a sequence with one more element. *)
LEMMA PrefixIs ==
  ASSUME NEW T, NEW s \in Seq(T), NEW n \in 0..Len(s)
  PROVE  /\ SubSeq(s, 1, n) \in Seq(T) /\ Len(SubSeq(s, 1, n)) = n
         /\ \A i \in 1..n : SubSeq(s, 1, n)[i] = s[i]
<1>1. Len(SubSeq(s, 1, n)) = n
  OBVIOUS
<1>2. \A i \in 1..n : SubSeq(s, 1, n)[i] = s[i]
  OBVIOUS
<1>3. SubSeq(s, 1, n) \in Seq(T)
  OBVIOUS
<1> QED BY <1>1, <1>2, <1>3

LEMMA AppendIs ==
  ASSUME NEW T, NEW s \in Seq(T), NEW e \in T
  PROVE  /\ Append(s, e) \in Seq(T) /\ Len(Append(s, e)) = Len(s) + 1
         /\ \A i \in 1..Len(s) : Append(s, e)[i] = s[i]
         /\ Append(s, e)[Len(s) + 1] = e
<1>1. Append(s, e) \in Seq(T)
  OBVIOUS
<1>2. Len(Append(s, e)) = Len(s) + 1
  OBVIOUS
<1>3. \A i \in 1..Len(s) : Append(s, e)[i] = s[i]
  OBVIOUS
<1>4. Append(s, e)[Len(s) + 1] = e
  OBVIOUS
<1> QED BY <1>1, <1>2, <1>3, <1>4

-----------------------------------------------------------------------------
(* The inductive invariant *)

BlockType == [fork : Nat, log : BOOLEAN]

RowType == [number : Nat, hash : Seq(BlockType)]

MaybeRange == Ranges \cup {NoRange}

(* The chain has its safe blocks, and the covered ones among them. *)
ChainInv ==
  /\ program \in Program
  /\ chain \in Seq(BlockType) /\ Len(chain) <= MaxEnd
  /\ forks \in Nat
  /\ safe \in Nat /\ 1 <= safe /\ safe <= Len(chain)
  /\ view \in Seq(BlockType) /\ Len(view) <= MaxEnd
  /\ durable \in Nat /\ 1 <= durable /\ durable <= safe

(* An answer: a durable segment d from the start of the range, a hot segment *)
(* h behind it.  Only latest_only leaves blocks out in front of h, and they  *)
(* are safe.                                                                 *)
Parts(range, wanted, d, h, finality, covered, top) ==
  /\ range \in Ranges /\ range.start > 0
  /\ wanted \in MaybeRange /\ d \in MaybeRange /\ h \in MaybeRange
  /\ d # NoRange => /\ finality # "latest_only"
                    /\ d.start = range.start /\ d.end <= range.end /\ d.end <= covered
  /\ h # NoRange => /\ finality # "durable_only" /\ wanted # NoRange
                    /\ h.start = wanted.start /\ h.end <= range.end
                    /\ d # NoRange => h.start = d.end + 1
                    /\ d = NoRange /\ finality # "latest_only" => h.start = range.start
  /\ wanted # NoRange => /\ range.start <= wanted.start /\ wanted.start <= range.end
                         /\ wanted.start = range.start \/ wanted.start <= top + 1
  /\ finality = "latest_only" /\ wanted = NoRange => range.end <= top

Segments(d, h) == SegmentAt("durable", d) \o SegmentAt("hot", h)

Answered(a, finality, covered, top) ==
  \E d, h \in MaybeRange :
    /\ a.segments = Segments(d, h)
    /\ Parts(a.range, a.wanted, d, h, finality, covered, top)

(* A row that has its log. *)
LogRow ==
  {r \in RowType : r.number > 0 /\ Len(r.hash) = r.number /\ r.hash[r.number].log}

Segmentations == {Segments(d, h) : d, h \in MaybeRange}

CallType ==
  [pc : {"none", "serve", "rows", "done"}, range : MaybeRange, wanted : MaybeRange,
   segments : Segmentations, anchor : SUBSET RowType, rows : SUBSET LogRow,
   known : SUBSET RowType, after : Nat]

CallInv ==
  /\ call \in CallType
  /\ call.pc # "none" => call.range \in Ranges /\ call.range.start > 0
  /\ call.pc \in {"rows", "done"} => Answered(call, program.finality, durable, safe)

(* The stream asks from next on; a tail has no stream. *)
StreamInv ==
  /\ pc \in {"step", "query", "save", "done"}
  /\ next \in 1..(MaxEnd + 1) /\ from \in 1..next
  /\ heads \in [safe : Nat, latest : Nat] /\ heads.safe <= safe /\ heads.latest <= MaxEnd
  /\ told \in [1..MaxEnd -> Seq({"batch", "skipped"})]
  /\ ReportedOnce
  /\ pc \in {"step", "done"} /\ program.kind = "follow" => call = NoCall
  /\ pc = "query" => call.pc # "none" /\ call.range.start = next
  /\ pc = "save" => call.pc = "none"
  /\ program.kind = "tail" => pc = "step"

(* The rows of a durable segment are written before the cursor passes it. *)
SavedInv ==
  /\ checkpoint \in 1..(durable + 1)
  /\ pc = "save" => \E d, h \in MaybeRange :
       /\ call.segments = Segments(d, h)
       /\ d # NoRange => /\ d.start > 0 /\ d.end <= durable
                         /\ program.finality = "durable_only" =>
                              RowsOf(chain, BlocksOf(d)) \subseteq written

(* A durable_only query has collected the rows of the chain c up to its     *)
(* last page.                                                               *)
Collected(q, c, covered) ==
  /\ q.rows \subseteq RowsOf(c, 1..covered)
  /\ q.pc \in {"serve", "rows"} => /\ q.after <= covered
                                   /\ RowsOf(c, q.range.start..q.after) \subseteq q.rows
  /\ q.pc = "done" /\ Served(q) # NoRange => RowsOf(c, BlocksOf(Served(q))) \subseteq q.rows

CollectedInv ==
  program.finality = "durable_only" =>
    /\ written \subseteq RowsOf(chain, 1..durable)
    /\ RowsOf(chain, 1..(checkpoint - 1)) \subseteq written
    /\ Collected(call, chain, durable)

SdkInv == ChainInv /\ CallInv /\ StreamInv /\ SavedInv /\ CollectedInv

SeenType == [number : Nat, hash : Seq(BlockType), rows : BOOLEAN]

(* The tail loop reads its answers in one page. *)
OnePage == \A p \in Program : p.kind = "tail" => p.limit >= MaxEnd

CursorInv ==
  /\ cursor \in [settled : Nat \ {0}, next : Nat, seen : SUBSET SeenType]
  /\ \A s \in cursor.seen : s.number >= cursor.settled

(* Every row kept from settled on is remembered by the cursor. *)
TailInv ==
  /\ kept \subseteq LogRow
  /\ \A r \in kept : r.number >= cursor.settled =>
       [number |-> r.number, hash |-> r.hash, rows |-> TRUE] \in cursor.seen
  /\ program.kind = "tail" =>
       /\ call.pc # "none" => call.range.start = cursor.settled
       /\ call.pc \in {"serve", "rows"} => call.rows = {}
       /\ call.pc = "done" => \A r \in call.rows :
            Served(call) # NoRange /\ r.number \in BlocksOf(Served(call))

-----------------------------------------------------------------------------
(* Segments *)

LEMMA SegmentsType ==
  ASSUME NEW d \in MaybeRange, NEW h \in MaybeRange
  PROVE  Segments(d, h) \in Segmentations
BY DEF Segmentations

LEMMA ConcatSmall ==
  ASSUME NEW x, NEW y
  PROVE  /\ <<>> \o <<>> = <<>> /\ <<x>> \o <<>> = <<x>>
         /\ <<>> \o <<y>> = <<y>> /\ <<x>> \o <<y>> = <<x, y>>
<1>1. <<x>> \in Seq({x, y}) /\ <<y>> \in Seq({x, y}) /\ <<>> \in Seq({x, y})
  OBVIOUS
<1>2. <<x>> \o <<y>> = <<x, y>>
  <2>1. Len(<<x>> \o <<y>>) = 2 /\ <<x>> \o <<y>> \in Seq({x, y})
    BY <1>1
  <2>2. (<<x>> \o <<y>>)[1] = x /\ (<<x>> \o <<y>>)[2] = y
    BY <1>1
  <2>3. <<x, y>> \in Seq({x, y}) /\ Len(<<x, y>>) = 2 /\ <<x, y>>[1] = x /\ <<x, y>>[2] = y
    OBVIOUS
  <2>4. \A i \in 1..2 : i = 1 \/ i = 2
    OBVIOUS
  <2> QED BY <2>1, <2>2, <2>3, <2>4, SeqEqual, Zenon
<1> QED BY <1>1, <1>2

(* The segments of an answer, spelled out. *)
LEMMA SegmentsAre ==
  ASSUME NEW d \in MaybeRange, NEW h \in MaybeRange
  PROVE  LET D == [source |-> "durable", start |-> d.start, end |-> d.end]
             H == [source |-> "hot", start |-> h.start, end |-> h.end]
         IN /\ d = NoRange /\ h = NoRange => Segments(d, h) = <<>>
            /\ d # NoRange /\ h = NoRange => Segments(d, h) = <<D>>
            /\ d = NoRange /\ h # NoRange => Segments(d, h) = <<H>>
            /\ d # NoRange /\ h # NoRange => Segments(d, h) = <<D, H>>
<1> DEFINE D == [source |-> "durable", start |-> d.start, end |-> d.end]
           H == [source |-> "hot", start |-> h.start, end |-> h.end]
<1>1. /\ SegmentAt("durable", d) = IF d = NoRange THEN <<>> ELSE <<D>>
      /\ SegmentAt("hot", h) = IF h = NoRange THEN <<>> ELSE <<H>>
  BY DEF SegmentAt
<1> HIDE DEF D, H
<1> QED BY <1>1, ConcatSmall, Zenon DEF Segments, D, H

(* The served range runs from the first segment to the end of the last. *)
LEMMA ServedIs ==
  ASSUME NEW a, NEW d \in MaybeRange, NEW h \in MaybeRange, a.segments = Segments(d, h),
         NEW finality, NEW covered, NEW top,
         Parts(a.range, a.wanted, d, h, finality, covered, top)
  PROVE  /\ d = NoRange /\ h = NoRange => Served(a) = NoRange
         /\ d # NoRange \/ h # NoRange =>
              /\ Served(a) \in Ranges
              /\ Served(a).start = (IF d # NoRange THEN d.start ELSE h.start)
              /\ Served(a).end = (IF h # NoRange THEN h.end ELSE d.end)
<1> DEFINE D == [source |-> "durable", start |-> d.start, end |-> d.end]
           H == [source |-> "hot", start |-> h.start, end |-> h.end]
<1>1. /\ d # NoRange => d \in Ranges /\ d.start \in Nat /\ d.end \in Nat
                        /\ d.start <= d.end /\ d.end <= MaxEnd
      /\ h # NoRange => h \in Ranges /\ h.start \in Nat /\ h.end \in Nat
                        /\ h.start <= h.end /\ h.end <= MaxEnd
  BY RangesType DEF MaybeRange
<1>2. MaxEnd \in Nat
  BY BlockPlanAssumption
<1>3. CASE d = NoRange /\ h = NoRange
  BY <1>3, SegmentsAre DEF Served
<1>4. CASE d # NoRange /\ h = NoRange
  <2>1. a.segments = <<D>> /\ D.start = d.start /\ D.end = d.end
    BY <1>4, SegmentsAre
  <2> HIDE DEF D
  <2>2. Served(a) = NewRange(d.start, d.end)
    BY <2>1 DEF Served
  <2> QED BY <1>1, <1>4, <2>2, NewRangeIs
<1>5. CASE d = NoRange /\ h # NoRange
  <2>1. a.segments = <<H>> /\ H.start = h.start /\ H.end = h.end
    BY <1>5, SegmentsAre
  <2> HIDE DEF H
  <2>2. Served(a) = NewRange(h.start, h.end)
    BY <2>1 DEF Served
  <2> QED BY <1>1, <1>5, <2>2, NewRangeIs
<1>6. CASE d # NoRange /\ h # NoRange
  <2>1. a.segments = <<D, H>> /\ D.start = d.start /\ H.end = h.end
    BY <1>6, SegmentsAre
  <2> HIDE DEF D, H
  <2>2. Served(a) = NewRange(d.start, h.end)
    BY <2>1 DEF Served
  <2>3. d.start <= h.end
    BY <1>1, <1>6 DEF Parts
  <2> QED BY <1>1, <1>6, <2>2, <2>3, NewRangeIs
<1> QED BY <1>3, <1>4, <1>5, <1>6

(* FinalizedCursor::advance passes a durable segment that leaves no gap,    *)
(* and nothing else.                                                        *)
LEMMA AdvanceIs ==
  ASSUME NEW d \in MaybeRange, NEW h \in MaybeRange, NEW at \in Nat
  PROVE  Advance(at, Segments(d, h))
           = IF d # NoRange /\ d.start <= at THEN Greatest(at, d.end + 1) ELSE at
<1> DEFINE S == Segments(d, h)
           Past(k) == Max({at} \cup {S[i].end + 1 : i \in 1..k})
           passed == {k \in 0..Len(S) : \A i \in 1..k :
                        S[i].source = "durable" /\ S[i].start <= Past(i - 1)}
<1>1. Advance(at, S) = Past(Max(passed))
  BY DEF Advance
<1>2. d # NoRange => d \in Ranges /\ d.start \in Nat /\ d.end \in Nat
  BY RangesType DEF MaybeRange
<1>3. /\ Len(S) \in 0..2
      /\ d # NoRange => Len(S) >= 1 /\ S[1].source = "durable" /\ S[1].start = d.start
                        /\ S[1].end = d.end
      /\ d = NoRange /\ Len(S) >= 1 => S[1].source = "hot"
      /\ Len(S) = 2 => S[2].source = "hot"
  BY SegmentsAre
<1> HIDE DEF S
<1>4. Past(0) = at
  <2>1. {at} \cup {S[i].end + 1 : i \in 1..0} = {at, at}
    OBVIOUS
  <2> QED BY <2>1, MaxPair
<1>5. ASSUME d # NoRange PROVE Past(1) = Greatest(at, d.end + 1)
  <2>1. {at} \cup {S[i].end + 1 : i \in 1..1} = {at, d.end + 1}
    BY <1>3, <1>5
  <2>2. d.end + 1 \in Int
    BY <1>2, <1>5
  <2> QED BY <2>1, <2>2, MaxPair DEF Greatest
<1> HIDE DEF Past
<1>6. 0 \in passed /\ 2 \notin passed /\ passed \subseteq 0..2
  BY <1>3
<1>7. 1 \in passed <=> d # NoRange /\ d.start <= at
  <2>1. 1 \in passed <=> /\ Len(S) >= 1 /\ S[1].source = "durable" /\ S[1].start <= Past(0)
    BY <1>3
  <2> QED BY <2>1, <1>3, <1>4
<1>8. CASE d # NoRange /\ d.start <= at
  <2>1. passed = {0, 1}
    BY <1>6, <1>7, <1>8
  <2>2. Max(passed) = 1
    BY <2>1, MaxPair
  <2> QED BY <1>1, <1>5, <1>8, <2>2 DEF S
<1>9. CASE ~(d # NoRange /\ d.start <= at)
  <2>1. passed = {0, 0}
    BY <1>6, <1>7, <1>9
  <2>2. Max(passed) = 0
    BY <2>1, MaxPair
  <2> QED BY <1>1, <1>4, <1>9, <2>2 DEF S
<1> QED BY <1>8, <1>9

(* The hot blocks of an answer are those of its hot segment. *)
LEMMA HotBlocksIs ==
  ASSUME NEW a, NEW d \in MaybeRange, NEW h \in MaybeRange, a.segments = Segments(d, h)
  PROVE  HotBlocks(a) = IF h = NoRange THEN {} ELSE BlocksOf(h)
<1> DEFINE D == [source |-> "durable", start |-> d.start, end |-> d.end]
           H == [source |-> "hot", start |-> h.start, end |-> h.end]
           hot == {t \in Range(a.segments) : t.source = "hot"}
<1>1. /\ D.source = "durable" /\ H.source = "hot" /\ H.start = h.start /\ H.end = h.end
      /\ a.segments = CASE d = NoRange /\ h = NoRange -> <<>>
                        [] d # NoRange /\ h = NoRange -> <<D>>
                        [] d = NoRange /\ h # NoRange -> <<H>>
                        [] d # NoRange /\ h # NoRange -> <<D, H>>
  BY SegmentsAre
<1> HIDE DEF D, H
<1>2. hot = IF h = NoRange THEN {} ELSE {H}
  BY <1>1 DEF Range
<1>3. HotBlocks(a) = UNION {s.start..s.end : s \in hot}
  BY DEF HotBlocks
<1> HIDE DEF hot
<1> QED BY <1>1, <1>2, <1>3 DEF BlocksOf

(* The first block of an answer that is not durable. *)
LEMMA FloorIs ==
  ASSUME NEW a, NEW d \in MaybeRange, NEW h \in MaybeRange, a.segments = Segments(d, h),
         NEW finality, NEW covered, NEW top,
         Parts(a.range, a.wanted, d, h, finality, covered, top)
  PROVE  Floor(a) = IF d # NoRange THEN d.end + 1
                    ELSE IF h # NoRange THEN h.start ELSE a.range.start
<1> DEFINE hot == {i \in DOMAIN a.segments : a.segments[i].source = "hot"}
           past == Advance(a.range.start, a.segments)
<1>1. /\ a.range.start \in Nat
      /\ d # NoRange => d.start = a.range.start /\ d.end \in Nat /\ d.start <= d.end
      /\ h # NoRange => h.start \in Nat /\ a.range.start <= h.start
  BY RangesType DEF Parts, MaybeRange
<1>2. past = IF d # NoRange THEN d.end + 1 ELSE a.range.start
  BY <1>1, AdvanceIs DEF Greatest
<1>3. Floor(a) = IF past = a.range.start /\ hot # {}
                 THEN Greatest(past, a.segments[Min(hot)].start) ELSE past
  BY DEF Floor
<1> HIDE DEF past
<1>4. ASSUME d = NoRange, h = NoRange PROVE hot = {}
  BY <1>4, SegmentsAre
<1>5. ASSUME d = NoRange, h # NoRange PROVE hot = {1} /\ a.segments[1].start = h.start
  BY <1>5, SegmentsAre
<1> HIDE DEF hot
<1>6. Min({1}) = 1
  BY MinPair
<1>7. CASE d # NoRange
  BY <1>1, <1>2, <1>3, <1>7
<1>8. CASE d = NoRange /\ h = NoRange
  BY <1>2, <1>3, <1>4, <1>8
<1>9. CASE d = NoRange /\ h # NoRange
  <2>1. hot # {} /\ a.segments[Min(hot)].start = h.start
    BY <1>5, <1>6, <1>9
  <2> QED BY <1>1, <1>2, <1>3, <1>9, <2>1 DEF Greatest
<1> QED BY <1>7, <1>8, <1>9

-----------------------------------------------------------------------------
(* Rows *)

LEMMA RowsAre ==
  ASSUME NEW c, NEW b, NEW r
  PROVE  r \in RowsOf(c, b) <=>
           \E n \in DOMAIN c : n \in b /\ c[n].log /\ r = [number |-> n, hash |-> Hash(c, n)]
BY DEF RowsOf, Row

LEMMA RowsHave ==
  ASSUME NEW c, NEW b, NEW r \in RowsOf(c, b)
  PROVE  \E n \in DOMAIN c : r = [number |-> n, hash |-> Hash(c, n)]
BY DEF RowsOf, Row

(* A prefix of a sequence, and its prefixes. *)
LEMMA PrefixSeq ==
  ASSUME NEW c \in Seq(BlockType), NEW n \in 0..Len(c)
  PROVE  /\ Hash(c, n) \in Seq(BlockType) /\ Len(Hash(c, n)) = n
         /\ \A i \in 1..n : Hash(c, n)[i] = c[i]
         /\ \A k \in 0..n : Hash(Hash(c, n), k) = Hash(c, k)
<1>1. /\ Hash(c, n) \in Seq(BlockType) /\ Len(Hash(c, n)) = n
      /\ \A i \in 1..n : Hash(c, n)[i] = c[i]
  BY PrefixIs DEF Hash
<1>2. ASSUME NEW k \in 0..n PROVE Hash(Hash(c, n), k) = Hash(c, k)
  <2> DEFINE x == Hash(Hash(c, n), k)
             y == Hash(c, k)
  <2>1. /\ x \in Seq(BlockType) /\ Len(x) = k
        /\ \A i \in 1..k : x[i] = Hash(c, n)[i]
    BY <1>1, PrefixIs DEF Hash
  <2>2. /\ y \in Seq(BlockType) /\ Len(y) = k
        /\ \A i \in 1..k : y[i] = c[i]
    BY PrefixIs DEF Hash
  <2> HIDE DEF x, y
  <2>3. \A i \in 1..k : x[i] = y[i]
    BY <2>1, <2>2, <1>1
  <2>4. x = y
    BY <2>1, <2>2, <2>3, SeqEqual
  <2> QED BY <2>4 DEF x, y
<1> QED BY <1>1, <1>2

(* The row of a block that has its log, whatever the chain. *)
LEMMA RowsAreLogs ==
  ASSUME NEW c \in Seq(BlockType), NEW b, NEW r \in RowsOf(c, b)
  PROVE  r \in LogRow /\ r.number \in b /\ r.number \in 1..Len(c)
<1>1. PICK n \in DOMAIN c : n \in b /\ c[n].log /\ r = [number |-> n, hash |-> Hash(c, n)]
  BY RowsAre
<1>2. n \in 1..Len(c) /\ n \in 0..Len(c) /\ n \in 1..n
  OBVIOUS
<1>3. Hash(c, n) \in Seq(BlockType) /\ Len(Hash(c, n)) = n /\ Hash(c, n)[n] = c[n]
  BY <1>2, PrefixSeq
<1> QED BY <1>1, <1>2, <1>3 DEF LogRow, RowType

(* Rows of more blocks, and of the blocks they are of. *)
LEMMA RowsWithin ==
  ASSUME NEW c, NEW b, NEW e
  PROVE  /\ b \subseteq e => RowsOf(c, b) \subseteq RowsOf(c, e)
         /\ \A r \in RowsOf(c, b) : r.number \in e => r \in RowsOf(c, e)
BY RowsAre

(* Chains with the same first blocks have the same rows of them. *)
LEMMA RowsSame ==
  ASSUME NEW c \in Seq(BlockType), NEW d \in Seq(BlockType), NEW k \in Nat,
         k <= Len(c), k <= Len(d), \A i \in 1..k : c[i] = d[i],
         NEW b, b \subseteq 1..k
  PROVE  RowsOf(c, b) = RowsOf(d, b)
<1>1. ASSUME NEW n \in 1..k PROVE Hash(c, n) = Hash(d, n)
  <2>1. n \in 0..Len(c) /\ n \in 0..Len(d) /\ n \in Nat
    OBVIOUS
  <2>2. /\ Hash(c, n) \in Seq(BlockType) /\ Len(Hash(c, n)) = n
        /\ \A i \in 1..n : Hash(c, n)[i] = c[i]
    BY <2>1, PrefixSeq, Zenon
  <2>3. /\ Hash(d, n) \in Seq(BlockType) /\ Len(Hash(d, n)) = n
        /\ \A i \in 1..n : Hash(d, n)[i] = d[i]
    BY <2>1, PrefixSeq, Zenon
  <2>4. \A i \in 1..n : Hash(c, n)[i] = Hash(d, n)[i]
    <3>1. \A i \in 1..n : c[i] = d[i]
      BY <2>1
    <3> QED BY <2>2, <2>3, <3>1, Zenon
  <2> QED BY <2>2, <2>3, <2>4, SeqEqual
<1>2. ASSUME NEW n \in b
      PROVE  n \in DOMAIN c /\ n \in DOMAIN d /\ c[n] = d[n] /\ Hash(c, n) = Hash(d, n)
  BY <1>1
<1>3. ASSUME NEW r PROVE r \in RowsOf(c, b) <=> r \in RowsOf(d, b)
  BY <1>2, RowsAre
<1> QED BY <1>3, Zenon

(* What was answered stays so while more is covered and safe. *)
LEMMA AnsweredStays ==
  ASSUME NEW a, NEW finality, NEW c1 \in Nat, NEW c2 \in Nat, NEW t1 \in Nat, NEW t2 \in Nat,
         c1 <= c2, t1 <= t2, Answered(a, finality, c1, t1)
  PROVE  Answered(a, finality, c2, t2)
<1>1. PICK d \in MaybeRange, h \in MaybeRange :
        a.segments = Segments(d, h) /\ Parts(a.range, a.wanted, d, h, finality, c1, t1)
  BY DEF Answered
<1>2. /\ a.range \in Ranges /\ a.range.end \in Nat
      /\ d # NoRange => d.end \in Nat
      /\ a.wanted # NoRange => a.wanted.start \in Nat
  BY <1>1, RangesType DEF Parts, MaybeRange
<1>3. Parts(a.range, a.wanted, d, h, finality, c2, t2)
  BY <1>1, <1>2 DEF Parts
<1> QED BY <1>1, <1>3 DEF Answered

(* A durable_only answer serves covered blocks, from the start of its range. *)
LEMMA DurableServed ==
  ASSUME NEW a, NEW covered \in Nat, NEW top, Served(a) # NoRange,
         Answered(a, "durable_only", covered, top)
  PROVE  /\ Served(a) \in Ranges /\ Served(a).start = a.range.start
         /\ Served(a).start > 0 /\ Served(a).end <= covered
         /\ BlocksOf(Served(a)) \subseteq 1..covered
<1>1. PICK d \in MaybeRange, h \in MaybeRange :
        a.segments = Segments(d, h) /\ Parts(a.range, a.wanted, d, h, "durable_only", covered, top)
  BY DEF Answered
<1>2. h = NoRange
  BY <1>1 DEF Parts
<1>3. d # NoRange
  BY <1>1, <1>2, ServedIs
<1>4. /\ Served(a) \in Ranges /\ Served(a).start = d.start /\ Served(a).end = d.end
  BY <1>1, <1>2, <1>3, ServedIs
<1>5. d.start = a.range.start /\ d.end <= covered /\ a.range.start > 0
  BY <1>1, <1>3 DEF Parts
<1>6. Served(a).start \in Nat /\ Served(a).end \in Nat
  BY <1>4, RangesType
<1> QED BY <1>4, <1>5, <1>6 DEF BlocksOf

-----------------------------------------------------------------------------
(* The invariant, step by step *)

LEMMA SdkHeights ==
  ASSUME ChainInv
  PROVE  /\ chain \in Seq(BlockType) /\ Len(chain) \in Nat /\ Len(chain) <= MaxEnd
         /\ view \in Seq(BlockType) /\ Len(view) \in Nat /\ Len(view) <= MaxEnd
         /\ safe \in Nat /\ 1 <= safe /\ safe <= Len(chain)
         /\ durable \in Nat /\ 1 <= durable /\ durable <= safe
         /\ MaxEnd \in Nat /\ MaxEnd > 0 /\ MaxU64 \in Nat /\ MaxEnd < MaxU64
BY BlockPlanAssumption, SdkAssumption DEF ChainInv

LEMMA NoCallType ==
  NoCall \in CallType /\ NoCall.pc = "none" /\ NoCall.rows = {}
<1>1. NoRange \in MaybeRange
  BY DEF MaybeRange
<1>2. Segments(NoRange, NoRange) = <<>>
  BY <1>1, SegmentsAre
<1>3. <<>> \in Segmentations
  BY <1>1, <1>2 DEF Segmentations
<1> QED BY <1>1, <1>3 DEF NoCall, CallType, NoAnchor

LEMMA InitOK ==
  ASSUME Init
  PROVE  SdkInv
<1>1. /\ Genesis \in Seq(BlockType) /\ Len(Genesis) = 1
  BY DEF Genesis, BlockType
<1>2. ChainInv
  BY <1>1, BlockPlanAssumption, SdkAssumption DEF Init, ChainInv
<1>3. CallInv
  BY NoCallType DEF Init, CallInv
<1>4. told = [n \in 1..MaxEnd |-> <<>>] /\ next = 1 /\ from = 1
  BY DEF Init
<1>5. ReportedOnce
  BY <1>4 DEF ReportedOnce
<1>6. StreamInv
  BY <1>4, <1>5, <1>2, SdkHeights, NoCallType DEF Init, StreamInv, NoHeads
<1>7. SavedInv
  BY <1>2, SdkHeights DEF Init, SavedInv
<1>8. RowsOf(chain, 1..0) = {}
  BY RowsAre
<1>9. CollectedInv
  BY <1>8, NoCallType DEF Init, CollectedInv, Collected
<1> QED BY <1>2, <1>3, <1>6, <1>7, <1>9 DEF SdkInv

(* The chain changes above its safe blocks, and more of it is followed,    *)
(* safe and covered.                                                        *)
Moved ==
  /\ program' = program
  /\ chain' \in Seq(BlockType) /\ Len(chain') <= MaxEnd /\ forks' \in Nat
  /\ safe' \in Nat /\ safe <= safe' /\ safe' <= Len(chain')
  /\ \A i \in 1..safe : chain'[i] = chain[i]
  /\ view' \in Seq(BlockType) /\ Len(view') <= MaxEnd
  /\ durable' \in Nat /\ durable <= durable' /\ durable' <= safe'

LEMMA ServiceMoves ==
  ASSUME SdkInv, Moved, UNCHANGED <<call, followVars>>
  PROVE  SdkInv'
<1>1. /\ call' = call /\ pc' = pc /\ next' = next /\ heads' = heads /\ from' = from
      /\ told' = told /\ written' = written /\ checkpoint' = checkpoint /\ program' = program
  BY DEF followVars, Moved
<1>0. /\ safe \in Nat /\ safe' \in Nat /\ safe <= safe' /\ 1 <= safe
      /\ durable \in Nat /\ durable' \in Nat /\ durable <= durable' /\ 1 <= durable
      /\ durable <= safe /\ durable' <= safe' /\ MaxEnd \in Nat
  BY SdkHeights DEF SdkInv, Moved
<1>2. ChainInv'
  BY <1>0, SdkHeights DEF ChainInv, SdkInv, Moved
<1>3. CallInv'
  BY <1>0, <1>1, AnsweredStays DEF SdkInv, CallInv
<1>4. StreamInv'
  <2>1. ReportedOnce'
    <3>1. ASSUME NEW n \in 1..MaxEnd, n <= safe PROVE n <= safe'
      BY <3>1, <1>0
    <3>2. told \in [1..MaxEnd -> Seq({"batch", "skipped"})] /\ ReportedOnce
      BY DEF SdkInv, StreamInv
    <3> QED BY <3>1, <3>2, <1>1 DEF ReportedOnce
  <2>2. heads.safe \in Nat /\ heads.safe <= safe
    BY DEF SdkInv, StreamInv
  <2>3. heads'.safe <= safe'
    BY <2>2, <1>0, <1>1
  <2> QED BY <1>1, <2>1, <2>3 DEF SdkInv, StreamInv
<1>5. ASSUME NEW b, b \subseteq 1..safe PROVE RowsOf(chain', b) = RowsOf(chain, b)
  <2>1. /\ chain \in Seq(BlockType) /\ safe \in Nat /\ safe <= Len(chain)
        /\ chain' \in Seq(BlockType) /\ \A i \in 1..safe : chain'[i] = chain[i]
    BY SdkHeights DEF SdkInv, Moved
  <2>2. safe' <= Len(chain') /\ Len(chain') \in Nat
    BY <2>1 DEF Moved
  <2>3. safe <= Len(chain')
    BY <2>2, <1>0
  <2> QED BY <1>5, <2>1, <2>3, RowsSame, Zenon
<1>6. SavedInv'
  <2>1. checkpoint' \in 1..(durable' + 1)
    <3>1. checkpoint \in 1..(durable + 1)
      BY DEF SdkInv, SavedInv
    <3>2. \A c, x, y \in Nat : c \in 1..(x + 1) /\ x <= y => c \in 1..(y + 1)
      OBVIOUS
    <3>3. checkpoint \in Nat
      BY <3>1, <1>0
    <3>4. durable \in Nat /\ durable' \in Nat /\ durable <= durable'
      BY <1>0
    <3>5. checkpoint \in 1..(durable' + 1)
      BY <3>1, <3>2, <3>3, <3>4, Zenon
    <3> QED BY <3>5, <1>1
  <2>2. ASSUME pc = "save"
        PROVE  \E d, h \in MaybeRange :
                 /\ call.segments = Segments(d, h)
                 /\ d # NoRange => /\ d.start > 0 /\ d.end <= durable'
                                   /\ program.finality = "durable_only" =>
                                        RowsOf(chain', BlocksOf(d)) \subseteq written
    <3>1. PICK d \in MaybeRange, h \in MaybeRange :
            /\ call.segments = Segments(d, h)
            /\ d # NoRange => /\ d.start > 0 /\ d.end <= durable
                              /\ program.finality = "durable_only" =>
                                   RowsOf(chain, BlocksOf(d)) \subseteq written
      BY <2>2 DEF SdkInv, SavedInv
    <3>2. ASSUME d # NoRange
          PROVE  d.end <= durable' /\ BlocksOf(d) \subseteq 1..safe
      <4>1. d.start \in Nat /\ d.end \in Nat
        BY <3>2, RangesType DEF MaybeRange
      <4> QED BY <4>1, <3>1, <3>2, <1>0 DEF BlocksOf
    <3>3. d # NoRange => RowsOf(chain', BlocksOf(d)) = RowsOf(chain, BlocksOf(d))
      BY <3>2, <1>5
    <3> QED BY <3>1, <3>2, <3>3
  <2> QED BY <1>1, <2>1, <2>2 DEF SavedInv
<1>7. CollectedInv'
  <2>1. SUFFICES ASSUME program.finality = "durable_only" PROVE CollectedInv'
    BY <1>1 DEF CollectedInv
  <2>2. /\ 1..durable \subseteq 1..safe /\ 1..durable \subseteq 1..durable'
        /\ 1..durable' \subseteq 1..safe'
    BY <1>0
  <2>3. RowsOf(chain, 1..durable) \subseteq RowsOf(chain', 1..durable')
    BY <2>2, <1>5, RowsWithin, Zenon
  <2>4. RowsOf(chain', 1..(checkpoint - 1)) = RowsOf(chain, 1..(checkpoint - 1))
    <3>1. checkpoint \in 1..(durable + 1)
      BY DEF SdkInv, SavedInv
    <3>2. 1..(checkpoint - 1) \subseteq 1..safe
      BY <3>1, <1>0
    <3> QED BY <3>2, <1>5, Zenon
  <2>5. ASSUME call.pc \in {"serve", "rows"}
        PROVE  /\ call.after <= durable'
               /\ RowsOf(chain', call.range.start..call.after)
                    = RowsOf(chain, call.range.start..call.after)
    <3>1. call.after <= durable /\ call.after \in Nat /\ call.range \in Ranges
          /\ call.range.start > 0
      BY <2>1, <2>5 DEF SdkInv, CollectedInv, Collected, CallInv, CallType
    <3>2. call.range.start \in Nat
      BY <3>1, RangesType
    <3>3. call.range.start..call.after \subseteq 1..safe /\ call.after <= durable'
      BY <3>1, <3>2, <1>0
    <3> QED BY <3>3, <1>5, Zenon
  <2>6. ASSUME call.pc = "done", Served(call) # NoRange
        PROVE  RowsOf(chain', BlocksOf(Served(call))) = RowsOf(chain, BlocksOf(Served(call)))
    <3>1. Answered(call, program.finality, durable, safe)
      BY <2>6 DEF SdkInv, CallInv
    <3>2. BlocksOf(Served(call)) \subseteq 1..durable
      BY <3>1, <2>1, <2>6, <1>0, DurableServed
    <3> QED BY <3>2, <2>2, <1>5
  <2> QED BY <2>1, <2>3, <2>4, <2>5, <2>6, <1>1 DEF SdkInv, CollectedInv, Collected
<1> QED BY <1>2, <1>3, <1>4, <1>6, <1>7 DEF SdkInv

(* What two chains have in common is a part of the first. *)
LEMMA CommonIs ==
  ASSUME NEW a \in Seq(BlockType), NEW b \in Seq(BlockType)
  PROVE  Common(a, b) \in Seq(BlockType) /\ Len(Common(a, b)) <= Len(a)
<1> DEFINE S == {n \in 0..Least(Len(a), Len(b)) : Hash(a, n) = Hash(b, n)}
<1>1. /\ Len(a) \in Nat /\ Least(Len(a), Len(b)) \in Nat
      /\ Least(Len(a), Len(b)) <= Len(a)
  BY DEF Least
<1>2. Hash(a, 0) = Hash(b, 0)
  BY DEF Hash
<1>3. S \in SUBSET (0..Least(Len(a), Len(b))) /\ S # {}
  BY <1>1, <1>2
<1>4. Common(a, b) = Hash(a, Max(S))
  BY DEF Common
<1> HIDE DEF S
<1>5. Max(S) \in 0..Least(Len(a), Len(b))
  BY <1>1, <1>3, MaxNat
<1>6. Max(S) \in 0..Len(a) /\ Max(S) <= Len(a)
  BY <1>1, <1>5
<1> QED BY <1>4, <1>6, PrefixSeq

LEMMA ChainStepOK ==
  ASSUME SdkInv, ChainStep
  PROVE  SdkInv' /\ Moved
<1>0. /\ chain \in Seq(BlockType) /\ Len(chain) \in Nat /\ Len(chain) <= MaxEnd /\ forks \in Nat
      /\ view \in Seq(BlockType) /\ Len(view) <= MaxEnd
      /\ safe \in Nat /\ safe <= Len(chain) /\ durable \in Nat /\ durable <= safe
  BY SdkHeights DEF SdkInv, ChainInv
<1>1. ASSUME NEW log \in BOOLEAN, Mine(log) PROVE Moved /\ UNCHANGED <<call, followVars>>
  <2> DEFINE block == [fork |-> forks, log |-> log]
  <2>1. /\ Len(chain) < MaxEnd /\ chain' = Append(chain, block)
        /\ forks' = forks /\ safe' = safe /\ view' = view /\ durable' = durable
        /\ program' = program /\ UNCHANGED <<call, followVars>>
    BY <1>1 DEF Mine, serviceVars
  <2>2. block \in BlockType
    BY <1>0 DEF BlockType
  <2> HIDE DEF block
  <2>3. /\ chain' \in Seq(BlockType) /\ Len(chain') = Len(chain) + 1
        /\ \A i \in 1..Len(chain) : chain'[i] = chain[i]
    BY <1>0, <2>1, <2>2, AppendIs
  <2>4. /\ Len(chain') <= MaxEnd /\ safe <= Len(chain')
        /\ \A i \in 1..safe : chain'[i] = chain[i]
    BY <1>0, <2>1, <2>3, BlockPlanAssumption
  <2> QED BY <1>0, <2>1, <2>3, <2>4 DEF Moved
<1>2. ASSUME NEW n \in 2..Len(chain), NEW log \in BOOLEAN, Reorg(n, log)
      PROVE  Moved /\ UNCHANGED <<call, followVars>>
  <2> DEFINE block == [fork |-> forks', log |-> log]
             stem == Hash(chain, n - 1)
  <2>1. /\ n > safe /\ forks' = forks + 1 /\ chain' = Append(stem, block)
        /\ safe' = safe /\ view' = view /\ durable' = durable
        /\ program' = program /\ UNCHANGED <<call, followVars>>
    BY <1>2 DEF Reorg, serviceVars, Hash
  <2>2. block \in BlockType /\ forks' \in Nat
    BY <1>0, <2>1 DEF BlockType
  <2>3. /\ stem \in Seq(BlockType) /\ Len(stem) = n - 1
        /\ \A i \in 1..(n - 1) : stem[i] = chain[i]
    <3>1. n - 1 \in 0..Len(chain)
      BY <1>0
    <3> QED BY <1>0, <3>1, PrefixSeq
  <2> HIDE DEF block, stem
  <2>4. /\ chain' \in Seq(BlockType) /\ Len(chain') = n
        /\ \A i \in 1..(n - 1) : chain'[i] = stem[i]
    BY <2>1, <2>2, <2>3, AppendIs
  <2>5. /\ Len(chain') <= MaxEnd /\ safe <= Len(chain')
    BY <1>0, <2>1, <2>4, BlockPlanAssumption
  <2>6. \A i \in 1..safe : chain'[i] = chain[i]
    BY <1>0, <2>1, <2>3, <2>4
  <2> QED BY <1>0, <2>1, <2>2, <2>4, <2>5, <2>6 DEF Moved
<1>3. ASSUME SafeMoves PROVE Moved /\ UNCHANGED <<call, followVars>>
  <2>1. /\ safe < Len(chain) /\ safe' = safe + 1 /\ chain' = chain /\ forks' = forks
        /\ view' = view /\ durable' = durable /\ program' = program
        /\ UNCHANGED <<call, followVars>>
    BY <1>3 DEF SafeMoves, serviceVars
  <2>2. safe' \in Nat /\ safe <= safe' /\ safe' <= Len(chain) /\ durable <= safe'
    BY <1>0, <2>1
  <2> QED BY <1>0, <2>1, <2>2 DEF Moved
<1> QED BY <1>1, <1>2, <1>3, ServiceMoves DEF ChainStep

LEMMA FollowOK ==
  ASSUME SdkInv, Follow
  PROVE  SdkInv' /\ Moved
<1>0. /\ chain \in Seq(BlockType) /\ Len(chain) \in Nat /\ Len(chain) <= MaxEnd /\ forks \in Nat
      /\ view \in Seq(BlockType) /\ Len(view) \in Nat /\ Len(view) <= MaxEnd /\ MaxEnd \in Nat
      /\ safe \in Nat /\ safe <= Len(chain) /\ durable \in Nat /\ durable <= safe
  BY SdkHeights DEF SdkInv, ChainInv
<1>1. /\ view' = IF OnChain(view, chain) THEN chain ELSE Common(view, chain)
      /\ chain' = chain /\ forks' = forks /\ safe' = safe /\ durable' = durable
      /\ program' = program /\ UNCHANGED <<call, followVars>>
  BY DEF Follow, chainVars
<1> DEFINE common == Common(view, chain)
<1>2. common \in Seq(BlockType) /\ Len(common) <= Len(view)
  BY <1>0, CommonIs
<1> HIDE DEF common
<1>3. view' \in {chain, common}
  BY <1>1 DEF common
<1>4. view' \in Seq(BlockType) /\ Len(view') <= MaxEnd
  BY <1>0, <1>2, <1>3
<1>5. Moved
  BY <1>0, <1>1, <1>4 DEF Moved
<1> QED BY <1>1, <1>5, ServiceMoves

LEMMA CoverOK ==
  ASSUME SdkInv, Cover
  PROVE  SdkInv' /\ Moved
<1>0. /\ chain \in Seq(BlockType) /\ Len(chain) \in Nat /\ Len(chain) <= MaxEnd /\ forks \in Nat
      /\ view \in Seq(BlockType) /\ Len(view) <= MaxEnd
      /\ safe \in Nat /\ safe <= Len(chain) /\ durable \in Nat
  BY SdkHeights DEF SdkInv, ChainInv
<1>1. /\ durable < safe /\ durable' = durable + 1 /\ view' = view
      /\ chain' = chain /\ forks' = forks /\ safe' = safe
      /\ program' = program /\ UNCHANGED <<call, followVars>>
  BY DEF Cover, chainVars
<1>2. durable' \in Nat /\ durable <= durable' /\ durable' <= safe
  BY <1>0, <1>1
<1>3. Moved
  BY <1>0, <1>1, <1>2 DEF Moved
<1> QED BY <1>1, <1>3, ServiceMoves

-----------------------------------------------------------------------------
(* query_all *)

(* What the service decides to serve of a range is an answer to it. *)
LEMMA DecidedParts ==
  ASSUME NEW range \in Ranges, range.start > 0, NEW finality,
         NEW top \in Nat, NEW filled \in Nat, NEW head \in Nat
  PROVE  LET below   == IF finality = "latest_only" THEN NoRange ELSE DurablePart(range, top)
             wanted  == IF finality = "durable_only" THEN NoRange
                        ELSE NewRange(Greatest(range.start, top + 1), range.end)
             covered == IF below = NoRange THEN NoRange
                        ELSE NewRange(below.start, Least(below.end, filled))
             hot     == IF covered # below \/ wanted = NoRange THEN NoRange
                        ELSE NewRange(wanted.start, Least(wanted.end, head))
         IN /\ wanted \in MaybeRange /\ covered \in MaybeRange /\ hot \in MaybeRange
            /\ Parts(range, wanted, covered, hot, finality, filled, top)
            /\ hot # NoRange => hot.end <= head
<1> DEFINE below   == IF finality = "latest_only" THEN NoRange ELSE DurablePart(range, top)
           wanted  == IF finality = "durable_only" THEN NoRange
                      ELSE NewRange(Greatest(range.start, top + 1), range.end)
           covered == IF below = NoRange THEN NoRange
                      ELSE NewRange(below.start, Least(below.end, filled))
           hot     == IF covered # below \/ wanted = NoRange THEN NoRange
                      ELSE NewRange(wanted.start, Least(wanted.end, head))
<1>0. /\ range.start \in Nat /\ range.end \in Nat /\ range.start <= range.end
      /\ range.end <= MaxEnd /\ MaxEnd \in Nat /\ NoRange \in MaybeRange
      /\ \A r \in Ranges : r \in MaybeRange /\ r # NoRange
  BY RangesType, BlockPlanAssumption DEF MaybeRange, Ranges
<1>1. /\ below # NoRange <=> finality # "latest_only" /\ range.start <= top
      /\ below # NoRange => below \in Ranges /\ below.start = range.start
                            /\ below.end = Least(range.end, top)
  <2>1. Least(range.end, top) \in Nat /\ Least(range.end, top) <= MaxEnd
        /\ (range.start <= Least(range.end, top) <=> range.start <= top)
    BY <1>0 DEF Least
  <2> QED BY <1>0, <2>1, NewRangeIs DEF DurablePart
<1>2. /\ wanted # NoRange <=> finality # "durable_only" /\ top < range.end
      /\ wanted # NoRange => wanted \in Ranges /\ wanted.start = Greatest(range.start, top + 1)
                             /\ wanted.end = range.end
  <2>1. /\ Greatest(range.start, top + 1) \in Nat
        /\ Greatest(range.start, top + 1) <= range.end <=> top < range.end
    BY <1>0 DEF Greatest
  <2> QED BY <1>0, <2>1, NewRangeIs
<1> HIDE DEF below, wanted
<1>3. /\ covered # NoRange => /\ below # NoRange /\ covered \in Ranges
                              /\ covered.start = range.start
                              /\ covered.end = Least(below.end, filled)
  <2>1. CASE below = NoRange
    BY <2>1
  <2>2. CASE below # NoRange
    <3>1. Least(below.end, filled) \in Nat
      BY <1>0, <1>1, <2>2 DEF Least
    <3> QED BY <1>0, <1>1, <2>2, <3>1, NewRangeIs
  <2> QED BY <2>1, <2>2
<1> HIDE DEF covered
<1>4. /\ hot # NoRange => /\ covered = below /\ wanted # NoRange /\ hot \in Ranges
                          /\ hot.start = wanted.start
                          /\ hot.end = Least(wanted.end, head)
  <2>1. CASE covered # below \/ wanted = NoRange
    BY <2>1
  <2>2. CASE ~(covered # below \/ wanted = NoRange)
    <3>1. Least(wanted.end, head) \in Nat /\ wanted.start \in Nat
      BY <1>0, <1>2, <2>2 DEF Least, Greatest
    <3> QED BY <1>0, <1>2, <2>2, <3>1, NewRangeIs
  <2> QED BY <2>1, <2>2
<1> HIDE DEF hot
<1>5. wanted \in MaybeRange /\ covered \in MaybeRange /\ hot \in MaybeRange
  BY <1>0, <1>2, <1>3, <1>4 DEF MaybeRange
<1>6. covered # NoRange => /\ finality # "latest_only" /\ covered.start = range.start
                           /\ covered.end <= range.end /\ covered.end <= filled
  BY <1>0, <1>1, <1>3 DEF Least
<1>7. ASSUME hot # NoRange
      PROVE  /\ finality # "durable_only" /\ wanted # NoRange
             /\ hot.start = wanted.start /\ hot.end <= range.end /\ hot.end <= head
             /\ covered # NoRange => hot.start = covered.end + 1
             /\ covered = NoRange /\ finality # "latest_only" => hot.start = range.start
  <2>1. /\ hot.end <= range.end /\ hot.end <= head /\ hot.start = Greatest(range.start, top + 1)
        /\ top < range.end /\ finality # "durable_only"
    BY <1>0, <1>2, <1>4, <1>7 DEF Least
  <2>2. ASSUME covered # NoRange PROVE hot.start = covered.end + 1
    <3>1. covered.end = top /\ range.start <= top
      BY <1>0, <1>1, <1>3, <1>4, <1>7, <2>1, <2>2 DEF Least
    <3> QED BY <1>0, <2>1, <3>1 DEF Greatest
  <2>3. ASSUME covered = NoRange, finality # "latest_only" PROVE hot.start = range.start
    BY <1>0, <1>1, <1>4, <1>7, <2>1, <2>3 DEF Greatest
  <2> QED BY <1>4, <1>7, <2>1, <2>2, <2>3
<1>8. wanted # NoRange => /\ range.start <= wanted.start /\ wanted.start <= range.end
                          /\ wanted.start = range.start \/ wanted.start <= top + 1
  BY <1>0, <1>2 DEF Greatest
<1>9. finality = "latest_only" /\ wanted = NoRange => range.end <= top
  BY <1>0, <1>2
<1>10. Parts(range, wanted, covered, hot, finality, filled, top)
  BY <1>5, <1>6, <1>7, <1>8, <1>9 DEF Parts
<1> QED BY <1>5, <1>7, <1>10, Zenon DEF below, wanted, covered, hot

(* A call goes on: nothing else moves. *)
LEMMA CallMoves ==
  ASSUME SdkInv, UNCHANGED <<chainVars, serviceVars, followVars>>,
         call.pc \in {"serve", "rows"},
         NEW c, call' = c, c \in CallType, c.pc # "none", c.range = call.range,
         c.pc \in {"rows", "done"} => Answered(c, program.finality, durable, safe),
         program.finality = "durable_only" => Collected(c, chain, durable)
  PROVE  SdkInv'
<1>1. /\ program' = program /\ chain' = chain /\ forks' = forks /\ safe' = safe
      /\ view' = view /\ durable' = durable
      /\ pc' = pc /\ next' = next /\ heads' = heads /\ from' = from
      /\ told' = told /\ written' = written /\ checkpoint' = checkpoint
  BY DEF chainVars, serviceVars, followVars
<1>2. ChainInv'
  BY <1>1 DEF SdkInv, ChainInv
<1>3. CallInv'
  BY <1>1 DEF SdkInv, CallInv
<1>4. pc # "save" /\ (pc \in {"step", "done"} => program.kind # "follow")
  BY NoCallType DEF SdkInv, StreamInv
<1>5. ReportedOnce'
  BY <1>1 DEF SdkInv, StreamInv, ReportedOnce
<1>6. StreamInv'
  BY <1>1, <1>4, <1>5 DEF SdkInv, StreamInv
<1>7. SavedInv'
  BY <1>1, <1>4 DEF SdkInv, SavedInv
<1>8. CollectedInv'
  BY <1>1 DEF SdkInv, CollectedInv
<1> QED BY <1>2, <1>3, <1>6, <1>7, <1>8 DEF SdkInv

LEMMA QueryServesOK ==
  ASSUME SdkInv, QueryServes
  PROVE  /\ SdkInv'
         /\ call'.rows = call.rows /\ call'.range = call.range
         /\ call'.pc = "rows" /\ call.pc = "serve"
<1> DEFINE range   == call.range
           below   == IF program.finality = "latest_only" THEN NoRange ELSE DurablePart(range, safe)
           wanted  == IF program.finality = "durable_only" THEN NoRange
                      ELSE NewRange(Greatest(range.start, safe + 1), range.end)
           covered == IF below = NoRange THEN NoRange
                      ELSE NewRange(below.start, Least(below.end, durable))
           hot     == IF covered # below \/ wanted = NoRange THEN NoRange
                      ELSE NewRange(wanted.start, Least(wanted.end, Len(view)))
           anchor  == IF hot = NoRange THEN NoAnchor ELSE {Row(view, Len(view))}
           c == [call EXCEPT !.pc = "rows", !.wanted = wanted,
                             !.segments = Segments(covered, hot), !.anchor = anchor]
<1>1. /\ call.pc = "serve" /\ call' = c
      /\ UNCHANGED <<chainVars, serviceVars, followVars>>
  BY DEF QueryServes, Segments
<1>2. /\ call \in CallType /\ range \in Ranges /\ range.start > 0
  BY <1>1 DEF SdkInv, CallInv
<1>3. /\ safe \in Nat /\ durable \in Nat /\ Len(view) \in Nat /\ view \in Seq(BlockType)
  BY SdkHeights DEF SdkInv
<1>4. /\ wanted \in MaybeRange /\ covered \in MaybeRange /\ hot \in MaybeRange
      /\ Parts(range, wanted, covered, hot, program.finality, durable, safe)
  BY <1>2, <1>3, DecidedParts, ZenonT(60)
<1>5. anchor \in SUBSET RowType
  <2>1. Hash(view, Len(view)) \in Seq(BlockType)
    BY <1>3, PrefixSeq
  <2>2. Row(view, Len(view)) \in RowType
    BY <1>3, <2>1 DEF Row, RowType
  <2> QED BY <2>2 DEF NoAnchor
<1> HIDE DEF wanted, covered, hot, anchor, below
<1>6. Segments(covered, hot) \in Segmentations
  BY <1>4, SegmentsType, Zenon
<1>7. /\ c \in CallType /\ c.pc = "rows" /\ c.range = range /\ c.wanted = wanted
      /\ c.segments = Segments(covered, hot) /\ c.rows = call.rows /\ c.known = call.known
      /\ c.after = call.after
  BY <1>2, <1>4, <1>5, <1>6, Zenon DEF CallType
<1> HIDE DEF c
<1>8. Answered(c, program.finality, durable, safe)
  BY <1>4, <1>7 DEF Answered
<1>9. ASSUME program.finality = "durable_only" PROVE Collected(c, chain, durable)
  BY <1>1, <1>7, <1>9, Zenon DEF SdkInv, CollectedInv, Collected
<1>10. SdkInv'
  BY <1>1, <1>7, <1>8, <1>9, CallMoves
<1> QED BY <1>1, <1>7, <1>10

(* The service stores a row of a block at most once, and of covered blocks  *)
(* the chain's.                                                             *)
LEMMA StoredIs ==
  ASSUME ChainInv
  PROVE  /\ IsFiniteSet(Stored) /\ Cardinality(Stored) <= MaxEnd
         /\ \A r \in Stored : r \in LogRow /\ r.number \in 1..MaxEnd
         /\ \A r, x \in Stored : r.number = x.number => r = x
         /\ \A r \in Stored : r.number <= durable => r \in RowsOf(chain, 1..durable)
         /\ RowsOf(chain, 1..durable) \subseteq Stored
<1> DEFINE f == [n \in 1..MaxEnd |-> IF n <= durable THEN Row(chain, n) ELSE Row(view, n)]
           T == {f[n] : n \in 1..MaxEnd}
           low == RowsOf(chain, 1..durable)
           high == RowsOf(view, (durable + 1)..MaxEnd)
<1>0. /\ chain \in Seq(BlockType) /\ view \in Seq(BlockType)
      /\ durable \in Nat /\ MaxEnd \in Nat /\ durable <= MaxEnd
  BY SdkHeights
<1>1. ASSUME NEW r \in low PROVE r \in LogRow /\ r.number \in 1..durable /\ r = Row(chain, r.number)
  <2>1. r \in LogRow /\ r.number \in 1..durable
    BY <1>0, RowsAreLogs
  <2> QED BY <2>1, RowsAre DEF Row
<1>2. ASSUME NEW r \in high
      PROVE  r \in LogRow /\ r.number \in (durable + 1)..MaxEnd /\ r = Row(view, r.number)
  <2>1. r \in LogRow /\ r.number \in (durable + 1)..MaxEnd
    BY <1>0, RowsAreLogs
  <2> QED BY <2>1, RowsAre DEF Row
<1>3. Stored = low \cup high
  BY DEF Stored
<1> HIDE DEF low, high
<1>4. ASSUME NEW r \in Stored
      PROVE  r \in LogRow /\ r.number \in 1..MaxEnd /\ r = f[r.number]
             /\ (r.number <= durable => r \in low)
  <2>1. CASE r \in low
    <3>1. r \in LogRow /\ r.number \in 1..durable /\ r = Row(chain, r.number)
      BY <1>1, <2>1
    <3>2. r.number \in 1..MaxEnd /\ r.number <= durable
      BY <1>0, <3>1
    <3> QED BY <2>1, <3>1, <3>2
  <2>2. CASE r \in high
    <3>1. r \in LogRow /\ r.number \in (durable + 1)..MaxEnd /\ r = Row(view, r.number)
      BY <1>2, <2>2
    <3>2. r.number \in 1..MaxEnd /\ ~(r.number <= durable)
      BY <1>0, <3>1
    <3> QED BY <3>1, <3>2
  <2> QED BY <1>3, <2>1, <2>2
<1>5. IsFiniteSet(T) /\ Cardinality(T) <= MaxEnd
  <2>1. IsFiniteSet(1..MaxEnd) /\ Cardinality(1..MaxEnd) = MaxEnd
    BY <1>0, FS_Interval
  <2>2. DOMAIN f = 1..MaxEnd
    OBVIOUS
  <2> HIDE DEF f
  <2> QED BY <2>1, <2>2, ImageFinite, Zenon
<1>6. \A r \in Stored : r \in T
  BY <1>4, Zenon
<1> HIDE DEF f, T
<1>7. Stored \in SUBSET T
  BY <1>6
<1>8. IsFiniteSet(Stored) /\ Cardinality(Stored) <= Cardinality(T)
  BY <1>5, <1>7, FS_Subset
<1>9. Cardinality(Stored) <= MaxEnd
  <2>1. Cardinality(Stored) \in Nat /\ Cardinality(T) \in Nat
    BY <1>5, <1>8, FS_CardinalityType
  <2> QED BY <1>0, <1>5, <1>8, <2>1
<1> QED BY <1>3, <1>4, <1>8, <1>9 DEF low

(* A page has the first rows, at least one if there is any, and all of them *)
(* if they fit.                                                             *)
LEMMA PageIs ==
  ASSUME program.limit \in Nat \ {0}, NEW rows, IsFiniteSet(rows),
         \A r \in rows : r.number \in Nat,
         \A r, x \in rows : r.number = x.number => r = x
  PROVE  /\ PageOf(rows) \subseteq rows
         /\ \A r \in PageOf(rows), x \in rows : x.number <= r.number => x \in PageOf(rows)
         /\ rows # {} => PageOf(rows) # {}
         /\ Cardinality(rows) <= program.limit => PageOf(rows) = rows
<1> DEFINE Upto(r) == {x \in rows : x.number <= r.number}
           page == PageOf(rows)
<1>1. page = {r \in rows : Cardinality(Upto(r)) <= program.limit}
  BY DEF PageOf
<1> HIDE DEF page
<1>2. ASSUME NEW r \in rows
      PROVE  /\ IsFiniteSet(Upto(r)) /\ Cardinality(Upto(r)) \in Nat
             /\ Cardinality(Upto(r)) <= Cardinality(rows)
  <2>1. Upto(r) \in SUBSET rows
    OBVIOUS
  <2> QED BY <2>1, FS_Subset, FS_CardinalityType
<1>3. ASSUME NEW r \in page, NEW x \in rows, x.number <= r.number PROVE x \in page
  <2>1. r \in rows /\ Cardinality(Upto(r)) <= program.limit
    BY <1>1
  <2>2. Upto(x) \in SUBSET Upto(r)
    <3>1. ASSUME NEW y \in rows, y.number <= x.number PROVE y.number <= r.number
      BY <1>3, <2>1, <3>1
    <3> QED BY <3>1
  <2>3. Cardinality(Upto(x)) <= Cardinality(Upto(r))
    BY <1>2, <2>1, <2>2, FS_Subset
  <2>4. Cardinality(Upto(x)) \in Nat /\ Cardinality(Upto(r)) \in Nat
    BY <1>2, <2>1, Zenon
  <2>5. Cardinality(Upto(x)) <= program.limit
    <3> HIDE DEF Upto
    <3> QED BY <2>1, <2>3, <2>4
  <2> QED BY <1>1, <2>5
<1>4. ASSUME rows # {} PROVE page # {}
  <2> DEFINE N == {r.number : r \in rows}
  <2>1. N \in SUBSET Nat /\ N # {}
    BY <1>4
  <2>2. Min(N) \in N /\ \A n \in N : Min(N) <= n
    BY <2>1, MinNat, Zenon
  <2>3. PICK r \in rows : r.number = Min(N)
    BY <2>2
  <2>4. ASSUME NEW x \in rows PROVE x.number <= r.number <=> x = r
    <3>1. r.number <= x.number /\ r.number \in Nat /\ x.number \in Nat
      BY <2>2, <2>3
    <3> QED BY <3>1
  <2>5. Upto(r) = {r}
    BY <2>4
  <2>6. Cardinality(Upto(r)) = 1
    BY <2>5, FS_Singleton, Zenon
  <2> QED BY <1>1, <2>6
<1>5. ASSUME Cardinality(rows) <= program.limit PROVE page = rows
  <2>1. Cardinality(rows) \in Nat
    BY FS_CardinalityType
  <2>2. ASSUME NEW r \in rows PROVE Cardinality(Upto(r)) <= program.limit
    <3>1. Cardinality(Upto(r)) \in Nat /\ Cardinality(Upto(r)) <= Cardinality(rows)
      BY <1>2, Zenon
    <3> HIDE DEF Upto
    <3> QED BY <1>5, <2>1, <3>1
  <2> QED BY <1>1, <2>2
<1> QED BY <1>1, <1>3, <1>4, <1>5 DEF page

(* The query begins again with nothing collected. *)
LEMMA RestartedIs ==
  ASSUME NEW range \in Ranges, range.start > 0, NEW covered \in Nat,
         NEW c, c.range = range
  PROVE  LET s == Restarted(c)
         IN /\ s \in CallType /\ s.pc = "serve" /\ s.range = range
            /\ s.rows = {} /\ s.known = {} /\ s.after = 0
            /\ Collected(s, chain, covered)
<1> DEFINE s == Restarted(c)
<1>1. /\ s \in CallType /\ s.pc = "serve" /\ s.range = range
      /\ s.rows = {} /\ s.known = {} /\ s.after = 0
  <2>1. range \in MaybeRange
    BY DEF MaybeRange
  <2>2. NoCall \in CallType
    BY NoCallType
  <2> QED BY <2>1, <2>2, Zenon DEF Restarted, NoCall, CallType
<1> HIDE DEF s
<1>2. range.start \in Nat
  BY RangesType
<1>3. RowsOf(chain, range.start..0) = {}
  <2>1. \A n : n \notin range.start..0
    BY <1>2
  <2> QED BY <2>1, RowsAre, Zenon
<1>4. Collected(s, chain, covered)
  BY <1>1, <1>3 DEF Collected
<1> QED BY <1>1, <1>4 DEF s

(* A page more: the rows collected are the chain's up to the last of it. *)
LEMMA PageCollected ==
  ASSUME ChainInv, program.limit \in Nat \ {0},
         NEW q \in CallType, q.pc = "rows", Collected(q, chain, durable),
         Answered(q, "durable_only", durable, safe), NEW fresh,
         fresh = {r \in Stored : /\ Served(q) # NoRange /\ r.number > q.after
                                 /\ r.number \in BlocksOf(Served(q))}
  PROVE  /\ PageOf(fresh) \subseteq RowsOf(chain, 1..durable)
         /\ Served(q) # NoRange =>
              RowsOf(chain, BlocksOf(Served(q))) \subseteq q.rows \cup fresh
         /\ \A r \in PageOf(fresh) :
              RowsOf(chain, q.range.start..r.number) \subseteq q.rows \cup PageOf(fresh)
<1> DEFINE served == Served(q)
           page == PageOf(fresh)
<1>0. durable \in Nat /\ q.after \in Nat
  BY SdkHeights DEF CallType
<1>1. /\ IsFiniteSet(fresh) /\ fresh \subseteq Stored
      /\ \A r \in fresh : r.number \in Nat
      /\ \A r, x \in fresh : r.number = x.number => r = x
  <2>1. fresh \in SUBSET Stored
    OBVIOUS
  <2>2. \A r \in Stored : r.number \in Nat
    BY StoredIs
  <2> QED BY <2>1, <2>2, StoredIs, FS_Subset
<1>2. /\ page \subseteq fresh
      /\ \A r \in page, x \in fresh : x.number <= r.number => x \in page
  BY <1>1, PageIs, Zenon
<1>3. ASSUME served # NoRange
      PROVE  /\ served.start \in Nat /\ served.end \in Nat /\ served.start > 0
             /\ served.start = q.range.start /\ served.end <= durable
             /\ BlocksOf(served) \subseteq 1..durable
  BY <1>0, <1>3, DurableServed, RangesType
<1>4. RowsOf(chain, q.range.start..q.after) \subseteq q.rows
  BY DEF Collected
<1>5. ASSUME served # NoRange, NEW r \in RowsOf(chain, BlocksOf(served))
      PROVE  r \in q.rows \/ r \in fresh
  <2>1. chain \in Seq(BlockType)
    BY SdkHeights
  <2>2. r.number \in BlocksOf(served)
    BY <2>1, RowsAreLogs, Zenon
  <2>3. r.number \in Nat /\ q.range.start <= r.number
    <3>1. /\ served.start \in Nat /\ served.end \in Nat /\ served.start = q.range.start
          /\ r.number \in served.start..served.end
      BY <1>3, <1>5, <2>2, Zenon DEF BlocksOf
    <3> QED BY <3>1, IntervalFloor, Zenon
  <2>4. CASE r.number <= q.after
    <3>1. q.range.start \in Nat /\ q.after \in Nat
      BY <1>0, <1>3, <1>5, Zenon
    <3>2. r.number \in q.range.start..q.after
      BY <2>3, <2>4, <3>1, IntervalHas, Zenon
    <3> QED BY <3>2, <1>4, RowsWithin, Zenon
  <2>5. CASE r.number > q.after
    <3>1. r \in Stored
      BY <1>3, <1>5, RowsWithin, StoredIs, Zenon
    <3> QED BY <1>5, <2>2, <2>5, <3>1
  <2> QED BY <1>0, <2>3, <2>4, <2>5
<1>6. page \subseteq RowsOf(chain, 1..durable)
  <2>1. ASSUME NEW r \in fresh PROVE r \in RowsOf(chain, 1..durable)
    <3>1. served # NoRange /\ r \in Stored /\ r.number \in BlocksOf(served)
      OBVIOUS
    <3>2. r.number <= durable
      BY <1>0, <1>3, <3>1
    <3> QED BY <3>1, <3>2, StoredIs
  <2> QED BY <2>1, <1>2
<1>7. ASSUME NEW r \in page, NEW x \in RowsOf(chain, q.range.start..r.number)
      PROVE  x \in q.rows \/ x \in page
  <2>1. chain \in Seq(BlockType)
    BY SdkHeights
  <2>2. /\ served # NoRange /\ r.number \in BlocksOf(served) /\ r \in fresh
    BY <1>2
  <2>3. x.number \in q.range.start..r.number
    BY <2>1, RowsAreLogs, Zenon
  <2>4. /\ served.start \in Nat /\ served.end \in Nat
        /\ r.number \in served.start..served.end /\ x.number \in served.start..r.number
    BY <1>3, <2>2, <2>3, Zenon DEF BlocksOf
  <2>5. x.number \in BlocksOf(served) /\ x.number <= r.number
    BY <2>4, IntervalPart, Zenon DEF BlocksOf
  <2>6. x \in RowsOf(chain, BlocksOf(served))
    BY <2>5, RowsWithin, Zenon
  <2> QED BY <1>2, <1>5, <2>2, <2>5, <2>6
<1> QED BY <1>5, <1>6, <1>7

LEMMA QueryRowsOK ==
  ASSUME SdkInv, QueryRows
  PROVE  /\ SdkInv'
         /\ call.pc = "rows" /\ call'.range = call.range /\ call'.pc # "none"
         /\ call'.pc # "rows"
         /\ program.limit >= MaxEnd /\ call.rows = {} =>
              \/ call'.pc = "serve" /\ call'.rows = {}
              \/ /\ call'.pc = "done"
                 /\ \A r \in call'.rows :
                      Served(call') # NoRange /\ r.number \in BlocksOf(Served(call'))
<1> DEFINE served == Served(call)
           fresh  == {r \in Stored : /\ served # NoRange /\ r.number > call.after
                                     /\ r.number \in BlocksOf(served)}
           page   == PageOf(fresh)
           hashes == BlockHashes(page, call.anchor)
           whole  == page = fresh
           on     == [call EXCEPT !.pc = IF whole THEN "done" ELSE "serve",
                        !.rows = call.rows \cup page,
                        !.known = IF whole THEN {} ELSE call.known \cup hashes,
                        !.after = IF whole THEN 0 ELSE Max({r.number : r \in page})]
<1>1. /\ call.pc = "rows" /\ UNCHANGED <<chainVars, serviceVars, followVars>>
      /\ call' = IF Disagree(hashes, call.known) THEN Restarted(call) ELSE on
  BY DEF QueryRows
<1>2. /\ call \in CallType /\ call.range \in Ranges /\ call.range.start > 0
      /\ Answered(call, program.finality, durable, safe)
  BY <1>1 DEF SdkInv, CallInv
<1>3. /\ ChainInv /\ durable \in Nat /\ MaxEnd \in Nat /\ program.limit \in Nat \ {0}
      /\ program.finality = "durable_only" => Collected(call, chain, durable)
  <2>1. program \in Program
    BY DEF SdkInv, ChainInv
  <2> QED BY <2>1, SdkHeights, SdkAssumption DEF SdkInv, CollectedInv
<1>4. /\ IsFiniteSet(fresh) /\ fresh \subseteq Stored
      /\ Cardinality(fresh) \in Nat /\ Cardinality(fresh) <= MaxEnd
      /\ \A r \in fresh : r \in LogRow /\ r.number \in 0..MaxEnd /\ r.number \in Nat
      /\ \A r, x \in fresh : r.number = x.number => r = x
  <2>1. fresh \in SUBSET Stored
    OBVIOUS
  <2>2. \A r \in Stored : r \in LogRow /\ r.number \in 0..MaxEnd /\ r.number \in Nat
    BY <1>3, StoredIs
  <2>3. \A r, x \in Stored : r.number = x.number => r = x
    BY <1>3, StoredIs
  <2>4. IsFiniteSet(Stored) /\ Cardinality(Stored) <= MaxEnd /\ Cardinality(Stored) \in Nat
    BY <1>3, StoredIs, FS_CardinalityType
  <2> HIDE DEF fresh
  <2>5. IsFiniteSet(fresh) /\ Cardinality(fresh) <= Cardinality(Stored)
        /\ Cardinality(fresh) \in Nat
    BY <2>1, <2>4, FS_Subset, FS_CardinalityType
  <2>6. Cardinality(fresh) <= MaxEnd
    BY <1>3, <2>4, <2>5
  <2> QED BY <2>1, <2>2, <2>3, <2>5, <2>6
<1>5. /\ page \subseteq fresh
      /\ fresh # {} => page # {}
      /\ \A r \in page, x \in fresh : x.number <= r.number => x \in page
      /\ Cardinality(fresh) <= program.limit => page = fresh
  <2> HIDE DEF fresh
  <2> QED BY <1>3, <1>4, PageIs
<1>6. CASE Disagree(hashes, call.known)
  <2>1. call' = Restarted(call)
    BY <1>1, <1>6
  <2> DEFINE s == Restarted(call)
  <2>2. /\ s \in CallType /\ s.pc = "serve" /\ s.range = call.range
        /\ s.rows = {} /\ s.known = {} /\ s.after = 0
        /\ Collected(s, chain, durable)
    BY <1>2, <1>3, RestartedIs
  <2> HIDE DEF s
  <2>3. call' = s
    BY <2>1 DEF s
  <2>4. SdkInv'
    BY <1>1, <2>2, <2>3, CallMoves, Zenon
  <2> QED BY <1>1, <2>2, <2>3, <2>4, Zenon
<1>7. CASE ~Disagree(hashes, call.known)
  <2> HIDE DEF fresh, page
  <2>0. \A r \in page : r \in LogRow /\ r.number \in 0..MaxEnd
    <3>1. page \subseteq fresh
      BY <1>5, Zenon
    <3>2. \A r \in fresh : r \in LogRow /\ r.number \in 0..MaxEnd
      BY <1>4, Zenon
    <3> QED BY <3>1, <3>2, Zenon
  <2>1. hashes \in SUBSET RowType /\ page \in SUBSET LogRow
    <3>1. call.anchor \in SUBSET RowType
      BY <1>2 DEF CallType
    <3>2. page \in SUBSET LogRow
      BY <2>0
    <3>3. LogRow \subseteq RowType
      BY DEF LogRow
    <3> QED BY <3>1, <3>2, <3>3 DEF BlockHashes
  <2> DEFINE N == {r.number : r \in page}
             top == Max(N)
  <2>2. ASSUME ~whole
        PROVE  top \in Nat /\ \E r \in page : r.number = top
    <3>1. page # {}
      BY <1>5, <2>2
    <3>2. N \in SUBSET (0..MaxEnd) /\ N # {}
      <4>1. ASSUME NEW r \in page PROVE r.number \in 0..MaxEnd
        BY <2>0
      <4> QED BY <4>1, <3>1
    <3> HIDE DEF N
    <3>3. top \in N /\ top \in 0..MaxEnd
      BY <1>3, <3>2, MaxNat
    <3>4. \E r \in page : r.number = top
      BY <3>3, Zenon DEF N
    <3> QED BY <3>3, <3>4
  <2> HIDE DEF hashes, whole, top
  <2>3. /\ on.pc = (IF whole THEN "done" ELSE "serve") /\ on.rows = call.rows \cup page
        /\ on.known = (IF whole THEN {} ELSE call.known \cup hashes)
        /\ on.after = (IF whole THEN 0 ELSE top)
        /\ on.range = call.range /\ on.segments = call.segments /\ on.wanted = call.wanted
    BY <1>2 DEF CallType, top, N
  <2>4. on \in CallType
    <3>1. /\ (IF whole THEN "done" ELSE "serve") \in {"none", "serve", "rows", "done"}
          /\ call.rows \cup page \in SUBSET LogRow
          /\ (IF whole THEN {} ELSE call.known \cup hashes) \in SUBSET RowType
          /\ (IF whole THEN 0 ELSE top) \in Nat
      BY <1>2, <2>1, <2>2 DEF CallType
    <3> QED BY <1>2, <3>1, Zenon DEF CallType, top, N
  <2>5. call' = on
    BY <1>1, <1>7
  <2> HIDE DEF on
  <2>6. Answered(on, program.finality, durable, safe) /\ Served(on) = served
    BY <1>2, <2>3 DEF Answered, Served
  <2>7. ASSUME program.finality = "durable_only" PROVE Collected(on, chain, durable)
    <3>1. /\ page \subseteq RowsOf(chain, 1..durable)
          /\ served # NoRange => RowsOf(chain, BlocksOf(served)) \subseteq call.rows \cup fresh
          /\ \A r \in page : RowsOf(chain, call.range.start..r.number) \subseteq call.rows \cup page
      BY <1>1, <1>2, <1>3, <2>7, PageCollected, Zenon DEF page, fresh
    <3>2. on.rows \subseteq RowsOf(chain, 1..durable)
      BY <1>3, <2>3, <2>7, <3>1 DEF Collected
    <3>3. CASE whole
      BY <2>3, <2>6, <3>1, <3>2, <3>3 DEF Collected, whole
    <3>4. CASE ~whole
      <4>1. PICK r \in page : r.number = top
        BY <2>2, <3>4
      <4>2. r \in RowsOf(chain, 1..durable)
        BY <3>1
      <4>3. r.number <= durable
        <5>1. chain \in Seq(BlockType)
          BY <1>3, SdkHeights
        <5>2. r.number \in 1..durable
          BY <4>2, <5>1, RowsAreLogs, Zenon
        <5> QED BY <1>3, <5>2
      <4> QED BY <2>3, <3>1, <3>2, <3>4, <4>1, <4>3 DEF Collected
    <3> QED BY <3>3, <3>4
  <2>8. SdkInv'
    <3>1. on.pc # "none" /\ on.pc # "rows"
      BY <2>3
    <3> QED BY <1>1, <2>3, <2>4, <2>5, <2>6, <2>7, <3>1, CallMoves, Zenon
  <2>9. ASSUME program.limit >= MaxEnd, call.rows = {}
        PROVE  /\ on.pc = "done"
               /\ \A r \in on.rows : served # NoRange /\ r.number \in BlocksOf(served)
    <3>1. Cardinality(fresh) <= program.limit
      BY <1>3, <1>4, <2>9
    <3>2. whole
      BY <1>5, <3>1 DEF whole
    <3>3. \A r \in fresh : served # NoRange /\ r.number \in BlocksOf(served)
      BY DEF fresh
    <3> QED BY <2>3, <2>9, <3>2, <3>3 DEF whole
  <2> QED BY <1>1, <2>3, <2>5, <2>6, <2>8, <2>9, Zenon
<1> QED BY <1>6, <1>7

-----------------------------------------------------------------------------
(* The follow stream *)

LEMMA AppendEmpty ==
  ASSUME NEW e
  PROVE  Append(<<>>, e) = <<e>>
OBVIOUS

(* Blocks from next to mid - 1 are skipped and those to stop - 1 sent: each *)
(* block is still reported once.                                            *)
LEMMA ReportMore ==
  ASSUME ChainInv, StreamInv, NEW mid \in Nat, NEW stop \in Nat,
         next <= mid, mid <= stop, stop <= MaxEnd + 1,
         mid > next => program.finality = "latest_only" /\ mid - 1 <= safe,
         safe' = safe, program' = program, from' = from, next' = stop,
         told' = [n \in 1..MaxEnd |->
                    IF n \in next..(mid - 1) THEN Append(told[n], "skipped")
                    ELSE IF n \in mid..(stop - 1) THEN Append(told[n], "batch") ELSE told[n]]
  PROVE  /\ ReportedOnce' /\ told' \in [1..MaxEnd -> Seq({"batch", "skipped"})]
         /\ next' \in 1..(MaxEnd + 1) /\ from' \in 1..next'
<1>0. /\ next \in Nat /\ from \in Nat /\ 1 <= from /\ from <= next /\ safe \in Nat /\ MaxEnd \in Nat
      /\ told \in [1..MaxEnd -> Seq({"batch", "skipped"})] /\ ReportedOnce
  BY SdkHeights DEF StreamInv
<1>1. next' \in 1..(MaxEnd + 1) /\ from' \in 1..next'
  BY <1>0
<1>2. ASSUME NEW n \in 1..MaxEnd
      PROVE  /\ told'[n] \in Seq({"batch", "skipped"})
             /\ IF n \in from..(stop - 1)
                THEN \/ told'[n] = <<"batch">>
                     \/ told'[n] = <<"skipped">> /\ program.finality = "latest_only" /\ n <= safe
                ELSE told'[n] = <<>>
  <2>1. told[n] \in Seq({"batch", "skipped"})
    BY <1>0
  <2>2. IF n \in from..(next - 1)
        THEN \/ told[n] = <<"batch">>
             \/ told[n] = <<"skipped">> /\ program.finality = "latest_only" /\ n <= safe
        ELSE told[n] = <<>>
    BY <1>0 DEF ReportedOnce
  <2>3. told'[n] = IF n \in next..(mid - 1) THEN Append(told[n], "skipped")
                   ELSE IF n \in mid..(stop - 1) THEN Append(told[n], "batch") ELSE told[n]
    OBVIOUS
  <2>4. CASE n \in next..(mid - 1)
    <3>1. n \notin from..(next - 1) /\ n \in from..(stop - 1) /\ mid > next /\ n <= mid - 1
      BY <1>0, <2>4
    <3>2. told'[n] = <<"skipped">>
      BY <2>2, <2>3, <2>4, <3>1, AppendEmpty, Zenon
    <3>3. program.finality = "latest_only" /\ n <= safe
      BY <1>0, <3>1
    <3>4. <<"skipped">> \in Seq({"batch", "skipped"})
      OBVIOUS
    <3> QED BY <3>1, <3>2, <3>3, <3>4, Zenon
  <2>5. CASE n \in mid..(stop - 1)
    <3>1. n \notin from..(next - 1) /\ n \in from..(stop - 1) /\ n \notin next..(mid - 1)
      BY <1>0, <2>5
    <3>2. told'[n] = <<"batch">>
      BY <2>2, <2>3, <2>5, <3>1, AppendEmpty, Zenon
    <3>3. <<"batch">> \in Seq({"batch", "skipped"})
      OBVIOUS
    <3> QED BY <3>1, <3>2, <3>3, Zenon
  <2>6. CASE n \notin next..(mid - 1) /\ n \notin mid..(stop - 1)
    <3>1. n \in from..(next - 1) <=> n \in from..(stop - 1)
      BY <1>0, <2>6
    <3>2. told'[n] = told[n]
      BY <2>3, <2>6
    <3> QED BY <2>1, <2>2, <3>1, <3>2, Zenon
  <2> QED BY <2>4, <2>5, <2>6
<1>3. ReportedOnce'
  <2>1. DOMAIN told' = 1..MaxEnd
    OBVIOUS
  <2> QED BY <1>2, <2>1 DEF ReportedOnce
<1>4. told' \in [1..MaxEnd -> Seq({"batch", "skipped"})]
  BY <1>2
<1> QED BY <1>1, <1>3, <1>4

(* The heads the stream goes by. *)
LEMMA HeadsAre ==
  ASSUME ChainInv, StreamInv, NEW h, h \in {Heads, heads}
  PROVE  /\ h \in [safe : Nat, latest : Nat] /\ h.safe \in Nat /\ h.latest \in Nat
         /\ h.safe <= safe /\ h.latest <= MaxEnd /\ h.safe <= MaxEnd
<1>1. h \in [safe : Nat, latest : Nat] /\ h.safe <= safe /\ h.latest <= MaxEnd
  BY SdkHeights DEF Heads, StreamInv
<1> QED BY <1>1, SdkHeights

(* The stream moves on while nothing is written or saved. *)
LEMMA StreamMoves ==
  ASSUME SdkInv, UNCHANGED <<chainVars, serviceVars, written, checkpoint>>,
         StreamInv', pc' # "save", NEW c, call' = c, c \in CallType,
         c.pc # "none" => c.range \in Ranges /\ c.range.start > 0,
         c.pc \in {"none", "serve"}, Collected(c, chain, durable)
  PROVE  SdkInv'
<1>1. /\ program' = program /\ chain' = chain /\ forks' = forks /\ safe' = safe
      /\ view' = view /\ durable' = durable /\ written' = written /\ checkpoint' = checkpoint
  BY DEF chainVars, serviceVars
<1>2. ChainInv'
  BY <1>1 DEF SdkInv, ChainInv
<1>3. CallInv'
  BY <1>1 DEF CallInv
<1>4. SavedInv'
  BY <1>1 DEF SdkInv, SavedInv
<1>5. CollectedInv'
  BY <1>1 DEF SdkInv, CollectedInv
<1> QED BY <1>2, <1>3, <1>4, <1>5 DEF SdkInv

LEMMA NoCallCollected ==
  ASSUME NEW c, NEW covered
  PROVE  Collected(NoCall, c, covered)
BY NoCallType DEF Collected

(* Until cuts a height at the end of the stream, and no block before it. *)
LEMMA UntilIs ==
  ASSUME NEW height \in Nat, program.end \in Nat, NEW n \in Nat, n <= height,
         program.end = 0 \/ n <= program.end
  PROVE  Until(height) \in Nat /\ n <= Until(height) /\ Until(height) <= height
<1>1. CASE program.end = 0
  BY <1>1 DEF Until
<1>2. CASE program.end # 0
  BY <1>2 DEF Until, Least
<1> QED BY <1>1, <1>2

LEMMA StepOK ==
  ASSUME SdkInv, Step
  PROVE  SdkInv'
<1> DEFINE h    == IF heads = NoHeads THEN Heads ELSE heads
           last == Until(Tip(h))
           end  == Least(last, Saturate(next + (ChunkBlocks - 1)))
           u    == Until(h.safe)
<1>1. /\ program.kind = "follow" /\ pc = "step" /\ call = NoCall
      /\ UNCHANGED <<chainVars, serviceVars, from, written, checkpoint, tailVars>>
  BY DEF Step, SdkInv, StreamInv
<1>2. /\ program' = program /\ safe' = safe /\ from' = from
  BY <1>1 DEF chainVars
<1>3. /\ h.safe \in Nat /\ h.latest \in Nat /\ h.safe <= safe /\ h.latest <= MaxEnd
      /\ h.safe <= MaxEnd /\ h \in [safe : Nat, latest : Nat]
  BY HeadsAre DEF SdkInv
<1>4. /\ next \in Nat /\ 1 <= next /\ from \in 1..next /\ MaxEnd \in Nat /\ safe \in Nat
      /\ program.end \in Nat /\ StreamInv /\ ChainInv
  BY SdkHeights, SdkAssumption DEF SdkInv, StreamInv, ChainInv
<1>5. SUFFICES ASSUME TRUE PROVE StreamInv' /\ pc' # "save" /\ \E c : call' = c /\ c \in CallType
                 /\ (c.pc # "none" => c.range \in Ranges /\ c.range.start > 0)
                 /\ c.pc \in {"none", "serve"} /\ Collected(c, chain, durable)
  BY <1>1, StreamMoves, Zenon
<1>6. CASE pc' = "done" /\ UNCHANGED <<call, next, heads, caughtUp, told>>
  <2>1. ReportedOnce'
    BY <1>2, <1>4, <1>6 DEF StreamInv, ReportedOnce
  <2>2. StreamInv'
    BY <1>1, <1>2, <1>4, <1>6, <2>1 DEF StreamInv
  <2> QED BY <1>1, <1>6, <2>2, NoCallType, NoCallCollected
<1>7. CASE /\ program.end = 0 \/ next <= program.end
           /\ program.finality = "latest_only" /\ next <= h.safe
           /\ told' = Tell("skipped", NewRange(next, Until(h.safe)))
           /\ next' = Until(h.safe) + 1
           /\ heads' = h
           /\ UNCHANGED <<call, pc, caughtUp>>
  <2>1. u \in Nat /\ next <= u /\ u <= h.safe /\ u <= safe /\ u <= MaxEnd
    <3>1. u \in Nat /\ next <= u /\ u <= h.safe
      BY <1>3, <1>4, <1>7, UntilIs, Zenon
    <3> HIDE DEF u, h
    <3> QED BY <1>3, <1>4, <3>1
  <2>2. NewRange(next, u) # NoRange /\ BlocksOf(NewRange(next, u)) = next..u
    BY <1>4, <2>1, NewRangeIs DEF BlocksOf
  <2> HIDE DEF u, h
  <2>3. next' = u + 1 /\ told' = Tell("skipped", NewRange(next, u))
    BY <1>7 DEF u
  <2> DEFINE mid == u + 1
  <2>4. told' = [n \in 1..MaxEnd |->
                   IF n \in next..(mid - 1) THEN Append(told[n], "skipped")
                   ELSE IF n \in mid..(mid - 1) THEN Append(told[n], "batch") ELSE told[n]]
    <3>1. DOMAIN told = 1..MaxEnd
      BY <1>4 DEF StreamInv
    <3>2. mid - 1 = u /\ mid..u = {}
      BY <2>1
    <3> QED BY <2>2, <2>3, <3>1, <3>2 DEF Tell
  <2>5. mid \in Nat /\ next <= mid /\ mid <= MaxEnd + 1 /\ mid - 1 <= safe
    BY <1>4, <2>1
  <2>6. /\ ReportedOnce' /\ told' \in [1..MaxEnd -> Seq({"batch", "skipped"})]
        /\ next' \in 1..(MaxEnd + 1) /\ from' \in 1..next'
    <3> HIDE DEF mid
    <3>1. next' = mid /\ mid <= mid
      BY <2>3, <2>5 DEF mid
    <3> QED BY <1>2, <1>4, <1>7, <2>4, <2>5, <3>1, ReportMore, Zenon
  <2>7. StreamInv'
    BY <1>1, <1>2, <1>3, <1>4, <1>7, <2>6 DEF StreamInv
  <2> QED BY <1>1, <1>7, <2>7, NoCallType, NoCallCollected
<1>8. CASE heads' = Awaited(h) /\ UNCHANGED <<call, pc, next, told>>
  <2>1. heads' \in {Heads, heads}
    BY <1>8 DEF Awaited
  <2>2. heads' \in [safe : Nat, latest : Nat] /\ heads'.safe <= safe /\ heads'.latest <= MaxEnd
    BY <1>4, <2>1, HeadsAre
  <2>3. ReportedOnce'
    BY <1>2, <1>4, <1>8 DEF StreamInv, ReportedOnce
  <2>4. StreamInv'
    BY <1>1, <1>2, <1>4, <1>8, <2>2, <2>3 DEF StreamInv
  <2> QED BY <1>1, <1>8, <2>4, NoCallType, NoCallCollected
<1>9. CASE /\ next <= last
           /\ pc' = "query" /\ caughtUp' = FALSE /\ heads' = NoHeads
           /\ call' = [NoCall EXCEPT !.pc = "serve", !.range = NewRange(next, end)]
           /\ UNCHANGED <<next, told>>
  <2>1. last \in Nat /\ last <= MaxEnd
    BY <1>3, <1>4 DEF Until, Tip, Least
  <2>2. end \in Nat /\ next <= end /\ end <= MaxEnd
    <3>1. /\ Saturate(next + (ChunkBlocks - 1)) \in Nat
          /\ next <= Saturate(next + (ChunkBlocks - 1))
      BY <1>4, <1>9, <2>1, SdkAssumption, BlockPlanAssumption DEF Saturate, Least
    <3> HIDE DEF last
    <3> QED BY <1>4, <1>9, <2>1, <3>1 DEF Least
  <2> HIDE DEF end, last, h
  <2> DEFINE range == NewRange(next, end)
             c == Restarted([range |-> range])
  <2>3. range \in Ranges /\ range.start = next /\ range.start > 0
    BY <1>4, <2>2, NewRangeIs
  <2>4. call' = c
    BY <1>9 DEF Restarted
  <2>5. durable \in Nat
    BY <1>4, SdkHeights
  <2> HIDE DEF range
  <2>6. /\ c \in CallType /\ c.pc = "serve" /\ c.range = range /\ Collected(c, chain, durable)
    BY <2>3, <2>5, RestartedIs
  <2> HIDE DEF c
  <2>7. ReportedOnce'
    BY <1>2, <1>4, <1>9 DEF StreamInv, ReportedOnce
  <2>8. heads' \in [safe : Nat, latest : Nat] /\ heads'.safe <= safe /\ heads'.latest <= MaxEnd
    BY <1>4, <1>9 DEF NoHeads
  <2>9. StreamInv'
    BY <1>1, <1>2, <1>4, <1>9, <2>3, <2>4, <2>6, <2>7, <2>8, Zenon DEF StreamInv
  <2> QED BY <1>9, <2>3, <2>4, <2>6, <2>9
<1> QED BY <1>6, <1>7, <1>8, <1>9, Zenon DEF Step

(* Where the stream resumes after an answer: behind what was served, or, if *)
(* nothing was, in front of what could be.                                  *)
LEMMA ResumeIs ==
  ASSUME NEW a, NEW covered \in Nat, NEW top \in Nat, Answered(a, program.finality, covered, top)
  PROVE  LET served == Served(a)
             resume == IF NextStart(a) = 0 THEN a.range.end + 1 ELSE NextStart(a)
             mid    == IF served = NoRange THEN resume ELSE served.start
         IN /\ mid \in Nat /\ resume \in Nat /\ a.range.start <= mid /\ mid <= resume
            /\ resume <= MaxEnd + 1
            /\ mid > a.range.start => program.finality = "latest_only" /\ mid - 1 <= top
            /\ served # NoRange => BlocksOf(served) = mid..(resume - 1)
<1> DEFINE served == Served(a)
           resume == IF NextStart(a) = 0 THEN a.range.end + 1 ELSE NextStart(a)
           mid    == IF served = NoRange THEN resume ELSE served.start
<1>1. PICK d \in MaybeRange, h \in MaybeRange :
        a.segments = Segments(d, h) /\ Parts(a.range, a.wanted, d, h, program.finality, covered, top)
  BY DEF Answered
<1>2. /\ a.range \in Ranges /\ a.range.start \in Nat /\ a.range.end \in Nat /\ a.range.start > 0
      /\ a.range.start <= a.range.end /\ a.range.end <= MaxEnd /\ MaxEnd \in Nat
  BY <1>1, RangesType, BlockPlanAssumption DEF Parts
<1>3. CASE d = NoRange /\ h = NoRange
  <2>1. served = NoRange
    BY <1>1, <1>3, ServedIs
  <2>2. NextStart(a) = IF program.finality = "latest_only"
                       THEN IF a.wanted = NoRange THEN 0 ELSE a.wanted.start
                       ELSE a.range.start
    BY <2>1 DEF NextStart
  <2>3. mid = resume
    BY <2>1
  <2>4. /\ resume \in Nat /\ a.range.start <= resume /\ resume <= MaxEnd + 1
        /\ resume > a.range.start => program.finality = "latest_only" /\ resume - 1 <= top
    <3>1. CASE program.finality # "latest_only"
      <4>1. resume = a.range.start
        BY <1>2, <2>2, <3>1
      <4> HIDE DEF resume
      <4> QED BY <1>2, <4>1
    <3>2. CASE program.finality = "latest_only" /\ a.wanted = NoRange
      <4>1. resume = a.range.end + 1 /\ a.range.end <= top
        BY <1>1, <2>2, <3>2, Zenon DEF Parts
      <4> HIDE DEF resume
      <4> QED BY <1>2, <3>2, <4>1
    <3>3. CASE program.finality = "latest_only" /\ a.wanted # NoRange
      <4>1. /\ a.wanted.start \in Nat /\ a.range.start <= a.wanted.start
            /\ a.wanted.start <= a.range.end
            /\ a.wanted.start = a.range.start \/ a.wanted.start <= top + 1
        BY <1>1, <3>3, RangesType DEF Parts, MaybeRange
      <4>2. resume = a.wanted.start
        <5>1. NextStart(a) = a.wanted.start
          BY <2>2, <3>3, Zenon
        <5>2. a.wanted.start # 0
          BY <1>2, <4>1, Positive, Zenon
        <5> QED BY <5>1, <5>2, Zenon
      <4> HIDE DEF resume
      <4> QED BY <1>2, <3>3, <4>1, <4>2
    <3> QED BY <3>1, <3>2, <3>3, Zenon
  <2>5. mid <= resume
    <3> HIDE DEF resume, mid
    <3> QED BY <2>3, <2>4
  <2> QED BY <2>1, <2>3, <2>4, <2>5, Zenon
<1>4. CASE ~(d = NoRange /\ h = NoRange)
  <2>1. /\ served \in Ranges /\ served # NoRange
        /\ served.start = (IF d # NoRange THEN d.start ELSE h.start)
        /\ served.end = (IF h # NoRange THEN h.end ELSE d.end)
    BY <1>1, <1>4, ServedIs DEF Ranges
  <2>2. /\ served.start \in Nat /\ served.end \in Nat /\ served.start <= served.end
    BY <2>1, RangesType
  <2>3. served.end <= a.range.end
    BY <1>1, <1>4, <2>1 DEF Parts
  <2>4. resume = served.end + 1
    <3>1. NextStart(a) = IF served.end < a.range.end THEN served.end + 1 ELSE 0
      BY <2>1 DEF NextStart
    <3> HIDE DEF served
    <3>2. served.end + 1 # 0 /\ (~(served.end < a.range.end) => served.end = a.range.end)
      BY <1>2, <2>2, <2>3
    <3>3. CASE served.end < a.range.end
      <4>1. NextStart(a) = served.end + 1
        BY <3>1, <3>3, Zenon
      <4> QED BY <3>2, <4>1, Zenon
    <3>4. CASE ~(served.end < a.range.end)
      <4>1. NextStart(a) = 0
        BY <3>1, <3>4, Zenon
      <4> QED BY <3>2, <3>4, <4>1, Zenon
    <3> QED BY <3>3, <3>4, Zenon
  <2>5. mid = served.start
    BY <2>1
  <2>6. /\ a.range.start <= served.start
        /\ served.start > a.range.start => program.finality = "latest_only" /\ served.start - 1 <= top
    <3>1. CASE d # NoRange
      <4>1. served.start = a.range.start
        BY <1>1, <2>1, <3>1, Zenon DEF Parts
      <4> HIDE DEF served
      <4>2. a.range.start <= a.range.start /\ ~(a.range.start > a.range.start)
        BY <1>2, Reflexive, Zenon
      <4> QED BY <4>1, <4>2, Zenon
    <3>2. CASE d = NoRange
      <4>1. /\ h # NoRange /\ served.start = a.wanted.start /\ a.wanted # NoRange
            /\ program.finality # "latest_only" => served.start = a.range.start
        BY <1>1, <1>4, <2>1, <3>2 DEF Parts
      <4>2. /\ a.range.start <= a.wanted.start
            /\ a.wanted.start = a.range.start \/ a.wanted.start <= top + 1
        BY <1>1, <4>1 DEF Parts
      <4> HIDE DEF served
      <4>3. a.wanted.start > a.range.start => a.wanted.start # a.range.start /\ a.wanted.start - 1 <= top
        BY <1>2, <2>2, <4>1, <4>2, StartAbove, Zenon
      <4> QED BY <4>1, <4>2, <4>3, Zenon
    <3> QED BY <3>1, <3>2, Zenon
  <2>7. BlocksOf(served) = mid..(resume - 1)
    <3> HIDE DEF served, resume, mid
    <3>1. resume - 1 = served.end
      BY <2>2, <2>4
    <3> QED BY <2>5, <3>1, Zenon DEF BlocksOf
  <2> HIDE DEF served, resume, mid
  <2>8. /\ mid \in Nat /\ resume \in Nat /\ mid <= resume /\ resume <= MaxEnd + 1
    BY <1>2, <2>2, <2>3, <2>4, <2>5
  <2> QED BY <2>5, <2>6, <2>7, <2>8, Zenon DEF served, resume, mid
<1> QED BY <1>3, <1>4, Zenon

LEMMA BatchOK ==
  ASSUME SdkInv, Batch
  PROVE  SdkInv'
<1> DEFINE served == Served(call)
           resume == IF NextStart(call) = 0 THEN call.range.end + 1 ELSE NextStart(call)
           mid    == IF served = NoRange THEN resume ELSE served.start
           skipped == NewRange(next, mid - 1)
           saving == [NoCall EXCEPT !.segments = call.segments]
<1>1. /\ pc = "query" /\ call.pc = "done" /\ written' = written \cup call.rows
      /\ next' = resume
      /\ told' = [n \in DOMAIN told |->
                    IF skipped # NoRange /\ n \in BlocksOf(skipped) THEN Append(told[n], "skipped")
                    ELSE Tell("batch", served)[n]]
      /\ IF served = NoRange THEN pc' = "step" /\ call' = NoCall
         ELSE pc' = "save" /\ call' = saving
      /\ heads' = heads /\ from' = from /\ checkpoint' = checkpoint
  BY DEF Batch, Resume
<1>2. /\ program' = program /\ chain' = chain /\ forks' = forks /\ safe' = safe
      /\ view' = view /\ durable' = durable
  BY DEF Batch, chainVars, serviceVars
<1>3. /\ ChainInv /\ StreamInv /\ call \in CallType /\ call.range.start = next
      /\ Answered(call, program.finality, durable, safe)
  BY <1>1 DEF SdkInv, StreamInv, CallInv
<1>4. /\ next \in Nat /\ 1 <= next /\ safe \in Nat /\ durable \in Nat /\ MaxEnd \in Nat
      /\ DOMAIN told = 1..MaxEnd
  <2>1. safe \in Nat /\ durable \in Nat
    BY <1>3, SdkHeights, Zenon
  <2>2. MaxEnd \in Nat
    BY <1>3, SdkHeights, Zenon
  <2>3. next \in Nat /\ 1 <= next /\ DOMAIN told = 1..MaxEnd
    BY <1>3 DEF StreamInv
  <2> QED BY <2>1, <2>2, <2>3, Zenon
<1>5. /\ mid \in Nat /\ resume \in Nat /\ next <= mid /\ mid <= resume
      /\ resume <= MaxEnd + 1
      /\ mid > next => program.finality = "latest_only" /\ mid - 1 <= safe
      /\ served # NoRange => BlocksOf(served) = mid..(resume - 1)
      /\ served = NoRange => mid = resume
  BY <1>3, <1>4, ResumeIs, Zenon
<1>6. ChainInv'
  BY <1>2, <1>3 DEF ChainInv
<1>7. saving \in CallType /\ saving.pc = "none" /\ saving.rows = {} /\ saving.segments = call.segments
  BY <1>3, NoCallType DEF CallType, NoCall
<1> HIDE DEF saving, served, resume, mid
<1>8. told' = [n \in 1..MaxEnd |->
                 IF n \in next..(mid - 1) THEN Append(told[n], "skipped")
                 ELSE IF n \in mid..(resume - 1) THEN Append(told[n], "batch") ELSE told[n]]
  <2>1. ASSUME NEW n PROVE skipped # NoRange /\ n \in BlocksOf(skipped) <=> n \in next..(mid - 1)
    <3>1. mid - 1 \in Int /\ mid - 1 <= MaxEnd
      BY <1>4, <1>5
    <3>2. skipped # NoRange <=> next <= mid - 1
      BY <1>4, <3>1, NewRangeIs
    <3>3. skipped # NoRange => BlocksOf(skipped) = next..(mid - 1)
      BY <1>4, <3>1, NewRangeIs DEF BlocksOf
    <3>4. CASE next <= mid - 1
      BY <3>2, <3>3, <3>4, Zenon
    <3>5. CASE ~(next <= mid - 1)
      BY <1>4, <3>1, <3>2, <3>5
    <3> QED BY <3>4, <3>5
  <2>2. ASSUME NEW n \in 1..MaxEnd
        PROVE  Tell("batch", served)[n]
                 = IF n \in mid..(resume - 1) THEN Append(told[n], "batch") ELSE told[n]
    <3>1. Tell("batch", served)[n] = IF served # NoRange /\ n \in BlocksOf(served)
                                     THEN Append(told[n], "batch") ELSE told[n]
      BY <1>4 DEF Tell
    <3>2. served # NoRange /\ n \in BlocksOf(served) <=> n \in mid..(resume - 1)
      <4>1. CASE served # NoRange
        BY <1>5, <4>1
      <4>2. CASE served = NoRange
        BY <1>5, <4>2
      <4> QED BY <4>1, <4>2
    <3> QED BY <3>1, <3>2
  <2> HIDE DEF skipped
  <2> QED BY <1>1, <1>4, <2>1, <2>2
<1>9. /\ ReportedOnce' /\ told' \in [1..MaxEnd -> Seq({"batch", "skipped"})]
      /\ next' \in 1..(MaxEnd + 1) /\ from' \in 1..next'
  BY <1>1, <1>2, <1>3, <1>5, <1>8, ReportMore, Zenon
<1>10. StreamInv'
  <2>1. program.kind # "tail"
    BY <1>1, <1>3, Zenon DEF StreamInv
  <2>2. heads' \in [safe : Nat, latest : Nat] /\ heads'.safe <= safe' /\ heads'.latest <= MaxEnd
    BY <1>1, <1>2, <1>3 DEF StreamInv
  <2>3. \/ pc' = "step" /\ call' = NoCall
        \/ pc' = "save" /\ call'.pc = "none"
    BY <1>1, <1>7
  <2> QED BY <1>2, <1>9, <2>1, <2>2, <2>3 DEF StreamInv
<1>11. /\ call' \in CallType /\ call'.pc = "none" /\ call'.rows = {}
  BY <1>1, <1>7, NoCallType
<1>12. CallInv'
  BY <1>11 DEF CallInv
<1>13. SavedInv'
  <2>1. checkpoint' \in 1..(durable' + 1)
    BY <1>1, <1>2 DEF SdkInv, SavedInv
  <2>2. PICK d \in MaybeRange, h \in MaybeRange :
          /\ call.segments = Segments(d, h)
          /\ Parts(call.range, call.wanted, d, h, program.finality, durable, safe)
    BY <1>3 DEF Answered
  <2>3. ASSUME d # NoRange, program.finality = "durable_only"
        PROVE  RowsOf(chain, BlocksOf(d)) \subseteq written'
    <3>1. h = NoRange
      BY <2>2, <2>3 DEF Parts
    <3>2. served # NoRange /\ BlocksOf(served) = BlocksOf(d)
      BY <2>2, <2>3, <3>1, ServedIs DEF BlocksOf, served, Ranges
    <3>3. RowsOf(chain, BlocksOf(served)) \subseteq call.rows
      BY <1>1, <2>3, <3>2, Zenon DEF SdkInv, CollectedInv, Collected, served
    <3> QED BY <1>1, <3>2, <3>3, Zenon
  <2>4. d # NoRange => d.start > 0 /\ d.end <= durable
    BY <2>2 DEF Parts
  <2>5. pc' = "save" => call'.segments = Segments(d, h)
    BY <1>1, <1>7, <2>2, Zenon
  <2> QED BY <1>2, <2>1, <2>3, <2>4, <2>5 DEF SavedInv
<1>14. CollectedInv'
  BY <1>1, <1>2, <1>11, Zenon DEF SdkInv, CollectedInv, Collected
<1> QED BY <1>6, <1>10, <1>12, <1>13, <1>14 DEF SdkInv

LEMMA SaveOK ==
  ASSUME SdkInv, Save
  PROVE  SdkInv'
<1>1. /\ pc = "save" /\ checkpoint' = Advance(checkpoint, call.segments)
      /\ pc' = "step" /\ call' = NoCall
      /\ next' = next /\ heads' = heads /\ from' = from /\ told' = told /\ written' = written
  BY DEF Save
<1>2. /\ program' = program /\ chain' = chain /\ forks' = forks /\ safe' = safe
      /\ view' = view /\ durable' = durable
  BY DEF Save, chainVars, serviceVars
<1>3. PICK d \in MaybeRange, h \in MaybeRange :
        /\ call.segments = Segments(d, h)
        /\ d # NoRange => /\ d.start > 0 /\ d.end <= durable
                          /\ program.finality = "durable_only" =>
                               RowsOf(chain, BlocksOf(d)) \subseteq written
  BY <1>1 DEF SdkInv, SavedInv
<1>4. /\ checkpoint \in Nat /\ 1 <= checkpoint /\ checkpoint <= durable + 1 /\ durable \in Nat
      /\ chain \in Seq(BlockType)
  BY SdkHeights DEF SdkInv, SavedInv
<1>5. checkpoint' = IF d # NoRange /\ d.start <= checkpoint THEN Greatest(checkpoint, d.end + 1)
                    ELSE checkpoint
  BY <1>1, <1>3, <1>4, AdvanceIs
<1>6. d # NoRange => d.start \in Nat /\ d.end \in Nat
  BY RangesType DEF MaybeRange
<1>7. checkpoint' \in 1..(durable + 1)
  BY <1>3, <1>4, <1>5, <1>6 DEF Greatest
<1>8. ReportedOnce'
  BY <1>1, <1>2 DEF SdkInv, StreamInv, ReportedOnce
<1>9. ChainInv' /\ CallInv'
  BY <1>1, <1>2, NoCallType DEF SdkInv, ChainInv, CallInv
<1>10. StreamInv'
  BY <1>1, <1>2, <1>8, NoCallType DEF SdkInv, StreamInv
<1>11. SavedInv'
  BY <1>1, <1>2, <1>7 DEF SavedInv
<1>12. ASSUME program.finality = "durable_only"
       PROVE  RowsOf(chain, 1..(checkpoint' - 1)) \subseteq written
  <2>1. ASSUME NEW r \in RowsOf(chain, 1..(checkpoint' - 1)) PROVE r \in written
    <3>1. r.number \in 1..(checkpoint' - 1)
      BY <1>4, RowsAreLogs, Zenon
    <3>2. RowsOf(chain, 1..(checkpoint - 1)) \subseteq written
      BY <1>12 DEF SdkInv, CollectedInv
    <3>3. CASE r.number < checkpoint
      <4>1. r.number \in 1..(checkpoint - 1)
        BY <1>4, <3>1, <3>3
      <4> QED BY <3>2, <4>1, RowsWithin, Zenon
    <3>4. CASE ~(r.number < checkpoint)
      <4>1. d # NoRange /\ r.number \in BlocksOf(d)
        BY <1>4, <1>5, <1>6, <3>1, <3>4 DEF BlocksOf, Greatest
      <4>2. r \in RowsOf(chain, BlocksOf(d))
        BY <4>1, RowsWithin
      <4> QED BY <1>3, <1>12, <4>1, <4>2
    <3> QED BY <3>3, <3>4
  <2> QED BY <2>1
<1>13. CollectedInv'
  BY <1>1, <1>2, <1>12, NoCallCollected DEF SdkInv, CollectedInv
<1> QED BY <1>9, <1>10, <1>11, <1>13 DEF SdkInv

LEMMA CallFailsOK ==
  ASSUME SdkInv, CallFails
  PROVE  SdkInv'
<1>1. /\ call.pc \in {"serve", "rows"} /\ pc' = "step" /\ call' = NoCall
      /\ next' = next /\ heads' = heads /\ from' = from /\ told' = told
      /\ UNCHANGED <<chainVars, serviceVars, written, checkpoint>>
  BY DEF CallFails
<1>2. program' = program /\ safe' = safe
  BY <1>1 DEF chainVars
<1>3. ReportedOnce'
  BY <1>1, <1>2 DEF SdkInv, StreamInv, ReportedOnce
<1>4. StreamInv'
  BY <1>1, <1>2, <1>3 DEF SdkInv, StreamInv
<1> QED BY <1>1, <1>4, NoCallType, NoCallCollected, StreamMoves

LEMMA CrashOK ==
  ASSUME SdkInv, Crash
  PROVE  SdkInv'
<1>1. /\ program.kind = "follow" /\ pc' = "step" /\ call' = NoCall
      /\ next' = checkpoint /\ from' = checkpoint /\ heads' = NoHeads
      /\ told' = [n \in 1..MaxEnd |-> <<>>]
      /\ UNCHANGED <<chainVars, serviceVars, written, checkpoint>>
  BY DEF Crash
<1>2. program' = program /\ safe' = safe
  BY <1>1 DEF chainVars
<1>3. /\ checkpoint \in Nat /\ 1 <= checkpoint /\ checkpoint <= MaxEnd + 1 /\ safe \in Nat
      /\ MaxEnd \in Nat
  BY SdkHeights DEF SdkInv, SavedInv
<1>4. ReportedOnce'
  BY <1>1, <1>3 DEF ReportedOnce
<1>5. told' \in [1..MaxEnd -> Seq({"batch", "skipped"})]
  BY <1>1
<1>6. heads' \in [safe : Nat, latest : Nat] /\ heads'.safe <= safe' /\ heads'.latest <= MaxEnd
  BY <1>1, <1>2, <1>3 DEF NoHeads
<1>7. next' \in 1..(MaxEnd + 1) /\ from' \in 1..next'
  BY <1>1, <1>3
<1>8. StreamInv'
  BY <1>1, <1>2, <1>4, <1>5, <1>6, <1>7 DEF StreamInv
<1> QED BY <1>1, <1>8, NoCallType, NoCallCollected, StreamMoves

LEMMA RereadOK ==
  ASSUME SdkInv, Reread, cursor.settled \in Nat \ {0}
  PROVE  /\ SdkInv'
         /\ call'.pc = "serve" /\ call'.range.start = cursor.settled /\ call'.rows = {}
<1> DEFINE range == NewRange(cursor.settled, Len(chain))
           c == Restarted([range |-> range])
<1>1. /\ program.kind = "tail" /\ cursor.settled <= Len(chain) /\ call' = c
      /\ UNCHANGED <<chainVars, serviceVars, followVars>>
  BY DEF Reread, Restarted
<1>2. range \in Ranges /\ range.start = cursor.settled /\ range.start > 0 /\ durable \in Nat
  BY <1>1, SdkHeights, NewRangeIs DEF SdkInv
<1> HIDE DEF range
<1>3. /\ c \in CallType /\ c.pc = "serve" /\ c.range = range /\ Collected(c, chain, durable)
      /\ c.rows = {} /\ c.known = {} /\ c.after = 0
  BY <1>2, RestartedIs
<1> HIDE DEF c
<1>4. /\ program' = program /\ safe' = safe /\ pc' = pc /\ next' = next /\ heads' = heads
      /\ from' = from /\ told' = told /\ written' = written /\ checkpoint' = checkpoint
  BY <1>1 DEF chainVars, followVars
<1>5. ReportedOnce'
  BY <1>4 DEF SdkInv, StreamInv, ReportedOnce
<1>6. StreamInv' /\ pc' # "save"
  BY <1>1, <1>4, <1>5 DEF SdkInv, StreamInv
<1>7. SdkInv'
  <2>1. UNCHANGED <<chainVars, serviceVars, written, checkpoint>>
    BY <1>1, <1>4
  <2> QED BY <1>1, <1>2, <1>3, <1>6, <2>1, StreamMoves, Zenon
<1> QED BY <1>1, <1>2, <1>3, <1>7

LEMMA ObserveOK ==
  ASSUME SdkInv, Observe
  PROVE  SdkInv'
<1>1. /\ program.kind = "tail" /\ call' = NoCall
      /\ UNCHANGED <<chainVars, serviceVars, followVars>>
  BY DEF Observe
<1>2. /\ program' = program /\ safe' = safe /\ pc' = pc /\ next' = next /\ heads' = heads
      /\ from' = from /\ told' = told /\ written' = written /\ checkpoint' = checkpoint
  BY <1>1 DEF chainVars, followVars
<1>3. ReportedOnce'
  BY <1>2 DEF SdkInv, StreamInv, ReportedOnce
<1>4. StreamInv' /\ pc' # "save"
  BY <1>1, <1>2, <1>3 DEF SdkInv, StreamInv
<1>5. UNCHANGED <<chainVars, serviceVars, written, checkpoint>>
  BY <1>1, <1>2
<1> QED BY <1>1, <1>4, <1>5, NoCallType, NoCallCollected, StreamMoves

-----------------------------------------------------------------------------
(* The provisional cursor *)

(* What an answer shows hot: rows of its hot blocks, and its anchor. *)
LEMMA HotHashesAre ==
  ASSUME NEW a \in CallType
  PROVE  /\ HotHashes(a) \subseteq SeenType
         /\ \A x \in HotHashes(a) :
              IF x.rows THEN /\ [number |-> x.number, hash |-> x.hash] \in a.rows
                             /\ x.number \in HotBlocks(a)
              ELSE [number |-> x.number, hash |-> x.hash] \in a.anchor
         /\ \A r \in a.rows : r.number \in HotBlocks(a) =>
              [number |-> r.number, hash |-> r.hash, rows |-> TRUE] \in HotHashes(a)
<1> DEFINE rows == {r \in a.rows : r.number \in HotBlocks(a)}
           all == BlockHashes(rows, a.anchor)
<1>1. HotHashes(a) = {[number |-> x.number, hash |-> x.hash, rows |-> x \in rows] : x \in all}
  BY DEF HotHashes
<1>2. a.rows \subseteq RowType /\ a.anchor \subseteq RowType
  BY DEF CallType, LogRow
<1>3. \A x \in all : x \in RowType /\ (x \in rows \/ x \in a.anchor)
  BY <1>2 DEF BlockHashes
<1>4. rows \subseteq all
  BY DEF BlockHashes
<1> HIDE DEF all
<1>5. ASSUME NEW y \in HotHashes(a)
      PROVE  /\ y \in SeenType
             /\ IF y.rows THEN /\ [number |-> y.number, hash |-> y.hash] \in a.rows
                               /\ y.number \in HotBlocks(a)
                ELSE [number |-> y.number, hash |-> y.hash] \in a.anchor
  <2>1. PICK x \in all : y = [number |-> x.number, hash |-> x.hash, rows |-> x \in rows]
    BY <1>1
  <2>2. x \in RowType /\ (x \in rows \/ x \in a.anchor)
    BY <1>3
  <2>3. x = [number |-> x.number, hash |-> x.hash]
    BY <2>2 DEF RowType
  <2>4. y.number = x.number /\ y.hash = x.hash /\ y.rows = (x \in rows) /\ y \in SeenType
    <3>1. y.number = x.number /\ y.hash = x.hash /\ y.rows = (x \in rows)
      BY <2>1
    <3>2. x.number \in Nat /\ x.hash \in Seq(BlockType) /\ (x \in rows) \in BOOLEAN
      BY <2>2 DEF RowType
    <3>3. y \in SeenType
      BY <2>1, <3>2 DEF SeenType
    <3> QED BY <3>1, <3>3, Zenon
  <2>5. CASE x \in rows
    <3>1. y.rows /\ x \in a.rows /\ x.number \in HotBlocks(a)
      BY <2>4, <2>5, Zenon
    <3> QED BY <2>3, <2>4, <3>1
  <2>6. CASE x \notin rows
    <3>1. ~y.rows /\ x \in a.anchor
      BY <2>2, <2>4, <2>6, Zenon
    <3> QED BY <2>3, <2>4, <3>1
  <2> QED BY <2>5, <2>6
<1>6. ASSUME NEW r \in a.rows, r.number \in HotBlocks(a)
      PROVE  [number |-> r.number, hash |-> r.hash, rows |-> TRUE] \in HotHashes(a)
  <2>1. r \in rows /\ r \in all
    BY <1>4, <1>6
  <2>2. (r \in rows) = TRUE
    BY <2>1, Zenon
  <2>3. [number |-> r.number, hash |-> r.hash, rows |-> (r \in rows)] \in HotHashes(a)
    BY <1>1, <2>1
  <2> HIDE DEF rows
  <2> QED BY <2>2, <2>3, Zenon
<1> QED BY <1>5, <1>6, Zenon

(* The fork point: at most the lowest mismatch, and above settled only      *)
(* right behind a height that still matches.                                *)
LEMMA ForkPointIs ==
  ASSUME CursorInv, NEW hashes, hashes \subseteq SeenType, NEW hot,
         NEW mismatches, mismatches = Mismatches(cursor.seen, hashes, hot), mismatches # {}
  PROVE  LET m == Min(mismatches)
             point == ForkPoint(cursor.seen, hashes, m)
         IN /\ m \in Nat /\ \A k \in mismatches : m <= k
            /\ point \in Nat /\ cursor.settled <= point /\ point <= m
            /\ point > cursor.settled => \E y \in hashes :
                 /\ point = y.number + 1
                 /\ \E s \in cursor.seen : s.number = y.number /\ s.hash = y.hash
<1> DEFINE m == Min(mismatches)
           settled == cursor.settled
           matched == {x.number : x \in {y \in hashes :
                         /\ y.number < m
                         /\ \E s \in cursor.seen : s.number = y.number /\ s.hash = y.hash}}
           tops == {k + 1 : k \in matched} \cup {settled}
           point == ForkPoint(cursor.seen, hashes, m)
<1>1. /\ settled \in Nat /\ \A s \in cursor.seen : s.number \in Nat /\ s.number >= settled
  BY DEF CursorInv, SeenType
<1>2. ASSUME NEW k \in mismatches PROVE k \in Nat /\ settled <= k
  <2>1. \E s \in cursor.seen : k = s.number
    BY DEF Mismatches
  <2> QED BY <1>1, <2>1
<1>3. m \in mismatches /\ m \in Nat /\ \A k \in mismatches : m <= k
  <2>1. mismatches \in SUBSET Nat
    BY <1>2
  <2> QED BY <2>1, MinNat
<1>4. settled <= m
  BY <1>2, <1>3
<1>5. point = Max(tops)
  BY DEF ForkPoint
<1> HIDE DEF m, point
<1>6. ASSUME NEW k \in matched
      PROVE  /\ k \in Nat /\ k < m
             /\ \E y \in hashes : k = y.number
                  /\ \E s \in cursor.seen : s.number = y.number /\ s.hash = y.hash
  BY DEF SeenType
<1>7. tops \in SUBSET (0..m) /\ settled \in tops
  <2>1. ASSUME NEW k \in matched PROVE k + 1 \in 0..m
    <3>1. k \in Nat /\ k < m
      BY <1>6, Zenon
    <3> HIDE DEF matched
    <3> QED BY <1>3, <3>1
  <2>2. settled \in 0..m
    BY <1>1, <1>3, <1>4
  <2> HIDE DEF matched
  <2> QED BY <2>1, <2>2
<1>8. point \in tops /\ point \in 0..m /\ \A x \in tops : x <= point
  <2> HIDE DEF tops
  <2>1. tops # {} /\ m \in Int
    BY <1>3, <1>7
  <2> QED BY <1>5, <1>7, <2>1, MaxNat
<1>9. point \in Nat /\ settled <= point /\ point <= m
  <2> HIDE DEF tops, settled
  <2>1. settled <= point
    BY <1>7, <1>8, Zenon
  <2>2. point \in Nat /\ point <= m
    BY <1>3, <1>8
  <2> QED BY <2>1, <2>2, Zenon
<1>10. ASSUME point > settled
       PROVE  \E y \in hashes : /\ point = y.number + 1
                                /\ \E s \in cursor.seen : s.number = y.number /\ s.hash = y.hash
  <2>1. PICK k \in matched : point = k + 1
    <3>1. point # settled
      BY <1>1, <1>9, <1>10
    <3> HIDE DEF matched
    <3> QED BY <1>8, <3>1
  <2> QED BY <1>6, <2>1
<1> QED BY <1>3, <1>9, <1>10, Zenon DEF m, point

(* The floor of an answer is not below its range, and in front of its hot    *)
(* blocks.                                                                   *)
LEMMA AnswerBounds ==
  ASSUME NEW a, NEW finality, NEW covered \in Nat, NEW top, Answered(a, finality, covered, top)
  PROVE  /\ Floor(a) \in Nat /\ a.range.start \in Nat /\ a.range.start <= Floor(a)
         /\ Served(a) # NoRange => Served(a).end \in Nat
         /\ \A n \in HotBlocks(a) : n \in Nat /\ n >= Floor(a)
         /\ Served(a) # NoRange => \A n \in BlocksOf(Served(a)) : n >= Floor(a) => n \in HotBlocks(a)
<1>1. PICK d \in MaybeRange, h \in MaybeRange :
        a.segments = Segments(d, h) /\ Parts(a.range, a.wanted, d, h, finality, covered, top)
  BY DEF Answered
<1>2. /\ a.range.start \in Nat
      /\ d # NoRange => d.start = a.range.start /\ d.end \in Nat /\ d.start \in Nat
                        /\ d.start <= d.end
      /\ h # NoRange => h.start \in Nat /\ h.end \in Nat /\ a.range.start <= h.start
                        /\ (d # NoRange => h.start = d.end + 1)
  BY <1>1, RangesType DEF Parts, MaybeRange
<1>3. Floor(a) = IF d # NoRange THEN d.end + 1
                 ELSE IF h # NoRange THEN h.start ELSE a.range.start
  BY <1>1, FloorIs, Zenon
<1>4. HotBlocks(a) = IF h = NoRange THEN {} ELSE h.start..h.end
  BY <1>1, HotBlocksIs DEF BlocksOf
<1>5. /\ d = NoRange /\ h = NoRange => Served(a) = NoRange
      /\ Served(a) # NoRange =>
           /\ Served(a).start = (IF d # NoRange THEN d.start ELSE h.start)
           /\ Served(a).end = (IF h # NoRange THEN h.end ELSE d.end)
  BY <1>1, ServedIs
<1>6. /\ Floor(a) \in Nat /\ a.range.start <= Floor(a)
      /\ \A n \in HotBlocks(a) : n \in Nat /\ n >= Floor(a)
  <2>1. CASE h = NoRange
    <3>1. HotBlocks(a) = {} /\ Floor(a) = IF d # NoRange THEN d.end + 1 ELSE a.range.start
      BY <1>3, <1>4, <2>1, Zenon
    <3>2. /\ a.range.start \in Nat
          /\ d # NoRange => d.end \in Nat /\ a.range.start <= d.end
      BY <1>2, Zenon
    <3>3. CASE d = NoRange
      <4>1. Floor(a) = a.range.start
        BY <3>1, <3>3, Zenon
      <4>2. a.range.start <= a.range.start
        BY <3>2, Reflexive, Zenon
      <4> QED BY <3>1, <3>2, <4>1, <4>2, Zenon
    <3>4. CASE d # NoRange
      <4>1. Floor(a) = d.end + 1 /\ d.end \in Nat /\ a.range.start <= d.end
        BY <3>1, <3>2, <3>4, Zenon
      <4>2. Floor(a) \in Nat /\ a.range.start <= Floor(a)
        BY <3>2, <4>1, BehindIs, Zenon
      <4> QED BY <3>1, <4>2, Zenon
    <3> QED BY <3>3, <3>4, Zenon
  <2>2. CASE h # NoRange
    <3>1. /\ h.start \in Nat /\ h.end \in Nat /\ a.range.start <= h.start
          /\ HotBlocks(a) = h.start..h.end /\ Floor(a) = h.start
      BY <1>2, <1>3, <1>4, <2>2, Zenon
    <3> QED BY <3>1, IntervalFloor, Zenon
  <2> QED BY <2>1, <2>2, Zenon
<1>7. ASSUME Served(a) # NoRange
      PROVE  /\ Served(a).end \in Nat
             /\ \A n \in BlocksOf(Served(a)) : n >= Floor(a) => n \in HotBlocks(a)
  <2>1. CASE h # NoRange
    <3>1. /\ h.start \in Nat /\ h.end \in Nat /\ Served(a).end = h.end
          /\ HotBlocks(a) = h.start..h.end /\ Floor(a) = h.start
      BY <1>2, <1>3, <1>4, <1>5, <1>7, <2>1, Zenon
    <3>2. Served(a).start \in Nat
      BY <1>2, <1>5, <1>7, <2>1, Zenon
    <3> QED BY <3>1, <3>2 DEF BlocksOf
  <2>2. CASE h = NoRange
    <3>1. d # NoRange /\ Served(a).end = d.end /\ Floor(a) = d.end + 1 /\ d.end \in Nat
          /\ Served(a).start = d.start /\ d.start \in Nat
      BY <1>2, <1>3, <1>5, <1>7, <2>2, Zenon
    <3> QED BY <3>1 DEF BlocksOf
  <2> QED BY <2>1, <2>2
<1> QED BY <1>2, <1>6, <1>7, Zenon

(* A remembered height with rows that is hot in the answer and no mismatch  *)
(* has this row in the answer.                                              *)
LEMMA StillThere ==
  ASSUME NEW a \in CallType, NEW r \in LogRow, NEW seen,
         [number |-> r.number, hash |-> r.hash, rows |-> TRUE] \in seen,
         r.number \in HotBlocks(a),
         r.number \notin Mismatches(seen, HotHashes(a), HotBlocks(a))
  PROVE  r \in a.rows
<1> DEFINE t == [number |-> r.number, hash |-> r.hash, rows |-> TRUE]
           hashes == HotHashes(a)
<1>1. t \in seen /\ t.number = r.number /\ t.hash = r.hash /\ t.rows = TRUE
  OBVIOUS
<1> HIDE DEF t
<1>2. /\ ~\E x \in hashes : x.number = t.number /\ x.hash # t.hash
      /\ ~(t.rows /\ t.number \in HotBlocks(a)
             /\ ~\E x \in hashes : x.number = t.number /\ x.rows)
  <2> HIDE DEF hashes
  <2>1. r.number \notin Mismatches(seen, hashes, HotBlocks(a))
    BY DEF hashes
  <2> QED BY <1>1, <2>1, Zenon DEF Mismatches
<1>3. PICK x \in hashes : x.number = t.number /\ x.rows
  BY <1>1, <1>2
<1>4. x.hash = r.hash /\ x.number = r.number
  BY <1>1, <1>2, <1>3
<1>5. [number |-> x.number, hash |-> x.hash] \in a.rows
  BY <1>3, HotHashesAre
<1>6. r = [number |-> r.number, hash |-> r.hash]
  BY DEF LogRow, RowType
<1> QED BY <1>4, <1>5, <1>6

(* What observe does to the cursor and the rows when it finds no mismatch. *)
LEMMA ConsistentOK ==
  ASSUME SdkInv, CursorInv, call.pc = "done", Consistent(call)
  PROVE  /\ CursorInv' /\ kept' = kept \cup call.rows
         /\ Mismatches(cursor.seen, HotHashes(call), HotBlocks(call)) = {}
         /\ cursor'.settled = Greatest(cursor.settled, Floor(call))
         /\ \A r \in call.rows : r.number \in HotBlocks(call) /\ r.number >= cursor'.settled =>
              [number |-> r.number, hash |-> r.hash, rows |-> TRUE] \in cursor'.seen
         /\ \A s \in cursor.seen : s.rows /\ s.number >= cursor'.settled =>
              [number |-> s.number, hash |-> s.hash, rows |-> TRUE] \in cursor'.seen
<1> DEFINE hashes  == HotHashes(call)
           stay    == {s \in cursor.seen : \A x \in hashes : x.number # s.number}
           Merged(x) == [x EXCEPT !.rows = x.rows \/ \E s \in cursor.seen :
                                                       s.number = x.number /\ s.rows]
           seen    == stay \cup {Merged(x) : x \in hashes}
           settled == Greatest(cursor.settled, Floor(call))
           top     == IF Served(call) = NoRange THEN cursor.next
                      ELSE Greatest(cursor.next, Served(call).end + 1)
<1>1. /\ Mismatches(cursor.seen, hashes, HotBlocks(call)) = {}
      /\ cursor' = [settled |-> settled, next |-> top, seen |-> {s \in seen : s.number >= settled}]
      /\ kept' = kept \cup call.rows
  BY DEF Consistent
<1>2. /\ call \in CallType /\ Answered(call, program.finality, durable, safe)
      /\ durable \in Nat
  BY SdkHeights DEF SdkInv, CallInv
<1>3. /\ Floor(call) \in Nat /\ (Served(call) # NoRange => Served(call).end \in Nat)
  BY <1>2, AnswerBounds, Zenon
<1>4. /\ cursor.settled \in Nat \ {0} /\ cursor.next \in Nat /\ cursor.seen \subseteq SeenType
  BY DEF CursorInv
<1>5. settled \in Nat \ {0} /\ top \in Nat
  BY <1>3, <1>4 DEF Greatest
<1>6. hashes \subseteq SeenType
  BY <1>2, HotHashesAre
<1> HIDE DEF hashes, settled, top
<1>7. ASSUME NEW x \in hashes
      PROVE  /\ Merged(x) \in SeenType
             /\ Merged(x).number = x.number /\ Merged(x).hash = x.hash
             /\ x.rows \/ (\E s \in cursor.seen : s.number = x.number /\ s.rows) =>
                  Merged(x) = [number |-> x.number, hash |-> x.hash, rows |-> TRUE]
  <2>1. x \in SeenType
    BY <1>6
  <2> DEFINE b == x.rows \/ \E s \in cursor.seen : s.number = x.number /\ s.rows
  <2>2. b \in BOOLEAN
    BY <2>1 DEF SeenType
  <2>3. Merged(x) = [x EXCEPT !.rows = b]
    OBVIOUS
  <2> HIDE DEF b, Merged
  <2>4. Merged(x) = [number |-> x.number, hash |-> x.hash, rows |-> b]
    BY <2>1, <2>3 DEF SeenType
  <2>5. Merged(x) \in SeenType
    <3>1. x.number \in Nat /\ x.hash \in Seq(BlockType)
      BY <2>1 DEF SeenType
    <3>2. [number |-> x.number, hash |-> x.hash, rows |-> b]
             \in [number : Nat, hash : Seq(BlockType), rows : BOOLEAN]
      BY <2>2, <3>1
    <3> QED BY <2>4, <3>2, Zenon DEF SeenType
  <2>6. b => Merged(x) = [number |-> x.number, hash |-> x.hash, rows |-> TRUE]
    BY <2>2, <2>4
  <2>7. Merged(x).number = x.number /\ Merged(x).hash = x.hash
    BY <2>4
  <2> QED BY <2>5, <2>6, <2>7, Zenon DEF b
<1>8. seen \subseteq SeenType
  BY <1>4, <1>7, Zenon
<1>9. CursorInv'
  <2> HIDE DEF seen
  <2> QED BY <1>1, <1>5, <1>8 DEF CursorInv
<1>10. cursor'.settled = settled /\ cursor'.seen = {s \in seen : s.number >= settled}
  BY <1>1
<1>11. ASSUME NEW r \in call.rows, r.number \in HotBlocks(call), r.number >= settled
       PROVE  [number |-> r.number, hash |-> r.hash, rows |-> TRUE] \in cursor'.seen
  <2> DEFINE x == [number |-> r.number, hash |-> r.hash, rows |-> TRUE]
  <2>1. x \in hashes
    BY <1>2, <1>11, HotHashesAre, Zenon DEF hashes
  <2>2. x.number = r.number /\ x.hash = r.hash /\ x.rows
    OBVIOUS
  <2> HIDE DEF x, Merged
  <2>3. Merged(x) = [number |-> x.number, hash |-> x.hash, rows |-> TRUE]
    BY <1>7, <2>1, <2>2
  <2>4. Merged(x) = x /\ Merged(x) \in seen
    BY <2>1, <2>2, <2>3, Zenon DEF x
  <2>5. x \in cursor'.seen
    <3> HIDE DEF seen
    <3> QED BY <1>10, <1>11, <2>2, <2>4
  <2> QED BY <2>5 DEF x
<1>12. ASSUME NEW s \in cursor.seen, s.rows, s.number >= settled
       PROVE  [number |-> s.number, hash |-> s.hash, rows |-> TRUE] \in cursor'.seen
  <2> DEFINE y == [number |-> s.number, hash |-> s.hash, rows |-> TRUE]
  <2>1. s = y
    BY <1>4, <1>12 DEF SeenType
  <2>2. y.number = s.number
    OBVIOUS
  <2>3. y \in seen
    <3>1. CASE \A x \in hashes : x.number # s.number
      BY <2>1, <3>1, Zenon
    <3>2. CASE \E x \in hashes : x.number = s.number
      <4>1. PICK x \in hashes : x.number = s.number
        BY <3>2
      <4>2. x.hash = s.hash
        BY <1>1, <4>1 DEF Mismatches
      <4> HIDE DEF Merged
      <4>3. Merged(x) = [number |-> x.number, hash |-> x.hash, rows |-> TRUE]
        BY <1>7, <1>12, <4>1
      <4> QED BY <4>1, <4>2, <4>3
    <3> QED BY <3>1, <3>2, Zenon
  <2> HIDE DEF y, seen
  <2>4. y \in cursor'.seen
    BY <1>10, <1>12, <2>2, <2>3
  <2> QED BY <2>4 DEF y
<1> QED BY <1>1, <1>9, <1>10, <1>11, <1>12, Zenon DEF hashes, settled

(* What it does when it finds one. *)
LEMMA RollbackOK ==
  ASSUME SdkInv, CursorInv, Rollback(call)
  PROVE  /\ CursorInv' /\ cursor'.settled = cursor.settled
         /\ \E point \in Nat :
              /\ kept' = {r \in kept : r.number < point}
              /\ cursor'.seen = {s \in cursor.seen : s.number < point}
              /\ \A k \in Mismatches(cursor.seen, HotHashes(call), HotBlocks(call)) : point <= k
              /\ point > cursor.settled => \E y \in HotHashes(call) :
                   /\ point = y.number + 1
                   /\ \E s \in cursor.seen : s.number = y.number /\ s.hash = y.hash
<1> DEFINE hashes     == HotHashes(call)
           mismatches == Mismatches(cursor.seen, hashes, HotBlocks(call))
           point      == ForkPoint(cursor.seen, hashes, Min(mismatches))
<1>1. /\ mismatches # {}
      /\ cursor' = [cursor EXCEPT !.next = point,
                                  !.seen = {s \in cursor.seen : s.number < point}]
      /\ kept' = {r \in kept : r.number < point}
  BY DEF Rollback
<1>2. hashes \subseteq SeenType
  BY HotHashesAre, Zenon DEF SdkInv, CallInv
<1> HIDE DEF hashes
<1>3. \A s \in cursor.seen : s.number \in Nat
  BY DEF CursorInv, SeenType
<1>4. /\ Min(mismatches) \in Nat /\ \A k \in mismatches : Min(mismatches) <= k
      /\ point \in Nat /\ point <= Min(mismatches)
      /\ point > cursor.settled => \E y \in hashes :
           /\ point = y.number + 1
           /\ \E s \in cursor.seen : s.number = y.number /\ s.hash = y.hash
  BY <1>1, <1>2, ForkPointIs
<1>5. \A k \in mismatches : k \in Nat
  BY <1>3 DEF Mismatches
<1> HIDE DEF mismatches, point
<1>6. \A k \in mismatches : point <= k
  BY <1>4, <1>5
<1>7. /\ cursor'.settled = cursor.settled
      /\ cursor'.seen = {s \in cursor.seen : s.number < point}
      /\ CursorInv'
  BY <1>1, <1>4, Zenon DEF CursorInv
<1> QED BY <1>1, <1>4, <1>6, <1>7 DEF hashes, mismatches

-----------------------------------------------------------------------------
(* The stream and the checkpoint *)

LEMMA SdkStep ==
  ASSUME SdkInv, CursorInv, [Next]_vars
  PROVE  SdkInv' /\ CursorInv'
<1>1. CASE ChainStep
  <2>1. cursor' = cursor
    BY <1>1, Zenon DEF ChainStep, Mine, Reorg, SafeMoves, tailVars
  <2> QED BY <1>1, <2>1, ChainStepOK DEF CursorInv
<1>2. CASE Follow
  <2>1. cursor' = cursor
    BY <1>2 DEF Follow, tailVars
  <2> QED BY <1>2, <2>1, FollowOK DEF CursorInv
<1>3. CASE Cover
  <2>1. cursor' = cursor
    BY <1>3 DEF Cover, tailVars
  <2> QED BY <1>3, <2>1, CoverOK DEF CursorInv
<1>4. CASE CallStep
  <2>1. cursor' = cursor
    BY <1>4 DEF CallStep, QueryServes, QueryRows, tailVars
  <2> QED BY <1>4, <2>1, QueryServesOK, QueryRowsOK DEF CallStep, CursorInv
<1>5. CASE FollowStep
  <2>1. cursor' = cursor
    BY <1>5 DEF FollowStep, Step, Batch, Save, tailVars
  <2> QED BY <1>5, <2>1, StepOK, BatchOK, SaveOK DEF FollowStep, CursorInv
<1>6. CASE CallFails
  <2>1. cursor' = cursor
    BY <1>6 DEF CallFails, tailVars
  <2> QED BY <1>6, <2>1, CallFailsOK DEF CursorInv
<1>7. CASE Crash
  <2>1. cursor' = cursor
    BY <1>7 DEF Crash, tailVars
  <2> QED BY <1>7, <2>1, CrashOK DEF CursorInv
<1>8. CASE Reread
  <2>1. cursor' = cursor
    BY <1>8 DEF Reread, tailVars
  <2>2. cursor.settled \in Nat \ {0}
    BY DEF CursorInv
  <2> QED BY <1>8, <2>1, <2>2, RereadOK DEF CursorInv
<1>9. CASE Observe
  <2>1. call.pc = "done" /\ (Consistent(call) \/ Rollback(call))
    BY <1>9 DEF Observe
  <2> QED BY <1>9, <2>1, ObserveOK, ConsistentOK, RollbackOK, Zenon
<1>10. CASE UNCHANGED vars
  <2>1. /\ cursor' = cursor /\ UNCHANGED <<call, followVars>>
        /\ program' = program /\ chain' = chain /\ forks' = forks /\ safe' = safe
        /\ view' = view /\ durable' = durable
    BY <1>10 DEF vars, chainVars, serviceVars, tailVars
  <2>2. Moved
    BY <2>1, SdkHeights DEF Moved, SdkInv, ChainInv
  <2> QED BY <2>1, <2>2, ServiceMoves DEF CursorInv
<1> QED BY <1>1, <1>2, <1>3, <1>4, <1>5, <1>6, <1>7, <1>8, <1>9, <1>10, Zenon DEF Next, TailStep

LEMMA CursorInit ==
  ASSUME Init
  PROVE  CursorInv
<1>1. cursor = [settled |-> 2, next |-> 2, seen |-> {}]
  BY Zenon DEF Init
<1>2. [settled |-> 2, next |-> 2, seen |-> {}] \in [settled : Nat \ {0}, next : Nat, seen : SUBSET SeenType]
  OBVIOUS
<1>3. cursor.seen = {}
  BY <1>1
<1> QED BY <1>1, <1>2, <1>3, Zenon DEF CursorInv

LEMMA SdkInvariant == Spec => [](SdkInv /\ CursorInv)
<1>1. Init => SdkInv /\ CursorInv
  <2>1. ASSUME Init PROVE CursorInv
    BY <2>1, CursorInit, Zenon
  <2> QED BY <2>1, InitOK, Zenon
<1>2. SdkInv /\ CursorInv /\ [Next]_vars => (SdkInv /\ CursorInv)'
  BY SdkStep
<1> QED BY <1>1, <1>2, PTL DEF Spec

(* The follow stream reports every block from where it was started to the   *)
(* one before `next` exactly once, whatever the chain, the chunk, the page  *)
(* limit and the end of the request: safe and latest may move, the chain    *)
(* fork and calls fail between reading the heads and the answer.            *)
THEOREM StreamReportsOnce == Spec => []ReportedOnce
<1>1. SdkInv => ReportedOnce
  BY DEF SdkInv, StreamInv
<1> QED BY <1>1, SdkInvariant, PTL

(* A checkpoint saved after each batch loses and invents nothing, wherever  *)
(* the application crashes: the rows of a durable segment are written       *)
(* before the cursor passes it, and covered blocks do not change.           *)
THEOREM CheckpointAlwaysHolds == Spec => []CheckpointHolds
<1>1. SdkInv => CheckpointHolds
  <2> SUFFICES ASSUME SdkInv PROVE CheckpointHolds
    OBVIOUS
  <2>1. /\ checkpoint \in Nat /\ 1 <= checkpoint /\ checkpoint <= durable + 1
        /\ durable \in Nat /\ safe \in Nat /\ durable <= safe /\ chain \in Seq(BlockType)
    BY SdkHeights DEF SdkInv, SavedInv
  <2>2. checkpoint <= safe + 1
    BY <2>1
  <2>3. ASSUME program.finality = "durable_only"
        PROVE  /\ {r \in written : r.number < checkpoint} = RowsOf(chain, 1..(checkpoint - 1))
               /\ written \subseteq RowsOf(chain, 1..safe)
    <3>1. /\ written \subseteq RowsOf(chain, 1..durable)
          /\ RowsOf(chain, 1..(checkpoint - 1)) \subseteq written
      BY <2>3 DEF SdkInv, CollectedInv
    <3>2. written \subseteq RowsOf(chain, 1..safe)
      <4>1. 1..durable \subseteq 1..safe
        BY <2>1
      <4> QED BY <3>1, <4>1, RowsWithin, Zenon
    <3>3. ASSUME NEW r \in written, r.number < checkpoint
          PROVE  r \in RowsOf(chain, 1..(checkpoint - 1))
      <4>1. r.number \in 1..durable
        BY <2>1, <3>1, RowsAreLogs
      <4>2. r.number \in 1..(checkpoint - 1)
        BY <2>1, <3>3, <4>1
      <4> QED BY <3>1, <4>2, RowsWithin, Zenon
    <3>4. ASSUME NEW r \in RowsOf(chain, 1..(checkpoint - 1))
          PROVE  r \in written /\ r.number < checkpoint
      <4>1. r.number \in 1..(checkpoint - 1)
        BY <2>1, RowsAreLogs, Zenon
      <4> QED BY <2>1, <3>1, <4>1
    <3> QED BY <3>2, <3>3, <3>4
  <2> QED BY <2>2, <2>3 DEF CheckpointHolds
<1> QED BY <1>1, SdkInvariant, PTL

-----------------------------------------------------------------------------
(* The tail *)

(* Only an observed answer moves the cursor or the rows kept. *)
LEMMA TailStays ==
  ASSUME TailInv, kept' = kept, cursor' = cursor, program' = program,
         program.kind = "tail" =>
           /\ call'.pc # "none" => call'.range.start = cursor.settled
           /\ call'.pc \in {"serve", "rows"} => call'.rows = {}
           /\ call'.pc = "done" => \A r \in call'.rows :
                Served(call') # NoRange /\ r.number \in BlocksOf(Served(call'))
  PROVE  TailInv'
BY Zenon DEF TailInv

LEMMA ConsistentKeeps ==
  ASSUME SdkInv, CursorInv, TailInv, Observe, Consistent(call)
  PROVE  TailInv'
<1>1. /\ program.kind = "tail" /\ call.pc = "done" /\ call' = NoCall
  BY DEF Observe
<1>2. /\ kept' = kept \cup call.rows /\ cursor'.settled = Greatest(cursor.settled, Floor(call))
      /\ \A r \in call.rows : r.number \in HotBlocks(call) /\ r.number >= cursor'.settled =>
           [number |-> r.number, hash |-> r.hash, rows |-> TRUE] \in cursor'.seen
      /\ \A s \in cursor.seen : s.rows /\ s.number >= cursor'.settled =>
           [number |-> s.number, hash |-> s.hash, rows |-> TRUE] \in cursor'.seen
  BY <1>1, ConsistentOK, Zenon
<1>3. /\ call \in CallType /\ Answered(call, program.finality, durable, safe) /\ durable \in Nat
      /\ call.rows \subseteq LogRow
  BY <1>1, SdkHeights DEF SdkInv, CallInv, CallType
<1>4. /\ Floor(call) \in Nat
      /\ Served(call) # NoRange =>
           \A n \in BlocksOf(Served(call)) : n >= Floor(call) => n \in HotBlocks(call)
  BY <1>3, AnswerBounds, Zenon
<1>5. cursor.settled \in Nat /\ cursor'.settled \in Nat /\ cursor.settled <= cursor'.settled
      /\ Floor(call) <= cursor'.settled
  <2>1. cursor.settled \in Nat
    BY DEF CursorInv
  <2> QED BY <1>2, <1>4, <2>1, GreatestIs, Zenon
<1>6. kept' \subseteq LogRow /\ \A r \in LogRow : r.number \in Nat
  BY <1>2, <1>3, Zenon DEF TailInv, LogRow, RowType
<1>7. ASSUME NEW r \in kept', r.number >= cursor'.settled
      PROVE  [number |-> r.number, hash |-> r.hash, rows |-> TRUE] \in cursor'.seen
  <2>0. r.number \in Nat
    BY <1>6
  <2>1. CASE r \in kept
    <3> DEFINE s == [number |-> r.number, hash |-> r.hash, rows |-> TRUE]
    <3>1. r.number >= cursor.settled
      BY <1>5, <1>7, <2>0
    <3>2. s \in cursor.seen
      BY <2>1, <3>1 DEF TailInv
    <3>3. s.rows /\ s.number = r.number /\ s.hash = r.hash
      OBVIOUS
    <3> HIDE DEF s
    <3>4. [number |-> s.number, hash |-> s.hash, rows |-> TRUE] \in cursor'.seen
      BY <1>2, <1>7, <3>2, <3>3
    <3> QED BY <3>3, <3>4
  <2>2. CASE r \in call.rows
    <3>1. Served(call) # NoRange /\ r.number \in BlocksOf(Served(call))
      BY <1>1, <2>2 DEF TailInv
    <3>2. r.number >= Floor(call)
      BY <1>4, <1>5, <1>7, <2>0
    <3>3. r.number \in HotBlocks(call)
      BY <1>4, <3>1, <3>2
    <3> QED BY <1>2, <1>7, <2>2, <3>3
  <2> QED BY <1>2, <2>1, <2>2, Zenon
<1> QED BY <1>1, <1>6, <1>7, NoCallType DEF TailInv

LEMMA RollbackKeeps ==
  ASSUME SdkInv, CursorInv, TailInv, Observe, Rollback(call)
  PROVE  TailInv'
<1>1. call' = NoCall
  BY Zenon DEF Observe
<1>2. PICK point \in Nat :
        /\ kept' = {r \in kept : r.number < point}
        /\ cursor'.seen = {s \in cursor.seen : s.number < point}
  BY RollbackOK, Zenon
<1>3. cursor'.settled = cursor.settled
  BY RollbackOK
<1>4. ASSUME NEW r \in kept', r.number >= cursor'.settled
      PROVE  [number |-> r.number, hash |-> r.hash, rows |-> TRUE] \in cursor'.seen
  <2>1. r \in kept /\ r.number < point
    BY <1>2, Zenon
  <2>2. [number |-> r.number, hash |-> r.hash, rows |-> TRUE] \in cursor.seen
    BY <1>3, <1>4, <2>1 DEF TailInv
  <2> QED BY <1>2, <2>1, <2>2, Zenon
<1> QED BY <1>1, <1>2, <1>4, NoCallType, Zenon DEF TailInv

LEMMA TailStepOK ==
  ASSUME OnePage, SdkInv, CursorInv, TailInv, [Next]_vars
  PROVE  TailInv'
<1>1. CASE ChainStep
  BY <1>1, TailStays, Zenon DEF ChainStep, Mine, Reorg, SafeMoves, tailVars, TailInv
<1>2. CASE Follow
  BY <1>2, TailStays, Zenon DEF Follow, chainVars, tailVars, TailInv
<1>3. CASE Cover
  BY <1>3, TailStays, Zenon DEF Cover, chainVars, tailVars, TailInv
<1>4. CASE QueryServes
  <2>1. kept' = kept /\ cursor' = cursor /\ program' = program
    BY <1>4 DEF QueryServes, chainVars, tailVars
  <2>2. /\ call'.rows = call.rows /\ call'.range = call.range
        /\ call'.pc = "rows" /\ call.pc = "serve"
    BY <1>4, QueryServesOK
  <2> QED BY <2>1, <2>2, TailStays, Zenon DEF TailInv
<1>5. CASE QueryRows
  <2>1. kept' = kept /\ cursor' = cursor /\ program' = program
    BY <1>5 DEF QueryRows, chainVars, tailVars
  <2>2. ASSUME program.kind = "tail" PROVE program.limit >= MaxEnd
    BY <2>2 DEF OnePage, SdkInv, ChainInv
  <2>3. /\ call.pc = "rows" /\ call'.range = call.range /\ call'.pc # "rows"
        /\ program.limit >= MaxEnd /\ call.rows = {} =>
             \/ call'.pc = "serve" /\ call'.rows = {}
             \/ /\ call'.pc = "done"
                /\ \A r \in call'.rows :
                     Served(call') # NoRange /\ r.number \in BlocksOf(Served(call'))
    BY <1>5, QueryRowsOK, Zenon
  <2> QED BY <2>1, <2>2, <2>3, TailStays, Zenon DEF TailInv
<1>6. CASE FollowStep
  <2>1. kept' = kept /\ cursor' = cursor /\ program' = program
    BY <1>6 DEF FollowStep, Step, Batch, Save, chainVars, tailVars
  <2>2. program.kind # "tail"
    BY <1>6 DEF FollowStep, Step, Batch, Save, SdkInv, StreamInv
  <2> QED BY <2>1, <2>2, TailStays
<1>7. CASE CallFails
  BY <1>7, NoCallType, TailStays DEF CallFails, chainVars, tailVars
<1>8. CASE Crash
  BY <1>8, NoCallType, TailStays DEF Crash, chainVars, tailVars
<1>9. CASE Reread
  <2>1. kept' = kept /\ cursor' = cursor /\ program' = program
    BY <1>9 DEF Reread, chainVars, tailVars
  <2>2. cursor.settled \in Nat \ {0}
    BY DEF CursorInv
  <2>3. call'.pc = "serve" /\ call'.range.start = cursor.settled /\ call'.rows = {}
    BY <1>9, <2>2, RereadOK
  <2> QED BY <2>1, <2>3, TailStays
<1>10. CASE Observe
  BY <1>10, ConsistentKeeps, RollbackKeeps DEF Observe
<1>11. CASE UNCHANGED vars
  BY <1>11, TailStays, Zenon DEF vars, chainVars, tailVars, TailInv
<1> QED BY <1>1, <1>2, <1>3, <1>4, <1>5, <1>6, <1>7, <1>8, <1>9, <1>10, <1>11, Zenon
        DEF Next, CallStep, TailStep

(* The chain of an answer that is whole has every block it names. *)
LEMMA WholeNames ==
  ASSUME ChainInv, NEW a \in CallType, Whole(a), NEW y \in HotHashes(a)
  PROVE  y.number \in 0..Len(view) /\ y.hash = Hash(view, y.number)
<1> DEFINE x == [number |-> y.number, hash |-> y.hash]
<1>1. view \in Seq(BlockType) /\ Len(view) \in Nat
  BY SdkHeights
<1>2. y \in SeenType
  BY HotHashesAre
<1>3. CASE y.rows
  <2>1. x \in RowsOf(view, HotBlocks(a))
    BY <1>3, HotHashesAre, Zenon DEF Whole
  <2>2. x.number = y.number /\ x.hash = y.hash
    OBVIOUS
  <2> HIDE DEF x
  <2>3. PICK n \in DOMAIN view : x = [number |-> n, hash |-> Hash(view, n)]
    BY <2>1, RowsHave, Zenon
  <2>4. n \in 0..Len(view)
    BY <1>1
  <2> QED BY <2>2, <2>3, <2>4
<1>4. CASE ~y.rows
  <2>1. x \in a.anchor
    BY <1>4, HotHashesAre
  <2>2. x.number = y.number /\ x.hash = y.hash
    OBVIOUS
  <2> HIDE DEF x
  <2>3. x.number <= Len(view) /\ x.hash = Hash(view, x.number)
    BY <2>1 DEF Whole
  <2>4. y.number \in Nat
    BY <1>2 DEF SeenType
  <2>5. y.number <= Len(view) /\ y.hash = Hash(view, y.number)
    BY <2>2, <2>3, Zenon
  <2>6. y.number \in 0..Len(view)
    BY <1>1, <2>4, <2>5
  <2> QED BY <2>5, <2>6, Zenon
<1> QED BY <1>3, <1>4, Zenon

(* A row whose hash the followed chain has is a row of the chain. *)
LEMMA HashVouches ==
  ASSUME ChainInv, NEW r \in LogRow, r.number <= Len(view), r.hash = Hash(view, r.number)
  PROVE  r \in RowsOf(view, 1..MaxEnd)
<1>1. view \in Seq(BlockType) /\ Len(view) \in Nat /\ Len(view) <= MaxEnd /\ MaxEnd \in Nat
  BY SdkHeights
<1>2. /\ r.number \in Nat /\ r.number > 0 /\ r.hash[r.number].log
      /\ r = [number |-> r.number, hash |-> r.hash]
  BY DEF LogRow, RowType
<1>3. r.number \in DOMAIN view /\ r.number \in 1..MaxEnd /\ r.number \in 0..Len(view)
      /\ r.number \in 1..r.number
  BY <1>1, <1>2
<1>4. Hash(view, r.number)[r.number] = view[r.number]
  BY <1>1, <1>3, PrefixSeq
<1> QED BY <1>2, <1>3, <1>4, RowsAre, Zenon

(* After Consistent the rows kept within the hot blocks are the answer's. *)
LEMMA ConsistentRepairs ==
  ASSUME SdkInv, CursorInv, TailInv, Observe, Consistent(call), Whole(call)
  PROVE  {r \in {q \in kept' : q.number >= cursor'.settled} : r.number \in HotBlocks(call)}
           = call.rows
<1>1. program.kind = "tail" /\ call.pc = "done"
  BY DEF Observe
<1>2. /\ kept' = kept \cup call.rows /\ cursor'.settled = Greatest(cursor.settled, Floor(call))
      /\ Mismatches(cursor.seen, HotHashes(call), HotBlocks(call)) = {}
  BY <1>1, ConsistentOK, Zenon
<1>3. /\ call \in CallType /\ Answered(call, program.finality, durable, safe) /\ durable \in Nat
  BY <1>1, SdkHeights, Zenon DEF SdkInv, CallInv
<1>4. /\ Floor(call) \in Nat /\ call.range.start \in Nat /\ call.range.start <= Floor(call)
      /\ \A n \in HotBlocks(call) : n \in Nat /\ n >= Floor(call)
  BY <1>3, AnswerBounds, Zenon
<1>5. call.range.start = cursor.settled
  BY <1>1, Zenon DEF TailInv
<1>6. cursor'.settled = Floor(call)
  BY <1>2, <1>4, <1>5, GreatestAbove, Zenon
<1>7. ASSUME NEW r \in call.rows
      PROVE  r \in kept' /\ r.number >= cursor'.settled /\ r.number \in HotBlocks(call)
  <2>1. r \in RowsOf(view, HotBlocks(call))
    BY <1>7, Zenon DEF Whole
  <2>2. r.number \in HotBlocks(call)
    BY <2>1, RowsAre
  <2> QED BY <1>2, <1>4, <1>6, <2>2, Zenon
<1>8. ASSUME NEW r \in kept', r.number >= cursor'.settled, r.number \in HotBlocks(call)
      PROVE  r \in call.rows
  <2>1. CASE r \in kept
    <3>1. r \in LogRow
      BY <2>1 DEF TailInv
    <3>2. r.number >= cursor.settled
      <4>1. /\ r.number \in Nat /\ Floor(call) \in Nat /\ call.range.start \in Nat
            /\ call.range.start <= Floor(call) /\ r.number >= Floor(call)
        BY <1>4, <1>6, <1>8, Zenon
      <4>2. r.number >= call.range.start
        BY <4>1
      <4> QED BY <4>2, <1>5, Zenon
    <3>3. [number |-> r.number, hash |-> r.hash, rows |-> TRUE] \in cursor.seen
      BY <2>1, <3>2 DEF TailInv
    <3> QED BY <1>2, <1>3, <1>8, <3>1, <3>3, StillThere, Zenon
  <2> QED BY <1>2, <1>8, <2>1, Zenon
<1> QED BY <1>7, <1>8

(* After Rollback the rows kept within the hot blocks are of the answer, and  *)
(* all of those above settled are of its chain when the memory was coherent.  *)
LEMMA RollbackRepairs ==
  ASSUME SdkInv, CursorInv, TailInv, Observe, Rollback(call), Whole(call),
         NEW r \in kept', r.number >= cursor'.settled
  PROVE  /\ r.number \in HotBlocks(call) => r \in call.rows
         /\ Coherent(cursor.seen) => r \in RowsOf(view, 1..MaxEnd)
<1> DEFINE t == [number |-> r.number, hash |-> r.hash, rows |-> TRUE]
           mismatches == Mismatches(cursor.seen, HotHashes(call), HotBlocks(call))
<1>1. call \in CallType /\ ChainInv /\ view \in Seq(BlockType) /\ Len(view) \in Nat
  BY SdkHeights, Zenon DEF SdkInv, CallInv, Observe
<1>2. PICK point \in Nat :
        /\ kept' = {q \in kept : q.number < point}
        /\ \A k \in mismatches : point <= k
        /\ point > cursor.settled => \E y \in HotHashes(call) :
             /\ point = y.number + 1
             /\ \E s \in cursor.seen : s.number = y.number /\ s.hash = y.hash
  BY RollbackOK, Zenon
<1>3. cursor'.settled = cursor.settled /\ cursor.settled \in Nat
  BY RollbackOK, Zenon DEF CursorInv
<1>4. r \in kept /\ r.number < point /\ r \in LogRow /\ r.number \in Nat
  BY <1>2, Zenon DEF TailInv, LogRow, RowType
<1>5. t \in cursor.seen /\ t.number = r.number /\ t.hash = r.hash
  BY <1>3, <1>4, Zenon DEF TailInv
<1>6. r.number \notin mismatches
  <2>1. \A k \in mismatches : point <= k
    BY <1>2, Zenon
  <2> HIDE DEF mismatches
  <2> QED BY <1>4, <2>1
<1>7. r.number \in HotBlocks(call) => r \in call.rows
  BY <1>1, <1>4, <1>5, <1>6, StillThere, Zenon
<1>8. ASSUME Coherent(cursor.seen) PROVE r \in RowsOf(view, 1..MaxEnd)
  <2>1. point > cursor.settled
    BY <1>3, <1>4
  <2>2. PICK y \in HotHashes(call) :
          /\ point = y.number + 1
          /\ \E s \in cursor.seen : s.number = y.number /\ s.hash = y.hash
    BY <1>2, <2>1
  <2>3. PICK s \in cursor.seen : s.number = y.number /\ s.hash = y.hash
    BY <2>2, Zenon
  <2>4. y.number \in 0..Len(view) /\ y.hash = Hash(view, y.number)
    BY <1>1, WholeNames
  <2>5. r.number <= y.number /\ r.number \in 0..y.number /\ r.number <= Len(view)
    <3>1. r.number \in Nat /\ r.number < point /\ point = y.number + 1
      BY <1>4, <2>2, Zenon
    <3>2. Len(view) \in Nat /\ y.number \in 0..Len(view)
      BY <1>1, <2>4, Zenon
    <3>3. r.number < y.number + 1
      BY <3>1, Zenon
    <3> QED BY <3>1, <3>2, <3>3, BelowNext, Zenon
  <2> HIDE DEF t
  <2>6. r.hash = Hash(y.hash, r.number)
    BY <1>5, <1>8, <2>3, <2>5 DEF Coherent
  <2>7. Hash(Hash(view, y.number), r.number) = Hash(view, r.number)
    BY <1>1, <2>4, <2>5, PrefixSeq
  <2> QED BY <1>1, <1>4, <2>4, <2>5, <2>6, <2>7, HashVouches, Zenon
<1> QED BY <1>7, <1>8

LEMMA TailInit ==
  ASSUME Init
  PROVE  CursorInv /\ TailInv
<1>1. cursor = [settled |-> 2, next |-> 2, seen |-> {}] /\ kept = {} /\ call = NoCall
  BY DEF Init
<1>2. CursorInv
  BY CursorInit, Zenon
<1>3. call.pc = "none"
  BY <1>1 DEF NoCall
<1>4. TailInv
  BY <1>1, <1>3, Zenon DEF TailInv
<1> QED BY <1>2, <1>4, Zenon

(* When the answers of a tail come in one page, what the application keeps    *)
(* above settled after an answer read from one state of the chain is right:   *)
(* exactly the answer's rows after Consistent, and after Rollback only rows   *)
(* of the answer, and of its chain when the hashes remembered were of one     *)
(* chain (ProvisionalCursor::observe, fork_point).                           *)
THEOREM TailAlwaysRepaired ==
  ASSUME OnePage
  PROVE  Spec => TailRepaired
<1> DEFINE Inv == SdkInv /\ CursorInv /\ TailInv
           hot == HotBlocks(call)
           above == {r \in kept' : r.number >= cursor'.settled}
           within == {r \in above : r.number \in hot}
           Right == Observe /\ Whole(call) =>
                      IF Consistent(call) THEN within = call.rows
                      ELSE /\ within \subseteq call.rows
                           /\ Coherent(cursor.seen) => above \subseteq RowsOf(view, 1..MaxEnd)
<1>1. Init => Inv
  BY InitOK, TailInit
<1>2. Inv /\ [Next]_vars => Inv'
  BY SdkStep, TailStepOK, Zenon
<1>3. Inv /\ [Next]_vars => [Right]_vars
  <2> SUFFICES ASSUME Inv, Observe, Whole(call) PROVE Right
    BY Zenon
  <2>1. CASE Consistent(call)
    BY <2>1, ConsistentRepairs, Zenon
  <2>2. CASE ~Consistent(call)
    <3>1. Rollback(call)
      BY <2>2 DEF Observe
    <3> QED BY <2>2, <3>1, RollbackRepairs
  <2> QED BY <2>1, <2>2, Zenon
<1> QED BY <1>1, <1>2, <1>3, PTL DEF Spec, TailRepaired

=============================================================================
