----------------------------- MODULE QueryProofs ----------------------------
(***************************************************************************)
(* What holds of module Query for any number of clients, any requests and  *)
(* any constants: the fill budget, continuing at next_start, and that what *)
(* is served as durable is exact.                                          *)
(***************************************************************************)
EXTENDS Query, BlockPlanProofs

-----------------------------------------------------------------------------
(* The inductive invariant *)

Req == [range : Ranges, finality : {"durable_only", "safe_to_latest", "latest_only"}]

MaybeRange == Ranges \cup {NoRange}

HeadsType == [latest : Block, safe : Block]

FollowRow == [from : Nat \ {0}, head : Nat, hash : {0, 1, 2}, promoted : Nat]

Pc == {"idle", "attach", "plan", "enqueue", "insert", "wait", "promotion", "reread", "hot", "rows"}

QueryState ==
  [pc : Pc, req : Req \cup {NoRange}, heads : HeadsType, durable : MaybeRange, wanted : MaybeRange,
   fillEnd : Block, todo : Seq(Ranges), jobs : SUBSET Ranges, over : BOOLEAN, late : BOOLEAN,
   after : Nat, served : MaybeRange, hot : MaybeRange, anchor : Nat \X {0, 1, 2}]

(* The hash of a block when the chain forked at f. *)
HashAt(n, f) == IF n >= f THEN 1 ELSE 0

(* Among the rows rs the block has the chain's row and no other. *)
Exact(n, rs, f) ==
  /\ <<n, HashAt(n, f)>> \in rs
  /\ \A r \in rs : r[1] = n => r[2] = HashAt(n, f)

HeadsInv ==
  /\ fork \in 1..NoFork /\ latest \in Block
  /\ heads \in HeadsType /\ heads.safe <= Below(latest)
  /\ cached \in HeadsType /\ cached.safe <= Below(latest)

(* Coverage stays below the height at which forks happen, and the rows of a *)
(* covered block are the chain's.                                           *)
DataInv ==
  /\ coverage \subseteq 0..Below(latest)
  /\ rows \subseteq Block \X {0, 1}
  /\ \A r \in rows : r[2] = 1 => r[1] >= fork
  /\ \A n \in coverage : Exact(n, rows, fork)

(* A follow row has covered what it promoted and has a row for every block  *)
(* from there to its head; they are the chain's when the head is.           *)
FollowRowOK(p, top, f, covered, rs) ==
  /\ p \in FollowRow
  /\ p.from - 1 <= p.promoted /\ p.promoted <= p.head
  /\ p.hash = 2 => p.head = p.promoted
  /\ p.hash # 2 => p.head <= top
  /\ p.hash = 1 => p.head >= f
  /\ \A n \in p.from..p.promoted : n \in covered
  /\ \A n \in (p.promoted + 1)..p.head : \E r \in rs : r[1] = n
  /\ p.hash = HashAt(p.head, f) => \A n \in (p.promoted + 1)..p.head : Exact(n, rs, f)

ProgressInv ==
  /\ \A p \in progress : FollowRowOK(p, latest, fork, coverage, rows)
  /\ \A p1, p2 \in progress : p1 = p2

JobsInv ==
  /\ jobs \subseteq Ranges /\ \A chunk \in jobs : chunk.end <= Below(latest)
  /\ window \in Nat /\ window <= Greatest(Allowance, Chunk)

(* A query plans no block above the safe height it read, and waits only for *)
(* jobs under way.                                                          *)
PlanOK(s, safe, active) ==
  /\ s.heads.safe <= safe /\ s.fillEnd <= s.heads.safe
  /\ s.jobs \subseteq active
  /\ \A i \in DOMAIN s.todo : s.todo[i].end <= safe /\ Length(s.todo[i]) <= Chunk
  /\ s.pc \in {"enqueue", "insert"} => s.todo # <<>>

(* What a query keeps between two of its steps is true of its request, and  *)
(* of what is covered.                                                      *)
ServedOK(s, covered) ==
  /\ s.pc # "idle" => /\ s.req \in Req
                      /\ s.durable = Durable(s.req, s.heads) /\ s.wanted = Wanted(s.req, s.heads)
                      /\ s.req.finality = "durable_only" => s.req.range.end <= s.heads.safe
  /\ s.pc \in {"plan", "enqueue", "insert", "wait", "promotion", "reread"} => s.durable # NoRange
  /\ s.served # NoRange => /\ s.durable # NoRange
                           /\ s.served.start = s.durable.start /\ s.served.end <= s.durable.end
                           /\ \A n \in BlocksOf(s.served) : n \in covered
  /\ s.hot # NoRange => /\ s.pc = "rows" /\ s.wanted # NoRange
                        /\ s.hot.start = s.wanted.start /\ s.hot.end <= s.wanted.end
  /\ (s.pc = "hot" \/ s.hot # NoRange) /\ s.durable # NoRange => Reaches(s.served, s.durable)

QueriesInv ==
  /\ q \in [Client -> QueryState]
  /\ \A c \in Client : PlanOK(q[c], Below(latest), jobs) /\ ServedOK(q[c], coverage)

QueryInv == HeadsInv /\ DataInv /\ ProgressInv /\ JobsInv /\ QueriesInv

-----------------------------------------------------------------------------
(* The operators of the model *)

(* A table is the function it is made of. *)
LEMMA TableIs ==
  ASSUME NEW f
  PROVE  Table(f) = f
BY DEF Table

(* The first block, and the smaller of two heights. *)
LEMMA ZeroBlock == 0 \in Block
BY BlockPlanAssumption DEF Block

LEMMA LeastNat == \A n \in Nat : 0 <= n
OBVIOUS

LEMMA LeastBelow ==
  ASSUME NEW x \in Nat, NEW y \in Nat
  PROVE  Least(x, y) <= x
BY DEF Least

(* The heights a query keeps are numbers. *)
LEMMA QueryHeights ==
  ASSUME NEW s \in QueryState
  PROVE  /\ s.heads \in HeadsType /\ s.heads.safe \in Nat /\ s.heads.latest \in Nat
         /\ s.after \in Nat /\ s.fillEnd \in Block /\ s.fillEnd \in Nat
<1>1. s.heads \in HeadsType /\ s.after \in Nat /\ s.fillEnd \in Block
  BY Zenon DEF QueryState
<1>2. s.heads.safe \in Block /\ s.heads.latest \in Block
  BY <1>1, Zenon DEF HeadsType
<1> QED BY <1>1, <1>2, BlockPlanAssumption DEF Block

(* The safe height of lag mode is at most the height, and rises with it. *)
LEMMA BelowIs ==
  ASSUME NEW m \in Nat, NEW n \in Nat
  PROVE  /\ Below(n) \in Nat /\ Below(n) <= n
         /\ m <= n => Below(m) <= Below(n)
BY QueryAssumption, BlockPlanAssumption DEF Below, Saturate, Least

(* The prefix served starts where the range does and is covered. *)
LEMMA PrefixIs ==
  ASSUME NEW blocks \in SUBSET Block, NEW range \in Ranges
  PROVE  LET p == Prefix[blocks][range]
         IN /\ p \in MaybeRange
            /\ p # NoRange => /\ p.start = range.start /\ p.end <= range.end
                              /\ \A n \in BlocksOf(p) : n \in blocks
<1> DEFINE M == Multirange(blocks)
           hits == {i \in DOMAIN M : range.start \in BlocksOf(M[i])}
<1>1. Prefix[blocks][range] = LongestCoveredPrefix(M, range)
  BY TableIs DEF Prefix
<1>2. /\ M \in Seq(Ranges)
      /\ \A i \in DOMAIN M : BlocksOf(M[i]) \subseteq blocks
  BY MultirangeIs
<1>3. CASE hits = {}
  BY <1>1, <1>3 DEF LongestCoveredPrefix, MaybeRange
<1>4. CASE hits # {}
  <2>1. hits \in SUBSET Nat
    BY <1>2
  <2> DEFINE i == Min(hits)
  <2>2. i \in hits
    BY <1>4, <2>1, MinNat
  <2> HIDE DEF i
  <2>3. i \in DOMAIN M /\ range.start \in BlocksOf(M[i]) /\ M[i] \in Ranges
    BY <1>2, <2>2
  <2>4. LongestCoveredPrefix(M, range) = NewRange(range.start, Least(M[i].end, range.end))
    BY <1>4 DEF LongestCoveredPrefix, i
  <2> DEFINE e == Least(M[i].end, range.end)
  <2>5. /\ range.start \in Nat /\ range.end \in Nat /\ range.start <= range.end
        /\ M[i].end \in Nat /\ M[i].start \in Nat
    BY <2>3, RangesType
  <2>6. e \in Nat /\ e <= M[i].end /\ e <= range.end
    BY <2>5 DEF Least
  <2>7. NewRange(range.start, e) \in MaybeRange
    BY <2>5, <2>6, NewRangeIs DEF MaybeRange
  <2>8. ASSUME NewRange(range.start, e) # NoRange
        PROVE  NewRange(range.start, e).start = range.start /\ NewRange(range.start, e).end = e
    <3> HIDE DEF e
    <3> QED BY <2>5, <2>6, <2>8, NewRangeIs
  <2>9. \A n \in range.start..e : n \in blocks
    <3>1. \A n \in range.start..e : n \in BlocksOf(M[i])
      <4> HIDE DEF e, M
      <4> QED BY <2>3, <2>5, <2>6 DEF BlocksOf
    <3> QED BY <3>1, <2>3, <1>2
  <2> HIDE DEF e, M
  <2> QED BY <1>1, <2>4, <2>6, <2>7, <2>8, <2>9 DEF BlocksOf, e
<1> QED BY <1>3, <1>4

(* Planned chunks end at the fill end at the latest and are at most a cell  *)
(* long.                                                                    *)
LEMMA MissingIs ==
  ASSUME NEW blocks \in SUBSET Block, NEW span \in Ranges, NEW end \in Block
  PROVE  LET plan == Missing[blocks][span][end]
         IN /\ plan \in Seq(Ranges)
            /\ \A j \in DOMAIN plan : plan[j].end <= end /\ Length(plan[j]) <= Chunk
<1> DEFINE M == Multirange(blocks)
           gaps == Uncovered(span, M)
           plan == FillChunks(span, M, Chunk, end)
<1>1. Missing[blocks][span][end] = plan
  BY TableIs DEF Missing
<1>2. M \in Seq(Ranges) /\ \A i, k \in DOMAIN M : i < k => M[i].end + 1 < M[k].start
  BY MultirangeIs
<1>3. /\ gaps \in Seq(Ranges)
      /\ \A i, k \in DOMAIN gaps : i < k => gaps[i].end < gaps[k].start
  <2> HIDE DEF M
  <2> QED BY <1>2, UncoveredIs
<1>4. Chunk \in Nat \ {0} /\ end \in Nat
  BY QueryAssumption, BlockPlanAssumption DEF Block
<1>5. /\ plan \in Seq(Ranges)
      /\ \A i \in DOMAIN gaps : \A k \in FirstCell(gaps[i], Chunk)..LastCell(gaps[i], Chunk) :
           k * Chunk <= end => \E j \in DOMAIN plan : plan[j] = Clip(GridCell(k, Chunk), end)
      /\ \A j \in DOMAIN plan : \E i \in DOMAIN gaps :
           \E k \in FirstCell(gaps[i], Chunk)..LastCell(gaps[i], Chunk) :
             plan[j] = Clip(GridCell(k, Chunk), end)
      /\ \A i, k \in DOMAIN plan : i < k => plan[i].start < plan[k].start
  <2> HIDE DEF M
  <2> QED BY <1>3, <1>4, FillChunksIs, Zenon
<1>6. ASSUME NEW j \in DOMAIN plan
      PROVE  plan[j].end <= end /\ Length(plan[j]) <= Chunk
  <2> HIDE DEF plan, gaps
  <2>1. PICK i \in DOMAIN gaps : \E k \in FirstCell(gaps[i], Chunk)..LastCell(gaps[i], Chunk) :
          plan[j] = Clip(GridCell(k, Chunk), end)
    BY <1>5, <1>6
  <2>2. PICK k \in FirstCell(gaps[i], Chunk)..LastCell(gaps[i], Chunk) :
          plan[j] = Clip(GridCell(k, Chunk), end)
    BY <2>1
  <2>3. gaps[i] \in Ranges
    BY <1>3
  <2> DEFINE first == gaps[i].start \div Chunk
             last == gaps[i].end \div Chunk
  <2>4. first \in Nat /\ last \in Nat /\ last * Chunk <= MaxEnd
    BY <2>3, <1>4, AlignIs
  <2>5. k \in Nat /\ k <= last
    BY <2>2, <2>4 DEF FirstCell, LastCell
  <2> HIDE DEF first, last
  <2>6. k * Chunk <= MaxEnd /\ k * Chunk \in Nat
    <3>1. k * Chunk <= last * Chunk /\ k * Chunk \in Nat /\ last * Chunk \in Nat
      BY <2>4, <2>5, <1>4, CellsApart
    <3> DEFINE a == k * Chunk  b == last * Chunk
    <3> HIDE DEF a, b
    <3>2. a \in Nat /\ b \in Nat /\ a <= b /\ b <= MaxEnd
      BY <3>1, <2>4 DEF a, b
    <3>3. a <= MaxEnd
      BY <3>2, BlockPlanAssumption
    <3> QED BY <3>2, <3>3 DEF a
  <2>7. plan[j] # NoRange
    BY <1>5, <1>6 DEF Ranges
  <2>8. k * Chunk <= end
    BY <2>2, <2>5, <2>6, <2>7, <1>4, ClipIs
  <2> DEFINE c == Clip(GridCell(k, Chunk), end)
  <2>9. /\ c \in Ranges /\ c.start = k * Chunk
        /\ c.end = Least(Least(c.start + Chunk - 1, end), MaxEnd)
        /\ c.end <= k * Chunk + Chunk - 1
    BY <2>5, <2>6, <2>8, <1>4, ClippedCell
  <2> HIDE DEF c
  <2>10. c.end \in Nat /\ c.start \in Nat
    BY <2>9, RangesType
  <2> QED BY <2>2, <2>9, BlockPlanAssumption, <2>10, <1>4 DEF c, Length, Least
<1> HIDE DEF plan
<1> QED BY <1>1, <1>5, <1>6

(* The parts of a request. *)
LEMMA PartsIs ==
  ASSUME NEW r \in Req, NEW h \in HeadsType
  PROVE  LET d == Durable(r, h)  w == Wanted(r, h)
         IN /\ d \in MaybeRange /\ w \in MaybeRange
            /\ d # NoRange <=> r.finality # "latest_only" /\ r.range.start <= h.safe
            /\ d # NoRange => d.start = r.range.start /\ d.end = Least(r.range.end, h.safe)
            /\ w # NoRange <=> r.finality # "durable_only" /\ r.range.end > h.safe
            /\ w # NoRange => w.start = Greatest(r.range.start, h.safe + 1) /\ w.end = r.range.end
<1>1. r.range \in Ranges /\ h.safe \in Nat /\ h.safe <= MaxEnd
  BY BlockPlanAssumption DEF Req, HeadsType, Block
<1> DEFINE s == r.range.start  e == r.range.end  t == h.safe
<1>2. s \in Nat /\ e \in Nat /\ s <= e /\ e <= MaxEnd
  BY <1>1, RangesType
<1>3. t \in Nat /\ t <= MaxEnd /\ MaxEnd \in Nat
  BY <1>1, BlockPlanAssumption
<1> DEFINE d == NewRange(s, Least(e, t))
           w == NewRange(Greatest(s, t + 1), e)
<1>4. Durable(r, h) = IF r.finality = "latest_only" THEN NoRange ELSE d
  BY DEF Durable, DurablePart
<1>5. Wanted(r, h) = IF r.finality = "durable_only" \/ e <= t THEN NoRange ELSE w
  BY DEF Wanted
<1> HIDE DEF s, e, t
<1>6. /\ d \in MaybeRange
      /\ d # NoRange <=> s <= t
      /\ d # NoRange => d.start = s /\ d.end = Least(e, t)
  BY <1>2, <1>3, NewRangeIs DEF Least, MaybeRange
<1>7. ASSUME e > t
      PROVE  w \in MaybeRange /\ w # NoRange /\ w.start = Greatest(s, t + 1) /\ w.end = e
  BY <1>2, <1>3, <1>7, NewRangeIs DEF Greatest, MaybeRange
<1> HIDE DEF d, w
<1> QED BY <1>2, <1>3, <1>4, <1>5, <1>6, <1>7 DEF s, e, t, MaybeRange

-----------------------------------------------------------------------------
(* What the invariant says of answers *)

(* What is known of a query under way. *)
LEMMA QueryIs ==
  ASSUME QueryInv, NEW c \in Client
  PROVE  /\ q[c] \in QueryState
         /\ PlanOK(q[c], Below(latest), jobs) /\ ServedOK(q[c], coverage)
BY DEF QueryInv, QueriesInv

(* The follow row is kept, or a new one has fetched and promoted nothing. *)
LEMMA GetOrInitOK ==
  ASSUME QueryInv, NEW from \in Nat \ {0}
  PROVE  /\ \A p \in GetOrInit(from) : FollowRowOK(p, latest, fork, coverage, rows)
         /\ \A p1, p2 \in GetOrInit(from) : p1 = p2
         /\ GetOrInit(from) # {}
<1> DEFINE new == [from |-> from, head |-> from - 1, hash |-> NoHash, promoted |-> from - 1]
<1>1. CASE progress # {}
  BY <1>1 DEF GetOrInit, QueryInv, ProgressInv
<1>2. CASE progress = {}
  <2>1. GetOrInit(from) = {new}
    BY <1>2 DEF GetOrInit
  <2>2. /\ new \in FollowRow /\ new.from = from /\ new.head = from - 1 /\ new.hash = 2
        /\ new.promoted = from - 1
    BY DEF FollowRow, NoHash
  <2> HIDE DEF new
  <2> QED BY <2>1, <2>2 DEF FollowRowOK, HashAt
<1> QED BY <1>1, <1>2

(* What is served of a request. *)
LEMMA ServedIs ==
  ASSUME NEW s \in QueryState, NEW covered, ServedOK(s, covered), s.pc = "rows"
  PROVE  /\ Served(s) \in MaybeRange
         /\ s.hot = NoRange => Served(s) = s.served
         /\ Served(s) # NoRange =>
              /\ Served(s).start = IF s.req.finality = "latest_only"
                                   THEN Greatest(s.req.range.start, s.heads.safe + 1)
                                   ELSE s.req.range.start
              /\ Served(s).end <= s.req.range.end
              /\ \A n \in BlocksOf(Served(s)) :
                   n <= s.heads.safe => s.served # NoRange /\ n \in BlocksOf(s.served)
<1> DEFINE a == s.req.range.start  b == s.req.range.end  t == s.heads.safe
           latestOnly == s.req.finality = "latest_only"
           d == s.durable  w == s.wanted
<1>1. s.req \in Req /\ s.heads \in HeadsType /\ d = Durable(s.req, s.heads) /\ w = Wanted(s.req, s.heads)
  BY DEF ServedOK, QueryState
<1>2. a \in Nat /\ b \in Nat /\ a <= b /\ b <= MaxEnd /\ t \in Nat
  BY <1>1, BlockPlanAssumption, RangesType DEF Req, HeadsType, Block
<1>3. /\ d # NoRange <=> ~latestOnly /\ a <= t
      /\ d # NoRange => d.start = a /\ d.end = Least(b, t)
      /\ w # NoRange => b > t /\ w.start = Greatest(a, t + 1) /\ w.end = b
  BY <1>1, PartsIs
<1>4. s.served \in MaybeRange /\ s.hot \in MaybeRange
  BY DEF QueryState
<1>5. /\ s.served # NoRange => d # NoRange /\ s.served.start = d.start /\ s.served.end <= d.end
      /\ s.hot # NoRange => w # NoRange /\ s.hot.start = w.start /\ s.hot.end <= w.end
      /\ s.hot # NoRange /\ d # NoRange => s.served # NoRange /\ s.served.end = d.end
  BY DEF ServedOK, Reaches
<1>6. /\ s.served # NoRange => s.served \in Ranges /\ s.served.start \in Nat /\ s.served.end \in Nat
      /\ s.hot # NoRange =>
           s.hot \in Ranges /\ s.hot.start \in Nat /\ s.hot.end \in Nat /\ s.hot.start <= s.hot.end
  BY <1>4, RangesType DEF MaybeRange
<1> DEFINE v == Served(s)
<1>7. CASE s.hot = NoRange
  <2>1. v = s.served
    BY <1>7 DEF Served
  <2> HIDE DEF v, a, b, t, d, w, latestOnly
  <2> QED BY <2>1, <1>2, <1>3, <1>5, <1>6, <1>4 DEF v, a, b, t, latestOnly, Least
<1>8. CASE s.hot # NoRange /\ s.served = NoRange
  <2>1. v = s.hot
    BY <1>8 DEF Served
  <2> HIDE DEF v, a, b, t, d, w, latestOnly
  <2>2. /\ s.hot.start = (IF latestOnly THEN Greatest(a, t + 1) ELSE a)
        /\ s.hot.end <= b /\ s.hot.start > t
    BY <1>2, <1>3, <1>5, <1>6, <1>8 DEF Greatest
  <2> QED BY <2>1, <2>2, <1>2, <1>6, <1>4, <1>8 DEF v, a, b, t, latestOnly, BlocksOf
<1>9. CASE s.hot # NoRange /\ s.served # NoRange
  <2> DEFINE x == s.served.start  y == s.hot.end
  <2>1. v = NewRange(x, y)
    BY <1>9 DEF Served
  <2> HIDE DEF v, a, b, t, d, w, latestOnly
  <2>2. ~latestOnly /\ x = a /\ s.served.end = t /\ y <= b /\ x <= y /\ x \in Nat /\ y \in Nat
    BY <1>2, <1>3, <1>5, <1>6, <1>9 DEF Greatest, Least
  <2> HIDE DEF x, y
  <2>3. v \in Ranges /\ v.start = x /\ v.end = y
    BY <2>1, <2>2, <1>2, BlockPlanAssumption, NewRangeIs
  <2>4. ASSUME NEW n \in BlocksOf(v), n <= t
        PROVE  n \in BlocksOf(s.served)
    BY <2>2, <2>3, <2>4, <1>2, <1>6, <1>9 DEF BlocksOf, x
  <2> QED BY <2>2, <2>3, <2>4, <1>9 DEF v, a, b, t, latestOnly, MaybeRange
<1> QED BY <1>7, <1>8, <1>9

(* What is served is the part of the request below next_start. *)
LEMMA ResumeHolds == QueryInv => ResumeLosesNothing
<1>1. ASSUME QueryInv, NEW c \in Client, q[c].pc = "rows"
      PROVE  LET s == q[c]
                 scope == {n \in BlocksOf(s.req.range) :
                             s.req.finality = "latest_only" => n > s.heads.safe}
             IN (IF Served(s) = NoRange THEN {} ELSE BlocksOf(Served(s)))
                  = {n \in scope : NextStart(s) = -1 \/ n < NextStart(s)}
  <2> DEFINE s == q[c]
             a == s.req.range.start  b == s.req.range.end  t == s.heads.safe
             latestOnly == s.req.finality = "latest_only"
             v == Served(s)
             next == NextStart(s)
             scope == {n \in BlocksOf(s.req.range) : latestOnly => n > t}
  <2>1. s \in QueryState /\ ServedOK(s, coverage)
    BY <1>1, QueryIs
  <2>2. /\ v \in MaybeRange
        /\ v # NoRange => /\ v.start = IF latestOnly THEN Greatest(a, t + 1) ELSE a
                          /\ v.end <= b
    BY <2>1, <1>1, ServedIs
  <2>3. s.req \in Req /\ s.heads \in HeadsType /\ s.wanted = Wanted(s.req, s.heads)
    BY <2>1, <1>1 DEF ServedOK, QueryState
  <2>4. a \in Nat /\ b \in Nat /\ a <= b /\ t \in Nat
    BY <2>3, BlockPlanAssumption, RangesType DEF Req, HeadsType, Block
  <2>5. next = IF v # NoRange THEN (IF v.end < b THEN v.end + 1 ELSE -1)
               ELSE IF latestOnly THEN (IF s.wanted = NoRange THEN -1 ELSE s.wanted.start) ELSE a
    BY DEF NextStart
  <2>6. \A n : n \in scope <=> n \in a..b /\ (latestOnly => n > t)
    BY DEF BlocksOf
  <2>7. ASSUME latestOnly
        PROVE  /\ s.wanted = NoRange => b <= t
               /\ s.wanted # NoRange => s.wanted.start = Greatest(a, t + 1)
    BY <2>3, <2>4, <2>7, PartsIs
  <2> HIDE DEF s, v, next, scope, a, b, t, latestOnly
  <2>8. CASE v = NoRange
    <3>1. ASSUME NEW n \in scope, next = -1 \/ n < next
          PROVE  FALSE
      <4>1. n \in a..b /\ (latestOnly => n > t)
        BY <2>6
      <4>2. CASE latestOnly
        BY <4>1, <4>2, <3>1, <2>4, <2>5, <2>7, <2>8 DEF Greatest
      <4>3. CASE ~latestOnly
        BY <4>1, <4>3, <3>1, <2>4, <2>5, <2>8
      <4> QED BY <4>2, <4>3
    <3> QED BY <3>1, <2>8 DEF s, v, next, scope, t, latestOnly
  <2>9. CASE v # NoRange
    <3>1. v \in Ranges /\ v.start \in Nat /\ v.end \in Nat
      BY <2>2, <2>9, RangesType DEF MaybeRange
    <3>2. next = IF v.end < b THEN v.end + 1 ELSE -1
      BY <2>5, <2>9
    <3>3. ASSUME NEW n
          PROVE  n \in BlocksOf(v) <=> n \in scope /\ (next = -1 \/ n < next)
      BY <2>6, <3>1, <3>2, <2>2, <2>4, <2>9 DEF BlocksOf, Greatest
    <3> QED BY <3>3, <2>9 DEF s, v, next, scope, t, latestOnly
  <2> QED BY <2>8, <2>9
<1> QED BY <1>1 DEF ResumeLosesNothing

(* What is served as durable is exact: it is covered. *)
LEMMA ServedExact ==
  ASSUME QueryInv, NEW c \in Client, Answers(c), Served(q[c]) # NoRange,
         NEW n \in BlocksOf(Served(q[c])), n <= q[c].heads.safe
  PROVE  RowsAt(q[c], n) = CanonicalRows({n})
<1> DEFINE s == q[c]
<1>1. n \in coverage
  BY QueryIs, ServedIs DEF ServedOK, Answers
<1>2. Exact(n, rows, fork) /\ rows \subseteq Block \X {0, 1}
  BY <1>1 DEF QueryInv, DataInv
<1>3. RowsAt(s, n) = {r \in rows : r[1] = n}
  BY DEF RowsAt, Rows
<1> DEFINE h == HashAt(n, fork)
<1>4. CanonicalRows({n}) = {<<n, h>>}
  BY DEF CanonicalRows, Canonical, HashAt
<1> HIDE DEF h
<1>5. ASSUME NEW r \in rows, r[1] = n
      PROVE  r = <<n, h>>
  BY <1>2, <1>5 DEF Exact, h
<1> QED BY <1>3, <1>4, <1>5, <1>2, Zenon DEF Exact, h

(* The part of a request above the safe height. *)
LEMMA WantedIs ==
  ASSUME QueryInv, NEW c \in Client, q[c].pc # "idle", q[c].wanted # NoRange
  PROVE  q[c].wanted \in Ranges /\ q[c].wanted.start \in Nat \ {0}
<1> DEFINE s == q[c]
<1>1. /\ s.req \in Req /\ s.heads \in HeadsType /\ s.wanted = Wanted(s.req, s.heads)
      /\ s.req.range \in Ranges /\ s.heads.safe \in Nat
  BY QueryIs, BlockPlanAssumption DEF ServedOK, QueryState, Req, HeadsType, Block
<1> QED BY <1>1, PartsIs, RangesType DEF MaybeRange, Greatest

(* The hot segment of an answer. *)
LEMMA HotSegment ==
  ASSUME NEW w \in Ranges, NEW p \in FollowRow, HotReaches(p, w)
  PROVE  LET hot == NewRange(w.start, Least(w.end, p.head))
         IN hot \in Ranges /\ hot # NoRange /\ hot.start = w.start /\ hot.end = Least(w.end, p.head)
<1>1. w.start \in Nat /\ w.end \in Nat /\ w.start <= w.end /\ w.end <= MaxEnd
  BY RangesType
<1>2. p.head \in Nat /\ p.head >= w.start
  BY DEF FollowRow, HotReaches
<1> DEFINE e == Least(w.end, p.head)
<1>3. e \in Nat /\ w.start <= e /\ e <= MaxEnd
  BY <1>1, <1>2, BlockPlanAssumption DEF Least
<1> HIDE DEF e
<1> QED BY <1>1, <1>3, NewRangeIs DEF e

(* Below the promotion the rows of a hot segment are covered, above it they *)
(* were pulled from the chain that the follow head is on.                   *)
LEMMA HotExact ==
  ASSUME QueryInv, NEW c \in Client, Hot(c), q'[c].hot # NoRange,
         q'[c].anchor[2] = Canonical(q'[c].anchor[1]), NEW n \in BlocksOf(q'[c].hot)
  PROVE  Exact(n, rows, fork)
<1> DEFINE s == q[c]
           Upto(p) == NewRange(s.wanted.start, Least(s.wanted.end, p.head))
<1>1. s.pc = "hot"
  BY Zenon DEF Hot
<1>2. q \in [Client -> QueryState] /\ s \in QueryState /\ s.hot = NoRange
      /\ s.wanted \in MaybeRange /\ ServedOK(s, coverage)
  BY QueryIs, <1>1, Zenon DEF QueryInv, QueriesInv, ServedOK, QueryState
<1>3. s.wanted # NoRange
  <2>1. SUFFICES ASSUME s.wanted = NoRange PROVE FALSE
    OBVIOUS
  <2> QED BY <2>1, <1>1, <1>2 DEF Hot, QueryState
<1>4. s.wanted \in Ranges /\ s.wanted.start \in Nat \ {0}
  BY <1>1, <1>3, WantedIs
<1>5. PICK p \in GetOrInit(s.wanted.start) : q' = [q EXCEPT ![c] =
        IF ~HotReaches(p, s.wanted) THEN [s EXCEPT !.pc = "rows"]
        ELSE [s EXCEPT !.pc = "rows", !.hot = Upto(p), !.anchor = <<p.head, p.hash>>]]
  BY <1>1, <1>3, Zenon DEF Hot
<1>6. FollowRowOK(p, latest, fork, coverage, rows)
  BY <1>4, <1>5, GetOrInitOK
<1>7. HotReaches(p, s.wanted)
  <2>1. SUFFICES ASSUME ~HotReaches(p, s.wanted) PROVE FALSE
    OBVIOUS
  <2> QED BY <2>1, <1>5, <1>2 DEF QueryState
<1>8. q'[c].hot = Upto(p) /\ q'[c].anchor = <<p.head, p.hash>>
  BY <1>5, <1>7, <1>2 DEF QueryState
<1>9. p \in FollowRow
  BY <1>6 DEF FollowRowOK
<1>10. p.from \in Nat /\ p.head \in Nat /\ p.promoted \in Int
  BY <1>9 DEF FollowRow
<1>11. n \in Nat /\ p.from <= n /\ n <= p.head
  BY <1>4, <1>7, <1>10, RangesType, <1>8, <1>9, HotSegment DEF Least, HotReaches, BlocksOf
<1>12. p.hash = HashAt(p.head, fork)
  BY <1>8 DEF Canonical, HashAt
<1>13. CASE n <= p.promoted
  BY <1>6, <1>10, <1>11, <1>13 DEF FollowRowOK, QueryInv, DataInv
<1>14. CASE n > p.promoted
  BY <1>6, <1>10, <1>11, <1>12, <1>14 DEF FollowRowOK
<1> QED BY <1>10, <1>11, <1>13, <1>14

-----------------------------------------------------------------------------
(* What other steps leave true *)

(* The chain's row of a block stays its only row when canonical rows are    *)
(* added.                                                                   *)
LEMMA ExactMore ==
  ASSUME NEW rs, NEW more, NEW f, NEW n, Exact(n, rs, f),
         rs \subseteq more, \A r \in more : r \in rs \/ r[2] = HashAt(r[1], f)
  PROVE  Exact(n, more, f)
BY DEF Exact

(* And when rows of other blocks go. *)
LEMMA ExactLess ==
  ASSUME NEW rs, NEW less, NEW f, NEW n, Exact(n, rs, f),
         less \subseteq rs, \A r \in rs : r[1] = n => r \in less
  PROVE  Exact(n, less, f)
<1>1. <<n, HashAt(n, f)>> \in less
  <2> DEFINE r == <<n, HashAt(n, f)>>
  <2> QED BY DEF Exact
<1> QED BY <1>1 DEF Exact

(* Rows that are written where none contradicts the chain. *)
LEMMA ExactWritten ==
  ASSUME NEW rs, NEW more, NEW f, NEW n, <<n, HashAt(n, f)>> \in more,
         \A r \in more : r \in rs \/ r[2] = HashAt(r[1], f),
         \A r \in rs : r[1] = n => r[2] = HashAt(n, f)
  PROVE  Exact(n, more, f)
BY DEF Exact

(* A fork leaves the blocks below it as they are. *)
LEMMA ExactBelowFork ==
  ASSUME NEW rs, NEW f \in Int, NEW g \in Int, NEW n \in Int, Exact(n, rs, f), n < f, n < g
  PROVE  Exact(n, rs, g)
BY DEF Exact, HashAt

(* A follow row stays right while the chain grows, blocks are covered and   *)
(* canonical rows are written.                                              *)
LEMMA FollowRowGrows ==
  ASSUME NEW p, NEW top \in Nat, NEW top2 \in Nat, top <= top2, NEW f,
         NEW covered, NEW covered2, covered \subseteq covered2,
         NEW rs, NEW rs2, rs \subseteq rs2, \A r \in rs2 : r \in rs \/ r[2] = HashAt(r[1], f),
         FollowRowOK(p, top, f, covered, rs)
  PROVE  FollowRowOK(p, top2, f, covered2, rs2)
<1>1. \A n \in (p.promoted + 1)..p.head : \E r \in rs2 : r[1] = n
  BY DEF FollowRowOK
<1>2. p.hash = HashAt(p.head, f) => \A n \in (p.promoted + 1)..p.head : Exact(n, rs2, f)
  BY ExactMore DEF FollowRowOK
<1> QED BY <1>1, <1>2 DEF FollowRowOK, FollowRow

(* What a query keeps stays true while jobs are added and blocks covered. *)
LEMMA PlanStays ==
  ASSUME NEW s \in QueryState, NEW safe \in Nat, NEW safe2 \in Nat, safe <= safe2,
         NEW active, NEW active2, active \subseteq active2, PlanOK(s, safe, active)
  PROVE  PlanOK(s, safe2, active2)
<1>1. s.heads.safe \in Nat /\ s.todo \in Seq(Ranges)
  BY QueryHeights, Zenon DEF QueryState
<1>2. ASSUME NEW i \in DOMAIN s.todo
      PROVE  s.todo[i].end <= safe2 /\ Length(s.todo[i]) <= Chunk
  BY <1>1, RangesType DEF PlanOK
<1> QED BY <1>1, <1>2 DEF PlanOK

LEMMA ServedStays ==
  ASSUME NEW s, NEW covered, NEW covered2, covered \subseteq covered2, ServedOK(s, covered)
  PROVE  ServedOK(s, covered2)
BY DEF ServedOK

(* A step of the service leaves the queries right. *)
LEMMA QueriesStay ==
  ASSUME QueriesInv, Below(latest) \in Nat, Below(latest') \in Nat, Below(latest) <= Below(latest'),
         coverage \subseteq coverage', jobs \subseteq jobs', q' = q
  PROVE  QueriesInv'
<1>1. ASSUME NEW c \in Client
      PROVE  PlanOK(q'[c], Below(latest'), jobs') /\ ServedOK(q'[c], coverage')
  BY PlanStays, ServedStays DEF QueriesInv
<1> QED BY <1>1 DEF QueriesInv

-----------------------------------------------------------------------------
(* The chain, the leader and the workers *)

(* Heights are numbers. *)
LEMMA Heights ==
  ASSUME QueryInv
  PROVE  /\ latest \in Nat /\ latest <= MaxEnd /\ fork \in Nat /\ 1 <= fork /\ fork <= MaxEnd + 1
         /\ Below(latest) \in Nat /\ Below(latest) <= latest /\ MaxEnd \in Nat
         /\ Block = 0..MaxEnd /\ NoFork = MaxEnd + 1
         /\ heads.safe \in Nat /\ cached.safe \in Nat
<1> QED BY BlockPlanAssumption, BelowIs DEF Block, NoFork, QueryInv, HeadsInv, HeadsType

(* The state in which a query begins. *)
LEMMA AtType ==
  ASSUME NEW pc \in Pc
  PROVE  At(pc) \in QueryState /\ HeadsAt(0).safe = 0
<1>1. HeadsAt(0) \in HeadsType /\ HeadsAt(0).safe = 0
  BY BelowIs, BlockPlanAssumption DEF HeadsAt, HeadsType, Block
<1> QED BY <1>1, BlockPlanAssumption DEF At, QueryState, MaybeRange, Block, NoHash

(* A query that has not begun. *)
LEMMA IdleOK ==
  ASSUME NEW safe \in Nat, NEW active, NEW covered
  PROVE  /\ At("idle") \in QueryState
         /\ PlanOK(At("idle"), safe, active) /\ ServedOK(At("idle"), covered)
<1>1. ServedOK(At("idle"), covered)
  BY Zenon DEF At, ServedOK
<1>2. At("idle") \in QueryState /\ HeadsAt(0).safe = 0
  <2>1. "idle" \in Pc
    BY DEF Pc
  <2> QED BY <2>1, AtType, Zenon
<1>3. /\ At("idle").pc = "idle" /\ At("idle").heads.safe = 0 /\ At("idle").fillEnd = 0
      /\ At("idle").jobs = {} /\ At("idle").todo = <<>>
  BY <1>2, Zenon DEF At
<1>4. PlanOK(At("idle"), safe, active)
  <2>1. 0 <= safe /\ 0 <= 0 /\ DOMAIN <<>> = {}
    OBVIOUS
  <2>2. "idle" \notin {"enqueue", "insert"}
    OBVIOUS
  <2> QED BY <1>3, <2>1, <2>2, Zenon DEF PlanOK
<1> QED BY <1>1, <1>2, <1>4, Zenon

LEMMA QueryInit ==
  ASSUME Init
  PROVE  QueryInv
<1>1. /\ StartLatest \in Nat /\ StartLatest <= MaxEnd /\ MaxEnd \in Nat /\ MaxEnd < MaxU64
  BY QueryAssumption, BlockPlanAssumption
<1>2. Below(latest) \in Nat /\ Below(latest) <= latest /\ latest \in Nat
  BY <1>1, BelowIs DEF Init
<1>3. HeadsInv
  BY <1>1, <1>2 DEF Init, HeadsInv, HeadsAt, HeadsType, NoFork, Block
<1>4. JobsInv
  BY QueryAssumption DEF Init, JobsInv, Greatest
<1>5. QueriesInv
  BY <1>2, IdleOK DEF Init, QueriesInv
<1> QED BY <1>3, <1>4, <1>5 DEF QueryInv, Init, DataInv, ProgressInv

LEMMA GrowOK ==
  ASSUME QueryInv, Grow
  PROVE  QueryInv'
<1>1. /\ latest' = latest + 1 /\ latest' <= MaxEnd /\ latest' \in Nat
      /\ Below(latest') \in Nat /\ Below(latest) <= Below(latest')
  <2>1. latest' = latest + 1 /\ latest < MaxEnd /\ latest \in Nat /\ MaxEnd \in Nat
    BY Heights DEF Grow
  <2> QED BY <2>1, BelowIs
<1>2. ProgressInv'
  <2>1. ASSUME NEW p \in progress
        PROVE  FollowRowOK(p, latest', fork, coverage, rows)
    BY <1>1, Heights, FollowRowGrows DEF QueryInv, ProgressInv
  <2> QED BY <2>1 DEF Grow, QueryInv, ProgressInv, dataVars, followVars
<1>3. JobsInv'
  <2>1. ASSUME NEW chunk \in jobs
        PROVE  chunk.end <= Below(latest')
    BY RangesType, <1>1, Heights DEF QueryInv, JobsInv
  <2> QED BY <2>1 DEF Grow, QueryInv, JobsInv
<1>4. QueriesInv'
  BY <1>1, Heights, QueriesStay DEF Grow, QueryInv, dataVars
<1>5. HeadsInv'
  BY <1>1, Heights DEF QueryInv, Grow, HeadsInv, Block
<1>6. DataInv'
  BY <1>1, Heights DEF QueryInv, Grow, DataInv, dataVars
<1> QED BY <1>2, <1>3, <1>4, <1>5, <1>6, Zenon DEF QueryInv

LEMMA ReorgOK ==
  ASSUME QueryInv, NEW n \in Block, Reorg(n)
  PROVE  QueryInv'
<1>1. /\ fork = MaxEnd + 1 /\ fork' = n /\ n \in Nat /\ Below(latest) < n /\ n <= latest
      /\ n < fork /\ latest < fork
  BY Heights DEF Reorg
<1>2. /\ latest' = latest /\ heads' = heads /\ cached' = cached /\ coverage' = coverage
      /\ rows' = rows /\ progress' = progress /\ watched' = watched /\ jobs' = jobs
      /\ window' = window /\ q' = q
  BY DEF Reorg, dataVars, followVars
<1>3. DataInv'
  <2>1. ASSUME NEW r \in rows
        PROVE  r[2] # 1
    BY <1>1, Heights DEF QueryInv, DataInv
  <2>2. ASSUME NEW m \in coverage
        PROVE  Exact(m, rows, n)
    BY <1>1, Heights, ExactBelowFork DEF QueryInv, DataInv
  <2> QED BY <2>1, <2>2, <1>1, <1>2 DEF QueryInv, DataInv
<1>4. ProgressInv'
  <2>1. ASSUME NEW p \in progress
        PROVE  FollowRowOK(p, latest, n, coverage, rows)
    <3>1. FollowRowOK(p, latest, fork, coverage, rows) /\ p \in FollowRow
      BY DEF QueryInv, ProgressInv, FollowRowOK
    <3>2. p.head \in Nat /\ p.promoted \in Nat /\ p.hash \in {0, 1, 2}
      BY <3>1 DEF FollowRow
    <3>3. p.hash # 1
      BY <3>1, <3>2, <1>1, Heights DEF FollowRowOK
    <3>4. ASSUME p.hash = HashAt(p.head, n), NEW m \in (p.promoted + 1)..p.head
          PROVE  Exact(m, rows, n)
      BY <3>2, <3>3, <3>4, <1>1, Heights, <3>1, ExactBelowFork DEF HashAt, FollowRowOK
    <3> QED BY <3>1, <3>3, <3>4 DEF FollowRowOK
  <2> QED BY <2>1, <1>1, <1>2 DEF QueryInv, ProgressInv
<1>5. QueriesInv'
  BY <1>2, Heights, QueriesStay DEF QueryInv
<1> QED BY <1>1, <1>2, Heights, <1>3, <1>4, <1>5 DEF QueryInv, HeadsInv, JobsInv

LEMMA PublishOK ==
  ASSUME QueryInv, Publish
  PROVE  QueryInv'
<1>1. /\ heads' = HeadsAt(latest) /\ fork' = fork /\ latest' = latest /\ cached' = cached
      /\ coverage' = coverage /\ rows' = rows /\ progress' = progress /\ watched' = watched
      /\ jobs' = jobs /\ window' = window /\ q' = q
  BY DEF Publish, chainVars, dataVars, followVars
<1>2. DataInv' /\ ProgressInv' /\ JobsInv'
  BY <1>1 DEF QueryInv, DataInv, ProgressInv, JobsInv
<1> QED BY Heights, <1>1, <1>2, QueriesStay DEF QueryInv, HeadsAt, HeadsType, HeadsInv

(* A step that changes rows, coverage or the follow row only. *)
LEMMA DataStep ==
  ASSUME QueryInv, fork' = fork, latest' = latest, heads' = heads, cached' = cached,
         jobs' = jobs, window' = window, q' = q, coverage \subseteq coverage',
         DataInv', ProgressInv'
  PROVE  QueryInv'
<1>1. QueriesInv'
  BY Heights, QueriesStay DEF QueryInv
<1> QED BY <1>1 DEF QueryInv, HeadsInv, JobsInv

LEMMA CanonicalRowsAre ==
  ASSUME NEW B \in SUBSET Block
  PROVE  /\ \A r \in CanonicalRows(B) : r[1] \in B /\ r[2] = HashAt(r[1], fork)
         /\ \A m \in B : <<m, HashAt(m, fork)>> \in CanonicalRows(B)
         /\ CanonicalRows(B) \subseteq Block \X {0, 1}
BY DEF CanonicalRows, Canonical, HashAt

(* A stored row is stale, or the chain's. *)
LEMMA NotStale ==
  ASSUME NEW r \in rows, r \notin Stale
  PROVE  r[2] = HashAt(r[1], fork)
BY DEF Stale, Canonical, HashAt

(* Canonical rows are written; coverage may grow by blocks that are then    *)
(* exact.                                                                   *)
LEMMA WriteOK ==
  ASSUME QueryInv, fork' = fork, latest' = latest, NEW B \in SUBSET Block,
         rows' = rows \cup CanonicalRows(B), coverage \subseteq coverage',
         coverage' \subseteq 0..Below(latest),
         \A n \in coverage' : n \in coverage \/ Exact(n, rows', fork)
  PROVE  DataInv'
<1>1. ASSUME NEW r \in rows', r[2] = 1
      PROVE  r[1] >= fork
  <2>1. CASE r \in rows
    BY <2>1, <1>1 DEF QueryInv, DataInv
  <2>2. CASE r \in CanonicalRows(B)
    BY <2>2, <1>1, CanonicalRowsAre DEF HashAt
  <2> QED BY <2>1, <2>2
<1>2. ASSUME NEW n \in coverage
      PROVE  Exact(n, rows', fork)
  BY CanonicalRowsAre, ExactMore DEF QueryInv, DataInv
<1> QED BY CanonicalRowsAre, <1>1, <1>2 DEF DataInv, QueryInv

LEMMA PullOK ==
  ASSUME QueryInv, NEW p \in progress, Pull(p)
  PROVE  QueryInv'
<1> DEFINE B == (p.head + 1)..latest
           np == [p EXCEPT !.head = latest, !.hash = Canonical(latest)]
<1>1. /\ fork' = fork /\ latest' = latest /\ heads' = heads /\ cached' = cached
      /\ jobs' = jobs /\ window' = window /\ q' = q /\ coverage' = coverage
      /\ rows' = rows \cup CanonicalRows(B) /\ progress' = {np}
      /\ p.head < latest /\ Vouched(p) /\ \A r \in Stale : r[1] <= p.head
  BY DEF Pull, chainVars
<1>2. FollowRowOK(p, latest, fork, coverage, rows) /\ p \in FollowRow
  BY DEF QueryInv, ProgressInv, FollowRowOK
<1>3. /\ p.head \in Nat /\ p.promoted \in Nat /\ p.hash \in {0, 1, 2} /\ p.from \in Nat
      /\ p.promoted <= p.head
  BY <1>2 DEF FollowRow, FollowRowOK
<1>4. B \in SUBSET Block
  BY <1>3, Heights
<1>5. DataInv'
  BY <1>1, <1>4, WriteOK, Zenon DEF QueryInv, DataInv
<1>6. /\ np \in FollowRow /\ np.head = latest /\ np.hash = HashAt(latest, fork)
      /\ np.promoted = p.promoted /\ np.from = p.from
  BY <1>2, Heights, Zenon DEF FollowRow, Canonical, HashAt
<1> HIDE DEF np
<1>7. rows \subseteq rows' /\ \A r \in rows' : r \in rows \/ r[2] = HashAt(r[1], fork)
  BY <1>1, <1>4, CanonicalRowsAre, Zenon
<1>8. ASSUME NEW n \in (p.promoted + 1)..latest
      PROVE  Exact(n, rows', fork)
  <2>1. CASE n <= p.head
    BY <2>1, <1>1, <1>2, <1>3, <1>7, ExactMore DEF Vouched, NoHash, Canonical, HashAt, FollowRowOK
  <2>2. CASE n > p.head
    <3>1. n \in B
      BY <2>2, <1>3, Heights
    <3>2. <<n, HashAt(n, fork)>> \in rows'
      BY <3>1, <1>1, <1>4, CanonicalRowsAre, Zenon
    <3>3. ASSUME NEW r \in rows, r[1] = n
          PROVE  r[2] = HashAt(n, fork)
      BY <3>3, <2>2, <1>1, <1>3, NotStale
    <3> QED BY <3>2, <3>3, <1>7, ExactWritten
  <2> QED BY <2>1, <2>2, <1>3, Heights
<1>9. FollowRowOK(np, latest, fork, coverage, rows')
  <2>1. \A n \in (p.promoted + 1)..latest : \E r \in rows' : r[1] = n
    <3>1. ASSUME NEW n \in (p.promoted + 1)..latest
          PROVE  \E r \in rows' : r[1] = n
      <4>1. <<n, HashAt(n, fork)>> \in rows'
        BY <1>8 DEF Exact
      <4> QED BY <4>1
    <3> QED BY <3>1
  <2>2. p.promoted <= latest /\ latest <= latest
    BY <1>1, <1>3, Heights
  <2> QED BY <1>6, <1>8, <2>1, <1>2, <2>2 DEF FollowRowOK, HashAt
<1> QED BY <1>1, <1>5, <1>9, DataStep DEF ProgressInv

(* Where a rollback starts: at the follow head at the latest when that is  *)
(* off the chain, and every row below is of the chain.                     *)
LEMMA ForkPointIs ==
  ASSUME QueryInv, NEW p \in progress, NEW n \in Block, ForkPoint(p, n)
  PROVE  /\ n \in Nat /\ 1 <= n
         /\ \A r \in rows : r[1] < n => r[2] = HashAt(r[1], fork)
         /\ Vouched(p) \/ n <= p.head
<1> DEFINE points == {r[1] : r \in Stale} \cup (IF Vouched(p) THEN {} ELSE {p.head})
<1>1. n \in points /\ \A m \in points : n <= m
  BY DEF ForkPoint
<1>2. p.head \in Nat /\ p.hash \in {0, 1, 2} /\ (p.hash = 1 => p.head >= fork)
  BY DEF FollowRow, FollowRowOK, QueryInv, ProgressInv
<1>3. ASSUME NEW r \in Stale
      PROVE  r[1] >= fork
  BY Heights DEF Stale, Canonical, HashAt, QueryInv, DataInv
<1>4. n \in Nat /\ 1 <= n
  BY <1>1, <1>3, <1>2, Heights DEF Vouched, NoHash, Canonical
<1>5. ASSUME NEW r \in rows, r[1] < n
      PROVE  r[2] = HashAt(r[1], fork)
  <2>1. r \notin Stale
    <3>1. SUFFICES ASSUME r \in Stale PROVE FALSE
      OBVIOUS
    <3>2. r[1] \in Nat
      BY Heights DEF QueryInv, DataInv
    <3> QED BY <1>1, <3>1, <3>2, <1>4, <1>5
  <2> QED BY <2>1, NotStale
<1> QED BY <1>4, <1>5, <1>1

LEMMA RollBackOK ==
  ASSUME QueryInv, NEW p \in progress, NEW n \in Block, RollBack(p, n)
  PROVE  QueryInv'
<1> DEFINE rewound == [p EXCEPT !.hash = IF p.promoted >= n THEN NoHash ELSE Canonical(n - 1),
                                !.head = Greatest(Least(p.head, n - 1), p.promoted)]
           np == IF p.head < n THEN p ELSE rewound
<1>1. /\ fork' = fork /\ latest' = latest /\ heads' = heads /\ cached' = cached
      /\ jobs' = jobs /\ window' = window /\ q' = q /\ coverage' = coverage
      /\ rows' = {r \in rows : r[1] < n \/ r[1] \in coverage} /\ progress' = {np}
  BY DEF RollBack, chainVars
<1>2. FollowRowOK(p, latest, fork, coverage, rows) /\ p \in FollowRow
  BY DEF QueryInv, ProgressInv, FollowRowOK
<1>3. /\ p.head \in Nat /\ p.promoted \in Nat /\ p.hash \in {0, 1, 2} /\ p.from \in Nat \ {0}
      /\ p.promoted <= p.head /\ p.from - 1 <= p.promoted
      /\ \A m \in p.from..p.promoted : m \in coverage
  BY <1>2 DEF FollowRow, FollowRowOK
<1>4. /\ n \in Nat /\ 1 <= n
      /\ \A r \in rows : r[1] < n => r[2] = HashAt(r[1], fork)
      /\ Vouched(p) \/ n <= p.head
  BY ForkPointIs DEF RollBack
<1>5. DataInv'
  <2>1. ASSUME NEW m \in coverage
        PROVE  Exact(m, rows', fork)
    BY <1>1, ExactLess DEF QueryInv, DataInv
  <2> QED BY <1>1, <2>1 DEF QueryInv, DataInv
<1>6. ASSUME NEW m \in Int, m < n, \E r \in rows : r[1] = m
      PROVE  /\ \E r \in rows' : r[1] = m
             /\ Exact(m, rows', fork)
  <2>1. PICK r \in rows : r[1] = m
    BY <1>6
  <2>2. \A t \in rows' : t[1] = m => t[2] = HashAt(m, fork)
    BY <1>1, <1>4, <1>6
  <2> QED BY <2>1, <1>1, <1>4, <1>6, <2>2 DEF Exact, QueryInv, DataInv
<1>7. FollowRowOK(np, latest, fork, coverage, rows')
  <2>1. CASE p.head < n
    BY <2>1, <1>2, <1>3, <1>4, <1>6 DEF FollowRowOK
  <2>2. CASE p.head >= n /\ p.promoted >= n
    <3>1. /\ np \in FollowRow /\ np.head = p.promoted /\ np.hash = 2
          /\ np.promoted = p.promoted /\ np.from = p.from
      <4>1. Greatest(Least(p.head, n - 1), p.promoted) = p.promoted
        BY <2>2, <1>3, <1>4 DEF Greatest, Least
      <4>2. (IF p.promoted >= n THEN NoHash ELSE Canonical(n - 1)) = 2
        BY <2>2 DEF NoHash
      <4>3. ~(p.head < n)
        BY <2>2, <1>3, <1>4
      <4>4. np = [p EXCEPT !.hash = 2, !.head = p.promoted]
        BY <4>1, <4>2, <4>3, Zenon
      <4> HIDE DEF np
      <4> QED BY <4>4, <1>2, <1>3, Zenon DEF FollowRow
    <3> HIDE DEF np
    <3> QED BY <3>1, <1>3 DEF FollowRowOK, HashAt
  <2>3. CASE p.head >= n /\ p.promoted < n
    <3>1. /\ np \in FollowRow /\ np.head = n - 1 /\ np.hash = HashAt(n - 1, fork)
          /\ np.promoted = p.promoted /\ np.from = p.from
      <4>1. Greatest(Least(p.head, n - 1), p.promoted) = n - 1 /\ n - 1 \in Nat
        BY <2>3, <1>3, <1>4 DEF Greatest, Least
      <4>2. Canonical(n - 1) = HashAt(n - 1, fork) /\ HashAt(n - 1, fork) \in {0, 1, 2}
        BY DEF Canonical, HashAt
      <4>3. (IF p.promoted >= n THEN NoHash ELSE Canonical(n - 1)) = HashAt(n - 1, fork)
        BY <2>3, <4>2, <1>3, <1>4
      <4>4. ~(p.head < n)
        BY <2>3, <1>3, <1>4
      <4>5. np = [p EXCEPT !.hash = HashAt(n - 1, fork), !.head = n - 1]
        BY <4>1, <4>3, <4>4, Zenon
      <4> HIDE DEF np
      <4> QED BY <4>1, <4>2, <4>5, <1>2, <1>3, Zenon DEF FollowRow
    <3> HIDE DEF np
    <3>2. \A m \in (p.promoted + 1)..(n - 1) : (\E r \in rows' : r[1] = m) /\ Exact(m, rows', fork)
      BY <2>3, <1>2, <1>3, <1>4, <1>6 DEF FollowRowOK
    <3>3. /\ np.from - 1 <= np.promoted /\ np.promoted <= np.head
          /\ np.hash # 2 /\ (np.hash = 1 => np.head >= fork)
      BY <3>1, <2>3, <1>3, <1>4 DEF HashAt
    <3>4. np.head <= latest
      <4>1. p.head <= latest \/ p.head <= p.promoted
        BY <1>2, <1>3 DEF FollowRowOK
      <4> QED BY <4>1, <3>1, <2>3, <1>3, <1>4, Heights
    <3>5. \A m \in np.from..np.promoted : m \in coverage
      BY <3>1, <1>3, Zenon
    <3>6. \A m \in (np.promoted + 1)..np.head : (\E r \in rows' : r[1] = m) /\ Exact(m, rows', fork)
      BY <3>1, <3>2, Zenon
    <3> QED BY <3>1, <3>3, <3>4, <3>5, <3>6, Zenon DEF FollowRowOK
  <2> QED BY <2>1, <2>2, <2>3, <1>3, <1>4
<1> QED BY <1>1, <1>5, <1>7, DataStep DEF ProgressInv

LEMMA PromoteOK ==
  ASSUME QueryInv, NEW p \in progress, Promote(p)
  PROVE  QueryInv'
<1> DEFINE to == Least(Below(latest), p.head)
           np == [p EXCEPT !.promoted = to]
<1>1. /\ fork' = fork /\ latest' = latest /\ heads' = heads /\ cached' = cached
      /\ jobs' = jobs /\ window' = window /\ q' = q /\ rows' = rows
      /\ coverage' = coverage \cup (p.promoted + 1)..to /\ progress' = {np}
      /\ p.hash = HashAt(p.head, fork) /\ to > p.promoted
  BY DEF Promote, chainVars, Canonical, HashAt
<1>2. FollowRowOK(p, latest, fork, coverage, rows) /\ p \in FollowRow
  BY DEF QueryInv, ProgressInv, FollowRowOK
<1>3. p.head \in Nat /\ p.promoted \in Nat /\ p.from \in Nat \ {0} /\ p.from - 1 <= p.promoted
  BY <1>2 DEF FollowRow, FollowRowOK
<1>4. to \in Nat /\ to <= Below(latest) /\ to <= p.head
  BY <1>3, Heights DEF Least
<1>5. \A m \in (p.promoted + 1)..p.head : Exact(m, rows, fork)
  BY <1>1, <1>2 DEF FollowRowOK
<1>6. np \in FollowRow /\ np.promoted = to /\ np.head = p.head /\ np.hash = p.hash /\ np.from = p.from
  BY <1>2, <1>4 DEF FollowRow
<1> HIDE DEF np, to
<1>7. DataInv'
  <2>1. coverage' \subseteq 0..Below(latest)
    <3>1. \A m \in (p.promoted + 1)..to : m \in 0..Below(latest)
      BY <1>3, <1>4, Heights
    <3>2. coverage \subseteq 0..Below(latest)
      BY DEF QueryInv, DataInv
    <3> QED BY <3>1, <3>2, <1>1, Zenon
  <2> QED BY <1>1, <2>1, <1>3, <1>4, <1>5 DEF QueryInv, DataInv
<1>8. FollowRowOK(np, latest, fork, coverage', rows)
  BY <1>1, <1>3, <1>4, <1>2, <1>5, <1>6 DEF FollowRowOK, HashAt
<1> QED BY <1>1, <1>7, <1>8, DataStep DEF ProgressInv

LEMMA ExpireOK ==
  ASSUME QueryInv, Expire
  PROVE  QueryInv'
BY DataStep DEF Expire, chainVars, dataVars, QueryInv, DataInv, ProgressInv

LEMMA UnfollowOK ==
  ASSUME QueryInv, Unfollow
  PROVE  QueryInv'
<1> QED BY DataStep DEF Unfollow, chainVars, dataVars, QueryInv, DataInv, ProgressInv

LEMMA WatchOK ==
  ASSUME QueryInv, Watch
  PROVE  QueryInv'
<1>1. DataInv' /\ ProgressInv'
  BY Heights, GetOrInitOK DEF Watch, chainVars, dataVars, QueryInv, DataInv, ProgressInv
<1> QED BY <1>1, DataStep, Zenon DEF Watch, chainVars, dataVars

LEMMA WindowElapsesOK ==
  ASSUME QueryInv, WindowElapses
  PROVE  QueryInv'
<1>1. HeadsInv' /\ DataInv' /\ ProgressInv'
  BY DEF WindowElapses, chainVars, dataVars, followVars, QueryInv, HeadsInv, DataInv, ProgressInv
<1>2. QueriesInv'
  BY Heights, QueriesStay DEF WindowElapses, chainVars, dataVars, QueryInv
<1> QED BY <1>1, QueryAssumption, <1>2 DEF QueryInv, WindowElapses, chainVars, JobsInv, Greatest

LEMMA OtherOK ==
  ASSUME QueryInv, NEW chunk \in Others, Other(chunk)
  PROVE  QueryInv'
<1>1. /\ fork' = fork /\ latest' = latest /\ heads' = heads /\ cached' = cached
      /\ coverage' = coverage /\ rows' = rows /\ progress' = progress
      /\ jobs' = jobs \cup {chunk} /\ window' = window /\ q' = q
      /\ chunk.end <= heads.safe
  BY DEF Other, chainVars, dataVars, followVars
<1>2. JobsInv'
  <2>1. chunk \in Ranges
    BY QueryAssumption
  <2>2. chunk.end <= Below(latest)
    BY <1>1, <2>1, RangesType, Heights DEF QueryInv, HeadsInv
  <2> QED BY <1>1, <2>1, <2>2, Zenon DEF QueryInv, JobsInv
<1> QED BY <1>1, <1>2, Heights, QueriesStay DEF QueryInv, HeadsInv, DataInv, ProgressInv

LEMMA PruneOK ==
  ASSUME QueryInv, Prune
  PROVE  QueryInv'
<1> DEFINE passed == {cached.safe}
                       \cup {q[c].heads.safe : c \in {d \in Client : q[d].pc # "idle"}}
           low == {p.promoted : p \in progress} \cup passed
           through == Min(low)
<1>1. /\ fork' = fork /\ latest' = latest /\ heads' = heads /\ cached' = cached
      /\ jobs' = jobs /\ window' = window /\ q' = q /\ coverage' = coverage
      /\ progress' = progress
      /\ rows' = {r \in rows : r[1] > through \/ r[1] \in coverage}
  BY DEF Prune, chainVars, followVars
<1>2. low \in SUBSET Nat /\ low # {}
  <2>1. \A p \in progress : p.promoted \in Nat
    BY DEF QueryInv, ProgressInv, FollowRowOK, FollowRow
  <2>2. \A d \in Client : q[d].heads.safe \in Nat
    BY QueryIs, QueryHeights, Zenon
  <2>3. cached.safe \in Nat /\ heads.safe \in Nat
    BY Heights
  <2> QED BY <2>1, <2>2, <2>3
<1>3. through \in Nat /\ \A p \in progress : through <= p.promoted
  <2>1. through \in Nat /\ \A x \in low : through <= x
    <3> HIDE DEF low
    <3> QED BY <1>2, MinNat
  <2> QED BY <2>1
<1> HIDE DEF through
<1>4. rows' \subseteq rows
  BY <1>1
<1>5. DataInv'
  <2>1. ASSUME NEW m \in coverage
        PROVE  Exact(m, rows', fork)
    BY <1>1, <1>4, ExactLess DEF QueryInv, DataInv
  <2> QED BY <1>1, <2>1 DEF QueryInv, DataInv
<1>6. ASSUME NEW p \in progress
      PROVE  FollowRowOK(p, latest, fork, coverage, rows')
  <2>1. FollowRowOK(p, latest, fork, coverage, rows) /\ p.promoted \in Nat /\ p.head \in Nat
    BY DEF QueryInv, ProgressInv, FollowRowOK, FollowRow
  <2>2. ASSUME NEW m \in (p.promoted + 1)..p.head
        PROVE  /\ \A r \in rows : r[1] = m => r \in rows'
               /\ \E r \in rows' : r[1] = m
    BY <1>3, <2>1, <1>1 DEF FollowRowOK
  <2> QED BY <2>1, <2>2, <1>4, ExactLess, Zenon DEF FollowRowOK
<1> QED BY <1>1, <1>5, <1>6, DataStep, Zenon DEF QueryInv, ProgressInv

(* A job that ends is no longer waited for. *)
LEMMA SettleOK ==
  ASSUME QueryInv, NEW chunk, Settle(chunk), latest' = latest, coverage \subseteq coverage'
  PROVE  QueriesInv' /\ jobs' \subseteq jobs
<1>1. /\ jobs' = jobs \ {chunk}
      /\ q' = [c \in Client |-> [q[c] EXCEPT !.jobs = @ \ {chunk}]]
  BY DEF Settle
<1>2. ASSUME NEW c \in Client
      PROVE  /\ q'[c] \in QueryState
             /\ PlanOK(q'[c], Below(latest), jobs') /\ ServedOK(q'[c], coverage')
  <2> DEFINE s == q[c]
             t == [s EXCEPT !.jobs = s.jobs \ {chunk}]
  <2>1. q'[c] = t
    BY <1>1
  <2>2. s \in QueryState /\ PlanOK(s, Below(latest), jobs) /\ ServedOK(s, coverage)
    BY DEF QueryInv, QueriesInv
  <2> HIDE DEF s
  <2>3. /\ t \in QueryState /\ t.jobs = s.jobs \ {chunk}
        /\ t.pc = s.pc /\ t.req = s.req /\ t.heads = s.heads /\ t.durable = s.durable
        /\ t.wanted = s.wanted /\ t.fillEnd = s.fillEnd /\ t.todo = s.todo
        /\ t.served = s.served /\ t.hot = s.hot
    BY <2>2 DEF QueryState
  <2> HIDE DEF t
  <2> QED BY <2>1, <2>3, <2>2, <1>1, ServedStays DEF PlanOK, ServedOK
<1>3. q' \in [Client -> QueryState]
  BY <1>1, <1>2
<1> QED BY <1>1, <1>2, <1>3, Zenon DEF QueriesInv

LEMMA FillFailsOK ==
  ASSUME QueryInv, NEW chunk \in jobs, FillFails(chunk)
  PROVE  QueryInv'
<1>1. HeadsInv' /\ DataInv' /\ ProgressInv'
  BY DEF FillFails, chainVars, dataVars, followVars, QueryInv, HeadsInv, DataInv, ProgressInv
<1> QED BY <1>1, SettleOK DEF QueryInv, FillFails, chainVars, JobsInv, dataVars

LEMMA FillOK ==
  ASSUME QueryInv, NEW chunk \in jobs, NEW end \in BlocksOf(chunk), Fill(chunk, end)
  PROVE  QueryInv'
<1> DEFINE B == chunk.start..end
<1>1. /\ fork' = fork /\ latest' = latest /\ heads' = heads /\ cached' = cached
      /\ progress' = progress /\ window' = window
      /\ rows' = rows \cup CanonicalRows(B) /\ coverage' = coverage \cup B
      /\ \A r \in Stale : r[1] \notin B
      /\ Settle(chunk) \/ (jobs' = jobs /\ q' = q)
  BY DEF Fill, chainVars, followVars
<1>2. B \subseteq 0..Below(latest) /\ B \in SUBSET Block
  BY RangesType, Heights DEF BlocksOf, QueryInv, JobsInv
<1> HIDE DEF B
<1>3. rows \subseteq rows' /\ \A r \in rows' : r \in rows \/ r[2] = HashAt(r[1], fork)
  BY <1>1, <1>2, CanonicalRowsAre
<1>4. ASSUME NEW n \in B
      PROVE  Exact(n, rows', fork)
  <2>1. <<n, HashAt(n, fork)>> \in rows'
    BY <1>1, <1>2, CanonicalRowsAre
  <2>2. \A r \in rows : r[1] = n => r[2] = HashAt(n, fork)
    BY <1>1, <1>4, NotStale
  <2> QED BY <2>1, <2>2, <1>3, ExactWritten, Zenon
<1>5. DataInv'
  <2>1. coverage \subseteq 0..Below(latest)
    BY DEF QueryInv, DataInv
  <2> QED BY <2>1, <1>1, <1>2, <1>4, WriteOK, Zenon
<1>6. ProgressInv'
  <2>1. ASSUME NEW p \in progress
        PROVE  FollowRowOK(p, latest, fork, coverage', rows')
    BY <1>1, Heights, <1>3, FollowRowGrows DEF QueryInv, ProgressInv
  <2> QED BY <2>1, <1>1, Zenon DEF QueryInv, ProgressInv
<1>7. QueriesInv' /\ jobs' \subseteq jobs
  <2>1. CASE Settle(chunk)
    BY <2>1, <1>1, SettleOK
  <2>2. CASE jobs' = jobs /\ q' = q
    BY <2>2, <1>1, Heights, QueriesStay DEF QueryInv
  <2> QED BY <2>1, <2>2, <1>1
<1> QED BY <1>5, <1>6, <1>1, <1>7 DEF QueryInv, HeadsInv, JobsInv

-----------------------------------------------------------------------------
(* The steps of a query *)

(* A step of one query that is right itself leaves the others right. *)
LEMMA QueriesStep ==
  ASSUME QueryInv, latest' = latest, coverage' = coverage, jobs \subseteq jobs',
         NEW c \in Client, NEW s \in QueryState, q' = [q EXCEPT ![c] = s],
         PlanOK(s, Below(latest), jobs'), ServedOK(s, coverage)
  PROVE  QueriesInv'
<1>1. q' \in [Client -> QueryState] /\ q'[c] = s /\ \A d \in Client : d # c => q'[d] = q[d]
  BY DEF QueryInv, QueriesInv
<1>2. ASSUME NEW d \in Client
      PROVE  PlanOK(q'[d], Below(latest), jobs') /\ ServedOK(q'[d], coverage)
  <2>1. q[d] \in QueryState /\ PlanOK(q[d], Below(latest), jobs) /\ ServedOK(q[d], coverage)
    BY DEF QueryInv, QueriesInv
  <2>2. CASE d = c
    BY <2>2, <1>1
  <2>3. CASE d # c
    BY <1>1, <2>3, Heights, <2>1, PlanStays
  <2> QED BY <2>2, <2>3
<1> QED BY <1>1, <1>2 DEF QueriesInv

(* A step that changes one query only. *)
LEMMA QueryStep ==
  ASSUME QueryInv, fork' = fork, latest' = latest, heads' = heads, cached' = cached,
         coverage' = coverage, rows' = rows, progress' = progress, jobs' = jobs, window' = window,
         NEW c \in Client, NEW s \in QueryState, q' = [q EXCEPT ![c] = s],
         PlanOK(s, Below(latest), jobs), ServedOK(s, coverage)
  PROVE  QueryInv'
<1>1. QueriesInv'
  BY QueriesStep, Zenon
<1> QED BY <1>1 DEF QueryInv, HeadsInv, DataInv, ProgressInv, JobsInv

LEMMA StartOK ==
  ASSUME QueryInv, NEW c \in Client, NEW r \in Request[c], NEW old \in BOOLEAN, Start(c, r, old)
  PROVE  QueryInv'
<1> DEFINE first == HeadsOf(old)
           Above(x) == r.finality = "durable_only" /\ r.range.end > x.safe
           h == IF Above(first) THEN heads ELSE first
           t == [At("attach") EXCEPT !.req = r, !.heads = h,
                                     !.durable = Durable(r, h), !.wanted = Wanted(r, h)]
<1>1. /\ fork' = fork /\ latest' = latest /\ heads' = heads /\ coverage' = coverage
      /\ rows' = rows /\ progress' = progress /\ jobs' = jobs /\ window' = window
      /\ cached' = h /\ q' = [q EXCEPT ![c] = IF Above(h) THEN At("idle") ELSE t]
  BY DEF Start, chainVars, dataVars, followVars
<1>2. h \in HeadsType /\ h.safe <= Below(latest) /\ h.safe \in Nat
  BY Heights DEF QueryInv, HeadsInv, HeadsOf
<1>3. r \in Req /\ r.range.end \in Nat
  BY QueryAssumption, RangesType DEF Req
<1> HIDE DEF h
<1>4. HeadsInv'
  BY <1>1, <1>2 DEF QueryInv, HeadsInv
<1>5. DataInv' /\ ProgressInv' /\ JobsInv'
  BY <1>1 DEF QueryInv, DataInv, ProgressInv, JobsInv
<1>6. CASE Above(h)
  <2>1. q' = [q EXCEPT ![c] = At("idle")]
    BY <1>1, <1>6
  <2>2. QueriesInv'
    BY <2>1, <1>1, Heights, IdleOK, QueriesStep, Zenon
  <2> QED BY <2>2, <1>4, <1>5 DEF QueryInv
<1>7. CASE ~Above(h)
  <2>1. q' = [q EXCEPT ![c] = t]
    BY <1>1, <1>7, Zenon
  <2>2. Durable(r, h) \in MaybeRange /\ Wanted(r, h) \in MaybeRange
    BY <1>2, <1>3, PartsIs
  <2>3. /\ t.pc = "attach" /\ t.req = r /\ t.heads = h /\ t.durable = Durable(r, h)
        /\ t.wanted = Wanted(r, h) /\ t.fillEnd = 0 /\ t.todo = <<>> /\ t.jobs = {}
        /\ t.over = FALSE /\ t.late = FALSE /\ t.after = 0
        /\ t.served = NoRange /\ t.hot = NoRange /\ t.anchor = <<0, NoHash>>
    BY DEF At
  <2>4. t \in QueryState
    <3> DEFINE a == At("attach")
               u == [a EXCEPT !.req = r, !.heads = h,
                              !.durable = Durable(r, h), !.wanted = Wanted(r, h)]
    <3>1. a \in QueryState
      BY AtType DEF Pc
    <3>2. t = u
      OBVIOUS
    <3> HIDE DEF a, t
    <3>3. u \in QueryState
      BY <3>1, <2>2, <1>2, <1>3, Zenon DEF QueryState
    <3> QED BY <3>2, <3>3
  <2> HIDE DEF t
  <2>5. PlanOK(t, Below(latest), jobs)
    BY <2>3, <1>2 DEF PlanOK
  <2>6. ServedOK(t, coverage)
    <3>1. /\ t.pc # "idle" /\ t.pc # "hot"
          /\ t.pc \notin {"plan", "enqueue", "insert", "wait", "promotion", "reread"}
      BY <2>3
    <3>2. r.finality = "durable_only" => r.range.end <= h.safe
      BY <1>2, <1>3, <1>7
    <3>3. t.durable = Durable(t.req, t.heads) /\ t.wanted = Wanted(t.req, t.heads)
      BY <2>3, Zenon
    <3>4. t.req \in Req /\ (t.req.finality = "durable_only" => t.req.range.end <= t.heads.safe)
      BY <3>2, <2>3, <1>3, Zenon
    <3>5. t.served = NoRange /\ t.hot = NoRange
      BY <2>3, Zenon
    <3> QED BY <3>1, <3>3, <3>4, <3>5, Zenon DEF ServedOK
  <2>7. QueriesInv'
    BY <2>1, <2>4, <2>5, <2>6, <1>1, QueriesStep, Zenon
  <2> QED BY <2>7, <1>4, <1>5 DEF QueryInv
<1> QED BY <1>6, <1>7

(* What jobs may fill ends at the safe height the query read at the latest. *)
LEMMA FillEndIs ==
  ASSUME NEW row, \A p \in row : p.from \in Nat \ {0}, NEW h \in HeadsType
  PROVE  FillEnd(row, h) \in Block /\ FillEnd(row, h) <= h.safe
<1> DEFINE low == {p.from - 1 : p \in row} \cup {h.safe}
<1>1. h.safe \in Nat /\ h.safe <= MaxEnd
  BY BlockPlanAssumption DEF HeadsType, Block
<1>2. low \in SUBSET Nat /\ low # {} /\ h.safe \in low
  BY <1>1
<1>3. Min(low) \in Nat /\ Min(low) <= h.safe
  <2> HIDE DEF low
  <2> QED BY <1>2, MinNat, Zenon
<1>4. FillEnd(row, h) = Min(low)
  BY DEF FillEnd
<1> HIDE DEF low
<1> QED BY <1>1, <1>3, <1>4, BlockPlanAssumption DEF Block

LEMMA AttachOK ==
  ASSUME QueryInv, NEW c \in Client, NEW how, Attach(c, how)
  PROVE  QueryInv'
<1> DEFINE s == q[c]
           refused == s.req.finality # "durable_only" /\ how = "full"
           attach == Follows(s.req, s.heads) /\ how # "full"
           row == IF attach THEN GetOrInit(s.heads.safe + 1) ELSE progress
           t == IF refused THEN At("idle")
                ELSE IF s.durable = NoRange THEN [s EXCEPT !.pc = "hot"]
                ELSE [s EXCEPT !.pc = "plan", !.fillEnd = FillEnd(row, s.heads)]
<1>1. /\ fork' = fork /\ latest' = latest /\ heads' = heads /\ cached' = cached
      /\ coverage' = coverage /\ rows' = rows /\ progress' = row /\ jobs' = jobs
      /\ window' = window /\ q' = [q EXCEPT ![c] = t] /\ s.pc = "attach"
  BY DEF Attach, chainVars, dataVars
<1>2. s \in QueryState /\ PlanOK(s, Below(latest), jobs) /\ ServedOK(s, coverage)
  BY QueryIs
<1>3. s.heads \in HeadsType /\ s.heads.safe \in Nat
  BY <1>2, QueryHeights, Zenon
<1>4. /\ \A p \in row : FollowRowOK(p, latest, fork, coverage, rows)
      /\ \A p1, p2 \in row : p1 = p2
  <2>1. s.heads.safe + 1 \in Nat \ {0}
    BY <1>3
  <2>2. CASE attach
    <3>1. row = GetOrInit(s.heads.safe + 1)
      BY <2>2, Zenon
    <3> QED BY <2>1, <3>1, GetOrInitOK, Zenon
  <2>3. CASE ~attach
    <3>1. row = progress
      BY <2>3, Zenon
    <3>2. ProgressInv
      BY Zenon DEF QueryInv
    <3> HIDE DEF row, attach
    <3> QED BY <3>1, <3>2, Zenon DEF ProgressInv
  <2> QED BY <2>2, <2>3, Zenon
<1>5. \A p \in row : p.from \in Nat \ {0}
  BY <1>4 DEF FollowRowOK, FollowRow
<1> HIDE DEF s, row, refused
<1>6. HeadsInv' /\ DataInv' /\ ProgressInv' /\ JobsInv'
  BY <1>1, <1>4 DEF QueryInv, HeadsInv, DataInv, ProgressInv, JobsInv
<1>7. t \in QueryState /\ PlanOK(t, Below(latest), jobs) /\ ServedOK(t, coverage)
  <2>1. CASE refused
    BY <2>1, Heights, IdleOK
  <2>2. CASE ~refused /\ s.durable = NoRange
    <3> DEFINE u == [s EXCEPT !.pc = "hot"]
    <3>1. t = u
      BY <2>2
    <3>2. /\ u \in QueryState /\ u.pc = "hot" /\ u.req = s.req /\ u.heads = s.heads
          /\ u.durable = s.durable /\ u.wanted = s.wanted /\ u.fillEnd = s.fillEnd
          /\ u.todo = s.todo /\ u.jobs = s.jobs /\ u.served = s.served /\ u.hot = s.hot
      BY <1>2, Zenon DEF QueryState, Pc
    <3> HIDE DEF u, t
    <3> QED BY <3>1, <3>2, <1>2, <2>2, <1>1, Zenon DEF PlanOK, ServedOK
  <2>3. CASE ~refused /\ s.durable # NoRange
    <3> DEFINE e == FillEnd(row, s.heads)
               u == [s EXCEPT !.pc = "plan", !.fillEnd = e]
    <3>1. t = u
      BY <2>3
    <3>2. e \in Block /\ e <= s.heads.safe
      BY <1>3, <1>5, FillEndIs
    <3> HIDE DEF e
    <3>3. /\ u \in QueryState /\ u.pc = "plan" /\ u.req = s.req /\ u.heads = s.heads
          /\ u.durable = s.durable /\ u.wanted = s.wanted /\ u.fillEnd = e
          /\ u.todo = s.todo /\ u.jobs = s.jobs /\ u.served = s.served /\ u.hot = s.hot
      BY <3>2, <1>2, Zenon DEF QueryState, Pc
    <3> HIDE DEF u, t
    <3> QED BY <3>1, <3>3, <3>2, <1>2, <2>3, <1>1, Zenon DEF PlanOK, ServedOK
  <2> QED BY <2>1, <2>2, <2>3
<1> HIDE DEF t
<1>8. QueriesInv'
  BY <1>1, <1>7, QueriesStep, Zenon
<1> QED BY <1>6, <1>8 DEF QueryInv

(* Where a query stands while it works on its durable part. *)
Working == {"plan", "enqueue", "insert", "wait", "promotion", "reread"}

(* What such a step must show of the prefix it keeps. *)
LEMMA MoveOK ==
  ASSUME NEW s \in QueryState, NEW covered, ServedOK(s, covered), s.pc \in Working,
         NEW t \in QueryState, t.req = s.req, t.heads = s.heads, t.durable = s.durable,
         t.wanted = s.wanted, t.hot = s.hot, t.pc # "idle",
         t.served # NoRange => /\ t.served.start = s.durable.start
                               /\ t.served.end <= s.durable.end
                               /\ \A n \in BlocksOf(t.served) : n \in covered,
         t.pc = "hot" => Reaches(t.served, s.durable)
  PROVE  ServedOK(t, covered)
BY Zenon DEF ServedOK, Working

(* The query leaves the wait with a prefix that is covered. *)
LEMMA LeaveOK ==
  ASSUME NEW s \in QueryState, NEW covered, ServedOK(s, covered), s.pc \in Working,
         NEW safe, NEW active, PlanOK(s, safe, active),
         NEW pc \in {"hot", "rows"}, NEW served \in MaybeRange,
         served # NoRange => /\ served.start = s.durable.start /\ served.end <= s.durable.end
                             /\ \A n \in BlocksOf(served) : n \in covered,
         pc = "hot" => Reaches(served, s.durable)
  PROVE  LET t == Leave(s, pc, served)
         IN t \in QueryState /\ PlanOK(t, safe, active) /\ ServedOK(t, covered)
<1> DEFINE t == Leave(s, pc, served)
<1>1. /\ t \in QueryState /\ t.pc = pc /\ t.served = served /\ t.fillEnd = 0 /\ t.jobs = {}
      /\ t.req = s.req /\ t.heads = s.heads /\ t.durable = s.durable /\ t.wanted = s.wanted
      /\ t.hot = s.hot /\ t.todo = s.todo
  <2>1. 0 \in Block
    BY ZeroBlock, Zenon
  <2>2. pc \in Pc
    BY Zenon DEF Pc
  <2>3. t \in QueryState
    BY <2>1, <2>2, Zenon DEF Leave, QueryState
  <2> QED BY <2>3 DEF Leave, QueryState
<1> HIDE DEF t
<1>2. s.heads.safe \in Nat
  BY QueryHeights, Zenon
<1>3. PlanOK(t, safe, active)
  <2>1. 0 <= s.heads.safe
    BY <1>2, LeastNat, Zenon
  <2>2. t.pc \notin {"enqueue", "insert"}
    BY <1>1, Zenon
  <2> QED BY <1>1, <2>1, <2>2, Zenon DEF PlanOK
<1>4. t.pc # "idle" /\ (t.pc = "hot" => Reaches(t.served, s.durable))
  BY <1>1
<1>5. ServedOK(t, covered)
  BY <1>1, <1>4, MoveOK, Zenon
<1> QED BY <1>1, <1>3, <1>5 DEF t

(* Leaving for the rows asks nothing of what is served. *)
LEMMA LeaveRowsOK ==
  ASSUME NEW s \in QueryState, NEW covered, ServedOK(s, covered), s.pc \in Working,
         NEW safe, NEW active, PlanOK(s, safe, active), NEW served \in MaybeRange,
         served # NoRange => /\ served.start = s.durable.start /\ served.end <= s.durable.end
                             /\ \A n \in BlocksOf(served) : n \in covered
  PROVE  LET t == Leave(s, "rows", served)
         IN t \in QueryState /\ PlanOK(t, safe, active) /\ ServedOK(t, covered)
  BY LeaveOK

(* The prefix a working query reads from coverage. *)
LEMMA ReadPrefix ==
  ASSUME QueryInv, NEW c \in Client, q[c].pc \in Working
  PROVE  LET served == Prefix[coverage][q[c].durable]
         IN /\ q[c].durable \in Ranges
            /\ served \in MaybeRange
            /\ served # NoRange => /\ served.start = q[c].durable.start
                                   /\ served.end <= q[c].durable.end
                                   /\ \A n \in BlocksOf(served) : n \in coverage
<1>1. coverage \in SUBSET Block
  BY Heights DEF QueryInv, DataInv
<1> QED BY QueryIs, <1>1, PrefixIs, Zenon DEF QueryState, MaybeRange, ServedOK, Working

LEMMA PlanStepOK ==
  ASSUME QueryInv, NEW c \in Client, Plan(c)
  PROVE  QueryInv'
<1> DEFINE s == q[c]
           end == s.fillEnd
           fill == IF s.durable.start <= end THEN GridSpan(s.durable, Chunk, end) ELSE NoRange
           served == Prefix[coverage][s.durable]
           planned == IF fill = NoRange THEN <<>> ELSE Missing[coverage][fill][end]
           u == [s EXCEPT !.pc = IF planned = <<>> THEN "wait" ELSE "enqueue", !.todo = planned]
           t == IF Reaches(served, s.durable) THEN Leave(s, "hot", served) ELSE u
<1>1. /\ fork' = fork /\ latest' = latest /\ heads' = heads /\ cached' = cached
      /\ coverage' = coverage /\ rows' = rows /\ progress' = progress /\ jobs' = jobs
      /\ window' = window /\ q' = [q EXCEPT ![c] = t] /\ s.pc = "plan"
  BY DEF Plan, chainVars, dataVars, followVars
<1>2. s \in QueryState /\ PlanOK(s, Below(latest), jobs) /\ ServedOK(s, coverage) /\ s.pc \in Working
  BY <1>1, QueryIs DEF Working
<1>3. /\ s.durable \in Ranges /\ served \in MaybeRange
      /\ served # NoRange => /\ served.start = s.durable.start /\ served.end <= s.durable.end
                             /\ \A n \in BlocksOf(served) : n \in coverage
  BY <1>2, ReadPrefix, Zenon
<1>4. end \in Block /\ end <= Below(latest)
  <2>1. end \in Block /\ end \in Nat /\ s.heads.safe \in Nat
    BY <1>2, QueryHeights, Zenon
  <2>2. s.heads.safe <= Below(latest) /\ end <= s.heads.safe
    BY <1>2, Zenon DEF PlanOK
  <2>3. Below(latest) \in Nat
    BY Heights, Zenon
  <2> QED BY <2>1, <2>2, <2>3
<1>5. /\ planned \in Seq(Ranges)
      /\ \A j \in DOMAIN planned : planned[j].end <= Below(latest) /\ Length(planned[j]) <= Chunk
  <2>1. CASE fill = NoRange
    <3>1. planned = <<>>
      BY <2>1, Zenon
    <3> HIDE DEF planned
    <3> QED BY <3>1
  <2>2. CASE fill # NoRange
    <3>1. fill \in Ranges
      BY <2>2, <1>3, <1>4, QueryAssumption, GridSpanIs, Zenon
    <3>2. coverage \in SUBSET Block
      BY Heights DEF QueryInv, DataInv
    <3> DEFINE plan == Missing[coverage][fill][end]
    <3>3. /\ plan \in Seq(Ranges)
          /\ \A j \in DOMAIN plan : plan[j].end <= end /\ Length(plan[j]) <= Chunk
      <4> HIDE DEF fill, end
      <4> QED BY <3>1, <3>2, <1>4, MissingIs, Zenon
    <3>4. planned = plan
      BY <2>2
    <3> HIDE DEF plan, planned, end
    <3>5. ASSUME NEW j \in DOMAIN plan
          PROVE  plan[j].end <= Below(latest) /\ Length(plan[j]) <= Chunk
      BY <3>3, <1>4, RangesType, Heights
    <3> QED BY <3>3, <3>4, <3>5
  <2> QED BY <2>1, <2>2, Zenon
<1> HIDE DEF s, served, planned
<1>6. t \in QueryState /\ PlanOK(t, Below(latest), jobs) /\ ServedOK(t, coverage)
  <2>1. CASE Reaches(served, s.durable)
    BY <2>1, <1>2, <1>3, LeaveOK, Zenon
  <2>2. CASE ~Reaches(served, s.durable)
    <3>1. /\ u \in QueryState /\ u.pc = (IF planned = <<>> THEN "wait" ELSE "enqueue")
          /\ u.todo = planned /\ u.req = s.req /\ u.heads = s.heads /\ u.durable = s.durable
          /\ u.wanted = s.wanted /\ u.hot = s.hot /\ u.served = s.served
          /\ u.fillEnd = s.fillEnd /\ u.jobs = s.jobs
      BY <1>2, <1>5, Zenon DEF QueryState, Pc
    <3>2. t = u
      BY <2>2, Zenon
    <3> HIDE DEF u, t
    <3>3. PlanOK(u, Below(latest), jobs)
      BY <3>1, <1>2, <1>5, Zenon DEF PlanOK
    <3>4. /\ u.pc # "idle" /\ u.pc # "hot"
          /\ u.served # NoRange => /\ u.served.start = s.durable.start
                                  /\ u.served.end <= s.durable.end
                                  /\ \A n \in BlocksOf(u.served) : n \in coverage
      BY <3>1, <1>2 DEF ServedOK
    <3>5. ServedOK(u, coverage)
      BY <3>1, <3>4, <1>2, MoveOK, Zenon
    <3> QED BY <3>1, <3>2, <3>3, <3>5
  <2> QED BY <2>1, <2>2
<1> HIDE DEF t
<1> QED BY <1>1, <1>6, QueryStep, Zenon

(* The first chunk of the plan, and the plan without it. *)
LEMMA TodoIs ==
  ASSUME NEW s \in QueryState, NEW safe, NEW active, PlanOK(s, safe, active), s.todo # <<>>
  PROVE  /\ Head(s.todo) \in Ranges /\ Head(s.todo).end <= safe /\ Length(Head(s.todo)) <= Chunk
         /\ Tail(s.todo) \in Seq(Ranges)
         /\ \A i \in DOMAIN Tail(s.todo) :
              Tail(s.todo)[i].end <= safe /\ Length(Tail(s.todo)[i]) <= Chunk
         /\ Len(s.todo) # 1 => Tail(s.todo) # <<>>
<1>1. s.todo \in Seq(Ranges)
  BY DEF QueryState
<1> DEFINE todo == s.todo
<1>2. \A i \in DOMAIN todo : todo[i].end <= safe /\ Length(todo[i]) <= Chunk
  BY DEF PlanOK
<1> HIDE DEF todo
<1>3. todo \in Seq(Ranges) /\ todo # <<>>
  BY <1>1 DEF todo
<1>4. Head(todo) = todo[1] /\ 1 \in DOMAIN todo /\ todo[1] \in Ranges
  BY <1>3
<1>5. /\ Tail(todo) \in Seq(Ranges) /\ Len(Tail(todo)) = Len(todo) - 1
      /\ \A i \in DOMAIN Tail(todo) : i + 1 \in DOMAIN todo /\ Tail(todo)[i] = todo[i + 1]
  BY <1>3
<1>6. Len(todo) # 1 => Tail(todo) # <<>>
  <2>1. ASSUME Tail(todo) = <<>>
        PROVE  Len(todo) = 1
    <3> DEFINE rest == Tail(todo)
    <3>1. Len(rest) = Len(todo) - 1 /\ Len(todo) \in Nat
      BY <1>3, <1>5
    <3>2. rest = <<>>
      BY <2>1
    <3> HIDE DEF rest
    <3> QED BY <3>1, <3>2
  <2> QED BY <2>1
<1> QED BY <1>2, <1>4, <1>5, <1>6, Zenon DEF todo

(* The query goes on to the next chunk, waiting for this one's job if there *)
(* is one.                                                                  *)
LEMMA PlannedOK ==
  ASSUME NEW s \in QueryState, NEW covered, ServedOK(s, covered), s.pc \in {"enqueue", "insert"},
         NEW safe, NEW active, NEW active2, active \subseteq active2, PlanOK(s, safe, active),
         NEW job \in SUBSET Ranges, job \subseteq active2,
         NEW t, t = Planned(s, job) \/ t = [Planned(s, job) EXCEPT !.over = TRUE]
  PROVE  t \in QueryState /\ PlanOK(t, safe, active2) /\ ServedOK(t, covered)
<1>1. s.todo # <<>>
  BY DEF PlanOK
<1>2. /\ Tail(s.todo) \in Seq(Ranges)
      /\ \A i \in DOMAIN Tail(s.todo) :
           Tail(s.todo)[i].end <= safe /\ Length(Tail(s.todo)[i]) <= Chunk
      /\ Len(s.todo) # 1 => Tail(s.todo) # <<>>
  BY <1>1, TodoIs
<1> DEFINE u == Planned(s, job)
<1>3. u \in QueryState
  BY <1>2, Zenon DEF Planned, QueryState, Pc
<1>4. /\ u.pc = (IF Len(s.todo) = 1 THEN "wait" ELSE "enqueue") /\ u.todo = Tail(s.todo)
      /\ u.jobs = s.jobs \cup job /\ u.req = s.req /\ u.heads = s.heads /\ u.durable = s.durable
      /\ u.wanted = s.wanted /\ u.hot = s.hot /\ u.served = s.served /\ u.fillEnd = s.fillEnd
  BY DEF Planned, QueryState
<1> HIDE DEF u
<1>5. /\ t \in QueryState /\ t.pc = u.pc /\ t.todo = u.todo /\ t.jobs = u.jobs /\ t.req = u.req
      /\ t.heads = u.heads /\ t.durable = u.durable /\ t.wanted = u.wanted /\ t.hot = u.hot
      /\ t.served = u.served /\ t.fillEnd = u.fillEnd
  <2>1. t = u \/ t = [u EXCEPT !.over = TRUE]
    BY DEF u
  <2> QED BY <2>1, <1>3, Zenon DEF QueryState
<1> QED BY <1>5, <1>2, <1>4, MoveOK DEF PlanOK, ServedOK, Working

LEMMA ChargeOK ==
  ASSUME QueryInv, NEW c \in Client, Charge(c)
  PROVE  QueryInv'
<1> DEFINE s == q[c]
           chunk == Head(s.todo)
<1>1. /\ fork' = fork /\ latest' = latest /\ heads' = heads /\ cached' = cached
      /\ coverage' = coverage /\ rows' = rows /\ progress' = progress /\ jobs' = jobs
      /\ s.pc = "enqueue"
  BY DEF Charge, chainVars, dataVars, followVars
<1>2. \/ chunk \in jobs /\ q' = [q EXCEPT ![c] = Planned(s, {chunk})] /\ window' = window
      \/ q' = [q EXCEPT ![c] = [Planned(s, {}) EXCEPT !.over = TRUE]] /\ window' = window
      \/ /\ MayTake(Length(chunk)) /\ q' = [q EXCEPT ![c] = [s EXCEPT !.pc = "insert"]]
         /\ window' = window + Length(chunk)
  BY Zenon DEF Charge
<1>3. s \in QueryState /\ PlanOK(s, Below(latest), jobs) /\ ServedOK(s, coverage) /\ s.todo # <<>>
  BY <1>1, QueryIs, Zenon DEF PlanOK
<1>4. chunk \in Ranges /\ Length(chunk) <= Chunk
  BY <1>3, TodoIs
<1> HIDE DEF s, chunk
<1>5. CASE chunk \in jobs /\ q' = [q EXCEPT ![c] = Planned(s, {chunk})] /\ window' = window
  <2> DEFINE job == {chunk}
             t == Planned(s, job)
  <2>1. t \in QueryState /\ PlanOK(t, Below(latest), jobs) /\ ServedOK(t, coverage)
    <3>1. job \in SUBSET Ranges /\ job \subseteq jobs /\ jobs \subseteq jobs
      BY <1>4, <1>5
    <3> HIDE DEF job
    <3> QED BY <3>1, <1>1, <1>3, PlannedOK, Zenon
  <2> HIDE DEF t
  <2>2. q' = [q EXCEPT ![c] = t]
    BY <1>5 DEF t
  <2> QED BY <2>1, <2>2, <1>1, <1>5, QueryStep, Zenon
<1>6. CASE q' = [q EXCEPT ![c] = [Planned(s, {}) EXCEPT !.over = TRUE]] /\ window' = window
  <2> DEFINE job == {}
             t == [Planned(s, job) EXCEPT !.over = TRUE]
  <2>1. t \in QueryState /\ PlanOK(t, Below(latest), jobs) /\ ServedOK(t, coverage)
    <3>1. job \in SUBSET Ranges /\ job \subseteq jobs /\ jobs \subseteq jobs
      OBVIOUS
    <3> HIDE DEF job
    <3> QED BY <3>1, <1>1, <1>3, PlannedOK
  <2>2. q' = [q EXCEPT ![c] = t]
    BY <1>6
  <2> HIDE DEF t
  <2> QED BY <2>1, <2>2, <1>1, <1>6, QueryStep, Zenon
<1>7. CASE /\ MayTake(Length(chunk)) /\ q' = [q EXCEPT ![c] = [s EXCEPT !.pc = "insert"]]
           /\ window' = window + Length(chunk)
  <2> DEFINE t == [s EXCEPT !.pc = "insert"]
  <2>1. /\ t \in QueryState /\ t.pc = "insert" /\ t.todo = s.todo /\ t.jobs = s.jobs
        /\ t.req = s.req /\ t.heads = s.heads /\ t.durable = s.durable /\ t.wanted = s.wanted
        /\ t.hot = s.hot /\ t.served = s.served /\ t.fillEnd = s.fillEnd
    BY <1>3, Zenon DEF QueryState, Pc
  <2>2. q' = [q EXCEPT ![c] = t]
    BY <1>7
  <2> HIDE DEF t
  <2>3. PlanOK(t, Below(latest), jobs)
    BY <2>1, <1>3 DEF PlanOK
  <2>4. ServedOK(t, coverage)
    BY <2>1, <1>1, <1>3, Zenon DEF ServedOK
  <2>5. QueriesInv'
    BY <2>1, <2>2, <2>3, <2>4, <1>1, QueriesStep, Zenon
  <2>6. HeadsInv' /\ DataInv' /\ ProgressInv'
    BY <1>1 DEF QueryInv, HeadsInv, DataInv, ProgressInv
  <2>7. JobsInv'
    <3>1. Length(chunk) \in Nat
      BY <1>4, RangesType DEF Length
    <3> DEFINE l == Length(chunk)
    <3>2. l \in Nat /\ l <= Chunk /\ ~(window > 0 /\ window + l > Allowance) /\ window' = window + l
      BY <3>1, <1>4, <1>7, Zenon DEF MayTake
    <3> HIDE DEF l
    <3>3. window \in Nat /\ window <= Greatest(Allowance, Chunk) /\ Chunk \in Nat /\ Allowance \in Nat
      BY QueryAssumption DEF QueryInv, JobsInv
    <3>4. window' \in Nat /\ window' <= Greatest(Allowance, Chunk)
      BY <3>2, <3>3 DEF Greatest
    <3> QED BY <3>4, <1>1 DEF QueryInv, JobsInv
  <2> QED BY <2>5, <2>6, <2>7 DEF QueryInv
<1> QED BY <1>2, <1>5, <1>6, <1>7

LEMMA EnqueueOK ==
  ASSUME QueryInv, NEW c \in Client, Enqueue(c)
  PROVE  QueryInv'
<1> DEFINE s == q[c]
           chunk == Head(s.todo)
           known == chunk \notin jobs /\ BlocksOf(chunk) \subseteq coverage
           job == IF known THEN {} ELSE {chunk}
           t == Planned(s, job)
<1>1. /\ fork' = fork /\ latest' = latest /\ heads' = heads /\ cached' = cached
      /\ coverage' = coverage /\ rows' = rows /\ progress' = progress /\ window' = window
      /\ s.pc = "insert" /\ jobs' = jobs \cup job /\ q' = [q EXCEPT ![c] = t]
  BY Zenon DEF Enqueue, chainVars, dataVars, followVars
<1>2. s \in QueryState /\ PlanOK(s, Below(latest), jobs) /\ ServedOK(s, coverage) /\ s.todo # <<>>
  BY <1>1, QueryIs DEF PlanOK
<1>3. job \in SUBSET Ranges /\ job \subseteq jobs' /\ jobs \subseteq jobs'
      /\ \A x \in job : x.end <= Below(latest)
  BY <1>1, <1>2, TodoIs, Zenon
<1> HIDE DEF s, job
<1>4. t \in QueryState /\ PlanOK(t, Below(latest), jobs') /\ ServedOK(t, coverage)
  BY <1>1, <1>2, <1>3, PlannedOK, Zenon
<1> HIDE DEF t
<1>5. QueriesInv'
  BY <1>1, <1>3, <1>4, QueriesStep, Zenon
<1>6. HeadsInv' /\ DataInv' /\ ProgressInv'
  BY <1>1 DEF QueryInv, HeadsInv, DataInv, ProgressInv
<1>7. JobsInv'
  BY <1>1, <1>3, Zenon DEF QueryInv, JobsInv
<1> QED BY <1>5, <1>6, <1>7 DEF QueryInv

(* A query that goes on waiting with a prefix it has read. *)
LEMMA WaitsOK ==
  ASSUME NEW s \in QueryState, NEW covered, ServedOK(s, covered), s.pc \in Working,
         NEW safe, NEW active, PlanOK(s, safe, active),
         NEW t \in QueryState, t.pc \in {"promotion", "reread"}, t.todo = s.todo, t.jobs = s.jobs,
         t.fillEnd = s.fillEnd, t.req = s.req, t.heads = s.heads, t.durable = s.durable,
         t.wanted = s.wanted, t.hot = s.hot,
         t.served # NoRange => /\ t.served.start = s.durable.start
                               /\ t.served.end <= s.durable.end
                               /\ \A n \in BlocksOf(t.served) : n \in covered
  PROVE  PlanOK(t, safe, active) /\ ServedOK(t, covered)
<1> QED BY MoveOK DEF PlanOK

LEMMA WaitDoneOK ==
  ASSUME QueryInv, NEW c \in Client, NEW late, NEW broken, WaitDone(c, late, broken)
  PROVE  QueryInv'
<1> DEFINE s == q[c]
           served == Prefix[coverage][s.durable]
           u == [s EXCEPT !.pc = "promotion", !.served = served, !.after = s.heads.latest]
           t == IF Reaches(served, s.durable) THEN Leave(s, "hot", served)
                ELSE IF late \/ FirstMissing(served, s.durable) <= s.fillEnd
                THEN Leave(s, "rows", served) ELSE u
<1>1. /\ fork' = fork /\ latest' = latest /\ heads' = heads /\ cached' = cached
      /\ coverage' = coverage /\ rows' = rows /\ progress' = progress /\ jobs' = jobs
      /\ window' = window /\ q' = [q EXCEPT ![c] = t] /\ s.pc = "wait"
  BY DEF WaitDone, chainVars, dataVars, followVars
<1>2. s \in QueryState /\ PlanOK(s, Below(latest), jobs) /\ ServedOK(s, coverage) /\ s.pc \in Working
  BY <1>1, QueryIs DEF Working
<1>3. /\ served \in MaybeRange
      /\ served # NoRange => /\ served.start = s.durable.start /\ served.end <= s.durable.end
                             /\ \A n \in BlocksOf(served) : n \in coverage
  BY <1>2, ReadPrefix, Zenon
<1> HIDE DEF s, served
<1>4. t \in QueryState /\ PlanOK(t, Below(latest), jobs) /\ ServedOK(t, coverage)
  <2>1. CASE t = Leave(s, "hot", served) /\ Reaches(served, s.durable)
    BY <2>1, <1>2, <1>3, LeaveOK, Zenon
  <2>2. CASE t = Leave(s, "rows", served)
    <3> HIDE DEF t
    <3> QED BY <2>2, <1>2, <1>3, LeaveRowsOK, Zenon
  <2>3. CASE t = u
    <3>1. s.heads.latest \in Nat
      BY <1>2, QueryHeights, Zenon
    <3>2. /\ u \in QueryState /\ u.pc = "promotion" /\ u.served = served
          /\ u.todo = s.todo /\ u.jobs = s.jobs /\ u.fillEnd = s.fillEnd /\ u.req = s.req
          /\ u.heads = s.heads /\ u.durable = s.durable /\ u.wanted = s.wanted /\ u.hot = s.hot
      BY <3>1, <1>2, <1>3, Zenon DEF QueryState, Pc
    <3> HIDE DEF u, t
    <3> QED BY <2>3, <3>2, <1>2, <1>3, WaitsOK
  <2> QED BY <2>1, <2>2, <2>3
<1> HIDE DEF t
<1> QED BY <1>1, <1>4, QueryStep, Zenon

LEMMA PromotionOK ==
  ASSUME QueryInv, NEW c \in Client, NEW late \in BOOLEAN, Promotion(c, late)
  PROVE  QueryInv'
<1> DEFINE s == q[c]
           after == Greatest(s.after, heads.latest)
           t == [s EXCEPT !.pc = "reread", !.late = late, !.after = after]
<1>1. s \in QueryState /\ PlanOK(s, Below(latest), jobs) /\ ServedOK(s, coverage)
  BY QueryIs
<1>2. /\ fork' = fork /\ latest' = latest /\ heads' = heads /\ cached' = cached
      /\ coverage' = coverage /\ rows' = rows /\ progress' = progress /\ jobs' = jobs
      /\ window' = window /\ s.pc = "promotion"
  BY DEF Promotion, chainVars, dataVars, followVars
<1>3. q' = [q EXCEPT ![c] = t]
  BY <1>1, Zenon DEF Promotion, QueryInv, QueriesInv
<1>4. after \in Nat
  <2>1. s.after \in Nat
    BY <1>1, QueryHeights, Zenon
  <2>2. heads.latest \in Nat
    BY BlockPlanAssumption DEF QueryInv, HeadsInv, HeadsType, Block
  <2> QED BY <2>1, <2>2 DEF Greatest
<1> HIDE DEF s, after
<1>5. /\ t \in QueryState /\ t.pc = "reread" /\ t.served = s.served
      /\ t.todo = s.todo /\ t.jobs = s.jobs /\ t.fillEnd = s.fillEnd /\ t.req = s.req
      /\ t.heads = s.heads /\ t.durable = s.durable /\ t.wanted = s.wanted /\ t.hot = s.hot
  BY <1>1, <1>4, Zenon DEF QueryState, Pc
<1> HIDE DEF t
<1>6. PlanOK(t, Below(latest), jobs) /\ ServedOK(t, coverage)
  <2>1. /\ s.pc \in Working
        /\ t.served # NoRange => /\ t.served.start = s.durable.start
                                /\ t.served.end <= s.durable.end
                                /\ \A n \in BlocksOf(t.served) : n \in coverage
    BY <1>1, <1>2, <1>5 DEF ServedOK, Working
  <2> QED BY <1>1, <1>5, <2>1, WaitsOK, Zenon
<1> QED BY <1>2, <1>3, <1>5, <1>6, QueryStep, Zenon

LEMMA RereadOK ==
  ASSUME QueryInv, NEW c \in Client, Reread(c)
  PROVE  QueryInv'
<1> DEFINE s == q[c]
           served == Prefix[coverage][s.durable]
           u == [s EXCEPT !.pc = "promotion", !.served = served]
           t == IF Reaches(served, s.durable) THEN Leave(s, "hot", served)
                ELSE IF s.late THEN Leave(s, "rows", served) ELSE u
<1>1. /\ fork' = fork /\ latest' = latest /\ heads' = heads /\ cached' = cached
      /\ coverage' = coverage /\ rows' = rows /\ progress' = progress /\ jobs' = jobs
      /\ window' = window /\ q' = [q EXCEPT ![c] = t] /\ s.pc = "reread"
  BY DEF Reread, chainVars, dataVars, followVars
<1>2. s \in QueryState /\ PlanOK(s, Below(latest), jobs) /\ ServedOK(s, coverage) /\ s.pc \in Working
  BY <1>1, QueryIs DEF Working
<1>3. /\ served \in MaybeRange
      /\ served # NoRange => /\ served.start = s.durable.start /\ served.end <= s.durable.end
                             /\ \A n \in BlocksOf(served) : n \in coverage
  BY <1>2, ReadPrefix, Zenon
<1> HIDE DEF s, served
<1>4. t \in QueryState /\ PlanOK(t, Below(latest), jobs) /\ ServedOK(t, coverage)
  <2>1. CASE t = Leave(s, "hot", served) /\ Reaches(served, s.durable)
    BY <2>1, <1>2, <1>3, LeaveOK, Zenon
  <2>2. CASE t = Leave(s, "rows", served)
    <3> HIDE DEF t
    <3> QED BY <2>2, <1>2, <1>3, LeaveRowsOK, Zenon
  <2>3. CASE t = u
    <3>1. /\ u \in QueryState /\ u.pc = "promotion" /\ u.served = served
          /\ u.todo = s.todo /\ u.jobs = s.jobs /\ u.fillEnd = s.fillEnd /\ u.req = s.req
          /\ u.heads = s.heads /\ u.durable = s.durable /\ u.wanted = s.wanted /\ u.hot = s.hot
      BY <1>2, <1>3, Zenon DEF QueryState, Pc
    <3> HIDE DEF u, t
    <3> QED BY <2>3, <3>1, <1>2, <1>3, WaitsOK
  <2> QED BY <2>1, <2>2, <2>3
<1> HIDE DEF t
<1> QED BY <1>1, <1>4, QueryStep, Zenon

LEMMA PromotionFailsOK ==
  ASSUME QueryInv, NEW c \in Client, PromotionFails(c)
  PROVE  QueryInv'
<1> DEFINE s == q[c]
           t == Leave(s, "rows", s.served)
<1>1. /\ fork' = fork /\ latest' = latest /\ heads' = heads /\ cached' = cached
      /\ coverage' = coverage /\ rows' = rows /\ progress' = progress /\ jobs' = jobs
      /\ window' = window /\ q' = [q EXCEPT ![c] = t] /\ s.pc = "promotion"
  BY DEF PromotionFails, chainVars, dataVars, followVars
<1>2. s \in QueryState /\ PlanOK(s, Below(latest), jobs) /\ ServedOK(s, coverage) /\ s.pc \in Working
  BY <1>1, QueryIs, Zenon DEF Working
<1> HIDE DEF s
<1>3. s.served # NoRange => /\ s.served.start = s.durable.start /\ s.served.end <= s.durable.end
                            /\ \A n \in BlocksOf(s.served) : n \in coverage
  BY <1>2 DEF ServedOK
<1>4. t \in QueryState /\ PlanOK(t, Below(latest), jobs) /\ ServedOK(t, coverage)
  BY <1>2, <1>3, LeaveOK, Zenon DEF QueryState
<1> HIDE DEF t
<1> QED BY <1>1, <1>4, QueryStep, Zenon

LEMMA HotOK ==
  ASSUME QueryInv, NEW c \in Client, Hot(c)
  PROVE  QueryInv'
<1> DEFINE s == q[c]
           Upto(p) == NewRange(s.wanted.start, Least(s.wanted.end, p.head))
<1>1. /\ fork' = fork /\ latest' = latest /\ heads' = heads /\ cached' = cached
      /\ coverage' = coverage /\ rows' = rows /\ jobs' = jobs /\ window' = window
      /\ s.pc = "hot"
  BY Zenon DEF Hot, chainVars, dataVars
<1>2. s \in QueryState /\ PlanOK(s, Below(latest), jobs) /\ ServedOK(s, coverage)
  BY QueryIs
<1> DEFINE u == [s EXCEPT !.pc = "rows"]
<1>3. u \in QueryState /\ PlanOK(u, Below(latest), jobs) /\ ServedOK(u, coverage)
  <2>1. /\ u \in QueryState /\ u.pc = "rows" /\ u.req = s.req /\ u.heads = s.heads
        /\ u.durable = s.durable /\ u.wanted = s.wanted /\ u.fillEnd = s.fillEnd
        /\ u.todo = s.todo /\ u.jobs = s.jobs /\ u.served = s.served /\ u.hot = s.hot
    BY <1>2, Zenon DEF QueryState, Pc
  <2> HIDE DEF u, s
  <2>2. PlanOK(u, Below(latest), jobs)
    BY <2>1, <1>2 DEF PlanOK
  <2>3. ServedOK(u, coverage)
    BY <2>1, <1>2, <1>1, Zenon DEF ServedOK
  <2> QED BY <2>1, <2>2, <2>3
<1>4. CASE s.wanted = NoRange
  <2>1. progress' = progress /\ q' = [q EXCEPT ![c] = u]
    BY <1>4, <1>2 DEF Hot, QueryInv, QueriesInv
  <2> HIDE DEF u
  <2> QED BY <2>1, <1>1, <1>3, QueryStep, Zenon
<1>5. CASE s.wanted # NoRange
  <2>1. s.wanted \in Ranges /\ s.wanted.start \in Nat \ {0}
    BY <1>1, <1>5, WantedIs, Zenon
  <2> DEFINE all == GetOrInit(s.wanted.start)
  <2>2. /\ \A p \in all : FollowRowOK(p, latest, fork, coverage, rows)
        /\ \A p1, p2 \in all : p1 = p2
    BY <2>1, GetOrInitOK, Zenon
  <2>3. HeadsInv' /\ DataInv' /\ ProgressInv' /\ JobsInv'
    <3>1. progress' = all
      BY <1>5, Zenon DEF Hot
    <3> HIDE DEF all
    <3>2. ProgressInv'
      BY <3>1, <2>2, <1>1, Zenon DEF ProgressInv
    <3> QED BY <3>2, <1>1, Zenon DEF QueryInv, HeadsInv, DataInv, JobsInv
  <2>4. PICK p \in all : q' = [q EXCEPT ![c] =
          IF ~HotReaches(p, s.wanted) THEN [s EXCEPT !.pc = "rows"]
          ELSE [s EXCEPT !.pc = "rows", !.hot = Upto(p), !.anchor = <<p.head, p.hash>>]]
    BY <1>5, Zenon DEF Hot
  <2>5. p \in FollowRow
    BY <2>2 DEF FollowRowOK
  <2>6. CASE ~HotReaches(p, s.wanted)
    <3>1. q' = [q EXCEPT ![c] = u]
      BY <2>4, <2>6
    <3> HIDE DEF u
    <3>2. QueriesInv'
      BY <3>1, <1>1, <1>3, QueriesStep, Zenon
    <3> QED BY <3>2, <2>3 DEF QueryInv
  <2>7. CASE HotReaches(p, s.wanted)
    <3> DEFINE hot == Upto(p)
               t == [s EXCEPT !.pc = "rows", !.hot = hot, !.anchor = <<p.head, p.hash>>]
    <3>1. q' = [q EXCEPT ![c] = t]
      BY <2>4, <2>7, Zenon
    <3>2. hot \in Ranges /\ hot.start = s.wanted.start /\ hot.end = Least(s.wanted.end, p.head)
      BY <2>1, <2>5, <2>7, HotSegment, Zenon
    <3>3. <<p.head, p.hash>> \in Nat \X {0, 1, 2} /\ p.head \in Nat
      BY <2>5 DEF FollowRow
    <3>4. hot.end <= s.wanted.end
      <4>1. s.wanted.end \in Nat
        BY <2>1, RangesType
      <4> QED BY <3>2, <3>3, <4>1, LeastBelow, Zenon
    <3> HIDE DEF hot, s
    <3>5. /\ t \in QueryState /\ t.pc = "rows" /\ t.req = s.req /\ t.heads = s.heads
          /\ t.durable = s.durable /\ t.wanted = s.wanted /\ t.fillEnd = s.fillEnd
          /\ t.todo = s.todo /\ t.jobs = s.jobs /\ t.served = s.served /\ t.hot = hot
      BY <3>2, <3>3, <1>2, Zenon DEF QueryState, Pc, MaybeRange
    <3> HIDE DEF t
    <3>6. PlanOK(t, Below(latest), jobs)
      BY <3>5, <1>2 DEF PlanOK
    <3>7. ServedOK(t, coverage)
      BY <3>2, <3>4, <3>5, <1>1, <1>2, <1>5, Zenon DEF ServedOK
    <3>8. QueriesInv'
      BY <3>1, <3>5, <3>6, <3>7, <1>1, QueriesStep, Zenon
    <3> QED BY <3>8, <2>3 DEF QueryInv
  <2> QED BY <2>6, <2>7
<1> QED BY <1>4, <1>5

LEMMA AnswerOK ==
  ASSUME QueryInv, NEW c \in Client, Answer(c)
  PROVE  QueryInv'
<1>1. /\ fork' = fork /\ latest' = latest /\ heads' = heads /\ cached' = cached
      /\ coverage' = coverage /\ rows' = rows /\ progress' = progress /\ jobs' = jobs
      /\ window' = window /\ q' = [q EXCEPT ![c] = At("idle")]
  BY DEF Answer, chainVars, dataVars, followVars
<1> QED BY <1>1, Heights, IdleOK, QueryStep, Zenon

-----------------------------------------------------------------------------
(* Theorems *)

LEMMA QueryNext ==
  ASSUME QueryInv, [Next]_vars
  PROVE  QueryInv'
<1>1. CASE ChainStep
  BY <1>1, GrowOK, ReorgOK DEF ChainStep
<1>2. CASE LeaderStep
  BY <1>2, PublishOK, UnfollowOK, PruneOK, PullOK, PromoteOK, RollBackOK, Zenon DEF LeaderStep
<1>3. CASE Expire
  BY <1>3, ExpireOK
<1>4. CASE FillStep
  BY <1>4, FillFailsOK, FillOK, Zenon DEF FillStep
<1>5. CASE WindowElapses
  BY <1>5, WindowElapsesOK
<1>6. CASE Watch
  BY <1>6, WatchOK
<1>7. ASSUME NEW chunk \in Others, Other(chunk)
      PROVE  QueryInv'
  BY <1>7, OtherOK
<1>8. ASSUME NEW c \in Client, Poll(c)
      PROVE  QueryInv'
  BY <1>8, StartOK DEF Poll
<1>9. ASSUME NEW c \in Client, Proceed(c)
      PROVE  QueryInv'
  <2>1. CASE \E how \in {"write", "fresh", "full"} : Attach(c, how)
    BY <2>1, AttachOK
  <2>2. CASE Plan(c) \/ Charge(c) \/ Enqueue(c)
    BY <2>2, PlanStepOK, ChargeOK, EnqueueOK
  <2>3. CASE \E late \in BOOLEAN : WaitDone(c, late, FALSE) \/ Promotion(c, late)
    BY <2>3, WaitDoneOK, PromotionOK, Zenon
  <2>4. CASE Reread(c) \/ Hot(c) \/ Answer(c)
    BY <2>4, RereadOK, HotOK, AnswerOK
  <2> QED BY <1>9, <2>1, <2>2, <2>3, <2>4, Zenon DEF Proceed
<1>10. ASSUME NEW c \in Client, WaitFails(c)
       PROVE  QueryInv'
  BY <1>10, WaitDoneOK, PromotionFailsOK, Zenon DEF WaitFails
<1>11. CASE UNCHANGED vars
  <2>1. HeadsInv' /\ DataInv' /\ ProgressInv' /\ JobsInv' /\ QueriesInv'
    BY <1>11 DEF vars, chainVars, dataVars, followVars, QueryInv, HeadsInv, DataInv, ProgressInv,
                 JobsInv, QueriesInv
  <2> QED BY <2>1, Zenon DEF QueryInv
<1> QED BY <1>1, <1>2, <1>3, <1>4, <1>5, <1>6, <1>7, <1>8, <1>9, <1>10, <1>11 DEF Next

(* The inductive invariant holds. *)
LEMMA QueryInvariant == Spec => []QueryInv
<1>1. Init => QueryInv
  BY QueryInit
<1>2. QueryInv /\ [Next]_vars => QueryInv'
  BY QueryNext
<1> QED BY <1>1, <1>2, PTL DEF Spec

(* Type correctness: in particular a query waits only for jobs that are     *)
(* queued or running, so the end of a job always reaches who waits for it.  *)
THEOREM QueryTypeCorrect == Spec => []TypeOK
<1>1. QueryInv => TypeOK
  <2>1. SUFFICES ASSUME QueryInv PROVE TypeOK
    OBVIOUS
  <2>2. Cardinality(progress) <= 1
    <3>1. CASE progress = {}
      BY <3>1, FS_EmptySet
    <3>2. CASE progress # {}
      <4>1. PICK p : progress = {p}
        BY <2>1, <3>2 DEF QueryInv, ProgressInv
      <4> QED BY <4>1, FS_Singleton
    <3> QED BY <3>1, <3>2
  <2>3. \A c \in Client : q[c].jobs \subseteq jobs
    BY <2>1, QueryIs DEF PlanOK
  <2>4. /\ fork \in 1..NoFork /\ latest \in Block
        /\ heads \in [latest : Block, safe : Block] /\ cached \in [latest : Block, safe : Block]
    BY <2>1, Zenon DEF QueryInv, HeadsInv, HeadsType
  <2>5. coverage \subseteq 0..Below(latest) /\ rows \subseteq Block \X {0, 1}
    BY <2>1, Zenon DEF QueryInv, DataInv
  <2>6. coverage \subseteq Block
    <3>1. 0..Below(latest) \subseteq Block
      BY <2>1, Heights
    <3> QED BY <2>5, <3>1, Zenon
  <2>7. jobs \subseteq Ranges /\ window \in Nat
    BY <2>1, Zenon DEF QueryInv, JobsInv
  <2> QED BY <2>2, <2>3, <2>4, <2>5, <2>6, <2>7, Zenon DEF TypeOK
<1> QED BY <1>1, QueryInvariant, PTL

(* For any number of clients, requests, chunk size and allowance, the fills *)
(* charged in a minute stay within the allowance or one chunk (try_take of  *)
(* FillBudget): a planned chunk is never longer than a cell.                *)
THEOREM BudgetAlwaysHolds == Spec => []BudgetHolds
<1>1. QueryInv => BudgetHolds
  BY DEF QueryInv, JobsInv, BudgetHolds
<1> QED BY <1>1, QueryInvariant, PTL

(* A client that continues at next_start loses no block and reads none      *)
(* twice, for any requests, heads and coverage: what QueryEngine::query     *)
(* serves is exactly the part of the request below next_start.              *)
THEOREM ResumeNeverLoses == Spec => []ResumeLosesNothing
BY ResumeHolds, QueryInvariant, PTL

(* What is served as durable is exact, for any number of clients, any       *)
(* requests, chain, lag and chunk size, and whatever fills, the leader,     *)
(* retention and other queries do between the reads of one query.           *)
THEOREM DurableAnswersExact == Spec => DurableAnswerExact
<1>1. QueryInv => [\A c \in Client : Answers(c) /\ Served(q[c]) # NoRange =>
                     \A n \in BlocksOf(Served(q[c])) :
                       n <= q[c].heads.safe => RowsAt(q[c], n) = CanonicalRows({n})]_vars
  BY ServedExact, Zenon
<1> QED BY <1>1, QueryInvariant, PTL DEF DurableAnswerExact

(* QueryEngine::hot takes the hot segment and its anchor from one read of   *)
(* the follow row; at that moment, if the anchor is on the chain, every     *)
(* block of the segment has exactly the chain's row.                        *)
AnchorTrueWhenTaken ==
  [][\A c \in Client :
       Hot(c) /\ q'[c].hot # NoRange /\ q'[c].anchor[2] = Canonical(q'[c].anchor[1]) =>
         \A n \in BlocksOf(q'[c].hot) : Exact(n, rows, fork)]_vars

(* An anchor vouches for its hot segment when it is taken, for any number   *)
(* of clients and any requests: below the promotion the rows are covered,   *)
(* above it they were pulled from the chain that the follow head is on.     *)
THEOREM AnchorsTrueWhenTaken == Spec => AnchorTrueWhenTaken
<1>1. QueryInv =>
        [\A c \in Client :
           Hot(c) /\ q'[c].hot # NoRange /\ q'[c].anchor[2] = Canonical(q'[c].anchor[1]) =>
             \A n \in BlocksOf(q'[c].hot) : Exact(n, rows, fork)]_vars
  BY HotExact
<1> QED BY <1>1, QueryInvariant, PTL DEF AnchorTrueWhenTaken

=============================================================================
