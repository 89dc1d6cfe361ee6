------------------------------ MODULE Coverage ------------------------------
(***************************************************************************)
(* The coverage rows of one selector (crates/store/src/coverage.rs) and    *)
(* the plans and answers computed from them.  Fills and promotions add     *)
(* ranges while the chain heads move; each add reads every row, merges the *)
(* range in and writes the rows back under the selector's lock, so it is   *)
(* one action.  Row ends are exclusive, as in int8range.                   *)
(*                                                                         *)
(* A tick of the leader reads heads, promotes by them and publishes them   *)
(* in chain_heads only afterwards, or never, so promotions run ahead of    *)
(* the heads that queries and fills see.                                   *)
(***************************************************************************)
EXTENDS BlockPlan

CONSTANT Chunk   \* chunk sizes a chain may be configured with

ASSUME CoverageAssumption == Chunk \subseteq Nat \ {0}

VARIABLES spans,   \* the coverage rows in block order
          read,    \* the highest safe and finalized heads a tick has read
          heads    \* chain_heads: safe and finalized

vars == <<spans, read, heads>>

Span == [start : 0..(MaxEnd + 1), end : 0..(MaxEnd + 1), finality : {"safe", "finalized"}]

Stronger(x, y) ==
  IF "finalized" \in {x, y} THEN "finalized"
  ELSE IF "safe" \in {x, y} THEN "safe" ELSE "none"

FinalityAt(existing, b) ==
  LET holds == {i \in DOMAIN existing : existing[i].start <= b /\ b < existing[i].end}
  IN IF holds = {} THEN "none" ELSE existing[Min(holds)].finality

(* Mutant: touching rows of one finality are not joined. *)
PushApart(out, a, b, fin) ==
  IF fin = "none" THEN out ELSE Append(out, [start |-> a, end |-> b, finality |-> fin])

(* The window from a up to b follows the rows in out: equal neighbours are  *)
(* joined.                                                                  *)
PushWindow(out, a, b, fin) ==
  IF fin = "none" THEN out
  ELSE IF out # <<>> /\ out[Len(out)].end = a /\ out[Len(out)].finality = fin
  THEN [out EXCEPT ![Len(out)].end = b]
  ELSE Append(out, [start |-> a, end |-> b, finality |-> fin])

(* Mutant: the new finality always wins. *)
MergedWins(existing, start, end, finality, b) ==
  IF start <= b /\ b < end THEN finality ELSE FinalityAt(existing, b)

(* What the rows and the new range together give a block. *)
MergedAt(existing, start, end, finality, b) ==
  IF start <= b /\ b < end THEN Stronger(FinalityAt(existing, b), finality)
  ELSE FinalityAt(existing, b)

(* merge_spans: between two neighbouring bounds nothing changes, so each    *)
(* window gets one finality.                                                *)
MergeSpans(existing, start, end, finality) ==
  LET bounds == Ascending({start, end} \cup {existing[i].start : i \in DOMAIN existing}
                                       \cup {existing[i].end : i \in DOMAIN existing})
      out[i \in 0..(Len(bounds) - 1)] ==
        IF i = 0 THEN <<>>
        ELSE PushWindow(out[i - 1], bounds[i], bounds[i + 1],
                        MergedAt(existing, start, end, finality, bounds[i]))
  IN out[Len(bounds) - 1]

-----------------------------------------------------------------------------

NoHeads == [safe |-> 0, finalized |-> 0]

Init == spans = <<>> /\ read = NoHeads /\ heads = NoHeads

AddCoverage(range, finality) ==
  /\ spans' = MergeSpans(spans, range.start, range.end + 1, finality)
  /\ UNCHANGED <<read, heads>>

(* A fill commits a part of its chunk.  The finality is that of the whole   *)
(* chunk under heads that may have moved since.                             *)
Fill(chunk, range, finalized) ==
  /\ BlocksOf(range) \subseteq BlocksOf(chunk)
  /\ AddCoverage(range, FillFinality(chunk, [heads EXCEPT !.finalized = finalized]))

(* The finalizer promotes blocks up to the safe head its tick has read and  *)
(* raises those up to the finalized one; the tick publishes them later.     *)
Promote(range, finality) ==
  /\ range.end <= (IF finality = "finalized" THEN read.finalized ELSE read.safe)
  /\ AddCoverage(range, finality)

Raised(h, safe, finalized) ==
  [safe |-> Greatest(h.safe, safe), finalized |-> Greatest(h.finalized, finalized)]

(* A tick begins.  Its heads may lie below those an earlier one has read. *)
ReadHeads(safe, finalized) ==
  /\ finalized <= safe
  /\ read' = Raised(read, safe, finalized)
  /\ read' # read
  /\ UNCHANGED <<spans, heads>>

(* upsert_heads, with the heads of some tick: neither one moves back.  A    *)
(* tick that crashes, or whose upsert fails, never gets here.               *)
Publish(safe, finalized) ==
  /\ finalized <= safe /\ safe <= read.safe /\ finalized <= read.finalized
  /\ heads' = Raised(heads, safe, finalized)
  /\ heads' # heads
  /\ UNCHANGED <<spans, read>>

Next ==
  \/ \E chunk, range \in {r \in Ranges : r.end <= heads.safe},
        finalized \in 0..heads.finalized : Fill(chunk, range, finalized)
  \/ \E range \in Ranges, finality \in {"safe", "finalized"} : Promote(range, finality)
  \/ \E safe, finalized \in Block : ReadHeads(safe, finalized) \/ Publish(safe, finalized)

Spec == Init /\ [][Next]_vars

-----------------------------------------------------------------------------
(* What the queries of coverage return *)

CoveredBlocks == {b \in Block : FinalityAt(spans, b) # "none"}

Covered(range) == Multirange(CoveredBlocks \cap BlocksOf(range))

(* The chunks fill_durable plans for a durable range when it may fill up to *)
(* fillEnd.                                                                 *)
Planned(durable, fillEnd, chunk) ==
  LET fill == IF durable.start <= fillEnd THEN GridSpan(durable, chunk, fillEnd) ELSE NoRange
      span == [start |-> fill.start, end |-> Greatest(fill.end, durable.end)]
  IN IF fill = NoRange THEN <<>> ELSE FillChunks(fill, Covered(span), chunk, fillEnd)

-----------------------------------------------------------------------------
(* Properties *)

(* No sequence of adds makes rows overlap, which the exclusion constraint   *)
(* would reject and so fail the fill, or leaves rows that could be one.     *)
SpansCanonical ==
  /\ spans \in Seq(Span)
  /\ \A i \in DOMAIN spans : spans[i].start < spans[i].end
  /\ \A i \in 1..(Len(spans) - 1) :
       \/ spans[i].end < spans[i + 1].start
       \/ spans[i].end = spans[i + 1].start /\ spans[i].finality # spans[i + 1].finality

Timeline == INSTANCE CoverageTimeline
  WITH timeline <- [b \in Block |-> FinalityAt(spans, b)],
       Recordable <- {BlocksOf(r) : r \in Ranges}

(* Every add is a pointwise raise: no block outside the range changes, none *)
(* loses its coverage, and a finalized block is not downgraded to safe.     *)
TimelineSpec == Timeline!Spec

(* Coverage never claims more than a tick has read of the chain: nothing    *)
(* above the highest safe head, and nothing finalized above the highest     *)
(* finalized one, although a fill decides its finality from published heads *)
(* that may be stale by the time it commits and promotions run ahead of     *)
(* what is published.                                                       *)
CoverageWithinRead ==
  \A i \in DOMAIN spans :
    spans[i].end - 1 <= (IF spans[i].finality = "finalized" THEN read.finalized ELSE read.safe)

(* A plan makes progress and shares work: the first block a query misses    *)
(* below fillEnd lies in a planned chunk, every chunk is a grid cell ended  *)
(* at fillEnd that lacks a block, none is planned twice, and two queries of *)
(* one cell plan the very same chunk, so that their jobs are one.           *)
PlansReachGaps ==
  \A durable \in Ranges, fillEnd \in Block, chunk \in Chunk :
    LET plan == Planned(durable, fillEnd, chunk)
    IN /\ \A b \in BlocksOf(durable) \ CoveredBlocks :
            b <= fillEnd => \E i \in DOMAIN plan : b \in BlocksOf(plan[i])
       /\ \A i \in DOMAIN plan :
            /\ BlocksOf(plan[i]) \ CoveredBlocks # {}
            /\ plan[i].start % chunk = 0
            /\ plan[i].end = Least(Least(plan[i].start + chunk - 1, fillEnd), MaxEnd)
       /\ \A i, k \in DOMAIN plan : i < k => plan[i].end < plan[k].start

(* What is served is the longest prefix on which every address of the query *)
(* is covered; "other" is the coverage of a second address.                 *)
PrefixIsLongest ==
  \A query \in Ranges, other \in SUBSET Block :
    LET covered == IntersectRanges(Covered(query), Multirange(other \cap BlocksOf(query)))
        prefix  == LongestCoveredPrefix(covered, query)
        both    == CoveredBlocks \cap other
    IN IF query.start \notin both THEN prefix = NoRange
       ELSE /\ prefix.start = query.start
            /\ BlocksOf(prefix) \subseteq both \cap BlocksOf(query)
            /\ prefix.end = query.end \/ prefix.end + 1 \notin both

(* The segments of an answer partition what is served, and each carries the *)
(* finality its blocks have.                                                *)
SegmentsPartition ==
  \A served \in {r \in Ranges : r.end <= heads.safe} :
    LET segments == DurableSegments(served, heads)
    IN /\ \A b \in BlocksOf(served) :
            Cardinality({i \in DOMAIN segments : b \in BlocksOf(segments[i])}) = 1
       /\ \A i \in DOMAIN segments : \A b \in BlocksOf(segments[i]) :
            b \in BlocksOf(served) /\ segments[i].finality = RowFinality(b, heads)

=============================================================================
