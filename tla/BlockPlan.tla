------------------------------ MODULE BlockPlan -----------------------------
(***************************************************************************)
(* Block ranges and the planning of fills: crates/core/src/range.rs,       *)
(* crates/engine/src/plan.rs and longest_covered_prefix and                *)
(* intersect_ranges of crates/store/src/coverage.rs.  Ranges are inclusive *)
(* records; NoRange stands for None and for a rejected BlockRange::new.    *)
(* u64 arithmetic saturates at MaxU64 where the code's does.               *)
(***************************************************************************)
EXTENDS Integers, Sequences, FiniteSets, FiniteSetsExt

CONSTANTS MaxEnd,   \* BlockRange::MAX_END
          MaxU64,   \* u64::MAX
          NoRange

ASSUME BlockPlanAssumption ==
  /\ MaxEnd \in Nat /\ MaxU64 \in Nat /\ MaxEnd < MaxU64
  /\ NoRange \notin [start : Nat, end : Nat]

Block == 0..MaxEnd

NewRange(start, end) ==
  IF start > end \/ end > MaxEnd THEN NoRange ELSE [start |-> start, end |-> end]

Ranges == {NewRange(s, e) : s, e \in Block} \ {NoRange}

BlocksOf(range) == range.start..range.end

Least(x, y) == IF x <= y THEN x ELSE y
Greatest(x, y) == IF x >= y THEN x ELSE y
Saturate(n) == IF n < 0 THEN 0 ELSE Least(n, MaxU64)

(* Keeps what BlockRange::new accepts. *)
Valid(range) == IF range = NoRange THEN <<>> ELSE <<range>>

(* Iterator::flat_map: the sequences one after the other. *)
Flattened(seqs) ==
  LET flat[i \in 0..Len(seqs)] == IF i = 0 THEN <<>> ELSE flat[i - 1] \o seqs[i]
  IN flat[Len(seqs)]

(* A finite set of numbers in ascending order. *)
Ascending(S) ==
  [i \in 1..Cardinality(S) |-> CHOOSE x \in S : Cardinality({y \in S : y < x}) = i - 1]

Intersect(x, y) == NewRange(Greatest(x.start, y.start), Least(x.end, y.end))

-----------------------------------------------------------------------------
(* Grid cells *)

CellEnd(cell, chunk) ==
  Least(Saturate(Saturate(Saturate(cell + 1) * chunk) - 1), MaxEnd)

Cell(cell, chunk) ==
  [start |-> Saturate(cell * chunk), end |-> CellEnd(cell, chunk)]

(* The loop stops at the first cell that reaches the end of the range. *)
AlignChunks(range, chunk) ==
  LET first == range.start \div chunk
      last  == Min({k \in first..(first + MaxEnd) : CellEnd(k, chunk) >= range.end})
  IN [i \in 1..(last - first + 1) |-> Cell(first + i - 1, chunk)]

GridSpan(range, chunk, safe) ==
  NewRange((range.start \div chunk) * chunk,
           Least(Least(Saturate(Saturate(Saturate((range.end \div chunk) + 1) * chunk) - 1),
                       safe),
                 MaxEnd))

-----------------------------------------------------------------------------
(* Gaps and jobs *)

(* Mutant: the gap in front of a span includes its first block. *)
PassIntoSpan(acc, hit) ==
  [gaps |-> IF hit.start > acc.next THEN acc.gaps \o Valid(NewRange(acc.next, hit.start))
            ELSE acc.gaps,
   next |-> Greatest(acc.next, Saturate(hit.end + 1))]

(* One covered span passed: the gap in front of it, and where to go on. *)
Pass(acc, hit) ==
  [gaps |-> IF hit.start > acc.next THEN acc.gaps \o Valid(NewRange(acc.next, hit.start - 1))
            ELSE acc.gaps,
   next |-> Greatest(acc.next, Saturate(hit.end + 1))]

Uncovered(range, covered) ==
  LET Hit(i) == Intersect(covered[i], range)
      walk[i \in 0..Len(covered)] ==
        IF i = 0 THEN [gaps |-> <<>>, next |-> range.start]
        ELSE IF Hit(i) = NoRange THEN walk[i - 1]
        ELSE Pass(walk[i - 1], Hit(i))
      end == walk[Len(covered)]
  IN IF end.next <= range.end THEN end.gaps \o Valid(NewRange(end.next, range.end))
     ELSE end.gaps

(* A cell ended at safe, a repeated one once. *)
PushCell(out, cell, safe) ==
  LET clipped == NewRange(cell.start, Least(cell.end, safe))
  IN IF clipped = NoRange \/ (out # <<>> /\ out[Len(out)] = clipped)
     THEN out ELSE Append(out, clipped)

(* The cells of all gaps in order. *)
FillChunks(span, covered, chunk, safe) ==
  LET gaps  == Uncovered(span, covered)
      cells == Flattened([i \in DOMAIN gaps |-> AlignChunks(gaps[i], chunk)])
      out[i \in 0..Len(cells)] ==
        IF i = 0 THEN <<>> ELSE PushCell(out[i - 1], cells[i], safe)
  IN out[Len(cells)]

-----------------------------------------------------------------------------
(* What a query serves *)

(* The maximal runs of a set of blocks, in order: a PostgreSQL multirange. *)
Multirange(blocks) ==
  LET starts == Ascending({b \in blocks : b - 1 \notin blocks})
      EndOf(s) == Min({b \in blocks : b >= s /\ b + 1 \notin blocks})
  IN [i \in DOMAIN starts |-> [start |-> starts[i], end |-> EndOf(starts[i])]]

(* Mutant: the first covered range is taken for the prefix. *)
PrefixFromFirst(covered, query) ==
  IF covered = <<>> THEN NoRange
  ELSE NewRange(query.start, Least(covered[1].end, query.end))

LongestCoveredPrefix(covered, query) ==
  LET hits == {i \in DOMAIN covered : query.start \in BlocksOf(covered[i])}
  IN IF hits = {} THEN NoRange
     ELSE NewRange(query.start, Least(covered[Min(hits)].end, query.end))

IntersectRanges(left, right) ==
  Flattened([i \in DOMAIN left |->
    Flattened([k \in DOMAIN right |-> Valid(Intersect(left[i], right[k]))])])

DurablePart(range, safe) == NewRange(range.start, Least(range.end, safe))

Segment(start, end, finality) == [start |-> start, end |-> end, finality |-> finality]

(* Mutant: a range that starts above the finalized head is cut there too. *)
SegmentsFromFinalized(served, heads) ==
  (IF served.start <= heads.finalized
   THEN <<Segment(served.start, Least(served.end, heads.finalized), "finalized")>> ELSE <<>>)
  \o
  (IF served.end > heads.finalized
   THEN <<Segment(heads.finalized + 1, served.end, "safe")>> ELSE <<>>)

DurableSegments(served, heads) ==
  (IF served.start <= heads.finalized
   THEN <<Segment(served.start, Least(served.end, heads.finalized), "finalized")>> ELSE <<>>)
  \o
  (IF served.end > heads.finalized
   THEN <<Segment(Greatest(served.start, heads.finalized + 1), served.end, "safe")>>
   ELSE <<>>)

(* Mutant: one finalized block makes the whole fill finalized. *)
FillFinalityOfStart(blocks, heads) ==
  IF blocks.start <= heads.finalized THEN "finalized" ELSE "safe"

FillFinality(blocks, heads) ==
  IF blocks.end <= heads.finalized THEN "finalized" ELSE "safe"

RowFinality(block, heads) ==
  IF block <= heads.finalized THEN "finalized"
  ELSE IF block <= heads.safe THEN "safe" ELSE "unsafe"

=============================================================================
