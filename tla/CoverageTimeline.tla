-------------------------- MODULE CoverageTimeline --------------------------
(***************************************************************************)
(* What a selector's coverage promises: each block is uncovered, safe or   *)
(* finalized, and recording a range raises its blocks and touches no       *)
(* others.                                                                 *)
(***************************************************************************)
EXTENDS Integers

CONSTANTS Block, Recordable   \* blocks, and the sets of blocks one add names

VARIABLE timeline   \* block -> "none", "safe" or "finalized"

Stronger(x, y) ==
  IF "finalized" \in {x, y} THEN "finalized"
  ELSE IF "safe" \in {x, y} THEN "safe" ELSE "none"

Init == timeline = [b \in Block |-> "none"]

Add(blocks, finality) ==
  timeline' = [b \in Block |-> IF b \in blocks THEN Stronger(timeline[b], finality)
                                               ELSE timeline[b]]

Next == \E blocks \in Recordable, finality \in {"safe", "finalized"} : Add(blocks, finality)

Spec == Init /\ [][Next]_timeline

=============================================================================
