----------------------------- MODULE MCGateway -----------------------------
(* A head call and two fills, one of which waits without a deadline. *)
EXTENDS Gateway

CONSTANTS head, fill, backfill

MCRank == [c \in Caller |-> IF c = head THEN 0 ELSE 3]

=============================================================================
