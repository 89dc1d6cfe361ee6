------------------------------- MODULE MCSdk --------------------------------
(* A stream of each finality, one with an end, and the tail loop. *)
EXTENDS Sdk

MCProgram ==
  {[kind |-> "follow", finality |-> "durable_only", end |-> 0, limit |-> 1],
   [kind |-> "follow", finality |-> "safe_to_latest", end |-> 0, limit |-> 1],
   [kind |-> "follow", finality |-> "latest_only", end |-> 3, limit |-> 1],
   [kind |-> "tail", finality |-> "latest_only", end |-> 0, limit |-> MaxEnd]}

=============================================================================
