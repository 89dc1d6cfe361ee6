------------------------------- MODULE MCQuery ------------------------------
(* Instances of Query. *)
EXTENDS Query

CONSTANTS c1

Ask(start, end, finality) ==
  [range |-> NewRange(start, end), finality |-> finality]

MCRequest ==
  [c \in {c1} |-> {Ask(0, MaxEnd - 2, "durable_only"), Ask(1, MaxEnd, "safe_to_latest"),
                   Ask(1, MaxEnd, "latest_only"), Ask(MaxEnd, MaxEnd, "latest_only")}]

MCOthers == {NewRange(0, 1)}

=============================================================================
