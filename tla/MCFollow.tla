------------------------------ MODULE MCFollow ------------------------------
(***************************************************************************)
(* Small instances of Follow.  Logs alternate over heights and forks, so a *)
(* fork adds a log where there was none and removes one where there was.   *)
(***************************************************************************)
EXTENDS Follow

CONSTANTS a, b, x, y, l1, none

Alternating == {<<k, n, v>> \in Kind \X Height \X Hash : (n + v) % 2 = 1}

Dense == {<<k, n, v>> \in Kind \X Height \X Hash : k = x \/ (n + v) % 2 = 1}

One == [s \in LogSel |-> {x}]

Overlapping == [s \in LogSel |-> IF s = a THEN {x} ELSE {x, y}]

HeaderFill == {<<"blocks", 1>>}

HotQuery == {<<a, 2>>}

=============================================================================
