----------------------------- MODULE MCLogFetch -----------------------------
(* Three addresses of which a call takes two, two topic positions, filters  *)
(* that agree, overlap or differ, and two gaps, the first of three blocks.  *)
EXTENDS LogFetch

CONSTANTS a, b, c, t, u

MCAddress == {a, b, c}
MCTopic == {t, u}
MCPositions == {0, 1}

Of(addresses, first, second) ==
  [addresses |-> addresses, topics |-> [p \in MCPositions |-> IF p = 0 THEN first ELSE second]]

MCPool == {Of({a}, OneOf({t}), OneOf({t})), Of({b}, OneOf({u}), OneOf({u})),
           Of({b, c}, OneOf({t}), OneOf({t})), Of({c}, AnyTopic, OneOf({t})),
           Of({a, b, c}, AnyTopic, AnyTopic), Of({a, b, c}, OneOf({t, u}), OneOf({u})),
           Of({}, OneOf({t}), AnyTopic), Of({}, OneOf({u}), OneOf({t}))}

MCGaps == <<[start |-> 1, end |-> 3], [start |-> 5, end |-> 5]>>

MCLogs == {[block |-> n, key |-> [address |-> x, topics |-> [p \in MCPositions |-> y]]] :
             n \in 1..5, x \in MCAddress, y \in MCTopic}

=============================================================================
