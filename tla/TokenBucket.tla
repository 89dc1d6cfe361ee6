---------------------------- MODULE TokenBucket ----------------------------
(* What the gateway's budget promises the provider: a bucket of at most     *)
(* Burst tokens, and nobody gets to a contact without taking one.           *)
EXTENDS Integers

CONSTANTS Caller, Burst

VARIABLES avail,    \* tokens there are
          spent     \* callers that hold a token for the contact they make

vars == <<avail, spent>>

Init == avail = Burst /\ spent = {}

Spend(c) ==
  /\ c \notin spent /\ avail > 0
  /\ avail' = avail - 1
  /\ spent' = spent \cup {c}

Earn ==
  /\ avail < Burst
  /\ avail' = avail + 1
  /\ UNCHANGED spent

Contacted(c) ==
  /\ c \in spent
  /\ spent' = spent \ {c}
  /\ UNCHANGED avail

Next == Earn \/ \E c \in Caller : Spend(c) \/ Contacted(c)

Spec == Init /\ [][Next]_vars

=============================================================================
