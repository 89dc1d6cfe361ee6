----------------------------- MODULE BatchGroups ----------------------------
(***************************************************************************)
(* batch_groups of crates/engine/src/worker.rs: the members of a fill that *)
(* lack the same blocks are cut, in one pass, into groups that each fit    *)
(* one merged eth_getLogs.  fetch_logs then asks LogSelector::batch for    *)
(* the query of each group and records coverage for every member of it.    *)
(***************************************************************************)
EXTENDS LogSelector, Sequences

CONSTANTS Pool,          \* the selectors members are drawn from
          MaxMembers,    \* bound on the length of the member list
          MaxAddresses   \* chain.settings.max_addresses_per_query

ASSUME BatchGroupsAssumption ==
  /\ Pool \subseteq Selector
  /\ MaxMembers \in Nat
  /\ MaxAddresses \in Nat

VARIABLES seen,    \* the members the loop has passed
          groups   \* the groups so far, the last one still growing

vars == <<seen, groups>>

TypeOK == seen \subseteq Pool /\ groups \in Seq(SUBSET Pool)

Init == seen = {} /\ groups = <<>>

LastGroup == groups[Len(groups)]

(* Mutant: the trial member is not popped when the group no longer fits. *)
AddMemberUnchecked(m) ==
  /\ groups' = IF groups # <<>>
               THEN [groups EXCEPT ![Len(groups)] = @ \cup {m}]
               ELSE <<{m}>>
  /\ seen' = seen \cup {m}

(* One turn of the loop: the member joins the last group if the two still   *)
(* make one query, and otherwise opens a new group.  Members are distinct   *)
(* selectors, since the selectors table holds each once.                    *)
AddMember(m) ==
  /\ groups' = IF groups # <<>> /\ Batchable(LastGroup \cup {m}, MaxAddresses)
               THEN [groups EXCEPT ![Len(groups)] = @ \cup {m}]
               ELSE Append(groups, {m})
  /\ seen' = seen \cup {m}

Next == \E m \in Pool \ seen : Cardinality(seen) < MaxMembers /\ AddMember(m)

Spec == Init /\ [][Next]_vars

-----------------------------------------------------------------------------
(* Properties *)

(* Every group has a merged query, so the fallback of fetch_logs to the     *)
(* query of the group's first member, which would record coverage the       *)
(* others never got, is dead code.  Every member is in one group only.      *)
GroupsFit ==
  /\ \A i \in DOMAIN groups : groups[i] # {} /\ Batchable(groups[i], MaxAddresses)
  /\ \A m \in seen : \E i \in DOMAIN groups : m \in groups[i]
  /\ \A i, k \in DOMAIN groups : groups[i] \cap groups[k] # {} => i = k

(* The query of a group returns every log that any member of it asks for.   *)
GroupsMissNothing ==
  \A i \in DOMAIN groups : \A m \in groups[i] : \A log \in LogKey :
    Matches(m, log) => Matches(BatchSelector(groups[i]), log)

=============================================================================
