----------------------------- MODULE LogSelector -----------------------------
(***************************************************************************)
(* The evm.logs selector algebra of crates/core/src/selector.rs: which     *)
(* logs a selector matches, when one selector covers another, how a        *)
(* selector splits by address, and the merged selector of one batched      *)
(* eth_getLogs.                                                            *)
(*                                                                         *)
(* Addresses and topics are abstract values.  The code has four topic      *)
(* positions; they are the constant Positions here because positions 1..3  *)
(* are treated alike, so a run needs only position 0 and one other.        *)
(***************************************************************************)
EXTENDS Integers, FiniteSets

CONSTANTS Address,    \* contract addresses
          Topic,      \* 32-byte topic values
          NoTopic,    \* "this log has no topic at that position"
          Positions   \* topic positions, 0..3 in the code

ASSUME PositionsAssumption == 0 \in Positions

ASSUME NoTopicAssumption == NoTopic \notin Topic

-----------------------------------------------------------------------------
(* Topic filters: Any, or a non-empty set of accepted topics. *)

AnyTopic == [any |-> TRUE, set |-> {}]

OneOf(topics) == [any |-> FALSE, set |-> topics]

TopicFilter == {AnyTopic} \cup {OneOf(T) : T \in (SUBSET Topic) \ {{}}}

FilterCovers(wide, narrow) ==
  wide.any \/ (~narrow.any /\ narrow.set \subseteq wide.set)

FilterMatches(filter, topic) ==
  filter.any \/ (topic # NoTopic /\ topic \in filter.set)

-----------------------------------------------------------------------------
(* Selectors.  An empty address set means any address. *)

Selector == [addresses : SUBSET Address, topics : [Positions -> TopicFilter]]

(* What the selector algebra looks at in a log. *)
LogKey == [address : Address, topics : [Positions -> Topic \cup {NoTopic}]]

Matches(selector, log) ==
  /\ selector.addresses = {} \/ log.address \in selector.addresses
  /\ \A p \in Positions : FilterMatches(selector.topics[p], log.topics[p])

CoversAddresses(wide, narrow) ==
  \/ wide.addresses = {}
  \/ narrow.addresses # {} /\ narrow.addresses \subseteq wide.addresses

Covers(wide, narrow) ==
  /\ CoversAddresses(wide, narrow)
  /\ \A p \in Positions : FilterCovers(wide.topics[p], narrow.topics[p])

(* One selector per address; an any-address selector is its only part. *)
SplitByAddress(selector) ==
  IF selector.addresses = {}
  THEN {selector}
  ELSE {[addresses |-> {a}, topics |-> selector.topics] : a \in selector.addresses}

-----------------------------------------------------------------------------
(* The merged selector of a batch.  The code takes a slice without          *)
(* duplicates and its result does not depend on the order, so a batch is a  *)
(* non-empty finite set of members here.  "Batchable" says the code returns *)
(* Some, "BatchSelector" what it then returns.                              *)

AllAddresses(members) == UNION {m.addresses : m \in members}

BatchableAddresses(members, maxAddresses) ==
  \/ \A m \in members : m.addresses = {}
  \/ /\ \A m \in members : m.addresses # {}
     /\ Cardinality(AllAddresses(members)) <= maxAddresses

Batchable(members, maxAddresses) ==
  \/ \E m \in members : members = {m}
  \/ BatchableAddresses(members, maxAddresses)

(* Mutant: the first member's filter is kept where the members disagree. *)
BatchTopicOfFirst(members, p) ==
  IF p = 0
  THEN IF \A m \in members : ~m.topics[0].any
       THEN OneOf(UNION {m.topics[0].set : m \in members})
       ELSE AnyTopic
  ELSE (CHOOSE m \in members : TRUE).topics[p]

BatchTopic(members, p) ==
  IF p = 0
  THEN IF \A m \in members : ~m.topics[0].any
       THEN OneOf(UNION {m.topics[0].set : m \in members})
       ELSE AnyTopic
  ELSE IF \E f \in TopicFilter : \A m \in members : m.topics[p] = f
       THEN CHOOSE f \in TopicFilter : \A m \in members : m.topics[p] = f
       ELSE AnyTopic

BatchSelector(members) ==
  IF \E m \in members : members = {m}
  THEN CHOOSE m \in members : members = {m}
  ELSE [addresses |-> AllAddresses(members),
        topics    |-> [p \in Positions |-> BatchTopic(members, p)]]

=============================================================================
