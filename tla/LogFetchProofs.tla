--------------------------- MODULE LogFetchProofs ---------------------------
(* What a fetch of logs records as fetched is complete, for all members,    *)
(* gaps, logs and limits: the merged query of a batch, the grouping and the *)
(* fetch itself.                                                            *)
EXTENDS LogFetch, FiniteSetTheorems, TLAPS

-----------------------------------------------------------------------------
(* The query of a batch *)

(* What one member accepts at a position, the batched filter accepts.       *)
LEMMA BatchTopicAccepts ==
  ASSUME NEW members, NEW m \in members, NEW p, NEW topic,
         FilterMatches(m.topics[p], topic)
  PROVE  FilterMatches(BatchTopic(members, p), topic)
<1>1. FilterMatches(AnyTopic, topic)
  BY DEF FilterMatches, AnyTopic
<1>2. CASE p = 0
  <2>1. CASE \A n \in members : ~n.topics[0].any
    <3>1. topic # NoTopic /\ topic \in m.topics[0].set
      BY <1>2, <2>1 DEF FilterMatches
    <3>2. topic \in UNION {n.topics[0].set : n \in members}
      BY <3>1
    <3>3. BatchTopic(members, p) = OneOf(UNION {n.topics[0].set : n \in members})
      BY <1>2, <2>1 DEF BatchTopic
    <3> QED
      BY <3>1, <3>2, <3>3 DEF FilterMatches, OneOf
  <2>2. CASE ~ \A n \in members : ~n.topics[0].any
    BY <1>1, <1>2, <2>2 DEF BatchTopic
  <2> QED
    BY <2>1, <2>2
<1>3. CASE p # 0
  <2> DEFINE Shared(f) == \A n \in members : n.topics[p] = f
  <2>1. CASE \E f \in TopicFilter : Shared(f)
    <3>1. Shared(CHOOSE f \in TopicFilter : Shared(f))
      BY <2>1
    <3>2. BatchTopic(members, p) = (CHOOSE f \in TopicFilter : Shared(f))
      BY <1>3, <2>1 DEF BatchTopic
    <3>3. BatchTopic(members, p) = m.topics[p]
      BY <3>1, <3>2
    <3> QED
      BY <3>3
  <2>2. CASE ~ \E f \in TopicFilter : Shared(f)
    BY <1>1, <1>3, <2>2 DEF BatchTopic
  <2> QED
    BY <2>1, <2>2
<1> QED
  BY <1>2, <1>3

(* LogSelector::batch is wide enough: a log that matches a member of a      *)
(* batchable group is returned by the group's one eth_getLogs.              *)
THEOREM BatchMatches ==
  ASSUME NEW members, NEW m \in members, NEW maxAddresses, NEW log,
         Batchable(members, maxAddresses), Matches(m, log)
  PROVE  Matches(BatchSelector(members), log)
<1>1. CASE \E n \in members : members = {n}
  <2>1. BatchSelector(members) = m
    BY <1>1 DEF BatchSelector
  <2> QED
    BY <2>1
<1>2. CASE ~ \E n \in members : members = {n}
  <2> DEFINE batch == BatchSelector(members)
  <2>1. /\ batch.addresses = AllAddresses(members)
        /\ batch.topics = [p \in Positions |-> BatchTopic(members, p)]
    BY <1>2 DEF BatchSelector
  <2>2. batch.addresses = {} \/ log.address \in batch.addresses
    <3>1. CASE \A n \in members : n.addresses = {}
      BY <2>1, <3>1 DEF AllAddresses
    <3>2. CASE \A n \in members : n.addresses # {}
      BY <2>1, <3>2 DEF AllAddresses, Matches
    <3> QED
      BY <1>2, <3>1, <3>2 DEF Batchable, BatchableAddresses
  <2>3. ASSUME NEW p \in Positions
        PROVE  FilterMatches(batch.topics[p], log.topics[p])
    BY <2>1, BatchTopicAccepts DEF Matches
  <2> HIDE DEF batch
  <2> QED
    BY <2>2, <2>3 DEF Matches, batch
<1> QED
  BY <1>1, <1>2

-----------------------------------------------------------------------------
(* batch_groups: the grouping, for every pool of selectors and every cap *)

(* A group of one is always one query, whatever the cap on addresses is. *)
LEMMA SingletonFits ==
  ASSUME NEW m, NEW maxAddresses
  PROVE  Batchable({m}, maxAddresses)
BY DEF Batchable

Inv == TypeOK /\ GroupsFit /\ \A i \in DOMAIN groups : groups[i] \subseteq seen

(* A turn of the loop of batch_groups keeps the groups apart and each of    *)
(* them within one query.                                                   *)
LEMMA AddMemberKeepsInv ==
  ASSUME Inv, NEW m \in Pool \ seen, AddMember(m)
  PROVE  Inv'
<1> DEFINE n == Len(groups)
<1>1. n \in Nat /\ DOMAIN groups = 1..n /\ groups \in Seq(SUBSET Pool)
  BY DEF Inv, TypeOK
<1>2. \A i \in 1..n : m \notin groups[i]
  BY <1>1 DEF Inv
<1>3. CASE groups # <<>> /\ Batchable(LastGroup \cup {m}, MaxAddresses)
  <2>1. n \in 1..n
    BY <1>1, <1>3
  <2>2. groups' = [groups EXCEPT ![n] = groups[n] \cup {m}]
    BY <1>3 DEF AddMember
  <2>3. groups' \in Seq(SUBSET Pool) /\ DOMAIN groups' = 1..n
    BY <1>1, <2>1, <2>2
  <2>4. groups'[n] = groups[n] \cup {m} /\ \A i \in 1..n \ {n} : groups'[i] = groups[i]
    BY <1>1, <2>1, <2>2
  <2>5. Batchable(groups'[n], MaxAddresses)
    BY <1>3, <2>4 DEF LastGroup
  <2>6. seen' = seen \cup {m}
    BY DEF AddMember
  <2> HIDE DEF n
  <2>7. \A i \in 1..n : groups'[i] # {} /\ Batchable(groups'[i], MaxAddresses)
    BY <1>1, <2>4, <2>5 DEF Inv, GroupsFit
  <2>8. \A x \in seen' : \E i \in 1..n : x \in groups'[i]
    BY <1>1, <2>1, <2>4, <2>6 DEF Inv, GroupsFit
  <2>9. \A i, k \in 1..n : groups'[i] \cap groups'[k] # {} => i = k
    BY <1>1, <1>2, <2>4 DEF Inv, GroupsFit
  <2>10. TypeOK' /\ \A i \in DOMAIN groups' : groups'[i] \subseteq seen'
    BY <1>1, <2>3, <2>4, <2>6 DEF Inv, TypeOK
  <2> QED
    BY <2>3, <2>7, <2>8, <2>9, <2>10 DEF Inv, GroupsFit
<1>4. CASE ~(groups # <<>> /\ Batchable(LastGroup \cup {m}, MaxAddresses))
  <2>1. groups' = Append(groups, {m}) /\ seen' = seen \cup {m}
    BY <1>4 DEF AddMember
  <2>2. groups' \in Seq(SUBSET Pool) /\ DOMAIN groups' = 1..(n + 1)
    BY <1>1, <2>1
  <2>3. groups'[n + 1] = {m} /\ \A i \in 1..n : groups'[i] = groups[i]
    BY <1>1, <2>1
  <2>4. Batchable(groups'[n + 1], MaxAddresses)
    BY <2>3, SingletonFits
  <2>5. n + 1 \in 1..(n + 1) /\ \A i \in 1..(n + 1) : i = n + 1 \/ i \in 1..n
    BY <1>1
  <2> HIDE DEF n
  <2>6. GroupsFit'
    <3>1. \A i \in 1..(n + 1) : groups'[i] # {} /\ Batchable(groups'[i], MaxAddresses)
      BY <1>1, <2>3, <2>4, <2>5 DEF Inv, GroupsFit
    <3>2. \A x \in seen' : \E i \in 1..(n + 1) : x \in groups'[i]
      BY <1>1, <2>1, <2>3, <2>5 DEF Inv, GroupsFit
    <3>3. \A i, k \in 1..(n + 1) : groups'[i] \cap groups'[k] # {} => i = k
      BY <1>1, <1>2, <2>3, <2>5 DEF Inv, GroupsFit
    <3> QED
      BY <2>2, <3>1, <3>2, <3>3 DEF GroupsFit
  <2>7. TypeOK' /\ \A i \in DOMAIN groups' : groups'[i] \subseteq seen'
    BY <1>1, <2>1, <2>2, <2>3, <2>5 DEF Inv, TypeOK
  <2> QED
    BY <2>6, <2>7 DEF Inv
<1> QED
  BY <1>3, <1>4

(* The fallback of fetch_logs is never taken, for any members and any cap:  *)
(* every group batch_groups returns has a merged query.                     *)
THEOREM GroupsAlwaysFit == Spec => []GroupsFit
<1>1. Init => Inv
  BY DEF Init, Inv, TypeOK, GroupsFit
<1>2. Inv /\ [Next]_vars => Inv'
  BY AddMemberKeepsInv DEF Next, vars, Inv, TypeOK, GroupsFit
<1>3. Inv => GroupsFit
  BY DEF Inv
<1> QED
  BY <1>1, <1>2, <1>3, PTL DEF Spec

(* No log is lost in a merged query: what fetch_logs asks for a group       *)
(* returns every log that any of its members matches.                       *)
THEOREM GroupsNeverMiss == Spec => []GroupsMissNothing
<1>1. GroupsFit => GroupsMissNothing
  <2> SUFFICES ASSUME GroupsFit, NEW i \in DOMAIN groups, NEW m \in groups[i],
                      NEW log \in LogKey, Matches(m, log)
               PROVE  Matches(BatchSelector(groups[i]), log)
    BY DEF GroupsMissNothing
  <2>1. Batchable(groups[i], MaxAddresses)
    BY DEF GroupsFit
  <2> QED
    BY <2>1, BatchMatches
<1> QED
  BY <1>1, GroupsAlwaysFit, PTL

-----------------------------------------------------------------------------
(* address_groups *)

(* The place of the k-th address: chunk i of m holds it. *)
LEMMA ChunkOf ==
  ASSUME NEW m \in Nat \ {0}, NEW len \in Nat, NEW k \in 1..len
  PROVE  \E i \in 1..((len + m - 1) \div m) :
           k \in ((i - 1) * m + 1)..Smaller(i * m, len)
<1> DEFINE q == (k - 1) \div m
           n == (len + m - 1) \div m
<1>1. q \in Nat /\ q * m <= k - 1 /\ k - 1 < q * m + m
  OBVIOUS
<1>2. n \in Nat /\ len + m - 1 < n * m + m
  OBVIOUS
<1> HIDE DEF q, n
<1>3. (q + 1) * m = q * m + m /\ q * m \in Nat /\ n * m \in Nat
  BY <1>1, <1>2
<1>4. q + 1 <= n
  <2> SUFFICES ASSUME n <= q PROVE FALSE
    BY <1>1, <1>2
  <2>1. n * m <= q * m
    BY <1>1, <1>2
  <2> QED
    BY <1>1, <1>2, <1>3, <2>1
<1> DEFINE i == q + 1
<1>5. i \in 1..n
  BY <1>1, <1>2, <1>4
<1>6. k \in ((i - 1) * m + 1)..Smaller(i * m, len)
  <2>1. i - 1 = q
    BY <1>1
  <2> QED
    BY <1>1, <1>3, <2>1 DEF Smaller
<1> HIDE DEF i
<1> QED
  BY <1>5, <1>6 DEF n

(* The addresses put in some order are all there. *)
LEMMA SetToSeqOnto ==
  ASSUME NEW S, IsFiniteSet(S)
  PROVE  /\ SetToSeq(S) \in [1..Cardinality(S) -> S]
         /\ \A x \in S : \E k \in 1..Cardinality(S) : SetToSeq(S)[k] = x
<1> DEFINE n == Cardinality(S)
<1>1. n \in Nat /\ ExistsBijection(1..n, S)
  BY FS_CardinalityType
<1> HIDE DEF n
<1>2. \E f \in [1..n -> S] : IsInjective(f)
  BY <1>1 DEF ExistsBijection, Bijection, Injection
<1>3. SetToSeq(S) \in [1..n -> S] /\ IsInjective(SetToSeq(S))
  BY <1>2 DEF SetToSeq, n
<1>4. SetToSeq(S) \in Injection(1..n, S)
  BY <1>3 DEF Injection
<1>5. Cardinality(1..n) = n
  BY <1>1, FS_Interval
<1>6. SetToSeq(S) \in Surjection(1..n, S)
  BY <1>4, <1>5, FS_Injection DEF n
<1> QED
  BY <1>3, <1>6 DEF Surjection, n

(* The calls of a window together ask for every address of the query. *)
LEMMA AddressGroupsCover ==
  ASSUME NEW selector, selector.addresses \subseteq Address
  PROVE  /\ AddressGroups(selector) \in Seq(SUBSET Address)
         /\ AddressGroups(selector) # <<>>
         /\ selector.addresses = {} => AddressGroups(selector) = <<{}>>
         /\ \A x \in selector.addresses : \E i \in DOMAIN AddressGroups(selector) :
              x \in AddressGroups(selector)[i]
<1> DEFINE S   == selector.addresses
           len == Cardinality(S)
           all == SetToSeq(S)
           n   == (len + MaxAddresses - 1) \div MaxAddresses
           Chunk(i) == {all[k] : k \in ((i - 1) * MaxAddresses + 1)..Smaller(i * MaxAddresses, len)}
<1>1. CASE S = {}
  <2>1. AddressGroups(selector) = <<{}>>
    BY <1>1 DEF AddressGroups
  <2> QED
    BY <1>1, <2>1
<1>2. CASE S # {}
  <2>1. MaxAddresses \in Nat \ {0}
    BY LogFetchAssumption, BatchGroupsAssumption
  <2>2. IsFiniteSet(S)
    BY LogFetchAssumption, FS_Subset
  <2>3. len \in Nat /\ len # 0
    BY <1>2, <2>2, FS_CardinalityType, FS_EmptySet
  <2>4. all \in [1..len -> S] /\ \A x \in S : \E k \in 1..len : all[k] = x
    BY <2>2, SetToSeqOnto
  <2> HIDE DEF S, len, all
  <2>5. all \in Seq(S) /\ Len(all) = len
    BY <2>3, <2>4
  <2>6. n \in Nat
    BY <2>1, <2>3
  <2>7. AddressGroups(selector) = [i \in 1..n |-> Chunk(i)]
    BY <1>2, <2>5 DEF AddressGroups, S, all
  <2>8. \A i \in 1..n : Chunk(i) \subseteq Address
    <3> SUFFICES ASSUME NEW i \in 1..n,
                        NEW k \in ((i - 1) * MaxAddresses + 1)..Smaller(i * MaxAddresses, len)
                 PROVE  all[k] \in Address
      OBVIOUS
    <3>1. (i - 1) * MaxAddresses \in Nat /\ i * MaxAddresses \in Nat
      BY <2>1, <2>6
    <3>2. k \in 1..len
      BY <2>3, <3>1 DEF Smaller
    <3> QED
      BY <2>4, <3>2 DEF S
  <2>9. \A x \in S : \E i \in 1..n : x \in Chunk(i)
    <3> SUFFICES ASSUME NEW x \in S PROVE \E i \in 1..n : x \in Chunk(i)
      OBVIOUS
    <3>1. PICK k \in 1..len : all[k] = x
      BY <2>4
    <3>2. PICK i \in 1..n : k \in ((i - 1) * MaxAddresses + 1)..Smaller(i * MaxAddresses, len)
      BY <2>1, <2>3, ChunkOf
    <3> QED
      BY <3>1, <3>2
  <2>10. PICK x : x \in S
    BY <1>2
  <2> HIDE DEF n, Chunk
  <2>11. n # 0
    BY <2>6, <2>9, <2>10
  <2>12. [i \in 1..n |-> Chunk(i)] \in Seq(SUBSET Address)
    BY <2>6, <2>8
  <2>13. DOMAIN [i \in 1..n |-> Chunk(i)] = 1..n
    OBVIOUS
  <2>14. [i \in 1..n |-> Chunk(i)] # <<>>
    BY <2>6, <2>11, <2>13
  <2> QED
    BY <1>2, <2>7, <2>9, <2>12, <2>14 DEF S
<1> QED
  BY <1>1, <1>2

-----------------------------------------------------------------------------
(* The inductive invariant *)

Running == pc \in {"window", "call", "shrink"}

(* Where the loops are. *)
PlaceOK ==
  /\ range \in [current : Nat \ {0}, successes : Nat]
  /\ pc \in {"group", "window", "call", "shrink", "done"}
  /\ pc = "group" => /\ group = 1 /\ gap = 1 /\ cursor = Gaps[1].start
                     /\ page = {} /\ fetchedTo = 0
  /\ Running => group \in 1..Len(groups)
  /\ pc # "done" => /\ gap \in 1..Len(Gaps)
                    /\ cursor \in Gaps[gap].start..Gaps[gap].end
  /\ pc \in {"call", "shrink"} => end \in cursor..Gaps[gap].end

(* The page holds the logs of the query in the blocks before the cursor. *)
PageOK ==
  pc # "done" =>
    /\ fetchedTo = IF cursor = Gaps[gap].start THEN 0 ELSE cursor - 1
    /\ page \subseteq {log \in Logs : log.block \in Gaps[gap].start..(cursor - 1)}
    /\ Running => \A log \in Logs :
         log.block \in Gaps[gap].start..(cursor - 1) /\ Matches(Query, log.key) => log \in page

(* The window and the calls still to make hold those from the cursor on. *)
WindowOK ==
  pc = "call" =>
    /\ parts \in Seq(SUBSET Address)
    /\ window \subseteq {log \in Logs : log.block \in cursor..end}
    /\ \A log \in Logs : log.block \in cursor..end /\ Matches(Query, log.key)
         => log \in window \/ \E i \in DOMAIN parts : log \in Narrowed(parts[i])

FetchInv == Inv /\ PlaceOK /\ PageOK /\ WindowOK /\ FetchedComplete

(* The gaps are ranges of blocks after the genesis block. *)
LEMMA GapOK ==
  ASSUME NEW i \in 1..Len(Gaps)
  PROVE  Gaps[i].start \in Nat \ {0} /\ Gaps[i].end \in Nat /\ Gaps[i].start <= Gaps[i].end
<1> DEFINE GapRange == [start : Nat \ {0}, end : Nat \ {0}]
<1>1. Gaps \in Seq(GapRange) /\ \A k \in DOMAIN Gaps : Gaps[k].start <= Gaps[k].end
  BY LogFetchAssumption
<1> HIDE DEF GapRange
<1>2. i \in DOMAIN Gaps /\ Gaps[i] \in GapRange
  BY <1>1
<1>3. Gaps[i].start \in Nat \ {0} /\ Gaps[i].end \in Nat
  BY <1>2 DEF GapRange
<1> QED
  BY <1>1, <1>2, <1>3

(* The shared range never falls to zero. *)
LEMMA RangeStays ==
  ASSUME NEW r \in [current : Nat \ {0}, successes : Nat], NEW failed \in Nat
  PROVE  /\ RecordSuccess(r) \in [current : Nat \ {0}, successes : Nat]
         /\ RecordLimit(r, failed) \in [current : Nat \ {0}, successes : Nat]
         /\ [current |-> MaxRange, successes |-> 0] \in [current : Nat \ {0}, successes : Nat]
<1>1. /\ MinRange \in Nat \ {0} /\ MaxRange \in Nat \ {0}
      /\ r.current \in Nat \ {0} /\ r.successes \in Nat
  BY LogFetchAssumption
<1>2. Smaller(r.current * 2, MaxRange) \in Nat \ {0}
  BY <1>1 DEF Smaller
<1>3. Larger(Smaller(r.current, failed \div 2), MinRange) \in Nat \ {0}
  <2>1. failed \div 2 \in Nat
    OBVIOUS
  <2> QED
    BY <1>1, <2>1 DEF Smaller, Larger
<1>4. RecordSuccess(r) \in [current : Nat \ {0}, successes : Nat]
  BY <1>1, <1>2 DEF RecordSuccess
<1>5. RecordLimit(r, failed) \in [current : Nat \ {0}, successes : Nat]
  BY <1>3 DEF RecordLimit
<1> QED
  BY <1>1, <1>4, <1>5

(* The query of a group of members is a selector record. *)
LEMMA QueryIsRecord ==
  ASSUME NEW members \in SUBSET Pool, members # {}
  PROVE  /\ BatchSelector(members).addresses \subseteq Address
         /\ BatchSelector(members) = [addresses |-> BatchSelector(members).addresses,
                                      topics    |-> BatchSelector(members).topics]
<1>1. members \subseteq Selector
  BY BatchGroupsAssumption
<1>2. CASE \E m \in members : members = {m}
  <2>1. PICK m \in members : members = {m}
    BY <1>2
  <2>2. BatchSelector(members) = m
    BY <1>2, <2>1 DEF BatchSelector
  <2> QED
    BY <1>1, <2>2 DEF Selector
<1>3. CASE ~ \E m \in members : members = {m}
  <2>1. BatchSelector(members) = [addresses |-> AllAddresses(members),
                                  topics |-> [p \in Positions |-> BatchTopic(members, p)]]
    BY <1>3 DEF BatchSelector
  <2>2. AllAddresses(members) \subseteq Address
    BY <1>1 DEF AllAddresses, Selector
  <2> QED
    BY <2>1, <2>2
<1> QED
  BY <1>2, <1>3

(* A log of the query is returned by the call for one of its address groups. *)
LEMMA CallsCoverQuery ==
  ASSUME NEW members \in SUBSET Pool, members # {}, NEW key,
         Matches(BatchSelector(members), key)
  PROVE  \E i \in DOMAIN AddressGroups(BatchSelector(members)) :
           Matches([BatchSelector(members) EXCEPT
                      !.addresses = AddressGroups(BatchSelector(members))[i]], key)
<1> DEFINE q == BatchSelector(members)
           g == AddressGroups(q)
<1>1. q.addresses \subseteq Address /\ q = [addresses |-> q.addresses, topics |-> q.topics]
  BY QueryIsRecord
<1>2. /\ q.addresses = {} => g = <<{}>>
      /\ \A x \in q.addresses : \E i \in DOMAIN g : x \in g[i]
  BY <1>1, AddressGroupsCover
<1>3. Matches(q, key)
  OBVIOUS
<1> HIDE DEF q, g
<1>4. \A A : /\ [q EXCEPT !.addresses = A].addresses = A
             /\ [q EXCEPT !.addresses = A].topics = q.topics
  BY <1>1
<1>5. \E i \in DOMAIN g : g[i] = {} \/ key.address \in g[i]
  <2>1. CASE q.addresses = {}
    BY <1>2, <2>1
  <2>2. CASE key.address \in q.addresses
    BY <1>2, <2>2
  <2> QED
    BY <1>3, <2>1, <2>2 DEF Matches
<1>6. \E i \in DOMAIN g : Matches([q EXCEPT !.addresses = g[i]], key)
  BY <1>3, <1>4, <1>5 DEF Matches
<1> QED
  BY <1>6 DEF q, g

(* While calls are made the group is one of the groups, and its query       *)
(* returns what its members match.                                          *)
LEMMA GroupOK ==
  ASSUME Inv, group \in 1..Len(groups)
  PROVE  /\ groups[group] \in SUBSET Pool /\ groups[group] # {}
         /\ \A m \in groups[group] : \A key : Matches(m, key) => Matches(Query, key)
<1>1. group \in DOMAIN groups /\ groups \in Seq(SUBSET Pool)
  BY DEF Inv, TypeOK
<1>2. groups[group] # {} /\ Batchable(groups[group], MaxAddresses)
  BY <1>1 DEF Inv, GroupsFit
<1> QED
  BY <1>1, <1>2, BatchMatches DEF Query

-----------------------------------------------------------------------------
(* The steps *)

LEMMA SameGroups ==
  ASSUME Inv, UNCHANGED vars
  PROVE  Inv' /\ groups' = groups
BY DEF Inv, TypeOK, GroupsFit, vars

LEMMA SameRows ==
  ASSUME FetchedComplete, UNCHANGED <<rows, fetches>>
  PROVE  FetchedComplete'
BY DEF FetchedComplete

(* The blocks of a page. *)
PageBlocks(to) == IF to = 0 THEN {} ELSE Gaps[gap].start..to

(* A page that has all logs of the query in its blocks keeps the record     *)
(* complete.                                                                *)
LEMMA PushComplete ==
  ASSUME Inv, FetchedComplete, group \in 1..Len(groups),
         NEW got, NEW to, Push(got, to),
         got \subseteq {log \in Logs : log.block \in PageBlocks(to)},
         \A log \in Logs : log.block \in PageBlocks(to) /\ Matches(Query, log.key) => log \in got
  PROVE  FetchedComplete'
<1> DEFINE members == groups[group]
           blocks == PageBlocks(to)
           new == [members |-> members, blocks |-> blocks]
<1>1. /\ rows' = rows \cup {log \in got : \E m \in members : Matches(m, log.key)}
      /\ fetches' = fetches \cup {new}
  BY DEF Push, PageBlocks
<1>2. \A m \in members : \A key : Matches(m, key) => Matches(Query, key)
  BY GroupOK
<1>3. new.members = members /\ new.blocks = blocks
  OBVIOUS
<1> HIDE DEF members, blocks, new
<1> SUFFICES ASSUME NEW log \in Logs
             PROVE  log \in rows' <=> \E f \in fetches' :
                      log.block \in f.blocks /\ \E m \in f.members : Matches(m, log.key)
  BY DEF FetchedComplete
<1>4. log \in rows <=> \E f \in fetches :
        log.block \in f.blocks /\ \E m \in f.members : Matches(m, log.key)
  BY DEF FetchedComplete
<1>5. (log \in got /\ \E m \in members : Matches(m, log.key))
        <=> (log.block \in blocks /\ \E m \in members : Matches(m, log.key))
  BY <1>2 DEF blocks
<1> QED
  BY <1>1, <1>3, <1>4, <1>5

(* The next gap starts with an empty page. *)
LEMMA NextGapKeeps ==
  ASSUME Inv, PlaceOK, Running, NextGap, UNCHANGED vars,
         range' \in [current : Nat \ {0}, successes : Nat]
  PROVE  PlaceOK' /\ PageOK' /\ WindowOK'
<1>1. group \in 1..Len(groups) /\ gap \in 1..Len(Gaps)
  BY DEF PlaceOK, Running
<1>2. groups' = groups /\ Len(groups) \in Nat /\ Len(Gaps) \in Nat /\ 1 \in 1..Len(Gaps)
  BY <1>1, SameGroups, LogFetchAssumption DEF Inv, TypeOK
<1>3. CASE pc' = "done"
  BY <1>3 DEF PlaceOK, PageOK, WindowOK, Running
<1>4. CASE pc' # "done"
  <2>1. /\ pc' = "window" /\ page' = {} /\ fetchedTo' = 0
        /\ gap' \in 1..Len(Gaps) /\ group' \in 1..Len(groups)
        /\ cursor' = Gaps[gap'].start
    BY <1>1, <1>2, <1>4 DEF NextGap
  <2>2. /\ Gaps[gap'].start \in Nat \ {0} /\ Gaps[gap'].end \in Nat
        /\ Gaps[gap'].start <= Gaps[gap'].end
    BY <2>1, GapOK
  <2>3. PlaceOK'
    BY <1>2, <2>1, <2>2 DEF PlaceOK, Running
  <2>4. \A n : n \notin Gaps[gap'].start..(cursor' - 1)
    BY <2>1, <2>2
  <2>5. PageOK'
    BY <2>1, <2>4 DEF PageOK
  <2>6. WindowOK'
    BY <2>1 DEF WindowOK
  <2> QED
    BY <2>3, <2>5, <2>6
<1> QED
  BY <1>3, <1>4

(* A fetch that fails records the complete windows of the gap. *)
LEMMA GiveUpKeeps ==
  ASSUME FetchInv, Running, GiveUp,
         range' \in [current : Nat \ {0}, successes : Nat]
  PROVE  FetchInv'
<1>1. group \in 1..Len(groups) /\ gap \in 1..Len(Gaps)
      /\ cursor \in Gaps[gap].start..Gaps[gap].end /\ pc # "done"
  BY DEF FetchInv, PlaceOK, Running
<1>2. Gaps[gap].start \in Nat \ {0} /\ Gaps[gap].end \in Nat
  BY <1>1, GapOK
<1>3. PageBlocks(fetchedTo) = Gaps[gap].start..(cursor - 1)
  <2>1. fetchedTo = IF cursor = Gaps[gap].start THEN 0 ELSE cursor - 1
    BY <1>1 DEF FetchInv, PageOK
  <2> QED
    BY <1>1, <1>2, <2>1 DEF PageBlocks
<1>4. page \subseteq {log \in Logs : log.block \in PageBlocks(fetchedTo)}
  BY <1>1, <1>3 DEF FetchInv, PageOK
<1>5. \A log \in Logs :
        log.block \in PageBlocks(fetchedTo) /\ Matches(Query, log.key) => log \in page
  BY <1>1, <1>3 DEF FetchInv, PageOK
<1>6. Push(page, fetchedTo) /\ pc' = "done" /\ UNCHANGED vars
  BY DEF GiveUp
<1>7. FetchedComplete'
  BY <1>1, <1>4, <1>5, <1>6, PushComplete DEF FetchInv
<1>8. Inv'
  BY <1>6, SameGroups DEF FetchInv
<1> QED
  BY <1>6, <1>7, <1>8 DEF FetchInv, PlaceOK, PageOK, WindowOK, Running

(* A new window asks for every address of the query. *)
LEMMA OpenWindowKeeps ==
  ASSUME FetchInv, OpenWindow
  PROVE  FetchInv'
<1>1. /\ group \in 1..Len(groups) /\ gap \in 1..Len(Gaps)
      /\ cursor \in Gaps[gap].start..Gaps[gap].end /\ pc = "window"
      /\ range \in [current : Nat \ {0}, successes : Nat]
  BY DEF FetchInv, PlaceOK, Running, OpenWindow
<1>2. Gaps[gap].start \in Nat \ {0} /\ Gaps[gap].end \in Nat
  BY <1>1, GapOK
<1>3. /\ end' = WindowEnd /\ parts' = AddressGroups(Query) /\ window' = {} /\ pc' = "call"
      /\ UNCHANGED <<vars, range, group, gap, cursor, page, fetchedTo, rows, fetches>>
  BY DEF OpenWindow, loopVars
<1>4. Inv' /\ groups' = groups
  BY <1>3, SameGroups DEF FetchInv
<1>5. Query' = Query
  BY <1>3, <1>4 DEF Query
<1>6. end' \in cursor..Gaps[gap].end
  BY <1>1, <1>2, <1>3 DEF WindowEnd, Smaller
<1>7. PlaceOK'
  BY <1>1, <1>3, <1>4, <1>6 DEF FetchInv, PlaceOK, Running
<1>8. PageOK'
  BY <1>1, <1>3, <1>5 DEF FetchInv, PageOK, Running
<1>9. WindowOK'
  <2>1. groups[group] \in SUBSET Pool /\ groups[group] # {}
    BY <1>1, GroupOK DEF FetchInv
  <2>2. parts' \in Seq(SUBSET Address)
    BY <1>3, <2>1, QueryIsRecord, AddressGroupsCover DEF Query
  <2>3. ASSUME NEW log \in Logs, log.block \in cursor'..end', Matches(Query, log.key)
        PROVE  \E i \in DOMAIN parts' : log \in Narrowed(parts[i])'
    <3>1. PICK i \in DOMAIN parts' : Matches([Query EXCEPT !.addresses = parts'[i]], log.key)
      BY <1>3, <2>1, <2>3, CallsCoverQuery DEF Query
    <3> QED
      BY <1>5, <2>3, <3>1 DEF Narrowed
  <2> QED
    BY <1>3, <1>5, <2>2, <2>3 DEF WindowOK
<1>10. FetchedComplete'
  BY <1>3, SameRows DEF FetchInv
<1> QED
  BY <1>4, <1>7, <1>8, <1>9, <1>10 DEF FetchInv

(* An answered call adds its logs to the window, and a complete window to   *)
(* the page.                                                                *)
LEMMA AnsweredKeeps ==
  ASSUME FetchInv, Answered
  PROVE  FetchInv'
<1> DEFINE got == window \cup Narrowed(Head(parts))
<1>1. /\ group \in 1..Len(groups) /\ gap \in 1..Len(Gaps) /\ pc = "call" /\ Running
      /\ cursor \in Gaps[gap].start..Gaps[gap].end /\ end \in cursor..Gaps[gap].end
      /\ range \in [current : Nat \ {0}, successes : Nat]
  BY DEF FetchInv, PlaceOK, Running, Answered
<1>2. Gaps[gap].start \in Nat \ {0} /\ Gaps[gap].end \in Nat
  BY <1>1, GapOK
<1>3. parts' = Tail(parts) /\ UNCHANGED vars /\ parts \in Seq(SUBSET Address)
  BY <1>1 DEF FetchInv, WindowOK, Answered
<1>4. Inv' /\ groups' = groups
  BY <1>3, SameGroups DEF FetchInv
<1>5. got \subseteq {log \in Logs : log.block \in cursor..end}
  BY <1>1 DEF FetchInv, WindowOK, Narrowed
<1>6. ASSUME NEW log \in Logs, log.block \in cursor..end, Matches(Query, log.key)
      PROVE  log \in window \/ \E i \in DOMAIN parts : log \in Narrowed(parts[i])
  BY <1>1, <1>6 DEF FetchInv, WindowOK
<1>7. CASE Len(parts) > 1
  <2>1. /\ window' = got
        /\ UNCHANGED <<range, pc, group, gap, cursor, end, page, fetchedTo, rows, fetches>>
    <3>1. Len(parts) # 1
      BY <1>3, <1>7
    <3>2. /\ window' = got
          /\ UNCHANGED <<range, pc, loopVars, cursor, end, page, fetchedTo, rows, fetches>>
      BY <3>1, Zenon DEF Answered
    <3> QED
      BY <3>2 DEF loopVars
  <2>2. Query' = Query
    BY <1>4, <2>1 DEF Query
  <2>3. \A A : Narrowed(A)' = Narrowed(A)
    BY <2>1, <2>2 DEF Narrowed
  <2>4. PlaceOK' /\ PageOK'
    BY <1>4, <2>1, <2>2 DEF FetchInv, PlaceOK, PageOK, Running
  <2>5. WindowOK'
    <3>1. parts' \in Seq(SUBSET Address)
      BY <1>3, <1>7
    <3>2. ASSUME NEW log \in Logs, log.block \in cursor..end, Matches(Query, log.key)
          PROVE  log \in got \/ \E i \in DOMAIN parts' : log \in Narrowed(parts'[i])
      <4>1. ASSUME NEW i \in DOMAIN parts, log \in Narrowed(parts[i])
            PROVE  log \in got \/ \E k \in DOMAIN parts' : log \in Narrowed(parts'[k])
        <5>1. CASE i = 1
          BY <1>3, <4>1, <5>1
        <5>2. CASE i # 1
          <6>1. i - 1 \in DOMAIN parts' /\ parts'[i - 1] = parts[i]
            BY <1>3, <1>7, <5>2
          <6> QED
            BY <4>1, <6>1
        <5> QED
          BY <5>1, <5>2
      <4> QED
        BY <1>6, <3>2, <4>1
    <3>3. ASSUME NEW log \in Logs, log.block \in cursor..end, Matches(Query, log.key)
          PROVE  (log \in window \/ \E i \in DOMAIN parts : log \in Narrowed(parts[i]))'
      BY <2>1, <2>2, <3>2, <3>3 DEF Narrowed
    <3> HIDE DEF got
    <3> QED
      BY <1>5, <2>1, <2>2, <3>1, <3>3 DEF WindowOK
  <2>6. FetchedComplete'
    BY <2>1, SameRows DEF FetchInv
  <2> QED
    BY <1>4, <2>4, <2>5, <2>6 DEF FetchInv
<1>8. CASE Len(parts) = 1
  <2>1. \A log \in Logs : log.block \in cursor..end /\ Matches(Query, log.key) => log \in got
    <3>1. DOMAIN parts = {1} /\ Head(parts) = parts[1]
      BY <1>3, <1>8
    <3> QED
      BY <1>6, <3>1
  <2> DEFINE all == page \cup got
  <2>2. all \subseteq {log \in Logs : log.block \in Gaps[gap].start..end}
    <3>1. page \subseteq {log \in Logs : log.block \in Gaps[gap].start..(cursor - 1)}
      BY <1>1 DEF FetchInv, PageOK
    <3> HIDE DEF got
    <3>2. \A n : n \in Gaps[gap].start..(cursor - 1) \/ n \in cursor..end
                   => n \in Gaps[gap].start..end
      BY <1>1, <1>2
    <3> QED
      BY <1>5, <3>1, <3>2
  <2>3. \A log \in Logs : log.block \in Gaps[gap].start..end /\ Matches(Query, log.key)
                            => log \in all
    <3>1. \A log \in Logs : log.block \in Gaps[gap].start..(cursor - 1) /\ Matches(Query, log.key)
                              => log \in page
      BY <1>1 DEF FetchInv, PageOK
    <3> HIDE DEF got
    <3>2. \A n \in Gaps[gap].start..end : n \in Gaps[gap].start..(cursor - 1) \/ n \in cursor..end
      BY <1>1, <1>2
    <3> QED
      BY <2>1, <3>1, <3>2
  <2>4. range' = RecordSuccess(range)
    BY <1>8 DEF Answered
  <2>5. range' \in [current : Nat \ {0}, successes : Nat]
    BY <1>1, <2>4, RangeStays
  <2>6. CASE end < Gaps[gap].end
    <3>1. /\ page' = all /\ fetchedTo' = end /\ cursor' = end + 1 /\ pc' = "window"
          /\ UNCHANGED <<group, gap, rows, fetches>>
      BY <1>1, <1>2, <1>8, <2>6 DEF Answered, Advanced, loopVars
    <3>2. Query' = Query
      BY <1>4, <3>1 DEF Query
    <3> HIDE DEF all, got
    <3>3. /\ cursor' \in Gaps[gap].start..Gaps[gap].end
          /\ cursor' # Gaps[gap].start /\ cursor' - 1 = end
      BY <1>1, <1>2, <2>6, <3>1
    <3>4. PlaceOK'
      BY <1>1, <1>4, <2>5, <3>1, <3>3 DEF PlaceOK, Running
    <3>5. PageOK'
      BY <2>2, <2>3, <3>1, <3>2, <3>3 DEF PageOK
    <3>6. WindowOK'
      BY <3>1 DEF WindowOK
    <3>7. FetchedComplete'
      BY <3>1, SameRows DEF FetchInv
    <3> QED
      BY <1>4, <3>4, <3>5, <3>6, <3>7 DEF FetchInv
  <2>7. CASE end = Gaps[gap].end
    <3>1. Push(all, end) /\ NextGap
      BY <1>2, <1>8, <2>7 DEF Answered
    <3> HIDE DEF all, got
    <3>2. PlaceOK' /\ PageOK' /\ WindowOK'
      BY <1>1, <1>3, <2>5, <3>1, NextGapKeeps DEF FetchInv
    <3>3. PageBlocks(end) = Gaps[gap].start..end
      BY <1>1, <1>2 DEF PageBlocks
    <3>4. FetchedComplete'
      BY <1>1, <2>2, <2>3, <3>1, <3>3, PushComplete DEF FetchInv
    <3> QED
      BY <1>4, <3>2, <3>4 DEF FetchInv
  <2> QED
    BY <1>1, <1>2, <2>6, <2>7
<1> QED
  BY <1>7, <1>8 DEF Answered

(* Every step of a fetch, and of the others that share its range, keeps the *)
(* invariant.                                                               *)
LEMMA FetchNextKeeps == FetchInv /\ [FetchNext]_fetchVars => FetchInv'
<1> SUFFICES ASSUME FetchInv, [FetchNext]_fetchVars PROVE FetchInv'
  OBVIOUS
<1>1. CASE Grouping
  <2>1. /\ pc = "group" /\ Next
        /\ UNCHANGED <<range, pc, group, gap, cursor, end, parts, window, page, fetchedTo,
                       rows, fetches>>
    BY <1>1 DEF Grouping, loopVars, pageVars
  <2>2. Inv'
    BY <2>1, AddMemberKeepsInv DEF FetchInv, Next
  <2>3. PlaceOK' /\ PageOK' /\ WindowOK'
    BY <2>1 DEF FetchInv, PlaceOK, PageOK, WindowOK, Running
  <2>4. FetchedComplete'
    BY <2>1, SameRows DEF FetchInv
  <2> QED
    BY <2>2, <2>3, <2>4 DEF FetchInv
<1>2. CASE Grouped
  <2>1. /\ pc = "group" /\ pc' = "window" /\ groups # <<>> /\ UNCHANGED vars
        /\ UNCHANGED <<range, group, gap, cursor, end, parts, window, page, fetchedTo,
                       rows, fetches>>
    BY <1>2 DEF Grouped, loopVars, pageVars
  <2>2. Inv' /\ groups' = groups
    BY <2>1, SameGroups DEF FetchInv
  <2>3. group = 1 /\ group \in 1..Len(groups)
    BY <2>1 DEF FetchInv, PlaceOK, Inv, TypeOK
  <2>4. PlaceOK'
    BY <2>1, <2>2, <2>3 DEF FetchInv, PlaceOK, Running
  <2>5. gap = 1 /\ cursor = Gaps[1].start /\ gap \in 1..Len(Gaps)
    BY <2>1 DEF FetchInv, PlaceOK
  <2>6. \A n : n \notin Gaps[gap].start..(cursor - 1)
    BY <2>5, GapOK
  <2>7. PageOK' /\ WindowOK'
    BY <2>1, <2>5, <2>6 DEF FetchInv, PageOK, WindowOK
  <2>8. FetchedComplete'
    BY <2>1, SameRows DEF FetchInv
  <2> QED
    BY <2>2, <2>4, <2>7, <2>8 DEF FetchInv
<1>3. CASE OpenWindow
  BY <1>3, OpenWindowKeeps
<1>4. CASE Answered
  BY <1>4, AnsweredKeeps
<1>5. ASSUME pc \in {"call", "shrink"}
      PROVE  end - cursor + 1 \in Nat /\ Running
  <2>1. /\ gap \in 1..Len(Gaps) /\ cursor \in Gaps[gap].start..Gaps[gap].end
        /\ end \in cursor..Gaps[gap].end /\ Running
    BY <1>5 DEF FetchInv, PlaceOK, Running
  <2> QED
    BY <2>1, GapOK
<1>6. range \in [current : Nat \ {0}, successes : Nat]
  BY DEF FetchInv, PlaceOK
<1>7. ASSUME UNCHANGED <<vars, group, gap, cursor, end, page, fetchedTo, rows, fetches>>,
             range' \in [current : Nat \ {0}, successes : Nat],
             \/ pc' = pc /\ UNCHANGED <<parts, window>>
             \/ pc = "call" /\ pc' = "shrink"
      PROVE  FetchInv'
  <2>1. Inv' /\ groups' = groups
    BY <1>7, SameGroups DEF FetchInv
  <2>2. Query' = Query
    BY <1>7, <2>1 DEF Query
  <2>3. \A A : Narrowed(A)' = Narrowed(A)
    BY <1>7, <2>2 DEF Narrowed
  <2>4. PlaceOK' /\ PageOK'
    BY <1>7, <2>1, <2>2 DEF FetchInv, PlaceOK, PageOK, Running
  <2>5. WindowOK'
    BY <1>7, <2>2, <2>3 DEF FetchInv, WindowOK
  <2>6. FetchedComplete'
    BY <1>7, SameRows DEF FetchInv
  <2> QED
    BY <2>1, <2>4, <2>5, <2>6 DEF FetchInv
<1>8. CASE Limited
  <2>1. pc = "call" /\ range' = RecordLimit(range, end - cursor + 1)
    BY <1>8 DEF Limited
  <2>2. range' \in [current : Nat \ {0}, successes : Nat] /\ Running
    BY <1>5, <1>6, <2>1, RangeStays
  <2>3. CASE GiveUp
    BY <2>2, <2>3, GiveUpKeeps
  <2>4. CASE ~GiveUp
    BY <1>7, <1>8, <2>1, <2>2, <2>4 DEF Limited, loopVars, pageVars
  <2> QED
    BY <2>3, <2>4
<1>9. CASE Shrink
  <2>1. pc = "shrink" /\ range' = range
    BY <1>9 DEF Shrink
  <2>2. range' \in [current : Nat \ {0}, successes : Nat] /\ Running
    BY <1>5, <1>6, <2>1
  <2>3. CASE GiveUp
    BY <2>2, <2>3, GiveUpKeeps
  <2>4. CASE ~GiveUp
    <3>1. /\ pc' = "window"
          /\ UNCHANGED <<vars, group, gap, cursor, page, fetchedTo, rows, fetches>>
      BY <1>9, <2>4 DEF Shrink, loopVars
    <3>2. Inv' /\ groups' = groups
      BY <3>1, SameGroups DEF FetchInv
    <3>3. Query' = Query
      BY <3>1, <3>2 DEF Query
    <3>4. PlaceOK' /\ PageOK' /\ WindowOK'
      BY <2>1, <2>2, <3>1, <3>2, <3>3 DEF FetchInv, PlaceOK, PageOK, WindowOK, Running
    <3>5. FetchedComplete'
      BY <3>1, SameRows DEF FetchInv
    <3> QED
      BY <3>2, <3>4, <3>5 DEF FetchInv
  <2> QED
    BY <2>3, <2>4
<1>10. CASE CallFails
  <2>1. range' \in [current : Nat \ {0}, successes : Nat] /\ Running
    BY <1>5, <1>6, <1>10 DEF CallFails
  <2> QED
    BY <1>10, <2>1, GiveUpKeeps DEF CallFails
<1>11. CASE Others
  <2>1. range' \in [current : Nat \ {0}, successes : Nat]
    <3>1. CASE OtherSucceeds
      BY <1>6, <3>1, RangeStays DEF OtherSucceeds
    <3>2. CASE OtherLimited
      <4>1. PICK failed \in 1..MaxRange : range' = RecordLimit(range, failed)
        BY <3>2 DEF OtherLimited
      <4>2. failed \in Nat
        BY <4>1, LogFetchAssumption
      <4> QED
        BY <1>6, <4>1, <4>2, RangeStays
    <3>3. CASE RangeExpires
      BY <1>6, <3>3, RangeStays DEF RangeExpires
    <3> QED
      BY <1>11, <3>1, <3>2, <3>3 DEF Others
  <2> QED
    BY <1>7, <1>11, <2>1 DEF Others, loopVars, pageVars
<1>12. CASE UNCHANGED fetchVars
  BY <1>6, <1>7, <1>12 DEF fetchVars, loopVars, pageVars
<1> QED
  BY <1>1, <1>2, <1>3, <1>4, <1>8, <1>9, <1>10, <1>11, <1>12 DEF FetchNext, FetchStep

(* A fetch begins with nothing asked and nothing recorded. *)
LEMMA FetchInitOK == FetchInit => FetchInv
<1> SUFFICES ASSUME FetchInit PROVE FetchInv
  OBVIOUS
<1>1. Inv
  BY DEF FetchInit, Init, Inv, TypeOK, GroupsFit
<1>2. 1 \in 1..Len(Gaps)
  BY LogFetchAssumption
<1>3. Gaps[1].start \in Nat \ {0} /\ Gaps[1].end \in Nat /\ Gaps[1].start <= Gaps[1].end
  BY <1>2, GapOK
<1>4. range \in [current : Nat \ {0}, successes : Nat]
  BY LogFetchAssumption DEF FetchInit
<1>5. PlaceOK /\ PageOK /\ WindowOK
  BY <1>2, <1>3, <1>4 DEF FetchInit, PlaceOK, PageOK, WindowOK, Running
<1>6. FetchedComplete
  BY DEF FetchInit, FetchedComplete
<1> QED
  BY <1>1, <1>5, <1>6 DEF FetchInv

-----------------------------------------------------------------------------

(* Whatever members are merged, however calls split the addresses, wherever *)
(* windows end and whichever call fails, what fetch_logs returns is exactly *)
(* the logs that the members of its fetches ask for in the blocks fetched,  *)
(* so the coverage a fill records from it is never more than it stored.     *)
THEOREM FetchesComplete == FetchSpec => []FetchedComplete
<1>1. FetchInv => FetchedComplete
  BY DEF FetchInv
<1> QED
  BY <1>1, FetchInitOK, FetchNextKeeps, PTL DEF FetchSpec

(* The groups keep their promise while their windows are fetched, so every  *)
(* call is for a merged query and never for the fallback of fetch_logs.     *)
THEOREM FetchGroupsFit == FetchSpec => []GroupsFit
<1>1. FetchInv => GroupsFit
  BY DEF FetchInv, Inv
<1> QED
  BY <1>1, FetchInitOK, FetchNextKeeps, PTL DEF FetchSpec

=============================================================================
