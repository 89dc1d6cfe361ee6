--------------------------- MODULE FillJobsProofs ---------------------------
(* Safety of the fill path for any number of workers, jobs, selectors,      *)
(* chunks and rows.                                                         *)
EXTENDS FillJobs, TLAPS

-----------------------------------------------------------------------------
(* The selector algebra, for every set of addresses, topics and positions *)

(* TopicFilter::covers is sound: what the narrow filter accepts, the wide   *)
(* one accepts.                                                             *)
LEMMA FilterCoversSound ==
  ASSUME NEW wide, NEW narrow, NEW topic,
         FilterCovers(wide, narrow), FilterMatches(narrow, topic)
  PROVE  FilterMatches(wide, topic)
BY DEF FilterCovers, FilterMatches

(* LogSelector::covers is sound: a log that matches the covered selector    *)
(* matches the covering one, so the covering selector's rows hold it.       *)
THEOREM CoversSound ==
  ASSUME NEW wide, NEW narrow, NEW log,
         Covers(wide, narrow), Matches(narrow, log)
  PROVE  Matches(wide, log)
<1>1. wide.addresses = {} \/ log.address \in wide.addresses
  BY DEF Covers, CoversAddresses, Matches
<1>2. ASSUME NEW p \in Positions
      PROVE  FilterMatches(wide.topics[p], log.topics[p])
  BY FilterCoversSound DEF Covers, Matches
<1> QED
  BY <1>1, <1>2 DEF Matches

(* split_by_address loses nothing: a log that matches a selector matches    *)
(* one of its parts.                                                        *)
THEOREM SplitComplete ==
  ASSUME NEW selector, NEW log, Matches(selector, log)
  PROVE  \E part \in SplitByAddress(selector) : Matches(part, log)
<1>1. CASE selector.addresses = {}
  BY <1>1 DEF SplitByAddress
<1>2. CASE selector.addresses # {}
  <2> DEFINE part == [addresses |-> {log.address}, topics |-> selector.topics]
  <2>1. part \in SplitByAddress(selector)
    BY <1>2 DEF SplitByAddress, Matches
  <2>2. Matches(part, log)
    BY DEF Matches
  <2> QED
    BY <2>1, <2>2
<1> QED
  BY <1>1, <1>2

(* A filter covers itself. *)
LEMMA FilterCoversSelf ==
  ASSUME NEW filter PROVE FilterCovers(filter, filter)
BY DEF FilterCovers

(* A selector covers each of its parts, so its own coverage always counts   *)
(* for a query of it (candidates_covering finds the selector itself).       *)
THEOREM CoversItsParts ==
  ASSUME NEW selector \in Selector, NEW part \in SplitByAddress(selector)
  PROVE  Covers(selector, part)
<1>1. part.topics = selector.topics
  BY DEF SplitByAddress
<1>2. CoversAddresses(selector, part)
  BY DEF SplitByAddress, CoversAddresses
<1> QED
  BY <1>1, <1>2, FilterCoversSelf DEF Covers

(* What one member accepts at a position, the batched filter accepts.       *)
LEMMA BatchTopicAccepts ==
  ASSUME NEW members, NEW m \in members, NEW p, NEW topic,
         FilterMatches(m.topics[p], topic)
  PROVE  FilterMatches(BatchTopic(members, p), topic)
<1>1. FilterMatches(AnyTopic, topic)
  BY DEF FilterMatches, AnyTopic
<1>2. CASE p = 0
  <2>1. CASE \A n \in members : ~n.topics[0].any
    <3>1. topic # NoTopic /\ topic \in m.topics[0].set
      BY <1>2, <2>1 DEF FilterMatches
    <3>2. topic \in UNION {n.topics[0].set : n \in members}
      BY <3>1
    <3>3. BatchTopic(members, p) = OneOf(UNION {n.topics[0].set : n \in members})
      BY <1>2, <2>1 DEF BatchTopic
    <3> QED
      BY <3>1, <3>2, <3>3 DEF FilterMatches, OneOf
  <2>2. CASE ~ \A n \in members : ~n.topics[0].any
    BY <1>1, <1>2, <2>2 DEF BatchTopic
  <2> QED
    BY <2>1, <2>2
<1>3. CASE p # 0
  <2> DEFINE Shared(f) == \A n \in members : n.topics[p] = f
  <2>1. CASE \E f \in TopicFilter : Shared(f)
    <3>1. Shared(CHOOSE f \in TopicFilter : Shared(f))
      BY <2>1
    <3>2. BatchTopic(members, p) = (CHOOSE f \in TopicFilter : Shared(f))
      BY <1>3, <2>1 DEF BatchTopic
    <3>3. BatchTopic(members, p) = m.topics[p]
      BY <3>1, <3>2
    <3> QED
      BY <3>3
  <2>2. CASE ~ \E f \in TopicFilter : Shared(f)
    BY <1>1, <1>3, <2>2 DEF BatchTopic
  <2> QED
    BY <2>1, <2>2
<1> QED
  BY <1>2, <1>3

(* LogSelector::batch is wide enough: a log that matches a member of a      *)
(* batchable group is returned by the group's one eth_getLogs.              *)
LEMMA BatchMatches ==
  ASSUME NEW members, NEW m \in members, NEW maxAddresses, NEW log,
         Batchable(members, maxAddresses), Matches(m, log)
  PROVE  Matches(BatchSelector(members), log)
<1>1. CASE \E n \in members : members = {n}
  <2>1. BatchSelector(members) = m
    BY <1>1 DEF BatchSelector
  <2> QED
    BY <2>1
<1>2. CASE ~ \E n \in members : members = {n}
  <2> DEFINE batch == BatchSelector(members)
  <2>1. /\ batch.addresses = AllAddresses(members)
        /\ batch.topics = [p \in Positions |-> BatchTopic(members, p)]
    BY <1>2 DEF BatchSelector
  <2>2. batch.addresses = {} \/ log.address \in batch.addresses
    <3>1. CASE \A n \in members : n.addresses = {}
      BY <2>1, <3>1 DEF AllAddresses
    <3>2. CASE \A n \in members : n.addresses # {}
      BY <2>1, <3>2 DEF AllAddresses, Matches
    <3> QED
      BY <1>2, <3>1, <3>2 DEF Batchable, BatchableAddresses
  <2>3. ASSUME NEW p \in Positions
        PROVE  FilterMatches(batch.topics[p], log.topics[p])
    BY <2>1, BatchTopicAccepts DEF Matches
  <2> HIDE DEF batch
  <2> QED
    BY <2>2, <2>3 DEF Matches, batch
<1> QED
  BY <1>1, <1>2

-----------------------------------------------------------------------------
(* The inductive invariant *)

(* Coverage of one selector never runs ahead of the stored rows. *)
CoverageComplete ==
  \A s \in SelectorId : \A r \in Row :
    RowMatches(s, r) /\ r.block \in coverage[s] => r \in rows

(* A worker's batch: jobs that were inserted, all in the leader's cell. *)
BatchSound(w) ==
  /\ wk[w].batch # {} => wk[w].leader \in wk[w].batch
  /\ wk[w].pc = "claimed" => wk[w].batch # {}
  /\ \A j \in wk[w].batch : j < nextId /\ SameCell(j, wk[w].leader)
  /\ wk[w].held \subseteq wk[w].batch

(* What a worker read before its fetch is still true: outside missing the   *)
(* chunk is covered.                                                        *)
ReadSound(w) ==
  wk[w].pc = "fetching" =>
    \A s \in Members(w) :
      jobs[wk[w].leader].chunk \ wk[w].missing[s] \subseteq CoveredForQuery(s)

(* What it fetched is complete for the blocks it will record, and when      *)
(* nothing failed it is all that the chunk lacked.                          *)
FetchSound(w) ==
  wk[w].pc \in {"holding", "committing"} =>
    /\ \A s \in SelectorId : \A r \in Row :
         RowMatches(s, r) /\ r.block \in wk[w].got[s] => r \in wk[w].fetched
    /\ wk[w].failure = "none" =>
         \A s \in Members(w) :
           jobs[wk[w].leader].chunk \ wk[w].got[s] \subseteq CoveredForQuery(s)

WorkersSound ==
  \A w \in Worker : BatchSound(w) /\ ReadSound(w) /\ FetchSound(w)

(* Ids above the sequence have not been inserted. *)
InsertedBelow == \A j \in JobId : jobs[j].status # "absent" => j < nextId

FillInv ==
  TypeOK /\ InsertedBelow /\ CoverageComplete /\ DoneMeansCovered /\ WorkersSound

-----------------------------------------------------------------------------
(* Type correctness *)

(* Job ids are the natural numbers from 1. *)
LEMMA JobIdType == JobId \subseteq Nat /\ 1 \in JobId
BY FillJobsAssumption DEF JobId

(* No worker id is the null of fill_jobs.worker_id. *)
LEMMA WorkerNotNull == \A w \in Worker : w # NoWorker
BY FillJobsAssumption

(* The empty coverage is well formed. *)
LEMMA NothingType == Nothing \in [SelectorId -> SUBSET Blocks]
BY DEF Nothing

(* An id that was never inserted, or was pruned, is a well-formed job. *)
LEMMA NoJobType == NoJob \in Job
<1>1. (CHOOSE s \in SelectorId : TRUE) \in SelectorId
  BY FillJobsAssumption
<1>2. (CHOOSE c \in Chunk : TRUE) \in Chunk
  BY FillJobsAssumption
<1>3. 0 \in 0..InternalAttempts
  BY FillJobsAssumption
<1> QED
  BY <1>1, <1>2, <1>3 DEF NoJob, Job, Status

(* A worker without a batch is well formed. *)
LEMMA AtType == ASSUME NEW pc \in Pc PROVE At(pc) \in WorkerState
<1>1. 0 \in 0..InternalAttempts
  BY FillJobsAssumption
<1> QED
  BY <1>1, JobIdType, NothingType DEF At, WorkerState, Failure

(* Claiming a job keeps it well formed. *)
LEMMA RunType ==
  ASSUME NEW job \in Job, NEW w \in Worker, NEW leased \in BOOLEAN
  PROVE  /\ Run(job, w, leased) \in Job
         /\ Run(job, w, leased).worker = w
         /\ Run(job, w, leased).status = "running"
         /\ Run(job, w, leased).selector = job.selector
         /\ Run(job, w, leased).chunk = job.chunk
<1>1. MoreAttempts(job.attempts) \in 0..InternalAttempts
  BY FillJobsAssumption DEF MoreAttempts, Job
<1> QED
  BY <1>1 DEF Run, Job, Status

(* Everything TypeOK says of the jobs table. *)
JobsOK(table) ==
  /\ table \in [JobId -> Job]
  /\ \A j \in JobId : table[j].worker # NoWorker <=> table[j].status = "running"

(* extend_lease keeps the jobs table well formed. *)
LEMMA ExtendType ==
  ASSUME JobsOK(jobs), NEW S PROVE JobsOK(Extend(S))
BY DEF JobsOK, Extend, Job

(* complete_jobs keeps the jobs table well formed. *)
LEMMA CompleteType ==
  ASSUME JobsOK(jobs), NEW w \in Worker, NEW S PROVE JobsOK(CompleteJobs(w, S))
BY ZenonT(60) DEF JobsOK, CompleteJobs, Complete, Job, Status

(* fail_job keeps the jobs table well formed. *)
LEMMA FailType ==
  ASSUME JobsOK(jobs), NEW w \in Worker, NEW j \in JobId,
         NEW retryable \in BOOLEAN, NEW due \in BOOLEAN
  PROVE  JobsOK(FailJob(w, j, retryable, due))
<1> DEFINE failed ==
      [jobs[j] EXCEPT !.status = IF retryable THEN "pending" ELSE "failed",
                      !.worker = NoWorker, !.leased = FALSE,
                      !.due = IF retryable THEN due ELSE jobs[j].due]
<1>1. failed \in Job /\ failed.worker = NoWorker /\ failed.status # "running"
  BY DEF JobsOK, Job, Status
<1> HIDE DEF failed
<1>2. JobsOK([jobs EXCEPT ![j] = failed])
  BY <1>1 DEF JobsOK
<1> QED
  BY <1>2 DEF FailJob, failed

(* The initial state is type correct. *)
LEMMA InitType == Init => TypeOK
<1> SUFFICES ASSUME Init PROVE TypeOK
  OBVIOUS
<1>1. JobsOK(jobs)
  BY NoJobType DEF Init, JobsOK, NoJob
<1>2. wk \in [Worker -> WorkerState]
  BY AtType DEF Init, Pc
<1>3. nextId \in 1..(MaxJobs + 1)
  BY FillJobsAssumption DEF Init
<1> QED
  BY <1>1, <1>2, <1>3, NothingType DEF Init, TypeOK, JobsOK

(* The state of a worker after its fill is well formed. *)
LEMMA AfterFillType ==
  ASSUME TypeOK, NEW w \in Worker, NEW failure \in Failure
  PROVE  AfterFill(w, failure) \in WorkerState
<1>1. At("idle") \in WorkerState /\ At("failing") \in WorkerState
  BY AtType DEF Pc
<1>2. wk[w] \in WorkerState
  BY DEF TypeOK
<1> QED
  BY <1>1, <1>2 DEF AfterFill, WorkerState

(* An internal error is retried or fatal. *)
LEMMA InternalFailureType ==
  ASSUME NEW w PROVE InternalFailure(w) \in Failure
BY DEF InternalFailure, Failure

(* Leaving one job of a failed batch keeps the worker well formed. *)
LEMMA LeaveType ==
  ASSUME TypeOK, NEW w \in Worker, NEW j, NEW next \in Pc, Leave(w, j, next)
  PROVE  wk' \in [Worker -> WorkerState]
<1>1. At(next) \in WorkerState
  BY AtType
<1>2. [wk[w] EXCEPT !.left = wk[w].left \ {j}] \in WorkerState
  BY DEF TypeOK, WorkerState
<1> QED
  BY <1>1, <1>2 DEF Leave, TypeOK

(* Shutting down keeps the worker well formed. *)
LEMMA ShutdownType ==
  ASSUME TypeOK, NEW w \in Worker, ShutdownTo(w)
  PROVE  wk' \in [Worker -> WorkerState]
<1>1. At("stopped") \in WorkerState /\ At("releasing") \in WorkerState
  BY AtType DEF Pc
<1>2. [At("releasing") EXCEPT !.batch = wk[w].batch, !.leader = wk[w].leader,
                              !.failure = "retryable", !.left = wk[w].batch]
        \in WorkerState
  BY <1>1 DEF TypeOK, WorkerState, Failure
<1> QED
  BY <1>1, <1>2 DEF ShutdownTo, TypeOK

(* The write transaction keeps the tables well formed. *)
LEMMA WriteFillType ==
  ASSUME TypeOK, NEW w \in Worker, WriteFill(w)
  PROVE  /\ JobsOK(jobs')
         /\ coverage' \in [SelectorId -> SUBSET Blocks]
         /\ rows' \subseteq Row
         /\ nextId' = nextId
<1>1. JobsOK(jobs)
  BY DEF TypeOK, JobsOK
<1>2. wk[w] \in WorkerState
  BY DEF TypeOK
<1>3. JobsOK(jobs')
  BY <1>1, CompleteType DEF WriteFill
<1>4. coverage' \in [SelectorId -> SUBSET Blocks]
  BY <1>2 DEF WriteFill, TypeOK, WorkerState
<1>5. rows' \subseteq Row /\ nextId' = nextId
  BY <1>2 DEF WriteFill, TypeOK, WorkerState
<1> QED
  BY <1>3, <1>4, <1>5

(* The tables and the workers together are all of TypeOK. *)
LEMMA TypeFromParts ==
  ASSUME JobsOK(jobs'), nextId' \in 1..(MaxJobs + 1),
         coverage' \in [SelectorId -> SUBSET Blocks], rows' \subseteq Row,
         wk' \in [Worker -> WorkerState]
  PROVE  TypeOK'
BY DEF TypeOK, JobsOK

(* What a fetch leaves in the worker is well formed. *)
LEMMA FetchResultType ==
  ASSUME TypeOK, NEW w \in Worker, NEW groups, NEW failure \in Failure,
         NEW got \in [SelectorId -> SUBSET Blocks],
         FetchResult(w, groups, got, failure)
  PROVE  wk' \in [Worker -> WorkerState]
<1>1. FetchedRows(groups, got) \subseteq Row
  BY DEF FetchedRows
<1>2. wk[w] \in WorkerState /\ "holding" \in Pc
  BY DEF TypeOK, Pc
<1>3. ASSUME NEW R \in SUBSET Row
      PROVE  [wk[w] EXCEPT !.pc = "holding", !.missing = Nothing, !.got = got,
                           !.fetched = R, !.failure = failure] \in WorkerState
  BY <1>2, NothingType DEF WorkerState
<1>4. wk' = [wk EXCEPT ![w] =
        [wk[w] EXCEPT !.pc = "holding", !.missing = Nothing, !.got = got,
                      !.fetched = FetchedRows(groups, got), !.failure = failure]]
  BY DEF FetchResult, TypeOK
<1> QED
  BY <1>1, <1>3, <1>4 DEF TypeOK

(* Enqueueing, pruning and the passing of time keep the types. *)
LEMMA QueueStepType ==
  ASSUME TypeOK, QueueStep PROVE TypeOK'
<1>1. ASSUME NEW s \in SelectorId, NEW c \in Chunk, NEW p \in Purpose, Enqueue(s, c, p)
      PROVE  TypeOK'
  <2> DEFINE new ==
        [NoJob EXCEPT !.status = IF c \subseteq coverage[s] THEN "done" ELSE "pending",
                      !.selector = s, !.chunk = c, !.purpose = p, !.due = TRUE]
  <2>1. new \in Job /\ new.worker = NoWorker /\ new.status # "running"
    <3>1. new.worker = NoWorker /\ new.status # "running"
      BY DEF NoJob
    <3> QED
      BY <3>1, NoJobType DEF Job, Status
  <2> HIDE DEF new
  <2>2. nextId \in JobId /\ nextId' \in 1..(MaxJobs + 1)
    BY <1>1, FillJobsAssumption DEF Enqueue, TypeOK, JobId
  <2>3. jobs' = [jobs EXCEPT ![nextId] = new]
    BY <1>1 DEF Enqueue, new
  <2>4. JobsOK(jobs')
    BY <2>1, <2>2, <2>3 DEF TypeOK, JobsOK
  <2> QED
    BY <1>1, <2>2, <2>4 DEF Enqueue, TypeOK, JobsOK
<1>2. ASSUME NEW j \in JobId, Prune(j) PROVE TypeOK'
  <2> DEFINE gone == [NoJob EXCEPT !.selector = jobs[j].selector, !.chunk = jobs[j].chunk]
  <2>1. gone \in Job /\ gone.worker = NoWorker /\ gone.status # "running"
    <3>1. gone.worker = NoWorker /\ gone.status # "running"
      BY DEF NoJob
    <3> QED
      BY <3>1, NoJobType DEF Job, TypeOK
  <2> HIDE DEF gone
  <2>2. jobs' = [jobs EXCEPT ![j] = gone]
    BY <1>2 DEF Prune, gone
  <2> QED
    BY <1>2, <2>1, <2>2 DEF Prune, TypeOK
<1>3. ASSUME NEW j \in JobId, LeaseExpires(j) \/ BackoffElapses(j) PROVE TypeOK'
  <2> DEFINE expired == [jobs[j] EXCEPT !.leased = FALSE]
             ready   == [jobs[j] EXCEPT !.due = TRUE]
  <2>1. /\ expired \in Job /\ ready \in Job
        /\ expired.worker = jobs[j].worker /\ ready.worker = jobs[j].worker
        /\ expired.status = jobs[j].status /\ ready.status = jobs[j].status
    BY DEF TypeOK, Job
  <2>2. jobs' = [jobs EXCEPT ![j] = expired] \/ jobs' = [jobs EXCEPT ![j] = ready]
    BY <1>3 DEF LeaseExpires, BackoffElapses
  <2> HIDE DEF expired, ready
  <2>3. JobsOK(jobs')
    BY <2>1, <2>2 DEF TypeOK, JobsOK
  <2> QED
    BY <1>3, <2>3, TypeFromParts DEF LeaseExpires, BackoffElapses, TypeOK
<1> QED
  BY <1>1, <1>2, <1>3 DEF QueueStep

(* Claiming keeps the types. *)
LEMMA ClaimStepType ==
  ASSUME TypeOK, NEW w \in Worker, ClaimStep(w) PROVE TypeOK'
<1>1. ASSUME NEW j \in JobId, Claim(w, j) PROVE TypeOK'
  <2>1. /\ Run(jobs[j], w, TRUE) \in Job
        /\ Run(jobs[j], w, TRUE).worker # NoWorker
        /\ Run(jobs[j], w, TRUE).status = "running"
    <3>1. jobs[j] \in Job /\ TRUE \in BOOLEAN
      BY DEF TypeOK
    <3> QED
      BY <3>1, RunType, WorkerNotNull
  <2>2. JobsOK(jobs')
    BY <1>1, <2>1 DEF Claim, TypeOK, JobsOK
  <2>3. MoreAttempts(jobs[j].attempts) \in 0..InternalAttempts
    BY FillJobsAssumption DEF MoreAttempts, TypeOK, Job
  <2>4. [At("claimed") EXCEPT !.batch = {j}, !.leader = j,
                              !.attempts = MoreAttempts(jobs[j].attempts)] \in WorkerState
    <3>1. At("claimed") \in WorkerState
      BY AtType DEF Pc
    <3> QED
      BY <2>3, <3>1 DEF WorkerState
  <2> QED
    BY <1>1, <2>2, <2>4, TypeFromParts DEF Claim, TypeOK
<1>2. ASSUME ClaimSiblings(w) PROVE TypeOK'
  <2> DEFINE leader     == wk[w].leader
             candidates == SiblingCandidates(leader)
             siblings   == {k \in candidates :
                              Cardinality({i \in candidates : i < k}) < MaxAddresses - 1}
             leased     == /\ jobs[leader].status = "running"
                           /\ jobs[leader].worker = w
                           /\ jobs[leader].leased
  <2>1. siblings \subseteq JobId
    BY DEF SiblingCandidates
  <2>2. leased \in BOOLEAN
    OBVIOUS
  <2>3. /\ jobs' = [k \in JobId |-> IF k \in siblings THEN Run(jobs[k], w, leased)
                                                     ELSE jobs[k]]
        /\ wk' = [wk EXCEPT ![w].pc = "reading", ![w].batch = @ \cup siblings]
        /\ UNCHANGED <<nextId, coverage, rows>>
    BY <1>2 DEF ClaimSiblings
  <2> HIDE DEF leader, candidates, siblings, leased
  <2>4. JobsOK(jobs')
    <3>1. \A k \in JobId : /\ Run(jobs[k], w, leased) \in Job
                           /\ Run(jobs[k], w, leased).worker # NoWorker
                           /\ Run(jobs[k], w, leased).status = "running"
      BY <2>2, RunType, WorkerNotNull DEF TypeOK
    <3> QED
      BY <2>3, <3>1 DEF TypeOK, JobsOK
  <2>5. wk' \in [Worker -> WorkerState]
    <3>1. [wk[w] EXCEPT !.pc = "reading", !.batch = wk[w].batch \cup siblings]
            \in WorkerState
      BY <2>1, ZenonT(60) DEF TypeOK, WorkerState, Pc
    <3> QED
      BY <2>3, <3>1 DEF TypeOK
  <2> QED
    BY <2>3, <2>4, <2>5, TypeFromParts DEF TypeOK
<1>3. ASSUME ClaimSiblingsFails(w) PROVE TypeOK'
  BY <1>3, AtType DEF ClaimSiblingsFails, TypeOK, Pc
<1> QED
  BY <1>1, <1>2, <1>3 DEF ClaimStep

(* A fill that fails before its commit keeps the worker well formed. *)
LEMMA FailsType ==
  ASSUME TypeOK, NEW w \in Worker, NEW failure \in Failure, Fails(w, failure)
  PROVE  TypeOK'
BY AfterFillType DEF Fails, TypeOK

(* What extend_lease reports are job ids. *)
LEMMA HeldType ==
  ASSUME TypeOK, NEW w \in Worker PROVE StillHeld(w) \subseteq JobId
BY DEF StillHeld, TypeOK, WorkerState

(* Every step of a fill keeps the types. *)
LEMMA FillStepType ==
  ASSUME TypeOK, NEW w \in Worker, FillStep(w) PROVE TypeOK'
<1> "retryable" \in Failure /\ "fatal" \in Failure /\ "none" \in Failure
  BY DEF Failure
<1>w. wk[w] \in WorkerState
  BY DEF TypeOK
<1>1. ASSUME ReadCovered(w) PROVE TypeOK'
  <2> DEFINE gaps == [s \in SelectorId |-> IF s \in Members(w)
                                THEN jobs[wk[w].leader].chunk \ CoveredForQuery(s)
                                ELSE {}]
  <2>1. jobs[wk[w].leader].chunk \subseteq Blocks
    BY <1>w DEF TypeOK, WorkerState, Job, Blocks
  <2>2. gaps \in [SelectorId -> SUBSET Blocks]
    BY <2>1
  <2>3. /\ wk' = [wk EXCEPT ![w] = [wk[w] EXCEPT !.pc = "fetching", !.missing = gaps]]
        /\ UNCHANGED <<jobs, nextId, coverage, rows>>
    BY <1>1 DEF ReadCovered, TypeOK
  <2> HIDE DEF gaps
  <2>4. [wk[w] EXCEPT !.pc = "fetching", !.missing = gaps] \in WorkerState
    BY <1>w, <2>2 DEF WorkerState, Pc
  <2> QED
    BY <2>3, <2>4 DEF TypeOK
<1>2. ASSUME HeadsFail(w) \/ StoreFails(w) \/ CommitReorg(w) PROVE TypeOK'
  BY <1>2, FailsType, InternalFailureType DEF HeadsFail, StoreFails, CommitReorg
<1>3. ASSUME Fetch(w) PROVE TypeOK'
  <2>1. wk[w].missing \in [SelectorId -> SUBSET Blocks]
    BY <1>w DEF WorkerState
  <2>2. PICK groups \in Grouping(wk[w].missing) :
          FetchResult(w, groups, wk[w].missing, "none")
    BY <1>3 DEF Fetch
  <2>3. wk' \in [Worker -> WorkerState]
    BY <2>1, <2>2, FetchResultType
  <2> QED
    BY <2>2, <2>3 DEF FetchResult, TypeOK
<1>4. ASSUME FetchFails(w) PROVE TypeOK'
  <2>1. wk[w].missing \in [SelectorId -> SUBSET Blocks]
    BY <1>w DEF WorkerState
  <2>2. PICK groups \in Grouping(wk[w].missing) :
        \E group \in groups, done \in SUBSET groups,
           cut \in Blocks, failure \in {"retryable", "fatal"} :
          FetchResult(w, groups, CutFetch(wk[w].missing, done, group, cut), failure)
    BY <1>4 DEF FetchFails
  <2>3. PICK group \in groups, done \in SUBSET groups,
             cut \in Blocks, failure \in {"retryable", "fatal"} :
          FetchResult(w, groups, CutFetch(wk[w].missing, done, group, cut), failure)
    BY <2>2
  <2>4. CutFetch(wk[w].missing, done, group, cut) \in [SelectorId -> SUBSET Blocks]
    BY <2>1 DEF CutFetch
  <2>5. wk' \in [Worker -> WorkerState]
    BY <2>3, <2>4, FetchResultType
  <2> QED
    BY <2>3, <2>5 DEF FetchResult, TypeOK
<1>5. ASSUME HoldLeases(w) PROVE TypeOK'
  <2>1. JobsOK(jobs')
    BY <1>5, ExtendType DEF HoldLeases, TypeOK, JobsOK
  <2>2. [wk[w] EXCEPT !.pc = "committing", !.held = StillHeld(w)] \in WorkerState
    BY <1>w, HeldType DEF WorkerState, Pc
  <2>3. wk' = [wk EXCEPT ![w] = [wk[w] EXCEPT !.pc = "committing", !.held = StillHeld(w)]]
    BY <1>5 DEF HoldLeases, TypeOK
  <2> QED
    BY <1>5, <2>1, <2>2, <2>3, TypeFromParts DEF HoldLeases, TypeOK
<1>6. ASSUME Commit(w) \/ CommitUnacknowledged(w) PROVE TypeOK'
  <2>1. WriteFill(w)
    BY <1>6 DEF Commit, CommitUnacknowledged
  <2>2. wk[w].failure \in Failure
    BY <1>w DEF WorkerState
  <2>3. PICK failure \in Failure : wk' = [wk EXCEPT ![w] = AfterFill(w, failure)]
    BY <1>6, <2>2, InternalFailureType DEF Commit, CommitUnacknowledged
  <2>4. wk' \in [Worker -> WorkerState]
    BY <2>3, AfterFillType DEF TypeOK
  <2> QED
    BY <2>1, <2>4, WriteFillType, TypeFromParts DEF TypeOK
<1> QED
  BY <1>1, <1>2, <1>3, <1>4, <1>5, <1>6 DEF FillStep

(* Recording a failure and releasing keep the types. *)
LEMMA FailStepType ==
  ASSUME TypeOK, NEW w \in Worker, FailStep(w) PROVE TypeOK'
<1> "idle" \in Pc /\ "stopped" \in Pc
  BY DEF Pc
<1> JobsOK(jobs)
  BY DEF TypeOK, JobsOK
<1>1. ASSUME NEW j \in JobId, RecordFailure(w, j) PROVE TypeOK'
  <2>1. JobsOK(FailJob(w, j, wk[w].failure = "retryable", FALSE))
    BY FailType
  <2>2. wk' \in [Worker -> WorkerState]
    BY <1>1, LeaveType DEF RecordFailure
  <2> QED
    BY <1>1, <2>1, <2>2, TypeFromParts DEF RecordFailure, TypeOK
<1>2. ASSUME NEW j \in JobId, Release(w, j) PROVE TypeOK'
  <2>1. JobsOK(FailJob(w, j, TRUE, TRUE))
    BY FailType
  <2>2. wk' \in [Worker -> WorkerState]
    BY <1>2, LeaveType DEF Release
  <2> QED
    BY <1>2, <2>1, <2>2, TypeFromParts DEF Release, TypeOK
<1>3. ASSUME NEW j \in JobId, FailJobLost(w, j) PROVE TypeOK'
  <2>1. wk' \in [Worker -> WorkerState]
    BY <1>3, LeaveType DEF FailJobLost
  <2> QED
    BY <1>3, <2>1 DEF FailJobLost, TypeOK
<1> QED
  BY <1>1, <1>2, <1>3 DEF FailStep

(* Lease renewal, shutdown and crash keep the types. *)
LEMMA RenewStopType ==
  ASSUME TypeOK, NEW w \in Worker, RenewLeases(w) \/ StopStep(w) PROVE TypeOK'
<1>1. ASSUME RenewLeases(w) PROVE TypeOK'
  <2>1. JobsOK(jobs')
    BY <1>1, ExtendType DEF RenewLeases, TypeOK, JobsOK
  <2>2. wk' \in [Worker -> WorkerState]
    BY <1>1, AtType DEF RenewLeases, TypeOK, Pc
  <2> QED
    BY <1>1, <2>1, <2>2, TypeFromParts DEF RenewLeases, TypeOK
<1>2. ASSUME Shutdown(w) PROVE TypeOK'
  BY <1>2, ShutdownType DEF Shutdown, TypeOK
<1>3. ASSUME ShutdownInCommit(w) PROVE TypeOK'
  BY <1>3, ShutdownType, WriteFillType, TypeFromParts DEF ShutdownInCommit, TypeOK
<1>4. ASSUME Crash(w) PROVE TypeOK'
  BY <1>4, AtType DEF Crash, TypeOK, Pc
<1> QED
  BY <1>1, <1>2, <1>3, <1>4 DEF StopStep

(* Every step keeps the types. *)
LEMMA NextType == TypeOK /\ [Next]_vars => TypeOK'
<1> SUFFICES ASSUME TypeOK, [Next]_vars PROVE TypeOK'
  OBVIOUS
<1>1. CASE Next
  BY <1>1, QueueStepType, ClaimStepType, FillStepType, FailStepType, RenewStopType
     DEF Next, WorkerStep
<1>2. CASE UNCHANGED vars
  BY <1>2 DEF vars, TypeOK
<1> QED
  BY <1>1, <1>2

(* The fill path is type correct, and a job names a worker exactly while it *)
(* is running.                                                              *)
THEOREM TypeCorrect == Spec => []TypeOK
<1>1. Init => TypeOK
  BY InitType
<1>2. TypeOK /\ [Next]_vars => TypeOK'
  BY NextType
<1> QED
  BY <1>1, <1>2, PTL DEF Spec

-----------------------------------------------------------------------------
(* What every step preserves *)

(* Ids keep their selector and chunk, coverage and rows only grow. *)
Grows ==
  /\ nextId <= nextId'
  /\ \A j \in JobId : j < nextId => /\ jobs'[j].selector = jobs[j].selector
                                    /\ jobs'[j].chunk = jobs[j].chunk
  /\ \A s \in SelectorId : coverage[s] \subseteq coverage'[s]
  /\ rows \subseteq rows'

(* Coverage and rows stay, and every job keeps its identity. *)
Quiet ==
  /\ \A j \in JobId : /\ jobs'[j].selector = jobs[j].selector
                      /\ jobs'[j].chunk = jobs[j].chunk
                      /\ jobs'[j].status = "done" => jobs[j].status = "done"
                      /\ jobs'[j].status # "absent" => jobs[j].status # "absent"
  /\ nextId' = nextId /\ coverage' = coverage /\ rows' = rows

(* A step that leaves coverage and rows alone only grows them. *)
LEMMA QuietGrows == ASSUME TypeOK, Quiet PROVE Grows
<1>1. nextId <= nextId'
  BY DEF Quiet, TypeOK
<1> QED
  BY <1>1 DEF Quiet, Grows

(* fail_job changes no selector or chunk and completes nothing. *)
LEMMA FailJobIdentity ==
  ASSUME TypeOK, NEW w, NEW j \in JobId, NEW retryable, NEW due,
         jobs' = FailJob(w, j, retryable, due),
         UNCHANGED <<nextId, coverage, rows>>
  PROVE  Quiet
<1> DEFINE failed ==
      [jobs[j] EXCEPT !.status = IF retryable THEN "pending" ELSE "failed",
                      !.worker = NoWorker, !.leased = FALSE,
                      !.due = IF retryable THEN due ELSE jobs[j].due]
<1>1. /\ failed.selector = jobs[j].selector
      /\ failed.chunk = jobs[j].chunk
      /\ failed.status # "done"
  BY DEF TypeOK, Job
<1>2. CASE jobs[j].status = "running" /\ jobs[j].worker = w
  <2>1. jobs' = [jobs EXCEPT ![j] = failed]
    BY <1>2 DEF FailJob
  <2> HIDE DEF failed
  <2> QED
    BY <1>1, <1>2, <2>1 DEF Quiet, TypeOK
<1>3. CASE ~(jobs[j].status = "running" /\ jobs[j].worker = w)
  BY <1>3 DEF Quiet, FailJob
<1> QED
  BY <1>2, <1>3

(* extend_lease changes no selector, chunk or status. *)
LEMMA ExtendIdentity ==
  ASSUME TypeOK, NEW S, jobs' = Extend(S), UNCHANGED <<nextId, coverage, rows>>
  PROVE  Quiet
<1>1. ASSUME NEW j \in JobId
      PROVE  /\ jobs'[j].selector = jobs[j].selector
             /\ jobs'[j].chunk = jobs[j].chunk
             /\ jobs'[j].status = jobs[j].status
  BY DEF Extend, TypeOK, Job
<1> QED
  BY <1>1 DEF Quiet

(* The identity of jobs under completion. *)
LEMMA CompleteIdentity ==
  ASSUME TypeOK, NEW w, NEW S, NEW j \in JobId
  PROVE  /\ CompleteJobs(w, S)[j].selector = jobs[j].selector
         /\ CompleteJobs(w, S)[j].chunk = jobs[j].chunk
         /\ CompleteJobs(w, S)[j].status = "done" => jobs[j].status = "done" \/ j \in S
         /\ CompleteJobs(w, S)[j].status # "absent" => jobs[j].status # "absent"
BY DEF CompleteJobs, Complete, TypeOK, Job

(* The write transaction only adds rows and coverage. *)
LEMMA WriteGrows ==
  ASSUME TypeOK, NEW w \in Worker, WriteFill(w) PROVE Grows
<1>1. nextId <= nextId'
  BY DEF WriteFill, TypeOK
<1>2. \A j \in JobId : /\ jobs'[j].selector = jobs[j].selector
                       /\ jobs'[j].chunk = jobs[j].chunk
  BY CompleteIdentity DEF WriteFill
<1>3. \A s \in SelectorId : coverage[s] \subseteq coverage'[s]
  BY DEF WriteFill
<1>4. rows \subseteq rows'
  BY DEF WriteFill
<1> QED
  BY <1>1, <1>2, <1>3, <1>4 DEF Grows

(* More coverage covers more for a query. *)
LEMMA CoveredGrows ==
  ASSUME Grows, NEW s \in SelectorId
  PROVE  CoveredForQuery(s) \subseteq CoveredForQuery(s)'
BY DEF Grows, CoveredForQuery

(* A selector's own coverage counts for a query of it. *)
LEMMA OwnCoverage ==
  ASSUME (coverage \in [SelectorId -> SUBSET Blocks])', NEW s \in SelectorId
  PROVE  coverage'[s] \subseteq CoveredForQuery(s)'
<1>1. SelectorTable[s].selector \in Selector /\ Dataset(s) \in {"evm.logs", "evm.blocks"}
  BY FillJobsAssumption DEF Dataset
<1>2. CASE Dataset(s) = "evm.blocks"
  BY <1>2 DEF CoveredForQuery, Dataset
<1>3. CASE Dataset(s) = "evm.logs"
  <2> SUFFICES ASSUME NEW b \in coverage'[s],
                      NEW part \in SplitByAddress(SelectorTable[s].selector)
               PROVE  /\ b \in Blocks
                      /\ Covers(SelectorTable[s].selector, part)
    BY <1>3 DEF CoveredForQuery, Dataset
  <2> QED
    BY <1>1, CoversItsParts
<1> QED
  BY <1>1, <1>2, <1>3

(* The part of the invariant about one worker. *)
WorkerSound(w) == BatchSound(w) /\ ReadSound(w) /\ FetchSound(w)

(* The jobs of a batch stay what they were. *)
LEMMA BatchKept ==
  ASSUME TypeOK, TypeOK', Grows, NEW w \in Worker, BatchSound(w), NEW j \in wk[w].batch
  PROVE  /\ j \in JobId /\ j < nextId' /\ wk[w].leader \in JobId
         /\ jobs'[j].selector = jobs[j].selector
         /\ jobs'[wk[w].leader].selector = jobs[wk[w].leader].selector
         /\ jobs'[wk[w].leader].chunk = jobs[wk[w].leader].chunk
         /\ jobs'[j].chunk = jobs'[wk[w].leader].chunk
         /\ Dataset(jobs'[j].selector) = Dataset(jobs'[wk[w].leader].selector)
<1>1. j \in JobId /\ wk[w].leader \in JobId
  BY DEF TypeOK, WorkerState
<1>2. j < nextId /\ wk[w].leader < nextId
  BY DEF BatchSound
<1>3. j < nextId'
  BY <1>1, <1>2, JobIdType DEF Grows, TypeOK
<1> QED
  BY <1>1, <1>2, <1>3 DEF Grows, BatchSound, SameCell

(* A step of another actor leaves what a worker relies on intact. *)
LEMMA Undisturbed ==
  ASSUME TypeOK, TypeOK', Grows, NEW w \in Worker, WorkerSound(w), wk'[w] = wk[w]
  PROVE  WorkerSound(w)'
<1> USE DEF WorkerSound
<1>1. BatchSound(w)'
  BY BatchKept DEF BatchSound, SameCell
<1>2. Members(w)' = Members(w)
  BY BatchKept DEF Members
<1>3. ASSUME NEW s \in Members(w)
      PROVE  /\ s \in SelectorId
             /\ jobs'[wk[w].leader].chunk = jobs[wk[w].leader].chunk
             /\ CoveredForQuery(s) \subseteq CoveredForQuery(s)'
  <2>1. PICK j \in wk[w].batch : s = jobs[j].selector
    BY DEF Members
  <2>2. s \in SelectorId
    BY <2>1, BatchKept DEF TypeOK, Job
  <2> QED
    BY <2>1, <2>2, BatchKept, CoveredGrows
<1>4. ReadSound(w)'
  BY <1>2, <1>3 DEF ReadSound
<1>5. FetchSound(w)'
  <2>1. ASSUME NEW s, NEW r PROVE RowMatches(s, r)' = RowMatches(s, r)
    BY DEF RowMatches, Dataset
  <2> QED
    BY <1>2, <1>3, <2>1 DEF FetchSound, RowMatches, Dataset
<1> QED
  BY <1>1, <1>4, <1>5

(* A worker that relies on nothing but its batch. *)
Resting == Pc \ {"claimed", "fetching", "holding", "committing"}

(* A worker that gave up its fill keeps its batch or has none. *)
LEMMA Rested ==
  ASSUME TypeOK, TypeOK', Grows, NEW w \in Worker, BatchSound(w),
         wk'[w].pc \in Resting,
         wk'[w].held \subseteq wk'[w].batch,
         \/ wk'[w].batch = {}
         \/ wk'[w].batch = wk[w].batch /\ wk'[w].leader = wk[w].leader
  PROVE  WorkerSound(w)'
<1>1. BatchSound(w)'
  BY BatchKept DEF BatchSound, SameCell, Resting
<1> QED
  BY <1>1 DEF WorkerSound, ReadSound, FetchSound, Resting

(* A worker placed at a step without a batch holds nothing. *)
LEMMA AtFields ==
  ASSUME NEW pc
  PROVE  At(pc).pc = pc /\ At(pc).batch = {} /\ At(pc).held = {}
BY DEF At

(* After its fill a worker relies on nothing it read. *)
LEMMA AfterFillRests ==
  ASSUME TypeOK, NEW w \in Worker, NEW failure,
         wk' = [wk EXCEPT ![w] = AfterFill(w, failure)]
  PROVE  /\ wk'[w].pc \in Resting
         /\ wk'[w].held \subseteq wk'[w].batch
         /\ \/ wk'[w].batch = {}
            \/ wk'[w].batch = wk[w].batch /\ wk'[w].leader = wk[w].leader
BY DEF AfterFill, At, Resting, Pc, TypeOK

(* A worker leaving a failed batch relies on nothing it read. *)
LEMMA LeaveRests ==
  ASSUME TypeOK, NEW w \in Worker, NEW j, NEW next \in {"idle", "stopped"},
         BatchSound(w), wk[w].pc \in Resting, Leave(w, j, next)
  PROVE  /\ wk'[w].pc \in Resting
         /\ wk'[w].held \subseteq wk'[w].batch
         /\ \/ wk'[w].batch = {}
            \/ wk'[w].batch = wk[w].batch /\ wk'[w].leader = wk[w].leader
<1>1. CASE wk[w].left = {j}
  BY <1>1 DEF Leave, At, Resting, Pc, TypeOK
<1>2. CASE wk[w].left # {j}
  <2>1. wk'[w] = [wk[w] EXCEPT !.left = wk[w].left \ {j}]
    BY <1>2 DEF Leave, TypeOK
  <2>2. wk[w] \in WorkerState
    BY DEF TypeOK
  <2> QED
    BY <2>1, <2>2 DEF BatchSound, WorkerState
<1> QED
  BY <1>1, <1>2

(* A worker that shuts down relies on nothing it read. *)
LEMMA ShutdownRests ==
  ASSUME TypeOK, NEW w \in Worker, ShutdownTo(w)
  PROVE  /\ wk'[w].pc \in Resting
         /\ wk'[w].held \subseteq wk'[w].batch
         /\ \/ wk'[w].batch = {}
            \/ wk'[w].batch = wk[w].batch /\ wk'[w].leader = wk[w].leader
BY DEF ShutdownTo, At, Resting, Pc, TypeOK

-----------------------------------------------------------------------------
(* The invariant is inductive *)

(* When one worker steps, the others stay sound. *)
LEMMA OthersSound ==
  ASSUME FillInv, TypeOK', Grows, NEW w \in Worker,
         \A v \in Worker : v # w => wk'[v] = wk[v],
         WorkerSound(w)'
  PROVE  WorkersSound'
<1>1. ASSUME NEW v \in Worker PROVE WorkerSound(v)'
  <2>1. CASE v = w
    BY <2>1
  <2>2. CASE v # w
    BY <2>2, Undisturbed DEF FillInv, WorkersSound, WorkerSound
  <2> QED
    BY <2>1, <2>2
<1> QED
  BY <1>1 DEF WorkersSound, WorkerSound

(* DoneMeansCovered for the next state, one job and its selector at a time. *)
LEMMA DoneByCases ==
  ASSUME TypeOK',
         \A j \in JobId, s \in SelectorId :
           jobs'[j].status = "done" /\ jobs'[j].selector = s =>
             jobs'[j].chunk \subseteq CoveredForQuery(s)'
  PROVE  DoneMeansCovered'
<1>1. \A j \in JobId : jobs'[j].selector \in SelectorId
  BY DEF TypeOK, Job
<1> QED
  BY <1>1 DEF DoneMeansCovered, CoveredForQuery, Dataset

(* A quiet step keeps what the invariant says of the tables. *)
LEMMA TablesQuiet ==
  ASSUME FillInv, TypeOK', Quiet
  PROVE  InsertedBelow' /\ CoverageComplete' /\ DoneMeansCovered'
<1>1. InsertedBelow'
  BY DEF FillInv, InsertedBelow, Quiet
<1>2. CoverageComplete'
  BY DEF FillInv, CoverageComplete, Quiet, RowMatches, Dataset
<1>3. ASSUME NEW j \in JobId, NEW s \in SelectorId,
             jobs'[j].status = "done", jobs'[j].selector = s
      PROVE  jobs'[j].chunk \subseteq CoveredForQuery(s)'
  <2>1. /\ jobs[j].status = "done"
        /\ jobs'[j].chunk = jobs[j].chunk
        /\ jobs[j].selector = s
    BY <1>3 DEF Quiet
  <2>2. jobs[j].chunk \subseteq CoveredForQuery(s)
    BY <2>1 DEF FillInv, DoneMeansCovered
  <2>3. CoveredForQuery(s)' = CoveredForQuery(s)
    BY DEF Quiet, CoveredForQuery, Dataset
  <2> QED
    BY <2>1, <2>2, <2>3
<1>4. DoneMeansCovered'
  BY <1>3, DoneByCases
<1> QED
  BY <1>1, <1>2, <1>4

(* A step that changes no coverage, row or job identity, and leaves its     *)
(* worker sound, keeps the invariant.                                       *)
LEMMA QuietStep ==
  ASSUME FillInv, TypeOK', Quiet, NEW w \in Worker,
         \A v \in Worker : v # w => wk'[v] = wk[v],
         WorkerSound(w)'
  PROVE  FillInv'
<1>1. Grows
  BY QuietGrows DEF FillInv
<1>2. WorkersSound'
  BY <1>1, OthersSound
<1> QED
  BY <1>2, TablesQuiet DEF FillInv

(* A step that touches no table is quiet. *)
LEMMA UnchangedQuiet ==
  ASSUME UNCHANGED <<jobs, nextId, coverage, rows>> PROVE Quiet
BY DEF Quiet

(* A worker whose fill ended, by a step that touched no table. *)
LEMMA RestStep ==
  ASSUME FillInv, TypeOK', Quiet, NEW w \in Worker,
         \A v \in Worker : v # w => wk'[v] = wk[v],
         wk'[w].pc \in Resting,
         wk'[w].held \subseteq wk'[w].batch,
         \/ wk'[w].batch = {}
         \/ wk'[w].batch = wk[w].batch /\ wk'[w].leader = wk[w].leader
  PROVE  FillInv'
<1>1. Grows /\ TypeOK /\ BatchSound(w)
  BY QuietGrows DEF FillInv, WorkersSound
<1>2. WorkerSound(w)'
  BY <1>1, Rested
<1> QED
  BY <1>2, QuietStep

(* The write transaction: coverage grows by blocks whose rows are written   *)
(* with it, and jobs are completed only when all of their chunk is covered. *)
LEMMA WriteTables ==
  ASSUME FillInv, TypeOK', NEW w \in Worker, WriteFill(w)
  PROVE  InsertedBelow' /\ CoverageComplete' /\ DoneMeansCovered'
<1>1. Grows
  BY WriteGrows DEF FillInv
<1>2. BatchSound(w) /\ FetchSound(w) /\ wk[w].pc = "committing" /\ TypeOK
  BY DEF FillInv, WorkersSound, WriteFill
<1>3. InsertedBelow'
  BY <1>2, CompleteIdentity DEF WriteFill, FillInv, InsertedBelow
<1>4. CoverageComplete'
  <2> SUFFICES ASSUME NEW s \in SelectorId, NEW r \in Row,
                      RowMatches(s, r), r.block \in coverage'[s]
               PROVE  r \in rows'
    BY DEF CoverageComplete, RowMatches, Dataset
  <2>1. CASE r.block \in coverage[s]
    BY <1>1, <2>1 DEF FillInv, CoverageComplete, Grows
  <2>2. CASE r.block \in wk[w].got[s]
    BY <1>2, <2>2 DEF FetchSound, WriteFill
  <2> QED
    BY <2>1, <2>2 DEF WriteFill
<1>5. ASSUME NEW j \in JobId, NEW s \in SelectorId,
             jobs'[j].status = "done", jobs'[j].selector = s
      PROVE  jobs'[j].chunk \subseteq CoveredForQuery(s)'
  <2>1. /\ jobs[j].selector = s /\ jobs'[j].chunk = jobs[j].chunk
        /\ jobs[j].status = "done" \/ (j \in wk[w].held /\ wk[w].failure = "none")
    BY <1>2, <1>5, CompleteIdentity DEF WriteFill
  <2>2. CoveredForQuery(s) \subseteq CoveredForQuery(s)'
    BY <1>1, CoveredGrows
  <2>3. CASE jobs[j].status = "done"
    <3>1. jobs[j].chunk \subseteq CoveredForQuery(s)
      BY <2>1, <2>3 DEF FillInv, DoneMeansCovered
    <3> QED
      BY <2>1, <2>2, <3>1
  <2>4. CASE j \in wk[w].held /\ wk[w].failure = "none"
    <3>1. j \in wk[w].batch /\ s \in Members(w)
      BY <1>2, <2>1, <2>4 DEF BatchSound, Members
    <3>2. jobs[j].chunk = jobs[wk[w].leader].chunk
      BY <1>2, <3>1 DEF BatchSound, SameCell
    <3>3. jobs[j].chunk \ wk[w].got[s] \subseteq CoveredForQuery(s)
      BY <1>2, <2>4, <3>1, <3>2 DEF FetchSound
    <3>4. wk[w].got[s] \subseteq coverage'[s]
      BY <2>1, <2>4 DEF WriteFill
    <3>5. coverage'[s] \subseteq CoveredForQuery(s)'
      BY OwnCoverage DEF TypeOK
    <3> QED
      BY <2>1, <2>2, <3>3, <3>4, <3>5
  <2> QED
    BY <2>1, <2>3, <2>4
<1>6. DoneMeansCovered'
  BY <1>5, DoneByCases
<1> QED
  BY <1>3, <1>4, <1>6

(* Enqueueing keeps the invariant: a job born done is covered. *)
LEMMA EnqueueInv ==
  ASSUME FillInv, TypeOK', NEW s \in SelectorId, NEW c \in Chunk, NEW p \in Purpose,
         Enqueue(s, c, p)
  PROVE  FillInv'
<1> DEFINE new ==
      [NoJob EXCEPT !.status = IF c \subseteq coverage[s] THEN "done" ELSE "pending",
                    !.selector = s, !.chunk = c, !.purpose = p, !.due = TRUE]
<1>1. /\ new.selector = s /\ new.chunk = c
      /\ new.status = "done" => c \subseteq coverage[s]
  BY DEF NoJob
<1>2. /\ jobs' = [jobs EXCEPT ![nextId] = new]
      /\ nextId' = nextId + 1
      /\ UNCHANGED <<coverage, rows, wk>>
  BY DEF Enqueue
<1> HIDE DEF new
<1>3. TypeOK /\ nextId \in Nat /\ jobs \in [JobId -> Job]
  BY DEF FillInv, TypeOK
<1>4. ASSUME NEW j \in JobId
      PROVE  jobs'[j] = IF j = nextId THEN new ELSE jobs[j]
  BY <1>2, <1>3
<1>5. Grows
  BY <1>2, <1>3, <1>4, JobIdType DEF Grows
<1>6. InsertedBelow'
  BY <1>2, <1>3, <1>4, JobIdType DEF FillInv, InsertedBelow
<1>7. CoverageComplete'
  BY <1>2 DEF FillInv, CoverageComplete, RowMatches, Dataset
<1>8. ASSUME NEW j \in JobId, NEW t \in SelectorId,
             jobs'[j].status = "done", jobs'[j].selector = t
      PROVE  jobs'[j].chunk \subseteq CoveredForQuery(t)'
  <2>1. CASE j = nextId
    <3>1. coverage'[t] \subseteq CoveredForQuery(t)'
      BY OwnCoverage DEF TypeOK
    <3> QED
      BY <1>1, <1>2, <1>4, <1>8, <2>1, <3>1
  <2>2. CASE j # nextId
    <3>1. jobs[j].chunk \subseteq CoveredForQuery(t)
      BY <1>4, <1>8, <2>2 DEF FillInv, DoneMeansCovered
    <3> QED
      BY <1>4, <1>5, <2>2, <3>1, CoveredGrows
  <2> QED
    BY <2>1, <2>2
<1>9. DoneMeansCovered'
  BY <1>8, DoneByCases
<1>10. ASSUME NEW w \in Worker PROVE WorkerSound(w)'
  BY <1>2, <1>3, <1>5, Undisturbed DEF FillInv, WorkersSound, WorkerSound
<1> QED
  BY <1>6, <1>7, <1>9, <1>10 DEF FillInv, WorkersSound, WorkerSound

(* The steps of the queue keep the invariant. *)
LEMMA QueueStepInv ==
  ASSUME FillInv, TypeOK', QueueStep PROVE FillInv'
<1>1. ASSUME NEW j \in JobId, Prune(j) PROVE Quiet
  <2> DEFINE gone == [NoJob EXCEPT !.selector = jobs[j].selector, !.chunk = jobs[j].chunk]
  <2>1. gone.selector = jobs[j].selector /\ gone.chunk = jobs[j].chunk
        /\ gone.status = "absent"
    BY DEF NoJob
  <2>2. jobs' = [jobs EXCEPT ![j] = gone] /\ UNCHANGED <<nextId, coverage, rows>>
    BY <1>1 DEF Prune
  <2> HIDE DEF gone
  <2> QED
    BY <2>1, <2>2 DEF Quiet, FillInv, TypeOK
<1>2. ASSUME NEW j \in JobId, LeaseExpires(j) \/ BackoffElapses(j) PROVE Quiet
  <2> DEFINE expired == [jobs[j] EXCEPT !.leased = FALSE]
             ready   == [jobs[j] EXCEPT !.due = TRUE]
  <2>1. /\ expired.selector = jobs[j].selector /\ expired.chunk = jobs[j].chunk
        /\ expired.status = jobs[j].status
        /\ ready.selector = jobs[j].selector /\ ready.chunk = jobs[j].chunk
        /\ ready.status = jobs[j].status
    BY DEF FillInv, TypeOK, Job
  <2>2. /\ jobs' = [jobs EXCEPT ![j] = expired] \/ jobs' = [jobs EXCEPT ![j] = ready]
        /\ UNCHANGED <<nextId, coverage, rows>>
    BY <1>2 DEF LeaseExpires, BackoffElapses
  <2> HIDE DEF expired, ready
  <2> QED
    BY <2>1, <2>2 DEF Quiet, FillInv, TypeOK
<1>3. ASSUME Quiet, UNCHANGED wk PROVE FillInv'
  <2>1. Grows /\ TypeOK
    BY <1>3, QuietGrows DEF FillInv
  <2>2. ASSUME NEW w \in Worker PROVE WorkerSound(w)'
    BY <1>3, <2>1, Undisturbed DEF FillInv, WorkersSound, WorkerSound
  <2> QED
    BY <1>3, <2>2, TablesQuiet DEF FillInv, WorkersSound, WorkerSound
<1>4. ASSUME NEW j \in JobId, Prune(j) \/ LeaseExpires(j) \/ BackoffElapses(j)
      PROVE  FillInv'
  <2>1. UNCHANGED wk
    BY <1>4 DEF Prune, LeaseExpires, BackoffElapses
  <2> QED
    BY <1>1, <1>2, <1>3, <1>4, <2>1
<1> QED
  BY <1>4, EnqueueInv DEF QueueStep

(* Claiming keeps the invariant. *)
LEMMA ClaimStepInv ==
  ASSUME FillInv, TypeOK', NEW w \in Worker, ClaimStep(w) PROVE FillInv'
<1>t. TypeOK /\ BatchSound(w) /\ wk[w] \in WorkerState
  BY DEF FillInv, WorkersSound, TypeOK
<1>1. ASSUME NEW j \in JobId, Claim(w, j) PROVE FillInv'
  <2> DEFINE run == Run(jobs[j], w, TRUE)
  <2>1. run.selector = jobs[j].selector /\ run.chunk = jobs[j].chunk
        /\ run.status = "running"
    <3>1. jobs[j] \in Job /\ TRUE \in BOOLEAN
      BY <1>t DEF TypeOK
    <3> QED
      BY <3>1, RunType
  <2>2. jobs' = [jobs EXCEPT ![j] = run] /\ UNCHANGED <<nextId, coverage, rows>>
    BY <1>1 DEF Claim
  <2> HIDE DEF run
  <2>3. jobs[j].status # "absent" /\ j < nextId
    BY <1>1 DEF Claim, Claimable, FillInv, InsertedBelow
  <2>4. Quiet
    BY <1>t, <2>1, <2>2, <2>3 DEF Quiet, TypeOK
  <2>5. /\ wk'[w].pc = "claimed" /\ wk'[w].batch = {j} /\ wk'[w].leader = j
        /\ wk'[w].held = {}
        /\ \A v \in Worker : v # w => wk'[v] = wk[v]
    BY <1>t, <1>1 DEF Claim, TypeOK, At
  <2>6. WorkerSound(w)'
    BY <2>2, <2>3, <2>5 DEF WorkerSound, BatchSound, ReadSound, FetchSound, SameCell
  <2> QED
    BY <2>4, <2>5, <2>6, QuietStep
<1>2. ASSUME ClaimSiblings(w) PROVE FillInv'
  <2> DEFINE leader     == wk[w].leader
             candidates == SiblingCandidates(leader)
             siblings   == {k \in candidates :
                              Cardinality({i \in candidates : i < k}) < MaxAddresses - 1}
             leased     == /\ jobs[leader].status = "running"
                           /\ jobs[leader].worker = w
                           /\ jobs[leader].leased
  <2>1. \A k \in siblings : /\ k \in JobId /\ SameCell(k, leader)
                            /\ jobs[k].status = "pending"
                            /\ k < nextId
    BY DEF SiblingCandidates, FillInv, InsertedBelow
  <2>2. leased \in BOOLEAN
    OBVIOUS
  <2>3. /\ jobs' = [k \in JobId |-> IF k \in siblings THEN Run(jobs[k], w, leased)
                                                     ELSE jobs[k]]
        /\ wk' = [wk EXCEPT ![w].pc = "reading", ![w].batch = @ \cup siblings]
        /\ wk[w].pc = "claimed"
        /\ UNCHANGED <<nextId, coverage, rows>>
    BY <1>2 DEF ClaimSiblings
  <2> HIDE DEF candidates, siblings, leased
  <2>4. Quiet
    <3>1. \A k \in JobId : /\ Run(jobs[k], w, leased).selector = jobs[k].selector
                           /\ Run(jobs[k], w, leased).chunk = jobs[k].chunk
                           /\ Run(jobs[k], w, leased).status = "running"
      BY <1>t, <2>2, RunType DEF TypeOK
    <3> QED
      BY <2>1, <2>3, <3>1 DEF Quiet
  <2>5. /\ wk'[w].pc = "reading" /\ wk'[w].leader = leader
        /\ wk'[w].batch = wk[w].batch \cup siblings /\ wk'[w].held = wk[w].held
        /\ \A v \in Worker : v # w => wk'[v] = wk[v]
    BY <1>t, <2>3 DEF TypeOK, WorkerState
  <2>6. wk[w].batch # {}
    BY <1>t, <2>3 DEF BatchSound
  <2>7. BatchSound(w)'
    <3>1. leader \in wk[w].batch
      BY <1>t, <2>6 DEF BatchSound
    <3>2. ASSUME NEW k \in wk'[w].batch
          PROVE  k \in JobId /\ k < nextId /\ SameCell(k, leader)
      BY <1>t, <2>1, <2>5 DEF BatchSound, WorkerState
    <3>3. leader \in JobId
      BY <1>t DEF WorkerState
    <3> HIDE DEF leader
    <3> QED
      BY <1>t, <2>4, <2>5, <3>1, <3>2, <3>3 DEF BatchSound, SameCell, Quiet
  <2>8. WorkerSound(w)'
    BY <2>5, <2>7 DEF WorkerSound, ReadSound, FetchSound
  <2> QED
    BY <2>4, <2>5, <2>8, QuietStep
<1>3. ASSUME ClaimSiblingsFails(w) PROVE FillInv'
  BY <1>t, <1>3, UnchangedQuiet, RestStep DEF ClaimSiblingsFails, At, Resting, Pc, TypeOK
<1> QED
  BY <1>1, <1>2, <1>3 DEF ClaimStep

(* A complete fetch, or a prefix of it: the rows of every recorded block    *)
(* were returned by the group's query and kept by the re-filter.            *)
LEMMA FetchedComplete ==
  ASSUME TypeOK, NEW missing, NEW groups \in Grouping(missing),
         NEW got, NEW s \in SelectorId, NEW r \in Row,
         got[s] \subseteq missing[s],
         RowMatches(s, r), r.block \in got[s]
  PROVE  r \in FetchedRows(groups, got)
<1>1. missing[s] # {}
  OBVIOUS
<1>2. PICK g \in groups : s \in g
  BY <1>1 DEF Grouping
<1>3. Batchable(Sel(g), MaxAddresses)
  BY DEF Grouping
<1>4. SelectorTable[s].selector \in Sel(g)
  BY <1>2 DEF Sel
<1>5. Dataset(s) = "evm.logs" => Matches(BatchSelector(Sel(g)), r.key)
  <2> SUFFICES ASSUME Dataset(s) = "evm.logs"
               PROVE  Matches(BatchSelector(Sel(g)), r.key)
    OBVIOUS
  <2>1. Matches(SelectorTable[s].selector, r.key)
    BY DEF RowMatches
  <2> QED
    BY <1>3, <1>4, <2>1, BatchMatches
<1>6. Retrieved(g, r)
  BY <1>2, <1>5 DEF Retrieved
<1> QED
  BY <1>2, <1>6 DEF FetchedRows

(* After a fetch, what the worker will record is complete. *)
LEMMA FetchResultInv ==
  ASSUME FillInv, TypeOK', NEW w \in Worker, wk[w].pc = "fetching",
         NEW groups \in Grouping(wk[w].missing), NEW got, NEW failure \in Failure,
         \A s \in SelectorId : got[s] \subseteq wk[w].missing[s],
         failure = "none" => got = wk[w].missing,
         FetchResult(w, groups, got, failure)
  PROVE  FillInv'
<1>1. TypeOK /\ BatchSound(w) /\ ReadSound(w) /\ wk[w] \in WorkerState
  BY DEF FillInv, WorkersSound, TypeOK
<1>2. Quiet
  BY UnchangedQuiet DEF FetchResult
<1>3. /\ wk'[w].pc = "holding" /\ wk'[w].got = got /\ wk'[w].failure = failure
      /\ wk'[w].fetched = FetchedRows(groups, got)
      /\ wk'[w].batch = wk[w].batch /\ wk'[w].leader = wk[w].leader
      /\ wk'[w].held = wk[w].held
      /\ \A v \in Worker : v # w => wk'[v] = wk[v]
  BY <1>1 DEF FetchResult, TypeOK, WorkerState
<1>4. UNCHANGED <<jobs, nextId, coverage, rows>>
  BY DEF FetchResult
<1>5. BatchSound(w)'
  BY <1>1, <1>3, <1>4 DEF BatchSound, SameCell
<1>6. ReadSound(w)'
  BY <1>3 DEF ReadSound
<1>7. FetchSound(w)'
  <2>1. ASSUME NEW s \in SelectorId, NEW r \in Row,
               RowMatches(s, r), r.block \in got[s]
        PROVE  r \in FetchedRows(groups, got)
    BY <1>1, <2>1, FetchedComplete
  <2>2. ASSUME failure = "none", NEW s \in Members(w)
        PROVE  jobs[wk[w].leader].chunk \ got[s] \subseteq CoveredForQuery(s)
    BY <1>1, <2>2 DEF ReadSound
  <2>3. Members(w)' = Members(w)
    BY <1>3, <1>4 DEF Members
  <2>4. ASSUME NEW s PROVE CoveredForQuery(s)' = CoveredForQuery(s)
    BY <1>4 DEF CoveredForQuery, Dataset
  <2>5. ASSUME failure = "none", NEW s \in Members(w)'
        PROVE  jobs'[wk'[w].leader].chunk \ wk'[w].got[s] \subseteq CoveredForQuery(s)'
    BY <1>3, <1>4, <2>2, <2>3, <2>4, <2>5
  <2>6. ASSUME NEW s \in SelectorId, NEW r \in Row,
               RowMatches(s, r), r.block \in wk'[w].got[s]
        PROVE  r \in wk'[w].fetched
    BY <1>3, <2>1, <2>6
  <2> QED
    BY <1>3, <2>5, <2>6 DEF FetchSound, RowMatches, Dataset
<1> QED
  BY <1>2, <1>3, <1>5, <1>6, <1>7, QuietStep DEF WorkerSound

(* The write transaction keeps the invariant. *)
LEMMA WriteInv ==
  ASSUME FillInv, TypeOK', NEW w \in Worker, WriteFill(w),
         \A v \in Worker : v # w => wk'[v] = wk[v],
         wk'[w].pc \in Resting,
         wk'[w].held \subseteq wk'[w].batch,
         \/ wk'[w].batch = {}
         \/ wk'[w].batch = wk[w].batch /\ wk'[w].leader = wk[w].leader
  PROVE  FillInv'
<1>1. Grows /\ TypeOK /\ BatchSound(w)
  BY WriteGrows DEF FillInv, WorkersSound
<1>2. WorkerSound(w)'
  BY <1>1, Rested
<1>3. WorkersSound'
  BY <1>1, <1>2, OthersSound
<1> QED
  BY <1>3, WriteTables DEF FillInv

(* Every step of a fill keeps the invariant. *)
LEMMA FillStepInv ==
  ASSUME FillInv, TypeOK', NEW w \in Worker, FillStep(w) PROVE FillInv'
<1>t. TypeOK /\ BatchSound(w) /\ FetchSound(w) /\ wk[w] \in WorkerState
  BY DEF FillInv, WorkersSound, TypeOK
<1>1. ASSUME ReadCovered(w) PROVE FillInv'
  <2> DEFINE gap(s) == jobs[wk[w].leader].chunk \ CoveredForQuery(s)
             gaps == [s \in SelectorId |-> IF s \in Members(w) THEN gap(s) ELSE {}]
  <2>1. Quiet /\ UNCHANGED <<jobs, nextId, coverage, rows>>
    BY <1>1, UnchangedQuiet DEF ReadCovered
  <2>2. /\ wk'[w].pc = "fetching" /\ wk'[w].missing = gaps
        /\ wk'[w].batch = wk[w].batch /\ wk'[w].leader = wk[w].leader
        /\ wk'[w].held = wk[w].held
        /\ \A v \in Worker : v # w => wk'[v] = wk[v]
    BY <1>t, <1>1 DEF ReadCovered, TypeOK, WorkerState
  <2>3. BatchSound(w)'
    BY <1>t, <2>1, <2>2 DEF BatchSound, SameCell
  <2>4. ReadSound(w)'
    <3>1. Members(w)' = Members(w)
      BY <2>1, <2>2 DEF Members
    <3>2. Members(w) \subseteq SelectorId
      BY <1>t DEF Members, TypeOK, Job, WorkerState
    <3>3. ASSUME NEW s \in Members(w)
          PROVE  jobs[wk[w].leader].chunk \ wk'[w].missing[s] \subseteq CoveredForQuery(s)
      BY <2>2, <3>2
    <3>4. ASSUME NEW s PROVE CoveredForQuery(s)' = CoveredForQuery(s)
      BY <2>1 DEF CoveredForQuery, Dataset
    <3> QED
      BY <2>1, <2>2, <3>1, <3>3, <3>4 DEF ReadSound
  <2>5. FetchSound(w)'
    BY <2>2 DEF FetchSound
  <2> QED
    BY <2>1, <2>2, <2>3, <2>4, <2>5, QuietStep DEF WorkerSound
<1>2. ASSUME HeadsFail(w) \/ StoreFails(w) \/ CommitReorg(w) PROVE FillInv'
  <2>1. PICK failure : Fails(w, failure)
    BY <1>2 DEF HeadsFail, StoreFails, CommitReorg
  <2>2. Quiet /\ wk' = [wk EXCEPT ![w] = AfterFill(w, failure)]
    BY <2>1, UnchangedQuiet DEF Fails
  <2>3. \A v \in Worker : v # w => wk'[v] = wk[v]
    BY <1>t, <2>2 DEF TypeOK
  <2> QED
    BY <1>t, <2>2, <2>3, AfterFillRests, RestStep
<1>3. ASSUME Fetch(w) PROVE FillInv'
  <2>1. PICK groups \in Grouping(wk[w].missing) :
          FetchResult(w, groups, wk[w].missing, "none")
    BY <1>3 DEF Fetch
  <2> QED
    BY <1>3, <2>1, FetchResultInv DEF Fetch, Failure
<1>4. ASSUME FetchFails(w) PROVE FillInv'
  <2>1. PICK groups \in Grouping(wk[w].missing) :
        \E group \in groups, done \in SUBSET groups,
           cut \in Blocks, failure \in {"retryable", "fatal"} :
          FetchResult(w, groups, CutFetch(wk[w].missing, done, group, cut), failure)
    BY <1>4 DEF FetchFails
  <2>2. PICK group \in groups, done \in SUBSET groups,
             cut \in Blocks, failure \in {"retryable", "fatal"} :
          FetchResult(w, groups, CutFetch(wk[w].missing, done, group, cut), failure)
    BY <2>1
  <2>3. \A s \in SelectorId :
          CutFetch(wk[w].missing, done, group, cut)[s] \subseteq wk[w].missing[s]
    BY DEF CutFetch
  <2>4. failure \in Failure /\ failure # "none" /\ wk[w].pc = "fetching"
    BY <1>4 DEF Failure, FetchFails
  <2> QED
    BY <2>2, <2>3, <2>4, FetchResultInv
<1>5. ASSUME HoldLeases(w) PROVE FillInv'
  <2>1. Quiet
    BY <1>t, <1>5, ExtendIdentity DEF HoldLeases
  <2>2. /\ wk[w].pc = "holding"
        /\ wk'[w].pc = "committing" /\ wk'[w].held = StillHeld(w)
        /\ wk'[w].batch = wk[w].batch /\ wk'[w].leader = wk[w].leader
        /\ wk'[w].got = wk[w].got /\ wk'[w].fetched = wk[w].fetched
        /\ wk'[w].failure = wk[w].failure
        /\ \A v \in Worker : v # w => wk'[v] = wk[v]
    BY <1>t, <1>5 DEF HoldLeases, TypeOK, WorkerState
  <2>3. \A j \in wk[w].batch : j \in JobId
    BY <1>t DEF WorkerState
  <2>4. wk[w].leader \in JobId
    BY <1>t DEF WorkerState
  <2>5. BatchSound(w)'
    <3>1. BatchSound(w) /\ StillHeld(w) \subseteq wk[w].batch
      BY <1>t DEF StillHeld
    <3>2. /\ wk'[w].batch # {} => wk'[w].leader \in wk'[w].batch
          /\ wk'[w].pc # "claimed" /\ wk'[w].held \subseteq wk'[w].batch
      BY <3>1, <2>2 DEF BatchSound
    <3>3. ASSUME NEW j \in wk'[w].batch
          PROVE  /\ j < nextId' /\ jobs'[j].chunk = jobs'[wk'[w].leader].chunk
                 /\ Dataset(jobs'[j].selector) = Dataset(jobs'[wk'[w].leader].selector)
      <4>1. j \in wk[w].batch /\ j \in JobId
        BY <2>2, <2>3, Zenon
      <4>2. /\ j < nextId /\ jobs[j].chunk = jobs[wk[w].leader].chunk
            /\ Dataset(jobs[j].selector) = Dataset(jobs[wk[w].leader].selector)
        BY <3>1, <4>1, Zenon DEF BatchSound, SameCell
      <4>3. /\ jobs'[j].selector = jobs[j].selector /\ jobs'[j].chunk = jobs[j].chunk
            /\ jobs'[wk'[w].leader].selector = jobs[wk[w].leader].selector
            /\ jobs'[wk'[w].leader].chunk = jobs[wk[w].leader].chunk /\ nextId' = nextId
        BY <2>1, <2>2, <2>4, <4>1, Zenon DEF Quiet
      <4> QED BY <4>2, <4>3, Zenon
    <3> QED BY <3>2, <3>3, Zenon DEF BatchSound, SameCell
  <2>6. FetchSound(w)'
    <3>1. Members(w)' = Members(w)
      BY <2>1, <2>2, <2>3 DEF Members, Quiet
    <3>2. ASSUME NEW s PROVE CoveredForQuery(s)' = CoveredForQuery(s)
      BY <2>1 DEF CoveredForQuery, Dataset, Quiet
    <3>3. jobs'[wk'[w].leader].chunk = jobs[wk[w].leader].chunk
      BY <2>1, <2>2, <2>4 DEF Quiet
    <3> QED
      BY <1>t, <2>2, <3>1, <3>2, <3>3 DEF FetchSound, RowMatches, Dataset
  <2>7. ReadSound(w)'
    BY <2>2 DEF ReadSound
  <2> QED
    BY <2>1, <2>2, <2>5, <2>6, <2>7, QuietStep DEF WorkerSound
<1>6. ASSUME Commit(w) \/ CommitUnacknowledged(w) PROVE FillInv'
  <2>1. WriteFill(w)
    BY <1>6 DEF Commit, CommitUnacknowledged
  <2>2. PICK failure : wk' = [wk EXCEPT ![w] = AfterFill(w, failure)]
    BY <1>6 DEF Commit, CommitUnacknowledged
  <2>3. \A v \in Worker : v # w => wk'[v] = wk[v]
    BY <1>t, <2>2 DEF TypeOK
  <2> QED
    BY <1>t, <2>1, <2>2, <2>3, AfterFillRests, WriteInv
<1> QED
  BY <1>1, <1>2, <1>3, <1>4, <1>5, <1>6 DEF FillStep

(* Recording a failure and releasing keep the invariant. *)
LEMMA FailStepInv ==
  ASSUME FillInv, TypeOK', NEW w \in Worker, FailStep(w) PROVE FillInv'
<1>t. TypeOK /\ BatchSound(w)
  BY DEF FillInv, WorkersSound
<1>1. PICK j \in JobId : RecordFailure(w, j) \/ Release(w, j) \/ FailJobLost(w, j)
  BY DEF FailStep
<1>2. Quiet
  <2>1. CASE RecordFailure(w, j)
    <3> DEFINE retryable == wk[w].failure = "retryable"
    <3>1. jobs' = FailJob(w, j, retryable, FALSE) /\ UNCHANGED <<nextId, coverage, rows>>
      BY <2>1 DEF RecordFailure
    <3> HIDE DEF retryable
    <3> QED
      BY <1>t, <3>1, FailJobIdentity
  <2>2. CASE Release(w, j)
    <3>1. jobs' = FailJob(w, j, TRUE, TRUE) /\ UNCHANGED <<nextId, coverage, rows>>
      BY <2>2 DEF Release
    <3> QED
      BY <1>t, <3>1, FailJobIdentity
  <2>3. CASE FailJobLost(w, j)
    BY <2>3, UnchangedQuiet DEF FailJobLost
  <2> QED
    BY <1>1, <2>1, <2>2, <2>3
<1>3. PICK next \in {"idle", "stopped"} : Leave(w, j, next)
  BY <1>1 DEF RecordFailure, Release, FailJobLost
<1>4. wk[w].pc \in Resting
  BY <1>1 DEF RecordFailure, Release, FailJobLost, Resting, Pc
<1>5. \A v \in Worker : v # w => wk'[v] = wk[v]
  BY <1>t, <1>3 DEF Leave, TypeOK
<1> QED
  BY <1>t, <1>2, <1>3, <1>4, <1>5, LeaveRests, RestStep

(* Lease renewal, shutdown and crash keep the invariant. *)
LEMMA RenewStopInv ==
  ASSUME FillInv, TypeOK', NEW w \in Worker, RenewLeases(w) \/ StopStep(w)
  PROVE  FillInv'
<1>t. TypeOK /\ WorkerSound(w)
  BY DEF FillInv, WorkersSound, WorkerSound
<1>1. ASSUME RenewLeases(w) PROVE FillInv'
  <2>1. Quiet
    BY <1>t, <1>1, ExtendIdentity DEF RenewLeases
  <2>2. \A v \in Worker : v # w => wk'[v] = wk[v]
    BY <1>t, <1>1 DEF RenewLeases, TypeOK
  <2>3. CASE wk' = wk
    BY <1>t, <2>1, <2>2, <2>3, QuietGrows, Undisturbed, QuietStep
  <2>4. CASE wk' = [wk EXCEPT ![w] = At("idle")]
    BY <1>t, <2>1, <2>2, <2>4, RestStep DEF At, Resting, Pc, TypeOK
  <2> QED
    BY <1>1, <2>3, <2>4 DEF RenewLeases
<1>2. ASSUME Shutdown(w) PROVE FillInv'
  <2>1. Quiet /\ ShutdownTo(w)
    BY <1>2, UnchangedQuiet DEF Shutdown
  <2>2. \A v \in Worker : v # w => wk'[v] = wk[v]
    BY <1>t, <2>1 DEF ShutdownTo, TypeOK
  <2> QED
    BY <1>t, <2>1, <2>2, ShutdownRests, RestStep
<1>3. ASSUME ShutdownInCommit(w) PROVE FillInv'
  <2>1. WriteFill(w) /\ ShutdownTo(w)
    BY <1>3 DEF ShutdownInCommit
  <2>2. \A v \in Worker : v # w => wk'[v] = wk[v]
    BY <1>t, <2>1 DEF ShutdownTo, TypeOK
  <2> QED
    BY <1>t, <2>1, <2>2, ShutdownRests, WriteInv
<1>4. ASSUME Crash(w) PROVE FillInv'
  BY <1>t, <1>4, UnchangedQuiet, RestStep DEF Crash, At, Resting, Pc, TypeOK
<1> QED
  BY <1>1, <1>2, <1>3, <1>4 DEF StopStep

(* The invariant holds initially. *)
LEMMA InitInv == Init => FillInv
<1> SUFFICES ASSUME Init PROVE FillInv
  OBVIOUS
<1>1. InsertedBelow /\ DoneMeansCovered
  BY DEF Init, InsertedBelow, DoneMeansCovered, NoJob
<1>2. CoverageComplete
  BY DEF Init, CoverageComplete, Nothing
<1>3. WorkersSound
  BY DEF Init, WorkersSound, BatchSound, ReadSound, FetchSound, At
<1> QED
  BY <1>1, <1>2, <1>3, InitType DEF FillInv

(* Every step keeps the invariant. *)
LEMMA NextInv == FillInv /\ [Next]_vars => FillInv'
<1> SUFFICES ASSUME FillInv, [Next]_vars PROVE FillInv'
  OBVIOUS
<1>1. TypeOK'
  BY NextType DEF FillInv
<1>2. CASE Next
  BY <1>1, <1>2, QueueStepInv, ClaimStepInv, FillStepInv, FailStepInv, RenewStopInv
     DEF Next, WorkerStep
<1>3. CASE UNCHANGED vars
  <2>1. Quiet /\ wk' = wk
    BY <1>3 DEF vars, Quiet
  <2>2. Grows /\ TypeOK
    BY <2>1, QuietGrows DEF FillInv
  <2>3. ASSUME NEW w \in Worker PROVE WorkerSound(w)'
    BY <1>1, <2>1, <2>2, Undisturbed DEF FillInv, WorkersSound, WorkerSound
  <2> QED
    BY <1>1, <2>1, <2>3, TablesQuiet DEF FillInv, WorkersSound, WorkerSound
<1> QED
  BY <1>2, <1>3

(* The invariant implies both safety properties. *)
LEMMA InvServes == FillInv => ServedComplete /\ DoneMeansCovered
<1> SUFFICES ASSUME FillInv, NEW s \in SelectorId, NEW r \in Row,
                    RowMatches(s, r), r.block \in CoveredForQuery(s)
             PROVE  r \in rows
  BY DEF ServedComplete, FillInv
<1>1. CASE Dataset(s) = "evm.blocks"
  BY <1>1 DEF FillInv, CoverageComplete, CoveredForQuery
<1>2. CASE Dataset(s) # "evm.blocks"
  <2>1. Dataset(s) = "evm.logs"
    BY <1>2, FillJobsAssumption DEF Dataset
  <2>2. Matches(SelectorTable[s].selector, r.key) /\ r.dataset = "evm.logs"
    BY <2>1 DEF RowMatches
  <2>3. PICK part \in SplitByAddress(SelectorTable[s].selector) : Matches(part, r.key)
    BY <2>2, SplitComplete
  <2>4. PICK t \in SelectorId : /\ Dataset(t) = "evm.logs"
                                /\ Covers(SelectorTable[t].selector, part)
                                /\ r.block \in coverage[t]
    BY <1>2 DEF CoveredForQuery
  <2>5. Matches(SelectorTable[t].selector, r.key)
    BY <2>3, <2>4, CoversSound
  <2>6. RowMatches(t, r)
    BY <2>2, <2>4, <2>5 DEF RowMatches
  <2> QED
    BY <2>4, <2>6 DEF FillInv, CoverageComplete
<1> QED
  BY <1>1, <1>2

(* A query answered from coverage misses no row: for any number of workers,   *)
(* whatever leases expire and calls fail, every matching row in a block     *)
(* covered_for_query reports is in the store.                               *)
THEOREM FillServesCompletely == Spec => []ServedComplete
<1>1. FillInv => ServedComplete
  BY InvServes
<1> QED
  BY <1>1, InitInv, NextInv, PTL DEF Spec

(* A job a waiter sees done has its whole chunk covered for a query of its  *)
(* selector.                                                                *)
THEOREM FillDoneIsCovered == Spec => []DoneMeansCovered
<1>1. FillInv => DoneMeansCovered
  BY InvServes
<1> QED
  BY <1>1, InitInv, NextInv, PTL DEF Spec

-----------------------------------------------------------------------------
(* How the status of a job moves *)

(* Every step but an insert: finished jobs stay or are pruned, no job       *)
(* becomes active, and every job keeps its selector and chunk.              *)
Settles(j) ==
  /\ jobs[j].status \in Terminal => jobs'[j].status \in {jobs[j].status, "absent"}
  /\ Active(j)' => Active(j)
  /\ jobs'[j].selector = jobs[j].selector /\ jobs'[j].chunk = jobs[j].chunk

(* fail_job revives no terminal job and makes none active. *)
LEMMA FailSettles ==
  ASSUME TypeOK, NEW w, NEW k \in JobId, NEW retryable, NEW due,
         jobs' = FailJob(w, k, retryable, due), NEW j \in JobId
  PROVE  Settles(j)
<1> DEFINE failed ==
      [jobs[k] EXCEPT !.status = IF retryable THEN "pending" ELSE "failed",
                      !.worker = NoWorker, !.leased = FALSE,
                      !.due = IF retryable THEN due ELSE jobs[k].due]
<1>1. /\ failed.selector = jobs[k].selector /\ failed.chunk = jobs[k].chunk
  BY DEF TypeOK, Job
<1>2. CASE jobs[k].status = "running" /\ jobs[k].worker = w
  <2>1. jobs' = [jobs EXCEPT ![k] = failed]
    BY <1>2 DEF FailJob
  <2> HIDE DEF failed
  <2> QED
    BY <1>1, <1>2, <2>1 DEF Settles, TypeOK, Active, Terminal
<1>3. CASE ~(jobs[k].status = "running" /\ jobs[k].worker = w)
  BY <1>3 DEF Settles, FailJob, Active
<1> QED
  BY <1>2, <1>3

(* So does any update of one job that follows the order of statuses. *)
LEMMA UpdateSettles ==
  ASSUME TypeOK, NEW k \in JobId, NEW job,
         jobs' = [jobs EXCEPT ![k] = job],
         job.selector = jobs[k].selector, job.chunk = jobs[k].chunk,
         \/ job.status = "absent"
         \/ job.status = jobs[k].status
         \/ job.status = "running" /\ jobs[k].status \in {"pending", "running"},
         NEW j \in JobId
  PROVE  Settles(j)
BY DEF Settles, TypeOK, Active, Terminal

(* No step of a worker revives a terminal job or adds an active one. *)
LEMMA WorkerStepSettles ==
  ASSUME TypeOK, NEW w \in Worker, WorkerStep(w) \/ RenewLeases(w) \/ StopStep(w),
         NEW j \in JobId
  PROVE  Settles(j)
<1>1. ASSUME UNCHANGED jobs PROVE Settles(j)
  BY <1>1 DEF Settles, Active
<1>2. ASSUME NEW S, jobs' = Extend(S) PROVE Settles(j)
  BY <1>2 DEF Extend, Settles, Active, TypeOK, Job
<1>3. ASSUME WriteFill(w) PROVE Settles(j)
  <2>1. ASSUME NEW S, jobs' = CompleteJobs(w, S) PROVE Settles(j)
    BY <2>1 DEF CompleteJobs, Complete, Settles, Active, Terminal, TypeOK, Job
  <2> QED
    BY <1>1, <1>3, <2>1 DEF WriteFill
<1>4. ASSUME NEW k \in JobId, Claim(w, k) PROVE Settles(j)
  <2>1. jobs[k] \in Job /\ TRUE \in BOOLEAN
    BY DEF TypeOK
  <2> QED
    BY <1>4, <2>1, RunType, UpdateSettles DEF Claim, Claimable
<1>5. ASSUME ClaimSiblings(w) PROVE Settles(j)
  <2> DEFINE leader     == wk[w].leader
             candidates == SiblingCandidates(leader)
             siblings   == {k \in candidates :
                              Cardinality({i \in candidates : i < k}) < MaxAddresses - 1}
             leased     == /\ jobs[leader].status = "running"
                           /\ jobs[leader].worker = w
                           /\ jobs[leader].leased
  <2>1. j \in siblings => jobs[j].status = "pending"
    BY DEF SiblingCandidates
  <2>2. leased \in BOOLEAN
    OBVIOUS
  <2>3. jobs'[j] = IF j \in siblings THEN Run(jobs[j], w, leased) ELSE jobs[j]
    BY <1>5 DEF ClaimSiblings
  <2> HIDE DEF leader, candidates, siblings, leased
  <2>4. /\ Run(jobs[j], w, leased).selector = jobs[j].selector
        /\ Run(jobs[j], w, leased).chunk = jobs[j].chunk
        /\ Run(jobs[j], w, leased).status = "running"
    BY <2>2, RunType DEF TypeOK
  <2> QED
    BY <2>1, <2>3, <2>4 DEF Settles, Active, Terminal
<1>6. ASSUME NEW k \in JobId, RecordFailure(w, k) \/ Release(w, k) PROVE Settles(j)
  <2> DEFINE retryable == wk[w].failure = "retryable"
  <2>1. \/ jobs' = FailJob(w, k, retryable, FALSE)
        \/ jobs' = FailJob(w, k, TRUE, TRUE)
    BY <1>6 DEF RecordFailure, Release
  <2> HIDE DEF retryable
  <2>2. CASE jobs' = FailJob(w, k, retryable, FALSE)
    BY <2>2, FailSettles
  <2>3. CASE jobs' = FailJob(w, k, TRUE, TRUE)
    BY <2>3, FailSettles
  <2> QED
    BY <2>1, <2>2, <2>3
<1>7. CASE ClaimStep(w)
  BY <1>1, <1>4, <1>5, <1>7 DEF ClaimStep, ClaimSiblingsFails
<1>8. CASE FillStep(w)
  <2>1. CASE ReadCovered(w) \/ HeadsFail(w) \/ StoreFails(w) \/ CommitReorg(w)
    BY <1>1, <2>1 DEF ReadCovered, HeadsFail, StoreFails, CommitReorg, Fails
  <2>2. CASE Fetch(w) \/ FetchFails(w)
    <3>1. ASSUME NEW groups, NEW got, NEW failure, FetchResult(w, groups, got, failure)
          PROVE  UNCHANGED jobs
      BY <3>1 DEF FetchResult
    <3>2. UNCHANGED jobs
      BY <2>2, <3>1 DEF Fetch, FetchFails
    <3> QED
      BY <1>1, <3>2
  <2>3. CASE HoldLeases(w)
    BY <1>2, <2>3 DEF HoldLeases
  <2>4. CASE Commit(w) \/ CommitUnacknowledged(w)
    BY <1>3, <2>4 DEF Commit, CommitUnacknowledged
  <2> QED
    BY <1>8, <2>1, <2>2, <2>3, <2>4 DEF FillStep
<1>9. CASE FailStep(w)
  BY <1>1, <1>6, <1>9 DEF FailStep, FailJobLost
<1>10. CASE RenewLeases(w)
  BY <1>2, <1>10 DEF RenewLeases
<1>11. CASE StopStep(w)
  BY <1>1, <1>3, <1>11 DEF StopStep, Shutdown, ShutdownInCommit, Crash
<1> QED
  BY <1>7, <1>8, <1>9, <1>10, <1>11 DEF WorkerStep

(* Neither does pruning or the passing of time. *)
LEMMA QueueUpdateSettles ==
  ASSUME TypeOK, NEW k \in JobId, Prune(k) \/ LeaseExpires(k) \/ BackoffElapses(k),
         NEW j \in JobId
  PROVE  Settles(j)
<1> DEFINE gone    == [NoJob EXCEPT !.selector = jobs[k].selector, !.chunk = jobs[k].chunk]
           expired == [jobs[k] EXCEPT !.leased = FALSE]
           ready   == [jobs[k] EXCEPT !.due = TRUE]
<1>1. gone.selector = jobs[k].selector /\ gone.chunk = jobs[k].chunk /\ gone.status = "absent"
  BY DEF NoJob
<1>2. /\ expired.selector = jobs[k].selector /\ expired.chunk = jobs[k].chunk
      /\ expired.status = jobs[k].status
      /\ ready.selector = jobs[k].selector /\ ready.chunk = jobs[k].chunk
      /\ ready.status = jobs[k].status
  BY DEF TypeOK, Job
<1>3. \/ jobs' = [jobs EXCEPT ![k] = gone]
      \/ jobs' = [jobs EXCEPT ![k] = expired]
      \/ jobs' = [jobs EXCEPT ![k] = ready]
  BY DEF Prune, LeaseExpires, BackoffElapses
<1> HIDE DEF gone, expired, ready
<1> QED
  BY <1>1, <1>2, <1>3, UpdateSettles

(* A step either settles jobs or inserts one for a cell without active job. *)
LEMMA NextSettles ==
  ASSUME TypeOK, Next
  PROVE  \/ \A j \in JobId : Settles(j)
         \/ \E s \in SelectorId, c \in Chunk, p \in Purpose : Enqueue(s, c, p)
BY QueueUpdateSettles, WorkerStepSettles DEF Next, QueueStep

(* Done and failed are final for every number of workers: a worker whose    *)
(* lease expired cannot move a job another worker finished.                 *)
THEOREM FillTerminalIsFinal == Spec => TerminalIsFinal
<1> DEFINE Final == \A j \in JobId : jobs[j].status \in Terminal =>
                      jobs'[j].status \in {jobs[j].status, "absent"}
<1>1. FillInv /\ [Next]_vars => [Final]_vars
  <2> SUFFICES ASSUME FillInv, Next PROVE Final
    BY DEF vars
  <2>1. CASE \A j \in JobId : Settles(j)
    BY <2>1 DEF Settles
  <2>2. ASSUME NEW s \in SelectorId, NEW c \in Chunk, NEW p \in Purpose, Enqueue(s, c, p)
        PROVE  Final
    <3>1. nextId \in Nat /\ jobs \in [JobId -> Job]
      BY DEF FillInv, TypeOK
    <3>2. ASSUME NEW j \in JobId, jobs[j].status \in Terminal PROVE j # nextId
      BY <3>1, <3>2, JobIdType DEF FillInv, InsertedBelow, Terminal
    <3>3. \A j \in JobId : j # nextId => jobs'[j] = jobs[j]
      BY <2>2, <3>1 DEF Enqueue
    <3> QED
      BY <3>2, <3>3
  <2>3. TypeOK
    BY DEF FillInv
  <2> QED
    BY <2>1, <2>2, <2>3, NextSettles
<1> QED
  BY <1>1, InitInv, NextInv, PTL DEF Spec, TerminalIsFinal

(* At most one active job per selector and chunk, also while jobs fail back *)
(* to pending, are reclaimed and are pruned.                                *)
THEOREM FillOneActiveJob == Spec => []OneActiveJob
<1>1. Init => OneActiveJob
  BY DEF Init, OneActiveJob, Active, NoJob
<1>2. TypeOK /\ OneActiveJob /\ [Next]_vars => OneActiveJob'
  <2> SUFFICES ASSUME TypeOK, OneActiveJob, [Next]_vars PROVE OneActiveJob'
    OBVIOUS
  <2>1. CASE UNCHANGED vars
    BY <2>1 DEF vars, OneActiveJob, Active
  <2>2. CASE \A j \in JobId : Settles(j)
    BY <2>2 DEF Settles, OneActiveJob
  <2>3. ASSUME NEW s \in SelectorId, NEW c \in Chunk, NEW p \in Purpose, Enqueue(s, c, p)
        PROVE  OneActiveJob'
    <3> DEFINE new ==
          [NoJob EXCEPT !.status = IF c \subseteq coverage[s] THEN "done" ELSE "pending",
                        !.selector = s, !.chunk = c, !.purpose = p, !.due = TRUE]
    <3>1. new.selector = s /\ new.chunk = c
      BY DEF NoJob
    <3>2. jobs' = [jobs EXCEPT ![nextId] = new]
      BY <2>3 DEF Enqueue
    <3> HIDE DEF new
    <3>3. \A j \in JobId : Active(j) => ~(jobs[j].selector = s /\ jobs[j].chunk = c)
      BY <2>3 DEF Enqueue
    <3>4. \A j \in JobId : jobs'[j] = IF j = nextId THEN new ELSE jobs[j]
      BY <3>2 DEF TypeOK
    <3> QED
      BY <3>1, <3>3, <3>4 DEF OneActiveJob, Active
  <2> QED
    BY <2>1, <2>2, <2>3, NextSettles
<1> QED
  BY <1>1, <1>2, TypeCorrect, PTL DEF Spec

-----------------------------------------------------------------------------
(* No job is orphaned while the database answers *)

(* The jobs whose row names the worker. *)
Runs(table, w) == {j \in JobId : table[j].status = "running" /\ table[j].worker = w}

(* A worker in state u that is named on the jobs `mine` will deal with each: *)
(* they are in its batch, it rests with none, it has yet to record or        *)
(* release each one after a failure, and a write that will complete its held *)
(* jobs holds them all.                                                      *)
Grips(u, mine) ==
  \/ u.pc = "dead"
  \/ /\ mine \subseteq u.batch
     /\ u.pc \in {"idle", "stopped"} => mine = {}
     /\ u.pc \in {"failing", "releasing"} => mine \subseteq u.left
     /\ u.pc = "committing" /\ u.failure = "none" => mine \subseteq u.held

GripInv == \A w \in Worker : Grips(wk[w], Runs(jobs, w))

(* Losing a job to another worker loosens no grip. *)
LEMMA GripFewer ==
  ASSUME NEW u, NEW mine, NEW fewer, fewer \subseteq mine, Grips(u, mine)
  PROVE  Grips(u, fewer)
BY DEF Grips

(* A step of one worker that names no other worker on a job. *)
LEMMA GripStep ==
  ASSUME TypeOK, GripInv, NEW w \in Worker, NEW u, wk' = [wk EXCEPT ![w] = u],
         \A v \in Worker \ {w} : Runs(jobs', v) \subseteq Runs(jobs, v),
         Grips(u, Runs(jobs', w))
  PROVE  GripInv'
<1> SUFFICES ASSUME NEW v \in Worker PROVE Grips(wk'[v], Runs(jobs', v))
  BY DEF GripInv
<1>1. wk'[v] = IF v = w THEN u ELSE wk[v]
  BY DEF TypeOK
<1>2. CASE v = w
  BY <1>1, <1>2
<1>3. CASE v # w
  BY <1>1, <1>3, GripFewer DEF GripInv
<1> QED
  BY <1>2, <1>3

(* Extending leases, completing jobs and failing one take no job from       *)
(* another worker and give none to anybody.                                 *)
LEMMA TableRuns ==
  ASSUME TypeOK, NEW w \in Worker, NEW S, NEW k \in JobId, NEW retryable, NEW due,
         NEW v \in Worker
  PROVE  /\ Runs(Extend(S), v) = Runs(jobs, v)
         /\ Runs(CompleteJobs(w, S), v) \subseteq Runs(jobs, v)
         /\ Runs(CompleteJobs(w, S), w) \cap S = {}
         /\ Runs(FailJob(w, k, retryable, due), v) \subseteq Runs(jobs, v)
         /\ k \notin Runs(FailJob(w, k, retryable, due), w)
<1>1. \A j \in JobId : jobs[j] \in Job
  BY DEF TypeOK
<1>2. Runs(Extend(S), v) = Runs(jobs, v)
  BY <1>1 DEF Runs, Extend, Job
<1>3. ASSUME NEW j \in JobId
      PROVE  /\ CompleteJobs(w, S)[j] = jobs[j] \/ CompleteJobs(w, S)[j].status = "done"
             /\ j \in S /\ j \in Runs(jobs, w) => CompleteJobs(w, S)[j].status = "done"
  BY <1>1 DEF CompleteJobs, Complete, Runs, Job
<1>4. /\ Runs(CompleteJobs(w, S), v) \subseteq Runs(jobs, v)
      /\ Runs(CompleteJobs(w, S), w) \cap S = {}
  BY <1>3 DEF Runs
<1> DEFINE failed ==
      [jobs[k] EXCEPT !.status = IF retryable THEN "pending" ELSE "failed",
                      !.worker = NoWorker, !.leased = FALSE,
                      !.due = IF retryable THEN due ELSE jobs[k].due]
<1>5. failed.status # "running"
  BY <1>1 DEF Job
<1>6. \/ FailJob(w, k, retryable, due) = [jobs EXCEPT ![k] = failed]
      \/ FailJob(w, k, retryable, due) = jobs /\ k \notin Runs(jobs, w)
  BY DEF FailJob, Runs
<1> HIDE DEF failed
<1>7. ASSUME NEW j \in JobId
      PROVE  \/ FailJob(w, k, retryable, due)[j] = jobs[j]
             \/ FailJob(w, k, retryable, due)[j].status # "running"
  BY <1>5, <1>6 DEF TypeOK
<1>8. /\ Runs(FailJob(w, k, retryable, due), v) \subseteq Runs(jobs, v)
      /\ k \notin Runs(FailJob(w, k, retryable, due), w)
  BY <1>5, <1>6, <1>7 DEF Runs, TypeOK
<1> QED
  BY <1>2, <1>4, <1>8

(* The queue gives no worker a job. *)
LEMMA QueueGrips ==
  ASSUME TypeOK, GripInv, QueueStep
  PROVE  GripInv'
<1>1. UNCHANGED wk
  BY DEF QueueStep, Enqueue, Prune, LeaseExpires, BackoffElapses
<1>2. ASSUME NEW k \in JobId, NEW job, jobs' = [jobs EXCEPT ![k] = job],
             job.status = "running" => job.worker = jobs[k].worker /\ jobs[k].status = "running"
      PROVE  GripInv'
  <2>1. ASSUME NEW v \in Worker PROVE Runs(jobs', v) \subseteq Runs(jobs, v)
    BY <1>2 DEF Runs, TypeOK
  <2> QED
    BY <1>1, <2>1, GripFewer DEF GripInv
<1>3. ASSUME NEW s \in SelectorId, NEW c \in Chunk, NEW p \in Purpose, Enqueue(s, c, p)
      PROVE  GripInv'
  <2> DEFINE new ==
        [NoJob EXCEPT !.status = IF c \subseteq coverage[s] THEN "done" ELSE "pending",
                      !.selector = s, !.chunk = c, !.purpose = p, !.due = TRUE]
  <2>1. new.status # "running"
    BY DEF NoJob
  <2>2. jobs' = [jobs EXCEPT ![nextId] = new] /\ nextId \in JobId
    BY <1>3, FillJobsAssumption DEF Enqueue, TypeOK, JobId
  <2> HIDE DEF new
  <2> QED
    BY <1>2, <2>1, <2>2
<1>4. ASSUME NEW k \in JobId, Prune(k) \/ LeaseExpires(k) \/ BackoffElapses(k)
      PROVE  GripInv'
  <2> DEFINE gone    == [NoJob EXCEPT !.selector = jobs[k].selector, !.chunk = jobs[k].chunk]
             expired == [jobs[k] EXCEPT !.leased = FALSE]
             ready   == [jobs[k] EXCEPT !.due = TRUE]
  <2>1. /\ gone.status = "absent"
        /\ expired.status = jobs[k].status /\ expired.worker = jobs[k].worker
        /\ ready.status = jobs[k].status /\ ready.worker = jobs[k].worker
    BY DEF TypeOK, Job, NoJob
  <2>2. \/ jobs' = [jobs EXCEPT ![k] = gone]
        \/ jobs' = [jobs EXCEPT ![k] = expired]
        \/ jobs' = [jobs EXCEPT ![k] = ready]
    BY <1>4 DEF Prune, LeaseExpires, BackoffElapses
  <2> HIDE DEF gone, expired, ready
  <2> QED
    BY <1>2, <2>1, <2>2
<1> QED
  BY <1>3, <1>4 DEF QueueStep

(* A claimed job is in the batch of its new worker, and gone from the old. *)
LEMMA ClaimGrips ==
  ASSUME TypeOK, GripInv, ~DbErrors, NEW w \in Worker, ClaimStep(w)
  PROVE  GripInv'
<1>1. ASSUME NEW j \in JobId, Claim(w, j) PROVE GripInv'
  <2> DEFINE u == [At("claimed") EXCEPT !.batch = {j}, !.leader = j,
                                        !.attempts = MoreAttempts(jobs[j].attempts)]
  <2>1. u.pc = "claimed" /\ u.batch = {j}
    BY DEF At
  <2>2. wk' = [wk EXCEPT ![w] = u] /\ jobs' = [jobs EXCEPT ![j] = Run(jobs[j], w, TRUE)]
    BY <1>1 DEF Claim
  <2> HIDE DEF u
  <2>3. Runs(jobs, w) = {}
    BY <1>1 DEF Claim, GripInv, Grips
  <2>4. Run(jobs[j], w, TRUE).worker = w
    BY RunType DEF TypeOK
  <2>5. /\ \A v \in Worker \ {w} : Runs(jobs', v) \subseteq Runs(jobs, v)
        /\ Runs(jobs', w) \subseteq Runs(jobs, w) \cup {j}
    BY <2>2, <2>4 DEF Runs, TypeOK
  <2>6. Grips(u, Runs(jobs', w))
    BY <2>1, <2>3, <2>5 DEF Grips
  <2> QED
    BY <2>2, <2>5, <2>6, GripStep
<1>2. ASSUME ClaimSiblings(w) PROVE GripInv'
  <2> DEFINE leader     == wk[w].leader
             candidates == SiblingCandidates(leader)
             siblings   == {k \in candidates :
                              Cardinality({i \in candidates : i < k}) < MaxAddresses - 1}
             leased     == /\ jobs[leader].status = "running"
                           /\ jobs[leader].worker = w
                           /\ jobs[leader].leased
             u          == [wk[w] EXCEPT !.pc = "reading", !.batch = @ \cup siblings]
  <2>1. u.pc = "reading" /\ u.batch = wk[w].batch \cup siblings
    BY DEF TypeOK, WorkerState
  <2>2. \A k \in JobId : jobs'[k] = IF k \in siblings THEN Run(jobs[k], w, leased) ELSE jobs[k]
    BY <1>2 DEF ClaimSiblings
  <2>3. leased \in BOOLEAN
    OBVIOUS
  <2>4. wk' = [wk EXCEPT ![w] = u]
    BY <1>2 DEF ClaimSiblings, TypeOK
  <2> HIDE DEF leader, candidates, siblings, leased, u
  <2>5. \A k \in JobId : Run(jobs[k], w, leased).worker = w
    BY <2>3, RunType DEF TypeOK
  <2>6. /\ \A v \in Worker \ {w} : Runs(jobs', v) \subseteq Runs(jobs, v)
        /\ Runs(jobs', w) \subseteq Runs(jobs, w) \cup siblings
    BY <2>2, <2>5 DEF Runs
  <2>7. Runs(jobs, w) \subseteq wk[w].batch
    BY <1>2 DEF ClaimSiblings, GripInv, Grips
  <2>8. Grips(u, Runs(jobs', w))
    BY <2>1, <2>6, <2>7 DEF Grips
  <2> QED
    BY <2>4, <2>6, <2>8, GripStep
<1> QED
  BY <1>1, <1>2 DEF ClaimStep, ClaimSiblingsFails

(* The write completes the held jobs, or leaves every job as it was. *)
LEMMA WriteRuns ==
  ASSUME TypeOK, NEW w \in Worker, WriteFill(w)
  PROVE  /\ \A v \in Worker : Runs(jobs', v) \subseteq Runs(jobs, v)
         /\ wk[w].failure = "none" => Runs(jobs', w) \cap wk[w].held = {}
<1>1. jobs' = IF wk[w].failure = "none" THEN CompleteJobs(w, wk[w].held) ELSE jobs
  BY DEF WriteFill
<1>2. 1 \in JobId
  BY JobIdType
<1>3. CASE wk[w].failure = "none"
  <2>1. jobs' = CompleteJobs(w, wk[w].held)
    BY <1>1, <1>3
  <2>2. \A v \in Worker : /\ Runs(CompleteJobs(w, wk[w].held), v) \subseteq Runs(jobs, v)
                         /\ Runs(CompleteJobs(w, wk[w].held), w) \cap wk[w].held = {}
    BY <1>2, TableRuns
  <2> QED
    BY <2>1, <2>2
<1> QED
  BY <1>1, <1>3

(* A worker whose fill failed has all of its batch to deal with. *)
LEMMA FailingGrips ==
  ASSUME TypeOK, NEW w \in Worker, NEW failure, failure # "none",
         NEW mine, mine \subseteq wk[w].batch
  PROVE  Grips(AfterFill(w, failure), mine)
<1> DEFINE u == [At("failing") EXCEPT !.batch = wk[w].batch, !.leader = wk[w].leader,
                                      !.failure = failure, !.left = wk[w].batch]
<1>1. u.pc = "failing" /\ u.batch = wk[w].batch /\ u.left = wk[w].batch
  BY DEF At
<1>2. AfterFill(w, failure) = u
  BY DEF AfterFill
<1> HIDE DEF u
<1> QED
  BY <1>1, <1>2 DEF Grips

(* A fill that ends keeps or completes every job it was named on. *)
LEMMA FillGrips ==
  ASSUME TypeOK, GripInv, ~DbErrors, NEW w \in Worker, FillStep(w)
  PROVE  GripInv'
<1>1. wk[w] \in WorkerState /\ wk[w].pc # "dead" /\ Runs(jobs, w) \subseteq wk[w].batch
  <2>1. wk[w].pc # "dead"
    BY DEF FillStep, ReadCovered, HeadsFail, StoreFails, Fetch, FetchFails, HoldLeases,
           Commit, CommitUnacknowledged, CommitReorg, WriteFill
  <2> QED
    BY <2>1 DEF TypeOK, GripInv, Grips
<1>2. ASSUME NEW u, wk' = [wk EXCEPT ![w] = u], UNCHANGED jobs, u.batch = wk[w].batch,
             u.pc \in {"fetching", "holding"}
      PROVE  GripInv'
  <2>1. Grips(u, Runs(jobs', w))
    BY <1>1, <1>2 DEF Grips
  <2> QED
    BY <1>2, <2>1, GripStep
<1>3. ASSUME NEW failure, failure # "none", Fails(w, failure) PROVE GripInv'
  <2>1. Grips(AfterFill(w, failure), Runs(jobs', w))
    BY <1>1, <1>3, FailingGrips DEF Fails
  <2> QED
    BY <1>3, <2>1, GripStep DEF Fails
<1>4. CASE ReadCovered(w)
  <2> DEFINE missing == [s \in SelectorId |-> IF s \in Members(w)
                           THEN jobs[wk[w].leader].chunk \ CoveredForQuery(s) ELSE {}]
             u == [wk[w] EXCEPT !.pc = "fetching", !.missing = missing]
  <2>1. wk' = [wk EXCEPT ![w] = u] /\ UNCHANGED jobs
    BY <1>4 DEF ReadCovered, TypeOK
  <2>2. u.pc = "fetching" /\ u.batch = wk[w].batch
    BY <1>1 DEF WorkerState
  <2> HIDE DEF u
  <2> QED
    BY <1>2, <2>1, <2>2
<1>5. CASE Fetch(w) \/ FetchFails(w)
  <2>1. PICK groups, got, failure : FetchResult(w, groups, got, failure)
    BY <1>5 DEF Fetch, FetchFails
  <2> DEFINE u == [wk[w] EXCEPT !.pc = "holding", !.missing = Nothing, !.got = got,
                                !.fetched = FetchedRows(groups, got), !.failure = failure]
  <2>2. wk' = [wk EXCEPT ![w] = u] /\ UNCHANGED jobs
    BY <2>1 DEF FetchResult, TypeOK
  <2>3. u.pc = "holding" /\ u.batch = wk[w].batch
    BY <1>1 DEF WorkerState
  <2> HIDE DEF u
  <2> QED
    BY <1>2, <2>2, <2>3
<1>6. CASE HoldLeases(w)
  <2> DEFINE u == [wk[w] EXCEPT !.pc = "committing", !.held = StillHeld(w)]
  <2>1. wk' = [wk EXCEPT ![w] = u] /\ jobs' = Extend(StillHeld(w))
    BY <1>6 DEF HoldLeases, TypeOK
  <2>2. u.pc = "committing" /\ u.batch = wk[w].batch /\ u.held = StillHeld(w)
    BY <1>1 DEF WorkerState
  <2> HIDE DEF u
  <2>3. \A v \in Worker : Runs(jobs', v) = Runs(jobs, v)
    BY <2>1, TableRuns, JobIdType
  <2>4. Runs(jobs, w) \subseteq StillHeld(w)
    BY <1>1 DEF StillHeld, Runs
  <2>5. Grips(u, Runs(jobs', w))
    BY <1>1, <2>2, <2>3, <2>4 DEF Grips
  <2> QED
    BY <2>1, <2>3, <2>5, GripStep
<1>7. CASE Commit(w)
  <2>1. WriteFill(w) /\ wk' = [wk EXCEPT ![w] = AfterFill(w, wk[w].failure)]
    BY <1>7 DEF Commit
  <2>2. /\ \A v \in Worker : Runs(jobs', v) \subseteq Runs(jobs, v)
        /\ wk[w].failure = "none" => Runs(jobs', w) \cap wk[w].held = {}
    BY <2>1, WriteRuns
  <2>3. Grips(AfterFill(w, wk[w].failure), Runs(jobs', w))
    <3>1. CASE wk[w].failure = "none"
      <4>1. Runs(jobs, w) \subseteq wk[w].held
        BY <1>1, <2>1, <3>1 DEF WriteFill, GripInv, Grips
      <4>2. Runs(jobs', w) = {}
        BY <2>2, <3>1, <4>1
      <4> QED
        BY <3>1, <4>2 DEF AfterFill, At, Grips
    <3>2. CASE wk[w].failure # "none"
      BY <1>1, <2>2, <3>2, FailingGrips
    <3> QED
      BY <3>1, <3>2
  <2> QED
    BY <2>1, <2>2, <2>3, GripStep
<1>8. CASE HeadsFail(w)
  BY <1>3, <1>8 DEF HeadsFail
<1>9. CASE CommitReorg(w)
  BY <1>3, <1>9 DEF CommitReorg
<1> QED
  BY <1>4, <1>5, <1>6, <1>7, <1>8, <1>9 DEF FillStep, StoreFails, CommitUnacknowledged

(* A failure is recorded, or the job released, before the worker leaves it. *)
LEMMA FailGrips ==
  ASSUME TypeOK, GripInv, ~DbErrors, NEW w \in Worker, FailStep(w)
  PROVE  GripInv'
<1>1. ASSUME NEW j \in JobId, NEW next \in {"idle", "stopped"}, Leave(w, j, next),
             wk[w].pc \in {"failing", "releasing"},
             NEW retryable, NEW due, jobs' = FailJob(w, j, retryable, due)
      PROVE  GripInv'
  <2> DEFINE less == [wk[w] EXCEPT !.left = wk[w].left \ {j}]
             u == IF wk[w].left = {j} THEN At(next) ELSE less
  <2>1. /\ less.left = wk[w].left \ {j} /\ less.batch = wk[w].batch /\ less.pc = wk[w].pc
        /\ At(next).pc = next /\ At(next).batch = {}
    BY DEF TypeOK, WorkerState, At
  <2>2. wk' = [wk EXCEPT ![w] = u]
    BY <1>1 DEF Leave
  <2> HIDE DEF less
  <2>3. /\ \A v \in Worker : Runs(jobs', v) \subseteq Runs(jobs, v)
        /\ j \notin Runs(jobs', w)
    BY <1>1, TableRuns
  <2>4. Runs(jobs, w) \subseteq wk[w].batch /\ Runs(jobs, w) \subseteq wk[w].left
    BY <1>1 DEF GripInv, Grips
  <2>5. Grips(u, Runs(jobs', w))
    BY <1>1, <2>1, <2>3, <2>4 DEF Grips
  <2> QED
    BY <2>2, <2>3, <2>5, GripStep
<1>2. ASSUME NEW j \in JobId, RecordFailure(w, j) PROVE GripInv'
  <2> DEFINE retryable == wk[w].failure = "retryable"
  <2>1. /\ jobs' = FailJob(w, j, retryable, FALSE)
        /\ Leave(w, j, "idle") /\ wk[w].pc = "failing"
    BY <1>2 DEF RecordFailure
  <2> HIDE DEF retryable
  <2> QED
    BY <1>1, <2>1
<1>3. ASSUME NEW j \in JobId, Release(w, j) PROVE GripInv'
  BY <1>1, <1>3 DEF Release
<1> QED
  BY <1>2, <1>3 DEF FailStep, FailJobLost

(* A worker drops its fill only when no job is left to it, and one that is  *)
(* told to stop releases the whole batch.                                   *)
LEMMA RenewStopGrips ==
  ASSUME TypeOK, GripInv, NEW w \in Worker, RenewLeases(w) \/ StopStep(w)
  PROVE  GripInv'
<1>1. CASE RenewLeases(w)
  <2> DEFINE u == IF StillHeld(w) = {} THEN At("idle") ELSE wk[w]
  <2>1. wk' = [wk EXCEPT ![w] = u] /\ jobs' = Extend(StillHeld(w))
    BY <1>1 DEF RenewLeases, TypeOK
  <2>2. \A v \in Worker : Runs(jobs', v) = Runs(jobs, v)
    BY <2>1, TableRuns, JobIdType
  <2>3. Runs(jobs, w) \subseteq StillHeld(w)
    BY <1>1 DEF RenewLeases, Filling, GripInv, Grips, StillHeld, Runs
  <2>4. Grips(u, Runs(jobs', w))
    <3>1. CASE StillHeld(w) = {}
      BY <2>2, <2>3, <3>1 DEF Grips, At
    <3>2. CASE StillHeld(w) # {}
      BY <2>2, <3>2 DEF GripInv
    <3> QED
      BY <3>1, <3>2
  <2> QED
    BY <2>1, <2>2, <2>4, GripStep
<1>2. CASE Crash(w)
  <2>1. Grips(At("dead"), Runs(jobs', w))
    BY DEF Grips, At
  <2> QED
    BY <1>2, <2>1, GripStep DEF Crash
<1>3. ASSUME ShutdownTo(w), wk[w].pc # "dead",
             \A v \in Worker : Runs(jobs', v) \subseteq Runs(jobs, v)
      PROVE  GripInv'
  <2> DEFINE rest == [At("releasing") EXCEPT !.batch = wk[w].batch, !.leader = wk[w].leader,
                                 !.failure = "retryable", !.left = wk[w].batch]
             u == IF wk[w].pc = "idle" THEN At("stopped") ELSE rest
  <2>1. rest.pc = "releasing" /\ rest.batch = wk[w].batch /\ rest.left = wk[w].batch
    BY DEF At
  <2>2. wk' = [wk EXCEPT ![w] = u]
    BY <1>3 DEF ShutdownTo
  <2> HIDE DEF rest
  <2>3. Runs(jobs, w) \subseteq wk[w].batch /\ (wk[w].pc = "idle" => Runs(jobs, w) = {})
    BY <1>3 DEF GripInv, Grips
  <2>4. Grips(u, Runs(jobs', w))
    BY <1>3, <2>1, <2>3 DEF Grips, At
  <2> QED
    BY <1>3, <2>2, <2>4, GripStep
<1>4. CASE Shutdown(w)
  BY <1>3, <1>4 DEF Shutdown, Filling
<1>5. CASE ShutdownInCommit(w)
  BY <1>3, <1>5, WriteRuns DEF ShutdownInCommit, WriteFill
<1> QED
  BY <1>1, <1>2, <1>4, <1>5 DEF StopStep

(* While no database call fails, a running job is in the batch of the       *)
(* worker its row names, unless that worker crashed, for every number of    *)
(* workers and jobs: no expired lease, failed fill, dropped fill or         *)
(* shutdown strands a job.                                                  *)
THEOREM FillNoOrphanedJob ==
  ASSUME ~DbErrors
  PROVE  Spec => []NoOrphanedJob
<1>1. Init => GripInv
  BY DEF Init, GripInv, Grips, Runs, NoJob, At
<1>2. TypeOK /\ GripInv /\ [Next]_vars => GripInv'
  <2> SUFFICES ASSUME TypeOK, GripInv, [Next]_vars PROVE GripInv'
    OBVIOUS
  <2>1. CASE UNCHANGED vars
    BY <2>1 DEF vars, GripInv
  <2>2. CASE QueueStep
    BY <2>2, QueueGrips
  <2>3. ASSUME NEW w \in Worker, WorkerStep(w) \/ RenewLeases(w) \/ StopStep(w)
        PROVE  GripInv'
    BY <2>3, ClaimGrips, FillGrips, FailGrips, RenewStopGrips DEF WorkerStep
  <2> QED
    BY <2>1, <2>2, <2>3 DEF Next
<1>3. TypeOK /\ GripInv => NoOrphanedJob
  <2> SUFFICES ASSUME TypeOK, GripInv, NEW j \in JobId, jobs[j].status = "running"
               PROVE  wk[jobs[j].worker].pc = "dead" \/ Executing(jobs[j].worker, j)
    BY DEF NoOrphanedJob
  <2> DEFINE w == jobs[j].worker
  <2>1. w \in Worker /\ j \in Runs(jobs, w)
    BY DEF TypeOK, Job, Runs
  <2> HIDE DEF w
  <2>2. wk[w].pc = "dead" \/ Executing(w, j)
    BY <2>1 DEF GripInv, Grips, Executing
  <2> QED
    BY <2>2 DEF w
<1> QED
  BY <1>1, <1>2, <1>3, TypeCorrect, PTL DEF Spec

=============================================================================
