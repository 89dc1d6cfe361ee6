------------------------------ MODULE FillJobs ------------------------------
(***************************************************************************)
(* The fill path: the fill_jobs queue of crates/store/src/jobs.rs, the     *)
(* coverage it produces (crates/store/src/coverage.rs) and the fill        *)
(* workers of crates/engine/src/worker.rs, on one chain.                   *)
(*                                                                         *)
(* A job asks for one chunk of blocks for one selector.  Workers claim a   *)
(* job under a lease, take pending jobs of other selectors in the same     *)
(* chunk along, read what coverage lacks, fetch it, re-check the leases    *)
(* and commit rows, coverage and completion in one transaction.  Every     *)
(* database statement or transaction is one action; leases expire, workers *)
(* crash, stop and lose database calls between any two of them.            *)
(*                                                                         *)
(* Time is abstract: a lease is live or expired, a backoff has elapsed or  *)
(* not.  The finality of coverage is left out, so coverage is a set of     *)
(* blocks.  Reading the coverage of a whole batch is one action although   *)
(* the code issues one query per address; coverage never shrinks, so a     *)
(* later read only sees more.                                              *)
(***************************************************************************)
EXTENDS LogSelector

CONSTANTS Worker,          \* worker ids, unique per process and never reused
          NoWorker,        \* null in fill_jobs.worker_id
          SelectorId,      \* ids of the selectors table
          SelectorTable,   \* id -> [dataset, selector]
          Row,             \* what the provider holds: [dataset, block, key]
          Chunk,           \* the block sets jobs may name
          MaxJobs,         \* bound on jobs ever inserted
          MaxAddresses,    \* chain.settings.max_addresses_per_query
          Purpose,         \* job purposes in use, "query" and "backfill"
          InternalAttempts,\* INTERNAL_ATTEMPTS; attempts saturate there
          DbErrors,        \* whether a database call of a worker may fail
          Stoppable        \* workers that may crash or be shut down

JobId == 1..MaxJobs

Dataset(s) == SelectorTable[s].dataset

ASSUME FillJobsAssumption ==
  /\ MaxJobs \in Nat \ {0}
  /\ MaxAddresses \in Nat
  /\ Stoppable \subseteq Worker
  /\ Purpose \subseteq {"query", "backfill"}
  /\ InternalAttempts \in Nat
  /\ DbErrors \in BOOLEAN
  /\ NoWorker \notin Worker
  /\ SelectorTable \in
       [SelectorId -> [dataset : {"evm.logs", "evm.blocks"}, selector : Selector]]
  /\ Row \subseteq [dataset : {"evm.logs", "evm.blocks"}, block : Int, key : LogKey]
  /\ SelectorId # {} /\ Chunk # {}
  /\ \A c \in Chunk : c # {} /\ c \subseteq Int

VARIABLES jobs,      \* the fill_jobs table
          nextId,    \* its id sequence
          coverage,  \* selector id -> blocks its coverage rows hold
          rows,      \* evm_logs and evm_blocks
          wk         \* local state of every worker

vars == <<jobs, nextId, coverage, rows, wk>>

Blocks == UNION Chunk

Status == {"absent", "pending", "running", "done", "failed"}

Active(j) == jobs[j].status \in {"pending", "running"}

Terminal == {"done", "failed"}

Job == [status : Status, selector : SelectorId, chunk : Chunk,
        purpose : Purpose \cup {"query"}, attempts : 0..InternalAttempts,
        worker : Worker \cup {NoWorker},
        leased : BOOLEAN,    \* lease_until > now()
        due : BOOLEAN]       \* next_run_at <= now()

(* What a fill ended with; "internal" is one of the other two by the time  *)
(* it is recorded on the jobs.                                             *)
Failure == {"none", "retryable", "fatal"}

Pc == {"idle", "claimed", "reading", "fetching", "holding", "committing",
       "failing", "releasing", "stopped", "dead"}

WorkerState ==
  [pc : Pc, batch : SUBSET JobId, leader : JobId, attempts : 0..InternalAttempts,
   missing : [SelectorId -> SUBSET Blocks], got : [SelectorId -> SUBSET Blocks],
   fetched : SUBSET Row, failure : Failure, held : SUBSET JobId,
   left : SUBSET JobId]

TypeOK ==
  /\ jobs \in [JobId -> Job]
  /\ \A j \in JobId : jobs[j].worker # NoWorker <=> jobs[j].status = "running"
  /\ nextId \in 1..(MaxJobs + 1)
  /\ coverage \in [SelectorId -> SUBSET Blocks]
  /\ rows \subseteq Row
  /\ wk \in [Worker -> WorkerState]

-----------------------------------------------------------------------------
(* What a selector matches and what its coverage holds. *)

RowMatches(s, r) ==
  /\ r.dataset = Dataset(s)
  /\ Dataset(s) = "evm.logs" => Matches(SelectorTable[s].selector, r.key)

(* The blocks a query of s may be answered from.  For logs: every     *)
(* address of s needs a recorded selector that covers that address.         *)
CoveredForQuery(s) ==
  IF Dataset(s) = "evm.blocks"
  THEN coverage[s]
  ELSE {b \in Blocks : \A part \in SplitByAddress(SelectorTable[s].selector) :
          \E t \in SelectorId :
            /\ Dataset(t) = "evm.logs"
            /\ Covers(SelectorTable[t].selector, part)
            /\ b \in coverage[t]}

-----------------------------------------------------------------------------
(* Initial state *)

NoJob == [status |-> "absent", selector |-> CHOOSE s \in SelectorId : TRUE,
          chunk |-> CHOOSE c \in Chunk : TRUE, purpose |-> "query",
          attempts |-> 0, worker |-> NoWorker, leased |-> FALSE, due |-> FALSE]

Nothing == [s \in SelectorId |-> {}]

(* A worker that executes nothing. *)
At(pc) == [pc |-> pc, batch |-> {}, leader |-> 1, attempts |-> 0,
           missing |-> Nothing, got |-> Nothing, fetched |-> {},
           failure |-> "none", held |-> {}, left |-> {}]

Init ==
  /\ jobs = [j \in JobId |-> NoJob]
  /\ nextId = 1
  /\ coverage = Nothing
  /\ rows = {}
  /\ wk = [w \in Worker |-> At("idle")]

-----------------------------------------------------------------------------
(* The queue *)

(* Mutant: the conflict with an active job is not noticed. *)
EnqueueDuplicate(s, c, p) ==
  /\ nextId <= MaxJobs
  /\ jobs' = [jobs EXCEPT ![nextId] =
       [NoJob EXCEPT !.status = IF c \subseteq coverage[s] THEN "done" ELSE "pending",
                     !.selector = s, !.chunk = c, !.purpose = p, !.due = TRUE]]
  /\ nextId' = nextId + 1
  /\ UNCHANGED <<coverage, rows, wk>>

(* A new job for a chunk no active job names.  A caller that finds an      *)
(* active job joins it, which changes nothing here.  The insert and the    *)
(* statement that marks an already covered job done commit together.       *)
Enqueue(s, c, p) ==
  /\ nextId <= MaxJobs
  /\ \A j \in JobId : Active(j) => <<jobs[j].selector, jobs[j].chunk>> # <<s, c>>
  /\ jobs' = [jobs EXCEPT ![nextId] =
       [NoJob EXCEPT !.status = IF c \subseteq coverage[s] THEN "done" ELSE "pending",
                     !.selector = s, !.chunk = c, !.purpose = p, !.due = TRUE]]
  /\ nextId' = nextId + 1
  /\ UNCHANGED <<coverage, rows, wk>>

(* prune_done and prune_failed.  A pruned id keeps its selector and chunk: *)
(* ids are not reused and workers hold copies of the jobs they claimed.    *)
Prune(j) ==
  /\ jobs[j].status \in Terminal
  /\ jobs' = [jobs EXCEPT ![j] = [NoJob EXCEPT !.selector = jobs[j].selector,
                                               !.chunk = jobs[j].chunk]]
  /\ UNCHANGED <<nextId, coverage, rows, wk>>

LeaseExpires(j) ==
  /\ jobs[j].status = "running" /\ jobs[j].leased
  /\ jobs' = [jobs EXCEPT ![j].leased = FALSE]
  /\ UNCHANGED <<nextId, coverage, rows, wk>>

BackoffElapses(j) ==
  /\ jobs[j].status = "pending" /\ ~jobs[j].due
  /\ jobs' = [jobs EXCEPT ![j].due = TRUE]
  /\ UNCHANGED <<nextId, coverage, rows, wk>>

MoreAttempts(n) == IF n < InternalAttempts THEN n + 1 ELSE n

Run(job, w, leased) ==
  [job EXCEPT !.status = "running", !.worker = w, !.leased = leased,
              !.attempts = MoreAttempts(job.attempts)]

(* Mutant: an expired lease is not picked up again. *)
ClaimablePending(j) == jobs[j].status = "pending" /\ jobs[j].due

Claimable(j) ==
  \/ jobs[j].status = "pending" /\ jobs[j].due
  \/ jobs[j].status = "running" /\ ~jobs[j].leased

(* A row that an open write transaction may have locked; claim skips it.   *)
MaybeLocked(j) == \E w \in Worker : wk[w].pc = "committing" /\ j \in wk[w].held

(* claim with limit 1: query jobs go first.  The order among jobs of one   *)
(* purpose is by time, which is abstract here.                             *)
Claim(w, j) ==
  /\ wk[w].pc = "idle"
  /\ Claimable(j)
  /\ jobs[j].purpose # "query" =>
       \A k \in JobId : Claimable(k) /\ ~MaybeLocked(k) => jobs[k].purpose # "query"
  /\ jobs' = [jobs EXCEPT ![j] = Run(jobs[j], w, TRUE)]
  /\ wk' = [wk EXCEPT ![w] =
       [At("claimed") EXCEPT !.batch = {j}, !.leader = j,
                             !.attempts = MoreAttempts(jobs[j].attempts)]]
  /\ UNCHANGED <<nextId, coverage, rows>>

SameCell(j, k) ==
  /\ jobs[j].chunk = jobs[k].chunk
  /\ Dataset(jobs[j].selector) = Dataset(jobs[k].selector)

(* Pending jobs of the leader's chunk, for evm.logs only. *)
SiblingCandidates(leader) ==
  {k \in JobId : /\ k # leader
                 /\ SameCell(k, leader)
                 /\ Dataset(jobs[leader].selector) = "evm.logs"
                 /\ jobs[k].status = "pending" /\ jobs[k].due}

(* claim_batch_siblings: the lowest ids first.  Siblings get the lease the *)
(* leader was claimed with, which has expired if the leader was reclaimed. *)
ClaimSiblings(w) ==
  LET leader     == wk[w].leader
      candidates == SiblingCandidates(leader)
      siblings   == {k \in candidates :
                       Cardinality({i \in candidates : i < k}) < MaxAddresses - 1}
      leased     == /\ jobs[leader].status = "running"
                    /\ jobs[leader].worker = w
                    /\ jobs[leader].leased
  IN /\ wk[w].pc = "claimed"
     /\ jobs' = [k \in JobId |-> IF k \in siblings THEN Run(jobs[k], w, leased)
                                                   ELSE jobs[k]]
     /\ wk' = [wk EXCEPT ![w].pc = "reading", ![w].batch = @ \cup siblings]
     /\ UNCHANGED <<nextId, coverage, rows>>

(* The sibling query failed: claim_batch returns the error and nobody      *)
(* executes the leader until its lease expires.                            *)
ClaimSiblingsFails(w) ==
  /\ DbErrors
  /\ wk[w].pc = "claimed"
  /\ wk' = [wk EXCEPT ![w] = At("idle")]
  /\ UNCHANGED <<jobs, nextId, coverage, rows>>

-----------------------------------------------------------------------------
(* One fill: read coverage, fetch, hold, commit *)

Members(w) == {jobs[j].selector : j \in wk[w].batch}

Sel(S) == {SelectorTable[s].selector : s \in S}

(* What the coverage of each member lacks inside the chunk. *)
ReadCovered(w) ==
  /\ wk[w].pc = "reading"
  /\ wk' = [wk EXCEPT ![w].pc = "fetching", ![w].missing =
       [s \in SelectorId |-> IF s \in Members(w)
                             THEN jobs[wk[w].leader].chunk \ CoveredForQuery(s)
                             ELSE {}]]
  /\ UNCHANGED <<jobs, nextId, coverage, rows>>

(* A grouping of the members that still miss blocks: equal gaps, and one    *)
(* provider query per group.  The greedy grouping of the code is one of     *)
(* these (module BatchGroups).                                              *)
Grouping(missing) ==
  LET asked == {s \in SelectorId : missing[s] # {}}
  IN {G \in SUBSET (SUBSET asked \ {{}}) :
        /\ UNION G = asked
        /\ \A g, h \in G : g = h \/ g \cap h = {}
        /\ \A g \in G : /\ \A s, t \in g : missing[s] = missing[t]
                        /\ Batchable(Sel(g), MaxAddresses)}

(* A failing call keeps a prefix of what it was asked for: eth_getLogs the  *)
(* windows before the failing one, evm.blocks only whole gaps.              *)
CutPoint(s, missing, cut) ==
  /\ cut \in missing[s]
  /\ Dataset(s) = "evm.blocks" => cut - 1 \notin missing[s]

(* The rows one group's query returns and the re-filter keeps. *)
Retrieved(group, r) ==
  \E s \in group :
    /\ RowMatches(s, r)
    /\ Dataset(s) = "evm.logs" => Matches(BatchSelector(Sel(group)), r.key)

FetchedRows(groups, got) ==
  {r \in Row : \E g \in groups : Retrieved(g, r) /\ \E s \in g : r.block \in got[s]}

FetchResult(w, groups, got, failure) ==
  /\ wk' = [wk EXCEPT ![w].pc = "holding", ![w].missing = Nothing, ![w].got = got,
                      ![w].fetched = FetchedRows(groups, got),
                      ![w].failure = failure]
  /\ UNCHANGED <<jobs, nextId, coverage, rows>>

Fetch(w) ==
  /\ wk[w].pc = "fetching"
  /\ \E groups \in Grouping(wk[w].missing) :
       FetchResult(w, groups, wk[w].missing, "none")

(* Stops at the first failure: the groups of done are complete, one group   *)
(* was cut, the others were not asked for.                                  *)
CutFetch(missing, done, group, cut) ==
  [s \in SelectorId |->
     IF s \in UNION done THEN missing[s]
     ELSE IF s \in group THEN {b \in missing[s] : b < cut}
     ELSE {}]

FetchFails(w) ==
  /\ wk[w].pc = "fetching"
  /\ \E groups \in Grouping(wk[w].missing) :
     \E group \in groups, done \in SUBSET groups,
        cut \in Blocks, failure \in {"retryable", "fatal"} :
       /\ group \notin done
       /\ \A s \in group : CutPoint(s, wk[w].missing, cut)
       /\ FetchResult(w, groups, CutFetch(wk[w].missing, done, group, cut), failure)

StillHeld(w) ==
  {j \in wk[w].batch : jobs[j].status = "running" /\ jobs[j].worker = w}

Extend(S) == [j \in JobId |-> IF j \in S THEN [jobs[j] EXCEPT !.leased = TRUE]
                                         ELSE jobs[j]]

HoldLeases(w) ==
  /\ wk[w].pc = "holding"
  /\ jobs' = Extend(StillHeld(w))
  /\ wk' = [wk EXCEPT ![w].pc = "committing", ![w].held = StillHeld(w)]
  /\ UNCHANGED <<nextId, coverage, rows>>

(* After execute returns without a failure the worker claims again; with    *)
(* one it records the failure on every job of the batch.                    *)
AfterFill(w, failure) ==
  IF failure = "none" THEN At("idle")
  ELSE [At("failing") EXCEPT !.batch = wk[w].batch, !.leader = wk[w].leader,
                             !.failure = failure, !.left = wk[w].batch]

(* An internal error is retried until the leader has used its attempts.     *)
InternalFailure(w) ==
  IF wk[w].attempts < InternalAttempts THEN "retryable" ELSE "fatal"

(* Mutant: the worker stays on the finished job. *)
CompleteKeepsWorker(job) == [job EXCEPT !.status = "done", !.leased = FALSE]

Complete(job) ==
  [job EXCEPT !.status = "done", !.worker = NoWorker, !.leased = FALSE]

CompleteJobs(w, S) ==
  [j \in JobId |-> IF j \in S /\ jobs[j].status = "running" /\ jobs[j].worker = w
                   THEN Complete(jobs[j]) ELSE jobs[j]]

(* Mutants of the write transaction: rows are stored only when nothing      *)
(* failed; only the leader's selector gets coverage.                        *)
WriteRowsOnSuccess(w) ==
  LET held == {jobs[j].selector : j \in wk[w].held}
  IN /\ wk[w].pc = "committing"
     /\ rows' = IF wk[w].failure = "none" THEN rows \cup wk[w].fetched ELSE rows
     /\ coverage' = [s \in SelectorId |-> IF s \in held THEN coverage[s] \cup wk[w].got[s]
                                                        ELSE coverage[s]]
     /\ jobs' = IF wk[w].failure = "none" THEN CompleteJobs(w, wk[w].held) ELSE jobs
     /\ UNCHANGED nextId

WriteLeaderCoverage(w) ==
  LET leader == jobs[wk[w].leader].selector
  IN /\ wk[w].pc = "committing"
     /\ rows' = rows \cup wk[w].fetched
     /\ coverage' = [coverage EXCEPT ![leader] = @ \cup wk[w].got[leader]]
     /\ jobs' = IF wk[w].failure = "none" THEN CompleteJobs(w, wk[w].held) ELSE jobs
     /\ UNCHANGED nextId

(* The write transaction: every fetched row, coverage for the selectors of  *)
(* held jobs only, completion of the held jobs when nothing failed.         *)
WriteFill(w) ==
  LET held == {jobs[j].selector : j \in wk[w].held}
  IN /\ wk[w].pc = "committing"
     /\ rows' = rows \cup wk[w].fetched
     /\ coverage' = [s \in SelectorId |-> IF s \in held THEN coverage[s] \cup wk[w].got[s]
                                                        ELSE coverage[s]]
     /\ jobs' = IF wk[w].failure = "none" THEN CompleteJobs(w, wk[w].held) ELSE jobs
     /\ UNCHANGED nextId

Commit(w) ==
  /\ WriteFill(w)
  /\ wk' = [wk EXCEPT ![w] = AfterFill(w, wk[w].failure)]

(* The transaction committed but the worker never learns it. *)
CommitUnacknowledged(w) ==
  /\ DbErrors
  /\ WriteFill(w)
  /\ wk' = [wk EXCEPT ![w] = AfterFill(w, InternalFailure(w))]

Fails(w, failure) ==
  /\ wk' = [wk EXCEPT ![w] = AfterFill(w, failure)]
  /\ UNCHANGED <<jobs, nextId, coverage, rows>>

(* insert_logs or insert_blocks met a row of another block hash. *)
CommitReorg(w) ==
  /\ wk[w].pc = "committing"
  /\ Fails(w, "retryable")

(* The heads of the chain could not be fetched. *)
HeadsFail(w) ==
  /\ wk[w].pc = "reading"
  /\ \E failure \in {"retryable", "fatal"} : Fails(w, failure)

(* A database call of fill failed and its transaction rolled back. *)
StoreFails(w) ==
  /\ DbErrors
  /\ wk[w].pc \in {"reading", "holding", "committing"}
  /\ Fails(w, InternalFailure(w))

-----------------------------------------------------------------------------
(* Recording failures, renewing leases, stopping *)

(* Mutant: the failure is recorded whoever runs the job. *)
FailAnyJob(w, j, retryable, due) ==
  [jobs EXCEPT ![j] =
     [jobs[j] EXCEPT !.status = IF retryable THEN "pending" ELSE "failed",
                     !.worker = NoWorker, !.leased = FALSE,
                     !.due = IF retryable THEN due ELSE jobs[j].due]]

(* fail_job on a job this worker still runs; otherwise it changes nothing.  *)
FailJob(w, j, retryable, due) ==
  IF jobs[j].status = "running" /\ jobs[j].worker = w
  THEN [jobs EXCEPT ![j] =
          [jobs[j] EXCEPT !.status = IF retryable THEN "pending" ELSE "failed",
                          !.worker = NoWorker, !.leased = FALSE,
                          !.due = IF retryable THEN due ELSE jobs[j].due]]
  ELSE jobs

(* The job is dealt with; after the last one the worker moves on. *)
Leave(w, j, next) ==
  wk' = [wk EXCEPT ![w] = IF wk[w].left = {j} THEN At(next)
                          ELSE [wk[w] EXCEPT !.left = wk[w].left \ {j}]]

RecordFailure(w, j) ==
  /\ wk[w].pc = "failing" /\ j \in wk[w].left
  /\ jobs' = FailJob(w, j, wk[w].failure = "retryable", FALSE)
  /\ Leave(w, j, "idle")
  /\ UNCHANGED <<nextId, coverage, rows>>

Release(w, j) ==
  /\ wk[w].pc = "releasing" /\ j \in wk[w].left
  /\ jobs' = FailJob(w, j, TRUE, TRUE)
  /\ Leave(w, j, "stopped")
  /\ UNCHANGED <<nextId, coverage, rows>>

(* A failed fail_job is logged and skipped. *)
FailJobLost(w, j) ==
  /\ DbErrors
  /\ wk[w].pc \in {"failing", "releasing"} /\ j \in wk[w].left
  /\ Leave(w, j, IF wk[w].pc = "failing" THEN "idle" ELSE "stopped")
  /\ UNCHANGED <<jobs, nextId, coverage, rows>>

Filling == {"reading", "fetching", "holding", "committing"}

(* Runs beside the fill.  Once no job is held the fill is dropped. *)
RenewLeases(w) ==
  /\ wk[w].pc \in Filling
  /\ jobs' = Extend(StillHeld(w))
  /\ wk' = IF StillHeld(w) = {} THEN [wk EXCEPT ![w] = At("idle")] ELSE wk
  /\ UNCHANGED <<nextId, coverage, rows>>

(* Mutant: only the leader of the batch is released. *)
ShutdownToLeader(w) ==
  wk' = [wk EXCEPT ![w] =
    IF wk[w].pc = "idle" THEN At("stopped")
    ELSE [At("releasing") EXCEPT !.batch = wk[w].batch, !.leader = wk[w].leader,
                                 !.failure = "retryable", !.left = {wk[w].leader}]]

ShutdownTo(w) ==
  wk' = [wk EXCEPT ![w] =
    IF wk[w].pc = "idle" THEN At("stopped")
    ELSE [At("releasing") EXCEPT !.batch = wk[w].batch, !.leader = wk[w].leader,
                                 !.failure = "retryable", !.left = wk[w].batch]]

(* Shutdown is noticed while waiting for work or while executing, never     *)
(* inside claim_batch.                                                      *)
Shutdown(w) ==
  /\ w \in Stoppable
  /\ wk[w].pc \in Filling \cup {"idle", "failing"}
  /\ ShutdownTo(w)
  /\ UNCHANGED <<jobs, nextId, coverage, rows>>

(* The fill is dropped while its commit is under way, and the commit lands. *)
ShutdownInCommit(w) ==
  /\ w \in Stoppable
  /\ WriteFill(w)
  /\ ShutdownTo(w)

Crash(w) ==
  /\ w \in Stoppable
  /\ wk[w].pc \notin {"stopped", "dead"}
  /\ wk' = [wk EXCEPT ![w] = At("dead")]
  /\ UNCHANGED <<jobs, nextId, coverage, rows>>

-----------------------------------------------------------------------------

QueueStep ==
  \/ \E s \in SelectorId, c \in Chunk, p \in Purpose : Enqueue(s, c, p)
  \/ \E j \in JobId : Prune(j) \/ LeaseExpires(j) \/ BackoffElapses(j)

ClaimStep(w) ==
  \/ \E j \in JobId : Claim(w, j)
  \/ ClaimSiblings(w) \/ ClaimSiblingsFails(w)

FillStep(w) ==
  \/ ReadCovered(w) \/ HeadsFail(w) \/ StoreFails(w)
  \/ Fetch(w) \/ FetchFails(w)
  \/ HoldLeases(w)
  \/ Commit(w) \/ CommitUnacknowledged(w) \/ CommitReorg(w)

FailStep(w) ==
  \E j \in JobId : RecordFailure(w, j) \/ Release(w, j) \/ FailJobLost(w, j)

WorkerStep(w) == ClaimStep(w) \/ FillStep(w) \/ FailStep(w)

StopStep(w) == Shutdown(w) \/ ShutdownInCommit(w) \/ Crash(w)

Next ==
  \/ QueueStep
  \/ \E w \in Worker : WorkerStep(w) \/ RenewLeases(w) \/ StopStep(w)

Spec == Init /\ [][Next]_vars

-----------------------------------------------------------------------------
(* Fairness.  A worker that is not stopped keeps running its loop, and time *)
(* passes: backoffs elapse, and so does a lease nobody renews.              *)

Executing(w, j) == j \in wk[w].batch

Abandoned(j) == jobs[j].status = "running" /\ ~Executing(jobs[j].worker, j)

Fairness ==
  /\ \A w \in Worker : WF_vars(WorkerStep(w))
  /\ \A j \in JobId : /\ WF_vars(BackoffElapses(j))
                      /\ WF_vars(Abandoned(j) /\ LeaseExpires(j))

FairSpec == Spec /\ Fairness

(* What may delay a job for ever: provider and database failures, and a     *)
(* lease that runs out under a worker that is still executing the job.      *)
Fault ==
  \/ \E w \in Worker : \/ ClaimSiblingsFails(w) \/ HeadsFail(w) \/ StoreFails(w)
                       \/ FetchFails(w) \/ CommitReorg(w) \/ CommitUnacknowledged(w)
                       \/ \E j \in JobId : FailJobLost(w, j)
  \/ \E j \in JobId : ~Abandoned(j) /\ LeaseExpires(j)

-----------------------------------------------------------------------------
(* Properties *)

(* A query answered from coverage misses no row: every row that matches a   *)
(* selector and lies in a block covered_for_query reports for it is stored, *)
(* whatever leases expired, fills were cut short or batches were shared.    *)
ServedComplete ==
  \A s \in SelectorId : \A r \in Row :
    RowMatches(s, r) /\ r.block \in CoveredForQuery(s) => r \in rows

(* A waiter that sees its job done finds the whole chunk covered when it    *)
(* reads coverage again (fill_durable in query.rs).                         *)
DoneMeansCovered ==
  \A j \in JobId : jobs[j].status = "done" =>
    jobs[j].chunk \subseteq CoveredForQuery(jobs[j].selector)

(* Done and failed are final: no late worker, whose lease expired and whose *)
(* job was finished by another, moves the job again.  Only pruning does.    *)
TerminalIsFinal ==
  [][\A j \in JobId : jobs[j].status \in Terminal =>
       jobs'[j].status \in {jobs[j].status, "absent"}]_vars

(* Identical chunks share one active job, also while jobs are failed back   *)
(* to pending and reclaimed (the fill_jobs_active index).                   *)
OneActiveJob ==
  \A j, k \in JobId :
    Active(j) /\ Active(k) /\ jobs[j].selector = jobs[k].selector
      /\ jobs[j].chunk = jobs[k].chunk => j = k

(* When no database call fails, a running job is always in the hands of the *)
(* worker named on it: a worker that stopped, dropped its fill or went on   *)
(* to other jobs left none behind.  Only a crash leaves one to its lease.   *)
NoOrphanedJob ==
  \A j \in JobId : jobs[j].status = "running" =>
    \/ wk[jobs[j].worker].pc = "dead"
    \/ Executing(jobs[j].worker, j)

(* A job does not stay active for ever, provided one worker keeps running   *)
(* and from some time on the provider and the database answer.  Crashed and *)
(* stopped workers, expired leases and lost batches do not strand it.       *)
EveryJobEnds ==
  <>[][~Fault]_vars => \A j \in JobId : Active(j) ~> ~Active(j)

=============================================================================
