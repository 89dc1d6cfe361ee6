# datalens: specifications, model checks and proofs

datalens caches EVM logs and block headers in PostgreSQL and fills the cache on
demand from a JSON-RPC provider. These TLA+ modules model the parts of it that
are hard to test: the leased fill jobs, the windows in which logs are fetched, the
coverage bookkeeping, the chain leader that follows a chain which forks under it, the
gateway that rations calls of the provider, the query engine that waits for all of
these, and the client library with its cursors. TLC checks small instances; TLAPS proves the
central safety properties of every part for all instances.

`PROJECT.json` lists the components, runs, mutants, findings, hazards and
theorems, and maps every definition to the lines it models.

## The system

| Part | Source (under `src/crates`) | Role |
| --- | --- | --- |
| Query engine | `engine/src/query.rs`, `rows.rs`, `plan.rs` | Serves the covered prefix of a range, enqueues fills for gaps, waits, adds the hot segment above safe |
| Fill queue | `store/src/jobs.rs` | `fill_jobs`: one active job per selector and chunk, claimed under a lease |
| Fill workers | `engine/src/worker.rs` | Claim a job and its siblings, fetch what coverage lacks, commit rows, coverage and completion together |
| Selectors | `core/src/selector.rs` | Which logs a selector matches, which selector covers which, merging for one `eth_getLogs` |
| Coverage | `store/src/coverage.rs`, `core/src/range.rs` | Non-overlapping ranges per selector with a finality |
| Chain leader | `engine/src/leader.rs`, `follow.rs`, `reorg.rs`, `retention.rs` | One per chain (advisory lock): heads, follow, rollback, promotion, retention |
| Stored rows | `store/src/logs.rs`, `blocks.rs`, `unsafe_rows.rs`, `follow.rs`, `heads.rs` | The statements the leader and the workers issue |
| Subscriptions | `engine/src/subscribe.rs`, `store/src/subscriptions.rs` | What is followed, quota, renewal, expiry |
| Provider gateway | `provider/src/*.rs` | Token bucket with priorities, holds, retries, adaptive range |
| EVM client | `evm/src/*.rs` | Windows, batches, heads |
| Wake-ups | `store/src/notify.rs` | `LISTEN/NOTIFY` with a periodic re-check |
| Usage, budgets | `engine/src/usage.rs`, `budget.rs` | Accounting, fill allowance |
| Client | `src/sdks/rust/src` | Pages, the follow stream, cursors that survive crashes and forks |
| API, server | `api`, `server` | Admission, process roles |

Queries, workers and the leader meet only in the database: queries enqueue jobs
and read coverage, workers write rows and coverage, the leader writes unsafe rows
and raises them to durable ones with coverage. They share a chain's gateway: each call
of the provider spends one of its tokens. Clients see answers only: a served range, its
segments, the rows, and where to go on.

## Modules

| Module | Models | State |
| --- | --- | --- |
| `LogSelector` | `selector.rs`: `covers`, `matches`, `split_by_address`, `batch` | operators |
| `BatchGroups` | `batch_groups` of `worker.rs`, one selector per step | the groups so far |
| `FillJobs` | `jobs.rs`, the fill part of `worker.rs`, `covered_for_query` | `jobs` (the table), `nextId` (its sequence), `coverage`, `rows`, `wk` (each worker's locals) |
| `BlockPlan` | `range.rs`, `plan.rs`, the pure functions of `coverage.rs` | operators; u64 arithmetic saturates |
| `Coverage` | `merge_spans` and `merge_coverage`, with plans, prefixes and segments computed from the rows | `spans` (the rows of one selector), `read` (the highest heads a tick has read), `heads` (those published) |
| `CoverageTimeline` | what coverage promises: each block has a finality that only rises | `timeline` |
| `Follow` | the leader's tick, reorg handling, promotion, retention, subscriptions as follow sees them | the chain, `subs`, `progress`, `halted`, `rows`, `coverage`, `heads`, `fills` (fills between check and commit), `lock`, `tk` (each leader's tick) |
| `LogFetch` | `fetch_logs` of `worker.rs`, `get_logs` of `evm/src/logs.rs`, `provider/src/range.rs`; extends `BatchGroups` | `range` (the shared window), the loop indices, the window being fetched, `rows`, `fetches` |
| `Query` | `query.rs`, `budget.rs`, `subscribe.rs`, the waits of `jobs.rs`, `heads.rs` and `notify.rs` | the chain, `heads` and `cached`, `coverage`, `rows`, `progress`, `watched`, `jobs`, `window` (the fill budget), `q` (each query's locals) |
| `Sdk` | `client.rs`, `follow.rs` and `cursor.rs` of the Rust client | the chain, what the service has of it, `call` (a `query_all`), `Follower`'s fields, what the application was told, wrote and saved, both cursors |
| `Gateway` | `budget.rs` and `gateway.rs` of the provider crate | `balance`, `earned`, `used`, `newDay`, `hold`, `queue` (`waiters`), `armed`, `timers` (refill tasks), `cl` (each call) |
| `TokenBucket` | what the gateway promises the provider | `avail`, `spent` |

`MC*` modules give constants their values. `*Proofs` modules hold the theorems.
A definition marked "Mutant" above the definition it varies is a plausible bug of
that code; with it in place TLC finds the property violated.

**FillJobs.** One action per statement or transaction: `Enqueue`, `Claim`,
`ClaimSiblings`, `ReadCovered`, `Fetch`/`FetchFails`, `HoldLeases`, `Commit`,
`RecordFailure`, `Release`, `RenewLeases`, `Shutdown`, `Crash`, `Prune`. A worker's
`pc` is the await it stands at. Between any two actions leases expire, workers stop or
crash, database calls fail, and commits are applied but not acknowledged. A lease
is live or expired and a backoff elapsed or not; there are no clocks. `MaybeLocked`
is `for update skip locked` passing over rows a write transaction holds. Finality
is left to `Coverage`.

**Coverage.** `AddCoverage` is one action: the code reads, merges and rewrites the rows
under the selector's row lock. `MaxEnd` stands for `BlockRange::MAX_END` and `MaxU64` for
`u64::MAX`; with 3, 7 and chunk sizes up to 7 every saturating operation of
`align_chunks` and `grid_span` is reached. A tick reads heads (`ReadHeads`), promotes by them (`Promote`)
and publishes them afterwards or never (`Publish`), while a fill knows the published ones: coverage may lie
above `heads`, and never above `read`.

**Follow.** A block hash is the number of the fork the block was mined on, so a
hash and a height determine the whole chain below. `Reorg(n, top)` replaces every
block from `n` upward. A tick runs `StartTick` (the head call), `Plan`, `CheckHead`
per unpromoted head, `FetchHeaders`, `FetchLogs`, `ResolveEnd`, `CheckFetched` (`hash_conflict`) and
`StoreFetched` (the insert and the new follow heads, the same transaction), `Finalize`
per row, `Publish`, and `Unfollow` and `Purge` for retention. A mismatch leads
to `Probe` (one turn of the binary search), `Found`, `RollBack` and `Halt`. The chain
moves, subscriptions expire, and leaders crash between any two of
these. A fill is `CheckFill` and `Fill`, or `DropFill`, for the blocks in `Filling`; `AttachHot` is a query that
creates a dropped follow row again from its own start, for the starts in `Asked`. A selector matches *kinds* of logs, so overlapping selectors share rows.

Follow's abstractions:
- heads are in lag mode;
- a provider call reads one consistent chain as it is at that moment. Load-balanced
  nodes that lag behind each other, and a return to an abandoned fork, are assumed away;
- reading subscriptions, the halt and the follow rows at the start of a tick is one step;
- which selectors of a span batch together is left open (`LogSelector` settles it);
- transaction senders and usage are left out;
- the hash at the end of a promoted segment is read with the promotion;
- a transaction that stores rows has two steps, the conflict check and the rest. Under `READ COMMITTED` other
  transactions may commit in between.

**Gateway.** Every stretch under one lock of the budget is an action: `CheckHold` and one of
`Take`, `Park`, `Exhausted` are `acquire`; `TurnComes`, `TimedOut`, `Leave`, `PassOn` are
`wait_turn`; `RefillFires` is a round of the refill task; `Send`, `Finish`, `FailRetryable`,
`HeldLong`, `Retry` are `call_counted` and `batch`. `Cancel` drops the call's future at an await: its
queue entry stays, and a wake it was sent is lost. `TimedOut` drops the receiver before
`Leave` asks whether the entry is still queued, so a wake may be sent in between. Tokens are
whole, a call is made once by a task of its own, and deadlines, holds, backoffs and days end at
some time.

**LogFetch.** `Grouping` is a step of `batch_groups`; then each group walks each gap.
`OpenWindow` reads the shared range, `Answered` and `Limited` are one `eth_getLogs` of an
address group, `Shrink` reads the range again after a refusal, `CallFails` is any other error.
`GiveUp` keeps the windows before the failing one. Between any two of these `Others` shrinks, widens or
expires the range. All members lack the same gaps; `fetch_logs` repeats the same loop for each
list of gaps. `FillJobs!Fetch` takes the result, a prefix per group, as its input.

**Query.** Every await of `query`, `fill_durable` and `hot` ends an action: `Start` (heads),
`Attach`, `Plan`, `Charge` and `Enqueue` per chunk, `WaitDone`, `Promotion` and `Reread`, `Hot`, `Answer`.
The service around it is what `FillJobs` and `Follow` describe, shortened: a job stores a prefix
of its chunk and ends done or failed; the leader pulls, rolls back, promotes, unfollows and prunes
in one step each. Every block has one row. Its abstractions:
- the waits look at the database again at least once a second, so a lost notification is a delay:
  a wait may end as soon as its condition holds, at the deadline, or with an error;
- a wait and a cached copy of heads are far shorter than `unsafe_retention` (15 s and 500 ms
  against a day), so `Prune` stays below the safe height any of them started from;
- the reason given for a short answer is left out, and so are field projection and the senders and
  timestamps attached to rows. A page holds all rows;
- whether the application is at `max_subscriptions` is left open at every attach;
- one fork. A chain that returns to a fork it left is outside the model, and `AnchorVouches` with it.

**Sdk.** One program at a time against a service that answers as `Query` does. A `query_all` is
`QueryServes` and `QueryRows` per page, so the chain forks between pages, and between what is served
and the rows read for it. "follow" is the loop of `sdks/README.md` around `follow()`: `Step`, `Batch`
(rows written), `Save` (checkpoint), with `Crash` anywhere. "tail" re-reads from `settled` and
gives every answer to `ProvisionalCursor`. A hash is the chain up to its block. Retries of one HTTP
call are one call; an error that cannot be retried ends the stream and is left out.

## Runs

| Run | Shows |
| --- | --- |
| `log_fetch` | groups fit the address cap and their query misses no member's log; what counts as fetched has all its logs, and no row is there without its block; a fetch ends |
| `fill_races` | two workers, expiring leases, shutdowns and dropped fills: coverage is never ahead of rows, done means covered, terminal jobs stay, no running job is without its worker |
| `fill_liveness` | every job ends; one active job per chunk |
| `coverage` | rows stay canonical and refine `CoverageTimeline`; plans, prefixes and segments are right on every reachable coverage |
| `follow_complete` | what is covered, or vouched for by a canonical head, is exactly the canonical rows; durable rows are kept |
| `follow_rows` | durable rows are canonical, the verified head commits to the rows, tables agree per height, follow catches up |
| `gateway` | no wake-up is lost, one refill task runs while anyone is queued, the calls refine `TokenBucket`, every call ends |
| `query` | durable blocks of an answer have exactly their canonical rows, an anchor vouches for the rows below it (no stale row; none missing when the segment starts right above safe), `next_start` loses and repeats nothing, the fill budget holds, polling reaches the end of the range |
| `sdk` | the follow stream reports each block once, a checkpoint saved after each batch is right whenever the application crashes, the tail cursor repairs what it kept, both catch up |
| `follow_gap`, `follow_capped`, `follow_unwatched` | three disagreements between code and comments, below |

**Bounds.** Two workers and two jobs suffice for every race of a late worker with
its successor, and for a batch with a sibling. `fill_races` has a database that answers, which
`NoOrphanedJob` needs; `fill_liveness` has one selector, a database that fails, a two-block chunk and so fetches that end in
the middle, and the theorems below hold with failing calls and any chunk. `log_fetch` has eight
selectors of which three are fetched, a cap of two addresses, two gaps, the first longer than half the
largest window, and a streak of two.
`query` has one client that sends a query of each finality, and one for the last block alone, again and again, another application's
chunk, four blocks with a lag of one, and an allowance below the chunk size, so that the budget refuses. The
largest block number is `MaxEnd`, as in `Coverage`. `sdk` has a stream of each finality, pages of one
row, three blocks and one fork; two forks (1.9 million states) and four blocks for the safety
properties pass as well, outside the kept run. `Gateway` has one head call and two of a lower rank, one of them with a deadline
and failing attempts: a woken caller, one that takes its token, and one still queued. Two tokens
let a take wake the next waiter, and a daily limit of three is reached. In `Follow` the chain grows to height 4 with one fork: enough for
rows below safe, a promoted part, an unpromoted part and a block above, with the
fork at any of them. `Window = 1` makes the search widen and `Halt` reachable. `Depth
= 0` keeps forks above the safe height; what a provider calls safe is assumed final.
`follow_complete` uses logs in every block, spans up to latest, a query that attaches above safe and a chain that
does not shrink (1.6 million states), `follow_rows` sparse logs with headers, a fill of a header and no expiry or failing calls: these
are the conditions the findings show to be needed. One leader may lose its lock,
finish its tick and be elected again. `MaxForks = 2` and two leaders are excluded; the
hazards say what happens there: with two leaders both may pass the conflict check and then store
different blocks, so `OneHashPerHeight` fails. `CHECK_DEADLOCK FALSE` is set where the bounded number of
jobs, selectors or blocks lets a run end.

**Fairness.** `FillJobs!FairSpec` is weak fairness of the workers' steps, of the
expiry of leases nobody renews and of backoffs: workers poll, and time passes.
`Follow!FairSpec` is weak fairness of each leader's steps: the tick interval fires and
every call returns. `Gateway!FairSpec` is weak fairness of the calls together (some task
that is ready is polled), of the refill task, of the passing of time that earns tokens, and of
the end of a hold. `LogFetch!FetchSpec` is weak fairness of the fetch: every call returns.
`Query!FairSpec` is weak fairness of a query's steps, of the leader, of jobs that complete and of the
budget's minute, and strong fairness of a poll that reads fresh heads and of an attach that writes the
subscription: a copy of heads gets older than `heads_ttl` and a remembered renewal older than
`renew`, however often the client polls in between. `Sdk!FairSpec` is weak fairness of the service
and of the program. The first two liveness properties have the form "if from some time
on no fault happens, then ...": `EveryJobEnds` excludes provider and database failures
and leases lost under a live worker; `CatchesUp` excludes movement of the chain,
faults, expiry and an operator's resume, and lets a halted chain stay behind. `PollsServe`,
`ClientsCatchUp` and `FetchEnds` have it too: they exclude movement of the chain and failing fills, calls
and crashes, and changes of the range by other fetches. `PollsServe` names one kind of answer that stays short
(`FollowedTooHigh`): when retention drops a follow row under a query for high blocks, the query creates it again from its own
start, and queries that begin lower are not served hot rows until safe has passed that block.

## Findings

- `follow_gap`: a rollback rewinds to just below the lowest *stored* height off the
  chain. Replaced blocks below it that held no row are not fetched again, and
  their logs on the new fork are missed, though `head_block` is the "Highest block
  fully fetched." (`store/src/follow.rs:13`).
- `follow_capped`: the end hash of a span that stops below latest is asked for
  after `eth_getLogs`. A fork in between stores abandoned rows under a canonical
  head hash, which then does not "commit to every block below it"
  (`engine/src/follow.rs:391`).
- `follow_unwatched`: unsafe rows stay when their follow row is deleted; a later
  subscription may promote them after a fork (`engine/src/reorg.rs:28`).

Met while modelling the client, described here and among the hazards, without a run of their own:

- `query_all` takes `served` and `segments` from the last page, "whose `served` contains the rows
  of every earlier page" (`sdks/rust/src/client.rs:137`). When a rollback comes between two pages the
  last page may serve less, and a row of an earlier page lies outside it. `ProvisionalCursor` does
  not look at rows outside hot segments, so the application keeps the row. `TailRepaired` is
  therefore checked, and proved, for answers of one page.
- A rollback of `ProvisionalCursor` goes to just above the highest height below the lowest mismatch at which the answer and the
  memory agree. Answers that share no height with the memory are merged into it unchecked, so the memory
  can hold hashes of two forks, and then the highest agreement may lie above a stale row. With five blocks
  and one fork TLC finds: a first answer has a row of block 3 and an anchor at 5; the chain forks at 2; an answer of
  block 2 alone, with an anchor at 4 of the new fork, is consistent; the next one has hot blocks 4 and 5
  (3 is safe by then), disagrees at 5, agrees at 4, and the row of the old block 3 stays. `TailRepaired` states what a
  rollback does in any case (no wrong row within the hot blocks of the answer) and what it does in addition when the
  memory is of one chain (`Coherent`: no wrong row above `settled` at all).
- With `safe_to_latest`, several pages and a fork whose blocks become safe between the pages, the
  checkpoint may pass a row of the abandoned fork. `CheckpointHolds` states exact rows for
  `durable_only`, the default of a stream.
- With `latest_only`, `settled` follows the safe head. Rows kept below it were not "served as
  durable" (`cursor.rs:80`) and are not compared again, so `TailRepaired` and `ClientsCatchUp` speak of
  the heights above `settled` and above safe.

## Proofs

`tlapm` checks eight modules, without assumptions beyond the named `ASSUME`s of
the modules they extend. TLC checked each inductive invariant before it was proved.

- `BlockPlanProofs`: what `BlockPlan` computes, for any `MaxEnd`, sets of blocks and chunk sizes: the
  runs of a set (`MultirangeIs`), the common part and the gaps of two lists of ranges, grid cells and
  saturating arithmetic (`AlignIs`, `ClippedCell`), the longest covered prefix, and the chunks of a plan
  (`FillChunksIs`). To be within reach, `BlockPlan` and `Coverage` state loops as the functions `LoopExists` speaks
  of, and flatten and sort with `Flattened` and `Ascending` in place of `FlattenSeq` and `SortSeq`.
  The module starts with facts about numbers. The least-number principle
  (`NatLeast`) comes from the well-foundedness of `<` on the naturals, taken as a fact about a *set*, and
  induction (`NatInductive`) from it: the provers cannot instantiate the library's induction
  theorems, whose parameter is an operator. `RankExists` and `RankOrder` count the
  members of a finite set in ascending order. `LoopExists` and `LoopInvariant` are the rule for a loop that
  threads a value through the elements of a sequence. `FollowProofs` and `SdkProofs` repeat the
  few they need: `Follow` has heights and no block ranges, and the stream's proofs use none of the planner's.
- `CoverageProofs`: all six properties of the run, for any heads, adds and chunk sizes.
  `SpansStayCanonical` and `RowsImplementTimeline` (the refinement of `CoverageTimeline`) follow one merge: the
  pieces cut from a row, the joined rows and the ascending order each keep what `FinalityAt` says of a
  block. `CoverageStaysWithinRead` needs `CoverageInv`, which adds that published heads are not above those read and
  finalized is not above safe, so that a stronger finality is never recorded above the weaker head. `PrefixAlwaysLongest`,
  `SegmentsAlwaysPartition` and `PlansAlwaysReachGaps` then hold of every canonical list of rows.
- `FollowProofs`: `FollowTypeCorrect`, `OneHashWithoutOverlap` and `DurableRowsKept`, for any chain with any
  number of forks, any selectors, leaders, fills, lags and caps. `FollowInv` adds to the types that the rows
  a tick or a fill fetched are of one chain and that a tick's search stays within its points (`TickOK`): they are
  written many steps after they were read. The order `finalized <= promoted <= head` rests on where a rollback stops.
  `OneHashWithoutOverlap` has a condition: no new block is stored while another transaction stands between
  its conflict check and its insert (`Overlap`). The code does not enforce it, and without it the property is false.
  Its invariant `Sound` says that what such a transaction is about to insert still agrees with the store; only an
  insert of a new block can end that (`StepMoves`), since rollbacks, retention and promotion add no block.
- `QueryProofs`: `QueryTypeCorrect`, `DurableAnswersExact`, `ResumeNeverLoses`, `BudgetAlwaysHolds`
  and `AnchorsTrueWhenTaken`, for any number of clients, any requests, chunk size, allowance, lag and
  heights; the chain forks at most once, at any height above the safe one. See below.
- `SdkProofs`: `StreamReportsOnce` and `CheckpointAlwaysHolds`, for any programs, chain length, page
  limit, chunk and number of forks, and `TailAlwaysRepaired` for tails whose answers come in one page
  (`OnePage`). See below.
- `LogFetchProofs`: `BatchMatches` (the merged query of a batch returns what any member matches);
  `GroupsAlwaysFit` and `GroupsNeverMiss`, where `GroupsFit` is inductive: a
  singleton fits, and a member joins only where the enlarged group still merges;
  `FetchesComplete` and `FetchGroupsFit`, for any members, gaps, logs, address
  cap and range limits; the addresses are finitely many and blocks count from 1, because 0
  stands for "nothing fetched". `FetchedComplete` alone is not inductive: `FetchInv` adds where the
  loops are (`PlaceOK`), that the page has what the query asks for in the blocks before the cursor
  (`PageOK`), and that the window has the rest of it up to its end or one of the calls still to
  make returns it (`WindowOK`). The last holds when a window opens because the chunks of
  `address_groups` lose no address (`AddressGroupsCover`), and a member's log is the query's by
  `BatchMatches`.
- `FillJobsProofs`: `CoversSound` (a covering selector matches whatever the covered
  one does), `SplitComplete` and `CoversItsParts`, for any addresses, topics and positions; `TypeCorrect`,
  `FillServesCompletely`, `FillDoneIsCovered`, `FillTerminalIsFinal`, `FillOneActiveJob`, for any
  number of workers, jobs, selectors, chunks and rows; and `FillNoOrphanedJob`, for a database that
  answers (`~DbErrors`).
- `GatewayProofs`: `BudgetStaysInBounds`, `RefillTaskRuns`, `NoWakeupIsLost` and
  `KeepsRateLimit` (the refinement of `TokenBucket`), for any number of calls, ranks, burst and
  limits. `IInv` adds two facts: a call that backs off has an attempt left (`AttemptsLeft`), and who
  is parked without a wake is in the queue (`WaitersQueued`). The latter holds because
  `wake_highest` removes, besides the entry it wakes, only entries nobody awaits (`PoppedKeeps`).

`QueryProofs` rests on the inductive invariant `QueryInv`:

- `HeadsInv`: stored and cached heads never pass the safe height of the chain, below which no fork happens;
- `DataInv`: coverage lies below it, and every covered block has the chain's row and no other;
- `ProgressInv` (`FollowRowOK`): what the follow row promoted is covered, each block above up to its
  head has a row, and when the head is on the chain these rows are the chain's. The last is what makes
  promotion sound, and fails if a rollback stops above a stale row (`ForkPointIs`);
- `JobsInv`: jobs end below safe, and the budget's window is within its bound;
- `QueriesInv`: what each query keeps between two awaits is still true (`PlanOK`, `ServedOK`). Its
  chunks are at most a cell and end below safe, it waits only for active jobs, its prefix starts
  where its durable part does and is covered, and a hot segment comes only with the whole durable
  part served. This is stable because coverage only grows (`PlanStays`, `ServedStays`), so a step of another actor
  never disturbs it (`QueriesStay`, `QueriesStep`).

`Prefix` and `Missing` are tables, so that TLC computes each entry once; `TableIs` says that a table
is its function.

`SdkProofs` rests on the inductive invariant `SdkInv`:

- `ChainInv`: what is durable is safe, and what is safe is on the chain, however it forks above;
- `CallInv` (`Parts`): an answer is a durable segment from the start of the range and a hot one right behind
  it; only `latest_only` leaves blocks out in front of the hot segment, and these are safe. The
  pages of one query see different heads, so this is stated for any heads since it began;
- `StreamInv`: where the stream stands (a query under way starts at `next`) with `ReportedOnce`, which
  needs it: `Batch` reports the served blocks, the skipped ones in front of them, and moves `next` behind both;
- `SavedInv`, `CollectedInv`: between writing a batch and saving the checkpoint the durable segment is
  written; the rows of a `durable_only` query are those of the chain up to its last page, because the next page
  starts there (`PageCollected`), and rows below what is durable stay the chain's (`RowsSame`).

`TailAlwaysRepaired` adds `CursorInv` and `TailInv`: every row the application keeps from `settled` on is remembered by
the cursor with its hash, every answer asks from `settled` on, and its rows lie within what it served. A kept row
within the answer's hot blocks that is not in the answer is then a mismatch (`StillThere`), so the fork point is at or below
it. When the memory is of one chain, the block where memory and answer agree vouches for each row below it,
since a hash commits to the chain below (`PrefixSeq`, `WholeNames`, `HashVouches`).

`FillNoOrphanedJob` adds `GripInv` to `FillInv`: the running jobs that name a worker are in its
batch; an idle or stopped worker has none; while it records a failure or releases, it has them all still to do;
and a write that completes the held jobs holds them all. A lease taken over by another worker only removes jobs
(`GripFewer`).

`FillServesCompletely` and `FillDoneIsCovered` rest on the inductive invariant `FillInv`:

- `TypeOK` and `InsertedBelow` (ids above the sequence are unused);
- `CoverageComplete`: a block in one selector's coverage has all of that
  selector's rows. `ServedComplete` follows with `CoversSound` and `SplitComplete`, since a query is
  served from the coverage of other selectors;
- `DoneMeansCovered`;
- `WorkersSound`: what a worker read and fetched is still true. All its jobs are of
  one cell; outside what it read as missing the chunk is covered; the rows it
  fetched are complete for the blocks it will record; and if nothing failed
  these are all that was missing. This is needed because a commit uses locals
  read many steps before. It is stable because rows and coverage only grow (`Grows`)
  and ids keep selector and chunk, so another worker's step never disturbs it
  (`Undisturbed`).

Only model-checked:

- liveness, which is out of the prover's reach;
- `CoveredExact`, `HeadVouches`, `DurableCanonical` and `VerifiedHeadCommits` of `Follow`: they hold under the
  conditions of their runs, and the findings show that they fail for other constants;
- `AnchorVouches` of `Query`, with a chain that forks once. Its second part, that no row is missing, is claimed
  only for a segment that starts right above the safe height the query read, and is false of others: following ends and begins
  again during one query, and a stale row left below the hot segment makes the leader roll back the segment's rows
  between the query's read of the anchor and its read of the rows. The anchor stays on the chain and
  the answer lacks rows. `AnchorsTrueWhenTaken` is proved for every segment. Both parts also pass with five
  blocks and a lag of two, outside the kept run;
- `OneHashPerHeight` where transactions overlap: one leader beside a fill;
- what a tail keeps when its answers come in several pages: `TailRepaired` is false there, as the findings say.

## Not modelled

- Why an answer is short (`blocker` of `query.rs`): it decides a message and a client's pause, and no
  state.
- Transaction senders: keyed by a hash that fixes the sender; stored, promoted and rolled back
  beside the logs of `Follow`. Timestamps attached to rows: reads of stored headers.
- The count behind `max_subscriptions` and usage totals: the code counts without a lock and writes
  again after a failed flush, so it promises no exact number.
- Tag-mode heads: `safe` and `finalized` then come from the provider; `Coverage` takes any heads that
  do not move back.
- The order in which purposes get tokens once a caller is woken: it has no reservation.
- The TypeScript and Go clients, which are ports of the Rust one.
- Decoding, wire types, configuration, metrics and HTTP routing: conversions without state. The API's
  request bucket counts in floating-point time, which TLC does not have.
