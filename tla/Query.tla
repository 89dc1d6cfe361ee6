-------------------------------- MODULE Query -------------------------------
(***************************************************************************)
(* The query engine: QueryEngine::query of crates/engine/src/query.rs for  *)
(* one selector of one chain, with the fill jobs it waits for, the follow  *)
(* row it attaches to and the rows it reads.  Every await of the code is   *)
(* the end of an action, so workers, the leader and other queries act      *)
(* between any two of them.                                                *)
(*                                                                         *)
(* The rest of the service appears as modules FillJobs and Follow describe *)
(* it: a job ends done with its chunk covered, or failed; the leader pulls *)
(* rows, rolls back, and promotes what a canonical follow head vouches     *)
(* for.  Every block has one row of the selector, <<block, hash>>, and the *)
(* hash is the fork the block was mined on; a row is unsafe until coverage *)
(* records its block.  A page holds all rows of an answer.                 *)
(* The reason a short answer gives is left out.                            *)
(***************************************************************************)
EXTENDS BlockPlan

CONSTANTS Client,       \* callers; each has one query under way at a time
          Request,      \* client -> the requests it may send: [range, finality]
          Others,       \* chunks that other applications ask for
          Allowance,    \* max_fill_blocks_per_minute
          Chunk,        \* chunk size of the dataset
          SafeLag,      \* HeadMode::Lag
          AttachBlocks, \* follow_attach_blocks
          StartLatest   \* height of the chain at the start

ASSUME QueryAssumption ==
  /\ Others \subseteq Ranges
  /\ \A c \in Client :
       Request[c] \subseteq
         [range : Ranges, finality : {"durable_only", "safe_to_latest", "latest_only"}]
  /\ Chunk \in Nat \ {0} /\ {SafeLag, AttachBlocks, Allowance} \subseteq Nat
  /\ StartLatest \in SafeLag..MaxEnd

VARIABLES fork,      \* where fork 1 replaced the chain; NoFork before it did
          latest,    \* height of the chain
          heads,     \* chain_heads
          cached,    \* the process's copy of heads
          coverage,  \* blocks the selector's coverage holds
          rows,      \* evm_logs
          progress,  \* its follow_progress row: a set of at most one
          watched,   \* whether an unexpired subscription names it
          jobs,      \* chunks with a fill job that is queued or running
          window,    \* blocks taken from the fill budget this minute
          q          \* local state of every query

chainVars == <<fork, latest>>
dataVars == <<coverage, rows>>
followVars == <<progress, watched>>
vars == <<chainVars, heads, cached, dataVars, followVars, jobs, window, q>>

NoFork == MaxEnd + 1

NoHash == 2

Canonical(n) == IF n >= fork THEN 1 ELSE 0

Below(n) == Saturate(n - SafeLag)

HeadsAt(top) == [latest |-> top, safe |-> Below(top)]

(* A query between two calls, or on its way; jobs are the chunks whose job  *)
(* it waits for.                                                            *)
At(pc) == [pc |-> pc, req |-> NoRange, heads |-> HeadsAt(0), durable |-> NoRange, wanted |-> NoRange,
           fillEnd |-> 0, todo |-> <<>>, jobs |-> {}, over |-> FALSE, late |-> FALSE, after |-> 0,
           served |-> NoRange, hot |-> NoRange, anchor |-> <<0, NoHash>>]

Init ==
  /\ fork = NoFork /\ latest = StartLatest
  /\ heads = HeadsAt(StartLatest) /\ cached = HeadsAt(StartLatest)
  /\ coverage = {} /\ rows = {}
  /\ progress = {} /\ watched = FALSE
  /\ jobs = {} /\ window = 0
  /\ q = [c \in Client |-> At("idle")]

-----------------------------------------------------------------------------
(* The chain (external), the leader and the workers *)

Grow ==
  /\ latest < MaxEnd
  /\ latest' = latest + 1
  /\ UNCHANGED <<fork, heads, cached, dataVars, followVars, jobs, window, q>>

(* One fork above the safe height, at least as long as what it replaces. *)
Reorg(n) ==
  /\ fork = NoFork
  /\ Below(latest) < n /\ n <= latest
  /\ fork' = n
  /\ UNCHANGED <<latest, heads, cached, dataVars, followVars, jobs, window, q>>

Publish ==
  /\ heads # HeadsAt(latest)
  /\ heads' = HeadsAt(latest)
  /\ UNCHANGED <<chainVars, cached, dataVars, followVars, jobs, window, q>>

CanonicalRows(blocks) == {<<n, Canonical(n)>> : n \in blocks}

Stale == {r \in rows : r[2] # Canonical(r[1])}

Vouched(p) == p.hash = NoHash \/ p.hash = Canonical(p.head)

(* The leader fetches up to the latest block. *)
Pull(p) ==
  /\ watched
  /\ p.head < latest /\ Vouched(p)
  /\ \A r \in Stale : r[1] <= p.head
  /\ rows' = rows \cup CanonicalRows((p.head + 1)..latest)
  /\ progress' = {[p EXCEPT !.head = latest, !.hash = Canonical(latest)]}
  /\ UNCHANGED <<chainVars, heads, cached, coverage, watched, jobs, window, q>>

(* The lowest block that contradicts the chain, once the follow head is off *)
(* it or a fetched block contradicts a stored row.                          *)
ForkPoint(p, n) ==
  LET points == {r[1] : r \in Stale} \cup (IF Vouched(p) THEN {} ELSE {p.head})
  IN /\ ~Vouched(p) \/ \E r \in Stale : r[1] > p.head
     /\ n \in points /\ \A m \in points : n <= m

(* Unsafe rows from the fork upward go and progress is rewound. *)
RollBack(p, n) ==
  /\ watched
  /\ ForkPoint(p, n)
  /\ rows' = {r \in rows : r[1] < n \/ r[1] \in coverage}
  /\ progress' = {IF p.head < n THEN p
                  ELSE [p EXCEPT !.hash = IF p.promoted >= n THEN NoHash
                                          ELSE Canonical(n - 1),
                                 !.head = Greatest(Least(p.head, n - 1), p.promoted)]}
  /\ UNCHANGED <<chainVars, heads, cached, coverage, watched, jobs, window, q>>

Promote(p) ==
  LET to == Least(Below(latest), p.head)
  IN /\ watched
     /\ p.hash = Canonical(p.head) /\ to > p.promoted
     /\ coverage' = coverage \cup (p.promoted + 1)..to
     /\ progress' = {[p EXCEPT !.promoted = to]}
     /\ UNCHANGED <<chainVars, heads, cached, rows, watched, jobs, window, q>>

(* The subscription expires or is dropped, and retention stops following.  *)
Expire ==
  /\ watched
  /\ watched' = FALSE
  /\ UNCHANGED <<chainVars, heads, cached, dataVars, progress, jobs, window, q>>

Unfollow ==
  /\ ~watched /\ progress # {}
  /\ progress' = {}
  /\ UNCHANGED <<chainVars, heads, cached, dataVars, watched, jobs, window, q>>

(* Retention deletes the unsafe rows that the safe height passed a day ago, *)
(* long before any query under way (15 s) or cached heads (500 ms) began,   *)
(* but none a follow row still has to promote.                              *)
Prune ==
  LET passed  == {cached.safe} \cup {q[c].heads.safe : c \in {d \in Client : q[d].pc # "idle"}}
      through == Min({p.promoted : p \in progress} \cup passed)
      kept    == {r \in rows : r[1] > through \/ r[1] \in coverage}
  IN /\ rows # kept
     /\ rows' = kept
     /\ UNCHANGED <<chainVars, heads, cached, coverage, followVars, jobs, window, q>>

(* Mutant: nobody is told. *)
SettleSilent(chunk) == jobs' = jobs \ {chunk} /\ UNCHANGED q

(* The job of the chunk is done or failed, and whoever waits for it is told. *)
Settle(chunk) ==
  /\ jobs' = jobs \ {chunk}
  /\ q' = [c \in Client |-> [q[c] EXCEPT !.jobs = @ \ {chunk}]]

(* A worker stores a prefix of the chunk; the job is done with the last     *)
(* block.  A stored row of another fork refuses the write.                  *)
Fill(chunk, end) ==
  LET blocks == chunk.start..end
  IN /\ end \in BlocksOf(chunk)
     /\ \A r \in Stale : r[1] \notin blocks
     /\ rows' = rows \cup CanonicalRows(blocks)
     /\ coverage' = coverage \cup blocks
     /\ IF end = chunk.end THEN Settle(chunk) ELSE UNCHANGED <<jobs, q>>
     /\ UNCHANGED <<chainVars, heads, cached, followVars, window>>

FillFails(chunk) ==
  /\ Settle(chunk)
  /\ UNCHANGED <<chainVars, heads, cached, dataVars, followVars, window>>

-----------------------------------------------------------------------------
(* A query: heads, subscription, plan *)

(* The parts of the range below and above the safe height. *)
Durable(r, h) == IF r.finality = "latest_only" THEN NoRange ELSE DurablePart(r.range, h.safe)

Wanted(r, h) ==
  IF r.finality = "durable_only" \/ r.range.end <= h.safe THEN NoRange
  ELSE NewRange(Greatest(r.range.start, h.safe + 1), r.range.end)

(* heads: the copy the process keeps, unless it is too old. *)
HeadsOf(old) == IF old THEN heads ELSE cached

(* heads, and fresh_heads when they do not reach a durable_only range.  A   *)
(* range that still ends above safe is refused.                             *)
Start(c, r, old) ==
  LET first   == HeadsOf(old)
      Above(h) == r.finality = "durable_only" /\ r.range.end > h.safe
      h       == IF Above(first) THEN heads ELSE first
  IN /\ q[c].pc = "idle"
     /\ cached' = h
     /\ q' = [q EXCEPT ![c] = IF Above(h) THEN At("idle")
                              ELSE [At("attach") EXCEPT !.req = r, !.heads = h,
                                      !.durable = Durable(r, h), !.wanted = Wanted(r, h)]]
     /\ UNCHANGED <<chainVars, heads, dataVars, followVars, jobs, window>>

Follows(r, h) == r.finality = "durable_only" => Saturate(r.range.end + AttachBlocks) >= h.safe

(* follow_get_or_init *)
GetOrInit(from) ==
  IF progress # {} THEN progress
  ELSE {[from |-> from, head |-> from - 1, hash |-> NoHash, promoted |-> from - 1]}

(* Mutant: the last block below the follow region belongs to nobody. *)
FillEndShort(row, h) == IF row = {} THEN h.safe ELSE Min({p.from - 2 : p \in row} \cup {h.safe})

(* The last block jobs may fill; what is above belongs to the finalizer.    *)
(* -1 stands for None, a follow row from block 0.                           *)
FillEnd(row, h) == Min({p.from - 1 : p \in row} \cup {h.safe})

(* A query of another application enqueues a missing chunk. *)
Other(chunk) ==
  /\ chunk.end <= heads.safe /\ chunk \notin jobs /\ ~(BlocksOf(chunk) \subseteq coverage)
  /\ jobs' = jobs \cup {chunk}
  /\ UNCHANGED <<chainVars, heads, cached, dataVars, followVars, window, q>>

(* Another application watches the selector. *)
Watch ==
  /\ ~watched
  /\ watched' = TRUE
  /\ progress' = GetOrInit(heads.safe + 1)
  /\ UNCHANGED <<chainVars, heads, cached, dataVars, jobs, window, q>>

(* attach, or the follow row somebody else keeps when this query does not.  *)
(* The subscription is written; or not, because this process wrote it a     *)
(* moment ago ("fresh", even if it was dropped since); or refused, because  *)
(* the application is at max_subscriptions ("full").                        *)
Attach(c, how) ==
  LET s       == q[c]
      refused == s.req.finality # "durable_only" /\ how = "full"
      attach  == Follows(s.req, s.heads) /\ how # "full"
      row     == IF attach THEN GetOrInit(s.heads.safe + 1) ELSE progress
  IN /\ s.pc = "attach"
     /\ q' = [q EXCEPT ![c] =
          IF refused THEN At("idle")
          ELSE IF s.durable = NoRange THEN [s EXCEPT !.pc = "hot"]
          ELSE [s EXCEPT !.pc = "plan", !.fillEnd = FillEnd(row, s.heads)]]
     /\ progress' = row
     /\ watched' = (watched \/ (attach /\ how = "write"))
     /\ UNCHANGED <<chainVars, heads, cached, dataVars, jobs, window>>

(* f, as a table that is computed once. *)
Table(f) == CHOOSE g \in {f} : g = f

(* Covered prefix and missing chunks, by what is covered. *)
Prefix ==
  Table([blocks \in SUBSET Block |->
    [range \in Ranges |-> LongestCoveredPrefix(Multirange(blocks), range)]])

Missing ==
  Table([blocks \in SUBSET Block |->
    [span \in Ranges |-> [end \in Block |-> FillChunks(span, Multirange(blocks), Chunk, end)]]])

(* Mutant: any prefix will do. *)
ReachesAny(served, range) == served # NoRange

Reaches(served, range) == served # NoRange /\ served.end = range.end

(* What only the wait needs goes out of scope. *)
Leave(s, pc, served) ==
  [s EXCEPT !.pc = pc, !.served = served,
            !.fillEnd = 0, !.jobs = {}, !.over = FALSE, !.late = FALSE, !.after = 0]

Plan(c) ==
  LET s       == q[c]
      end     == s.fillEnd
      fill    == IF s.durable.start <= end THEN GridSpan(s.durable, Chunk, end) ELSE NoRange
      served  == Prefix[coverage][s.durable]
      planned == IF fill = NoRange THEN <<>> ELSE Missing[coverage][fill][end]
  IN /\ s.pc = "plan"
     /\ q' = [q EXCEPT ![c] =
          IF Reaches(served, s.durable) THEN Leave(s, "hot", served)
          ELSE [s EXCEPT !.pc = IF planned = <<>> THEN "wait" ELSE "enqueue", !.todo = planned]]
     /\ UNCHANGED <<chainVars, heads, cached, dataVars, followVars, jobs, window>>

-----------------------------------------------------------------------------
(* Enqueueing under the fill budget *)

(* The next chunk of the plan, with the job for this one if there is one. *)
Planned(s, job) ==
  [s EXCEPT !.pc = IF Len(s.todo) = 1 THEN "wait" ELSE "enqueue",
            !.todo = Tail(s.todo), !.jobs = @ \cup job]

Length(range) == range.end - range.start + 1

(* Mutant: the allowance is compared before the chunk is added. *)
MayTakeBefore(blocks) == ~(window > 0 /\ window > Allowance)

(* try_take: the first chunk of a window is always allowed. *)
MayTake(blocks) == ~(window > 0 /\ window + blocks > Allowance)

(* A chunk in flight is joined; once a charge is refused no job is created. *)
(* An application without a limit has an allowance that no plan exceeds.    *)
Charge(c) ==
  LET s     == q[c]
      chunk == Head(s.todo)
  IN /\ s.pc = "enqueue"
     /\ IF chunk \in jobs
        THEN q' = [q EXCEPT ![c] = Planned(s, {chunk})] /\ UNCHANGED window
        ELSE IF s.over \/ ~MayTake(Length(chunk))
        THEN q' = [q EXCEPT ![c] = [Planned(s, {}) EXCEPT !.over = TRUE]] /\ UNCHANGED window
        ELSE q' = [q EXCEPT ![c].pc = "insert"] /\ window' = window + Length(chunk)
     /\ UNCHANGED <<chainVars, heads, cached, dataVars, followVars, jobs>>

(* enqueue: an active job of the chunk is joined; a new one of a covered    *)
(* chunk is done at once.                                                   *)
Enqueue(c) ==
  LET s     == q[c]
      chunk == Head(s.todo)
      known == chunk \notin jobs /\ BlocksOf(chunk) \subseteq coverage
  IN /\ s.pc = "insert"
     /\ jobs' = IF known THEN jobs ELSE jobs \cup {chunk}
     /\ q' = [q EXCEPT ![c] = Planned(s, IF known THEN {} ELSE {chunk})]
     /\ UNCHANGED <<chainVars, heads, cached, dataVars, followVars, window>>

WindowElapses ==
  /\ window > 0
  /\ window' = 0
  /\ UNCHANGED <<chainVars, heads, cached, dataVars, followVars, jobs, q>>

-----------------------------------------------------------------------------
(* Waiting *)

FirstMissing(served, durable) == IF served = NoRange THEN durable.start ELSE served.end + 1

(* wait_done returns: every job is terminal, time is up (late), or the      *)
(* connection that listens for notifications could not be opened (broken).  *)
(* Without jobs there is no wait.  Coverage is read again.                  *)
WaitDone(c, late, broken) ==
  LET s      == q[c]
      served == Prefix[coverage][s.durable]
  IN /\ s.pc = "wait"
     /\ late \/ broken \/ s.jobs = {}
     /\ q' = [q EXCEPT ![c] =
          IF Reaches(served, s.durable) THEN Leave(s, "hot", served)
          ELSE IF late \/ FirstMissing(served, s.durable) <= s.fillEnd
          THEN Leave(s, "rows", served)
          ELSE [s EXCEPT !.pc = "promotion", !.served = served, !.after = s.heads.latest]]
     /\ UNCHANGED <<chainVars, heads, cached, dataVars, followVars, jobs, window>>

(* wait_head_change returns: latest rose above the last one seen, or time   *)
(* is up.                                                                   *)
Promotion(c, late) ==
  LET s == q[c]
  IN /\ s.pc = "promotion"
     /\ late \/ heads.latest > s.after
     /\ q' = [q EXCEPT ![c].pc = "reread", ![c].late = late, ![c].after = Greatest(@, heads.latest)]
     /\ UNCHANGED <<chainVars, heads, cached, dataVars, followVars, jobs, window>>

(* Coverage is read after each change of heads. *)
Reread(c) ==
  LET s      == q[c]
      served == Prefix[coverage][s.durable]
  IN /\ s.pc = "reread"
     /\ q' = [q EXCEPT ![c] =
          IF Reaches(served, s.durable) THEN Leave(s, "hot", served)
          ELSE IF s.late THEN Leave(s, "rows", served)
          ELSE [s EXCEPT !.pc = "promotion", !.served = served]]
     /\ UNCHANGED <<chainVars, heads, cached, dataVars, followVars, jobs, window>>

(* The listening connection could not be opened. *)
PromotionFails(c) ==
  LET s == q[c]
  IN /\ s.pc = "promotion"
     /\ q' = [q EXCEPT ![c] = Leave(s, "rows", s.served)]
     /\ UNCHANGED <<chainVars, heads, cached, dataVars, followVars, jobs, window>>

-----------------------------------------------------------------------------
(* The hot segment and the answer *)

(* Mutant: where following began is not looked at. *)
HotReachesHead(p, wanted) == p.head >= wanted.start

HotReaches(p, wanted) == p.head >= wanted.start /\ p.from <= wanted.start

(* Entered only when the whole durable part is served. *)
Hot(c) ==
  LET s       == q[c]
      Upto(p) == NewRange(s.wanted.start, Least(s.wanted.end, p.head))
  IN /\ s.pc = "hot"
     /\ \/ /\ s.wanted = NoRange
           /\ q' = [q EXCEPT ![c].pc = "rows"]
           /\ UNCHANGED progress
        \/ /\ s.wanted # NoRange
           /\ progress' = GetOrInit(s.wanted.start)
           /\ \E p \in GetOrInit(s.wanted.start) :
                q' = [q EXCEPT ![c] =
                  IF ~HotReaches(p, s.wanted) THEN [s EXCEPT !.pc = "rows"]
                  ELSE [s EXCEPT !.pc = "rows", !.hot = Upto(p), !.anchor = <<p.head, p.hash>>]]
     /\ UNCHANGED <<chainVars, heads, cached, dataVars, watched, jobs, window>>

Served(s) ==
  IF s.hot = NoRange THEN s.served
  ELSE IF s.served = NoRange THEN s.hot
  ELSE NewRange(s.served.start, s.hot.end)

(* Mutant: the last served block is read again. *)
NextStartAgain(s) ==
  IF Served(s) = NoRange THEN s.req.range.start
  ELSE IF Served(s).end < s.req.range.end THEN Served(s).end ELSE -1

(* next_start; -1 stands for null. *)
NextStart(s) ==
  LET latestOnly == s.req.finality = "latest_only"
      served     == Served(s)
  IN IF served # NoRange
     THEN IF served.end < s.req.range.end THEN served.end + 1 ELSE -1
     ELSE IF latestOnly
     THEN IF s.wanted = NoRange THEN -1 ELSE s.wanted.start
     ELSE s.req.range.start

(* read_rows: rows of the served range, whatever their finality. *)
Rows(s) == IF Served(s) = NoRange THEN {} ELSE {r \in rows : r[1] \in BlocksOf(Served(s))}

(* The rows are read and the response is returned. *)
Answer(c) ==
  /\ q[c].pc = "rows"
  /\ q' = [q EXCEPT ![c] = At("idle")]
  /\ UNCHANGED <<chainVars, heads, cached, dataVars, followVars, jobs, window>>

-----------------------------------------------------------------------------

ChainStep == Grow \/ \E n \in Block : Reorg(n)

LeaderStep ==
  \/ Publish \/ Unfollow \/ Prune
  \/ \E p \in progress : Pull(p) \/ Promote(p) \/ \E n \in Block : RollBack(p, n)

FillStep ==
  \E chunk \in jobs : FillFails(chunk) \/ \E n \in BlocksOf(chunk) : Fill(chunk, n)

Poll(c) == \E r \in Request[c], old \in BOOLEAN : Start(c, r, old)

Proceed(c) ==
  \/ (\E how \in {"write", "fresh", "full"} : Attach(c, how)) \/ Plan(c) \/ Charge(c) \/ Enqueue(c)
  \/ \E late \in BOOLEAN : WaitDone(c, late, FALSE) \/ Promotion(c, late)
  \/ Reread(c)
  \/ Hot(c) \/ Answer(c)

WaitFails(c) == WaitDone(c, FALSE, TRUE) \/ PromotionFails(c)

Next ==
  \/ ChainStep \/ LeaderStep \/ Expire \/ FillStep \/ WindowElapses
  \/ Watch \/ \E chunk \in Others : Other(chunk)
  \/ \E c \in Client : Poll(c) \/ Proceed(c) \/ WaitFails(c)

Spec == Init /\ [][Next]_vars

(* Clients poll and every call returns, at its deadline at the latest; the  *)
(* leader ticks and workers finish jobs, as FillJobs and Follow show.  A    *)
(* cached copy of heads gets old, and so do a subscription and a minute of  *)
(* the budget.                                                              *)
FairSpec ==
  /\ Spec
  /\ WF_vars(LeaderStep) /\ WF_vars(WindowElapses)
  /\ WF_vars(\E chunk \in jobs : Fill(chunk, chunk.end))
  /\ \A c \in Client :
       /\ WF_vars(Proceed(c))
       /\ SF_vars(\E r \in Request[c] : Start(c, r, TRUE))
       /\ SF_vars(q[c].pc = "attach" /\ Follows(q[c].req, q[c].heads) /\ Attach(c, "write"))

-----------------------------------------------------------------------------
(* Properties *)

TypeOK ==
  /\ fork \in 1..NoFork /\ latest \in Block
  /\ heads \in [latest : Block, safe : Block] /\ cached \in [latest : Block, safe : Block]
  /\ coverage \subseteq Block /\ rows \subseteq Block \X {0, 1}
  /\ Cardinality(progress) <= 1
  /\ jobs \subseteq Ranges /\ window \in Nat
  /\ \A c \in Client : q[c].jobs \subseteq jobs

(* The client gets the answer in this step. *)
Answers(c) == q[c].pc = "rows" /\ q'[c].pc = "idle"

RowsAt(s, n) == {r \in Rows(s) : r[1] = n}

(* What is served as durable is right for good: every block of an answer up *)
(* to the safe height the query used has exactly its canonical row, although *)
(* coverage, jobs and the follow row moved while the query ran, and no      *)
(* answer spans a durable block that is missing.                            *)
DurableAnswerExact ==
  [][\A c \in Client : Answers(c) /\ Served(q[c]) # NoRange =>
       \A n \in BlocksOf(Served(q[c])) :
         n <= q[c].heads.safe => RowsAt(q[c], n) = CanonicalRows({n})]_vars

(* The anchor of a hot segment vouches for its rows: if it is on the chain  *)
(* when the client gets the answer, no row is of another fork, and when the *)
(* segment begins right above the safe height none is missing, although the *)
(* rows are read after the anchor and a rollback may come between.  A       *)
(* segment that begins higher may miss rows: a rollback can rewind past the *)
(* segment before the rows are read.                                        *)
AnchorVouches ==
  [][\A c \in Client :
       LET s == q[c]
       IN Answers(c) /\ s.hot # NoRange /\ s.anchor[2] = Canonical(s.anchor[1]) =>
            \A n \in BlocksOf(s.hot) :
              /\ RowsAt(s, n) \subseteq CanonicalRows({n})
              /\ s.hot.start = s.heads.safe + 1 => RowsAt(s, n) # {}]_vars

(* A client that continues at next_start loses no block and reads none      *)
(* twice: in the scope of the request, served is what lies below it.        *)
ResumeLosesNothing ==
  \A c \in Client : q[c].pc = "rows" =>
    LET s     == q[c]
        scope == {n \in BlocksOf(s.req.range) :
                    s.req.finality = "latest_only" => n > s.heads.safe}
    IN (IF Served(s) = NoRange THEN {} ELSE BlocksOf(Served(s)))
         = {n \in scope : NextStart(s) = -1 \/ n < NextStart(s)}

(* An application's fills stay within its allowance of a minute, or one     *)
(* chunk when that is larger, over all the queries it makes in that minute. *)
BudgetHolds == window <= Greatest(Allowance, Chunk)

(* Nothing is wanted above the latest block. *)
Whole(s) ==
  \/ s.req.range.start > latest
  \/ Served(s) # NoRange /\ Served(s).end = Least(s.req.range.end, latest)

(* The chain stands still, no fill fails and no subscription expires. *)
Calm ==
  /\ UNCHANGED chainVars /\ (watched => watched')
  /\ \A chunk \in jobs \ jobs' : BlocksOf(chunk) \subseteq coverage'

(* Following began above the first hot block that the query wants. *)
FollowedTooHigh(s) == s.wanted # NoRange /\ \E p \in progress : p.from > s.wanted.start

(* Polling gets everything: every query ends, and once the chain stands     *)
(* still and nothing fails, every answer reaches the end of its range or    *)
(* the latest block.  No block is left between the jobs and the finalizer,  *)
(* no budget or race of attaching, expiring and filling leaves one unfilled *)
(* for ever, and a lost notification delays no query past its deadline.     *)
(* One kind of answer stays short: its hot part begins below the block from *)
(* which a query for higher blocks, whose follow row was dropped under it,  *)
(* had the selector followed again; only a higher safe height ends that.    *)
PollsServe ==
  <>[][Calm]_vars =>
    \A c \in Client : /\ <>[][Answers(c) => Whole(q[c]) \/ FollowedTooHigh(q[c])]_vars
                      /\ []<>(q[c].pc = "idle")

=============================================================================
