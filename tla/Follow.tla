------------------------------- MODULE Follow -------------------------------
(***************************************************************************)
(* The chain leader: head tracking, following, reorg handling, promotion   *)
(* and retention of one chain (crates/engine/src/leader.rs, follow.rs,     *)
(* reorg.rs, retention.rs) over the rows of crates/store/src.              *)
(*                                                                         *)
(* A tick is a sequence of provider calls and transactions, one action     *)
(* each; the chain grows and forks, subscriptions come and go, fills write *)
(* rows and leaders crash or lose their lock between any two of them.  A   *)
(* provider call reads the chain as it is at that moment.                  *)
(*                                                                         *)
(* The hash of a block is the number of the fork it was mined on: fork v   *)
(* replaced every block from fork[v] upward, so a hash and a height name   *)
(* one block and determine all blocks below it.  A chain never returns to  *)
(* an abandoned fork.  Heads are in lag mode.                              *)
(***************************************************************************)
EXTENDS Integers, Sequences, FiniteSets, FiniteSetsExt, Functions

CONSTANTS LogSel,       \* evm.logs selectors
          BlockSel,     \* the evm.blocks selector: a set of one, or of none
          Kind,         \* kinds of logs
          Matches,      \* the kinds a logs selector matches
          Logged,       \* <<k, n, v>>: block n of fork v has a log of kind k
          MaxHeight,    \* bound on the height of the chain
          MaxForks,     \* bound on the number of forks
          Depth,        \* how far below the safe height a fork may reach
          Shrinking,    \* whether a fork may be shorter than what it replaces
          SafeLag,      \* HeadMode::Lag
          FinalizedLag,
          Cap,          \* gateway.range_blocks: blocks one eth_getLogs spans
          HeaderCap,    \* header_chunk_blocks
          Window,       \* reorg_window_blocks
          Leader, NoLeader,
          Expiring,     \* whether subscriptions end
          Faults,       \* whether calls fail and leaders crash
          Filling,      \* <<s, n>>: fills may write block n of s
          Asked         \* <<s, n>>: a hot part of a query of s may begin at n

Sel == LogSel \cup BlockSel
Height == 0..MaxHeight
Hash == 0..MaxForks
NoHash == -1
Header == "header"      \* the kind of the rows of evm_blocks

ASSUME FollowAssumption ==
  /\ MaxHeight \in Nat /\ MaxForks \in Nat /\ Depth \in Nat
  /\ SafeLag \in Height /\ FinalizedLag \in Nat /\ SafeLag <= FinalizedLag
  /\ Cap \in Nat \ {0} /\ HeaderCap \in Nat \ {0} /\ Window \in Nat \ {0}
  /\ Matches \in [LogSel -> SUBSET Kind] /\ Header \notin Kind
  /\ NoLeader \notin Leader
  /\ Filling \subseteq Sel \X Height /\ Asked \subseteq Sel \X (1..MaxHeight)
  /\ LogSel \cap BlockSel = {}

VARIABLES fork, latest, settled,             \* the chain, and its highest safe height yet
          subs, progress, halted,            \* subscriptions, follow_progress, chains
          rows, coverage, heads,             \* evm_logs and evm_blocks, coverage, chain_heads
          fills,                             \* fills that checked for conflicts and have not written
          lock, tk                           \* the advisory lock, and each leader's tick

chainVars == <<fork, latest, settled>>
followVars == <<subs, progress, halted>>
dataVars == <<rows, coverage, heads, fills>>
vars == <<chainVars, followVars, dataVars, lock, tk>>

-----------------------------------------------------------------------------
(* The chain (external) *)

HashAt(v, n) == Max({w \in 0..v : w = 0 \/ fork[w] <= n})

Canonical(n) == HashAt(Len(fork), n)

Below(n, lag) == IF n < lag THEN 0 ELSE n - lag

Grow ==
  /\ latest < MaxHeight
  /\ latest' = latest + 1
  /\ settled' = Max({settled, Below(latest', SafeLag)})
  /\ UNCHANGED <<fork, followVars, dataVars, lock, tk>>

Reorg(n, top) ==
  /\ Len(fork) < MaxForks
  /\ n > settled - Depth /\ n > 0 /\ n <= latest
  /\ top >= IF Shrinking THEN n ELSE latest
  /\ fork' = Append(fork, n)
  /\ latest' = top
  /\ settled' = Max({settled, Below(top, SafeLag)})
  /\ UNCHANGED <<followVars, dataVars, lock, tk>>

Has(k, n, v) == k = Header \/ <<k, n, v>> \in Logged

Kinds(s) == IF s \in BlockSel THEN {Header} ELSE Matches[s]

-----------------------------------------------------------------------------
(* Types *)

Progress == [from : 0..(MaxHeight + 1), head : Height, hash : Hash \cup {NoHash},
             promoted : Height, finalized : Height]

RowType == [kind : Kind \cup {Header}, block : Height, hash : Hash,
            finality : {"unsafe", "safe", "finalized"}]

(* Mutant: finalized_to starts at from_block. *)
FreshFromBlock(safe) == [from |-> safe + 1, head |-> safe, hash |-> NoHash,
                         promoted |-> safe, finalized |-> safe + 1]

Fresh(safe) == [from |-> safe + 1, head |-> safe, hash |-> NoHash,
                promoted |-> safe, finalized |-> safe]

NoHeads == [latest |-> 0, hash |-> 0, safe |-> 0, finalized |-> 0]

NoSearch == [points |-> {}, floor |-> 0, from |-> 0, wide |-> FALSE, low |-> 0, high |-> 0,
             fork |-> 0]

(* The local state of a tick: the heads it read, the follow rows it read,   *)
(* the canonical hashes it learned, the hashes its headers gave, what is    *)
(* left to check, fetch or finalize, the fetch under way and the rollback   *)
(* under way.                                                               *)
At(pc) == [pc |-> pc, heads |-> NoHeads, row |-> <<>>, known |-> {}, hashes |-> {},
           todo |-> {}, span |-> {}, members |-> {}, got |-> {}, end |-> NoHash,
           rb |-> NoSearch]

Init ==
  /\ fork = <<>> /\ latest = SafeLag /\ settled = 0
  /\ subs = {} /\ progress = <<>> /\ halted = FALSE
  /\ rows = {} /\ coverage = [s \in Sel |-> {}]
  /\ heads = [NoHeads EXCEPT !.latest = SafeLag] /\ fills = {}
  /\ lock = NoLeader /\ tk = [l \in Leader |-> At("out")]

Goto(l, pc) == tk' = [tk EXCEPT ![l].pc = pc]

(* follow_tick returns; its state is dropped and the heads are published. *)
EndFollow(l) == tk' = [tk EXCEPT ![l] = [At("publish") EXCEPT !.heads = tk[l].heads]]

-----------------------------------------------------------------------------
(* The store *)

(* Mutant: a log is compared with stored logs only, a header with headers. *)
ConflictSameTable(incoming) ==
  {r.block : r \in {r \in incoming :
     \E q \in rows : q.block = r.block /\ q.kind = r.kind /\ q.hash # r.hash}}

(* hash_conflict: the incoming blocks some stored row of any table disagrees with. *)
HashConflict(incoming) ==
  {r.block : r \in {r \in incoming : \E q \in rows : q.block = r.block /\ q.hash # r.hash}}

Stronger(x, y) == IF "finalized" \in {x, y} THEN "finalized"
                  ELSE IF "safe" \in {x, y} THEN "safe" ELSE "unsafe"

SameKey(q, r) == q.kind = r.kind /\ q.block = r.block

(* The new rows, and stored ones of the same block raised to the finality.  *)
Insert(incoming) ==
  {r \in incoming : ~\E q \in rows : SameKey(q, r)}
  \cup {[q EXCEPT !.finality =
           IF \E r \in incoming : SameKey(q, r) /\ q.hash = r.hash
           THEN Stronger(q.finality, (CHOOSE r \in incoming : SameKey(q, r)).finality)
           ELSE q.finality] : q \in rows}

BlockRows(n) == {r \in rows : r.kind = Header /\ r.block = n}

(* stored_hash_at: a stored header's hash, else that of some log. *)
StoredHashes(n) == IF BlockRows(n) # {} THEN {r.hash : r \in BlockRows(n)}
                   ELSE {r.hash : r \in {r \in rows : r.block = n}}

(* Mutant: the row at the fork itself survives. *)
KeptThrough(n) == {r \in rows : r.finality = "unsafe" => r.block <= n}

(* What delete_unsafe_logs_from and delete_unsafe_blocks_from leave. *)
KeptBelow(n) == {r \in rows : r.finality = "unsafe" => r.block < n}

(* Mutant: retention forgets to ask for the finality. *)
KeptYoung(n) == {r \in rows : r.block > n}

(* What delete_unsafe_through leaves. *)
KeptAbove(n) == {r \in rows : r.finality = "unsafe" => r.block > n}

(* rewind_follow *)
Rewind(p, n, parent) ==
  IF p.head < n THEN p
  ELSE [p EXCEPT !.hash = IF p.promoted >= n THEN NoHash ELSE parent,
                 !.head = Max({Min({p.head, n - 1}), p.promoted})]

-----------------------------------------------------------------------------
(* The tick: heads, subscriptions and the reorg check *)

StartTick(l) ==
  /\ tk[l].pc = "idle"
  /\ tk' = [tk EXCEPT ![l] = [At("plan") EXCEPT !.heads =
       [latest |-> latest, hash |-> Canonical(latest),
        safe |-> Below(latest, SafeLag), finalized |-> Below(latest, FinalizedLag)]]]
  /\ UNCHANGED <<chainVars, followVars, dataVars, lock>>

(* Mutant: the heads that need no check are checked. *)
Promoted(row) ==
  {s \in DOMAIN row : row[s].head <= row[s].promoted /\ row[s].hash # NoHash}

(* The follow heads check_heads verifies. *)
Unpromoted(row) == {s \in DOMAIN row : row[s].head > row[s].promoted /\ row[s].hash # NoHash}

Plan(l) ==
  LET t   == tk[l]
      new == [s \in subs \ DOMAIN progress |-> Fresh(t.heads.safe)]
      all == [s \in DOMAIN progress \cup subs |->
                IF s \in DOMAIN progress THEN progress[s] ELSE new[s]]
      row == Restrict(all, subs)
  IN /\ t.pc = "plan"
     /\ IF subs = {} \/ halted
        THEN EndFollow(l) /\ UNCHANGED progress
        ELSE /\ progress' = all
             /\ tk' = [tk EXCEPT ![l] =
                  [t EXCEPT !.pc = "check", !.row = row,
                            !.known = {<<t.heads.latest, t.heads.hash>>},
                            !.hashes = {<<t.heads.latest, t.heads.hash>>},
                            !.todo = {row[s].head : s \in Unpromoted(row)}]]
     /\ UNCHANGED <<chainVars, subs, halted, dataVars, lock>>

(* canonical: the hashes the tick may learn for n; none when the provider   *)
(* has no such block, which ends the tick.                                  *)
Learn(t, n) ==
  IF n > t.heads.latest THEN {NoHash}
  ELSE IF \E k \in t.known : k[1] = n THEN {k[2] : k \in {k \in t.known : k[1] = n}}
  ELSE IF n <= latest THEN {Canonical(n)} ELSE {}

Learned(t, n, h) == IF h = NoHash THEN t.known ELSE t.known \cup {<<n, h>>}

PointsIn(row, from, to) ==
  {<<r.block, r.hash>> : r \in {r \in rows : r.finality = "unsafe" /\ r.block \in from..to}}
  \cup {<<row[s].head, row[s].hash>> :
          s \in {s \in DOMAIN row : row[s].hash # NoHash /\ row[s].head \in from..to}}

Heights(points) == {p[1] : p \in points}

(* roll_back begins: what is stored from the window below the top upward.   *)
StartRollBack(l, detected, known) ==
  LET top    == Max({detected} \cup {progress[s].head : s \in DOMAIN progress})
      floor  == Below(top, Window)
      points == PointsIn(progress, floor, top)
  IN tk' = [tk EXCEPT ![l] =
       [At("search") EXCEPT
          !.heads = tk[l].heads, !.known = known, !.row = progress,
          !.rb = [NoSearch EXCEPT
                    !.points = points, !.floor = floor,
                    !.from = Min({floor} \cup {progress[s].promoted + 1 : s \in DOMAIN progress}),
                    !.high = Cardinality(Heights(points))]]]

CheckHead(l) ==
  LET t == tk[l]
      n == Min(t.todo)
  IN /\ t.pc = "check" /\ t.todo # {}
     /\ \E h \in Learn(t, n) :
          IF \A s \in Unpromoted(t.row) : t.row[s].head = n => t.row[s].hash = h
          THEN tk' = [tk EXCEPT ![l].todo = @ \ {n}, ![l].known = Learned(t, n, h)]
          ELSE StartRollBack(l, n, Learned(t, n, h))
     /\ UNCHANGED <<chainVars, followVars, dataVars, lock>>

Verified(l) ==
  /\ tk[l].pc = "check" /\ tk[l].todo = {}
  /\ Goto(l, "headers")
  /\ UNCHANGED <<chainVars, followVars, dataVars, lock>>

-----------------------------------------------------------------------------
(* Rolling back *)

(* One turn of the binary search for the lowest height off the chain. *)
Probe(l) ==
  LET t    == tk[l]
      mid  == (t.rb.low + t.rb.high) \div 2
      n    == CHOOSE x \in Heights(t.rb.points) :
                Cardinality({y \in Heights(t.rb.points) : y < x}) = mid
  IN /\ t.pc = "search" /\ t.rb.low < t.rb.high
     /\ \E h \in Learn(t, n) :
          tk' = [tk EXCEPT
            ![l].known = Learned(t, n, h),
            ![l].rb = IF \E p \in t.rb.points : p[1] = n /\ p[2] # h
                      THEN [t.rb EXCEPT !.high = mid]
                      ELSE [t.rb EXCEPT !.low = mid + 1]]
     /\ UNCHANGED <<chainVars, followVars, dataVars, lock>>

(* The search ended: nothing is off the chain, the whole window is and the  *)
(* search widens once, or the fork is found.                                *)
Found(l) ==
  LET t      == tk[l]
      size   == Cardinality(Heights(t.rb.points))
      deeper == PointsIn(t.row, t.rb.from, t.rb.floor - 1)
      wider  == t.rb.points \cup deeper
      first  == CHOOSE x \in Heights(t.rb.points) :
                  Cardinality({y \in Heights(t.rb.points) : y < x}) = t.rb.low
  IN /\ t.pc = "search" /\ t.rb.low = t.rb.high
     /\ IF t.rb.low = size THEN EndFollow(l)
        ELSE IF t.rb.low = 0 /\ ~t.rb.wide /\ t.rb.from < t.rb.floor /\ deeper # {}
        THEN tk' = [tk EXCEPT ![l].rb = [t.rb EXCEPT
               !.points = wider, !.wide = TRUE, !.low = 0, !.high = Cardinality(Heights(wider))]]
        ELSE tk' = [tk EXCEPT ![l].pc = "rollback",
                              ![l].rb.fork = Min({first, t.heads.latest + 1})]
     /\ UNCHANGED <<chainVars, followVars, dataVars, lock>>

(* The canonical parent of the fork, then one transaction: unsafe rows from *)
(* the fork upward go and follow progress is rewound.                       *)
RollBack(l) ==
  LET t     == tk[l]
      below == t.rb.fork - 1
  IN /\ t.pc = "rollback"
     /\ \E parent \in IF below < 0 THEN {NoHash} ELSE Learn(t, below) :
          LET deeper == /\ below >= 0 /\ t.rb.low = 0
                        /\ \E h \in StoredHashes(below) : h # parent
          IN /\ rows' = KeptBelow(t.rb.fork)
             /\ progress' = [s \in DOMAIN progress |-> Rewind(progress[s], t.rb.fork, parent)]
             /\ IF t.rb.fork <= t.heads.safe \/ deeper \/ t.rb.wide
                THEN tk' = [tk EXCEPT ![l] = [At("halt") EXCEPT !.heads = t.heads]]
                ELSE EndFollow(l)
     /\ UNCHANGED <<chainVars, subs, halted, coverage, heads, fills, lock>>

Halt(l) ==
  /\ tk[l].pc = "halt"
  /\ halted' = TRUE
  /\ EndFollow(l)
  /\ UNCHANGED <<chainVars, subs, progress, dataVars, lock>>

-----------------------------------------------------------------------------
(* Fetching headers and logs *)

(* Mutant: the last block is never fetched. *)
NextSpanShort(head, top, cap) == (head + 1)..Min({top - 1, head + cap})

NextSpan(head, top, cap) == (head + 1)..Min({top, head + cap})

(* What a provider returns for the selectors S over a span. *)
Incoming(S, span) ==
  {r \in {[kind |-> k, block |-> n, hash |-> Canonical(n), finality |-> "unsafe"] :
            k \in UNION {Kinds(s) : s \in S}, n \in {n \in span : n <= latest}} :
     Has(r.kind, r.block, r.hash)}

(* follow_blocks: the headers must link to the follow head and end at the   *)
(* latest block this tick knows.                                            *)
FetchHeaders(l, s) ==
  LET t    == tk[l]
      span == NextSpan(t.row[s].head, t.heads.latest, HeaderCap)
      from == t.row[s].head
  IN /\ t.pc = "headers" /\ s \in BlockSel \cap DOMAIN t.row
     /\ span # {} /\ Max(span) <= latest
     /\ IF t.row[s].hash # NoHash /\ HashAt(Canonical(from + 1), from) # t.row[s].hash
        THEN StartRollBack(l, from, t.known)
        ELSE IF Max(span) = t.heads.latest /\ Canonical(Max(span)) # t.heads.hash
        THEN EndFollow(l)
        ELSE tk' = [tk EXCEPT ![l].pc = "store", ![l].span = span, ![l].members = {s},
                              ![l].got = Incoming({s}, span),
                              ![l].end = Canonical(Max(span))]
     /\ UNCHANGED <<chainVars, followVars, dataVars, lock>>

NoHeaders(l) ==
  LET t == tk[l]
  IN /\ t.pc = "headers"
     /\ \A s \in BlockSel \cap DOMAIN t.row : NextSpan(t.row[s].head, t.heads.latest, HeaderCap) = {}
     /\ tk' = [tk EXCEPT ![l].pc = "logs", ![l].todo = LogSel \cap DOMAIN t.row]
     /\ UNCHANGED <<chainVars, followVars, dataVars, lock>>

(* follow_logs: the row that is furthest behind sets the span, and rows     *)
(* behind its end may join.  Which of them batch is left open.              *)
FetchLogs(l, first, members) ==
  LET t    == tk[l]
      span == NextSpan(t.row[first].head, t.heads.latest, Cap)
  IN /\ t.pc = "logs"
     /\ first \in members
     /\ \A s \in t.todo : t.row[first].head <= t.row[s].head
     /\ span # {}
     /\ \A s \in members : t.row[s].head < Max(span)
     /\ tk' = [tk EXCEPT ![l].pc = "resolve", ![l].span = span, ![l].members = members,
                         ![l].got = Incoming(members, span)]
     /\ UNCHANGED <<chainVars, followVars, dataVars, lock>>

NoMoreLogs(l) ==
  LET t == tk[l]
  IN /\ t.pc = "logs"
     /\ \A s \in t.todo : NextSpan(t.row[s].head, t.heads.latest, Cap) = {}
     /\ tk' = [tk EXCEPT ![l].pc = "finalize", ![l].todo = DOMAIN t.row]
     /\ UNCHANGED <<chainVars, followVars, dataVars, lock>>

(* The hash of the last block of the span: from the head call or this       *)
(* tick's headers, else from a stored block, else asked for now.            *)
ResolveEnd(l) ==
  LET t   == tk[l]
      end == Max(t.span)
      own == {k[2] : k \in {k \in t.hashes : k[1] = end}}
      asked == own = {} /\ BlockRows(end) = {}
  IN /\ t.pc = "resolve"
     /\ \E h \in IF own # {} THEN own
                 ELSE IF ~asked THEN StoredHashes(end)
                 ELSE Learn(t, end) :
          IF \E r \in t.got : r.block = end /\ r.hash # h
          THEN EndFollow(l)
          ELSE tk' = [tk EXCEPT ![l].pc = "store", ![l].end = h,
                                ![l].known = IF asked THEN Learned(t, end, h) ELSE @]
     /\ UNCHANGED <<chainVars, followVars, dataVars, lock>>

(* The transaction begins with hash_conflict; a stored row that disagrees   *)
(* ends it.  Other transactions may commit before the insert.               *)
CheckFetched(l) ==
  LET t        == tk[l]
      conflict == HashConflict(t.got)
  IN /\ t.pc = "store"
     /\ IF conflict # {} THEN StartRollBack(l, Min(conflict), t.known) ELSE Goto(l, "insert")
     /\ UNCHANGED <<chainVars, followVars, dataVars, lock>>

(* It ends with the rows and the new follow heads. *)
StoreFetched(l) ==
  LET t        == tk[l]
      end      == Max(t.span)
      headers  == t.members \cap BlockSel # {}
  IN /\ t.pc = "insert"
     /\ IF \E s \in t.members : s \notin DOMAIN progress \/ progress[s].head > end
        THEN EndFollow(l) /\ UNCHANGED <<progress, rows>>
        ELSE /\ rows' = Insert(t.got)
             /\ progress' = [s \in DOMAIN progress |->
                  IF s \in t.members THEN [progress[s] EXCEPT !.head = end, !.hash = t.end]
                                     ELSE progress[s]]
             /\ tk' = [tk EXCEPT ![l] =
                  [t EXCEPT !.pc = "logs", !.span = {}, !.members = {}, !.got = {},
                            !.end = NoHash,
                            !.hashes = IF headers THEN @ \cup {<<r.block, r.hash>> : r \in t.got}
                                       ELSE @,
                            !.todo = IF headers THEN LogSel \cap DOMAIN t.row
                                     ELSE @ \ t.members]]
     /\ UNCHANGED <<chainVars, subs, halted, coverage, heads, fills, lock>>

-----------------------------------------------------------------------------
(* Promotion *)

(* Mutant: promotion is not held back at safe. *)
PromotedToHead(p, h) == Max({p.head, p.promoted})

PromotedTo(p, h) == Max({Min({h.safe, p.head}), p.promoted})

(* The segments of a follow row to raise, with the finality each gets. *)
Parts(p, h) ==
  LET promoted  == PromotedTo(p, h)
      finalized == Min({h.finalized, promoted})
      safeFrom  == Max({p.promoted, finalized}) + 1
  IN (IF finalized > p.finalized
      THEN {[from |-> p.finalized + 1, to |-> finalized, finality |-> "finalized"]} ELSE {})
     \cup
     (IF promoted >= safeFrom
      THEN {[from |-> safeFrom, to |-> promoted, finality |-> "safe"]} ELSE {})

(* The hash promotion expects at the end of a segment: NoHash where no log   *)
(* is stored, which any hash passes.  It is read with the transaction here;  *)
(* a fill that stores a row in between makes promotion refuse it, and the    *)
(* tick ends as in FollowFails.                                              *)
EndHashes(s, p, n) ==
  IF n = p.head /\ p.hash # NoHash THEN {p.hash}
  ELSE IF s \in BlockSel THEN {r.hash : r \in BlockRows(n)}
  ELSE IF StoredHashes(n) = {} THEN {NoHash} ELSE StoredHashes(n)

(* What promote_logs and promote_blocks refuse. *)
Broken(s, part, end) ==
  {r.block : r \in {r \in rows :
     /\ r.kind \in Kinds(s) /\ r.block \in part.from..part.to
     /\ \/ r.block = part.to /\ r.hash # end
        \/ /\ s \in LogSel
           /\ \E b \in BlockRows(r.block) : b.hash # r.hash
        \/ /\ s \in BlockSel
           /\ \E b \in BlockRows(r.block - 1) : b.hash # HashAt(r.hash, r.block - 1)}}

Finalize(l, s) ==
  LET t        == tk[l]
      p        == t.row[s]
      parts    == Parts(p, t.heads)
      promoted == PromotedTo(p, t.heads)
      finalized == Min({t.heads.finalized, promoted})
      Raised(field, to) == IF to > p[field] THEN to ELSE progress[s][field]
      Rest     == IF t.todo = {s} THEN EndFollow(l) ELSE tk' = [tk EXCEPT ![l].todo = @ \ {s}]
  IN /\ t.pc = "finalize" /\ s \in t.todo
     /\ IF parts = {} \/ \E q \in parts : EndHashes(s, p, q.to) = {}
        THEN Rest /\ UNCHANGED <<progress, rows, coverage>>
        ELSE \E end \in [parts -> Hash \cup {NoHash}] :
          /\ \A q \in parts : end[q] \in EndHashes(s, p, q.to)
          /\ LET broken == UNION {Broken(s, q, end[q]) : q \in parts}
             IN IF broken # {}
                THEN StartRollBack(l, Min(broken), t.known) /\ UNCHANGED <<progress, rows, coverage>>
                ELSE IF \/ s \notin DOMAIN progress
                        \/ Raised("promoted", promoted) \notin progress[s].promoted..progress[s].head
                        \/ Raised("finalized", finalized)
                             \notin progress[s].finalized..Raised("promoted", promoted)
                THEN EndFollow(l) /\ UNCHANGED <<progress, rows, coverage>>
                ELSE /\ rows' = {[r EXCEPT !.finality =
                                    IF r.kind \in Kinds(s) /\ \E q \in parts : r.block \in q.from..q.to
                                    THEN Stronger(r.finality, (CHOOSE q \in parts :
                                           r.block \in q.from..q.to).finality)
                                    ELSE r.finality] : r \in rows}
                     /\ coverage' = [coverage EXCEPT ![s] = @ \cup UNION {q.from..q.to : q \in parts}]
                     /\ progress' = [progress EXCEPT ![s].promoted = Raised("promoted", promoted),
                                                     ![s].finalized = Raised("finalized", finalized)]
                     /\ Rest
     /\ UNCHANGED <<chainVars, subs, halted, heads, fills, lock>>

-----------------------------------------------------------------------------
(* The end of a tick: publishing and retention *)

Publish(l) ==
  LET t == tk[l]
  IN /\ t.pc = "publish"
     /\ heads' = [t.heads EXCEPT !.safe = Max({heads.safe, @}),
                                 !.finalized = Max({heads.finalized, @})]
     /\ Goto(l, "retain")
     /\ UNCHANGED <<chainVars, followVars, rows, coverage, fills, lock>>

EndTick(l) == tk' = [tk EXCEPT ![l] = At(IF lock = l THEN "idle" ELSE "out")]

(* Retention is not due, or failed. *)
NoRetention(l) ==
  /\ tk[l].pc \in {"retain", "purge"}
  /\ EndTick(l)
  /\ UNCHANGED <<chainVars, followVars, dataVars, lock>>

(* delete_unwatched_follow *)
Unfollow(l) ==
  /\ tk[l].pc = "retain"
  /\ progress' = Restrict(progress, DOMAIN progress \cap subs)
  /\ Goto(l, "purge")
  /\ UNCHANGED <<chainVars, subs, halted, dataVars, lock>>

(* delete_unsafe_through a height that safe had passed some time ago. *)
Purge(l, passed) ==
  LET through == Min({passed} \cup {progress[s].promoted : s \in DOMAIN progress})
  IN /\ tk[l].pc = "purge"
     /\ rows' = KeptAbove(through)
     /\ EndTick(l)
     /\ UNCHANGED <<chainVars, followVars, coverage, heads, fills, lock>>

-----------------------------------------------------------------------------
(* Everyone else *)

Subscribe(s) ==
  /\ s \notin subs
  /\ subs' = subs \cup {s}
  /\ UNCHANGED <<chainVars, progress, halted, dataVars, lock, tk>>

(* attach creates the follow row of a new subscription itself. *)
Attach(s) ==
  /\ s \in subs \ DOMAIN progress
  /\ progress' = [x \in DOMAIN progress \cup {s} |->
                    IF x = s THEN Fresh(heads.safe) ELSE progress[x]]
  /\ UNCHANGED <<chainVars, subs, halted, dataVars, lock, tk>>

(* hot of a query that has attached before, when retention dropped the row  *)
(* since: it is created again where the hot part of the query begins.       *)
AttachHot(s, start) ==
  /\ Expiring /\ s \notin DOMAIN progress
  /\ start > heads.safe + 1
  /\ progress' = [x \in DOMAIN progress \cup {s} |->
                    IF x = s THEN Fresh(start - 1) ELSE progress[x]]
  /\ UNCHANGED <<chainVars, subs, halted, dataVars, lock, tk>>

Expire(s) ==
  /\ Expiring /\ s \in subs
  /\ subs' = subs \ {s}
  /\ UNCHANGED <<chainVars, progress, halted, dataVars, lock, tk>>

(* A fill of one block (module FillJobs) is refused on a hash conflict.     *)
CheckFill(s, n) ==
  LET got == Incoming({s}, {n})
  IN /\ n <= heads.safe /\ n \notin coverage[s]
     /\ HashConflict(got) = {}
     /\ fills' = fills \cup {[sel |-> s, block |-> n, got |->
          {[r EXCEPT !.finality = IF n <= heads.finalized THEN "finalized" ELSE "safe"] :
           r \in got}]}
     /\ UNCHANGED <<chainVars, followVars, rows, coverage, heads, lock, tk>>

(* Its rows and coverage are committed later. *)
Fill(f) ==
  /\ rows' = Insert(f.got)
  /\ coverage' = [coverage EXCEPT ![f.sel] = @ \cup {f.block}]
  /\ fills' = fills \ {f}
  /\ UNCHANGED <<chainVars, followVars, heads, lock, tk>>

(* Or its worker is stopped. *)
DropFill(f) ==
  /\ fills' = fills \ {f}
  /\ UNCHANGED <<chainVars, followVars, rows, coverage, heads, lock, tk>>

Resume ==
  /\ halted
  /\ halted' = FALSE
  /\ UNCHANGED <<chainVars, subs, progress, dataVars, lock, tk>>

Elect(l) ==
  /\ lock = NoLeader /\ tk[l].pc = "out"
  /\ lock' = l
  /\ tk' = [tk EXCEPT ![l] = At("idle")]
  /\ UNCHANGED <<chainVars, followVars, dataVars>>

(* The connection that holds the lock breaks; the leader notices only after *)
(* its next tick.                                                           *)
LoseLock ==
  /\ Faults /\ lock # NoLeader
  /\ lock' = NoLeader
  /\ UNCHANGED <<chainVars, followVars, dataVars, tk>>

Crash(l) ==
  /\ Faults /\ tk[l].pc # "out"
  /\ tk' = [tk EXCEPT ![l] = At("out")]
  /\ lock' = IF lock = l THEN NoLeader ELSE lock
  /\ UNCHANGED <<chainVars, followVars, dataVars>>

InFollow == {"plan", "check", "search", "rollback", "halt", "headers", "logs", "resolve",
             "store", "insert", "finalize"}

(* A provider or database call of follow_tick failed. *)
FollowFails(l) ==
  /\ Faults /\ tk[l].pc \in InFollow
  /\ EndFollow(l)
  /\ UNCHANGED <<chainVars, followVars, dataVars, lock>>

(* upsert_heads failed. *)
PublishFails(l) ==
  /\ Faults /\ tk[l].pc = "publish"
  /\ EndTick(l)
  /\ UNCHANGED <<chainVars, followVars, dataVars, lock>>

(* A block the tick asks for is not there: the chain is shorter now. *)
NotReady(l) ==
  LET t == tk[l]
  IN /\ \/ t.pc = "check" /\ t.todo # {} /\ Learn(t, Min(t.todo)) = {}
        \/ t.pc = "headers" /\ \E s \in BlockSel \cap DOMAIN t.row :
             LET span == NextSpan(t.row[s].head, t.heads.latest, HeaderCap)
             IN span # {} /\ Max(span) > latest
        \/ /\ t.pc = "resolve" /\ Max(t.span) > latest
           /\ ~\E k \in t.hashes : k[1] = Max(t.span)
           /\ BlockRows(Max(t.span)) = {} /\ Learn(t, Max(t.span)) = {}
        \/ t.pc = "search" /\ t.rb.low < t.rb.high /\ \E n \in Heights(t.rb.points) :
             /\ Cardinality({y \in Heights(t.rb.points) : y < n}) = (t.rb.low + t.rb.high) \div 2
             /\ Learn(t, n) = {}
        \/ t.pc = "rollback" /\ t.rb.fork > 0 /\ Learn(t, t.rb.fork - 1) = {}
     /\ EndFollow(l)
     /\ UNCHANGED <<chainVars, followVars, dataVars, lock>>

-----------------------------------------------------------------------------

FollowStep(l) ==
  \/ Plan(l) \/ CheckHead(l) \/ Verified(l)
  \/ Probe(l) \/ Found(l) \/ RollBack(l) \/ Halt(l)
  \/ NoHeaders(l) \/ NoMoreLogs(l) \/ ResolveEnd(l)
  \/ CheckFetched(l) \/ StoreFetched(l)
  \/ \E s \in Sel : FetchHeaders(l, s) \/ Finalize(l, s)
  \/ \E members \in SUBSET tk[l].todo : \E s \in members : FetchLogs(l, s, members)
  \/ NotReady(l)

LeaderStep(l) ==
  \/ Elect(l) \/ StartTick(l) \/ FollowStep(l) \/ Publish(l)
  \/ NoRetention(l) \/ Unfollow(l) \/ \E n \in 0..heads.safe : Purge(l, n)

ChainStep == Grow \/ \E n, top \in Height : Reorg(n, top)

ClientStep ==
  \/ \E s \in Sel : Subscribe(s) \/ Attach(s) \/ Expire(s)
  \/ \E a \in Asked : AttachHot(a[1], a[2])
  \/ \E f \in Filling : CheckFill(f[1], f[2])
  \/ \E f \in fills : Fill(f) \/ DropFill(f)
  \/ Resume

FaultStep == LoseLock \/ \E l \in Leader : Crash(l) \/ FollowFails(l) \/ PublishFails(l)

Next == ChainStep \/ ClientStep \/ FaultStep \/ \E l \in Leader : LeaderStep(l)

Spec == Init /\ [][Next]_vars

FairSpec == Spec /\ \A l \in Leader : WF_vars(LeaderStep(l))

-----------------------------------------------------------------------------
(* Properties *)

(* Types, and the order of the three marks of a follow row that the         *)
(* advance_follow_* and rewind_follow statements keep.                      *)
TypeOK ==
  /\ fork \in Seq(Height) /\ latest \in Height /\ settled \in Height
  /\ subs \subseteq Sel /\ halted \in BOOLEAN
  /\ DOMAIN progress \subseteq Sel
  /\ \A s \in DOMAIN progress : /\ progress[s] \in Progress
                                /\ progress[s].finalized <= progress[s].promoted
                                /\ progress[s].promoted <= progress[s].head
  /\ rows \subseteq RowType
  /\ coverage \in [Sel -> SUBSET Height]
  /\ lock \in Leader \cup {NoLeader}

(* The rows of s stored at block n are exactly those of the canonical block. *)
Exact(s, n) ==
  {<<r.kind, r.hash>> : r \in {r \in rows : r.kind \in Kinds(s) /\ r.block = n}}
    = {<<k, Canonical(n)>> : k \in {k \in Kinds(s) : Has(k, n, Canonical(n))}}

(* Durable data is complete and right: where coverage records a block, by   *)
(* finalize or by a fill, exactly the canonical block's rows are stored, so *)
(* a query served from coverage misses nothing and returns nothing stale.   *)
CoveredExact == \A s \in Sel : \A n \in coverage[s] : Exact(s, n)

(* An anchor vouches for its segment: while head_hash of a follow row is    *)
(* canonical, every block above promoted_to up to head_block holds exactly  *)
(* the canonical rows.  Queries above safe are answered from these blocks   *)
(* with that hash as their anchor.                                          *)
HeadVouches ==
  \A s \in DOMAIN progress :
    LET p == progress[s]
    IN p.hash # NoHash /\ p.head <= latest /\ p.hash = Canonical(p.head)
         => \A n \in (p.promoted + 1)..p.head : Exact(s, n)

(* Rollback and retention never delete a durable row or weaken its          *)
(* finality, whatever leader, fill or expiry interleaves.                   *)
DurableKept ==
  [][\A r \in rows : r.finality # "unsafe" =>
       \E q \in rows' : /\ q.kind = r.kind /\ q.block = r.block /\ q.hash = r.hash
                        /\ Stronger(q.finality, r.finality) = q.finality]_vars

(* No block of an abandoned fork is ever durable: promotion raises and      *)
(* fills write canonical rows only.                                         *)
DurableCanonical == \A r \in rows : r.finality # "unsafe" => r.hash = Canonical(r.block)

(* The head a tick verified commits to every row stored below it: when      *)
(* finalize starts, the rows it may promote are ancestors of the head hash  *)
(* check_heads compared, whatever the chain has done since.                 *)
VerifiedHeadCommits ==
  \A l \in Leader : tk[l].pc = "finalize" =>
    \A s \in tk[l].todo \cap Unpromoted(tk[l].row) :
      LET p == tk[l].row[s]
      IN \A r \in rows : r.kind \in Kinds(s) /\ r.block \in (p.promoted + 1)..p.head
                         => r.hash = HashAt(p.hash, r.block)

(* The logs and the header stored at one height always belong to one block, *)
(* though follow and fills store them at different times.                   *)
OneHashPerHeight == \A q, r \in rows : q.block = r.block => q.hash = r.hash

CaughtUp ==
  \A s \in subs : /\ s \in DOMAIN progress
                  /\ progress[s].head = latest
                  /\ progress[s].hash = Canonical(latest)
                  /\ progress[s].promoted >= Below(latest, SafeLag)

(* Follow catches up: once the chain stands still, subscriptions stay and   *)
(* nothing fails, every watched selector is fetched to the canonical head   *)
(* and promoted to safe for good, unless follow has halted.                 *)
CatchesUp ==
  <>[][~(ChainStep \/ FaultStep \/ Resume \/ \E s \in Sel : Expire(s))]_vars
    => <>[](halted \/ CaughtUp)

=============================================================================
