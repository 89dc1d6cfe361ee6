-------------------------------- MODULE Sdk ---------------------------------
(***************************************************************************)
(* The Rust SDK: query_all and its pages (sdks/rust/src/client.rs), the     *)
(* follow stream (follow.rs) and the two cursors (cursor.rs), over a        *)
(* service that answers the way Query does, while the chain grows and       *)
(* forks.  One program is modelled at a time: "follow" is the README's loop *)
(* around follow() with a FinalizedCursor checkpoint, which may crash and   *)
(* start again from the checkpoint; "tail" is the README's loop around      *)
(* query_all and a ProvisionalCursor.                                       *)
(*                                                                          *)
(* The chain is a sequence of blocks from height 1.  The hash of a block is *)
(* the chain up to it, so equal hashes have equal ancestors.  A block has   *)
(* one log or none.                                                         *)
(***************************************************************************)
EXTENDS BlockPlan, Functions

CONSTANTS Program,     \* pairs of a program and the request it repeats
          MaxForks,    \* reorganisations of the chain
          ChunkBlocks  \* FollowRequest::chunk_blocks

ASSUME SdkAssumption ==
  /\ MaxEnd > 0 /\ MaxForks \in Nat /\ ChunkBlocks \in Nat \ {0}
  /\ Program \subseteq [kind : {"follow", "tail"}, end : Nat, limit : Nat \ {0},
                        finality : {"durable_only", "safe_to_latest", "latest_only"}]

VARIABLES program,
          chain, forks, safe, \* the chain and its safe height
          view,               \* the chain as the service has followed it
          durable,            \* blocks up to here are covered
          call,               \* the query_all under way
          pc, next, heads, caughtUp,      \* Follower
          from, told, written, checkpoint, \* what the application did with its events
          cursor, kept        \* ProvisionalCursor, and the rows kept by its application

chainVars   == <<program, chain, forks, safe>>
serviceVars == <<view, durable>>
followVars  == <<pc, next, heads, caughtUp, from, told, written, checkpoint>>
tailVars    == <<cursor, kept>>
vars == <<chainVars, serviceVars, call, followVars, tailVars>>

NoHeads == [safe |-> 0, latest |-> 0]
NoAnchor == {}

Hash(c, n) == SubSeq(c, 1, n)

Row(c, n) == [number |-> n, hash |-> Hash(c, n)]

RowsOf(c, blocks) == {Row(c, n) : n \in {m \in DOMAIN c \cap blocks : c[m].log}}

(* The chain c has the blocks of a: it has the hash of the last one. *)
OnChain(a, c) == Len(a) <= Len(c) /\ a = Hash(c, Len(a))

(* What two chains have in common. *)
Common(a, c) ==
  Hash(a, Max({n \in 0..Least(Len(a), Len(c)) : Hash(a, n) = Hash(c, n)}))

NoCall == [pc |-> "none", range |-> NoRange, wanted |-> NoRange, segments |-> <<>>,
           anchor |-> NoAnchor, rows |-> {}, known |-> {}, after |-> 0]

Genesis == <<[fork |-> 0, log |-> FALSE]>>

Init ==
  /\ program \in Program
  /\ chain = Genesis /\ forks = 0 /\ safe = 1
  /\ view = Genesis /\ durable = 1
  /\ call = NoCall
  /\ pc = "step" /\ next = 1 /\ heads = NoHeads /\ caughtUp = FALSE
  /\ from = 1 /\ told = [n \in 1..MaxEnd |-> <<>>] /\ written = {} /\ checkpoint = 1
  /\ cursor = [settled |-> 2, next |-> 2, seen |-> {}] /\ kept = {}

-----------------------------------------------------------------------------
(* The chain and the service *)

Mine(log) ==
  /\ Len(chain) < MaxEnd
  /\ chain' = Append(chain, [fork |-> forks, log |-> log])
  /\ UNCHANGED <<program, forks, safe, serviceVars, call, followVars, tailVars>>

(* A block above the safe height is replaced, and those above it go. *)
Reorg(n, log) ==
  /\ forks < MaxForks
  /\ n > safe
  /\ forks' = forks + 1
  /\ chain' = Append(SubSeq(chain, 1, n - 1), [fork |-> forks', log |-> log])
  /\ UNCHANGED <<program, safe, serviceVars, call, followVars, tailVars>>

SafeMoves ==
  /\ safe < Len(chain)
  /\ safe' = safe + 1
  /\ UNCHANGED <<program, chain, forks, serviceVars, call, followVars, tailVars>>

(* The leader fetches what is new, or rolls back what was replaced. *)
Follow ==
  /\ view # chain
  /\ view' = IF OnChain(view, chain) THEN chain ELSE Common(view, chain)
  /\ UNCHANGED <<chainVars, durable, call, followVars, tailVars>>

(* A fill or a promotion covers the next safe block; a stored row of another *)
(* fork refuses it.                                                          *)
Cover ==
  /\ durable < safe
  /\ OnChain(Hash(view, Least(durable + 1, Len(view))), chain)
  /\ durable' = durable + 1
  /\ UNCHANGED <<chainVars, view, call, followVars, tailVars>>

Stored == RowsOf(chain, 1..durable) \cup RowsOf(view, (durable + 1)..MaxEnd)

Heads == [safe |-> safe, latest |-> Len(chain)]

-----------------------------------------------------------------------------
(* query_all *)

SegmentAt(source, range) ==
  IF range = NoRange THEN <<>>
  ELSE <<[source |-> source, start |-> range.start, end |-> range.end]>>

(* The service decides what it serves: the covered prefix of the durable     *)
(* part, and above it the followed blocks, vouched for by the follow head.   *)
QueryServes ==
  LET range   == call.range
      below   == IF program.finality = "latest_only" THEN NoRange ELSE DurablePart(range, safe)
      wanted  == IF program.finality = "durable_only" THEN NoRange
                 ELSE NewRange(Greatest(range.start, safe + 1), range.end)
      covered == IF below = NoRange THEN NoRange
                 ELSE NewRange(below.start, Least(below.end, durable))
      hot     == IF covered # below \/ wanted = NoRange THEN NoRange
                 ELSE NewRange(wanted.start, Least(wanted.end, Len(view)))
  IN /\ call.pc = "serve"
     /\ call' = [call EXCEPT !.pc = "rows", !.wanted = wanted,
                   !.segments = SegmentAt("durable", covered) \o SegmentAt("hot", hot),
                   !.anchor = IF hot = NoRange THEN NoAnchor ELSE {Row(view, Len(view))}]
     /\ UNCHANGED <<chainVars, serviceVars, followVars, tailVars>>

Served(answer) ==
  IF answer.segments = <<>> THEN NoRange
  ELSE NewRange(Head(answer.segments).start, answer.segments[Len(answer.segments)].end)

(* Every height and hash a page names; a row is listed before an anchor. *)
BlockHashes(rows, anchor) ==
  rows \cup {a \in anchor : \A r \in rows : r.number # a.number}

Disagree(hashes, known) ==
  \E x \in hashes, y \in known : x.number = y.number /\ x.hash # y.hash

Restarted(c) == [NoCall EXCEPT !.pc = "serve", !.range = c.range]

(* The first rows, in order, that fit a page. *)
PageOf(rows) ==
  {r \in rows : Cardinality({x \in rows : x.number <= r.number}) <= program.limit}

(* The service reads a page of rows; the client compares it with the pages   *)
(* before, and asks for the next one.  Pages that disagree are dropped.      *)
QueryRows ==
  LET served == Served(call)
      fresh  == {r \in Stored : /\ served # NoRange /\ r.number > call.after
                                /\ r.number \in BlocksOf(served)}
      page   == PageOf(fresh)
      hashes == BlockHashes(page, call.anchor)
  IN /\ call.pc = "rows"
     /\ call' = IF Disagree(hashes, call.known) THEN Restarted(call)
                ELSE [call EXCEPT !.pc = IF page = fresh THEN "done" ELSE "serve",
                        !.rows = @ \cup page,
                        !.known = IF page = fresh THEN {} ELSE @ \cup hashes,
                        !.after = IF page = fresh THEN 0 ELSE Max({r.number : r \in page})]
     /\ UNCHANGED <<chainVars, serviceVars, followVars, tailVars>>

(* next_start of the answer; 0 stands for null. *)
NextStart(answer) ==
  LET served == Served(answer)
  IN IF served # NoRange
     THEN IF served.end < answer.range.end THEN served.end + 1 ELSE 0
     ELSE IF program.finality = "latest_only"
     THEN IF answer.wanted = NoRange THEN 0 ELSE answer.wanted.start
     ELSE answer.range.start

-----------------------------------------------------------------------------
(* Follower *)

Tip(h) == IF program.finality = "durable_only" THEN h.safe ELSE h.latest

(* 0 stands for a request without end. *)
Until(height) == IF program.end = 0 THEN height ELSE Least(program.end, height)

Tell(event, range) ==
  [n \in DOMAIN told |-> IF range # NoRange /\ n \in BlocksOf(range)
                         THEN Append(told[n], event) ELSE told[n]]

(* Mutant: the heads that were caught up with are used again. *)
AwaitedAgain(h) == h

(* Once caught up, wait_heads returns the heads of the moment, whether they  *)
(* passed `next` or time ran out.                                            *)
Awaited(h) == IF caughtUp THEN Heads ELSE h

(* One round of step, up to the query it may send. *)
Step ==
  LET h    == IF heads = NoHeads THEN Heads ELSE heads
      last == Until(Tip(h))
      end  == Least(last, Saturate(next + (ChunkBlocks - 1)))
  IN /\ program.kind = "follow" /\ pc = "step"
     /\ \/ /\ program.end # 0 /\ next > program.end
           /\ pc' = "done"
           /\ UNCHANGED <<call, next, heads, caughtUp, told>>
        \/ /\ program.end = 0 \/ next <= program.end
           /\ \/ /\ program.finality = "latest_only" /\ next <= h.safe
                 /\ told' = Tell("skipped", NewRange(next, Until(h.safe)))
                 /\ next' = Until(h.safe) + 1
                 /\ heads' = h
                 /\ UNCHANGED <<call, pc, caughtUp>>
              \/ /\ ~(program.finality = "latest_only" /\ next <= h.safe)
                 /\ next > last
                 /\ caughtUp' = TRUE
                 /\ heads' = Awaited(h)
                 /\ UNCHANGED <<call, pc, next, told>>
              \/ /\ ~(program.finality = "latest_only" /\ next <= h.safe)
                 /\ next <= last
                 /\ pc' = "query" /\ caughtUp' = FALSE /\ heads' = NoHeads
                 /\ call' = [NoCall EXCEPT !.pc = "serve", !.range = NewRange(next, end)]
                 /\ UNCHANGED <<next, told>>
     /\ UNCHANGED <<chainVars, serviceVars, from, written, checkpoint, tailVars>>

(* Mutant: blocks in front of the served ones are passed over in silence. *)
ResumeSilent(answer) ==
  LET resume == IF NextStart(answer) = 0 THEN answer.range.end + 1 ELSE NextStart(answer)
  IN /\ told' = Tell("batch", Served(answer))
     /\ next' = resume

(* The rest of step: blocks that were not served are reported as skipped,    *)
(* the others as a batch.                                                    *)
Resume(answer) ==
  LET served   == Served(answer)
      resume   == IF NextStart(answer) = 0 THEN answer.range.end + 1 ELSE NextStart(answer)
      unserved == (IF served = NoRange THEN resume ELSE served.start) - 1
      skipped  == NewRange(next, unserved)
  IN /\ told' = [n \in DOMAIN told |->
          IF skipped # NoRange /\ n \in BlocksOf(skipped) THEN Append(told[n], "skipped")
          ELSE Tell("batch", served)[n]]
     /\ next' = resume

(* The application writes the rows of the batch. *)
Batch ==
  /\ pc = "query" /\ call.pc = "done"
  /\ Resume(call)
  /\ written' = written \cup call.rows
  /\ IF Served(call) = NoRange THEN pc' = "step" /\ call' = NoCall
     ELSE pc' = "save" /\ call' = [NoCall EXCEPT !.segments = call.segments]
  /\ UNCHANGED <<chainVars, serviceVars, heads, caughtUp, from, checkpoint, tailVars>>

(* Mutant: hot segments move the cursor too. *)
AdvanceOverHot(start, segments) ==
  LET Past(k) == Max({start} \cup {segments[i].end + 1 : i \in 1..k})
      passed  == {k \in 0..Len(segments) : \A i \in 1..k : segments[i].start <= Past(i - 1)}
  IN Past(Max(passed))

(* FinalizedCursor::advance: past the first segments that are durable and    *)
(* leave no gap.                                                             *)
Advance(start, segments) ==
  LET Past(k) == Max({start} \cup {segments[i].end + 1 : i \in 1..k})
      passed  == {k \in 0..Len(segments) : \A i \in 1..k :
                    segments[i].source = "durable" /\ segments[i].start <= Past(i - 1)}
  IN Past(Max(passed))

Save ==
  /\ pc = "save"
  /\ checkpoint' = Advance(checkpoint, call.segments)
  /\ pc' = "step" /\ call' = NoCall
  /\ UNCHANGED <<chainVars, serviceVars, next, heads, caughtUp, from, told, written, tailVars>>

(* A call failed for good, or the pages disagreed too often; the stream asks *)
(* again after a pause.                                                      *)
CallFails ==
  /\ call.pc \in {"serve", "rows"}
  /\ call' = NoCall
  /\ pc' = "step"
  /\ UNCHANGED <<chainVars, serviceVars, next, heads, caughtUp, from, told, written,
                 checkpoint, tailVars>>

(* The application crashes and follows from its checkpoint. *)
Crash ==
  /\ program.kind = "follow" /\ pc # "done"
  /\ pc' = "step" /\ call' = NoCall
  /\ next' = checkpoint /\ from' = checkpoint
  /\ heads' = NoHeads /\ caughtUp' = FALSE
  /\ told' = [n \in 1..MaxEnd |-> <<>>]
  /\ UNCHANGED <<chainVars, serviceVars, written, checkpoint, tailVars>>

-----------------------------------------------------------------------------
(* ProvisionalCursor *)

(* The tail is read again from the first unsettled block to latest. *)
Reread ==
  /\ program.kind = "tail" /\ call.pc = "none"
  /\ cursor.settled <= Len(chain)
  /\ call' = [NoCall EXCEPT !.pc = "serve", !.range = NewRange(cursor.settled, Len(chain))]
  /\ UNCHANGED <<chainVars, serviceVars, followVars, tailVars>>

HotBlocks(answer) ==
  UNION {s.start..s.end : s \in {t \in Range(answer.segments) : t.source = "hot"}}

(* Heights the answer shows hot, and whether by a row or only by the anchor. *)
HotHashes(answer) ==
  LET rows == {r \in answer.rows : r.number \in HotBlocks(answer)}
  IN {[number |-> x.number, hash |-> x.hash, rows |-> x \in rows] :
        x \in BlockHashes(rows, answer.anchor)}

(* Mutant: a height that lost its rows goes unnoticed. *)
MismatchesByHash(seen, hashes, hot) ==
  {s.number : s \in {t \in seen : \E x \in hashes : x.number = t.number /\ x.hash # t.hash}}

(* Heights with another hash, or with rows before and none now. *)
Mismatches(seen, hashes, hot) ==
  {s.number : s \in {t \in seen :
     \/ \E x \in hashes : x.number = t.number /\ x.hash # t.hash
     \/ t.rows /\ t.number \in hot /\ ~\E x \in hashes : x.number = t.number /\ x.rows}}

(* Mutant: the lowest mismatch is taken for the fork. *)
ForkPointAtMismatch(seen, hashes, mismatch) == mismatch

(* One above the highest height below the mismatch that still matches. *)
ForkPoint(seen, hashes, mismatch) ==
  LET matched == {x.number : x \in {y \in hashes :
                    /\ y.number < mismatch
                    /\ \E s \in seen : s.number = y.number /\ s.hash = y.hash}}
  IN Max({m + 1 : m \in matched} \cup {cursor.settled})

(* The first height that is not durable: latest_only answers begin above     *)
(* safe.                                                                     *)
Floor(answer) ==
  LET start == answer.range.start
      hot   == {i \in DOMAIN answer.segments : answer.segments[i].source = "hot"}
      past  == Advance(start, answer.segments)
  IN IF past = start /\ hot # {} THEN Greatest(past, answer.segments[Min(hot)].start) ELSE past

(* observe answers Consistent and the application adds the rows. *)
Consistent(answer) ==
  LET hashes  == HotHashes(answer)
      seen    == {s \in cursor.seen : \A x \in hashes : x.number # s.number}
                 \cup {[x EXCEPT !.rows = @ \/ \E s \in cursor.seen :
                                             s.number = x.number /\ s.rows] : x \in hashes}
      settled == Greatest(cursor.settled, Floor(answer))
  IN /\ Mismatches(cursor.seen, hashes, HotBlocks(answer)) = {}
     /\ cursor' = [settled |-> settled,
                   next |-> IF Served(answer) = NoRange THEN cursor.next
                            ELSE Greatest(cursor.next, Served(answer).end + 1),
                   seen |-> {s \in seen : s.number >= settled}]
     /\ kept' = kept \cup answer.rows

(* observe answers Rollback and the application drops rows. *)
Rollback(answer) ==
  LET hashes     == HotHashes(answer)
      mismatches == Mismatches(cursor.seen, hashes, HotBlocks(answer))
      point      == ForkPoint(cursor.seen, hashes, Min(mismatches))
  IN /\ mismatches # {}
     /\ cursor' = [cursor EXCEPT !.next = point,
                                 !.seen = {s \in @ : s.number < point}]
     /\ kept' = {r \in kept : r.number < point}

Observe ==
  /\ program.kind = "tail" /\ call.pc = "done"
  /\ Consistent(call) \/ Rollback(call)
  /\ call' = NoCall
  /\ UNCHANGED <<chainVars, serviceVars, followVars>>

-----------------------------------------------------------------------------

ChainStep ==
  \/ \E log \in BOOLEAN : Mine(log)
  \/ \E n \in 2..Len(chain), log \in BOOLEAN : Reorg(n, log)
  \/ SafeMoves

CallStep == QueryServes \/ QueryRows
FollowStep == Step \/ Batch \/ Save
TailStep == Reread \/ Observe

Next == ChainStep \/ Follow \/ Cover \/ CallStep \/ FollowStep \/ CallFails \/ Crash \/ TailStep

Spec == Init /\ [][Next]_vars

(* The service keeps following and filling, and answers; the program runs. *)
FairSpec ==
  /\ Spec
  /\ WF_vars(Follow) /\ WF_vars(Cover) /\ WF_vars(CallStep)
  /\ WF_vars(FollowStep) /\ WF_vars(TailStep)

-----------------------------------------------------------------------------
(* Properties *)

(* The follow stream reports every block from where it was started to the    *)
(* one before `next` exactly once, as skipped or in a batch, although safe    *)
(* and latest move between reading the heads and the answer; only blocks      *)
(* that latest_only does not serve, at or below safe, are skipped             *)
(* (sdks/rust/src/follow.rs step, skip).                                     *)
ReportedOnce ==
  \A n \in DOMAIN told :
    IF n \in from..(next - 1)
    THEN \/ told[n] = <<"batch">>
         \/ told[n] = <<"skipped">> /\ program.finality = "latest_only" /\ n <= safe
    ELSE told[n] = <<>>

(* A checkpoint saved after each batch loses and invents nothing, whenever    *)
(* the application crashes: below it are safe blocks only, and of a           *)
(* durable_only stream exactly the canonical rows are written                 *)
(* (FinalizedCursor::advance, sdks/README.md).                               *)
CheckpointHolds ==
  /\ checkpoint <= safe + 1
  /\ program.finality = "durable_only" =>
       /\ {r \in written : r.number < checkpoint} = RowsOf(chain, 1..(checkpoint - 1))
       /\ written \subseteq RowsOf(chain, 1..safe)

(* The answer is what one state of the followed chain would give. *)
Whole(answer) ==
  /\ answer.rows = RowsOf(view, HotBlocks(answer))
  /\ \A a \in answer.anchor : a.number <= Len(view) /\ a.hash = Hash(view, a.number)

(* The hashes remembered are of one chain. *)
Coherent(seen) ==
  \A s, t \in seen : t.number <= s.number => t.hash = Hash(s.hash, t.number)

(* What a tail application that reads each answer in one page keeps above     *)
(* `settled` after an answer of one state of the chain is right, although     *)
(* forks between the served range and its rows may have torn earlier answers: *)
(* after Consistent exactly the rows of the answer within its hot blocks;     *)
(* after Rollback only rows of the answer within them, and nothing that is    *)
(* not on that chain when the hashes remembered were of one chain             *)
(* (ProvisionalCursor::observe, fork_point).                                  *)
TailRepaired ==
  [][Observe /\ Whole(call) =>
       LET hot    == HotBlocks(call)
           above  == {r \in kept' : r.number >= cursor'.settled}
           within == {r \in above : r.number \in hot}
       IN IF Consistent(call) THEN within = call.rows
          ELSE /\ within \subseteq call.rows
               /\ Coherent(cursor.seen) => above \subseteq RowsOf(view, 1..MaxEnd)]_vars

(* The chain rests, no call fails and the application does not crash. *)
Calm == UNCHANGED <<chain, safe>> /\ ~CallFails /\ (Crash => Batch)

(* When the chain comes to rest, the stream has reported every block up to    *)
(* the head it follows or its end, and the tail application keeps exactly     *)
(* the canonical rows above safe (next_item, step; observe).                  *)
ClientsCatchUp ==
  <>[][Calm]_vars =>
    <>[](IF program.kind = "follow" THEN next > Until(Tip(Heads))
         ELSE {r \in kept : r.number \in (safe + 1)..Len(chain)}
                = RowsOf(chain, (safe + 1)..MaxEnd))

=============================================================================
