------------------------------ MODULE LogFetch ------------------------------
(***************************************************************************)
(* How a fill gets its logs: fetch_logs of crates/engine/src/worker.rs      *)
(* forms groups (BatchGroups) and asks get_logs for each group and gap;     *)
(* get_logs (crates/evm/src/logs.rs) splits the addresses and walks the gap *)
(* in windows of the range that all fetches of a chain share and adapt      *)
(* (crates/provider/src/range.rs).  One fetch is followed step by step,     *)
(* other fetches change the shared range between its steps.                 *)
(*                                                                          *)
(* The members all lack the same gaps; fetch_logs repeats this for each     *)
(* list of gaps.                                                            *)
(***************************************************************************)
EXTENDS BatchGroups, SequencesExt

CONSTANTS Gaps,      \* the missing ranges, in order; blocks count from 1
          Logs,      \* the logs of the chain, with their block
          MinRange,  \* min_range_blocks
          MaxRange,  \* max_get_logs_range_blocks
          Streak     \* SUCCESS_STREAK

ASSUME LogFetchAssumption ==
  /\ MinRange \in Nat \ {0} /\ MaxRange \in Nat /\ MinRange <= MaxRange
  /\ Streak \in Nat \ {0}
  /\ Logs \subseteq [block : Nat, key : LogKey]
  /\ MaxAddresses > 0 /\ IsFiniteSet(Address)
  /\ Gaps \in Seq([start : Nat \ {0}, end : Nat \ {0}]) /\ Gaps # <<>>
  /\ \A i \in DOMAIN Gaps : Gaps[i].start <= Gaps[i].end

VARIABLES range,   \* RangeState of evm.logs
          pc,
          group, gap,      \* indices of the loops of fetch_logs
          cursor, end,     \* the window being fetched
          parts, window,   \* address groups still to ask, and logs of the window so far
          page, fetchedTo, \* LogsPage; 0 stands for None
          rows, fetches    \* Fetched

loopVars  == <<group, gap>>
pageVars  == <<cursor, end, parts, window, page, fetchedTo>>
fetchVars == <<vars, range, pc, loopVars, pageVars, rows, fetches>>

FetchInit ==
  /\ Init
  /\ range = [current |-> MaxRange, successes |-> 0]
  /\ pc = "group" /\ group = 1 /\ gap = 1
  /\ cursor = Gaps[1].start /\ end = 0
  /\ parts = <<>> /\ window = {} /\ page = {} /\ fetchedTo = 0
  /\ rows = {} /\ fetches = {}

-----------------------------------------------------------------------------
(* RangeBook *)

Smaller(x, y) == IF x <= y THEN x ELSE y
Larger(x, y) == IF x >= y THEN x ELSE y

RecordSuccess(r) ==
  IF r.successes + 1 >= Streak
  THEN [current |-> Smaller(r.current * 2, MaxRange), successes |-> 0]
  ELSE [r EXCEPT !.successes = @ + 1]

RecordLimit(r, failed) ==
  [current |-> Larger(Smaller(r.current, failed \div 2), MinRange), successes |-> 0]

(* Another fetch of the chain, or the end of RANGE_TTL_MS. *)
OtherSucceeds == range' = RecordSuccess(range)

OtherLimited == \E failed \in 1..MaxRange : range' = RecordLimit(range, failed)

RangeExpires == range' = [current |-> MaxRange, successes |-> 0]

Others ==
  /\ OtherSucceeds \/ OtherLimited \/ RangeExpires
  /\ UNCHANGED <<vars, pc, loopVars, pageVars, rows, fetches>>

-----------------------------------------------------------------------------
(* get_logs *)

Query == BatchSelector(groups[group])

(* address_groups: chunks of at most MaxAddresses addresses. *)
AddressGroups(selector) ==
  LET all == SetToSeq(selector.addresses)
      n   == (Len(all) + MaxAddresses - 1) \div MaxAddresses
  IN IF selector.addresses = {} THEN <<{}>>
     ELSE [i \in 1..n |->
             {all[k] : k \in ((i - 1) * MaxAddresses + 1)..Smaller(i * MaxAddresses, Len(all))}]

WindowEnd == Smaller(cursor + (range.current - 1), Gaps[gap].end)

(* batch_groups takes the next member. *)
Grouping ==
  /\ pc = "group" /\ Next
  /\ UNCHANGED <<range, pc, loopVars, pageVars, rows, fetches>>

(* batch_groups has seen all members. *)
Grouped ==
  /\ pc = "group" /\ groups # <<>>
  /\ pc' = "window"
  /\ UNCHANGED <<vars, range, loopVars, pageVars, rows, fetches>>

(* fetch_window begins, or tries again with a shorter window. *)
OpenWindow ==
  /\ pc = "window"
  /\ end' = WindowEnd
  /\ parts' = AddressGroups(Query) /\ window' = {}
  /\ pc' = "call"
  /\ UNCHANGED <<vars, range, loopVars, cursor, page, fetchedTo, rows, fetches>>

(* What eth_getLogs returns for one address group; parse_log_list refuses   *)
(* anything else.                                                           *)
Narrowed(addresses) ==
  {log \in Logs : /\ log.block \in cursor..end
                  /\ Matches([Query EXCEPT !.addresses = addresses], log.key)}

(* fetch_logs takes the page: rows that match a member are kept, and the    *)
(* blocks fetched are recorded for all members of the group.                *)
Push(got, to) ==
  /\ rows' = rows \cup {log \in got : \E m \in groups[group] : Matches(m, log.key)}
  /\ fetches' = fetches \cup
       {[members |-> groups[group],
         blocks  |-> IF to = 0 THEN {} ELSE Gaps[gap].start..to]}

(* The next gap of the group, the next group, or the end. *)
NextGap ==
  /\ page' = {} /\ fetchedTo' = 0
  /\ \/ /\ gap < Len(Gaps)
        /\ gap' = gap + 1 /\ group' = group /\ pc' = "window"
        /\ cursor' = Gaps[gap + 1].start
     \/ /\ gap = Len(Gaps) /\ group < Len(groups)
        /\ gap' = 1 /\ group' = group + 1 /\ pc' = "window"
        /\ cursor' = Gaps[1].start
     \/ /\ gap = Len(Gaps) /\ group = Len(groups)
        /\ pc' = "done"
        /\ UNCHANGED <<gap, group, cursor>>

(* Mutant: the last block of a window is fetched again. *)
AdvancedAgain == end

Advanced == end + 1

(* A call is answered; with the last address group the window is complete.  *)
Answered ==
  LET got == window \cup Narrowed(Head(parts))
  IN /\ pc = "call"
     /\ parts' = Tail(parts)
     /\ \/ /\ Len(parts) > 1
           /\ window' = got
           /\ UNCHANGED <<range, pc, loopVars, cursor, end, page, fetchedTo, rows, fetches>>
        \/ /\ Len(parts) = 1
           /\ window' = {} /\ end' = 0
           /\ range' = RecordSuccess(range)
           /\ \/ /\ end < Gaps[gap].end
                 /\ page' = page \cup got /\ fetchedTo' = end
                 /\ cursor' = Advanced /\ pc' = "window"
                 /\ UNCHANGED <<loopVars, rows, fetches>>
              \/ /\ end = Gaps[gap].end
                 /\ Push(page \cup got, end)
                 /\ NextGap
     /\ UNCHANGED vars

(* Mutant: what the failing window had so far is counted as fetched. *)
GiveUpWithWindow ==
  /\ Push(page \cup window, end)
  /\ pc' = "done"
  /\ parts' = <<>> /\ window' = {} /\ end' = 0 /\ page' = {} /\ fetchedTo' = 0
  /\ UNCHANGED <<vars, loopVars, cursor>>

(* The page keeps the complete windows before the failing one. *)
GiveUp ==
  /\ Push(page, fetchedTo)
  /\ pc' = "done"
  /\ parts' = <<>> /\ window' = {} /\ end' = 0 /\ page' = {} /\ fetchedTo' = 0
  /\ UNCHANGED <<vars, loopVars, cursor>>

(* The provider refuses the length of the window. *)
Limited ==
  LET failed == end - cursor + 1
  IN /\ pc = "call"
     /\ range' = RecordLimit(range, failed)
     /\ \/ failed <= MinRange /\ GiveUp
        \/ /\ failed > MinRange
           /\ pc' = "shrink"
           /\ UNCHANGED <<vars, loopVars, pageVars, rows, fetches>>

(* The range is read again: somebody else may have widened it meanwhile. *)
Shrink ==
  /\ pc = "shrink"
  /\ \/ WindowEnd >= end /\ GiveUp
     \/ /\ WindowEnd < end
        /\ pc' = "window" /\ parts' = <<>> /\ window' = {} /\ end' = 0
        /\ UNCHANGED <<vars, loopVars, cursor, page, fetchedTo, rows, fetches>>
  /\ UNCHANGED range

CallFails == pc = "call" /\ GiveUp /\ UNCHANGED range

-----------------------------------------------------------------------------

FetchStep == Grouping \/ Grouped \/ OpenWindow \/ Answered \/ Limited \/ Shrink \/ CallFails

FetchNext == FetchStep \/ Others

FetchSpec == FetchInit /\ [][FetchNext]_fetchVars /\ WF_fetchVars(FetchStep)

-----------------------------------------------------------------------------
(* Properties *)

(* What a fill may record as covered is what it has: for every block of      *)
(* every Fetch, each log that a member of its group asks for is among the     *)
(* rows, although groups merge selectors, calls split addresses, windows     *)
(* shrink and grow under other fetches, and any call may fail; and every row *)
(* is of a block fetched for a member that asks for it (fetch_logs,          *)
(* get_logs).                                                                *)
FetchedComplete ==
  LET Asked(f, log) == log.block \in f.blocks /\ \E m \in f.members : Matches(m, log.key)
  IN \A log \in Logs : log \in rows <=> \E f \in fetches : Asked(f, log)

(* A fetch ends, with all gaps or an error, once the other fetches leave the *)
(* range alone: every window moves the cursor on, and one that was refused   *)
(* is shortened or given up (get_logs, fetch_window, record_limit).          *)
FetchEnds == <>[][~Others]_fetchVars => <>(pc = "done")

=============================================================================
