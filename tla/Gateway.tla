------------------------------ MODULE Gateway ------------------------------
(***************************************************************************)
(* One chain's provider gateway: the token bucket of                       *)
(* crates/provider/src/budget.rs and the calls of                          *)
(* crates/provider/src/gateway.rs that spend it.                           *)
(*                                                                         *)
(* Callers share one budget behind a mutex; every stretch under one lock   *)
(* is an action.  A caller without a token parks in the queue of its       *)
(* purpose's rank.  One refill task, armed while anyone is queued, wakes   *)
(* the highest waiter; a woken caller has to try again and may find its    *)
(* token taken.  Deadlines pass, calls are dropped at any await and the    *)
(* provider holds everybody back.                                          *)
(*                                                                         *)
(* Tokens are counted whole: "earned" is what a refill would add now.  A   *)
(* deadline, a hold, a backoff and the refill delay end at some time.      *)
(***************************************************************************)
EXTENDS Integers, Sequences, FiniteSets, FiniteSetsExt, SequencesExt

CONSTANTS Caller,        \* the calls ever made, each by a task of its own
          Rank,          \* Purpose::rank of each call
          Limited,       \* calls that wait TokenWait::For
          Burst,
          DailyLimit,
          MaxInFlight,
          Attempts,      \* ATTEMPTS
          Failing        \* calls whose attempts may fail

ASSUME GatewayAssumption ==
  /\ Rank \in [Caller -> 0..4]
  /\ Limited \subseteq Caller /\ Failing \subseteq Caller
  /\ Burst \in Nat \ {0} /\ DailyLimit \in Nat \ {0}
  /\ MaxInFlight \in Nat \ {0} /\ Attempts \in Nat \ {0}

VARIABLES balance, earned,        \* whole tokens, and those refill would add
          used, newDay,           \* daily_used; whether daily_day is not today
          hold,                   \* not_before > now
          queue,                  \* waiters: rank -> sequence of entries
          armed, timers,          \* refill_armed; refill tasks that run
          cl                      \* each caller's call

vars == <<balance, earned, used, newDay, hold, queue, armed, timers, cl>>

Ranks == 0..4

(* The state of a waiter's receiver: awaited, dropped by wait_turn's        *)
(* timeout, or dropped with the whole call.                                 *)
Entry == [caller : Caller, rx : {"awaited", "timed_out", "gone"}]

Pc == {"new", "hold", "try", "parked", "leaving", "passing", "granted", "sending", "backoff",
       "ended"}

Call == [pc : Pc, attempt : 1..Attempts, late : BOOLEAN, prefer : BOOLEAN, woken : BOOLEAN]

At(pc, attempt) ==
  [pc |-> pc, attempt |-> attempt, late |-> FALSE, prefer |-> FALSE, woken |-> FALSE]

Ended == At("ended", 1)

Init ==
  /\ balance = Burst /\ earned = 0
  /\ used = 0 /\ newDay = FALSE
  /\ hold = FALSE
  /\ queue = [r \in Ranks |-> <<>>]
  /\ armed = FALSE /\ timers = 0
  /\ cl = [c \in Caller |-> At("new", 1)]

-----------------------------------------------------------------------------
(* The budget's operations *)

HasWaiters(q) == \E r \in Ranks : q[r] # <<>>

Awaited(q) == {r \in Ranks : \E i \in DOMAIN q[r] : q[r][i].rx = "awaited"}

(* Where wake_highest finds a receiver to send to. *)
Highest(q) ==
  LET r == Min(Awaited(q))
  IN <<r, Min({i \in DOMAIN q[r] : q[r][i].rx = "awaited"})>>

(* wake_highest pops entries rank by rank until one send succeeds. *)
Popped(q) ==
  IF Awaited(q) = {} THEN [r \in Ranks |-> <<>>]
  ELSE LET h == Highest(q)
       IN [r \in Ranks |-> IF r < h[1] THEN <<>>
                           ELSE IF r = h[1] THEN SubSeq(q[r], h[2] + 1, Len(q[r]))
                           ELSE q[r]]

Woken(q) == IF Awaited(q) = {} THEN {} ELSE LET h == Highest(q) IN {q[h[1]][h[2]].caller}

Wake(S, calls) == [c \in Caller |-> IF c \in S THEN [calls[c] EXCEPT !.woken = TRUE]
                                               ELSE calls[c]]

(* Mutant: an idle bucket grows without end. *)
RefilledBeyond == balance + earned

Refilled == Min({Burst, balance + earned})

(* Mutant: a task is spawned beside the one that runs. *)
ArmAgain(q) ==
  /\ armed' = (armed \/ HasWaiters(q))
  /\ timers' = IF HasWaiters(q) THEN timers + 1 ELSE timers

(* arm_delay and spawn_refill: at most one task runs. *)
Arm(q) ==
  /\ armed' = (armed \/ HasWaiters(q))
  /\ timers' = IF ~armed /\ HasWaiters(q) THEN timers + 1 ELSE timers

HasHigher(c) == \E r \in Ranks : r < Rank[c] /\ queue[r] # <<>>

HasSame(c) == queue[Rank[c]] # <<>>

Enqueue(q, c) == [q EXCEPT ![Rank[c]] = Append(@, [caller |-> c, rx |-> "awaited"])]

-----------------------------------------------------------------------------
(* acquire *)

(* The deadline counts from the start of acquire, so every attempt has its  *)
(* own.                                                                     *)
Start(c) ==
  /\ cl[c].pc = "new"
  /\ cl' = [cl EXCEPT ![c] = At("hold", 1)]
  /\ UNCHANGED <<balance, earned, used, newDay, hold, queue, armed, timers>>

(* hold_delay, under a lock of its own. *)
CheckHold(c) ==
  /\ cl[c].pc = "hold" /\ ~hold
  /\ cl' = [cl EXCEPT ![c].pc = "try"]
  /\ UNCHANGED <<balance, earned, used, newDay, hold, queue, armed, timers>>

UsedToday == IF newDay THEN 0 ELSE used

(* refill and roll_day happen on every path of a try. *)
Rolled == earned' = 0 /\ newDay' = FALSE

(* Mutant: a woken caller lets its queue go first. *)
MayTakeInOrder(c) == Refilled > 0 /\ ~HasHigher(c) /\ ~HasSame(c)

MayTake(c) == Refilled > 0 /\ ~HasHigher(c) /\ (cl[c].prefer \/ ~HasSame(c))

Exhausted(c) ==
  /\ cl[c].pc = "try" /\ Rolled
  /\ UsedToday >= DailyLimit
  /\ balance' = Refilled /\ used' = UsedToday
  /\ cl' = [cl EXCEPT ![c] = Ended]
  /\ UNCHANGED <<hold, queue, armed, timers>>

(* Mutant: a woken caller takes the token it was woken for, still there or  *)
(* not.                                                                     *)
TakeWoken(c) ==
  LET more == Refilled > 1
      q    == IF more THEN Popped(queue) ELSE queue
  IN /\ cl[c].pc = "try" /\ Rolled
     /\ UsedToday < DailyLimit /\ (MayTake(c) \/ cl[c].prefer)
     /\ balance' = Max({Refilled - 1, 0}) /\ used' = UsedToday + 1
     /\ queue' = q /\ Arm(q)
     /\ cl' = Wake(IF more THEN Woken(queue) ELSE {},
                   [cl EXCEPT ![c] = At("granted", cl[c].attempt)])
     /\ UNCHANGED hold

(* A token is taken; another one left over wakes the next waiter. *)
Take(c) ==
  LET more == Refilled > 1
      q    == IF more THEN Popped(queue) ELSE queue
  IN /\ cl[c].pc = "try" /\ Rolled
     /\ UsedToday < DailyLimit /\ MayTake(c)
     /\ balance' = Refilled - 1 /\ used' = UsedToday + 1
     /\ queue' = q /\ Arm(q)
     /\ cl' = Wake(IF more THEN Woken(queue) ELSE {}, [cl EXCEPT ![c] = At("granted", cl[c].attempt)])
     /\ UNCHANGED hold

(* No token for this caller: a higher waiter is told of the one there is,   *)
(* and the caller parks unless its deadline has passed.                     *)
Park(c) ==
  LET tell == HasHigher(c) /\ Refilled > 0
      told == IF tell THEN Popped(queue) ELSE queue
      q    == IF cl[c].late THEN told ELSE Enqueue(told, c)
  IN /\ cl[c].pc = "try" /\ Rolled
     /\ UsedToday < DailyLimit /\ ~MayTake(c)
     /\ balance' = Refilled /\ used' = UsedToday
     /\ queue' = q
     /\ IF cl[c].late THEN UNCHANGED <<armed, timers>> ELSE Arm(q)
     /\ cl' = Wake(IF tell THEN Woken(queue) ELSE {},
                   [cl EXCEPT ![c] = IF cl[c].late THEN Ended
                                     ELSE [cl[c] EXCEPT !.pc = "parked"]])
     /\ UNCHANGED hold

-----------------------------------------------------------------------------
(* wait_turn *)

(* The wake arrived: once more from the top, ahead of the caller's queue. *)
TurnComes(c) ==
  /\ cl[c].pc = "parked" /\ cl[c].woken
  /\ cl' = [cl EXCEPT ![c].pc = "hold", ![c].prefer = TRUE, ![c].woken = FALSE]
  /\ UNCHANGED <<balance, earned, used, newDay, hold, queue, armed, timers>>

(* The entry whose receiver caller c awaits, if it is queued, with that     *)
(* receiver dropped.                                                        *)
Drop(c, rx) ==
  [r \in Ranks |-> [i \in DOMAIN queue[r] |->
     IF queue[r][i] = [caller |-> c, rx |-> "awaited"]
     THEN [queue[r][i] EXCEPT !.rx = rx] ELSE queue[r][i]]]

(* The deadline branch of the select.  A wake sent after the receiver was   *)
(* polled is lost with it.                                                  *)
TimedOut(c) ==
  /\ cl[c].pc = "parked" /\ cl[c].late
  /\ queue' = Drop(c, "timed_out")
  /\ cl' = [cl EXCEPT ![c] = At("leaving", cl[c].attempt)]
  /\ UNCHANGED <<balance, earned, used, newDay, hold, armed, timers>>

(* remove.  A caller whose entry was popped has a wake to pass on. *)
Leave(c) ==
  LET r      == Rank[c]
      places == {i \in DOMAIN queue[r] : queue[r][i] = [caller |-> c, rx |-> "timed_out"]}
  IN /\ cl[c].pc = "leaving"
     /\ IF places = {}
        THEN cl' = [cl EXCEPT ![c].pc = "passing"] /\ UNCHANGED queue
        ELSE /\ \E i \in places : queue' = [queue EXCEPT ![r] = RemoveAt(@, i)]
             /\ cl' = [cl EXCEPT ![c] = Ended]
     /\ UNCHANGED <<balance, earned, used, newDay, hold, armed, timers>>

PassOn(c) ==
  /\ cl[c].pc = "passing"
  /\ queue' = Popped(queue) /\ Arm(Popped(queue))
  /\ cl' = Wake(Woken(queue), [cl EXCEPT ![c] = Ended])
  /\ UNCHANGED <<balance, earned, used, newDay, hold>>

(* Mutant: the refill task runs once. *)
RefillOnce ==
  /\ timers > 0
  /\ balance' = Refilled /\ earned' = 0
  /\ queue' = Popped(queue)
  /\ cl' = Wake(Woken(queue), cl)
  /\ armed' = FALSE /\ timers' = timers - 1
  /\ UNCHANGED <<used, newDay, hold>>

(* refill_fired: the task goes on while anyone is queued. *)
RefillFires ==
  /\ timers > 0
  /\ balance' = Refilled /\ earned' = 0
  /\ queue' = Popped(queue)
  /\ cl' = Wake(Woken(queue), cl)
  /\ armed' = HasWaiters(Popped(queue))
  /\ timers' = IF HasWaiters(Popped(queue)) THEN timers ELSE timers - 1
  /\ UNCHANGED <<used, newDay, hold>>

-----------------------------------------------------------------------------
(* call_counted and batch: dispatch and retry *)

InFlight == {c \in Caller : cl[c].pc = "sending"}

Send(c) ==
  /\ cl[c].pc = "granted"
  /\ Cardinality(InFlight) < MaxInFlight
  /\ cl' = [cl EXCEPT ![c].pc = "sending"]
  /\ UNCHANGED <<balance, earned, used, newDay, hold, queue, armed, timers>>

(* A result, or an error that is not retried. *)
Finish(c) ==
  /\ cl[c].pc = "sending"
  /\ cl' = [cl EXCEPT ![c] = Ended]
  /\ UNCHANGED <<balance, earned, used, newDay, hold, queue, armed, timers>>

(* A failure consider_retry retries while attempts remain.  Retry-After     *)
(* holds the chain back.                                                    *)
FailRetryable(c) ==
  /\ c \in Failing /\ cl[c].pc = "sending"
  /\ hold' \in {hold, TRUE}
  /\ cl' = [cl EXCEPT ![c] = IF cl[c].attempt < Attempts
                             THEN At("backoff", cl[c].attempt) ELSE Ended]
  /\ UNCHANGED <<balance, earned, used, newDay, queue, armed, timers>>

(* A Retry-After beyond RETRY_AFTER_CAP ends the call. *)
HeldLong(c) ==
  /\ c \in Failing /\ cl[c].pc = "sending"
  /\ hold' = TRUE
  /\ cl' = [cl EXCEPT ![c] = Ended]
  /\ UNCHANGED <<balance, earned, used, newDay, queue, armed, timers>>

Retry(c) ==
  /\ cl[c].pc = "backoff"
  /\ cl' = [cl EXCEPT ![c] = At("hold", cl[c].attempt + 1)]
  /\ UNCHANGED <<balance, earned, used, newDay, hold, queue, armed, timers>>

-----------------------------------------------------------------------------
(* Time and dropped calls *)

(* The future of the call is dropped at an await.  A parked caller's entry  *)
(* stays queued, and a wake it was sent is lost.                            *)
Cancel(c) ==
  /\ cl[c].pc \in {"hold", "parked", "granted", "sending", "backoff"}
  /\ cl[c].pc = "hold" => hold
  /\ queue' = IF cl[c].pc = "parked" THEN Drop(c, "gone") ELSE queue
  /\ cl' = [cl EXCEPT ![c] = Ended]
  /\ UNCHANGED <<balance, earned, used, newDay, hold, armed, timers>>

(* Time earns a token.  More than a full bucket is never added. *)
Earn ==
  /\ earned < Burst
  /\ earned' = earned + 1
  /\ UNCHANGED <<balance, used, newDay, hold, queue, armed, timers, cl>>

DeadlinePasses(c) ==
  /\ c \in Limited /\ ~cl[c].late
  /\ cl[c].pc \in {"hold", "try", "parked"}
  /\ cl' = [cl EXCEPT ![c].late = TRUE]
  /\ UNCHANGED <<balance, earned, used, newDay, hold, queue, armed, timers>>

HoldEnds ==
  /\ hold /\ hold' = FALSE
  /\ UNCHANGED <<balance, earned, used, newDay, queue, armed, timers, cl>>

DayEnds ==
  /\ used > 0 /\ ~newDay /\ newDay' = TRUE
  /\ UNCHANGED <<balance, earned, used, hold, queue, armed, timers, cl>>

CallStep(c) ==
  \/ CheckHold(c) \/ Exhausted(c) \/ Take(c) \/ Park(c)
  \/ TurnComes(c) \/ TimedOut(c) \/ Leave(c) \/ PassOn(c)
  \/ Send(c) \/ Finish(c) \/ FailRetryable(c) \/ HeldLong(c) \/ Retry(c)

Next ==
  \/ \E c \in Caller : Start(c) \/ CallStep(c) \/ Cancel(c) \/ DeadlinePasses(c)
  \/ RefillFires \/ Earn \/ HoldEnds \/ DayEnds

Spec == Init /\ [][Next]_vars

(* Some task that is ready is polled, the refill task's sleep ends, time    *)
(* earns tokens and ends holds.                                             *)
FairSpec ==
  /\ Spec
  /\ WF_vars(\E c \in Caller : CallStep(c))
  /\ WF_vars(RefillFires) /\ WF_vars(Earn) /\ WF_vars(HoldEnds)

-----------------------------------------------------------------------------
(* Properties *)

(* The balance stays within the burst and the day's calls within the limit, *)
(* whichever callers race for the last token (Budget).                      *)
TypeOK ==
  /\ balance \in 0..Burst /\ earned \in 0..Burst
  /\ used \in 0..DailyLimit /\ newDay \in BOOLEAN /\ hold \in BOOLEAN
  /\ queue \in [Ranks -> Seq(Entry)]
  /\ armed \in BOOLEAN /\ timers \in Nat
  /\ cl \in [Caller -> Call]

(* No lost wake-up: a parked caller has been woken, or sits in the queue of *)
(* its rank while the refill task runs.                                     *)
NoLostWakeup ==
  \A c \in Caller : cl[c].pc = "parked" /\ ~cl[c].woken =>
    /\ armed
    /\ \E i \in DOMAIN queue[Rank[c]] :
         queue[Rank[c]][i] = [caller |-> c, rx |-> "awaited"]

(* Refill tasks neither pile up nor die out: one runs while it is armed,    *)
(* and it is armed while anyone is queued.                                  *)
OneRefillTask ==
  /\ timers = IF armed THEN 1 ELSE 0
  /\ HasWaiters(queue) => armed

(* The rate limit: however callers race, park and are woken, every contact  *)
(* of the provider spends a token of its own of a bucket that holds at most *)
(* burst and gains one at a time.                                           *)
Bucket == INSTANCE TokenBucket WITH avail <- Refilled, spent <- {c \in Caller :
            cl[c].pc \in {"granted", "sending"}}
RateLimit == Bucket!Spec

(* Every call that is made ends, also one parked without a deadline, though *)
(* others take the token it was woken for, are dropped with their wake or   *)
(* give up at their deadline.  Finitely many calls compete here; an endless *)
(* supply of higher ones starves the others by design.                      *)
EveryCallEnds == <>[](\A c \in Caller : cl[c].pc \in {"new", "ended"})

=============================================================================
