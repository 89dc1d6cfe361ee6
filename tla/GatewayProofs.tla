--------------------------- MODULE GatewayProofs ---------------------------
(* Safety of the gateway's budget for any number of calls, of any purposes, *)
(* any burst and any daily limit.                                           *)
EXTENDS Gateway, TLAPS, WellFoundedInduction, SequenceTheorems

Queues == [Ranks -> Seq(Entry)]

-----------------------------------------------------------------------------
(* Smallest elements *)

(* Min of a non-empty set of naturals is its least element. *)
LEMMA MinOfNats ==
  ASSUME NEW S \in SUBSET Nat, S # {}
  PROVE  Min(S) \in S /\ \A y \in S : Min(S) <= y
<1>1. \E x \in S : \A y \in S : <<y, x>> \notin OpToRel(<, Nat)
  BY NatLessThanWellFounded, WFMin
<1>2. \A x, y \in Nat : <<y, x>> \notin OpToRel(<, Nat) <=> x <= y  BY DEF OpToRel
<1>3. \E x \in S : \A y \in S : x <= y  BY <1>1, <1>2
<1> QED  BY <1>3 DEF Min

(* Min of two numbers is the smaller one. *)
LEMMA MinOfTwo ==
  ASSUME NEW x \in Nat, NEW y \in Nat
  PROVE  Min({x, y}) = IF x <= y THEN x ELSE y
<1>1. Min({x, y}) \in {x, y} /\ \A z \in {x, y} : Min({x, y}) <= z  BY MinOfNats
<1> QED  BY <1>1

(* What a refill leaves is between what there was and the burst. *)
LEMMA RefilledBounds ==
  ASSUME TypeOK
  PROVE  /\ Refilled = IF Burst <= balance + earned THEN Burst ELSE balance + earned
         /\ Refilled \in 0..Burst
<1>1. Burst \in Nat /\ balance \in 0..Burst /\ earned \in 0..Burst
  BY GatewayAssumption DEF TypeOK
<1>2. balance + earned \in Nat  BY <1>1
<1>3. Refilled = IF Burst <= balance + earned THEN Burst ELSE balance + earned
  BY <1>1, <1>2, MinOfTwo DEF Refilled
<1> QED  BY <1>1, <1>3

-----------------------------------------------------------------------------
(* The queues *)

(* wake_highest finds an entry somebody awaits, and nobody awaits one before *)
(* it.                                                                       *)
LEMMA HighestIsFirst ==
  ASSUME NEW q \in Queues, Awaited(q) # {}
  PROVE  LET h == Highest(q)
         IN /\ h[1] \in Ranks /\ h[2] \in DOMAIN q[h[1]]
            /\ q[h[1]][h[2]].rx = "awaited"
            /\ \A r \in Ranks : r < h[1] => \A i \in DOMAIN q[r] : q[r][i].rx # "awaited"
            /\ \A i \in DOMAIN q[h[1]] : i < h[2] => q[h[1]][i].rx # "awaited"
<1> DEFINE r0 == Min(Awaited(q))
           S  == {i \in DOMAIN q[r0] : q[r0][i].rx = "awaited"}
           i0 == Min(S)
<1>1. Awaited(q) \in SUBSET Nat  BY DEF Awaited, Ranks
<1>2. r0 \in Awaited(q) /\ \A r \in Awaited(q) : r0 <= r  BY <1>1, MinOfNats
<1>3. r0 \in Ranks /\ S # {}  BY <1>2 DEF Awaited
<1>4. q[r0] \in Seq(Entry)  BY <1>3 DEF Queues
<1>5. S \in SUBSET Nat  BY <1>4
<1>6. i0 \in S /\ \A i \in S : i0 <= i  BY <1>3, <1>5, MinOfNats
<1>7. Highest(q) = <<r0, i0>>  BY DEF Highest
<1>8. ASSUME NEW r \in Ranks, r < r0, NEW i \in DOMAIN q[r]
      PROVE  q[r][i].rx # "awaited"
  <2>1. r \notin Awaited(q)  BY <1>8, <1>2, <1>3 DEF Ranks
  <2> QED  BY <2>1 DEF Awaited
<1>9. ASSUME NEW i \in DOMAIN q[r0], i < i0
      PROVE  q[r0][i].rx # "awaited"
  <2>1. i \in Nat /\ i0 \in Nat  BY <1>4, <1>5, <1>6
  <2> QED  BY <1>6, <1>9, <2>1
<1> HIDE DEF r0, i0
<1> QED  BY <1>3, <1>6, <1>7, <1>8, <1>9

(* The part of a queue behind place k. *)
LEMMA Suffix ==
  ASSUME NEW s \in Seq(Entry), NEW k \in 1..Len(s)
  PROVE  LET t == SubSeq(s, k + 1, Len(s))
         IN /\ t \in Seq(Entry)
            /\ Len(t) = Len(s) - k
            /\ \A j \in 1..(Len(s) - k) : t[j] = s[k + j]
<1> DEFINE n == Len(s)
<1>1. n \in Nat /\ k \in Nat /\ k <= n  OBVIOUS
<1>2. \A i \in k + 1 .. n : s[i] \in Entry  OBVIOUS
<1>3. Len(SubSeq(s, k + 1, n)) = n - k  BY <1>1, SubSeqProperties
<1>4. \A j \in 1..(n - k) : SubSeq(s, k + 1, n)[j] = s[k + j]  BY <1>1
<1>5. SubSeq(s, k + 1, n) \in Seq(Entry)  BY <1>1, <1>2, SubSeqProperties
<1> QED  BY <1>3, <1>4, <1>5

(* wake_highest leaves queues. *)
LEMMA PoppedType ==
  ASSUME NEW q \in Queues
  PROVE  Popped(q) \in Queues
<1>1. CASE Awaited(q) = {}  BY <1>1 DEF Popped, Queues
<1>2. CASE Awaited(q) # {}
  <2> DEFINE h == Highest(q)
  <2>1. h[1] \in Ranks /\ h[2] \in DOMAIN q[h[1]]  BY <1>2, HighestIsFirst
  <2>2. q[h[1]] \in Seq(Entry)  BY <2>1 DEF Queues
  <2>3. SubSeq(q[h[1]], h[2] + 1, Len(q[h[1]])) \in Seq(Entry)
    <3>1. h[2] \in 1..Len(q[h[1]])  BY <2>1, <2>2
    <3> HIDE DEF h
    <3> QED  BY <2>2, <3>1, Suffix
  <2>4. \A r \in Ranks : q[r] \in Seq(Entry)  BY DEF Queues
  <2> QED  BY <1>2, <2>3, <2>4 DEF Popped, Queues
<1> QED  BY <1>1, <1>2

(* wake_highest adds nothing to the queues. *)
LEMMA PoppedAddsNone ==
  ASSUME NEW q \in Queues, HasWaiters(Popped(q))
  PROVE  HasWaiters(q)
<1>1. Awaited(q) # {}  BY DEF HasWaiters, Popped
<1>2. PICK r \in Ranks : \E i \in DOMAIN q[r] : TRUE  BY <1>1 DEF Awaited
<1>3. q[r] # <<>>  BY <1>2
<1> QED  BY <1>3 DEF HasWaiters

(* Entry e is awaited in the queue of rank r. *)
Queued(q, r, e) == \E i \in DOMAIN q[r] : q[r][i] = e

(* wake_highest drops no awaited entry except the one it wakes. *)
LEMMA PoppedKeeps ==
  ASSUME NEW q \in Queues, NEW r \in Ranks, NEW c \in Caller, c \notin Woken(q),
         Queued(q, r, [caller |-> c, rx |-> "awaited"])
  PROVE  Queued(Popped(q), r, [caller |-> c, rx |-> "awaited"])
<1> DEFINE e == [caller |-> c, rx |-> "awaited"]
           h == Highest(q)
<1>1. PICK i \in DOMAIN q[r] : q[r][i] = e  BY DEF Queued
<1>2. e.rx = "awaited" /\ e.caller = c  OBVIOUS
<1>3. Awaited(q) # {}  BY <1>1, <1>2 DEF Awaited
<1>4. /\ h[1] \in Ranks /\ h[2] \in DOMAIN q[h[1]]
      /\ \A k \in Ranks : k < h[1] => \A j \in DOMAIN q[k] : q[k][j].rx # "awaited"
      /\ \A j \in DOMAIN q[h[1]] : j < h[2] => q[h[1]][j].rx # "awaited"
  BY <1>3, HighestIsFirst
<1>5. q[h[1]][h[2]].caller # c  BY <1>3 DEF Woken
<1>9. Popped(q)[h[1]] = SubSeq(q[h[1]], h[2] + 1, Len(q[h[1]]))
  <2>1. ~(h[1] < h[1])  BY <1>4 DEF Ranks
  <2> QED  BY <1>3, <1>4, <2>1, Zenon DEF Popped
<1> HIDE DEF e, h
<1>6. ~(r < h[1])  BY <1>1, <1>2, <1>4
<1>7. CASE r = h[1]
  <2>1. q[r] \in Seq(Entry)  BY DEF Queues
  <2>2. i \in 1..Len(q[r]) /\ h[2] \in 1..Len(q[r]) /\ Len(q[r]) \in Nat  BY <1>1, <1>4, <1>7, <2>1
  <2>3. i # h[2]  BY <1>1, <1>2, <1>5, <1>7
  <2>4. ~(i < h[2])  BY <1>1, <1>2, <1>4, <1>7
  <2>5. i > h[2]  BY <2>2, <2>3, <2>4
  <2> DEFINE t == SubSeq(q[r], h[2] + 1, Len(q[r]))
  <2>7. /\ t \in Seq(Entry)
        /\ Len(t) = Len(q[r]) - h[2]
        /\ \A j \in 1..(Len(q[r]) - h[2]) : t[j] = q[r][h[2] + j]
    BY <2>1, <2>2, Suffix
  <2>8. i - h[2] \in DOMAIN t /\ t[i - h[2]] = e
    <3>1. i - h[2] \in 1..(Len(q[r]) - h[2])  BY <2>2, <2>5
    <3>2. h[2] + (i - h[2]) = i  BY <2>2
    <3> HIDE DEF t
    <3> QED  BY <1>1, <2>7, <3>1, <3>2
  <2>9. Popped(q)[r] = t  BY <1>7, <1>9
  <2> QED  BY <2>8, <2>9 DEF Queued, e
<1>8. CASE r # h[1]
  <2>1. Popped(q)[r] = q[r]  BY <1>3, <1>6, <1>8 DEF Popped, h
  <2> QED  BY <1>1, <2>1 DEF Queued, e
<1> QED  BY <1>7, <1>8

(* Dropping a receiver keeps the queues' shape and everybody else's entry. *)
LEMMA DropKeeps ==
  ASSUME queue \in Queues, NEW c \in Caller, NEW rx \in {"timed_out", "gone"}
  PROVE  /\ Drop(c, rx) \in Queues
         /\ HasWaiters(Drop(c, rx)) => HasWaiters(queue)
         /\ \A d \in Caller \ {c} : \A r \in Ranks :
              Queued(queue, r, [caller |-> d, rx |-> "awaited"])
                => Queued(Drop(c, rx), r, [caller |-> d, rx |-> "awaited"])
<1> DEFINE q == Drop(c, rx)
<1>1. ASSUME NEW r \in Ranks
      PROVE  /\ queue[r] \in Seq(Entry) /\ q[r] \in Seq(Entry)
             /\ DOMAIN q[r] = DOMAIN queue[r]
  <2>1. queue[r] \in Seq(Entry)  BY DEF Queues
  <2>2. q[r] = [i \in 1..Len(queue[r]) |->
                  IF queue[r][i] = [caller |-> c, rx |-> "awaited"]
                  THEN [queue[r][i] EXCEPT !.rx = rx] ELSE queue[r][i]]
    BY <2>1 DEF Drop
  <2>3. \A i \in 1..Len(queue[r]) : q[r][i] \in Entry
    <3> SUFFICES ASSUME NEW i \in 1..Len(queue[r]) PROVE q[r][i] \in Entry  OBVIOUS
    <3>1. queue[r][i] \in Entry  BY <2>1
    <3>2. [queue[r][i] EXCEPT !.rx = rx] \in Entry  BY <3>1 DEF Entry
    <3> QED  BY <2>2, <3>1, <3>2
  <2>4. Len(queue[r]) \in Nat  BY <2>1
  <2> HIDE DEF q
  <2>5. q[r] \in [1..Len(queue[r]) -> Entry]  BY <2>2, <2>3
  <2>6. q[r] \in Seq(Entry)  BY <2>4, <2>5, SeqDef
  <2> QED  BY <2>1, <2>5, <2>6
<1>2. q \in Queues
  <2>1. q = [r \in Ranks |-> q[r]]  BY DEF Drop
  <2> HIDE DEF q
  <2> QED  BY <1>1, <2>1 DEF Queues
<1>3. HasWaiters(q) => HasWaiters(queue)
  <2> HIDE DEF q
  <2> QED  BY <1>1, EmptySeq DEF HasWaiters
<1>4. ASSUME NEW d \in Caller \ {c}, NEW r \in Ranks,
             Queued(queue, r, [caller |-> d, rx |-> "awaited"])
      PROVE  Queued(q, r, [caller |-> d, rx |-> "awaited"])
  <2>1. PICK i \in DOMAIN queue[r] : queue[r][i] = [caller |-> d, rx |-> "awaited"]
    BY <1>4 DEF Queued
  <2>2. [caller |-> d, rx |-> "awaited"] # [caller |-> c, rx |-> "awaited"]  OBVIOUS
  <2>3. q[r][i] = queue[r][i]  BY <2>1, <2>2 DEF Drop
  <2> HIDE DEF q
  <2> QED  BY <1>1, <2>1, <2>3 DEF Queued
<1> QED  BY <1>2, <1>3, <1>4

(* Joining a queue keeps everybody else's entry and adds one. *)
LEMMA EnqueueKeeps ==
  ASSUME NEW q \in Queues, NEW c \in Caller
  PROVE  /\ Enqueue(q, c) \in Queues
         /\ Queued(Enqueue(q, c), Rank[c], [caller |-> c, rx |-> "awaited"])
         /\ \A e \in Entry : \A r \in Ranks : Queued(q, r, e) => Queued(Enqueue(q, c), r, e)
<1> DEFINE e == [caller |-> c, rx |-> "awaited"]
           k == Rank[c]
<1>1. k \in Ranks /\ e \in Entry  BY GatewayAssumption DEF Ranks, Entry
<1>2. q[k] \in Seq(Entry)  BY <1>1 DEF Queues
<1>3. /\ Append(q[k], e) \in Seq(Entry)
      /\ Len(Append(q[k], e)) = Len(q[k]) + 1
      /\ \A i \in 1..Len(q[k]) : Append(q[k], e)[i] = q[k][i]
      /\ Append(q[k], e)[Len(q[k]) + 1] = e
  BY <1>1, <1>2, AppendProperties
<1>4. Enqueue(q, c) = [q EXCEPT ![k] = Append(q[k], e)]  BY DEF Enqueue
<1> HIDE DEF e, k
<1>5. Enqueue(q, c) \in Queues  BY <1>1, <1>3, <1>4 DEF Queues
<1>6. Enqueue(q, c)[k] = Append(q[k], e)
      /\ \A r \in Ranks \ {k} : Enqueue(q, c)[r] = q[r]
  BY <1>1, <1>4 DEF Queues
<1>7. Len(q[k]) + 1 \in DOMAIN Append(q[k], e)  BY <1>2, <1>3
<1>8. Queued(Enqueue(q, c), k, e)  BY <1>3, <1>6, <1>7 DEF Queued
<1>9. ASSUME NEW f \in Entry, NEW r \in Ranks, Queued(q, r, f)
      PROVE  Queued(Enqueue(q, c), r, f)
  <2>1. PICK i \in DOMAIN q[r] : q[r][i] = f  BY <1>9 DEF Queued
  <2>2. CASE r = k
    <3>1. i \in 1..Len(q[k]) /\ Len(q[k]) \in Nat  BY <1>2, <2>1, <2>2
    <3>2. i \in DOMAIN Append(q[k], e)  BY <1>3, <3>1
    <3> QED  BY <1>3, <1>6, <2>1, <2>2, <3>1, <3>2 DEF Queued
  <2>3. CASE r # k  BY <1>6, <2>1, <2>3 DEF Queued
  <2> QED  BY <2>2, <2>3
<1> QED  BY <1>5, <1>8, <1>9 DEF e, k

(* Leaving a queue keeps everybody else's entry. *)
LEMMA RemoveKeeps ==
  ASSUME NEW q \in Queues, NEW k \in Ranks, NEW i \in DOMAIN q[k]
  PROVE  LET u == [q EXCEPT ![k] = RemoveAt(q[k], i)]
         IN /\ u \in Queues
            /\ HasWaiters(q)
            /\ \A e \in Entry : \A r \in Ranks :
                 e # q[k][i] /\ Queued(q, r, e) => Queued(u, r, e)
<1> DEFINE s == q[k]
           a == SubSeq(s, 1, i - 1)
           b == SubSeq(s, i + 1, Len(s))
           t == RemoveAt(s, i)
           u == [q EXCEPT ![k] = t]
<1>1. s \in Seq(Entry) /\ i \in 1..Len(s) /\ Len(s) \in Nat  BY DEF Queues
<1>2. a \in Seq(Entry) /\ Len(a) = i - 1 /\ \A j \in 1..(i - 1) : a[j] = s[j]
  <2> HIDE DEF s
  <2>1. \A j \in 1..(i - 1) : s[j] \in Entry  BY <1>1
  <2>2. i - 1 \in Nat  BY <1>1
  <2>3. a \in Seq(Entry)  BY <2>1, <2>2, SubSeqProperties
  <2>4. Len(a) = i - 1  BY <1>1, <2>1, <2>2, SubSeqProperties
  <2>5. \A j \in 1..(i - 1) : a[j] = s[j]  BY <1>1
  <2> QED  BY <2>3, <2>4, <2>5
<1>3. b \in Seq(Entry) /\ Len(b) = Len(s) - i /\ \A j \in 1..(Len(s) - i) : b[j] = s[i + j]
  <2> HIDE DEF s
  <2> QED  BY <1>1, Suffix
<1>4. t = a \o b  BY DEF RemoveAt
<1> HIDE DEF s, a, b, t
<1>5. /\ t \in Seq(Entry) /\ Len(t) = Len(a) + Len(b)
      /\ \A j \in 1..Len(a) : t[j] = a[j]
      /\ \A j \in 1..Len(b) : t[Len(a) + j] = b[j]
  <2>1. /\ a \o b \in Seq(Entry)
        /\ Len(a \o b) = Len(a) + Len(b)
        /\ \A j \in 1..(Len(a) + Len(b)) :
             (a \o b)[j] = IF j <= Len(a) THEN a[j] ELSE b[j - Len(a)]
    BY <1>2, <1>3, ConcatProperties
  <2>2. Len(a) \in Nat /\ Len(b) \in Nat  BY <1>2, <1>3
  <2>3. \A j \in 1..Len(a) : t[j] = a[j]  BY <1>4, <2>1, <2>2
  <2>4. ASSUME NEW j \in 1..Len(b) PROVE t[Len(a) + j] = b[j]
    <3>1. Len(a) + j \in 1..(Len(a) + Len(b)) /\ ~(Len(a) + j <= Len(a))
          /\ (Len(a) + j) - Len(a) = j
      BY <2>2
    <3> QED  BY <1>4, <2>1, <3>1
  <2> QED  BY <1>4, <2>1, <2>3, <2>4
<1>6. \A j \in 1..Len(s) : j # i => \E n \in DOMAIN t : t[n] = s[j]
  <2> SUFFICES ASSUME NEW j \in 1..Len(s), j # i
               PROVE  \E n \in DOMAIN t : t[n] = s[j]
    OBVIOUS
  <2>1. CASE j < i
    <3>1. j \in 1..(i - 1) /\ j \in 1..Len(t)  BY <1>1, <1>2, <1>3, <1>5, <2>1
    <3> QED  BY <1>2, <1>5, <3>1
  <2>2. CASE j > i
    <3>1. j - i \in 1..(Len(s) - i)  BY <1>1, <2>2
    <3>2. Len(a) + (j - i) \in DOMAIN t
      <4>1. Len(t) = Len(s) - 1 /\ Len(a) + (j - i) = j - 1  BY <1>1, <1>2, <1>3, <1>5
      <4>2. j - 1 \in 1..(Len(s) - 1)  BY <1>1, <2>2
      <4> QED  BY <1>5, <4>1, <4>2
    <3>3. t[Len(a) + (j - i)] = b[j - i]  BY <1>3, <1>5, <3>1
    <3>4. b[j - i] = s[j]
      <4>1. i + (j - i) = j  BY <1>1
      <4> QED  BY <1>3, <3>1, <4>1
    <3> QED  BY <1>5, <3>2, <3>3, <3>4
  <2> QED  BY <1>1, <2>1, <2>2
<1>7. u \in Queues  BY <1>5 DEF Queues
<1>8. u[k] = t /\ \A r \in Ranks \ {k} : u[r] = q[r]  BY DEF Queues
<1>9. ASSUME NEW e \in Entry, NEW r \in Ranks, e # q[k][i], Queued(q, r, e)
      PROVE  Queued(u, r, e)
  <2>1. PICK j \in DOMAIN q[r] : q[r][j] = e  BY <1>9 DEF Queued
  <2> HIDE DEF u
  <2>2. CASE r = k
    <3>1. j \in 1..Len(s) /\ j # i  BY <1>1, <1>9, <2>1, <2>2 DEF s
    <3>2. PICK n \in DOMAIN t : t[n] = s[j]  BY <1>6, <3>1
    <3> QED  BY <1>8, <2>1, <2>2, <3>2 DEF Queued, s
  <2>3. CASE r # k  BY <1>8, <2>1, <2>3 DEF Queued
  <2> QED  BY <2>2, <2>3
<1>10. HasWaiters(q)
  <2>1. q[k] # <<>>  BY <1>1 DEF s
  <2> QED  BY <2>1 DEF HasWaiters
<1> QED  BY <1>7, <1>9, <1>10 DEF t, s, u

-----------------------------------------------------------------------------
(* Types *)

(* At yields the state of a call. *)
LEMMA AtType ==
  ASSUME NEW pc \in Pc, NEW n \in 1..Attempts
  PROVE  At(pc, n) \in Call /\ At(pc, n).pc = pc /\ At(pc, n).attempt = n
BY DEF At, Call

(* A call that is over, and one that was never made, are states of a call. *)
LEMMA EndedType == Ended \in Call /\ Ended.pc = "ended"
<1>1. 1 \in 1..Attempts  BY GatewayAssumption
<1>2. "ended" \in Pc  BY DEF Pc
<1> QED  BY <1>1, <1>2, AtType DEF Ended

(* Waking sets nothing but the wake. *)
LEMMA WakeAt ==
  ASSUME NEW S, NEW calls \in [Caller -> Call], NEW c \in Caller
  PROVE  /\ Wake(S, calls)[c] \in Call
         /\ Wake(S, calls)[c].pc = calls[c].pc
         /\ Wake(S, calls)[c].attempt = calls[c].attempt
         /\ ~Wake(S, calls)[c].woken => ~calls[c].woken /\ c \notin S
<1>1. calls[c] \in Call  OBVIOUS
<1>2. CASE c \in S
  <2>1. Wake(S, calls)[c] = [calls[c] EXCEPT !.woken = TRUE]  BY <1>2 DEF Wake
  <2> QED  BY <1>1, <2>1 DEF Call
<1>3. CASE c \notin S
  <2>1. Wake(S, calls)[c] = calls[c]  BY <1>3 DEF Wake
  <2> QED  BY <1>1, <1>3, <2>1
<1> QED  BY <1>2, <1>3

(* Waking yields states of calls. *)
LEMMA WakeIs ==
  ASSUME NEW S, NEW calls \in [Caller -> Call]
  PROVE  Wake(S, calls) \in [Caller -> Call]
<1>1. \A c \in Caller : Wake(S, calls)[c] \in Call  BY WakeAt
<1> QED  BY <1>1 DEF Wake

(* Taking, parking and leaving start from states of a call. *)
LEMMA CallTypes ==
  ASSUME TypeOK, NEW c \in Caller
  PROVE  /\ cl[c] \in Call
         /\ cl[c].attempt \in 1..Attempts
         /\ \A pc \in Pc : /\ [cl EXCEPT ![c] = At(pc, cl[c].attempt)] \in [Caller -> Call]
                          /\ [cl EXCEPT ![c] = [cl[c] EXCEPT !.pc = pc]] \in [Caller -> Call]
         /\ [cl EXCEPT ![c] = Ended] \in [Caller -> Call]
<1>1. cl \in [Caller -> Call] /\ cl[c] \in Call  BY DEF TypeOK
<1>2. cl[c].attempt \in 1..Attempts  BY <1>1 DEF Call
<1>3. \A pc \in Pc : At(pc, cl[c].attempt) \in Call  BY <1>2, AtType
<1>4. \A pc \in Pc : [cl[c] EXCEPT !.pc = pc] \in Call  BY <1>1 DEF Call
<1> QED  BY <1>1, <1>2, <1>3, <1>4, EndedType

(* A call that backs off has an attempt left: without it the number of      *)
(* attempts is not bounded step by step.                                    *)
AttemptsLeft == \A c \in Caller : cl[c].pc = "backoff" => cl[c].attempt < Attempts

(* Every step keeps the type invariant. *)
LEMMA TypeStep ==
  ASSUME TypeOK, AttemptsLeft, [Next]_vars
  PROVE  TypeOK'
<1> USE DEF Queues
<1>0. /\ Burst \in Nat \ {0} /\ DailyLimit \in Nat \ {0} /\ Attempts \in Nat \ {0}
      /\ balance \in 0..Burst /\ earned \in 0..Burst /\ used \in 0..DailyLimit
      /\ newDay \in BOOLEAN /\ hold \in BOOLEAN /\ armed \in BOOLEAN /\ timers \in Nat
      /\ queue \in Queues /\ cl \in [Caller -> Call]
  BY GatewayAssumption DEF TypeOK
<1>a. Refilled \in 0..Burst  BY RefilledBounds
<1>b. UsedToday \in 0..DailyLimit  BY <1>0 DEF UsedToday
<1>p. Popped(queue) \in Queues  BY <1>0, PoppedType
<1>q. \A q \in Queues : Arm(q) => armed' \in BOOLEAN /\ timers' \in Nat
  BY <1>0 DEF Arm, HasWaiters
<1> HIDE DEF Queues
<1>r. \A pc \in {"new", "hold", "try", "parked", "leaving", "passing", "granted", "sending",
                   "backoff", "ended"} : pc \in Pc
  BY DEF Pc
<1>1. ASSUME NEW c \in Caller, Start(c) PROVE TypeOK'
  <2>1. At("hold", 1) \in Call  BY <1>0, <1>r, AtType
  <2> QED  BY <1>0, <1>1, <2>1 DEF Start, TypeOK
<1>2. ASSUME NEW c \in Caller, CheckHold(c) PROVE TypeOK'
  <2>1. cl' = [cl EXCEPT ![c] = [cl[c] EXCEPT !.pc = "try"]]  BY <1>2 DEF CheckHold
  <2>2. cl' \in [Caller -> Call]  BY <2>1, <1>r, CallTypes
  <2> QED  BY <1>0, <1>2, <2>2 DEF CheckHold, TypeOK
<1>3. ASSUME NEW c \in Caller, Exhausted(c) PROVE TypeOK'
  <2>1. cl' \in [Caller -> Call]  BY <1>3, CallTypes DEF Exhausted
  <2>2. earned' \in 0..Burst /\ balance' \in 0..Burst /\ used' \in 0..DailyLimit
    BY <1>0, <1>a, <1>b, <1>3 DEF Exhausted, Rolled
  <2>3. newDay' \in BOOLEAN  BY <1>3, Zenon DEF Exhausted, Rolled
  <2> QED  BY <1>0, <1>3, <2>1, <2>2, <2>3 DEF Exhausted, TypeOK, Queues
<1>4. ASSUME NEW c \in Caller, Take(c) PROVE TypeOK'
  <2> DEFINE calls == [cl EXCEPT ![c] = At("granted", cl[c].attempt)]
             S     == IF Refilled > 1 THEN Woken(queue) ELSE {}
  <2>1. calls \in [Caller -> Call]  BY <1>r, CallTypes
  <2>2. cl' \in [Caller -> Call]
    <3>1. cl' = Wake(S, calls)  BY <1>4 DEF Take
    <3> HIDE DEF calls, S
    <3> QED  BY <2>1, <3>1, WakeIs
  <2>3. balance' \in 0..Burst  BY <1>0, <1>a, <1>4 DEF Take, MayTake
  <2>4. used' \in 0..DailyLimit  BY <1>0, <1>b, <1>4 DEF Take
  <2>5. queue' \in Queues /\ armed' \in BOOLEAN /\ timers' \in Nat
    BY <1>0, <1>p, <1>q, <1>4 DEF Take
  <2>6. earned' \in 0..Burst  BY <1>0, <1>4 DEF Take, Rolled
  <2>7. newDay' \in BOOLEAN /\ hold' \in BOOLEAN  BY <1>0, <1>4, Zenon DEF Take, Rolled
  <2> QED  BY <2>2, <2>3, <2>4, <2>5, <2>6, <2>7 DEF TypeOK, Queues
<1>5. ASSUME NEW c \in Caller, Park(c) PROVE TypeOK'
  <2> DEFINE calls == [cl EXCEPT ![c] = IF cl[c].late THEN Ended
                                        ELSE [cl[c] EXCEPT !.pc = "parked"]]
             S     == IF HasHigher(c) /\ Refilled > 0 THEN Woken(queue) ELSE {}
             told  == IF HasHigher(c) /\ Refilled > 0 THEN Popped(queue) ELSE queue
  <2>1. calls \in [Caller -> Call]  BY <1>r, CallTypes
  <2>2. told \in Queues  BY <1>0, <1>p
  <2>3. Enqueue(told, c) \in Queues  BY <2>2, EnqueueKeeps
  <2>4. cl' \in [Caller -> Call]
    <3>1. cl' = Wake(S, calls)  BY <1>5 DEF Park
    <3> HIDE DEF calls, S
    <3> QED  BY <2>1, <3>1, WakeIs
  <2>5. queue' \in Queues /\ armed' \in BOOLEAN /\ timers' \in Nat
    <3>1. CASE cl[c].late  BY <1>0, <1>5, <2>2, <3>1 DEF Park
    <3>2. CASE ~cl[c].late  BY <1>q, <1>5, <2>3, <3>2 DEF Park
    <3> QED  BY <3>1, <3>2
  <2>6. earned' \in 0..Burst /\ balance' \in 0..Burst /\ used' \in 0..DailyLimit
    BY <1>0, <1>a, <1>b, <1>5 DEF Park, Rolled
  <2>7. newDay' \in BOOLEAN /\ hold' \in BOOLEAN  BY <1>0, <1>5, Zenon DEF Park, Rolled
  <2> QED  BY <2>4, <2>5, <2>6, <2>7 DEF TypeOK, Queues
<1>6. ASSUME NEW c \in Caller, TurnComes(c) PROVE TypeOK'
  <2>1. [cl[c] EXCEPT !.pc = "hold", !.prefer = TRUE, !.woken = FALSE] \in Call
    BY <1>0, <1>r DEF Call
  <2>2. cl' = [cl EXCEPT ![c] = [cl[c] EXCEPT !.pc = "hold", !.prefer = TRUE, !.woken = FALSE]]
    BY <1>0, <1>6 DEF TurnComes
  <2>3. cl' \in [Caller -> Call]  BY <1>0, <2>1, <2>2
  <2> QED  BY <1>0, <1>6, <2>3 DEF TurnComes, TypeOK
<1>7. ASSUME NEW c \in Caller, TimedOut(c) PROVE TypeOK'
  <2>1. cl' \in [Caller -> Call]  BY <1>7, <1>r, CallTypes DEF TimedOut
  <2>2. queue' \in Queues  BY <1>0, <1>7, DropKeeps DEF TimedOut
  <2> QED  BY <1>0, <1>7, <2>1, <2>2 DEF TimedOut, TypeOK, Queues
<1>8. ASSUME NEW c \in Caller, Leave(c) PROVE TypeOK'
  <2> DEFINE r == Rank[c]
             places == {i \in DOMAIN queue[r] :
                          queue[r][i] = [caller |-> c, rx |-> "timed_out"]}
  <2>1. CASE places = {}
    <3>1. cl' = [cl EXCEPT ![c] = [cl[c] EXCEPT !.pc = "passing"]] /\ queue' = queue
      BY <1>8, <2>1 DEF Leave
    <3>2. cl' \in [Caller -> Call]  BY <3>1, <1>r, CallTypes
    <3> QED  BY <1>0, <1>8, <3>1, <3>2 DEF Leave, TypeOK
  <2>2. CASE places # {}
    <3>1. PICK i \in places : queue' = [queue EXCEPT ![r] = RemoveAt(queue[r], i)]
      BY <1>8, <2>2 DEF Leave
    <3>2. r \in Ranks  BY GatewayAssumption DEF Ranks
    <3>3. queue' \in Queues  BY <1>0, <3>1, <3>2, RemoveKeeps
    <3>4. cl' \in [Caller -> Call]  BY <1>8, <2>2, CallTypes DEF Leave
    <3> QED  BY <1>0, <1>8, <3>3, <3>4 DEF Leave, TypeOK, Queues
  <2> QED  BY <2>1, <2>2
<1>9. ASSUME NEW c \in Caller, PassOn(c) PROVE TypeOK'
  <2> DEFINE calls == [cl EXCEPT ![c] = Ended]
  <2>1. calls \in [Caller -> Call]  BY CallTypes
  <2> HIDE DEF calls
  <2>2. cl' \in [Caller -> Call]  BY <1>9, <2>1, WakeIs DEF PassOn, calls
  <2>3. queue' \in Queues /\ armed' \in BOOLEAN /\ timers' \in Nat
    BY <1>p, <1>q, <1>9 DEF PassOn
  <2> QED  BY <1>0, <1>9, <2>2, <2>3 DEF PassOn, TypeOK, Queues
<1>10. CASE RefillFires
  <2>1. cl' \in [Caller -> Call]  BY <1>0, <1>10, WakeIs DEF RefillFires
  <2>2. armed' \in BOOLEAN /\ timers' \in Nat  BY <1>0, <1>10 DEF RefillFires, HasWaiters
  <2> QED  BY <1>0, <1>a, <1>p, <1>10, <2>1, <2>2 DEF RefillFires, TypeOK, Queues
<1>11. ASSUME NEW c \in Caller, Send(c) PROVE TypeOK'
  <2>1. cl' = [cl EXCEPT ![c] = [cl[c] EXCEPT !.pc = "sending"]]  BY <1>11 DEF Send
  <2>2. cl' \in [Caller -> Call]  BY <2>1, <1>r, CallTypes
  <2> QED  BY <1>0, <1>11, <2>2 DEF Send, TypeOK
<1>12. ASSUME NEW c \in Caller, Finish(c) \/ HeldLong(c) PROVE TypeOK'
  <2>1. cl' \in [Caller -> Call]  BY <1>12, CallTypes DEF Finish, HeldLong
  <2> QED  BY <1>0, <1>12, <2>1 DEF Finish, HeldLong, TypeOK
<1>13. ASSUME NEW c \in Caller, FailRetryable(c) PROVE TypeOK'
  <2>1. cl' \in [Caller -> Call]  BY <1>13, <1>r, CallTypes DEF FailRetryable
  <2> QED  BY <1>0, <1>13, <2>1 DEF FailRetryable, TypeOK
<1>14. ASSUME NEW c \in Caller, Retry(c) PROVE TypeOK'
  <2>1. cl[c].attempt + 1 \in 1..Attempts
    <3>1. cl[c].attempt < Attempts  BY <1>14 DEF Retry, AttemptsLeft
    <3> QED  BY <1>0, <3>1, CallTypes
  <2>2. At("hold", cl[c].attempt + 1) \in Call  BY <1>r, <2>1, AtType
  <2> QED  BY <1>0, <1>14, <2>2 DEF Retry, TypeOK
<1>15. ASSUME NEW c \in Caller, Cancel(c) PROVE TypeOK'
  <2>1. cl' \in [Caller -> Call]  BY <1>15, CallTypes DEF Cancel
  <2>2. queue' \in Queues  BY <1>0, <1>15, DropKeeps DEF Cancel
  <2> QED  BY <1>0, <1>15, <2>1, <2>2 DEF Cancel, TypeOK, Queues
<1>16. ASSUME NEW c \in Caller, DeadlinePasses(c) PROVE TypeOK'
  <2>1. [cl[c] EXCEPT !.late = TRUE] \in Call  BY <1>0 DEF Call
  <2>2. cl' \in [Caller -> Call]  BY <1>0, <1>16, <2>1 DEF DeadlinePasses
  <2> QED  BY <1>0, <1>16, <2>2 DEF DeadlinePasses, TypeOK
<1>17. CASE Earn  BY <1>0, <1>17 DEF Earn, TypeOK
<1>18. CASE HoldEnds  BY <1>0, <1>18, Zenon DEF HoldEnds, TypeOK
<1>19. CASE DayEnds  BY <1>0, <1>19, Zenon DEF DayEnds, TypeOK
<1>20. CASE UNCHANGED vars  BY <1>20 DEF vars, TypeOK
<1> QED
  BY <1>1, <1>2, <1>3, <1>4, <1>5, <1>6, <1>7, <1>8, <1>9, <1>10, <1>11, <1>12, <1>13, <1>14,
     <1>15, <1>16, <1>17, <1>18, <1>19, <1>20 DEF Next, CallStep

-----------------------------------------------------------------------------
(* What the steps of one call have in common *)

(* A refill that is applied leaves what it promised. *)
LEMMA Settles ==
  ASSUME NEW n \in 0..Burst, balance' = n, earned' = 0
  PROVE  Refilled' = n
<1>1. Burst \in Nat /\ n \in Nat  BY GatewayAssumption
<1>2. balance' + earned' = n  BY <1>1
<1>3. Min({Burst, n}) = IF Burst <= n THEN Burst ELSE n  BY <1>1, MinOfTwo
<1> QED  BY <1>1, <1>2, <1>3 DEF Refilled

Spending == {"granted", "sending"}

(* The steps that touch neither queue nor refill task. *)
Quiet(c) ==
  \/ Start(c) \/ CheckHold(c) \/ Exhausted(c) \/ TurnComes(c) \/ Send(c) \/ Finish(c)
  \/ FailRetryable(c) \/ HeldLong(c) \/ Retry(c) \/ DeadlinePasses(c)

(* Such a step parks nobody, gives nobody a token and takes none. *)
LEMMA QuietSteps ==
  ASSUME TypeOK, AttemptsLeft, NEW c \in Caller, Quiet(c)
  PROVE  \E x \in Call :
           /\ cl' = [cl EXCEPT ![c] = x]
           /\ UNCHANGED <<queue, armed, timers>> /\ Refilled' = Refilled
           /\ x.pc = "parked" => cl[c].pc = "parked" /\ (~x.woken => ~cl[c].woken)
           /\ x.pc = "backoff" => x.attempt < Attempts
           /\ x.pc \in Spending => cl[c].pc \in Spending
<1>0. cl \in [Caller -> Call] /\ cl[c] \in Call /\ cl[c].attempt \in 1..Attempts
      /\ Attempts \in Nat \ {0}
  BY CallTypes, GatewayAssumption DEF TypeOK
<1>e. Ended \in Call /\ Ended.pc = "ended"  BY EndedType
<1>u. balance' = balance /\ earned' = earned => Refilled' = Refilled  BY DEF Refilled
<1>1. CASE Start(c)
  <2>1. "hold" \in Pc /\ 1 \in 1..Attempts  BY <1>0 DEF Pc
  <2>2. At("hold", 1) \in Call /\ At("hold", 1).pc = "hold"  BY <2>1, AtType
  <2> QED  BY <1>1, <1>u, <2>2 DEF Start, Spending
<1>2. CASE CheckHold(c)
  <2> DEFINE x == [cl[c] EXCEPT !.pc = "try"]
  <2>1. x \in Call /\ x.pc = "try"  BY <1>0 DEF Call, Pc
  <2>2. cl' = [cl EXCEPT ![c] = x]  BY <1>2 DEF CheckHold
  <2> HIDE DEF x
  <2> QED  BY <1>2, <1>u, <2>1, <2>2 DEF CheckHold, Spending
<1>3. CASE Exhausted(c)
  <2>1. Refilled' = Refilled
    <3>1. Refilled \in 0..Burst  BY RefilledBounds
    <3>2. balance' = Refilled /\ earned' = 0  BY <1>3 DEF Exhausted, Rolled
    <3> QED  BY <3>1, <3>2, Settles
  <2> QED  BY <1>3, <1>e, <2>1 DEF Exhausted, Spending
<1>4. CASE TurnComes(c)
  <2> DEFINE x == [cl[c] EXCEPT !.pc = "hold", !.prefer = TRUE, !.woken = FALSE]
  <2>1. x \in Call /\ x.pc = "hold"  BY <1>0 DEF Call, Pc
  <2>2. cl' = [cl EXCEPT ![c] = x]  BY <1>0, <1>4 DEF TurnComes
  <2> HIDE DEF x
  <2> QED  BY <1>4, <1>u, <2>1, <2>2 DEF TurnComes, Spending
<1>5. CASE Send(c)
  <2> DEFINE x == [cl[c] EXCEPT !.pc = "sending"]
  <2>1. x \in Call /\ x.pc = "sending"  BY <1>0 DEF Call, Pc
  <2>2. cl' = [cl EXCEPT ![c] = x]  BY <1>5 DEF Send
  <2> HIDE DEF x
  <2> QED  BY <1>5, <1>u, <2>1, <2>2 DEF Send, Spending
<1>6. CASE Finish(c) \/ HeldLong(c)
  BY <1>6, <1>e, <1>u DEF Finish, HeldLong, Spending
<1>7. CASE FailRetryable(c)
  <2>1. CASE cl[c].attempt < Attempts
    <3>1. "backoff" \in Pc  BY DEF Pc
    <3>2. At("backoff", cl[c].attempt) \in Call /\ At("backoff", cl[c].attempt).pc = "backoff"
          /\ At("backoff", cl[c].attempt).attempt = cl[c].attempt
      BY <1>0, <3>1, AtType
    <3> QED  BY <1>7, <1>u, <2>1, <3>2 DEF FailRetryable, Spending
  <2>2. CASE ~(cl[c].attempt < Attempts)
    BY <1>7, <1>e, <1>u, <2>2 DEF FailRetryable, Spending
  <2> QED  BY <2>1, <2>2
<1>8. CASE Retry(c)
  <2>1. cl[c].attempt + 1 \in 1..Attempts  BY <1>0, <1>8 DEF Retry, AttemptsLeft
  <2>2. "hold" \in Pc  BY DEF Pc
  <2>3. At("hold", cl[c].attempt + 1) \in Call /\ At("hold", cl[c].attempt + 1).pc = "hold"
    BY <2>1, <2>2, AtType
  <2> QED  BY <1>8, <1>u, <2>3 DEF Retry, Spending
<1>9. CASE DeadlinePasses(c)
  <2> DEFINE x == [cl[c] EXCEPT !.late = TRUE]
  <2>1. x \in Call /\ x.pc = cl[c].pc /\ x.woken = cl[c].woken /\ x.attempt = cl[c].attempt
    BY <1>0 DEF Call
  <2>2. cl' = [cl EXCEPT ![c] = x]  BY <1>9 DEF DeadlinePasses
  <2>3. cl[c].pc = "backoff" => cl[c].attempt < Attempts  BY DEF AttemptsLeft
  <2> HIDE DEF x
  <2> QED  BY <1>9, <1>u, <2>1, <2>2, <2>3 DEF DeadlinePasses
<1> QED  BY <1>1, <1>2, <1>3, <1>4, <1>5, <1>6, <1>7, <1>8, <1>9 DEF Quiet

Awaits(c) == [caller |-> c, rx |-> "awaited"]

(* The steps that change the queue. *)
Loud(c) == Take(c) \/ Park(c) \/ TimedOut(c) \/ Leave(c) \/ PassOn(c) \/ Cancel(c)

(* Waking nobody changes nothing. *)
LEMMA WakeNone ==
  ASSUME NEW calls \in [Caller -> Call]
  PROVE  Wake({}, calls) = calls
BY DEF Wake

(* Such a step ends the call of its caller, queues it or gives it a token,  *)
(* and takes nobody else from the queue without a wake.                     *)
LEMMA LoudSteps ==
  ASSUME TypeOK, NEW c \in Caller, Loud(c)
  PROVE  \E x \in Call, S \in SUBSET Caller :
           /\ cl' = Wake(S, [cl EXCEPT ![c] = x])
           /\ x.pc # "backoff"
           /\ x.pc = "parked" => Queued(queue', Rank[c], Awaits(c))
           /\ IF Take(c) THEN x.pc = "granted" ELSE x.pc \notin Spending
           /\ \A d \in Caller \ {c} : d \notin S /\ Queued(queue, Rank[d], Awaits(d))
                                      => Queued(queue', Rank[d], Awaits(d))
<1>0. /\ cl \in [Caller -> Call] /\ cl[c] \in Call /\ cl[c].attempt \in 1..Attempts
      /\ queue \in Queues
  BY CallTypes DEF TypeOK, Queues
<1>e. Ended \in Call /\ Ended.pc = "ended"  BY EndedType
<1> DEFINE Shape(x, S) ==
             /\ cl' = Wake(S, [cl EXCEPT ![c] = x])
             /\ x.pc # "backoff"
             /\ x.pc = "parked" => Queued(queue', Rank[c], Awaits(c))
             /\ IF Take(c) THEN x.pc = "granted" ELSE x.pc \notin Spending
             /\ \A d \in Caller \ {c} : d \notin S /\ Queued(queue, Rank[d], Awaits(d))
                                        => Queued(queue', Rank[d], Awaits(d))
<1> SUFFICES \E x \in Call, S \in SUBSET Caller : Shape(x, S)  OBVIOUS
<1>w. ASSUME NEW x \in Call, cl' = [cl EXCEPT ![c] = x], ~Take(c),
             x.pc \notin {"backoff", "parked", "granted", "sending"},
             \A d \in Caller \ {c} : Queued(queue, Rank[d], Awaits(d))
                                    => Queued(queue', Rank[d], Awaits(d))
      PROVE  \E y \in Call, S \in SUBSET Caller : Shape(y, S)
  <2> DEFINE calls == [cl EXCEPT ![c] = x]
  <2>1. calls \in [Caller -> Call]  BY <1>0
  <2>2. Wake({}, calls) = calls
    <3> HIDE DEF calls
    <3> QED  BY <2>1, WakeNone
  <2>3. Shape(x, {})  BY <1>w, <2>2 DEF Spending
  <2>4. {} \in SUBSET Caller  OBVIOUS
  <2> HIDE DEF Shape
  <2> QED  BY <2>3, <2>4
<1>r. \A d \in Caller : Rank[d] \in Ranks /\ Awaits(d) \in Entry
  BY GatewayAssumption DEF Ranks, Awaits, Entry
<1>p. \A d \in Caller : d \notin Woken(queue) /\ Queued(queue, Rank[d], Awaits(d))
                       => Queued(Popped(queue), Rank[d], Awaits(d))
  BY <1>0, <1>r, PoppedKeeps DEF Awaits
<1>s. Woken(queue) \in SUBSET Caller
  <2>1. CASE Awaited(queue) = {}  BY <2>1 DEF Woken
  <2>2. CASE Awaited(queue) # {}
    <3> DEFINE h == Highest(queue)
    <3>1. h[1] \in Ranks /\ h[2] \in DOMAIN queue[h[1]]  BY <1>0, <2>2, HighestIsFirst
    <3>2. queue[h[1]][h[2]] \in Entry  BY <1>0, <3>1 DEF Queues
    <3> QED  BY <2>2, <3>2 DEF Woken, Entry
  <2> QED  BY <2>1, <2>2
<1>o. Take(c) => cl[c].pc = "try" /\ MayTake(c) /\ UsedToday < DailyLimit  BY DEF Take
<1>1. CASE Take(c)
  <2> DEFINE x == At("granted", cl[c].attempt)
             S == IF Refilled > 1 THEN Woken(queue) ELSE {}
  <2>1. x \in Call /\ x.pc = "granted"
    <3>1. "granted" \in Pc  BY DEF Pc
    <3> QED  BY <1>0, <3>1, AtType
  <2>2. cl' = Wake(S, [cl EXCEPT ![c] = x])  BY <1>1 DEF Take
  <2>3. \A d \in Caller : d \notin S /\ Queued(queue, Rank[d], Awaits(d))
                         => Queued(queue', Rank[d], Awaits(d))
    <3>1. CASE Refilled > 1  BY <1>1, <1>p, <3>1 DEF Take
    <3>2. CASE ~(Refilled > 1)  BY <1>1, <3>2 DEF Take
    <3> QED  BY <3>1, <3>2
  <2>4. S \in SUBSET Caller  BY <1>s
  <2> HIDE DEF x, S
  <2> QED  BY <1>1, <2>1, <2>2, <2>3, <2>4
<1>2. CASE Park(c)
  <2> DEFINE x    == IF cl[c].late THEN Ended ELSE [cl[c] EXCEPT !.pc = "parked"]
             S    == IF HasHigher(c) /\ Refilled > 0 THEN Woken(queue) ELSE {}
             told == IF HasHigher(c) /\ Refilled > 0 THEN Popped(queue) ELSE queue
  <2>1. x \in Call /\ x.pc = (IF cl[c].late THEN "ended" ELSE "parked")
    <3>1. CASE cl[c].late  BY <1>e, <3>1
    <3>2. CASE ~cl[c].late  BY <1>0, <3>2 DEF Call, Pc
    <3> QED  BY <3>1, <3>2
  <2>2. cl' = Wake(S, [cl EXCEPT ![c] = x])  BY <1>2 DEF Park
  <2>3. told \in Queues  BY <1>0, PoppedType
  <2>4. \A d \in Caller : d \notin S /\ Queued(queue, Rank[d], Awaits(d))
                         => Queued(told, Rank[d], Awaits(d))
    <3>1. CASE HasHigher(c) /\ Refilled > 0  BY <1>p, <3>1
    <3>2. CASE ~(HasHigher(c) /\ Refilled > 0)  BY <3>2
    <3> QED  BY <3>1, <3>2
  <2>5. queue' = IF cl[c].late THEN told ELSE Enqueue(told, c)  BY <1>2 DEF Park
  <2>6. S \in SUBSET Caller  BY <1>s
  <2> HIDE DEF told
  <2>7. Queued(Enqueue(told, c), Rank[c], Awaits(c))  BY <2>3, EnqueueKeeps DEF Awaits
  <2>8. \A d \in Caller : Queued(told, Rank[d], Awaits(d))
                         => Queued(Enqueue(told, c), Rank[d], Awaits(d))
    BY <1>r, <2>3, EnqueueKeeps
  <2>9. \A d \in Caller : d \notin S /\ Queued(queue, Rank[d], Awaits(d))
                         => Queued(queue', Rank[d], Awaits(d))
    BY <2>4, <2>5, <2>8
  <2>10. x.pc = "parked" => Queued(queue', Rank[c], Awaits(c))  BY <2>1, <2>5, <2>7
  <2>11. ~Take(c)  BY <1>2, <1>o DEF Park
  <2>12. x.pc # "backoff" /\ x.pc \notin Spending  BY <2>1 DEF Spending
  <2> HIDE DEF x, S
  <2> QED  BY <2>1, <2>2, <2>6, <2>9, <2>10, <2>11, <2>12
<1>3. CASE TimedOut(c)
  <2> DEFINE x == At("leaving", cl[c].attempt)
  <2>1. x \in Call /\ x.pc = "leaving"
    <3>1. "leaving" \in Pc  BY DEF Pc
    <3> QED  BY <1>0, <3>1, AtType
  <2>2. cl' = [cl EXCEPT ![c] = x]  BY <1>3 DEF TimedOut
  <2>3. \A d \in Caller \ {c} : Queued(queue, Rank[d], Awaits(d))
                               => Queued(queue', Rank[d], Awaits(d))
    BY <1>0, <1>3, <1>r, DropKeeps DEF TimedOut, Awaits
  <2>4. ~Take(c)  BY <1>3, <1>o DEF TimedOut
  <2> HIDE DEF x, Shape
  <2> QED  BY <1>w, <2>1, <2>2, <2>3, <2>4
<1>4. CASE Leave(c)
  <2> DEFINE k == Rank[c]
             places == {i \in DOMAIN queue[k] :
                          queue[k][i] = [caller |-> c, rx |-> "timed_out"]}
  <2>0. ~Take(c)  BY <1>4, <1>o DEF Leave
  <2>1. CASE places = {}
    <3> DEFINE x == [cl[c] EXCEPT !.pc = "passing"]
    <3>1. x \in Call /\ x.pc = "passing"  BY <1>0 DEF Call, Pc
    <3>2. cl' = [cl EXCEPT ![c] = x] /\ queue' = queue  BY <1>4, <2>1 DEF Leave
    <3> HIDE DEF x, Shape
    <3> QED  BY <1>w, <2>0, <3>1, <3>2
  <2>2. CASE places # {}
    <3>1. PICK i \in places : queue' = [queue EXCEPT ![k] = RemoveAt(queue[k], i)]
      BY <1>4, <2>2 DEF Leave
    <3>2. cl' = [cl EXCEPT ![c] = Ended]  BY <1>4, <2>2 DEF Leave
    <3>3. i \in DOMAIN queue[k] /\ queue[k][i] = [caller |-> c, rx |-> "timed_out"]  OBVIOUS
    <3>4. \A d \in Caller : Awaits(d) # queue[k][i]
      <4>1. ASSUME NEW d \in Caller PROVE Awaits(d).rx # queue[k][i].rx  BY <3>3 DEF Awaits
      <4> QED  BY <4>1
    <3>5. \A d \in Caller : Queued(queue, Rank[d], Awaits(d))
                           => Queued(queue', Rank[d], Awaits(d))
      BY <1>0, <1>r, <3>1, <3>3, <3>4, RemoveKeeps
    <3> HIDE DEF Shape
    <3> QED  BY <1>e, <1>w, <2>0, <3>2, <3>5
  <2> QED  BY <2>1, <2>2
<1>5. CASE PassOn(c)
  <2>1. ~Take(c)  BY <1>5, <1>o DEF PassOn
  <2>2. cl' = Wake(Woken(queue), [cl EXCEPT ![c] = Ended]) /\ queue' = Popped(queue)
    BY <1>5 DEF PassOn
  <2> QED  BY <1>e, <1>p, <1>s, <2>1, <2>2 DEF Spending
<1>6. CASE Cancel(c)
  <2>1. ~Take(c)  BY <1>6, <1>o DEF Cancel
  <2>2. cl' = [cl EXCEPT ![c] = Ended]  BY <1>6 DEF Cancel
  <2>3. \A d \in Caller \ {c} : Queued(queue, Rank[d], Awaits(d))
                               => Queued(queue', Rank[d], Awaits(d))
    BY <1>0, <1>6, <1>r, DropKeeps DEF Cancel, Awaits
  <2> HIDE DEF Shape
  <2> QED  BY <1>e, <1>w, <2>1, <2>2, <2>3
<1> QED  BY <1>1, <1>2, <1>3, <1>4, <1>5, <1>6 DEF Loud

(* The kinds of steps there are. *)
LEMMA Kinds ==
  ASSUME [Next]_vars
  PROVE  \/ \E c \in Caller : Quiet(c) \/ Loud(c)
         \/ RefillFires \/ Earn
         \/ UNCHANGED <<balance, earned, queue, armed, timers, cl>>
BY DEF Next, CallStep, Quiet, Loud, HoldEnds, DayEnds, vars

-----------------------------------------------------------------------------
(* The inductive invariant *)

(* A caller that waits without a wake is queued; with a refill task that    *)
(* runs while the queue is not empty this is NoLostWakeup.                  *)
WaitersQueued ==
  \A c \in Caller : cl[c].pc = "parked" /\ ~cl[c].woken
                     => Queued(queue, Rank[c], Awaits(c))

(* Every step leaves a call that backs off an attempt. *)
LEMMA AttemptsStep ==
  ASSUME TypeOK, AttemptsLeft, [Next]_vars
  PROVE  AttemptsLeft'
<1>0. cl \in [Caller -> Call]  BY DEF TypeOK
<1>1. ASSUME NEW c \in Caller, Quiet(c) PROVE AttemptsLeft'
  <2>1. PICK x \in Call : /\ cl' = [cl EXCEPT ![c] = x]
                          /\ x.pc = "backoff" => x.attempt < Attempts
    BY <1>1, QuietSteps
  <2> QED  BY <1>0, <2>1 DEF AttemptsLeft
<1>2. ASSUME NEW c \in Caller, Loud(c) PROVE AttemptsLeft'
  <2>1. PICK x \in Call, S \in SUBSET Caller : /\ cl' = Wake(S, [cl EXCEPT ![c] = x])
                                               /\ x.pc # "backoff"
    BY <1>2, LoudSteps
  <2> DEFINE calls == [cl EXCEPT ![c] = x]
  <2>2. /\ calls \in [Caller -> Call]
        /\ \A d \in Caller : calls[d].pc = "backoff" => calls[d].attempt < Attempts
    BY <1>0, <2>1 DEF AttemptsLeft
  <2>3. cl' = Wake(S, calls)  BY <2>1
  <2> HIDE DEF calls
  <2>4. \A d \in Caller : /\ Wake(S, calls)[d].pc = calls[d].pc
                          /\ Wake(S, calls)[d].attempt = calls[d].attempt
    BY <2>2, WakeAt
  <2> QED  BY <2>2, <2>3, <2>4 DEF AttemptsLeft
<1>3. CASE RefillFires
  <2>1. cl' = Wake(Woken(queue), cl)  BY <1>3 DEF RefillFires
  <2>2. \A d \in Caller : /\ Wake(Woken(queue), cl)[d].pc = cl[d].pc
                          /\ Wake(Woken(queue), cl)[d].attempt = cl[d].attempt
    BY <1>0, WakeAt
  <2> QED  BY <2>1, <2>2 DEF AttemptsLeft
<1>4. CASE Earn  BY <1>4 DEF Earn, AttemptsLeft
<1>5. CASE UNCHANGED <<balance, earned, queue, armed, timers, cl>>  BY <1>5 DEF AttemptsLeft
<1> QED  BY <1>1, <1>2, <1>3, <1>4, <1>5, Kinds

(* Every step keeps those that wait without a wake in the queue. *)
LEMMA WaitersStep ==
  ASSUME TypeOK, AttemptsLeft, WaitersQueued, [Next]_vars
  PROVE  WaitersQueued'
<1>0. cl \in [Caller -> Call] /\ queue \in Queues  BY DEF TypeOK, Queues
<1>1. ASSUME NEW c \in Caller, Quiet(c) PROVE WaitersQueued'
  <2>1. PICK x \in Call :
          /\ cl' = [cl EXCEPT ![c] = x] /\ queue' = queue
          /\ x.pc = "parked" => cl[c].pc = "parked" /\ (~x.woken => ~cl[c].woken)
    BY <1>1, QuietSteps
  <2>2. \A d \in Caller : cl'[d].pc = "parked" /\ ~cl'[d].woken
                           => cl[d].pc = "parked" /\ ~cl[d].woken
    BY <1>0, <2>1
  <2> QED  BY <2>1, <2>2 DEF WaitersQueued
<1>2. ASSUME NEW c \in Caller, Loud(c) PROVE WaitersQueued'
  <2>1. PICK x \in Call, S \in SUBSET Caller :
          /\ cl' = Wake(S, [cl EXCEPT ![c] = x])
          /\ x.pc = "parked" => Queued(queue', Rank[c], Awaits(c))
          /\ \A d \in Caller \ {c} : d \notin S /\ Queued(queue, Rank[d], Awaits(d))
                                     => Queued(queue', Rank[d], Awaits(d))
    BY <1>2, LoudSteps
  <2> DEFINE calls == [cl EXCEPT ![c] = x]
  <2>2. /\ calls \in [Caller -> Call] /\ calls[c] = x
        /\ \A d \in Caller \ {c} : calls[d] = cl[d]
    BY <1>0, <2>1
  <2>3. cl' = Wake(S, calls)  BY <2>1
  <2> HIDE DEF calls
  <2>4. \A d \in Caller : cl'[d].pc = "parked" /\ ~cl'[d].woken
                           => calls[d].pc = "parked" /\ ~calls[d].woken /\ d \notin S
    <3>1. \A d \in Caller : /\ Wake(S, calls)[d].pc = calls[d].pc
                            /\ ~Wake(S, calls)[d].woken => ~calls[d].woken /\ d \notin S
      BY <2>2, WakeAt
    <3> QED  BY <2>3, <3>1
  <2>5. ASSUME NEW d \in Caller, cl'[d].pc = "parked", ~cl'[d].woken
        PROVE  Queued(queue', Rank[d], Awaits(d))
    <3>1. CASE d = c  BY <2>1, <2>2, <2>4, <2>5, <3>1
    <3>2. CASE d # c
      <4>1. Queued(queue, Rank[d], Awaits(d))  BY <2>2, <2>4, <2>5, <3>2 DEF WaitersQueued
      <4> QED  BY <2>1, <2>4, <2>5, <3>2, <4>1
    <3> QED  BY <3>1, <3>2
  <2> QED  BY <2>5 DEF WaitersQueued
<1>3. CASE RefillFires
  <2>1. cl' = Wake(Woken(queue), cl) /\ queue' = Popped(queue)  BY <1>3 DEF RefillFires
  <2>2. \A d \in Caller : cl'[d].pc = "parked" /\ ~cl'[d].woken
                           => cl[d].pc = "parked" /\ ~cl[d].woken /\ d \notin Woken(queue)
    <3>1. \A d \in Caller :
            /\ Wake(Woken(queue), cl)[d].pc = cl[d].pc
            /\ ~Wake(Woken(queue), cl)[d].woken => ~cl[d].woken /\ d \notin Woken(queue)
      BY <1>0, WakeAt
    <3> QED  BY <2>1, <3>1
  <2>3. \A d \in Caller : Rank[d] \in Ranks  BY GatewayAssumption DEF Ranks
  <2>4. \A d \in Caller : d \notin Woken(queue) /\ Queued(queue, Rank[d], Awaits(d))
                         => Queued(Popped(queue), Rank[d], Awaits(d))
    BY <1>0, <2>3, PoppedKeeps DEF Awaits
  <2> QED  BY <2>1, <2>2, <2>4 DEF WaitersQueued
<1>4. CASE Earn  BY <1>4 DEF Earn, WaitersQueued
<1>5. CASE UNCHANGED <<balance, earned, queue, armed, timers, cl>>  BY <1>5 DEF WaitersQueued
<1> QED  BY <1>1, <1>2, <1>3, <1>4, <1>5, Kinds

(* Every step keeps one refill task while anyone is queued. *)
LEMMA RefillTaskStep ==
  ASSUME TypeOK, AttemptsLeft, OneRefillTask, [Next]_vars
  PROVE  OneRefillTask'
<1>0. queue \in Queues /\ armed \in BOOLEAN /\ timers \in Nat  BY DEF TypeOK, Queues
<1>p. HasWaiters(Popped(queue)) => HasWaiters(queue)  BY <1>0, PoppedAddsNone
<1>a. ASSUME Arm(queue') PROVE OneRefillTask'
  <2>1. CASE armed  BY <1>0, <1>a, <2>1 DEF Arm, OneRefillTask
  <2>2. CASE ~armed
    <3>1. timers = 0  BY <2>2 DEF OneRefillTask
    <3>2. CASE HasWaiters(queue')
      <4>1. armed'  BY <1>a, <3>2 DEF Arm
      <4>2. timers' = 1  BY <1>a, <2>2, <3>1, <3>2 DEF Arm
      <4> QED  BY <4>1, <4>2 DEF OneRefillTask
    <3>3. CASE ~HasWaiters(queue')  BY <1>a, <2>2, <3>1, <3>3 DEF Arm, OneRefillTask
    <3> QED  BY <3>2, <3>3
  <2> QED  BY <2>1, <2>2
<1>b. ASSUME UNCHANGED <<armed, timers>>, HasWaiters(queue') => HasWaiters(queue)
      PROVE  OneRefillTask'
  BY <1>b DEF OneRefillTask
<1>1. ASSUME NEW c \in Caller, Quiet(c) PROVE OneRefillTask'
  <2>1. UNCHANGED <<queue, armed, timers>>  BY <1>1, QuietSteps
  <2> QED  BY <1>b, <2>1
<1>2. ASSUME NEW c \in Caller, Take(c) PROVE OneRefillTask'
  <2>1. Arm(queue')  BY <1>2 DEF Take
  <2> QED  BY <1>a, <2>1
<1>3. ASSUME NEW c \in Caller, Park(c) PROVE OneRefillTask'
  <2>1. CASE cl[c].late  BY <1>3, <1>b, <1>p, <2>1 DEF Park
  <2>2. CASE ~cl[c].late
    <3>1. Arm(queue')  BY <1>3, <2>2 DEF Park
    <3> QED  BY <1>a, <3>1
  <2> QED  BY <2>1, <2>2
<1>4. ASSUME NEW c \in Caller, TimedOut(c) \/ Cancel(c) PROVE OneRefillTask'
  <2>1. HasWaiters(queue') => HasWaiters(queue)  BY <1>0, <1>4, DropKeeps DEF TimedOut, Cancel
  <2> QED  BY <1>4, <1>b, <2>1 DEF TimedOut, Cancel
<1>5. ASSUME NEW c \in Caller, Leave(c) PROVE OneRefillTask'
  <2>1. Rank[c] \in Ranks  BY GatewayAssumption DEF Ranks
  <2>2. HasWaiters(queue') => HasWaiters(queue)
    <3>1. CASE queue' = queue  BY <3>1
    <3>2. CASE \E i \in DOMAIN queue[Rank[c]] : TRUE  BY <1>0, <2>1, <3>2, RemoveKeeps
    <3> QED  BY <1>5, <3>1, <3>2 DEF Leave
  <2> QED  BY <1>5, <1>b, <2>2 DEF Leave
<1>6. ASSUME NEW c \in Caller, PassOn(c) PROVE OneRefillTask'
  <2>1. Arm(queue')  BY <1>6 DEF PassOn
  <2> QED  BY <1>a, <2>1
<1>7. CASE RefillFires
  <2>1. armed /\ timers = 1  BY <1>0, <1>7 DEF RefillFires, OneRefillTask
  <2>2. CASE HasWaiters(Popped(queue))  BY <1>7, <2>1, <2>2 DEF RefillFires, OneRefillTask
  <2>3. CASE ~HasWaiters(Popped(queue))  BY <1>7, <2>1, <2>3 DEF RefillFires, OneRefillTask
  <2> QED  BY <2>2, <2>3
<1>8. CASE Earn  BY <1>8, <1>b DEF Earn
<1>9. CASE UNCHANGED <<balance, earned, queue, armed, timers, cl>>  BY <1>9, <1>b
<1> QED  BY <1>1, <1>2, <1>3, <1>4, <1>5, <1>6, <1>7, <1>8, <1>9, Kinds DEF Loud

IInv == TypeOK /\ AttemptsLeft /\ WaitersQueued /\ OneRefillTask

(* Nobody has called yet, the bucket is full and no task runs. *)
LEMMA InitHolds == Init => IInv
<1> SUFFICES ASSUME Init PROVE IInv  OBVIOUS
<1>0. Burst \in Nat /\ DailyLimit \in Nat /\ 1 \in 1..Attempts  BY GatewayAssumption
<1>1. "new" \in Pc  BY DEF Pc
<1>2. At("new", 1) \in Call /\ At("new", 1).pc = "new"  BY <1>0, <1>1, AtType
<1>3. queue \in [Ranks -> Seq(Entry)] /\ ~HasWaiters(queue)  BY DEF Init, HasWaiters
<1>4. newDay \in BOOLEAN /\ hold \in BOOLEAN /\ armed \in BOOLEAN  BY Zenon DEF Init
<1>5. TypeOK  BY <1>0, <1>2, <1>3, <1>4 DEF Init, TypeOK
<1>6. AttemptsLeft /\ WaitersQueued  BY <1>2 DEF Init, AttemptsLeft, WaitersQueued
<1>7. OneRefillTask  BY <1>3 DEF Init, OneRefillTask
<1> QED  BY <1>5, <1>6, <1>7 DEF IInv

(* IInv is inductive. *)
LEMMA StepHolds == IInv /\ [Next]_vars => IInv'
BY TypeStep, AttemptsStep, WaitersStep, RefillTaskStep DEF IInv

(* IInv holds in every state. *)
LEMMA Inductive == Spec => []IInv
BY InitHolds, StepHolds, PTL DEF Spec

-----------------------------------------------------------------------------
(* Theorems *)

(* For any number of calls the balance stays within the burst and the day's *)
(* calls within the daily limit, whoever races for the last one.            *)
THEOREM BudgetStaysInBounds == Spec => []TypeOK
<1>1. IInv => TypeOK  BY DEF IInv
<1> QED  BY <1>1, Inductive, PTL

(* The refill task runs while anyone is queued and never beside another,    *)
(* whatever callers park, give up, are dropped or pass a wake on.           *)
THEOREM RefillTaskRuns == Spec => []OneRefillTask
<1>1. IInv => OneRefillTask  BY DEF IInv
<1> QED  BY <1>1, Inductive, PTL

(* No caller parks without a wake and out of the queue: wake_highest skips  *)
(* only entries whose receivers are gone.                                   *)
THEOREM NoWakeupIsLost == Spec => []NoLostWakeup
<1>1. IInv => NoLostWakeup
  <2> SUFFICES ASSUME IInv, NEW c \in Caller, cl[c].pc = "parked", ~cl[c].woken
               PROVE  armed /\ Queued(queue, Rank[c], Awaits(c))
    BY DEF NoLostWakeup, Queued, Awaits
  <2>1. Queued(queue, Rank[c], Awaits(c))  BY DEF IInv, WaitersQueued
  <2>2. Rank[c] \in Ranks  BY GatewayAssumption DEF Ranks
  <2>3. HasWaiters(queue)  BY <2>1, <2>2 DEF Queued, HasWaiters
  <2> QED  BY <2>1, <2>3 DEF IInv, OneRefillTask
<1> QED  BY <1>1, Inductive, PTL

(* A step of the gateway is a step of the bucket it promises, or none. *)
LEMMA BucketStep == IInv /\ [Next]_vars => [Bucket!Next]_(Bucket!vars)
<1> SUFFICES ASSUME IInv, [Next]_vars PROVE [Bucket!Next]_(Bucket!vars)  OBVIOUS
<1> DEFINE spent == {c \in Caller : cl[c].pc \in {"granted", "sending"}}
<1>0. TypeOK /\ AttemptsLeft /\ cl \in [Caller -> Call] /\ Burst \in Nat
  BY GatewayAssumption DEF IInv, TypeOK
<1>r. Refilled \in 0..Burst
      /\ Refilled = IF Burst <= balance + earned THEN Burst ELSE balance + earned
  BY <1>0, RefilledBounds
<1>s. ASSUME Refilled' = Refilled, spent' = spent PROVE [Bucket!Next]_(Bucket!vars)
  BY <1>s DEF Bucket!vars
<1>c. ASSUME NEW c \in Caller, Refilled' = Refilled, spent' = spent \ {c}
      PROVE  [Bucket!Next]_(Bucket!vars)
  <2>1. CASE c \in spent
    <3>1. Bucket!Contacted(c)  BY <1>c, <2>1 DEF Bucket!Contacted
    <3> QED  BY <3>1 DEF Bucket!Next
  <2>2. CASE c \notin spent
    <3>1. spent' = spent  BY <1>c, <2>2
    <3> QED  BY <1>c, <1>s, <3>1
  <2> QED  BY <2>1, <2>2
<1>1. ASSUME NEW c \in Caller, Quiet(c) PROVE [Bucket!Next]_(Bucket!vars)
  <2>1. PICK x \in Call : /\ cl' = [cl EXCEPT ![c] = x] /\ Refilled' = Refilled
                          /\ x.pc \in Spending => cl[c].pc \in Spending
    BY <1>0, <1>1, QuietSteps
  <2>2. CASE x.pc \in Spending
    <3>1. spent' = spent  BY <1>0, <2>1, <2>2 DEF Spending
    <3> QED  BY <1>s, <2>1, <3>1
  <2>3. CASE x.pc \notin Spending
    <3>1. spent' = spent \ {c}  BY <1>0, <2>1, <2>3 DEF Spending
    <3> QED  BY <1>c, <2>1, <3>1
  <2> QED  BY <2>2, <2>3
<1>2. ASSUME NEW c \in Caller, Loud(c) PROVE [Bucket!Next]_(Bucket!vars)
  <2>1. PICK x \in Call, S \in SUBSET Caller :
          /\ cl' = Wake(S, [cl EXCEPT ![c] = x])
          /\ IF Take(c) THEN x.pc = "granted" ELSE x.pc \notin Spending
    BY <1>0, <1>2, LoudSteps
  <2> DEFINE calls == [cl EXCEPT ![c] = x]
  <2>2. /\ calls \in [Caller -> Call] /\ calls[c] = x
        /\ \A d \in Caller \ {c} : calls[d] = cl[d]
    BY <1>0, <2>1
  <2>3. cl' = Wake(S, calls)  BY <2>1
  <2> HIDE DEF calls
  <2>4. \A d \in Caller : cl'[d].pc = calls[d].pc
    <3>1. \A d \in Caller : Wake(S, calls)[d].pc = calls[d].pc  BY <2>2, WakeAt
    <3> QED  BY <2>3, <3>1
  <2>5. cl'[c].pc = x.pc /\ \A d \in Caller \ {c} : cl'[d].pc = cl[d].pc  BY <2>2, <2>4
  <2>6. CASE Take(c)
    <3>1. cl[c].pc = "try" /\ Refilled > 0 /\ balance' = Refilled - 1 /\ earned' = 0
      BY <2>6 DEF Take, MayTake, Rolled
    <3>2. Refilled - 1 \in 0..Burst  BY <1>0, <1>r, <3>1
    <3>3. Refilled' = Refilled - 1  BY <3>1, <3>2, Settles
    <3>4. c \notin spent /\ spent' = spent \cup {c}  BY <2>1, <2>5, <2>6, <3>1
    <3>5. Bucket!Spend(c)  BY <3>1, <3>3, <3>4 DEF Bucket!Spend
    <3> QED  BY <3>5 DEF Bucket!Next
  <2>7. CASE ~Take(c)
    <3>1. Refilled' = Refilled
      <4>1. CASE Park(c)
        <5>1. balance' = Refilled /\ earned' = 0  BY <4>1 DEF Park, Rolled
        <5> QED  BY <1>r, <5>1, Settles
      <4>2. CASE ~Park(c)
        <5>1. balance' = balance /\ earned' = earned
          BY <1>2, <2>7, <4>2 DEF Loud, TimedOut, Leave, PassOn, Cancel
        <5> QED  BY <5>1 DEF Refilled
      <4> QED  BY <4>1, <4>2
    <3>2. spent' = spent \ {c}  BY <2>1, <2>5, <2>7 DEF Spending
    <3> QED  BY <1>c, <3>1, <3>2
  <2> QED  BY <2>6, <2>7
<1>3. CASE RefillFires
  <2>1. balance' = Refilled /\ earned' = 0 /\ cl' = Wake(Woken(queue), cl)
    BY <1>3 DEF RefillFires
  <2>2. Refilled' = Refilled  BY <1>r, <2>1, Settles
  <2>3. \A d \in Caller : Wake(Woken(queue), cl)[d].pc = cl[d].pc  BY <1>0, WakeAt
  <2>4. spent' = spent  BY <2>1, <2>3
  <2> QED  BY <1>s, <2>2, <2>4
<1>4. CASE Earn
  <2>1. earned' = earned + 1 /\ balance' = balance /\ earned' \in 0..Burst /\ balance \in 0..Burst
        /\ earned \in 0..Burst
    BY <1>0, <1>4 DEF Earn, TypeOK
  <2>2. balance' + earned' \in Nat  BY <1>0, <2>1
  <2>3. Min({Burst, balance' + earned'})
          = IF Burst <= balance' + earned' THEN Burst ELSE balance' + earned'
    BY <1>0, <2>2, MinOfTwo
  <2>4. Refilled' = IF Burst <= balance' + earned' THEN Burst ELSE balance' + earned'
    BY <2>3 DEF Refilled
  <2>5. spent' = spent  BY <1>4 DEF Earn
  <2>6. CASE balance + earned < Burst
    <3>1. Refilled < Burst /\ Refilled' = Refilled + 1  BY <1>0, <1>r, <2>1, <2>4, <2>6
    <3>2. Bucket!Earn  BY <2>5, <3>1 DEF Bucket!Earn
    <3> QED  BY <3>2 DEF Bucket!Next
  <2>7. CASE ~(balance + earned < Burst)
    <3>1. Refilled' = Refilled  BY <1>0, <1>r, <2>1, <2>4, <2>7
    <3> QED  BY <1>s, <2>5, <3>1
  <2> QED  BY <2>6, <2>7
<1>5. CASE UNCHANGED <<balance, earned, queue, armed, timers, cl>>
  <2>1. Refilled' = Refilled /\ spent' = spent  BY <1>5 DEF Refilled
  <2> QED  BY <1>s, <2>1
<1> QED  BY <1>1, <1>2, <1>3, <1>4, <1>5, Kinds

(* The gateway keeps the rate limit: every contact of the provider spends a *)
(* token of a bucket that holds at most burst and gains one at a time.      *)
THEOREM KeepsRateLimit == Spec => RateLimit
<1>1. Init => Bucket!Init
  <2> SUFFICES ASSUME Init PROVE Bucket!Init  OBVIOUS
  <2>1. Burst \in Nat /\ balance + earned = Burst  BY GatewayAssumption DEF Init
  <2>2. Refilled = Burst  BY <2>1, MinOfTwo DEF Refilled
  <2>3. \A c \in Caller : cl[c].pc = "new"  BY DEF Init, At
  <2> QED  BY <2>2, <2>3 DEF Bucket!Init
<1> QED  BY <1>1, BucketStep, Inductive, PTL DEF Spec, RateLimit, Bucket!Spec

=============================================================================
