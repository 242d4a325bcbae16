--------------------------- MODULE MessagingProofs ---------------------------
(***************************************************************************)
(* Theorems about Messaging, for every set of recipients and workers and   *)
(* every bound: the provider is asked once, a row only advances and is     *)
(* delivered once, the cap holds, nobody is forgotten and, where no two    *)
(* jobs overlap, the send path implements SendOnce.  The first rests on the *)
(* usual argument for a fence: whoever is about to call the provider has   *)
(* set the row's attemptedAt, nobody else has, and no call was made yet.   *)
(***************************************************************************)
EXTENDS Messaging, FiniteSetTheorems, TLAPS

\* An invocation at the gateway has fenced its row, and no call was made yet.
SenderIsFenced ==
    \A w \in Workers : At(w, "send") => row[To(w)].attempted /\ calls[To(w)] = 0

\* No two invocations are at the gateway for one recipient.
SenderIsAlone ==
    \A v, w \in Workers :
        At(v, "send") /\ At(w, "send") /\ To(v) = To(w) => v = w

\* Nobody has called the provider without the fence.
CallIsFenced == \A r \in Recipients : calls[r] > 0 => row[r].attempted

FenceInv ==
    /\ TypeOK
    /\ SenderIsFenced
    /\ SenderIsAlone
    /\ CallIsFenced
    /\ AttemptedOnce

\* An invocation that is busy works for a recipient.
LEMMA BusyFor ==
    ASSUME WorkersOK, NEW w \in Workers, Busy(w) PROVE To(w) \in Recipients
  BY DEF WorkersOK, Jobs, To

\* Moving on keeps an invocation's job; so does answering.
LEMMA MoveKeepsWorkers ==
    ASSUME WorkersOK, NEW w \in Workers, Busy(w),
           \/ \E p \in Places : Goto(w, p)
           \/ \E o \in Outcomes : Answer(w, o)
    PROVE  WorkersOK'
  BY DEF WorkersOK, Busy, Goto, Answer, Dispatches, Places, Outcomes

\* An invocation that ends, well or badly, holds no job.
LEMMA EndKeepsWorkers ==
    ASSUME WorkersOK, NEW w \in Workers, worker' = [worker EXCEPT ![w] = Idle]
    PROVE  WorkersOK'
  BY DEF WorkersOK, Busy, Idle, Dispatches, Places, Outcomes

LEMMA InitType == Init => TypeOK
  BY MessagingAssumption
     DEF Init, TypeOK, WorkersOK, NoRow, Rows, Statuses, Dispatches, Places,
         Outcomes, Idle, Busy

LEMMA NextType == TypeOK /\ [Next]_vars => TypeOK'
<1> SUFFICES ASSUME TypeOK, [Next]_vars PROVE TypeOK'
  OBVIOUS
<1> USE MessagingAssumption DEF TypeOK, provider, sqs
<1>1. ASSUME NEW j \in Jobs, Enqueue(j) \/ Redrive(j) PROVE TypeOK'
  BY <1>1 DEF Enqueue, Redrive, WorkersOK, Busy
<1>2. ASSUME NEW w \in Workers, NEW j \in Jobs, Receive(w, j) PROVE TypeOK'
  <2>1. row[j.to].stale \in BOOLEAN
    BY DEF Jobs, Rows
  <2>2. WorkersOK'
    BY <1>2, <2>1 DEF Receive, IsReceivable, WorkersOK, Busy, Dispatches, Places, Outcomes
  <2>3. receives' \in [Jobs -> 0..MaxReceives]
    BY <1>2 DEF Receive, IsReceivable
  <2>4. QED
    BY <1>2, <2>2, <2>3 DEF Receive
<1>3. ASSUME NEW w \in Workers, Work(w) PROVE TypeOK'
  <2>1. Busy(w) /\ To(w) \in Recipients
    BY <1>3, BusyFor
       DEF Work, Claim, FindClaim, CheckOptOut, CountSend, ClaimAttempt, Gateway,
           GatewayAccept, GatewayReject, Refuse, MarkSent, RecordOutcome, Ack, At,
           Busy
  <2>2. WorkersOK'
    <3>1. CASE Ack(w)
      BY <3>1, EndKeepsWorkers DEF Ack
    <3>2. CASE ~Ack(w)
      BY <1>3, <2>1, <3>2, MoveKeepsWorkers
         DEF Work, Claim, FindClaim, CheckOptOut, CountSend, ClaimAttempt, Gateway,
             GatewayAccept, GatewayReject, Refuse, MarkSent, MarkSentAnswer,
             RecordOutcome, Places, Outcomes
    <3>3. QED
      BY <3>1, <3>2
  <2>3. CASE Claim(w) \/ ClaimAttempt(w) \/ Refuse(w) \/ MarkSent(w)
    <3>1. {"QUEUED", "FAILED", "SENT"} \subseteq Statuses
      BY DEF Statuses
    <3>2. row' \in [Recipients -> Rows]
      <4>1. CASE Claim(w)
        BY <2>1, <3>1, <4>1, SMTT(30) DEF Claim, Rows
      <4>2. CASE ClaimAttempt(w)
        BY <2>1, <3>1, <4>2, ZenonT(40) DEF ClaimAttempt, Rows
      <4>3. CASE Refuse(w)
        BY <2>1, <3>1, <4>3 DEF Refuse, Rows
      <4>4. CASE MarkSent(w)
        BY <2>1, <3>1, <4>4 DEF MarkSent, Rows
      <4>5. QED
        BY <2>3, <4>1, <4>2, <4>3, <4>4
    <3>3. QED
      BY <2>2, <2>3, <3>2 DEF Claim, ClaimAttempt, Refuse, MarkSent
  <2>4. CASE FindClaim(w) \/ CheckOptOut(w) \/ CountSend(w) \/ Ack(w)
    BY <2>2, <2>4 DEF FindClaim, CheckOptOut, CountSend, Ack
  <2>5. CASE Gateway(w)
    BY <2>1, <2>2, <2>5 DEF Gateway, GatewayAccept, GatewayReject
  <2>6. CASE RecordOutcome(w)
    <3>1. counts' \in [Recipients -> [Counters -> Nat]]
      BY <2>1, <2>6 DEF RecordOutcome, CounterOf, Counters
    <3>2. QED
      BY <2>2, <2>6, <3>1 DEF RecordOutcome
  <2>7. QED
    BY <1>3, <2>3, <2>4, <2>5, <2>6 DEF Work
<1>4. ASSUME NEW w \in Workers, GatewayFail(w) \/ Crash(w) PROVE TypeOK'
  <2>1. To(w) \in Recipients
    BY <1>4, BusyFor DEF GatewayFail, Crash, At, Busy
  <2>2. WorkersOK'
    BY <1>4, EndKeepsWorkers DEF GatewayFail, Crash
  <2>3. QED
    BY <1>4, <2>1, <2>2 DEF GatewayFail, Crash
<1>5. ASSUME NEW r \in Recipients, NEW s \in EventStatuses, ApplyEvent(r, s)
      PROVE  TypeOK'
  <2>1. row' \in [Recipients -> Rows]
    <3>1. s \in Statuses
      BY DEF EventStatuses, Statuses
    <3>2. QED
      BY <1>5, <3>1 DEF ApplyEvent, Rows
  <2>2. owed' \subseteq Deliveries
    <3>1. [to |-> r, delivered |-> s = "DELIVERED"] \in Deliveries
      <4>1. (s = "DELIVERED") \in BOOLEAN
        OBVIOUS
      <4>2. QED
        BY <4>1 DEF Deliveries
    <3>2. QED
      BY <1>5, <3>1 DEF ApplyEvent
  <2>3. QED
    BY <1>5, <2>1, <2>2 DEF ApplyEvent, WorkersOK, Busy
<1>6. ASSUME NEW o \in Deliveries, RecordDelivery(o) \/ HandlerCrash(o)
      PROVE  TypeOK'
  <2>1. counts' \in [Recipients -> [Counters -> Nat]]
    BY <1>6 DEF RecordDelivery, HandlerCrash, Deliveries, Counters
  <2>2. QED
    BY <1>6, <2>1 DEF RecordDelivery, HandlerCrash, WorkersOK, Busy
<1>7. ASSUME NEW r \in Recipients, Age(r) \/ OptOut(r) PROVE TypeOK'
  BY <1>7, ZenonT(40) DEF Age, OptOut, Rows, WorkersOK, Busy
<1>8. CASE UNCHANGED vars
  BY <1>8 DEF vars, WorkersOK, Busy
<1>9. QED
  BY <1>1, <1>2, <1>3, <1>4, <1>5, <1>6, <1>7, <1>8 DEF Next

\* The types of the send path hold in every reachable state.
THEOREM TypeCorrect == Spec => []TypeOK
  BY InitType, NextType, PTL DEF Spec

LEMMA InitFence == Init => FenceInv
  BY InitType
     DEF Init, FenceInv, SenderIsFenced, SenderIsAlone, CallIsFenced,
         AttemptedOnce, At, Idle

\* A step that leaves attemptedAt and the calls alone, and brings nobody to the
\* gateway, leaves the fence standing.
LEMMA FenceStands ==
    ASSUME FenceInv, TypeOK',
           \A r \in Recipients : row[r].attempted => row'[r].attempted,
           calls' = calls,
           \A w \in Workers : At(w, "send")' => worker'[w] = worker[w]
    PROVE  FenceInv'
  <1> USE DEF FenceInv
  <1>1. \A w \in Workers : At(w, "send")' =>
            At(w, "send") /\ To(w)' = To(w) /\ To(w) \in Recipients
    BY BusyFor DEF At, To, Busy, TypeOK
  <1>2. SenderIsFenced'
    BY <1>1 DEF SenderIsFenced
  <1>3. SenderIsAlone'
    BY <1>1 DEF SenderIsAlone
  <1>4. CallIsFenced' /\ AttemptedOnce'
    BY DEF CallIsFenced, AttemptedOnce
  <1>5. QED
    BY <1>2, <1>3, <1>4

LEMMA NextFence == FenceInv /\ [Next]_vars => FenceInv'
<1> SUFFICES ASSUME FenceInv, [Next]_vars PROVE FenceInv'
  OBVIOUS
<1> USE DEF provider, sqs
<1>0. TypeOK /\ TypeOK'
  BY NextType DEF FenceInv
<1>1. ASSUME NEW j \in Jobs, Enqueue(j) \/ Redrive(j) PROVE FenceInv'
  BY <1>0, <1>1, FenceStands DEF Enqueue, Redrive
<1>2. ASSUME NEW w \in Workers, NEW j \in Jobs, Receive(w, j) PROVE FenceInv'
  BY <1>0, <1>2, FenceStands DEF Receive, IsReceivable, At, TypeOK, WorkersOK
<1>3. ASSUME NEW w \in Workers, Work(w), ~ClaimAttempt(w), ~Gateway(w)
      PROVE  FenceInv'
  <2>1. To(w) \in Recipients
    BY <1>0, <1>3, BusyFor
       DEF Work, Claim, FindClaim, CheckOptOut, CountSend, Refuse, MarkSent,
           RecordOutcome, Ack, At, Busy, TypeOK
  <2>2. \A r \in Recipients : row[r].attempted => row'[r].attempted
    BY <1>0, <1>3, <2>1, SMTT(30)
       DEF Work, Claim, FindClaim, CheckOptOut, CountSend, Refuse, MarkSent,
           RecordOutcome, Ack, TypeOK, Rows
  <2>3. \A v \in Workers : At(v, "send")' => worker'[v] = worker[v]
    BY <1>0, <1>3
       DEF Work, Claim, FindClaim, CheckOptOut, CountSend, Refuse, MarkSent,
           RecordOutcome, Ack, At, Goto, Answer, Idle, TypeOK, WorkersOK, Dispatches
  <2>4. calls' = calls
    BY <1>3
       DEF Work, Claim, FindClaim, CheckOptOut, CountSend, Refuse, MarkSent,
           RecordOutcome, Ack
  <2>5. QED
    BY <1>0, <2>2, <2>3, <2>4, FenceStands
<1>4. ASSUME NEW w \in Workers, ClaimAttempt(w) PROVE FenceInv'
  <2>1. At(w, "attempt") /\ To(w) \in Recipients
    BY <1>0, <1>4, BusyFor DEF ClaimAttempt, At, Busy, TypeOK
  <2>2. CASE ~IfUnattempted(To(w))
    BY <1>0, <1>4, <2>2, FenceStands
       DEF ClaimAttempt, At, Answer, TypeOK, WorkersOK, Dispatches
  <2>3. CASE IfUnattempted(To(w))
    <3>1. /\ row' = [row EXCEPT ![To(w)].attempted = TRUE]
          /\ worker' = [worker EXCEPT ![w].at = "send"]
          /\ calls' = calls
      BY <1>4, <2>3 DEF ClaimAttempt, Goto
    <3>2. ~row[To(w)].attempted /\ calls[To(w)] = 0
      BY <1>0, <2>1, <2>3 DEF IfUnattempted, FenceInv, CallIsFenced, TypeOK
    <3>3. \A v \in Workers :
              /\ To(v)' = To(v)
              /\ At(v, "send")' => v = w \/ (At(v, "send") /\ To(v) # To(w))
      <4> SUFFICES ASSUME NEW v \in Workers
                   PROVE  /\ To(v)' = To(v)
                          /\ At(v, "send")' => v = w \/ (At(v, "send") /\ To(v) # To(w))
        OBVIOUS
      <4>1. /\ worker'[v].job = worker[v].job
            /\ v # w => worker'[v] = worker[v]
        BY <1>0, <3>1 DEF TypeOK, WorkersOK, Dispatches
      <4>2. At(v, "send") => row[To(v)].attempted
        BY <1>0 DEF FenceInv, SenderIsFenced
      <4>3. QED
        BY <3>2, <4>1, <4>2 DEF At, To
    <3>4. \A r \in Recipients : row'[r].attempted = (row[r].attempted \/ r = To(w))
      BY <1>0, <2>1, <3>1 DEF TypeOK, Rows
    <3>5. SenderIsFenced'
      BY <1>0, <2>1, <3>1, <3>2, <3>3, <3>4, BusyFor
         DEF FenceInv, SenderIsFenced, TypeOK, At, Busy
    <3>6. SenderIsAlone'
      BY <3>3 DEF FenceInv, SenderIsAlone
    <3>7. CallIsFenced' /\ AttemptedOnce'
      BY <3>1, <3>4 DEF FenceInv, CallIsFenced, AttemptedOnce
    <3>8. QED
      BY <1>0, <3>5, <3>6, <3>7 DEF FenceInv
  <2>4. QED
    BY <2>2, <2>3
<1>5. ASSUME NEW w \in Workers, Gateway(w) \/ GatewayFail(w) PROVE FenceInv'
  <2>1. At(w, "send") /\ To(w) \in Recipients
    BY <1>0, <1>5, BusyFor
       DEF Gateway, GatewayAccept, GatewayReject, GatewayFail, At, Busy, TypeOK
  <2>2. /\ row' = row
        /\ calls' = [calls EXCEPT ![To(w)] = @ + 1]
    BY <1>5 DEF Gateway, GatewayAccept, GatewayReject, GatewayFail
  <2>3. row[To(w)].attempted /\ calls'[To(w)] = 1
    BY <1>0, <2>1, <2>2 DEF FenceInv, SenderIsFenced, TypeOK
  <2>4. \A v \in Workers : At(v, "send")' =>
            v # w /\ At(v, "send") /\ To(v)' = To(v) /\ To(v) # To(w)
    BY <1>0, <1>5, <2>1
       DEF Gateway, GatewayAccept, GatewayReject, GatewayFail, Goto, At, To, Idle,
           TypeOK, WorkersOK, Dispatches, FenceInv, SenderIsAlone
  <2>5. SenderIsFenced'
    BY <1>0, <2>1, <2>2, <2>4, BusyFor
       DEF FenceInv, SenderIsFenced, TypeOK, At, Busy
  <2>6. SenderIsAlone'
    BY <2>4 DEF FenceInv, SenderIsAlone
  <2>7. CallIsFenced' /\ AttemptedOnce'
    BY <1>0, <2>1, <2>2, <2>3 DEF FenceInv, CallIsFenced, AttemptedOnce, TypeOK
  <2>8. QED
    BY <1>0, <2>5, <2>6, <2>7 DEF FenceInv
<1>6. ASSUME NEW w \in Workers, Crash(w) PROVE FenceInv'
  BY <1>0, <1>6, FenceStands DEF Crash, At, Idle, TypeOK, WorkersOK
<1>7. ASSUME NEW r \in Recipients, NEW s \in EventStatuses, ApplyEvent(r, s)
      PROVE  FenceInv'
  BY <1>0, <1>7, FenceStands DEF ApplyEvent, TypeOK, Rows
<1>8. ASSUME NEW o \in Deliveries, RecordDelivery(o) \/ HandlerCrash(o)
      PROVE  FenceInv'
  BY <1>0, <1>8, FenceStands DEF RecordDelivery, HandlerCrash
<1>9. ASSUME NEW r \in Recipients, Age(r) \/ OptOut(r) PROVE FenceInv'
  BY <1>0, <1>9, FenceStands DEF Age, OptOut, TypeOK, Rows
<1>10. CASE UNCHANGED vars
  BY <1>0, <1>10, FenceStands DEF vars
<1>11. QED
  BY <1>1, <1>2, <1>3, <1>4, <1>5, <1>6, <1>7, <1>8, <1>9, <1>10 DEF Next, Work

\* Whatever is redelivered, copied, retaken or run side by side, the provider is
\* asked at most once for a recipient: claim_attempt is the fence.
THEOREM NeverAskedTwice == Spec => []AttemptedOnce
<1>1. FenceInv => AttemptedOnce
  BY DEF FenceInv
<1>2. QED
  BY InitFence, NextFence, <1>1, PTL DEF Spec

-----------------------------------------------------------------------------
(* What a step does to a row. *)

\* The row of r stays, is aged or fenced, or its status moves on.
RowSteps(r) ==
    /\ row[r].attempted => row'[r].attempted
    /\ \/ row'[r].status = row[r].status
       \/ row[r].status = "ABSENT" /\ row'[r].status = "QUEUED"
       \/ row[r].status = "QUEUED" /\ row'[r].status \in {"SENT", "DELIVERED", "FAILED"}
       \/ row[r].status = "SENT" /\ row'[r].status \in {"DELIVERED", "FAILED"}

LEMMA EveryRowSteps ==
    ASSUME TypeOK, [Next]_vars, NEW r \in Recipients PROVE RowSteps(r)
<1> USE DEF RowSteps
<1>1. ASSUME NEW w \in Workers, Claim(w) \/ ClaimAttempt(w) \/ Refuse(w) \/ MarkSent(w)
      PROVE  RowSteps(r)
  <2>1. row \in [Recipients -> Rows]
    BY DEF TypeOK
  <2>2. CASE Claim(w)
    BY <2>1, <2>2 DEF Rows, Claim
  <2>3. CASE ClaimAttempt(w)
    BY <2>1, <2>3 DEF Rows, ClaimAttempt
  <2>4. CASE Refuse(w)
    BY <2>1, <2>4 DEF Rows, Refuse, IfQueued
  <2>5. CASE MarkSent(w)
    BY <2>1, <2>5 DEF Rows, MarkSent, IfQueued
  <2>6. QED
    BY <1>1, <2>2, <2>3, <2>4, <2>5
<1>2. ASSUME NEW q \in Recipients, NEW s \in EventStatuses, ApplyEvent(q, s) PROVE RowSteps(r)
  BY <1>2 DEF TypeOK, Rows, ApplyEvent, EventStatuses, Predecessors
<1>3. ASSUME NEW q \in Recipients, Age(q) PROVE RowSteps(r)
  BY <1>3 DEF TypeOK, Rows, Age
<1>4. CASE UNCHANGED row
  BY <1>4
<1>5. QED
  BY <1>1, <1>2, <1>3, <1>4
     DEF Next, vars, sqs, Enqueue, Redrive, Receive, Work, FindClaim, CheckOptOut, CountSend,
         Gateway, GatewayAccept, GatewayReject, GatewayFail, RecordOutcome, Ack, Crash,
         RecordDelivery, HandlerCrash, OptOut

\* However late a receipt or an event arrives, no row goes back and no fence falls:
\* the conditions of the writes allow only what comes after.
THEOREM NoRowGoesBack == Spec => RowOnlyAdvances
<1>1. TypeOK /\ [Next]_vars =>
          [\A r \in Recipients :
              /\ row'[r].status # row[r].status => Rank[row'[r].status] > Rank[row[r].status]
              /\ row[r].attempted => row'[r].attempted]_vars
  <2>1. /\ Rank["ABSENT"] = 0 /\ Rank["QUEUED"] = 1 /\ Rank["SENT"] = 2
        /\ Rank["DELIVERED"] = 3 /\ Rank["FAILED"] = 3
    BY DEF Rank
  <2>2. ASSUME TypeOK, [Next]_vars, NEW r \in Recipients
        PROVE  /\ row'[r].status # row[r].status => Rank[row'[r].status] > Rank[row[r].status]
               /\ row[r].attempted => row'[r].attempted
    <3>1. RowSteps(r)
      BY <2>2, EveryRowSteps
    <3>2. QED
      BY <2>1, <3>1 DEF RowSteps
  <2>3. QED
    BY <2>2
<1>2. QED
  BY <1>1, TypeCorrect, PTL DEF Spec, RowOnlyAdvances

-----------------------------------------------------------------------------
(* Deliveries. *)

\* A count that is owed is of a final status of an accepted message, and is not made.
OwedIsFinal ==
    \A o \in owed :
        /\ o.to \in accepted
        /\ row[o.to].status = IF o.delivered THEN "DELIVERED" ELSE "FAILED"
        /\ counts[o.to].delivered = 0 /\ counts[o.to].undelivered = 0

\* Nothing is counted of a message that is not final.
OnlyFinalsCount ==
    \A r \in Recipients :
        row[r].status \notin {"DELIVERED", "FAILED"} =>
            counts[r].delivered = 0 /\ counts[r].undelivered = 0

DeliveryInv ==
    /\ TypeOK
    /\ OwedIsFinal
    /\ OnlyFinalsCount
    /\ DeliveredOnce

LEMMA InitDelivery == Init => DeliveryInv
  BY InitType
     DEF Init, DeliveryInv, OwedIsFinal, OnlyFinalsCount, DeliveredOnce, NoRow, Counters

\* A step that neither owes nor makes a count leaves the deliveries as they are.
LEMMA DeliveriesStand ==
    ASSUME DeliveryInv, [Next]_vars, owed' \subseteq owed, accepted \subseteq accepted',
           \A r \in Recipients : /\ counts'[r].delivered = counts[r].delivered
                                 /\ counts'[r].undelivered = counts[r].undelivered
    PROVE  DeliveryInv'
<1>1. TypeOK /\ TypeOK'
  BY NextType DEF DeliveryInv
<1>2. \A r \in Recipients : RowSteps(r)
  BY <1>1, EveryRowSteps
<1>3. OwedIsFinal'
  BY <1>1, <1>2 DEF DeliveryInv, OwedIsFinal, RowSteps, TypeOK, Deliveries
<1>4. OnlyFinalsCount'
  BY <1>2 DEF DeliveryInv, OnlyFinalsCount, RowSteps
<1>5. DeliveredOnce'
  BY <1>2 DEF DeliveryInv, DeliveredOnce, RowSteps
<1>6. QED
  BY <1>1, <1>3, <1>4, <1>5 DEF DeliveryInv

LEMMA NextDelivery == DeliveryInv /\ [Next]_vars => DeliveryInv'
<1> SUFFICES ASSUME DeliveryInv, [Next]_vars PROVE DeliveryInv'
  OBVIOUS
<1> USE DEF provider, sqs
<1>0. TypeOK /\ TypeOK'
  BY NextType DEF DeliveryInv
<1>1. ASSUME NEW w \in Workers, RecordOutcome(w) PROVE DeliveryInv'
  <2>1. To(w) \in Recipients
    BY <1>0, <1>1, BusyFor DEF TypeOK, RecordOutcome, At, Busy
  <2>2. \A r \in Recipients : /\ counts'[r].delivered = counts[r].delivered
                              /\ counts'[r].undelivered = counts[r].undelivered
    BY <1>0, <1>1, <2>1 DEF RecordOutcome, CounterOf, TypeOK, Counters
  <2>3. QED
    BY <1>1, <2>2, DeliveriesStand DEF RecordOutcome
<1>2. ASSUME NEW r \in Recipients, NEW s \in EventStatuses, ApplyEvent(r, s)
      PROVE  DeliveryInv'
  <2>1. /\ r \in accepted /\ row[r].status \in {"QUEUED", "SENT"}
        /\ row' = [row EXCEPT ![r].status = s]
        /\ UNCHANGED <<accepted, counts>>
    BY <1>2 DEF ApplyEvent, Predecessors
  <2>2. /\ counts[r].delivered = 0 /\ counts[r].undelivered = 0
        /\ \A o \in owed : o.to # r
    BY <2>1 DEF DeliveryInv, OnlyFinalsCount, OwedIsFinal
  <2>3. /\ row'[r].status = s
        /\ \A q \in Recipients \ {r} : row'[q] = row[q]
    BY <1>0, <2>1 DEF TypeOK, Rows
  <2>4. OwedIsFinal'
    <3>1. ASSUME NEW o \in owed' PROVE
             \/ o \in owed
             \/ o.to = r /\ s = (IF o.delivered THEN "DELIVERED" ELSE "FAILED")
      <4>1. CASE s = "SENT"
        BY <1>2, <4>1 DEF ApplyEvent
      <4>2. CASE s = "DELIVERED"
        <5>1. owed' = owed \cup {[to |-> r, delivered |-> TRUE]}
          BY <1>2, <4>2 DEF ApplyEvent
        <5>2. QED
          BY <4>2, <5>1
      <4>3. CASE s = "FAILED"
        <5>1. owed' = owed \cup {[to |-> r, delivered |-> FALSE]}
          BY <1>2, <4>3 DEF ApplyEvent
        <5>2. QED
          BY <4>3, <5>1
      <4>4. QED
        BY <4>1, <4>2, <4>3 DEF EventStatuses
    <3>2. \A o \in owed : o.to \in Recipients
      BY <1>0 DEF TypeOK, Deliveries
    <3>3. QED
      BY <2>1, <2>2, <2>3, <3>1, <3>2 DEF DeliveryInv, OwedIsFinal
  <2>5. OnlyFinalsCount' /\ DeliveredOnce'
    BY <2>1, <2>2, <2>3 DEF DeliveryInv, OnlyFinalsCount, DeliveredOnce
  <2>6. QED
    BY <1>0, <2>4, <2>5 DEF DeliveryInv
<1>3. ASSUME NEW o \in Deliveries, RecordDelivery(o) PROVE DeliveryInv'
  <2>1. /\ o \in owed /\ o.to \in Recipients /\ owed' = owed \ {o}
        /\ UNCHANGED <<row, accepted>>
    BY <1>3 DEF RecordDelivery, Deliveries
  <2>2. /\ o.to \in accepted
        /\ row[o.to].status = IF o.delivered THEN "DELIVERED" ELSE "FAILED"
        /\ counts[o.to].delivered = 0 /\ counts[o.to].undelivered = 0
    BY <2>1 DEF DeliveryInv, OwedIsFinal
  <2>3. \A p \in owed' : p.to # o.to
    <3>1. SUFFICES ASSUME NEW p \in owed, p.to = o.to PROVE p = o
      BY <2>1
    <3>2. p.delivered = o.delivered
      BY <2>2, <3>1, <1>0 DEF DeliveryInv, OwedIsFinal, TypeOK, Deliveries
    <3>3. QED
      BY <1>0, <3>1, <3>2 DEF TypeOK, Deliveries
  <2>4. /\ counts'[o.to].delivered = IF o.delivered THEN 1 ELSE 0
        /\ counts'[o.to].undelivered = IF o.delivered THEN 0 ELSE 1
        /\ \A q \in Recipients \ {o.to} : counts'[q] = counts[q]
    BY <1>0, <1>3, <2>1, <2>2 DEF RecordDelivery, TypeOK, Counters
  <2>5. OwedIsFinal'
    BY <1>0, <2>1, <2>3, <2>4 DEF DeliveryInv, OwedIsFinal, TypeOK, Deliveries
  <2>6. OnlyFinalsCount' /\ DeliveredOnce'
    BY <2>1, <2>2, <2>4 DEF DeliveryInv, OnlyFinalsCount, DeliveredOnce
  <2>7. QED
    BY <1>0, <2>5, <2>6 DEF DeliveryInv
<1>4. CASE UNCHANGED <<owed, accepted, counts>>
  BY <1>4, DeliveriesStand
<1>5. ASSUME NEW w \in Workers, Gateway(w) \/ GatewayFail(w) PROVE DeliveryInv'
  BY <1>5, DeliveriesStand DEF Gateway, GatewayAccept, GatewayReject, GatewayFail
<1>6. ASSUME NEW o \in Deliveries, HandlerCrash(o) PROVE DeliveryInv'
  BY <1>6, DeliveriesStand DEF HandlerCrash
<1>7. QED
  BY <1>1, <1>2, <1>3, <1>4, <1>5, <1>6
     DEF Next, vars, Enqueue, Redrive, Receive, Work, Claim, FindClaim, CheckOptOut,
         CountSend, ClaimAttempt, Refuse, MarkSent, Ack, Crash, Age, OptOut

\* Repeated, reversed and contradicting events settle a message once, and only one the
\* provider took: apply_delivery's condition is the fence of the campaign's counter.
THEOREM SettledOnce == Spec => []DeliveredOnce
<1>1. DeliveryInv => DeliveredOnce
  BY DEF DeliveryInv
<1>2. QED
  BY InitDelivery, NextDelivery, <1>1, PTL DEF Spec

-----------------------------------------------------------------------------
(* The daily cap. *)

Called  == {r \in Recipients : calls[r] > 0}

\* Invocations that the counter let through and that have not asked the provider yet.
Allowed == {w \in Workers : At(w, "attempt") \/ At(w, "send")}

\* Each of either has had a value of the counter of its own, none above the cap.
CapInv ==
    /\ TypeOK
    /\ IsFiniteSet(Called) /\ IsFiniteSet(Allowed)
    /\ Cardinality(Called) + Cardinality(Allowed) <= capCount
    /\ Cardinality(Called) + Cardinality(Allowed) <= DailyCap

LEMMA OneMore ==
    ASSUME NEW S, IsFiniteSet(S), NEW x
    PROVE  IsFiniteSet(S \cup {x}) /\ Cardinality(S \cup {x}) <= Cardinality(S) + 1
<1> DEFINE T == S \cup {x}
<1>0. Cardinality(S) \in Nat
  BY FS_CardinalityType
<1>1. CASE x \in S
  <2>1. T = S
    BY <1>1
  <2> HIDE DEF T
  <2>2. IsFiniteSet(T) /\ Cardinality(T) <= Cardinality(S) + 1
    BY <1>0, <2>1
  <2>3. QED
    BY <2>2 DEF T
<1>2. CASE x \notin S
  <2>1. IsFiniteSet(S \cup {x}) /\ Cardinality(S \cup {x}) = Cardinality(S) + 1
    BY <1>2, FS_AddElement
  <2>2. QED
    BY <1>0, <2>1
<1>3. QED
  BY <1>1, <1>2

LEMMA InitCap == Init => CapInv
<1> SUFFICES ASSUME Init PROVE CapInv
  OBVIOUS
<1>1. Called = {} /\ Allowed = {}
  BY DEF Init, Called, Allowed, At, Idle
<1>2. QED
  BY <1>1, InitType, FS_EmptySet, MessagingAssumption DEF Init, CapInv

\* A step that calls nobody and lets nobody through keeps within the cap.
LEMMA CapStands ==
    ASSUME CapInv, TypeOK', Called' = Called, Allowed' \subseteq Allowed,
           capCount' \in {capCount, capCount + 1}
    PROVE  CapInv'
<1>1. IsFiniteSet(Allowed') /\ Cardinality(Allowed') <= Cardinality(Allowed)
  BY FS_Subset DEF CapInv
<1>2. /\ Cardinality(Called) \in Nat /\ Cardinality(Allowed) \in Nat
      /\ Cardinality(Allowed') \in Nat
  BY <1>1, FS_CardinalityType DEF CapInv
<1>3. QED
  BY <1>1, <1>2, MessagingAssumption DEF CapInv, TypeOK

LEMMA NextCap == CapInv /\ [Next]_vars => CapInv'
<1> SUFFICES ASSUME CapInv, [Next]_vars PROVE CapInv'
  OBVIOUS
<1> USE DEF provider, sqs
<1>0. /\ TypeOK /\ TypeOK'
      /\ Cardinality(Called) \in Nat /\ Cardinality(Allowed) \in Nat
  BY NextType, FS_CardinalityType DEF CapInv
<1>1. ASSUME NEW w \in Workers, CountSend(w) PROVE CapInv'
  <2>1. /\ Called' = Called /\ capCount' = capCount + 1 /\ At(w, "count")
        /\ \A v \in Workers \ {w} : worker'[v] = worker[v]
    BY <1>0, <1>1 DEF CountSend, Called, Goto, TypeOK, WorkersOK
  <2>2. CASE capCount + 1 > DailyCap
    <3>1. worker'[w].at = "refuse"
      BY <1>0, <1>1, <2>1, <2>2
         DEF CountSend, IsOverDailyCap, Goto, TypeOK, WorkersOK, Dispatches
    <3>2. Allowed' \subseteq Allowed
      BY <2>1, <3>1 DEF Allowed, At
    <3>3. QED
      BY <1>0, <2>1, <3>2, CapStands
  <2>3. CASE ~(capCount + 1 > DailyCap)
    <3>1. Allowed' \subseteq Allowed \cup {w}
      BY <2>1 DEF Allowed, At
    <3>2. w \notin Allowed
      BY <2>1 DEF Allowed, At
    <3>3. /\ IsFiniteSet(Allowed \cup {w})
          /\ Cardinality(Allowed \cup {w}) = Cardinality(Allowed) + 1
      BY <3>2, FS_AddElement DEF CapInv
    <3>4. /\ IsFiniteSet(Allowed')
          /\ Cardinality(Allowed') <= Cardinality(Allowed) + 1
      BY <3>1, <3>3, FS_Subset
    <3>5. Cardinality(Allowed') \in Nat
      BY <3>4, FS_CardinalityType
    <3>6. QED
      BY <1>0, <2>1, <2>3, <3>4, <3>5, MessagingAssumption DEF CapInv, TypeOK
  <2>4. QED
    BY <2>2, <2>3
<1>2. ASSUME NEW w \in Workers, Gateway(w) \/ GatewayFail(w) PROVE CapInv'
  <2>1. At(w, "send") /\ To(w) \in Recipients
    BY <1>0, <1>2, BusyFor
       DEF Gateway, GatewayAccept, GatewayReject, GatewayFail, At, Busy, TypeOK
  <2>2. /\ calls' = [calls EXCEPT ![To(w)] = @ + 1] /\ capCount' = capCount
        /\ worker'[w].at \in {"mark_sent", "refuse", "idle"}
        /\ \A v \in Workers \ {w} : worker'[v] = worker[v]
    BY <1>0, <1>2
       DEF Gateway, GatewayAccept, GatewayReject, GatewayFail, Goto, Idle, TypeOK,
           WorkersOK, Dispatches
  <2>3. Called' = Called \cup {To(w)}
    BY <1>0, <2>1, <2>2 DEF Called, TypeOK
  <2>4. Allowed' = Allowed \ {w} /\ w \in Allowed
    BY <2>1, <2>2 DEF Allowed, At
  <2>5. /\ IsFiniteSet(Called') /\ Cardinality(Called') <= Cardinality(Called) + 1
        /\ IsFiniteSet(Allowed') /\ Cardinality(Allowed') = Cardinality(Allowed) - 1
    <3>1. /\ IsFiniteSet(Called \cup {To(w)})
          /\ Cardinality(Called \cup {To(w)}) <= Cardinality(Called) + 1
      BY OneMore DEF CapInv
    <3>2. /\ IsFiniteSet(Allowed \ {w})
          /\ Cardinality(Allowed \ {w}) = Cardinality(Allowed) - 1
      BY <2>4, FS_RemoveElement DEF CapInv
    <3>3. QED
      BY <2>3, <2>4, <3>1, <3>2
  <2>6. Cardinality(Called') \in Nat /\ Cardinality(Allowed') \in Nat
    BY <2>5, FS_CardinalityType
  <2>7. QED
    BY <1>0, <2>2, <2>5, <2>6, MessagingAssumption DEF CapInv, TypeOK
<1>3. ASSUME NEW w \in Workers, Work(w) \/ Crash(w), ~CountSend(w), ~Gateway(w) PROVE CapInv'
  <2>1. calls' = calls /\ capCount' = capCount
    BY <1>3 DEF Work, Crash, Claim, FindClaim, CheckOptOut, ClaimAttempt, Refuse, MarkSent,
                RecordOutcome, Ack
  <2>2. /\ worker'[w].at \in {"attempt", "send"} => At(w, "attempt")
        /\ \A v \in Workers \ {w} : worker'[v] = worker[v]
    BY <1>0, <1>3
       DEF Work, Crash, Claim, FindClaim, CheckOptOut, ClaimAttempt, Refuse, MarkSent,
           RecordOutcome, Ack, Goto, Answer, Idle, At, TypeOK, WorkersOK, Dispatches
  <2>3. Allowed' \subseteq Allowed
    BY <2>2 DEF Allowed, At
  <2>4. QED
    BY <1>0, <2>1, <2>3, CapStands DEF Called
<1>4. ASSUME NEW w \in Workers, NEW j \in Jobs, Receive(w, j) PROVE CapInv'
  <2>1. Allowed' \subseteq Allowed
    BY <1>0, <1>4 DEF Receive, Allowed, At, TypeOK, WorkersOK
  <2>2. QED
    BY <1>0, <1>4, <2>1, CapStands DEF Receive, Called
<1>5. CASE UNCHANGED <<worker, calls, capCount>>
  BY <1>0, <1>5, CapStands DEF Called, Allowed, At
<1>6. QED
  BY <1>1, <1>2, <1>3, <1>4, <1>5
     DEF Next, vars, Enqueue, Redrive, ApplyEvent, RecordDelivery, HandlerCrash, Age, OptOut

\* No more people are sent to in a day than the cap: each attempt spends a value of
\* the shared counter before it is compared, and a value is had by one attempt.
THEOREM CapHolds == Spec => []CapRespected
<1>1. CapInv => CapRespected
  <2> SUFFICES ASSUME CapInv PROVE CapRespected
    OBVIOUS
  <2>1. Cardinality(Called) \in Nat /\ Cardinality(Allowed) \in Nat
    BY FS_CardinalityType DEF CapInv
  <2>2. Cardinality(Called) <= DailyCap
    BY <2>1, MessagingAssumption DEF CapInv
  <2>3. QED
    BY <2>2 DEF CapRespected, Called
<1>2. QED
  BY InitCap, NextCap, <1>1, PTL DEF Spec

-----------------------------------------------------------------------------
(* Nobody is forgotten. *)

Counted(r) == counts[r].sent + counts[r].refused > 0

\* An invocation has r in hand, at one of these places.
InHand(r, places) == \E w \in Workers : worker[w].at \in places /\ To(w) = r

\* An invocation is about to count r.
Answering(r) ==
    \E w \in Workers :
        /\ At(w, "mark_sent") \/ (At(w, "record") /\ worker[w].outcome # "DUPLICATE")
        /\ To(w) = r

\* Who may still decide what becomes of a claim: before the fence, or behind it.
Deciders(r) ==
    IF row[r].attempted THEN {"send", "refuse"}
    ELSE {"opt_out", "count", "attempt", "refuse"}

\* What the provider took or what was given up is counted, or is about to be; and a claim
\* that is neither has somebody to decide it.
Carried(r) ==
    /\ row[r].status = "ABSENT" => ~row[r].attempted
    /\ r \in accepted \/ row[r].status \notin {"ABSENT", "QUEUED"} => Counted(r) \/ Answering(r)
    /\ row[r].status = "QUEUED" => Counted(r) \/ Answering(r) \/ InHand(r, Deciders(r))

\* The recipient of a job that was received has a row, or is about to.
Claimed(j) ==
    receives[j] > 0 => row[j.to].status # "ABSENT" \/ InHand(j.to, {"claim"})

CarryInv ==
    /\ TypeOK
    /\ crashes = 0 =>
         /\ \A r \in Recipients : Carried(r)
         /\ \A j \in Jobs : Claimed(j)

LEMMA InitCarry == Init => CarryInv
<1> SUFFICES ASSUME Init PROVE CarryInv
  OBVIOUS
<1>1. \A r \in Recipients : Carried(r)
  BY DEF Init, Carried, NoRow
<1>2. \A j \in Jobs : Claimed(j)
  BY DEF Init, Claimed
<1>3. QED
  BY <1>1, <1>2, InitType DEF CarryInv

\* A step that leaves r alone, and whoever has it in hand, keeps what was said of it.
LEMMA CarriedStays ==
    ASSUME NEW r \in Recipients, Carried(r), row'[r] = row[r], counts'[r] = counts[r],
           r \in accepted' => r \in accepted,
           \A v \in Workers : Busy(v) /\ To(v) = r => worker'[v] = worker[v]
    PROVE  Carried(r)'
<1>1. Counted(r) => Counted(r)'
  BY DEF Counted
<1>2. Answering(r) => Answering(r)'
  BY DEF Answering, At, To, Busy
<1>3. InHand(r, Deciders(r)) => InHand(r, Deciders(r))'
  BY DEF InHand, Deciders, To, Busy
<1>4. QED
  BY <1>1, <1>2, <1>3 DEF Carried

\* An invocation that decides nothing, and goes on to where it may, or counts nothing.
LEMMA WorkCarries ==
    ASSUME TypeOK, NEW w \in Workers, Work(w), ~Ack(w),
           NEW r \in Recipients, r = To(w), Carried(r)
    PROVE  Carried(r)'
<1>0. /\ Busy(w)
      /\ worker \in [Workers -> Dispatches] /\ row \in [Recipients -> Rows]
      /\ counts \in [Recipients -> [Counters -> Nat]]
  BY BusyFor
     DEF Work, Claim, FindClaim, CheckOptOut, CountSend, ClaimAttempt, Gateway,
         GatewayAccept, GatewayReject, Refuse, MarkSent, RecordOutcome, At, Busy, TypeOK,
         WorkersOK
<1>1. /\ To(w)' = r
      /\ \A v \in Workers : v # w => worker'[v] = worker[v]
  <2>1. (\E p \in Places : Goto(w, p)) \/ (\E o \in Outcomes : Answer(w, o))
    BY DEF Work, Claim, FindClaim, CheckOptOut, CountSend, ClaimAttempt, Gateway,
           GatewayAccept, GatewayReject, Refuse, MarkSent, MarkSentAnswer, RecordOutcome,
           Places, Outcomes
  <2>2. QED
    BY <1>0, <2>1 DEF Goto, Answer, To, Dispatches
<1>2. ASSUME ~RecordOutcome(w) PROVE counts' = counts
  BY <1>2 DEF Work, Claim, FindClaim, CheckOptOut, CountSend, ClaimAttempt, Gateway,
              GatewayAccept, GatewayReject, Refuse, MarkSent
<1>3. ASSUME Answering(r), ~MarkSent(w), ~RecordOutcome(w) PROVE Answering(r)'
  <2>1. PICK v \in Workers :
               /\ At(v, "mark_sent") \/ (At(v, "record") /\ worker[v].outcome # "DUPLICATE")
               /\ To(v) = r
    BY <1>3 DEF Answering
  <2>2. v # w
    BY <1>3, <2>1 DEF Work, Claim, FindClaim, CheckOptOut, CountSend, ClaimAttempt, Gateway,
                      GatewayAccept, GatewayReject, Refuse, At
  <2>3. QED
    BY <1>1, <2>1, <2>2 DEF Answering, At, To
<1>4. ASSUME InHand(r, Deciders(r)), row'[r].attempted = row[r].attempted,
             worker[w].at \notin Deciders(r) \/ worker'[w].at \in Deciders(r)
      PROVE  InHand(r, Deciders(r))'
  BY <1>1, <1>4 DEF InHand, Deciders, To
<1>5. CASE Claim(w)
  <2>1. worker[w].at = "claim" /\ accepted' = accepted
    BY <1>5 DEF Claim, At, provider
  <2>2. CASE row[r].status = "ABSENT"
    <3>1. row'[r] = [row[r] EXCEPT !.status = "QUEUED"] /\ worker'[w].at = "opt_out"
      BY <1>0, <1>5, <2>2 DEF Claim, Goto, Dispatches
    <3>2. row'[r].status = "QUEUED" /\ ~row'[r].attempted
      BY <1>0, <2>2, <3>1 DEF Carried, Rows
    <3>3. InHand(r, Deciders(r))'
      BY <1>1, <3>1, <3>2 DEF InHand, Deciders
    <3>4. r \in accepted => Counted(r)' \/ Answering(r)'
      BY <1>2, <1>3, <1>5, <2>1 DEF Carried, Counted, MarkSent, RecordOutcome, At
    <3>5. QED
      BY <2>1, <3>2, <3>3, <3>4 DEF Carried
  <2>3. CASE row[r].status # "ABSENT"
    BY <1>2, <1>3, <1>4, <1>5, <2>1, <2>3
       DEF Claim, Carried, Counted, Deciders, MarkSent, RecordOutcome, At
  <2>4. QED
    BY <2>2, <2>3
<1>6. CASE FindClaim(w)
  BY <1>2, <1>3, <1>4, <1>6
     DEF FindClaim, Carried, Counted, Deciders, MarkSent, RecordOutcome, At, provider
<1>7. CASE CheckOptOut(w) \/ CountSend(w)
  <2>1. /\ row' = row /\ accepted' = accepted
        /\ worker[w].at \in {"opt_out", "count"}
        /\ worker'[w].at \in {"count", "attempt", "refuse"}
    BY <1>0, <1>7 DEF CheckOptOut, CountSend, Goto, At, provider, Dispatches
  <2>2. InHand(r, Deciders(r)) => InHand(r, Deciders(r))'
    BY <1>4, <2>1 DEF Deciders
  <2>3. QED
    BY <1>2, <1>3, <2>1, <2>2 DEF Carried, Counted, MarkSent, RecordOutcome, At
<1>8. CASE ClaimAttempt(w)
  <2>1. worker[w].at = "attempt" /\ accepted' = accepted
    BY <1>8 DEF ClaimAttempt, At, provider
  <2>2. CASE IfUnattempted(r)
    <3>1. row'[r] = [row[r] EXCEPT !.attempted = TRUE] /\ worker'[w].at = "send"
      BY <1>0, <1>8, <2>2 DEF ClaimAttempt, Goto, Dispatches
    <3>2. row'[r].status = "QUEUED" /\ row'[r].attempted
      BY <1>0, <2>2, <3>1 DEF IfUnattempted, Rows
    <3>3. InHand(r, Deciders(r))'
      BY <1>1, <3>1, <3>2 DEF InHand, Deciders
    <3>4. r \in accepted => Counted(r)' \/ Answering(r)'
      BY <1>2, <1>3, <1>8, <2>1 DEF Carried, Counted, MarkSent, RecordOutcome, At
    <3>5. QED
      BY <2>1, <3>2, <3>3, <3>4 DEF Carried
  <2>3. CASE ~IfUnattempted(r)
    <3>1. row' = row
      BY <1>8, <2>3 DEF ClaimAttempt
    <3>2. row[r].status = "QUEUED" /\ InHand(r, Deciders(r)) => InHand(r, Deciders(r))'
      BY <1>4, <2>1, <2>3, <3>1 DEF Deciders, IfUnattempted
    <3>3. QED
      BY <1>2, <1>3, <2>1, <3>1, <3>2 DEF Carried, Counted, MarkSent, RecordOutcome, At
  <2>4. QED
    BY <2>2, <2>3
<1>9. CASE GatewayAccept(w)
  <2>1. row' = row /\ worker'[w].at = "mark_sent"
    BY <1>0, <1>9 DEF GatewayAccept, Goto, Dispatches
  <2>2. Answering(r)'
    BY <1>1, <2>1 DEF Answering, At
  <2>3. QED
    BY <2>1, <2>2 DEF Carried
<1>10. CASE GatewayReject(w)
  <2>1. row' = row /\ accepted' = accepted /\ worker[w].at = "send" /\ worker'[w].at = "refuse"
    BY <1>0, <1>10 DEF GatewayReject, Goto, At, Dispatches
  <2>2. InHand(r, Deciders(r)) => InHand(r, Deciders(r))'
    BY <1>4, <2>1 DEF Deciders
  <2>3. QED
    BY <1>2, <1>3, <2>1, <2>2 DEF Carried, Counted, MarkSent, RecordOutcome, At
<1>11. CASE Refuse(w)
  <2>1. worker[w].at = "refuse" /\ accepted' = accepted
    BY <1>11 DEF Refuse, At, provider
  <2>2. CASE IfQueued(r)
    <3>1. /\ row'[r].status = "FAILED"
          /\ worker'[w].at = "record" /\ worker'[w].outcome = "REFUSED"
      BY <1>0, <1>11, <2>2 DEF Refuse, Answer, Dispatches, Rows
    <3>2. Answering(r)'
      BY <1>1, <3>1 DEF Answering, At
    <3>3. QED
      BY <3>1, <3>2 DEF Carried
  <2>3. CASE ~IfQueued(r)
    BY <1>2, <1>3, <1>11, <2>1, <2>3
       DEF Refuse, IfQueued, Carried, Counted, MarkSent, RecordOutcome, At
  <2>4. QED
    BY <2>2, <2>3
<1>12. CASE MarkSent(w)
  <2>1. /\ row'[r] = row[r] \/ row'[r].status = "SENT"
        /\ worker'[w].at = "record" /\ worker'[w].outcome = "ACCEPTED"
    BY <1>0, <1>12 DEF MarkSent, MarkSentAnswer, Answer, Dispatches, Rows
  <2>2. Answering(r)'
    BY <1>1, <2>1 DEF Answering, At
  <2>3. QED
    BY <2>1, <2>2 DEF Carried
<1>13. CASE RecordOutcome(w)
  <2>1. /\ row' = row /\ accepted' = accepted
        /\ worker[w].at = "record" /\ worker'[w].at = "recorded"
    BY <1>0, <1>13 DEF RecordOutcome, Goto, At, provider, Dispatches
  <2>2. InHand(r, Deciders(r)) => InHand(r, Deciders(r))'
    BY <1>4, <2>1 DEF Deciders
  <2>3. CASE IsCounted(worker[w].outcome)
    <3>1. Counted(r)'
      BY <1>0, <1>13, <2>3 DEF RecordOutcome, CounterOf, Counters, Counted
    <3>2. QED
      BY <2>1, <3>1 DEF Carried
  <2>4. CASE ~IsCounted(worker[w].outcome)
    <3>1. counts' = counts
      BY <1>13, <2>4 DEF RecordOutcome
    <3>2. Answering(r) => Answering(r)'
      BY <1>1, <2>1, <2>4 DEF Answering, IsCounted, At, To
    <3>3. QED
      BY <2>1, <2>2, <3>1, <3>2 DEF Carried, Counted
  <2>5. QED
    BY <2>3, <2>4
<1>14. QED
  BY <1>5, <1>6, <1>7, <1>8, <1>9, <1>10, <1>11, <1>12, <1>13 DEF Work, Gateway

\* Once there is a row there is one, and who claims makes one.
LEMMA ClaimedStays ==
    ASSUME TypeOK, [Next]_vars, crashes' = 0, NEW j \in Jobs, Claimed(j)
    PROVE  Claimed(j)'
<1>0. /\ j.to \in Recipients /\ RowSteps(j.to)
      /\ worker \in [Workers -> Dispatches] /\ crashes \in Nat
      /\ receives \in [Jobs -> 0 .. MaxReceives]
  BY EveryRowSteps, MessagingAssumption DEF Jobs, TypeOK, WorkersOK
<1>1. row[j.to].status # "ABSENT" => row'[j.to].status # "ABSENT"
  BY <1>0 DEF RowSteps
<1>2. ASSUME NEW w \in Workers, NEW i \in Jobs, Receive(w, i) PROVE Claimed(j)'
  <2>1. /\ worker'[w].at = "claim" /\ worker'[w].job = i
        /\ \A v \in Workers : v # w => worker'[v] = worker[v]
        /\ ~Busy(w) /\ row' = row
    BY <1>0, <1>2 DEF Receive
  <2>2. CASE i = j
    BY <2>1, <2>2 DEF Claimed, InHand, To
  <2>3. CASE i # j
    <3>1. receives'[j] = receives[j]
      BY <1>0, <1>2, <2>3 DEF Receive
    <3>2. InHand(j.to, {"claim"}) => InHand(j.to, {"claim"})'
      BY <2>1 DEF InHand, To, Busy
    <3>3. QED
      BY <2>1, <3>1, <3>2 DEF Claimed
  <2>4. QED
    BY <2>2, <2>3
<1>3. ASSUME NEW w \in Workers, Work(w) PROVE Claimed(j)'
  <2>1. /\ receives' = receives
        /\ \A v \in Workers : v # w => worker'[v] = worker[v]
    BY <1>0, <1>3
       DEF Work, Claim, FindClaim, CheckOptOut, CountSend, ClaimAttempt, Gateway,
           GatewayAccept, GatewayReject, Refuse, MarkSent, RecordOutcome, Ack, Goto, Answer,
           sqs
  <2>2. CASE Claim(w) /\ To(w) = j.to
    <3>1. row'[j.to].status # "ABSENT"
      BY <1>0, <2>2 DEF Claim, TypeOK, Rows
    <3>2. QED
      BY <3>1 DEF Claimed
  <2>3. CASE Claim(w) /\ To(w) # j.to
    BY <1>1, <2>1, <2>3 DEF Claimed, InHand, To
  <2>4. CASE ~Claim(w)
    <3>1. worker[w].at # "claim"
      BY <1>3, <2>4
         DEF Work, FindClaim, CheckOptOut, CountSend, ClaimAttempt, Gateway,
             GatewayAccept, GatewayReject, Refuse, MarkSent, RecordOutcome, Ack, At
    <3>2. QED
      BY <1>1, <2>1, <3>1 DEF Claimed, InHand, To
  <2>5. QED
    BY <2>2, <2>3, <2>4
<1>4. ASSUME receives' = receives, worker' = worker PROVE Claimed(j)'
  BY <1>1, <1>4 DEF Claimed, InHand, To
<1>5. ASSUME NEW w \in Workers, GatewayFail(w) \/ Crash(w) PROVE FALSE
  BY <1>0, <1>5 DEF GatewayFail, Crash
<1>6. ASSUME NEW i \in Jobs, Enqueue(i) \/ Redrive(i) PROVE Claimed(j)'
  BY <1>4, <1>6 DEF Enqueue, Redrive
<1>7. ASSUME NEW r \in Recipients, NEW s \in EventStatuses, ApplyEvent(r, s)
      PROVE  Claimed(j)'
  BY <1>4, <1>7 DEF ApplyEvent, sqs
<1>8. ASSUME NEW o \in Deliveries, RecordDelivery(o) \/ HandlerCrash(o) PROVE Claimed(j)'
  BY <1>4, <1>8 DEF RecordDelivery, HandlerCrash, sqs
<1>9. ASSUME NEW r \in Recipients, Age(r) \/ OptOut(r) PROVE Claimed(j)'
  BY <1>4, <1>9 DEF Age, OptOut, sqs
<1>10. CASE UNCHANGED vars
  BY <1>4, <1>10 DEF vars
<1>11. QED
  BY <1>2, <1>3, <1>5, <1>6, <1>7, <1>8, <1>9, <1>10 DEF Next

LEMMA NextCarry == CarryInv /\ [Next]_vars => CarryInv'
<1> SUFFICES ASSUME CarryInv, [Next]_vars, crashes' = 0
             PROVE  /\ \A r \in Recipients : Carried(r)'
                    /\ \A j \in Jobs : Claimed(j)'
  BY NextType DEF CarryInv
<1>0. TypeOK /\ TypeOK' /\ crashes \in Nat /\ worker \in [Workers -> Dispatches]
  BY NextType, MessagingAssumption DEF CarryInv, TypeOK, WorkersOK
<1>1. crashes = 0
  <2>1. ASSUME NEW w \in Workers, Work(w) PROVE crashes' = crashes
    BY <2>1 DEF Work, Claim, FindClaim, CheckOptOut, CountSend, ClaimAttempt, Gateway,
                GatewayAccept, GatewayReject, Refuse, MarkSent, RecordOutcome, Ack
  <2>2. ASSUME NEW w \in Workers, GatewayFail(w) \/ Crash(w) PROVE FALSE
    BY <1>0, <2>2 DEF GatewayFail, Crash
  <2>3. ASSUME NEW o \in Deliveries, HandlerCrash(o) PROVE FALSE
    BY <1>0, <2>3 DEF HandlerCrash
  <2>4. QED
    BY <2>1, <2>2, <2>3
       DEF Next, Enqueue, Redrive, Receive, ApplyEvent, RecordDelivery, Age, OptOut, vars
<1>2. \A j \in Jobs : Claimed(j)'
  BY <1>0, <1>1, ClaimedStays DEF CarryInv
<1>3. ASSUME NEW r \in Recipients PROVE Carried(r)'
  <2>0. Carried(r)
    BY <1>1 DEF CarryInv
  <2>1. ASSUME NEW w \in Workers, Work(w), ~Ack(w) PROVE Carried(r)'
    <3>1. CASE r = To(w)
      BY <1>0, <2>0, <2>1, <3>1, WorkCarries
    <3>2. CASE r # To(w)
      <4>1. row'[r] = row[r] /\ counts'[r] = counts[r] /\ (r \in accepted' => r \in accepted)
        <5> USE <1>0, <3>2 DEF TypeOK, provider
        <5>1. CASE Claim(w) \/ ClaimAttempt(w) \/ Refuse(w) \/ MarkSent(w)
          BY <5>1 DEF Claim, ClaimAttempt, Refuse, MarkSent
        <5>2. CASE FindClaim(w) \/ CheckOptOut(w) \/ CountSend(w)
          BY <5>2 DEF FindClaim, CheckOptOut, CountSend
        <5>3. CASE Gateway(w)
          BY <5>3 DEF Gateway, GatewayAccept, GatewayReject
        <5>4. CASE RecordOutcome(w)
          BY <5>4 DEF RecordOutcome
        <5>5. QED
          BY <2>1, <5>1, <5>2, <5>3, <5>4 DEF Work
      <4>2. \A v \in Workers : v # w => worker'[v] = worker[v]
        BY <1>0, <2>1
           DEF Work, Claim, FindClaim, CheckOptOut, CountSend, ClaimAttempt, Gateway,
               GatewayAccept, GatewayReject, Refuse, MarkSent, RecordOutcome, Goto, Answer
      <4>3. QED
        BY <2>0, <3>2, <4>1, <4>2, CarriedStays
    <3>3. QED
      BY <3>1, <3>2
  <2>2. ASSUME NEW w \in Workers, Ack(w) PROVE Carried(r)'
    <3>1. /\ row' = row /\ counts' = counts /\ accepted' = accepted
          /\ worker[w].at = "recorded"
          /\ \A v \in Workers : v # w => worker'[v] = worker[v]
      BY <1>0, <2>2 DEF Ack, At, provider
    <3>2. Answering(r) => Answering(r)'
      BY <3>1 DEF Answering, At, To
    <3>3. InHand(r, Deciders(r)) => InHand(r, Deciders(r))'
      BY <3>1 DEF InHand, Deciders, To
    <3>4. QED
      BY <2>0, <3>1, <3>2, <3>3 DEF Carried, Counted
  <2>3. ASSUME NEW w \in Workers, NEW j \in Jobs, Receive(w, j) PROVE Carried(r)'
    <3>1. /\ row' = row /\ counts' = counts /\ accepted' = accepted /\ ~Busy(w)
          /\ \A v \in Workers : v # w => worker'[v] = worker[v]
      BY <1>0, <2>3 DEF Receive, provider
    <3>2. QED
      BY <2>0, <3>1, CarriedStays
  <2>4. ASSUME NEW q \in Recipients, NEW s \in EventStatuses, ApplyEvent(q, s)
        PROVE  Carried(r)'
    <3>1. /\ worker' = worker /\ counts' = counts /\ accepted' = accepted /\ q \in accepted
          /\ row'[q].status \notin {"ABSENT", "QUEUED"} /\ (q # r => row'[r] = row[r])
      BY <1>0, <2>4 DEF ApplyEvent, EventStatuses, provider, TypeOK, Rows
    <3>2. CASE q = r
      <4>1. Counted(r)' \/ Answering(r)'
        BY <2>0, <3>1, <3>2 DEF Carried, Counted, Answering, At, To
      <4>2. QED
        BY <3>1, <3>2, <4>1 DEF Carried
    <3>3. CASE q # r
      BY <2>0, <3>1, <3>3, CarriedStays
    <3>4. QED
      BY <3>2, <3>3
  <2>5. ASSUME NEW o \in Deliveries, RecordDelivery(o) PROVE Carried(r)'
    <3>1. /\ row' = row /\ worker' = worker /\ accepted' = accepted
          /\ counts'[r].sent = counts[r].sent /\ counts'[r].refused = counts[r].refused
      BY <1>0, <2>5 DEF RecordDelivery, provider, TypeOK, Deliveries, Counters
    <3>2. QED
      BY <2>0, <3>1 DEF Carried, Counted, Answering, InHand, Deciders, At, To
  <2>6. ASSUME NEW q \in Recipients, Age(q) PROVE Carried(r)'
    <3>1. /\ worker' = worker /\ counts' = counts /\ accepted' = accepted
          /\ row'[r].status = row[r].status /\ row'[r].attempted = row[r].attempted
      BY <1>0, <2>6 DEF Age, provider, TypeOK, Rows
    <3>2. QED
      BY <2>0, <3>1 DEF Carried, Counted, Answering, InHand, Deciders, At, To
  <2>7. ASSUME UNCHANGED <<row, worker, counts, accepted>> PROVE Carried(r)'
    BY <2>0, <2>7, CarriedStays
  <2>8. QED
    BY <1>0, <1>1, <2>1, <2>2, <2>3, <2>4, <2>5, <2>6, <2>7
       DEF Next, Enqueue, Redrive, GatewayFail, Crash, HandlerCrash, OptOut, vars, provider
<1>4. QED
  BY <1>2, <1>3

\* Until an invocation dies: whoever's job was received is counted, as sent or as refused,
\* or an invocation has them in hand and is not yet past the count.  A worker that finds
\* the claim of another answers DUPLICATE and counts nothing, a claim that looks abandoned
\* is retaken while its owner lives, and an event may settle the row first; none of it
\* loses the count that the campaign waits for.
NobodyForgotten ==
    crashes = 0 =>
        \A j \in Jobs : receives[j] > 0 =>
            Counted(j.to) \/ InHand(j.to, Places \ {"idle", "recorded"})

THEOREM NobodyIsForgotten == Spec => []NobodyForgotten
<1>1. CarryInv => NobodyForgotten
  <2> SUFFICES ASSUME CarryInv, crashes = 0, NEW j \in Jobs, receives[j] > 0
               PROVE  Counted(j.to) \/ InHand(j.to, Places \ {"idle", "recorded"})
    BY DEF NobodyForgotten
  <2>1. j.to \in Recipients /\ Carried(j.to) /\ Claimed(j)
    BY DEF CarryInv, Jobs
  <2>2. Answering(j.to) => InHand(j.to, Places \ {"idle", "recorded"})
    BY DEF Answering, InHand, Places, At
  <2>3. InHand(j.to, {"claim"}) \/ InHand(j.to, Deciders(j.to))
          => InHand(j.to, Places \ {"idle", "recorded"})
    BY DEF InHand, Deciders, Places
  <2>4. QED
    BY <2>1, <2>2, <2>3 DEF Carried, Claimed
<1>2. QED
  BY InitCarry, NextCarry, <1>1, PTL DEF Spec

-----------------------------------------------------------------------------
(* The promise to the campaign, when no two invocations hold one recipient's jobs. *)

Uncounted(r) == counts[r].sent = 0 /\ counts[r].refused = 0

\* No two live invocations have jobs of one recipient.
OneHolder ==
    \A v, w \in Workers : Busy(v) /\ Busy(w) /\ To(v) = To(w) => v = w

\* What an invocation knows of its recipient at each of its places: an unfenced row up to
\* the attempt, an open one at the gateway and at a refusal, and the truth at the count.
PlaceOK(w) ==
    LET r == To(w) IN
    /\ worker[w].at \in {"opt_out", "count", "attempt"} => IfUnattempted(r)
    /\ worker[w].at \in {"send", "refuse"} =>
           row[r].status = "QUEUED" /\ r \notin accepted /\ Uncounted(r)
    /\ At(w, "send") => row[r].attempted
    /\ At(w, "mark_sent") => r \in accepted /\ Uncounted(r)
    /\ At(w, "record") /\ worker[w].outcome = "ACCEPTED" => r \in accepted /\ Uncounted(r)
    /\ At(w, "record") /\ worker[w].outcome = "REFUSED" =>
           row[r].status = "FAILED" /\ r \notin accepted /\ Uncounted(r)

\* Only a fenced row's message is taken, and an unfenced queued row is not counted.
RecipientOK(r) ==
    /\ row[r].status = "ABSENT" => ~row[r].attempted
    /\ r \in accepted => row[r].attempted
    /\ row[r].status = "ABSENT" \/ IfUnattempted(r) => Uncounted(r)

SerialInv ==
    /\ TypeOK
    /\ OneHolder
    /\ \A w \in Workers : Busy(w) => PlaceOK(w)
    /\ \A r \in Recipients : RecipientOK(r)

LEMMA InitSerial == Init => SerialInv
  BY InitType
     DEF Init, SerialInv, OneHolder, RecipientOK, Uncounted, IfUnattempted, Idle, Busy,
         NoRow, Counters

\* An invocation's step is about its own recipient, so it is enough to look at that one.
LEMMA HolderSteps ==
    ASSUME SerialInv, TypeOK', NEW w \in Workers, Busy(w), NEW q, q = To(w),
           \A v \in Workers \ {w} : worker'[v] = worker[v],
           Busy(w)' => To(w)' = q /\ PlaceOK(w)',
           \A r \in Recipients \ {q} :
               /\ row'[r] = row[r] /\ counts'[r] = counts[r]
               /\ r \in accepted' <=> r \in accepted,
           RecipientOK(q)'
    PROVE  SerialInv'
<1>1. OneHolder'
  BY DEF SerialInv, OneHolder, Busy, To
<1>2. ASSUME NEW v \in Workers, v # w, Busy(v)' PROVE PlaceOK(v)'
  <2>1. worker'[v] = worker[v] /\ Busy(v) /\ To(v)' = To(v)
    BY <1>2 DEF Busy, To
  <2>2. PlaceOK(v) /\ To(v) # q /\ To(v) \in Recipients
    <3>1. WorkersOK /\ \A u \in Workers : Busy(u) => PlaceOK(u)
      BY DEF SerialInv, TypeOK
    <3>2. To(v) # q
      BY <1>2, <2>1 DEF SerialInv, OneHolder
    <3>3. QED
      BY <2>1, <3>1, <3>2, BusyFor
  <2>3. /\ row'[To(v)] = row[To(v)] /\ counts'[To(v)] = counts[To(v)]
        /\ To(v) \in accepted' <=> To(v) \in accepted
    BY <2>2
  <2>4. QED
    BY <2>1, <2>2, <2>3 DEF PlaceOK, At, Uncounted, IfUnattempted
<1>3. ASSUME NEW r \in Recipients PROVE RecipientOK(r)'
  <2>1. CASE r = q
    BY <2>1
  <2>2. CASE r # q
    BY <2>2 DEF SerialInv, RecipientOK, IfUnattempted, Uncounted
  <2>3. QED
    BY <2>1, <2>2
<1>4. QED
  BY <1>1, <1>2, <1>3 DEF SerialInv

\* Where an invocation is after a move, an answer and an end.
LEMMA AfterMove ==
    ASSUME WorkersOK, NEW w \in Workers
    PROVE  /\ \A p : Goto(w, p) =>
                  /\ worker'[w].at = p /\ worker'[w].job = worker[w].job
                  /\ \A v \in Workers \ {w} : worker'[v] = worker[v]
           /\ \A o : Answer(w, o) =>
                  /\ worker'[w].at = "record" /\ worker'[w].outcome = o
                  /\ worker'[w].job = worker[w].job
                  /\ \A v \in Workers \ {w} : worker'[v] = worker[v]
  BY DEF WorkersOK, Dispatches, Goto, Answer

\* A step that moves an invocation on and writes no row, fate or count.
LEMMA HolderMoves ==
    ASSUME SerialInv, TypeOK', NEW w \in Workers, Busy(w),
           \A v \in Workers \ {w} : worker'[v] = worker[v],
           Busy(w)' => To(w)' = To(w) /\ PlaceOK(w)',
           UNCHANGED <<row, accepted, counts>>
    PROVE  SerialInv'
<1>1. To(w) \in Recipients
  BY BusyFor DEF SerialInv, TypeOK
<1>2. PICK q \in Recipients : q = To(w)
  BY <1>1
<1>3. RecipientOK(q)'
  BY <1>2 DEF SerialInv, RecipientOK, Uncounted, IfUnattempted
<1>4. Busy(w)' => To(w)' = q /\ PlaceOK(w)'
  BY <1>2
<1>5. QED
  BY <1>2, <1>3, <1>4, HolderSteps

\* Up to its answer an invocation touches only its own recipient.
LEMMA WorkSerial ==
    ASSUME SerialInv, TypeOK', NEW w \in Workers, Work(w) \/ GatewayFail(w) \/ Crash(w)
    PROVE  SerialInv'
<1> USE DEF provider, sqs
<1>0. PICK q \in Recipients :
         /\ q = To(w) /\ TypeOK /\ WorkersOK /\ Busy(w) /\ RecipientOK(q) /\ PlaceOK(w)
         /\ row \in [Recipients -> Rows] /\ counts \in [Recipients -> [Counters -> Nat]]
  <2>1. WorkersOK /\ Busy(w)
    BY DEF SerialInv, TypeOK, Busy, At, Work, Claim, FindClaim, CheckOptOut, CountSend,
           ClaimAttempt, Gateway, GatewayAccept, GatewayReject, GatewayFail, Refuse, MarkSent,
           RecordOutcome, Ack, Crash
  <2>2. QED
    BY <2>1, BusyFor DEF SerialInv, TypeOK
<1>1. CASE Claim(w)
  <2>1. CASE row[q].status = "ABSENT"
    <3>1. /\ row' = [row EXCEPT ![q].status = "QUEUED"] /\ Goto(w, "opt_out")
          /\ UNCHANGED <<accepted, counts>>
      BY <1>0, <1>1, <2>1 DEF Claim
    <3>2. /\ row'[q].status = "QUEUED" /\ ~row'[q].attempted
          /\ \A r \in Recipients \ {q} : row'[r] = row[r]
      BY <1>0, <2>1, <3>1 DEF RecipientOK, Rows
    <3>3. RecipientOK(q)'
      BY <1>0, <2>1, <3>1, <3>2 DEF RecipientOK, Uncounted, IfUnattempted
    <3>4. PlaceOK(w)' /\ To(w)' = q
      <4>1. worker'[w].at = "opt_out" /\ To(w)' = q
        BY <1>0, <3>1, AfterMove DEF To
      <4>2. QED
        BY <3>2, <4>1 DEF PlaceOK, At, IfUnattempted
    <3>5. QED
      BY <1>0, <3>1, <3>2, <3>3, <3>4, AfterMove, HolderSteps
  <2>2. CASE row[q].status # "ABSENT"
    <3>1. Goto(w, "lookup") /\ UNCHANGED <<row, accepted, counts>>
      BY <1>0, <1>1, <2>2 DEF Claim
    <3>2. PlaceOK(w)' /\ To(w)' = q
      BY <1>0, <3>1, AfterMove DEF PlaceOK, At, To
    <3>3. QED
      BY <1>0, <3>1, <3>2, AfterMove, HolderMoves
  <2>3. QED
    BY <2>1, <2>2
<1>2. CASE FindClaim(w)
  <2>1. /\ \/ Goto(w, "opt_out") /\ IfUnattempted(q)
           \/ Answer(w, "DUPLICATE")
        /\ UNCHANGED <<row, accepted, counts>>
    BY <1>0, <1>2 DEF FindClaim, IsStaleClaim, IsOldClaim, IfUnattempted
  <2>2. PlaceOK(w)' /\ To(w)' = q
    BY <1>0, <2>1, AfterMove DEF PlaceOK, At, To, IfUnattempted
  <2>3. QED
    BY <1>0, <2>1, <2>2, AfterMove, HolderMoves
<1>3. CASE CheckOptOut(w) \/ CountSend(w)
  <2>1. /\ Goto(w, "refuse") \/ Goto(w, "count") \/ Goto(w, "attempt")
        /\ worker[w].at \in {"opt_out", "count"}
        /\ UNCHANGED <<row, accepted, counts>>
    BY <1>3 DEF CheckOptOut, CountSend, At
  <2>2. row[q].status = "QUEUED" /\ IfUnattempted(q) /\ q \notin accepted /\ Uncounted(q)
    BY <1>0, <2>1 DEF PlaceOK, RecipientOK, IfUnattempted
  <2>3. PlaceOK(w)' /\ To(w)' = q
    <3>1. worker'[w].at \in {"refuse", "count", "attempt"} /\ To(w)' = q
      BY <1>0, <2>1, AfterMove DEF To
    <3>2. QED
      BY <2>1, <2>2, <3>1 DEF PlaceOK, At, IfUnattempted, Uncounted
  <2>4. QED
    BY <1>0, <2>1, <2>3, AfterMove, HolderMoves
<1>4. CASE ClaimAttempt(w)
  <2>1. IfUnattempted(q) /\ q \notin accepted /\ Uncounted(q)
    BY <1>0, <1>4 DEF ClaimAttempt, PlaceOK, RecipientOK, At, IfUnattempted
  <2>2. /\ row' = [row EXCEPT ![q].attempted = TRUE] /\ Goto(w, "send")
        /\ UNCHANGED <<accepted, counts>>
    BY <1>0, <1>4, <2>1 DEF ClaimAttempt
  <2>3. /\ row'[q].status = "QUEUED" /\ row'[q].attempted
        /\ \A r \in Recipients \ {q} : row'[r] = row[r]
    BY <1>0, <2>1, <2>2 DEF Rows, IfUnattempted
  <2>4. RecipientOK(q)'
    BY <2>3 DEF RecipientOK, IfUnattempted
  <2>5. PlaceOK(w)' /\ To(w)' = q
    <3>1. worker'[w].at = "send" /\ To(w)' = q
      BY <1>0, <2>2, AfterMove DEF To
    <3>2. QED
      BY <2>1, <2>2, <2>3, <3>1 DEF PlaceOK, At, Uncounted
  <2>6. QED
    BY <1>0, <2>2, <2>3, <2>4, <2>5, AfterMove, HolderSteps
<1>5. CASE Gateway(w) \/ GatewayFail(w)
  <2>1. /\ At(w, "send")
        /\ UNCHANGED <<row, counts>>
        /\ accepted' \in {accepted, accepted \cup {q}}
        /\ \/ Goto(w, "mark_sent") /\ q \in accepted'
           \/ Goto(w, "refuse") /\ accepted' = accepted
           \/ worker' = [worker EXCEPT ![w] = Idle]
    BY <1>0, <1>5 DEF Gateway, GatewayAccept, GatewayReject, GatewayFail
  <2>2. row[q].status = "QUEUED" /\ row[q].attempted /\ q \notin accepted /\ Uncounted(q)
    BY <1>0, <2>1 DEF PlaceOK, At
  <2>3. RecipientOK(q)'
    BY <2>1, <2>2 DEF RecipientOK, IfUnattempted
  <2>4. /\ \A v \in Workers \ {w} : worker'[v] = worker[v]
        /\ Busy(w)' => To(w)' = q /\ PlaceOK(w)'
    <3>1. CASE Goto(w, "mark_sent") /\ q \in accepted'
      <4>1. /\ worker'[w].at = "mark_sent" /\ To(w)' = q
            /\ \A v \in Workers \ {w} : worker'[v] = worker[v]
        BY <1>0, <3>1, AfterMove DEF To
      <4>2. QED
        BY <2>1, <2>2, <3>1, <4>1 DEF PlaceOK, At, Uncounted
    <3>2. CASE Goto(w, "refuse") /\ accepted' = accepted
      <4>1. /\ worker'[w].at = "refuse" /\ To(w)' = q
            /\ \A v \in Workers \ {w} : worker'[v] = worker[v]
        BY <1>0, <3>2, AfterMove DEF To
      <4>2. QED
        BY <2>1, <2>2, <3>2, <4>1 DEF PlaceOK, At, Uncounted
    <3>3. CASE worker' = [worker EXCEPT ![w] = Idle]
      BY <1>0, <3>3 DEF Busy, Idle, WorkersOK
    <3>4. QED
      BY <2>1, <3>1, <3>2, <3>3
  <2>5. QED
    BY <1>0, <2>1, <2>3, <2>4, HolderSteps
<1>6. CASE Refuse(w)
  <2>1. row[q].status = "QUEUED" /\ q \notin accepted /\ Uncounted(q)
    BY <1>0, <1>6 DEF Refuse, PlaceOK, At
  <2>2. /\ row' = [row EXCEPT ![q].status = "FAILED"] /\ Answer(w, "REFUSED")
        /\ UNCHANGED <<accepted, counts>>
    BY <1>0, <1>6, <2>1 DEF Refuse, IfQueued
  <2>3. /\ row'[q].status = "FAILED"
        /\ \A r \in Recipients \ {q} : row'[r] = row[r]
    BY <1>0, <2>2 DEF Rows
  <2>4. RecipientOK(q)'
    BY <2>1, <2>2, <2>3 DEF RecipientOK, IfUnattempted
  <2>5. PlaceOK(w)' /\ To(w)' = q
    <3>1. worker'[w].at = "record" /\ worker'[w].outcome = "REFUSED" /\ To(w)' = q
      BY <1>0, <2>2, AfterMove DEF To
    <3>2. QED
      BY <2>1, <2>2, <2>3, <3>1 DEF PlaceOK, At, Uncounted
  <2>6. QED
    BY <1>0, <2>2, <2>3, <2>4, <2>5, AfterMove, HolderSteps
<1>7. CASE MarkSent(w)
  <2>1. q \in accepted /\ Uncounted(q) /\ row[q].attempted
    BY <1>0, <1>7 DEF MarkSent, PlaceOK, RecipientOK, At
  <2>2. Answer(w, "ACCEPTED") /\ UNCHANGED <<accepted, counts>>
    BY <1>7 DEF MarkSent, MarkSentAnswer
  <2>3. /\ row'[q].attempted
        /\ row'[q].status = "ABSENT" => row[q].status = "ABSENT"
        /\ \A r \in Recipients \ {q} : row'[r] = row[r]
    BY <1>0, <1>7, <2>1 DEF MarkSent, Rows
  <2>4. RecipientOK(q)'
    BY <1>0, <2>1, <2>2, <2>3 DEF RecipientOK, IfUnattempted
  <2>5. PlaceOK(w)' /\ To(w)' = q
    <3>1. worker'[w].at = "record" /\ worker'[w].outcome = "ACCEPTED" /\ To(w)' = q
      BY <1>0, <2>2, AfterMove DEF To
    <3>2. QED
      BY <2>1, <2>2, <3>1 DEF PlaceOK, At, Uncounted
  <2>6. QED
    BY <1>0, <2>2, <2>3, <2>4, <2>5, AfterMove, HolderSteps
<1>8. CASE RecordOutcome(w)
  <2>1. Goto(w, "recorded") /\ UNCHANGED <<row, accepted>> /\ At(w, "record")
    BY <1>8 DEF RecordOutcome
  <2>2. \A r \in Recipients \ {q} : counts'[r] = counts[r]
    BY <1>0, <1>8 DEF RecordOutcome
  <2>3. RecipientOK(q)'
    <3>1. CASE worker[w].outcome = "DUPLICATE"
      BY <1>0, <1>8, <2>1, <3>1
         DEF RecordOutcome, IsCounted, RecipientOK, IfUnattempted, Uncounted
    <3>2. CASE worker[w].outcome # "DUPLICATE"
      <4>1. row[q].status # "ABSENT" /\ ~IfUnattempted(q)
        BY <1>0, <2>1, <3>2
           DEF PlaceOK, RecipientOK, IfUnattempted, WorkersOK, Dispatches, Outcomes
      <4>2. QED
        BY <1>0, <2>1, <4>1 DEF RecipientOK, IfUnattempted
    <3>3. QED
      BY <3>1, <3>2
  <2>4. PlaceOK(w)' /\ To(w)' = q
    BY <1>0, <2>1, AfterMove DEF PlaceOK, At, To
  <2>5. QED
    BY <1>0, <2>1, <2>2, <2>3, <2>4, AfterMove, HolderSteps
<1>9. CASE Ack(w) \/ Crash(w)
  <2>1. worker' = [worker EXCEPT ![w] = Idle] /\ UNCHANGED <<row, accepted, counts>>
    BY <1>9 DEF Ack, Crash
  <2>2. ~Busy(w)' /\ \A v \in Workers \ {w} : worker'[v] = worker[v]
    BY <1>0, <2>1 DEF Busy, Idle, WorkersOK
  <2>3. QED
    BY <1>0, <2>1, <2>2, HolderMoves
<1>10. QED
  BY <1>1, <1>2, <1>3, <1>4, <1>5, <1>6, <1>7, <1>8, <1>9 DEF Work

LEMMA NextSerial == ~Overlap /\ SerialInv /\ [Next]_vars => SerialInv'
<1> SUFFICES ASSUME ~Overlap, SerialInv, [Next]_vars PROVE SerialInv'
  OBVIOUS
<1> USE DEF provider, sqs
<1>0. TypeOK /\ TypeOK' /\ WorkersOK
  BY NextType DEF SerialInv, TypeOK
<1>1. ASSUME NEW w \in Workers, Work(w) \/ GatewayFail(w) \/ Crash(w) PROVE SerialInv'
  BY <1>0, <1>1, WorkSerial
<1>2. ASSUME NEW w \in Workers, NEW j \in Jobs, Receive(w, j) PROVE SerialInv'
  <2>1. /\ worker'[w].at = "claim" /\ worker'[w].job = j
        /\ \A v \in Workers \ {w} : worker'[v] = worker[v]
        /\ \A v \in Workers : Busy(v) => To(v) # j.to
        /\ UNCHANGED <<row, accepted, counts>>
    BY <1>0, <1>2 DEF Receive, WorkersOK
  <2>2. OneHolder'
    BY <2>1 DEF SerialInv, OneHolder, Busy, To
  <2>3. ASSUME NEW v \in Workers, Busy(v)' PROVE PlaceOK(v)'
    <3>1. CASE v = w
      BY <2>1, <3>1 DEF PlaceOK, At
    <3>2. CASE v # w
      BY <2>1, <2>3, <3>2 DEF SerialInv, PlaceOK, At, To, Busy, IfUnattempted, Uncounted
    <3>3. QED
      BY <3>1, <3>2
  <2>4. \A r \in Recipients : RecipientOK(r)'
    BY <2>1 DEF SerialInv, RecipientOK, IfUnattempted, Uncounted
  <2>5. QED
    BY <1>0, <2>2, <2>3, <2>4 DEF SerialInv
<1>3. ASSUME worker' = worker, accepted' = accepted,
             \A r \in Recipients :
                 /\ counts'[r].sent = counts[r].sent /\ counts'[r].refused = counts[r].refused
                 /\ row'[r].attempted = row[r].attempted
                 /\ \/ row'[r].status = row[r].status
                    \/ r \in accepted /\ row'[r].status # "ABSENT"
      PROVE  SerialInv'
  <2>1. OneHolder'
    BY <1>3 DEF SerialInv, OneHolder, Busy, To
  <2>2. ASSUME NEW v \in Workers, Busy(v)' PROVE PlaceOK(v)'
    <3>1. PICK r \in Recipients : r = To(v)
      BY <1>0, <1>3, <2>2, BusyFor DEF Busy
    <3>2. PlaceOK(v) /\ RecipientOK(r) /\ To(v)' = r
      BY <1>3, <2>2, <3>1 DEF SerialInv, Busy, To
    <3>3. QED
      BY <1>3, <3>1, <3>2 DEF PlaceOK, RecipientOK, At, IfUnattempted, Uncounted
  <2>3. \A r \in Recipients : RecipientOK(r)'
    BY <1>3 DEF SerialInv, RecipientOK, IfUnattempted, Uncounted
  <2>4. QED
    BY <1>0, <2>1, <2>2, <2>3 DEF SerialInv
<1>4. ASSUME NEW r \in Recipients, NEW s \in EventStatuses, ApplyEvent(r, s) PROVE SerialInv'
  BY <1>0, <1>3, <1>4 DEF ApplyEvent, EventStatuses, TypeOK, Rows
<1>5. ASSUME NEW o \in Deliveries, RecordDelivery(o) PROVE SerialInv'
  BY <1>0, <1>3, <1>5 DEF RecordDelivery, TypeOK, Deliveries, Counters
<1>6. ASSUME NEW r \in Recipients, Age(r) PROVE SerialInv'
  BY <1>0, <1>3, <1>6 DEF Age, TypeOK, Rows
<1>7. CASE UNCHANGED <<worker, accepted, counts, row>>
  BY <1>3, <1>7
<1>8. QED
  BY <1>1, <1>2, <1>4, <1>5, <1>6, <1>7
     DEF Next, vars, Enqueue, Redrive, HandlerCrash, OptOut

\* What the promise's variables say of one recipient.
FateOf(r) ==
    IF r \in accepted THEN "accepted"
    ELSE IF row[r].status = "FAILED" THEN "refused" ELSE "open"
ToldOf(r) == [sent |-> counts[r].sent, refused |-> counts[r].refused]

LEMMA PromiseStutters ==
    ASSUME \A r \in Recipients : FateOf(r)' = FateOf(r) /\ ToldOf(r)' = ToldOf(r)
    PROVE  UNCHANGED Promise!vars
  BY DEF Promise!vars, FateOf, ToldOf

LEMMA PromiseMet ==
    ASSUME NEW q \in Recipients, FateOf(q) = "open", FateOf(q)' \in {"accepted", "refused"},
           \A r \in Recipients \ {q} : FateOf(r)' = FateOf(r),
           \A r \in Recipients : ToldOf(r)' = ToldOf(r)
    PROVE  Promise!Next
<1> DEFINE fate == [r \in Recipients |-> FateOf(r)]
<1> DEFINE told == [r \in Recipients |-> ToldOf(r)]
<1> DEFINE f == FateOf(q)'
<1>1. told' = told
  OBVIOUS
<1>2. fate[q] = "open" /\ fate' = [fate EXCEPT ![q] = f]
  OBVIOUS
<1>3. Promise!Meet(q, "accepted") \/ Promise!Meet(q, "refused")
  BY <1>1, <1>2 DEF Promise!Meet, FateOf, ToldOf
<1>4. QED
  BY <1>3 DEF Promise!Next, Promise!Accept, Promise!Refuse

LEMMA PromiseTold ==
    ASSUME NEW q \in Recipients, NEW n \in {0, 1}, Uncounted(q),
           FateOf(q) = IF n = 1 THEN "accepted" ELSE "refused",
           counts'[q].sent = n, counts'[q].refused = 1 - n,
           \A r \in Recipients \ {q} : ToldOf(r)' = ToldOf(r),
           \A r \in Recipients : FateOf(r)' = FateOf(r)
    PROVE  Promise!Next
<1> DEFINE fate == [r \in Recipients |-> FateOf(r)]
<1> DEFINE told == [r \in Recipients |-> ToldOf(r)]
<1>1. fate' = fate /\ fate[q] = (IF n = 1 THEN "accepted" ELSE "refused")
  OBVIOUS
<1>2. told[q] = [sent |-> 0, refused |-> 0]
  BY DEF ToldOf, Uncounted
<1>3. told' = [told EXCEPT ![q] = [sent |-> n, refused |-> 1 - n]]
  BY DEF ToldOf
<1>4. /\ n = 1 => [sent |-> n, refused |-> 1 - n] = [Promise!Untold EXCEPT !.sent = 1]
      /\ n = 0 => [sent |-> n, refused |-> 1 - n] = [Promise!Untold EXCEPT !.refused = 1]
  BY DEF Promise!Untold
<1>5. told' = [told EXCEPT ![q] = IF fate[q] = "accepted"
                                  THEN [Promise!Untold EXCEPT !.sent = 1]
                                  ELSE [Promise!Untold EXCEPT !.refused = 1]]
  BY <1>1, <1>3, <1>4
<1>6. fate[q] # "open" /\ told[q] = Promise!Untold
  BY <1>1, <1>2 DEF Promise!Untold
<1>7. Promise!Tell(q)
  BY <1>1, <1>5, <1>6 DEF Promise!Tell, FateOf, ToldOf
<1>8. QED
  BY <1>7 DEF Promise!Next

LEMMA PromiseStep == SerialInv /\ [Next]_vars => [Promise!Next]_(Promise!vars)
<1> SUFFICES ASSUME SerialInv, [Next]_vars PROVE [Promise!Next]_(Promise!vars)
  OBVIOUS
<1> USE DEF provider, sqs
<1>0. /\ TypeOK /\ WorkersOK
      /\ \A w \in Workers : Busy(w) => PlaceOK(w) /\ To(w) \in Recipients
      /\ row \in [Recipients -> Rows] /\ counts \in [Recipients -> [Counters -> Nat]]
  BY BusyFor DEF SerialInv, TypeOK
<1>1. ASSUME accepted' = accepted,
             \A r \in Recipients :
                 /\ counts'[r].sent = counts[r].sent /\ counts'[r].refused = counts[r].refused
                 /\ \/ row'[r].status = row[r].status
                    \/ r \in accepted
                    \/ row[r].status # "FAILED" /\ row'[r].status # "FAILED"
      PROVE  UNCHANGED Promise!vars
  <2>1. \A r \in Recipients : FateOf(r)' = FateOf(r) /\ ToldOf(r)' = ToldOf(r)
    BY <1>1 DEF FateOf, ToldOf
  <2>2. QED
    BY <2>1, PromiseStutters
<1>2. ASSUME NEW w \in Workers, Gateway(w) \/ GatewayFail(w) PROVE [Promise!Next]_(Promise!vars)
  <2>1. /\ At(w, "send") /\ To(w) \in Recipients
        /\ row[To(w)].status = "QUEUED" /\ To(w) \notin accepted
    BY <1>0, <1>2
       DEF Gateway, GatewayAccept, GatewayReject, GatewayFail, At, Busy, PlaceOK
  <2>2. /\ UNCHANGED <<row, counts>>
        /\ accepted' \in {accepted, accepted \cup {To(w)}}
    BY <1>2 DEF Gateway, GatewayAccept, GatewayReject, GatewayFail
  <2>3. CASE accepted' = accepted
    BY <1>1, <2>2, <2>3
  <2>4. CASE accepted' = accepted \cup {To(w)}
    BY <2>1, <2>2, <2>4, PromiseMet DEF FateOf, ToldOf
  <2>5. QED
    BY <2>2, <2>3, <2>4
<1>3. ASSUME NEW w \in Workers, Refuse(w) PROVE Promise!Next
  <2>1. /\ At(w, "refuse") /\ To(w) \in Recipients
        /\ row[To(w)].status = "QUEUED" /\ To(w) \notin accepted
    BY <1>0, <1>3 DEF Refuse, At, Busy, PlaceOK
  <2>2. /\ UNCHANGED <<accepted, counts>>
        /\ row'[To(w)].status = "FAILED"
        /\ \A r \in Recipients \ {To(w)} : row'[r] = row[r]
    BY <1>0, <1>3, <2>1 DEF Refuse, IfQueued, Rows
  <2>3. QED
    BY <2>1, <2>2, PromiseMet DEF FateOf, ToldOf
<1>4. ASSUME NEW w \in Workers, RecordOutcome(w) PROVE [Promise!Next]_(Promise!vars)
  <2>1. /\ At(w, "record") /\ To(w) \in Recipients /\ PlaceOK(w)
        /\ worker[w].outcome \in Outcomes
        /\ UNCHANGED <<row, accepted>>
    BY <1>0, <1>4 DEF RecordOutcome, At, Busy, WorkersOK, Dispatches
  <2>2. CASE worker[w].outcome = "DUPLICATE"
    BY <1>1, <1>4, <2>1, <2>2 DEF RecordOutcome, IsCounted
  <2>3. CASE worker[w].outcome = "ACCEPTED"
    <3>1. To(w) \in accepted /\ Uncounted(To(w))
      BY <2>1, <2>3 DEF PlaceOK
    <3>2. counts' = [counts EXCEPT ![To(w)]["sent"] = @ + 1]
      BY <1>4, <2>3 DEF RecordOutcome, IsCounted, CounterOf
    <3>3. /\ counts'[To(w)].sent = 1 /\ counts'[To(w)].refused = 0
          /\ \A r \in Recipients \ {To(w)} : counts'[r] = counts[r]
      BY <1>0, <2>1, <3>1, <3>2 DEF Uncounted, Counters
    <3>4. FateOf(To(w)) = "accepted" /\ \A r \in Recipients : FateOf(r)' = FateOf(r)
      BY <2>1, <3>1 DEF FateOf
    <3>5. \A r \in Recipients \ {To(w)} : ToldOf(r)' = ToldOf(r)
      BY <3>3 DEF ToldOf
    <3>6. PICK q \in Recipients : q = To(w)
      BY <2>1
    <3>7. QED
      BY <3>1, <3>3, <3>4, <3>5, <3>6, PromiseTold
  <2>4. CASE worker[w].outcome = "REFUSED"
    <3>1. To(w) \notin accepted /\ row[To(w)].status = "FAILED" /\ Uncounted(To(w))
      BY <2>1, <2>4 DEF PlaceOK
    <3>2. counts' = [counts EXCEPT ![To(w)]["refused"] = @ + 1]
      BY <1>4, <2>4 DEF RecordOutcome, IsCounted, CounterOf
    <3>3. /\ counts'[To(w)].sent = 0 /\ counts'[To(w)].refused = 1
          /\ \A r \in Recipients \ {To(w)} : counts'[r] = counts[r]
      BY <1>0, <2>1, <3>1, <3>2 DEF Uncounted, Counters
    <3>4. FateOf(To(w)) = "refused" /\ \A r \in Recipients : FateOf(r)' = FateOf(r)
      BY <2>1, <3>1 DEF FateOf
    <3>5. \A r \in Recipients \ {To(w)} : ToldOf(r)' = ToldOf(r)
      BY <3>3 DEF ToldOf
    <3>6. PICK q \in Recipients : q = To(w)
      BY <2>1
    <3>7. QED
      BY <3>1, <3>3, <3>4, <3>5, <3>6, PromiseTold
  <2>5. QED
    BY <2>1, <2>2, <2>3, <2>4 DEF Outcomes
<1>5. ASSUME NEW w \in Workers, Claim(w) \/ ClaimAttempt(w) \/ MarkSent(w)
      PROVE  UNCHANGED Promise!vars
  <2>1. UNCHANGED <<accepted, counts>> /\ PlaceOK(w) /\ To(w) \in Recipients
    BY <1>0, <1>5 DEF Claim, ClaimAttempt, MarkSent, Busy, At
  <2>2. CASE Claim(w)
    BY <1>0, <1>1, <2>1, <2>2 DEF Claim, Rows
  <2>3. CASE ClaimAttempt(w)
    BY <1>0, <1>1, <2>1, <2>3 DEF ClaimAttempt, Rows
  <2>4. CASE MarkSent(w)
    <3>1. To(w) \in accepted
      BY <2>1, <2>4 DEF MarkSent, PlaceOK
    <3>2. \A r \in Recipients \ {To(w)} : row'[r] = row[r]
      BY <1>0, <2>4 DEF MarkSent
    <3>3. QED
      BY <1>1, <2>1, <3>1, <3>2
  <2>5. QED
    BY <1>5, <2>2, <2>3, <2>4
<1>6. ASSUME NEW r \in Recipients, NEW s \in EventStatuses, ApplyEvent(r, s)
      PROVE  UNCHANGED Promise!vars
  BY <1>0, <1>1, <1>6 DEF ApplyEvent
<1>7. ASSUME NEW o \in Deliveries, RecordDelivery(o) PROVE UNCHANGED Promise!vars
  BY <1>0, <1>1, <1>7 DEF RecordDelivery, Deliveries, Counters
<1>8. ASSUME NEW r \in Recipients, Age(r) PROVE UNCHANGED Promise!vars
  BY <1>0, <1>1, <1>8 DEF Age, Rows
<1>9. CASE UNCHANGED <<accepted, counts, row>>
  BY <1>1, <1>9
<1>10. QED
  BY <1>2, <1>3, <1>4, <1>5, <1>6, <1>7, <1>8, <1>9
     DEF Next, vars, Work, Enqueue, Redrive, Receive, FindClaim, CheckOptOut, CountSend, Ack,
         Crash, HandlerCrash, OptOut

\* Where no two invocations hold one recipient's jobs, the send path keeps its promise to
\* the campaign: each recipient meets one fate, and the campaign is told the truth once.
THEOREM OneFateToldOnce == ASSUME ~Overlap PROVE Spec => KeepsPromise
<1>1. Init => Promise!Init
  BY DEF Init, Promise!Init, Promise!Untold, NoRow, Counters
<1>2. SerialInv /\ [Next]_vars => SerialInv'
  BY NextSerial
<1>3. QED
  BY InitSerial, PromiseStep, <1>1, <1>2, PTL DEF Spec, KeepsPromise, Promise!Spec

=============================================================================
