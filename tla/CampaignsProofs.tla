--------------------------- MODULE CampaignsProofs ---------------------------
(***************************************************************************)
(* Theorems about Campaigns, for any people, audiences, prices, processes  *)
(* and bounds.  The invariant has two halves: what the row and the ledger  *)
(* say of each other, and what each process may count on at the place it   *)
(* has reached, although it acts on a row it read earlier.  The second     *)
(* half survives the steps of the others because the row only moves        *)
(* forward.                                                                *)
(***************************************************************************)
EXTENDS Campaigns, FiniteSetTheorems, TLAPS

\* An empty lists' cost, and a quote, are natural numbers.
LEMMA QuoteType ==
    ASSUME NEW cost \in Nat, NEW n \in Nat, n > 0
    PROVE  PerMessageQuote(cost, n) \in Nat
  BY DEF PerMessageQuote

LEMMA BillType == ASSUME NEW r \in Rows PROVE SettledOf(r) \in Nat
  BY DEF SettledOf, Rows

\* A set of positions of an audience is finite, and counted in Nat.
LEMMA PositionsCount ==
    ASSUME NEW n \in Nat, NEW S, S \subseteq 1..n
    PROVE  IsFiniteSet(S) /\ Cardinality(S) \in Nat
<1>1. IsFiniteSet(1..n)
  BY FS_Interval
<1>2. QED
  BY <1>1, FS_Subset, FS_CardinalityType

\* A priced audience is an audience somebody is to be charged for.
LEMMA QuotedType ==
    ASSUME NEW r \in Rows, NEW members \in Audiences, Chargeable(members) # {}
    PROVE  Quoted(r, members) \in Rows
<1> DEFINE n == Cardinality(Chargeable(members))
<1>0. members \in Seq(People)
  BY CampaignsAssumption
<1>1. Chargeable(members) \subseteq 1..Len(members) /\ Len(members) \in Nat
  BY <1>0 DEF Chargeable
<1>2. n \in Nat /\ IsFiniteSet(Chargeable(members))
  BY <1>1, PositionsCount
<1>3. n > 0
  BY <1>2, FS_EmptySet
<1>4. Cost[members] \in Nat
  BY CampaignsAssumption
<1>5. PerMessageQuote(Cost[members], n) \in Nat
  BY <1>2, <1>3, <1>4, QuoteType
<1>6. QED
  BY <1>2, <1>4, <1>5 DEF Quoted, Rows

LEMMA NoRowType == NoRow \in Rows /\ Drafted \in Rows /\ Idle \in Tasks
<1>1. NoRow \in Rows
  BY CampaignsAssumption DEF NoRow, Rows, Statuses, Unset
<1>2. Drafted \in Rows
  BY <1>1 DEF Drafted, Rows, Statuses
<1>3. Idle \in Tasks
  BY <1>1, CampaignsAssumption DEF Idle, Tasks, Places
<1>4. QED
  BY <1>1, <1>2, <1>3

LEMMA InitType == Init => TypeOK
  BY NoRowType, CampaignsAssumption
     DEF Init, TypeOK, Ledger, Send!Init, Send!Fates, Send!Untold

\* Somebody in an audience is one of the people.
LEMMA MemberType ==
    ASSUME NEW w \in Procs, task[w] \in Tasks
    PROVE  /\ task[w].members \in Seq(People)
           /\ Len(task[w].members) \in Nat
           /\ task[w].pos \in Nat
           /\ BatchEnd(w) \in Nat
           /\ Batch(w) \subseteq 1..Len(task[w].members)
           /\ \A i \in Batch(w) : task[w].members[i] \in People
           /\ Sendable(w) \subseteq Batch(w)
  <1>1. task[w].members \in Seq(People) /\ task[w].pos \in Nat
    BY CampaignsAssumption DEF Tasks
  <1>2. Len(task[w].members) \in Nat
    BY <1>1
  <1>3. BatchEnd(w) \in Nat /\ BatchEnd(w) <= Len(task[w].members)
    BY <1>1, <1>2, CampaignsAssumption DEF BatchEnd
  <1>4. Batch(w) \subseteq 1..Len(task[w].members)
    BY <1>1, <1>2, <1>3 DEF Batch
  <1>5. \A i \in Batch(w) : task[w].members[i] \in People
    BY <1>1, <1>4
  <1>6. QED
    BY <1>1, <1>2, <1>3, <1>4, <1>5 DEF Sendable

LEMMA CountBatchType ==
    ASSUME NEW w \in Procs, task[w] \in Tasks, row \in Rows
    PROVE  CountBatch(row, w) \in Rows
<1>0. /\ Len(task[w].members) \in Nat
      /\ Sendable(w) \subseteq 1..Len(task[w].members)
      /\ Batch(w) \ Sendable(w) \subseteq 1..Len(task[w].members)
  BY MemberType
<1> DEFINE queued == row.queued + Cardinality(Sendable(w))
           refused == row.refused + Cardinality(Batch(w) \ Sendable(w))
           recipients == Len(task[w].members)
<1>1. /\ Cardinality(Sendable(w)) \in Nat
      /\ Cardinality(Batch(w) \ Sendable(w)) \in Nat
  BY <1>0, PositionsCount
<1>2. queued \in Nat /\ refused \in Nat /\ recipients \in Nat
  BY <1>0, <1>1, SMTT(30) DEF Rows
<1>3. CountBatch(row, w) =
        [row EXCEPT !.queued = queued, !.refused = refused,
                    !.recipients = recipients, !.progress = "fresh"]
  BY DEF CountBatch
<1> HIDE DEF queued, refused, recipients
<1>4. QED
  BY <1>2, <1>3, ZenonT(40) DEF Rows

-----------------------------------------------------------------------------
(* Types. *)

LEMMA GotoType ==
    ASSUME task \in [Procs -> Tasks], NEW w \in Procs, NEW p \in Places, Goto(w, p)
    PROVE  task' \in [Procs -> Tasks]
  BY DEF Goto, Tasks

LEMMA FinishType ==
    ASSUME task \in [Procs -> Tasks], NEW w \in Procs, Finish(w)
    PROVE  task' \in [Procs -> Tasks]
  BY NoRowType DEF Finish

LEMMA SettleType ==
    ASSUME task \in [Procs -> Tasks], NEW w \in Procs, NEW r \in Rows, Settle(w, r)
    PROVE  task' \in [Procs -> Tasks]
<1>1. "complete" \in Places
  BY DEF Places
<1>2. CASE IsAllCounted(r)
  BY <1>1, <1>2 DEF Settle, Tasks
<1>3. CASE ~IsAllCounted(r)
  BY <1>3, FinishType DEF Settle
<1>4. QED
  BY <1>2, <1>3

LEMMA CreditedType ==
    ASSUME ledger \in Ledger, NEW r \in Nat, NEW s \in Nat
    PROVE  Credited(ledger, r, s) \in Ledger
<1> DEFINE back == ledger.refunded + (r - s)
<1>1. CASE r > s /\ ledger.refunds = 0
  <2>0. ledger.refunded \in Nat
    BY DEF Ledger
  <2>1. back \in Nat
    BY <1>1, <2>0
  <2>2. Credited(ledger, r, s) = [ledger EXCEPT !.refunds = 1, !.refunded = back]
    BY <1>1 DEF Credited
  <2> HIDE DEF back
  <2>3. QED
    BY <2>1, <2>2, CampaignsAssumption DEF Ledger
<1>2. CASE ~(r > s /\ ledger.refunds = 0)
  BY <1>2 DEF Credited
<1>3. QED
  BY <1>1, <1>2

LEMMA AudienceType ==
    ASSUME TypeOK, NEW r \in Rows PROVE AudienceOf(r) \in Audiences
  BY DEF AudienceOf, TypeOK, Rows

\* Requests on the draft, the list and the opt-out list.
LEMMA DraftsType ==
    ASSUME TypeOK, CreateDraft \/ SaveDraft \/ DeleteDraft \/ EditList
                   \/ \E p \in People : OptOut(p)
    PROVE  TypeOK'
<1> USE DEF TypeOK, sends, bounds
<1>1. [NoRow EXCEPT !.status = "DELETED"] \in Rows
  BY NoRowType DEF Rows, Statuses
<1>2. CASE CreateDraft
  BY <1>2, NoRowType DEF CreateDraft
<1>3. CASE SaveDraft
  BY <1>3, NoRowType, CampaignsAssumption DEF SaveDraft
<1>4. CASE DeleteDraft
  BY <1>4, <1>1, CampaignsAssumption DEF DeleteDraft
<1>5. CASE EditList
  BY <1>5, CampaignsAssumption DEF EditList
<1>6. CASE \E p \in People : OptOut(p)
  BY <1>6 DEF OptOut
<1>7. QED
  BY <1>2, <1>3, <1>4, <1>5, <1>6

\* Requests that begin, and the tick.
LEMMA BeginsType ==
    ASSUME TypeOK, NEW w \in Procs, Request(w) \/ Tick(w)
    PROVE  TypeOK'
<1> USE DEF TypeOK, sends, world
<1>1. {"reserve", "cancel", "claim", "credit", "complete", "clear"} \subseteq Places
  BY DEF Places
<1>2. CASE StartSchedule(w)
  <2>1. Quoted(row, AudienceOf(row)) \in Rows
    BY <1>2, AudienceType, QuotedType DEF StartSchedule
  <2>2. task' \in [Procs -> Tasks]
    BY <1>1, <1>2, <2>1, NoRowType DEF StartSchedule, Tasks
  <2>3. QED
    BY <1>2, <2>2 DEF StartSchedule
<1>3. ASSUME NEW people \in Audiences, NEW later \in BOOLEAN,
             QuickSend(w, people, later)
      PROVE  TypeOK'
  <2> DEFINE quick == [Drafted EXCEPT !.kind = "QUICK", !.people = people]
  <2>1. quick \in Rows
    BY NoRowType DEF Rows
  <2>2. Chargeable(people) # {}
    <3>1. people \in Seq(People) /\ people # <<>>
      BY <1>3, CampaignsAssumption DEF QuickSend
    <3>2. 1 \in DOMAIN people
      BY <3>1
    <3>3. QED
      BY <1>3, <3>2 DEF QuickSend, Chargeable
  <2>3. Quoted(quick, people) \in Rows
    BY <2>1, <2>2, QuotedType
  <2>4. task' \in [Procs -> Tasks]
    BY <1>1, <1>3, <2>3, NoRowType DEF QuickSend, Tasks
  <2>5. QED
    BY <1>3, <2>3, <2>4 DEF QuickSend
<1>4. CASE StartCancel(w)
  <2>1. task' \in [Procs -> Tasks]
    BY <1>1, <1>4, NoRowType DEF StartCancel, Start, Tasks
  <2>2. QED
    BY <1>4, <2>1 DEF StartCancel
<1>5. CASE StartTick(w)
  <2>1. task' \in [Procs -> Tasks]
    BY <1>1, <1>5, NoRowType DEF StartTick, Tasks
  <2>2. QED
    BY <1>5, <2>1 DEF StartTick
<1>6. CASE StartSweep(w)
  <2>1. SweepTo(row) \in Places
    BY <1>1 DEF SweepTo
  <2>2. task' \in [Procs -> Tasks]
    BY <1>6, <2>1, NoRowType DEF StartSweep, Tasks
  <2>3. QED
    BY <1>6, <2>2 DEF StartSweep
<1>7. QED
  BY <1>2, <1>3, <1>4, <1>5, <1>6 DEF Request, Tick

\* The send path's steps.
LEMMA SendPathType ==
    ASSUME TypeOK,
           \/ \E p \in People : Dispatch(p)
           \/ \E w \in Procs, p \in People : Tell(w, p)
           \/ RecordDelivery
    PROVE  TypeOK'
<1> USE DEF TypeOK, sends, world
<1>1. ASSUME NEW p \in People, Dispatch(p) PROVE TypeOK'
  BY <1>1 DEF Dispatch, Send!Accept, Send!Refuse, Send!Meet, Send!Fates
<1>2. ASSUME NEW w \in Procs, NEW p \in People, Tell(w, p) PROVE TypeOK'
  <2> DEFINE sent == row.sent + told'[p].sent
             refused == row.refused + told'[p].refused
             counted == [row EXCEPT !.progress = "fresh", !.sent = sent,
                                    !.refused = refused]
  <2>1. fate' = fate /\ told' \in [People -> [sent: 0..1, refused: 0..1]]
    <3>1. Send!Tell(p)
      BY <1>2 DEF Tell
    <3>2. QED
      BY <3>1 DEF Send!Tell, Send!Untold
  <2>2. sent \in Nat /\ refused \in Nat
    BY <2>1 DEF Rows
  <2>3. row' = counted /\ Settle(w, counted)
    BY <1>2 DEF Tell
  <2> HIDE DEF sent, refused
  <2>4. counted \in Rows
    BY <2>2 DEF Rows
  <2> HIDE DEF counted
  <2>5. task' \in [Procs -> Tasks]
    BY <2>3, <2>4, SettleType
  <2>6. QED
    BY <1>2, <2>1, <2>3, <2>4, <2>5 DEF Tell
<1>3. CASE RecordDelivery
  <2> DEFINE reported == row.reported + 1
  <2>1. reported \in Nat
    BY DEF Rows
  <2>2. row' = [row EXCEPT !.reported = reported, !.progress = "fresh"]
    BY <1>3 DEF RecordDelivery
  <2> HIDE DEF reported
  <2>3. row' \in Rows
    BY <2>1, <2>2 DEF Rows
  <2>4. QED
    BY <1>3, <2>3 DEF RecordDelivery
<1>4. QED
  BY <1>1, <1>2, <1>3

\* Crashes and the passing of time.
LEMMA WorldType ==
    ASSUME TypeOK,
           AgeClaim \/ AnHourPasses \/ \E w \in Procs : SendFail(w) \/ Crash(w)
    PROVE  TypeOK'
<1> USE DEF TypeOK, sends, world
<1>1. CASE AgeClaim
  BY <1>1 DEF AgeClaim, Rows
<1>2. CASE AnHourPasses
  <2> DEFINE progress == IF row.progress = "fresh" THEN "old" ELSE row.progress
             claimed == IF row.claimed \in {"fresh", "stale"} THEN "old" ELSE row.claimed
  <2>1. /\ progress \in {"never", "fresh", "old"}
        /\ claimed \in {"never", "fresh", "stale", "old"}
    BY DEF Rows
  <2>2. row' = [row EXCEPT !.progress = progress, !.claimed = claimed]
    BY <1>2 DEF AnHourPasses
  <2> HIDE DEF progress, claimed
  <2>3. row' \in Rows
    BY <2>1, <2>2 DEF Rows
  <2>4. QED
    BY <1>2, <2>3 DEF AnHourPasses
<1>3. ASSUME NEW w \in Procs, SendFail(w) PROVE TypeOK'
  <2>1. jobs' \subseteq People
    BY <1>3, MemberType DEF SendFail
  <2>2. task' \in [Procs -> Tasks]
    BY <1>3, FinishType DEF SendFail
  <2>3. QED
    BY <1>3, <2>1, <2>2, CampaignsAssumption DEF SendFail
<1>4. ASSUME NEW w \in Procs, Crash(w) PROVE TypeOK'
  <2>1. task' \in [Procs -> Tasks]
    BY <1>4, FinishType DEF Crash
  <2>2. QED
    BY <1>4, <2>1, CampaignsAssumption DEF Crash
<1>5. QED
  BY <1>1, <1>2, <1>3, <1>4

\* What a process does after it began.
LEMMA WorkType ==
    ASSUME TypeOK, NEW w \in Procs, Work(w) PROVE TypeOK'
<1> USE DEF TypeOK, sends, world
<1>1. /\ {"schedule", "claim_draft", "refund", "complete", "load", "batch",
          "advance", "credit", "mark"} \subseteq Places
      /\ {"SCHEDULED", "SENDING", "SENT", "CANCELLED"} \subseteq Statuses
  BY DEF Places, Statuses
<1>2. Snap(w) \in Rows /\ SettledOf(Snap(w)) \in Nat
  BY BillType DEF Snap, Tasks
<1>3. CASE Reserve(w)
  <2> DEFINE debited == ledger.debited + Snap(w).reserved
  <2>1. ledger' \in Ledger
    <3>1. CASE ledger' = ledger
      BY <3>1
    <3>2. CASE ledger' # ledger
      <4>1. ledger' = [ledger EXCEPT !.sends = ledger.sends + 1, !.debited = debited]
        BY <1>3, <3>2 DEF Reserve
      <4>2. ledger.sends < MaxDebits
        BY <1>3, <3>2 DEF Reserve
      <4>3. ledger.sends \in 0..MaxDebits /\ ledger.debited \in Nat
        BY DEF Ledger
      <4>4. Snap(w).reserved \in Nat
        BY <1>2 DEF Rows
      <4>5. ledger.sends + 1 \in 0..MaxDebits /\ debited \in Nat
        BY <4>2, <4>3, <4>4, CampaignsAssumption, SMTT(30)
      <4> HIDE DEF debited
      <4>6. QED
        BY <4>1, <4>5 DEF Ledger
    <3>3. QED
      BY <3>1, <3>2
  <2>2. task' \in [Procs -> Tasks]
    BY <1>1, <1>3, GotoType, FinishType DEF Reserve
  <2>3. QED
    BY <1>3, <2>1, <2>2 DEF Reserve
<1>4. CASE Schedule(w)
  <2>1. /\ Snap(w).recipients \in Nat
        /\ Snap(w).quote \in Nat
        /\ Snap(w).reserved \in Nat
    BY <1>2 DEF Rows
  <2>2. row' \in Rows
    BY <1>1, <1>4, <2>1 DEF Schedule, Rows
  <2>3. task' \in [Procs -> Tasks]
    BY <1>4, FinishType DEF Schedule
  <2>4. QED
    BY <1>4, <2>2, <2>3 DEF Schedule
<1>5. CASE ClaimDraft(w)
  <2>1. row' \in Rows
    BY <1>1, <1>5, ZenonT(40) DEF ClaimDraft, Rows
  <2>2. Snap(w).people \in Audiences /\ "hand_out" \in Places
    BY <1>2 DEF Rows, Places
  <2>3. task' \in [Procs -> Tasks]
    BY <1>5, <2>2, FinishType DEF ClaimDraft, Tasks
  <2>4. QED
    BY <1>5, <2>1, <2>3 DEF ClaimDraft
<1>6. CASE HandOut(w)
  <2>1. jobs' \subseteq People
    BY <1>6, MemberType DEF HandOut
  <2>2. BatchEnd(w) \in Nat
    BY MemberType
  <2>3. task' \in [Procs -> Tasks]
    <3>1. CASE Finish(w)
      BY <3>1, FinishType
    <3>2. CASE task' = [task EXCEPT ![w].pos = BatchEnd(w)]
      BY <2>2, <3>2 DEF Tasks
    <3>3. QED
      BY <1>6, <3>1, <3>2 DEF HandOut
  <2>4. QED
    BY <1>6, <2>1, <2>3 DEF HandOut
<1>7. CASE CancelScheduled(w)
  <2>1. row' \in Rows
    <3> DEFINE nothing == 0
    <3>1. \/ row' = row
          \/ row' = [row EXCEPT !.status = "CANCELLED", !.settled = nothing,
                                !.index = "none"]
      BY <1>7 DEF CancelScheduled
    <3>2. nothing \in Int
      OBVIOUS
    <3> HIDE DEF nothing
    <3>3. QED
      BY <1>1, <3>1, <3>2, ZenonT(40) DEF Rows
  <2>2. task' \in [Procs -> Tasks]
    BY <1>1, <1>7, GotoType, FinishType DEF CancelScheduled
  <2>3. QED
    BY <1>7, <2>1, <2>2 DEF CancelScheduled
<1>8. CASE RefundAll(w)
  <2>1. ledger' \in Ledger
    BY <1>2, <1>8, CreditedType DEF RefundAll, Rows
  <2>2. task' \in [Procs -> Tasks]
    BY <1>8, FinishType DEF RefundAll
  <2>3. QED
    BY <1>8, <2>1, <2>2 DEF RefundAll
<1>9. CASE Claim(w)
  <2>1. row' \in Rows
    BY <1>1, <1>9, ZenonT(40) DEF Claim, Rows
  <2>2. task' \in [Procs -> Tasks]
    BY <1>1, <1>9, GotoType, FinishType DEF Claim
  <2>3. QED
    BY <1>9, <2>1, <2>2 DEF Claim
<1>10. CASE Load(w)
  <2> DEFINE members == AudienceOf(Snap(w))
             cursor == Snap(w).cursor
             loaded == [task[w] EXCEPT !.at = "batch", !.members = members,
                                       !.blocked = optedOut, !.pos = cursor]
  <2>0. task' = [task EXCEPT ![w] = loaded]
    BY <1>10 DEF Load
  <2>1. members \in Audiences /\ cursor \in Nat /\ optedOut \in SUBSET People
    BY <1>2, AudienceType DEF Rows
  <2> HIDE DEF members, cursor
  <2>2. task' \in [Procs -> Tasks]
    <3>1. loaded \in Tasks
      BY <1>1, <2>1 DEF Tasks
    <3> HIDE DEF loaded
    <3>2. QED
      BY <2>0, <3>1
  <2>3. QED
    BY <1>10, <2>2 DEF Load
<1>11. CASE PlanFail(w)
  BY <1>11, FinishType DEF PlanFail
<1>12. CASE SendBatch(w)
  <2>1. jobs' \subseteq People
    BY <1>12, MemberType DEF SendBatch
  <2>2. task' \in [Procs -> Tasks]
    BY <1>1, <1>12, GotoType DEF SendBatch
  <2>3. QED
    BY <1>12, <2>1, <2>2 DEF SendBatch
<1>13. CASE Advance(w)
  <2> DEFINE counted == CountBatch(row, w)
             done == [counted EXCEPT !.cursor = 0, !.index = "sending"]
  <2>1. counted \in Rows /\ BatchEnd(w) \in Nat
    BY CountBatchType, MemberType
  <2>2. done \in Rows /\ [counted EXCEPT !.cursor = BatchEnd(w)] \in Rows
    BY <2>1 DEF Rows
  <2> HIDE DEF counted, done
  <2>3. CASE IsLastBatch(w)
    <3>1. row' = done /\ Settle(w, done)
      BY <1>13, <2>3 DEF Advance, counted, done
    <3>2. task' \in [Procs -> Tasks]
      BY <2>2, <3>1, SettleType
    <3>3. QED
      BY <1>13, <2>2, <3>1, <3>2 DEF Advance
  <2>4. CASE ~IsLastBatch(w)
    <3>1. /\ row' = [counted EXCEPT !.cursor = BatchEnd(w)]
          /\ task' = [task EXCEPT ![w].at = "batch", ![w].pos = BatchEnd(w)]
      BY <1>13, <2>4 DEF Advance, counted
    <3>2. task' \in [Procs -> Tasks]
      BY <1>1, <2>1, <3>1, ZenonT(40) DEF Tasks
    <3>3. QED
      BY <1>13, <2>2, <3>1, <3>2 DEF Advance
  <2>5. QED
    BY <2>3, <2>4
<1>14. CASE Complete(w)
  <2>1. row' \in Rows
    BY <1>1, <1>14, ZenonT(40) DEF Complete, Rows
  <2>2. task' \in [Procs -> Tasks]
    BY <1>1, <1>14, GotoType, FinishType DEF Complete
  <2>3. QED
    BY <1>14, <2>1, <2>2 DEF Complete
<1>15. CASE Credit(w)
  <2>1. ledger' \in Ledger
    BY <1>2, <1>15, CreditedType DEF Credit, Rows
  <2>2. task' \in [Procs -> Tasks]
    BY <1>1, <1>15, GotoType DEF Credit
  <2>3. QED
    BY <1>15, <2>1, <2>2 DEF Credit
<1>16. CASE MarkSettled(w)
  <2> DEFINE bill == SettledOf(Snap(w))
  <2>0. row' = row \/ row' = [row EXCEPT !.settled = bill, !.index = "none"]
    BY <1>16 DEF MarkSettled
  <2>1. row' \in Rows
    <3>1. bill \in Int
      BY <1>2
    <3> HIDE DEF bill
    <3>2. QED
      BY <2>0, <3>1, ZenonT(40) DEF Rows
  <2>2. task' \in [Procs -> Tasks]
    BY <1>16, FinishType DEF MarkSettled
  <2>3. QED
    BY <1>16, <2>1, <2>2 DEF MarkSettled
<1>17. CASE ClearIndex(w)
  <2>1. row' \in Rows
    BY <1>17 DEF ClearIndex, Rows
  <2>2. task' \in [Procs -> Tasks]
    BY <1>17, FinishType DEF ClearIndex
  <2>3. QED
    BY <1>17, <2>1, <2>2 DEF ClearIndex
<1>18. QED
  BY <1>3, <1>4, <1>5, <1>6, <1>7, <1>8, <1>9, <1>10, <1>11, <1>12, <1>13,
     <1>14, <1>15, <1>16, <1>17 DEF Work

LEMMA NextType == TypeOK /\ [Next]_vars => TypeOK'
<1> SUFFICES ASSUME TypeOK, [Next]_vars PROVE TypeOK'
  OBVIOUS
<1>1. CASE UNCHANGED vars
  BY <1>1 DEF vars, TypeOK
<1>2. QED
  BY <1>1, DraftsType, BeginsType, SendPathType, WorldType, WorkType DEF Next

\* The types of a campaign's row, ledger and processes hold in every reachable
\* state: no counter, refund or bill goes below zero.
THEOREM TypeCorrect == Spec => []TypeOK
  BY InitType, NextType, PTL DEF Spec

-----------------------------------------------------------------------------
(* The row, the ledger and the processes. *)

UnderWay(r) == r.status \in {"SENDING", "SENT"}
WasReserved(r) == r.status \in {"SCHEDULED", "SENDING", "SENT", "CANCELLED"}

\* What the row says of the index, the ledger and the jobs.
RowInv ==
    /\ row.status = "SCHEDULED" => row.index = "due"
    /\ row.status = "SENDING" => row.index \in {"due", "sending"}
    /\ row.status = "SENT" /\ row.settled = Unset => row.index = "sending"
    /\ row.index = "sending" => UnderWay(row)
    /\ row.settled # Unset => row.status \in {"SENT", "CANCELLED"}
    /\ WasReserved(row) => row.reserved <= ledger.debited
    /\ jobs # {} => UnderWay(row)
    /\ \A p \in People : fate[p] # "open" => p \in jobs

LedgerInv ==
    /\ ledger.refunds = 1 => row.status \in {"SENT", "CANCELLED"}
    /\ ledger.refunds = 0 => ledger.refunded = 0
    /\ ledger.refunded <= ledger.debited

\* What a process may count on at its place.  The plan of a quick send that is
\* to be sent at once covers the reservation its draft states.
TaskInv(w) ==
    /\ task[w].at \in {"hand_out", "load", "batch", "advance", "complete"} => UnderWay(row)
    /\ task[w].at \in {"credit", "mark"} => row.status = "SENT"
    /\ task[w].at = "refund" => row.status = "CANCELLED"
    /\ task[w].at = "clear" => row.status = "SENT" /\ row.settled # Unset
    /\ task[w].at \notin {"idle", "reserve", "clear"} =>
           task[w].snap.reserved <= ledger.debited
    /\ task[w].at \in {"reserve", "claim_draft"} /\ ~task[w].later
           /\ row.status = "DRAFT" => row.reserved <= task[w].snap.reserved
    /\ task[w].at = "claim_draft" => ~task[w].later
    /\ task[w].at # "idle" => row.status # "NONE"

Inv == RowInv /\ LedgerInv /\ \A w \in Procs : TaskInv(w)

\* The row only moves forward, and what was debited stays debited.
Forward ==
    /\ row'.status = "NONE" => row.status = "NONE"
    /\ row'.status = "DRAFT" =>
           row.status = "NONE" \/ (row.status = "DRAFT" /\ row'.reserved <= row.reserved)
    /\ UnderWay(row) => UnderWay(row')
    /\ row.status \in {"SENT", "CANCELLED"} => row'.status = row.status
    /\ row.settled # Unset => row'.settled = row.settled
    /\ ledger.debited <= ledger'.debited

LEMMA InitInv == Init => Inv
  BY DEF Init, Inv, RowInv, LedgerInv, TaskInv, NoRow, Unset, UnderWay, WasReserved,
         Idle, Send!Init

\* Credits leave what was debited alone.
LEMMA CreditedDebits ==
    ASSUME ledger \in Ledger, NEW r \in Nat, NEW s \in Nat
    PROVE  Credited(ledger, r, s).debited = ledger.debited
  BY DEF Credited, Ledger

LEMMA NextForward ==
    ASSUME TypeOK, Inv, [Next]_vars PROVE Forward
<1> USE DEF Forward, UnderWay, sends, world, bounds
<1>1. row \in Rows /\ ledger \in Ledger /\ task \in [Procs -> Tasks]
  BY DEF TypeOK
<1>2. ledger.debited \in Nat /\ row.reserved \in Nat
  BY <1>1 DEF Ledger, Rows
<1>3. ASSUME row' = row, ledger'.debited = ledger.debited PROVE Forward
  BY <1>2, <1>3
<1>4. ASSUME row'.status = row.status, row'.settled = row.settled,
             row'.reserved = row.reserved, ledger' = ledger
      PROVE  Forward
  BY <1>2, <1>4
<1>5. CASE CreateDraft \/ SaveDraft \/ DeleteDraft
  BY <1>2, <1>5 DEF CreateDraft, SaveDraft, DeleteDraft, Drafted, NoRow, Inv, RowInv
<1>6. CASE EditList \/ \E p \in People : OptOut(p) \/ Dispatch(p)
  BY <1>3, <1>6 DEF EditList, OptOut, Dispatch
<1>7. ASSUME NEW w \in Procs, Request(w) \/ Tick(w) PROVE Forward
  <2>1. CASE StartSchedule(w) \/ StartCancel(w) \/ Tick(w)
    BY <1>3, <2>1 DEF StartSchedule, StartCancel, Tick, StartTick, StartSweep
  <2>2. ASSUME NEW people \in Audiences, NEW later \in BOOLEAN,
               QuickSend(w, people, later)
        PROVE  Forward
    <3>1. row.status = "NONE" /\ row'.status = "DRAFT" /\ ledger' = ledger
      BY <2>2 DEF QuickSend, Quoted, Drafted, NoRow
    <3>2. row.settled = Unset
      BY <3>1 DEF Inv, RowInv
    <3>3. QED
      BY <1>2, <3>1, <3>2
  <2>3. QED
    BY <1>7, <2>1, <2>2 DEF Request
<1>8. ASSUME NEW w \in Procs, Work(w) PROVE Forward
  <2>1. Snap(w) \in Rows /\ Snap(w).reserved \in Nat /\ SettledOf(Snap(w)) \in Nat
    BY <1>1, BillType DEF Snap, Tasks, Rows
  <2>2. CASE Reserve(w)
    <3>1. /\ row' = row
          /\ ledger'.debited \in {ledger.debited, ledger.debited + Snap(w).reserved}
      BY <1>1, <2>2 DEF Reserve, Ledger
    <3>2. QED
      BY <1>2, <2>1, <3>1
  <2>3. CASE Schedule(w)
    BY <1>1, <1>2, <2>3, <1>3 DEF Schedule, IsDraft, Rows, Inv, RowInv
  <2>4. CASE ClaimDraft(w)
    <3>1. CASE IsDraft(row)
      <4>1. /\ row.status = "DRAFT"
            /\ row'.status = "SENDING"
            /\ ledger' = ledger
        BY <1>1, <2>4, <3>1 DEF ClaimDraft, IsDraft, Rows
      <4>2. row.settled = Unset
        BY <4>1 DEF Inv, RowInv
      <4>3. QED
        BY <1>2, <4>1, <4>2
    <3>2. CASE ~IsDraft(row)
      BY <1>3, <2>4, <3>2 DEF ClaimDraft
    <3>3. QED
      BY <3>1, <3>2
  <2>5. CASE HandOut(w) \/ Load(w) \/ PlanFail(w) \/ SendBatch(w)
    BY <1>3, <2>5 DEF HandOut, Load, PlanFail, SendBatch
  <2>6. CASE CancelScheduled(w)
    <3>1. CASE IsScheduled(row)
      <4>1. /\ row.status = "SCHEDULED"
            /\ row'.status = "CANCELLED"
            /\ ledger' = ledger
        BY <1>1, <2>6, <3>1 DEF CancelScheduled, IsScheduled, Rows
      <4>2. row.settled = Unset
        BY <4>1 DEF Inv, RowInv
      <4>3. QED
        BY <1>2, <4>1, <4>2
    <3>2. CASE ~IsScheduled(row)
      BY <1>3, <2>6, <3>2 DEF CancelScheduled
    <3>3. QED
      BY <3>1, <3>2
  <2>7. CASE RefundAll(w) \/ Credit(w)
    BY <1>1, <1>3, <2>1, <2>7, CreditedDebits DEF RefundAll, Credit
  <2>8. CASE Claim(w)
    <3>1. CASE IsClaimable(row)
      <4>1. /\ row.status \in {"SCHEDULED", "SENDING"}
            /\ row'.status = "SENDING"
            /\ ledger' = ledger
        BY <1>1, <2>8, <3>1 DEF Claim, IsClaimable, Rows
      <4>2. row.settled = Unset
        BY <4>1 DEF Inv, RowInv
      <4>3. QED
        BY <1>2, <4>1, <4>2
    <3>2. CASE ~IsClaimable(row)
      BY <1>3, <2>8, <3>2 DEF Claim
    <3>3. QED
      BY <3>1, <3>2
  <2>9. CASE Advance(w)
    BY <1>1, <1>4, <2>9 DEF Advance, CountBatch, Rows
  <2>10. CASE Complete(w)
    <3>1. CASE IsCounted(row, Snap(w))
      <4>1. /\ row.status = "SENDING"
            /\ row'.status = "SENT"
            /\ ledger' = ledger
        BY <1>1, <2>10, <3>1 DEF Complete, IsCounted, Rows
      <4>2. row.settled = Unset
        BY <4>1 DEF Inv, RowInv
      <4>3. QED
        BY <1>2, <4>1, <4>2
    <3>2. CASE ~IsCounted(row, Snap(w))
      BY <1>3, <2>10, <3>2 DEF Complete
    <3>3. QED
      BY <3>1, <3>2
  <2>11. CASE MarkSettled(w)
    BY <1>1, <1>2, <2>11, <1>3 DEF MarkSettled, IsUnsettled, Rows
  <2>12. CASE ClearIndex(w)
    BY <1>1, <1>4, <2>12 DEF ClearIndex, Rows
  <2>13. QED
    BY <1>8, <2>2, <2>3, <2>4, <2>5, <2>6, <2>7, <2>8, <2>9, <2>10, <2>11, <2>12
       DEF Work
<1>9. ASSUME NEW w \in Procs, SendFail(w) \/ Crash(w) PROVE Forward
  BY <1>3, <1>9 DEF SendFail, Crash
<1>10. ASSUME NEW w \in Procs, NEW p \in People, Tell(w, p) PROVE Forward
  BY <1>1, <1>4, <1>10 DEF Tell, Rows
<1>11. CASE RecordDelivery \/ AgeClaim \/ AnHourPasses
  BY <1>1, <1>4, <1>11 DEF RecordDelivery, AgeClaim, AnHourPasses, Rows
<1>12. CASE UNCHANGED vars
  BY <1>3, <1>12 DEF vars
<1>13. QED
  BY <1>5, <1>6, <1>7, <1>8, <1>9, <1>10, <1>11, <1>12 DEF Next

LEMMA NextRow ==
    ASSUME TypeOK, Inv, [Next]_vars, Forward PROVE RowInv'
<1> USE DEF RowInv, UnderWay, WasReserved, sends, world, bounds
<1>1. row \in Rows /\ ledger \in Ledger /\ task \in [Procs -> Tasks]
  BY DEF TypeOK
<1>2. /\ ledger.debited \in Nat /\ row.reserved \in Nat
      /\ ledger'.debited \in Nat /\ ledger.debited <= ledger'.debited
  BY <1>1, NextType DEF Ledger, Rows, TypeOK, Forward
<1>3. RowInv
  BY DEF Inv
\* A step that leaves the index and what goes with it alone.
<1>4. ASSUME row'.status = row.status, row'.settled = row.settled,
             row'.reserved = row.reserved, row'.index = row.index,
             jobs' = jobs \/ UnderWay(row), fate' = fate, jobs \subseteq jobs'
      PROVE  RowInv'
  BY <1>2, <1>3, <1>4
\* A step to a row of another status, of which no job was queued before.
<1>5. CASE CreateDraft \/ SaveDraft \/ DeleteDraft
  BY <1>1, <1>2, <1>3, <1>5
     DEF CreateDraft, SaveDraft, DeleteDraft, Drafted, NoRow, Unset
<1>6. CASE EditList \/ \E p \in People : OptOut(p)
  BY <1>3, <1>4, <1>6 DEF EditList, OptOut
<1>7. ASSUME NEW p \in People, Dispatch(p) PROVE RowInv'
  <2>1. row' = row /\ jobs' = jobs /\ ledger' = ledger
    BY <1>7 DEF Dispatch
  <2>2. \A q \in People : fate'[q] # "open" => q \in jobs
    BY <1>3, <1>7 DEF Dispatch, Send!Accept, Send!Refuse, Send!Meet, TypeOK
  <2>3. QED
    BY <1>3, <2>1, <2>2
<1>8. ASSUME NEW w \in Procs, Request(w) \/ Tick(w) PROVE RowInv'
  <2>1. CASE StartSchedule(w) \/ StartCancel(w) \/ Tick(w)
    BY <1>4, <2>1 DEF StartSchedule, StartCancel, Tick, StartTick, StartSweep
  <2>2. ASSUME NEW people \in Audiences, NEW later \in BOOLEAN,
               QuickSend(w, people, later)
        PROVE  RowInv'
    <3>1. /\ row.status = "NONE" /\ ledger' = ledger /\ jobs' = jobs /\ fate' = fate
          /\ row'.status = "DRAFT" /\ row'.index = "none" /\ row'.settled = Unset
      BY <2>2 DEF QuickSend, Quoted, Drafted, NoRow
    <3>2. QED
      BY <1>3, <3>1
  <2>3. QED
    BY <1>8, <2>1, <2>2 DEF Request
<1>9. ASSUME NEW w \in Procs, Work(w) PROVE RowInv'
  <2>1. TaskInv(w)
    BY DEF Inv
  <2>2. Snap(w) \in Rows /\ Snap(w).reserved \in Nat
    BY <1>1 DEF Snap, Tasks, Rows
  <2>3. CASE Reserve(w) \/ RefundAll(w) \/ Credit(w) \/ Load(w) \/ PlanFail(w)
    BY <1>4, <2>3 DEF Reserve, RefundAll, Credit, Load, PlanFail
  <2>4. CASE HandOut(w) \/ SendBatch(w)
    <3>1. UnderWay(row) /\ row' = row /\ fate' = fate /\ jobs \subseteq jobs'
      BY <2>1, <2>4 DEF HandOut, SendBatch, At, TaskInv
    <3>2. QED
      BY <1>4, <3>1
  <2>5. CASE Schedule(w)
    <3>1. CASE IsDraft(row)
      <4>1. /\ row.status = "DRAFT" /\ ledger' = ledger /\ jobs' = jobs /\ fate' = fate
            /\ row'.status = "SCHEDULED" /\ row'.index = "due"
            /\ row'.settled = row.settled /\ row'.reserved = Snap(w).reserved
        BY <1>1, <2>5, <3>1 DEF Schedule, IsDraft, Rows
      <4>2. Snap(w).reserved <= ledger.debited
        BY <2>1, <2>5 DEF Schedule, At, TaskInv, Snap
      <4>3. QED
        BY <1>3, <4>1, <4>2
    <3>2. CASE ~IsDraft(row)
      BY <1>4, <2>5, <3>2 DEF Schedule
    <3>3. QED
      BY <3>1, <3>2
  <2>6. CASE ClaimDraft(w)
    <3>1. CASE IsDraft(row)
      <4>1. /\ row.status = "DRAFT" /\ ledger' = ledger /\ jobs' = jobs /\ fate' = fate
            /\ row'.status = "SENDING" /\ row'.index = "sending"
            /\ row'.settled = row.settled /\ row'.reserved = row.reserved
        BY <1>1, <2>6, <3>1 DEF ClaimDraft, IsDraft, Rows
      <4>2. row.reserved <= Snap(w).reserved /\ Snap(w).reserved <= ledger.debited
        BY <2>1, <2>6, <4>1 DEF ClaimDraft, At, TaskInv, Snap
      <4>3. QED
        BY <1>2, <1>3, <2>2, <4>1, <4>2
    <3>2. CASE ~IsDraft(row)
      BY <1>4, <2>6, <3>2 DEF ClaimDraft
    <3>3. QED
      BY <3>1, <3>2
  <2>7. CASE CancelScheduled(w)
    <3>1. CASE IsScheduled(row)
      <4>1. /\ row.status = "SCHEDULED" /\ ledger' = ledger /\ jobs' = jobs /\ fate' = fate
            /\ row'.status = "CANCELLED" /\ row'.index = "none"
            /\ row'.reserved = row.reserved
        BY <1>1, <2>7, <3>1 DEF CancelScheduled, IsScheduled, Rows
      <4>2. QED
        BY <1>3, <4>1
    <3>2. CASE ~IsScheduled(row)
      BY <1>4, <2>7, <3>2 DEF CancelScheduled
    <3>3. QED
      BY <3>1, <3>2
  <2>8. CASE Claim(w)
    <3>1. CASE IsClaimable(row)
      <4>1. /\ row.status \in {"SCHEDULED", "SENDING"}
            /\ ledger' = ledger /\ jobs' = jobs /\ fate' = fate
            /\ row'.status = "SENDING" /\ row'.index = row.index
            /\ row'.reserved = row.reserved /\ row'.settled = row.settled
        BY <1>1, <2>8, <3>1 DEF Claim, IsClaimable, Rows
      <4>2. QED
        BY <1>3, <4>1
    <3>2. CASE ~IsClaimable(row)
      BY <1>4, <2>8, <3>2 DEF Claim
    <3>3. QED
      BY <3>1, <3>2
  <2>9. CASE Advance(w)
    <3>1. UnderWay(row) /\ ledger' = ledger /\ jobs' = jobs /\ fate' = fate
      BY <2>1, <2>9 DEF Advance, At, TaskInv
    <3>2. /\ row'.status = row.status /\ row'.settled = row.settled
          /\ row'.reserved = row.reserved /\ row'.index \in {row.index, "sending"}
      BY <1>1, <2>9 DEF Advance, CountBatch, Rows
    <3>3. QED
      BY <1>3, <3>1, <3>2
  <2>10. CASE Complete(w)
    <3>1. CASE IsCounted(row, Snap(w))
      <4>1. /\ row.status = "SENDING" /\ ledger' = ledger /\ jobs' = jobs /\ fate' = fate
            /\ row'.status = "SENT" /\ row'.index = "sending"
            /\ row'.reserved = row.reserved /\ row'.settled = row.settled
        BY <1>1, <2>10, <3>1 DEF Complete, IsCounted, Rows
      <4>2. QED
        BY <1>3, <4>1
    <3>2. CASE ~IsCounted(row, Snap(w))
      BY <1>4, <2>10, <3>2 DEF Complete
    <3>3. QED
      BY <3>1, <3>2
  <2>11. CASE MarkSettled(w)
    <3>1. CASE IsUnsettled(row)
      <4>1. /\ row.status = "SENT" /\ ledger' = ledger /\ jobs' = jobs /\ fate' = fate
            /\ row'.status = "SENT" /\ row'.index = "none"
            /\ row'.reserved = row.reserved /\ row'.settled = SettledOf(Snap(w))
        BY <1>1, <2>11, <3>1 DEF MarkSettled, IsUnsettled, Rows
      <4>2. SettledOf(Snap(w)) # Unset
        BY <2>2, BillType DEF Unset
      <4>3. QED
        BY <1>3, <4>1, <4>2
    <3>2. CASE ~IsUnsettled(row)
      BY <1>4, <2>11, <3>2 DEF MarkSettled
    <3>3. QED
      BY <3>1, <3>2
  <2>12. CASE ClearIndex(w)
    <3>1. /\ row.status = "SENT" /\ row.settled # Unset
          /\ ledger' = ledger /\ jobs' = jobs /\ fate' = fate
      BY <2>1, <2>12 DEF ClearIndex, At, TaskInv
    <3>2. /\ row'.status = row.status /\ row'.settled = row.settled
          /\ row'.reserved = row.reserved /\ row'.index = "none"
      BY <1>1, <2>12 DEF ClearIndex, Rows
    <3>3. QED
      BY <1>3, <3>1, <3>2
  <2>13. QED
    BY <1>9, <2>3, <2>4, <2>5, <2>6, <2>7, <2>8, <2>9, <2>10, <2>11, <2>12 DEF Work
<1>10. ASSUME NEW w \in Procs, SendFail(w) \/ Crash(w) PROVE RowInv'
  <2>1. TaskInv(w)
    BY DEF Inv
  <2>2. row' = row /\ fate' = fate /\ jobs \subseteq jobs' /\ (jobs' = jobs \/ UnderWay(row))
    BY <1>10, <2>1 DEF SendFail, Crash, At, TaskInv
  <2>3. QED
    BY <1>4, <2>2
<1>11. ASSUME NEW w \in Procs, NEW p \in People, Tell(w, p) PROVE RowInv'
  BY <1>1, <1>4, <1>11 DEF Tell, Send!Tell, Rows
<1>12. CASE RecordDelivery \/ AgeClaim \/ AnHourPasses
  BY <1>1, <1>4, <1>12 DEF RecordDelivery, AgeClaim, AnHourPasses, Rows
<1>13. CASE UNCHANGED vars
  BY <1>4, <1>13 DEF vars
<1>14. QED
  BY <1>5, <1>6, <1>7, <1>8, <1>9, <1>10, <1>11, <1>12, <1>13 DEF Next

\* A credit of at most what was debited keeps the ledger in order.
LEMMA CreditedInv ==
    ASSUME TypeOK, LedgerInv, NEW r \in Nat, NEW s \in Nat, r <= ledger.debited,
           ledger' = Credited(ledger, r, s),
           row'.status \in {"SENT", "CANCELLED"}
    PROVE  LedgerInv'
<1>1. ledger \in Ledger /\ ledger' \in Ledger
  BY CreditedType DEF TypeOK
<1>2. CASE r > s /\ ledger.refunds = 0
  <2> DEFINE back == ledger.refunded + (r - s)
  <2>1. ledger.refunded = 0 /\ ledger.debited \in Nat
    BY <1>1, <1>2 DEF LedgerInv, Ledger
  <2>2. back \in Nat /\ back <= ledger.debited
    BY <1>2, <2>1
  <2>3. ledger' = [ledger EXCEPT !.refunds = 1, !.refunded = back]
    BY <1>2 DEF Credited
  <2> HIDE DEF back
  <2>4. ledger'.refunds = 1 /\ ledger'.refunded = back /\ ledger'.debited = ledger.debited
    BY <1>1, <2>3 DEF Ledger
  <2>5. QED
    BY <2>2, <2>4 DEF LedgerInv
<1>3. CASE ~(r > s /\ ledger.refunds = 0)
  BY <1>3 DEF Credited, LedgerInv
<1>4. QED
  BY <1>2, <1>3

LEMMA NextLedger ==
    ASSUME TypeOK, Inv, [Next]_vars, Forward PROVE LedgerInv'
<1> USE DEF sends, world, bounds
<1>1. row \in Rows /\ ledger \in Ledger /\ task \in [Procs -> Tasks]
  BY DEF TypeOK
<1>2. LedgerInv
  BY DEF Inv
<1>3. ASSUME ledger' = ledger PROVE LedgerInv'
  BY <1>2, <1>3 DEF LedgerInv, Forward
<1>4. CASE CreateDraft \/ SaveDraft \/ DeleteDraft \/ EditList
  BY <1>3, <1>4 DEF CreateDraft, SaveDraft, DeleteDraft, EditList
<1>5. CASE \E p \in People : OptOut(p) \/ Dispatch(p)
  BY <1>3, <1>5 DEF OptOut, Dispatch
<1>6. ASSUME NEW w \in Procs, Request(w) \/ Tick(w) PROVE LedgerInv'
  BY <1>3, <1>6 DEF Request, Tick, StartSchedule, StartCancel, QuickSend,
                    StartTick, StartSweep
<1>7. ASSUME NEW w \in Procs, Work(w) PROVE LedgerInv'
  <2>1. TaskInv(w)
    BY DEF Inv
  <2>2. Snap(w) \in Rows /\ Snap(w).reserved \in Nat /\ SettledOf(Snap(w)) \in Nat
    BY <1>1, BillType DEF Snap, Tasks, Rows
  <2>3. CASE Reserve(w)
    <3> DEFINE debited == ledger.debited + Snap(w).reserved
               count == ledger.sends + 1
    <3>1. row' = row
      BY <2>3 DEF Reserve
    <3>2. \/ ledger' = ledger
          \/ ledger' = [ledger EXCEPT !.sends = count, !.debited = debited]
      BY <2>3 DEF Reserve
    <3>3. ledger.debited \in Nat /\ ledger.refunded \in Nat
      BY <1>1 DEF Ledger
    <3>4. debited \in Nat /\ ledger.debited <= debited
      BY <2>2, <3>3
    <3> HIDE DEF debited, count
    <3>5. ledger'.refunds = ledger.refunds /\ ledger'.refunded = ledger.refunded
      BY <1>1, <3>2 DEF Ledger
    <3>6. ledger'.debited \in {ledger.debited, debited}
      BY <1>1, <3>2 DEF Ledger
    <3>7. QED
      BY <1>2, <3>1, <3>3, <3>4, <3>5, <3>6 DEF LedgerInv
  <2>4. CASE RefundAll(w)
    <3>1. row.status = "CANCELLED" /\ Snap(w).reserved <= ledger.debited
      BY <2>1, <2>4 DEF RefundAll, At, TaskInv, Snap
    <3>2. row' = row /\ ledger' = Credited(ledger, Snap(w).reserved, 0)
      BY <2>4 DEF RefundAll
    <3>3. QED
      BY <1>2, <2>2, <3>1, <3>2, CreditedInv
  <2>5. CASE Credit(w)
    <3>1. row.status = "SENT" /\ Snap(w).reserved <= ledger.debited
      BY <2>1, <2>5 DEF Credit, At, TaskInv, Snap
    <3>2. row' = row /\ ledger' = Credited(ledger, Snap(w).reserved, SettledOf(Snap(w)))
      BY <2>5 DEF Credit
    <3>3. QED
      BY <1>2, <2>2, <3>1, <3>2, CreditedInv
  <2>6. ledger' = ledger \/ Reserve(w) \/ RefundAll(w) \/ Credit(w)
    BY <1>7 DEF Work, Schedule, ClaimDraft, HandOut, CancelScheduled, Claim, Load,
                PlanFail, SendBatch, Advance, Complete, MarkSettled, ClearIndex
  <2>7. QED
    BY <1>3, <2>3, <2>4, <2>5, <2>6
<1>8. ASSUME NEW w \in Procs, SendFail(w) \/ Crash(w) PROVE LedgerInv'
  BY <1>3, <1>8 DEF SendFail, Crash
<1>9. ASSUME NEW w \in Procs, NEW p \in People, Tell(w, p) PROVE LedgerInv'
  BY <1>3, <1>9 DEF Tell
<1>10. CASE RecordDelivery \/ AgeClaim \/ AnHourPasses
  BY <1>3, <1>10 DEF RecordDelivery, AgeClaim, AnHourPasses
<1>11. CASE UNCHANGED vars
  BY <1>3, <1>11 DEF vars
<1>12. QED
  BY <1>4, <1>5, <1>6, <1>7, <1>8, <1>9, <1>10, <1>11 DEF Next

-----------------------------------------------------------------------------
(* The processes. *)

\* What a process counts on survives the steps of the others.
LEMMA OthersKeep ==
    ASSUME TypeOK, TypeOK', Forward, NEW v \in Procs, TaskInv(v),
           task'[v] = task[v]
    PROVE  TaskInv(v)'
<1>1. /\ ledger.debited \in Nat /\ ledger'.debited \in Nat
      /\ row.reserved \in Nat /\ row'.reserved \in Nat
  BY DEF TypeOK, Ledger, Rows
<1>2. task[v].snap.reserved \in Nat
  BY DEF TypeOK, Tasks, Rows
<1>3. QED
  BY <1>1, <1>2 DEF TaskInv, Forward, UnderWay

LEMMA IdleInv ==
    ASSUME NEW v \in Procs, task'[v] = Idle PROVE TaskInv(v)'
  BY DEF TaskInv, Idle

\* A process goes on to a place the row justifies, or it ends.
LEMMA GoesOn ==
    ASSUME TypeOK, TypeOK', Forward, NEW w \in Procs,
           TaskInv(w), task[w].at \notin {"idle", "reserve", "clear"},
           task'[w].snap = task[w].snap,
           task'[w].at \notin {"reserve", "claim_draft", "clear"},
           \/ task'[w].at \in {"load", "batch", "advance", "hand_out", "complete"}
              /\ UnderWay(row')
           \/ task'[w].at \in {"credit", "mark"} /\ row'.status = "SENT"
           \/ task'[w].at = "refund" /\ row'.status = "CANCELLED"
    PROVE  TaskInv(w)'
<1>1. /\ ledger.debited \in Nat /\ ledger'.debited \in Nat
      /\ ledger.debited <= ledger'.debited
  BY DEF TypeOK, Ledger, Forward
<1>2. task[w].snap.reserved \in Nat /\ task[w].snap.reserved <= ledger.debited
  BY DEF TypeOK, Tasks, Rows, TaskInv
<1>3. QED
  BY <1>1, <1>2 DEF TaskInv, UnderWay

\* A step in which at most w changes what it is doing.
LEMMA OneMoves ==
    ASSUME TypeOK, TypeOK', Inv, Forward, NEW w \in Procs, TaskInv(w)',
           \A v \in Procs \ {w} : task'[v] = task[v]
    PROVE  \A v \in Procs : TaskInv(v)'
<1>1. TAKE v \in Procs
<1>2. CASE v = w
  BY <1>2
<1>3. CASE v # w
  BY <1>3, OthersKeep DEF Inv
<1>4. QED
  BY <1>2, <1>3

\* Requests and ticks that begin.
LEMMA BeginsTask ==
    ASSUME TypeOK, TypeOK', Inv, Forward, NEW w \in Procs, Request(w) \/ Tick(w)
    PROVE  \A v \in Procs : TaskInv(v)'
<1>1. row \in Rows /\ ledger \in Ledger /\ task \in [Procs -> Tasks]
  BY DEF TypeOK
<1>2. ledger.debited \in Nat /\ row.reserved \in Nat
  BY <1>1 DEF Ledger, Rows
<1>3. WasReserved(row) => row.reserved <= ledger.debited
  BY DEF Inv, RowInv
<1>4. CASE StartSchedule(w)
  <2>1. /\ row' = row /\ row.status = "DRAFT"
        /\ task'[w].at = "reserve" /\ task'[w].later = TRUE
    BY <1>1, <1>4 DEF StartSchedule, Idle
  <2>2. TaskInv(w)'
    BY <2>1 DEF TaskInv
  <2>3. \A v \in Procs \ {w} : task'[v] = task[v]
    BY <1>1, <1>4 DEF StartSchedule
  <2>4. QED
    BY <2>2, <2>3, OneMoves
<1>5. ASSUME NEW people \in Audiences, NEW later \in BOOLEAN,
             QuickSend(w, people, later)
      PROVE  \A v \in Procs : TaskInv(v)'
  <2>1. /\ task'[w].at = "reserve" /\ task'[w].snap = row'
        /\ row'.status = "DRAFT" /\ row' \in Rows
    BY <1>1, <1>5 DEF QuickSend, Idle, Quoted, Drafted, NoRow, TypeOK
  <2>2. row'.reserved \in Nat
    BY <2>1 DEF Rows
  <2>3. TaskInv(w)'
    BY <2>1, <2>2 DEF TaskInv
  <2>4. \A v \in Procs \ {w} : task'[v] = task[v]
    BY <1>1, <1>5 DEF QuickSend
  <2>5. QED
    BY <2>3, <2>4, OneMoves
<1>6. CASE StartCancel(w) \/ StartTick(w)
  <2>1. /\ row' = row /\ ledger' = ledger /\ row.status \in {"SCHEDULED", "SENDING"}
        /\ task'[w].at \in {"cancel", "claim"} /\ task'[w].snap = row
    BY <1>1, <1>6 DEF StartCancel, Start, StartTick, sends, world, Idle
  <2>2. TaskInv(w)'
    BY <1>2, <1>3, <2>1 DEF TaskInv, WasReserved
  <2>3. \A v \in Procs \ {w} : task'[v] = task[v]
    BY <1>1, <1>6 DEF StartCancel, Start, StartTick
  <2>4. QED
    BY <2>2, <2>3, OneMoves
<1>7. CASE StartSweep(w)
  <2>1. /\ row' = row /\ ledger' = ledger /\ row.index = "sending"
        /\ task'[w].at = SweepTo(row) /\ task'[w].snap = row
    BY <1>1, <1>7 DEF StartSweep, Idle
  <2>2. UnderWay(row)
    BY <2>1 DEF Inv, RowInv
  <2>3. row.reserved <= ledger.debited
    BY <1>3, <2>2 DEF UnderWay, WasReserved
  <2>4. \/ task'[w].at = "credit" /\ row.status = "SENT"
        \/ task'[w].at = "complete" /\ UnderWay(row)
        \/ task'[w].at = "clear" /\ row.status = "SENT" /\ row.settled # Unset
    BY <2>1, <2>2 DEF SweepTo, IsUnsettled, UnderWay
  <2>5. TaskInv(w)'
    BY <2>1, <2>2, <2>3, <2>4 DEF TaskInv, UnderWay
  <2>6. \A v \in Procs \ {w} : task'[v] = task[v]
    BY <1>1, <1>7 DEF StartSweep
  <2>7. QED
    BY <2>5, <2>6, OneMoves
<1>8. QED
  BY <1>4, <1>5, <1>6, <1>7 DEF Request, Tick

\* A write whose counts are acted on, by a process or a send worker.
LEMMA SettleTask ==
    ASSUME TypeOK, TypeOK', Inv, Forward, NEW w \in Procs,
           Settle(w, row'), UnderWay(row), row'.reserved = row.reserved
    PROVE  \A v \in Procs : TaskInv(v)'
<1>1. row \in Rows /\ ledger \in Ledger /\ ledger' \in Ledger /\ task \in [Procs -> Tasks]
  BY DEF TypeOK
<1>2. /\ ledger.debited \in Nat /\ ledger'.debited \in Nat /\ row.reserved \in Nat
      /\ row.reserved <= ledger.debited /\ ledger.debited <= ledger'.debited
  BY <1>1 DEF Ledger, Rows, Forward, Inv, RowInv, UnderWay, WasReserved
<1>3. UnderWay(row')
  BY DEF Forward
<1>4. \/ task'[w] = Idle
      \/ task'[w].at = "complete" /\ task'[w].snap = row'
  BY <1>1 DEF Settle, Finish, Tasks
<1>5. \A v \in Procs \ {w} : task'[v] = task[v]
  BY <1>1 DEF Settle, Finish
<1>6. CASE task'[w].at = "complete" /\ task'[w].snap = row'
  <2>1. TaskInv(w)'
    BY <1>2, <1>3, <1>6 DEF TaskInv, UnderWay
  <2>2. QED
    BY <1>5, <2>1, OneMoves
<1>7. CASE task'[w] = Idle
  BY <1>5, <1>7, IdleInv, OneMoves
<1>8. QED
  BY <1>4, <1>6, <1>7

\* A process that ends.
LEMMA FinishTask ==
    ASSUME TypeOK, TypeOK', Inv, Forward, NEW w \in Procs, Finish(w)
    PROVE  \A v \in Procs : TaskInv(v)'
<1>1. task'[w] = Idle /\ \A v \in Procs \ {w} : task'[v] = task[v]
  BY DEF Finish, TypeOK
<1>2. QED
  BY <1>1, IdleInv, OneMoves

\* A process that goes on to a place the row justifies.
LEMMA GotoTask ==
    ASSUME TypeOK, TypeOK', Inv, Forward, NEW w \in Procs, NEW p, Goto(w, p),
           task[w].at \notin {"idle", "reserve", "clear"},
           \/ p \in {"load", "batch", "advance", "hand_out", "complete"} /\ UnderWay(row')
           \/ p \in {"credit", "mark"} /\ row'.status = "SENT"
           \/ p = "refund" /\ row'.status = "CANCELLED"
    PROVE  \A v \in Procs : TaskInv(v)'
<1>1. /\ task'[w].at = p /\ task'[w].snap = task[w].snap
      /\ \A v \in Procs \ {w} : task'[v] = task[v]
  BY DEF Goto, TypeOK, Tasks
<1>2. TaskInv(w)'
  BY <1>1, GoesOn DEF Inv
<1>3. QED
  BY <1>1, <1>2, OneMoves

\* What a process does after it began.
LEMMA WorkTask ==
    ASSUME TypeOK, TypeOK', Inv, Forward, NEW w \in Procs, Work(w)
    PROVE  \A v \in Procs : TaskInv(v)'
<1> USE DEF sends, world
<1>1. row \in Rows /\ ledger \in Ledger /\ task \in [Procs -> Tasks]
  BY DEF TypeOK
<1>2. TaskInv(w)
  BY DEF Inv
<1>3. CASE Finish(w)
  BY <1>3, FinishTask
<1>4. CASE Reserve(w)
  <2>1. CASE ledger.sends < MaxDebits
             /\ ledger' = [ledger EXCEPT !.sends = @ + 1,
                                         !.debited = @ + Snap(w).reserved]
             /\ Goto(w, IF task[w].later THEN "schedule" ELSE "claim_draft")
    <3> DEFINE debited == ledger.debited + Snap(w).reserved
               count == ledger.sends + 1
    <3>1. ledger' = [ledger EXCEPT !.sends = count, !.debited = debited]
      BY <2>1
    <3>2. /\ ledger.debited \in Nat /\ row.reserved \in Nat
          /\ Snap(w) = task[w].snap /\ task[w].snap.reserved \in Nat
      BY <1>1 DEF Ledger, Snap, Tasks, Rows
    <3>3. task[w].snap.reserved <= debited
      BY <3>2
    <3> HIDE DEF debited, count
    <3>4. ledger'.debited = debited
      BY <1>1, <3>1 DEF Ledger
    <3>5. /\ task'[w].snap = task[w].snap /\ task'[w].later = task[w].later
          /\ task'[w].at \in {"schedule", "claim_draft"}
          /\ task'[w].at = "claim_draft" => ~task[w].later
          /\ \A v \in Procs \ {w} : task'[v] = task[v]
      BY <1>1, <2>1 DEF Goto, Tasks
    <3>6. task[w].at = "reserve" /\ row' = row
      BY <1>4 DEF Reserve, At
    <3>7. TaskInv(w)'
      BY <1>2, <3>2, <3>3, <3>4, <3>5, <3>6 DEF TaskInv
    <3>8. QED
      BY <3>5, <3>7, OneMoves
  <2>2. QED
    BY <1>3, <1>4, <2>1 DEF Reserve
<1>5. CASE ClaimDraft(w)
  <2>1. CASE IsDraft(row)
    <3>1. /\ task'[w].at = "hand_out" /\ task'[w].snap = task[w].snap
          /\ \A v \in Procs \ {w} : task'[v] = task[v]
      BY <1>1, <1>5, <2>1 DEF ClaimDraft, Tasks
    <3>2. row'.status = "SENDING" /\ task[w].at = "claim_draft"
      BY <1>1, <1>5, <2>1 DEF ClaimDraft, At, Rows
    <3>3. TaskInv(w)'
      BY <1>2, <3>1, <3>2, GoesOn DEF UnderWay
    <3>4. QED
      BY <3>1, <3>3, OneMoves
  <2>2. CASE ~IsDraft(row)
    BY <1>3, <1>5, <2>2 DEF ClaimDraft
  <2>3. QED
    BY <2>1, <2>2
<1>6. CASE HandOut(w)
  <2>1. CASE task' = [task EXCEPT ![w].pos = BatchEnd(w)]
    <3>1. /\ task'[w].at = "hand_out" /\ task'[w].snap = task[w].snap
          /\ \A v \in Procs \ {w} : task'[v] = task[v]
          /\ task[w].at = "hand_out" /\ row' = row
      BY <1>1, <1>6, <2>1 DEF HandOut, At, Tasks
    <3>2. TaskInv(w)'
      BY <1>2, <3>1, GoesOn DEF TaskInv
    <3>3. QED
      BY <3>1, <3>2, OneMoves
  <2>2. QED
    BY <1>3, <1>6, <2>1 DEF HandOut
<1>7. CASE CancelScheduled(w)
  <2>1. CASE IsScheduled(row)
    <3>1. row'.status = "CANCELLED" /\ Goto(w, "refund") /\ task[w].at = "cancel"
      BY <1>1, <1>7, <2>1 DEF CancelScheduled, At, Rows
    <3>2. QED
      BY <3>1, GotoTask
  <2>2. CASE ~IsScheduled(row)
    BY <1>3, <1>7, <2>2 DEF CancelScheduled
  <2>3. QED
    BY <2>1, <2>2
<1>8. CASE Claim(w)
  <2>1. CASE IsClaimable(row)
    <3>1. /\ row'.status = "SENDING" /\ task[w].at = "claim"
          /\ \E p \in {"complete", "load"} : Goto(w, p)
      BY <1>1, <1>8, <2>1 DEF Claim, At, Rows
    <3>2. QED
      BY <3>1, GotoTask DEF UnderWay
  <2>2. CASE ~IsClaimable(row)
    BY <1>3, <1>8, <2>2 DEF Claim
  <2>3. QED
    BY <2>1, <2>2
<1>9. CASE Load(w)
  <2>1. row' = row /\ task[w].at = "load" /\ UnderWay(row)
    BY <1>2, <1>9 DEF Load, At, TaskInv
  <2>2. /\ task'[w].at = "batch" /\ task'[w].snap = task[w].snap
        /\ \A v \in Procs \ {w} : task'[v] = task[v]
    BY <1>1, <1>9 DEF Load, Tasks
  <2>3. TaskInv(w)'
    BY <1>2, <2>1, <2>2, GoesOn
  <2>4. QED
    BY <2>2, <2>3, OneMoves
<1>10. CASE SendBatch(w)
  <2>1. /\ row' = row /\ task[w].at = "batch" /\ UnderWay(row)
        /\ Goto(w, "advance")
    BY <1>2, <1>10 DEF SendBatch, At, TaskInv
  <2>2. QED
    BY <2>1, GotoTask
<1>11. CASE Advance(w)
  <2>1. task[w].at = "advance" /\ UnderWay(row)
    BY <1>2, <1>11 DEF Advance, At, TaskInv
  <2>2. CASE IsLastBatch(w)
    <3>1. row'.reserved = row.reserved /\ Settle(w, row')
      BY <1>1, <1>11, <2>2 DEF Advance, CountBatch, Rows
    <3>2. QED
      BY <2>1, <3>1, SettleTask
  <2>3. CASE ~IsLastBatch(w)
    <3>1. /\ task'[w].at = "batch" /\ task'[w].snap = task[w].snap
          /\ \A v \in Procs \ {w} : task'[v] = task[v]
      BY <1>1, <1>11, <2>3 DEF Advance, Tasks
    <3>2. UnderWay(row')
      BY <2>1 DEF Forward
    <3>3. TaskInv(w)'
      BY <1>2, <2>1, <3>1, <3>2, GoesOn
    <3>4. QED
      BY <3>1, <3>3, OneMoves
  <2>4. QED
    BY <2>2, <2>3
<1>12. CASE Complete(w)
  <2>1. CASE IsCounted(row, Snap(w))
    <3>1. row'.status = "SENT" /\ Goto(w, "credit") /\ task[w].at = "complete"
      BY <1>1, <1>12, <2>1 DEF Complete, At, Rows
    <3>2. QED
      BY <3>1, GotoTask
  <2>2. CASE ~IsCounted(row, Snap(w))
    BY <1>3, <1>12, <2>2 DEF Complete
  <2>3. QED
    BY <2>1, <2>2
<1>13. CASE Credit(w)
  <2>1. /\ row' = row /\ task[w].at = "credit" /\ row.status = "SENT"
        /\ Goto(w, "mark")
    BY <1>2, <1>13 DEF Credit, At, TaskInv
  <2>2. QED
    BY <2>1, GotoTask
<1>14. QED
  BY <1>3, <1>4, <1>5, <1>6, <1>7, <1>8, <1>9, <1>10, <1>11, <1>12, <1>13
     DEF Work, Schedule, RefundAll, PlanFail, MarkSettled, ClearIndex

LEMMA NextTask ==
    ASSUME TypeOK, TypeOK', Inv, [Next]_vars, Forward
    PROVE  \A v \in Procs : TaskInv(v)'
<1> USE DEF sends, world, bounds
<1>1. ASSUME task' = task PROVE \A v \in Procs : TaskInv(v)'
  BY <1>1, OthersKeep DEF Inv
<1>2. CASE CreateDraft \/ SaveDraft \/ DeleteDraft \/ EditList
  BY <1>1, <1>2 DEF CreateDraft, SaveDraft, DeleteDraft, EditList
<1>3. CASE \E p \in People : OptOut(p) \/ Dispatch(p)
  BY <1>1, <1>3 DEF OptOut, Dispatch
<1>4. ASSUME NEW w \in Procs, Request(w) \/ Tick(w)
      PROVE  \A v \in Procs : TaskInv(v)'
  BY <1>4, BeginsTask
<1>5. ASSUME NEW w \in Procs, Work(w) PROVE \A v \in Procs : TaskInv(v)'
  BY <1>5, WorkTask
<1>6. ASSUME NEW w \in Procs, SendFail(w) \/ Crash(w)
      PROVE  \A v \in Procs : TaskInv(v)'
  BY <1>6, FinishTask DEF SendFail, Crash
<1>7. ASSUME NEW w \in Procs, NEW p \in People, Tell(w, p)
      PROVE  \A v \in Procs : TaskInv(v)'
  <2>1. fate[p] # "open"
    BY <1>7 DEF Tell, Send!Tell
  <2>2. UnderWay(row)
    BY <2>1 DEF Inv, RowInv
  <2>3. Settle(w, row') /\ row'.reserved = row.reserved
    BY <1>7 DEF Tell, TypeOK, Rows
  <2>4. QED
    BY <2>2, <2>3, SettleTask
<1>8. CASE RecordDelivery \/ AgeClaim \/ AnHourPasses
  BY <1>1, <1>8 DEF RecordDelivery, AgeClaim, AnHourPasses
<1>9. CASE UNCHANGED vars
  BY <1>1, <1>9 DEF vars
<1>10. QED
  BY <1>2, <1>3, <1>4, <1>5, <1>6, <1>7, <1>8, <1>9 DEF Next

-----------------------------------------------------------------------------
(* The theorems. *)

LEMMA NextInv ==
    ASSUME TypeOK, Inv, [Next]_vars PROVE TypeOK' /\ Inv' /\ Forward
<1>1. TypeOK'
  BY NextType
<1>2. Forward
  BY NextForward
<1>3. Inv'
  BY <1>1, <1>2, NextRow, NextLedger, NextTask DEF Inv
<1>4. QED
  BY <1>1, <1>2, <1>3

\* The invariant that the other theorems rest on.
THEOREM InvHolds == Spec => [](TypeOK /\ Inv)
<1>1. Init => TypeOK /\ Inv
  BY InitType, InitInv
<1>2. TypeOK /\ Inv /\ [Next]_vars => (TypeOK /\ Inv)'
  BY NextInv
<1>3. QED
  BY <1>1, <1>2, PTL DEF Spec

\* Never is more given back for a campaign than was taken for it, however
\* cancelling, settling and sweeping race (CampaignService._complete and cancel,
\* BillingService.settle).
THEOREM NeverOverRefunded == Spec => []RefundWithinDebit
<1>1. TypeOK /\ Inv => RefundWithinDebit
  BY DEF Inv, LedgerInv, RefundWithinDebit
<1>2. QED
  BY <1>1, InvHolds, PTL

\* Nothing is given back for a campaign that may yet send.
THEOREM RefundsWait == Spec => []RefundOnlyWhenOver
<1>1. TypeOK /\ Inv => RefundOnlyWhenOver
  BY DEF Inv, LedgerInv, RefundOnlyWhenOver
<1>2. QED
  BY <1>1, InvHolds, PTL

\* The flip SCHEDULED -> CANCELLED and the claim SCHEDULED -> SENDING exclude
\* each other: a cancelled campaign has no job queued and nobody texted.
THEOREM CancelIsSafe == Spec => []CancelledSendsNothing
<1>1. TypeOK /\ Inv => CancelledSendsNothing
  <2> SUFFICES ASSUME TypeOK, Inv, row.status = "CANCELLED"
               PROVE  jobs = {} /\ Accepted = {}
    BY DEF CancelledSendsNothing
  <2>1. jobs = {}
    BY DEF Inv, RowInv, UnderWay
  <2>2. \A p \in People : fate[p] = "open"
    BY <2>1 DEF Inv, RowInv
  <2>3. QED
    BY <2>1, <2>2 DEF Accepted
<1>2. QED
  BY <1>1, InvHolds, PTL

\* Whatever crashes, a campaign that has something left to do stays listed in
\* the partition the scheduler reads for it.
THEOREM StaysListed == Spec => []NeverOrphaned
<1>1. TypeOK /\ Inv => NeverOrphaned
  BY DEF Inv, RowInv, NeverOrphaned
<1>2. QED
  BY <1>1, InvHolds, PTL

\* SENT and CANCELLED are final, and settledMicro is written once, although
\* every write to the row is by a process that read it earlier.
THEOREM OverIsOver == Spec => TerminalIsFinal
<1>1. TypeOK /\ Inv /\ [Next]_vars =>
        [/\ row.status \in {"SENT", "CANCELLED"} => row'.status = row.status
         /\ row.settled # Unset => row'.settled = row.settled]_vars
  BY NextForward DEF Forward
<1>2. QED
  BY <1>1, InvHolds, PTL DEF Spec, TerminalIsFinal

-----------------------------------------------------------------------------
(***************************************************************************)
(* The bill: that everyone on a campaign is accounted for, and that it is  *)
(* billed what was sent.  The counters of the row are followed from the    *)
(* draft to the settlement: what the fan-out has counted is what it has    *)
(* passed (Counts), whatever died; and where nothing died the jobs are     *)
(* what it counted, so that the counts meet only when everyone was told,   *)
(* and the process that then completes the campaign is the only one to     *)
(* settle it (Safe).                                                       *)
(***************************************************************************)

\* One tick runs at a time (the scheduler's reserved concurrency), nobody changes a
\* draft or the list it names, and no hour passes without progress.  Each of the
\* three is needed.
Quiet == MaxTicks = 1 /\ MaxEdits = 0 /\ ~HoursPass

Audience == AudienceOf(row)
Size == Len(Audience)
Charged == Cardinality(Chargeable(Audience))
ToldRefused == Cardinality(ToldOf("refused"))
IsTold(p) == told[p] # Send!Untold

\* The row: nothing is counted before a claim; then each position the fan-out has
\* passed is in queued or in refused, and what is left of refused was told.
QuietRow ==
    /\ row.status # "DELETED"
    /\ row.progress # "old" /\ row.claimed # "old"
    /\ row.status = "NONE" => row.kind = "LIST"
    /\ row.status \in {"NONE", "DRAFT", "SCHEDULED"} =>
           /\ row.claimed = "never"
           /\ row.queued = 0 /\ row.refused = 0 /\ row.cursor = 0
    /\ row.kind = "QUICK" => \A i \in DOMAIN row.people : row.people[i] \in Allowed
    /\ \/ row.status = "DRAFT" /\ row.kind = "QUICK"
       \/ row.status = "SCHEDULED"
       \/ row.status = "SENDING" /\ row.claimed = "never"
       \/ row.status = "SENDING" /\ row.index = "due" /\ row.cursor = 0
       => row.recipients = Charged
    /\ row.status = "SENDING" /\ row.claimed = "never" =>
           /\ row.kind = "QUICK" /\ row.index = "sending"
           /\ row.queued = 0 /\ row.refused = ToldRefused
    /\ row.status = "SENDING" /\ row.claimed # "never" /\ row.index = "due" =>
           /\ row.queued + row.refused = ToldRefused + row.cursor
           /\ row.cursor > 0 => row.cursor < Size /\ row.recipients = Size
    /\ row.status = "SENDING" /\ row.claimed # "never" /\ row.index = "sending" =>
           /\ row.cursor = 0 /\ row.recipients = Size
           /\ row.queued + row.refused = ToldRefused + Size

\* The counters were given what befell each person.
ToldInv ==
    /\ row.sent = Cardinality(ToldOf("sent"))
    /\ \A p \in People : IsTold(p) =>
           \/ fate[p] = "accepted" /\ told[p] = [sent |-> 1, refused |-> 0]
           \/ fate[p] = "refused" /\ told[p] = [sent |-> 0, refused |-> 1]

\* What was reserved is the price of the one audience there is.
PriceInv ==
    /\ row.status \in {"SCHEDULED", "SENDING", "SENT"} \/ row.kind = "QUICK" =>
           row.reserved = Cost[Audience]
    /\ ledger.sends = 0 => ledger.debited = 0
    /\ ledger.sends = 1 => ledger.debited = Cost[Audience]
    /\ row.status = "NONE" => ledger.sends = 0

OneTick == \A v, w \in Procs : task[v].tick /\ task[w].tick => v = w

QuietTask(w) ==
    LET t == task[w] IN
    /\ t.at \in {"claim", "load", "batch", "advance"} => t.tick
    /\ t.at \in {"reserve", "schedule", "claim_draft"} =>
           t.snap.reserved = Cost[Audience] /\ t.snap.recipients = Charged
    /\ t.at \in {"reserve", "claim_draft"} => t.blocked = {}
    /\ t.at \in {"reserve", "claim_draft"} /\ ~t.later =>
           row.kind = "QUICK" /\ t.snap.people = row.people
    /\ t.at = "hand_out" =>
           /\ row.kind = "QUICK" /\ row.claimed = "never"
           /\ t.members = row.people /\ t.blocked = {}
    /\ t.at \in {"claim", "load"} =>
           t.snap.kind = row.kind /\ t.snap.people = row.people
    /\ t.at \in {"claim", "load"} /\ row.status \in {"SCHEDULED", "SENDING"} =>
           row.index = "due" /\ t.snap.cursor = row.cursor
    /\ t.at = "claim" => WasReserved(row)
    /\ t.at = "claim" => t.snap.progress # "old" /\ t.snap.claimed # "old"
    /\ t.at \in {"claim", "load", "batch", "advance"} /\ UnderWay(row) =>
           row.claimed # "never"
    /\ t.at \in {"batch", "advance"} => t.members = Audience
    /\ t.at \in {"batch", "advance"} /\ row.status = "SENDING" =>
           row.index = "due" /\ t.pos = row.cursor
    /\ t.at \in {"complete", "credit", "mark"} =>
           t.snap.quote = row.quote /\ t.snap.reserved = row.reserved

\* Who a process may yet queue: those of its members it does not pass over.
MayQueue(w) == {i \in DOMAIN task[w].members : task[w].members[i] \in Allowed \ task[w].blocked}
Named(w, S) == {task[w].members[i] : i \in S}
Upto(w, n) == Named(w, {i \in 1..n : i \in MayQueue(w)})

\* Everyone who was queued was answered, and whoever still hands out has nobody
\* new to hand out.
AllTold ==
    /\ \A p \in jobs : IsTold(p)
    /\ row.status = "SENDING" /\ row.index = "due" => jobs # {}
    /\ \A w \in Procs : task[w].at \in {"hand_out", "batch", "advance"} =>
           \A p \in Named(w, MayQueue(w)) : IsTold(p)

\* Where nothing died there is one fan-out, and the jobs are what it has queued so
\* far.
SafeInv ==
    /\ row.status = "SENDING" /\ row.claimed = "never" =>
           jobs \subseteq {Audience[i] : i \in DOMAIN Audience}
    /\ row.status = "SENDING" /\ row.claimed # "never" /\ row.index = "sending" =>
           row.queued = Cardinality(jobs)
    /\ row.status = "SENDING" /\ row.claimed # "never" /\ row.index = "due"
           /\ (\A w \in Procs : task[w].at \notin {"batch", "advance"}) =>
           jobs = {} /\ row.cursor = 0

SafeTask(w) ==
    LET t == task[w] IN
    /\ t.at = "load" => row.status = "SENDING"
    /\ t.at = "batch" /\ row.status = "SENDING" =>
           jobs = Upto(w, t.pos) /\ row.queued = Cardinality(jobs)
    /\ t.at = "advance" /\ row.status = "SENDING" =>
           jobs = Upto(w, BatchEnd(w)) /\ row.queued = Cardinality(Upto(w, t.pos))

\* A campaign is completed when everyone has been told.
Over ==
    row.status = "SENT" \/ (\E w \in Procs : task[w].at = "complete") => AllTold

\* The account was given back what the bill leaves of the reservation.
Squared(bill) ==
    ledger.refunded = IF row.reserved > bill THEN row.reserved - bill ELSE 0

\* One process settles, once, and by the count that is final.
BillInv ==
    /\ \A v, w \in Procs :
           task[v].at \in {"credit", "mark"} /\ task[w].at \in {"credit", "mark"} => v = w
    /\ \A w \in Procs : task[w].at \in {"credit", "mark"} =>
           row.settled = Unset /\ task[w].snap.sent = row.sent
    /\ \A w \in Procs : task[w].at = "credit" => ledger.refunds = 0
    /\ \A w \in Procs : task[w].at = "mark" => Squared(SettledOf(row))
    /\ row.status = "SENT" /\ row.settled # Unset =>
           row.settled = SettledOf(row) /\ Squared(SettledOf(row))

Counts == QuietRow /\ ToldInv /\ PriceInv /\ OneTick /\ \A w \in Procs : QuietTask(w)
Safe == crashes = 0 => SafeInv /\ (\A w \in Procs : SafeTask(w)) /\ Over /\ BillInv

-----------------------------------------------------------------------------
(* Counting. *)

\* Two finite sets with nothing in common.
LEMMA DisjointCount ==
    ASSUME NEW S, NEW T, IsFiniteSet(S), IsFiniteSet(T), S \cap T = {}
    PROVE  Cardinality(S \cup T) = Cardinality(S) + Cardinality(T)
<1>1. Cardinality(S) \in Nat /\ Cardinality(T) \in Nat
  BY FS_CardinalityType
<1>2. Cardinality(S \cup T) = Cardinality(S) + Cardinality(T) - Cardinality(S \cap T)
  BY FS_Union
<1>3. Cardinality(S \cap T) = 0
  BY FS_EmptySet
<1>4. QED
  BY <1>1, <1>2, <1>3

\* Nobody is on an audience twice: as many people as positions.
LEMMA NamedCount ==
    ASSUME NEW a \in Audiences, NEW S, S \subseteq DOMAIN a
    PROVE  /\ IsFiniteSet(S) /\ Cardinality(S) \in Nat
           /\ IsFiniteSet({a[i] : i \in S})
           /\ Cardinality({a[i] : i \in S}) = Cardinality(S)
<1> DEFINE T == {a[i] : i \in S}
           f == [i \in S |-> a[i]]
<1>1. a \in Seq(People) /\ DOMAIN a = 1..Len(a) /\ Len(a) \in Nat
  BY CampaignsAssumption
<1>2. IsFiniteSet(S) /\ Cardinality(S) \in Nat
  BY <1>1, PositionsCount
<1>3. \A i, j \in S : f[i] = f[j] => i = j
  BY CampaignsAssumption
<1>4. f \in Bijection(S, T)
  BY <1>3 DEF Bijection, Injection, Surjection, IsInjective
<1>5. ExistsBijection(S, T)
  BY <1>4 DEF ExistsBijection
<1>6. QED
  BY <1>2, <1>5, FS_Bijection

\* A batch ends at most BatchSize further, and each of its positions is queued
\* or passed over.
LEMMA BatchCount ==
    ASSUME NEW w \in Procs, task[w] \in Tasks, task[w].pos <= Len(task[w].members)
    PROVE  LET queued == Cardinality(Sendable(w))
               passed == Cardinality(Batch(w) \ Sendable(w))
           IN  /\ queued \in Nat /\ passed \in Nat
               /\ BatchEnd(w) \in Nat /\ task[w].pos \in Nat
               /\ task[w].pos <= BatchEnd(w)
               /\ BatchEnd(w) <= Len(task[w].members)
               /\ queued + passed = BatchEnd(w) - task[w].pos
               /\ task[w].pos < Len(task[w].members) => task[w].pos < BatchEnd(w)
<1> DEFINE pos == task[w].pos
           n == Len(task[w].members)
<1>1. pos \in Nat /\ n \in Nat /\ BatchSize \in Nat \ {0} /\ Sendable(w) \subseteq Batch(w)
  BY MemberType, CampaignsAssumption
<1>2. /\ BatchEnd(w) \in Nat /\ pos <= BatchEnd(w) /\ BatchEnd(w) <= n
      /\ pos < n => pos < BatchEnd(w)
  BY <1>1 DEF BatchEnd
<1>3. IsFiniteSet(Batch(w)) /\ Cardinality(Batch(w)) = BatchEnd(w) - pos
  <2>0. pos + 1 \in Int /\ BatchEnd(w) \in Int
    BY <1>1, <1>2
  <2>1. \A a, b \in Int : /\ IsFiniteSet(a..b)
                          /\ Cardinality(a..b) = IF a > b THEN 0 ELSE b - a + 1
    BY FS_Interval
  <2>2. /\ IsFiniteSet((pos + 1)..BatchEnd(w))
        /\ Cardinality((pos + 1)..BatchEnd(w)) =
             IF pos + 1 > BatchEnd(w) THEN 0 ELSE BatchEnd(w) - (pos + 1) + 1
    BY <2>0, <2>1
  <2>3. QED
    BY <1>1, <1>2, <2>2 DEF Batch
<1>4. /\ Cardinality(Batch(w) \ Sendable(w)) =
           Cardinality(Batch(w)) - Cardinality(Batch(w) \cap Sendable(w))
      /\ IsFiniteSet(Batch(w) \ Sendable(w))
  BY <1>3, FS_Difference
<1>5. Batch(w) \cap Sendable(w) = Sendable(w)
  BY <1>1
<1>6. /\ Cardinality(Sendable(w)) \in Nat
      /\ Cardinality(Batch(w) \ Sendable(w)) \in Nat
  BY <1>1, <1>3, <1>4, FS_Subset, FS_CardinalityType
<1>7. Cardinality(Sendable(w)) + Cardinality(Batch(w) \ Sendable(w)) = BatchEnd(w) - pos
  <2>1. Cardinality(Batch(w) \ Sendable(w)) =
          (BatchEnd(w) - pos) - Cardinality(Sendable(w))
    BY <1>3, <1>4, <1>5
  <2>2. QED
    BY <1>1, <1>2, <1>6, <2>1
<1>8. QED
  BY <1>1, <1>2, <1>6, <1>7

\* What a fan-out has queued when it has passed n positions, and then a batch.
LEMMA UptoCount ==
    ASSUME NEW w \in Procs, task[w] \in Tasks, NEW n \in Nat
    PROVE  /\ IsFiniteSet(Upto(w, n)) /\ Cardinality(Upto(w, n)) \in Nat
           /\ Cardinality(Upto(w, n)) <= n
           /\ Upto(w, n) \subseteq Named(w, MayQueue(w))
<1> DEFINE S == {i \in 1..n : i \in MayQueue(w)}
<1>1. task[w].members \in Audiences
  BY DEF Tasks
<1>2. S \subseteq DOMAIN task[w].members
  BY DEF MayQueue
<1>3. /\ IsFiniteSet(Upto(w, n)) /\ Cardinality(Upto(w, n)) = Cardinality(S)
      /\ Cardinality(S) \in Nat
  BY <1>1, <1>2, NamedCount DEF Upto, Named
<1>4. Cardinality(S) <= n
  <2>1. IsFiniteSet(1..n) /\ Cardinality(1..n) = n
    BY FS_Interval
  <2>2. QED
    BY <2>1, FS_Subset
<1>5. QED
  BY <1>3, <1>4 DEF Upto, Named

LEMMA UptoBatch ==
    ASSUME NEW w \in Procs, task[w] \in Tasks, task[w].pos <= Len(task[w].members)
    PROVE  /\ Upto(w, BatchEnd(w)) = Upto(w, task[w].pos) \cup Named(w, Sendable(w))
           /\ Named(w, Sendable(w)) \subseteq Named(w, MayQueue(w))
           /\ Cardinality(Upto(w, BatchEnd(w))) =
                Cardinality(Upto(w, task[w].pos)) + Cardinality(Sendable(w))
<1> DEFINE pos == task[w].pos
           S(n) == {i \in 1..n : i \in MayQueue(w)}
<1>1. /\ task[w].members \in Audiences
      /\ DOMAIN task[w].members = 1..Len(task[w].members)
      /\ Len(task[w].members) \in Nat
  BY MemberType DEF Tasks
<1>2. /\ BatchEnd(w) \in Nat /\ pos \in Nat /\ pos <= BatchEnd(w)
      /\ BatchEnd(w) <= Len(task[w].members)
  BY BatchCount
<1>3. Sendable(w) = {i \in (pos + 1)..BatchEnd(w) : i \in MayQueue(w)}
  BY <1>1, <1>2 DEF Sendable, Batch, MayQueue
<1>4. S(BatchEnd(w)) = S(pos) \cup Sendable(w) /\ S(pos) \cap Sendable(w) = {}
  BY <1>2, <1>3
<1>5. S(BatchEnd(w)) \subseteq DOMAIN task[w].members /\ S(pos) \subseteq DOMAIN task[w].members
  BY DEF MayQueue
<1>6. /\ IsFiniteSet(S(pos)) /\ Cardinality(S(pos)) \in Nat
      /\ Cardinality(Upto(w, pos)) = Cardinality(S(pos))
  BY <1>1, <1>5, NamedCount DEF Upto, Named
<1>7. Cardinality(Upto(w, BatchEnd(w))) = Cardinality(S(BatchEnd(w)))
  BY <1>1, <1>5, NamedCount DEF Upto, Named
<1>8. IsFiniteSet(Sendable(w)) /\ Cardinality(Sendable(w)) \in Nat
  BY <1>1, <1>3, NamedCount DEF MayQueue
<1>9. Cardinality(S(BatchEnd(w))) = Cardinality(S(pos)) + Cardinality(Sendable(w))
  <2> HIDE DEF S
  <2>1. QED
    BY <1>4, <1>6, <1>8, DisjointCount
<1>10. Upto(w, BatchEnd(w)) = Upto(w, pos) \cup Named(w, Sendable(w))
  BY <1>4 DEF Upto, Named
<1>11. Sendable(w) \subseteq MayQueue(w)
  BY <1>3
<1>12. QED
  BY <1>6, <1>7, <1>9, <1>10, <1>11 DEF Named

\* Whoever was told is in one of the two counts.
Told == {p \in People : IsTold(p)}

LEMMA ToldCount ==
    ASSUME TypeOK, ToldInv
    PROVE  /\ IsFiniteSet(Told) /\ Cardinality(Told) \in Nat
           /\ Cardinality(ToldOf("sent")) \in Nat
           /\ ToldRefused \in Nat
           /\ Cardinality(Told) = row.sent + ToldRefused
<1>1. IsFiniteSet(People)
  BY CampaignsAssumption
<1>2. /\ IsFiniteSet(Told) /\ Cardinality(Told) \in Nat
      /\ IsFiniteSet(ToldOf("sent")) /\ Cardinality(ToldOf("sent")) \in Nat
      /\ IsFiniteSet(ToldOf("refused")) /\ Cardinality(ToldOf("refused")) \in Nat
  BY <1>1, FS_Subset, FS_CardinalityType DEF Told, ToldOf
<1>3. \A p \in People : told[p] \in [sent: 0..1, refused: 0..1]
  BY DEF TypeOK
<1>4. /\ Told = ToldOf("sent") \cup ToldOf("refused")
      /\ ToldOf("sent") \cap ToldOf("refused") = {}
  BY <1>3 DEF Told, ToldOf, ToldInv, IsTold, Send!Untold
<1>5. Cardinality(Told) = Cardinality(ToldOf("sent")) + Cardinality(ToldOf("refused"))
  BY <1>2, <1>4, DisjointCount
<1>6. QED
  BY <1>2, <1>5 DEF ToldInv, ToldRefused

\* Nobody is told of a job that was not queued.
LEMMA ToldQueued ==
    ASSUME TypeOK, Inv, ToldInv
    PROVE  /\ Told \subseteq jobs
           /\ jobs = {} => ToldRefused = 0 /\ row.sent = 0
<1>1. Told \subseteq jobs
  BY DEF Told, ToldInv, Inv, RowInv
<1>2. ASSUME jobs = {} PROVE ToldRefused = 0 /\ row.sent = 0
  <2>1. Told = {}
    BY <1>1, <1>2
  <2>2. ToldOf("sent") = {} /\ ToldOf("refused") = {}
    BY <2>1 DEF Told, ToldOf, IsTold, Send!Untold
  <2>3. QED
    BY <2>2, FS_EmptySet DEF ToldInv, ToldRefused
<1>3. QED
  BY <1>1, <1>2

-----------------------------------------------------------------------------
(* What does not happen, and what does not change. *)

\* No draft is edited, no hour passes and nothing is swept.
LEMMA QuietSteps ==
    ASSUME Quiet, TypeOK, QuietRow
    PROVE  /\ ~SaveDraft /\ ~DeleteDraft /\ ~EditList /\ ~AnHourPasses
           /\ \A w \in Procs : ~StartSweep(w)
<1>1. edits = 0
  BY DEF Quiet, TypeOK
<1>2. QED
  BY <1>1 DEF Quiet, QuietRow, SaveDraft, DeleteDraft, EditList, AnHourPasses, StartSweep

\* Once there is a campaign, its audience is what it is.
LEMMA OneAudience ==
    ASSUME Quiet, TypeOK, Inv, QuietRow, [Next]_vars, row.status # "NONE"
    PROVE  /\ row'.kind = row.kind /\ row'.people = row.people /\ list' = list
           /\ Audience' = Audience /\ Charged' = Charged /\ Size' = Size
<1> USE DEF sends, world, bounds
<1>0. row \in Rows
  BY DEF TypeOK
<1>1. row'.kind = row.kind /\ row'.people = row.people /\ list' = list
  <2>1. CASE \E p \in People : OptOut(p) \/ Dispatch(p)
    BY <2>1 DEF OptOut, Dispatch
  <2>2. ASSUME NEW w \in Procs, Request(w) \/ StartTick(w)
        PROVE  row'.kind = row.kind /\ row'.people = row.people /\ list' = list
    BY <2>2 DEF Request, StartSchedule, StartCancel, QuickSend, StartTick
  <2>3. ASSUME NEW w \in Procs, Work(w)
        PROVE  row'.kind = row.kind /\ row'.people = row.people /\ list' = list
    <3>1. CASE Reserve(w) \/ Schedule(w) \/ ClaimDraft(w) \/ HandOut(w)
      BY <1>0, <3>1 DEF Reserve, Schedule, ClaimDraft, HandOut, Rows
    <3>2. CASE CancelScheduled(w) \/ RefundAll(w) \/ Claim(w) \/ Load(w) \/ PlanFail(w)
      BY <1>0, <3>2 DEF CancelScheduled, RefundAll, Claim, Load, PlanFail, Rows
    <3>3. CASE SendBatch(w) \/ Advance(w)
      BY <1>0, <3>3 DEF SendBatch, Advance, CountBatch, Rows
    <3>4. CASE Complete(w) \/ Credit(w) \/ MarkSettled(w) \/ ClearIndex(w)
      BY <1>0, <3>4 DEF Complete, Credit, MarkSettled, ClearIndex, Rows
    <3>5. QED
      BY <2>3, <3>1, <3>2, <3>3, <3>4 DEF Work
  <2>4. ASSUME NEW w \in Procs, SendFail(w) \/ Crash(w)
        PROVE  row'.kind = row.kind /\ row'.people = row.people /\ list' = list
    BY <2>4 DEF SendFail, Crash
  <2>5. ASSUME NEW w \in Procs, NEW p \in People, Tell(w, p)
        PROVE  row'.kind = row.kind /\ row'.people = row.people /\ list' = list
    BY <1>0, <2>5 DEF Tell, Rows
  <2>6. CASE RecordDelivery \/ AgeClaim
    BY <1>0, <2>6 DEF RecordDelivery, AgeClaim, Rows
  <2>7. CASE UNCHANGED vars
    BY <2>7 DEF vars
  <2>8. QED
    BY <2>1, <2>2, <2>3, <2>4, <2>5, <2>6, <2>7, QuietSteps DEF Next, Tick, CreateDraft
<1>2. Audience' = Audience
  BY <1>1 DEF Audience, AudienceOf
<1>3. QED
  BY <1>1, <1>2 DEF Charged, Size, Chargeable

\* The counters of outcomes move when somebody is told, and only then.
LEMMA TellCounts ==
    ASSUME TypeOK, ToldInv, NEW w \in Procs, NEW p \in People, Tell(w, p)
    PROVE  /\ ~IsTold(p) /\ fate[p] # "open"
           /\ \A q \in People : IsTold(q)' <=> IsTold(q) \/ q = p
           /\ ToldInv'
           /\ row'.refused - row.refused = ToldRefused' - ToldRefused
           /\ row'.refused \in Nat /\ ToldRefused' \in Nat
<1>0. row \in Rows /\ told \in [People -> [sent: 0..1, refused: 0..1]]
  BY DEF TypeOK
<1>1. /\ told[p] = Send!Untold /\ fate[p] # "open" /\ fate' = fate
      /\ told' = [told EXCEPT ![p] = IF fate[p] = "accepted"
                                     THEN [sent |-> 1, refused |-> 0]
                                     ELSE [sent |-> 0, refused |-> 1]]
      /\ row'.sent = row.sent + told'[p].sent
      /\ row'.refused = row.refused + told'[p].refused
  <2>1. Send!Tell(p)
    BY DEF Tell
  <2>2. row' = [row EXCEPT !.progress = "fresh",
                           !.sent = row.sent + told'[p].sent,
                           !.refused = row.refused + told'[p].refused]
    BY DEF Tell
  <2>3. /\ row'.sent = row.sent + told'[p].sent
        /\ row'.refused = row.refused + told'[p].refused
    BY <1>0, <2>2 DEF Rows
  <2>4. /\ [Send!Untold EXCEPT !.sent = 1] = [sent |-> 1, refused |-> 0]
        /\ [Send!Untold EXCEPT !.refused = 1] = [sent |-> 0, refused |-> 1]
    BY DEF Send!Untold
  <2>5. /\ told[p] = Send!Untold /\ fate[p] # "open" /\ fate' = fate
        /\ told' = [told EXCEPT ![p] = IF fate[p] = "accepted"
                                       THEN [sent |-> 1, refused |-> 0]
                                       ELSE [sent |-> 0, refused |-> 1]]
    BY <2>1, <2>4 DEF Send!Tell
  <2>6. QED
    BY <2>3, <2>5
<1>2. \A q \in People : IsTold(q)' <=> IsTold(q) \/ q = p
  BY <1>0, <1>1 DEF IsTold, Send!Untold
<1>3. fate[p] \in {"accepted", "refused"}
  BY <1>1 DEF TypeOK, Send!Fates
<1>4. /\ IsFiniteSet(ToldOf("sent")) /\ IsFiniteSet(ToldOf("refused"))
      /\ Cardinality(ToldOf("sent")) \in Nat /\ ToldRefused \in Nat
  BY CampaignsAssumption, FS_Subset, FS_CardinalityType DEF ToldOf, ToldRefused
<1>5. p \notin ToldOf("sent") /\ p \notin ToldOf("refused")
  BY <1>1 DEF ToldOf, Send!Untold
<1>6. CASE fate[p] = "accepted"
  <2>1. told'[p] = [sent |-> 1, refused |-> 0]
    BY <1>0, <1>1, <1>6
  <2>2. ToldOf("sent")' = ToldOf("sent") \cup {p} /\ ToldOf("refused")' = ToldOf("refused")
    BY <1>0, <1>1, <1>6, <2>1 DEF ToldOf, Send!Untold
  <2>3. Cardinality(ToldOf("sent"))' = row'.sent
    <3>1. Cardinality(ToldOf("sent") \cup {p}) = Cardinality(ToldOf("sent")) + 1
      BY <1>4, <1>5, FS_AddElement
    <3>2. QED
      BY <1>1, <2>1, <2>2, <3>1 DEF ToldInv
  <2>4. row'.refused = row.refused /\ ToldRefused' = ToldRefused
    BY <1>0, <1>1, <2>1, <2>2 DEF ToldRefused, Rows
  <2>5. ToldInv'
    BY <1>0, <1>1, <1>2, <1>6, <2>1, <2>3 DEF ToldInv, IsTold
  <2>6. QED
    BY <1>0, <1>1, <1>2, <1>4, <2>4, <2>5 DEF IsTold, Rows
<1>7. CASE fate[p] = "refused"
  <2>1. told'[p] = [sent |-> 0, refused |-> 1]
    BY <1>0, <1>1, <1>7
  <2>2. ToldOf("refused")' = ToldOf("refused") \cup {p} /\ ToldOf("sent")' = ToldOf("sent")
    BY <1>0, <1>1, <1>7, <2>1 DEF ToldOf, Send!Untold
  <2>3. row'.refused = row.refused + 1 /\ ToldRefused' = ToldRefused + 1
    <3>1. Cardinality(ToldOf("refused") \cup {p}) = Cardinality(ToldOf("refused")) + 1
      BY <1>4, <1>5, FS_AddElement
    <3>2. QED
      BY <1>0, <1>1, <2>1, <2>2, <3>1 DEF ToldRefused, Rows
  <2>4. row'.sent = Cardinality(ToldOf("sent"))'
    BY <1>0, <1>1, <2>1, <2>2 DEF ToldInv, Rows
  <2>5. ToldInv'
    BY <1>0, <1>1, <1>2, <1>7, <2>1, <2>4 DEF ToldInv, IsTold
  <2>6. row.refused \in Nat
    BY <1>0 DEF Rows
  <2>7. QED
    BY <1>1, <1>2, <1>4, <2>3, <2>5, <2>6 DEF IsTold
<1>8. QED
  BY <1>3, <1>6, <1>7

\* Every other step leaves both as they are.
LEMMA NotTold ==
    ASSUME Quiet, TypeOK, Inv, QuietRow, ToldInv, [Next]_vars,
           \A w \in Procs, p \in People : ~Tell(w, p)
    PROVE  told' = told /\ row'.sent = row.sent /\ ToldRefused' = ToldRefused /\ ToldInv'
<1> USE DEF sends, world, bounds
<1>0. row \in Rows /\ fate \in [People -> Send!Fates]
  BY DEF TypeOK
<1>1. ASSUME told' = told, row'.sent = row.sent,
             \A p \in People : fate[p] # "open" => fate'[p] = fate[p]
      PROVE  ToldRefused' = ToldRefused /\ ToldInv'
  BY <1>1 DEF ToldRefused, ToldOf, ToldInv, IsTold
<1>2. row.status = "NONE" => row.sent = 0
  <2>1. row.status = "NONE" => jobs = {}
    BY DEF Inv, RowInv, UnderWay
  <2>2. QED
    BY <2>1, ToldQueued
<1>3. CASE CreateDraft
  BY <1>1, <1>2, <1>3 DEF CreateDraft, Drafted, NoRow
<1>4. CASE \E p \in People : OptOut(p)
  BY <1>1, <1>4 DEF OptOut
<1>5. ASSUME NEW p \in People, Dispatch(p) PROVE told' = told /\ row'.sent = row.sent /\ ToldInv'
                                                /\ ToldRefused' = ToldRefused
  BY <1>0, <1>1, <1>5 DEF Dispatch, Send!Accept, Send!Refuse, Send!Meet
<1>6. ASSUME NEW w \in Procs, Request(w) \/ StartTick(w)
      PROVE  told' = told /\ row'.sent = row.sent /\ ToldRefused' = ToldRefused /\ ToldInv'
  <2>1. CASE StartSchedule(w) \/ StartCancel(w) \/ StartTick(w)
    BY <1>1, <2>1 DEF StartSchedule, StartCancel, StartTick
  <2>2. ASSUME NEW people \in Audiences, NEW later \in BOOLEAN,
               QuickSend(w, people, later)
        PROVE  told' = told /\ fate' = fate /\ row'.sent = row.sent
    BY <1>2, <2>2 DEF QuickSend, Quoted, Drafted, NoRow
  <2>3. QED
    BY <1>1, <1>6, <2>1, <2>2 DEF Request
<1>7. ASSUME NEW w \in Procs, Work(w)
      PROVE  told' = told /\ fate' = fate /\ row'.sent = row.sent
  <2>1. CASE Reserve(w) \/ Schedule(w) \/ ClaimDraft(w) \/ HandOut(w)
    BY <1>0, <2>1 DEF Reserve, Schedule, ClaimDraft, HandOut, Rows
  <2>2. CASE CancelScheduled(w) \/ RefundAll(w) \/ Claim(w) \/ Load(w) \/ PlanFail(w)
    BY <1>0, <2>2 DEF CancelScheduled, RefundAll, Claim, Load, PlanFail, Rows
  <2>3. CASE SendBatch(w) \/ Advance(w)
    BY <1>0, <2>3 DEF SendBatch, Advance, CountBatch, Rows
  <2>4. CASE Complete(w) \/ Credit(w) \/ MarkSettled(w) \/ ClearIndex(w)
    BY <1>0, <2>4 DEF Complete, Credit, MarkSettled, ClearIndex, Rows
  <2>5. QED
    BY <1>7, <2>1, <2>2, <2>3, <2>4 DEF Work
<1>8. ASSUME NEW w \in Procs, SendFail(w) \/ Crash(w)
      PROVE  told' = told /\ fate' = fate /\ row'.sent = row.sent
  BY <1>8 DEF SendFail, Crash
<1>9. CASE RecordDelivery \/ AgeClaim
  BY <1>0, <1>1, <1>9 DEF RecordDelivery, AgeClaim, Rows
<1>10. CASE UNCHANGED vars
  BY <1>1, <1>10 DEF vars
<1>11. QED
  BY <1>1, <1>3, <1>4, <1>5, <1>6, <1>7, <1>8, <1>9, <1>10, QuietSteps DEF Next, Tick

\* A person who was told stays told, and told what befell them.
LEMMA NextTold ==
    ASSUME Quiet, TypeOK, Inv, QuietRow, ToldInv, [Next]_vars
    PROVE  ToldInv' /\ \A p \in People : IsTold(p) => IsTold(p)'
<1>1. CASE \E w \in Procs, p \in People : Tell(w, p)
  BY <1>1, TellCounts
<1>2. CASE \A w \in Procs, p \in People : ~Tell(w, p)
  BY <1>2, NotTold DEF IsTold
<1>3. QED
  BY <1>1, <1>2

\* One tick at a time: who starts one is alone, and nobody else takes one up.
LEMMA NextOneTick ==
    ASSUME Quiet, TypeOK, QuietRow, OneTick, [Next]_vars
    PROVE  /\ OneTick'
           /\ \A w, v \in Procs : StartTick(w) => ~task[v].tick
<1> USE DEF sends, world, bounds
<1>0. task \in [Procs -> Tasks] /\ ~Idle.tick
  BY DEF TypeOK, Idle
<1>1. ASSUME NEW w \in Procs, NEW v \in Procs, StartTick(w) PROVE ~task[v].tick
  <2> SUFFICES ASSUME task[v].tick PROVE FALSE
    OBVIOUS
  <2>1. {u \in Procs : task[u].tick} = {v}
    BY DEF OneTick
  <2>2. TicksRunning = 1
    BY <2>1, FS_Singleton DEF TicksRunning
  <2>3. QED
    BY <1>1, <2>2 DEF StartTick, Quiet
<1>2. ASSUME NEW w \in Procs, StartTick(w) PROVE OneTick'
  <2>1. \A v \in Procs : ~task[v].tick
    BY <1>1, <1>2
  <2>2. \A v \in Procs \ {w} : task'[v] = task[v]
    BY <1>0, <1>2 DEF StartTick
  <2>3. QED
    BY <2>1, <2>2 DEF OneTick
<1>3. ASSUME \A v \in Procs : task'[v].tick => task[v].tick PROVE OneTick'
  BY <1>3 DEF OneTick
<1>4. ASSUME NEW w \in Procs, Request(w)
      PROVE  \A v \in Procs : task'[v].tick => task[v].tick
  <2>1. \E t : ~t.tick /\ task' = [task EXCEPT ![w] = t]
    <3>1. ASSUME NEW s, NEW place PROVE ~[Idle EXCEPT !.at = place, !.snap = s].tick
      BY DEF Idle
    <3>2. CASE StartSchedule(w)
      BY <3>2 DEF StartSchedule, Idle
    <3>3. CASE StartCancel(w)
      BY <3>1, <3>3 DEF StartCancel, Start
    <3>4. ASSUME NEW people \in Audiences, NEW later \in BOOLEAN, QuickSend(w, people, later)
          PROVE  \E t : ~t.tick /\ task' = [task EXCEPT ![w] = t]
      BY <3>4 DEF QuickSend, Idle
    <3>5. QED
      BY <1>4, <3>2, <3>3, <3>4 DEF Request
  <2>2. QED
    BY <1>0, <2>1
<1>5. ASSUME NEW w \in Procs, Finish(w)
      PROVE  \A v \in Procs : task'[v].tick => task[v].tick
  BY <1>0, <1>5 DEF Finish
<1>6. ASSUME NEW w \in Procs, NEW p, Goto(w, p)
      PROVE  \A v \in Procs : task'[v].tick => task[v].tick
  BY <1>0, <1>6 DEF Goto, Tasks
<1>7. ASSUME NEW w \in Procs, NEW r, Settle(w, r)
      PROVE  \A v \in Procs : task'[v].tick => task[v].tick
  BY <1>0, <1>5, <1>7 DEF Settle, Tasks
<1>8. ASSUME NEW w \in Procs, Work(w)
      PROVE  \A v \in Procs : task'[v].tick => task[v].tick
  <2>1. CASE ClaimDraft(w) \/ HandOut(w) \/ Load(w)
    BY <1>0, <1>5, <2>1 DEF ClaimDraft, HandOut, Load, Tasks
  <2>2. CASE Advance(w)
    BY <1>0, <1>7, <2>2 DEF Advance, Tasks
  <2>3. QED
    BY <1>5, <1>6, <1>8, <2>1, <2>2
       DEF Work, Reserve, Schedule, CancelScheduled, RefundAll, Claim, PlanFail, SendBatch,
           Complete, Credit, MarkSettled, ClearIndex
<1>9. ASSUME NEW w \in Procs, SendFail(w) \/ Crash(w)
      PROVE  \A v \in Procs : task'[v].tick => task[v].tick
  BY <1>5, <1>9 DEF SendFail, Crash
<1>10. ASSUME NEW w \in Procs, NEW p \in People, Tell(w, p)
       PROVE  \A v \in Procs : task'[v].tick => task[v].tick
  BY <1>7, <1>10 DEF Tell
<1>11. ASSUME \/ CreateDraft \/ RecordDelivery \/ AgeClaim \/ UNCHANGED vars
              \/ \E p \in People : OptOut(p) \/ Dispatch(p)
       PROVE  \A v \in Procs : task'[v].tick => task[v].tick
  BY <1>11 DEF CreateDraft, RecordDelivery, AgeClaim, vars, OptOut, Dispatch
<1>12. OneTick'
  BY <1>2, <1>3, <1>4, <1>8, <1>9, <1>10, <1>11, QuietSteps DEF Next, Tick
<1>13. QED
  BY <1>1, <1>12

\* What is reserved is always the price of the audience.
LEMMA NextPrice ==
    ASSUME Quiet, TypeOK, Inv, QuietRow, PriceInv, \A w \in Procs : QuietTask(w),
           [Next]_vars
    PROVE  PriceInv'
<1> USE DEF sends, world, bounds
<1>0. /\ row \in Rows /\ task \in [Procs -> Tasks] /\ Audience \in Audiences
      /\ Cost[Audience] \in Nat
      /\ ledger \in Ledger /\ ledger.sends \in Nat /\ ledger.debited \in Nat
  BY AudienceType, CampaignsAssumption DEF TypeOK, Audience, Ledger
<1>1. CASE row.status = "NONE"
  <2>1. ledger.sends = 0 /\ ledger.debited = 0 /\ row.kind = "LIST"
    BY <1>1 DEF PriceInv, QuietRow
  <2>2. \A w \in Procs : task[w].at = "idle"
    BY <1>1 DEF Inv, TaskInv
  <2>3. CASE CreateDraft
    BY <2>1, <2>3 DEF CreateDraft, PriceInv, Drafted, NoRow
  <2>4. ASSUME NEW w \in Procs, NEW people \in Audiences, NEW later \in BOOLEAN,
               QuickSend(w, people, later)
        PROVE  PriceInv'
    <3>1. /\ ledger' = ledger /\ row'.reserved = Cost[people]
          /\ row'.kind = "QUICK" /\ row'.people = people /\ row'.status = "DRAFT"
      BY <2>4 DEF QuickSend, Quoted, Drafted, NoRow
    <3>2. Audience' = people
      BY <3>1 DEF Audience, AudienceOf
    <3>3. QED
      BY <2>1, <3>1, <3>2 DEF PriceInv
  <2>5. ASSUME ledger' = ledger, row'.status = row.status, row'.kind = row.kind
        PROVE  PriceInv'
    BY <1>1, <2>1, <2>5 DEF PriceInv
  <2>6. CASE \E p \in People : OptOut(p) \/ Dispatch(p)
    BY <2>5, <2>6 DEF OptOut, Dispatch
  <2>7. ASSUME NEW w \in Procs, Request(w) \/ StartTick(w) PROVE PriceInv'
    BY <1>1, <2>4, <2>7 DEF Request, StartSchedule, StartCancel, StartTick
  <2>8. ASSUME NEW w \in Procs PROVE ~Work(w)
    BY <2>2 DEF Work, At, Reserve, Schedule, ClaimDraft, HandOut, CancelScheduled,
                RefundAll, Claim, Load, PlanFail, SendBatch, Advance, Complete, Credit,
                MarkSettled, ClearIndex
  <2>9. ASSUME NEW w \in Procs PROVE ~SendFail(w) /\ ~Crash(w)
    BY <2>2 DEF SendFail, Crash, At
  <2>10. ASSUME NEW w \in Procs, NEW p \in People, Tell(w, p) PROVE PriceInv'
    BY <1>0, <2>5, <2>10 DEF Tell, Rows
  <2>11. CASE RecordDelivery \/ AgeClaim \/ UNCHANGED vars
    BY <1>0, <2>5, <2>11 DEF RecordDelivery, AgeClaim, vars, Rows
  <2>12. QED
    BY <2>3, <2>6, <2>7, <2>8, <2>9, <2>10, <2>11, QuietSteps DEF Next, Tick
<1>2. CASE row.status # "NONE"
  <2>1. /\ Audience' = Audience /\ row'.kind = row.kind /\ row'.status # "NONE"
    BY <1>2, OneAudience, NextForward DEF Forward
  <2>2. \/ ledger'.sends = ledger.sends /\ ledger'.debited = ledger.debited
        \/ /\ ledger'.sends = ledger.sends + 1
           /\ ledger'.debited = ledger.debited + Cost[Audience]
    <3>1. CASE CreateDraft \/ RecordDelivery \/ AgeClaim \/ UNCHANGED vars
      BY <3>1 DEF CreateDraft, RecordDelivery, AgeClaim, vars
    <3>2. CASE \E p \in People : OptOut(p) \/ Dispatch(p)
      BY <3>2 DEF OptOut, Dispatch
    <3>3. ASSUME NEW w \in Procs, Request(w) \/ StartTick(w) PROVE ledger' = ledger
      BY <3>3 DEF Request, StartSchedule, StartCancel, QuickSend, StartTick
    <3>4. ASSUME NEW w \in Procs, Reserve(w)
          PROVE  \/ ledger' = ledger
                 \/ /\ ledger'.sends = ledger.sends + 1
                    /\ ledger'.debited = ledger.debited + Cost[Audience]
      <4>1. task[w].snap.reserved = Cost[Audience]
        BY <3>4 DEF Reserve, At, QuietTask
      <4>2. QED
        BY <1>0, <3>4, <4>1 DEF Reserve, Snap, Ledger
    <3>5. ASSUME NEW w \in Procs, RefundAll(w) \/ Credit(w)
          PROVE  ledger'.sends = ledger.sends /\ ledger'.debited = ledger.debited
      BY <1>0, <3>5 DEF RefundAll, Credit, Credited, Ledger
    <3>6. ASSUME NEW w \in Procs, Work(w), ~Reserve(w), ~RefundAll(w), ~Credit(w)
          PROVE  ledger' = ledger
      BY <3>6 DEF Work, Schedule, ClaimDraft, HandOut, CancelScheduled,
                  Claim, Load, PlanFail, SendBatch, Advance, Complete,
                  MarkSettled, ClearIndex
    <3>7. ASSUME NEW w \in Procs, SendFail(w) \/ Crash(w) PROVE ledger' = ledger
      BY <3>7 DEF SendFail, Crash
    <3>8. ASSUME NEW w \in Procs, NEW p \in People, Tell(w, p) PROVE ledger' = ledger
      BY <3>8 DEF Tell
    <3>9. QED
      BY <3>1, <3>2, <3>3, <3>4, <3>5, <3>6, <3>7, <3>8, QuietSteps DEF Next, Tick
  <2>3. \/ row'.reserved = row.reserved
           /\ (row'.status \in {"SCHEDULED", "SENDING", "SENT"} =>
                  row.status \in {"SCHEDULED", "SENDING", "SENT"} \/ row.kind = "QUICK")
        \/ row'.reserved = Cost[Audience]
    <3>0. row.status \in Statuses
      BY <1>0 DEF Rows
    <3>1. ASSUME NEW w \in Procs, Schedule(w), IsDraft(row)
          PROVE  row'.reserved = Cost[Audience]
      <4>1. task[w].snap.reserved = Cost[Audience]
        BY <3>1 DEF Schedule, At, QuietTask
      <4>2. QED
        BY <1>0, <3>1, <4>1 DEF Schedule, Snap, Rows
    <3>2. ASSUME NEW w \in Procs, ClaimDraft(w)
          PROVE  row'.reserved = row.reserved
                 /\ (row' = row \/ row.kind = "QUICK")
      <4>1. row.kind = "QUICK"
        BY <3>2 DEF ClaimDraft, At, QuietTask, Inv, TaskInv
      <4>2. QED
        BY <1>0, <3>2, <4>1 DEF ClaimDraft, Rows
    <3>3. ASSUME row' = row PROVE row'.reserved = row.reserved
           /\ (row'.status \in {"SCHEDULED", "SENDING", "SENT"} =>
                  row.status \in {"SCHEDULED", "SENDING", "SENT"} \/ row.kind = "QUICK")
      BY <3>3
    <3>4. ASSUME NEW w \in Procs, Work(w), ~Schedule(w), ~ClaimDraft(w)
          PROVE  /\ row'.reserved = row.reserved
                 /\ row'.status \in {"SCHEDULED", "SENDING", "SENT"} =>
                       row.status \in {"SCHEDULED", "SENDING", "SENT"}
      <4>1. CASE Reserve(w) \/ HandOut(w) \/ RefundAll(w) \/ Load(w) \/ PlanFail(w)
                 \/ SendBatch(w) \/ Credit(w)
        BY <4>1 DEF Reserve, HandOut, RefundAll, Load, PlanFail, SendBatch, Credit
      <4>2. CASE CancelScheduled(w) \/ Claim(w) \/ Complete(w)
        BY <1>0, <4>2 DEF CancelScheduled, Claim, IsClaimable, Complete, IsCounted, Rows
      <4>3. CASE Advance(w) \/ MarkSettled(w) \/ ClearIndex(w)
        BY <1>0, <4>3 DEF Advance, CountBatch, MarkSettled, ClearIndex, Rows
      <4>4. QED
        BY <3>4, <4>1, <4>2, <4>3 DEF Work
    <3>5. ASSUME NEW w \in Procs, Request(w) \/ StartTick(w) PROVE row' = row
      BY <1>2, <3>5 DEF Request, StartSchedule, StartCancel, QuickSend, StartTick
    <3>6. ASSUME NEW w \in Procs, SendFail(w) \/ Crash(w) PROVE row' = row
      BY <3>6 DEF SendFail, Crash
    <3>7. ASSUME NEW w \in Procs, NEW p \in People, Tell(w, p)
          PROVE row'.reserved = row.reserved /\ row'.status = row.status
      BY <1>0, <3>7 DEF Tell, Rows
    <3>8. CASE RecordDelivery \/ AgeClaim
      BY <1>0, <3>8 DEF RecordDelivery, AgeClaim, Rows
    <3>9. CASE UNCHANGED vars \/ \E p \in People : OptOut(p) \/ Dispatch(p)
      BY <3>3, <3>9 DEF vars, OptOut, Dispatch
    <3>10. ~CreateDraft
      BY <1>2 DEF CreateDraft
    <3>11. ASSUME NEW w \in Procs, Work(w)
           PROVE  \/ row'.reserved = row.reserved
                     /\ (row'.status \in {"SCHEDULED", "SENDING", "SENT"} =>
                          row.status \in {"SCHEDULED", "SENDING", "SENT"} \/ row.kind = "QUICK")
                  \/ row'.reserved = Cost[Audience]
      <4>1. CASE Schedule(w)
        BY <3>1, <3>3, <4>1 DEF Schedule
      <4>2. CASE ClaimDraft(w)
        BY <3>2, <4>2
      <4>3. QED
        BY <3>4, <3>11, <4>1, <4>2
    <3>12. QED
      BY <3>3, <3>5, <3>6, <3>7, <3>8, <3>9, <3>10, <3>11, QuietSteps DEF Next, Tick
  <2>4. ledger'.sends = 0 => ledger'.debited = 0
    BY <1>0, <2>2 DEF PriceInv
  <2>5. ledger'.sends = 1 => ledger'.debited = Cost[Audience]
    BY <1>0, <2>2 DEF PriceInv
  <2>6. row'.status \in {"SCHEDULED", "SENDING", "SENT"} \/ row'.kind = "QUICK" =>
           row'.reserved = Cost[Audience]
    BY <2>1, <2>3 DEF PriceInv
  <2>7. QED
    BY <2>1, <2>4, <2>5, <2>6 DEF PriceInv
<1>3. QED
  BY <1>1, <1>2

\* A step that leaves what the invariant speaks of as it is.
LEMMA SameRow ==
    ASSUME QuietRow, ToldRefused' = ToldRefused, row' = row,
           row.status = "NONE" \/ (Charged' = Charged /\ Size' = Size)
    PROVE  QuietRow'
<1>1. CASE row.status = "NONE"
  BY <1>1 DEF QuietRow
<1>2. CASE row.status # "NONE"
  BY <1>2 DEF QuietRow
<1>3. QED
  BY <1>1, <1>2

\* Scheduling, claiming, cancelling: the counts start from nothing.
LEMMA WorkQuietRow ==
    ASSUME Quiet, TypeOK, Inv, Counts, NEW w \in Procs, [Next]_vars,
           \/ Schedule(w) \/ ClaimDraft(w) \/ CancelScheduled(w) \/ Claim(w)
           \/ Complete(w) \/ MarkSettled(w) \/ ClearIndex(w)
    PROVE  QuietRow'
<1> USE DEF sends, world
<1>0. /\ row \in Rows /\ row.status \in Statuses
      /\ QuietRow /\ ToldInv /\ QuietTask(w) /\ TaskInv(w) /\ RowInv
  BY DEF TypeOK, Rows, Counts, Inv
<1>1. told' = told /\ jobs' = jobs
  BY DEF Schedule, ClaimDraft, CancelScheduled, Claim, Complete, MarkSettled, ClearIndex
<1>2. ToldRefused' = ToldRefused
  BY <1>1 DEF ToldRefused, ToldOf
<1>3. row.status # "NONE"
  BY <1>0 DEF TaskInv, At, Schedule, ClaimDraft, CancelScheduled, Claim, Complete,
              MarkSettled, ClearIndex
<1>4. /\ row'.kind = row.kind /\ row'.people = row.people
      /\ Charged' = Charged /\ Size' = Size
  BY <1>0, <1>3, OneAudience
<1>5. ~UnderWay(row) => ToldRefused = 0
  BY <1>0, ToldQueued DEF RowInv
<1>6. CASE row' = row
  BY <1>0, <1>2, <1>4, <1>6, SameRow
<1>7. CASE Schedule(w) /\ row' # row
  <2>1. /\ row.status = "DRAFT"
        /\ row' = [row EXCEPT !.status = "SCHEDULED", !.index = "due",
                              !.recipients = Snap(w).recipients,
                              !.quote = Snap(w).quote,
                              !.reserved = Snap(w).reserved]
    BY <1>7 DEF Schedule, IsDraft
  <2>2. task[w].snap.recipients = Charged
    BY <1>0, <1>7 DEF Schedule, At, QuietTask
  <2>3. /\ row'.status = "SCHEDULED" /\ row'.recipients = Charged
        /\ row'.progress = row.progress /\ row'.claimed = row.claimed
        /\ row'.queued = row.queued /\ row'.refused = row.refused
        /\ row'.cursor = row.cursor
    BY <1>0, <2>1, <2>2 DEF Rows, Snap
  <2>4. QED
    BY <1>0, <1>4, <2>1, <2>3 DEF QuietRow
<1>8. CASE ClaimDraft(w) /\ row' # row
  <2>1. /\ row.status = "DRAFT"
        /\ row' = [row EXCEPT !.status = "SENDING", !.index = "sending",
                              !.progress = "fresh"]
    BY <1>8 DEF ClaimDraft, IsDraft
  <2>2. row.kind = "QUICK"
    BY <1>0, <1>8 DEF ClaimDraft, At, QuietTask, TaskInv
  <2>3. /\ row'.status = "SENDING" /\ row'.index = "sending" /\ row'.progress = "fresh"
        /\ row'.recipients = row.recipients /\ row'.claimed = row.claimed
        /\ row'.queued = row.queued /\ row'.refused = row.refused
        /\ row'.cursor = row.cursor
    BY <1>0, <2>1 DEF Rows
  <2>4. ToldRefused = 0
    BY <1>5, <2>1 DEF UnderWay
  <2>5. QED
    BY <1>0, <1>2, <1>4, <2>1, <2>2, <2>3, <2>4 DEF QuietRow
<1>9. CASE CancelScheduled(w) /\ row' # row
  <2>1. row' = [row EXCEPT !.status = "CANCELLED", !.settled = 0, !.index = "none"]
    BY <1>9 DEF CancelScheduled
  <2>2. /\ row'.status = "CANCELLED"
        /\ row'.progress = row.progress /\ row'.claimed = row.claimed
    BY <1>0, <2>1 DEF Rows
  <2>3. QED
    BY <1>0, <1>4, <2>2 DEF QuietRow
<1>10. CASE Claim(w) /\ row' # row
  <2>1. /\ row.status \in {"SCHEDULED", "SENDING"}
        /\ row.status = "SENDING" => row.claimed # "never"
        /\ row' = [row EXCEPT !.status = "SENDING", !.claimed = "fresh"]
    BY <1>10 DEF Claim, IsClaimable
  <2>2. row.index = "due"
    BY <1>0, <1>10, <2>1 DEF Claim, At, QuietTask
  <2>3. /\ row'.status = "SENDING" /\ row'.claimed = "fresh" /\ row'.index = "due"
        /\ row'.progress = row.progress /\ row'.recipients = row.recipients
        /\ row'.queued = row.queued /\ row'.refused = row.refused
        /\ row'.cursor = row.cursor
    BY <1>0, <2>1, <2>2 DEF Rows
  <2>4. CASE row.status = "SCHEDULED"
    <3>1. ToldRefused = 0
      BY <1>5, <2>4 DEF UnderWay
    <3>2. QED
      BY <1>0, <1>2, <1>4, <2>3, <2>4, <3>1 DEF QuietRow
  <2>5. CASE row.status = "SENDING"
    BY <1>0, <1>2, <1>4, <2>1, <2>2, <2>3, <2>5 DEF QuietRow
  <2>6. QED
    BY <2>1, <2>4, <2>5
<1>11. CASE Complete(w) /\ row' # row
  <2>1. row' = [row EXCEPT !.status = "SENT", !.index = "sending", !.progress = "fresh"]
    BY <1>11 DEF Complete
  <2>2. /\ row'.status = "SENT" /\ row'.progress = "fresh" /\ row'.claimed = row.claimed
    BY <1>0, <2>1 DEF Rows
  <2>3. QED
    BY <1>0, <1>4, <2>2 DEF QuietRow
<1>12. CASE (MarkSettled(w) \/ ClearIndex(w)) /\ row' # row
  <2>1. row.status = "SENT"
    BY <1>0, <1>12 DEF MarkSettled, IsUnsettled, ClearIndex, At, TaskInv
  <2>2. /\ row'.status = "SENT" /\ row'.progress = row.progress
        /\ row'.claimed = row.claimed
    BY <1>0, <1>12, <2>1 DEF MarkSettled, ClearIndex, Rows
  <2>3. QED
    BY <1>0, <1>4, <2>2 DEF QuietRow
<1>13. QED
  BY <1>6, <1>7, <1>8, <1>9, <1>10, <1>11, <1>12

\* Each position a batch passes is queued or refused.
LEMMA AdvanceRow ==
    ASSUME Quiet, TypeOK, Inv, Counts, NEW w \in Procs, Advance(w)
    PROVE  /\ row'.status = row.status /\ row'.progress = "fresh"
           /\ row'.claimed = row.claimed /\ row.claimed # "never"
           /\ row'.sent = row.sent /\ row'.reserved = row.reserved
           /\ row'.quote = row.quote /\ row'.settled = row.settled
           /\ UnderWay(row) /\ row'.recipients = Size
           /\ row'.index = IF IsLastBatch(w) THEN "sending" ELSE row.index
           /\ row'.cursor = IF IsLastBatch(w) THEN 0 ELSE BatchEnd(w)
           /\ row'.queued = row.queued + Cardinality(Sendable(w))
           /\ row'.refused = row.refused + Cardinality(Batch(w) \ Sendable(w))
           /\ row.status = "SENDING" =>
                /\ row.index = "due" /\ task[w].pos = row.cursor
                /\ task[w].pos <= Len(task[w].members)
                /\ row'.queued + row'.refused = ToldRefused + BatchEnd(w)
                /\ ~IsLastBatch(w) => BatchEnd(w) > 0 /\ BatchEnd(w) < Size
                /\ IsLastBatch(w) => BatchEnd(w) = Size
<1>0. /\ row \in Rows /\ task[w] \in Tasks /\ QuietRow /\ ToldInv /\ QuietTask(w)
      /\ TaskInv(w) /\ At(w, "advance")
  BY DEF TypeOK, Counts, Inv, Advance
<1>1. /\ task[w].members = Audience /\ UnderWay(row) /\ row.claimed # "never"
      /\ row.status = "SENDING" => row.index = "due" /\ task[w].pos = row.cursor
  BY <1>0 DEF At, QuietTask, TaskInv, UnderWay
<1>2. /\ row.queued \in Nat /\ row.refused \in Nat /\ row.cursor \in Nat
      /\ Size \in Nat /\ BatchEnd(w) \in Nat /\ ToldRefused \in Nat
      /\ Len(task[w].members) = Size
  BY <1>0, <1>1, MemberType, ToldCount DEF Rows, Size
<1>3. \/ /\ IsLastBatch(w)
         /\ row' = [CountBatch(row, w) EXCEPT !.cursor = 0, !.index = "sending"]
      \/ ~IsLastBatch(w) /\ row' = [CountBatch(row, w) EXCEPT !.cursor = BatchEnd(w)]
  BY DEF Advance
<1>4. /\ row'.status = row.status /\ row'.progress = "fresh" /\ row'.claimed = row.claimed
      /\ row'.sent = row.sent /\ row'.reserved = row.reserved
      /\ row'.quote = row.quote /\ row'.settled = row.settled
      /\ row'.recipients = Size
      /\ row'.index = IF IsLastBatch(w) THEN "sending" ELSE row.index
      /\ row'.cursor = IF IsLastBatch(w) THEN 0 ELSE BatchEnd(w)
      /\ row'.queued = row.queued + Cardinality(Sendable(w))
      /\ row'.refused = row.refused + Cardinality(Batch(w) \ Sendable(w))
  BY <1>0, <1>2, <1>3 DEF CountBatch, Rows
<1>5. ASSUME row.status = "SENDING"
      PROVE  /\ task[w].pos <= Len(task[w].members)
             /\ row'.queued + row'.refused = ToldRefused + BatchEnd(w)
             /\ ~IsLastBatch(w) => BatchEnd(w) > 0 /\ BatchEnd(w) < Size
             /\ IsLastBatch(w) => BatchEnd(w) = Size
  <2>1. /\ row.queued + row.refused = ToldRefused + row.cursor
        /\ row.cursor > 0 => row.cursor < Size
        /\ task[w].pos = row.cursor
    BY <1>0, <1>1, <1>5 DEF QuietRow
  <2>2. task[w].pos <= Len(task[w].members)
    BY <1>2, <2>1
  <2>3. /\ Cardinality(Sendable(w)) \in Nat
        /\ Cardinality(Batch(w) \ Sendable(w)) \in Nat
        /\ task[w].pos <= BatchEnd(w) /\ BatchEnd(w) <= Size
        /\ Cardinality(Sendable(w)) + Cardinality(Batch(w) \ Sendable(w))
             = BatchEnd(w) - task[w].pos
        /\ task[w].pos < Size => task[w].pos < BatchEnd(w)
    BY <1>0, <1>2, <2>2, BatchCount
  <2>4. row'.queued + row'.refused = ToldRefused + BatchEnd(w)
    <3> DEFINE queued == Cardinality(Sendable(w))
               passed == Cardinality(Batch(w) \ Sendable(w))
    <3>1. queued \in Nat /\ passed \in Nat /\ queued + passed = BatchEnd(w) - row.cursor
      BY <2>1, <2>3
    <3>2. /\ row'.queued = row.queued + queued
          /\ row'.refused = row.refused + passed
      BY <1>4
    <3> HIDE DEF queued, passed
    <3>3. /\ row.queued \in Nat /\ row.refused \in Nat /\ row.cursor \in Nat
          /\ ToldRefused \in Nat /\ BatchEnd(w) \in Nat
          /\ row.queued + row.refused = ToldRefused + row.cursor
      BY <1>2, <2>1
    <3>4. \A q, r, s, p \in Nat : (q + s) + (r + p) = (q + r) + (s + p)
      OBVIOUS
    <3>5. \A t, c, e \in Nat : (t + c) + (e - c) = t + e
      OBVIOUS
    <3>6. row'.queued + row'.refused = (row.queued + row.refused) + (queued + passed)
      <4>1. (row.queued + queued) + (row.refused + passed)
              = (row.queued + row.refused) + (queued + passed)
        BY <3>1, <3>3, <3>4
      <4>2. QED
        BY <3>2, <4>1, Zenon
    <3>7. (ToldRefused + row.cursor) + (BatchEnd(w) - row.cursor) = ToldRefused + BatchEnd(w)
      BY <3>3, <3>5, Zenon
    <3>8. QED
      BY <3>1, <3>3, <3>6, <3>7, Zenon
  <2>5. ~IsLastBatch(w) => BatchEnd(w) > 0 /\ BatchEnd(w) < Size
    BY <1>2, <2>1, <2>3 DEF IsLastBatch
  <2>6. QED
    BY <1>2, <2>2, <2>4, <2>5 DEF IsLastBatch
<1>6. QED
  BY <1>1, <1>4, <1>5

\* The part of the invariant that speaks of the row, over every step.
LEMMA NextQuietRow ==
    ASSUME Quiet, TypeOK, Inv, Counts, [Next]_vars PROVE QuietRow'
<1> USE DEF sends, world, bounds
<1>0. /\ row \in Rows /\ row.status \in Statuses /\ QuietRow /\ ToldInv /\ RowInv
  BY DEF TypeOK, Rows, Counts, Inv
<1>1. row.status # "NONE" =>
        /\ row'.kind = row.kind /\ row'.people = row.people
        /\ Charged' = Charged /\ Size' = Size
  BY <1>0, OneAudience
<1>2. (\A w \in Procs, p \in People : ~Tell(w, p)) => ToldRefused' = ToldRefused
  BY <1>0, NotTold
<1>3. ASSUME row' = row, told' = told PROVE QuietRow'
  <2>1. ToldRefused' = ToldRefused
    BY <1>3 DEF ToldRefused, ToldOf
  <2>2. QED
    BY <1>0, <1>1, <1>3, <2>1 DEF QuietRow
<1>4. CASE CreateDraft
  BY <1>4 DEF CreateDraft, Drafted, NoRow, QuietRow
<1>5. CASE \E p \in People : OptOut(p)
  BY <1>3, <1>5 DEF OptOut
<1>6. ASSUME NEW p \in People, Dispatch(p) PROVE QuietRow'
  BY <1>3, <1>6 DEF Dispatch, Send!Accept, Send!Refuse, Send!Meet
<1>7. ASSUME NEW w \in Procs, Request(w) \/ StartTick(w) PROVE QuietRow'
  <2>1. CASE StartSchedule(w) \/ StartCancel(w) \/ StartTick(w)
    BY <1>3, <2>1 DEF StartSchedule, StartCancel, StartTick
  <2>2. ASSUME NEW people \in Audiences, NEW later \in BOOLEAN,
               QuickSend(w, people, later)
        PROVE  QuietRow'
    <3>1. /\ row'.kind = "QUICK" /\ row'.people = people /\ row'.status = "DRAFT"
          /\ row'.recipients = Cardinality(Chargeable(people))
          /\ row'.progress = "never" /\ row'.claimed = "never" /\ row'.index = "none"
          /\ row'.queued = 0 /\ row'.refused = 0 /\ row'.cursor = 0
          /\ \A i \in DOMAIN people : people[i] \in Allowed
      BY <2>2 DEF QuickSend, Quoted, Drafted, NoRow
    <3>2. Charged' = Cardinality(Chargeable(people))
      BY <3>1 DEF Charged, Audience, AudienceOf, Chargeable
    <3>3. QED
      BY <3>1, <3>2 DEF QuietRow
  <2>3. QED
    BY <1>7, <2>1, <2>2 DEF Request
<1>8. ASSUME NEW w \in Procs, Advance(w) PROVE QuietRow'
  <2>1. ToldRefused' = ToldRefused
    BY <1>8 DEF ToldRefused, ToldOf, Advance
  <2>2. row.status # "NONE" /\ UnderWay(row)
    BY <1>8, AdvanceRow DEF UnderWay
  <2>3. /\ row'.status = row.status /\ row'.progress = "fresh"
        /\ row'.claimed = row.claimed /\ row.claimed # "never"
        /\ row'.recipients = Size
        /\ row'.index = IF IsLastBatch(w) THEN "sending" ELSE row.index
        /\ row'.cursor = IF IsLastBatch(w) THEN 0 ELSE BatchEnd(w)
    BY <1>8, AdvanceRow
  <2>4. row.status = "SENDING" =>
          /\ row'.queued + row'.refused = ToldRefused + BatchEnd(w)
          /\ ~IsLastBatch(w) => BatchEnd(w) > 0 /\ BatchEnd(w) < Size
          /\ IsLastBatch(w) => BatchEnd(w) = Size
    BY <1>8, AdvanceRow
  <2>5. CASE row.status = "SENT"
    BY <1>0, <1>1, <2>2, <2>3, <2>5 DEF QuietRow
  <2>6. CASE row.status = "SENDING" /\ IsLastBatch(w)
    BY <1>0, <1>1, <2>1, <2>3, <2>4, <2>6 DEF QuietRow
  <2>7. CASE row.status = "SENDING" /\ ~IsLastBatch(w)
    <3>1. row'.cursor # 0
      <4>1. BatchEnd(w) > 0 /\ BatchEnd(w) \in Nat
        BY <1>0, <1>8, <2>4, <2>7, MemberType DEF TypeOK
      <4>2. QED
        BY <2>3, <2>7, <4>1
    <3>2. row'.index = row.index /\ row'.cursor = BatchEnd(w)
      BY <2>3, <2>7
    <3>3. row'.index = "due"
      BY <1>8, <2>7, <3>2, AdvanceRow
    <3>4. /\ row'.queued + row'.refused = ToldRefused' + row'.cursor
          /\ row'.cursor < Size' /\ row'.recipients = Size'
      BY <1>1, <2>1, <2>2, <2>3, <2>4, <2>7, <3>2
    <3>5. row'.status = "SENDING" /\ row'.progress = "fresh" /\ row'.claimed = row.claimed
      BY <2>3, <2>7
    <3>6. /\ row'.kind = row.kind /\ row'.people = row.people
      BY <1>1, <2>2
    <3>7. QED
      BY <1>0, <2>3, <3>1, <3>3, <3>4, <3>5, <3>6 DEF QuietRow
  <2>8. QED
    BY <2>2, <2>5, <2>6, <2>7 DEF UnderWay
<1>9. ASSUME NEW w \in Procs, Work(w) PROVE QuietRow'
  <2>1. CASE Reserve(w) \/ HandOut(w) \/ RefundAll(w) \/ Load(w) \/ PlanFail(w)
             \/ SendBatch(w) \/ Credit(w)
    BY <1>3, <2>1 DEF Reserve, HandOut, RefundAll, Load, PlanFail, SendBatch, Credit
  <2>2. QED
    BY <1>8, <1>9, <2>1, WorkQuietRow DEF Work
<1>10. ASSUME NEW w \in Procs, SendFail(w) \/ Crash(w) PROVE QuietRow'
  BY <1>3, <1>10 DEF SendFail, Crash
<1>11. ASSUME NEW w \in Procs, NEW p \in People, Tell(w, p) PROVE QuietRow'
  <2>1. row'.refused - row.refused = ToldRefused' - ToldRefused
    BY <1>0, <1>11, TellCounts
  <2>2. /\ row.refused \in Nat /\ row.queued \in Nat /\ row'.refused \in Nat
        /\ ToldRefused \in Nat /\ ToldRefused' \in Nat
    BY <1>0, <1>11, ToldCount, TellCounts DEF Rows
  <2>3. /\ row'.status = row.status /\ row'.progress = "fresh" /\ row'.index = row.index
        /\ row'.claimed = row.claimed /\ row'.recipients = row.recipients
        /\ row'.queued = row.queued /\ row'.cursor = row.cursor
    BY <1>0, <1>11 DEF Tell, Rows
  <2>4. UnderWay(row)
    BY <1>0, <1>11 DEF Tell, Send!Tell, RowInv
  <2>5. row'.refused - ToldRefused' = row.refused - ToldRefused
    BY <2>1, <2>2
  <2>6. \A q, r, s, t, u, c \in Nat : u - t = r - s /\ q + r = s + c => q + u = t + c
    OBVIOUS
  <2>7. \A c \in Nat : row.queued + row.refused = ToldRefused + c
                        => row'.queued + row'.refused = ToldRefused' + c
    BY <2>2, <2>3, <2>5, <2>6
  <2>8. row.refused = ToldRefused => row'.refused = ToldRefused'
    BY <2>1, <2>2
  <2>9. row.cursor \in Nat /\ Size \in Nat
    <3>1. Audience \in Audiences
      BY <1>0, AudienceType DEF Audience
    <3>2. QED
      BY <1>0, <3>1, CampaignsAssumption DEF Size, Rows
  <2>10. CASE row.status = "SENT"
    BY <1>0, <1>1, <2>3, <2>10 DEF QuietRow
  <2>11. CASE row.status = "SENDING" /\ row.claimed = "never"
    BY <1>0, <1>1, <2>3, <2>8, <2>11 DEF QuietRow
  <2>12. CASE row.status = "SENDING" /\ row.claimed # "never"
    <3>1. row.index = "due" =>
            /\ row'.queued + row'.refused = ToldRefused' + row.cursor
            /\ row.cursor > 0 => row.cursor < Size /\ row.recipients = Size
      BY <1>0, <2>7, <2>9, <2>12 DEF QuietRow
    <3>2. row.index = "sending" =>
            /\ row.cursor = 0 /\ row.recipients = Size
            /\ row'.queued + row'.refused = ToldRefused' + Size
      BY <1>0, <2>7, <2>9, <2>12 DEF QuietRow
    <3>3. row.index = "due" /\ row.cursor = 0 => row.recipients = Charged
      BY <1>0, <2>12 DEF QuietRow
    <3>4. QED
      BY <1>0, <1>1, <2>3, <2>12, <3>1, <3>2, <3>3 DEF QuietRow
  <2>13. QED
    BY <2>4, <2>10, <2>11, <2>12 DEF UnderWay
<1>12. CASE RecordDelivery \/ AgeClaim
  <2>1. told' = told
    BY <1>12 DEF RecordDelivery, AgeClaim
  <2>2. ToldRefused' = ToldRefused
    BY <2>1 DEF ToldRefused, ToldOf
  <2>3. /\ row'.status = row.status /\ row'.progress # "old" /\ row'.index = row.index
        /\ row'.claimed # "old" /\ (row'.claimed = "never" <=> row.claimed = "never")
        /\ row'.recipients = row.recipients /\ row'.refused = row.refused
        /\ row'.queued = row.queued /\ row'.cursor = row.cursor
        /\ row'.kind = row.kind /\ row'.people = row.people
    <3>1. CASE RecordDelivery
      BY <1>0, <3>1 DEF RecordDelivery, Rows, QuietRow
    <3>2. CASE AgeClaim
      BY <1>0, <3>2 DEF AgeClaim, Rows, QuietRow
    <3>3. QED
      BY <1>12, <3>1, <3>2
  <2>4. row.status # "NONE"
    BY <1>0, <1>12 DEF RecordDelivery, AgeClaim, QuietRow, RowInv, UnderWay
  <2>5. QED
    BY <1>0, <1>1, <2>2, <2>3, <2>4 DEF QuietRow
<1>13. CASE UNCHANGED vars
  BY <1>3, <1>13 DEF vars
<1>14. QED
  BY <1>0, <1>4, <1>5, <1>6, <1>7, <1>9, <1>10, <1>11, <1>12, <1>13, QuietSteps DEF Next, Tick

-----------------------------------------------------------------------------
(* The processes. *)

\* What a step may do to the row under those who read it earlier.
LEMMA RowSteps ==
    ASSUME Quiet, TypeOK, Inv, Counts, [Next]_vars, row.status # "NONE"
    PROVE  /\ UnderWay(row) => row'.quote = row.quote /\ row'.reserved = row.reserved
           /\ row'.claimed = "never" => row.claimed = "never"
           /\ UnderWay(row) /\ row.claimed = "never" => row'.claimed = "never"
           /\ WasReserved(row) =>
                /\ WasReserved(row')
                /\ row'.status = "SENDING" => row.status \in {"SCHEDULED", "SENDING"}
                /\ row'.status = "SCHEDULED" => row.status = "SCHEDULED"
                /\ row.status = "SCHEDULED" /\ UnderWay(row') => row'.claimed # "never"
           /\ row.status = "DRAFT" => row'.claimed = row.claimed
           /\ row.status = "SENDING" => row'.status \in {"SENDING", "SENT"}
           /\ \/ \E w \in Procs : Advance(w)
              \/ /\ WasReserved(row) => row'.queued = row.queued
                 /\ WasReserved(row) /\ row'.status \in {"SCHEDULED", "SENDING"} =>
                      row'.index = row.index /\ row'.cursor = row.cursor
<1> DEFINE Kept ==
             /\ UnderWay(row) => row'.quote = row.quote /\ row'.reserved = row.reserved
             /\ row'.claimed = "never" => row.claimed = "never"
             /\ UnderWay(row) /\ row.claimed = "never" => row'.claimed = "never"
             /\ WasReserved(row) =>
                  /\ WasReserved(row')
                  /\ row'.status = "SENDING" => row.status \in {"SCHEDULED", "SENDING"}
                  /\ row'.status = "SCHEDULED" => row.status = "SCHEDULED"
                  /\ row.status = "SCHEDULED" /\ UnderWay(row') => row'.claimed # "never"
             /\ row.status = "DRAFT" => row'.claimed = row.claimed
             /\ row.status = "SENDING" => row'.status \in {"SENDING", "SENT"}
             /\ WasReserved(row) => row'.queued = row.queued
             /\ WasReserved(row) /\ row'.status \in {"SCHEDULED", "SENDING"} =>
                   row'.index = row.index /\ row'.cursor = row.cursor
<1> USE DEF sends, world, bounds, UnderWay, WasReserved
<1>0. row \in Rows /\ \A w \in Procs : TaskInv(w)
  BY DEF TypeOK, Inv
<1>1. ASSUME row' = row PROVE Kept
  BY <1>1
<1>2. ASSUME NEW w \in Procs, Schedule(w) PROVE Kept
  BY <1>0, <1>2 DEF Schedule, IsDraft, Rows
<1>3. ASSUME NEW w \in Procs, ClaimDraft(w) PROVE Kept
  BY <1>0, <1>3 DEF ClaimDraft, IsDraft, Rows
<1>4. ASSUME NEW w \in Procs, CancelScheduled(w) PROVE Kept
  BY <1>0, <1>4 DEF CancelScheduled, IsScheduled, Rows
<1>5. ASSUME NEW w \in Procs, Claim(w) PROVE Kept
  BY <1>0, <1>5 DEF Claim, IsClaimable, Rows
<1>6. ASSUME NEW w \in Procs, Complete(w) PROVE Kept
  BY <1>0, <1>6 DEF Complete, IsCounted, Rows
<1>7. ASSUME NEW w \in Procs, MarkSettled(w) \/ ClearIndex(w) PROVE Kept
  <2>1. row.status = "SENT"
    BY <1>0, <1>7 DEF MarkSettled, ClearIndex, At, TaskInv
  <2>2. row'.status = "SENT" /\ row'.claimed = row.claimed /\ row'.quote = row.quote
        /\ row'.reserved = row.reserved /\ row'.queued = row.queued
    BY <1>0, <1>7, <2>1 DEF MarkSettled, ClearIndex, Rows
  <2>3. QED
    BY <2>1, <2>2
<1>8. ASSUME NEW w \in Procs, Advance(w)
      PROVE  /\ UnderWay(row) /\ row'.status = row.status /\ row'.claimed = row.claimed
             /\ row'.quote = row.quote /\ row'.reserved = row.reserved
  BY <1>8, AdvanceRow
<1>9. ASSUME NEW w \in Procs, NEW p \in People, Tell(w, p) PROVE Kept
  BY <1>0, <1>9 DEF Tell, Rows
<1>10. ASSUME RecordDelivery \/ AgeClaim PROVE Kept
  <2>1. row.status = "DRAFT" => row.claimed = "never" /\ \A p \in People : fate[p] = "open"
    BY DEF Counts, QuietRow, Inv, RowInv
  <2>2. QED
    BY <1>0, <1>10, <2>1 DEF RecordDelivery, AgeClaim, Rows
<1>11. ASSUME NEW w \in Procs, Work(w) PROVE Kept \/ Advance(w)
  <2>1. CASE Reserve(w) \/ HandOut(w) \/ RefundAll(w) \/ Load(w) \/ PlanFail(w)
             \/ SendBatch(w) \/ Credit(w)
    <3>1. row' = row
      BY <2>1 DEF Reserve, HandOut, RefundAll, Load, PlanFail, SendBatch, Credit
    <3>2. QED
      BY <1>1, <3>1
  <2>2. QED
    BY <1>2, <1>3, <1>4, <1>5, <1>6, <1>7, <1>11, <2>1 DEF Work
<1>12. ASSUME NEW w \in Procs,
              Request(w) \/ StartTick(w) \/ SendFail(w) \/ Crash(w)
       PROVE  row' = row
  BY <1>12 DEF Request, StartSchedule, StartCancel, QuickSend, StartTick, SendFail, Crash
<1>13. ASSUME UNCHANGED vars \/ \E p \in People : OptOut(p) \/ Dispatch(p) PROVE Kept
  <2>1. row' = row
    BY <1>13 DEF vars, OptOut, Dispatch
  <2>2. QED
    BY <1>1, <2>1
<1>14. Kept \/ \E w \in Procs : Advance(w)
  <2> HIDE DEF Kept
  <2>1. ~CreateDraft
    BY DEF CreateDraft
  <2>2. QuietRow
    BY DEF Counts
  <2>3. QED
    BY <1>1, <1>9, <1>10, <1>11, <1>12, <1>13, <2>1, <2>2, QuietSteps DEF Next, Tick
<1>15. QED
  BY <1>8, <1>14

\* What a process counts on survives the steps of the others.
LEMMA OthersQuiet ==
    ASSUME Quiet, TypeOK, Inv, Counts, [Next]_vars, NEW v \in Procs, task'[v] = task[v]
    PROVE  QuietTask(v)'
<1>1. task \in [Procs -> Tasks] /\ QuietTask(v) /\ TaskInv(v) /\ QuietRow
  BY DEF TypeOK, Counts, Inv
<1>2. CASE task[v].at = "idle"
  BY <1>2 DEF QuietTask
<1>3. CASE task[v].at # "idle"
  <2>1. row.status # "NONE"
    BY <1>1, <1>3 DEF TaskInv
  <2>2. /\ row'.kind = row.kind /\ row'.people = row.people
        /\ Audience' = Audience /\ Charged' = Charged
    BY <1>1, <2>1, OneAudience
  <2>3. \/ ~task[v].tick
        \/ WasReserved(row) /\ row'.status \in {"SCHEDULED", "SENDING"} =>
              row'.index = row.index /\ row'.cursor = row.cursor
    <3>1. ASSUME NEW w \in Procs, Advance(w) PROVE ~task[v].tick
      <4>1. task[w].at = "advance" /\ task[w].tick
        BY <3>1 DEF Advance, At, Counts, QuietTask
      <4>2. task'[w].at # "advance"
        BY <1>1, <3>1 DEF Advance, Settle, Finish, Idle, Tasks
      <4>3. v # w
        BY <4>1, <4>2
      <4>4. QED
        BY <4>1, <4>3 DEF Counts, OneTick
    <3>2. QED
      BY <2>1, <3>1, RowSteps
  <2>4. /\ UnderWay(row) => row'.quote = row.quote /\ row'.reserved = row.reserved
        /\ row'.claimed = "never" => row.claimed = "never"
        /\ UnderWay(row) /\ row.claimed = "never" => row'.claimed = "never"
        /\ WasReserved(row) =>
             /\ WasReserved(row')
             /\ row'.status = "SENDING" => row.status \in {"SCHEDULED", "SENDING"}
             /\ row'.status = "SCHEDULED" => row.status = "SCHEDULED"
             /\ row.status = "SCHEDULED" /\ UnderWay(row') => row'.claimed # "never"
    BY <2>1, RowSteps
  <2>5. /\ task[v].at \in {"hand_out", "load", "batch", "advance", "complete"} => UnderWay(row)
        /\ task[v].at \in {"credit", "mark"} => UnderWay(row)
    BY <1>1 DEF TaskInv, UnderWay
  <2>6. UnderWay(row) => WasReserved(row)
    BY DEF UnderWay, WasReserved
  <2>7. task[v].at \in {"reserve", "schedule", "claim_draft", "hand_out"} => QuietTask(v)'
    BY <1>1, <2>2, <2>4, <2>5 DEF QuietTask
  <2>8. task[v].at \in {"complete", "credit", "mark"} => QuietTask(v)'
    BY <1>1, <2>4, <2>5 DEF QuietTask
  <2>9. ASSUME task[v].at \in {"claim", "load", "batch", "advance"} PROVE QuietTask(v)'
    <3>1. task[v].tick /\ WasReserved(row)
      BY <1>1, <2>5, <2>6, <2>9 DEF QuietTask
    <3>2. row'.status \in {"SCHEDULED", "SENDING"} =>
            /\ row.status \in {"SCHEDULED", "SENDING"}
            /\ row'.index = row.index /\ row'.cursor = row.cursor
      BY <2>3, <2>4, <3>1
    <3>3. row'.status = "SENDING" /\ task[v].at \in {"batch", "advance"} =>
            row.status = "SENDING"
      BY <2>4, <2>5, <3>1 DEF UnderWay
    <3>4. UnderWay(row') => row'.claimed # "never"
      <4>1. row.status # "CANCELLED" \/ row'.status = "CANCELLED"
        BY NextForward DEF Forward
      <4>2. QED
        BY <1>1, <2>4, <2>9, <3>1, <4>1 DEF QuietTask, UnderWay, WasReserved
    <3>5. CASE task[v].at = "claim"
      BY <1>1, <2>2, <2>4, <3>1, <3>2, <3>4, <3>5 DEF QuietTask
    <3>6. CASE task[v].at = "load"
      BY <1>1, <2>2, <3>1, <3>2, <3>4, <3>6 DEF QuietTask
    <3>7. CASE task[v].at \in {"batch", "advance"}
      BY <1>1, <2>2, <3>1, <3>2, <3>3, <3>4, <3>7 DEF QuietTask
    <3>8. QED
      BY <2>9, <3>5, <3>6, <3>7
  <2>10. CASE task[v].at \in {"cancel", "refund", "clear"}
    BY <2>10 DEF QuietTask
  <2>11. task[v].at \in Places
    BY <1>1 DEF Tasks
  <2>12. QED
    BY <1>3, <2>7, <2>8, <2>9, <2>10, <2>11 DEF Places
<1>4. QED
  BY <1>2, <1>3

\* It is enough to look at the process that moves.
LEMMA OneMovesQuiet ==
    ASSUME Quiet, TypeOK, Inv, Counts, [Next]_vars, NEW w \in Procs, QuietTask(w)',
           \A v \in Procs \ {w} : task'[v] = task[v]
    PROVE  \A v \in Procs : QuietTask(v)'
<1>1. TAKE v \in Procs
<1>2. CASE v = w
  BY <1>2
<1>3. CASE v # w
  BY <1>3, OthersQuiet
<1>4. QED
  BY <1>2, <1>3

\* A process that ends, and one that goes on to complete what it has counted.
LEMMA EndsQuiet ==
    ASSUME Quiet, TypeOK, Inv, Counts, [Next]_vars, NEW w \in Procs,
           Finish(w) \/ Settle(w, row')
    PROVE  \A v \in Procs : QuietTask(v)'
<1>1. task \in [Procs -> Tasks]
  BY DEF TypeOK
<1>2. \/ task'[w] = Idle
      \/ task'[w].at = "complete" /\ task'[w].snap = row'
  BY <1>1 DEF Finish, Settle, Tasks
<1>3. \A v \in Procs \ {w} : task'[v] = task[v]
  BY <1>1 DEF Finish, Settle
<1>4. QuietTask(w)'
  BY <1>2 DEF QuietTask, Idle
<1>5. QED
  BY <1>3, <1>4, OneMovesQuiet

\* A process that takes up a request or a tick.
LEMMA BeginsQuiet ==
    ASSUME Quiet, TypeOK, Inv, Counts, [Next]_vars, NEW w \in Procs,
           Request(w) \/ StartTick(w)
    PROVE  \A v \in Procs : QuietTask(v)'
<1> USE DEF sends, world
<1>1. /\ task \in [Procs -> Tasks] /\ row \in Rows /\ QuietRow /\ RowInv
  BY DEF TypeOK, Counts, Inv
<1>2. CASE StartSchedule(w)
  <2>1. /\ Audience' = Audience /\ Charged' = Charged
    BY <1>1, <1>2, OneAudience DEF StartSchedule
  <2>2. /\ task'[w].at = "reserve" /\ task'[w].later = TRUE /\ task'[w].blocked = {}
        /\ task'[w].snap = Quoted(row, Audience)
        /\ \A v \in Procs \ {w} : task'[v] = task[v]
    BY <1>1, <1>2 DEF StartSchedule, Idle, Audience
  <2>3. task'[w].snap.reserved = Cost[Audience] /\ task'[w].snap.recipients = Charged
    BY <1>1, <2>2 DEF Quoted, Charged, Rows
  <2>4. QuietTask(w)'
    BY <2>1, <2>2, <2>3 DEF QuietTask
  <2>5. QED
    BY <2>2, <2>4, OneMovesQuiet
<1>3. ASSUME NEW people \in Audiences, NEW later \in BOOLEAN,
             QuickSend(w, people, later)
      PROVE  \A v \in Procs : QuietTask(v)'
  <2>1. /\ row'.kind = "QUICK" /\ row'.people = people
        /\ row'.recipients = Cardinality(Chargeable(people))
        /\ row'.reserved = Cost[people]
        /\ task'[w].at = "reserve" /\ task'[w].blocked = {} /\ task'[w].snap = row'
        /\ \A v \in Procs \ {w} : task'[v] = task[v]
    BY <1>1, <1>3 DEF QuickSend, Quoted, Drafted, NoRow, Idle
  <2>2. Audience' = people /\ Charged' = Cardinality(Chargeable(people))
    BY <2>1 DEF Charged, Audience, AudienceOf, Chargeable
  <2>3. QuietTask(w)'
    BY <2>1, <2>2 DEF QuietTask
  <2>4. QED
    BY <2>1, <2>3, OneMovesQuiet
<1>4. CASE StartCancel(w)
  <2>1. /\ task'[w].at = "cancel"
        /\ \A v \in Procs \ {w} : task'[v] = task[v]
    BY <1>1, <1>4 DEF StartCancel, Start, Idle
  <2>2. QuietTask(w)'
    BY <2>1 DEF QuietTask
  <2>3. QED
    BY <2>1, <2>2, OneMovesQuiet
<1>5. CASE StartTick(w)
  <2>1. /\ row' = row /\ row.index = "due" /\ row.status \in {"SCHEDULED", "SENDING"}
        /\ task'[w].at = "claim" /\ task'[w].tick = TRUE /\ task'[w].snap = row
        /\ \A v \in Procs \ {w} : task'[v] = task[v]
    BY <1>1, <1>5 DEF StartTick, Idle
  <2>2. UnderWay(row) => row.claimed # "never"
    BY <1>1, <2>1 DEF QuietRow, UnderWay
  <2>3. QuietTask(w)'
    BY <1>1, <2>1, <2>2 DEF QuietTask, QuietRow, UnderWay, WasReserved
  <2>4. QED
    BY <2>1, <2>3, OneMovesQuiet
<1>6. QED
  BY <1>2, <1>3, <1>4, <1>5 DEF Request

\* A process that goes on with its handler.
LEMMA WorkQuiet ==
    ASSUME Quiet, TypeOK, Inv, Counts, [Next]_vars, NEW w \in Procs, Work(w)
    PROVE  \A v \in Procs : QuietTask(v)'
<1> USE DEF sends, world
<1>0. /\ task \in [Procs -> Tasks] /\ row \in Rows /\ QuietRow /\ RowInv
      /\ QuietTask(w) /\ TaskInv(w)
  BY DEF TypeOK, Counts, Inv
<1>1. row.status # "NONE" =>
        /\ row'.kind = row.kind /\ row'.people = row.people
        /\ Audience' = Audience /\ Charged' = Charged
  BY <1>0, OneAudience
<1>2. ASSUME Finish(w) PROVE \A v \in Procs : QuietTask(v)'
  BY <1>2, EndsQuiet
<1>3. ASSUME NEW p, Goto(w, p)
      PROVE  /\ task'[w] = [task[w] EXCEPT !.at = p]
             /\ task'[w].at = p /\ task'[w].snap = task[w].snap
             /\ task'[w].later = task[w].later /\ task'[w].tick = task[w].tick
             /\ task'[w].members = task[w].members /\ task'[w].blocked = task[w].blocked
             /\ task'[w].pos = task[w].pos
             /\ \A v \in Procs \ {w} : task'[v] = task[v]
  BY <1>0, <1>3 DEF Goto, Tasks
<1>4. CASE Reserve(w)
  <2>1. /\ row' = row /\ task[w].at = "reserve" /\ row.status # "NONE"
    BY <1>0, <1>4 DEF Reserve, At, TaskInv
  <2>2. \/ Finish(w)
        \/ task[w].later /\ Goto(w, "schedule")
        \/ ~task[w].later /\ Goto(w, "claim_draft")
    BY <1>4 DEF Reserve
  <2>3. CASE task[w].later /\ Goto(w, "schedule")
    <3>0. /\ task'[w].at = "schedule" /\ task'[w].snap = task[w].snap
          /\ \A v \in Procs \ {w} : task'[v] = task[v]
      BY <1>3, <2>3
    <3>1. QuietTask(w)'
      BY <1>0, <1>1, <2>1, <3>0 DEF QuietTask
    <3>2. QED
      BY <3>0, <3>1, OneMovesQuiet
  <2>4. CASE ~task[w].later /\ Goto(w, "claim_draft")
    <3>0. /\ task'[w].at = "claim_draft" /\ task'[w].snap = task[w].snap
          /\ task'[w].later = task[w].later /\ task'[w].blocked = task[w].blocked
          /\ \A v \in Procs \ {w} : task'[v] = task[v]
      BY <1>3, <2>4
    <3>1. QuietTask(w)'
      BY <1>0, <1>1, <2>1, <2>4, <3>0 DEF QuietTask
    <3>2. QED
      BY <3>0, <3>1, OneMovesQuiet
  <2>5. QED
    BY <1>2, <2>2, <2>3, <2>4
<1>5. CASE ClaimDraft(w)
  <2>1. CASE ~IsDraft(row)
    BY <1>2, <1>5, <2>1 DEF ClaimDraft
  <2>2. CASE IsDraft(row)
    <3>1. /\ task[w].at = "claim_draft" /\ ~task[w].later /\ row.status = "DRAFT"
      BY <1>0, <1>5, <2>2 DEF ClaimDraft, At, TaskInv, IsDraft
    <3>2. row' = [row EXCEPT !.status = "SENDING", !.index = "sending",
                             !.progress = "fresh"]
      BY <1>5, <2>2 DEF ClaimDraft
    <3>3. row'.claimed = "never"
      BY <1>0, <3>1, <3>2 DEF Rows, QuietRow
    <3>4. /\ task'[w].at = "hand_out" /\ task'[w].members = task[w].snap.people
          /\ task'[w].blocked = task[w].blocked
          /\ \A v \in Procs \ {w} : task'[v] = task[v]
      BY <1>0, <1>5, <2>2 DEF ClaimDraft, Snap, Tasks
    <3>5. /\ row.kind = "QUICK" /\ task[w].snap.people = row.people
          /\ task[w].blocked = {}
      BY <1>0, <3>1 DEF QuietTask
    <3>6. QuietTask(w)'
      BY <1>1, <3>1, <3>3, <3>4, <3>5 DEF QuietTask
    <3>7. QED
      BY <3>4, <3>6, OneMovesQuiet
  <2>3. QED
    BY <2>1, <2>2
<1>6. CASE HandOut(w)
  <2>1. CASE BatchEnd(w) = Len(task[w].members)
    BY <1>2, <1>6, <2>1 DEF HandOut
  <2>2. CASE BatchEnd(w) # Len(task[w].members)
    <3>1. /\ row' = row /\ task[w].at = "hand_out" /\ row.status # "NONE"
          /\ task'[w].at = "hand_out" /\ task'[w].members = task[w].members
          /\ task'[w].blocked = task[w].blocked
          /\ \A v \in Procs \ {w} : task'[v] = task[v]
      BY <1>0, <1>6, <2>2 DEF HandOut, At, TaskInv, UnderWay, Tasks
    <3>2. QuietTask(w)'
      BY <1>0, <1>1, <3>1 DEF QuietTask
    <3>3. QED
      BY <3>1, <3>2, OneMovesQuiet
  <2>3. QED
    BY <2>1, <2>2
<1>7. CASE CancelScheduled(w)
  <2>1. CASE ~IsScheduled(row)
    BY <1>2, <1>7, <2>1 DEF CancelScheduled
  <2>2. CASE IsScheduled(row)
    <3>1. Goto(w, "refund")
      BY <1>7, <2>2 DEF CancelScheduled
    <3>2. task'[w].at = "refund" /\ \A v \in Procs \ {w} : task'[v] = task[v]
      BY <1>3, <3>1
    <3>3. QuietTask(w)'
      BY <3>2 DEF QuietTask
    <3>4. QED
      BY <3>2, <3>3, OneMovesQuiet
  <2>3. QED
    BY <2>1, <2>2
<1>8. CASE Claim(w)
  <2>1. CASE ~IsClaimable(row)
    BY <1>2, <1>8, <2>1 DEF Claim
  <2>2. CASE IsClaimable(row)
    <3>1. /\ task[w].at = "claim" /\ row.status \in {"SCHEDULED", "SENDING"}
          /\ row' = [row EXCEPT !.status = "SENDING", !.claimed = "fresh"]
          /\ ~IsAbandoned(Snap(w)) => Goto(w, "load")
      BY <1>8, <2>2 DEF Claim, At, IsClaimable
    <3>2. ~IsAbandoned(Snap(w))
      BY <1>0, <3>1 DEF IsAbandoned, Snap, QuietTask
    <3>3. /\ row'.status = "SENDING" /\ row'.claimed = "fresh" /\ row'.index = row.index
          /\ row'.cursor = row.cursor
      BY <1>0, <3>1 DEF Rows
    <3>4. /\ task'[w].at = "load" /\ task'[w].snap = task[w].snap
          /\ task'[w].tick = task[w].tick
          /\ \A v \in Procs \ {w} : task'[v] = task[v]
      BY <1>3, <3>1, <3>2
    <3>5. QuietTask(w)'
      BY <1>0, <1>1, <3>1, <3>3, <3>4 DEF QuietTask, UnderWay
    <3>6. QED
      BY <3>4, <3>5, OneMovesQuiet
  <2>3. QED
    BY <2>1, <2>2
<1>9. CASE Load(w)
  <2>1. /\ row' = row /\ task[w].at = "load" /\ UnderWay(row) /\ list' = list
        /\ task[w].snap.kind = row.kind /\ task[w].snap.people = row.people
    BY <1>0, <1>9 DEF Load, At, TaskInv, QuietTask
  <2>2. /\ task'[w].at = "batch" /\ task'[w].tick = task[w].tick
        /\ task'[w].members = AudienceOf(task[w].snap)
        /\ task'[w].pos = task[w].snap.cursor
        /\ \A v \in Procs \ {w} : task'[v] = task[v]
    BY <1>0, <1>9 DEF Load, Snap, Tasks
  <2>3. AudienceOf(task[w].snap) = Audience
    BY <2>1 DEF Audience, AudienceOf
  <2>4. QuietTask(w)'
    BY <1>0, <1>1, <2>1, <2>2, <2>3 DEF QuietTask, UnderWay
  <2>5. QED
    BY <2>2, <2>4, OneMovesQuiet
<1>10. CASE SendBatch(w)
  <2>1. /\ row' = row /\ task[w].at = "batch" /\ UnderWay(row) /\ Goto(w, "advance")
    BY <1>0, <1>10 DEF SendBatch, At, TaskInv
  <2>2. /\ task'[w].at = "advance" /\ task'[w].tick = task[w].tick
        /\ task'[w].members = task[w].members /\ task'[w].pos = task[w].pos
        /\ \A v \in Procs \ {w} : task'[v] = task[v]
    BY <1>3, <2>1
  <2>3. QuietTask(w)'
    BY <1>0, <1>1, <2>1, <2>2 DEF QuietTask, UnderWay
  <2>4. QED
    BY <2>2, <2>3, OneMovesQuiet
<1>11. CASE Advance(w)
  <2>1. CASE IsLastBatch(w)
    <3>1. Settle(w, row')
      BY <1>11, <2>1 DEF Advance
    <3>2. QED
      BY <3>1, EndsQuiet
  <2>2. CASE ~IsLastBatch(w)
    <3>1. /\ task[w].at = "advance" /\ UnderWay(row)
          /\ task'[w].at = "batch" /\ task'[w].tick = task[w].tick
          /\ task'[w].members = task[w].members /\ task'[w].pos = BatchEnd(w)
          /\ \A v \in Procs \ {w} : task'[v] = task[v]
      BY <1>0, <1>11, <2>2 DEF Advance, At, TaskInv, Tasks
    <3>2. /\ row'.status = row.status /\ row'.claimed = row.claimed /\ row.claimed # "never"
          /\ row'.index = row.index /\ row'.cursor = BatchEnd(w)
          /\ row.status = "SENDING" => row.index = "due"
      BY <1>11, <2>2, AdvanceRow
    <3>3. QuietTask(w)'
      BY <1>0, <1>1, <3>1, <3>2 DEF QuietTask, UnderWay
    <3>4. QED
      BY <3>1, <3>3, OneMovesQuiet
  <2>3. QED
    BY <2>1, <2>2
<1>12. CASE Complete(w)
  <2>1. CASE ~IsCounted(row, Snap(w))
    BY <1>2, <1>12, <2>1 DEF Complete
  <2>2. CASE IsCounted(row, Snap(w))
    <3>1. /\ task[w].at = "complete" /\ Goto(w, "credit")
          /\ row'.quote = row.quote /\ row'.reserved = row.reserved
      BY <1>0, <1>12, <2>2 DEF Complete, At, Rows
    <3>2. /\ task'[w].at = "credit" /\ task'[w].snap = task[w].snap
          /\ \A v \in Procs \ {w} : task'[v] = task[v]
      BY <1>3, <3>1
    <3>3. QuietTask(w)'
      BY <1>0, <3>1, <3>2 DEF QuietTask
    <3>4. QED
      BY <3>2, <3>3, OneMovesQuiet
  <2>3. QED
    BY <2>1, <2>2
<1>13. CASE Credit(w)
  <2>1. row' = row /\ task[w].at = "credit" /\ Goto(w, "mark")
    BY <1>13 DEF Credit, At
  <2>2. /\ task'[w].at = "mark" /\ task'[w].snap = task[w].snap
        /\ \A v \in Procs \ {w} : task'[v] = task[v]
    BY <1>3, <2>1
  <2>3. QuietTask(w)'
    BY <1>0, <2>1, <2>2 DEF QuietTask
  <2>4. QED
    BY <2>2, <2>3, OneMovesQuiet
<1>14. QED
  BY <1>2, <1>4, <1>5, <1>6, <1>7, <1>8, <1>9, <1>10, <1>11, <1>12, <1>13
     DEF Work, Schedule, RefundAll, PlanFail, MarkSettled, ClearIndex

\* What holds whatever dies.
LEMMA NextCounts ==
    ASSUME Quiet, TypeOK, Inv, Counts, [Next]_vars PROVE Counts'
<1> USE DEF sends, world, bounds
<1>1. QuietRow /\ ToldInv /\ PriceInv /\ OneTick /\ \A w \in Procs : QuietTask(w)
  BY DEF Counts
<1>2. ASSUME task' = task PROVE \A v \in Procs : QuietTask(v)'
  BY <1>2, OthersQuiet
<1>3. ASSUME NEW w \in Procs, SendFail(w) \/ Crash(w)
      PROVE  \A v \in Procs : QuietTask(v)'
  BY <1>3, EndsQuiet DEF SendFail, Crash
<1>4. ASSUME NEW w \in Procs, NEW p \in People, Tell(w, p)
      PROVE  \A v \in Procs : QuietTask(v)'
  <2>1. Settle(w, row')
    BY <1>4 DEF Tell
  <2>2. QED
    BY <2>1, EndsQuiet
<1>5. ASSUME \/ CreateDraft \/ RecordDelivery \/ AgeClaim \/ UNCHANGED vars
             \/ \E p \in People : OptOut(p) \/ Dispatch(p)
      PROVE  task' = task
  BY <1>5 DEF CreateDraft, RecordDelivery, AgeClaim, vars, OptOut, Dispatch
<1>6. \A v \in Procs : QuietTask(v)'
  BY <1>1, <1>2, <1>3, <1>4, <1>5, BeginsQuiet, WorkQuiet, QuietSteps DEF Next, Tick
<1>7. QED
  BY <1>1, <1>6, NextQuietRow, NextTold, NextPrice, NextOneTick DEF Counts

-----------------------------------------------------------------------------
(* Where nothing died. *)

\* Whose step it was.
LEMMA Mover ==
    ASSUME Quiet, TypeOK, QuietRow, [Next]_vars, NEW v \in Procs, task'[v] # task[v]
    PROVE  \/ Request(v) \/ StartTick(v) \/ Work(v) \/ SendFail(v) \/ Crash(v)
           \/ \E p \in People : Tell(v, p)
<1>1. task \in [Procs -> Tasks]
  BY DEF TypeOK
<1>2. ASSUME NEW w \in Procs, Request(w) \/ StartTick(w) PROVE v = w
  BY <1>1, <1>2 DEF Request, StartSchedule, StartCancel, Start, QuickSend, StartTick
<1>3. ASSUME NEW w \in Procs, Finish(w) PROVE v = w
  BY <1>1, <1>3 DEF Finish
<1>4. ASSUME NEW w \in Procs, NEW p, Goto(w, p) PROVE v = w
  BY <1>1, <1>4 DEF Goto
<1>5. ASSUME NEW w \in Procs, NEW r, Settle(w, r) PROVE v = w
  BY <1>1, <1>3, <1>5 DEF Settle
<1>6. ASSUME NEW w \in Procs, Work(w) PROVE v = w
  <2>1. CASE ClaimDraft(w) \/ HandOut(w) \/ Load(w)
    BY <1>1, <1>3, <2>1 DEF ClaimDraft, HandOut, Load
  <2>2. CASE Advance(w)
    BY <1>1, <1>5, <2>2 DEF Advance
  <2>3. QED
    BY <1>3, <1>4, <1>6, <2>1, <2>2
       DEF Work, Reserve, Schedule, CancelScheduled, RefundAll, Claim, PlanFail, SendBatch,
           Complete, Credit, MarkSettled, ClearIndex
<1>7. ASSUME NEW w \in Procs, SendFail(w) \/ Crash(w) PROVE v = w
  BY <1>3, <1>7 DEF SendFail, Crash
<1>8. ASSUME NEW w \in Procs, NEW p \in People, Tell(w, p) PROVE v = w
  BY <1>5, <1>8 DEF Tell
<1>9. ~CreateDraft /\ ~RecordDelivery /\ ~AgeClaim /\ ~UNCHANGED vars
  BY DEF CreateDraft, RecordDelivery, AgeClaim, vars
<1>10. ASSUME NEW p \in People PROVE ~OptOut(p) /\ ~Dispatch(p)
  BY DEF OptOut, Dispatch
<1>11. QED
  BY <1>2, <1>6, <1>7, <1>8, <1>9, <1>10, QuietSteps DEF Next, Tick

\* How a process comes to the places of a fan-out and of a settlement, and what
\* it takes there.
LEMMA Arrivals ==
    ASSUME Quiet, TypeOK, Counts, [Next]_vars, NEW v \in Procs, task'[v] # task[v]
    PROVE  /\ task'[v].at = "load" => Claim(v) /\ IsClaimable(row)
           /\ task'[v].at = "hand_out" => ClaimDraft(v) \/ HandOut(v)
           /\ task'[v].at = "batch" => Load(v) \/ (Advance(v) /\ ~IsLastBatch(v))
           /\ task'[v].at = "advance" => SendBatch(v)
           /\ task'[v].at = "complete" =>
                Settle(v, row') /\ (Advance(v) \/ \E p \in People : Tell(v, p))
           /\ task'[v].at = "credit" => Complete(v) /\ IsCounted(row, Snap(v))
           /\ task'[v].at = "mark" => Credit(v)
<1> USE DEF sends, world
<1>0. task \in [Procs -> Tasks] /\ QuietRow /\ QuietTask(v) /\ Idle.at = "idle"
  BY DEF TypeOK, Counts, Idle
<1>1. ASSUME Request(v) \/ StartTick(v)
      PROVE  task'[v].at \in {"reserve", "cancel", "claim"}
  BY <1>0, <1>1 DEF Request, StartSchedule, StartCancel, Start, QuickSend, StartTick, Idle
<1>2. ASSUME Finish(v) PROVE task'[v].at = "idle"
  BY <1>0, <1>2 DEF Finish
<1>3. ASSUME NEW p, Goto(v, p) PROVE task'[v].at = p
  BY <1>0, <1>3 DEF Goto, Tasks
<1>4. ASSUME NEW r, Settle(v, r) PROVE task'[v].at \in {"idle", "complete"}
  BY <1>0, <1>2, <1>4 DEF Settle, Tasks
<1>5. CASE Work(v)
  <2>1. CASE Reserve(v)
    <3>1. task'[v].at \in {"idle", "schedule", "claim_draft"}
      BY <1>2, <1>3, <2>1 DEF Reserve
    <3>2. QED
      BY <3>1
  <2>2. CASE ClaimDraft(v)
    <3>1. task'[v].at \in {"idle", "hand_out"}
      BY <1>0, <1>2, <2>2 DEF ClaimDraft, Tasks
    <3>2. QED
      BY <2>2, <3>1
  <2>3. CASE HandOut(v)
    <3>1. task'[v].at \in {"idle", "hand_out"}
      BY <1>0, <1>2, <2>3 DEF HandOut, At, Tasks
    <3>2. QED
      BY <2>3, <3>1
  <2>4. CASE CancelScheduled(v)
    <3>1. task'[v].at \in {"idle", "refund"}
      BY <1>2, <1>3, <2>4 DEF CancelScheduled
    <3>2. QED
      BY <3>1
  <2>5. CASE Claim(v)
    <3>1. ~IsAbandoned(Snap(v))
      BY <1>0, <2>5 DEF Claim, At, IsAbandoned, Snap, QuietTask
    <3>2. \/ task'[v].at = "idle"
          \/ task'[v].at = "load" /\ IsClaimable(row)
      BY <1>2, <1>3, <2>5, <3>1 DEF Claim
    <3>3. QED
      BY <2>5, <3>2
  <2>6. CASE Load(v)
    <3>1. task'[v].at = "batch"
      BY <1>0, <2>6 DEF Load, Tasks
    <3>2. QED
      BY <2>6, <3>1
  <2>7. CASE SendBatch(v)
    <3>1. task'[v].at = "advance"
      BY <1>3, <2>7 DEF SendBatch
    <3>2. QED
      BY <2>7, <3>1
  <2>8. CASE Advance(v)
    <3>1. CASE IsLastBatch(v)
      <4>1. Settle(v, row')
        BY <2>8, <3>1 DEF Advance
      <4>2. task'[v].at \in {"idle", "complete"}
        BY <1>4, <4>1
      <4>3. QED
        BY <2>8, <4>1, <4>2
    <3>2. CASE ~IsLastBatch(v)
      <4>1. task'[v].at = "batch"
        BY <1>0, <2>8, <3>2 DEF Advance, Tasks
      <4>2. QED
        BY <2>8, <3>2, <4>1
    <3>3. QED
      BY <3>1, <3>2
  <2>9. CASE Complete(v)
    <3>1. \/ task'[v].at = "idle"
          \/ task'[v].at = "credit" /\ IsCounted(row, Snap(v))
      BY <1>2, <1>3, <2>9 DEF Complete
    <3>2. QED
      BY <2>9, <3>1
  <2>10. CASE Credit(v)
    <3>1. task'[v].at = "mark"
      BY <1>3, <2>10 DEF Credit
    <3>2. QED
      BY <2>10, <3>1
  <2>11. CASE Schedule(v) \/ RefundAll(v) \/ PlanFail(v) \/ MarkSettled(v) \/ ClearIndex(v)
    <3>1. task'[v].at = "idle"
      BY <1>2, <2>11 DEF Schedule, RefundAll, PlanFail, MarkSettled, ClearIndex
    <3>2. QED
      BY <3>1
  <2>12. QED
    BY <1>5, <2>1, <2>2, <2>3, <2>4, <2>5, <2>6, <2>7, <2>8, <2>9, <2>10, <2>11 DEF Work
<1>6. CASE SendFail(v) \/ Crash(v)
  <2>1. task'[v].at = "idle"
    BY <1>2, <1>6 DEF SendFail, Crash
  <2>2. QED
    BY <2>1
<1>7. CASE \E p \in People : Tell(v, p)
  <2>1. Settle(v, row')
    BY <1>7 DEF Tell
  <2>2. task'[v].at \in {"idle", "complete"}
    BY <1>4, <2>1
  <2>3. QED
    BY <1>7, <2>1, <2>2
<1>8. CASE Request(v) \/ StartTick(v)
  BY <1>1, <1>8
<1>9. QED
  BY <1>0, <1>5, <1>6, <1>7, <1>8, Mover

\* Who queues somebody new is handing out, or at a batch which it then leaves.
LEMMA JobsGrow ==
    ASSUME Quiet, TypeOK, Inv, Counts, [Next]_vars
    PROVE  /\ jobs \subseteq jobs'
           /\ \A p \in jobs' \ jobs : \E w \in Procs :
                 /\ task[w].at = "hand_out" \/ (task[w].at = "batch" /\ task'[w] # task[w])
                 /\ p \in Named(w, MayQueue(w))
<1> USE DEF sends, world, bounds
<1>0. task \in [Procs -> Tasks] /\ QuietRow /\ row \in Rows /\ Idle.at = "idle"
  BY DEF TypeOK, Counts, Idle
<1> DEFINE Grown ==
             /\ jobs \subseteq jobs'
             /\ \A p \in jobs' \ jobs : \E w \in Procs :
                   /\ task[w].at = "hand_out" \/ (task[w].at = "batch" /\ task'[w] # task[w])
                   /\ p \in Named(w, MayQueue(w))
<1>1. ASSUME jobs' = jobs PROVE Grown
  BY <1>1
<1>2. ASSUME NEW w \in Procs, HandOut(w) PROVE Grown
  <2>1. task[w].at = "hand_out"
    BY <1>2 DEF HandOut, At
  <2>2. /\ row.kind = "QUICK" /\ task[w].members = row.people /\ task[w].blocked = {}
    BY <2>1 DEF Counts, QuietTask
  <2>3. \A i \in DOMAIN row.people : row.people[i] \in Allowed
    BY <1>0, <2>2 DEF QuietRow
  <2>4. Batch(w) \subseteq DOMAIN task[w].members
    BY <1>0, MemberType
  <2>5. {task[w].members[i] : i \in Batch(w)} \subseteq Named(w, MayQueue(w))
    BY <2>2, <2>3, <2>4 DEF MayQueue, Named
  <2>6. jobs' = jobs \cup {task[w].members[i] : i \in Batch(w)}
    BY <1>2 DEF HandOut
  <2>7. QED
    BY <2>1, <2>5, <2>6
<1>3. ASSUME NEW w \in Procs, SendBatch(w) \/ SendFail(w) PROVE Grown
  <2>1. task[w].at = "batch" /\ task'[w] # task[w]
    <3>1. task'[w].at \in {"advance", "idle"}
      BY <1>0, <1>3 DEF SendBatch, SendFail, Goto, Finish, Tasks
    <3>2. QED
      BY <1>3, <3>1 DEF SendBatch, SendFail, At
  <2>2. Sendable(w) \subseteq MayQueue(w)
    <3>1. Batch(w) \subseteq DOMAIN task[w].members
      BY <1>0, MemberType
    <3>2. QED
      BY <3>1 DEF Sendable, MayQueue
  <2>3. \E S \in SUBSET Sendable(w) : jobs' = jobs \cup {task[w].members[i] : i \in S}
    BY <1>3 DEF SendBatch, SendFail
  <2>4. QED
    BY <2>1, <2>2, <2>3 DEF Named
<1>4. ASSUME NEW w \in Procs, Work(w), ~HandOut(w), ~SendBatch(w) PROVE jobs' = jobs
  BY <1>4 DEF Work, Reserve, Schedule, ClaimDraft, CancelScheduled, RefundAll, Claim,
              Load, PlanFail, Advance, Complete, Credit, MarkSettled, ClearIndex
<1>5. ASSUME NEW w \in Procs, Request(w) \/ StartTick(w) \/ Crash(w) PROVE jobs' = jobs
  BY <1>5 DEF Request, StartSchedule, StartCancel, QuickSend, StartTick, Crash
<1>6. ASSUME NEW w \in Procs, NEW p \in People, Tell(w, p) PROVE jobs' = jobs
  BY <1>6 DEF Tell
<1>7. ASSUME \/ CreateDraft \/ RecordDelivery \/ AgeClaim \/ UNCHANGED vars
             \/ \E p \in People : OptOut(p) \/ Dispatch(p)
      PROVE  jobs' = jobs
  BY <1>7 DEF CreateDraft, RecordDelivery, AgeClaim, vars, OptOut, Dispatch
<1>8. Grown
  <2> HIDE DEF Grown
  <2>1. QED
    BY <1>0, <1>1, <1>2, <1>3, <1>4, <1>5, <1>6, <1>7, QuietSteps DEF Next, Tick
<1>9. QED
  BY <1>8

\* A finite set that holds as many as a set around it is that set.
LEMMA AllOfThem ==
    ASSUME NEW S, NEW T, IsFiniteSet(T), S \subseteq T, Cardinality(S) >= Cardinality(T)
    PROVE  S = T
<1>1. /\ IsFiniteSet(S) /\ Cardinality(S) <= Cardinality(T)
      /\ Cardinality(T) = Cardinality(S) => T = S
  BY FS_Subset
<1>2. Cardinality(S) \in Nat /\ Cardinality(T) \in Nat
  BY <1>1, FS_CardinalityType
<1>3. QED
  BY <1>1, <1>2

\* When the counts meet while a campaign is under way, nobody is missing: whoever
\* is still to be queued was queued, and whoever was queued was told.
CountsMeet ==
    /\ Quiet /\ TypeOK /\ Inv /\ Counts /\ SafeInv /\ \A w \in Procs : SafeTask(w)
    /\ row.status = "SENDING" /\ IsAllCounted(row)
    /\ row.index = "due" => jobs # {}

LEMMA CountedAll == CountsMeet => AllTold
<1> SUFFICES ASSUME CountsMeet PROVE AllTold
  OBVIOUS
<1>0. /\ row \in Rows /\ task \in [Procs -> Tasks] /\ QuietRow /\ ToldInv /\ OneTick
      /\ \A w \in Procs : QuietTask(w) /\ TaskInv(w) /\ SafeTask(w)
      /\ TypeOK /\ Inv /\ RowInv /\ SafeInv
      /\ row.status = "SENDING"
  BY DEF CountsMeet, TypeOK, Counts, Inv
<1>1. Audience \in Audiences /\ Size \in Nat
  <2>1. Audience \in Audiences
    BY <1>0, AudienceType DEF Audience
  <2>2. QED
    BY <2>1, CampaignsAssumption DEF Size
<1>2. /\ IsFiniteSet(Told) /\ Cardinality(Told) \in Nat /\ ToldRefused \in Nat
      /\ Cardinality(Told) = row.sent + ToldRefused
      /\ row.sent \in Nat /\ row.refused \in Nat /\ row.queued \in Nat
      /\ row.recipients \in Nat /\ row.cursor \in Nat
      /\ Told \subseteq jobs
  BY <1>0, ToldCount, ToldQueued DEF Rows
<1>3. row.sent = row.recipients - row.refused
  <2>1. row.recipients - row.sent - row.refused = 0
    BY DEF CountsMeet, IsAllCounted
  <2>2. QED
    BY <1>2, <2>1
<1>4. IsFiniteSet(jobs) /\ Cardinality(jobs) \in Nat /\ jobs \subseteq People
  BY <1>0, CampaignsAssumption, FS_Subset, FS_CardinalityType DEF TypeOK
<1>5. ASSUME Told = jobs PROVE \A p \in jobs : IsTold(p)
  BY <1>5 DEF Told
<1>6. CASE row.claimed = "never"
  <2>1. /\ row.kind = "QUICK" /\ row.index = "sending" /\ row.refused = ToldRefused
        /\ row.recipients = Charged
        /\ \A i \in DOMAIN row.people : row.people[i] \in Allowed
        /\ Audience = row.people
    BY <1>0, <1>6 DEF QuietRow, Audience, AudienceOf
  <2> DEFINE All == {Audience[i] : i \in DOMAIN Audience}
  <2>2. Chargeable(Audience) = DOMAIN Audience
    BY <2>1 DEF Chargeable
  <2>3. IsFiniteSet(All) /\ Cardinality(All) = Charged
    BY <1>1, <2>2, NamedCount DEF Charged
  <2>4. Told \subseteq All /\ jobs \subseteq All
    BY <1>0, <1>2, <1>6 DEF SafeInv
  <2>5. Cardinality(Told) = Charged
    BY <1>2, <1>3, <2>1
  <2>6. Told = All
    BY <2>3, <2>4, <2>5, <1>2, AllOfThem
  <2>7. \A p \in jobs : IsTold(p)
    BY <2>4, <2>6 DEF Told
  <2>8. ASSUME NEW w \in Procs, task[w].at \in {"hand_out", "batch", "advance"}
        PROVE  \A p \in Named(w, MayQueue(w)) : IsTold(p)
    <3>1. task[w].at = "hand_out"
      BY <1>0, <1>6, <2>8 DEF QuietTask, UnderWay
    <3>2. task[w].members = Audience
      BY <1>0, <2>1, <3>1 DEF QuietTask
    <3>3. Named(w, MayQueue(w)) \subseteq All
      BY <3>2 DEF Named, MayQueue
    <3>4. QED
      BY <2>6, <3>3 DEF Told
  <2>9. QED
    BY <2>1, <2>7, <2>8 DEF AllTold
<1>7. CASE row.claimed # "never" /\ row.index = "sending"
  <2>1. /\ row.recipients = Size /\ row.queued + row.refused = ToldRefused + Size
        /\ row.queued = Cardinality(jobs)
    BY <1>0, <1>7 DEF QuietRow, SafeInv
  <2>2. Cardinality(Told) = Cardinality(jobs)
    <3>1. \A s, t, z, f, q \in Nat : s = z - f /\ q + f = t + z => s + t = q
      OBVIOUS
    <3>2. row.sent = Size - row.refused
      BY <1>3, <2>1
    <3>3. row.sent + ToldRefused = row.queued
      BY <1>1, <1>2, <2>1, <3>1, <3>2
    <3>4. QED
      BY <1>2, <2>1, <3>3
  <2>3. Told = jobs
    BY <1>2, <1>4, <2>2, AllOfThem
  <2>4. ASSUME NEW w \in Procs
        PROVE  task[w].at \notin {"hand_out", "batch", "advance"}
    BY <1>0, <1>7 DEF QuietTask
  <2>5. QED
    BY <1>5, <1>7, <2>3, <2>4 DEF AllTold
<1>8. CASE row.claimed # "never" /\ row.index = "due"
  <2>1. jobs # {}
    BY <1>8 DEF CountsMeet
  <2>2. PICK f \in Procs : task[f].at \in {"batch", "advance"}
    BY <1>0, <1>8, <2>1 DEF SafeInv
  <2>3. \A w \in Procs : task[w].at \in {"hand_out", "batch", "advance"} => w = f
    BY <1>0, <1>8, <2>2 DEF QuietTask, OneTick
  <2>4. /\ task[f].members = Audience /\ task[f].pos = row.cursor
        /\ task[f] \in Tasks /\ Len(task[f].members) = Size
    BY <1>0, <2>2 DEF QuietTask, Size
  <2>5. /\ row.queued + row.refused = ToldRefused + row.cursor
        /\ row.cursor > 0 => row.cursor < Size /\ row.recipients = Size
        /\ row.cursor = 0 => row.recipients = Charged
    BY <1>0, <1>8 DEF QuietRow
  <2>6. task[f].pos <= Len(task[f].members)
    BY <1>1, <1>2, <2>4, <2>5
  <2>7. Cardinality(Told) + row.cursor = row.recipients + row.queued
    <3>1. \A s, t, z, f1, q, c \in Nat : s = z - f1 /\ q + f1 = t + c => (s + t) + c = z + q
      OBVIOUS
    <3>2. row.queued + row.refused = ToldRefused + row.cursor
      BY <2>5
    <3>3. QED
      BY <1>2, <1>3, <3>1, <3>2
  <2>8. /\ Cardinality(Sendable(f)) \in Nat
        /\ BatchEnd(f) \in Nat /\ BatchEnd(f) <= Size
        /\ Cardinality(Sendable(f)) <= BatchEnd(f) - row.cursor
    <3>1. /\ Cardinality(Sendable(f)) \in Nat
          /\ Cardinality(Batch(f) \ Sendable(f)) \in Nat
          /\ BatchEnd(f) \in Nat /\ BatchEnd(f) <= Len(task[f].members)
          /\ Cardinality(Sendable(f)) + Cardinality(Batch(f) \ Sendable(f))
               = BatchEnd(f) - task[f].pos
      BY <2>4, <2>6, BatchCount
    <3>2. \A a, b, c, d \in Nat : a + b = c - d => a <= c - d
      OBVIOUS
    <3>3. QED
      BY <1>2, <2>4, <3>1, <3>2
  <2>9. ASSUME jobs = Upto(f, BatchEnd(f)), Told = jobs, BatchEnd(f) = Size
        PROVE  AllTold
    <3>1. Upto(f, Size) = Named(f, MayQueue(f))
      <4>1. MayQueue(f) \subseteq 1..Size
        BY <1>0, <2>4, MemberType DEF MayQueue
      <4>2. QED
        BY <4>1 DEF Upto
    <3>2. QED
      BY <1>5, <2>1, <2>3, <2>9, <3>1 DEF AllTold
  <2>10. CASE row.cursor = 0
    <3>1. Upto(f, 0) = {} /\ Cardinality(Upto(f, 0)) = 0
      BY FS_EmptySet DEF Upto, Named
    <3>2. task[f].at = "advance" /\ jobs = Upto(f, BatchEnd(f))
      BY <1>0, <2>1, <2>2, <2>4, <2>10, <3>1 DEF SafeTask
    <3>3. row.queued = 0
      BY <1>0, <2>4, <2>10, <3>1, <3>2 DEF SafeTask
    <3>4. Cardinality(Told) = Charged
      BY <1>2, <2>5, <2>7, <2>10, <3>3
    <3> DEFINE Payers == {Audience[i] : i \in Chargeable(Audience)}
    <3>5. IsFiniteSet(Payers) /\ Cardinality(Payers) = Charged
      BY <1>1, NamedCount DEF Charged, Chargeable
    <3>6. Named(f, MayQueue(f)) \subseteq Payers
      BY <2>4 DEF Named, MayQueue, Chargeable
    <3>7. jobs \subseteq Named(f, MayQueue(f))
      BY <2>4, <2>8, <3>2, UptoCount
    <3>8. Told \subseteq Payers
      BY <1>2, <3>6, <3>7
    <3>9. Told = Payers
      BY <1>2, <3>4, <3>5, <3>8, AllOfThem
    <3>10. QED
      BY <2>1, <2>3, <3>6, <3>7, <3>9 DEF AllTold, Told
  <2>11. CASE row.cursor # 0
    <3>1. row.cursor < Size /\ row.recipients = Size
      BY <1>2, <2>5, <2>11
    <3>2. Cardinality(Told) + row.cursor = Size + row.queued
      BY <2>7, <3>1
    <3>3. Cardinality(Told) <= Cardinality(jobs)
      BY <1>2, <1>4, FS_Subset
    <3>4. task[f].at # "batch"
      <4>1. task[f].at = "batch" => row.queued = Cardinality(jobs)
        BY <1>0 DEF SafeTask
      <4>2. QED
        BY <1>1, <1>2, <1>4, <3>1, <3>2, <3>3, <4>1
    <3>5. jobs = Upto(f, BatchEnd(f)) /\ row.queued = Cardinality(Upto(f, row.cursor))
      BY <1>0, <2>2, <2>4, <3>4 DEF SafeTask
    <3>6. Cardinality(jobs) = row.queued + Cardinality(Sendable(f))
      BY <2>4, <2>6, <3>5, UptoBatch
    <3>7. \A n, c, z, q, s, e, j \in Nat :
            n + c = z + q /\ n <= j /\ j = q + s /\ s <= e - c /\ e <= z => e = z /\ n >= j
      OBVIOUS
    <3>8. BatchEnd(f) = Size /\ Cardinality(Told) >= Cardinality(jobs)
      <4> DEFINE n == Cardinality(Told)
                 j == Cardinality(jobs)
                 s == Cardinality(Sendable(f))
                 e == BatchEnd(f)
      <4>1. /\ n \in Nat /\ j \in Nat /\ s \in Nat /\ e \in Nat
            /\ Size \in Nat /\ row.cursor \in Nat /\ row.queued \in Nat
        BY <1>1, <1>2, <1>4, <2>8
      <4>2. /\ n + row.cursor = Size + row.queued /\ n <= j /\ j = row.queued + s
            /\ s <= e - row.cursor /\ e <= Size
        BY <2>8, <3>2, <3>3, <3>6
      <4> HIDE DEF n, j, s, e
      <4>3. e = Size /\ n >= j
        BY <3>7, <4>1, <4>2
      <4>4. QED
        BY <4>3 DEF n, j, e
    <3>9. Told = jobs
      BY <1>2, <1>4, <3>8, AllOfThem
    <3>10. QED
      BY <2>9, <3>5, <3>8, <3>9
  <2>12. QED
    BY <2>10, <2>11
<1>9. QED
  BY <1>0, <1>6, <1>7, <1>8 DEF RowInv

\* The same of the state after a step.
LEMMA CountedAllThen == CountsMeet' => AllTold'
  BY CountedAll, PTL

-----------------------------------------------------------------------------
(* Where nothing dies. *)

Calm ==
    /\ Quiet /\ TypeOK /\ Inv /\ Counts
    /\ crashes = 0 /\ SafeInv /\ (\A w \in Procs : SafeTask(w)) /\ Over

\* The parts of Calm.
LEMMA CalmFacts ==
    ASSUME Calm
    PROVE  /\ Quiet /\ TypeOK /\ Inv /\ Counts /\ SafeInv /\ Over /\ crashes = 0
           /\ QuietRow /\ ToldInv /\ PriceInv /\ OneTick /\ RowInv /\ LedgerInv
           /\ task \in [Procs -> Tasks] /\ row \in Rows /\ ledger \in Ledger
           /\ \A w \in Procs : QuietTask(w) /\ TaskInv(w) /\ SafeTask(w)
           /\ \A w \in Procs : task[w] \in Tasks
BY DEF Calm, Counts, Inv, TypeOK

\* A step after which nothing has died is not the death of a process.
LEMMA NothingDies ==
    ASSUME Quiet, TypeOK, [Next]_vars, crashes' = 0
    PROVE  \A w \in Procs : ~SendFail(w) /\ ~Crash(w)
BY DEF TypeOK, SendFail, Crash

\* How a campaign comes to be sending, or over; and who settles it.
LEMMA Turns ==
    ASSUME Quiet, TypeOK, Inv, Counts, [Next]_vars
    PROVE  /\ row'.status = "SENDING" =>
                \/ row.status = "SENDING"
                \/ row.status = "DRAFT" /\ jobs' = jobs
                \/ row.status = "SCHEDULED"
           /\ row'.status = "SENT" =>
                row.status = "SENT" \/ \E v \in Procs : Complete(v)
           /\ \/ row'.settled = row.settled
              \/ row'.status \in {"DRAFT", "CANCELLED"}
              \/ \E v \in Procs : MarkSettled(v)
           /\ \/ ledger'.refunds = ledger.refunds /\ ledger'.refunded = ledger.refunded
              \/ \E v \in Procs : Credit(v) \/ RefundAll(v)
<1> USE DEF sends, world, bounds
<1>0. row \in Rows /\ ledger \in Ledger /\ task \in [Procs -> Tasks] /\ QuietRow
  BY DEF TypeOK, Counts
<1> DEFINE Turned ==
             /\ row'.status = "SENDING" =>
                  \/ row.status = "SENDING"
                  \/ row.status = "DRAFT" /\ jobs' = jobs
                  \/ row.status = "SCHEDULED"
             /\ row'.status = "SENT" =>
                  row.status = "SENT" \/ \E v \in Procs : Complete(v)
             /\ \/ row'.settled = row.settled
                \/ row'.status \in {"DRAFT", "CANCELLED"}
                \/ \E v \in Procs : MarkSettled(v)
             /\ \/ ledger'.refunds = ledger.refunds /\ ledger'.refunded = ledger.refunded
                \/ \E v \in Procs : Credit(v) \/ RefundAll(v)
<1>1. ASSUME row'.status = row.status, row'.settled = row.settled, ledger' = ledger
      PROVE  Turned
  BY <1>0, <1>1
<1>2. ASSUME NEW w \in Procs, Reserve(w) PROVE Turned
  BY <1>0, <1>2 DEF Reserve, Ledger
<1>3. ASSUME NEW w \in Procs, Schedule(w) PROVE Turned
  BY <1>0, <1>3 DEF Schedule, Rows, IsDraft
<1>4. ASSUME NEW w \in Procs, ClaimDraft(w) PROVE Turned
  BY <1>0, <1>4 DEF ClaimDraft, Rows, IsDraft
<1>5. ASSUME NEW w \in Procs, CancelScheduled(w) PROVE Turned
  BY <1>0, <1>5 DEF CancelScheduled, Rows
<1>6. ASSUME NEW w \in Procs, Claim(w) PROVE Turned
  BY <1>0, <1>6 DEF Claim, Rows, IsClaimable
<1>7. ASSUME NEW w \in Procs, Advance(w) PROVE Turned
  <2>1. row'.status = row.status /\ row'.settled = row.settled /\ ledger' = ledger
    BY <1>7, AdvanceRow DEF Advance
  <2>2. QED
    BY <1>1, <2>1
<1>8. ASSUME NEW w \in Procs, Complete(w) PROVE Turned
  BY <1>0, <1>8 DEF Complete, Rows, IsCounted
<1>9. ASSUME NEW w \in Procs, MarkSettled(w) PROVE Turned
  BY <1>0, <1>9 DEF MarkSettled, Rows
<1>10. ASSUME NEW w \in Procs, Credit(w) \/ RefundAll(w) PROVE Turned
  BY <1>0, <1>10 DEF Credit, RefundAll
<1>11. ASSUME NEW w \in Procs, ClearIndex(w) PROVE Turned
  BY <1>0, <1>11 DEF ClearIndex, Rows
<1>12. ASSUME NEW w \in Procs,
              HandOut(w) \/ Load(w) \/ PlanFail(w) \/ SendBatch(w) \/ SendFail(w) \/ Crash(w)
                \/ StartSchedule(w) \/ StartCancel(w) \/ StartTick(w)
       PROVE  Turned
  <2>1. row' = row /\ ledger' = ledger
    BY <1>12 DEF HandOut, Load, PlanFail, SendBatch, SendFail, Crash, StartSchedule,
                 StartCancel, StartTick
  <2>2. QED
    BY <1>1, <2>1
<1>13. ASSUME NEW w \in Procs, NEW p \in People, Tell(w, p) PROVE Turned
  <2>1. row'.status = row.status /\ row'.settled = row.settled /\ ledger' = ledger
    BY <1>0, <1>13 DEF Tell, Rows
  <2>2. QED
    BY <1>1, <2>1
<1>14. ASSUME NEW w \in Procs, NEW people \in Audiences, NEW later \in BOOLEAN,
              QuickSend(w, people, later)
       PROVE  Turned
  <2>1. row'.status = "DRAFT" /\ ledger' = ledger
    BY <1>14 DEF QuickSend, Quoted, Drafted, NoRow
  <2>2. QED
    BY <2>1
<1>15. ASSUME CreateDraft PROVE Turned
  BY <1>15 DEF CreateDraft, Drafted, NoRow
<1>16. ASSUME RecordDelivery \/ AgeClaim PROVE Turned
  <2>1. row'.status = row.status /\ row'.settled = row.settled /\ ledger' = ledger
    BY <1>0, <1>16 DEF RecordDelivery, AgeClaim, Rows
  <2>2. QED
    BY <1>1, <2>1
<1>17. ASSUME UNCHANGED vars \/ \E p \in People : OptOut(p) \/ Dispatch(p) PROVE Turned
  <2>1. row' = row /\ ledger' = ledger
    BY <1>17 DEF vars, OptOut, Dispatch
  <2>2. QED
    BY <1>1, <2>1
<1>18. ASSUME NEW w \in Procs, Work(w) PROVE Turned
  <2> HIDE DEF Turned
  <2>1. QED
    BY <1>2, <1>3, <1>4, <1>5, <1>6, <1>7, <1>8, <1>9, <1>10, <1>11, <1>12, <1>18 DEF Work
<1>19. Turned
  <2> HIDE DEF Turned
  <2>1. QED
    BY <1>0, <1>12, <1>13, <1>14, <1>15, <1>16, <1>17, <1>18, QuietSteps
       DEF Next, Tick, Request
<1>20. QED
  BY <1>19

\* When everyone was told, no tick is about to start over.
LEMMA NoLoad ==
    ASSUME Calm, AllTold, UnderWay(row)
    PROVE  \A w \in Procs : task[w].at # "load"
<1> SUFFICES ASSUME NEW w \in Procs, task[w].at = "load" PROVE FALSE
  OBVIOUS
<1>1. row.status = "SENDING" /\ row.index = "due" /\ row.claimed # "never" /\ task[w].tick
  BY CalmFacts DEF SafeTask, QuietTask
<1>2. \A v \in Procs : task[v].at \notin {"batch", "advance"}
  BY <1>1, CalmFacts DEF QuietTask, OneTick
<1>3. jobs = {}
  BY <1>1, <1>2, CalmFacts DEF SafeInv
<1>4. QED
  BY <1>1, <1>3 DEF AllTold

\* A fan-out leaves its batches by the last of them.
LEMMA FanOutGoesOn ==
    ASSUME Calm, [Next]_vars, crashes' = 0, NEW w \in Procs,
           task[w].at \in {"batch", "advance"}, task'[w].at \notin {"batch", "advance"}
    PROVE  Advance(w) /\ IsLastBatch(w)
<1>0. task[w] \in Tasks /\ Quiet /\ TypeOK /\ QuietRow /\ task \in [Procs -> Tasks]
  BY CalmFacts
<1>1. ~SendFail(w) /\ ~Crash(w)
  BY <1>0, NothingDies
<1>2. \A p \in People : ~Tell(w, p)
  BY DEF Tell, At
<1>3. ~Request(w) /\ ~StartTick(w)
  BY DEF Request, StartSchedule, StartCancel, QuickSend, StartTick, Start, At
<1>4. Work(w)
  BY <1>0, <1>1, <1>2, <1>3, Mover
<1>5. SendBatch(w) \/ Advance(w)
  BY <1>4 DEF Work, Reserve, Schedule, ClaimDraft, HandOut, CancelScheduled, RefundAll, Claim,
              Load, PlanFail, Complete, Credit, MarkSettled, ClearIndex, At
<1>6. ~SendBatch(w)
  <2>1. SendBatch(w) => task'[w].at = "advance"
    BY <1>0 DEF SendBatch, Goto, Tasks
  <2>2. QED
    BY <2>1
<1>7. Advance(w) /\ ~IsLastBatch(w) => task'[w].at = "batch"
  BY <1>0 DEF Advance, Tasks
<1>8. QED
  BY <1>5, <1>6, <1>7

\* Somebody new is queued only while a campaign is under way.
LEMMA OnlyUnderWay ==
    ASSUME Calm, [Next]_vars, jobs' # jobs
    PROVE  /\ UnderWay(row)
           /\ \A p \in jobs' \ jobs : \E w \in Procs :
                /\ p \in Named(w, MayQueue(w))
                /\ \/ task[w].at = "hand_out" /\ row.claimed = "never"
                   \/ /\ task[w].at = "batch" /\ task'[w] # task[w]
                      /\ row.claimed # "never"
                      /\ row.status = "SENDING" => row.index = "due"
<1>1. /\ jobs \subseteq jobs'
      /\ \A p \in jobs' \ jobs : \E w \in Procs :
            /\ task[w].at = "hand_out" \/ (task[w].at = "batch" /\ task'[w] # task[w])
            /\ p \in Named(w, MayQueue(w))
  BY CalmFacts, JobsGrow
<1>2. PICK p \in jobs' \ jobs : TRUE
  BY <1>1
<1>3. UnderWay(row)
  BY <1>1, <1>2, CalmFacts DEF TaskInv
<1>4. ASSUME NEW w \in Procs
      PROVE  /\ task[w].at = "hand_out" => row.claimed = "never"
             /\ task[w].at = "batch" => row.claimed # "never"
             /\ task[w].at = "batch" /\ row.status = "SENDING" => row.index = "due"
  BY <1>3, CalmFacts DEF QuietTask
<1>5. QED
  BY <1>1, <1>3, <1>4

\* Before a campaign is under way nothing was queued, and nothing is.
LEMMA FirstJobs ==
    ASSUME Calm, [Next]_vars, ~UnderWay(row)
    PROVE  jobs = {} /\ jobs' = {}
BY CalmFacts, OnlyUnderWay DEF RowInv

\* What the jobs are, over every step.
LEMMA NextSafeInv ==
    ASSUME Calm, [Next]_vars, crashes' = 0 PROVE SafeInv'
<1>0. /\ Quiet /\ TypeOK /\ Inv /\ Counts /\ QuietRow /\ SafeInv /\ RowInv
      /\ task \in [Procs -> Tasks] /\ row \in Rows
      /\ \A w \in Procs : QuietTask(w) /\ TaskInv(w) /\ SafeTask(w)
  BY CalmFacts
<1> SUFFICES ASSUME row'.status = "SENDING" PROVE SafeInv'
  BY DEF SafeInv
<1>1. row.status \in {"DRAFT", "SCHEDULED", "SENDING"}
  BY <1>0, Turns
<1>2. /\ row'.kind = row.kind /\ row'.people = row.people
      /\ Audience' = Audience
  BY <1>0, <1>1, OneAudience
<1>3. /\ row'.claimed = "never" => row.claimed = "never"
      /\ UnderWay(row) /\ row.claimed = "never" => row'.claimed = "never"
      /\ row.status = "DRAFT" => row'.claimed = row.claimed
      /\ \/ \E w \in Procs : Advance(w)
         \/ /\ WasReserved(row) => row'.queued = row.queued
            /\ WasReserved(row) => row'.index = row.index /\ row'.cursor = row.cursor
  BY <1>0, <1>1, RowSteps
<1>4. ASSUME row'.claimed = "never"
      PROVE  jobs' \subseteq {Audience'[i] : i \in DOMAIN Audience'}
  <2> DEFINE All == {Audience[i] : i \in DOMAIN Audience}
  <2>1. row.claimed = "never"
    BY <1>3, <1>4
  <2>2. CASE row.status # "SENDING"
    <3>1. jobs' = {}
      BY <1>1, <2>2, FirstJobs DEF UnderWay
    <3>2. QED
      BY <3>1
  <2>3. CASE row.status = "SENDING"
    <3>1. jobs \subseteq All
      BY <1>0, <2>1, <2>3 DEF SafeInv
    <3>2. ASSUME NEW p \in jobs' \ jobs PROVE p \in All
      <4>1. PICK w \in Procs : task[w].at = "hand_out" /\ p \in Named(w, MayQueue(w))
        BY <2>1, <3>2, OnlyUnderWay
      <4>2. task[w].members = Audience
        BY <1>0, <4>1 DEF QuietTask, Audience, AudienceOf
      <4>3. QED
        BY <4>1, <4>2 DEF Named, MayQueue
    <3>3. QED
      BY <1>2, <3>1, <3>2
  <2>4. QED
    BY <2>2, <2>3
<1>5. ASSUME row'.claimed # "never"
      PROVE  /\ row.status \in {"SCHEDULED", "SENDING"} /\ WasReserved(row)
             /\ row.status = "SENDING" => row.claimed # "never"
  <2>1. row.status # "DRAFT"
    BY <1>0, <1>3, <1>5 DEF QuietRow
  <2>2. QED
    BY <1>1, <1>3, <1>5, <2>1 DEF WasReserved, UnderWay
<1>6. ASSUME row'.claimed # "never", row'.index = "sending"
      PROVE  row'.queued = Cardinality(jobs')
  <2>1. CASE \E w \in Procs : Advance(w)
    <3>1. PICK w \in Procs : Advance(w)
      BY <2>1
    <3>2. /\ row.status = "SENDING" /\ row.index = "due"
          /\ task[w].pos <= Len(task[w].members)
          /\ row'.queued = row.queued + Cardinality(Sendable(w))
      BY <1>0, <3>1, <1>5, <1>6, AdvanceRow DEF UnderWay
    <3>3. task[w].at = "advance" /\ jobs' = jobs
      BY <3>1 DEF Advance, At, sends
    <3>4. jobs = Upto(w, BatchEnd(w)) /\ row.queued = Cardinality(Upto(w, task[w].pos))
      BY <1>0, <3>2, <3>3 DEF SafeTask
    <3>5. Cardinality(Upto(w, BatchEnd(w))) =
            Cardinality(Upto(w, task[w].pos)) + Cardinality(Sendable(w))
      BY <1>0, <3>2, UptoBatch
    <3>6. QED
      BY <3>2, <3>3, <3>4, <3>5
  <2>2. CASE ~\E w \in Procs : Advance(w)
    <3>1. row'.queued = row.queued /\ row.index = "sending"
      BY <1>3, <1>5, <1>6, <2>2
    <3>2. row.status = "SENDING" /\ row.claimed # "never"
      BY <1>0, <1>5, <1>6, <3>1 DEF RowInv
    <3>3. row.queued = Cardinality(jobs)
      BY <1>0, <3>1, <3>2 DEF SafeInv
    <3>4. jobs' = jobs
      <4>1. \A p \in jobs' \ jobs : FALSE
        BY <3>1, <3>2, OnlyUnderWay
      <4>2. jobs \subseteq jobs'
        BY <1>0, JobsGrow
      <4>3. QED
        BY <4>1, <4>2
    <3>5. QED
      BY <3>1, <3>3, <3>4
  <2>3. QED
    BY <2>1, <2>2
<1>7. ASSUME row'.claimed # "never", row'.index = "due",
             \A w \in Procs : task'[w].at \notin {"batch", "advance"}
      PROVE  jobs' = {} /\ row'.cursor = 0
  <2>1. CASE row.status = "SCHEDULED"
    <3>1. \A w \in Procs : ~Advance(w)
      BY <1>0, <2>1, AdvanceRow DEF UnderWay
    <3>2. row'.cursor = row.cursor /\ row.cursor = 0
      BY <1>0, <1>3, <1>5, <1>7, <2>1, <3>1 DEF QuietRow
    <3>3. jobs' = {}
      BY <2>1, FirstJobs DEF UnderWay
    <3>4. QED
      BY <3>2, <3>3
  <2>2. CASE row.status = "SENDING"
    <3>1. ASSUME NEW w \in Procs PROVE ~Advance(w) \/ ~IsLastBatch(w)
      <4>1. Advance(w) /\ IsLastBatch(w) => row'.index = "sending"
        BY <1>0, AdvanceRow
      <4>2. QED
        BY <1>7, <4>1
    <3>2. \A w \in Procs : task[w].at \notin {"batch", "advance"}
      BY <1>7, <3>1, FanOutGoesOn
    <3>3. \A w \in Procs : ~Advance(w)
      BY <3>2 DEF Advance, At
    <3>4. row'.index = row.index /\ row'.cursor = row.cursor /\ row.claimed # "never"
      BY <1>3, <1>5, <1>7, <2>2, <3>3
    <3>5. jobs = {} /\ row.cursor = 0
      BY <1>0, <1>7, <2>2, <3>2, <3>4 DEF SafeInv
    <3>6. \A p \in jobs' \ jobs : FALSE
      BY <3>2, <3>4, OnlyUnderWay
    <3>7. QED
      BY <3>4, <3>5, <3>6
  <2>3. QED
    BY <1>5, <1>7, <2>1, <2>2
<1>8. QED
  BY <1>4, <1>6, <1>7 DEF SafeInv

\* While a tick works on a campaign that is sending, only that tick queues and
\* only that tick moves what the row says of its progress.
LEMMA OneFanOut ==
    ASSUME Calm, [Next]_vars, NEW w \in Procs, task[w].at \in {"batch", "advance"},
           row'.status = "SENDING", task'[w] = task[w]
    PROVE  row.status = "SENDING" /\ jobs' = jobs /\ row'.queued = row.queued
<1>0. /\ Quiet /\ TypeOK /\ Inv /\ Counts /\ QuietRow /\ OneTick
      /\ task \in [Procs -> Tasks] /\ row \in Rows
      /\ \A v \in Procs : QuietTask(v) /\ TaskInv(v) /\ task[v] \in Tasks
  BY CalmFacts
<1>1. UnderWay(row) /\ row.claimed # "never" /\ task[w].tick
  BY <1>0 DEF TaskInv, QuietTask
<1>2. /\ WasReserved(row)
      /\ row'.status = "SENDING" => row.status \in {"SCHEDULED", "SENDING"}
      /\ (\E v \in Procs : Advance(v)) \/ (WasReserved(row) => row'.queued = row.queued)
  BY <1>0, <1>1, RowSteps DEF UnderWay, WasReserved
<1>3. row.status = "SENDING"
  BY <1>1, <1>2 DEF UnderWay
<1>4. ASSUME NEW v \in Procs, task[v].at \in {"batch", "advance"} PROVE v = w
  BY <1>0, <1>1, <1>4 DEF QuietTask, OneTick
<1>5. ASSUME NEW v \in Procs, Advance(v) PROVE FALSE
  <2>1. task[v].at = "advance"
    BY <1>5 DEF Advance, At
  <2>2. task'[v].at # "advance"
    BY <1>0, <1>5 DEF Advance, Settle, Finish, Idle, Tasks
  <2>3. QED
    BY <1>4, <2>1, <2>2
<1>6. jobs' = jobs
  <2>1. \A p \in jobs' \ jobs : FALSE
    BY <1>1, <1>4, OnlyUnderWay
  <2>2. jobs \subseteq jobs'
    BY <1>0, JobsGrow
  <2>3. QED
    BY <2>1, <2>2
<1>7. QED
  BY <1>2, <1>3, <1>5, <1>6

\* What a tick at a batch has queued, over every step.
LEMMA NextSafeTask ==
    ASSUME Calm, [Next]_vars, crashes' = 0, NEW w \in Procs PROVE SafeTask(w)'
<1> USE DEF sends, world
<1>0. /\ Quiet /\ TypeOK /\ Inv /\ Counts /\ QuietRow /\ SafeInv /\ RowInv /\ ToldInv
      /\ task \in [Procs -> Tasks] /\ row \in Rows /\ task[w] \in Tasks
      /\ \A v \in Procs : QuietTask(v) /\ TaskInv(v) /\ SafeTask(v)
      /\ Over /\ OneTick
  BY CalmFacts
<1>1. ASSUME task'[w].at = "load" PROVE row'.status = "SENDING"
  <2>1. CASE task'[w] = task[w]
    <3>1. row.status = "SENDING"
      BY <1>0, <1>1, <2>1 DEF SafeTask
    <3>2. ASSUME NEW v \in Procs, Complete(v) PROVE FALSE
      <4>1. AllTold
        BY <1>0, <3>2 DEF Complete, At, Over
      <4>2. QED
        BY <1>1, <2>1, <3>1, <4>1, NoLoad DEF UnderWay
    <3>3. row'.status \in {"SENDING", "SENT"}
      BY <1>0, <3>1, RowSteps
    <3>4. row'.status # "SENT"
      BY <1>0, <3>1, <3>2, Turns
    <3>5. QED
      BY <3>3, <3>4
  <2>2. CASE task'[w] # task[w]
    <3>1. Claim(w) /\ IsClaimable(row)
      BY <1>0, <1>1, <2>2, Arrivals
    <3>2. QED
      BY <1>0, <3>1 DEF Claim, Rows
  <2>3. QED
    BY <2>1, <2>2
<1>2. ASSUME task'[w].at = "batch", row'.status = "SENDING"
      PROVE  jobs' = Upto(w, task[w].pos)' /\ row'.queued = Cardinality(jobs')
  <2>1. CASE task'[w] = task[w]
    <3>1. row.status = "SENDING" /\ jobs' = jobs /\ row'.queued = row.queued
      BY <1>2, <2>1, OneFanOut
    <3>2. jobs = Upto(w, task[w].pos) /\ row.queued = Cardinality(jobs)
      BY <1>0, <1>2, <2>1, <3>1 DEF SafeTask
    <3>3. Upto(w, task[w].pos)' = Upto(w, task[w].pos)
      BY <2>1 DEF Upto, Named, MayQueue
    <3>4. QED
      BY <3>1, <3>2, <3>3
  <2>2. CASE Load(w)
    <3>1. /\ task[w].at = "load" /\ row' = row /\ jobs' = jobs
          /\ task'[w].pos = task[w].snap.cursor
      BY <1>0, <2>2 DEF Load, At, Snap, Tasks
    <3>2. /\ row.status = "SENDING" /\ row.index = "due" /\ row.claimed # "never"
          /\ task[w].tick /\ task[w].snap.cursor = row.cursor
      BY <1>0, <1>2, <3>1 DEF QuietTask, UnderWay
    <3>3. \A v \in Procs : task[v].at \notin {"batch", "advance"}
      BY <1>0, <3>1, <3>2 DEF QuietTask, OneTick
    <3>4. jobs = {} /\ row.cursor = 0
      BY <1>0, <3>2, <3>3 DEF SafeInv
    <3>5. row.queued = 0
      <4>1. ToldRefused = 0
        BY <1>0, <3>4, ToldQueued
      <4>2. row.queued + row.refused = ToldRefused + row.cursor
        BY <1>0, <3>2 DEF QuietRow
      <4>3. row.queued \in Nat /\ row.refused \in Nat
        BY <1>0 DEF Rows
      <4>4. QED
        BY <3>4, <4>1, <4>2, <4>3
    <3>6. task'[w].pos = 0
      BY <3>1, <3>2, <3>4
    <3>7. Upto(w, task[w].pos)' = {}
      BY <3>6 DEF Upto, Named
    <3>8. QED
      BY <3>1, <3>4, <3>5, <3>7, FS_EmptySet
  <2>3. CASE Advance(w) /\ ~IsLastBatch(w)
    <3>1. /\ task[w].at = "advance" /\ jobs' = jobs
          /\ task'[w].members = task[w].members /\ task'[w].blocked = task[w].blocked
          /\ task'[w].pos = BatchEnd(w)
      BY <1>0, <2>3 DEF Advance, At, Tasks
    <3>2. row'.status = row.status
      BY <1>0, <2>3, AdvanceRow
    <3>3. row.status = "SENDING"
      BY <1>2, <3>2
    <3>4. /\ task[w].pos <= Len(task[w].members)
          /\ row'.queued = row.queued + Cardinality(Sendable(w))
      BY <1>0, <2>3, <3>3, AdvanceRow
    <3>5. jobs = Upto(w, BatchEnd(w)) /\ row.queued = Cardinality(Upto(w, task[w].pos))
      BY <1>0, <3>1, <3>3 DEF SafeTask
    <3>6. Cardinality(Upto(w, BatchEnd(w))) =
            Cardinality(Upto(w, task[w].pos)) + Cardinality(Sendable(w))
      BY <1>0, <3>4, UptoBatch
    <3>7. Upto(w, task[w].pos)' = Upto(w, BatchEnd(w))
      BY <3>1 DEF Upto, Named, MayQueue
    <3>8. QED
      BY <3>1, <3>4, <3>5, <3>6, <3>7
  <2>4. QED
    BY <1>0, <1>2, <2>1, <2>2, <2>3, Arrivals
<1>3. ASSUME task'[w].at = "advance", row'.status = "SENDING"
      PROVE  /\ jobs' = Upto(w, BatchEnd(w))'
             /\ row'.queued = Cardinality(Upto(w, task[w].pos)')
  <2>1. CASE task'[w] = task[w]
    <3>1. row.status = "SENDING" /\ jobs' = jobs /\ row'.queued = row.queued
      BY <1>3, <2>1, OneFanOut
    <3>2. jobs = Upto(w, BatchEnd(w)) /\ row.queued = Cardinality(Upto(w, task[w].pos))
      BY <1>0, <1>3, <2>1, <3>1 DEF SafeTask
    <3>3. /\ Upto(w, task[w].pos)' = Upto(w, task[w].pos)
          /\ Upto(w, BatchEnd(w))' = Upto(w, BatchEnd(w))
      BY <2>1 DEF Upto, Named, MayQueue, BatchEnd
    <3>4. QED
      BY <3>1, <3>2, <3>3
  <2>2. CASE SendBatch(w)
    <3>1. /\ task[w].at = "batch" /\ row' = row
          /\ jobs' = jobs \cup Named(w, Sendable(w))
          /\ task'[w].members = task[w].members /\ task'[w].blocked = task[w].blocked
          /\ task'[w].pos = task[w].pos
      BY <1>0, <2>2 DEF SendBatch, At, Goto, Tasks, Named
    <3>2. /\ row.status = "SENDING" /\ jobs = Upto(w, task[w].pos)
          /\ row.queued = Cardinality(jobs)
      BY <1>0, <1>3, <3>1 DEF SafeTask
    <3>3. task[w].pos <= Len(task[w].members)
      <4>1. /\ task[w].members = Audience /\ task[w].pos = row.cursor /\ row.index = "due"
            /\ row.claimed # "never"
        BY <1>0, <3>1, <3>2 DEF QuietTask, UnderWay
      <4>2. row.cursor \in Nat /\ (row.cursor > 0 => row.cursor < Size)
        BY <1>0, <3>2, <4>1 DEF QuietRow, Rows
      <4>3. Len(task[w].members) = Size /\ Size \in Nat
        BY <1>0, <4>1, MemberType DEF Size
      <4>4. QED
        BY <4>1, <4>2, <4>3
    <3>4. Upto(w, BatchEnd(w)) = Upto(w, task[w].pos) \cup Named(w, Sendable(w))
      BY <1>0, <3>3, UptoBatch
    <3>5. /\ Upto(w, task[w].pos)' = Upto(w, task[w].pos)
          /\ Upto(w, BatchEnd(w))' = Upto(w, BatchEnd(w))
      BY <3>1 DEF Upto, Named, MayQueue, BatchEnd
    <3>6. QED
      BY <3>1, <3>2, <3>4, <3>5
  <2>3. QED
    BY <1>0, <1>3, <2>1, <2>2, Arrivals
<1>4. QED
  BY <1>1, <1>2, <1>3 DEF SafeTask

\* Once everyone was told, there is nobody left to queue or to tell.
LEMMA NobodyIsTold ==
    ASSUME Calm, AllTold, [Next]_vars
    PROVE  told' = told /\ row'.sent = row.sent
<1>1. ASSUME NEW w \in Procs, NEW p \in People, Tell(w, p) PROVE FALSE
  <2>1. ~IsTold(p) /\ fate[p] # "open"
    BY <1>1, CalmFacts, TellCounts
  <2>2. p \in jobs
    BY <2>1, CalmFacts DEF RowInv
  <2>3. QED
    BY <2>1, <2>2 DEF AllTold
<1>2. QED
  BY <1>1, CalmFacts, NotTold

\* Once everyone was told it stays so: the fan-out that is left only repeats.
LEMMA AllToldKept ==
    ASSUME Calm, AllTold, UnderWay(row), [Next]_vars, crashes' = 0
    PROVE  AllTold'
<1> USE DEF sends, world
<1>0. /\ Quiet /\ TypeOK /\ Inv /\ Counts /\ QuietRow
      /\ task \in [Procs -> Tasks] /\ row \in Rows
      /\ \A v \in Procs : task[v] \in Tasks
  BY CalmFacts
<1>1. \A p \in People : IsTold(p)' = IsTold(p)
  BY NobodyIsTold DEF IsTold
<1>2. ASSUME NEW p \in jobs' PROVE IsTold(p)'
  <2>0. p \in People
    <3>1. TypeOK'
      BY <1>0, NextType
    <3>2. QED
      BY <3>1 DEF TypeOK
  <2>1. IsTold(p)
    <3>1. CASE p \in jobs
      BY <3>1 DEF AllTold
    <3>2. CASE p \notin jobs
      <4>1. PICK w \in Procs :
              task[w].at \in {"hand_out", "batch"} /\ p \in Named(w, MayQueue(w))
        BY <3>2, OnlyUnderWay
      <4>2. QED
        BY <4>1 DEF AllTold
    <3>3. QED
      BY <3>1, <3>2
  <2>2. QED
    BY <1>1, <2>0, <2>1
<1>3. ASSUME row'.status = "SENDING", row'.index = "due" PROVE jobs' # {}
  <2>1. row.status = "SENDING" /\ WasReserved(row)
    BY <1>0, <1>3, Turns DEF UnderWay, WasReserved
  <2>2. row.index = "due"
    <3>1. CASE \E w \in Procs : Advance(w)
      <4>1. PICK w \in Procs : Advance(w)
        BY <3>1
      <4>2. QED
        BY <1>0, <2>1, <4>1, AdvanceRow
    <3>2. CASE ~\E w \in Procs : Advance(w)
      BY <1>0, <1>3, <2>1, <3>2, RowSteps
    <3>3. QED
      BY <3>1, <3>2
  <2>3. QED
    BY <1>0, <2>1, <2>2, JobsGrow DEF AllTold
<1>4. ASSUME NEW w \in Procs, task'[w].at \in {"hand_out", "batch", "advance"}
      PROVE  \A p \in Named(w, MayQueue(w))' : IsTold(p)'
  <2>1. task[w].at \in {"hand_out", "batch", "advance"}
           /\ task'[w].members = task[w].members /\ task'[w].blocked = task[w].blocked
    <3>1. CASE task'[w] = task[w]
      BY <1>4, <3>1
    <3>2. CASE HandOut(w)
      BY <1>0, <1>4, <3>2 DEF HandOut, At, Finish, Idle, Tasks
    <3>3. CASE Advance(w) /\ ~IsLastBatch(w)
      BY <1>0, <3>3 DEF Advance, At, Tasks
    <3>4. CASE SendBatch(w)
      BY <1>0, <3>4 DEF SendBatch, At, Goto, Tasks
    <3>5. ~Load(w)
      BY NoLoad DEF Load, At
    <3>6. ASSUME ClaimDraft(w), task'[w] # task[w] PROVE task'[w].at # "hand_out"
      BY <1>0, <3>6 DEF ClaimDraft, IsDraft, UnderWay, Finish, Idle, Tasks
    <3>7. QED
      BY <1>0, <1>4, <3>1, <3>2, <3>3, <3>4, <3>5, <3>6, Arrivals
  <2>2. Named(w, MayQueue(w))' = Named(w, MayQueue(w))
    BY <2>1 DEF Named, MayQueue
  <2>3. \A p \in Named(w, MayQueue(w)) : IsTold(p) /\ p \in People
    <3>1. Named(w, MayQueue(w)) \subseteq Allowed
      BY DEF Named, MayQueue
    <3>2. QED
      BY <2>1, <3>1, CampaignsAssumption DEF AllTold
  <2>4. QED
    BY <1>1, <2>2, <2>3
<1>5. QED
  BY <1>2, <1>3, <1>4 DEF AllTold

\* Whoever goes on to complete the campaign has seen the counts meet.
LEMMA CompletesCounted ==
    ASSUME Calm, [Next]_vars, NEW w \in Procs, row.status # "SENT",
           task'[w] # task[w], task'[w].at = "complete"
    PROVE  /\ row'.status = "SENDING" /\ IsAllCounted(row')
           /\ row'.index = "due" => jobs' # {}
<1> USE DEF sends, world
<1>0. /\ Quiet /\ TypeOK /\ Inv /\ Counts /\ QuietRow /\ RowInv
      /\ task \in [Procs -> Tasks] /\ row \in Rows /\ Idle.at = "idle"
  BY CalmFacts DEF Idle
<1>1. Settle(w, row') /\ (Advance(w) \/ \E p \in People : Tell(w, p))
  BY <1>0, Arrivals
<1>2. IsAllCounted(row')
  <2>1. ~IsAllCounted(row') => task'[w].at = "idle"
    BY <1>0, <1>1 DEF Settle, Finish
  <2>2. QED
    BY <2>1
<1>3. CASE Advance(w)
  <2>1. row.status = "SENDING" /\ row'.status = row.status
    BY <1>0, <1>3, AdvanceRow DEF UnderWay
  <2>2. IsLastBatch(w)
    <3>1. ~IsLastBatch(w) => task'[w].at = "batch"
      BY <1>0, <1>3 DEF Advance, Tasks
    <3>2. QED
      BY <3>1
  <2>3. row'.index = "sending"
    BY <1>0, <1>3, <2>2, AdvanceRow
  <2>4. QED
    BY <1>2, <2>1, <2>3
<1>4. CASE \E p \in People : Tell(w, p)
  <2>1. PICK p \in People : Tell(w, p)
    BY <1>4
  <2>2. p \in jobs /\ jobs' = jobs
    <3>1. fate[p] # "open"
      BY <1>0, <2>1, TellCounts DEF Counts
    <3>2. QED
      BY <1>0, <2>1, <3>1 DEF RowInv, Tell
  <2>3. row.status = "SENDING"
    BY <1>0, <2>2 DEF RowInv, UnderWay
  <2>4. row'.status = row.status
    BY <1>0, <2>1 DEF Tell, Rows
  <2>5. QED
    BY <1>2, <2>2, <2>3, <2>4
<1>5. QED
  BY <1>1, <1>3, <1>4

\* The campaign is completed only by the counts, and these met when all were told.
LEMMA NextOver ==
    ASSUME Calm, [Next]_vars, crashes' = 0 PROVE Over'
<1>0. /\ Quiet /\ TypeOK /\ Inv /\ Counts /\ Over
      /\ \A w \in Procs : TaskInv(w)
  BY CalmFacts
<1>1. CASE row.status = "SENT" \/ \E w \in Procs : task[w].at = "complete"
  <2>1. AllTold /\ UnderWay(row)
    BY <1>0, <1>1 DEF Over, TaskInv, UnderWay
  <2>2. QED
    BY <2>1, AllToldKept DEF Over
<1>2. CASE row.status # "SENT" /\ \A w \in Procs : task[w].at # "complete"
  <2>1. \A w \in Procs : ~Complete(w)
    BY <1>2 DEF Complete, At
  <2>2. row'.status # "SENT"
    BY <1>0, <1>2, <2>1, Turns
  <2>3. ASSUME NEW w \in Procs, task'[w].at = "complete" PROVE AllTold'
    <3>1. task'[w] # task[w]
      BY <1>2, <2>3
    <3>2. /\ row'.status = "SENDING" /\ IsAllCounted(row')
          /\ row'.index = "due" => jobs' # {}
      BY <1>2, <2>3, <3>1, CompletesCounted
    <3>3. Quiet' /\ TypeOK' /\ Inv' /\ Counts'
      BY <1>0, NextInv, NextCounts DEF Quiet
    <3>4. SafeInv' /\ \A v \in Procs : SafeTask(v)'
      BY NextSafeInv, NextSafeTask
    <3>5. CountsMeet'
      BY <3>2, <3>3, <3>4 DEF CountsMeet, IsAllCounted
    <3>6. QED
      BY <3>5, CountedAllThen
  <2>4. QED
    BY <2>2, <2>3 DEF Over
<1>3. QED
  BY <1>1, <1>2

\* What the bill is made of stays as it is once everyone was told.
LEMMA BillKept ==
    ASSUME Calm, AllTold, UnderWay(row), [Next]_vars
    PROVE  /\ SettledOf(row') = SettledOf(row) /\ row'.reserved = row.reserved
           /\ row'.sent = row.sent /\ row'.quote = row.quote
<1>1. row'.quote = row.quote /\ row'.reserved = row.reserved
  BY CalmFacts, RowSteps DEF UnderWay
<1>2. row'.sent = row.sent
  BY NobodyIsTold
<1>3. QED
  BY <1>1, <1>2 DEF SettledOf

\* The step that credits the account, and the one that writes the bill.
LEMMA CreditSquares ==
    ASSUME Calm, BillInv, NEW w \in Procs, Credit(w)
    PROVE  /\ row' = row /\ task[w].at = "credit"
           /\ task'[w].snap = task[w].snap
           /\ Squared(SettledOf(row))'
<1> USE DEF sends, world
<1>0. /\ task \in [Procs -> Tasks] /\ row \in Rows /\ ledger \in Ledger /\ LedgerInv
      /\ QuietTask(w) /\ task[w] \in Tasks
  BY CalmFacts
<1>1. /\ task[w].at = "credit" /\ row' = row
      /\ ledger' = Credited(ledger, task[w].snap.reserved, SettledOf(task[w].snap))
      /\ task'[w].snap = task[w].snap
  BY <1>0 DEF Credit, At, Goto, Snap, Tasks
<1>2. /\ task[w].snap.quote = row.quote /\ task[w].snap.reserved = row.reserved
      /\ task[w].snap.sent = row.sent
  BY <1>0, <1>1 DEF QuietTask, BillInv
<1>3. ledger.refunds = 0 /\ ledger.refunded = 0
  BY <1>0, <1>1 DEF BillInv, LedgerInv
<1>4. SettledOf(task[w].snap) = SettledOf(row)
  BY <1>2 DEF SettledOf
<1>5. SettledOf(row) \in Nat /\ row.reserved \in Nat
  BY <1>0, BillType DEF Rows
<1>6. ledger' = Credited(ledger, row.reserved, SettledOf(row))
  BY <1>1, <1>2, <1>4
<1>7. ledger'.refunded = IF row.reserved > SettledOf(row)
                         THEN row.reserved - SettledOf(row) ELSE 0
  <2> DEFINE bill == SettledOf(row)
  <2>0. bill \in Nat
    BY <1>5
  <2> HIDE DEF bill
  <2>1. ledger' = Credited(ledger, row.reserved, bill)
    BY <1>6 DEF bill
  <2>2. ledger'.refunded = IF row.reserved > bill THEN row.reserved - bill ELSE 0
    BY <1>0, <1>3, <1>5, <2>0, <2>1 DEF Credited, Ledger
  <2>3. QED
    BY <2>2 DEF bill
<1>8. QED
  BY <1>1, <1>7 DEF Squared, SettledOf

\* One process settles, by the count that is final.
LEMMA NextBill ==
    ASSUME Calm, BillInv, [Next]_vars, crashes' = 0 PROVE BillInv'
<1> USE DEF sends, world
<1>0. /\ Quiet /\ TypeOK /\ Inv /\ Counts /\ Over /\ QuietRow /\ RowInv /\ LedgerInv
      /\ task \in [Procs -> Tasks] /\ row \in Rows /\ ledger \in Ledger
      /\ \A v \in Procs : QuietTask(v) /\ TaskInv(v) /\ task[v] \in Tasks
  BY CalmFacts
\* Nobody settles before the campaign is over, and then everyone was told.
<1>1. ASSUME row.status = "SENT"
      PROVE  /\ AllTold /\ UnderWay(row)
             /\ SettledOf(row') = SettledOf(row) /\ row'.reserved = row.reserved
             /\ row'.sent = row.sent /\ row'.quote = row.quote
  <2>1. AllTold /\ UnderWay(row)
    BY <1>0, <1>1 DEF Over, UnderWay
  <2>2. QED
    BY <2>1, BillKept
<1>2. ASSUME NEW w \in Procs, task[w].at \in {"credit", "mark"}
      PROVE  /\ row.status = "SENT" /\ row.settled = Unset
             /\ task[w].snap.sent = row.sent
             /\ \A v \in Procs : task[v].at \in {"credit", "mark"} => v = w
  BY <1>0, <1>2 DEF TaskInv, BillInv
\* How somebody comes to settle.
<1>3. ASSUME NEW w \in Procs, task'[w] # task[w], task'[w].at = "credit"
      PROVE  /\ row.status = "SENDING" /\ row'.settled = Unset
             /\ ledger'.refunds = 0 /\ task'[w].snap.sent = row'.sent
             /\ \A v \in Procs \ {w} : task'[v].at \notin {"credit", "mark"}
  <2>1. Complete(w) /\ IsCounted(row, Snap(w))
    BY <1>0, <1>3, Arrivals
  <2>2. row.status = "SENDING" /\ row.sent = task[w].snap.sent
    BY <2>1 DEF IsCounted, Snap
  <2>3. /\ row'.sent = row.sent /\ row'.settled = row.settled /\ ledger' = ledger
        /\ task'[w].snap = task[w].snap
        /\ \A v \in Procs \ {w} : task'[v] = task[v]
    <3>1. Goto(w, "credit")
      BY <2>1 DEF Complete
    <3>2. task'[w].snap = task[w].snap /\ \A v \in Procs \ {w} : task'[v] = task[v]
      BY <1>0, <3>1 DEF Goto, Tasks
    <3>3. row'.sent = row.sent /\ row'.settled = row.settled /\ ledger' = ledger
      BY <1>0, <2>1 DEF Complete, Rows
    <3>4. QED
      BY <3>2, <3>3
  <2>4. row.settled = Unset /\ ledger.refunds = 0
    BY <1>0, <2>2 DEF RowInv, LedgerInv, Ledger
  <2>5. \A v \in Procs : task[v].at \notin {"credit", "mark"}
    BY <1>2, <2>2
  <2>6. QED
    BY <2>2, <2>3, <2>4, <2>5
<1>4. ASSUME NEW w \in Procs, task'[w] # task[w], task'[w].at = "mark"
      PROVE  Credit(w)
  BY <1>0, <1>4, Arrivals
\* Somebody who was settling and does not move.
<1>5. ASSUME NEW w \in Procs, task'[w] = task[w], task[w].at \in {"credit", "mark"}
      PROVE  /\ row'.settled = Unset /\ task'[w].snap.sent = row'.sent
             /\ ledger'.refunds = ledger.refunds /\ ledger'.refunded = ledger.refunded
             /\ row.status = "SENT"
  <2>1. row.status = "SENT" /\ row.settled = Unset /\ row'.sent = row.sent
    BY <1>1, <1>2, <1>5
  <2>2. ASSUME NEW v \in Procs, MarkSettled(v) \/ Credit(v) PROVE FALSE
    <3>1. task[v].at \in {"credit", "mark"}
      BY <2>2 DEF MarkSettled, Credit, At
    <3>2. v = w
      BY <1>2, <1>5, <3>1
    <3>3. MarkSettled(w) \/ Credit(w)
      BY <2>2, <3>2
    <3>4. task'[w].at # task[w].at
      BY <1>0, <3>3 DEF MarkSettled, Credit, At, Finish, Goto, Idle, Tasks
    <3>5. QED
      BY <1>5, <3>4
  <2>3. \A v \in Procs : ~RefundAll(v)
    BY <1>0, <2>1 DEF RefundAll, At, TaskInv
  <2>4. row'.status = "SENT"
    BY <1>0, <2>1, NextInv DEF Forward
  <2>5. row'.settled = row.settled
    BY <1>0, <2>2, <2>4, Turns
  <2>6. ledger'.refunds = ledger.refunds /\ ledger'.refunded = ledger.refunded
    BY <1>0, <2>2, <2>3, Turns
  <2>7. QED
    BY <1>2, <1>5, <2>1, <2>5, <2>6
<1>6. ASSUME NEW v \in Procs, NEW w \in Procs, task'[v].at \in {"credit", "mark"},
             task'[w].at \in {"credit", "mark"}
      PROVE  v = w
  <2>1. ASSUME NEW u \in Procs, task'[u].at \in {"credit", "mark"}
        PROVE  \/ task[u].at \in {"credit", "mark"}
               \/ \A x \in Procs \ {u} : task'[x].at \notin {"credit", "mark"}
    <3>1. Credit(u) => task[u].at = "credit"
      BY DEF Credit, At
    <3>2. QED
      BY <1>3, <1>4, <2>1, <3>1
  <2>2. QED
    BY <1>2, <1>6, <2>1
<1>7. ASSUME NEW w \in Procs, task'[w].at \in {"credit", "mark"}
      PROVE  row'.settled = Unset /\ task'[w].snap.sent = row'.sent
  <2>1. CASE task'[w] = task[w]
    BY <1>5, <1>7, <2>1
  <2>2. CASE task'[w] # task[w] /\ task'[w].at = "credit"
    BY <1>3, <2>2
  <2>3. CASE task'[w] # task[w] /\ task'[w].at = "mark"
    <3>1. row' = row /\ task[w].at = "credit" /\ task'[w].snap = task[w].snap
      BY <1>4, <2>3, CreditSquares
    <3>2. QED
      BY <1>2, <3>1
  <2>4. QED
    BY <1>7, <2>1, <2>2, <2>3
<1>8. ASSUME NEW w \in Procs, task'[w].at = "credit" PROVE ledger'.refunds = 0
  <2>1. CASE task'[w] = task[w]
    BY <1>5, <1>8, <2>1 DEF BillInv
  <2>2. CASE task'[w] # task[w]
    BY <1>3, <1>8, <2>2
  <2>3. QED
    BY <2>1, <2>2
<1>9. ASSUME NEW w \in Procs, task'[w].at = "mark" PROVE Squared(SettledOf(row))'
  <2>1. CASE task'[w] = task[w]
    <3>1. Squared(SettledOf(row)) /\ task[w].at = "mark"
      BY <1>9, <2>1 DEF BillInv
    <3>2. row.status = "SENT" /\ ledger'.refunded = ledger.refunded
      BY <1>5, <2>1, <3>1
    <3>3. SettledOf(row') = SettledOf(row) /\ row'.reserved = row.reserved
      BY <1>1, <3>2
    <3>4. QED
      BY <3>1, <3>2, <3>3 DEF Squared, SettledOf
  <2>2. CASE task'[w] # task[w]
    BY <1>4, <1>9, <2>2, CreditSquares
  <2>3. QED
    BY <2>1, <2>2
<1>10. ASSUME row'.status = "SENT", row'.settled # Unset
       PROVE  row'.settled = SettledOf(row)' /\ Squared(SettledOf(row))'
  <2>1. Forward
    BY <1>0, NextInv
  <2>2. CASE row.settled # Unset
    <3>1. row.status = "SENT" /\ row'.settled = row.settled
      BY <1>0, <1>10, <2>1, <2>2 DEF RowInv, Forward
    <3>2. row.settled = SettledOf(row) /\ Squared(SettledOf(row))
      BY <2>2, <3>1 DEF BillInv
    <3>3. \A v \in Procs : ~Credit(v) /\ ~RefundAll(v)
      BY <1>0, <1>2, <2>2, <3>1 DEF Credit, RefundAll, At, TaskInv
    <3>4. ledger'.refunded = ledger.refunded
      BY <1>0, <3>3, Turns
    <3>5. SettledOf(row') = SettledOf(row) /\ row'.reserved = row.reserved
      BY <1>1, <3>1
    <3>6. QED
      BY <3>1, <3>2, <3>4, <3>5 DEF Squared, SettledOf
  <2>3. CASE row.settled = Unset
    <3>1. PICK w \in Procs : MarkSettled(w)
      BY <1>0, <1>10, <2>3, Turns
    <3>2. task[w].at = "mark" /\ ledger' = ledger
      BY <3>1 DEF MarkSettled, At
    <3>3. /\ row.status = "SENT" /\ task[w].snap.sent = row.sent
          /\ task[w].snap.quote = row.quote /\ Squared(SettledOf(row))
      BY <1>0, <1>2, <3>2 DEF QuietTask, BillInv
    <3>4. SettledOf(row') = SettledOf(row) /\ row'.reserved = row.reserved
      BY <1>1, <3>3
    <3>5. row'.settled = SettledOf(task[w].snap)
      BY <1>0, <2>3, <3>1, <3>3 DEF MarkSettled, IsUnsettled, Snap, Rows
    <3>6. SettledOf(task[w].snap) = SettledOf(row)
      BY <3>3 DEF SettledOf
    <3>7. QED
      BY <3>2, <3>3, <3>4, <3>5, <3>6 DEF Squared, SettledOf
  <2>4. QED
    BY <2>2, <2>3
<1>11. QED
  BY <1>6, <1>7, <1>8, <1>9, <1>10 DEF BillInv

-----------------------------------------------------------------------------
(* The invariant. *)

QuietInv == Quiet /\ TypeOK /\ Inv /\ Counts /\ Safe

\* What the invariant says where nothing died.
LEMMA SafeIsCalm ==
    QuietInv /\ crashes = 0 => Calm /\ BillInv
BY DEF QuietInv, Safe, Calm

\* The invariant holds at the start and over every step.
LEMMA InitQuiet == Init /\ Quiet => QuietInv
<1> SUFFICES ASSUME Init, Quiet PROVE QuietInv
  OBVIOUS
<1> USE DEF Init, NoRow, Idle
<1>1. TypeOK /\ Inv
  BY InitType, InitInv
<1>2. \A w \in Procs : /\ task[w].at = "idle" /\ ~task[w].tick
                       /\ QuietTask(w) /\ SafeTask(w)
  BY DEF QuietTask, SafeTask
<1>3. QuietRow
  <2>1. row.status = "NONE" /\ row.kind = "LIST"
    OBVIOUS
  <2>2. /\ row.claimed = "never" /\ row.progress = "never" /\ row.queued = 0
        /\ row.refused = 0 /\ row.cursor = 0
    OBVIOUS
  <2>3. QED
    BY <2>1, <2>2 DEF QuietRow
<1>4. ToldInv
  <2>1. \A p \in People : told[p] = Send!Untold
    BY DEF Send!Init
  <2>2. ToldOf("sent") = {}
    BY <2>1 DEF ToldOf, Send!Untold
  <2>3. QED
    BY <2>1, <2>2, FS_EmptySet DEF ToldInv, IsTold
<1>5. PriceInv
  <2>1. row.status = "NONE" /\ row.kind = "LIST" /\ ledger.sends = 0 /\ ledger.debited = 0
    OBVIOUS
  <2>2. QED
    BY <2>1 DEF PriceInv
<1>6. OneTick /\ SafeInv /\ Over /\ BillInv
  <2>1. row.status = "NONE"
    OBVIOUS
  <2>2. QED
    BY <1>2, <2>1 DEF OneTick, SafeInv, Over, BillInv
<1>7. QED
  BY <1>1, <1>2, <1>3, <1>4, <1>5, <1>6 DEF QuietInv, Counts, Safe

LEMMA NextQuiet == QuietInv /\ [Next]_vars => QuietInv'
<1> SUFFICES ASSUME QuietInv, [Next]_vars PROVE QuietInv'
  OBVIOUS
<1>1. Quiet' /\ TypeOK' /\ Inv' /\ Counts'
  BY NextInv, NextCounts DEF QuietInv, Quiet
<1>2. ASSUME crashes' = 0
      PROVE  SafeInv' /\ (\A w \in Procs : SafeTask(w)') /\ Over' /\ BillInv'
  <2>1. crashes = 0
    <3>1. crashes \in Nat /\ crashes' \in Nat /\ (crashes' = crashes \/ crashes' = crashes + 1)
      <4>1. crashes \in Nat /\ crashes' \in Nat
        BY <1>1, CampaignsAssumption DEF QuietInv, TypeOK
      <4>2. crashes' = crashes \/ crashes' = crashes + 1
        <5>1. \A w \in Procs : Work(w) => UNCHANGED world
          BY DEF Work, Reserve, Schedule, ClaimDraft, HandOut, CancelScheduled, RefundAll, Claim,
                 Load, PlanFail, SendBatch, Advance, Complete, Credit, MarkSettled, ClearIndex
        <5>2. \A w \in Procs : Request(w) \/ Tick(w) => UNCHANGED world
          BY DEF Request, StartSchedule, StartCancel, QuickSend, Tick, StartTick, StartSweep
        <5>3. \/ RecordDelivery \/ AgeClaim \/ AnHourPasses
              \/ (\E p \in People : Dispatch(p))
              \/ (\E w \in Procs, p \in People : Tell(w, p))
              => UNCHANGED world
          BY DEF RecordDelivery, AgeClaim, AnHourPasses, Dispatch, Tell
        <5>4. UNCHANGED world => crashes' = crashes
          BY DEF world
        <5>5. \/ CreateDraft \/ SaveDraft \/ DeleteDraft \/ EditList \/ UNCHANGED vars
              \/ (\E p \in People : OptOut(p))
              => crashes' = crashes
          BY DEF CreateDraft, SaveDraft, DeleteDraft, EditList, OptOut, vars, bounds
        <5>6. \A w \in Procs : SendFail(w) \/ Crash(w) => crashes' = crashes + 1
          BY DEF SendFail, Crash
        <5>7. QED
          BY <5>1, <5>2, <5>3, <5>4, <5>5, <5>6 DEF Next, QuietInv
      <4>3. QED
        BY <4>1, <4>2
    <3>2. QED
      BY <1>2, <3>1
  <2>2. Calm /\ BillInv
    BY <2>1, SafeIsCalm
  <2>3. QED
    BY <1>2, <2>2, NextSafeInv, NextSafeTask, NextOver, NextBill
<1>3. QED
  BY <1>1, <1>2 DEF QuietInv, Safe

\* The invariant under the counters and the bill holds of a campaign that nobody
\* edits while it is sent, with one tick and no silent hour.
THEOREM QuietInvHolds == Quiet => (Spec => []QuietInv)
<1>1. UNCHANGED vars => [Next]_vars
  OBVIOUS
<1>2. QED
  BY InitQuiet, NextQuiet, PTL DEF Spec

\* Everyone is accounted for, for every list, batch size and number of requests: a
\* fan-out that is through has queued or refused each position once, however often
\* it crashed and was taken up again, and a campaign in which nothing died is over
\* only when each of its jobs was answered.
THEOREM EveryoneIsAccountedFor == Quiet => (Spec => []AccountedFor)
<1>1. QuietInv => AccountedFor
  <2> SUFFICES ASSUME QuietInv PROVE AccountedFor
    OBVIOUS
  <2>1. ASSUME FanOutIsThrough
        PROVE  row.queued + row.refused - Cardinality(ToldOf("refused")) = row.recipients
    <3>1. /\ row.recipients = Size /\ row.queued + row.refused = ToldRefused + Size
          /\ row.queued \in Nat /\ row.refused \in Nat /\ row.recipients \in Nat
          /\ ToldRefused \in Nat
      BY <2>1, ToldCount DEF QuietInv, Counts, QuietRow, FanOutIsThrough, TypeOK, Rows
    <3>2. row.queued + row.refused - ToldRefused = row.recipients
      BY <3>1
    <3>3. QED
      BY <3>2 DEF ToldRefused
  <2>2. ASSUME row.status = "SENT", crashes = 0
        PROVE  \A p \in jobs : told[p] # Send!Untold
    <3>1. AllTold
      BY <2>2 DEF QuietInv, Safe, Over
    <3>2. QED
      BY <3>1 DEF AllTold, IsTold
  <2>3. QED
    BY <2>1, <2>2 DEF AccountedFor
<1>2. QED
  BY <1>1, QuietInvHolds, PTL

\* Where nothing died, a settled campaign is billed for exactly the messages the
\* provider took, at the quote, and the rest of what was reserved is given back.
THEOREM TheBillIsRight == Quiet => (Spec => []BilledAsSent)
<1>1. QuietInv => BilledAsSent
  <2> SUFFICES ASSUME QuietInv, row.status = "SENT", row.settled # Unset, crashes = 0
               PROVE  LET bill == row.quote * Cardinality(Accepted) IN
                      /\ row.settled = bill
                      /\ ledger.sends = 1 /\ bill <= row.reserved =>
                             ledger.debited - ledger.refunded = bill
    BY DEF BilledAsSent
  <2>0. /\ Calm /\ BillInv /\ ToldInv /\ PriceInv /\ RowInv /\ row \in Rows /\ TypeOK
        /\ AllTold
    BY SafeIsCalm, CalmFacts DEF Over
  <2>1. Accepted = ToldOf("sent")
    <3>1. ASSUME NEW p \in People, fate[p] = "accepted" PROVE told[p].sent = 1
      <4>1. IsTold(p)
        BY <2>0, <3>1 DEF RowInv, AllTold
      <4>2. QED
        BY <2>0, <3>1, <4>1 DEF ToldInv
    <3>2. ASSUME NEW p \in People, told[p].sent = 1 PROVE fate[p] = "accepted"
      <4>1. IsTold(p)
        BY <3>2 DEF IsTold, Send!Untold
      <4>2. QED
        BY <2>0, <3>2, <4>1 DEF ToldInv
    <3>3. QED
      BY <3>1, <3>2 DEF Accepted, ToldOf
  <2>2. Cardinality(Accepted) = row.sent
    BY <2>0, <2>1 DEF ToldInv
  <2> DEFINE bill == SettledOf(row)
  <2>3. bill = row.quote * Cardinality(Accepted)
    BY <2>2 DEF SettledOf
  <2>4. row.settled = bill /\ Squared(bill)
    BY <2>0 DEF BillInv
  <2>5. bill \in Nat /\ row.reserved \in Nat
    BY <2>0, BillType DEF Rows
  <2>6. ledger.sends = 1 => ledger.debited = row.reserved
    BY <2>0 DEF PriceInv
  <2>7. ASSUME ledger.sends = 1, bill <= row.reserved
        PROVE  ledger.debited - ledger.refunded = bill
    <3> HIDE DEF bill
    <3>1. QED
      BY <2>4, <2>5, <2>6, <2>7 DEF Squared
  <2>8. QED
    BY <2>3, <2>4, <2>7
<1>2. QED
  BY <1>1, QuietInvHolds, PTL

=============================================================================
