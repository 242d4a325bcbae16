------------------------------ MODULE Campaigns ------------------------------
(***************************************************************************)
(* The life of one campaign: its row, the reservation taken for it, the    *)
(* scheduler's tick that claims it and fans it out, the counters the send  *)
(* workers report to, and the settlement that bills and refunds.           *)
(*                                                                         *)
(* Every process is one request or one Lambda invocation; its steps are    *)
(* the awaits of the handler it runs.  What the send path does with a job  *)
(* is the promise of SendOnce, which Messaging is shown to keep.           *)
(***************************************************************************)
EXTENDS Integers, Sequences, FiniteSets

CONSTANTS
    People,         \* numbers a campaign may be addressed to
    Allowed,        \* those in a country of SendPolicy.allowed_countries
    Audiences,      \* lists of people, as contacts or a quick send give them
    Cost,           \* what sending to an audience costs, in micro
    Procs,          \* requests and invocations that may run at once
    BatchSize,      \* SEND_JOB_BATCH
    MaxTicks,       \* scheduler invocations at once (reserved concurrency)
    HoursPass,      \* TRUE: STUCK_AFTER (1 h) may pass with no progress
    PlanFails,      \* TRUE: reading the list or its senders may fail
    MaxCrashes,     \* bound: processes that die
    MaxEdits,       \* bound: changes of the draft or of the list it names
    MaxDebits,      \* bound: SEND rows
    MaxReports      \* bound: delivery reports

ASSUME CampaignsAssumption ==
    /\ Allowed \subseteq People
    /\ IsFiniteSet(People)
    /\ Audiences \subseteq Seq(People)
    /\ <<>> \in Audiences
    /\ \A a \in Audiences : \A i, j \in DOMAIN a : a[i] = a[j] => i = j
    /\ Cost \in [Audiences -> Nat]
    /\ BatchSize \in Nat \ {0}
    /\ MaxTicks \in Nat \ {0}
    /\ HoursPass \in BOOLEAN
    /\ PlanFails \in BOOLEAN
    /\ MaxCrashes \in Nat
    /\ MaxEdits \in Nat
    /\ MaxDebits \in Nat
    /\ MaxReports \in Nat

VARIABLES
    row,        \* the campaign item
    list,       \* who is on the list the draft names
    optedOut,   \* people on the account's opt-out list
    ledger,     \* the account's SEND and REFUND rows for this campaign
    jobs,       \* people a send job was queued for
    fate,       \* SendOnce: what became of each person's message
    told,       \* SendOnce: what the counters were given for each person
    task,       \* what each process is doing
    edits, crashes

vars == <<row, list, optedOut, ledger, jobs, fate, told, task, edits, crashes>>

Send == INSTANCE SendOnce WITH Recipients <- People

\* Groups of variables for UNCHANGED.
sends == <<jobs, fate, told>>
bounds == <<edits, crashes>>
world == <<list, optedOut, edits, crashes>>

-----------------------------------------------------------------------------

\* "NONE" is no item yet, "DELETED" a deleted draft.  No code sets FAILED.
Statuses == {"NONE", "DRAFT", "SCHEDULED", "SENDING", "SENT", "CANCELLED",
             "DELETED"}

\* settledMicro when the attribute does not exist.
Unset == -1

\* index: the GSI1 partition the row is listed in.  claimed: the age of
\* claimedAt, stale past STALE_CLAIM and old past STUCK_AFTER.  progress: the
\* age of lastProgressAt and of the progress time in GSI1SK; where a write sets
\* one of the two alone, the other is not read again.
Rows == [status: Statuses, kind: {"LIST", "QUICK"}, people: Audiences,
         quote: Nat, reserved: Nat, recipients: Nat, queued: Nat,
         refused: Nat, sent: Nat, reported: Nat, cursor: Nat, settled: Int,
         index: {"none", "due", "sending"},
         claimed: {"never", "fresh", "stale", "old"},
         progress: {"never", "fresh", "old"}]

NoRow == [status |-> "NONE", kind |-> "LIST", people |-> <<>>, quote |-> 0,
          reserved |-> 0, recipients |-> 0, queued |-> 0, refused |-> 0,
          sent |-> 0, reported |-> 0, cursor |-> 0, settled |-> Unset,
          index |-> "none", claimed |-> "never", progress |-> "never"]

\* drafted: a new item, also when it replaces an earlier draft.
Drafted == [NoRow EXCEPT !.status = "DRAFT"]

Ledger == [sends: 0..MaxDebits, debited: Nat, refunds: {0, 1}, refunded: Nat]

\* Where a process is between two awaits of its handler.
Places == {"idle", "reserve", "schedule", "claim_draft", "hand_out", "cancel",
           "refund", "claim", "load", "batch", "advance", "complete", "credit",
           "mark", "clear"}

\* snap: the row as the process last read it, or the plan it is to write.
\* later: the send is to be scheduled.  members, blocked, pos: the fan-out's
\* addressed, opted_out and cursor.  tick: the process is the scheduler's.
Tasks == [at: Places, snap: Rows, later: BOOLEAN, tick: BOOLEAN,
          members: Audiences, blocked: SUBSET People, pos: Nat]

Idle == [at |-> "idle", snap |-> NoRow, later |-> FALSE, tick |-> FALSE,
         members |-> <<>>, blocked |-> {}, pos |-> 0]

Init ==
    /\ row = NoRow
    /\ list = <<>>
    /\ optedOut = {}
    /\ ledger = [sends |-> 0, debited |-> 0, refunds |-> 0, refunded |-> 0]
    /\ jobs = {}
    /\ Send!Init
    /\ task = [w \in Procs |-> Idle]
    /\ edits = 0
    /\ crashes = 0

At(w, place) == task[w].at = place
Snap(w) == task[w].snap
Goto(w, place) == task' = [task EXCEPT ![w].at = place]
Finish(w) == task' = [task EXCEPT ![w] = Idle]

\* An idle process takes up a handler, having read the row as s.
Start(w, place, s) ==
    /\ At(w, "idle")
    /\ task' = [task EXCEPT ![w] = [Idle EXCEPT !.at = place, !.snap = s]]

-----------------------------------------------------------------------------
(* Drafts, lists and opt-outs: requests of one write each. *)

CreateDraft ==
    /\ row.status = "NONE"
    /\ row' = Drafted
    /\ list' \in Audiences
    /\ UNCHANGED <<optedOut, ledger, sends, task, bounds>>

\* save_draft writes a whole new item over a draft; it may name another list.
SaveDraft ==
    /\ row.status = "DRAFT"
    /\ edits < MaxEdits
    /\ edits' = edits + 1
    /\ row' = Drafted
    /\ list' \in Audiences
    /\ UNCHANGED <<optedOut, ledger, sends, task, crashes>>

DeleteDraft ==
    /\ row.status = "DRAFT"
    /\ edits < MaxEdits
    /\ edits' = edits + 1
    /\ row' = [NoRow EXCEPT !.status = "DELETED"]
    /\ UNCHANGED <<list, optedOut, ledger, sends, task, crashes>>

\* Contacts come and go on the list the campaign names.
EditList ==
    /\ row.status # "NONE"
    /\ edits < MaxEdits
    /\ edits' = edits + 1
    /\ list' \in Audiences \ {list}
    /\ UNCHANGED <<row, optedOut, ledger, sends, task, crashes>>

OptOut(p) ==
    /\ p \notin optedOut
    /\ optedOut' = optedOut \cup {p}
    /\ UNCHANGED <<row, list, ledger, sends, task, bounds>>

-----------------------------------------------------------------------------
(* Scheduling and quick sends: quote, reserve, write. *)

Chargeable(members) == {i \in DOMAIN members : members[i] \in Allowed}

\* per_message_quote rounds up.
PerMessageQuote(cost, n) == (cost + n - 1) \div n

\* What _quote_list, or _assess, writes on the plan of a send to members.
Quoted(r, members) ==
    LET n == Cardinality(Chargeable(members)) IN
    [r EXCEPT !.recipients = n, !.reserved = Cost[members],
              !.quote = PerMessageQuote(Cost[members], n)]

AudienceOf(r) == IF r.kind = "QUICK" THEN r.people ELSE list

\* schedule: the row is read, must be a draft, and its audience is priced.
StartSchedule(w) ==
    /\ row.status = "DRAFT"
    /\ Chargeable(AudienceOf(row)) # {}
    /\ At(w, "idle")
    /\ task' = [task EXCEPT ![w] =
            [Idle EXCEPT !.at = "reserve", !.later = TRUE,
                         !.snap = Quoted(row, AudienceOf(row))]]
    /\ UNCHANGED <<row, ledger, sends, world>>

\* send_quick: the audience is assessed (only people SendPolicy allows are
\* left in it) and the campaign put as a draft.
QuickSend(w, people, later) ==
    LET quick == Quoted([Drafted EXCEPT !.kind = "QUICK", !.people = people],
                        people) IN
    /\ row.status = "NONE"
    /\ people # <<>>
    /\ \A i \in DOMAIN people : people[i] \in Allowed \ optedOut
    /\ At(w, "idle")
    /\ row' = quick
    /\ task' = [task EXCEPT ![w] = [Idle EXCEPT !.at = "reserve", !.snap = quick,
                                                !.later = later]]
    /\ UNCHANGED <<ledger, sends, world>>

\* billing.reserve debits the account and writes a SEND row in one
\* transaction, or refuses (balance, trial) and the request ends.
Reserve(w) ==
    /\ At(w, "reserve")
    /\ \/ /\ Snap(w).reserved > 0
          /\ ledger.sends < MaxDebits
          /\ ledger' = [ledger EXCEPT !.sends = @ + 1,
                                      !.debited = @ + Snap(w).reserved]
          /\ Goto(w, IF task[w].later THEN "schedule" ELSE "claim_draft")
       \/ ledger' = ledger /\ Finish(w)
    /\ UNCHANGED <<row, sends, world>>

\* a draft no longer: a mutant of IsDraft.
IsNotUnderWay(r) == r.status \notin {"SENDING", "SENT"}

IsDraft(r) == r.status = "DRAFT"

\* repo.schedule is conditional on DRAFT; when it is lost the request answers
\* 409 and the reservation is left as it is.
Schedule(w) ==
    /\ At(w, "schedule")
    /\ row' = IF IsDraft(row)
              THEN [row EXCEPT !.status = "SCHEDULED", !.index = "due",
                               !.recipients = Snap(w).recipients,
                               !.quote = Snap(w).quote,
                               !.reserved = Snap(w).reserved]
              ELSE row
    /\ Finish(w)
    /\ UNCHANGED <<ledger, sends, world>>

\* _fan_out_now: a quick send for now flips the draft to SENDING itself.
ClaimDraft(w) ==
    /\ At(w, "claim_draft")
    /\ \/ /\ IsDraft(row)
          /\ row' = [row EXCEPT !.status = "SENDING", !.index = "sending",
                                !.progress = "fresh"]
          /\ task' = [task EXCEPT ![w].at = "hand_out",
                                  ![w].members = Snap(w).people]
       \/ ~IsDraft(row) /\ row' = row /\ Finish(w)
    /\ UNCHANGED <<ledger, sends, world>>

\* The positions of the batch a fan-out is at, and where it ends.
BatchEnd(w) ==
    IF task[w].pos + BatchSize < Len(task[w].members)
    THEN task[w].pos + BatchSize ELSE Len(task[w].members)
Batch(w) == (task[w].pos + 1)..BatchEnd(w)

\* One bus.send of _fan_out_now; nothing is written on the row.
HandOut(w) ==
    /\ At(w, "hand_out")
    /\ jobs' = jobs \cup {task[w].members[i] : i \in Batch(w)}
    /\ IF BatchEnd(w) = Len(task[w].members) THEN Finish(w)
       ELSE task' = [task EXCEPT ![w].pos = BatchEnd(w)]
    /\ UNCHANGED <<row, ledger, fate, told, world>>

-----------------------------------------------------------------------------
(* Cancelling. *)

StartCancel(w) ==
    /\ row.status = "SCHEDULED"
    /\ Start(w, "cancel", row)
    /\ UNCHANGED <<row, ledger, sends, world>>

\* a campaign under way as well: a mutant of IsScheduled.
IsScheduledOrSending(r) == r.status \in {"SCHEDULED", "SENDING"}

IsScheduled(r) == r.status = "SCHEDULED"

CancelScheduled(w) ==
    /\ At(w, "cancel")
    /\ \/ /\ IsScheduled(row)
          /\ row' = [row EXCEPT !.status = "CANCELLED", !.settled = 0,
                                !.index = "none"]
          /\ Goto(w, "refund")
       \/ ~IsScheduled(row) /\ row' = row /\ Finish(w)
    /\ UNCHANGED <<ledger, sends, world>>

\* written whatever was refunded before: a mutant of Credited.
CreditedAgain(l, reserved, settled) ==
    IF reserved > settled
    THEN [l EXCEPT !.refunds = 1, !.refunded = @ + (reserved - settled)]
    ELSE l

\* a bill rounded up past the reservation is credited too: a mutant of Credited.
CreditedBelowZero(l, reserved, settled) ==
    IF l.refunds = 0
    THEN [l EXCEPT !.refunds = 1, !.refunded = @ + (reserved - settled)]
    ELSE l

\* billing.settle: the REFUND row's key is made of the campaign alone, so the
\* transaction that credits the account goes through once.
Credited(l, reserved, settled) ==
    IF reserved > settled /\ l.refunds = 0
    THEN [l EXCEPT !.refunds = 1, !.refunded = @ + (reserved - settled)]
    ELSE l

RefundAll(w) ==
    /\ At(w, "refund")
    /\ ledger' = Credited(ledger, Snap(w).reserved, 0)
    /\ Finish(w)
    /\ UNCHANGED <<row, sends, world>>

-----------------------------------------------------------------------------
(* The scheduler's tick: claim_and_fan_out. *)

TicksRunning == Cardinality({w \in Procs : task[w].tick})

\* The tick lists the due partition and reads the campaign.
StartTick(w) ==
    /\ row.index = "due"
    /\ row.status \in {"SCHEDULED", "SENDING"}
    /\ TicksRunning < MaxTicks
    /\ At(w, "idle")
    /\ task' = [task EXCEPT ![w] = [Idle EXCEPT !.at = "claim", !.snap = row,
                                                !.tick = TRUE]]
    /\ UNCHANGED <<row, ledger, sends, world>>

\* a claim is taken whatever became of the campaign: a mutant of IsClaimable.
IsClaimableAnyway(r) == r.status # "SENDING" \/ r.claimed \in {"stale", "old"}

IsClaimable(r) ==
    \/ r.status = "SCHEDULED"
    \/ r.status = "SENDING" /\ r.claimed \in {"stale", "old"}

\* Judged on the row as it was read before the claim.
IsAbandoned(r) ==
    /\ r.status = "SENDING"
    /\ r.progress = "old" \/ (r.progress = "never" /\ r.claimed = "old")

Claim(w) ==
    /\ At(w, "claim")
    /\ \/ /\ IsClaimable(row)
          /\ row' = [row EXCEPT !.status = "SENDING", !.claimed = "fresh"]
          /\ Goto(w, IF IsAbandoned(Snap(w)) THEN "complete" ELSE "load")
       \/ ~IsClaimable(row) /\ row' = row /\ Finish(w)
    /\ UNCHANGED <<ledger, sends, world>>

\* The audience and the opt-outs are read once; the fan-out starts at the
\* cursor of the row that was read before the claim.
Load(w) ==
    /\ At(w, "load")
    /\ task' = [task EXCEPT ![w].at = "batch",
                            ![w].members = AudienceOf(Snap(w)),
                            ![w].blocked = optedOut,
                            ![w].pos = Snap(w).cursor]
    /\ UNCHANGED <<row, ledger, sends, world>>

\* The list is deleted, or its sender can no longer be resolved: an AppError
\* that the tick logs.
PlanFail(w) ==
    /\ PlanFails
    /\ At(w, "load")
    /\ Finish(w)
    /\ UNCHANGED <<row, ledger, sends, world>>

Sendable(w) ==
    {i \in Batch(w) :
        task[w].members[i] \in Allowed \ task[w].blocked}

\* bus.send comes first, the row second.
SendBatch(w) ==
    /\ At(w, "batch")
    /\ jobs' = jobs \cup {task[w].members[i] : i \in Sendable(w)}
    /\ Goto(w, "advance")
    /\ UNCHANGED <<row, ledger, fate, told, world>>

\* Some entries of a batch are queued, and bus.send raises.
SendFail(w) ==
    /\ At(w, "batch")
    /\ crashes < MaxCrashes
    /\ crashes' = crashes + 1
    /\ \E queued \in SUBSET Sendable(w) :
            jobs' = jobs \cup {task[w].members[i] : i \in queued}
    /\ Finish(w)
    /\ UNCHANGED <<row, ledger, fate, told, list, optedOut, edits>>

\* what was queued is taken for what was sent: a mutant of IsAllCounted.
IsAllQueued(r) == r.recipients - r.queued - r.refused = 0

\* missing_of on the counts a write returns.
IsAllCounted(r) == r.recipients - r.sent - r.refused = 0

\* A process whose write returned r completes the campaign when nobody is
\* missing, and ends otherwise.
Settle(w, r) ==
    IF IsAllCounted(r)
    THEN task' = [task EXCEPT ![w].at = "complete", ![w].snap = r]
    ELSE Finish(w)

\* the people passed over are left out: a mutant of CountBatch.
CountSendable(r, w) ==
    [r EXCEPT !.queued = @ + Cardinality(Sendable(w)),
              !.recipients = Len(task[w].members),
              !.progress = "fresh"]

CountBatch(r, w) ==
    [r EXCEPT !.queued = @ + Cardinality(Sendable(w)),
              !.refused = @ + Cardinality(Batch(w) \ Sendable(w)),
              !.recipients = Len(task[w].members),
              !.progress = "fresh"]

IsLastBatch(w) == BatchEnd(w) = Len(task[w].members)

Advance(w) ==
    LET counted == CountBatch(row, w)
        done == [counted EXCEPT !.cursor = 0, !.index = "sending"]
    IN
    /\ At(w, "advance")
    /\ \/ IsLastBatch(w) /\ row' = done /\ Settle(w, done)
       \/ /\ ~IsLastBatch(w)
          /\ row' = [counted EXCEPT !.cursor = BatchEnd(w)]
          /\ task' = [task EXCEPT ![w].at = "batch", ![w].pos = BatchEnd(w)]
    /\ UNCHANGED <<ledger, sends, world>>

-----------------------------------------------------------------------------
(* The send path, by its promise, and the counters it reports to. *)

Dispatch(p) ==
    /\ p \in jobs
    /\ Send!Accept(p) \/ Send!Refuse(p)
    /\ UNCHANGED <<row, ledger, jobs, task, world>>

\* record_outcome: ADD one to sent or refused, and settle on what it returns.
Tell(w, p) ==
    LET counted == [row EXCEPT !.progress = "fresh",
                        !.sent = @ + told'[p].sent,
                        !.refused = @ + told'[p].refused]
    IN
    /\ At(w, "idle")
    /\ Send!Tell(p)
    /\ row' = counted
    /\ Settle(w, counted)
    /\ UNCHANGED <<ledger, jobs, world>>

\* record_delivery: a counter that does not settle, but is progress.
RecordDelivery ==
    /\ \E p \in People : fate[p] = "accepted"
    /\ row.reported < MaxReports
    /\ row' = [row EXCEPT !.reported = @ + 1, !.progress = "fresh"]
    /\ UNCHANGED <<ledger, sends, task, world>>

-----------------------------------------------------------------------------
(* Settlement: _complete and _settle_reservation. *)

\* COMPLETE_WHEN_COUNTED: the counts are those the process acts on.
IsCounted(r, snap) ==
    /\ r.status = "SENDING"
    /\ r.sent = snap.sent
    /\ r.refused = snap.refused

Complete(w) ==
    /\ At(w, "complete")
    /\ \/ /\ IsCounted(row, Snap(w))
          /\ row' = [row EXCEPT !.status = "SENT", !.index = "sending",
                                !.progress = "fresh"]
          /\ Goto(w, "credit")
       \/ ~IsCounted(row, Snap(w)) /\ row' = row /\ Finish(w)
    /\ UNCHANGED <<ledger, sends, world>>

\* what was queued is billed: a mutant of SettledOf.
SettledAsQueued(r) == r.quote * r.queued

SettledOf(r) == r.quote * r.sent

Credit(w) ==
    /\ At(w, "credit")
    /\ ledger' = Credited(ledger, Snap(w).reserved, SettledOf(Snap(w)))
    /\ Goto(w, "mark")
    /\ UNCHANGED <<row, sends, world>>

IsUnsettled(r) == r.status = "SENT" /\ r.settled = Unset

MarkSettled(w) ==
    /\ At(w, "mark")
    /\ row' = IF IsUnsettled(row)
              THEN [row EXCEPT !.settled = SettledOf(Snap(w)), !.index = "none"]
              ELSE row
    /\ Finish(w)
    /\ UNCHANGED <<ledger, sends, world>>

\* a sent campaign is taken to be settled: a mutant of SweepTo.
SweepSending(r) == IF r.status = "SENDING" THEN "complete" ELSE "clear"

\* settle_stuck: an unsettled campaign is settled, one still sending is
\* completed as it stands, and any other leaves the partition.
SweepTo(r) ==
    CASE IsUnsettled(r) -> "credit"
      [] r.status = "SENDING" -> "complete"
      [] OTHER -> "clear"

StartSweep(w) ==
    /\ row.index = "sending"
    /\ row.progress = "old"
    /\ TicksRunning < MaxTicks
    /\ At(w, "idle")
    /\ task' = [task EXCEPT ![w] = [Idle EXCEPT !.at = SweepTo(row), !.snap = row,
                                                !.tick = TRUE]]
    /\ UNCHANGED <<row, ledger, sends, world>>

ClearIndex(w) ==
    /\ At(w, "clear")
    /\ row' = [row EXCEPT !.index = "none"]
    /\ Finish(w)
    /\ UNCHANGED <<ledger, sends, world>>

-----------------------------------------------------------------------------
(* Crashes and the passing of time. *)

\* The process dies, or an await raises, between two writes.
Crash(w) ==
    /\ ~At(w, "idle")
    /\ crashes < MaxCrashes
    /\ crashes' = crashes + 1
    /\ Finish(w)
    /\ UNCHANGED <<row, list, optedOut, ledger, sends, edits>>

\* Sixty seconds pass since claimedAt.
AgeClaim ==
    /\ row.claimed = "fresh"
    /\ row' = [row EXCEPT !.claimed = "stale"]
    /\ UNCHANGED <<ledger, sends, task, world>>

\* An hour passes; no invocation lives that long.
AnHourPasses ==
    /\ HoursPass
    /\ \A w \in Procs : At(w, "idle")
    /\ row.progress = "fresh" \/ row.claimed \in {"fresh", "stale"}
    /\ row' = [row EXCEPT
                 !.progress = IF @ = "fresh" THEN "old" ELSE @,
                 !.claimed = IF @ \in {"fresh", "stale"} THEN "old" ELSE @]
    /\ UNCHANGED <<ledger, sends, task, world>>

-----------------------------------------------------------------------------

\* What a process that does not die does next.
Work(w) ==
    \/ Reserve(w) \/ Schedule(w) \/ ClaimDraft(w) \/ HandOut(w)
    \/ CancelScheduled(w) \/ RefundAll(w)
    \/ Claim(w) \/ Load(w) \/ PlanFail(w) \/ SendBatch(w) \/ Advance(w)
    \/ Complete(w) \/ Credit(w) \/ MarkSettled(w) \/ ClearIndex(w)

Request(w) ==
    \/ StartSchedule(w)
    \/ StartCancel(w)
    \/ \E people \in Audiences, later \in BOOLEAN : QuickSend(w, people, later)

Tick(w) == StartTick(w) \/ StartSweep(w)

Next ==
    \/ CreateDraft \/ SaveDraft \/ DeleteDraft \/ EditList
    \/ \E p \in People : OptOut(p) \/ Dispatch(p)
    \/ \E w \in Procs : Request(w) \/ Tick(w) \/ Work(w)
    \/ \E w \in Procs : SendFail(w) \/ Crash(w)
    \/ \E w \in Procs, p \in People : Tell(w, p)
    \/ RecordDelivery \/ AgeClaim \/ AnHourPasses

Spec == Init /\ [][Next]_vars

\* Lambda finishes what does not die, and the scheduler runs every minute for
\* as long as something is listed.  Time passes; an hour of silence is granted
\* only to a row that no tick claims, for a claim makes claimedAt fresh again.
\* Nothing makes a send worker or a request come.
Fairness ==
    /\ \A w \in Procs : WF_vars(Work(w))
    /\ SF_vars(\E w \in Procs : StartTick(w))
    /\ SF_vars(\E w \in Procs : StartSweep(w))
    /\ WF_vars(AgeClaim)
    /\ SF_vars(AnHourPasses /\ row.index = "sending")

FairSpec == Spec /\ Fairness

-----------------------------------------------------------------------------
(* Properties. *)

Accepted == {p \in People : fate[p] = "accepted"}
ToldOf(counter) == {p \in People : told[p][counter] = 1}

TypeOK ==
    /\ row \in Rows
    /\ list \in Audiences
    /\ optedOut \subseteq People
    /\ ledger \in Ledger
    /\ jobs \subseteq People
    /\ fate \in [People -> Send!Fates]
    /\ told \in [People -> [sent: 0..1, refused: 0..1]]
    /\ task \in [Procs -> Tasks]
    /\ edits \in 0..MaxEdits
    /\ crashes \in 0..MaxCrashes

\* An account is never given back more than was taken for the campaign, and
\* only when it is over: settling, cancelling and sweeping race, and each acts
\* on a row it read earlier.
RefundWithinDebit == ledger.refunded <= ledger.debited

RefundOnlyWhenOver ==
    ledger.refunds = 1 => row.status \in {"SENT", "CANCELLED"}

\* Cancelling races the tick's claim; whoever loses does nothing, so nobody is
\* texted, or queued to be, for a campaign shown as cancelled and refunded.
CancelledSendsNothing ==
    row.status = "CANCELLED" => jobs = {} /\ Accepted = {}

\* A campaign that still has something to do is listed in the partition that
\* the tick reads for it, whatever crashed: else it is never looked at again.
NeverOrphaned ==
    /\ row.status = "SCHEDULED" => row.index = "due"
    /\ row.status = "SENDING" => row.index \in {"due", "sending"}
    /\ row.status = "SENT" /\ row.settled = Unset => row.index = "sending"

\* What is over stays over, and what was settled is not settled anew, although
\* late outcomes, sweeps and ticks go on writing to the row.
TerminalIsFinal ==
    [][/\ row.status \in {"SENT", "CANCELLED"} => row'.status = row.status
       /\ row.settled # Unset => row'.settled = row.settled]_vars

\* A scheduled campaign whose whole list was handed to the queue.
FanOutIsThrough ==
    row.claimed # "never" /\ row.index = "sending" /\ row.cursor = 0
        /\ row.status = "SENDING"

\* Everyone is accounted for: when a scheduled fan-out is through, everyone on the
\* list was either queued or counted as refused, once, however often it was taken up
\* again; and where nothing died, a campaign is over only when each job it queued was
\* answered (and no hour passed without progress).
AccountedFor ==
    /\ FanOutIsThrough =>
        row.queued + row.refused - Cardinality(ToldOf("refused")) = row.recipients
    /\ row.status = "SENT" /\ crashes = 0 => \A p \in jobs : told[p] # Send!Untold

\* Where nothing died, every message the provider took is billed, at the quote,
\* and the rest of what was reserved is given back.
BilledAsSent ==
    row.status = "SENT" /\ row.settled # Unset /\ crashes = 0 =>
        LET bill == row.quote * Cardinality(Accepted) IN
        /\ row.settled = bill
        /\ ledger.sends = 1 /\ bill <= row.reserved =>
               ledger.debited - ledger.refunded = bill

\* A campaign under way is settled in the end, even when its workers never
\* report and processes die.
SettlesInTheEnd == row.status = "SENDING" ~> row.settled # Unset

=============================================================================
