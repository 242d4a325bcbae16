------------------------------ MODULE Messaging ------------------------------
(***************************************************************************)
(* The send path of one account: jobs on the `send-jobs` queue, the send   *)
(* workers that dispatch them, the message rows and their recipient        *)
(* markers, the provider, and the delivery events that come back.          *)
(*                                                                         *)
(* A recipient stands for one (campaign, destination) pair, which is what  *)
(* the SENT# marker is keyed by: every job minted for the pair carries a   *)
(* fresh message id, and the transactional put of row and marker leaves    *)
(* exactly one row per pair, so rows are indexed by recipient.             *)
(***************************************************************************)
EXTENDS Integers, FiniteSets

CONSTANTS
    Recipients,     \* (campaign, destination) pairs
    Workers,        \* concurrent send-worker invocations, one record each
    NoJob,          \* what an idle invocation holds
    DailyCap,       \* SendPolicy.daily_cap
    MaxCopies,      \* bound: jobs enqueued for one recipient (batch re-sent)
    MaxReceives,    \* bound: receives of a job before the dead-letter queue
    MaxCrashes,     \* bound: invocations that die
    Overlap         \* TRUE: two invocations may hold one recipient's jobs at
                    \* once (what a standard SQS queue allows)

ASSUME MessagingAssumption ==
    /\ DailyCap \in Nat
    /\ MaxCopies \in Nat \ {0}
    /\ MaxReceives \in Nat \ {0}
    /\ MaxCrashes \in Nat
    /\ Overlap \in BOOLEAN

VARIABLES
    row,        \* message row and SENT# marker, by recipient
    queue,      \* send-jobs: jobs not yet deleted
    receives,   \* how often each job was received
    worker,     \* the dispatch each send-worker invocation is in
    owed,       \* delivery-events invocations between row and counter
    optedOut,   \* recipients on the opt-out list
    capCount,   \* the CAP#account#day counter
    calls,      \* gateway sends attempted, by recipient
    accepted,   \* recipients whose message the provider took
    counts,     \* what was added to the campaign counters, by recipient
    crashes     \* invocations that died so far

vars == <<row, queue, receives, worker, owed, optedOut, capCount, calls,
          accepted, counts, crashes>>

\* Groups of variables for UNCHANGED: the provider's side, and the queue's.
provider == <<calls, accepted>>
sqs == <<queue, receives>>

-----------------------------------------------------------------------------

Jobs == [to: Recipients, copy: 1..MaxCopies]

\* "ABSENT" is the row that no dispatch has put yet.
Statuses == {"ABSENT", "QUEUED", "SENT", "DELIVERED", "FAILED"}

\* attempted: attemptedAt is set; stale: queuedAt is STALE_CLAIM (60 s) old.
Rows == [status: Statuses, attempted: BOOLEAN, stale: BOOLEAN]

NoRow == [status |-> "ABSENT", attempted |-> FALSE, stale |-> FALSE]

Outcomes == {"ACCEPTED", "REFUSED", "DUPLICATE"}

\* DeliveryStatus: the statuses a provider event maps to.
EventStatuses == {"SENT", "DELIVERED", "FAILED"}

Deliveries == [to: Recipients, delivered: BOOLEAN]

\* Where a send-worker invocation is between two awaits of handle_body.
Places == {"idle", "claim", "lookup", "opt_out", "count", "attempt", "send",
           "refuse", "mark_sent", "record", "recorded"}

\* stale is the row's age as of the invocation's own clock, read on receive.
Dispatches ==
    [at: Places, job: Jobs \cup {NoJob}, stale: BOOLEAN, outcome: Outcomes]

Idle == [at |-> "idle", job |-> NoJob, stale |-> FALSE, outcome |-> "DUPLICATE"]

Counters == {"sent", "refused", "delivered", "undelivered"}

Init ==
    /\ row = [r \in Recipients |-> NoRow]
    /\ queue = {}
    /\ receives = [j \in Jobs |-> 0]
    /\ worker = [w \in Workers |-> Idle]
    /\ owed = {}
    /\ optedOut = {}
    /\ capCount = 0
    /\ calls = [r \in Recipients |-> 0]
    /\ accepted = {}
    /\ counts = [r \in Recipients |-> [c \in Counters |-> 0]]
    /\ crashes = 0

Busy(w) == worker[w].at # "idle"
To(w) == worker[w].job.to
At(w, place) == worker[w].at = place

-----------------------------------------------------------------------------
(* The queue. *)

\* A fan-out, or an API send, puts a job on the queue; a fan-out that died
\* before it saved its cursor puts another copy for the same recipient.
Enqueue(j) ==
    /\ j \notin queue
    /\ receives[j] = 0
    /\ queue' = queue \cup {j}
    /\ UNCHANGED <<row, receives, worker, owed, optedOut, capCount,
                   provider, counts, crashes>>

\* one receive too many: a mutant of IsReceivable.
IsReceivableOnceMore(j) == j \in queue /\ receives[j] <= MaxReceives

IsReceivable(j) == j \in queue /\ receives[j] < MaxReceives

\* SQS hands a job to an invocation, which reads its clock before the dispatch.
\* The job stays on the queue until the invocation returns.
Receive(w, j) ==
    /\ ~Busy(w)
    /\ IsReceivable(j)
    /\ Overlap \/ \A v \in Workers : Busy(v) => To(v) # j.to
    /\ receives' = [receives EXCEPT ![j] = @ + 1]
    /\ worker' = [worker EXCEPT ![w] =
                    [at |-> "claim", job |-> j, stale |-> row[j.to].stale,
                     outcome |-> "DUPLICATE"]]
    /\ UNCHANGED <<row, queue, owed, optedOut, capCount, provider, counts,
                   crashes>>

\* The invocation returns and the job is not among its batchItemFailures.
Ack(w) ==
    /\ At(w, "recorded")
    /\ queue' = queue \ {worker[w].job}
    /\ worker' = [worker EXCEPT ![w] = Idle]
    /\ UNCHANGED <<row, receives, owed, optedOut, capCount, provider, counts,
                   crashes>>

\* The redrive policy moves a job received too often to the dead-letter queue.
Redrive(j) ==
    /\ j \in queue
    /\ receives[j] = MaxReceives
    /\ \A w \in Workers : Busy(w) => worker[w].job # j
    /\ queue' = queue \ {j}
    /\ UNCHANGED <<row, receives, worker, owed, optedOut, capCount, provider,
                   counts, crashes>>

\* A send worker dies wherever it is: whatever it had not written is lost, and
\* the job becomes visible again, even when its outcome was already recorded.
Crash(w) ==
    /\ Busy(w)
    /\ crashes < MaxCrashes
    /\ crashes' = crashes + 1
    /\ worker' = [worker EXCEPT ![w] = Idle]
    /\ UNCHANGED <<row, sqs, owed, optedOut, capCount, provider, counts>>

-----------------------------------------------------------------------------
(* MessagingService.dispatch and the worker around it, one await a step. *)

Goto(w, place) == worker' = [worker EXCEPT ![w].at = place]

Answer(w, outcome) ==
    worker' = [worker EXCEPT ![w].at = "record", ![w].outcome = outcome]

Claim(w) ==
    LET r == To(w) IN
    /\ At(w, "claim")
    /\ \/ /\ row[r].status = "ABSENT"
          /\ row' = [row EXCEPT ![r].status = "QUEUED"]
          /\ Goto(w, "opt_out")
       \/ /\ row[r].status # "ABSENT"
          /\ row' = row
          /\ Goto(w, "lookup")
    /\ UNCHANGED <<sqs, owed, optedOut, capCount, provider, counts, crashes>>

\* attempted is not looked at: a mutant of IsStaleClaim.
IsOldClaim(r, late) == row[r].status = "QUEUED" /\ late

IsStaleClaim(r, late) == IsOldClaim(r, late) /\ ~row[r].attempted

\* The claim was lost: find the marker's row, and take it over when stale.
FindClaim(w) ==
    LET retake == IsStaleClaim(To(w), worker[w].stale) IN
    /\ At(w, "lookup")
    /\ IF retake THEN Goto(w, "opt_out") ELSE Answer(w, "DUPLICATE")
    /\ UNCHANGED <<row, sqs, owed, optedOut, capCount, provider, counts,
                   crashes>>

CheckOptOut(w) ==
    /\ At(w, "opt_out")
    /\ Goto(w, IF To(w) \in optedOut THEN "refuse" ELSE "count")
    /\ UNCHANGED <<row, sqs, owed, optedOut, capCount, provider, counts,
                   crashes>>

\* compared before the ADD: a mutant of IsOverDailyCap.
WasOverDailyCap(counted) == counted - 1 > DailyCap

IsOverDailyCap(counted) == counted > DailyCap

\* The counter is ADDed before it is compared, on retries too.
CountSend(w) ==
    /\ At(w, "count")
    /\ capCount' = capCount + 1
    /\ Goto(w, IF IsOverDailyCap(capCount') THEN "refuse" ELSE "attempt")
    /\ UNCHANGED <<row, sqs, owed, optedOut, provider, counts, crashes>>

IfQueued(r) == row[r].status = "QUEUED"
IfUnattempted(r) == row[r].status = "QUEUED" /\ ~row[r].attempted

ClaimAttempt(w) ==
    LET r == To(w) IN
    /\ At(w, "attempt")
    /\ \/ /\ IfUnattempted(r)
          /\ row' = [row EXCEPT ![r].attempted = TRUE]
          /\ Goto(w, "send")
       \/ ~IfUnattempted(r) /\ row' = row /\ Answer(w, "DUPLICATE")
    /\ UNCHANGED <<sqs, owed, optedOut, capCount, provider, counts, crashes>>

\* The gateway call: taken by the provider, turned down (BadRequest,
\* RateLimited), or failed with Upstream, when the provider may have taken it
\* all the same; that error leaves dispatch and the job is retried.
GatewayAccept(w) ==
    /\ At(w, "send")
    /\ calls' = [calls EXCEPT ![To(w)] = @ + 1]
    /\ accepted' = accepted \cup {To(w)}
    /\ Goto(w, "mark_sent")
    /\ UNCHANGED <<row, sqs, owed, optedOut, capCount, counts, crashes>>

GatewayReject(w) ==
    /\ At(w, "send")
    /\ calls' = [calls EXCEPT ![To(w)] = @ + 1]
    /\ Goto(w, "refuse")
    /\ UNCHANGED <<row, sqs, owed, optedOut, capCount, accepted, counts,
                   crashes>>

GatewayFail(w) ==
    /\ At(w, "send")
    /\ crashes < MaxCrashes
    /\ crashes' = crashes + 1
    /\ calls' = [calls EXCEPT ![To(w)] = @ + 1]
    /\ accepted' \in {accepted, accepted \cup {To(w)}}
    /\ worker' = [worker EXCEPT ![w] = Idle]
    /\ UNCHANGED <<row, sqs, owed, optedOut, capCount, counts>>

\* refuse is conditional on QUEUED alone.
Refuse(w) ==
    LET r == To(w) IN
    /\ At(w, "refuse")
    /\ \/ /\ IfQueued(r)
          /\ row' = [row EXCEPT ![r].status = "FAILED"]
          /\ Answer(w, "REFUSED")
       \/ ~IfQueued(r) /\ row' = row /\ Answer(w, "DUPLICATE")
    /\ UNCHANGED <<sqs, owed, optedOut, capCount, provider, counts, crashes>>

\* mark_sent's answer is honoured: a mutant of MarkSentAnswer.
MarkSentHonest(r) == IF IfQueued(r) THEN "ACCEPTED" ELSE "DUPLICATE"

MarkSentAnswer(r) == "ACCEPTED"

\* mark_sent is conditional on QUEUED; a delivery event may have come first,
\* and the dispatch was accepted all the same.
MarkSent(w) ==
    LET r == To(w) IN
    /\ At(w, "mark_sent")
    /\ row' = IF IfQueued(r) THEN [row EXCEPT ![r].status = "SENT"] ELSE row
    /\ Answer(w, MarkSentAnswer(r))
    /\ UNCHANGED <<sqs, owed, optedOut, capCount, provider, counts, crashes>>

CounterOf(outcome) == IF outcome = "ACCEPTED" THEN "sent" ELSE "refused"

IsCounted(outcome) == outcome # "DUPLICATE"

RecordOutcome(w) ==
    /\ At(w, "record")
    /\ counts' = IF IsCounted(worker[w].outcome)
                 THEN [counts EXCEPT ![To(w)][CounterOf(worker[w].outcome)] = @ + 1]
                 ELSE counts
    /\ Goto(w, "recorded")
    /\ UNCHANGED <<row, sqs, owed, optedOut, capCount, provider, crashes>>

-----------------------------------------------------------------------------
(* Delivery events and the world outside. *)

\* IF_NOT_FINAL widened to DELIVERED: a mutant of Predecessors.
PredecessorsWithDelivered(status) ==
    IF status = "SENT" THEN {"QUEUED"} ELSE {"QUEUED", "SENT", "DELIVERED"}

\* The predecessors apply_delivery's condition allows for each new status.
Predecessors(status) ==
    IF status = "SENT" THEN {"QUEUED"} ELSE {"QUEUED", "SENT"}

\* SNS delivers an event of an accepted message: any event, in any order, any
\* number of times, before or after the worker's own mark_sent.  A final status
\* leaves the invocation owing the campaign one count.
ApplyEvent(r, status) ==
    /\ r \in accepted
    /\ row[r].status \in Predecessors(status)
    /\ row' = [row EXCEPT ![r].status = status]
    /\ owed' = IF status = "SENT" THEN owed
               ELSE owed \cup {[to |-> r, delivered |-> status = "DELIVERED"]}
    /\ UNCHANGED <<sqs, worker, optedOut, capCount, provider, counts, crashes>>

RecordDelivery(o) ==
    LET counter == IF o.delivered THEN "delivered" ELSE "undelivered" IN
    /\ o \in owed
    /\ counts' = [counts EXCEPT ![o.to][counter] = @ + 1]
    /\ owed' = owed \ {o}
    /\ UNCHANGED <<row, sqs, worker, optedOut, capCount, provider, crashes>>

\* The invocation dies owing its count; the redelivered event finds the row
\* final, so the count is never made.
HandlerCrash(o) ==
    /\ o \in owed
    /\ crashes < MaxCrashes
    /\ crashes' = crashes + 1
    /\ owed' = owed \ {o}
    /\ UNCHANGED <<row, sqs, worker, optedOut, capCount, provider, counts>>

\* Sixty seconds pass since the row's queuedAt.
Age(r) ==
    /\ row[r].status = "QUEUED"
    /\ ~row[r].stale
    /\ row' = [row EXCEPT ![r].stale = TRUE]
    /\ UNCHANGED <<sqs, worker, owed, optedOut, capCount, provider, counts,
                   crashes>>

\* An inbound STOP or an unsubscribe link puts the recipient on the list.
OptOut(r) ==
    /\ r \notin optedOut
    /\ optedOut' = optedOut \cup {r}
    /\ UNCHANGED <<row, sqs, worker, owed, capCount, provider, counts,
                   crashes>>

-----------------------------------------------------------------------------

Gateway(w) == GatewayAccept(w) \/ GatewayReject(w)

\* What a live invocation does next.
Work(w) ==
    \/ Claim(w) \/ FindClaim(w) \/ CheckOptOut(w) \/ CountSend(w)
    \/ ClaimAttempt(w) \/ Gateway(w) \/ Refuse(w) \/ MarkSent(w)
    \/ RecordOutcome(w) \/ Ack(w)

Next ==
    \/ \E j \in Jobs : Enqueue(j) \/ Redrive(j)
    \/ \E w \in Workers, j \in Jobs : Receive(w, j)
    \/ \E w \in Workers : Work(w) \/ GatewayFail(w) \/ Crash(w)
    \/ \E r \in Recipients, s \in EventStatuses : ApplyEvent(r, s)
    \/ \E o \in Deliveries : RecordDelivery(o) \/ HandlerCrash(o)
    \/ \E r \in Recipients : Age(r) \/ OptOut(r)

Spec == Init /\ [][Next]_vars

\* Lambda keeps polling the queue, and an invocation that does not die finishes.
\* Nothing makes the provider publish an event or a contact opt out.
Fairness ==
    /\ \A w \in Workers : WF_vars(Work(w))
    /\ \A j \in Jobs : WF_vars(\E w \in Workers : Receive(w, j))
    /\ \A j \in Jobs : WF_vars(Redrive(j))
    /\ \A r \in Recipients : WF_vars(Age(r))

FairSpec == Spec /\ Fairness

-----------------------------------------------------------------------------
(* Properties. *)

\* Every invocation that is not idle holds a job.
WorkersOK ==
    /\ worker \in [Workers -> Dispatches]
    /\ \A w \in Workers : Busy(w) => worker[w].job \in Jobs

TypeOK ==
    /\ row \in [Recipients -> Rows]
    /\ queue \subseteq Jobs
    /\ receives \in [Jobs -> 0..MaxReceives]
    /\ WorkersOK
    /\ owed \subseteq Deliveries
    /\ optedOut \subseteq Recipients
    /\ capCount \in Nat
    /\ calls \in [Recipients -> Nat]
    /\ accepted \subseteq Recipients
    /\ counts \in [Recipients -> [Counters -> Nat]]
    /\ crashes \in 0..MaxCrashes

\* The provider is asked at most once for a recipient, whatever is redelivered,
\* re-enqueued, retaken after sixty seconds or run side by side: claim_attempt's
\* fence, not the claim, is what keeps a person from being texted twice.
AttemptedOnce == \A r \in Recipients : calls[r] <= 1

\* No more recipients are sent to in a day than the daily cap, although the
\* counter is shared by concurrent workers and is spent by attempts that die.
CapRespected == Cardinality({r \in Recipients : calls[r] > 0}) <= DailyCap

\* Each message settles into one final delivery, counted once, and only after
\* the provider took it: repeated and contradicting events are absorbed.
DeliveredOnce ==
    \A r \in Recipients :
        /\ counts[r].delivered + counts[r].undelivered <= 1
        /\ counts[r].delivered > 0 => row[r].status = "DELIVERED"
        /\ counts[r].undelivered > 0 => row[r].status = "FAILED" /\ r \in accepted

\* A row never goes back: not from a final status, not to an unclaimed or
\* unattempted one, however late a receipt or a TEXT_SENT event arrives.
Rank == [ABSENT |-> 0, QUEUED |-> 1, SENT |-> 2, DELIVERED |-> 3, FAILED |-> 3]

RowOnlyAdvances ==
    [][\A r \in Recipients :
        /\ row'[r].status # row[r].status => Rank[row'[r].status] > Rank[row[r].status]
        /\ row[r].attempted => row'[r].attempted]_vars

\* Unless an invocation dies, every recipient a job was queued for is counted
\* in the end, as sent or as refused, and the campaign needs no sweep to settle.
EveryJobAnswered ==
    \A j \in Jobs :
        j \in queue ~>
            counts[j.to].sent + counts[j.to].refused > 0 \/ crashes > 0

\* The promise the campaigns rely on, under the mapping of its two variables.
Promise == INSTANCE SendOnce WITH
    fate <- [r \in Recipients |->
                IF r \in accepted THEN "accepted"
                ELSE IF row[r].status = "FAILED" THEN "refused" ELSE "open"],
    told <- [r \in Recipients |->
                [sent |-> counts[r].sent, refused |-> counts[r].refused]]

KeepsPromise == Promise!Spec

=============================================================================
