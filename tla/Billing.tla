------------------------------- MODULE Billing -------------------------------
(***************************************************************************)
(* One account's money: the conditional debit, the automatic recharge it   *)
(* may set off, the card charge behind that, the credits that Stripe's     *)
(* answers and webhooks bring, the low-balance alert, and the save of the  *)
(* contact details, which identity keeps on the same item.                 *)
(*                                                                         *)
(* Every process is one request, webhook or billing-charge invocation; its *)
(* steps are the awaits of the handler.  The rentals of numbers, which     *)
(* debit in the same way, are not part of this module.                     *)
(***************************************************************************)
EXTENDS Integers, FiniteSets

CONSTANTS
    Jobs,           \* recharge jobs, and the PaymentIntents made for them
    Checkouts,      \* top-ups
    Procs,          \* invocations that may run at once
    Prices,         \* what a send may cost
    Trial,          \* TRIAL_CREDIT_MICRO
    Amount,         \* what a recharge or a top-up brings
    LowBalance,     \* lowBalanceThresholdMicro: recharge below it
    AlertBelow,     \* alertThresholdMicro: alert on crossing it
    MaxSends,       \* bound: debits
    MaxHours,       \* bound: hours that pass over a recharge in flight
    MaxMishaps      \* bound: crashes, lost answers, repeated deliveries, and saves of
                    \* the contact details

ASSUME BillingAssumption ==
    /\ IsFiniteSet(Jobs)
    /\ Jobs \cap Checkouts = {}
    /\ Prices \subseteq Nat \ {0}
    /\ {Trial, LowBalance, AlertBelow} \subseteq Nat
    /\ Amount \in Nat \ {0}
    /\ IsFiniteSet(Checkouts)
    /\ MaxSends \in Nat
    /\ MaxHours \in Nat
    /\ MaxMishaps \in Nat
    /\ MaxSends <= Cardinality(Jobs)

VARIABLES
    account,    \* the billing attributes of the account item
    spent,      \* SEND rows less REFUND rows
    job,        \* what became of each recharge job
    queue,      \* jobs that SQS may deliver
    charge,     \* Stripe: what became of each payment
    credited,   \* payments whose EVENT item, and TOPUP row, is written
    task,       \* what each process is doing
    alerts,     \* low-balance alerts sent
    overwritten,\* what saves of the contact details added to the balance
    sends, hours, faults, contactSaves

vars == <<account, spent, job, queue, charge, credited, task, alerts,
          overwritten, sends, hours, faults, contactSaves>>

Payments == Jobs \cup Checkouts

\* Groups of variables for UNCHANGED.
saved == <<overwritten, contactSaves>>
counts == <<sends, hours, saved>>
stripe == <<job, queue, charge, credited>>
world == <<alerts, counts, faults>>

-----------------------------------------------------------------------------

\* inFlight: the age of rechargeInFlight, stale past RECHARGE_IN_FLIGHT_TTL.
Accounts == [balance: Nat, auto: BOOLEAN, inFlight: {"none", "fresh", "stale"},
             alerted: BOOLEAN, toppedUp: BOOLEAN, onTrial: BOOLEAN]

NewAccount == [balance |-> Trial, auto |-> FALSE, inFlight |-> "none",
               alerted |-> FALSE, toppedUp |-> FALSE, onTrial |-> TRUE]

\* "open": enqueued and not answered.
JobStates == {"new", "open", "declined", "abandoned"}

\* "pending": an answer that is not yet a success.
ChargeStates == {"none", "pending", "captured", "declined"}

Places == {"idle", "debit", "recharge", "enqueue", "alert",
           "charge", "decline", "abandon", "credit", "rearm",
           "webhook", "clear", "contacts"}

\* cost: what is debited.  payments: the job or the top-up at hand.  recharge,
\* alert: whether the account as it was read calls for a recharge, and for the
\* alert to be sent or, by a credit, armed again.  balance, toppedUp: what a save
\* of the contact details read.
Tasks == [at: Places, cost: Prices \cup {0}, payments: SUBSET Payments,
          recharge: BOOLEAN, alert: BOOLEAN, balance: Nat, toppedUp: BOOLEAN]

Idle == [at |-> "idle", cost |-> 0, payments |-> {}, recharge |-> FALSE,
         alert |-> FALSE, balance |-> 0, toppedUp |-> FALSE]

Init ==
    /\ account = NewAccount
    /\ spent = 0
    /\ job = [j \in Jobs |-> "new"]
    /\ queue = {}
    /\ charge = [p \in Payments |-> "none"]
    /\ credited = {}
    /\ task = [w \in Procs |-> Idle]
    /\ alerts = 0
    /\ overwritten = 0
    /\ sends = 0
    /\ hours = 0
    /\ faults = 0
    /\ contactSaves = 0

At(w, place) == task[w].at = place
Goto(w, place) == task' = [task EXCEPT ![w].at = place]
Finish(w) == task' = [task EXCEPT ![w] = Idle]

\* The payment a process is about.
Handles(w, p) == task[w].payments = {p}

\* An idle process takes up a handler.
Start(w, doing) == At(w, "idle") /\ task' = [task EXCEPT ![w] = doing]

-----------------------------------------------------------------------------
(* Debits: reserve. *)

CanSend(a) == a.toppedUp \/ a.onTrial

\* balance_after is of the balance that was read, not of the one that the debit
\* leaves, and what follows from it is settled here.
WantsRecharge(a, cost) == a.auto /\ a.balance - cost < LowBalance
CrossesBelow(a, cost) == a.balance >= AlertBelow /\ AlertBelow > a.balance - cost

StartReserve(w, cost) ==
    /\ CanSend(account)
    /\ sends < MaxSends
    /\ sends' = sends + 1
    /\ Start(w, [Idle EXCEPT !.at = "debit", !.cost = cost,
                             !.recharge = WantsRecharge(account, cost),
                             !.alert = CrossesBelow(account, cost)])
    /\ UNCHANGED <<account, spent, stripe, alerts, hours, faults, saved>>

\* a balance that covers a part is enough: a mutant of IsCovered.
IsPartlyCovered(w) == account.balance > 0

\* DEBIT_IF_COVERED, judged on the row as it is.
IsCovered(w) == account.balance >= task[w].cost

Debit(w) ==
    /\ At(w, "debit")
    /\ \/ /\ IsCovered(w)
          /\ account' = [account EXCEPT !.balance = @ - task[w].cost]
          /\ spent' = spent + task[w].cost
          /\ Goto(w, "recharge")
       \/ ~IsCovered(w) /\ UNCHANGED <<account, spent>> /\ Finish(w)
    /\ UNCHANGED <<stripe, world>>

\* a recharge is asked for whatever is in flight: a mutant of NoneInFlight.
AnyInFlight(a) == TRUE

\* IF_NO_RECHARGE_IN_FLIGHT.
NoneInFlight(a) == a.inFlight \in {"none", "stale"}

AskRecharge(w) ==
    /\ At(w, "recharge")
    /\ IF task[w].recharge /\ NoneInFlight(account)
       THEN account' = [account EXCEPT !.inFlight = "fresh"] /\ Goto(w, "enqueue")
       ELSE account' = account /\ Goto(w, "alert")
    /\ UNCHANGED <<spent, stripe, world>>

Enqueue(w) ==
    /\ At(w, "enqueue")
    /\ \E j \in Jobs :
          /\ job[j] = "new"
          /\ job' = [job EXCEPT ![j] = "open"]
          /\ queue' = queue \cup {j}
    /\ Goto(w, "alert")
    /\ UNCHANGED <<account, spent, charge, credited, world>>

\* alerts are sent whoever sent one before: a mutant of NotAlerted.
AlertedAnyway(a) == TRUE

\* IF_NOT_LOW_BALANCE_ALERTED.
NotAlerted(a) == ~a.alerted

Alert(w) ==
    /\ At(w, "alert")
    /\ IF task[w].alert /\ NotAlerted(account)
       THEN account' = [account EXCEPT !.alerted = TRUE] /\ alerts' = alerts + 1
       ELSE UNCHANGED <<account, alerts>>
    /\ Finish(w)
    /\ UNCHANGED <<spent, stripe, counts, faults>>

\* settle gives back a part of what was reserved; it reads no attribute but
\* the balance, and clears none.
Refund(amount) ==
    /\ amount <= spent
    /\ spent' = spent - amount
    /\ account' = [account EXCEPT !.balance = @ + amount]
    /\ UNCHANGED <<stripe, task, world>>

-----------------------------------------------------------------------------
(* billing-charge: one invocation at a time. *)

Charging(w) == task[w].at \in {"charge", "decline", "abandon", "credit", "rearm"}

StartJob(w, j) ==
    /\ j \in queue
    /\ \A v \in Procs : ~Charging(v)
    /\ Start(w, [Idle EXCEPT !.at = IF account.auto THEN "charge" ELSE "abandon",
                             !.payments = {j}])
    /\ UNCHANGED <<account, spent, stripe, world>>

\* The handler returned: SQS deletes the job, or delivers it once more.
Answered(j) ==
    \/ queue' = queue \ {j} /\ faults' = faults
    \/ queue' = queue /\ faults + contactSaves < MaxMishaps /\ faults' = faults + 1

LiftsAlert(a) == a.alerted /\ a.balance + Amount >= AlertBelow

\* What Stripe makes of a request with the job's idempotency key: the first one
\* decides, and a later one is given the first one's answer.
MayBe(j, s) == charge[j] \in {"none", s}

\* SUCCEEDED, DECLINED and PENDING are Stripe's answers; a customer without a
\* card is declined before Stripe is asked, and the account is read again for
\* the write that follows.
Charge(w, j) ==
    /\ At(w, "charge") /\ Handles(w, j)
    /\ \/ /\ charge' = [charge EXCEPT ![j] = "captured"]
          /\ MayBe(j, "captured")
          /\ task' = [task EXCEPT ![w].at = "credit",
                                  ![w].alert = LiftsAlert(account)]
          /\ UNCHANGED <<queue, faults>>
       \/ /\ charge' \in {charge, [charge EXCEPT ![j] = "declined"]}
          /\ charge' # charge => MayBe(j, "declined")
          /\ Goto(w, "decline")
          /\ UNCHANGED <<queue, faults>>
       \/ /\ charge' = IF charge[j] = "none" THEN [charge EXCEPT ![j] = "pending"]
                       ELSE charge
          /\ Answered(j)
          /\ Finish(w)
    /\ UNCHANGED <<account, spent, job, credited, alerts, counts>>

\* ERRORED: Stripe refuses the request itself.
ChargeError(w, j) ==
    /\ At(w, "charge") /\ Handles(w, j)
    /\ Goto(w, "abandon")
    /\ UNCHANGED <<account, spent, stripe, world>>

\* The answer is lost, or is a 5xx, although Stripe took the payment: the job is
\* left in the queue, or abandoned.
ChargeLost(w, j) ==
    /\ At(w, "charge") /\ Handles(w, j)
    /\ faults + contactSaves < MaxMishaps
    /\ faults' = faults + 1
    /\ charge' = [charge EXCEPT ![j] = "captured"]
    /\ MayBe(j, "captured")
    /\ Finish(w) \/ Goto(w, "abandon")
    /\ UNCHANGED <<account, spent, job, queue, credited, alerts, counts>>

\* DECLINE_RECHARGE, once for a job.
Decline(w, j) ==
    /\ At(w, "decline") /\ Handles(w, j)
    /\ IF job[j] # "declined"
       THEN /\ account' = [account EXCEPT !.auto = FALSE, !.inFlight = "none"]
            /\ job' = [job EXCEPT ![j] = "declined"]
       ELSE UNCHANGED <<account, job>>
    /\ Answered(j)
    /\ Finish(w)
    /\ UNCHANGED <<spent, charge, credited, alerts, counts>>

\* clear_recharge_in_flight: whichever job the mark is for.
Abandon(w, j) ==
    /\ At(w, "abandon") /\ Handles(w, j)
    /\ account' = [account EXCEPT !.inFlight = "none"]
    /\ job' = [job EXCEPT ![j] = IF @ = "declined" THEN @ ELSE "abandoned"]
    /\ Answered(j)
    /\ Finish(w)
    /\ UNCHANGED <<spent, charge, credited, alerts, counts>>

-----------------------------------------------------------------------------
(* Credits: billing-charge's own, and the webhook's. *)

\* The event is not looked up: a mutant of IsNew.
IsAnyEvent(p) == TRUE

\* a recharge is credited only while one is in flight: a mutant of IsNew.
IsNewInFlight(p) == p \notin credited /\ account.inFlight # "none"

\* The EVENT item's put-if-absent.  A recharge is fenced on its PaymentIntent,
\* by the charge's answer as by the webhook.
IsNew(p) == p \notin credited

\* the mark is left where it is: a mutant of InFlightAfter.
InFlightStays(p) == account.inFlight

InFlightAfter(p) == IF p \in Jobs THEN "none" ELSE account.inFlight

\* CREDIT_RECHARGE or CREDIT_TOPUP, in a transaction with the ledger row; then
\* the alert is armed again if the account as it was read says so.
CreditAs(w, p, next) ==
    IF IsNew(p)
    THEN /\ account' = [account EXCEPT
                          !.balance = @ + Amount, !.toppedUp = TRUE,
                          !.inFlight = InFlightAfter(p)]
         /\ credited' = credited \cup {p}
         /\ IF task[w].alert THEN Goto(w, next) ELSE Finish(w)
    ELSE UNCHANGED <<account, credited>> /\ Finish(w)

Credit(w, j) ==
    /\ At(w, "credit") /\ Handles(w, j)
    /\ CreditAs(w, j, "rearm")
    /\ IF IsNew(j) /\ task[w].alert THEN UNCHANGED <<queue, faults>> ELSE Answered(j)
    /\ UNCHANGED <<spent, job, charge, alerts, counts>>

Rearm(w, j) ==
    /\ At(w, "rearm") /\ Handles(w, j)
    /\ account' = [account EXCEPT !.alerted = FALSE]
    /\ Answered(j)
    /\ Finish(w)
    /\ UNCHANGED <<spent, job, charge, credited, alerts, counts>>

\* Stripe delivers an event until it is answered 200, and sometimes again.
StartWebhook(w, p) ==
    /\ charge[p] = "captured"
    /\ \A v \in Procs : ~(At(v, "webhook") /\ Handles(v, p))
    /\ \/ p \notin credited /\ faults' = faults
       \/ p \in credited /\ faults + contactSaves < MaxMishaps /\ faults' = faults + 1
    /\ Start(w, [Idle EXCEPT !.at = "webhook", !.payments = {p},
                             !.alert = LiftsAlert(account)])
    /\ UNCHANGED <<account, spent, stripe, alerts, counts>>

Webhook(w, p) ==
    /\ At(w, "webhook") /\ Handles(w, p)
    /\ CreditAs(w, p, "clear")
    /\ UNCHANGED <<spent, job, queue, charge, world>>

ClearAlert(w) ==
    /\ At(w, "clear")
    /\ account' = [account EXCEPT !.alerted = FALSE]
    /\ Finish(w)
    /\ UNCHANGED <<spent, stripe, world>>

-----------------------------------------------------------------------------
(* The customer, Stripe, time and crashes. *)

\* update_general writes the toggle as it was asked for, or as it was read.
SaveSettings ==
    /\ account' = [account EXCEPT !.auto = ~@]
    /\ UNCHANGED <<spent, stripe, task, world>>

\* update_general with a name, an email or a mobile: update_contact_details reads
\* the item as identity's Account ...
StartSaveContacts(w) ==
    /\ faults + contactSaves < MaxMishaps
    /\ contactSaves' = contactSaves + 1
    /\ Start(w, [Idle EXCEPT !.at = "contacts", !.balance = account.balance,
                             !.toppedUp = account.toppedUp])
    /\ UNCHANGED <<account, spent, stripe, alerts, overwritten, sends, hours, faults>>

\* ... an Account carries the balance and hasToppedUp as they were read, and none
\* of the attributes that billing alone knows: without them the item means no
\* trial, no recharge and no alert.
AsIdentityHasIt(doing) ==
    [balance |-> doing.balance, auto |-> FALSE, inFlight |-> "none",
     alerted |-> FALSE, toppedUp |-> doing.toppedUp, onTrial |-> FALSE]

\* ... and save_account puts that in the place of the whole item.
SaveContacts(w) ==
    /\ At(w, "contacts")
    /\ account' = AsIdentityHasIt(task[w])
    /\ overwritten' = overwritten + account'.balance - account.balance
    /\ Finish(w)
    /\ UNCHANGED <<spent, stripe, alerts, sends, hours, faults, contactSaves>>

\* A checkout is paid, or a pending payment is decided; a failure of the latter
\* is an event that the webhook ignores.
Pay(p) ==
    /\ \/ p \in Checkouts /\ charge[p] = "none"
       \/ charge[p] = "pending"
    /\ charge' \in {[charge EXCEPT ![p] = s] : s \in {"captured", "declined"}}
    /\ UNCHANGED <<account, spent, job, queue, credited, task, world>>

TrialEnds ==
    /\ account.onTrial
    /\ account' = [account EXCEPT !.onTrial = FALSE]
    /\ UNCHANGED <<spent, stripe, task, world>>

\* No invocation lives that long.
AnHourPasses ==
    /\ hours < MaxHours
    /\ \A w \in Procs : At(w, "idle")
    /\ account.inFlight = "fresh"
    /\ hours' = hours + 1
    /\ account' = [account EXCEPT !.inFlight = "stale"]
    /\ UNCHANGED <<spent, stripe, task, alerts, sends, faults, saved>>

Crash(w) ==
    /\ ~At(w, "idle")
    /\ faults + contactSaves < MaxMishaps
    /\ faults' = faults + 1
    /\ Finish(w)
    /\ UNCHANGED <<account, spent, stripe, alerts, counts>>

-----------------------------------------------------------------------------

Work(w) ==
    \/ Debit(w) \/ AskRecharge(w) \/ Enqueue(w) \/ Alert(w) \/ ClearAlert(w)
    \/ SaveContacts(w)
    \/ \E j \in Jobs :
          Charge(w, j) \/ ChargeError(w, j) \/ Decline(w, j) \/ Abandon(w, j)
              \/ Credit(w, j) \/ Rearm(w, j)
    \/ \E p \in Payments : Webhook(w, p)

Next ==
    \/ \E w \in Procs, cost \in Prices : StartReserve(w, cost)
    \/ \E amount \in Prices : Refund(amount)
    \/ \E w \in Procs, j \in Jobs : StartJob(w, j) \/ ChargeLost(w, j)
    \/ \E w \in Procs, p \in Payments : StartWebhook(w, p)
    \/ \E p \in Payments : Pay(p)
    \/ \E w \in Procs : StartSaveContacts(w) \/ Work(w) \/ Crash(w)
    \/ SaveSettings \/ TrialEnds \/ AnHourPasses

Spec == Init /\ [][Next]_vars

\* Lambda finishes what does not die, and Stripe delivers the event of a payment
\* until it is answered.  Nothing makes a request, a job or an hour come.
Fairness ==
    /\ \A w \in Procs : WF_vars(Work(w))
    /\ \A p \in Payments : SF_vars(p \notin credited /\ \E w \in Procs : StartWebhook(w, p))

FairSpec == Spec /\ Fairness

-----------------------------------------------------------------------------
(* Properties. *)

\* No debit, however many run at once, takes the balance below zero.
TypeOK ==
    /\ account \in Accounts
    /\ spent \in Nat
    /\ job \in [Jobs -> JobStates]
    /\ queue \subseteq Jobs
    /\ charge \in [Payments -> ChargeStates]
    /\ credited \subseteq Payments
    /\ task \in [Procs -> Tasks]
    /\ alerts \in Nat
    /\ overwritten \in Int
    /\ sends \in 0..MaxSends
    /\ hours \in 0..MaxHours
    /\ faults \in 0..MaxMishaps
    /\ contactSaves \in 0..MaxMishaps

\* Every payment is credited once, whichever of the charge's answer, the webhook
\* and their repetitions comes first, and nothing else changes the balance but a
\* save of the contact details, by what it writes over.
BalanceAddsUp ==
    account.balance + spent = Trial + Amount * Cardinality(credited) + overwritten

\* "balanceMicro: changed only by billing.service" (specs/01): the balance is what
\* billing's ledger adds up to.  The save of the contact details refutes it.
BalanceIsTheLedgers == account.balance + spent = Trial + Amount * Cardinality(credited)

Open == {j \in Jobs : job[j] = "open" /\ j \notin credited}

\* The mark of a recharge in flight stands for one and only one: two debits at once
\* ask for one recharge, a second is asked for only when the first is answered, and
\* no answer leaves the mark behind to hold up the next.  So it is unless something
\* died, was lost or came twice; and an hour, or a save of the contact details, may
\* take the mark away and let a second recharge begin.
InFlightMeansOne ==
    faults = 0 =>
        /\ account.inFlight # "none" => Open # {} \/ \E w \in Procs : At(w, "enqueue")
        /\ hours = 0 /\ contactSaves = 0 => Cardinality(Open) <= 1

\* Debits that race over the threshold, each on a balance it read earlier, send
\* one alert between two payments; only a save of the contact details, which
\* erases lowBalanceAlertedAt, brings another.
AlertedOnce == alerts <= 1 + Cardinality(credited) + contactSaves

\* What Stripe took is credited in the end, even when billing-charge died, gave
\* the job up or was never answered.
EveryChargeCredited ==
    \A p \in Payments : charge[p] = "captured" ~> p \in credited

=============================================================================
