---------------------------- MODULE BillingProofs ----------------------------
(***************************************************************************)
(* Theorems about Billing, for any jobs, top-ups, prices, processes and    *)
(* bounds: the balance is never negative, and it is the trial credit and   *)
(* each credited payment, once, less what was spent, but for what saves of *)
(* the contact details wrote over it; a payment raises one low-balance     *)
(* alert, one recharge is on its way while the mark is set, and what a     *)
(* customer is told has failed was not charged.                            *)
(***************************************************************************)
EXTENDS Billing, FiniteSetTheorems, TLAPS

LEMMA InitType == Init => TypeOK
  BY BillingAssumption
     DEF Init, TypeOK, NewAccount, Accounts, JobStates, ChargeStates, Tasks, Idle,
         Places

LEMMA IdleType == Idle \in Tasks
  BY DEF Idle, Tasks, Places

LEMMA GotoType ==
    ASSUME task \in [Procs -> Tasks], NEW w \in Procs, NEW p \in Places, Goto(w, p)
    PROVE  task' \in [Procs -> Tasks]
  BY DEF Goto, Tasks

LEMMA FinishType ==
    ASSUME task \in [Procs -> Tasks], NEW w \in Procs, Finish(w)
    PROVE  task' \in [Procs -> Tasks]
  BY IdleType DEF Finish

\* Counters stay within their bounds.
LEMMA Counted ==
    ASSUME NEW n \in Nat, NEW c \in 0..n, c < n PROVE c + 1 \in 0..n
  OBVIOUS

LEMMA AnsweredType ==
    ASSUME TypeOK, NEW j \in Jobs, Answered(j)
    PROVE  queue' \subseteq Jobs /\ faults' \in 0..MaxMishaps
  BY Counted, BillingAssumption DEF TypeOK, Answered

\* What a credit does to the account, the fence and the process.
LEMMA CreditType ==
    ASSUME TypeOK, NEW w \in Procs, NEW p \in Payments, NEW next \in Places,
           CreditAs(w, p, next)
    PROVE  /\ account' \in Accounts
           /\ credited' \subseteq Payments
           /\ task' \in [Procs -> Tasks]
<1> DEFINE sum == account.balance + Amount
           mark == InFlightAfter(p)
<1>0. sum \in Nat /\ mark \in {"none", "fresh", "stale"}
  BY BillingAssumption DEF TypeOK, Accounts, InFlightAfter
<1>1. CASE IsNew(p)
  <2>1. account' = [account EXCEPT !.balance = sum, !.toppedUp = TRUE,
                                   !.inFlight = mark]
    BY <1>1 DEF CreditAs
  <2> HIDE DEF sum, mark
  <2>2. account' \in Accounts
    BY <1>0, <2>1 DEF TypeOK, Accounts
  <2>3. task' \in [Procs -> Tasks]
    BY <1>0, <1>1, GotoType, FinishType DEF CreditAs, TypeOK
  <2>4. QED
    BY <1>1, <2>2, <2>3 DEF CreditAs, TypeOK
<1>2. CASE ~IsNew(p)
  BY <1>2, FinishType DEF CreditAs, TypeOK
<1>3. QED
  BY <1>1, <1>2

-----------------------------------------------------------------------------
(* Types. *)

\* The debit and what follows it.
LEMMA DebitsType ==
    ASSUME TypeOK, NEW w \in Procs,
           \/ \E cost \in Prices : StartReserve(w, cost)
           \/ Debit(w) \/ AskRecharge(w) \/ Enqueue(w) \/ Alert(w) \/ ClearAlert(w)
    PROVE  TypeOK'
<1> USE DEF TypeOK, stripe, world, counts, saved
<1>1. {"debit", "recharge", "enqueue", "alert"} \subseteq Places
  BY DEF Places
<1>2. ASSUME NEW cost \in Prices, StartReserve(w, cost) PROVE TypeOK'
  <2> DEFINE recharge == WantsRecharge(account, cost)
             alert == CrossesBelow(account, cost)
             doing == [Idle EXCEPT !.at = "debit", !.cost = cost,
                                   !.recharge = recharge, !.alert = alert]
  <2>1. recharge \in BOOLEAN /\ alert \in BOOLEAN
    BY DEF WantsRecharge, CrossesBelow, Accounts
  <2>2. task' = [task EXCEPT ![w] = doing]
    BY <1>2 DEF StartReserve, Start
  <2> HIDE DEF recharge, alert
  <2>3. doing \in Tasks
    BY <1>1, <2>1, IdleType DEF Tasks
  <2>4. task' \in [Procs -> Tasks]
    BY <2>2, <2>3
  <2> HIDE DEF doing
  <2>5. sends' \in 0..MaxSends
    <3>1. sends < MaxSends /\ sends' = sends + 1
      BY <1>2 DEF StartReserve
    <3>2. QED
      BY <3>1, Counted, BillingAssumption
  <2>6. UNCHANGED <<account, spent, stripe, alerts, hours, faults, saved>>
    BY <1>2 DEF StartReserve
  <2>7. account' \in Accounts /\ spent' \in Nat
    BY <2>6
  <2>8. /\ job' \in [Jobs -> JobStates] /\ queue' \subseteq Jobs
        /\ charge' \in [Payments -> ChargeStates] /\ credited' \subseteq Payments
    BY <2>6
  <2>9. /\ alerts' \in Nat /\ hours' \in 0..MaxHours /\ faults' \in 0..MaxMishaps
        /\ overwritten' \in Int /\ contactSaves' \in 0..MaxMishaps
    BY <2>6
  <2>10. QED
    BY <2>4, <2>5, <2>7, <2>8, <2>9
<1>3. CASE Debit(w)
  <2> DEFINE cost == task[w].cost
             left == account.balance - cost
  <2>1. cost \in Nat /\ account.balance \in Nat
    <3>1. task[w] \in Tasks
      OBVIOUS
    <3>2. cost \in Prices \cup {0}
      BY <3>1 DEF Tasks
    <3>3. Prices \cup {0} \subseteq Nat
      BY BillingAssumption
    <3>4. account.balance \in Nat
      BY DEF Accounts
    <3>5. QED
      BY <3>2, <3>3, <3>4
  <2>2. task' \in [Procs -> Tasks]
    BY <1>1, <1>3, GotoType, FinishType DEF Debit
  <2>3. CASE IsCovered(w)
    <3>1. left \in Nat /\ spent' = spent + cost
      BY <1>3, <2>1, <2>3 DEF Debit, IsCovered
    <3>2. account' = [account EXCEPT !.balance = left]
      BY <1>3, <2>3 DEF Debit
    <3>3. spent' \in Nat
      BY <2>1, <3>1
    <3> HIDE DEF left
    <3>4. account' \in Accounts
      BY <3>1, <3>2 DEF Accounts
    <3>5. QED
      BY <1>3, <2>2, <3>3, <3>4 DEF Debit
  <2>4. CASE ~IsCovered(w)
    BY <1>3, <2>2, <2>4 DEF Debit
  <2>5. QED
    BY <2>3, <2>4
<1>4. CASE AskRecharge(w)
  <2>1. account' \in Accounts
    BY <1>4 DEF AskRecharge, Accounts
  <2>2. task' \in [Procs -> Tasks]
    BY <1>1, <1>4, GotoType DEF AskRecharge
  <2>3. QED
    BY <1>4, <2>1, <2>2 DEF AskRecharge
<1>5. CASE Enqueue(w)
  <2>1. job' \in [Jobs -> JobStates] /\ queue' \subseteq Jobs
    BY <1>5 DEF Enqueue, JobStates
  <2>2. task' \in [Procs -> Tasks]
    BY <1>1, <1>5, GotoType DEF Enqueue
  <2>3. QED
    BY <1>5, <2>1, <2>2 DEF Enqueue
<1>6. CASE Alert(w)
  <2>1. account' \in Accounts
    BY <1>6 DEF Alert, Accounts
  <2>2. task' \in [Procs -> Tasks] /\ alerts' \in Nat
    BY <1>6, FinishType DEF Alert
  <2>3. QED
    BY <1>6, <2>1, <2>2 DEF Alert
<1>7. CASE ClearAlert(w)
  <2>1. account' \in Accounts
    BY <1>7 DEF ClearAlert, Accounts
  <2>2. task' \in [Procs -> Tasks]
    BY <1>7, FinishType DEF ClearAlert
  <2>3. QED
    BY <1>7, <2>1, <2>2 DEF ClearAlert
<1>8. QED
  BY <1>2, <1>3, <1>4, <1>5, <1>6, <1>7

\* billing-charge.
LEMMA ChargesType ==
    ASSUME TypeOK, NEW w \in Procs, NEW j \in Jobs,
           \/ StartJob(w, j) \/ Charge(w, j) \/ ChargeError(w, j) \/ ChargeLost(w, j)
           \/ Decline(w, j) \/ Abandon(w, j) \/ Credit(w, j) \/ Rearm(w, j)
    PROVE  TypeOK'
<1> USE DEF TypeOK, stripe, world, counts, saved
<1>1. /\ {"charge", "abandon", "credit", "decline", "rearm"} \subseteq Places
      /\ {"pending", "captured", "declined"} \subseteq ChargeStates
      /\ {"declined", "abandoned"} \subseteq JobStates
      /\ j \in Payments
  BY DEF Places, ChargeStates, JobStates, Payments
<1>2. CASE StartJob(w, j)
  <2>1. task' \in [Procs -> Tasks]
    BY <1>1, <1>2, IdleType DEF StartJob, Start, Tasks
  <2>2. QED
    BY <1>2, <2>1 DEF StartJob
<1>3. CASE Charge(w, j)
  <2>1. charge' \in [Payments -> ChargeStates]
    BY <1>1, <1>3 DEF Charge
  <2>2. queue' \subseteq Jobs /\ faults' \in 0..MaxMishaps
    BY <1>3, AnsweredType DEF Charge
  <2>3. LiftsAlert(account) \in BOOLEAN
    BY DEF LiftsAlert, Accounts
  <2>4. task' \in [Procs -> Tasks]
    <3>1. CASE task' = [task EXCEPT ![w].at = "credit", ![w].alert = LiftsAlert(account)]
      BY <1>1, <2>3, <3>1, ZenonT(40) DEF Tasks
    <3>2. QED
      BY <1>1, <1>3, <3>1, GotoType, FinishType DEF Charge
  <2>5. QED
    BY <1>3, <2>1, <2>2, <2>4 DEF Charge
<1>4. CASE ChargeError(w, j)
  <2>1. task' \in [Procs -> Tasks]
    BY <1>1, <1>4, GotoType DEF ChargeError
  <2>2. QED
    BY <1>4, <2>1 DEF ChargeError
<1>5. CASE ChargeLost(w, j)
  <2>1. task' \in [Procs -> Tasks]
    BY <1>1, <1>5, GotoType, FinishType DEF ChargeLost
  <2>2. faults' \in 0..MaxMishaps
    BY <1>5, Counted, BillingAssumption DEF ChargeLost
  <2>3. charge' \in [Payments -> ChargeStates]
    BY <1>1, <1>5 DEF ChargeLost
  <2>4. QED
    BY <1>5, <2>1, <2>2, <2>3 DEF ChargeLost
<1>6. CASE Decline(w, j)
  <2>1. account' \in Accounts /\ job' \in [Jobs -> JobStates]
    BY <1>1, <1>6, ZenonT(40) DEF Decline, Accounts
  <2>2. task' \in [Procs -> Tasks] /\ queue' \subseteq Jobs /\ faults' \in 0..MaxMishaps
    BY <1>6, FinishType, AnsweredType DEF Decline
  <2>3. QED
    BY <1>6, <2>1, <2>2 DEF Decline
<1>7. CASE Abandon(w, j)
  <2>1. account' \in Accounts /\ job' \in [Jobs -> JobStates]
    BY <1>1, <1>7 DEF Abandon, Accounts
  <2>2. task' \in [Procs -> Tasks] /\ queue' \subseteq Jobs /\ faults' \in 0..MaxMishaps
    BY <1>7, FinishType, AnsweredType DEF Abandon
  <2>3. QED
    BY <1>7, <2>1, <2>2 DEF Abandon
<1>8. CASE Credit(w, j)
  <2>1. queue' \subseteq Jobs /\ faults' \in 0..MaxMishaps
    BY <1>8, AnsweredType DEF Credit
  <2>2. /\ account' \in Accounts /\ credited' \subseteq Payments
        /\ task' \in [Procs -> Tasks]
    BY <1>1, <1>8, CreditType DEF Credit
  <2>3. QED
    BY <1>8, <2>1, <2>2 DEF Credit
<1>9. CASE Rearm(w, j)
  <2>1. account' \in Accounts
    BY <1>9 DEF Rearm, Accounts
  <2>2. task' \in [Procs -> Tasks] /\ queue' \subseteq Jobs /\ faults' \in 0..MaxMishaps
    BY <1>9, FinishType, AnsweredType DEF Rearm
  <2>3. QED
    BY <1>9, <2>1, <2>2 DEF Rearm
<1>10. QED
  BY <1>2, <1>3, <1>4, <1>5, <1>6, <1>7, <1>8, <1>9

\* The webhook.
LEMMA WebhooksType ==
    ASSUME TypeOK, NEW w \in Procs, NEW p \in Payments,
           StartWebhook(w, p) \/ Webhook(w, p)
    PROVE  TypeOK'
<1> USE DEF TypeOK, stripe, world, counts, saved
<1>1. CASE StartWebhook(w, p)
  <2> DEFINE alert == LiftsAlert(account)
             doing == [Idle EXCEPT !.at = "webhook", !.payments = {p}, !.alert = alert]
  <2>1. alert \in BOOLEAN /\ "webhook" \in Places
    BY DEF LiftsAlert, Accounts, Places
  <2>2. task' = [task EXCEPT ![w] = doing]
    BY <1>1 DEF StartWebhook, Start
  <2> HIDE DEF alert
  <2>3. doing \in Tasks
    BY <2>1, IdleType DEF Tasks
  <2>4. faults' \in 0..MaxMishaps
    BY <1>1, Counted, BillingAssumption DEF StartWebhook
  <2>5. QED
    BY <1>1, <2>2, <2>3, <2>4 DEF StartWebhook
<1>2. CASE Webhook(w, p)
  <2>1. "clear" \in Places
    BY DEF Places
  <2>2. QED
    BY <1>2, <2>1, CreditType DEF Webhook
<1>3. QED
  BY <1>1, <1>2

\* The save of the contact details.
LEMMA ContactsType ==
    ASSUME TypeOK, NEW w \in Procs, StartSaveContacts(w) \/ SaveContacts(w)
    PROVE  TypeOK'
<1> USE DEF TypeOK, stripe, world, counts, saved
<1>1. account.balance \in Nat /\ account.toppedUp \in BOOLEAN
  BY DEF Accounts
<1>2. CASE StartSaveContacts(w)
  <2> DEFINE balance == account.balance
             toppedUp == account.toppedUp
             doing == [Idle EXCEPT !.at = "contacts", !.balance = balance,
                                   !.toppedUp = toppedUp]
  <2>1. task' = [task EXCEPT ![w] = doing]
    BY <1>2 DEF StartSaveContacts, Start
  <2>2. balance \in Nat /\ toppedUp \in BOOLEAN /\ "contacts" \in Places
    BY <1>1 DEF Places
  <2> HIDE DEF balance, toppedUp
  <2>3. doing \in Tasks
    BY <2>2, IdleType DEF Tasks
  <2>4. contactSaves' \in 0..MaxMishaps
    BY <1>2, Counted, BillingAssumption DEF StartSaveContacts
  <2>5. QED
    BY <1>2, <2>1, <2>3, <2>4 DEF StartSaveContacts
<1>3. CASE SaveContacts(w)
  <2>1. task[w].balance \in Nat /\ task[w].toppedUp \in BOOLEAN
    BY DEF Tasks
  <2>2. account' \in Accounts /\ account'.balance \in Nat
    BY <1>3, <2>1 DEF SaveContacts, AsIdentityHasIt, Accounts
  <2>3. overwritten' \in Int
    BY <1>1, <1>3, <2>2 DEF SaveContacts
  <2>4. task' \in [Procs -> Tasks]
    BY <1>3, FinishType DEF SaveContacts
  <2>5. QED
    BY <1>3, <2>2, <2>3, <2>4 DEF SaveContacts
<1>4. QED
  BY <1>2, <1>3

LEMMA OthersType ==
    ASSUME TypeOK,
           \/ \E amount \in Prices : Refund(amount)
           \/ \E p \in Payments : Pay(p)
           \/ \E w \in Procs : Crash(w)
           \/ SaveSettings \/ TrialEnds \/ AnHourPasses
    PROVE  TypeOK'
<1> USE DEF TypeOK, stripe, world, counts, saved
<1>1. ASSUME NEW amount \in Prices, Refund(amount) PROVE TypeOK'
  <2> DEFINE sum == account.balance + amount
  <2>1. sum \in Nat /\ spent - amount \in Nat
    BY <1>1, BillingAssumption DEF Refund, Accounts
  <2>2. account' = [account EXCEPT !.balance = sum]
    BY <1>1 DEF Refund
  <2> HIDE DEF sum
  <2>3. account' \in Accounts
    BY <2>1, <2>2 DEF Accounts
  <2>4. QED
    BY <1>1, <2>1, <2>3 DEF Refund
<1>2. ASSUME NEW p \in Payments, Pay(p) PROVE TypeOK'
  BY <1>2 DEF Pay, ChargeStates
<1>3. ASSUME NEW w \in Procs, Crash(w) PROVE TypeOK'
  <2>1. task' \in [Procs -> Tasks] /\ faults' \in 0..MaxMishaps
    BY <1>3, FinishType, Counted, BillingAssumption DEF Crash
  <2>2. QED
    BY <1>3, <2>1 DEF Crash
<1>4. CASE SaveSettings
  BY <1>4 DEF SaveSettings, Accounts
<1>5. CASE TrialEnds
  BY <1>5 DEF TrialEnds, Accounts
<1>6. CASE AnHourPasses
  <2>1. hours' \in 0..MaxHours
    BY <1>6, Counted, BillingAssumption DEF AnHourPasses
  <2>2. account' \in Accounts
    BY <1>6 DEF AnHourPasses, Accounts
  <2>3. QED
    BY <1>6, <2>1, <2>2 DEF AnHourPasses
<1>7. QED
  BY <1>1, <1>2, <1>3, <1>4, <1>5, <1>6

LEMMA NextType == TypeOK /\ [Next]_vars => TypeOK'
<1> SUFFICES ASSUME TypeOK, [Next]_vars PROVE TypeOK'
  OBVIOUS
<1>1. CASE Next
  BY <1>1, DebitsType, ChargesType, WebhooksType, ContactsType, OthersType
     DEF Next, Work
<1>2. CASE UNCHANGED vars
  BY <1>2 DEF vars, TypeOK
<1>3. QED
  BY <1>1, <1>2

\* Every reachable state is well typed; in particular DEBIT_IF_COVERED keeps the
\* balance from going below zero, whatever balance each request had read.
THEOREM TypeCorrect == Spec => []TypeOK
  BY InitType, NextType, PTL DEF Spec

-----------------------------------------------------------------------------
(* The balance. *)

\* The two ways in which both sides of the sum change by as much.
LEMMA SumShifts ==
    ASSUME NEW b \in Int, NEW s \in Int, NEW trial \in Int, NEW paid \in Int,
           NEW o \in Int, b + s = trial + paid + o, NEW d \in Int
    PROVE  b + d + s = trial + (paid + d) + o /\ b + d + s = trial + paid + (o + d)
  OBVIOUS

\* A payment is credited with the amount it adds, once.
LEMMA CreditAdds ==
    ASSUME TypeOK, BalanceAddsUp, NEW w \in Procs, NEW p \in Payments, NEW next,
           CreditAs(w, p, next), IsFiniteSet(credited)
    PROVE  /\ account'.balance + spent
                = Trial + Amount * Cardinality(credited') + overwritten
           /\ IsFiniteSet(credited')
<1>1. /\ account \in Accounts /\ account.balance \in Nat /\ spent \in Nat
      /\ Trial \in Nat /\ Amount \in Nat /\ overwritten \in Int
  BY BillingAssumption DEF TypeOK, Accounts
<1>2. CASE IsNew(p)
  <2> DEFINE sum == account.balance + Amount
             n == Cardinality(credited)
  <2>1. account'.balance = sum /\ credited' = credited \cup {p} /\ p \notin credited
    <3>1. account' = [account EXCEPT !.balance = sum, !.toppedUp = TRUE,
                                     !.inFlight = InFlightAfter(p)]
      BY <1>2 DEF CreditAs
    <3>2. QED
      BY <1>1, <1>2, <3>1 DEF CreditAs, IsNew, Accounts
  <2>2. n \in Nat /\ IsFiniteSet(credited') /\ Cardinality(credited') = n + 1
    BY <2>1, FS_AddElement, FS_CardinalityType
  <2>3. account.balance + spent = Trial + Amount * n + overwritten
    BY DEF BalanceAddsUp
  <2> HIDE DEF n
  <2>4. Amount * (n + 1) = Amount * n + Amount /\ Amount * n \in Int
    BY <1>1, <2>2
  <2>5. account.balance + Amount + spent
            = Trial + (Amount * n + Amount) + overwritten
    BY <1>1, <2>3, <2>4, SumShifts
  <2>6. QED
    BY <2>1, <2>2, <2>4, <2>5
<1>3. CASE ~IsNew(p)
  BY <1>3 DEF CreditAs, BalanceAddsUp
<1>4. QED
  BY <1>2, <1>3

LEMMA NextBalance ==
    ASSUME TypeOK, BalanceAddsUp, IsFiniteSet(credited), [Next]_vars
    PROVE  BalanceAddsUp' /\ IsFiniteSet(credited)'
<1> USE DEF stripe, world, counts, saved
<1>1. /\ account \in Accounts /\ account.balance \in Nat /\ spent \in Nat
      /\ overwritten \in Int
  BY DEF TypeOK, Accounts
<1>2. ASSUME account'.balance + spent' = account.balance + spent,
             overwritten' = overwritten, credited' = credited
      PROVE  BalanceAddsUp' /\ IsFiniteSet(credited)'
  BY <1>2 DEF BalanceAddsUp
<1>3. ASSUME account'.balance = account.balance, spent' = spent,
             overwritten' = overwritten, credited' = credited
      PROVE  BalanceAddsUp' /\ IsFiniteSet(credited)'
  BY <1>2, <1>3
<1>4. ASSUME NEW w \in Procs, Debit(w)
      PROVE  BalanceAddsUp' /\ IsFiniteSet(credited)'
  <2> DEFINE cost == task[w].cost
             left == account.balance - cost
  <2>1. cost \in Nat /\ credited' = credited /\ overwritten' = overwritten
    BY <1>4, BillingAssumption DEF Debit, TypeOK, Tasks
  <2>2. CASE IsCovered(w)
    <3>1. account' = [account EXCEPT !.balance = left] /\ spent' = spent + cost
      BY <1>4, <2>2 DEF Debit
    <3>2. account'.balance = left
      BY <1>1, <3>1 DEF Accounts
    <3>3. account'.balance + spent' = account.balance + spent
      BY <1>1, <2>1, <3>1, <3>2
    <3>4. QED
      BY <1>2, <2>1, <3>3
  <2>3. CASE ~IsCovered(w)
    BY <1>3, <1>4, <2>3 DEF Debit
  <2>4. QED
    BY <2>2, <2>3
<1>5. ASSUME NEW amount \in Prices, Refund(amount)
      PROVE  BalanceAddsUp' /\ IsFiniteSet(credited)'
  <2> DEFINE sum == account.balance + amount
  <2>1. account' = [account EXCEPT !.balance = sum] /\ spent' = spent - amount
        /\ credited' = credited /\ overwritten' = overwritten
    BY <1>5 DEF Refund
  <2>2. account'.balance = sum /\ amount \in Nat
    BY <1>1, <2>1, BillingAssumption DEF Accounts
  <2>3. account'.balance + spent' = account.balance + spent
    BY <1>1, <2>1, <2>2
  <2>4. QED
    BY <1>2, <2>1, <2>3
<1>6. ASSUME NEW w \in Procs, NEW j \in Jobs, Credit(w, j)
      PROVE  BalanceAddsUp' /\ IsFiniteSet(credited)'
  <2>1. j \in Payments /\ spent' = spent /\ overwritten' = overwritten
        /\ CreditAs(w, j, "rearm")
    BY <1>6 DEF Credit, Payments
  <2>2. QED
    BY <2>1, CreditAdds DEF BalanceAddsUp
<1>7. ASSUME NEW w \in Procs, NEW p \in Payments, Webhook(w, p)
      PROVE  BalanceAddsUp' /\ IsFiniteSet(credited)'
  <2>1. spent' = spent /\ overwritten' = overwritten /\ CreditAs(w, p, "clear")
    BY <1>7 DEF Webhook
  <2>2. QED
    BY <2>1, CreditAdds DEF BalanceAddsUp
<1>12. ASSUME NEW w \in Procs, SaveContacts(w)
      PROVE  BalanceAddsUp' /\ IsFiniteSet(credited)'
  <2> DEFINE read == account'.balance
             total == Amount * Cardinality(credited)
  <2>1. /\ read \in Nat /\ overwritten' = overwritten + read - account.balance
        /\ spent' = spent /\ credited' = credited
    <3>1. task[w].balance \in Nat
      BY DEF TypeOK, Tasks
    <3>2. QED
      BY <1>12, <3>1 DEF SaveContacts, AsIdentityHasIt
  <2>2. total \in Int /\ Trial \in Int
    BY FS_CardinalityType, BillingAssumption
  <2>3. account.balance + spent = Trial + total + overwritten
    BY DEF BalanceAddsUp
  <2>4. read + spent = Trial + total + overwritten'
    <3> DEFINE d == read - account.balance
    <3>1. d \in Int /\ account.balance + d = read /\ overwritten' = overwritten + d
      BY <1>1, <2>1
    <3> HIDE DEF d, total
    <3>2. QED
      BY <1>1, <2>2, <2>3, <3>1, SumShifts
  <2>5. QED
    BY <2>1, <2>4 DEF BalanceAddsUp
\* Every other step leaves the balance, the spending and the credits alone.
<1>8. ASSUME NEW w \in Procs,
             \/ \E cost \in Prices : StartReserve(w, cost)
             \/ AskRecharge(w) \/ Enqueue(w) \/ Alert(w) \/ ClearAlert(w) \/ Crash(w)
             \/ StartSaveContacts(w)
      PROVE  BalanceAddsUp' /\ IsFiniteSet(credited)'
  BY <1>1, <1>3, <1>8
     DEF StartReserve, AskRecharge, Enqueue, Alert, ClearAlert, Crash,
         StartSaveContacts, Accounts
<1>9. ASSUME NEW w \in Procs, NEW j \in Jobs,
             \/ StartJob(w, j) \/ Charge(w, j) \/ ChargeError(w, j)
             \/ ChargeLost(w, j) \/ Decline(w, j) \/ Abandon(w, j) \/ Rearm(w, j)
      PROVE  BalanceAddsUp' /\ IsFiniteSet(credited)'
  BY <1>1, <1>3, <1>9
     DEF StartJob, Charge, ChargeError, ChargeLost, Decline, Abandon, Rearm, Accounts
<1>10. CASE \/ \E w \in Procs, p \in Payments : StartWebhook(w, p)
            \/ \E p \in Payments : Pay(p)
            \/ SaveSettings \/ TrialEnds \/ AnHourPasses
  BY <1>1, <1>3, <1>10
     DEF StartWebhook, Pay, SaveSettings, TrialEnds, AnHourPasses, Accounts
<1>11. CASE UNCHANGED vars
  BY <1>3, <1>11 DEF vars
<1>13. QED
  BY <1>4, <1>5, <1>6, <1>7, <1>8, <1>9, <1>10, <1>11, <1>12 DEF Next, Work

\* Whatever is charged, answered, delivered again, lost or crashed, the balance
\* is the trial credit and every credited payment, once, less what was spent and
\* but for what saves of the contact details wrote over it
\* (BillingService.credit_recharge and credit_top_up, reserve and settle).
THEOREM CreditedOnce == Spec => []BalanceAddsUp
<1>1. Init => BalanceAddsUp /\ IsFiniteSet(credited)
  <2> SUFFICES ASSUME Init PROVE BalanceAddsUp /\ IsFiniteSet(credited)
    OBVIOUS
  <2>1. account.balance = Trial /\ spent = 0 /\ credited = {} /\ overwritten = 0
    BY DEF Init, NewAccount
  <2>2. Cardinality(credited) = 0 /\ IsFiniteSet(credited)
    BY <2>1, FS_EmptySet
  <2>3. QED
    BY <2>1, <2>2, BillingAssumption DEF BalanceAddsUp
<1>2. TypeOK /\ (BalanceAddsUp /\ IsFiniteSet(credited)) /\ [Next]_vars
        => (BalanceAddsUp /\ IsFiniteSet(credited))'
  BY NextBalance
<1>3. QED
  BY <1>1, <1>2, TypeCorrect, PTL DEF Spec

-----------------------------------------------------------------------------
(* The low-balance alert. *)

\* The processes that are about to take lowBalanceAlertedAt away.
Rearming(w) == task[w].at \in {"rearm", "clear", "contacts"}
Rearms == {w \in Procs : Rearming(w)}

ToAlert == IF account.alerted THEN 0 ELSE 1

\* An alert that was sent, one that the account is open to and one that a process is
\* about to open it to are each paid for: by the first, by a payment or by a save.
AlertInv ==
    /\ IsFiniteSet(Rearms) /\ IsFiniteSet(credited)
    /\ alerts + ToAlert + Cardinality(Rearms) <= 1 + Cardinality(credited) + contactSaves

LEMMA AlertNumbers ==
    ASSUME TypeOK, AlertInv
    PROVE  /\ alerts \in Nat /\ ToAlert \in {0, 1} /\ contactSaves \in Nat
           /\ Cardinality(Rearms) \in Nat /\ Cardinality(credited) \in Nat
  BY FS_CardinalityType, BillingAssumption DEF TypeOK, AlertInv, ToAlert

\* A process that takes up, or puts down, a rearming.
LEMMA RearmsGrow ==
    ASSUME NEW w \in Procs, IsFiniteSet(Rearms), ~Rearming(w), Rearming(w)',
           \A v \in Procs \ {w} : task'[v] = task[v]
    PROVE  IsFiniteSet(Rearms') /\ Cardinality(Rearms') = Cardinality(Rearms) + 1
<1>1. Rearms' = Rearms \cup {w} /\ w \notin Rearms
  BY DEF Rearms, Rearming
<1>2. /\ IsFiniteSet(Rearms \cup {w})
      /\ Cardinality(Rearms \cup {w}) = Cardinality(Rearms) + 1
  BY <1>1, FS_AddElement
<1>3. QED
  BY <1>1, <1>2

LEMMA RearmsShrink ==
    ASSUME NEW w \in Procs, IsFiniteSet(Rearms), Rearming(w), ~Rearming(w)',
           \A v \in Procs \ {w} : task'[v] = task[v]
    PROVE  IsFiniteSet(Rearms') /\ Cardinality(Rearms') = Cardinality(Rearms) - 1
<1>1. Rearms' = Rearms \ {w} /\ w \in Rearms
  BY DEF Rearms, Rearming
<1>2. /\ IsFiniteSet(Rearms \ {w})
      /\ Cardinality(Rearms \ {w}) = Cardinality(Rearms) - 1
  BY <1>1, FS_RemoveElement
<1>3. QED
  BY <1>1, <1>2

\* A step that sends no alert, credits nothing and takes up no rearming.
LEMMA AlertStands ==
    ASSUME TypeOK, AlertInv, \A w \in Procs : Rearming(w)' => Rearming(w),
           UNCHANGED <<alerts, credited, contactSaves>>, ToAlert' = ToAlert
    PROVE  AlertInv'
<1>1. Rearms' \subseteq Rearms
  BY DEF Rearms
<1>2. /\ IsFiniteSet(Rearms') /\ Cardinality(Rearms') <= Cardinality(Rearms)
      /\ Cardinality(Rearms') \in Nat
  BY <1>1, FS_Subset, FS_CardinalityType DEF AlertInv
<1>3. QED
  BY <1>2, AlertNumbers DEF AlertInv

\* What Finish, Goto and Start do to the places.
LEMMA AfterTask ==
    ASSUME task \in [Procs -> Tasks], NEW w \in Procs
    PROVE  /\ Finish(w) => task'[w] = Idle /\ \A v \in Procs \ {w} : task'[v] = task[v]
           /\ \A p : Goto(w, p) =>
                  /\ task'[w].at = p /\ task'[w].payments = task[w].payments
                  /\ \A v \in Procs \ {w} : task'[v] = task[v]
           /\ \A d : Start(w, d) =>
                  task'[w] = d /\ \A v \in Procs \ {w} : task'[v] = task[v]
  BY DEF Finish, Goto, Start, Tasks

\* A payment that is credited for the first time pays for the rearming it may lead to.
LEMMA CreditAlert ==
    ASSUME TypeOK, AlertInv, NEW w \in Procs, NEW p \in Payments, ~Rearming(w),
           NEW next \in {"rearm", "clear"}, CreditAs(w, p, next),
           UNCHANGED <<alerts, contactSaves>>
    PROVE  AlertInv'
<1>0. task \in [Procs -> Tasks]
  BY DEF TypeOK
<1>1. CASE IsNew(p)
  <2>1. /\ p \notin credited /\ credited' = credited \cup {p}
        /\ ToAlert' = ToAlert
    <3>1. account' = [account EXCEPT !.balance = @ + Amount, !.toppedUp = TRUE,
                                     !.inFlight = InFlightAfter(p)]
      BY <1>1 DEF CreditAs
    <3>2. account'.alerted = account.alerted
      BY <3>1 DEF TypeOK, Accounts
    <3>3. QED
      BY <1>1, <3>2 DEF CreditAs, IsNew, ToAlert
  <2>2. /\ IsFiniteSet(credited \cup {p})
        /\ Cardinality(credited \cup {p}) = Cardinality(credited) + 1
    BY <2>1, FS_AddElement DEF AlertInv
  <2>3. IsFiniteSet(credited') /\ Cardinality(credited') = Cardinality(credited) + 1
    BY <2>1, <2>2
  <2>4. /\ IsFiniteSet(Rearms') /\ Cardinality(Rearms') <= Cardinality(Rearms) + 1
        /\ Cardinality(Rearms') \in Nat
    <3>1. CASE task[w].alert
      <4>1. Goto(w, next)
        BY <1>1, <3>1 DEF CreditAs
      <4>2. Rearming(w)' /\ \A v \in Procs \ {w} : task'[v] = task[v]
        BY <1>0, <4>1, AfterTask DEF Rearming
      <4>3. QED
        BY <4>2, RearmsGrow, FS_CardinalityType, AlertNumbers DEF AlertInv
    <3>2. CASE ~task[w].alert
      <4>1. Finish(w)
        BY <1>1, <3>2 DEF CreditAs
      <4>2. Rearms' \subseteq Rearms
        BY <1>0, <4>1, AfterTask DEF Rearms, Rearming, Idle
      <4>3. QED
        BY <4>2, FS_Subset, FS_CardinalityType, AlertNumbers DEF AlertInv
    <3>3. QED
      BY <3>1, <3>2
  <2>5. QED
    BY <2>1, <2>3, <2>4, AlertNumbers DEF AlertInv
<1>2. CASE ~IsNew(p)
  <2>1. Finish(w) /\ UNCHANGED <<account, credited>>
    BY <1>2 DEF CreditAs
  <2>2. \A v \in Procs : Rearming(v)' => Rearming(v)
    BY <1>0, <2>1, AfterTask DEF Rearming, Idle
  <2>3. QED
    BY <2>1, <2>2, AlertStands DEF ToAlert
<1>3. QED
  BY <1>1, <1>2

LEMMA NextAlert == TypeOK /\ AlertInv /\ [Next]_vars => AlertInv'
<1> SUFFICES ASSUME TypeOK, AlertInv, [Next]_vars PROVE AlertInv'
  OBVIOUS
<1> USE DEF stripe, world, counts, saved
<1>0. account \in Accounts /\ task \in [Procs -> Tasks]
  BY DEF TypeOK
<1>1. ASSUME NEW w \in Procs, Alert(w) PROVE AlertInv'
  <2>1. /\ UNCHANGED <<credited, contactSaves>> /\ Finish(w)
        /\ \A v \in Procs : Rearming(v)' => Rearming(v)
    BY <1>0, <1>1, AfterTask DEF Alert, Rearming, Idle
  <2>2. CASE task[w].alert /\ NotAlerted(account)
    <3>1. alerts' = alerts + 1 /\ ToAlert = 1 /\ ToAlert' = 0
      BY <1>0, <1>1, <2>2 DEF Alert, NotAlerted, ToAlert, Accounts
    <3>2. Rearms' \subseteq Rearms
      BY <2>1 DEF Rearms
    <3>3. /\ IsFiniteSet(Rearms') /\ Cardinality(Rearms') <= Cardinality(Rearms)
          /\ Cardinality(Rearms') \in Nat
      BY <3>2, FS_Subset, FS_CardinalityType DEF AlertInv
    <3>4. QED
      BY <2>1, <3>1, <3>3, AlertNumbers DEF AlertInv
  <2>3. CASE ~(task[w].alert /\ NotAlerted(account))
    BY <1>1, <2>1, <2>3, AlertStands DEF Alert, ToAlert
  <2>4. QED
    BY <2>2, <2>3
<1>2. ASSUME NEW w \in Procs, NEW j \in Jobs, Credit(w, j) PROVE AlertInv'
  <2>1. j \in Payments /\ ~Rearming(w) /\ CreditAs(w, j, "rearm")
        /\ UNCHANGED <<alerts, contactSaves>>
    BY <1>2 DEF Credit, At, Rearming, Payments
  <2>2. QED
    BY <2>1, CreditAlert
<1>3. ASSUME NEW w \in Procs, NEW p \in Payments, Webhook(w, p) PROVE AlertInv'
  <2>1. ~Rearming(w) /\ CreditAs(w, p, "clear") /\ UNCHANGED <<alerts, contactSaves>>
    BY <1>3 DEF Webhook, At, Rearming
  <2>2. QED
    BY <2>1, CreditAlert
<1>4. ASSUME NEW w \in Procs,
             \/ \E j \in Jobs : Rearm(w, j)
             \/ ClearAlert(w) \/ SaveContacts(w)
      PROVE  AlertInv'
  <2>1. /\ Rearming(w) /\ Finish(w) /\ UNCHANGED <<alerts, credited, contactSaves>>
    BY <1>4 DEF Rearm, ClearAlert, SaveContacts, At, Rearming
  <2>2. ~Rearming(w)' /\ \A v \in Procs \ {w} : task'[v] = task[v]
    BY <1>0, <2>1, AfterTask DEF Rearming, Idle
  <2>3. IsFiniteSet(Rearms') /\ Cardinality(Rearms') = Cardinality(Rearms) - 1
    BY <2>1, <2>2, RearmsShrink DEF AlertInv
  <2>4. ToAlert' \in {0, 1}
    BY DEF ToAlert
  <2>5. QED
    BY <2>1, <2>3, <2>4, AlertNumbers DEF AlertInv
<1>5. ASSUME NEW w \in Procs, StartSaveContacts(w) PROVE AlertInv'
  <2>1. /\ ~Rearming(w) /\ Rearming(w)' /\ UNCHANGED <<account, alerts, credited>>
        /\ contactSaves' = contactSaves + 1
        /\ \A v \in Procs \ {w} : task'[v] = task[v]
    BY <1>0, <1>5, AfterTask DEF StartSaveContacts, Start, At, Rearming, Idle
  <2>2. IsFiniteSet(Rearms') /\ Cardinality(Rearms') = Cardinality(Rearms) + 1
    BY <2>1, RearmsGrow DEF AlertInv
  <2>3. QED
    BY <2>1, <2>2, AlertNumbers DEF AlertInv, ToAlert
\* The other steps of a process.
<1>6. ASSUME NEW w \in Procs,
             \/ \E cost \in Prices : StartReserve(w, cost)
             \/ Debit(w) \/ AskRecharge(w) \/ Enqueue(w) \/ Crash(w)
             \/ \E j \in Jobs : \/ StartJob(w, j) \/ Charge(w, j) \/ ChargeError(w, j)
                                \/ ChargeLost(w, j) \/ Decline(w, j) \/ Abandon(w, j)
             \/ \E p \in Payments : StartWebhook(w, p)
      PROVE  AlertInv'
  <2>1. UNCHANGED <<alerts, credited, contactSaves>>
    BY <1>6
       DEF StartReserve, Debit, AskRecharge, Enqueue, Crash, StartJob, Charge, ChargeError,
           ChargeLost, Decline, Abandon, StartWebhook
  <2>2. ToAlert' = ToAlert
    <3>1. account'.alerted = account.alerted
      BY <1>0, <1>6
         DEF StartReserve, Debit, AskRecharge, Enqueue, Crash, StartJob, Charge, ChargeError,
             ChargeLost, Decline, Abandon, StartWebhook, Accounts
    <3>2. QED
      BY <3>1 DEF ToAlert
  <2>3. \A v \in Procs : Rearming(v)' => Rearming(v)
    <3>1. /\ task'[w].at \notin {"rearm", "clear", "contacts"}
          /\ \A v \in Procs \ {w} : task'[v] = task[v]
      <4>1. CASE \E cost \in Prices : StartReserve(w, cost)
        BY <1>0, <4>1, AfterTask DEF StartReserve, Start, Idle
      <4>2. CASE Debit(w) \/ AskRecharge(w) \/ Enqueue(w) \/ Crash(w)
        BY <1>0, <4>2, AfterTask DEF Debit, AskRecharge, Enqueue, Crash, Idle
      <4>3. ASSUME NEW j \in Jobs,
                   \/ ChargeError(w, j) \/ ChargeLost(w, j) \/ Decline(w, j) \/ Abandon(w, j)
            PROVE  /\ task'[w].at \notin {"rearm", "clear", "contacts"}
                   /\ \A v \in Procs \ {w} : task'[v] = task[v]
        BY <1>0, <4>3, AfterTask DEF ChargeError, ChargeLost, Decline, Abandon, Idle
      <4>4. ASSUME NEW j \in Jobs, StartJob(w, j)
            PROVE  /\ task'[w].at \notin {"rearm", "clear", "contacts"}
                   /\ \A v \in Procs \ {w} : task'[v] = task[v]
        BY <1>0, <4>4, AfterTask DEF StartJob, Start, Idle
      <4>5. ASSUME NEW j \in Jobs, Charge(w, j)
            PROVE  /\ task'[w].at \notin {"rearm", "clear", "contacts"}
                   /\ \A v \in Procs \ {w} : task'[v] = task[v]
        <5>1. CASE task' = [task EXCEPT ![w].at = "credit", ![w].alert = LiftsAlert(account)]
          BY <1>0, <5>1 DEF Tasks
        <5>2. CASE Goto(w, "decline") \/ Finish(w)
          BY <1>0, <5>2, AfterTask DEF Idle
        <5>3. QED
          BY <4>5, <5>1, <5>2 DEF Charge
      <4>6. ASSUME NEW p \in Payments, StartWebhook(w, p)
            PROVE  /\ task'[w].at \notin {"rearm", "clear", "contacts"}
                   /\ \A v \in Procs \ {w} : task'[v] = task[v]
        BY <1>0, <4>6, AfterTask DEF StartWebhook, Start, Idle
      <4>7. QED
        BY <1>6, <4>1, <4>2, <4>3, <4>4, <4>5, <4>6
    <3>2. QED
      BY <3>1 DEF Rearming
  <2>4. QED
    BY <2>1, <2>2, <2>3, AlertStands
<1>7. CASE \/ \E amount \in Prices : Refund(amount)
           \/ \E p \in Payments : Pay(p)
           \/ SaveSettings \/ TrialEnds \/ AnHourPasses
           \/ UNCHANGED vars
  <2>1. UNCHANGED <<alerts, credited, contactSaves, task>>
    BY <1>7 DEF Refund, Pay, SaveSettings, TrialEnds, AnHourPasses, vars
  <2>2. account'.alerted = account.alerted
    BY <1>0, <1>7 DEF Refund, Pay, SaveSettings, TrialEnds, AnHourPasses, vars, Accounts
  <2>3. QED
    BY <2>1, <2>2, AlertStands DEF ToAlert, Rearming
<1>8. QED
  BY <1>1, <1>2, <1>3, <1>4, <1>5, <1>6, <1>7 DEF Next, Work

\* Debits race over the threshold and credits race to arm the alert again, and still there
\* is at most one alert between two payments: reserve's conditional write of
\* lowBalanceAlertedAt, and what each writer of it had to be paid for.
THEOREM OneAlertAPayment == Spec => []AlertedOnce
<1>1. Init => AlertInv
  <2> SUFFICES ASSUME Init PROVE AlertInv
    OBVIOUS
  <2>1. /\ Rearms = {} /\ credited = {} /\ alerts = 0 /\ contactSaves = 0
        /\ ToAlert = 1
    BY DEF Init, Rearms, Rearming, Idle, NewAccount, ToAlert
  <2>2. QED
    BY <2>1, FS_EmptySet DEF AlertInv
<1>2. TypeOK /\ AlertInv => AlertedOnce
  BY AlertNumbers DEF AlertInv, AlertedOnce
<1>3. QED
  BY <1>1, <1>2, NextAlert, TypeCorrect, PTL DEF Spec

-----------------------------------------------------------------------------
(* The mark of a recharge in flight: who handles which job. *)

Charges(w, j) == Charging(w) /\ Handles(w, j)

\* Of a job that no debit has asked for, nothing has been done and nothing is under way.
Untouched(j) ==
    job[j] = "new" =>
        /\ charge[j] = "none" /\ j \notin credited /\ j \notin queue
        /\ \A w \in Procs : j \notin task[w].payments

\* billing-charge runs one invocation at a time, for one job.
OneCharging ==
    /\ \A v, w \in Procs : Charging(v) /\ Charging(w) => v = w
    /\ \A w \in Procs : Charging(w) => \E j \in Jobs : Handles(w, j)

HandlingInv == (\A j \in Jobs : Untouched(j)) /\ OneCharging

\* A job that is handled is one that a debit asked for.
LEMMA HandledIsOld ==
    ASSUME HandlingInv, NEW w \in Procs, NEW j \in Jobs, Handles(w, j)
    PROVE  job[j] # "new"
  BY DEF HandlingInv, Untouched, Handles

\* A step leaves a process handling what it did, idles it, or sets it on a payment
\* that is not a new job's; only with nobody charging does it set it on a job.
LEMMA HandlingStands ==
    ASSUME HandlingInv,
           \A j \in Jobs : job'[j] = "new" =>
               /\ job[j] = "new" /\ charge'[j] = charge[j]
               /\ j \in credited' => j \in credited
               /\ j \in queue' => j \in queue,
           \A v \in Procs : task'[v].payments = task[v].payments \/ task'[v].payments = {},
           \A v \in Procs : Charging(v)' =>
               Charging(v) /\ task'[v].payments = task[v].payments
    PROVE  HandlingInv'
<1>1. ASSUME NEW j \in Jobs PROVE Untouched(j)'
  BY DEF HandlingInv, Untouched
<1>2. OneCharging'
  BY DEF HandlingInv, OneCharging, Handles
<1>3. QED
  BY <1>1, <1>2 DEF HandlingInv

\* A step of a process that handles what it did, or finishes.
LEMMA HandlerStands ==
    ASSUME HandlingInv, NEW w \in Procs,
           \A v \in Procs \ {w} : task'[v] = task[v],
           task'[w].payments = task[w].payments \/ task'[w].payments = {},
           Charging(w)' => Charging(w) /\ task'[w].payments = task[w].payments,
           \A j \in Jobs : job'[j] = "new" =>
               /\ job[j] = "new" /\ charge'[j] = charge[j]
               /\ j \in credited' => j \in credited
               /\ j \in queue' => j \in queue
    PROVE  HandlingInv'
<1>1. \A v \in Procs : task'[v].payments = task[v].payments \/ task'[v].payments = {}
  OBVIOUS
<1>2. \A v \in Procs : Charging(v)' => Charging(v) /\ task'[v].payments = task[v].payments
  BY DEF Charging
<1>3. QED
  BY <1>1, <1>2, HandlingStands

LEMMA NextHandling == TypeOK /\ HandlingInv /\ [Next]_vars => HandlingInv'
<1> SUFFICES ASSUME TypeOK, HandlingInv, [Next]_vars PROVE HandlingInv'
  OBVIOUS
<1> USE DEF stripe, world, counts, saved
<1>0. /\ task \in [Procs -> Tasks] /\ job \in [Jobs -> JobStates]
      /\ charge \in [Payments -> ChargeStates] /\ Jobs \subseteq Payments
  BY DEF TypeOK, Payments
<1>1. ASSUME NEW w \in Procs, NEW j \in Jobs,
             \/ Charge(w, j) \/ ChargeError(w, j) \/ ChargeLost(w, j)
             \/ Decline(w, j) \/ Abandon(w, j) \/ Credit(w, j) \/ Rearm(w, j)
      PROVE  HandlingInv'
  <2>1. Charging(w) /\ Handles(w, j) /\ job[j] # "new"
    BY <1>1, HandledIsOld
       DEF Charge, ChargeError, ChargeLost, Decline, Abandon, Credit, Rearm, At, Charging
  <2>2. /\ task'[w].payments = task[w].payments \/ task'[w].payments = {}
        /\ Charging(w)' => task'[w].payments = task[w].payments
        /\ \A v \in Procs \ {w} : task'[v] = task[v]
    <3>1. CASE task' = [task EXCEPT ![w].at = "credit", ![w].alert = LiftsAlert(account)]
      BY <1>0, <3>1 DEF Tasks
    <3>2. CASE Finish(w)
      BY <1>0, <3>2, AfterTask DEF Idle, Charging
    <3>3. CASE \E p \in Places : Goto(w, p)
      BY <1>0, <3>3, AfterTask
    <3>4. QED
      BY <1>1, <3>1, <3>2, <3>3
         DEF Charge, ChargeError, ChargeLost, Decline, Abandon, Credit, CreditAs, Rearm, Places
  <2>3. \A k \in Jobs \ {j} :
            /\ job'[k] = job[k] /\ charge'[k] = charge[k]
            /\ k \in credited' => k \in credited
            /\ k \in queue' => k \in queue
    BY <1>0, <1>1
       DEF Charge, ChargeError, ChargeLost, Decline, Abandon, Credit, CreditAs, Rearm, Answered
  <2>4. job'[j] # "new"
    BY <1>0, <1>1, <2>1
       DEF Charge, ChargeError, ChargeLost, Decline, Abandon, Credit, Rearm
  <2>5. QED
    BY <2>1, <2>2, <2>3, <2>4, HandlerStands
<1>2. ASSUME NEW w \in Procs, NEW j \in Jobs, StartJob(w, j) PROVE HandlingInv'
  <2>1. /\ task'[w].payments = {j}
        /\ \A v \in Procs \ {w} : task'[v] = task[v] /\ ~Charging(v)
        /\ UNCHANGED stripe
        /\ job[j] # "new"
    BY <1>0, <1>2, AfterTask DEF StartJob, Start, Idle, HandlingInv, Untouched
  <2>2. \A k \in Jobs : Untouched(k)'
    BY <2>1 DEF HandlingInv, Untouched
  <2>3. OneCharging'
    BY <2>1 DEF HandlingInv, OneCharging, Charging, Handles
  <2>4. QED
    BY <2>2, <2>3 DEF HandlingInv
<1>3. ASSUME NEW w \in Procs, NEW p \in Payments, StartWebhook(w, p) PROVE HandlingInv'
  <2>1. /\ task'[w].payments = {p} /\ task'[w].at = "webhook"
        /\ \A v \in Procs \ {w} : task'[v] = task[v]
        /\ UNCHANGED stripe
        /\ charge[p] = "captured"
    BY <1>0, <1>3, AfterTask DEF StartWebhook, Start, Idle
  <2>2. \A k \in Jobs : Untouched(k)'
    BY <2>1 DEF HandlingInv, Untouched
  <2>3. OneCharging'
    BY <2>1 DEF HandlingInv, OneCharging, Charging, Handles
  <2>4. QED
    BY <2>2, <2>3 DEF HandlingInv
<1>4. ASSUME NEW w \in Procs, NEW p \in Payments, Webhook(w, p) PROVE HandlingInv'
  <2>1. /\ UNCHANGED <<job, queue, charge>> /\ credited' \subseteq credited \cup {p}
        /\ p \in Jobs => job[p] # "new"
    BY <1>4, HandledIsOld DEF Webhook, CreditAs
  <2>2. /\ task'[w].payments = task[w].payments \/ task'[w].payments = {}
        /\ ~Charging(w)'
        /\ \A v \in Procs \ {w} : task'[v] = task[v]
    BY <1>0, <1>4, AfterTask DEF Webhook, CreditAs, Idle, Charging
  <2>3. QED
    BY <2>1, <2>2, HandlerStands
<1>5. ASSUME NEW w \in Procs, Enqueue(w) PROVE HandlingInv'
  <2>1. PICK j \in Jobs :
           /\ job' = [job EXCEPT ![j] = "open"] /\ queue' = queue \cup {j}
           /\ UNCHANGED <<charge, credited>>
    BY <1>5 DEF Enqueue
  <2>2. /\ task'[w].payments = task[w].payments /\ ~Charging(w)'
        /\ \A v \in Procs \ {w} : task'[v] = task[v]
    BY <1>0, <1>5, AfterTask DEF Enqueue, Charging
  <2>3. QED
    BY <1>0, <2>1, <2>2, HandlerStands
<1>6. ASSUME NEW w \in Procs,
             \/ \E cost \in Prices : StartReserve(w, cost)
             \/ Debit(w) \/ AskRecharge(w) \/ Alert(w) \/ ClearAlert(w)
             \/ StartSaveContacts(w) \/ SaveContacts(w) \/ Crash(w)
      PROVE  HandlingInv'
  <2>1. UNCHANGED stripe
    BY <1>6 DEF StartReserve, Debit, AskRecharge, Alert, ClearAlert, StartSaveContacts,
                SaveContacts, Crash
  <2>2. /\ task'[w].payments = task[w].payments \/ task'[w].payments = {}
        /\ ~Charging(w)'
        /\ \A v \in Procs \ {w} : task'[v] = task[v]
    <3>1. CASE \E cost \in Prices : StartReserve(w, cost)
      BY <1>0, <3>1, AfterTask DEF StartReserve, Start, Idle, Charging
    <3>2. CASE StartSaveContacts(w)
      BY <1>0, <3>2, AfterTask DEF StartSaveContacts, Start, Idle, Charging
    <3>3. CASE Debit(w) \/ AskRecharge(w) \/ Alert(w) \/ ClearAlert(w) \/ SaveContacts(w)
               \/ Crash(w)
      BY <1>0, <3>3, AfterTask
         DEF Debit, AskRecharge, Alert, ClearAlert, SaveContacts, Crash, Idle, Charging
    <3>4. QED
      BY <1>6, <3>1, <3>2, <3>3
  <2>3. QED
    BY <2>1, <2>2, HandlerStands
<1>7. ASSUME NEW p \in Payments, Pay(p) PROVE HandlingInv'
  <2>1. /\ UNCHANGED <<job, queue, credited, task>>
        /\ \A k \in Payments \ {p} : charge'[k] = charge[k]
        /\ p \in Jobs => charge[p] = "pending"
    BY <1>0, <1>7, BillingAssumption DEF Pay
  <2>2. \A k \in Jobs : job[k] = "new" => charge'[k] = charge[k]
    BY <1>0, <2>1 DEF HandlingInv, Untouched
  <2>3. QED
    BY <2>1, <2>2, HandlingStands DEF Charging
<1>8. CASE UNCHANGED <<stripe, task>>
  BY <1>8, HandlingStands DEF Charging
<1>9. QED
  BY <1>1, <1>2, <1>3, <1>4, <1>5, <1>6, <1>7, <1>8
     DEF Next, Work, Refund, SaveSettings, TrialEnds, AnHourPasses, vars

-----------------------------------------------------------------------------
(* The mark of a recharge in flight: what each job is when nothing dies. *)

\* A job whose payment may yet come is open, a credit is of a captured payment, and a
\* job that waits for billing-charge has not been charged.
JobOK(j) ==
    /\ charge[j] \in {"pending", "captured"} => job[j] = "open"
    /\ j \in credited => charge[j] = "captured"
    /\ j \in queue /\ (\A w \in Procs : ~Charges(w, j)) =>
           charge[j] = "none" /\ job[j] = "open"

\* What an invocation of billing-charge, and one of the webhook, knows of its payment.
HandlerOK(w, j) ==
    /\ Charges(w, j) =>
           /\ job[j] = "open"
           /\ At(w, "charge") \/ At(w, "abandon") => charge[j] = "none"
           /\ At(w, "decline") => charge[j] \in {"none", "declined"}
           /\ At(w, "credit") \/ At(w, "rearm") => charge[j] = "captured"
    /\ At(w, "webhook") /\ Handles(w, j) => charge[j] = "captured"

AnswersInv == \A j \in Jobs : JobOK(j) /\ \A w \in Procs : HandlerOK(w, j)

\* Who charges or answers what stays as it is.
SameHandler(w) ==
    \/ task'[w] = task[w]
    \/ ~Charging(w) /\ ~Charging(w)' /\ ~At(w, "webhook")'

\* A step that is not about jobs.
LEMMA AnswersStand ==
    ASSUME AnswersInv, UNCHANGED <<job, charge, credited>>, queue' \subseteq queue,
           \A w \in Procs : SameHandler(w)
    PROVE  AnswersInv'
<1> SUFFICES ASSUME NEW j \in Jobs PROVE JobOK(j)' /\ \A w \in Procs : HandlerOK(w, j)'
  BY DEF AnswersInv
<1>1. ASSUME NEW w \in Procs PROVE Charges(w, j)' <=> Charges(w, j)
  BY DEF SameHandler, Charges, Charging, Handles
<1>2. JobOK(j)'
  BY <1>1 DEF AnswersInv, JobOK
<1>3. ASSUME NEW w \in Procs PROVE HandlerOK(w, j)'
  <2>1. HandlerOK(w, j)
    BY DEF AnswersInv
  <2>2. QED
    BY <1>1, <2>1 DEF HandlerOK, SameHandler, At, Handles, Charges, Charging
<1>4. QED
  BY <1>2, <1>3

\* billing-charge's step is about the job it handles.
LEMMA ChargerSteps ==
    ASSUME AnswersInv, HandlingInv, NEW w \in Procs, NEW j \in Jobs, Charges(w, j),
           \A v \in Procs \ {w} : task'[v] = task[v],
           ~At(w, "webhook")', Charging(w)' => Handles(w, j)',
           \A k \in Jobs \ {j} :
               /\ job'[k] = job[k] /\ charge'[k] = charge[k]
               /\ k \in credited' <=> k \in credited
               /\ k \in queue' <=> k \in queue,
           charge[j] = "captured" => charge'[j] = "captured",
           JobOK(j)', HandlerOK(w, j)'
    PROVE  AnswersInv'
<1>1. ASSUME NEW v \in Procs, NEW k \in Jobs \ {j} PROVE Charges(v, k)' <=> Charges(v, k)
  BY DEF Charges, Handles, Charging
<1>2. ASSUME NEW k \in Jobs \ {j} PROVE JobOK(k)'
  BY <1>1 DEF AnswersInv, JobOK
<1>3. ASSUME NEW v \in Procs, NEW k \in Jobs, v # w \/ k # j PROVE HandlerOK(v, k)'
  <2>1. CASE v = w
    BY <1>3, <2>1 DEF HandlerOK, Charges, Handles, At
  <2>2. CASE v # w /\ k = j
    <3>1. ~Charging(v) /\ task'[v] = task[v] /\ HandlerOK(v, j)
      BY <2>2 DEF HandlingInv, OneCharging, Charges, AnswersInv
    <3>2. QED
      BY <2>2, <3>1 DEF HandlerOK, Charges, Charging, Handles, At
  <2>3. CASE v # w /\ k # j
    <3>1. task'[v] = task[v] /\ HandlerOK(v, k) /\ job'[k] = job[k] /\ charge'[k] = charge[k]
      BY <2>3 DEF AnswersInv
    <3>2. QED
      BY <3>1 DEF HandlerOK, Charges, Charging, Handles, At
  <2>4. QED
    BY <1>3, <2>1, <2>2, <2>3
<1>4. QED
  BY <1>2, <1>3 DEF AnswersInv

LEMMA NextAnswers ==
    ASSUME TypeOK, HandlingInv, AnswersInv, [Next]_vars, faults' = 0
    PROVE  AnswersInv'
<1> USE DEF stripe, world, counts, saved
<1>0. /\ task \in [Procs -> Tasks] /\ job \in [Jobs -> JobStates]
      /\ charge \in [Payments -> ChargeStates] /\ Jobs \subseteq Payments
      /\ faults \in Nat
  BY BillingAssumption DEF TypeOK, Payments
<1>1. ASSUME NEW w \in Procs, NEW j \in Jobs,
             \/ Charge(w, j) \/ ChargeError(w, j) \/ Decline(w, j) \/ Abandon(w, j)
             \/ Credit(w, j) \/ Rearm(w, j)
      PROVE  AnswersInv'
  <2>1. /\ Charges(w, j) /\ Handles(w, j) /\ HandlerOK(w, j) /\ JobOK(j)
        /\ charge[j] \in ChargeStates /\ job[j] = "open"
    BY <1>0, <1>1
       DEF Charge, ChargeError, Decline, Abandon, Credit, Rearm, At, Charging, Charges,
           AnswersInv, HandlerOK
  <2>2. \A k \in Jobs \ {j} :
            /\ job'[k] = job[k] /\ charge'[k] = charge[k]
            /\ k \in credited' <=> k \in credited
            /\ k \in queue' <=> k \in queue
    BY <1>0, <1>1
       DEF Charge, ChargeError, Decline, Abandon, Credit, CreditAs, Rearm, Answered
  <2>3. CASE Finish(w) /\ queue' = queue \ {j}
    <3>1. ~Charging(w)' /\ ~At(w, "webhook")' /\ \A v \in Procs \ {w} : task'[v] = task[v]
      BY <1>0, <2>3, AfterTask DEF Idle, Charging, At
    <3>2. charge[j] = "captured" => charge'[j] = "captured"
      BY <1>0, <1>1, <2>1
         DEF Charge, ChargeError, Decline, Abandon, Credit, Rearm, HandlerOK
    <3>3. /\ charge'[j] \in {"pending", "captured"} => job'[j] = "open"
          /\ j \in credited' => charge'[j] = "captured"
      <4>1. CASE Charge(w, j)
        BY <1>0, <2>1, <4>1 DEF Charge, HandlerOK, JobOK
      <4>2. CASE Decline(w, j) \/ Abandon(w, j)
        BY <1>0, <2>1, <4>2 DEF Decline, Abandon, HandlerOK, JobOK
      <4>3. CASE Credit(w, j) \/ Rearm(w, j)
        BY <1>0, <2>1, <4>3 DEF Credit, CreditAs, Rearm, HandlerOK, JobOK
      <4>4. CASE ChargeError(w, j)
        BY <2>1, <4>4 DEF ChargeError, JobOK
      <4>5. QED
        BY <1>1, <4>1, <4>2, <4>3, <4>4
    <3>4. JobOK(j)' /\ HandlerOK(w, j)'
      BY <2>3, <3>1, <3>3 DEF JobOK, HandlerOK, Charges
    <3>5. QED
      BY <2>1, <2>2, <3>1, <3>2, <3>4, ChargerSteps
  <2>4. CASE ~(Finish(w) /\ queue' = queue \ {j})
    <3>1. CASE Charge(w, j)
      <4>1. /\ UNCHANGED <<job, queue, credited>> /\ charge[j] = "none"
            /\ \/ task' = [task EXCEPT ![w].at = "credit", ![w].alert = LiftsAlert(account)]
                  /\ charge' = [charge EXCEPT ![j] = "captured"]
               \/ Goto(w, "decline") /\ charge' \in {charge, [charge EXCEPT ![j] = "declined"]}
        BY <1>0, <2>1, <2>4, <3>1 DEF Charge, Answered, HandlerOK
      <4>2. /\ task'[w].at \in {"credit", "decline"} /\ task'[w].payments = task[w].payments
            /\ task'[w].at = "credit" => charge'[j] = "captured"
            /\ task'[w].at = "decline" => charge'[j] \in {"none", "declined"}
            /\ \A v \in Procs \ {w} : task'[v] = task[v]
        <5>1. CASE /\ task' = [task EXCEPT ![w].at = "credit", ![w].alert = LiftsAlert(account)]
                   /\ charge' = [charge EXCEPT ![j] = "captured"]
          BY <1>0, <5>1 DEF Tasks
        <5>2. CASE Goto(w, "decline") /\ charge' \in {charge, [charge EXCEPT ![j] = "declined"]}
          BY <1>0, <4>1, <5>2, AfterTask
        <5>3. QED
          BY <4>1, <5>1, <5>2
      <4>3. Charges(w, j)' /\ ~At(w, "webhook")'
        BY <2>1, <4>2 DEF Charges, Charging, Handles, At
      <4>4. JobOK(j)' /\ HandlerOK(w, j)'
        BY <2>1, <4>1, <4>2, <4>3 DEF JobOK, HandlerOK, At
      <4>5. QED
        BY <2>1, <2>2, <4>1, <4>2, <4>3, <4>4, ChargerSteps DEF Charges
    <3>2. CASE ChargeError(w, j)
      <4>1. /\ task'[w].at = "abandon" /\ task'[w].payments = task[w].payments
            /\ UNCHANGED stripe /\ charge[j] = "none"
            /\ \A v \in Procs \ {w} : task'[v] = task[v]
        BY <1>0, <2>1, <3>2, AfterTask DEF ChargeError, HandlerOK
      <4>2. Charges(w, j)' /\ ~At(w, "webhook")'
        BY <2>1, <4>1 DEF Charges, Charging, Handles, At
      <4>3. JobOK(j)' /\ HandlerOK(w, j)'
        BY <2>1, <4>1, <4>2 DEF JobOK, HandlerOK, At
      <4>4. QED
        BY <2>1, <2>2, <4>1, <4>2, <4>3, ChargerSteps DEF Charges
    <3>3. CASE Credit(w, j)
      <4>1. /\ Goto(w, "rearm") /\ UNCHANGED <<job, queue, charge>> /\ charge[j] = "captured"
        BY <1>0, <2>1, <2>4, <3>3 DEF Credit, CreditAs, Answered, HandlerOK
      <4>2. /\ task'[w].at = "rearm" /\ task'[w].payments = task[w].payments
            /\ \A v \in Procs \ {w} : task'[v] = task[v]
        BY <1>0, <4>1, AfterTask
      <4>3. Charges(w, j)' /\ ~At(w, "webhook")'
        BY <2>1, <4>2 DEF Charges, Charging, Handles, At
      <4>4. JobOK(j)' /\ HandlerOK(w, j)'
        BY <2>1, <4>1, <4>2, <4>3 DEF JobOK, HandlerOK, At
      <4>5. QED
        BY <2>1, <2>2, <4>1, <4>2, <4>3, <4>4, ChargerSteps DEF Charges
    <3>4. CASE Decline(w, j) \/ Abandon(w, j) \/ Rearm(w, j)
      BY <1>0, <2>4, <3>4 DEF Decline, Abandon, Rearm, Answered
    <3>5. QED
      BY <1>1, <3>1, <3>2, <3>3, <3>4
  <2>5. QED
    BY <2>3, <2>4
<1>2. ASSUME NEW w \in Procs, NEW j \in Jobs, StartJob(w, j) PROVE AnswersInv'
  <2>1. /\ task'[w].payments = {j} /\ task'[w].at \in {"charge", "abandon"}
        /\ \A v \in Procs : ~Charging(v)
        /\ \A v \in Procs \ {w} : task'[v] = task[v]
        /\ UNCHANGED stripe /\ j \in queue
    BY <1>0, <1>2, AfterTask DEF StartJob, Start, Idle
  <2>2. charge[j] = "none" /\ job[j] = "open" /\ j \notin credited
    BY <2>1 DEF AnswersInv, JobOK, Charges
  <2>3. ASSUME NEW k \in Jobs PROVE JobOK(k)'
    <3>1. JobOK(k) /\ \A v \in Procs : ~Charges(v, k)
      BY <2>1 DEF AnswersInv, Charges
    <3>2. QED
      BY <2>1, <2>2, <3>1 DEF JobOK
  <2>4. ASSUME NEW k \in Jobs, NEW v \in Procs PROVE HandlerOK(v, k)'
    <3>1. CASE v = w
      BY <2>1, <2>2, <3>1 DEF HandlerOK, Charges, Charging, Handles, At
    <3>2. CASE v # w
      BY <2>1, <3>2 DEF AnswersInv, HandlerOK, Charges, Charging, Handles, At
    <3>3. QED
      BY <3>1, <3>2
  <2>5. QED
    BY <2>3, <2>4 DEF AnswersInv
<1>3. ASSUME NEW w \in Procs, NEW p \in Payments, StartWebhook(w, p) PROVE AnswersInv'
  <2>1. /\ task'[w].payments = {p} /\ task'[w].at = "webhook" /\ At(w, "idle")
        /\ \A v \in Procs \ {w} : task'[v] = task[v]
        /\ UNCHANGED stripe /\ charge[p] = "captured"
    BY <1>0, <1>3, AfterTask DEF StartWebhook, Start, Idle
  <2>2. ASSUME NEW v \in Procs, NEW k \in Jobs PROVE Charges(v, k)' <=> Charges(v, k)
    BY <2>1 DEF Charges, Charging, Handles, At
  <2>3. \A k \in Jobs : JobOK(k)'
    BY <2>1, <2>2 DEF AnswersInv, JobOK
  <2>4. ASSUME NEW k \in Jobs, NEW v \in Procs PROVE HandlerOK(v, k)'
    <3>1. CASE v = w
      BY <2>1, <3>1 DEF HandlerOK, Charges, Charging, Handles, At
    <3>2. CASE v # w
      BY <2>1, <3>2 DEF AnswersInv, HandlerOK, Charges, Charging, Handles, At
    <3>3. QED
      BY <3>1, <3>2
  <2>5. QED
    BY <2>3, <2>4 DEF AnswersInv
<1>4. ASSUME NEW w \in Procs, NEW p \in Payments, Webhook(w, p) PROVE AnswersInv'
  <2>1. /\ UNCHANGED <<job, queue, charge>> /\ credited' \subseteq credited \cup {p}
        /\ credited \subseteq credited'
        /\ At(w, "webhook") /\ Handles(w, p)
    BY <1>4 DEF Webhook, CreditAs
  <2>2. p \in Jobs => charge[p] = "captured"
    BY <2>1 DEF AnswersInv, HandlerOK
  <2>3. /\ task'[w].at \in {"clear", "idle"}
        /\ \A v \in Procs \ {w} : task'[v] = task[v]
    BY <1>0, <1>4, AfterTask DEF Webhook, CreditAs, Idle
  <2>4. ASSUME NEW v \in Procs, NEW k \in Jobs PROVE Charges(v, k)' <=> Charges(v, k)
    BY <2>1, <2>3 DEF Charges, Charging, Handles, At
  <2>5. ASSUME NEW k \in Jobs PROVE JobOK(k)'
    BY <2>1, <2>2, <2>4 DEF AnswersInv, JobOK
  <2>6. ASSUME NEW k \in Jobs, NEW v \in Procs PROVE HandlerOK(v, k)'
    <3>1. CASE v = w
      BY <2>3, <3>1 DEF HandlerOK, Charges, Charging, At
    <3>2. CASE v # w
      BY <2>1, <2>3, <3>2 DEF AnswersInv, HandlerOK, Charges, Charging, Handles, At
    <3>3. QED
      BY <3>1, <3>2
  <2>7. QED
    BY <2>5, <2>6 DEF AnswersInv
<1>5. ASSUME NEW w \in Procs, Enqueue(w) PROVE AnswersInv'
  <2>1. PICK j \in Jobs :
           /\ job[j] = "new" /\ job' = [job EXCEPT ![j] = "open"] /\ queue' = queue \cup {j}
           /\ UNCHANGED <<charge, credited>>
    BY <1>5 DEF Enqueue
  <2>2. /\ \A k \in Jobs \ {j} : job'[k] = job[k]
        /\ job'[j] = "open" /\ charge[j] = "none" /\ j \notin credited
        /\ \A v \in Procs : ~Handles(v, j)
    BY <1>0, <2>1 DEF HandlingInv, Untouched, Handles
  <2>3. /\ task'[w].at = "alert" /\ task'[w].payments = task[w].payments /\ At(w, "enqueue")
        /\ \A v \in Procs \ {w} : task'[v] = task[v]
    BY <1>0, <1>5, AfterTask DEF Enqueue
  <2>4. ASSUME NEW v \in Procs, NEW k \in Jobs PROVE Charges(v, k)' <=> Charges(v, k)
    BY <2>3 DEF Charges, Charging, Handles, At
  <2>5. ASSUME NEW k \in Jobs PROVE JobOK(k)'
    BY <2>1, <2>2, <2>4 DEF AnswersInv, JobOK
  <2>6. ASSUME NEW k \in Jobs, NEW v \in Procs PROVE HandlerOK(v, k)'
    <3>1. CASE v = w
      BY <2>3, <3>1 DEF HandlerOK, Charges, Charging, At
    <3>2. CASE v # w
      BY <2>1, <2>2, <2>3, <3>2 DEF AnswersInv, HandlerOK, Charges, Charging, Handles, At
    <3>3. QED
      BY <3>1, <3>2
  <2>7. QED
    BY <2>5, <2>6 DEF AnswersInv
<1>6. ASSUME NEW p \in Payments, Pay(p) PROVE AnswersInv'
  <2>1. /\ UNCHANGED <<job, queue, credited, task>>
        /\ \A k \in Payments \ {p} : charge'[k] = charge[k]
        /\ p \in Jobs => charge[p] = "pending" /\ charge'[p] \in {"captured", "declined"}
    BY <1>0, <1>6, BillingAssumption DEF Pay
  <2>2. ASSUME NEW k \in Jobs PROVE JobOK(k)' /\ \A v \in Procs : HandlerOK(v, k)'
    <3>1. JobOK(k) /\ \A v \in Procs : HandlerOK(v, k)
      BY DEF AnswersInv
    <3>2. CASE k # p
      BY <1>0, <2>1, <3>1, <3>2 DEF JobOK, HandlerOK, Charges, Charging, Handles, At
    <3>3. CASE k = p
      <4>1. charge[k] = "pending" /\ charge'[k] \in {"captured", "declined"}
        BY <2>1, <3>3
      <4>2. \A v \in Procs : ~Charges(v, k) /\ ~(At(v, "webhook") /\ Handles(v, k))
        BY <3>1, <4>1 DEF HandlerOK, Charges, Charging, At
      <4>3. QED
        BY <2>1, <3>1, <4>1, <4>2 DEF JobOK, HandlerOK, Charges, Charging, Handles, At
    <3>4. QED
      BY <3>2, <3>3
  <2>3. QED
    BY <2>2 DEF AnswersInv
<1>7. ASSUME NEW w \in Procs,
             \/ \E cost \in Prices : StartReserve(w, cost)
             \/ Debit(w) \/ AskRecharge(w) \/ Alert(w) \/ ClearAlert(w)
             \/ StartSaveContacts(w) \/ SaveContacts(w)
      PROVE  AnswersInv'
  <2>1. UNCHANGED stripe
    BY <1>7 DEF StartReserve, Debit, AskRecharge, Alert, ClearAlert, StartSaveContacts,
                SaveContacts
  <2>2. /\ task'[w].at \notin {"charge", "decline", "abandon", "credit", "rearm", "webhook"}
        /\ task[w].at \notin {"charge", "decline", "abandon", "credit", "rearm"}
        /\ \A v \in Procs \ {w} : task'[v] = task[v]
    <3>1. CASE \E cost \in Prices : StartReserve(w, cost)
      BY <1>0, <3>1, AfterTask DEF StartReserve, Start, Idle, At
    <3>2. CASE StartSaveContacts(w)
      BY <1>0, <3>2, AfterTask DEF StartSaveContacts, Start, Idle, At
    <3>3. CASE Debit(w) \/ AskRecharge(w) \/ Alert(w) \/ ClearAlert(w) \/ SaveContacts(w)
      BY <1>0, <3>3, AfterTask
         DEF Debit, AskRecharge, Alert, ClearAlert, SaveContacts, Idle, At
    <3>4. QED
      BY <1>7, <3>1, <3>2, <3>3
  <2>3. \A v \in Procs : SameHandler(v)
    BY <2>2 DEF SameHandler, Charging, At
  <2>4. QED
    BY <2>1, <2>3, AnswersStand
<1>8. CASE UNCHANGED <<stripe, task>>
  BY <1>8, AnswersStand DEF SameHandler
<1>9. CASE \E w \in Procs : Crash(w) \/ \E j \in Jobs : ChargeLost(w, j)
  BY <1>0, <1>9 DEF Crash, ChargeLost
<1>10. QED
  BY <1>1, <1>2, <1>3, <1>4, <1>5, <1>6, <1>7, <1>8, <1>9
     DEF Next, Work, Refund, SaveSettings, TrialEnds, AnHourPasses, vars

-----------------------------------------------------------------------------
(* The mark of a recharge in flight: what it stands for. *)

Enqueuing == {w \in Procs : At(w, "enqueue")}

\* A mark is of a job that is open, or of one that is about to be.
MarkIsOfAJob == account.inFlight # "none" => Open # {} \/ Enqueuing # {}

\* A save of the contact details that is under way is one that was counted.
SavesCounted == \A w \in Procs : At(w, "contacts") => contactSaves > 0

\* Such a job has its mark, and is alone.
OneFlight ==
    /\ account.inFlight # "stale"
    /\ Open # {} \/ Enqueuing # {} => account.inFlight = "fresh"
    /\ \A v, w \in Enqueuing : v = w
    /\ Enqueuing # {} => Open = {}
    /\ \A j, k \in Open : j = k

FlightInv ==
    /\ TypeOK /\ HandlingInv /\ SavesCounted
    /\ faults = 0 =>
           /\ AnswersInv /\ MarkIsOfAJob
           /\ hours = 0 /\ contactSaves = 0 => OneFlight

LEMMA InitFlight == Init => FlightInv
<1> SUFFICES ASSUME Init PROVE FlightInv
  OBVIOUS
<1>1. /\ \A j \in Jobs : job[j] = "new" /\ charge[j] = "none"
      /\ \A w \in Procs : task[w] = Idle
      /\ queue = {} /\ credited = {} /\ account.inFlight = "none"
  BY DEF Init, Payments, NewAccount
<1>2. HandlingInv
  BY <1>1 DEF HandlingInv, Untouched, OneCharging, Charging, Idle
<1>3. AnswersInv
  BY <1>1 DEF AnswersInv, JobOK, HandlerOK, Charges, Charging, At, Idle
<1>4. Open = {} /\ Enqueuing = {}
  BY <1>1 DEF Open, Enqueuing, At, Idle
<1>5. MarkIsOfAJob /\ OneFlight
  BY <1>1, <1>4 DEF MarkIsOfAJob, OneFlight
<1>6. SavesCounted
  BY <1>1 DEF SavesCounted, At, Idle
<1>7. QED
  BY InitType, <1>2, <1>3, <1>5, <1>6 DEF FlightInv

LEMMA NextSaves == TypeOK /\ SavesCounted /\ [Next]_vars => SavesCounted'
<1> SUFFICES ASSUME TypeOK, SavesCounted, [Next]_vars PROVE SavesCounted'
  OBVIOUS
<1> USE DEF stripe, world, counts, saved
<1>0. task \in [Procs -> Tasks] /\ contactSaves \in Nat
  BY BillingAssumption DEF TypeOK
<1>1. ASSUME NEW w \in Procs, \A v \in Procs \ {w} : task'[v] = task[v],
             task'[w].at # "contacts", contactSaves' = contactSaves
      PROVE  SavesCounted'
  BY <1>1 DEF SavesCounted, At
<1>2. ASSUME NEW w \in Procs, StartSaveContacts(w) PROVE SavesCounted'
  BY <1>0, <1>2 DEF StartSaveContacts, SavesCounted
<1>3. ASSUME NEW w \in Procs,
             \/ \E cost \in Prices : StartReserve(w, cost)
             \/ Debit(w) \/ AskRecharge(w) \/ Enqueue(w) \/ Alert(w) \/ ClearAlert(w)
             \/ SaveContacts(w) \/ Crash(w)
      PROVE  SavesCounted'
  <2>1. task'[w].at # "contacts" /\ \A v \in Procs \ {w} : task'[v] = task[v]
    <3>1. CASE \E cost \in Prices : StartReserve(w, cost)
      BY <1>0, <3>1, AfterTask DEF StartReserve, Start, Idle
    <3>2. CASE \/ Debit(w) \/ AskRecharge(w) \/ Enqueue(w) \/ Alert(w) \/ ClearAlert(w)
               \/ SaveContacts(w) \/ Crash(w)
      BY <1>0, <3>2, AfterTask
         DEF Debit, AskRecharge, Enqueue, Alert, ClearAlert, SaveContacts, Crash, Idle
    <3>3. QED
      BY <1>3, <3>1, <3>2
  <2>2. contactSaves' = contactSaves
    BY <1>3 DEF StartReserve, Debit, AskRecharge, Enqueue, Alert, ClearAlert, SaveContacts,
                Crash
  <2>3. QED
    BY <1>1, <2>1, <2>2
<1>4. ASSUME NEW w \in Procs, NEW j \in Jobs,
             \/ StartJob(w, j) \/ Charge(w, j) \/ ChargeError(w, j) \/ ChargeLost(w, j)
             \/ Decline(w, j) \/ Abandon(w, j) \/ Credit(w, j) \/ Rearm(w, j)
      PROVE  SavesCounted'
  <2>1. task'[w].at # "contacts" /\ \A v \in Procs \ {w} : task'[v] = task[v]
    <3>1. CASE StartJob(w, j)
      BY <1>0, <3>1, AfterTask DEF StartJob, Start, Idle
    <3>2. CASE task' = [task EXCEPT ![w].at = "credit", ![w].alert = LiftsAlert(account)]
      BY <1>0, <3>2 DEF Tasks
    <3>3. CASE \/ Finish(w)
               \/ \E p \in {"credit", "decline", "abandon", "rearm"} : Goto(w, p)
      BY <1>0, <3>3, AfterTask DEF Idle
    <3>4. QED
      BY <1>4, <3>1, <3>2, <3>3
         DEF Charge, ChargeError, ChargeLost, Decline, Abandon, Credit, CreditAs, Rearm
  <2>2. contactSaves' = contactSaves
    BY <1>4 DEF StartJob, Charge, ChargeError, ChargeLost, Decline, Abandon, Credit, Rearm
  <2>3. QED
    BY <1>1, <2>1, <2>2
<1>5. ASSUME NEW w \in Procs, NEW p \in Payments, StartWebhook(w, p) \/ Webhook(w, p)
      PROVE  SavesCounted'
  <2>1. task'[w].at # "contacts" /\ \A v \in Procs \ {w} : task'[v] = task[v]
    <3>1. CASE StartWebhook(w, p)
      BY <1>0, <3>1, AfterTask DEF StartWebhook, Start, Idle
    <3>2. CASE Webhook(w, p)
      BY <1>0, <3>2, AfterTask DEF Webhook, CreditAs, Idle
    <3>3. QED
      BY <1>5, <3>1, <3>2
  <2>2. contactSaves' = contactSaves
    BY <1>5 DEF StartWebhook, Webhook
  <2>3. QED
    BY <1>1, <2>1, <2>2
<1>6. CASE UNCHANGED <<task, contactSaves>>
  BY <1>6 DEF SavesCounted, At
<1>7. QED
  BY <1>2, <1>3, <1>4, <1>5, <1>6
     DEF Next, Work, Refund, Pay, SaveSettings, TrialEnds, AnHourPasses, vars

\* What faults, hours and saves there were before a step is no more than after it.
LEMMA MishapsGrow ==
    ASSUME TypeOK, [Next]_vars
    PROVE  /\ faults' = 0 => faults = 0
           /\ hours' = 0 => hours = 0
           /\ contactSaves' = 0 => contactSaves = 0
<1> USE DEF stripe, world, counts, saved
<1>1. faults \in Nat /\ hours \in Nat /\ contactSaves \in Nat
  BY BillingAssumption DEF TypeOK
<1>2. ASSUME NEW w \in Procs, Work(w) \/ Crash(w) \/ StartSaveContacts(w)
      PROVE  /\ faults' \in {faults, faults + 1} /\ hours' = hours
             /\ contactSaves' \in {contactSaves, contactSaves + 1}
  BY <1>2
     DEF Work, Debit, AskRecharge, Enqueue, Alert, ClearAlert, SaveContacts, Charge,
         ChargeError, Decline, Abandon, Credit, Rearm, Answered, Webhook, Crash,
         StartSaveContacts
<1>3. ASSUME NEW w \in Procs, NEW j \in Jobs, StartJob(w, j) \/ ChargeLost(w, j)
      PROVE  /\ faults' \in {faults, faults + 1} /\ hours' = hours
             /\ contactSaves' = contactSaves
  BY <1>3 DEF StartJob, ChargeLost
<1>4. CASE \/ \E w \in Procs, cost \in Prices : StartReserve(w, cost)
           \/ \E amount \in Prices : Refund(amount)
           \/ \E p \in Payments : Pay(p)
           \/ SaveSettings \/ TrialEnds \/ UNCHANGED vars
  BY <1>4 DEF StartReserve, Refund, Pay, SaveSettings, TrialEnds, vars
<1>5. CASE \E w \in Procs, p \in Payments : StartWebhook(w, p)
  BY <1>1, <1>5 DEF StartWebhook
<1>6. CASE AnHourPasses
  BY <1>1, <1>6 DEF AnHourPasses
<1>7. QED
  BY <1>1, <1>2, <1>3, <1>4, <1>5, <1>6 DEF Next

\* A step that leaves the mark, the open jobs and those about to be open.
LEMMA MarkStands ==
    ASSUME Open' = Open, Enqueuing' = Enqueuing, account'.inFlight = account.inFlight
    PROVE  (MarkIsOfAJob => MarkIsOfAJob') /\ (OneFlight => OneFlight')
  BY DEF MarkIsOfAJob, OneFlight

\* A step that answers the open job takes the mark away with it.
LEMMA MarkGoes ==
    ASSUME account'.inFlight = "none", Enqueuing' = Enqueuing,
           NEW j \in Open, Open' = Open \ {j}
    PROVE  MarkIsOfAJob' /\ (OneFlight => OneFlight')
<1>1. MarkIsOfAJob'
  BY DEF MarkIsOfAJob
<1>2. ASSUME OneFlight PROVE OneFlight'
  <2>1. Open' = {} /\ Enqueuing' = {}
    BY <1>2 DEF OneFlight
  <2>2. QED
    BY <2>1 DEF OneFlight
<1>3. QED
  BY <1>1, <1>2

\* The places a process may go to without asking for a recharge.
LEMMA EnqueuingStands ==
    ASSUME NEW w \in Procs, ~At(w, "enqueue"), ~At(w, "enqueue")',
           \A v \in Procs \ {w} : task'[v] = task[v]
    PROVE  Enqueuing' = Enqueuing
<1>1. \A v \in Procs : At(v, "enqueue")' <=> At(v, "enqueue")
  BY DEF At
<1>2. QED
  BY <1>1 DEF Enqueuing

\* A credit takes the mark away if it is a recharge's, and it is the open one's.
LEMMA CreditMark ==
    ASSUME TypeOK, AnswersInv, NEW w \in Procs, NEW p \in Payments,
           NEW next \in {"rearm", "clear"}, CreditAs(w, p, next), ~At(w, "enqueue"),
           p \in Jobs => charge[p] = "captured", UNCHANGED job
    PROVE  /\ MarkIsOfAJob => MarkIsOfAJob'
           /\ OneFlight => OneFlight'
<1>0. account \in Accounts /\ task \in [Procs -> Tasks]
  BY DEF TypeOK
<1>1. Enqueuing' = Enqueuing
  <2>1. ~At(w, "enqueue")' /\ \A v \in Procs \ {w} : task'[v] = task[v]
    BY <1>0, AfterTask DEF CreditAs, At, Idle
  <2>2. QED
    BY <2>1, EnqueuingStands
<1>2. CASE IsNew(p) /\ p \in Jobs
  <2>1. /\ account'.inFlight = "none" /\ credited' = credited \cup {p}
    BY <1>0, <1>2 DEF CreditAs, InFlightAfter, Accounts
  <2>2. p \in Open
    BY <1>2 DEF AnswersInv, JobOK, Open, IsNew
  <2>3. Open' = Open \ {p}
    BY <2>1 DEF Open
  <2>4. QED
    BY <1>1, <2>1, <2>2, <2>3, MarkGoes
<1>3. CASE ~(IsNew(p) /\ p \in Jobs)
  <2>1. account'.inFlight = account.inFlight
    BY <1>0, <1>3 DEF CreditAs, InFlightAfter, Accounts
  <2>2. Open' = Open
    BY <1>3 DEF CreditAs, Open
  <2>3. QED
    BY <1>1, <2>1, <2>2, MarkStands
<1>4. QED
  BY <1>2, <1>3

LEMMA NextMark ==
    ASSUME FlightInv, [Next]_vars, faults' = 0
    PROVE  /\ MarkIsOfAJob'
           /\ hours' = 0 /\ contactSaves' = 0 => OneFlight'
<1> USE DEF stripe, world, counts, saved
<1>0. /\ TypeOK /\ HandlingInv /\ AnswersInv /\ MarkIsOfAJob
      /\ account \in Accounts /\ task \in [Procs -> Tasks] /\ job \in [Jobs -> JobStates]
      /\ hours' = 0 /\ contactSaves' = 0 => OneFlight
      /\ faults \in Nat /\ hours \in Nat /\ contactSaves \in Nat
  BY MishapsGrow, BillingAssumption DEF FlightInv, TypeOK
<1>1. ASSUME NEW w \in Procs, AskRecharge(w)
      PROVE  MarkIsOfAJob' /\ (OneFlight => OneFlight')
  <2>1. Open' = Open /\ At(w, "recharge")
    BY <1>1 DEF AskRecharge, Open
  <2>2. CASE task[w].recharge /\ NoneInFlight(account)
    <3>1. /\ account'.inFlight = "fresh" /\ task'[w].at = "enqueue"
          /\ \A v \in Procs \ {w} : task'[v] = task[v]
      BY <1>0, <1>1, <2>2, AfterTask DEF AskRecharge, Accounts
    <3>2. Enqueuing' = Enqueuing \cup {w}
      BY <3>1 DEF Enqueuing, At
    <3>3. MarkIsOfAJob'
      BY <3>2 DEF MarkIsOfAJob
    <3>4. ASSUME OneFlight PROVE OneFlight'
      <4>1. Open = {} /\ Enqueuing = {}
        BY <2>2, <3>4 DEF OneFlight, NoneInFlight
      <4>2. Open' = {} /\ Enqueuing' = {w}
        BY <2>1, <3>2, <4>1
      <4>3. QED
        BY <3>1, <4>2 DEF OneFlight
    <3>5. QED
      BY <3>3, <3>4
  <2>3. CASE ~(task[w].recharge /\ NoneInFlight(account))
    <3>1. /\ account' = account /\ task'[w].at = "alert"
          /\ \A v \in Procs \ {w} : task'[v] = task[v]
      BY <1>0, <1>1, <2>3, AfterTask DEF AskRecharge
    <3>2. Enqueuing' = Enqueuing
      BY <2>1, <3>1, EnqueuingStands DEF At
    <3>3. QED
      BY <1>0, <2>1, <3>1, <3>2, MarkStands
  <2>4. QED
    BY <2>2, <2>3
<1>2. ASSUME NEW w \in Procs, Enqueue(w)
      PROVE  MarkIsOfAJob' /\ (OneFlight => OneFlight')
  <2>1. PICK j \in Jobs :
           /\ job[j] = "new" /\ job' = [job EXCEPT ![j] = "open"]
           /\ UNCHANGED <<account, credited>>
    BY <1>2 DEF Enqueue
  <2>2. Open' = Open \cup {j}
    <3>1. j \notin credited
      BY <1>0, <2>1 DEF HandlingInv, Untouched
    <3>2. job'[j] = "open" /\ \A k \in Jobs \ {j} : job'[k] = job[k]
      BY <1>0, <2>1
    <3>3. QED
      BY <2>1, <3>1, <3>2 DEF Open
  <2>3. /\ w \in Enqueuing /\ task'[w].at = "alert"
        /\ \A v \in Procs \ {w} : task'[v] = task[v]
    BY <1>0, <1>2, AfterTask DEF Enqueue, Enqueuing
  <2>4. Enqueuing' = Enqueuing \ {w}
    BY <2>3 DEF Enqueuing, At
  <2>5. MarkIsOfAJob'
    BY <2>2 DEF MarkIsOfAJob
  <2>6. ASSUME OneFlight PROVE OneFlight'
    <3>1. Open = {} /\ Enqueuing = {w} /\ account.inFlight = "fresh"
      BY <2>3, <2>6 DEF OneFlight
    <3>2. Open' = {j} /\ Enqueuing' = {} /\ account'.inFlight = "fresh"
      BY <2>1, <2>2, <2>4, <3>1
    <3>3. QED
      BY <3>2 DEF OneFlight
  <2>7. QED
    BY <2>5, <2>6
<1>3. ASSUME NEW w \in Procs, NEW j \in Jobs, Decline(w, j) \/ Abandon(w, j)
      PROVE  MarkIsOfAJob' /\ (OneFlight => OneFlight')
  <2>1. /\ job[j] = "open" /\ charge[j] # "captured"
    BY <1>0, <1>3
       DEF Decline, Abandon, AnswersInv, HandlerOK, Charges, Charging, At
  <2>2. j \in Open
    BY <1>0, <2>1 DEF AnswersInv, JobOK, Open
  <2>3. /\ account'.inFlight = "none" /\ credited' = credited
        /\ job'[j] # "open" /\ \A k \in Jobs \ {j} : job'[k] = job[k]
    BY <1>0, <1>3, <2>1 DEF Decline, Abandon, Accounts
  <2>4. Open' = Open \ {j}
    BY <2>3 DEF Open
  <2>5. Enqueuing' = Enqueuing
    <3>1. /\ ~At(w, "enqueue") /\ ~At(w, "enqueue")'
          /\ \A v \in Procs \ {w} : task'[v] = task[v]
      BY <1>0, <1>3, AfterTask DEF Decline, Abandon, At, Idle
    <3>2. QED
      BY <3>1, EnqueuingStands
  <2>6. QED
    BY <2>2, <2>3, <2>4, <2>5, MarkGoes
<1>4. ASSUME NEW w \in Procs, NEW j \in Jobs, Credit(w, j)
      PROVE  MarkIsOfAJob' /\ (OneFlight => OneFlight')
  <2>1. /\ j \in Payments /\ CreditAs(w, j, "rearm") /\ ~At(w, "enqueue") /\ UNCHANGED job
    BY <1>4 DEF Credit, At, Payments
  <2>2. charge[j] = "captured"
    BY <1>0, <1>4 DEF Credit, AnswersInv, HandlerOK, Charges, Charging, At
  <2>3. QED
    BY <1>0, <2>1, <2>2, CreditMark
<1>5. ASSUME NEW w \in Procs, NEW p \in Payments, Webhook(w, p)
      PROVE  MarkIsOfAJob' /\ (OneFlight => OneFlight')
  <2>1. /\ CreditAs(w, p, "clear") /\ ~At(w, "enqueue") /\ UNCHANGED job
    BY <1>5 DEF Webhook, At
  <2>2. p \in Jobs => charge[p] = "captured"
    BY <1>0, <1>5 DEF Webhook, AnswersInv, HandlerOK
  <2>3. QED
    BY <1>0, <2>1, <2>2, CreditMark
<1>6. ASSUME NEW w \in Procs, SaveContacts(w)
      PROVE  MarkIsOfAJob' /\ contactSaves' # 0
  BY <1>0, <1>6 DEF SaveContacts, AsIdentityHasIt, MarkIsOfAJob, FlightInv, SavesCounted
<1>7. ASSUME NEW w \in Procs,
             \/ \E cost \in Prices : StartReserve(w, cost)
             \/ Debit(w) \/ Alert(w) \/ ClearAlert(w) \/ StartSaveContacts(w)
             \/ \E j \in Jobs : \/ StartJob(w, j) \/ Charge(w, j) \/ ChargeError(w, j)
                                \/ Rearm(w, j)
             \/ \E p \in Payments : StartWebhook(w, p)
      PROVE  MarkIsOfAJob' /\ (OneFlight => OneFlight')
  <2>1. Open' = Open
    BY <1>7
       DEF StartReserve, Debit, Alert, ClearAlert, StartSaveContacts, StartJob, Charge,
           ChargeError, Rearm, StartWebhook, Open
  <2>2. account'.inFlight = account.inFlight
    BY <1>0, <1>7
       DEF StartReserve, Debit, Alert, ClearAlert, StartSaveContacts, StartJob, Charge,
           ChargeError, Rearm, StartWebhook, Accounts
  <2>3. /\ ~At(w, "enqueue") /\ ~At(w, "enqueue")'
        /\ \A v \in Procs \ {w} : task'[v] = task[v]
    <3>1. CASE \E cost \in Prices : StartReserve(w, cost)
      BY <1>0, <3>1, AfterTask DEF StartReserve, Start, Idle, At
    <3>2. CASE StartSaveContacts(w)
      BY <1>0, <3>2, AfterTask DEF StartSaveContacts, Start, Idle, At
    <3>3. CASE Debit(w) \/ Alert(w) \/ ClearAlert(w)
      BY <1>0, <3>3, AfterTask DEF Debit, Alert, ClearAlert, Idle, At
    <3>4. CASE \E p \in Payments : StartWebhook(w, p)
      BY <1>0, <3>4, AfterTask DEF StartWebhook, Start, Idle, At
    <3>5. CASE \E j \in Jobs : StartJob(w, j)
      BY <1>0, <3>5, AfterTask DEF StartJob, Start, Idle, At
    <3>6. CASE \E j \in Jobs : ChargeError(w, j) \/ Rearm(w, j)
      BY <1>0, <3>6, AfterTask DEF ChargeError, Rearm, Idle, At
    <3>7. CASE \E j \in Jobs : Charge(w, j)
      <4>1. CASE task' = [task EXCEPT ![w].at = "credit", ![w].alert = LiftsAlert(account)]
        BY <1>0, <3>7, <4>1 DEF Tasks, At, Charge
      <4>2. CASE Goto(w, "decline") \/ Finish(w)
        BY <1>0, <3>7, <4>2, AfterTask DEF Idle, At, Charge
      <4>3. QED
        BY <3>7, <4>1, <4>2 DEF Charge
    <3>8. QED
      BY <1>7, <3>1, <3>2, <3>3, <3>4, <3>5, <3>6, <3>7
  <2>4. QED
    BY <1>0, <2>1, <2>2, <2>3, EnqueuingStands, MarkStands
<1>8. CASE \/ \E amount \in Prices : Refund(amount)
           \/ \E p \in Payments : Pay(p)
           \/ SaveSettings \/ TrialEnds \/ UNCHANGED vars
  <2>1. Open' = Open /\ Enqueuing' = Enqueuing
    BY <1>8 DEF Refund, Pay, SaveSettings, TrialEnds, vars, Open, Enqueuing, At
  <2>2. account'.inFlight = account.inFlight
    BY <1>0, <1>8 DEF Refund, Pay, SaveSettings, TrialEnds, vars, Accounts
  <2>3. QED
    BY <1>0, <2>1, <2>2, MarkStands
<1>9. CASE AnHourPasses
  <2>1. Open' = Open /\ Enqueuing' = Enqueuing /\ account.inFlight # "none" /\ hours' # 0
    BY <1>0, <1>9 DEF AnHourPasses, Open, Enqueuing, At
  <2>2. QED
    BY <1>0, <2>1 DEF MarkIsOfAJob
<1>10. CASE \E w \in Procs : Crash(w) \/ \E j \in Jobs : ChargeLost(w, j)
  BY <1>0, <1>10 DEF Crash, ChargeLost
<1>11. QED
  BY <1>0, <1>1, <1>2, <1>3, <1>4, <1>5, <1>6, <1>7, <1>8, <1>9, <1>10 DEF Next, Work

LEMMA NextFlight == FlightInv /\ [Next]_vars => FlightInv'
<1> SUFFICES ASSUME FlightInv, [Next]_vars PROVE FlightInv'
  OBVIOUS
<1>1. /\ TypeOK /\ TypeOK' /\ HandlingInv /\ HandlingInv' /\ SavesCounted'
  BY NextType, NextHandling, NextSaves DEF FlightInv
<1>2. ASSUME faults' = 0
      PROVE  /\ AnswersInv' /\ MarkIsOfAJob'
             /\ hours' = 0 /\ contactSaves' = 0 => OneFlight'
  BY <1>1, <1>2, NextAnswers, NextMark, MishapsGrow DEF FlightInv
<1>3. QED
  BY <1>1, <1>2 DEF FlightInv

\* The mark of a recharge in flight stands for one open recharge and for no more, as long
\* as nothing dies, is lost or comes twice (reserve's IF_NO_RECHARGE_IN_FLIGHT, the answers
\* of billing-charge and the credit that clears it).
THEOREM MarkMeansOne == Spec => []InFlightMeansOne
<1>1. FlightInv => InFlightMeansOne
  <2> SUFFICES ASSUME FlightInv, faults = 0
               PROVE  /\ account.inFlight # "none" =>
                             Open # {} \/ \E w \in Procs : At(w, "enqueue")
                      /\ hours = 0 /\ contactSaves = 0 => Cardinality(Open) <= 1
    BY DEF InFlightMeansOne
  <2>1. account.inFlight # "none" => Open # {} \/ \E w \in Procs : At(w, "enqueue")
    BY DEF FlightInv, MarkIsOfAJob, Enqueuing
  <2>2. ASSUME hours = 0, contactSaves = 0 PROVE Cardinality(Open) <= 1
    <3>1. \A j, k \in Open : j = k
      BY <2>2 DEF FlightInv, OneFlight
    <3>2. CASE Open = {}
      BY <3>2, FS_EmptySet
    <3>3. CASE Open # {}
      <4>1. PICK j : Open = {j}
        BY <3>1, <3>3
      <4>2. Cardinality({j}) = 1
        BY FS_Singleton
      <4>3. QED
        BY <4>1, <4>2
    <3>4. QED
      BY <3>2, <3>3
  <2>3. QED
    BY <2>1, <2>2
<1>2. QED
  BY InitFlight, NextFlight, <1>1, PTL DEF Spec

\* A job that was declined or abandoned took no money, and has none on its way, as long as
\* nothing dies, is lost or comes twice: the customer is told that a recharge failed only
\* when it did (billing-charge's decline and abandon), and what is credited was captured.
FailedTookNothing ==
    faults = 0 =>
        \A j \in Jobs :
            /\ job[j] \in {"declined", "abandoned"} => charge[j] \in {"none", "declined"}
            /\ j \in credited => charge[j] = "captured"

THEOREM FailedIsNotCharged == Spec => []FailedTookNothing
<1>1. FlightInv => FailedTookNothing
  <2> SUFFICES ASSUME FlightInv, faults = 0, NEW j \in Jobs
               PROVE  /\ job[j] \in {"declined", "abandoned"} => charge[j] \in {"none", "declined"}
                      /\ j \in credited => charge[j] = "captured"
    BY DEF FailedTookNothing
  <2>1. JobOK(j)
    BY DEF FlightInv, AnswersInv
  <2>2. charge[j] \in ChargeStates
    BY DEF FlightInv, TypeOK, Payments
  <2>3. QED
    BY <2>1, <2>2 DEF JobOK, ChargeStates
<1>2. QED
  BY InitFlight, NextFlight, <1>1, PTL DEF Spec

=============================================================================
