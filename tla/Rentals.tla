------------------------------- MODULE Rentals -------------------------------
(***************************************************************************)
(* A dedicated number: its purchase, the daily billing-renewals run that   *)
(* charges the rental of each period, and gives the number up when it is   *)
(* not paid, the customer who cancels it, and the scheduler's sweep that   *)
(* releases what was cancelled.                                            *)
(*                                                                         *)
(* Periods are counted: renewsAt is a time of its own for each.  The run   *)
(* has a reserved concurrency of one; a customer's requests and the sweep  *)
(* go on beside it.                                                        *)
(***************************************************************************)
EXTENDS Integers, FiniteSets

CONSTANTS
  RETRY_LIMIT,  \* renewals that may fail before the number is released
  MaxBalance,   \* bound: rentals that the balance covers
  MaxPeriods,   \* bound: periods
  MaxDeaths     \* bound: runs, purchases and sweeps that die

RentalsAssumption ==
  /\ RETRY_LIMIT \in Nat
  /\ {MaxBalance, MaxPeriods} \subseteq Nat \ {0}
  /\ MaxDeaths \in Nat

VARIABLES
  number,     \* the sender's row
  charged,    \* EVENT# items: the periods whose rental is charged
  debits,     \* RENTAL rows written for each period
  balance,    \* rentals that the balance covers
  buyer,      \* the purchase
  run,        \* the run of the day
  sweeping,   \* the sweep holds the number as one to release
  deaths

vars == <<number, charged, debits, balance, buyer, run, sweeping, deaths>>

Periods == 0..MaxPeriods

-----------------------------------------------------------------------------

\* period: which period renewsAt begins, due: whether that has come, attempt:
\* renewalAttempt.  released: not a field of the row, but why its status is
\* RELEASED and it is no longer listed in SENDERS#RENTED.
NoNumber == [there |-> FALSE, period |-> 0, due |-> FALSE, attempt |-> 0,
             cancelled |-> FALSE, released |-> "no"]

NoRun == [at |-> "idle", period |-> 0, attempt |-> 0]

Init ==
  /\ number = NoNumber
  /\ charged = {}
  /\ debits = [p \in Periods |-> 0]
  /\ balance \in 0..MaxBalance
  /\ buyer = "idle"
  /\ run = NoRun
  /\ sweeping = FALSE
  /\ deaths = 0

Listed == number.there /\ number.released = "no"

\* charge_rental_once: the period's event, put if absent, with the debit if it is
\* covered and its row, in one transaction.
CanCharge(p) == p \notin charged /\ balance > 0

Charged(p) ==
  /\ charged' = charged \cup {p}
  /\ debits' = [debits EXCEPT ![p] = @ + 1]
  /\ balance' = balance - 1

-----------------------------------------------------------------------------
(* buy_number: the first period is paid, and then the row is put. *)

Buy ==
  /\ buyer = "idle" /\ ~number.there
  /\ IF CanCharge(0)
     THEN Charged(0) /\ buyer' = "charged"
     ELSE UNCHANGED <<charged, debits, balance, buyer>>
  /\ UNCHANGED <<number, run, sweeping, deaths>>

PutNumber ==
  /\ buyer = "charged"
  /\ buyer' = "done"
  /\ number' = [NoNumber EXCEPT !.there = TRUE, !.period = 1]
  /\ UNCHANGED <<charged, debits, balance, run, sweeping, deaths>>

\* cancel_rental, which has no condition but that the row is there.
Cancel ==
  /\ number.there
  /\ number' = [number EXCEPT !.cancelled = TRUE]
  /\ UNCHANGED <<charged, debits, balance, buyer, run, sweeping, deaths>>

-----------------------------------------------------------------------------
(* The run. *)

Goto(place) == run' = [run EXCEPT !.at = place]

\* due_for_renewal: the row is read here, and once.
StartRun ==
  /\ run.at = "idle"
  /\ Listed /\ number.due /\ ~number.cancelled
  /\ run' = [at |-> "charge", period |-> number.period, attempt |-> number.attempt]
  /\ UNCHANGED <<number, charged, debits, balance, buyer, sweeping, deaths>>

Charge ==
  /\ run.at = "charge"
  /\ IF CanCharge(run.period)
     THEN Charged(run.period) /\ Goto("record")
     ELSE UNCHANGED <<charged, debits, balance>> /\ Goto("check")
  /\ UNCHANGED <<number, buyer, sweeping, deaths>>

\* a charge that did not go through is unpaid: a mutant of IsPaid.
NeverPaid(p) == FALSE

\* rental_charged.
IsPaid(p) == p \in charged

\* there is nothing to do where the rental is charged already: a mutant of Verdict.
VerdictIfUnpaid ==
  IF IsPaid(run.period) THEN "idle"
  ELSE IF run.attempt >= RETRY_LIMIT THEN "release" ELSE "attempt"

\* What was charged by a run that died is recorded now; else a recharge is asked
\* for, and the attempt counts, or was the last.
Verdict ==
  IF IsPaid(run.period) THEN "record"
  ELSE IF run.attempt >= RETRY_LIMIT THEN "release" ELSE "attempt"

Check ==
  /\ run.at = "check"
  /\ Goto(Verdict)
  /\ UNCHANGED <<number, charged, debits, balance, buyer, sweeping, deaths>>

\* record_renewal, record_renewal_attempt and release have no condition but that
\* the row is there.
Record ==
  /\ run.at = "record"
  /\ number' = [number EXCEPT !.period = run.period + 1, !.due = FALSE, !.attempt = 0]
  /\ run' = NoRun
  /\ UNCHANGED <<charged, debits, balance, buyer, sweeping, deaths>>

RecordAttempt ==
  /\ run.at = "attempt"
  /\ number' = [number EXCEPT !.attempt = @ + 1]
  /\ run' = NoRun
  /\ UNCHANGED <<charged, debits, balance, buyer, sweeping, deaths>>

Release ==
  /\ run.at = "release"
  /\ number' = [number EXCEPT !.released = "unpaid"]
  /\ run' = NoRun
  /\ UNCHANGED <<charged, debits, balance, buyer, sweeping, deaths>>

-----------------------------------------------------------------------------
(* The scheduler's sweep: reads the listing, then releases what it read. *)

StartSweep ==
  /\ ~sweeping
  /\ Listed /\ number.due /\ number.cancelled
  /\ sweeping' = TRUE
  /\ UNCHANGED <<number, charged, debits, balance, buyer, run, deaths>>

Sweep ==
  /\ sweeping
  /\ sweeping' = FALSE
  /\ number' = [number EXCEPT !.released = IF @ = "no" THEN "cancelled" ELSE @]
  /\ UNCHANGED <<charged, debits, balance, buyer, run, deaths>>

-----------------------------------------------------------------------------

\* Top-ups and recharges, and what else the balance is spent on.
BalanceMoves ==
  /\ balance' \in {balance - 1, balance + 1} \cap 0..MaxBalance
  /\ UNCHANGED <<number, charged, debits, buyer, run, sweeping, deaths>>

\* RENEWAL_PERIOD has passed.
PeriodEnds ==
  /\ number.there /\ ~number.due
  /\ number.period < MaxPeriods
  /\ number' = [number EXCEPT !.due = TRUE]
  /\ UNCHANGED <<charged, debits, balance, buyer, run, sweeping, deaths>>

Die ==
  /\ deaths < MaxDeaths
  /\ deaths' = deaths + 1
  /\ \/ run.at # "idle" /\ run' = NoRun /\ UNCHANGED <<buyer, sweeping>>
     \/ buyer = "charged" /\ buyer' = "done" /\ UNCHANGED <<run, sweeping>>
     \/ sweeping /\ sweeping' = FALSE /\ UNCHANGED <<run, buyer>>
  /\ UNCHANGED <<number, charged, debits, balance>>

Running == Charge \/ Check \/ Record \/ RecordAttempt \/ Release

Next ==
  \/ Buy \/ PutNumber \/ Cancel
  \/ StartRun \/ Running
  \/ StartSweep \/ Sweep
  \/ BalanceMoves \/ PeriodEnds \/ Die

Spec == Init /\ [][Next]_vars

-----------------------------------------------------------------------------
(* Properties. *)

TypeOK ==
  /\ number \in [there: BOOLEAN, period: Periods, due: BOOLEAN,
                 attempt: 0..RETRY_LIMIT, cancelled: BOOLEAN,
                 released: {"no", "unpaid", "cancelled"}]
  /\ charged \subseteq Periods
  /\ debits \in [Periods -> Nat]
  /\ balance \in 0..MaxBalance
  /\ buyer \in {"idle", "charged", "done"}
  /\ run \in [at: {"idle", "charge", "check", "record", "attempt", "release"},
              period: Periods, attempt: 0..RETRY_LIMIT]
  /\ sweeping \in BOOLEAN
  /\ deaths \in 0..MaxDeaths

\* A period is paid once, however often the run dies after its charge and is
\* started again, and a number is not given up as unpaid for a period that was paid
\* (charge_rental, rental_charged).
PeriodPaidOnce ==
  /\ \A p \in Periods : debits[p] <= 1
  /\ number.released = "unpaid" => number.period \notin charged

\* A number whose renewal is due is renewed or released in the end: no death and no
\* empty balance leaves it due for ever (Renewals.run, run_due_sweep).
DueIsDecided ==
  number.due /\ number.released = "no" ~> ~number.due \/ number.released # "no"

=============================================================================
