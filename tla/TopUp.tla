-------------------------------- MODULE TopUp --------------------------------
(***************************************************************************)
(* The top-up screen: what can be bought, the checkouts it asks for, and,  *)
(* when the browser is back from one, what became of it.  Three queries    *)
(* meet here: the packages, without which the rest is not on show; the     *)
(* balance; and the outcome of the checkout, polled until it is settled    *)
(* and, when it was paid, telling the balance to be fetched again.  The    *)
(* payment itself is external.                                             *)
(***************************************************************************)
EXTENDS Naturals, FiniteSets, TLC, QueryClient

CONSTANTS Codes,    \* the boosts and packs on offer
          MaxSlots  \* bound: checkouts asked for at once

TopUpAssumption == MaxSlots \in Nat

VARIABLES
  payment,    \* what became of the checkout the browser is back from, if it is
  queries,    \* the packages, the balance and the outcome
  covered,    \* whether the balance was asked for after the page said PAID
  checkouts,  \* what the checkouts under way are for
  last,       \* the one asked for last, while it is under way
  wanted,     \* what the user asked for last
  going       \* the checkout the browser is on its way to

vars == <<payment, queries, covered, checkouts, last, wanted, going>>

Queries == {"packages", "summary", "outcome"}
Slots   == 1 .. MaxSlots
Nothing == "nothing"

\* The account before and after the payment is settled; the packages on offer do
\* not depend on it.
Settled == IF payment \in {"PAID", "EXPIRED"} THEN 1 ELSE 0

TypeOK ==
  /\ covered \in BOOLEAN
  /\ payment \in {Nothing, "PENDING", "PAID", "EXPIRED"}
  /\ \A q \in Queries : queries[q].held.at \in 0 .. Settled
  /\ last \in 0 .. MaxSlots /\ {wanted, going} \subseteq Codes \cup {Nothing}
  /\ last # 0 => checkouts[last] = wanted

Init ==
  /\ payment \in {Nothing, "PENDING", "PAID"}
  /\ queries = [q \in Queries |->
                  [held |-> NoData, fetch |-> IF q = "packages" THEN Asked ELSE NoFetch]]
  /\ covered = FALSE
  /\ checkouts = [s \in Slots |-> Nothing]
  /\ last = 0 /\ wanted = Nothing /\ going = Nothing

Loaded(qs, q) == qs[q].held.is = "data"

\* Without the packages the screen shows nothing else, and what was there is
\* unmounted; the screen itself, and the checkouts it asked for, stay.
TopUpScreen(qs) ==
  {"packages"} \cup IF ~Loaded(qs, "packages") THEN {}
                    ELSE {"summary"} \cup (IF payment = Nothing THEN {} ELSE {"outcome"})

isPendingTopUp == Loaded(queries, "outcome") /\ queries["outcome"].held.at = 0

SaysPaid(qs) ==
  /\ "outcome" \in TopUpScreen(qs)
  /\ payment = "PAID" /\ Loaded(qs, "outcome") /\ qs["outcome"].held.at = 1

-----------------------------------------------------------------------------
(* Checkouts                                                               *)

Free == {s \in Slots : checkouts[s] = Nothing}
Slot == CHOOSE s \in Free : \A t \in Free : s <= t

\* Only the button of the checkout that is under way is disabled: another
\* package may be asked for, and takes its place.
buy(code) ==
  /\ Loaded(queries, "packages") /\ Free # {}
  /\ last # 0 => checkouts[last] # code
  /\ checkouts' = [checkouts EXCEPT ![Slot] = code]
  /\ last' = Slot /\ wanted' = code
  /\ UNCHANGED <<payment, queries, covered, going>>

\* Every checkout that was made is gone to: a mutant of Heard.
HeardAlways(s) == TRUE

\* The answer to a checkout that another one took the place of is not heard; a
\* refusal leaves the user where he is.
Heard(s) == s = last

useTopUpCheckout(s) ==
  /\ checkouts[s] # Nothing
  /\ checkouts' = [checkouts EXCEPT ![s] = Nothing]
  /\ going' \in {going} \cup (IF Heard(s) THEN {checkouts[s]} ELSE {})
  /\ last' = IF s = last THEN 0 ELSE last
  /\ UNCHANGED <<payment, queries, covered, wanted>>

-----------------------------------------------------------------------------
(* The queries                                                             *)

\* The provider's word reaches the API.
PaymentSettles ==
  /\ payment = "PENDING"
  /\ payment' \in {"PAID", "EXPIRED"}
  /\ UNCHANGED <<queries, covered, checkouts, last, wanted, going>>

Asking(qs) ==
  /\ \E q \in qs : queries[q].fetch = NoFetch
  /\ queries' = [q \in Queries |-> IF q \in qs THEN Fetched(queries[q]) ELSE queries[q]]
  /\ UNCHANGED <<payment, covered, checkouts, last, wanted, going>>

\* The focus of the window has everything on show fetched.
Refocus == Asking(TopUpScreen(queries))

\* Every POLL_MS, as long as the outcome on show is PENDING: a refusal ends it.
Poll ==
  /\ "outcome" \in TopUpScreen(queries) /\ isPendingTopUp
  /\ Asking({"outcome"})

Read(q) ==
  /\ queries[q].fetch = Asked
  /\ queries' = [queries EXCEPT ![q].fetch = Data(IF q = "packages" THEN 0 ELSE Settled)]
  /\ UNCHANGED <<payment, covered, checkouts, last, wanted, going>>

\* PAID tells nobody: a mutant of TopUpOutcome.
TopUpOutcomeAlone(qs) ==
  /\ queries' = qs
  /\ covered' = (covered \/ qs["summary"].held # NoData)

\* The outcome turned to PAID: the balance is stale.  Its first load, if under
\* way, is joined.
TopUpOutcome(qs) ==
  /\ queries' = [qs EXCEPT !["summary"] = Invalidated(@)]
  /\ covered' = (covered \/ qs["summary"].held # NoData \/ qs["summary"].fetch = NoFetch)

\* The packages came, or are back: the balance and the outcome are fetched as they
\* mount, or their fetches under way are joined.
Mount(qs) ==
  /\ queries' = [q \in Queries |->
       IF q \in TopUpScreen(qs) \ {"packages"} THEN Fetched(qs[q]) ELSE qs[q]]
  /\ covered' = (covered \/ (SaysPaid(qs) /\ qs["summary"].fetch = NoFetch))

Land(q, answer) ==
  LET qs == [queries EXCEPT ![q] = Landed(@, answer)]
  IN /\ queries[q].fetch \notin {NoFetch, Asked}
     /\ CASE Loaded(qs, "packages") /\ ~Loaded(queries, "packages") -> Mount(qs)
          [] q = "outcome" /\ SaysPaid(qs) /\ ~SaysPaid(queries) -> TopUpOutcome(qs)
          [] OTHER -> queries' = qs /\ UNCHANGED covered
     /\ UNCHANGED <<payment, checkouts, last, wanted, going>>

FetchOk(q)    == Land(q, queries[q].fetch)
FetchFails(q) == Land(q, Failure)

-----------------------------------------------------------------------------
\* The page ends where the browser leaves it.
Next ==
  /\ going = Nothing
  /\ \/ \E c \in Codes : buy(c)
     \/ \E s \in Slots : useTopUpCheckout(s)
     \/ PaymentSettles \/ Refocus \/ Poll
     \/ \E q \in Queries : Read(q) \/ FetchOk(q) \/ FetchFails(q)

Spec == Init /\ [][Next]_vars

-----------------------------------------------------------------------------
(* Properties                                                              *)

\* Where the page says PAID and has asked for the balance since, the balance it
\* shows once the answers are in has the credit in it, whatever the two queries
\* and a refusal of the packages did to one another.
PaidIsInBalance ==
  /\ covered /\ Loaded(queries, "summary")
  /\ "summary" \in TopUpScreen(queries) /\ queries["summary"].fetch = NoFetch
  => queries["summary"].held.at = 1

\* The browser only ever goes to the checkout of what the user asked for last,
\* in whatever order the answers come.
LastCheckoutOpens == [][going' # going => going' = wanted]_vars

\* A payment that is settled is no longer shown as pending in the end, unless the
\* page is left or taken away by a refusal.
OutcomeIsShown ==
  (Settled = 1 /\ isPendingTopUp)
    ~> (~isPendingTopUp \/ ~Loaded(queries, "packages") \/ going # Nothing)
=============================================================================
