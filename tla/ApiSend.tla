------------------------------- MODULE ApiSend -------------------------------
(***************************************************************************)
(* Sends through the developer API: the record of the Idempotency-Key      *)
(* around a request, the campaign that every API message of an account     *)
(* lands in, the reservation for the batch, its dispatches, and the        *)
(* settlement.  Dispatch itself is the subject of Messaging; here one is   *)
(* accepted, refused, answered as a duplicate, or raises.                  *)
(***************************************************************************)
EXTENDS Integers, Sequences, FiniteSets

CONSTANTS
  Requests,              \* requests that may come
  Keys, NoKey,           \* what they carry in Idempotency-Key
  Batches,               \* the destinations of a request's messages, in order
  Destinations,
  DISPATCH_CONCURRENCY,  \* dispatches of a request that run at once
  MaxBreaks,             \* bound: awaits that raise, and requests that die
  MaxLives               \* bound: days after which a key is free again

ApiSendAssumption ==
  /\ NoKey \notin Keys
  /\ Batches \subseteq Seq(Destinations) \ {<<>>}
  /\ DISPATCH_CONCURRENCY \in Nat \ {0}
  /\ {MaxBreaks, MaxLives} \subseteq Nat

VARIABLES
  record,   \* the IDEM# items, with the total that a stored response names
  lives,    \* how often the record of a key has expired
  request,  \* what each request is doing
  landing,  \* API_CAMPAIGN#: whether the account's landing campaign is known
  claim,    \* the row behind the SENT# marker of landing campaign and destination
  breaks

vars == <<record, lives, request, landing, claim, breaks>>

-----------------------------------------------------------------------------

Absent == [status |-> "absent", total |-> 0]

\* "unknown": the dispatch raised, and whether the provider has the message is open.
Outcomes == {"open", "claimed", "accepted", "refused", "duplicate", "unknown"}

NoRequest == [at |-> "new", key |-> NoKey, life |-> 0, batch |-> <<>>,
              outcome |-> <<>>, debited |-> 0, refunded |-> 0, total |-> 0]

\* Prices are equal, so that money is counted in messages.
Init ==
  /\ record = [k \in Keys |-> Absent]
  /\ lives = [k \in Keys |-> 0]
  /\ request = [r \in Requests |-> NoRequest]
  /\ landing = "none"
  /\ claim = [d \in Destinations |-> "none"]
  /\ breaks = 0

At(r, place) == request[r].at = place
Goto(r, place) == request' = [request EXCEPT ![r].at = place]
Messages(r) == DOMAIN request[r].batch
Keyed(r) == request[r].key # NoKey
Working(r) == ~\E place \in {"new", "answered", "conflict", "replayed", "failed"} : At(r, place)

-----------------------------------------------------------------------------
(* The record of the key: idempotent. *)

Arrive(r, k, batch) ==
  /\ At(r, "new")
  /\ request' = [request EXCEPT ![r] =
       [NoRequest EXCEPT !.key = k, !.batch = batch,
                         !.life = IF k = NoKey THEN 0 ELSE lives[k],
                         !.outcome = [i \in DOMAIN batch |-> "open"],
                         !.at = IF k = NoKey THEN "price" ELSE "begin"]]
  /\ UNCHANGED <<record, lives, landing, claim, breaks>>

\* a record that is not done is taken over: a mutant of IsFree.
IsNotDone(k) == record[k].status # "done"

\* begin_idempotency's put-if-absent.
IsFree(k) == record[k].status = "absent"

Begin(r, k) ==
  /\ At(r, "begin") /\ request[r].key = k
  /\ IF IsFree(k)
     THEN record' = [record EXCEPT ![k].status = "in flight"] /\ Goto(r, "price")
     ELSE UNCHANGED record /\ Goto(r, "peek")
  /\ UNCHANGED <<lives, landing, claim, breaks>>

\* Answered with what is stored, or 409.
Peek(r, k) ==
  /\ At(r, "peek") /\ request[r].key = k
  /\ request' = [request EXCEPT
       ![r].at = IF record[k].status = "done" THEN "replayed" ELSE "conflict",
       ![r].total = record[k].total]
  /\ UNCHANGED <<record, lives, landing, claim, breaks>>

\* finish_idempotency, if the record is still there.
Finish(r, k) ==
  /\ At(r, "finish") /\ request[r].key = k
  /\ record' = IF record[k].status = "absent" THEN record
               ELSE [record EXCEPT ![k] = [status |-> "done", total |-> request[r].total]]
  /\ Goto(r, "answered")
  /\ UNCHANGED <<lives, landing, claim, breaks>>

\* IDEMPOTENCY_TTL is a day; no request lives that long.
Expire(k) ==
  /\ record[k].status # "absent" /\ lives[k] < MaxLives
  /\ \A r \in Requests : request[r].key = k => ~Working(r)
  /\ record' = [record EXCEPT ![k] = Absent]
  /\ lives' = [lives EXCEPT ![k] = @ + 1]
  /\ UNCHANGED <<request, landing, claim, breaks>>

-----------------------------------------------------------------------------
(* The work: send, _send_priced. *)

\* The policy refuses the batch, or the messages are priced.
Price(r) ==
  /\ At(r, "price")
  /\ \E place \in {"landing", "failed"} : Goto(r, place)
  /\ UNCHANGED <<record, lives, landing, claim, breaks>>

\* A draft is made for the account's first request; of two, one stays.
Landing(r) ==
  /\ At(r, "landing")
  /\ Goto(r, IF landing = "none" THEN "remember" ELSE "reserve")
  /\ UNCHANGED <<record, lives, landing, claim, breaks>>

Remember(r) ==
  /\ At(r, "remember")
  /\ landing' = "made"
  /\ Goto(r, "reserve")
  /\ UNCHANGED <<record, lives, claim, breaks>>

\* The balance covers the batch, or does not.
Reserve(r) ==
  /\ At(r, "reserve")
  /\ \/ request' = [request EXCEPT ![r].at = "dispatch", ![r].debited = Len(request[r].batch)]
     \/ Goto(r, "failed")
  /\ UNCHANGED <<record, lives, landing, claim, breaks>>

Over(r, i) == request[r].outcome[i] \in {"accepted", "refused", "duplicate", "unknown"}

\* itertools.batched and gather.  A dispatch that raises fails the request, while
\* those gathered with it may go on.
MayRun(r, i) ==
  /\ At(r, "dispatch") \/ At(r, "raised")
  /\ \A j \in Messages(r) :
        (j - 1) \div DISPATCH_CONCURRENCY < (i - 1) \div DISPATCH_CONCURRENCY => Over(r, j)

Meets(r, i, outcome) == request' = [request EXCEPT ![r].outcome[i] = outcome]

\* The claim's transaction.  A row that nobody is at work on may be a minute old,
\* and is then taken over where its attempt was not made.
Claim(r, i) ==
  LET d == request[r].batch[i]
      atWork == \E q \in Requests : Working(q) /\
                  \E j \in Messages(q) : request[q].batch[j] = d /\ request[q].outcome[j] = "claimed"
  IN /\ MayRun(r, i) /\ request[r].outcome[i] = "open"
     /\ \/ claim[d] = "none" /\ Meets(r, i, "claimed")
        \/ claim[d] # "none" /\ Meets(r, i, "duplicate")
        \/ claim[d] = "claimed" /\ ~atWork /\ Meets(r, i, "claimed")
     /\ claim' = IF claim[d] = "none" THEN [claim EXCEPT ![d] = "claimed"] ELSE claim
     /\ UNCHANGED <<record, lives, landing, breaks>>

\* Refused by the policy or by the provider.
Refuse(r, i) ==
  /\ MayRun(r, i) /\ request[r].outcome[i] = "claimed"
  /\ claim' = [claim EXCEPT ![request[r].batch[i]] = "over"]
  /\ Meets(r, i, "refused")
  /\ UNCHANGED <<record, lives, landing, breaks>>

\* The attempt's fence, the provider's receipt and mark_sent.
Accept(r, i) ==
  /\ MayRun(r, i) /\ request[r].outcome[i] = "claimed"
  /\ claim' = [claim EXCEPT ![request[r].batch[i]] = "over"]
  /\ Meets(r, i, "accepted")
  /\ UNCHANGED <<record, lives, landing, breaks>>

\* The provider is unavailable, after the attempt's fence.
Raise(r, i) ==
  /\ MayRun(r, i) /\ request[r].outcome[i] = "claimed"
  /\ breaks < MaxBreaks
  /\ breaks' = breaks + 1
  /\ claim' = [claim EXCEPT ![request[r].batch[i]] = "over"]
  /\ request' = [request EXCEPT ![r].at = "raised", ![r].outcome[i] = "unknown"]
  /\ UNCHANGED <<record, lives, landing>>

\* The request answers with the error while those gathered go on, or once they are over.
Fail(r) ==
  /\ At(r, "raised")
  /\ Goto(r, "failed")
  /\ UNCHANGED <<record, lives, landing, claim, breaks>>

Refused(r) == {i \in Messages(r) : request[r].outcome[i] = "refused"}

\* what was refused is not given back: a mutant of Settled.
SettledInFull(r) == Len(request[r].batch)

\* A duplicate counts as one that was taken.
Settled(r) == Len(request[r].batch) - Cardinality(Refused(r))

\* settle writes a REFUND row where there is something to give back.
Settle(r) ==
  /\ At(r, "dispatch")
  /\ \A i \in Messages(r) : Over(r, i)
  /\ request' = [request EXCEPT
       ![r].refunded = @ + request[r].debited - Settled(r),
       ![r].total = Settled(r),
       ![r].at = IF Keyed(r) THEN "finish" ELSE "answered"]
  /\ UNCHANGED <<record, lives, landing, claim, breaks>>

\* An await raises, the function times out or dies: nobody settles the batch or
\* finishes the record.
Break(r) ==
  /\ Working(r)
  /\ breaks < MaxBreaks
  /\ breaks' = breaks + 1
  /\ Goto(r, "failed")
  /\ UNCHANGED <<record, lives, landing, claim>>

-----------------------------------------------------------------------------

Next ==
  \/ \E r \in Requests, k \in Keys \cup {NoKey}, batch \in Batches : Arrive(r, k, batch)
  \/ \E r \in Requests, k \in Keys : Begin(r, k) \/ Peek(r, k) \/ Finish(r, k)
  \/ \E r \in Requests : Price(r) \/ Landing(r) \/ Remember(r) \/ Reserve(r) \/ Settle(r)
                           \/ Fail(r) \/ Break(r)
  \/ \E r \in Requests : \E i \in Messages(r) :
        Claim(r, i) \/ Refuse(r, i) \/ Accept(r, i) \/ Raise(r, i)
  \/ \E k \in Keys : Expire(k)

Spec == Init /\ [][Next]_vars

-----------------------------------------------------------------------------
(* Properties. *)

TypeOK ==
  /\ record \in [Keys -> [status: {"absent", "in flight", "done"}, total: Nat]]
  /\ lives \in [Keys -> 0..MaxLives]
  /\ \A r \in Requests :
        /\ request[r].key \in Keys \cup {NoKey}
        /\ request[r].outcome \in [Messages(r) -> Outcomes]
        /\ request[r].debited \in Nat /\ request[r].refunded \in 0..request[r].debited
  /\ landing \in {"none", "made"}
  /\ claim \in [Destinations -> {"none", "claimed", "over"}]
  /\ breaks \in 0..MaxBreaks

\* Of the requests that repeat a key while its record lives, one reserves and
\* sends, whatever it or the others meet, and a replay names what that one was
\* billed (idempotent, finish_idempotency).
RepeatsActOnce ==
  \A r, q \in Requests :
    Keyed(r) /\ request[r].key = request[q].key /\ request[r].life = request[q].life =>
      /\ request[r].debited > 0 /\ request[q].debited > 0 => r = q
      /\ At(r, "replayed") /\ request[q].debited > 0 =>
            request[r].total = request[q].debited - request[q].refunded

\* A batch is given back what was refused of it, when all of it is over, and the
\* response names what is left (_send_priced, settle).
BilledAsDispatched ==
  \A r \in Requests :
    /\ request[r].refunded > 0 => \A i \in Messages(r) : Over(r, i)
    /\ At(r, "finish") \/ At(r, "answered") =>
          /\ request[r].refunded = Cardinality(Refused(r))
          /\ request[r].total = request[r].debited - request[r].refunded

\* "A retried POST /sms/send without the header sends twice" (specs/04): what a
\* response bills for was given to the provider.  The landing campaign is one for
\* all requests, and its marker answers the second message to a number as a
\* duplicate for two days.
BilledIsSent ==
  \A r \in Requests : At(r, "answered") =>
    request[r].total = Cardinality({i \in Messages(r) : request[r].outcome[i] = "accepted"})

=============================================================================
