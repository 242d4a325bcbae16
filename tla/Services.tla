------------------------------ MODULE Services ------------------------------
(***************************************************************************)
(* The services beside the send path, the campaigns and billing: the sends *)
(* of the API, the rental of a number, the replies to a message, the       *)
(* lists of contacts, and the first sign-in.                               *)
(***************************************************************************)
CONSTANTS
  Requests, Keys, NoKey, Batches, Destinations, DISPATCH_CONCURRENCY, MaxBreaks, MaxLives,
  RETRY_LIMIT, MaxBalance, MaxPeriods, MaxDeaths,
  Inbounds, Handlers, Rules, MaxCopies, MaxRaises,
  Mobiles, Writers, LIST_CEILING, MaxWrites, MaxStops,
  Subs, Sessions, Hooks, MaxFails

VARIABLES
  record, lives, request, landing, claim, breaks,
  number, charged, debits, balance, buyer, run, sweeping, deaths,
  sent, stops, copies, handler, stored, ran, noted, optedOut, freed, raises,
  there, contacts, count, writer, out, released, blurred, restored, writes, halts,
  pointer, invited, linked, update, session, hooked, fails

Api     == INSTANCE ApiSend
Renting == INSTANCE Rentals
Inbound == INSTANCE Replies
Kept    == INSTANCE Lists
Joining == INSTANCE SignIn

ASSUME ServicesAssumption ==
  /\ Api!ApiSendAssumption
  /\ Renting!RentalsAssumption
  /\ Inbound!RepliesAssumption
  /\ Kept!ListsAssumption
  /\ Joining!SignInAssumption

apiVars     == <<record, lives, request, landing, claim, breaks>>
rentalVars  == <<number, charged, debits, balance, buyer, run, sweeping, deaths>>
replyVars   == <<sent, stops, copies, handler, stored, ran, noted, optedOut, freed, raises>>
keptVars    == <<there, contacts, count, writer, out, released, blurred, restored, writes,
                 halts>>
signInVars  == <<pointer, invited, linked, update, session, hooked, fails>>
=============================================================================
