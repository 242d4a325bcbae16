------------------------------- MODULE Replies -------------------------------
(***************************************************************************)
(* Replies of one person to what an account sent: the inbound function     *)
(* opts the person out, records the message behind a marker, runs the      *)
(* account's rules and counts the message in the inbox.                    *)
(*                                                                         *)
(* SNS delivers at least once and the function is retried when it fails.   *)
(* A reply is attributed by the message that it answers, whose provider id *)
(* the send worker writes after the provider took it.                      *)
(***************************************************************************)
EXTENDS Integers, Sequences

CONSTANTS
  Inbounds,    \* the person's replies
  Handlers,    \* invocations of the function
  Rules,       \* rules that a reply may match, run in order
  MaxCopies,   \* bound: deliveries of a reply, retries included
  MaxRaises    \* bound: invocations that die or raise

RepliesAssumption ==
  /\ Rules \in Nat
  /\ MaxCopies \in Nat \ {0}
  /\ MaxRaises \in Nat

VARIABLES
  sent,       \* the message replied to carries its provider id
  stops,      \* replies that begin with a STOP keyword
  copies,     \* deliveries of each reply
  handler,
  stored,     \* replies whose row and marker are there
  ran,        \* how often each rule acted on a reply
  noted,      \* how often the inbox counted it
  optedOut,   \* the person is on the account's opt-out list
  freed,      \* somebody has taken the person off that list
  raises

vars == <<sent, stops, copies, handler, stored, ran, noted, optedOut, freed, raises>>

-----------------------------------------------------------------------------

Idle == [at |-> "idle", inbound |-> "none", rules |-> {}]

Init ==
  /\ sent = FALSE
  /\ stops \in SUBSET Inbounds
  /\ copies = [i \in Inbounds |-> 0]
  /\ handler = [h \in Handlers |-> Idle]
  /\ stored = {}
  /\ ran = [i \in Inbounds |-> [r \in 1..Rules |-> 0]]
  /\ noted = [i \in Inbounds |-> 0]
  /\ optedOut = FALSE
  /\ freed = FALSE
  /\ raises = 0

At(h, place) == handler[h].at = place
Goto(h, place) == handler' = [handler EXCEPT ![h].at = place]
Done(h) == handler' = [handler EXCEPT ![h] = Idle]

-----------------------------------------------------------------------------
(* handle_body *)

\* mark_sent of the message that is replied to; the provider has had it for longer.
MarkSent ==
  /\ ~sent
  /\ sent' = TRUE
  /\ UNCHANGED <<stops, copies, handler, stored, ran, noted, optedOut, freed, raises>>

Deliver(h, i) ==
  /\ At(h, "idle") /\ copies[i] < MaxCopies
  /\ copies' = [copies EXCEPT ![i] = @ + 1]
  /\ handler' = [handler EXCEPT ![h] = [at |-> "find", inbound |-> i, rules |-> {}]]
  /\ UNCHANGED <<sent, stops, stored, ran, noted, optedOut, freed, raises>>

\* the person is opted out once the reply is recorded: a mutant of Path.
PathRecordFirst(i) ==
  IF i \in stops THEN <<"record", "opt out", "match">> ELSE <<"record", "match">>

\* What is done for a reply that was attributed, in order.
Path(i) ==
  IF i \in stops THEN <<"opt out", "record", "match">> ELSE <<"record", "match">>

After(i, place) == CHOOSE next \in {"record", "opt out", "match"} :
  \E k \in 2..Len(Path(i)) : Path(i)[k - 1] = place /\ Path(i)[k] = next

\* A reply to a message that is not found is dropped, and not retried.
Find(h, i) ==
  /\ At(h, "find") /\ handler[h].inbound = i
  /\ IF sent THEN Goto(h, Path(i)[1]) ELSE Done(h)
  /\ UNCHANGED <<sent, stops, copies, stored, ran, noted, optedOut, freed, raises>>

\* upsert_contact: whether it inserts or overwrites, the person is on the list.
OptOut(h, i) ==
  /\ At(h, "opt out") /\ handler[h].inbound = i
  /\ optedOut' = TRUE
  /\ Goto(h, After(i, "opt out"))
  /\ UNCHANGED <<sent, stops, copies, stored, ran, noted, freed, raises>>

\* a reply recorded before is taken for a new one: a mutant of IsFirst.
IsAny(i) == TRUE

IsFirst(i) == i \notin stored

\* The row and its marker, each put if absent, in one transaction.
Record(h, i) ==
  /\ At(h, "record") /\ handler[h].inbound = i
  /\ stored' = stored \cup {i}
  /\ IF IsFirst(i) THEN Goto(h, After(i, "record")) ELSE Done(h)
  /\ UNCHANGED <<sent, stops, copies, ran, noted, optedOut, freed, raises>>

\* run_inbound reads the rules: any that are enabled may match.
Match(h) ==
  /\ At(h, "match")
  /\ \E matched \in SUBSET (1..Rules) :
        handler' = [handler EXCEPT ![h].at = "act", ![h].rules = matched]
  /\ UNCHANGED <<sent, stops, copies, stored, ran, noted, optedOut, freed, raises>>

\* A rule's action is made, or is refused with an AppError that _safe_run logs:
\* the rules do not stop each other.
Act(h, i, r) ==
  /\ At(h, "act") /\ handler[h].inbound = i
  /\ r \in handler[h].rules /\ \A q \in handler[h].rules : r <= q
  /\ handler' = [handler EXCEPT ![h].rules = @ \ {r}]
  /\ \/ ran' = [ran EXCEPT ![i][r] = @ + 1]
     \/ UNCHANGED ran
  /\ UNCHANGED <<sent, stops, copies, stored, noted, optedOut, freed, raises>>

\* note_inbound: the conversation's unread counter.
Note(h, i) ==
  /\ At(h, "act") /\ handler[h].inbound = i /\ handler[h].rules = {}
  /\ noted' = [noted EXCEPT ![i] = @ + 1]
  /\ Done(h)
  /\ UNCHANGED <<sent, stops, copies, stored, ran, optedOut, freed, raises>>

\* The function dies, or an await raises what _safe_run does not catch.
Raise(h) ==
  /\ ~At(h, "idle") /\ raises < MaxRaises
  /\ raises' = raises + 1
  /\ Done(h)
  /\ UNCHANGED <<sent, stops, copies, stored, ran, noted, optedOut, freed>>

\* A user removes the person from the opt-out list.
Free ==
  /\ optedOut
  /\ optedOut' = FALSE /\ freed' = TRUE
  /\ UNCHANGED <<sent, stops, copies, handler, stored, ran, noted, raises>>

Next ==
  \/ MarkSent \/ Free
  \/ \E h \in Handlers : Match(h) \/ Raise(h)
  \/ \E h \in Handlers, i \in Inbounds :
        \/ Deliver(h, i) \/ Find(h, i) \/ OptOut(h, i) \/ Record(h, i) \/ Note(h, i)
        \/ \E r \in 1..Rules : Act(h, i, r)

Spec == Init /\ [][Next]_vars

-----------------------------------------------------------------------------
(* Properties *)

TypeOK ==
  /\ {sent, optedOut, freed} \subseteq BOOLEAN
  /\ stops \subseteq Inbounds /\ stored \subseteq Inbounds
  /\ copies \in [Inbounds -> 0..MaxCopies]
  /\ handler \in [Handlers -> [at: {"idle", "find", "opt out", "record", "match", "act"},
                               inbound: Inbounds \cup {"none"}, rules: SUBSET (1..Rules)]]
  /\ ran \in [Inbounds -> [1..Rules -> Nat]]
  /\ noted \in [Inbounds -> Nat]
  /\ raises \in 0..MaxRaises

\* However often a reply is delivered, each rule acts on it at most once and the
\* inbox counts it at most once; where nothing raised, it is counted (record_inbound).
RepliedOnce ==
  \A i \in Inbounds :
    /\ noted[i] <= 1 /\ \A r \in 1..Rules : ran[i][r] <= 1
    /\ raises = 0 /\ i \in stored /\ (\A h \in Handlers : handler[h].inbound # i) => noted[i] = 1

\* A STOP that is recorded, and so will not be looked at again, has opted the person
\* out, whatever died (handle_body).
StopsAreKept == stored \cap stops # {} => optedOut \/ freed
=============================================================================
