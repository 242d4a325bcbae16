-------------------------------- MODULE Lists --------------------------------
(***************************************************************************)
(* The contact lists of an account: a standard list, its opt-out list, and *)
(* the contactCount that each list's row keeps of its contacts.            *)
(*                                                                         *)
(* One contact is written in a transaction with the counter.  Imports and  *)
(* bulk actions write contacts in batches and the counter after them, by   *)
(* what they read before.                                                  *)
(***************************************************************************)
EXTENDS Integers, FiniteSets

CONSTANTS
  Mobiles,
  Writers,       \* requests
  LIST_CEILING,
  MaxWrites,     \* bound: requests that begin
  MaxStops       \* bound: requests that die

Standard == "standard"
OptOuts  == "opt-outs"
Kinds    == {Standard, OptOuts}

ListsAssumption ==
  /\ IsFiniteSet(Mobiles)
  /\ {LIST_CEILING, MaxWrites, MaxStops} \subseteq Nat

VARIABLES
  there,     \* the lists whose row is there
  contacts,  \* the contacts of each list
  count,     \* contactCount
  writer,    \* what each request is doing
  out,       \* history: those opted out, or taken out of a list for it
  released,  \* history: those that a user removed from the opt-out list
  blurred,   \* history: lists written to under a batch that had read them, or left half done
  restored,  \* history: how often a contact of each list was put back without being counted
  writes, halts

vars == <<there, contacts, count, writer, out, released, blurred, restored, writes,
          halts>>
History == <<out, released, writes, halts>>

-----------------------------------------------------------------------------

\* list: the list of the request, from which it removes; into: the one it adds to;
\* mobiles: the contacts it is about; room: what the list had left, as it was read;
\* fresh: how many will be counted; old: the number that a contact gives up.
Idle == [at |-> "idle", list |-> Standard, into |-> Standard, mobiles |-> {},
         room |-> 0, fresh |-> 0, old |-> {}]

Init ==
  /\ there = Kinds
  /\ contacts \in [Kinds -> SUBSET Mobiles]
  /\ count = [l \in Kinds |-> Cardinality(contacts[l])]
  /\ writer = [w \in Writers |-> Idle]
  /\ out = {} /\ released = {} /\ blurred = {} /\ restored = [l \in Kinds |-> 0]
  /\ writes = 0 /\ halts = 0

At(w, place) == writer[w].at = place
Goto(w, place) == writer' = [writer EXCEPT ![w].at = place]
Done(w) == writer' = [writer EXCEPT ![w] = Idle]

\* has_room: the opt-out list has no ceiling.
RoomOf(l) == IF l = OptOuts THEN Cardinality(Mobiles) ELSE LIST_CEILING - count[l]

Begin(w, l, request) ==
  /\ At(w, "idle") /\ l \in there /\ writes < MaxWrites
  /\ writes' = writes + 1
  /\ writer' = [writer EXCEPT ![w] = request]
  /\ UNCHANGED <<there, contacts, count, out, released, halts>>

Keeps == UNCHANGED <<there, contacts, count>> /\ UNCHANGED History

\* ADD contactCount, if the list's row is there.
CountChange(l, delta) ==
  count' = IF l \in there THEN [count EXCEPT ![l] = @ + delta] ELSE count

Put(l, ms) == contacts' = [contacts EXCEPT ![l] = @ \cup ms]
Delete(l, ms) == contacts' = [contacts EXCEPT ![l] = @ \ ms]

\* A user who takes numbers off the opt-out list releases them.
Releases(l, ms) == released' = IF l = OptOuts THEN released \cup ms ELSE released

-----------------------------------------------------------------------------
(* One contact: add_contact, update_contact, remove_contact, opt_out *)

\* A contact is added; an existing one is given this number or another; a STOP puts
\* its sender on the opt-out list, for which the list's row is not read.
StartAdd(w, l, m) ==
  Begin(w, l, [Idle EXCEPT !.at = "room", !.list = l, !.mobiles = {m}, !.room = RoomOf(l)])

StartUpdate(w, l, old, m) ==
  /\ old \in contacts[l]
  /\ Begin(w, l, [Idle EXCEPT !.at = "room", !.list = l, !.mobiles = {m}, !.room = RoomOf(l),
                              !.old = {old} \ {m}])

StartOptOut(w, m) ==
  Begin(w, OptOuts, [Idle EXCEPT !.at = "insert", !.list = OptOuts, !.mobiles = {m}])

\* A full list takes only what it has.
Room(w, l) ==
  /\ At(w, "room") /\ writer[w].list = l
  /\ IF writer[w].room >= 1 \/ writer[w].mobiles \subseteq contacts[l]
     THEN Goto(w, "insert") ELSE Done(w)
  /\ Keeps

Stored(w, l) ==
  /\ IF writer[w].old = {} THEN Done(w) ELSE Goto(w, "drop")
  /\ out' = IF l = OptOuts THEN out \cup writer[w].mobiles ELSE out

\* upsert_contact: the transaction, and the put that follows if it is refused.
Insert(w, l) ==
  /\ At(w, "insert") /\ writer[w].list = l
  /\ IF l \in there /\ writer[w].mobiles \cap contacts[l] = {}
     THEN Put(l, writer[w].mobiles) /\ CountChange(l, 1) /\ Stored(w, l)
     ELSE Goto(w, "overwrite") /\ UNCHANGED <<contacts, count, out>>
  /\ UNCHANGED <<there, released, writes, halts>>

Overwrite(w, l) ==
  /\ At(w, "overwrite") /\ writer[w].list = l
  /\ Put(l, writer[w].mobiles)
  /\ Stored(w, l)
  /\ UNCHANGED <<there, count, released, writes, halts>>

\* delete_contact: one transaction.
DeleteOne(l, ms) ==
  IF l \in there /\ ms \subseteq contacts[l]
  THEN Delete(l, ms) /\ CountChange(l, -1) /\ Releases(l, ms)
  ELSE UNCHANGED <<contacts, count, released>>

\* The number that was given up is deleted after the new one is there.
Drop(w, l) ==
  /\ At(w, "drop") /\ writer[w].list = l
  /\ DeleteOne(l, writer[w].old)
  /\ Done(w)
  /\ UNCHANGED <<there, out, writes, halts>>

StartRemove(w, l, m) ==
  Begin(w, l, [Idle EXCEPT !.at = "drop", !.list = l, !.old = {m}])

-----------------------------------------------------------------------------
(* Many contacts: import_contacts, bulk, clean_up, delete_list *)

StartImport(w, l, ms) ==
  Begin(w, l, [Idle EXCEPT !.at = "existing", !.list = l, !.into = l, !.mobiles = ms,
                           !.room = RoomOf(l)])

StartBulk(w, l, ms, action) ==
  Begin(w, l, [Idle EXCEPT !.at = action, !.list = l, !.mobiles = ms])

\* all of what was asked for, there or not: a mutant of Present.
Asked(w, l) == writer[w].mobiles

\* existing_mobiles of the ids that were asked for.
Present(w, l) == writer[w].mobiles \cap contacts[l]

\* Those of the opt-out list stay there.
BulkPresent(w, l) ==
  /\ \E action \in {"delete", "opt out"} : At(w, action)
  /\ writer[w].list = l
  /\ IF Present(w, l) = {} \/ (At(w, "opt out") /\ l = OptOuts)
     THEN Done(w)
     ELSE writer' = [writer EXCEPT
            ![w].mobiles = Present(w, l),
            ![w].at = IF At(w, "delete") THEN "remove" ELSE "existing",
            ![w].into = IF At(w, "delete") THEN l ELSE OptOuts,
            ![w].room = Cardinality(Mobiles)]
  /\ Keeps

\* clean_up of those opted out: the list is read, and then the opt-out list.  That of
\* invalid numbers is a bulk deletion.
StartCleanUp(w) ==
  Begin(w, Standard, [Idle EXCEPT !.at = "doomed", !.mobiles = contacts[Standard]])

Doomed(w) ==
  /\ At(w, "doomed")
  /\ LET doomed == writer[w].mobiles \cap contacts[OptOuts] IN
       IF doomed = {} THEN Done(w)
       ELSE writer' = [writer EXCEPT ![w].mobiles = doomed, ![w].at = "remove"]
  /\ Keeps

\* _add_many: what is not there yet is counted, and refused if there is no room.
Existing(w, l) ==
  /\ At(w, "existing") /\ writer[w].into = l
  /\ LET fresh == Cardinality(writer[w].mobiles \ contacts[l]) IN
       IF fresh > writer[w].room THEN Done(w)
       ELSE writer' = [writer EXCEPT ![w].fresh = fresh, ![w].at = "put"]
  /\ Keeps

Moves(w) == writer[w].list # writer[w].into

PutMany(w, l) ==
  /\ At(w, "put") /\ writer[w].into = l
  /\ Put(l, writer[w].mobiles)
  /\ IF writer[w].fresh > 0 THEN Goto(w, "count")
     ELSE IF Moves(w) THEN Goto(w, "remove") ELSE Done(w)
  /\ UNCHANGED <<there, count>> /\ UNCHANGED History

Count(w, l) ==
  /\ At(w, "count") /\ writer[w].into = l
  /\ CountChange(l, writer[w].fresh)
  /\ IF Moves(w) THEN Goto(w, "remove") ELSE Done(w)
  /\ UNCHANGED <<there, contacts>> /\ UNCHANGED History

\* _remove_many
RemoveMany(w, l) ==
  /\ At(w, "remove") /\ writer[w].list = l
  /\ Delete(l, writer[w].mobiles)
  /\ out' = IF Moves(w) THEN out \cup writer[w].mobiles ELSE out
  /\ Releases(l, writer[w].mobiles)
  /\ Goto(w, "uncount")
  /\ UNCHANGED <<there, count, writes, halts>>

Uncount(w, l) ==
  /\ At(w, "uncount") /\ writer[w].list = l
  /\ CountChange(l, -Cardinality(writer[w].mobiles))
  /\ Done(w)
  /\ UNCHANGED <<there, contacts>> /\ UNCHANGED History

\* The contacts that were read, and then the list's row.
StartDeleteList(w) ==
  Begin(w, Standard, [Idle EXCEPT !.at = "empty", !.mobiles = contacts[Standard]])

Empty(w) ==
  /\ At(w, "empty")
  /\ Delete(Standard, writer[w].mobiles)
  /\ Goto(w, "unlist")
  /\ UNCHANGED <<there, count>> /\ UNCHANGED History

Unlist(w) ==
  /\ At(w, "unlist")
  /\ there' = there \ {Standard}
  /\ Done(w)
  /\ UNCHANGED <<contacts, count>> /\ UNCHANGED History

-----------------------------------------------------------------------------

\* A request that dies in a batch has written some of it.
Halt(w) ==
  /\ ~At(w, "idle") /\ halts < MaxStops
  /\ halts' = halts + 1
  /\ \/ UNCHANGED <<contacts, released>>
     \/ /\ At(w, "put")
        /\ \E some \in SUBSET writer[w].mobiles : Put(writer[w].into, some)
        /\ UNCHANGED released
     \/ /\ At(w, "remove") \/ At(w, "empty")
        /\ \E some \in SUBSET writer[w].mobiles :
             Delete(writer[w].list, some) /\ Releases(writer[w].list, some)
  /\ Done(w)
  /\ UNCHANGED <<there, count, out, writes>>

\* What a batch is about to write to the list, or to count of it, goes by what it read
\* there.
StandsOn(w, l) ==
  \/ /\ writer[w].list = l
     /\ \/ writer[w].at \in {"doomed", "remove", "uncount", "empty", "unlist"}
        \/ Moves(w) /\ writer[w].at \in {"existing", "put", "count"}
  \/ writer[w].into = l /\ writer[w].at \in {"put", "count"}

Begins(w) ==
  \/ StartCleanUp(w) \/ StartDeleteList(w)
  \/ \E m \in Mobiles : StartOptOut(w, m)
  \/ \E l \in Kinds, m \in Mobiles :
        \/ StartAdd(w, l, m) \/ StartRemove(w, l, m)
        \/ \E old \in Mobiles : StartUpdate(w, l, old, m)
  \/ \E l \in Kinds, ms \in (SUBSET Mobiles) \ {{}} :
        \/ StartImport(w, l, ms)
        \/ \E action \in {"delete", "opt out"} : StartBulk(w, l, ms, action)

Goes(w) ==
  \/ Doomed(w) \/ Empty(w) \/ Unlist(w)
  \/ \E l \in Kinds :
        \/ Room(w, l) \/ Insert(w, l) \/ Overwrite(w, l) \/ Drop(w, l)
        \/ BulkPresent(w, l) \/ Existing(w, l) \/ PutMany(w, l) \/ Count(w, l)
        \/ RemoveMany(w, l) \/ Uncount(w, l)

\* A contact that was there when the transaction was refused, and was deleted since.
PutBack(w, l) == IF At(w, "overwrite") /\ contacts'[l] # contacts[l] THEN 1 ELSE 0

Writes(w) ==
  /\ Begins(w) \/ Goes(w)
  /\ blurred' = blurred \cup
       {l \in Kinds : contacts'[l] # contacts[l] /\ \E v \in Writers \ {w} : StandsOn(v, l)}
  /\ restored' = [l \in Kinds |-> restored[l] + PutBack(w, l)]

Dies(w) ==
  /\ Halt(w)
  /\ blurred' = blurred \cup
       {l \in Kinds : StandsOn(w, l) \/ (contacts'[l] # contacts[l] /\ \E v \in Writers : StandsOn(v, l))}
  /\ UNCHANGED restored

Next == \E w \in Writers : Writes(w) \/ Dies(w)

Spec == Init /\ [][Next]_vars

-----------------------------------------------------------------------------
(* Properties *)

TypeOK ==
  /\ there \subseteq Kinds /\ OptOuts \in there
  /\ contacts \in [Kinds -> SUBSET Mobiles]
  /\ count \in [Kinds -> Int]
  /\ \A w \in Writers :
        /\ writer[w].list \in Kinds /\ writer[w].into \in Kinds
        /\ writer[w].mobiles \subseteq Mobiles /\ writer[w].old \subseteq Mobiles
        /\ writer[w].fresh \in 0..Cardinality(Mobiles)
  /\ out \subseteq Mobiles /\ released \subseteq Mobiles
  /\ blurred \subseteq Kinds /\ restored \in [Kinds -> Nat]
  /\ writes \in 0..MaxWrites /\ halts \in 0..MaxStops

\* Whoever opted out, or was taken out of a list for it, is on the opt-out list until a
\* user removes him there, though the action died half way (_move_to_opt_out, opt_out).
OptedOutStay == out \ released \subseteq contacts[OptOuts]

\* A list's counter is short of its contacts by those that an update put back after they
\* were deleted under it (upsert_contact), and by nothing else, whatever single contacts are
\* written at once: but for lists written to under a batch, and batches that died (ADD_COUNT).
CountAgrees ==
  \A l \in there \ blurred :
    \/ \E w \in Writers : StandsOn(w, l)
    \/ count[l] + restored[l] = Cardinality(contacts[l])
=============================================================================
