------------------------------ MODULE QuickSend ------------------------------
(***************************************************************************)
(* The Quick SMS and Quick MMS screens: a draft kept in the browser, a     *)
(* dialog that shows what it would cost, and one call that sends it.  The  *)
(* quote is a query keyed by the request it prices; the answers of sends   *)
(* and uploads come when they like.  One tab; messaging behind the API is  *)
(* external here (Messaging models it).                                    *)
(***************************************************************************)
EXTENDS Naturals, Sequences, FiniteSets, TLC

CONSTANTS Numbers,         \* the numbers that are typed or picked as contacts
          Preset,          \* whether the URL names a list (?listId=)
          Touched,         \* bound: the fields of a draft that are changed
          MAX_RECIPIENTS,  \* the most recipients a draft takes
          MaxSlots,        \* bound: requests under way at once
          MaxEdits,        \* bound: changes made to drafts
          MaxMounts,       \* bound: times a composer is mounted
          MaxDialogs       \* bound: times a send is to be confirmed

\* A number is not the id of a list.
QuickSendAssumption ==
  /\ Preset \in BOOLEAN /\ "list" \notin Numbers
  /\ MAX_RECIPIENTS \in Nat /\ MaxSlots \in Nat /\ MaxEdits \in Nat
  /\ MaxMounts \in Nat /\ MaxDialogs \in Nat

VARIABLES
  senders,   \* the query of the senders: loading, ok or error
  lists,     \* whether the query of the lists holds them
  composer,  \* the composer that is mounted, or NoComposer
  quotes,    \* the requests whose quote the query cache holds
  requests,  \* the sends and uploads under way
  accepted,  \* how many sends the API accepted, by dialog
  edits,     \* how many changes have been made
  mounts,    \* how many composers have been mounted
  dialogs    \* how many dialogs have been opened

vars == <<senders, lists, composer, quotes, requests, accepted, edits, mounts, dialogs>>

None  == "none"
Slots == 1 .. MaxSlots

-----------------------------------------------------------------------------
(* rules.ts and recipients/rules.ts                                        *)

contactRecipient(n) == [kind |-> "NUMBER", value |-> n]
listRecipient       == [kind |-> "LIST", value |-> "list"]

emptyDraft(kind) ==
  [kind |-> kind, recipients |-> <<>>, body |-> "", mediaKey |-> None, senderId |-> "",
   sendAt |-> "", subject |-> "", shortenUrls |-> FALSE]

isSendable(draft) ==
  /\ draft.recipients # <<>>
  /\ IF draft.kind = "MMS" THEN draft.mediaKey # None ELSE draft.body # ""

\* The lists go by their id, every other recipient by its number.
valuesOf(recipients, kind) ==
  LET OfKind(chip) == chip.kind = kind
      Value(chip)  == chip.value
  IN {Value(recipients[i]) : i \in {j \in DOMAIN recipients : OfKind(recipients[j])}}

quickSendRequest(draft) ==
  [listIds |-> valuesOf(draft.recipients, "LIST"), to |-> valuesOf(draft.recipients, "NUMBER"),
   body |-> draft.body, mediaKey |-> draft.mediaKey, senderId |-> draft.senderId,
   sendAt |-> draft.sendAt, subject |-> draft.subject, shortenUrls |-> draft.shortenUrls]

Chosen(recipients) == {recipients[i].value : i \in DOMAIN recipients}

\* What adding a recipient leaves of the chips: a known one changes nothing,
\* and so does one too many, which is refused.
addRecipient(recipients, entry) ==
  IF entry.value \in Chosen(recipients) \/ Len(recipients) >= MAX_RECIPIENTS
    THEN recipients ELSE Append(recipients, entry)

\* A value is there once, so one chip goes.
withoutRecipient(recipients, value) ==
  LET i == CHOOSE j \in DOMAIN recipients : recipients[j].value = value
  IN SubSeq(recipients, 1, i - 1) \o SubSeq(recipients, i + 1, Len(recipients))

hasNamedRecipient(recipients) == \E i \in DOMAIN recipients : recipients[i].kind # "NUMBER"

-----------------------------------------------------------------------------
(* The fields, as the changes they make                                    *)

RecipientSuggestions ==
  {contactRecipient(n) : n \in Numbers} \cup (IF lists THEN {listRecipient} ELSE {})

RecipientField(draft) ==
  {[recipients |-> addRecipient(draft.recipients, r)] : r \in RecipientSuggestions}
    \cup {[recipients |-> withoutRecipient(draft.recipients, v)] : v \in Chosen(draft.recipients)}

SenderSelect   == {[senderId |-> "sender"]}
SendTimeChoice == {[sendAt |-> t] : t \in {"", "later"}}

\* A placeholder needs a recipient with a name; a template replaces the body.
ComposerToolbar(draft) ==
  {[body |-> "text"]} \cup
  (IF hasNamedRecipient(draft.recipients) THEN {[body |-> "{first_name}"]} ELSE {})

MessageComposer(draft) ==
  ComposerToolbar(draft) \cup {[body |-> ""]} \cup {[shortenUrls |-> b] : b \in BOOLEAN}

MmsComposer(draft) ==
  ComposerToolbar(draft) \cup {[subject |-> "subject"]}
    \cup (IF draft.mediaKey = None THEN {} ELSE {[mediaKey |-> None]})

QuickSmsForm(draft) ==
  RecipientField(draft) \cup SenderSelect \cup MessageComposer(draft) \cup SendTimeChoice
QuickMmsForm(draft) ==
  RecipientField(draft) \cup SenderSelect \cup MmsComposer(draft) \cup SendTimeChoice

\* A draft with what a change replaces.
Patched(draft, change) ==
  [f \in DOMAIN draft |-> IF f \in DOMAIN change THEN change[f] ELSE draft[f]]

Changes(draft) ==
  {change \in IF draft.kind = "MMS" THEN QuickMmsForm(draft) ELSE QuickSmsForm(draft) :
     DOMAIN change \subseteq Touched /\ Patched(draft, change) # draft}

-----------------------------------------------------------------------------
NoComposer == [kind |-> None]
NoRequest  == [op |-> None]

TypeOK ==
  /\ senders \in {"loading", "ok", "error"} /\ lists \in BOOLEAN
  /\ composer # NoComposer =>
       /\ senders = "ok"
       /\ composer.sending \in 0 .. MaxSlots /\ (composer.sending # 0 => composer.confirming)
       /\ Cardinality(Chosen(composer.draft.recipients)) = Len(composer.draft.recipients)
  /\ \A s \in Slots : requests[s].op \in {None, "send", "upload"}
  /\ accepted \in [1 .. MaxDialogs -> Nat]
  /\ edits \in 0 .. MaxEdits /\ mounts \in 0 .. MaxMounts /\ dialogs \in 0 .. MaxDialogs

Init ==
  /\ senders = "loading" /\ lists = FALSE
  /\ composer = NoComposer
  /\ quotes = {}
  /\ requests = [s \in Slots |-> NoRequest]
  /\ accepted = [d \in 1 .. MaxDialogs |-> 0]
  /\ edits = 0 /\ mounts = 0 /\ dialogs = 0

Mounted   == composer # NoComposer
Reachable == Mounted /\ ~composer.confirming

Free    == {s \in Slots : requests[s] = NoRequest}
Slot    == CHOOSE s \in Free : \A t \in Free : s <= t
Sent(q) == [requests EXCEPT ![Slot] = q]
Done(s) == [requests EXCEPT ![s] = NoRequest]

\* The effect that puts the list of the URL among the recipients, once.
Seeded(c, loaded) ==
  IF Preset /\ loaded /\ ~c.seeded
    THEN [c EXCEPT !.seeded = TRUE, !.draft.recipients = Append(@, listRecipient)]
    ELSE c

-----------------------------------------------------------------------------
(* The screen and its queries                                              *)

\* A fetch that fails replaces what was there, and the composer goes.
QuickSendScreen ==
  /\ \/ /\ senders' = "ok"
        /\ UNCHANGED composer
     \/ /\ senders' = "error"
        /\ composer' = NoComposer
  /\ UNCHANGED <<lists, quotes, requests, accepted, edits, mounts, dialogs>>

QuickComposer(kind) ==
  /\ senders = "ok" /\ ~Mounted /\ mounts < MaxMounts
  /\ mounts' = mounts + 1
  /\ composer' = Seeded([kind |-> kind, n |-> mounts', draft |-> emptyDraft(kind),
                         confirming |-> FALSE, sending |-> 0, seeded |-> FALSE], lists)
  /\ UNCHANGED <<senders, lists, quotes, requests, accepted, edits, dialogs>>

ListsFetched ==
  /\ lists' \in BOOLEAN
  /\ composer' = IF Mounted THEN Seeded(composer, lists') ELSE composer
  /\ UNCHANGED <<senders, quotes, requests, accepted, edits, mounts, dialogs>>

onPatch ==
  /\ Reachable /\ edits < MaxEdits
  /\ edits' = edits + 1
  /\ \E change \in Changes(composer.draft) :
       composer' = [composer EXCEPT !.draft = Patched(@, change)]
  /\ UNCHANGED <<senders, lists, quotes, requests, accepted, mounts, dialogs>>

\* The file goes up under the draft of the moment it was picked.
MediaUpload ==
  /\ Reachable /\ composer.kind = "MMS" /\ composer.draft.mediaKey = None
  /\ Free # {} /\ edits < MaxEdits
  /\ edits' = edits + 1
  /\ requests' = Sent([op |-> "upload", base |-> composer.draft, n |-> composer.n,
                    answer |-> None])
  /\ UNCHANGED <<senders, lists, composer, quotes, accepted, mounts, dialogs>>

Confirm ==
  /\ Reachable /\ isSendable(composer.draft)
  /\ dialogs < MaxDialogs
  /\ dialogs' = dialogs + 1
  /\ composer' = [composer EXCEPT !.confirming = TRUE]
  /\ UNCHANGED <<senders, lists, quotes, requests, accepted, edits, mounts>>

-----------------------------------------------------------------------------
(* ConfirmSendModal                                                        *)

input == quickSendRequest(composer.draft)

\* The quote of the draft that is shown, first or again.
Quoted ==
  /\ Mounted /\ composer.confirming
  /\ quotes' \in {quotes \cup {input}, quotes \ {input}}
  /\ UNCHANGED <<senders, lists, composer, requests, accepted, edits, mounts, dialogs>>

\* Any quote will do, be it of another draft: a mutant of isQuoted.
isQuotedOnce == quotes # {}

isQuoted == input \in quotes

\* The button is not disabled while a send is out: a mutant of submit.
submitAgain ==
  /\ Mounted /\ composer.confirming
  /\ isQuoted
  /\ Free # {}
  /\ requests' = Sent([op |-> "send", input |-> input, dialog |-> dialogs,
                    answer |-> None])
  /\ composer' = [composer EXCEPT !.sending = Slot]
  /\ UNCHANGED <<senders, lists, quotes, accepted, edits, mounts, dialogs>>

submit ==
  /\ Mounted /\ composer.confirming
  /\ isQuoted /\ composer.sending = 0
  /\ Free # {}
  /\ requests' = Sent([op |-> "send", input |-> input, dialog |-> dialogs,
                    answer |-> None])
  /\ composer' = [composer EXCEPT !.sending = Slot]
  /\ UNCHANGED <<senders, lists, quotes, accepted, edits, mounts, dialogs>>

\* The dialog may be closed at any time, its send under way or not.
CloseModal ==
  /\ Mounted /\ composer.confirming
  /\ composer' = [composer EXCEPT !.confirming = FALSE, !.sending = 0]
  /\ UNCHANGED <<senders, lists, quotes, requests, accepted, edits, mounts, dialogs>>

\* The API accepts a send or refuses it, or the answer is lost either way.
Handle(s) ==
  /\ requests[s].op # None /\ requests[s].answer = None
  /\ \E acts \in BOOLEAN, answer \in {"ok", "error"} :
       /\ ~acts => answer = "error"
       /\ requests' = [requests EXCEPT ![s].answer = answer]
       /\ accepted' = IF acts /\ requests[s].op = "send"
                        THEN [accepted EXCEPT ![requests[s].dialog] = @ + 1] ELSE accepted
  /\ UNCHANGED <<senders, lists, composer, quotes, edits, mounts, dialogs>>

\* The dialog closes on any answer; the draft goes once it is sent.
finish(answer) ==
  composer' = [composer EXCEPT !.confirming = FALSE, !.sending = 0,
                               !.draft = IF answer = "ok" THEN emptyDraft(composer.kind) ELSE @]

\* A dialog that was closed meanwhile hears nothing.
SendAnswered(s) ==
  /\ requests[s].op = "send" /\ requests[s].answer # None
  /\ requests' = Done(s)
  /\ IF Mounted /\ composer.sending = s THEN finish(requests[s].answer) ELSE UNCHANGED composer
  /\ UNCHANGED <<senders, lists, quotes, accepted, edits, mounts, dialogs>>

Uploaded(s) ==
  /\ requests[s].op = "upload" /\ requests[s].answer # None
  /\ requests' = Done(s)
  /\ composer' = IF Mounted /\ composer.n = requests[s].n /\ requests[s].answer = "ok"
                   THEN [composer EXCEPT !.draft = Patched(requests[s].base, [mediaKey |-> "key"])]
                   ELSE composer
  /\ UNCHANGED <<senders, lists, quotes, accepted, edits, mounts, dialogs>>

-----------------------------------------------------------------------------
Next ==
  \/ QuickSendScreen \/ ListsFetched
  \/ \E kind \in {"SMS", "MMS"} : QuickComposer(kind)
  \/ onPatch \/ MediaUpload \/ Confirm \/ Quoted \/ submit \/ CloseModal
  \/ \E s \in Slots : Handle(s) \/ SendAnswered(s) \/ Uploaded(s)

Spec == Init /\ [][Next]_vars

-----------------------------------------------------------------------------
(* Properties                                                              *)

\* What goes to the API is what the dialog has a price for at that moment, even
\* when an upload answers under the open dialog and changes its draft.
SentAsQuoted ==
  [][\A s \in Slots : requests'[s].op = "send" /\ requests[s].op # "send" =>
       requests'[s].input \in quotes]_vars

\* One dialog sends its message at most once, whatever becomes of the answer:
\* no second press while one is out, and none after an answer that was lost.
SentOncePerDialog == \A d \in 1 .. MaxDialogs : accepted[d] <= 1
=============================================================================
