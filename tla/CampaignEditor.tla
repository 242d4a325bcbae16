--------------------------- MODULE CampaignEditor ---------------------------
(***************************************************************************)
(* The campaigns screen of the dashboard: the list, the report and above   *)
(* all the editor, which keeps a draft in the browser, saves it, has it    *)
(* priced and schedules it, while the answers of the API arrive late, out  *)
(* of order, after the editor was left, or never.  One tab at one API; the *)
(* campaigns behind the API are external here (Campaigns models them).     *)
(***************************************************************************)
EXTENDS Naturals, FiniteSets, TLC

CONSTANTS Old,        \* the campaigns the list shows when the screen opens
          New,        \* the ids the API gives to campaigns created later
          Touched,    \* bound: the fields of a draft that are changed
          MaxSlots,   \* bound: requests of the screen under way at once
          MaxEdits,   \* bound: changes made to drafts
          MaxHaste,   \* bound: inputs of a form that do not wait for an answer
          MaxForms    \* bound: times a form is mounted

CampaignEditorAssumption ==
  /\ Old \cap New = {}
  /\ MaxSlots \in Nat /\ MaxEdits \in Nat
  /\ MaxHaste \in Nat \ {0} /\ MaxForms \in Nat

VARIABLES
  view,      \* what the screen shows: kind and campaign
  cached,    \* each campaign as the query cache has it
  form,      \* the form that is mounted, or NoForm
  requests,  \* the mutations and uploads under way
  store,     \* the campaigns behind the API
  edits,     \* how many changes have been made
  forms,     \* how many forms have been mounted
  hasty      \* how often this form was used before an answer had come

vars == <<view, cached, form, requests, store, edits, forms, hasty>>

None    == "none"
Refused == "refused"
Ids     == Old \cup New
Slots   == 1 .. MaxSlots

\* No draft, and what the cache holds of a campaign whose fetch failed.
NoDraft == [absent |-> TRUE]
Failure == [absent |-> FALSE]

-----------------------------------------------------------------------------
(* What a draft holds and how the steps change it                          *)

REPLY_STOP_FOOTER == "reply stop"

footerFor(mode) == IF mode = "REPLY_STOP" THEN REPLY_STOP_FOOTER ELSE "unsubscribe link"

emptyDraft ==
  [name |-> "", listId |-> None, senderId |-> "", body |-> "", subject |-> "",
   shortenUrls |-> FALSE, optOutMode |-> "REPLY_STOP", footer |-> REPLY_STOP_FOOTER,
   mediaKey |-> None]

\* The campaign a form is opened on, as a draft.
draftOf(id) == IF id = None THEN emptyDraft ELSE cached[id]

\* The change each control makes, as the fields it replaces.
EditorHeader   == {[name |-> "spring"]}
RecipientsStep == {[listId |-> "list"]}
SenderStep     == {[senderId |-> "sender"]}
OptOutChoice   ==
  {[optOutMode |-> m, footer |-> footerFor(m)] : m \in {"REPLY_STOP", "UNSUBSCRIBE_LINK"}}
    \cup {[footer |-> "own words"]}

\* A placeholder and an emoji are appended; a template replaces the body.
MessageToolbar(body) ==
  {[body |-> "text"]} \cup {[shortenUrls |-> b] : b \in BOOLEAN}
    \cup (IF body = "" THEN {} ELSE {[body |-> "template"]})

MessageStep(draft) ==
  MessageToolbar(draft.body) \cup {[body |-> ""], [subject |-> "subject"]} \cup OptOutChoice
    \cup (IF draft.mediaKey = None THEN {} ELSE {[mediaKey |-> None]})

EditorSteps(draft) == RecipientsStep \cup SenderStep \cup MessageStep(draft)

Changes(draft) ==
  {change \in EditorHeader \cup EditorSteps(draft) :
     DOMAIN change \subseteq Touched /\ change @@ draft # draft}

-----------------------------------------------------------------------------
NoForm == [n |-> 0]
NewForm(id) ==
  [n |-> forms + 1, campaign |-> id, draft |-> draftOf(id), dirty |-> FALSE,
   quoted |-> NoDraft, savedId |-> id, leaving |-> FALSE, picking |-> FALSE,
   sendAt |-> None, scheduling |-> 0]

Absent   == [status |-> "ABSENT", content |-> emptyDraft]
Statuses == {"ABSENT", "DRAFT", "SCHEDULED", "CANCELLED"}

NoRequest == [op |-> None]
Operations == {"create", "update", "delete", "quote", "schedule", "upload"}

TypeOK ==
  /\ view \in [kind : {"LIST", "EDITOR", "REPORT"}, id : Ids \cup {None}]
  /\ DOMAIN cached = Ids /\ DOMAIN store = Ids
  /\ \A i \in Ids : store[i].status \in Statuses
  /\ form # NoForm => /\ form.savedId \in Ids \cup {None}
                      /\ form.dirty \in BOOLEAN /\ form.scheduling \in 0 .. MaxSlots
                      /\ view.kind = "EDITOR"
  /\ \A s \in Slots : requests[s].op \in Operations \cup {None}
  /\ edits \in 0 .. MaxEdits /\ forms \in 0 .. MaxForms /\ hasty \in Nat

Init ==
  /\ view = [kind |-> "LIST", id |-> None]
  /\ store = [i \in Ids |-> IF i \in Old THEN [status |-> "DRAFT", content |-> emptyDraft]
                                         ELSE Absent]
  /\ cached = [i \in Ids |-> NoDraft]
  /\ form = NoForm
  /\ requests = [s \in Slots |-> NoRequest]
  /\ edits = 0 /\ forms = 0 /\ hasty = 0

\* The campaigns the API has not made yet, and the one it makes next.
Unused == {i \in New : store[i].status = "ABSENT"}
Given  == CHOOSE i \in Unused : TRUE

\* A request takes the first free slot.
Free    == {s \in Slots : requests[s] = NoRequest}
Slot    == CHOOSE s \in Free : \A t \in Free : s <= t
Sent(q) == [requests EXCEPT ![Slot] = q]
Quiet   == \A s \in Slots : requests[s].op \in {None, "upload"}

Mounted == form # NoForm
Confirming == form.savedId # None /\ form.quoted # NoDraft /\ form.sendAt # None
\* The user goes on: in haste when an answer is still out.
Input ==
  IF Quiet THEN UNCHANGED hasty ELSE hasty < MaxHaste /\ hasty' = hasty + 1
\* The editor behind an open dialog takes no input.
Reachable == Mounted /\ ~form.leaving /\ ~Confirming

-----------------------------------------------------------------------------
(* CampaignsScreen, the list and the report                                *)

\* The list is shown and the form stays mounted: a mutant of Close.
CloseKeepsForm == /\ view' = [kind |-> "LIST", id |-> None]
                  /\ UNCHANGED form

Close == /\ view' = [kind |-> "LIST", id |-> None]
         /\ form' = NoForm

OpenNew ==
  /\ view.kind = "LIST"
  /\ view' = [kind |-> "EDITOR", id |-> None]
  /\ UNCHANGED <<cached, form, requests, store, edits, forms, hasty>>

viewOf(id, status) ==
  IF status = "DRAFT" THEN [kind |-> "EDITOR", id |-> id] ELSE [kind |-> "REPORT", id |-> None]

\* The list is fetched again after every mutation and on focus, and is behind
\* until then: a row may still show what its campaign was before.
CampaignList(id) ==
  CASE store[id].status = "ABSENT" -> {}
    [] store[id].status = "DRAFT" -> {"DRAFT"}
    [] store[id].status = "SCHEDULED" -> {"DRAFT", "SCHEDULED"}
    [] store[id].status = "CANCELLED" -> {"DRAFT", "SCHEDULED", "CANCELLED"}

OpenRow(id) ==
  /\ view.kind = "LIST"
  /\ \E status \in CampaignList(id) : view' = viewOf(id, status)
  /\ UNCHANGED <<cached, form, requests, store, edits, forms, hasty>>

CampaignReportView ==
  /\ view.kind = "REPORT"
  /\ Close
  /\ UNCHANGED <<cached, requests, store, edits, forms, hasty>>

\* Cancelling and duplicating a row: the answer only tells a refusal, so the
\* request is over when the API has handled it.
CampaignRowActions(id) ==
  /\ view.kind = "LIST"
  /\ \/ /\ "SCHEDULED" \in CampaignList(id) /\ store[id].status = "SCHEDULED"
        /\ store' = [store EXCEPT ![id].status = "CANCELLED"]
     \/ /\ CampaignList(id) # {} /\ Unused # {}
        /\ store' = [store EXCEPT ![Given] = [status |-> "DRAFT", content |-> store[id].content]]
  /\ UNCHANGED <<view, cached, form, requests, edits, forms, hasty>>

-----------------------------------------------------------------------------
(* CampaignEditor: the form is mounted on what the query cache holds       *)

CampaignEditor ==
  /\ view.kind = "EDITOR" /\ ~Mounted
  /\ view.id # None => cached[view.id] \notin {NoDraft, Failure}
  /\ forms < MaxForms
  /\ forms' = forms + 1
  /\ form' = NewForm(view.id)
  /\ hasty' = IF Quiet /\ (view.id # None => store[view.id].content = cached[view.id])
                THEN 0 ELSE 1
  /\ UNCHANGED <<view, cached, requests, store, edits>>

\* A change that leaves the draft clean: a mutant of Patched.
PatchedClean(base, change) ==
  [form EXCEPT !.draft = change @@ base, !.quoted = NoDraft, !.scheduling = 0]

\* A change that keeps the price: a mutant of Patched.
PatchedPriced(base, change) ==
  [form EXCEPT !.draft = change @@ base, !.dirty = TRUE]

Patched(base, change) ==
  [form EXCEPT !.draft = change @@ base, !.dirty = TRUE, !.quoted = NoDraft, !.scheduling = 0]

patch ==
  /\ Reachable /\ edits < MaxEdits
  /\ edits' = edits + 1
  /\ \E change \in Changes(form.draft) : form' = Patched(form.draft, change)
  /\ Input
  /\ UNCHANGED <<view, cached, requests, store, forms>>

\* A picked file is uploaded under the draft of that moment; nothing disables
\* the steps meanwhile.
MediaUpload ==
  /\ Reachable /\ Free # {} /\ form.draft.mediaKey = None
  /\ edits < MaxEdits /\ "mediaKey" \in Touched
  /\ edits' = edits + 1
  /\ requests' = Sent([op |-> "upload", base |-> form.draft, form |-> form.n, answer |-> None])
  /\ UNCHANGED <<view, cached, form, store, forms, hasty>>

\* The first save creates the campaign, the later ones replace its content.
persist(then) ==
  /\ Free # {}
  /\ requests' = Sent([op |-> IF form.savedId = None THEN "create" ELSE "update",
                       id |-> form.savedId, content |-> form.draft, form |-> form.n,
                       then |-> then, answer |-> None])

SaveDraft ==
  /\ Reachable
  /\ Input /\ persist("notice")
  /\ UNCHANGED <<view, cached, form, store, edits, forms>>

next ==
  /\ Reachable
  /\ Input /\ persist("quote")
  /\ UNCHANGED <<view, cached, form, store, edits, forms>>

\* The way back asks first when the draft is dirty.
leave ==
  /\ Reachable
  /\ IF form.dirty THEN form' = [form EXCEPT !.leaving = TRUE] /\ UNCHANGED view
                   ELSE Close
  /\ Input
  /\ UNCHANGED <<cached, requests, store, edits, forms>>

\* Only a campaign that this form created is deleted.
discard ==
  IF form.campaign = None /\ form.savedId # None
    THEN Free # {} /\ requests' = Sent([op |-> "delete", id |-> form.savedId, answer |-> None])
    ELSE UNCHANGED requests

SaveDraftDialog ==
  /\ Mounted /\ form.leaving
  /\ Input
  /\ \/ /\ form' = [form EXCEPT !.leaving = FALSE]
        /\ UNCHANGED <<view, requests>>
     \/ /\ discard
        /\ Close
     \/ /\ persist("close")
        /\ UNCHANGED <<view, form>>
  /\ UNCHANGED <<cached, store, edits, forms>>

\* SEND NOW and the arrow beside it wait for a price; the date that the arrow
\* has opened does not.
SendNowButton ==
  /\ Reachable
  /\ LET disabled == form.savedId = None \/ form.quoted = NoDraft IN
     \/ /\ ~disabled \/ form.picking
        /\ form' = [form EXCEPT !.sendAt = "chosen"]
     \/ ~disabled /\ form' = [form EXCEPT !.picking = ~@]
  /\ Input
  /\ UNCHANGED <<view, cached, requests, store, edits, forms>>

\* The dialog may be closed while its request is under way.
ConfirmCampaignModal ==
  /\ Mounted /\ Confirming
  /\ Input
  /\ \/ /\ form' = [form EXCEPT !.sendAt = None, !.scheduling = 0]
        /\ UNCHANGED requests
     \/ /\ form.scheduling = 0 /\ Free # {}
        /\ requests' = Sent([op |-> "schedule", id |-> form.savedId,
                             content |-> form.quoted, form |-> form.n,
                             answer |-> None])
        /\ form' = [form EXCEPT !.scheduling = Slot]
  /\ UNCHANGED <<view, cached, store, edits, forms>>

-----------------------------------------------------------------------------
(* The API, and the answers                                                *)

\* What the API makes of a request it accepts: the store and the answer.
Accepts(q) ==
  CASE q.op = "create" -> Unused # {}
    [] q.op \in {"update", "delete", "schedule"} -> store[q.id].status = "DRAFT"
    [] q.op = "quote" -> store[q.id].status # "ABSENT"
    [] q.op = "upload" -> TRUE

Acted(q) ==
  CASE q.op = "create" -> [store EXCEPT ![Given] = [status |-> "DRAFT", content |-> q.content]]
    [] q.op = "update" -> [store EXCEPT ![q.id].content = q.content]
    [] q.op = "delete" -> [store EXCEPT ![q.id] = Absent]
    [] q.op = "schedule" -> [store EXCEPT ![q.id].status = "SCHEDULED"]
    [] OTHER -> store

\* The answer to a create says which campaign it made; that to a quote prices
\* the content that is kept; nobody waits for that to a delete.
Answer(q) ==
  CASE q.op = "create" -> [q EXCEPT !.answer = Given]
    [] q.op = "delete" -> NoRequest
    [] q.op = "quote" -> [q EXCEPT !.answer = "ok", !.content = store[q.id].content]
    [] OTHER -> [q EXCEPT !.answer = "ok"]

Failed(q) == IF q.op = "delete" THEN NoRequest ELSE [q EXCEPT !.answer = Refused]

\* The API acts or refuses; the request or its answer may be lost, which the
\* browser cannot tell from a refusal.
Handle(s) ==
  /\ requests[s].op # None /\ requests[s].answer = None
  /\ \/ /\ Accepts(requests[s])
        /\ store' = Acted(requests[s])
        /\ \E q \in {Answer(requests[s]), Failed(requests[s])} :
             requests' = [requests EXCEPT ![s] = q]
     \/ /\ requests' = [requests EXCEPT ![s] = Failed(requests[s])]
        /\ UNCHANGED store
  /\ UNCHANGED <<view, cached, form, edits, forms, hasty>>

Answered(s, ops) ==
  /\ requests[s].op \in ops /\ requests[s].answer # None

Mine(s) == Mounted /\ form.n = requests[s].form
Done(s) == [requests EXCEPT ![s] = NoRequest]

\* The answer of a save marks the draft clean and says where it is kept; what
\* follows it does so whatever the screen shows by then.
save(s) ==
  /\ Answered(s, {"create", "update"})
  /\ LET q    == requests[s]
         id   == IF q.op = "create" THEN q.answer ELSE q.id
         kept == [form EXCEPT !.dirty = FALSE, !.savedId = id]
     IN IF q.answer = Refused
          THEN requests' = Done(s) /\ UNCHANGED <<view, form>>
          ELSE /\ requests' = IF q.then # "quote" THEN Done(s)
                              ELSE [requests EXCEPT ![s] =
                                     [op |-> "quote", id |-> id, content |-> NoDraft,
                                      form |-> q.form, answer |-> None]]
               /\ CASE q.then = "close" -> Close
                    [] q.then = "notice" /\ Mine(s) ->
                         form' = [kept EXCEPT !.leaving = FALSE] /\ UNCHANGED view
                    [] q.then = "quote" /\ Mine(s) -> form' = kept /\ UNCHANGED view
                    [] OTHER -> UNCHANGED <<view, form>>
  /\ UNCHANGED <<cached, store, edits, forms, hasty>>

Priced(s) ==
  /\ Answered(s, {"quote"})
  /\ requests' = Done(s)
  /\ form' = IF Mine(s) /\ requests[s].answer # Refused
               THEN [form EXCEPT !.quoted = requests[s].content] ELSE form
  /\ UNCHANGED <<view, cached, store, edits, forms, hasty>>

\* The dialog that asked closes the editor; a dialog closed since does nothing.
Scheduled(s) ==
  /\ Answered(s, {"schedule"})
  /\ requests' = Done(s)
  /\ IF Mine(s) /\ form.scheduling = s
       THEN IF requests[s].answer = Refused
              THEN form' = [form EXCEPT !.scheduling = 0] /\ UNCHANGED view
              ELSE Close
       ELSE UNCHANGED <<view, form>>
  /\ UNCHANGED <<cached, store, edits, forms, hasty>>

\* An uploaded file is put into the draft of the moment it was picked.
Uploaded(s) ==
  /\ Answered(s, {"upload"})
  /\ requests' = Done(s)
  /\ IF Mine(s) /\ requests[s].answer # Refused
       THEN /\ form' = Patched(requests[s].base, [mediaKey |-> "key"])
            /\ hasty' = IF Quiet THEN hasty ELSE hasty + 1
       ELSE UNCHANGED <<form, hasty>>
  /\ UNCHANGED <<view, cached, store, edits, forms>>

\* The campaign of the editor is fetched again, too; a fetch that fails replaces
\* what the cache held, and the form goes with it.
CampaignFetched ==
  /\ view.kind = "EDITOR" /\ view.id # None
  /\ \/ /\ store[view.id].status # "ABSENT"
        /\ cached' = [cached EXCEPT ![view.id] = store[view.id].content]
        /\ UNCHANGED form
     \/ /\ cached' = [cached EXCEPT ![view.id] = Failure]
        /\ form' = NoForm
  /\ UNCHANGED <<view, requests, store, edits, forms, hasty>>

-----------------------------------------------------------------------------
Next ==
  \/ OpenNew \/ CampaignReportView
  \/ \E id \in Ids : OpenRow(id) \/ CampaignRowActions(id)
  \/ CampaignEditor \/ patch \/ MediaUpload \/ SaveDraft \/ next \/ leave
  \/ SaveDraftDialog \/ SendNowButton \/ ConfirmCampaignModal
  \/ \E s \in Slots : \/ Handle(s) \/ save(s) \/ Priced(s) \/ Scheduled(s)
                      \/ Uploaded(s)
  \/ CampaignFetched

Spec == Init /\ [][Next]_vars

-----------------------------------------------------------------------------
(* Properties                                                              *)

Unsaved ==
  form.draft # IF form.savedId = None THEN emptyDraft ELSE store[form.savedId].content

\* A form that says it is clean shows what is saved, for a user who waits for
\* every answer before going on: it is what leaving without a question rests on.
CleanMeansSaved == Mounted /\ ~form.dirty /\ hasty = 0 => ~Unsaved

\* What a waiting user schedules is what the price on the dialog was for,
\* whatever saves, prices, uploads and refetches came and went before.
SentAsPriced ==
  hasty = 0 => \A s \in Slots : requests[s].op = "schedule" =>
              store[requests[s].id].content = requests[s].content
=============================================================================
