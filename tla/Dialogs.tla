------------------------------- MODULE Dialogs -------------------------------
(***************************************************************************)
(* The screens that show a list and change it through dialogs, forms and   *)
(* row buttons.  They are one machine: a query, a dialog over it, and the  *)
(* requests of both.  What sets a screen apart is a record, one for each   *)
(* panel and each dialog: what it asks for, who hears the answer, and what *)
(* an answer does to it.  The resources behind the API are external: they  *)
(* have a version, which every change advances.                            *)
(***************************************************************************)
EXTENDS Naturals, FiniteSets, TLC, QueryClient

CONSTANTS MaxSlots,    \* bound: requests under way at once
          MaxChanges   \* bound: changes of the resources

DialogsAssumption == MaxSlots \in Nat \ {0} /\ MaxChanges \in Nat

VARIABLES
  panel,     \* the panel on show
  list,      \* its query
  dialog,    \* the dialog that is open over it, or the form in it
  revealed,  \* whether the screen holds a key it has to show
  requests,  \* the requests under way
  version,   \* how many changes the resources have seen
  answered   \* the version of the last change that was answered

vars == <<panel, list, dialog, revealed, requests, version, answered>>

-----------------------------------------------------------------------------
(* The dialogs and forms.  asks: what submitting asks for, one of them each *)
(* time it is opened; blank: those of them that open with nothing filled   *)
(* in; then: what the step that follows asks for; hears: who holds the     *)
(* mutation, and so who is there to hear its answer.                       *)

None == "nothing"

\* A dialog stays open until its request is granted.
FormModal(asks, blank) ==
  [asks |-> asks, blank |-> blank, then |-> None, hears |-> "dialog",
   granted |-> "closes", refused |-> "stays"]

ListModal == FormModal({"post lists", "patch lists/{id}"}, {"post lists"})

ContactModal ==
  FormModal({"post lists/{id}/contacts", "patch lists/{id}/contacts/{id}"},
            {"post lists/{id}/contacts"})

RegisterAlphaTagModal == FormModal({"post senders/alpha"}, {"post senders/alpha"})

\* The code is sent first, and may be sent again, then the number is verified.
AddOwnNumberModal ==
  [FormModal({"post senders/own"}, {"post senders/own"})
     EXCEPT !.then = "post senders/own/{id}/verify", !.granted = "next step"]

BuyNumberConfirmModal == FormModal({"post numbers/{number}/buy"}, {})

\* A refusal closes it as well, and what was typed is lost.
TemplateModal ==
  [FormModal({"post templates", "put templates/{id}"}, {"post templates"})
     EXCEPT !.refused = "closes"]

AddAllowedAddressModal == FormModal({"post email-senders"}, {"post email-senders"})

\* The panel asks, and hears the answer whichever dialog is open by then.
ConfirmDeleteModal(op) == [FormModal({op}, {}) EXCEPT !.hears = "panel"]

AddInboundRuleModal ==
  FormModal({"post rules/inbound", "put rules/inbound/{id}"}, {"post rules/inbound"})

\* The dialog itself shows the secret of the rule it made.
AddDeliveryRuleModal ==
  [FormModal({"post rules/delivery", "put rules/delivery/{id}"}, {"post rules/delivery"})
     EXCEPT !.granted = "reveals here"]

RegisterWebsiteModal == FormModal({"post websites"}, {"post websites"})

\* The key that was made is handed to the screen.
AddSubaccountModal ==
  [FormModal({"post account/users"}, {"post account/users"}) EXCEPT !.granted = "reveals"]

RegenerateKeyModal ==
  [FormModal({"post account/users/{id}/api-key"}, {}) EXCEPT !.granted = "reveals"]

\* A form of the screen, filled in from what was loaded first, and never closed.
Form(op) == [FormModal({op}, {}) EXCEPT !.granted = "stays"]

AccountSettingsForm   == Form("put account/settings")
MessagingSettingsForm == Form("put account/settings/messaging")
GeneralForm           == Form("put billing/general")
ProfileForm           == Form("patch me/profile")

\* The test message is cleared once it is sent.
TestSend == [Form("post messages/send") EXCEPT !.blank = @ \cup {"post messages/send"},
                                              !.granted = "clears"]

-----------------------------------------------------------------------------
(* The panels.  list: the query on show; dialogs: what can be opened; form: *)
(* what is always there; rows: what a row's own buttons ask for; keeps: who *)
(* keeps what is open when the list is refused, and takes the panel away:  *)
(* the screen, which shows it again blank, or the panel, which does not.   *)

Panel(query, dialogs) ==
  [list |-> query, dialogs |-> dialogs, form |-> None, rows |-> {}, keeps |-> "panel"]

ListsPanel  == [Panel("get lists", {"ListModal"}) EXCEPT !.rows = {"delete lists/{id}"}]
ListActions == [Panel("get lists/{id}/contacts", {"ContactModal"})
                  EXCEPT !.rows = {"post lists/{id}/clean-up"}, !.keeps = "screen"]

AlphaTagsTab    == Panel("get senders", {"RegisterAlphaTagModal"})
MyNumbersTab    == [Panel("get senders", {"AddOwnNumberModal"})
                      EXCEPT !.rows = {"delete senders/{id}"}]
SmartSendersTab == [Panel("get senders", {}) EXCEPT !.rows = {"put senders/smart/{country}"}]

\* The dialog stands beside the catalogue, and outlives it.
BuyANumberScreen ==
  [Panel("get numbers", {"BuyNumberConfirmModal"}) EXCEPT !.keeps = "the dialog"]

TemplatesScreen ==
  [Panel("get templates", {"TemplateModal"})
     EXCEPT !.rows = {"delete templates/{id}"}, !.keeps = "screen"]

AllowedAddressesPanel ==
  Panel("get email-senders", {"AddAllowedAddressModal", "remove address"})

InboundRulesPanel ==
  [Panel("get rules/inbound", {"AddInboundRuleModal", "delete inbound rule"})
     EXCEPT !.rows = {"put rules/inbound/{id}"}]

DeliveryRulesPanel ==
  [Panel("get rules/delivery", {"AddDeliveryRuleModal", "delete delivery rule"})
     EXCEPT !.rows = {"put rules/delivery/{id}"}]

WebsitesScreen ==
  [Panel("get websites", {"RegisterWebsiteModal"}) EXCEPT !.keeps = "screen"]

SubaccountsTab ==
  [Panel("get account/users", {"AddSubaccountModal", "RegenerateKeyModal"})
     EXCEPT !.keeps = "screen"]

CardsScreen ==
  [Panel("get billing/cards", {})
     EXCEPT !.rows = {"put billing/cards/{id}/default", "delete billing/cards/{id}"}]

FormPanel(query, form) == [Panel(query, {}) EXCEPT !.form = form]

AccountSettingsScreen == FormPanel("get account/settings", "AccountSettingsForm")
MessagingGeneralTab   == FormPanel("get account/settings/messaging", "MessagingSettingsForm")
GeneralScreen         == FormPanel("get billing/general", "GeneralForm")
ProfileScreen         == FormPanel("get me", "ProfileForm")
HomeScreen            == FormPanel("get home", "TestSend")

-----------------------------------------------------------------------------
(* The state                                                               *)

DialogOf(name) ==
  CASE name = "ListModal" -> ListModal
    [] name = "ContactModal" -> ContactModal
    [] name = "RegisterAlphaTagModal" -> RegisterAlphaTagModal
    [] name = "AddOwnNumberModal" -> AddOwnNumberModal
    [] name = "BuyNumberConfirmModal" -> BuyNumberConfirmModal
    [] name = "TemplateModal" -> TemplateModal
    [] name = "AddAllowedAddressModal" -> AddAllowedAddressModal
    [] name = "remove address" -> ConfirmDeleteModal("delete email-senders/{id}")
    [] name = "AddInboundRuleModal" -> AddInboundRuleModal
    [] name = "delete inbound rule" -> ConfirmDeleteModal("delete rules/inbound/{id}")
    [] name = "AddDeliveryRuleModal" -> AddDeliveryRuleModal
    [] name = "delete delivery rule" -> ConfirmDeleteModal("delete rules/delivery/{id}")
    [] name = "RegisterWebsiteModal" -> RegisterWebsiteModal
    [] name = "AddSubaccountModal" -> AddSubaccountModal
    [] name = "RegenerateKeyModal" -> RegenerateKeyModal
    [] name = "AccountSettingsForm" -> AccountSettingsForm
    [] name = "MessagingSettingsForm" -> MessagingSettingsForm
    [] name = "GeneralForm" -> GeneralForm
    [] name = "ProfileForm" -> ProfileForm
    [] name = "TestSend" -> TestSend

AllPanels ==
  {ListsPanel, ListActions, AlphaTagsTab, MyNumbersTab, SmartSendersTab, BuyANumberScreen,
   TemplatesScreen, AllowedAddressesPanel, InboundRulesPanel, DeliveryRulesPanel,
   WebsitesScreen, SubaccountsTab, CardsScreen, AccountSettingsScreen, MessagingGeneralTab,
   GeneralScreen, ProfileScreen, HomeScreen}

Slots     == 1 .. MaxSlots
NoRequest == [op |-> None, by |-> None, answer |-> None, at |-> 0]
NoDialog  == [name |-> None, op |-> None, ready |-> FALSE, sent |-> FALSE, secret |-> FALSE]

\* A dialog as it is mounted.
Mounted(name, op) ==
  [NoDialog EXCEPT !.name = name, !.op = op, !.ready = op \notin DialogOf(name).blank]

\* What is in the panel when nothing was opened.
Resting(p) ==
  IF p.form = None THEN NoDialog
                   ELSE Mounted(p.form, CHOOSE op \in DialogOf(p.form).asks : TRUE)

TypeOK ==
  /\ panel \in AllPanels /\ list.held.at \in 0 .. version
  /\ dialog.name \in panel.dialogs \cup {panel.form}
  /\ dialog.sent \/ dialog.secret => dialog.name # None
  /\ revealed \in BOOLEAN /\ version \in 0 .. MaxChanges /\ answered \in 0 .. version
  /\ \A s \in Slots : requests[s].by \in {None, "dialog", "panel", "nobody"}

Init ==
  /\ panel \in AllPanels
  /\ list = [held |-> NoData, fetch |-> Asked]
  /\ dialog = Resting(panel)
  /\ revealed = FALSE
  /\ requests = [s \in Slots |-> NoRequest]
  /\ version = 0 /\ answered = 0

Loaded == list.held.is = "data"
Up     == dialog.name # None /\ (Loaded \/ panel.keeps = "the dialog")
This   == DialogOf(dialog.name)

Free == {s \in Slots : requests[s] = NoRequest}
Slot == CHOOSE s \in Free : \A t \in Free : s <= t

Ask(op, by) ==
  /\ Free # {}
  /\ requests' = [requests EXCEPT ![Slot] = [NoRequest EXCEPT !.op = op, !.by = by]]

Pending(op, by) == \E s \in Slots : requests[s].op = op /\ requests[s].by = by

\* What is unmounted hears no answer.
Unheard(reqs, gone) ==
  [s \in Slots |-> IF reqs[s].by \in gone THEN [reqs[s] EXCEPT !.by = "nobody"] ELSE reqs[s]]

-----------------------------------------------------------------------------
(* What the user does                                                      *)

Open(name) ==
  /\ Loaded /\ dialog = NoDialog /\ ~revealed
  /\ name \in panel.dialogs
  /\ \E op \in DialogOf(name).asks : dialog' = Mounted(name, op)
  /\ UNCHANGED <<panel, list, revealed, requests, version, answered>>

Type ==
  /\ Up /\ ~dialog.ready
  /\ dialog' = [dialog EXCEPT !.ready = TRUE]
  /\ UNCHANGED <<panel, list, revealed, requests, version, answered>>

\* The button stays enabled while the answer is out: a mutant of Submit.
SubmitAgain ==
  /\ Up /\ dialog.ready /\ ~dialog.secret
  /\ Ask(dialog.op, This.hears)
  /\ UNCHANGED <<panel, list, dialog, revealed, version, answered>>

\* The button needs what is required, and no request of its kind under way.
Submit ==
  /\ Up /\ dialog.ready /\ ~dialog.secret
  /\ ~Pending(dialog.op, This.hears)
  /\ Ask(dialog.op, This.hears)
  /\ UNCHANGED <<panel, list, dialog, revealed, version, answered>>

Verify ==
  /\ Up /\ dialog.sent
  /\ ~Pending(This.then, "dialog")
  /\ Ask(This.then, "dialog")
  /\ UNCHANGED <<panel, list, dialog, revealed, version, answered>>

\* Cancel, Escape, and Done under a secret.
Close ==
  /\ Up /\ panel.form = None
  /\ dialog' = NoDialog
  /\ requests' = Unheard(requests, {"dialog"})
  /\ UNCHANGED <<panel, list, revealed, version, answered>>

ApiKeyModal ==
  /\ Loaded /\ revealed
  /\ revealed' = FALSE
  /\ UNCHANGED <<panel, list, dialog, requests, version, answered>>

\* The buttons of a row wait for nothing.
RowAction(op) ==
  /\ Loaded /\ dialog = NoDialog
  /\ op \in panel.rows
  /\ Ask(op, "panel")
  /\ UNCHANGED <<panel, list, dialog, revealed, version, answered>>

-----------------------------------------------------------------------------
(* The API and the answers                                                 *)

Handle(s) ==
  /\ requests[s] # NoRequest /\ requests[s].answer = None
  /\ \/ /\ version < MaxChanges
        /\ version' = version + 1
        /\ \/ requests' = [requests EXCEPT ![s].answer = "ok", ![s].at = version + 1]
           \/ requests' = [requests EXCEPT ![s].answer = "error"]
     \/ /\ requests' = [requests EXCEPT ![s].answer = "error"]
        /\ UNCHANGED version
  /\ UNCHANGED <<panel, list, dialog, revealed, answered>>

\* Somebody else changes the resources.
ElsewhereChanged ==
  /\ version < MaxChanges
  /\ version' = version + 1
  /\ UNCHANGED <<panel, list, dialog, revealed, requests, answered>>

\* The dialog after its request was granted, and whether a key is handed up.
Granted(op) ==
  CASE op = This.then -> NoDialog
    [] This.granted = "next step" -> [dialog EXCEPT !.sent = TRUE]
    [] This.granted = "reveals here" /\ op \in This.blank -> [dialog EXCEPT !.secret = TRUE]
    [] This.granted = "stays" -> dialog
    [] This.granted = "clears" -> Mounted(dialog.name, dialog.op)
    [] OTHER -> NoDialog

\* The confirmation that is open is closed, though another one asked.
Heard(s) ==
  LET ok == requests[s].answer = "ok"
  IN CASE requests[s].by = "dialog" /\ ok -> Granted(requests[s].op)
       [] requests[s].by = "dialog" /\ ~ok ->
            IF This.refused = "closes" THEN NoDialog ELSE dialog
       [] requests[s].by = "panel" /\ ok /\ dialog.op = requests[s].op /\ This.hears = "panel" ->
            NoDialog
       [] OTHER -> dialog

\* An answer: it settles, what it made stale is fetched again, and who asked
\* hears it.  The version counts from the list's first load on: a first load
\* under way is joined.
Answered(s) ==
  /\ requests[s].answer # None
  /\ dialog' = Heard(s)
  /\ requests' = LET left == [requests EXCEPT ![s] = NoRequest]
                 IN IF dialog' = NoDialog THEN Unheard(left, {"dialog"}) ELSE left
  /\ revealed' = \/ revealed
                 \/ /\ requests[s].by = "dialog" /\ requests[s].answer = "ok"
                    /\ This.granted = "reveals"
  /\ list' = IF panel.list \in INVALIDATES(requests[s].op) THEN Invalidated(list) ELSE list
  /\ answered' = IF requests[s].at > answered /\ list.held # NoData THEN requests[s].at
                                                                     ELSE answered
  /\ UNCHANGED <<panel, version>>

-----------------------------------------------------------------------------
(* The list                                                                *)

Refocus ==
  /\ list.fetch = NoFetch
  /\ list' = Fetched(list)
  /\ UNCHANGED <<panel, dialog, revealed, requests, version, answered>>

Read ==
  /\ list.fetch = Asked
  /\ list' = [list EXCEPT !.fetch = Data(version)]
  /\ UNCHANGED <<panel, dialog, revealed, requests, version, answered>>

FetchOk ==
  /\ list.fetch \notin {NoFetch, Asked}
  /\ list' = Landed(list, list.fetch)
  /\ UNCHANGED <<panel, dialog, revealed, requests, version, answered>>

\* A refusal takes the panel away with what it holds; a dialog the screen keeps
\* open comes back blank.
FetchFails ==
  /\ list.fetch \notin {NoFetch, Asked}
  /\ list' = Landed(list, Failure)
  /\ dialog' = CASE panel.keeps = "panel" -> Resting(panel)
                 [] panel.keeps = "screen" /\ dialog # NoDialog -> Mounted(dialog.name, dialog.op)
                 [] OTHER -> dialog
  /\ requests' = Unheard(requests, CASE panel.keeps = "panel" -> {"dialog", "panel"}
                                      [] panel.keeps = "screen" -> {"dialog"}
                                      [] OTHER -> {})
  /\ UNCHANGED <<panel, revealed, version, answered>>

-----------------------------------------------------------------------------
Next ==
  \/ \E name \in panel.dialogs : Open(name)
  \/ Type \/ Submit \/ Verify \/ Close \/ ApiKeyModal
  \/ \E op \in panel.rows : RowAction(op)
  \/ \E s \in Slots : Handle(s) \/ Answered(s)
  \/ ElsewhereChanged \/ Refocus \/ Read \/ FetchOk \/ FetchFails

Spec == Init /\ [][Next]_vars

-----------------------------------------------------------------------------
(* Properties                                                              *)

\* Whenever a list is loaded and nothing is out for it, it shows every change the
\* user was told was made, whichever fetches overlapped it.  A bought number is
\* the exception: the catalogue it was picked from is not fetched again.
OwnChangesShown ==
  Loaded /\ list.fetch = NoFetch /\ panel # BuyANumberScreen => list.held.at >= answered

\* One opening of a dialog has one request of a kind under way at most, whatever
\* becomes of the panel under it and whoever else asks.
AskedOncePerDialog ==
  \A s, t \in Slots :
    requests[s].by = "dialog" /\ requests[t].by = "dialog" /\ requests[s].op = requests[t].op
      => s = t
=============================================================================
