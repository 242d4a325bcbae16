----------------------------- MODULE Application -----------------------------
(***************************************************************************)
(* The parts of the system that do not write to one another's state, side  *)
(* by side: the session and the screens of the dashboard in a browser's    *)
(* tab, and the services whose items no other part writes.                 *)
(*                                                                         *)
(* A route shows one screen; what screens share is the session, which      *)
(* decides whether any is shown, and the query client, whose table each of *)
(* them uses (QueryClient).  A service keeps its own items.  So every      *)
(* section is looked at on its own: a behaviour picks one and stays there, *)
(* and the state of the others is at rest.                                 *)
(***************************************************************************)
EXTENDS Services

CONSTANTS
  Sections,  \* the sections to look at
  \* and those of the screens' modules, where two use one name under a name of its own
  Calls, Opening, MaxTokens, MaxRedirects,
  Old, New, EditorFields, EditorSlots, MaxEditorEdits, MaxHaste, MaxForms,
  Numbers, Preset, QuickFields, MAX_RECIPIENTS, QuickSlots, MaxQuickEdits, MaxMounts,
  MaxDialogs,
  Peers, InboxSlots, MaxInboxChanges, MaxMoves,
  MaxList, MaxNumber, Limits, MaxTrail, MaxBulks,
  FileRows, NotANumber, NoColumn, NoFile, IMPORT_CHUNK_ROWS, MaxRuns, MaxModals,
  PanelSlots, MaxPanelChanges,
  Codes, TopUpSlots,
  Filters, MaxRows, MaxTableTrail, MaxFetches

VARIABLES
  section,   \* the section looked at
  \* and those of the screens' modules, in the order of their names below
  page, tokens, renewable, handoff, param, redirects, going, calls, issued, expired,
  nonces, handled, exchanged,
  view, cached, form, saves, store, edits, forms, hasty,
  senders, lists, composer, quotes, sends, accepted, changes, mounts, dialogs,
  selection, reply, queries, replies, version, answered, moves,
  exist, members, listed, chosen, open, bulks,
  importer, opened, runs, taken,
  panel, list, dialog, revealed, asked, revision, told,
  payment, purchases, covered, checkouts, last, wanted, leaving,
  screen, choice, cache, shown, rows, fetches

Session == INSTANCE WebSession
Editor  == INSTANCE CampaignEditor
             WITH Touched <- EditorFields, MaxSlots <- EditorSlots,
                  MaxEdits <- MaxEditorEdits, requests <- saves
Quick   == INSTANCE QuickSend
             WITH Touched <- QuickFields, MaxSlots <- QuickSlots,
                  MaxEdits <- MaxQuickEdits, requests <- sends, edits <- changes
Inbox   == INSTANCE Inbox
             WITH MaxSlots <- InboxSlots, MaxChanges <- MaxInboxChanges, requests <- replies
Lists   == INSTANCE ContactList WITH panel <- open
Import  == INSTANCE ContactImport
Panels  == INSTANCE Dialogs
             WITH MaxSlots <- PanelSlots, MaxChanges <- MaxPanelChanges, requests <- asked,
                  version <- revision, answered <- told
Buying  == INSTANCE TopUp
             WITH MaxSlots <- TopUpSlots, queries <- purchases, going <- leaving
Tabled  == INSTANCE Tables WITH MaxTrail <- MaxTableTrail, chosen <- choice

ASSUME ApplicationAssumption ==
  /\ Sections \subseteq {"session", "campaigns", "quick send", "inbox", "contacts",
                         "import", "panels", "top-up", "tables", "api", "rentals",
                         "replies", "lists", "sign-in"}
  /\ Session!WebSessionAssumption
  /\ Editor!CampaignEditorAssumption
  /\ Quick!QuickSendAssumption
  /\ Inbox!InboxAssumption
  /\ Lists!ContactListAssumption
  /\ Import!ContactImportAssumption
  /\ Panels!DialogsAssumption
  /\ Buying!TopUpAssumption
  /\ Tabled!TablesAssumption

sessionVars == <<page, tokens, renewable, handoff, param, redirects, going, calls, issued,
                 expired, nonces, handled, exchanged>>
editorVars  == <<view, cached, form, saves, store, edits, forms, hasty>>
quickVars   == <<senders, lists, composer, quotes, sends, accepted, changes, mounts, dialogs>>
inboxVars   == <<selection, reply, queries, replies, version, answered, moves>>
listVars    == <<exist, members, listed, chosen, open, bulks>>
importVars  == <<importer, opened, runs, taken>>
panelVars   == <<panel, list, dialog, revealed, asked, revision, told>>
topUpVars   == <<payment, purchases, covered, checkouts, last, wanted, leaving>>
tableVars   == <<screen, choice, cache, shown, rows, fetches>>

vars == <<section, sessionVars, editorVars, quickVars, inboxVars, listVars, importVars,
          panelVars, topUpVars, tableVars, apiVars, rentalVars, replyVars, keptVars,
          signInVars>>

\* What a section may start from is chosen where it is the one looked at.
Init ==
  /\ section \in Sections
  /\ Session!Init /\ (section # "session" => page = "landing")
  /\ Editor!Init /\ Quick!Init /\ Inbox!Init /\ Lists!Init /\ Import!Init
  /\ Panels!Init /\ (section # "panels" => panel = Panels!HomeScreen)
  /\ Buying!Init /\ (section # "top-up" => payment = "PENDING")
  /\ Tabled!Init /\ (section # "tables" => screen = "logs" /\ rows = 0)
  /\ Api!Init
  /\ Renting!Init /\ (section # "rentals" => balance = 0)
  /\ Inbound!Init /\ (section # "replies" => stops = {})
  /\ Kept!Init /\ (section # "lists" => contacts = [l \in Kept!Kinds |-> {}])
  /\ Joining!Init

\* The section looked at steps, and the others stay as they are.
On(name) ==
  /\ section = name /\ UNCHANGED section
  /\ name # "session" => UNCHANGED sessionVars
  /\ name # "campaigns" => UNCHANGED editorVars
  /\ name # "quick send" => UNCHANGED quickVars
  /\ name # "inbox" => UNCHANGED inboxVars
  /\ name # "contacts" => UNCHANGED listVars
  /\ name # "import" => UNCHANGED importVars
  /\ name # "panels" => UNCHANGED panelVars
  /\ name # "top-up" => UNCHANGED topUpVars
  /\ name # "tables" => UNCHANGED tableVars
  /\ name # "api" => UNCHANGED apiVars
  /\ name # "rentals" => UNCHANGED rentalVars
  /\ name # "replies" => UNCHANGED replyVars
  /\ name # "lists" => UNCHANGED keptVars
  /\ name # "sign-in" => UNCHANGED signInVars

Next ==
  \/ On("session") /\ Session!Next
  \/ On("campaigns") /\ Editor!Next
  \/ On("quick send") /\ Quick!Next
  \/ On("inbox") /\ Inbox!Next
  \/ On("contacts") /\ Lists!Next
  \/ On("import") /\ Import!Next
  \/ On("panels") /\ Panels!Next
  \/ On("top-up") /\ Buying!Next
  \/ On("tables") /\ Tabled!Next
  \/ On("api") /\ Api!Next
  \/ On("rentals") /\ Renting!Next
  \/ On("replies") /\ Inbound!Next
  \/ On("lists") /\ Kept!Next
  \/ On("sign-in") /\ Joining!Next

\* The fairness of a section, where it is the one looked at.  The browser computes
\* digests, follows an assigned URL, runs the callback's query and settles every
\* fetch; nothing makes the user act.
SessionFairness ==
  /\ \A n \in Session!Nonces : WF_sessionVars(section = "session" /\ Session!AssignAuthorize(n))
  /\ WF_sessionVars(section = "session" /\ Session!Unload)
  /\ WF_sessionVars(section = "session" /\ Session!completeSignIn)
  /\ WF_sessionVars(section = "session" /\ Session!ExchangeCode)
  /\ WF_sessionVars(section = "session" /\ Session!CallbackScreen)
  /\ \A c \in Session!AllCalls :
       /\ WF_sessionVars(section = "session" /\ Session!Answer(c))
       /\ WF_sessionVars(section = "session" /\ Session!refreshAccessToken(c))

\* The timer of a query on show fires, the API reads, the browser hands over the
\* answers of mutations; and not every fetch of a query fails for ever.
InboxFairness ==
  /\ \A s \in Inbox!Slots :
       /\ WF_inboxVars(section = "inbox" /\ Inbox!Handle(s))
       /\ WF_inboxVars(section = "inbox" /\ Inbox!Answered(s))
       /\ WF_inboxVars(section = "inbox" /\ Inbox!ReplyAnswered(s))
  /\ \A q \in Inbox!Queries :
       /\ WF_inboxVars(section = "inbox" /\ Inbox!Poll(q))
       /\ WF_inboxVars(section = "inbox" /\ Inbox!Read(q))
       /\ SF_inboxVars(section = "inbox" /\ Inbox!FetchOk(q))

\* The same of the outcome's poll, whose answer may be a refusal.
TopUpFairness ==
  /\ WF_topUpVars(section = "top-up" /\ Buying!Poll)
  /\ WF_topUpVars(section = "top-up" /\ Buying!Read("outcome"))
  /\ WF_topUpVars(section = "top-up"
                    /\ (Buying!FetchOk("outcome") \/ Buying!FetchFails("outcome")))

\* The run is started every day and the sweep every minute, and both finish unless
\* they die.  Nothing makes a customer, the balance or a period come.
RentalFairness ==
  /\ WF_rentalVars(section = "rentals" /\ Renting!StartRun)
  /\ WF_rentalVars(section = "rentals" /\ Renting!Running)
  /\ WF_rentalVars(section = "rentals" /\ Renting!StartSweep)
  /\ WF_rentalVars(section = "rentals" /\ Renting!Sweep)

Fairness == SessionFairness /\ InboxFairness /\ TopUpFairness /\ RentalFairness

Spec     == Init /\ [][Next]_vars
LiveSpec == Spec /\ Fairness

-----------------------------------------------------------------------------
(* Properties: those of the sections                                       *)

TypeOK ==
  /\ section \in Sections
  /\ section = "session" => Session!TypeOK
  /\ section = "campaigns" => Editor!TypeOK
  /\ section = "quick send" => Quick!TypeOK
  /\ section = "inbox" => Inbox!TypeOK
  /\ section = "contacts" => Lists!TypeOK
  /\ section = "import" => Import!TypeOK
  /\ section = "panels" => Panels!TypeOK
  /\ section = "top-up" => Buying!TypeOK
  /\ section = "tables" => Tabled!TypeOK
  /\ section = "api" => Api!TypeOK
  /\ section = "rentals" => Renting!TypeOK
  /\ section = "replies" => Inbound!TypeOK
  /\ section = "lists" => Kept!TypeOK
  /\ section = "sign-in" => Joining!TypeOK

\* The API acts at most once on a call of the client, and the code of a redirect is
\* exchanged once (callApi, completeSignIn).
ActedOnOnce == section = "session" => Session!ActedOnOnce /\ Session!CodeExchangedOnce

\* A call whose session could not be renewed has the browser on its way to
\* sign-in (refreshAccessToken).
UnrenewedIsRedirected == section = "session" => Session!UnrenewedIsRedirected

\* A browser that comes back from the last redirect finds its handoff
\* (redirectToSignIn).
LastRedirectReturns == Session!LastRedirectReturns

\* Screens whose tokens are gone do not stay (signOut, Shell).
SignedOutLeaves == section = "session" => Session!SignedOutLeaves

\* An editor that says it is clean shows what is saved (CampaignForm).
CleanMeansSaved == section = "campaigns" => Editor!CleanMeansSaved

\* A campaign is scheduled, and a quick message sent, as its dialog had a price
\* for it (ConfirmCampaignModal, ConfirmSendModal).
SentAsQuoted ==
  /\ Quick!SentAsQuoted
  /\ [](section = "campaigns" => Editor!SentAsPriced)

\* One opening of a dialog sends its message at most once, and has one request
\* of a kind under way at most (ConfirmSendModal, FormModal).
AskedOncePerDialog ==
  /\ section = "quick send" => Quick!SentOncePerDialog
  /\ section = "panels" => Panels!AskedOncePerDialog

\* A list that is loaded shows every change the user was told was made, and the
\* balance the payment he was told of (invalidate of queries.ts, TopUpOutcome).
OwnChangesShown ==
  /\ section = "inbox" => Inbox!OwnChangesShown
  /\ section = "panels" => Panels!OwnChangesShown
  /\ section = "top-up" => Buying!PaidIsInBalance

\* No answer takes the user elsewhere than he last asked to go (ReplyComposer,
\* useTopUpCheckout).
AnswersMoveNobody ==
  /\ Inbox!AnswersMoveNobody
  /\ Buying!LastCheckoutOpens

\* A message of the thread on show is shown in the end, and so is what became of
\* a checkout (the polls of the inbox and of TopUpOutcome).
NewsIsShown ==
  /\ section = "inbox" => Inbox!InboundIsShown
  /\ section = "top-up" => Buying!OutcomeIsShown

\* A table shows the answer to what is chosen once that is in, and a page with
\* rows if there are any (useApiQuery and PagedRows, LogsResults).
TableShowsWhatIsChosen ==
  section = "tables" => Tabled!ShownAsChosen /\ Tabled!NoEmptyPage

\* A bulk action names contacts of the list it is asked of (SelectableContacts).
BulkActsOnItsList == section = "contacts" => Lists!BulkActsOnItsList

\* A report on show says that the whole file is in the list, each row counted once but those
\* whose number comes again in their chunk (ImportModal, import_contacts).
ReportMeansAll == section = "import" => Import!ReportMeansAll

\* What is asked for again is done once: a request that repeats its key, a reply that is
\* delivered again, a first sign-in in two requests (begin_idempotency, record_inbound,
\* create_account).
RepeatsActOnce ==
  /\ section = "api" => Api!RepeatsActOnce
  /\ section = "replies" => Inbound!RepliedOnce
  /\ section = "sign-in" => Joining!OneUser

\* A batch is billed for what was not refused of it, once all of it is over, and a
\* period's rental is paid once (_send_priced, charge_rental).
BilledOnce ==
  /\ section = "api" => Api!BilledAsDispatched
  /\ section = "rentals" => Renting!PeriodPaidOnce

\* Whoever said STOP, or was moved to the opt-out list, is there until a user takes him
\* off it, whatever died (handle_body, _move_to_opt_out).
OptOutsAreKept ==
  /\ section = "replies" => Inbound!StopsAreKept
  /\ section = "lists" => Kept!OptedOutStay

\* A list's counter is the number of its contacts less those that an update put back
\* uncounted, but where a batch was written over or died (upsert_contact, _add_many,
\* _remove_many).
CountAgrees == section = "lists" => Kept!CountAgrees

\* A rental that is due is renewed or given up in the end (Renewals.run).
DueIsDecided == section = "rentals" => Renting!DueIsDecided
=============================================================================
