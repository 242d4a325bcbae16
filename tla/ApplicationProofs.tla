-------------------------- MODULE ApplicationProofs --------------------------
(***************************************************************************)
(* Theorems about Application.  What the session and the import keep on    *)
(* their own (WebSessionProofs, ContactImportProofs) they keep in the      *)
(* composition: a section takes the steps of its own module while it is    *)
(* the one looked at, and none otherwise.  So do the screens, whose        *)
(* inductive invariants are in ScreensProofs and, the contacts and the     *)
(* campaign editor, here; and the services, which are in ServicesProofs.   *)
(* The theorems follow at the end.                                         *)
(***************************************************************************)
EXTENDS ScreensProofs, ServicesProofs

Proved   == INSTANCE WebSessionProofs
Imported == INSTANCE ContactImportProofs

\* Where a section is on show, it is in the invariant of its own proof.
SessionKept == section = "session" => Proved!SessionInv
ImportKept  == section = "import" => Imported!ImportInv

\* The session of the tab is the one the theorems of WebSession are about.
LEMMA SameSession ==
  /\ Session!WebSessionAssumption <=> Proved!WebSessionAssumption
  /\ Session!Init <=> Proved!Init
  /\ Session!Next <=> Proved!Next
<1>1. Session!WebSessionAssumption <=> Proved!WebSessionAssumption
  BY DEF Session!WebSessionAssumption, Proved!WebSessionAssumption
<1>2. Session!Init <=> Proved!Init
  BY DEF Session!Init, Proved!Init, Session!None, Proved!None, Session!AllCalls,
         Proved!AllCalls, Session!NoCall, Proved!NoCall, Session!Nonces, Proved!Nonces
<1>3. Session!Next <=> Proved!Next
  BY DEF Session!Next, Proved!Next,
         Session!AssignAuthorize, Proved!AssignAuthorize, Session!signOut,
         Proved!signOut, Session!redirectToSignIn, Proved!redirectToSignIn,
         Session!postTokenForm, Proved!postTokenForm, Session!refreshFails,
         Proved!refreshFails, Session!refreshAccessToken, Proved!refreshAccessToken,
         Session!takeHandoff, Proved!takeHandoff, Session!completeSignIn,
         Proved!completeSignIn, Session!ExchangeCode, Proved!ExchangeCode,
         Session!CallbackScreen, Proved!CallbackScreen, Session!TryAgain,
         Proved!TryAgain, Session!callApi, Proved!callApi, Session!Accepted,
         Proved!Accepted, Session!sendAuthorized, Proved!sendAuthorized, Session!reach,
         Proved!reach, Session!Answer, Proved!Answer, Session!ShellSignedOut,
         Proved!ShellSignedOut, Session!Shell, Proved!Shell, Session!Forget,
         Proved!Forget, Session!Reload, Proved!Reload, Session!ReloadCallback,
         Proved!ReloadCallback, Session!Unload, Proved!Unload, Session!ProviderReturns,
         Proved!ProviderReturns, Session!ReturnHome, Proved!ReturnHome, Session!Expire,
         Proved!Expire, Session!None, Proved!None, Session!Logout, Proved!Logout,
         Session!Document, Proved!Document, Session!AllCalls, Proved!AllCalls,
         Session!Access, Proved!Access, Session!Nonces, Proved!Nonces, Session!NoCall,
         Proved!NoCall, Session!isSignedIn, Proved!isSignedIn
<1>4. QED
  BY <1>1, <1>2, <1>3

\* A step of the tab is one of its session, or leaves the session as it is.
LEMMA SessionSteps ==
  ASSUME Next \/ UNCHANGED vars, section = "session"
  PROVE  Proved!Next \/ UNCHANGED Proved!vars
<1>1. CASE On("session") /\ Session!Next
  BY <1>1, SameSession
<1>2. CASE ~(On("session") /\ Session!Next)
  BY <1>2 DEF Next, On, vars, sessionVars, Proved!vars
<1>3. QED
  BY <1>1, <1>2

LEMMA SessionIsKept == Spec => []SessionKept
<1>1. Proved!WebSessionAssumption
  BY SameSession, ApplicationAssumption DEF ApplicationAssumption
<1>2. Init => SessionKept
  BY <1>1, SameSession, Proved!InitHolds DEF Init, SessionKept
<1>3. SessionKept /\ [Next]_vars => SessionKept'
  <2> SUFFICES ASSUME SessionKept, [Next]_vars, section' = "session"
               PROVE  Proved!SessionInv'
    BY DEF SessionKept
  <2>1. section = "session"
    BY DEF Next, On, vars
  <2>2. Proved!SessionInv /\ (Proved!Next \/ UNCHANGED Proved!vars)
    BY <2>1, SessionSteps DEF SessionKept
  <2>3. QED
    BY <1>1, <2>2, Proved!StepHolds
<1>4. QED
  BY <1>2, <1>3, PTL DEF Spec

\* The same of the import.
LEMMA SameImport ==
  /\ Import!ContactImportAssumption <=> Imported!ContactImportAssumption
  /\ Import!Init <=> Imported!Init
  /\ Import!Next <=> Imported!Next
<1>1. Import!ContactImportAssumption <=> Imported!ContactImportAssumption
  BY DEF Import!ContactImportAssumption, Imported!ContactImportAssumption
<1>2. Import!Init <=> Imported!Init
  BY DEF Import!Init, Imported!Init, Import!Runs, Imported!Runs, Import!NO_IMPORTS,
         Imported!NO_IMPORTS, Import!Closed, Imported!Closed, Import!NoRun, Imported!NoRun
<1>3. \A file, part : Import!Reports(file, part) = Imported!Reports(file, part)
  <2>1. \A S : Import!Cardinality(S) = Imported!Cardinality(S)
    BY DEF Import!Cardinality, Imported!Cardinality
  <2>2. \A file, part : /\ Import!Parsed(file, part) = Imported!Parsed(file, part)
                        /\ Import!Skipped(file, part) = Imported!Skipped(file, part)
    BY DEF Import!Parsed, Imported!Parsed, Import!Skipped, Imported!Skipped
  <2>3. QED
    BY <2>1, <2>2, Zenon DEF Import!Reports, Imported!Reports
<1>4. Import!Next <=> Imported!Next
  BY <1>3 DEF Import!Next, Imported!Next,
         Import!Open, Imported!Open, Import!Close, Imported!Close, Import!Choose,
         Imported!Choose, Import!ImportModal, Imported!ImportModal, Import!Shows,
         Imported!Shows, Import!Proceed, Imported!Proceed, Import!Stop, Imported!Stop,
         Import!importRows, Imported!importRows, Import!Handle, Imported!Handle,
         Import!Answered, Imported!Answered, Import!Runs, Imported!Runs,
         Import!Files, Imported!Files, Import!NO_IMPORTS, Imported!NO_IMPORTS,
         Import!Closed, Imported!Closed, Import!NoRun, Imported!NoRun, Import!Least,
         Imported!Least, Import!SentBy, Imported!SentBy, Import!chunksOf,
         Imported!chunksOf, Import!Parsed, Imported!Parsed, Import!withReport,
         Imported!withReport
<1>5. QED
  BY <1>1, <1>2, <1>4

LEMMA ImportIsKept == Spec => []ImportKept
<1>1. Imported!ContactImportAssumption
  BY SameImport, ApplicationAssumption DEF ApplicationAssumption
<1>2. Init => ImportKept
  BY <1>1, SameImport, Imported!InitHolds DEF Init, ImportKept
<1>3. ImportKept /\ [Next]_vars => ImportKept'
  <2> SUFFICES ASSUME ImportKept, [Next]_vars, section' = "import"
               PROVE  Imported!ImportInv'
    BY DEF ImportKept
  <2>1. section = "import"
    BY DEF Next, On, vars
  <2>2. Imported!Next \/ UNCHANGED Imported!vars
    <3>1. CASE On("import") /\ Import!Next
      BY <3>1, SameImport
    <3>2. CASE ~(On("import") /\ Import!Next)
      BY <2>1, <3>2 DEF Next, On, vars, importVars, Imported!vars
    <3>3. QED
      BY <3>1, <3>2
  <2>3. QED
    BY <1>1, <2>1, <2>2, Imported!StepHolds DEF ImportKept
<1>4. QED
  BY <1>2, <1>3, PTL DEF Spec

-----------------------------------------------------------------------------
(* The contacts                                                            *)

\* Contacts that are all of one list.
AllOf(some, name) == \A c \in some : c[1] = name

\* The panel shows and has ticked contacts of its own list, and so had it when a bulk
\* action was asked for.
ContactsInv ==
  /\ DOMAIN open = {"list", "limit", "shown", "selected", "bulk", "trail"}
  /\ AllOf(open.shown.rows, open.list)
  /\ AllOf(open.selected, open.list)
  /\ DOMAIN bulks = Lists!Bulks
  /\ \A b \in Lists!Bulks : /\ DOMAIN bulks[b] = {"list", "contacts", "answer"}
                            /\ AllOf(bulks[b].contacts, bulks[b].list)

\* A panel that is mounted is empty, and the one of a list that is still open stays.
LEMMA ListPanelKeeps ==
  ASSUME ContactsInv, NEW name, open' = Lists!ListPanel(name), UNCHANGED bulks
  PROVE  ContactsInv'
<1> DEFINE fresh == Lists!Mounted(name)
<1>1. /\ DOMAIN fresh = {"list", "limit", "shown", "selected", "bulk", "trail"}
      /\ fresh.shown = Lists!NoPage /\ fresh.selected = {}
  BY DEF Lists!Mounted
<1>2. Lists!NoPage.rows = {}
  BY DEF Lists!NoPage
<1> HIDE DEF fresh
<1>3. open' = open \/ open' = fresh
  BY DEF Lists!ListPanel, fresh
<1>4. QED
  BY <1>1, <1>2, <1>3 DEF ContactsInv, AllOf

\* The panel turns, ticks or loads: its list is the same.
LEMMA PanelKeeps ==
  ASSUME ContactsInv, UNCHANGED bulks,
         DOMAIN open' = DOMAIN open, open'.list = open.list,
         AllOf(open'.shown.rows, open.list), AllOf(open'.selected, open.list)
  PROVE  ContactsInv'
BY DEF ContactsInv

LEMMA TurnKeeps ==
  ASSUME ContactsInv,
         \/ Lists!NextPage \/ Lists!PreviousPage
         \/ \E n \in Limits : Lists!EntriesSelect(n)
  PROVE  ContactsInv'
<1>1. UNCHANGED bulks
  BY DEF Lists!NextPage, Lists!PreviousPage, Lists!EntriesSelect, Lists!Turn
<1>2. \/ \E trail : open' = [open EXCEPT !.trail = trail]
      \/ \E limit : open' = [open EXCEPT !.limit = limit]
  BY DEF Lists!NextPage, Lists!PreviousPage, Lists!EntriesSelect, Lists!Turn
<1>3. /\ DOMAIN open' = DOMAIN open /\ open'.list = open.list
      /\ open'.shown = open.shown /\ open'.selected = open.selected
  BY <1>2 DEF ContactsInv
<1>4. QED
  BY <1>1, <1>3, PanelKeeps DEF ContactsInv

LEMMA PageKeeps ==
  ASSUME ContactsInv, Lists!PageAnswered
  PROVE  ContactsInv'
<1>1. UNCHANGED bulks
  BY DEF Lists!PageAnswered
<1>2. AllOf(Lists!Page.rows, open.list)
  BY DEF Lists!Page, AllOf
<1>3. CASE open' = [open EXCEPT !.shown = Lists!Page]
  <2>1. /\ DOMAIN open' = DOMAIN open /\ open'.list = open.list
        /\ open'.shown = Lists!Page /\ open'.selected = open.selected
    BY <1>3 DEF ContactsInv
  <2>2. QED
    BY <1>1, <1>2, <2>1, PanelKeeps DEF ContactsInv
<1>4. CASE open' = [open EXCEPT !.shown = Lists!Refused, !.selected = {}, !.bulk = 0]
  <2>1. /\ DOMAIN open' = DOMAIN open /\ open'.list = open.list
        /\ open'.shown = Lists!Refused /\ open'.selected = {}
    BY <1>4 DEF ContactsInv
  <2>2. Lists!Refused.rows = {}
    BY DEF Lists!Refused
  <2>3. QED
    BY <1>1, <2>1, <2>2, PanelKeeps DEF AllOf
<1>5. QED
  BY <1>3, <1>4 DEF Lists!PageAnswered

LEMMA TicksKeep ==
  ASSUME ContactsInv, Lists!ContactsTable \/ \E c \in Lists!Contacts : Lists!ContactRow(c)
  PROVE  ContactsInv'
<1>1. PICK ticked : AllOf(ticked, open.list) /\ Lists!SelectableContacts(ticked)
  <2>1. ASSUME NEW c \in open.shown.rows
        PROVE  AllOf(Lists!toggledOne(open.selected, c), open.list)
    BY DEF ContactsInv, AllOf, Lists!toggledOne
  <2>2. AllOf(Lists!toggledAll(open.shown.rows, open.selected), open.list)
    BY DEF ContactsInv, AllOf, Lists!toggledAll
  <2>3. QED
    BY <2>1, <2>2 DEF Lists!ContactsTable, Lists!ContactRow
<1>2. /\ UNCHANGED bulks
      /\ open' = [open EXCEPT !.selected = ticked, !.bulk = IF ticked = {} THEN 0 ELSE @]
  BY <1>1 DEF Lists!SelectableContacts
<1>3. /\ DOMAIN open' = DOMAIN open /\ open'.list = open.list
      /\ open'.shown = open.shown /\ open'.selected = ticked
  BY <1>2 DEF ContactsInv
<1>4. QED
  BY <1>1, <1>2, <1>3, PanelKeeps DEF ContactsInv

LEMMA BulksKeep ==
  ASSUME ContactsInv,
         \/ Lists!BulkToolbar
         \/ \E b \in Lists!Bulks : Lists!Handle(b) \/ Lists!onDone(b)
  PROVE  ContactsInv'
<1>1. PICK n, r : /\ bulks' = [bulks EXCEPT ![n] = r]
                  /\ n \in Lists!Bulks => /\ DOMAIN r = {"list", "contacts", "answer"}
                                          /\ AllOf(r.contacts, r.list)
  <2>1. CASE Lists!BulkToolbar
    <3> DEFINE q == [list |-> open.list, contacts |-> open.selected, answer |-> "awaited"]
    <3>1. DOMAIN q = {"list", "contacts", "answer"} /\ AllOf(q.contacts, q.list)
      BY DEF ContactsInv
    <3>2. \E b : bulks' = [bulks EXCEPT ![b] = q]
      BY <2>1 DEF Lists!BulkToolbar
    <3>3. QED
      BY <3>1, <3>2
  <2>2. ASSUME NEW b \in Lists!Bulks, Lists!Handle(b)
        PROVE  \E q : /\ bulks' = [bulks EXCEPT ![b] = q]
                      /\ DOMAIN q = {"list", "contacts", "answer"} /\ AllOf(q.contacts, q.list)
    <3> DEFINE q == [bulks[b] EXCEPT !.answer = "given"]
    <3>1. /\ DOMAIN q = {"list", "contacts", "answer"} /\ q.contacts = bulks[b].contacts
          /\ q.list = bulks[b].list
      BY DEF ContactsInv
    <3>2. bulks' = [bulks EXCEPT ![b] = q]
      BY <2>2 DEF Lists!Handle
    <3> HIDE DEF q
    <3>3. QED
      BY <3>1, <3>2 DEF ContactsInv
  <2>3. ASSUME NEW b \in Lists!Bulks, Lists!onDone(b)
        PROVE  \E q : /\ bulks' = [bulks EXCEPT ![b] = q]
                      /\ DOMAIN q = {"list", "contacts", "answer"} /\ AllOf(q.contacts, q.list)
    <3> DEFINE q == [Lists!NoBulk EXCEPT !.answer = "heard"]
    <3>1. DOMAIN q = {"list", "contacts", "answer"} /\ q.contacts = {}
      BY DEF Lists!NoBulk
    <3>2. bulks' = [bulks EXCEPT ![b] = q]
      BY <2>3 DEF Lists!onDone
    <3> HIDE DEF q
    <3>3. QED
      BY <3>1, <3>2 DEF AllOf
  <2>4. QED
    BY <2>1, <2>2, <2>3
<1>2. /\ DOMAIN bulks' = Lists!Bulks
      /\ \A a \in Lists!Bulks : /\ DOMAIN bulks'[a] = {"list", "contacts", "answer"}
                                /\ AllOf(bulks'[a].contacts, bulks'[a].list)
  BY <1>1 DEF ContactsInv
<1>3. /\ DOMAIN open' = DOMAIN open /\ open'.list = open.list
      /\ open'.shown = open.shown /\ open'.selected \in {open.selected, {}}
  <2>1. \/ open' = open
        \/ \E asking : open' = [open EXCEPT !.bulk = asking]
        \/ open' = [open EXCEPT !.selected = {}, !.bulk = 0]
    BY DEF Lists!BulkToolbar, Lists!Handle, Lists!onDone
  <2>2. QED
    BY <2>1 DEF ContactsInv
<1>4. QED
  BY <1>2, <1>3 DEF ContactsInv, AllOf

LEMMA ContactsInit ==
  ASSUME Lists!Init PROVE ContactsInv
<1> DEFINE q == Lists!NoBulk
<1>1. /\ DOMAIN open = {"list", "limit", "shown", "selected", "bulk", "trail"}
      /\ open.shown = Lists!NoPage /\ open.selected = {}
  BY DEF Lists!Init, Lists!Mounted
<1>2. DOMAIN q = {"list", "contacts", "answer"} /\ q.contacts = {} /\ Lists!NoPage.rows = {}
  BY DEF Lists!NoBulk, Lists!NoPage
<1>3. bulks = [b \in Lists!Bulks |-> q]
  BY DEF Lists!Init
<1> HIDE DEF q
<1>4. QED
  BY <1>1, <1>2, <1>3 DEF ContactsInv, AllOf

LEMMA ContactsStep ==
  ASSUME ContactsInv, [Lists!Next]_listVars PROVE ContactsInv'
<1>1. CASE UNCHANGED listVars
  <2>1. UNCHANGED <<open, bulks>>
    BY <1>1 DEF listVars
  <2>2. QED
    BY <2>1 DEF ContactsInv
<1>2. CASE Lists!ContactsScreen \/ \E l \in Lists!Lists : Lists!ListCard(l)
  <2>1. UNCHANGED bulks /\ \E name : open' = Lists!ListPanel(name)
    BY <1>2 DEF Lists!ContactsScreen, Lists!ListCard
  <2>2. QED
    BY <2>1, ListPanelKeeps
<1>3. CASE \E l \in Lists!Lists : Lists!ListCards(l)
  <2>1. UNCHANGED <<open, bulks>>
    BY <1>3 DEF Lists!ListCards
  <2>2. QED
    BY <2>1 DEF ContactsInv
<1>4. CASE \/ Lists!NextPage \/ Lists!PreviousPage
           \/ \E n \in Limits : Lists!EntriesSelect(n)
  BY <1>4, TurnKeeps
<1>5. CASE Lists!PageAnswered
  BY <1>5, PageKeeps
<1>6. CASE Lists!ContactsTable \/ \E c \in Lists!Contacts : Lists!ContactRow(c)
  BY <1>6, TicksKeep
<1>7. CASE \/ Lists!BulkToolbar
           \/ \E b \in Lists!Bulks : Lists!Handle(b) \/ Lists!onDone(b)
  BY <1>7, BulksKeep
<1>8. QED
  BY <1>1, <1>2, <1>3, <1>4, <1>5, <1>6, <1>7 DEF Lists!Next

-----------------------------------------------------------------------------
(* The types of the contacts *)

\* A sequence, whatever is in it.
IsSeq(s) == s \in Seq({s[i] : i \in DOMAIN s})

LEMMA SeqIs ==
  ASSUME NEW S, NEW s \in Seq(S)
  PROVE  IsSeq(s)
<1> DEFINE T == {s[i] : i \in DOMAIN s}
<1>1. s = [i \in 1 .. Len(s) |-> s[i]] /\ Len(s) \in Nat /\ DOMAIN s = 1 .. Len(s)
  OBVIOUS
<1>2. \A i \in 1 .. Len(s) : s[i] \in T
  BY <1>1
<1> HIDE DEF T
<1>3. s \in [1 .. Len(s) -> T]
  BY <1>1, <1>2
<1>4. s \in Seq(T)
  BY <1>1, <1>3
<1>5. QED
  BY <1>4 DEF IsSeq, T

LEMMA SeqGrows ==
  ASSUME NEW s, IsSeq(s), NEW e
  PROVE  /\ IsSeq(Append(s, e)) /\ Len(Append(s, e)) = Len(s) + 1
         /\ Len(s) \in Nat
<1> DEFINE S == {s[i] : i \in DOMAIN s} \cup {e}
<1>1. s \in Seq(S)
  <2> DEFINE T == {s[i] : i \in DOMAIN s}
  <2>1. s \in Seq(T)
    BY DEF IsSeq
  <2>2. T \subseteq S
    OBVIOUS
  <2> HIDE DEF T, S
  <2>3. QED
    BY <2>1, <2>2
<1>2. e \in S
  OBVIOUS
<1> HIDE DEF S
<1>3. Append(s, e) \in Seq(S) /\ Len(Append(s, e)) = Len(s) + 1 /\ Len(s) \in Nat
  BY <1>1, <1>2
<1>4. QED
  BY <1>3, SeqIs

LEMMA SeqShrinks ==
  ASSUME NEW s, IsSeq(s), s # << >>
  PROVE  /\ IsSeq(SubSeq(s, 1, Len(s) - 1)) /\ Len(SubSeq(s, 1, Len(s) - 1)) = Len(s) - 1
         /\ Len(s) \in Nat
<1> DEFINE T == {s[i] : i \in DOMAIN s}
<1>1. s \in Seq(T)
  BY DEF IsSeq
<1> HIDE DEF T
<1>2. Len(s) \in Nat \ {0}
  BY <1>1
<1> DEFINE n == Len(s) - 1
<1>3. n \in Nat /\ n <= Len(s)
  BY <1>2
<1> HIDE DEF n
<1>4. SubSeq(s, 1, n) \in Seq(T)
  BY <1>1, <1>2, <1>3
<1>5. Len(SubSeq(s, 1, n)) = n
  BY <1>1, <1>2, <1>3
<1>6. QED
  BY <1>2, <1>4, <1>5, SeqIs DEF n

\* What the contacts keep is of its types, and what is ticked has its order.
ContactsTypes ==
  /\ Lists!TypeOK
  /\ IsSeq(open.trail.cursors)
  /\ open.shown.rows \subseteq Lists!Contacts

\* The panel of a list that is on show, or of none.
LEMMA MountTyped ==
  ASSUME ContactsInv, ContactsTypes, Lists!ContactListAssumption,
         NEW those, those \subseteq Lists!Lists, NEW one \in 0 .. MaxList,
         open' = Lists!ListPanel(Lists!Selected(those, one)),
         UNCHANGED bulks, exist' \subseteq Lists!Lists, listed' \subseteq Lists!Lists,
         members' \subseteq Lists!Contacts, chosen' \in 0 .. MaxList
  PROVE  ContactsTypes'
<1> DEFINE name == Lists!Selected(those, one)
           fresh == Lists!Mounted(name)
<1>1. name \in 0 .. MaxList
  <2>1. those \subseteq Nat /\ those \subseteq 0 .. MaxList /\ 0 \in 0 .. MaxList
    BY DEF Lists!Lists, Lists!ContactListAssumption
  <2>2. those # {} => Lists!Min(those) \in those
    BY <2>1, LeastOf
  <2>3. QED
    BY <2>1, <2>2 DEF Lists!Selected
<1>2. Lists!Min(Limits) \in Limits
  BY LeastOf DEF Lists!ContactListAssumption
<1> HIDE DEF name
<1>3. /\ fresh.list = name /\ fresh.limit = Lists!Min(Limits) /\ fresh.selected = {}
      /\ fresh.bulk = 0 /\ fresh.trail.cursors = << >> /\ fresh.shown.rows = {}
  BY DEF Lists!Mounted, Lists!NoPage
<1> HIDE DEF fresh
<1>4. open' = open \/ open' = fresh
  BY DEF Lists!ListPanel, fresh, name
<1>5. Lists!TypeOK'
  <2>1. 0 \in 0 .. MaxBulks /\ MaxTrail \in Nat
    BY DEF Lists!ContactListAssumption
  <2>2. CASE open' = fresh
    BY <1>1, <1>2, <1>3, <2>1, <2>2 DEF ContactsTypes, Lists!TypeOK
  <2>3. CASE open' = open
    BY <2>3 DEF ContactsTypes, Lists!TypeOK
  <2>4. QED
    BY <1>4, <2>2, <2>3
<1>6. IsSeq(<< >>)
  BY DEF IsSeq
<1>7. QED
  BY <1>3, <1>4, <1>5, <1>6 DEF ContactsTypes

LEMMA TurnTyped ==
  ASSUME ContactsInv, ContactsTypes, Lists!ContactListAssumption,
         \/ Lists!NextPage \/ Lists!PreviousPage
         \/ \E n \in Limits : Lists!EntriesSelect(n)
  PROVE  ContactsTypes'
<1>1. UNCHANGED <<exist, members, listed, chosen, bulks>>
  BY DEF Lists!NextPage, Lists!PreviousPage, Lists!EntriesSelect, Lists!Turn
<1>2. IsSeq(Lists!Trail) /\ Len(Lists!Trail) <= MaxTrail /\ MaxTrail \in Nat
  <2>1. IsSeq(<< >>)
    BY DEF IsSeq
  <2>2. Lists!Trail \in {<< >>, open.trail.cursors}
    BY DEF Lists!Trail, Lists!useCursorTrail
  <2>3. QED
    BY <2>1, <2>2 DEF ContactsTypes, Lists!TypeOK, Lists!ContactListAssumption
<1>3. ASSUME NEW cursors, IsSeq(cursors), Len(cursors) <= MaxTrail,
             NEW t, t.cursors = cursors, open' = [open EXCEPT !.trail = t]
      PROVE  ContactsTypes'
  <2>1. /\ open'.list = open.list /\ open'.limit = open.limit /\ open'.selected = open.selected
        /\ open'.bulk = open.bulk /\ open'.trail = t /\ open'.shown = open.shown
    BY <1>3 DEF ContactsInv
  <2>2. QED
    BY <1>1, <1>3, <2>1 DEF ContactsTypes, Lists!TypeOK
<1>4. CASE Lists!NextPage
  <2> DEFINE cursors == Append(Lists!Trail, open.shown.next)
             t == [cursors |-> cursors, scope |-> Lists!Scope(open.list, open.limit)]
  <2>1. open' = [open EXCEPT !.trail = t] /\ Len(Lists!Trail) < MaxTrail
    BY <1>4 DEF Lists!NextPage, Lists!Turn
  <2>2. t.cursors = cursors
    OBVIOUS
  <2>3. IsSeq(cursors) /\ Len(cursors) <= MaxTrail
    BY <1>2, <2>1, SeqGrows
  <2> HIDE DEF cursors, t
  <2>4. QED
    BY <1>3, <2>1, <2>2, <2>3
<1>5. CASE Lists!PreviousPage
  <2> DEFINE cursors == Lists!Front(Lists!Trail)
             t == [cursors |-> cursors, scope |-> Lists!Scope(open.list, open.limit)]
  <2>1. open' = [open EXCEPT !.trail = t] /\ Lists!Trail # << >>
    BY <1>5 DEF Lists!PreviousPage, Lists!Turn
  <2>2. t.cursors = cursors
    OBVIOUS
  <2>3. cursors = SubSeq(Lists!Trail, 1, Len(Lists!Trail) - 1)
    BY DEF Lists!Front
  <2>4. IsSeq(cursors) /\ Len(cursors) = Len(Lists!Trail) - 1 /\ Len(Lists!Trail) \in Nat
    BY <1>2, <2>1, <2>3, SeqShrinks
  <2> HIDE DEF cursors, t
  <2>5. Len(cursors) <= MaxTrail
    BY <1>2, <2>4
  <2>6. QED
    BY <1>3, <2>1, <2>2, <2>4, <2>5
<1>6. CASE \E n \in Limits : Lists!EntriesSelect(n)
  <2>1. PICK n \in Limits : open' = [open EXCEPT !.limit = n]
    BY <1>6 DEF Lists!EntriesSelect, Lists!Turn
  <2>2. /\ open'.list = open.list /\ open'.limit = n /\ open'.selected = open.selected
        /\ open'.bulk = open.bulk /\ open'.trail = open.trail /\ open'.shown = open.shown
    BY <2>1 DEF ContactsInv
  <2>3. QED
    BY <1>1, <2>2 DEF ContactsTypes, Lists!TypeOK
<1>7. QED
  BY <1>4, <1>5, <1>6

\* What is on show and what is ticked changes.
LEMMA TickedTyped ==
  ASSUME ContactsTypes, Lists!ContactListAssumption,
         UNCHANGED <<exist, listed, chosen>>, members' \subseteq members,
         \A b \in Lists!Bulks : bulks'[b].contacts \subseteq Lists!Contacts,
         open'.list = open.list, open'.limit = open.limit, open'.trail = open.trail,
         open'.selected \subseteq Lists!Contacts, open'.bulk \in 0 .. MaxBulks,
         open'.bulk # 0 => open'.selected # {},
         open'.shown.rows \subseteq Lists!Contacts
  PROVE  ContactsTypes'
BY DEF ContactsTypes, Lists!TypeOK

LEMMA PageTyped ==
  ASSUME ContactsInv, ContactsTypes, Lists!ContactListAssumption,
         \/ Lists!PageAnswered
         \/ Lists!ContactsTable \/ \E c \in Lists!Contacts : Lists!ContactRow(c)
  PROVE  ContactsTypes'
<1>0. UNCHANGED <<exist, members, listed, chosen, bulks>>
  BY DEF Lists!PageAnswered, Lists!ContactsTable, Lists!ContactRow, Lists!SelectableContacts
<1>1. /\ UNCHANGED <<exist, members, listed, chosen, bulks>>
      /\ DOMAIN open = {"list", "limit", "shown", "selected", "bulk", "trail"}
      /\ open.selected \subseteq Lists!Contacts /\ open.shown.rows \subseteq Lists!Contacts
      /\ open.bulk \in 0 .. MaxBulks /\ (open.bulk # 0 => open.selected # {})
      /\ 0 \in 0 .. MaxBulks
      /\ \A b \in Lists!Bulks : bulks[b].contacts \subseteq Lists!Contacts
  BY <1>0 DEF ContactsInv, ContactsTypes, Lists!TypeOK, Lists!ContactListAssumption
<1>2. CASE open' = [open EXCEPT !.shown = Lists!Page]
  <2>1. Lists!Page.rows \subseteq Lists!Contacts
    BY DEF Lists!Page, ContactsTypes, Lists!TypeOK
  <2>2. /\ open'.list = open.list /\ open'.limit = open.limit /\ open'.trail = open.trail
        /\ open'.selected = open.selected /\ open'.bulk = open.bulk
        /\ open'.shown = Lists!Page
    BY <1>1, <1>2
  <2>3. QED
    BY <1>1, <2>1, <2>2, TickedTyped
<1>3. CASE open' = [open EXCEPT !.shown = Lists!Refused, !.selected = {}, !.bulk = 0]
  <2>1. Lists!Refused.rows = {}
    BY DEF Lists!Refused
  <2>2. /\ open'.list = open.list /\ open'.limit = open.limit /\ open'.trail = open.trail
        /\ open'.selected = {} /\ open'.bulk = 0
        /\ open'.shown = Lists!Refused
    BY <1>1, <1>3
  <2>3. QED
    BY <1>1, <2>1, <2>2, TickedTyped
<1>4. CASE Lists!ContactsTable \/ \E c \in Lists!Contacts : Lists!ContactRow(c)
  <2>1. PICK ticked : ticked \subseteq Lists!Contacts /\ Lists!SelectableContacts(ticked)
    <3>1. ASSUME NEW c \in open.shown.rows
          PROVE  Lists!toggledOne(open.selected, c) \subseteq Lists!Contacts
      BY <1>1 DEF Lists!toggledOne
    <3>2. Lists!toggledAll(open.shown.rows, open.selected) \subseteq Lists!Contacts
      BY <1>1 DEF Lists!toggledAll
    <3>3. QED
      BY <1>4, <3>1, <3>2 DEF Lists!ContactsTable, Lists!ContactRow
  <2>2. open' = [open EXCEPT !.selected = ticked, !.bulk = IF ticked = {} THEN 0 ELSE @]
    BY <2>1 DEF Lists!SelectableContacts
  <2>3. /\ open'.list = open.list /\ open'.limit = open.limit /\ open'.trail = open.trail
        /\ open'.selected = ticked /\ open'.shown = open.shown
        /\ open'.bulk = IF ticked = {} THEN 0 ELSE open.bulk
    BY <1>1, <2>2
  <2>4. QED
    BY <1>1, <2>1, <2>3, TickedTyped
<1>5. QED
  BY <1>2, <1>3, <1>4 DEF Lists!PageAnswered

LEMMA BulksTyped ==
  ASSUME ContactsInv, ContactsTypes, Lists!ContactListAssumption,
         \/ Lists!BulkToolbar
         \/ \E b \in Lists!Bulks : Lists!Handle(b) \/ Lists!onDone(b)
  PROVE  ContactsTypes'
<1>1. /\ DOMAIN open = {"list", "limit", "shown", "selected", "bulk", "trail"}
      /\ open.selected \subseteq Lists!Contacts /\ open.shown.rows \subseteq Lists!Contacts
      /\ open.bulk \in 0 .. MaxBulks /\ (open.bulk # 0 => open.selected # {})
      /\ 0 \in 0 .. MaxBulks /\ MaxBulks \in Nat
      /\ DOMAIN bulks = Lists!Bulks
      /\ \A b \in Lists!Bulks : /\ bulks[b].contacts \subseteq Lists!Contacts
                                /\ DOMAIN bulks[b] = {"list", "contacts", "answer"}
  BY DEF ContactsInv, ContactsTypes, Lists!TypeOK, Lists!ContactListAssumption
<1>2. CASE Lists!BulkToolbar
  <2> DEFINE b == Lists!Min(Lists!Unasked)
             q == [list |-> open.list, contacts |-> open.selected, answer |-> "awaited"]
  <2>1. b \in Lists!Bulks
    <3>1. Lists!Unasked \subseteq Nat /\ Lists!Unasked # {} /\ Lists!Unasked \subseteq Lists!Bulks
      BY <1>2 DEF Lists!Unasked, Lists!Bulks, Lists!BulkToolbar
    <3>2. QED
      BY <3>1, LeastOf
  <2>2. /\ bulks' = [bulks EXCEPT ![b] = q] /\ open' = [open EXCEPT !.bulk = b]
        /\ UNCHANGED <<exist, members, listed, chosen>> /\ open.selected # {}
    BY <1>2 DEF Lists!BulkToolbar
  <2>3. q.contacts = open.selected
    OBVIOUS
  <2> HIDE DEF b, q
  <2>4. b \in 0 .. MaxBulks
    BY <1>1, <2>1 DEF Lists!Bulks
  <2>5. /\ open'.list = open.list /\ open'.limit = open.limit /\ open'.trail = open.trail
        /\ open'.selected = open.selected /\ open'.shown = open.shown /\ open'.bulk = b
    BY <1>1, <2>2
  <2>6. \A a \in Lists!Bulks : bulks'[a].contacts \subseteq Lists!Contacts
    BY <1>1, <2>1, <2>2, <2>3
  <2>7. QED
    BY <1>1, <2>2, <2>4, <2>5, <2>6, TickedTyped
<1>3. ASSUME NEW b \in Lists!Bulks, Lists!Handle(b) PROVE ContactsTypes'
  <2>1. /\ bulks' = [bulks EXCEPT ![b].answer = "given"]
        /\ UNCHANGED <<exist, listed, chosen, open>> /\ members' \subseteq members
    BY <1>3 DEF Lists!Handle
  <2>2. \A a \in Lists!Bulks : bulks'[a].contacts = bulks[a].contacts
    BY <1>1, <2>1
  <2>3. QED
    BY <1>1, <2>1, <2>2, TickedTyped
<1>4. ASSUME NEW b \in Lists!Bulks, Lists!onDone(b) PROVE ContactsTypes'
  <2> DEFINE q == [Lists!NoBulk EXCEPT !.answer = "heard"]
  <2>1. /\ bulks' = [bulks EXCEPT ![b] = q] /\ q.contacts = {}
        /\ UNCHANGED <<exist, listed, chosen, members>>
        /\ open' = open \/ open' = [open EXCEPT !.selected = {}, !.bulk = 0]
    BY <1>4 DEF Lists!onDone, Lists!NoBulk
  <2> HIDE DEF q
  <2>2. \A a \in Lists!Bulks : bulks'[a].contacts \subseteq Lists!Contacts
    BY <1>1, <2>1
  <2>3. /\ open'.list = open.list /\ open'.limit = open.limit /\ open'.trail = open.trail
        /\ open'.shown = open.shown
        /\ \/ open'.selected = open.selected /\ open'.bulk = open.bulk
           \/ open'.selected = {} /\ open'.bulk = 0
    BY <1>1, <2>1
  <2>4. /\ open'.selected \subseteq Lists!Contacts /\ open'.bulk \in 0 .. MaxBulks
        /\ open'.bulk # 0 => open'.selected # {}
    BY <1>1, <2>3
  <2>5. QED
    BY <1>1, <2>1, <2>2, <2>3, <2>4, TickedTyped
<1>5. QED
  BY <1>2, <1>3, <1>4

LEMMA ContactsTypesInit ==
  ASSUME Lists!ContactListAssumption, Lists!Init PROVE ContactsTypes
<1> DEFINE name == Lists!Min(Lists!Lists)
           fresh == Lists!Mounted(name)
<1>1. name \in 0 .. MaxList
  <2>1. Lists!Lists \subseteq Nat /\ Lists!Lists # {} /\ Lists!Lists \subseteq 0 .. MaxList
    BY DEF Lists!Lists, Lists!ContactListAssumption
  <2>2. QED
    BY <2>1, LeastOf
<1>2. Lists!Min(Limits) \in Limits
  BY LeastOf DEF Lists!ContactListAssumption
<1> HIDE DEF name
<1>3. /\ fresh.list = name /\ fresh.limit = Lists!Min(Limits) /\ fresh.selected = {}
      /\ fresh.bulk = 0 /\ fresh.trail.cursors = << >> /\ fresh.shown.rows = {}
  BY DEF Lists!Mounted, Lists!NoPage
<1>4. /\ open = fresh /\ exist = Lists!Lists /\ listed = Lists!Lists /\ chosen = 0
      /\ members = Lists!Contacts /\ bulks = [b \in Lists!Bulks |-> Lists!NoBulk]
  BY DEF Lists!Init, fresh, name
<1> HIDE DEF fresh
<1>5. Lists!NoBulk.contacts = {} /\ IsSeq(<< >>)
  BY DEF Lists!NoBulk, IsSeq
<1>6. 0 \in 0 .. MaxBulks /\ 0 \in 0 .. MaxList /\ MaxTrail \in Nat
  BY DEF Lists!ContactListAssumption
<1>7. QED
  BY <1>1, <1>2, <1>3, <1>4, <1>5, <1>6 DEF ContactsTypes, Lists!TypeOK

\* No step of the contacts leaves their types.
LEMMA ContactsTypesStep ==
  ASSUME ContactsInv, ContactsTypes, Lists!ContactListAssumption, [Lists!Next]_listVars
  PROVE  ContactsTypes'
<1>0. /\ exist \subseteq Lists!Lists /\ listed \subseteq Lists!Lists
      /\ members \subseteq Lists!Contacts /\ chosen \in 0 .. MaxList
      /\ Lists!Lists \subseteq 0 .. MaxList
  BY DEF ContactsTypes, Lists!TypeOK, Lists!Lists
<1>1. CASE UNCHANGED listVars
  BY <1>1 DEF listVars, ContactsTypes, Lists!TypeOK
<1>2. CASE Lists!ContactsScreen
  <2>1. /\ UNCHANGED <<exist, members, chosen, bulks>> /\ listed' \subseteq exist
        /\ open' = Lists!ListPanel(Lists!Selected(listed', chosen))
    BY <1>2 DEF Lists!ContactsScreen
  <2>2. QED
    BY <1>0, <2>1, MountTyped
<1>3. ASSUME NEW l \in Lists!Lists, Lists!ListCard(l) PROVE ContactsTypes'
  <2>1. /\ UNCHANGED <<exist, members, listed, bulks>> /\ chosen' = l
        /\ open' = Lists!ListPanel(Lists!Selected(listed, l))
    BY <1>3 DEF Lists!ListCard
  <2>2. QED
    BY <1>0, <2>1, MountTyped
<1>4. ASSUME NEW l \in Lists!Lists, Lists!ListCards(l) PROVE ContactsTypes'
  <2>1. /\ UNCHANGED <<listed, chosen, open, bulks>> /\ exist' \subseteq exist
        /\ members' \subseteq members
    BY <1>4 DEF Lists!ListCards
  <2>2. QED
    BY <2>1 DEF ContactsTypes, Lists!TypeOK
<1>5. CASE \/ Lists!NextPage \/ Lists!PreviousPage
           \/ \E n \in Limits : Lists!EntriesSelect(n)
  BY <1>5, TurnTyped
<1>6. CASE \/ Lists!PageAnswered
           \/ Lists!ContactsTable \/ \E c \in Lists!Contacts : Lists!ContactRow(c)
  BY <1>6, PageTyped
<1>7. CASE \/ Lists!BulkToolbar
           \/ \E b \in Lists!Bulks : Lists!Handle(b) \/ Lists!onDone(b)
  BY <1>7, BulksTyped
<1>8. QED
  BY <1>1, <1>2, <1>3, <1>4, <1>5, <1>6, <1>7 DEF Lists!Next

-----------------------------------------------------------------------------
(* The campaign editor                                                     *)

FormFields == {"n", "campaign", "draft", "dirty", "quoted", "savedId", "leaving", "picking",
               "sendAt", "scheduling"}
Known      == Editor!Ids \cup {Editor!None}

\* A form on show, and one that differs in what its dialogs show only.
FormOf(f, kind) ==
  f # Editor!NoForm =>
    DOMAIN f = FormFields /\ f.n # 0 /\ kind = "EDITOR" /\ f.savedId \in Known

SameForm(f, g) ==
  /\ DOMAIN g = DOMAIN f /\ g.n = f.n /\ g.draft = f.draft /\ g.dirty = f.dirty
  /\ g.quoted = f.quoted /\ g.savedId = f.savedId

\* A request whose answer is awaited, one that was granted, and the campaign it keeps.
Out(q)     == q.op \notin {Editor!None, "upload"}
Granted(q) == q.answer \notin {Editor!None, Editor!Refused}
KeptAt(q)  == IF q.op = "create" THEN q.answer ELSE q.id

\* A form after its draft was saved by this request.
SameSaved(f, g, q) ==
  /\ g.n = f.n /\ g.draft = f.draft /\ g.dirty = FALSE
  /\ g.quoted = f.quoted /\ g.savedId = KeptAt(q)

RequestOf(q) ==
  /\ q # Editor!NoRequest => {"op", "answer"} \subseteq DOMAIN q /\ q.op \in Editor!Operations
  /\ q.op \in {"create", "update", "quote", "schedule"} =>
       {"id", "content", "form"} \subseteq DOMAIN q
  /\ q.op = "create" => q.answer \in Known \cup {Editor!Refused}
  /\ q.op = "update" => q.id \in Known

ShapeInv ==
  /\ hasty \in Nat /\ forms \in Nat /\ view.id \in Known
  /\ DOMAIN store = Editor!Ids
  /\ \A i \in Editor!Ids : DOMAIN store[i] = {"status", "content"}
  /\ DOMAIN saves = Editor!Slots
  /\ \A s \in Editor!Slots : RequestOf(saves[s])
  /\ FormOf(form, view.kind)

\* What is kept of a form's draft; and a form that is clean, or has a price, has it for
\* what is kept.
HeldBy(f, st) ==
  IF f.savedId = Editor!None THEN Editor!emptyDraft ELSE st[f.savedId].content

FormKept(f, st) ==
  /\ ~f.dirty => f.draft = HeldBy(f, st)
  /\ f.quoted # Editor!NoDraft =>
       ~f.dirty /\ f.savedId # Editor!None /\ f.quoted = st[f.savedId].content

\* The request of a form that waits for it: of its draft as it is, where it is kept.
SentBy(q, f, st) ==
  /\ q.form = f.n /\ q.op # "delete"
  /\ q.op \in {"create", "update"} =>
       /\ q.content = f.draft
       /\ q.op = "create" => f.savedId = Editor!None
       /\ q.op = "update" => q.id = f.savedId /\ f.savedId # Editor!None
       /\ Granted(q) => KeptAt(q) \in Editor!Ids /\ st[KeptAt(q)].content = q.content
  /\ q.op = "quote" =>
       /\ q.id = f.savedId /\ f.savedId # Editor!None /\ ~f.dirty
       /\ Granted(q) => q.content = st[q.id].content

ScheduledAs(q, st, kind) ==
  kind = "EDITOR" /\ q.id \in Editor!Ids /\ st[q.id].content = q.content

\* What holds for a user who waits for every answer.
WaitedFor(rs, f, st, kind) ==
  /\ \A s, t \in Editor!Slots : Out(rs[s]) /\ Out(rs[t]) => s = t
  /\ \A s \in Editor!Slots : rs[s].op = "schedule" => ScheduledAs(rs[s], st, kind)
  /\ f # Editor!NoForm =>
       /\ \A s \in Editor!Slots : Out(rs[s]) => SentBy(rs[s], f, st)
       /\ FormKept(f, st)

Waited    == WaitedFor(saves, form, store, view.kind)
EditorInv == ShapeInv /\ (hasty = 0 => Waited)

-----------------------------------------------------------------------------

LEMMA SameIsKept ==
  ASSUME NEW f, NEW g, NEW st, SameForm(f, g), FormKept(f, st)
  PROVE  FormKept(g, st)
BY DEF SameForm, FormKept, HeldBy

\* Fewer requests are out, and the form is the same or gone.
LEMMA WaitedLess ==
  ASSUME NEW rs, NEW f, NEW st, NEW kind, WaitedFor(rs, f, st, kind),
         NEW rt, NEW g, NEW other,
         \A s \in Editor!Slots : rt[s] = rs[s] \/ ~Out(rt[s]),
         g = Editor!NoForm \/ g = f \/ (f # Editor!NoForm /\ SameForm(f, g)),
         other = kind \/ \A s \in Editor!Slots : rt[s].op # "schedule"
  PROVE  WaitedFor(rt, g, st, other)
<1>1. \A s, t \in Editor!Slots : Out(rt[s]) /\ Out(rt[t]) => s = t
  BY DEF WaitedFor
<1>2. \A s \in Editor!Slots : rt[s].op = "schedule" => ScheduledAs(rt[s], st, other)
  BY DEF WaitedFor, Out, ScheduledAs, Editor!None
<1>3. ASSUME g # Editor!NoForm
      PROVE  /\ \A s \in Editor!Slots : Out(rt[s]) => SentBy(rt[s], g, st)
             /\ FormKept(g, st)
  <2>1. f # Editor!NoForm /\ (g = f \/ SameForm(f, g))
    BY <1>3
  <2>2. FormKept(g, st)
    BY <2>1, SameIsKept DEF WaitedFor
  <2>3. ASSUME NEW s \in Editor!Slots, Out(rt[s]) PROVE SentBy(rt[s], g, st)
    <3>1. rt[s] = rs[s] /\ SentBy(rs[s], f, st)
      BY <2>1, <2>3 DEF WaitedFor
    <3>2. CASE g = f
      BY <3>1, <3>2
    <3>3. CASE SameForm(f, g)
      BY <3>1, <3>3 DEF SentBy, SameForm
    <3>4. QED
      BY <2>1, <3>2, <3>3
  <2>4. QED
    BY <2>2, <2>3
<1>4. QED
  BY <1>1, <1>2, <1>3 DEF WaitedFor

\* No request is out.
LEMMA WaitedNone ==
  ASSUME NEW rs, NEW f, NEW st, NEW kind,
         \A s \in Editor!Slots : ~Out(rs[s]),
         f # Editor!NoForm => FormKept(f, st)
  PROVE  WaitedFor(rs, f, st, kind)
BY DEF WaitedFor, Out, Editor!None

\* One request is out.
LEMMA WaitedOne ==
  ASSUME NEW rs, NEW f, NEW st, NEW kind, NEW slot \in Editor!Slots,
         \A s \in Editor!Slots : s # slot => ~Out(rs[s]),
         rs[slot].op = "schedule" => ScheduledAs(rs[slot], st, kind),
         f # Editor!NoForm => SentBy(rs[slot], f, st) /\ FormKept(f, st)
  PROVE  WaitedFor(rs, f, st, kind)
BY DEF WaitedFor, Out, Editor!None

LEMMA SaveSlotIs ==
  ASSUME Editor!Free # {}
  PROVE  Editor!Slot \in Editor!Slots /\ saves[Editor!Slot] = Editor!NoRequest
<1>1. Editor!Free \subseteq Nat
  BY DEF Editor!Free, Editor!Slots
<1>2. \E s \in Editor!Free : \A t \in Editor!Free : s <= t
  BY <1>1, LeastIs
<1>3. QED
  BY <1>2 DEF Editor!Slot, Editor!Free

\* A request is sent in the first free slot.
LEMMA SaveSentIs ==
  ASSUME ShapeInv, Editor!Free # {}, NEW q, RequestOf(q), saves' = Editor!Sent(q)
  PROVE  /\ DOMAIN saves' = Editor!Slots /\ \A s \in Editor!Slots : RequestOf(saves'[s])
         /\ Editor!Slot \in Editor!Slots /\ saves'[Editor!Slot] = q
         /\ \A s \in Editor!Slots : s # Editor!Slot => saves'[s] = saves[s]
<1> DEFINE slot == Editor!Slot
<1>1. slot \in Editor!Slots
  BY SaveSlotIs
<1>2. saves' = [saves EXCEPT ![slot] = q]
  BY DEF Editor!Sent
<1> HIDE DEF slot
<1>3. /\ DOMAIN saves' = Editor!Slots /\ saves'[slot] = q
      /\ \A s \in Editor!Slots : s # slot => saves'[s] = saves[s]
  BY <1>1, <1>2 DEF ShapeInv
<1>4. QED
  BY <1>1, <1>3 DEF ShapeInv, slot

\* A user who waits has no answer out when he goes on.
LEMMA InputWaits ==
  ASSUME ShapeInv, Editor!Input
  PROVE  /\ hasty' \in Nat
         /\ hasty' = 0 => hasty = 0 /\ \A s \in Editor!Slots : ~Out(saves[s])
BY DEF ShapeInv, Editor!Input, Editor!Quiet, Out

LEMMA FormMoves ==
  ASSUME NEW f, DOMAIN f = FormFields
  PROVE  /\ \A x : SameForm(f, [f EXCEPT !.leaving = x])
         /\ \A x : SameForm(f, [f EXCEPT !.picking = x])
         /\ \A x : SameForm(f, [f EXCEPT !.sendAt = x])
         /\ \A x : SameForm(f, [f EXCEPT !.scheduling = x])
         /\ \A x, y : SameForm(f, [f EXCEPT !.sendAt = x, !.scheduling = y])
<1>1. \A x : SameForm(f, [f EXCEPT !.leaving = x])
  BY DEF FormFields, SameForm
<1>2. \A x : SameForm(f, [f EXCEPT !.picking = x])
  BY DEF FormFields, SameForm
<1>3. \A x : SameForm(f, [f EXCEPT !.sendAt = x])
  BY DEF FormFields, SameForm
<1>4. \A x : SameForm(f, [f EXCEPT !.scheduling = x])
  BY DEF FormFields, SameForm
<1>5. \A x, y : SameForm(f, [f EXCEPT !.sendAt = x, !.scheduling = y])
  BY DEF FormFields, SameForm
<1>6. QED
  BY <1>1, <1>2, <1>3, <1>4, <1>5

LEMMA SameFormOf ==
  ASSUME NEW f, NEW g, NEW kind, FormOf(f, kind), f # Editor!NoForm, SameForm(f, g)
  PROVE  FormOf(g, kind) /\ g # Editor!NoForm
BY DEF FormOf, SameForm, Editor!NoForm

-----------------------------------------------------------------------------

\* The screen goes elsewhere, or the editor is taken away by a fetch.
LEMMA ViewKeeps ==
  ASSUME EditorInv,
         \/ Editor!OpenNew \/ Editor!CampaignReportView \/ Editor!CampaignFetched
         \/ \E id \in Editor!Ids : Editor!OpenRow(id)
  PROVE  EditorInv'
<1>1. /\ UNCHANGED <<saves, store, hasty, forms>> /\ form' \in {form, Editor!NoForm}
      /\ view'.id \in Known
  BY DEF Editor!OpenNew, Editor!CampaignReportView, Editor!CampaignFetched, Editor!OpenRow,
         Editor!Close, Editor!viewOf, EditorInv, ShapeInv, Known
<1>2. view' = view \/ view.kind # "EDITOR"
  BY DEF Editor!OpenNew, Editor!CampaignReportView, Editor!CampaignFetched, Editor!OpenRow
<1>3. FormOf(form', view'.kind)
  BY <1>1, <1>2 DEF EditorInv, ShapeInv, FormOf
<1>4. ShapeInv'
  BY <1>1, <1>3 DEF EditorInv, ShapeInv
<1>5. hasty' = 0 => Waited'
  <2> SUFFICES ASSUME Waited PROVE WaitedFor(saves', form', store', view'.kind)
    BY <1>1 DEF EditorInv, Waited
  <2>1. view'.kind = view.kind \/ \A s \in Editor!Slots : saves[s].op # "schedule"
    BY <1>2 DEF Waited, WaitedFor, ScheduledAs
  <2>2. WaitedFor(saves, form, store, view.kind)
    BY DEF Waited
  <2>3. /\ \A s \in Editor!Slots : saves[s] = saves[s] \/ ~Out(saves[s])
        /\ form' = Editor!NoForm \/ form' = form
             \/ (form # Editor!NoForm /\ SameForm(form, form'))
    BY <1>1
  <2>4. WaitedFor(saves, form', store, view'.kind)
    BY <2>1, <2>2, <2>3, WaitedLess, Zenon
  <2>5. QED
    BY <1>1, <2>4
<1>6. QED
  BY <1>4, <1>5 DEF EditorInv

\* The rows are cancelled and duplicated where no editor is.
LEMMA RowsKeep ==
  ASSUME EditorInv, NEW id \in Editor!Ids, Editor!CampaignRowActions(id) PROVE EditorInv'
<1>1. /\ view.kind = "LIST" /\ UNCHANGED <<view, saves, form, hasty, forms>>
      /\ \/ store' = [store EXCEPT ![id].status = "CANCELLED"]
         \/ store' = [store EXCEPT ![Editor!Given] = [status |-> "DRAFT", content |-> store[id].content]]
  BY DEF Editor!CampaignRowActions
<1>2. /\ DOMAIN store' = Editor!Ids
      /\ \A i \in Editor!Ids : DOMAIN store'[i] = {"status", "content"}
  BY <1>1 DEF EditorInv, ShapeInv
<1>3. form = Editor!NoForm
  BY <1>1 DEF EditorInv, ShapeInv, FormOf
<1>4. ShapeInv'
  BY <1>1, <1>2 DEF EditorInv, ShapeInv
<1>5. hasty' = 0 => Waited'
  BY <1>1, <1>3 DEF EditorInv, Waited, WaitedFor, ScheduledAs
<1>6. QED
  BY <1>4, <1>5 DEF EditorInv

\* A form is mounted on what the cache holds; for a user who waits, it is what is kept.
LEMMA MountKeeps ==
  ASSUME EditorInv, Editor!CampaignEditor PROVE EditorInv'
<1> DEFINE f == Editor!NewForm(view.id)
<1>1. /\ UNCHANGED <<view, saves, store>> /\ forms' = forms + 1 /\ form' = f
      /\ view.kind = "EDITOR"
      /\ hasty' = IF /\ Editor!Quiet
                     /\ view.id # Editor!None => store[view.id].content = cached[view.id]
                  THEN 0 ELSE 1
  BY DEF Editor!CampaignEditor
<1>2. /\ DOMAIN f = FormFields /\ f.n = forms + 1 /\ f.draft = Editor!draftOf(view.id)
      /\ f.dirty = FALSE /\ f.quoted = Editor!NoDraft /\ f.savedId = view.id
  BY DEF Editor!NewForm, FormFields
<1> HIDE DEF f
<1>3. FormOf(f, view.kind)
  BY <1>1, <1>2 DEF FormOf, EditorInv, ShapeInv
<1>4. ShapeInv'
  BY <1>1, <1>3 DEF EditorInv, ShapeInv
<1>5. ASSUME hasty' = 0 PROVE Waited'
  <2>1. /\ \A s \in Editor!Slots : ~Out(saves[s])
        /\ view.id # Editor!None => store[view.id].content = cached[view.id]
    BY <1>1, <1>5 DEF Editor!Quiet, Out
  <2>2. FormKept(f, store)
    BY <1>2, <2>1 DEF FormKept, HeldBy, Editor!draftOf
  <2>3. WaitedFor(saves, f, store, view.kind)
    BY <2>1, <2>2, WaitedNone
  <2>4. QED
    BY <1>1, <2>3 DEF Waited
<1>6. QED
  BY <1>4, <1>5 DEF EditorInv

\* An input that sends nothing.
LEMMA InputKeeps ==
  ASSUME EditorInv, Editor!Input, UNCHANGED <<saves, store, forms>>, view'.id \in Known,
         FormOf(form', view'.kind),
         form' # Editor!NoForm =>
           \/ form # Editor!NoForm /\ SameForm(form, form')
           \/ FormKept(form', store)
  PROVE  EditorInv'
<1>1. /\ hasty' \in Nat
      /\ hasty' = 0 => hasty = 0 /\ \A s \in Editor!Slots : ~Out(saves[s])
  BY InputWaits DEF EditorInv
<1>2. ShapeInv'
  BY <1>1 DEF EditorInv, ShapeInv
<1>3. ASSUME hasty' = 0 PROVE Waited'
  <2>1. \A s \in Editor!Slots : ~Out(saves[s])
    BY <1>1, <1>3
  <2>2. form # Editor!NoForm => FormKept(form, store)
    BY <1>1, <1>3 DEF EditorInv, Waited, WaitedFor
  <2>3. form' # Editor!NoForm => FormKept(form', store)
    BY <2>2, SameIsKept
  <2>4. WaitedFor(saves, form', store, view'.kind)
    BY <2>1, <2>3, WaitedNone
  <2>5. QED
    BY <2>4 DEF Waited
<1>4. QED
  BY <1>2, <1>3 DEF EditorInv

\* An input that sends a request.
LEMMA SendKeeps ==
  ASSUME EditorInv, Editor!Input, UNCHANGED <<store, forms>>, view'.id \in Known,
         FormOf(form', view'.kind),
         form' # Editor!NoForm => form # Editor!NoForm /\ (form' = form \/ SameForm(form, form')),
         Editor!Free # {}, NEW q, RequestOf(q), saves' = Editor!Sent(q),
         hasty = 0 /\ Waited /\ q.op = "schedule" => ScheduledAs(q, store, view'.kind),
         hasty = 0 /\ Waited /\ form' # Editor!NoForm => SentBy(q, form, store)
  PROVE  EditorInv'
<1> DEFINE slot == Editor!Slot
<1>1. /\ hasty' \in Nat
      /\ hasty' = 0 => hasty = 0 /\ \A s \in Editor!Slots : ~Out(saves[s])
  BY InputWaits DEF EditorInv
<1>2. /\ DOMAIN saves' = Editor!Slots /\ \A s \in Editor!Slots : RequestOf(saves'[s])
      /\ slot \in Editor!Slots /\ saves'[slot] = q
      /\ \A s \in Editor!Slots : s # slot => saves'[s] = saves[s]
  BY SaveSentIs DEF EditorInv
<1> HIDE DEF slot
<1>3. ShapeInv'
  BY <1>1, <1>2 DEF EditorInv, ShapeInv
<1>4. ASSUME hasty' = 0 PROVE Waited'
  <2>1. hasty = 0 /\ Waited /\ \A s \in Editor!Slots : s # slot => ~Out(saves'[s])
    BY <1>1, <1>2, <1>4 DEF EditorInv
  <2>2. ASSUME form' # Editor!NoForm PROVE SentBy(q, form', store) /\ FormKept(form', store)
    <3>1. FormKept(form, store) /\ SentBy(q, form, store)
      BY <2>1, <2>2 DEF Waited, WaitedFor
    <3>2. CASE form' = form
      BY <3>1, <3>2
    <3>3. CASE SameForm(form, form')
      BY <3>1, <3>3, SameIsKept DEF SentBy, SameForm
    <3>4. QED
      BY <2>2, <3>2, <3>3
  <2>3. WaitedFor(saves', form', store, view'.kind)
    BY <1>2, <2>1, <2>2, WaitedOne
  <2>4. QED
    BY <2>3 DEF Waited
<1>5. QED
  BY <1>3, <1>4 DEF EditorInv

-----------------------------------------------------------------------------

LEMMA PatchKeeps ==
  ASSUME EditorInv, Editor!patch PROVE EditorInv'
<1>1. PICK change : form' = Editor!Patched(form.draft, change)
  BY DEF Editor!patch
<1>2. /\ form # Editor!NoForm /\ Editor!Input /\ UNCHANGED <<view, saves, store, forms>>
  BY DEF Editor!patch, Editor!Reachable, Editor!Mounted
<1>3. DOMAIN form = FormFields /\ form.n # 0 /\ view.kind = "EDITOR" /\ form.savedId \in Known
  BY <1>2 DEF EditorInv, ShapeInv, FormOf
<1>4. /\ DOMAIN form' = FormFields /\ form'.n = form.n /\ form'.savedId = form.savedId
      /\ form'.dirty = TRUE /\ form'.quoted = Editor!NoDraft
  BY <1>1, <1>3 DEF Editor!Patched, FormFields
<1>5. FormOf(form', view'.kind) /\ FormKept(form', store)
  BY <1>2, <1>3, <1>4 DEF FormOf, FormKept
<1>6. view'.id \in Known
  BY <1>2 DEF EditorInv, ShapeInv
<1>7. QED
  BY <1>2, <1>5, <1>6, InputKeeps

\* The form's dialogs open and close.
LEMMA DialogKeeps ==
  ASSUME EditorInv, form # Editor!NoForm, Editor!Input, UNCHANGED <<view, saves, store, forms>>,
         SameForm(form, form')
  PROVE  EditorInv'
<1>1. FormOf(form', view'.kind) /\ view'.id \in Known
  BY SameFormOf DEF EditorInv, ShapeInv
<1>2. QED
  BY <1>1, InputKeeps

LEMMA ClosingKeeps ==
  ASSUME EditorInv, Editor!Input, Editor!Close, UNCHANGED <<saves, store, forms>>
  PROVE  EditorInv'
<1>1. form' = Editor!NoForm /\ view'.id \in Known
  BY DEF Editor!Close, Known
<1>2. FormOf(form', view'.kind)
  BY <1>1 DEF FormOf
<1>3. QED
  BY <1>1, <1>2, InputKeeps

LEMMA LeaveKeeps ==
  ASSUME EditorInv, Editor!leave \/ Editor!SendNowButton PROVE EditorInv'
<1>1. /\ form # Editor!NoForm /\ Editor!Input /\ UNCHANGED <<saves, store, forms>>
  BY DEF Editor!leave, Editor!SendNowButton, Editor!Reachable, Editor!Mounted
<1>2. DOMAIN form = FormFields
  BY <1>1 DEF EditorInv, ShapeInv, FormOf
<1>3. \/ Editor!Close
      \/ /\ UNCHANGED view
         /\ \/ form' = [form EXCEPT !.leaving = TRUE]
            \/ form' = [form EXCEPT !.sendAt = "chosen"]
            \/ form' = [form EXCEPT !.picking = ~form.picking]
  BY DEF Editor!leave, Editor!SendNowButton
<1>4. Editor!Close \/ (UNCHANGED view /\ SameForm(form, form'))
  <2>1. /\ SameForm(form, [form EXCEPT !.leaving = TRUE])
        /\ SameForm(form, [form EXCEPT !.sendAt = "chosen"])
        /\ SameForm(form, [form EXCEPT !.picking = ~form.picking])
    BY <1>2, FormMoves
  <2>2. QED
    BY <1>3, <2>1
<1>5. QED
  BY <1>1, <1>4, DialogKeeps, ClosingKeeps

\* The draft as it is goes to the API, to be kept where it was or anew.
LEMMA PersistKeeps ==
  ASSUME EditorInv, form # Editor!NoForm, Editor!Input, NEW then, Editor!persist(then),
         UNCHANGED <<view, form, store, forms>>
  PROVE  EditorInv'
<1> DEFINE q == [op |-> IF form.savedId = Editor!None THEN "create" ELSE "update",
                 id |-> form.savedId, content |-> form.draft, form |-> form.n,
                 then |-> then, answer |-> Editor!None]
<1>1. Editor!Free # {} /\ saves' = Editor!Sent(q)
  BY DEF Editor!persist
<1>2. FormOf(form', view'.kind) /\ view'.id \in Known /\ form.savedId \in Known
  BY DEF EditorInv, ShapeInv, FormOf
<1>3. /\ q.op = IF form.savedId = Editor!None THEN "create" ELSE "update"
      /\ q.id = form.savedId /\ q.content = form.draft /\ q.form = form.n
      /\ q.answer = Editor!None
      /\ {"op", "answer", "id", "content", "form"} \subseteq DOMAIN q
  OBVIOUS
<1> HIDE DEF q
<1>4. RequestOf(q)
  BY <1>2, <1>3 DEF RequestOf, Known, Editor!Operations
<1>5. SentBy(q, form, store) /\ q.op # "schedule"
  BY <1>3 DEF SentBy, Granted
<1>6. QED
  BY <1>1, <1>2, <1>4, <1>5, SendKeeps

LEMMA SavingKeeps ==
  ASSUME EditorInv, Editor!SaveDraft \/ Editor!next PROVE EditorInv'
<1>1. /\ form # Editor!NoForm /\ Editor!Input /\ UNCHANGED <<view, form, store, forms>>
      /\ \E then \in {"notice", "quote"} : Editor!persist(then)
  BY DEF Editor!SaveDraft, Editor!next, Editor!Reachable, Editor!Mounted
<1>2. QED
  BY <1>1, PersistKeeps

\* The draft is kept, given up or gone on with; what a form made goes with it.
LEMMA LeavingKeeps ==
  ASSUME EditorInv, Editor!SaveDraftDialog PROVE EditorInv'
<1>1. /\ form # Editor!NoForm /\ Editor!Input /\ UNCHANGED <<store, forms>>
  BY DEF Editor!SaveDraftDialog, Editor!Mounted
<1>2. DOMAIN form = FormFields
  BY <1>1 DEF EditorInv, ShapeInv, FormOf
<1>3. CASE form' = [form EXCEPT !.leaving = FALSE] /\ UNCHANGED <<view, saves>>
  <2>1. SameForm(form, form')
    BY <1>2, <1>3, FormMoves
  <2>2. QED
    BY <1>1, <1>3, <2>1, DialogKeeps
<1>4. CASE Editor!discard /\ Editor!Close
  <2>1. CASE UNCHANGED saves
    BY <1>1, <1>4, <2>1, ClosingKeeps
  <2>2. CASE ~UNCHANGED saves
    <3> DEFINE q == [op |-> "delete", id |-> form.savedId, answer |-> Editor!None]
    <3>1. Editor!Free # {} /\ saves' = Editor!Sent(q)
      BY <1>4, <2>2 DEF Editor!discard
    <3>2. RequestOf(q) /\ q.op = "delete"
      BY DEF RequestOf, Editor!Operations
    <3>3. form' = Editor!NoForm /\ view'.id \in Known
      BY <1>4 DEF Editor!Close, Known
    <3>4. FormOf(form', view'.kind)
      BY <3>3 DEF FormOf
    <3> HIDE DEF q
    <3>5. QED
      BY <1>1, <3>1, <3>2, <3>3, <3>4, SendKeeps
  <2>3. QED
    BY <2>1, <2>2
<1>5. CASE Editor!persist("close") /\ UNCHANGED <<view, form>>
  BY <1>1, <1>5, PersistKeeps
<1>6. QED
  BY <1>3, <1>4, <1>5 DEF Editor!SaveDraftDialog

\* What is scheduled is what the price was for.
LEMMA ConfirmingKeeps ==
  ASSUME EditorInv, Editor!ConfirmCampaignModal PROVE EditorInv'
<1>1. /\ form # Editor!NoForm /\ Editor!Input /\ UNCHANGED <<view, store, forms>>
      /\ form.savedId # Editor!None /\ form.quoted # Editor!NoDraft
  BY DEF Editor!ConfirmCampaignModal, Editor!Mounted, Editor!Confirming
<1>2. DOMAIN form = FormFields /\ view.kind = "EDITOR" /\ form.savedId \in Known
  BY <1>1 DEF EditorInv, ShapeInv, FormOf
<1>3. CASE form' = [form EXCEPT !.sendAt = Editor!None, !.scheduling = 0] /\ UNCHANGED saves
  <2>1. SameForm(form, form')
    BY <1>2, <1>3, FormMoves
  <2>2. QED
    BY <1>1, <1>3, <2>1, DialogKeeps
<1>4. CASE ~(form' = [form EXCEPT !.sendAt = Editor!None, !.scheduling = 0] /\ UNCHANGED saves)
  <2> DEFINE q == [op |-> "schedule", id |-> form.savedId, content |-> form.quoted,
                   form |-> form.n, answer |-> Editor!None]
  <2>1. /\ Editor!Free # {} /\ saves' = Editor!Sent(q)
        /\ form' = [form EXCEPT !.scheduling = Editor!Slot]
    BY <1>4 DEF Editor!ConfirmCampaignModal
  <2>2. RequestOf(q)
    BY DEF RequestOf, Editor!Operations
  <2>3. /\ q.op = "schedule" /\ q.id = form.savedId /\ q.content = form.quoted
        /\ q.form = form.n
    OBVIOUS
  <2> HIDE DEF q
  <2>4. SameForm(form, form')
    BY <1>2, <2>1, FormMoves
  <2>5. FormOf(form', view'.kind) /\ view'.id \in Known
    BY <1>1, <2>4, SameFormOf DEF EditorInv, ShapeInv
  <2>6. Waited => ScheduledAs(q, store, view'.kind)
    BY <1>1, <1>2, <2>3 DEF Waited, WaitedFor, FormKept, ScheduledAs, Known
  <2>7. SentBy(q, form, store)
    BY <2>3 DEF SentBy
  <2>8. QED
    BY <1>1, <2>1, <2>2, <2>4, <2>5, <2>6, <2>7, SendKeeps
<1>5. QED
  BY <1>3, <1>4

\* An upload is nothing the form waits for.
LEMMA UploadKeeps ==
  ASSUME EditorInv, Editor!MediaUpload PROVE EditorInv'
<1> DEFINE q    == [op |-> "upload", base |-> form.draft, form |-> form.n, answer |-> Editor!None]
           slot == Editor!Slot
<1>1. /\ UNCHANGED <<view, form, store, forms, hasty>>
      /\ Editor!Free # {} /\ saves' = Editor!Sent(q)
  BY DEF Editor!MediaUpload
<1>2. RequestOf(q) /\ ~Out(q)
  BY DEF RequestOf, Out, Editor!Operations
<1> HIDE DEF q
<1>3. /\ DOMAIN saves' = Editor!Slots /\ \A s \in Editor!Slots : RequestOf(saves'[s])
      /\ \A s \in Editor!Slots : saves'[s] = saves[s] \/ ~Out(saves'[s])
  BY <1>1, <1>2, SaveSentIs DEF EditorInv
<1>4. ShapeInv'
  BY <1>1, <1>3 DEF EditorInv, ShapeInv
<1>5. ASSUME Waited PROVE WaitedFor(saves', form, store, view.kind)
  <2>1. WaitedFor(saves, form, store, view.kind)
    BY <1>5 DEF Waited
  <2>2. /\ form = Editor!NoForm \/ form = form
             \/ (form # Editor!NoForm /\ SameForm(form, form))
        /\ view.kind = view.kind \/ \A s \in Editor!Slots : saves'[s].op # "schedule"
    OBVIOUS
  <2>3. \A s \in Editor!Slots : saves'[s] = saves[s] \/ ~Out(saves'[s])
    BY <1>3
  <2>4. QED
    BY <2>1, <2>2, <2>3, WaitedLess, Zenon
<1>6. QED
  BY <1>1, <1>4, <1>5 DEF EditorInv, Waited

-----------------------------------------------------------------------------

\* A request is over.
LEMMA DoneIs ==
  ASSUME ShapeInv, NEW s \in Editor!Slots, saves' = Editor!Done(s)
  PROVE  /\ DOMAIN saves' = Editor!Slots /\ \A t \in Editor!Slots : RequestOf(saves'[t])
         /\ ~Out(saves'[s]) /\ \A t \in Editor!Slots : t # s => saves'[t] = saves[t]
<1>1. /\ DOMAIN saves' = Editor!Slots /\ saves'[s] = Editor!NoRequest
      /\ \A t \in Editor!Slots : t # s => saves'[t] = saves[t]
  BY DEF Editor!Done, ShapeInv
<1>2. RequestOf(Editor!NoRequest) /\ ~Out(Editor!NoRequest)
  BY DEF RequestOf, Out, Editor!NoRequest, Editor!None
<1>3. QED
  BY <1>1, <1>2 DEF ShapeInv

LEMMA OthersAreIn ==
  ASSUME Waited, NEW s \in Editor!Slots, Out(saves[s]), NEW t \in Editor!Slots, t # s
  PROVE  ~Out(saves[t])
BY DEF Waited, WaitedFor

\* The answer to a schedule closes the editor, or leaves its dialog open.
LEMMA ScheduledKeeps ==
  ASSUME EditorInv, NEW s \in Editor!Slots, Editor!Scheduled(s) PROVE EditorInv'
<1>1. /\ UNCHANGED <<store, forms, hasty>> /\ saves' = Editor!Done(s)
      /\ saves[s].op = "schedule"
      /\ \/ UNCHANGED <<view, form>>
         \/ form # Editor!NoForm /\ form' = [form EXCEPT !.scheduling = 0] /\ UNCHANGED view
         \/ Editor!Close
  BY DEF Editor!Scheduled, Editor!Answered, Editor!Mine, Editor!Mounted
<1>2. /\ DOMAIN saves' = Editor!Slots /\ \A t \in Editor!Slots : RequestOf(saves'[t])
      /\ ~Out(saves'[s]) /\ \A t \in Editor!Slots : t # s => saves'[t] = saves[t]
  BY <1>1, DoneIs DEF EditorInv
<1>3. /\ form' = Editor!NoForm \/ form' = form \/ (form # Editor!NoForm /\ SameForm(form, form'))
      /\ UNCHANGED view \/ (form' = Editor!NoForm /\ view'.id \in Known)
  <2>1. form # Editor!NoForm => SameForm(form, [form EXCEPT !.scheduling = 0])
    BY FormMoves DEF EditorInv, ShapeInv, FormOf
  <2>2. QED
    BY <1>1, <2>1 DEF Editor!Close, Known
<1>4. ShapeInv'
  <2>1. FormOf(form', view'.kind)
    BY <1>3, SameFormOf DEF EditorInv, ShapeInv, FormOf
  <2>2. QED
    BY <1>1, <1>2, <1>3, <2>1 DEF EditorInv, ShapeInv
<1>5. ASSUME hasty = 0 PROVE Waited'
  <2>1. Waited
    BY <1>5 DEF EditorInv
  <2>2. \A t \in Editor!Slots : saves'[t] = saves[t] \/ ~Out(saves'[t])
    BY <1>2
  <2>3. \A t \in Editor!Slots : saves'[t].op # "schedule"
    BY <1>1, <1>2, <2>1, OthersAreIn DEF Out, Editor!None
  <2>4. WaitedFor(saves', form', store, view'.kind)
    BY <1>3, <2>1, <2>2, <2>3, WaitedLess DEF Waited
  <2>5. QED
    BY <1>1, <2>4 DEF Waited
<1>6. QED
  BY <1>1, <1>4, <1>5 DEF EditorInv

\* An upload that answers changes the draft; where another answer is out, the user has
\* not waited.
LEMMA UploadedKeeps ==
  ASSUME EditorInv, NEW s \in Editor!Slots, Editor!Uploaded(s) PROVE EditorInv'
<1>1. /\ UNCHANGED <<view, store, forms>> /\ saves' = Editor!Done(s)
  BY DEF Editor!Uploaded
<1>2. /\ DOMAIN saves' = Editor!Slots /\ \A t \in Editor!Slots : RequestOf(saves'[t])
      /\ ~Out(saves'[s]) /\ \A t \in Editor!Slots : t # s => saves'[t] = saves[t]
  BY <1>1, DoneIs DEF EditorInv
<1>3. CASE UNCHANGED <<form, hasty>>
  <2>1. ShapeInv'
    BY <1>1, <1>2, <1>3 DEF EditorInv, ShapeInv
  <2>2. ASSUME Waited PROVE WaitedFor(saves', form, store, view.kind)
    <3>1. WaitedFor(saves, form, store, view.kind)
      BY <2>2 DEF Waited
    <3>2. \A t \in Editor!Slots : saves'[t] = saves[t] \/ ~Out(saves'[t])
      BY <1>2
    <3>3. QED
      BY <3>1, <3>2, WaitedLess
  <2>3. QED
    BY <1>1, <1>3, <2>1, <2>2 DEF EditorInv, Waited
<1>4. CASE ~UNCHANGED <<form, hasty>>
  <2> DEFINE base   == saves[s].base
             change == [mediaKey |-> "key"]
  <2>1. /\ form # Editor!NoForm /\ form' = Editor!Patched(base, change)
        /\ hasty' = IF Editor!Quiet THEN hasty ELSE hasty + 1
    BY <1>4 DEF Editor!Uploaded, Editor!Mine, Editor!Mounted
  <2> HIDE DEF base, change
  <2>2. DOMAIN form = FormFields /\ form.n # 0 /\ view.kind = "EDITOR" /\ form.savedId \in Known
    BY <2>1 DEF EditorInv, ShapeInv, FormOf
  <2>3. /\ DOMAIN form' = FormFields /\ form'.n = form.n /\ form'.savedId = form.savedId
        /\ form'.dirty = TRUE /\ form'.quoted = Editor!NoDraft
    BY <2>1, <2>2 DEF Editor!Patched, FormFields
  <2>4. FormOf(form', view.kind) /\ FormKept(form', store)
    BY <2>2, <2>3 DEF FormOf, FormKept
  <2>5. ShapeInv'
    BY <1>1, <1>2, <2>1, <2>4 DEF EditorInv, ShapeInv
  <2>6. ASSUME hasty' = 0 PROVE WaitedFor(saves', form', store, view.kind)
    <3>1. Editor!Quiet
      BY <2>1, <2>6 DEF EditorInv, ShapeInv
    <3>2. \A t \in Editor!Slots : ~Out(saves'[t])
      BY <1>2, <3>1 DEF Editor!Quiet, Out
    <3>3. QED
      BY <2>4, <3>2, WaitedNone
  <2>7. QED
    BY <1>1, <2>5, <2>6 DEF EditorInv, Waited
<1>5. QED
  BY <1>3, <1>4

\* A price is for what is kept, which is what the form shows.
LEMMA PricedKeeps ==
  ASSUME EditorInv, NEW s \in Editor!Slots, Editor!Priced(s) PROVE EditorInv'
<1> DEFINE q == saves[s]
<1>1. /\ UNCHANGED <<view, store, forms, hasty>> /\ saves' = Editor!Done(s)
      /\ q.op = "quote" /\ q.answer # Editor!None
      /\ \/ UNCHANGED form
         \/ /\ form # Editor!NoForm /\ q.answer # Editor!Refused
            /\ form' = [form EXCEPT !.quoted = q.content]
  BY DEF Editor!Priced, Editor!Answered, Editor!Mine, Editor!Mounted
<1>2. /\ DOMAIN saves' = Editor!Slots /\ \A t \in Editor!Slots : RequestOf(saves'[t])
      /\ ~Out(saves'[s]) /\ \A t \in Editor!Slots : t # s => saves'[t] = saves[t]
  BY <1>1, DoneIs DEF EditorInv
<1>3. form # Editor!NoForm => DOMAIN form = FormFields /\ FormOf(form, view.kind)
  BY DEF EditorInv, ShapeInv, FormOf
<1>4. form' = form \/
        /\ form # Editor!NoForm /\ Granted(q) /\ DOMAIN form' = FormFields
        /\ form'.n = form.n /\ form'.draft = form.draft /\ form'.dirty = form.dirty
        /\ form'.quoted = q.content /\ form'.savedId = form.savedId
  BY <1>1, <1>3 DEF FormFields, Granted
<1>5. FormOf(form', view.kind)
  BY <1>3, <1>4 DEF FormOf, EditorInv, ShapeInv
<1>6. ShapeInv'
  BY <1>1, <1>2, <1>5 DEF EditorInv, ShapeInv
<1>7. ASSUME Waited PROVE WaitedFor(saves', form', store, view.kind)
  <2>1. \A t \in Editor!Slots : ~Out(saves'[t])
    BY <1>1, <1>2, <1>7, OthersAreIn DEF Out, Editor!None
  <2>2. form # Editor!NoForm => FormKept(form, store) /\ SentBy(q, form, store)
    BY <1>1, <1>7 DEF Waited, WaitedFor, Out, Editor!None
  <2>3. form' # Editor!NoForm => FormKept(form', store)
    BY <1>1, <1>4, <2>2 DEF SentBy, FormKept, HeldBy
  <2>4. QED
    BY <2>1, <2>3, WaitedNone
<1>8. QED
  BY <1>1, <1>6, <1>7 DEF EditorInv, Waited
-----------------------------------------------------------------------------

\* A save that was granted keeps the draft as the form shows it.
LEMMA KeptForm ==
  ASSUME NEW f, NEW g, NEW st, NEW q, SentBy(q, f, st), FormKept(f, st),
         q.op \in {"create", "update"}, Granted(q), SameSaved(f, g, q)
  PROVE  FormKept(g, st) /\ g.savedId # Editor!None
<1>1. /\ q.content = f.draft /\ st[KeptAt(q)].content = q.content
      /\ q.op = "create" => f.savedId = Editor!None
      /\ q.op = "update" => q.id = f.savedId /\ f.savedId # Editor!None
  BY DEF SentBy
<1>2. g.savedId = KeptAt(q) /\ KeptAt(q) # Editor!None
  BY <1>1 DEF SameSaved, KeptAt, Granted
<1>3. g.draft = HeldBy(g, st)
  BY <1>1, <1>2 DEF SameSaved, HeldBy
<1>4. f.quoted # Editor!NoDraft => f.savedId = KeptAt(q) /\ f.quoted = st[f.savedId].content
  BY <1>1 DEF FormKept, KeptAt
<1>5. QED
  BY <1>2, <1>3, <1>4 DEF FormKept, SameSaved

\* The four things that an answer to a save does.
LEMMA SaveDoes ==
  ASSUME EditorInv, NEW s \in Editor!Slots, Editor!save(s)
  PROVE  LET q     == saves[s]
             price == [op |-> "quote", id |-> KeptAt(q), content |-> Editor!NoDraft,
                       form |-> q.form, answer |-> Editor!None]
         IN /\ UNCHANGED <<store, forms, hasty>>
            /\ q.op \in {"create", "update"} /\ q.answer # Editor!None
            /\ \/ saves' = Editor!Done(s) /\ UNCHANGED <<view, form>>
               \/ saves' = Editor!Done(s) /\ Editor!Close
               \/ /\ Granted(q) /\ UNCHANGED view
                  /\ \/ saves' = Editor!Done(s)
                     \/ saves' = [saves EXCEPT ![s] = price]
                  /\ form # Editor!NoForm /\ SameSaved(form, form', q)
                  /\ DOMAIN form' = FormFields
               \/ /\ Granted(q) /\ UNCHANGED <<view, form>>
                  /\ saves' = [saves EXCEPT ![s] = price]
                  /\ form # Editor!NoForm => form.n # q.form
<1> DEFINE q     == saves[s]
           price == [op |-> "quote", id |-> KeptAt(q), content |-> Editor!NoDraft,
                     form |-> q.form, answer |-> Editor!None]
           kept  == [form EXCEPT !.dirty = FALSE, !.savedId = KeptAt(q)]
<1>1. /\ UNCHANGED <<store, forms, hasty>>
      /\ q.op \in {"create", "update"} /\ q.answer # Editor!None
  BY DEF Editor!save, Editor!Answered
<1>2. CASE q.answer = Editor!Refused
  BY <1>1, <1>2 DEF Editor!save
<1>3. CASE q.answer # Editor!Refused
  <2>1. Granted(q)
    BY <1>1, <1>3 DEF Granted
  <2>2. /\ saves' = IF q.then # "quote" THEN Editor!Done(s) ELSE [saves EXCEPT ![s] = price]
        /\ q.then = "close" => Editor!Close
        /\ q.then = "notice" /\ Editor!Mine(s) =>
             form' = [kept EXCEPT !.leaving = FALSE] /\ UNCHANGED view
        /\ q.then = "quote" /\ Editor!Mine(s) => form' = kept /\ UNCHANGED view
        /\ q.then # "close" /\ ~Editor!Mine(s) => UNCHANGED <<view, form>>
        /\ q.then \notin {"close", "notice", "quote"} => UNCHANGED <<view, form>>
    BY <1>1, <1>3 DEF Editor!save, KeptAt
  <2>3. ASSUME Editor!Mine(s), form' \in {kept, [kept EXCEPT !.leaving = FALSE]}
        PROVE  /\ form # Editor!NoForm /\ SameSaved(form, form', q)
               /\ DOMAIN form' = FormFields
    <3>1. form # Editor!NoForm /\ DOMAIN form = FormFields
      BY <2>3 DEF Editor!Mine, Editor!Mounted, EditorInv, ShapeInv, FormOf
    <3> HIDE DEF q
    <3>2. QED
      BY <2>3, <3>1 DEF SameSaved, FormFields
  <2>4. ~Editor!Mine(s) => (form # Editor!NoForm => form.n # q.form)
    BY DEF Editor!Mine, Editor!Mounted
  <2> HIDE DEF q, price, kept
  <2>5. CASE q.then = "close"
    BY <1>1, <2>2, <2>5 DEF q, price
  <2>6. CASE q.then = "notice"
    BY <1>1, <2>1, <2>2, <2>3, <2>6 DEF q, price
  <2>7. CASE q.then = "quote"
    BY <1>1, <2>1, <2>2, <2>3, <2>4, <2>7 DEF q, price
  <2>8. CASE q.then \notin {"close", "notice", "quote"}
    BY <1>1, <2>2, <2>8 DEF q, price
  <2>9. QED
    BY <2>5, <2>6, <2>7, <2>8
<1>4. QED
  BY <1>2, <1>3

LEMMA SavedKeeps ==
  ASSUME EditorInv, NEW s \in Editor!Slots, Editor!save(s) PROVE EditorInv'
<1> DEFINE q     == saves[s]
           price == [op |-> "quote", id |-> KeptAt(q), content |-> Editor!NoDraft,
                     form |-> q.form, answer |-> Editor!None]
<1>1. /\ UNCHANGED <<store, forms, hasty>>
      /\ q.op \in {"create", "update"} /\ q.answer # Editor!None
      /\ \/ saves' = Editor!Done(s) /\ UNCHANGED <<view, form>>
         \/ saves' = Editor!Done(s) /\ Editor!Close
         \/ /\ Granted(q) /\ UNCHANGED view
            /\ \/ saves' = Editor!Done(s)
               \/ saves' = [saves EXCEPT ![s] = price]
            /\ form # Editor!NoForm /\ SameSaved(form, form', q)
            /\ DOMAIN form' = FormFields
         \/ /\ Granted(q) /\ UNCHANGED <<view, form>>
            /\ saves' = [saves EXCEPT ![s] = price]
            /\ form # Editor!NoForm => form.n # q.form
  BY SaveDoes
<1>2. /\ price.op = "quote" /\ price.id = KeptAt(q) /\ price.form = q.form
      /\ price.answer = Editor!None
      /\ {"op", "answer", "id", "content", "form"} \subseteq DOMAIN price
  OBVIOUS
<1>3. RequestOf(q) /\ DOMAIN saves = Editor!Slots
  BY DEF EditorInv, ShapeInv
<1>4. view'.id \in Known
  BY <1>1 DEF EditorInv, ShapeInv, Editor!Close, Known
<1> HIDE DEF q, price
<1>5. RequestOf(price)
  BY <1>2 DEF RequestOf, Editor!Operations
<1>6. \/ saves' = Editor!Done(s)
      \/ saves' = [saves EXCEPT ![s] = price]
  BY <1>1
<1>7. /\ DOMAIN saves' = Editor!Slots /\ \A t \in Editor!Slots : RequestOf(saves'[t])
      /\ \A t \in Editor!Slots : t # s => saves'[t] = saves[t]
      /\ saves' = Editor!Done(s) => ~Out(saves'[s])
      /\ saves' # Editor!Done(s) => saves'[s] = price
  <2>1. CASE saves' = Editor!Done(s)
    BY <2>1, DoneIs DEF EditorInv
  <2>2. CASE saves' # Editor!Done(s)
    BY <1>5, <1>6, <2>2 DEF EditorInv, ShapeInv
  <2>3. QED
    BY <2>1, <2>2
<1>8. FormOf(form', view'.kind)
  <2>1. CASE UNCHANGED <<view, form>>
    BY <2>1 DEF EditorInv, ShapeInv
  <2>2. CASE Editor!Close
    BY <2>2 DEF Editor!Close, FormOf
  <2>3. CASE /\ Granted(q) /\ UNCHANGED view /\ form # Editor!NoForm
             /\ SameSaved(form, form', q) /\ DOMAIN form' = FormFields
    BY <1>1, <1>3, <2>3 DEF EditorInv, ShapeInv, FormOf, SameSaved, RequestOf, KeptAt, Granted
  <2>4. QED
    BY <1>1, <2>1, <2>2, <2>3
<1>9. ShapeInv'
  BY <1>1, <1>4, <1>7, <1>8 DEF EditorInv, ShapeInv
<1>10. ASSUME Waited PROVE WaitedFor(saves', form', store, view'.kind)
  <2>1. \A t \in Editor!Slots : t # s => ~Out(saves'[t])
    BY <1>1, <1>7, <1>10, OthersAreIn DEF Out, q, Editor!None
  <2>2. form # Editor!NoForm => FormKept(form, store) /\ SentBy(q, form, store)
    BY <1>1, <1>10 DEF Waited, WaitedFor, Out, q, Editor!None
  <2>3. form' # Editor!NoForm => FormKept(form', store)
    <3>1. CASE form' = form \/ form' = Editor!NoForm
      BY <2>2, <3>1
    <3>2. CASE Granted(q) /\ form # Editor!NoForm /\ SameSaved(form, form', q)
      BY <1>1, <2>2, <3>2, KeptForm
    <3>3. QED
      BY <1>1, <3>1, <3>2 DEF Editor!Close
  <2>4. CASE saves' = Editor!Done(s)
    <3>1. \A t \in Editor!Slots : ~Out(saves'[t])
      BY <1>7, <2>1, <2>4
    <3>2. QED
      BY <2>3, <3>1, WaitedNone
  <2>5. CASE saves' # Editor!Done(s)
    <3>1. saves'[s] = price
      BY <1>7, <2>5
    <3>2. ASSUME form' # Editor!NoForm PROVE SentBy(price, form', store)
      <4>1. Granted(q) /\ form # Editor!NoForm /\ SameSaved(form, form', q)
        BY <1>1, <2>2, <2>5, <3>2 DEF SentBy
      <4>2. form'.savedId # Editor!None /\ form'.n = q.form
        BY <1>1, <2>2, <4>1, KeptForm DEF SentBy, SameSaved
      <4>3. QED
        BY <1>2, <4>1, <4>2 DEF SentBy, SameSaved, Granted
    <3>3. saves'[s].op # "schedule"
      BY <1>2, <3>1
    <3>4. QED
      BY <2>1, <2>3, <3>1, <3>2, <3>3, WaitedOne
  <2>6. QED
    BY <2>4, <2>5
<1>11. QED
  BY <1>1, <1>9, <1>10 DEF EditorInv, Waited
-----------------------------------------------------------------------------

\* The same request, answered.
SameRequest(q, r) ==
  /\ DOMAIN r = DOMAIN q /\ r.op = q.op /\ r.id = q.id /\ r.form = q.form
  /\ r.op # "quote" => r.content = q.content

Contents(st, su) ==
  /\ DOMAIN su = Editor!Ids
  /\ \A i \in Editor!Ids : DOMAIN su[i] = {"status", "content"} /\ su[i].content = st[i].content

LEMMA ContentsKeep ==
  ASSUME NEW f, NEW st, NEW su, f.savedId \in Known, FormKept(f, st), Contents(st, su)
  PROVE  FormKept(f, su)
BY DEF FormKept, HeldBy, Contents, Known

LEMMA FailedIs ==
  ASSUME NEW q, RequestOf(q), q.op \in {"create", "update", "quote", "schedule"}
  PROVE  LET r == Editor!Failed(q) IN
         /\ SameRequest(q, r) /\ RequestOf(r) /\ ~Granted(r) /\ r.content = q.content
<1> DEFINE r == Editor!Failed(q)
<1>1. /\ {"op", "answer", "id", "content", "form"} \subseteq DOMAIN q
      /\ q.op \in Editor!Operations
  BY DEF RequestOf, Editor!Operations, Editor!NoRequest, Editor!None
<1>2. r = [q EXCEPT !.answer = Editor!Refused]
  BY DEF Editor!Failed
<1>3. /\ DOMAIN r = DOMAIN q /\ r.op = q.op /\ r.id = q.id /\ r.form = q.form
      /\ r.content = q.content /\ r.answer = Editor!Refused
  BY <1>1, <1>2
<1> HIDE DEF r
<1>4. RequestOf(r)
  BY <1>1, <1>3 DEF RequestOf, Known, Editor!Operations
<1>5. QED
  BY <1>3, <1>4 DEF SameRequest, Granted, r

\* A request that nothing waits for, or whose answer nobody awaits.
LEMMA HandleOther ==
  ASSUME EditorInv, NEW s \in Editor!Slots, Editor!Handle(s),
         saves[s].op \in {"upload", "delete"}
  PROVE  EditorInv'
<1> DEFINE q == saves[s]
<1>1. PICK r \in {Editor!Answer(q), Editor!Failed(q)} :
        /\ saves' = [saves EXCEPT ![s] = r]
        /\ store' = store \/ store' = Editor!Acted(q)
  BY DEF Editor!Handle
<1>2. UNCHANGED <<view, form, forms, hasty>>
  BY DEF Editor!Handle
<1>3. RequestOf(q) /\ DOMAIN saves = Editor!Slots
  BY DEF EditorInv, ShapeInv
<1>4. ~Out(r) /\ RequestOf(r)
  <2>1. CASE q.op = "delete"
    <3>1. r = Editor!NoRequest
      BY <2>1, <1>1 DEF Editor!Answer, Editor!Failed
    <3>2. QED
      BY <3>1 DEF RequestOf, Out, Editor!NoRequest, Editor!None
  <2>2. CASE q.op = "upload"
    <3>1. r \in {[q EXCEPT !.answer = "ok"], [q EXCEPT !.answer = Editor!Refused]}
      BY <2>2, <1>1 DEF Editor!Answer, Editor!Failed
    <3>2. {"op", "answer"} \subseteq DOMAIN q
      BY <2>2, <1>3 DEF RequestOf, Editor!NoRequest, Editor!None
    <3> HIDE DEF q
    <3>3. r.op = "upload" /\ DOMAIN r = DOMAIN q
      BY <2>2, <3>1, <3>2
    <3>4. QED
      BY <3>2, <3>3 DEF RequestOf, Out, Editor!Operations
  <2>3. QED
    BY <2>1, <2>2
<1>5. store' = store \/ (q.op = "delete" /\ store' = [store EXCEPT ![q.id] = Editor!Absent])
  BY <1>1 DEF Editor!Acted
<1> HIDE DEF q
<1>6. /\ DOMAIN store' = Editor!Ids
      /\ \A i \in Editor!Ids : DOMAIN store'[i] = {"status", "content"}
  BY <1>5 DEF EditorInv, ShapeInv, Editor!Absent
<1>7. /\ DOMAIN saves' = Editor!Slots /\ \A t \in Editor!Slots : RequestOf(saves'[t])
      /\ \A t \in Editor!Slots : t # s => saves'[t] = saves[t]
      /\ ~Out(saves'[s])
  BY <1>1, <1>3, <1>4 DEF EditorInv, ShapeInv
<1>8. ShapeInv'
  BY <1>2, <1>6, <1>7 DEF EditorInv, ShapeInv
<1>9. ASSUME Waited PROVE WaitedFor(saves', form, store', view.kind)
  <2>1. CASE q.op = "upload"
    <3>1. store' = store /\ \A t \in Editor!Slots : saves'[t] = saves[t] \/ ~Out(saves'[t])
      BY <1>5, <1>7, <2>1
    <3>2. WaitedFor(saves, form, store, view.kind)
      BY <1>9 DEF Waited
    <3>3. QED
      BY <3>1, <3>2, WaitedLess
  <2>2. CASE q.op = "delete"
    <3>1. Out(q)
      BY <2>2 DEF Out, Editor!None
    <3>2. form = Editor!NoForm
      BY <1>9, <2>2, <3>1 DEF Waited, WaitedFor, SentBy, q
    <3>3. \A t \in Editor!Slots : ~Out(saves'[t])
      BY <1>7, <1>9, <3>1, OthersAreIn DEF q
    <3>4. QED
      BY <3>2, <3>3, WaitedNone
  <2>3. QED
    BY <2>1, <2>2 DEF q
<1>10. QED
  BY <1>2, <1>8, <1>9 DEF EditorInv, Waited

\* A request that is awaited is answered, and the form it is of is kept as it was.
LEMMA HandleOut ==
  ASSUME EditorInv, NEW s \in Editor!Slots, UNCHANGED <<view, form, forms, hasty>>,
         NEW r, saves' = [saves EXCEPT ![s] = r], RequestOf(r), Out(saves[s]),
         DOMAIN store' = Editor!Ids,
         \A i \in Editor!Ids : DOMAIN store'[i] = {"status", "content"},
         Waited /\ r.op = "schedule" => ScheduledAs(r, store', view.kind),
         Waited /\ form # Editor!NoForm => SentBy(r, form, store') /\ FormKept(form, store')
  PROVE  EditorInv'
<1>1. /\ DOMAIN saves' = Editor!Slots /\ saves'[s] = r
      /\ \A t \in Editor!Slots : RequestOf(saves'[t])
      /\ \A t \in Editor!Slots : t # s => saves'[t] = saves[t]
  BY DEF EditorInv, ShapeInv
<1>2. ShapeInv'
  BY <1>1 DEF EditorInv, ShapeInv
<1>3. ASSUME Waited PROVE WaitedFor(saves', form, store', view.kind)
  <2>1. \A t \in Editor!Slots : t # s => ~Out(saves'[t])
    BY <1>1, <1>3, OthersAreIn
  <2>2. /\ saves'[s].op = "schedule" => ScheduledAs(saves'[s], store', view.kind)
        /\ form # Editor!NoForm => SentBy(saves'[s], form, store') /\ FormKept(form, store')
    BY <1>1, <1>3
  <2>3. QED
    BY <2>1, <2>2, WaitedOne, Zenon
<1>4. QED
  BY <1>2, <1>3 DEF EditorInv, Waited

LEMMA HandleCreate ==
  ASSUME EditorInv, NEW s \in Editor!Slots, Editor!Handle(s), saves[s].op = "create"
  PROVE  EditorInv'
<1> DEFINE q    == saves[s]
           made == [status |-> "DRAFT", content |-> q.content]
<1>1. PICK r \in {Editor!Answer(q), Editor!Failed(q)} :
        /\ saves' = [saves EXCEPT ![s] = r]
        /\ \/ store' = store /\ r = Editor!Failed(q)
           \/ Editor!Accepts(q) /\ store' = Editor!Acted(q)
  BY DEF Editor!Handle
<1>2. UNCHANGED <<view, form, forms, hasty>>
  BY DEF Editor!Handle
<1>3. /\ RequestOf(q) /\ q.op = "create"
      /\ {"op", "answer", "id", "content", "form"} \subseteq DOMAIN q
  BY DEF EditorInv, ShapeInv, RequestOf, Editor!NoRequest, Editor!None
<1>4. \/ store' = store
      \/ Editor!Given \in Editor!Ids /\ store' = [store EXCEPT ![Editor!Given] = made]
  BY <1>1 DEF Editor!Accepts, Editor!Acted, Editor!Given, Editor!Unused, Editor!Ids
<1>5. /\ DOMAIN store' = Editor!Ids
      /\ \A i \in Editor!Ids : DOMAIN store'[i] = {"status", "content"}
  BY <1>4 DEF EditorInv, ShapeInv
<1>6. \/ r = Editor!Failed(q)
      \/ /\ r = [q EXCEPT !.answer = Editor!Given] /\ Editor!Given \in Editor!Ids
         /\ store'[Editor!Given].content = q.content
  BY <1>1, <1>4 DEF Editor!Accepts, Editor!Acted, Editor!Answer, Editor!Given, Editor!Unused, Editor!Ids,
     EditorInv, ShapeInv
<1> HIDE DEF q
<1>7. /\ RequestOf(r) /\ SameRequest(q, r)
      /\ Granted(r) => KeptAt(r) \in Editor!Ids /\ store'[KeptAt(r)].content = r.content
  <2>1. CASE r = Editor!Failed(q)
    BY <1>3, <2>1, FailedIs
  <2>2. CASE r # Editor!Failed(q)
    <3>1. /\ DOMAIN r = DOMAIN q /\ r.op = q.op /\ r.id = q.id /\ r.form = q.form
          /\ r.content = q.content /\ r.answer = Editor!Given
      BY <1>3, <1>6, <2>2
    <3>2. RequestOf(r)
      BY <1>3, <1>6, <2>2, <3>1 DEF RequestOf, Known, Editor!Operations
    <3>3. QED
      BY <1>3, <1>6, <2>2, <3>1, <3>2 DEF SameRequest, KeptAt
  <2>3. QED
    BY <2>1, <2>2
<1>8. Out(q)
  BY <1>3 DEF Out, Editor!None
<1>9. ASSUME Waited, form # Editor!NoForm PROVE SentBy(r, form, store') /\ FormKept(form, store')
  <2>1. SentBy(q, form, store) /\ FormKept(form, store)
    BY <1>8, <1>9 DEF Waited, WaitedFor, q
  <2>2. form.savedId = Editor!None
    BY <1>3, <2>1 DEF SentBy
  <2>3. FormKept(form, store')
    BY <2>1, <2>2 DEF FormKept, HeldBy
  <2>4. SentBy(r, form, store')
    BY <1>3, <1>7, <2>1, <2>2 DEF SentBy, SameRequest
  <2>5. QED
    BY <2>3, <2>4
<1>10. r.op # "schedule"
  BY <1>3, <1>7 DEF SameRequest
<1>11. QED
  BY <1>1, <1>2, <1>5, <1>7, <1>8, <1>9, <1>10, HandleOut DEF q

LEMMA HandleUpdate ==
  ASSUME EditorInv, NEW s \in Editor!Slots, Editor!Handle(s), saves[s].op = "update"
  PROVE  EditorInv'
<1> DEFINE q == saves[s]
<1>1. PICK r \in {Editor!Answer(q), Editor!Failed(q)} :
        /\ saves' = [saves EXCEPT ![s] = r]
        /\ \/ store' = store /\ r = Editor!Failed(q)
           \/ Editor!Accepts(q) /\ store' = Editor!Acted(q)
  BY DEF Editor!Handle
<1>2. UNCHANGED <<view, form, forms, hasty>>
  BY DEF Editor!Handle
<1>3. /\ RequestOf(q) /\ q.op = "update"
      /\ {"op", "answer", "id", "content", "form"} \subseteq DOMAIN q
  BY DEF EditorInv, ShapeInv, RequestOf, Editor!NoRequest, Editor!None
<1>4. \/ store' = store /\ r = Editor!Failed(q)
      \/ store' = [store EXCEPT ![q.id].content = q.content]
  BY <1>1 DEF Editor!Acted
<1>5. r \in {[q EXCEPT !.answer = "ok"], Editor!Failed(q)}
  BY <1>1, <1>3 DEF Editor!Answer
<1> HIDE DEF q
<1>6. /\ DOMAIN store' = Editor!Ids
      /\ \A i \in Editor!Ids : DOMAIN store'[i] = {"status", "content"}
      /\ \A i \in Editor!Ids : i # q.id => store'[i] = store[i]
      /\ q.id \in Editor!Ids => (store' # store => store'[q.id].content = q.content)
  BY <1>4 DEF EditorInv, ShapeInv
<1>7. RequestOf(r) /\ SameRequest(q, r) /\ (Granted(r) => r # Editor!Failed(q))
  <2>1. CASE r = Editor!Failed(q)
    BY <1>3, <2>1, FailedIs
  <2>2. CASE r # Editor!Failed(q)
    <3>1. /\ DOMAIN r = DOMAIN q /\ r.op = q.op /\ r.id = q.id /\ r.form = q.form
          /\ r.content = q.content
      BY <1>3, <1>5, <2>2
    <3>2. RequestOf(r)
      BY <1>3, <3>1 DEF RequestOf, Known, Editor!Operations
    <3>3. QED
      BY <2>2, <3>1, <3>2 DEF SameRequest
  <2>3. QED
    BY <2>1, <2>2
<1>8. Out(q)
  BY <1>3 DEF Out, Editor!None
<1>9. ASSUME Waited, form # Editor!NoForm PROVE SentBy(r, form, store') /\ FormKept(form, store')
  <2>1. SentBy(q, form, store) /\ FormKept(form, store)
    BY <1>8, <1>9 DEF Waited, WaitedFor, q
  <2>2. /\ form.savedId = q.id /\ q.id # Editor!None /\ q.content = form.draft
        /\ q.id \in Editor!Ids
    BY <1>3, <2>1 DEF SentBy, RequestOf, Known
  <2>3. store' = store \/ store'[q.id].content = form.draft
    BY <1>6, <2>2
  <2>4. FormKept(form, store')
    BY <2>1, <2>2, <2>3 DEF FormKept, HeldBy
  <2>5. Granted(r) => store'[q.id].content = q.content
    BY <1>4, <1>7, <2>2 DEF EditorInv, ShapeInv
  <2>6. SentBy(r, form, store')
    BY <1>3, <1>7, <2>1, <2>2, <2>5 DEF SentBy, SameRequest, KeptAt
  <2>7. QED
    BY <2>4, <2>6
<1>10. r.op # "schedule"
  BY <1>3, <1>7 DEF SameRequest
<1>11. QED
  BY <1>1, <1>2, <1>6, <1>7, <1>8, <1>9, <1>10, HandleOut DEF q

LEMMA HandleQuote ==
  ASSUME EditorInv, NEW s \in Editor!Slots, Editor!Handle(s), saves[s].op = "quote"
  PROVE  EditorInv'
<1> DEFINE q == saves[s]
<1>1. PICK r \in {Editor!Answer(q), Editor!Failed(q)} :
        /\ saves' = [saves EXCEPT ![s] = r]
        /\ store' = store \/ store' = Editor!Acted(q)
  BY DEF Editor!Handle
<1>2. UNCHANGED <<view, form, forms, hasty>>
  BY DEF Editor!Handle
<1>3. /\ RequestOf(q) /\ q.op = "quote"
      /\ {"op", "answer", "id", "content", "form"} \subseteq DOMAIN q
  BY DEF EditorInv, ShapeInv, RequestOf, Editor!NoRequest, Editor!None
<1>4. store' = store
  BY <1>1, <1>3 DEF Editor!Acted
<1>5. r \in {[q EXCEPT !.answer = "ok", !.content = store[q.id].content], Editor!Failed(q)}
  BY <1>1, <1>3 DEF Editor!Answer
<1> HIDE DEF q
<1>6. /\ DOMAIN store' = Editor!Ids
      /\ \A i \in Editor!Ids : DOMAIN store'[i] = {"status", "content"}
  BY <1>4 DEF EditorInv, ShapeInv
<1>7. /\ RequestOf(r) /\ SameRequest(q, r)
      /\ Granted(r) => r.content = store[q.id].content
  <2>1. CASE r = Editor!Failed(q)
    BY <1>3, <2>1, FailedIs
  <2>2. CASE r # Editor!Failed(q)
    <3>1. /\ DOMAIN r = DOMAIN q /\ r.op = q.op /\ r.id = q.id /\ r.form = q.form
          /\ r.content = store[q.id].content
      BY <1>3, <1>5, <2>2
    <3>2. RequestOf(r)
      BY <1>3, <3>1 DEF RequestOf, Known, Editor!Operations
    <3>3. QED
      BY <1>3, <3>1, <3>2 DEF SameRequest
  <2>3. QED
    BY <2>1, <2>2
<1>8. Out(q)
  BY <1>3 DEF Out, Editor!None
<1>9. ASSUME Waited, form # Editor!NoForm PROVE SentBy(r, form, store') /\ FormKept(form, store')
  <2>1. SentBy(q, form, store) /\ FormKept(form, store)
    BY <1>8, <1>9 DEF Waited, WaitedFor, q
  <2>2. SentBy(r, form, store)
    BY <1>3, <1>7, <2>1 DEF SentBy, SameRequest
  <2>3. QED
    BY <1>4, <2>1, <2>2
<1>10. r.op # "schedule"
  BY <1>3, <1>7 DEF SameRequest
<1>11. QED
  BY <1>1, <1>2, <1>6, <1>7, <1>8, <1>9, <1>10, HandleOut DEF q

LEMMA HandleSchedule ==
  ASSUME EditorInv, NEW s \in Editor!Slots, Editor!Handle(s), saves[s].op = "schedule"
  PROVE  EditorInv'
<1> DEFINE q == saves[s]
<1>1. PICK r \in {Editor!Answer(q), Editor!Failed(q)} :
        /\ saves' = [saves EXCEPT ![s] = r]
        /\ store' = store \/ store' = Editor!Acted(q)
  BY DEF Editor!Handle
<1>2. UNCHANGED <<view, form, forms, hasty>>
  BY DEF Editor!Handle
<1>3. /\ RequestOf(q) /\ q.op = "schedule"
      /\ {"op", "answer", "id", "content", "form"} \subseteq DOMAIN q
  BY DEF EditorInv, ShapeInv, RequestOf, Editor!NoRequest, Editor!None
<1>4. store' = store \/ store' = [store EXCEPT ![q.id].status = "SCHEDULED"]
  BY <1>1, <1>3 DEF Editor!Acted
<1>5. r \in {[q EXCEPT !.answer = "ok"], Editor!Failed(q)}
  BY <1>1, <1>3 DEF Editor!Answer
<1> HIDE DEF q
<1>6. Contents(store, store')
  BY <1>4 DEF EditorInv, ShapeInv, Contents
<1>7. RequestOf(r) /\ SameRequest(q, r)
  <2>1. CASE r = Editor!Failed(q)
    BY <1>3, <2>1, FailedIs
  <2>2. CASE r # Editor!Failed(q)
    <3>1. /\ DOMAIN r = DOMAIN q /\ r.op = q.op /\ r.id = q.id /\ r.form = q.form
          /\ r.content = q.content
      BY <1>3, <1>5, <2>2
    <3>2. RequestOf(r)
      BY <1>3, <3>1 DEF RequestOf, Known, Editor!Operations
    <3>3. QED
      BY <3>1, <3>2 DEF SameRequest
  <2>3. QED
    BY <2>1, <2>2
<1>8. Out(q)
  BY <1>3 DEF Out, Editor!None
<1>9. ASSUME Waited, form # Editor!NoForm PROVE SentBy(r, form, store') /\ FormKept(form, store')
  <2>1. SentBy(q, form, store) /\ FormKept(form, store) /\ form.savedId \in Known
    BY <1>8, <1>9 DEF Waited, WaitedFor, q, EditorInv, ShapeInv, FormOf
  <2>2. SentBy(r, form, store')
    BY <1>3, <1>7, <2>1 DEF SentBy, SameRequest
  <2>3. FormKept(form, store')
    BY <1>6, <2>1, ContentsKeep
  <2>4. QED
    BY <2>2, <2>3
<1>10. Waited => ScheduledAs(r, store', view.kind)
  <2>1. Waited => ScheduledAs(q, store, view.kind)
    BY <1>3 DEF Waited, WaitedFor, q
  <2>2. QED
    BY <1>3, <1>6, <1>7, <2>1 DEF ScheduledAs, SameRequest, Contents
<1>11. /\ DOMAIN store' = Editor!Ids
       /\ \A i \in Editor!Ids : DOMAIN store'[i] = {"status", "content"}
  BY <1>6 DEF Contents
<1>12. QED
  BY <1>1, <1>2, <1>7, <1>8, <1>9, <1>10, <1>11, HandleOut DEF q

LEMMA AnsweringKeeps ==
  ASSUME EditorInv, NEW s \in Editor!Slots, Editor!Handle(s) PROVE EditorInv'
<1>1. saves[s].op # Editor!None
  BY DEF Editor!Handle
<1>2. saves[s].op \in Editor!Operations
  BY <1>1 DEF EditorInv, ShapeInv, RequestOf, Editor!NoRequest
<1>3. QED
  BY <1>2, HandleOther, HandleCreate, HandleUpdate, HandleQuote, HandleSchedule
     DEF Editor!Operations

-----------------------------------------------------------------------------

LEMMA EditorStarts ==
  ASSUME Editor!Init PROVE EditorInv
<1>1. ShapeInv
  BY DEF Editor!Init, ShapeInv, FormOf, RequestOf, Known, Editor!NoRequest, Editor!None,
         Editor!Absent
<1>2. Waited
  BY DEF Editor!Init, Waited, WaitedFor, Out, Editor!NoRequest, Editor!None
<1>3. QED
  BY <1>1, <1>2 DEF EditorInv

LEMMA EditorSteps ==
  ASSUME EditorInv, [Editor!Next]_editorVars PROVE EditorInv'
<1>1. CASE UNCHANGED editorVars
  BY <1>1 DEF editorVars, EditorInv, ShapeInv, Waited
<1>2. CASE Editor!Next
  <2>1. \/ Editor!OpenNew \/ Editor!CampaignReportView \/ Editor!CampaignFetched
        \/ \E id \in Editor!Ids : Editor!OpenRow(id)
        \/ \E id \in Editor!Ids : Editor!CampaignRowActions(id)
        \/ Editor!CampaignEditor \/ Editor!patch \/ Editor!MediaUpload
        \/ Editor!SaveDraft \/ Editor!next \/ Editor!leave \/ Editor!SendNowButton
        \/ Editor!SaveDraftDialog \/ Editor!ConfirmCampaignModal
        \/ \E s \in Editor!Slots : Editor!Handle(s)
        \/ \E s \in Editor!Slots : Editor!save(s)
        \/ \E s \in Editor!Slots : Editor!Priced(s)
        \/ \E s \in Editor!Slots : Editor!Scheduled(s)
        \/ \E s \in Editor!Slots : Editor!Uploaded(s)
    BY <1>2 DEF Editor!Next
  <2>2. QED
    BY <2>1, ViewKeeps, RowsKeep, MountKeeps, PatchKeeps, UploadKeeps, SavingKeeps, LeaveKeeps,
       LeavingKeeps, ConfirmingKeeps, AnsweringKeeps, SavedKeeps, PricedKeeps, ScheduledKeeps,
       UploadedKeeps
<1>3. QED
  BY <1>1, <1>2

LEMMA EditorShows ==
  ASSUME EditorInv PROVE Editor!CleanMeansSaved /\ Editor!SentAsPriced
<1>1. Editor!CleanMeansSaved
  BY DEF EditorInv, Waited, WaitedFor, FormKept, HeldBy, Editor!CleanMeansSaved, Editor!Mounted,
         Editor!Unsaved
<1>2. Editor!SentAsPriced
  BY DEF EditorInv, Waited, WaitedFor, ScheduledAs, Editor!SentAsPriced
<1>3. QED
  BY <1>1, <1>2

-----------------------------------------------------------------------------
(* The types of the editor *)

\* The editor's fields that EditorInv leaves open.
ViewTyped(v)  == v \in [kind : {"LIST", "EDITOR", "REPORT"}, id : Known]
FormTyped(f)  == f # Editor!NoForm => f.dirty \in BOOLEAN /\ f.scheduling \in 0 .. EditorSlots
StoreTyped(s) == \A i \in Editor!Ids : s[i].status \in Editor!Statuses

LEMMA EditorTyped ==
  ASSUME EditorInv', ViewTyped(view'), FormTyped(form'), StoreTyped(store'),
         DOMAIN cached' = Editor!Ids, edits' \in 0 .. MaxEditorEdits, forms' \in 0 .. MaxForms
  PROVE  Editor!TypeOK'
<1>1. /\ hasty' \in Nat /\ DOMAIN store' = Editor!Ids
      /\ \A s \in Editor!Slots : RequestOf(saves'[s])
      /\ form' # Editor!NoForm => view'.kind = "EDITOR" /\ form'.savedId \in Known
  BY DEF EditorInv, ShapeInv, FormOf
<1>2. Editor!NoRequest.op = Editor!None
  BY DEF Editor!NoRequest
<1>3. \A s \in Editor!Slots : saves'[s].op \in Editor!Operations \cup {Editor!None}
  BY <1>1, <1>2 DEF RequestOf
<1>4. QED
  BY <1>1, <1>3 DEF Editor!TypeOK, ViewTyped, FormTyped, StoreTyped, Known

LEMMA EditorTypesInit ==
  ASSUME Editor!CampaignEditorAssumption, Editor!Init PROVE Editor!TypeOK
<1>1. /\ view = [kind |-> "LIST", id |-> Editor!None] /\ form = Editor!NoForm
      /\ saves = [s \in Editor!Slots |-> Editor!NoRequest]
      /\ edits = 0 /\ forms = 0 /\ hasty = 0
      /\ DOMAIN cached = Editor!Ids /\ DOMAIN store = Editor!Ids
  BY DEF Editor!Init
<1>2. Editor!Absent.status = "ABSENT" /\ Editor!NoRequest.op = Editor!None
  BY DEF Editor!Absent, Editor!NoRequest
<1>3. \A i \in Editor!Ids : store[i].status \in Editor!Statuses
  <2> SUFFICES ASSUME NEW i \in Editor!Ids PROVE store[i].status \in Editor!Statuses
    OBVIOUS
  <2>1. PICK d : store[i] = [status |-> "DRAFT", content |-> d] \/ store[i] = Editor!Absent
    BY DEF Editor!Init
  <2>2. store[i].status = "DRAFT" \/ store[i].status = "ABSENT"
    BY <1>2, <2>1
  <2>3. QED
    BY <2>2 DEF Editor!Statuses
<1>4. QED
  BY <1>1, <1>2, <1>3 DEF Editor!TypeOK, Editor!CampaignEditorAssumption

\* Where the screen goes.
LEMMA ViewsTyped ==
  ASSUME EditorInv, ViewTyped(view), Editor!Next PROVE ViewTyped(view')
<1>1. ASSUME Editor!Close PROVE ViewTyped(view')
  BY <1>1 DEF Editor!Close, ViewTyped, Known
<1>2. ASSUME UNCHANGED view PROVE ViewTyped(view')
  BY <1>2
<1>3. CASE Editor!OpenNew
  BY <1>3 DEF Editor!OpenNew, ViewTyped, Known
<1>4. ASSUME NEW id \in Editor!Ids, Editor!OpenRow(id) PROVE ViewTyped(view')
  BY <1>4 DEF Editor!OpenRow, Editor!viewOf, ViewTyped, Known
<1>5. CASE Editor!CampaignReportView
  BY <1>1, <1>5 DEF Editor!CampaignReportView
<1>6. CASE Editor!leave
  BY <1>1, <1>2, <1>6 DEF Editor!leave
<1>7. CASE Editor!SaveDraftDialog
  BY <1>1, <1>2, <1>7 DEF Editor!SaveDraftDialog
<1>8. ASSUME NEW s \in Editor!Slots, Editor!save(s) PROVE ViewTyped(view')
  <2>1. Editor!Close \/ UNCHANGED view
    BY <1>8 DEF Editor!save
  <2>2. QED
    BY <1>1, <1>2, <2>1
<1>9. ASSUME NEW s \in Editor!Slots, Editor!Scheduled(s) PROVE ViewTyped(view')
  <2>1. Editor!Close \/ UNCHANGED view
    BY <1>9 DEF Editor!Scheduled
  <2>2. QED
    BY <1>1, <1>2, <2>1
<1>10. CASE \/ \E id \in Editor!Ids : Editor!CampaignRowActions(id)
            \/ Editor!CampaignEditor \/ Editor!patch \/ Editor!MediaUpload \/ Editor!SaveDraft
            \/ Editor!next \/ Editor!SendNowButton \/ Editor!ConfirmCampaignModal
            \/ \E s \in Editor!Slots : Editor!Handle(s) \/ Editor!Priced(s) \/ Editor!Uploaded(s)
            \/ Editor!CampaignFetched
  BY <1>2, <1>10 DEF Editor!CampaignRowActions, Editor!CampaignEditor, Editor!patch,
       Editor!MediaUpload, Editor!SaveDraft, Editor!next, Editor!SendNowButton,
       Editor!ConfirmCampaignModal, Editor!Handle, Editor!Priced, Editor!Uploaded,
       Editor!CampaignFetched
<1>11. QED
  BY <1>3, <1>4, <1>5, <1>6, <1>7, <1>8, <1>9, <1>10 DEF Editor!Next

\* What a form becomes.
LEMMA FormsTyped ==
  ASSUME EditorInv, FormTyped(form), Editor!CampaignEditorAssumption, Editor!Next
  PROVE  FormTyped(form')
<1>0. /\ form # Editor!NoForm => /\ DOMAIN form = FormFields
                                 /\ form.dirty \in BOOLEAN /\ form.scheduling \in 0 .. EditorSlots
      /\ 0 \in 0 .. EditorSlots
  BY DEF EditorInv, ShapeInv, FormOf, FormTyped, Editor!CampaignEditorAssumption
<1>1. ASSUME form' = Editor!NoForm \/ UNCHANGED form PROVE FormTyped(form')
  BY <1>1 DEF FormTyped
<1>2. ASSUME form # Editor!NoForm, form'.dirty \in {form.dirty, TRUE, FALSE},
             form'.scheduling \in {form.scheduling, 0}
      PROVE  FormTyped(form')
  BY <1>0, <1>2 DEF FormTyped
<1>3. CASE Editor!CampaignEditor
  <2>1. form' = Editor!NewForm(view.id)
    BY <1>3 DEF Editor!CampaignEditor
  <2>2. form'.dirty = FALSE /\ form'.scheduling = 0
    BY <2>1 DEF Editor!NewForm
  <2>3. QED
    BY <1>0, <2>2 DEF FormTyped
<1>4. ASSUME form # Editor!NoForm, NEW base, NEW change, form' = Editor!Patched(base, change)
      PROVE  FormTyped(form')
  <2>1. form'.dirty = TRUE /\ form'.scheduling = 0
    BY <1>0, <1>4 DEF Editor!Patched, FormFields
  <2>2. QED
    BY <1>2, <1>4, <2>1
<1>5. CASE Editor!patch
  <2>1. form # Editor!NoForm
    BY <1>5 DEF Editor!patch, Editor!Reachable, Editor!Mounted
  <2>2. PICK change : form' = Editor!Patched(form.draft, change)
    BY <1>5 DEF Editor!patch
  <2>3. QED
    BY <1>4, <2>1, <2>2
<1>6. ASSUME form # Editor!NoForm, NEW x,
             \/ form' = [form EXCEPT !.leaving = x]
             \/ form' = [form EXCEPT !.picking = x]
             \/ form' = [form EXCEPT !.quoted = x]
             \/ form' = [form EXCEPT !.sendAt = x]
      PROVE  FormTyped(form')
  <2>1. form'.dirty = form.dirty /\ form'.scheduling = form.scheduling
    BY <1>0, <1>6 DEF FormFields
  <2>2. QED
    BY <1>2, <1>6, <2>1
<1>7. CASE Editor!leave
  <2>1. form # Editor!NoForm
    BY <1>7 DEF Editor!leave, Editor!Reachable, Editor!Mounted
  <2>2. form' = [form EXCEPT !.leaving = TRUE] \/ form' = Editor!NoForm
    BY <1>7 DEF Editor!leave, Editor!Close
  <2>3. QED
    BY <1>1, <1>6, <2>1, <2>2
<1>8. CASE Editor!SaveDraftDialog
  <2>1. form # Editor!NoForm
    BY <1>8 DEF Editor!SaveDraftDialog, Editor!Mounted
  <2>2. form' = [form EXCEPT !.leaving = FALSE] \/ form' = Editor!NoForm \/ form' = form
    BY <1>8 DEF Editor!SaveDraftDialog, Editor!Close
  <2>3. QED
    BY <1>1, <1>6, <2>1, <2>2
<1>9. CASE Editor!SendNowButton
  <2>1. form # Editor!NoForm
    BY <1>9 DEF Editor!SendNowButton, Editor!Reachable, Editor!Mounted
  <2>2. \/ form' = [form EXCEPT !.sendAt = "chosen"]
        \/ form' = [form EXCEPT !.picking = ~form.picking]
    BY <1>0, <1>9, <2>1 DEF Editor!SendNowButton, FormFields
  <2>3. QED
    BY <1>6, <2>1, <2>2
<1>10. CASE Editor!ConfirmCampaignModal
  <2>1. form # Editor!NoForm
    BY <1>10 DEF Editor!ConfirmCampaignModal, Editor!Mounted
  <2>2. CASE form' = [form EXCEPT !.sendAt = Editor!None, !.scheduling = 0]
    <3>1. form'.dirty = form.dirty /\ form'.scheduling = 0
      BY <1>0, <2>1, <2>2 DEF FormFields
    <3>2. QED
      BY <1>2, <2>1, <3>1
  <2>3. CASE Editor!Free # {} /\ form' = [form EXCEPT !.scheduling = Editor!Slot]
    <3> DEFINE slot == Editor!Slot
    <3>1. slot \in Editor!Slots
      BY <2>3, SaveSlotIs
    <3>2. form' = [form EXCEPT !.scheduling = slot]
      BY <2>3
    <3> HIDE DEF slot
    <3>3. form'.dirty = form.dirty /\ form'.scheduling = slot
      BY <1>0, <2>1, <3>2 DEF FormFields
    <3>4. slot \in 0 .. EditorSlots
      BY <3>1 DEF Editor!Slots, Editor!CampaignEditorAssumption
    <3>5. QED
      BY <1>0, <2>1, <3>3, <3>4 DEF FormTyped
  <2>4. QED
    BY <1>10, <2>2, <2>3 DEF Editor!ConfirmCampaignModal
<1>11. ASSUME NEW s \in Editor!Slots, Editor!save(s) PROVE FormTyped(form')
  <2>1. PICK id : \/ form' \in {form, Editor!NoForm}
                  \/ /\ form # Editor!NoForm
                     /\ form' \in {[form EXCEPT !.dirty = FALSE, !.savedId = id],
                          [[form EXCEPT !.dirty = FALSE, !.savedId = id] EXCEPT !.leaving = FALSE]}
    BY <1>11 DEF Editor!save, Editor!Close, Editor!Mine, Editor!Mounted
  <2>2. ASSUME form # Editor!NoForm,
               form' \in {[form EXCEPT !.dirty = FALSE, !.savedId = id],
                          [[form EXCEPT !.dirty = FALSE, !.savedId = id] EXCEPT !.leaving = FALSE]}
        PROVE  FormTyped(form')
    <3>1. form'.dirty = FALSE /\ form'.scheduling = form.scheduling
      BY <1>0, <2>2 DEF FormFields
    <3>2. QED
      BY <1>2, <2>2, <3>1
  <2>3. QED
    BY <1>1, <2>1, <2>2
<1>12. ASSUME NEW s \in Editor!Slots, Editor!Priced(s) PROVE FormTyped(form')
  <2>1. \/ UNCHANGED form
        \/ form # Editor!NoForm /\ form' = [form EXCEPT !.quoted = saves[s].content]
    BY <1>12 DEF Editor!Priced, Editor!Mine, Editor!Mounted
  <2>2. QED
    BY <1>1, <1>6, <2>1
<1>13. ASSUME NEW s \in Editor!Slots, Editor!Scheduled(s) PROVE FormTyped(form')
  <2>1. \/ form' \in {form, Editor!NoForm}
        \/ form # Editor!NoForm /\ form' = [form EXCEPT !.scheduling = 0]
    BY <1>13 DEF Editor!Scheduled, Editor!Close, Editor!Mine, Editor!Mounted
  <2>2. ASSUME form # Editor!NoForm, form' = [form EXCEPT !.scheduling = 0]
        PROVE  FormTyped(form')
    <3>1. form'.dirty = form.dirty /\ form'.scheduling = 0
      BY <1>0, <2>2 DEF FormFields
    <3>2. QED
      BY <1>2, <2>2, <3>1
  <2>3. QED
    BY <1>1, <2>1, <2>2
<1>14. ASSUME NEW s \in Editor!Slots, Editor!Uploaded(s) PROVE FormTyped(form')
  <2>1. \/ UNCHANGED form
        \/ /\ form # Editor!NoForm
           /\ form' = Editor!Patched(saves[s].base, [mediaKey |-> "key"])
    BY <1>14 DEF Editor!Uploaded, Editor!Mine, Editor!Mounted
  <2>2. QED
    BY <1>1, <1>4, <2>1
<1>15. CASE \/ Editor!CampaignReportView \/ Editor!CampaignFetched \/ Editor!OpenNew
            \/ \E id \in Editor!Ids : Editor!OpenRow(id) \/ Editor!CampaignRowActions(id)
            \/ Editor!MediaUpload \/ Editor!SaveDraft \/ Editor!next
            \/ \E s \in Editor!Slots : Editor!Handle(s)
  BY <1>1, <1>15 DEF Editor!CampaignReportView, Editor!CampaignFetched, Editor!OpenNew,
       Editor!OpenRow, Editor!CampaignRowActions, Editor!MediaUpload, Editor!SaveDraft,
       Editor!next, Editor!Handle, Editor!Close
<1>16. QED
  BY <1>3, <1>5, <1>7, <1>8, <1>9, <1>10, <1>11, <1>12, <1>13, <1>14, <1>15 DEF Editor!Next

\* What the API makes of a campaign.
LEMMA StoresTyped ==
  ASSUME EditorInv, StoreTyped(store), Editor!Next PROVE StoreTyped(store')
<1>0. /\ DOMAIN store = Editor!Ids
      /\ \A i \in Editor!Ids : DOMAIN store[i] = {"status", "content"}
                               /\ store[i].status \in Editor!Statuses
  BY DEF EditorInv, ShapeInv, StoreTyped
<1>1. ASSUME NEW k, NEW v, v.status \in Editor!Statuses, store' = [store EXCEPT ![k] = v]
      PROVE  StoreTyped(store')
  BY <1>0, <1>1 DEF StoreTyped
<1>2. ASSUME NEW k, NEW c \in Editor!Statuses, store' = [store EXCEPT ![k].status = c]
      PROVE  StoreTyped(store')
  BY <1>0, <1>2 DEF StoreTyped
<1>3. ASSUME NEW k, NEW c, store' = [store EXCEPT ![k].content = c]
      PROVE  StoreTyped(store')
  BY <1>0, <1>3 DEF StoreTyped
<1>4. ASSUME UNCHANGED store PROVE StoreTyped(store')
  BY <1>4
<1>5. ASSUME NEW k, NEW c, store' = [store EXCEPT ![k] = [status |-> "DRAFT", content |-> c]]
      PROVE  StoreTyped(store')
  <2> DEFINE v == [status |-> "DRAFT", content |-> c]
  <2>1. v.status \in Editor!Statuses
    BY DEF Editor!Statuses
  <2>2. store' = [store EXCEPT ![k] = v]
    BY <1>5
  <2> HIDE DEF v
  <2>3. QED
    BY <1>1, <2>1, <2>2
<1>6. ASSUME NEW id \in Editor!Ids, Editor!CampaignRowActions(id) PROVE StoreTyped(store')
  <2>1. \/ store' = [store EXCEPT ![id].status = "CANCELLED"]
        \/ store' = [store EXCEPT ![Editor!Given] =
                       [status |-> "DRAFT", content |-> store[id].content]]
    BY <1>6 DEF Editor!CampaignRowActions
  <2>2. "CANCELLED" \in Editor!Statuses
    BY DEF Editor!Statuses
  <2>3. QED
    BY <1>2, <1>5, <2>1, <2>2
<1>7. ASSUME NEW s \in Editor!Slots, Editor!Handle(s) PROVE StoreTyped(store')
  <2> DEFINE q == saves[s]
  <2>1. store' = Editor!Acted(q) \/ UNCHANGED store
    BY <1>7 DEF Editor!Handle
  <2> HIDE DEF q
  <2>2. \/ store' = [store EXCEPT ![Editor!Given] = [status |-> "DRAFT", content |-> q.content]]
        \/ store' = [store EXCEPT ![q.id].content = q.content]
        \/ store' = [store EXCEPT ![q.id] = Editor!Absent]
        \/ store' = [store EXCEPT ![q.id].status = "SCHEDULED"]
        \/ UNCHANGED store
    BY <2>1 DEF Editor!Acted
  <2>3. "SCHEDULED" \in Editor!Statuses /\ Editor!Absent.status \in Editor!Statuses
    BY DEF Editor!Statuses, Editor!Absent
  <2>4. QED
    BY <1>1, <1>2, <1>3, <1>4, <1>5, <2>2, <2>3
<1>8. CASE \/ Editor!CampaignReportView \/ Editor!CampaignFetched \/ Editor!OpenNew
           \/ \E id \in Editor!Ids : Editor!OpenRow(id)
           \/ Editor!CampaignEditor \/ Editor!patch \/ Editor!MediaUpload \/ Editor!SaveDraft
           \/ Editor!next \/ Editor!leave \/ Editor!SaveDraftDialog \/ Editor!SendNowButton
           \/ Editor!ConfirmCampaignModal
           \/ \E s \in Editor!Slots : \/ Editor!save(s) \/ Editor!Priced(s)
                                      \/ Editor!Scheduled(s) \/ Editor!Uploaded(s)
  BY <1>4, <1>8 DEF Editor!CampaignReportView, Editor!CampaignFetched, Editor!OpenNew,
       Editor!OpenRow, Editor!CampaignEditor, Editor!patch, Editor!MediaUpload,
       Editor!SaveDraft, Editor!next, Editor!leave, Editor!SaveDraftDialog,
       Editor!SendNowButton, Editor!ConfirmCampaignModal, Editor!save, Editor!Priced,
       Editor!Scheduled, Editor!Uploaded
<1>9. QED
  BY <1>6, <1>7, <1>8 DEF Editor!Next

\* What is counted, and what the cache holds.
LEMMA CountsTyped ==
  ASSUME DOMAIN cached = Editor!Ids, edits \in 0 .. MaxEditorEdits, forms \in 0 .. MaxForms,
         Editor!CampaignEditorAssumption, Editor!Next
  PROVE  /\ DOMAIN cached' = Editor!Ids
         /\ edits' \in 0 .. MaxEditorEdits /\ forms' \in 0 .. MaxForms
<1>0. MaxEditorEdits \in Nat /\ MaxForms \in Nat
  BY DEF Editor!CampaignEditorAssumption
<1>1. CASE Editor!CampaignEditor
  BY <1>0, <1>1 DEF Editor!CampaignEditor
<1>2. CASE Editor!patch \/ Editor!MediaUpload
  BY <1>0, <1>2 DEF Editor!patch, Editor!MediaUpload
<1>3. CASE Editor!CampaignFetched
  BY <1>0, <1>3 DEF Editor!CampaignFetched
<1>4. ASSUME UNCHANGED <<cached, edits, forms>>
      PROVE  /\ DOMAIN cached' = Editor!Ids
             /\ edits' \in 0 .. MaxEditorEdits /\ forms' \in 0 .. MaxForms
  BY <1>4
<1>5. CASE \/ Editor!CampaignReportView \/ Editor!OpenNew
           \/ \E id \in Editor!Ids : Editor!OpenRow(id) \/ Editor!CampaignRowActions(id)
           \/ Editor!SaveDraft \/ Editor!next \/ Editor!leave \/ Editor!SaveDraftDialog
           \/ Editor!SendNowButton \/ Editor!ConfirmCampaignModal
           \/ \E s \in Editor!Slots : \/ Editor!Handle(s) \/ Editor!save(s) \/ Editor!Priced(s)
                                      \/ Editor!Scheduled(s) \/ Editor!Uploaded(s)
  <2>1. UNCHANGED <<cached, edits, forms>>
    BY <1>5 DEF Editor!CampaignReportView, Editor!OpenNew, Editor!OpenRow,
       Editor!CampaignRowActions, Editor!SaveDraft, Editor!next, Editor!leave,
       Editor!SaveDraftDialog, Editor!SendNowButton, Editor!ConfirmCampaignModal,
       Editor!Handle, Editor!save, Editor!Priced, Editor!Scheduled, Editor!Uploaded
  <2>2. QED
    BY <1>4, <2>1
<1>6. QED
  BY <1>1, <1>2, <1>3, <1>5 DEF Editor!Next

\* No step of the editor leaves its types.
LEMMA EditorTypesStep ==
  ASSUME EditorInv, EditorInv', Editor!TypeOK, Editor!CampaignEditorAssumption,
         [Editor!Next]_editorVars
  PROVE  Editor!TypeOK'
<1>0. /\ ViewTyped(view) /\ FormTyped(form) /\ StoreTyped(store)
      /\ DOMAIN cached = Editor!Ids /\ edits \in 0 .. MaxEditorEdits /\ forms \in 0 .. MaxForms
  BY DEF Editor!TypeOK, ViewTyped, FormTyped, StoreTyped, Known
<1>1. CASE UNCHANGED editorVars
  <2>1. UNCHANGED <<view, form, store, cached, edits, forms>>
    BY <1>1 DEF editorVars
  <2>2. ViewTyped(view') /\ FormTyped(form') /\ StoreTyped(store')
    BY <1>0, <2>1
  <2>3. DOMAIN cached' = Editor!Ids /\ edits' \in 0 .. MaxEditorEdits /\ forms' \in 0 .. MaxForms
    BY <1>0, <2>1
  <2>4. QED
    BY <2>2, <2>3, EditorTyped
<1>2. CASE Editor!Next
  BY <1>0, <1>2, ViewsTyped, FormsTyped, StoresTyped, CountsTyped, EditorTyped
<1>3. QED
  BY <1>1, <1>2

-----------------------------------------------------------------------------
(* The composition: a service takes its own steps while it is the one looked at, and none
   otherwise. *)

\* Where a service is looked at, it is in its invariant.
RepliesKept == section = "replies" => RepliesInv
RentalsKept == section = "rentals" => RentalInv
ListsKept == section = "lists" => KeptInv
JoinKept == section = "sign-in" => JoinInv
ApiKept == section = "api" => ApiInv

LEMMA RepliesAreKept == Spec => []RepliesKept
<1>1. Init => RepliesKept
  BY RepliesBegin DEF Init, RepliesKept
<1>2. RepliesKept /\ [Next]_vars => RepliesKept'
  <2> SUFFICES ASSUME RepliesKept, [Next]_vars, section' = "replies"
               PROVE  RepliesInv'
    BY DEF RepliesKept
  <2>1. section = "replies"
    BY DEF Next, On, vars
  <2>2. Inbound!Next \/ UNCHANGED Inbound!vars
    BY <2>1 DEF Next, On, vars, replyVars, Inbound!vars
  <2>3. QED
    BY <2>1, <2>2, RepliesGoOn DEF RepliesKept
<1>3. QED
  BY <1>1, <1>2, PTL DEF Spec

LEMMA RentalsAreKept == Spec => []RentalsKept
<1>1. Init => RentalsKept
  BY RentalBegins DEF Init, RentalsKept
<1>2. RentalsKept /\ [Next]_vars => RentalsKept'
  <2> SUFFICES ASSUME RentalsKept, [Next]_vars, section' = "rentals"
               PROVE  RentalInv'
    BY DEF RentalsKept
  <2>1. section = "rentals"
    BY DEF Next, On, vars
  <2>2. Renting!Next \/ UNCHANGED Renting!vars
    BY <2>1 DEF Next, On, vars, rentalVars, Renting!vars
  <2>3. QED
    BY <2>1, <2>2, RentalGoesOn DEF RentalsKept
<1>3. QED
  BY <1>1, <1>2, PTL DEF Spec

LEMMA ListsAreKept == Spec => []ListsKept
<1>1. Kept!ListsAssumption
  BY ServicesAssumption DEF ServicesAssumption
<1>2. Init => ListsKept
  BY <1>1, KeptBegins DEF Init, ListsKept
<1>3. ListsKept /\ [Next]_vars => ListsKept'
  <2> SUFFICES ASSUME ListsKept, [Next]_vars, section' = "lists"
               PROVE  KeptInv'
    BY DEF ListsKept
  <2>1. section = "lists"
    BY DEF Next, On, vars
  <2>2. Kept!Next \/ UNCHANGED Kept!vars
    BY <2>1 DEF Next, On, vars, keptVars, Kept!vars
  <2>3. QED
    BY <1>1, <2>1, <2>2, KeptGoesOn DEF ListsKept
<1>4. QED
  BY <1>2, <1>3, PTL DEF Spec

LEMMA JoiningIsKept == Spec => []JoinKept
<1>1. Joining!SignInAssumption
  BY ServicesAssumption DEF ServicesAssumption
<1>2. Init => JoinKept
  BY <1>1, JoinBegins DEF Init, JoinKept
<1>3. JoinKept /\ [Next]_vars => JoinKept'
  <2> SUFFICES ASSUME JoinKept, [Next]_vars, section' = "sign-in"
               PROVE  JoinInv'
    BY DEF JoinKept
  <2>1. section = "sign-in"
    BY DEF Next, On, vars
  <2>2. Joining!Next \/ UNCHANGED Joining!vars
    BY <2>1 DEF Next, On, vars, signInVars, Joining!vars
  <2>3. QED
    BY <1>1, <2>1, <2>2, JoinGoesOn DEF JoinKept
<1>4. QED
  BY <1>2, <1>3, PTL DEF Spec

LEMMA ApiIsKept == Spec => []ApiKept
<1>1. Api!ApiSendAssumption
  BY ServicesAssumption DEF ServicesAssumption
<1>2. Init => ApiKept
  BY <1>1, ApiBegins DEF Init, ApiKept
<1>3. ApiKept /\ [Next]_vars => ApiKept'
  <2> SUFFICES ASSUME ApiKept, [Next]_vars, section' = "api"
               PROVE  ApiInv'
    BY DEF ApiKept
  <2>1. section = "api"
    BY DEF Next, On, vars
  <2>2. Api!Next \/ UNCHANGED Api!vars
    BY <2>1 DEF Next, On, vars, apiVars, Api!vars
  <2>3. QED
    BY <1>1, <2>1, <2>2, ApiGoesOn DEF ApiKept
<1>4. QED
  BY <1>2, <1>3, PTL DEF Spec

\* Where a service is looked at, it is in its types.
ServicesTypes ==
  /\ section = "replies" => RepliesTypes
  /\ section = "rentals" => RentalTypes
  /\ section = "lists" => ListsTypes
  /\ section = "sign-in" => JoinTypes
  /\ section = "api" => ApiTypes

\* What the types of the services rest on: their invariants.
ServicesKept == RepliesKept /\ RentalsKept /\ ListsKept /\ JoinKept /\ ApiKept

\* The service looked at steps, and the others stay.
LEMMA ServiceSteps ==
  ASSUME [Next]_vars
  PROVE  /\ UNCHANGED section
         /\ section = "replies" => [Inbound!Next]_replyVars
         /\ section = "rentals" => [Renting!Next]_rentalVars
         /\ section = "lists" => [Kept!Next]_keptVars
         /\ section = "sign-in" => [Joining!Next]_signInVars
         /\ section = "api" => [Api!Next]_apiVars
<1>1. UNCHANGED section
  BY DEF Next, On, vars
<1>2. section = "replies" => [Inbound!Next]_replyVars
  BY DEF Next, On, vars
<1>3. section = "rentals" => [Renting!Next]_rentalVars
  BY DEF Next, On, vars
<1>4. section = "lists" => [Kept!Next]_keptVars
  BY DEF Next, On, vars
<1>5. section = "sign-in" => [Joining!Next]_signInVars
  BY DEF Next, On, vars
<1>6. section = "api" => [Api!Next]_apiVars
  BY DEF Next, On, vars
<1>7. QED
  BY <1>1, <1>2, <1>3, <1>4, <1>5, <1>6

LEMMA ServicesAreTyped == Spec => [](ServicesKept /\ ServicesTypes)
<1>0. /\ Inbound!RepliesAssumption /\ Renting!RentalsAssumption /\ Kept!ListsAssumption
      /\ Joining!SignInAssumption /\ Api!ApiSendAssumption
  BY ServicesAssumption DEF ServicesAssumption
<1>1. Init => ServicesTypes
  BY <1>0, RepliesTypesInit, RentalTypesInit, ListsTypesInit, JoinTypesInit, ApiTypesInit
     DEF Init, ServicesTypes
<1>2. ServicesKept /\ ServicesTypes /\ [Next]_vars => ServicesTypes'
  <2> SUFFICES ASSUME ServicesKept, ServicesTypes, [Next]_vars PROVE ServicesTypes'
    OBVIOUS
  <2>1. section' = section
    BY ServiceSteps
  <2>2. ASSUME section = "replies" PROVE RepliesTypes'
    <3>1. RepliesTypes /\ [Inbound!Next]_replyVars
      BY <2>2, ServiceSteps DEF ServicesTypes
    <3>2. QED
      BY <1>0, <3>1, RepliesTypesStep
  <2>3. ASSUME section = "rentals" PROVE RentalTypes'
    <3>1. RentalInv /\ RentalTypes /\ [Renting!Next]_rentalVars
      BY <2>3, ServiceSteps DEF ServicesTypes, ServicesKept, RentalsKept
    <3>2. QED
      BY <1>0, <3>1, RentalTypesStep
  <2>4. ASSUME section = "lists" PROVE ListsTypes'
    <3>1. KeptInv /\ ListsTypes /\ [Kept!Next]_keptVars
      BY <2>4, ServiceSteps DEF ServicesTypes, ServicesKept, ListsKept
    <3>2. QED
      BY <1>0, <3>1, ListsTypesStep
  <2>5. ASSUME section = "sign-in" PROVE JoinTypes'
    <3>1. JoinInv /\ JoinTypes /\ [Joining!Next]_signInVars
      BY <2>5, ServiceSteps DEF ServicesTypes, ServicesKept, JoinKept
    <3>2. QED
      BY <1>0, <3>1, JoinTypesStep
  <2>6. ASSUME section = "api" PROVE ApiTypes'
    <3>1. ApiInv /\ ApiTypes /\ [Api!Next]_apiVars
      BY <2>6, ServiceSteps DEF ServicesTypes, ServicesKept, ApiKept
    <3>2. QED
      BY <1>0, <3>1, ApiTypesStep
  <2>7. QED
    BY <2>1, <2>2, <2>3, <2>4, <2>5, <2>6 DEF ServicesTypes
<1>3. Spec => []ServicesKept
  BY RepliesAreKept, RentalsAreKept, ListsAreKept, JoiningIsKept, ApiIsKept, PTL
     DEF ServicesKept
<1>4. QED
  BY <1>1, <1>2, <1>3, PTL DEF Spec

\* The services looked at are of their types.
LEMMA ServicesTyped ==
  ASSUME ServicesKept, ServicesTypes
  PROVE  /\ section = "replies" => Inbound!TypeOK
         /\ section = "rentals" => Renting!TypeOK
         /\ section = "lists" => Kept!TypeOK
         /\ section = "sign-in" => Joining!TypeOK
         /\ section = "api" => Api!TypeOK
BY RepliesTyped, RentalTyped, ListsTyped, JoinTyped, ApiTyped
   DEF ServicesKept, ServicesTypes, RepliesKept, RentalsKept, ListsKept, JoinKept, ApiKept

-----------------------------------------------------------------------------
(* The screens in the composition                                          *)

\* The screen looked at steps, and the others stay.
LEMMA ScreenSteps ==
  ASSUME [Next]_vars
  PROVE  /\ UNCHANGED section
         /\ IF section = "campaigns" THEN [Editor!Next]_editorVars ELSE UNCHANGED editorVars
         /\ IF section = "quick send" THEN [Quick!Next]_quickVars ELSE UNCHANGED quickVars
         /\ IF section = "inbox" THEN [Inbox!Next]_inboxVars ELSE UNCHANGED inboxVars
         /\ IF section = "contacts" THEN [Lists!Next]_listVars ELSE UNCHANGED listVars
         /\ IF section = "panels" THEN [Panels!Next]_panelVars ELSE UNCHANGED panelVars
         /\ IF section = "top-up" THEN [Buying!Next]_topUpVars ELSE UNCHANGED topUpVars
<1>1. UNCHANGED section
  BY DEF Next, On, vars
<1>2. IF section = "quick send" THEN [Quick!Next]_quickVars ELSE UNCHANGED quickVars
  BY DEF Next, On, vars
<1>3. IF section = "inbox" THEN [Inbox!Next]_inboxVars ELSE UNCHANGED inboxVars
  BY DEF Next, On, vars
<1>4. IF section = "contacts" THEN [Lists!Next]_listVars ELSE UNCHANGED listVars
  BY DEF Next, On, vars
<1>5. IF section = "panels" THEN [Panels!Next]_panelVars ELSE UNCHANGED panelVars
  BY DEF Next, On, vars
<1>6. IF section = "top-up" THEN [Buying!Next]_topUpVars ELSE UNCHANGED topUpVars
  BY DEF Next, On, vars
<1>7. IF section = "campaigns" THEN [Editor!Next]_editorVars ELSE UNCHANGED editorVars
  BY DEF Next, On, vars
<1>8. QED
  BY <1>1, <1>2, <1>3, <1>4, <1>5, <1>6, <1>7

\* Where a screen is on show, it is in its invariant.
ScreensKept ==
  /\ section = "campaigns" => EditorInv
  /\ section = "quick send" => QuickInv
  /\ section = "inbox" => InboxInv
  /\ section = "contacts" => ContactsInv
  /\ section = "panels" => PanelsInv
  /\ section = "top-up" => TopUpInv

LEMMA ScreensAreKept == Spec => []ScreensKept
<1>0. Quick!QuickSendAssumption
  BY ApplicationAssumption DEF ApplicationAssumption
<1>1. Init => ScreensKept
  BY <1>0, EditorStarts, QuickInit, InboxInit, ContactsInit, PanelsInit, TopUpInit
     DEF Init, ScreensKept
<1>2. ScreensKept /\ [Next]_vars => ScreensKept'
  <2> SUFFICES ASSUME ScreensKept, [Next]_vars PROVE ScreensKept'
    OBVIOUS
  <2>1. section' = section
    BY ScreenSteps
  <2>2. ASSUME section = "quick send" PROVE QuickInv'
    BY <1>0, <2>2, QuickStep, ScreenSteps DEF ScreensKept
  <2>3. ASSUME section = "inbox" PROVE InboxInv'
    BY <2>3, InboxStep, ScreenSteps DEF ScreensKept
  <2>4. ASSUME section = "contacts" PROVE ContactsInv'
    BY <2>4, ContactsStep, ScreenSteps DEF ScreensKept
  <2>5. ASSUME section = "panels" PROVE PanelsInv'
    BY <2>5, PanelsStep, ScreenSteps DEF ScreensKept
  <2>6. ASSUME section = "top-up" PROVE TopUpInv'
    BY <2>6, TopUpStep, ScreenSteps DEF ScreensKept
  <2>7. ASSUME section = "campaigns" PROVE EditorInv'
    BY <2>7, EditorSteps, ScreenSteps DEF ScreensKept
  <2>8. QED
    BY <2>1, <2>2, <2>3, <2>4, <2>5, <2>6, <2>7 DEF ScreensKept
<1>3. QED
  BY <1>1, <1>2, PTL DEF Spec

\* The tables where they are looked at.
LEMMA TablesAreKept == Spec => []TablesKept
<1>0. Tabled!TablesAssumption
  BY ApplicationAssumption DEF ApplicationAssumption
<1>1. Init => TablesKept
  BY <1>0, TablesInit DEF Init, TablesKept
<1>2. TablesKept /\ [Next]_vars => TablesKept'
  <2> SUFFICES ASSUME TablesKept, [Next]_vars, section' = "tables" PROVE TablesInv'
    BY DEF TablesKept
  <2>1. section = "tables"
    BY DEF Next, On, vars
  <2>2. TablesInv
    BY <2>1 DEF TablesKept
  <2>3. CASE On("tables") /\ Tabled!Next
    BY <1>0, <2>2, <2>3, TablesStep
  <2>4. CASE ~(On("tables") /\ Tabled!Next)
    <3>1. UNCHANGED tableVars
      BY <2>1, <2>4 DEF Next, On, vars
    <3>2. screen' = screen /\ choice' = choice /\ cache' = cache /\ shown' = shown /\ rows' = rows
      BY <3>1 DEF tableVars
    <3>3. Tabled!Key' = Tabled!Key /\ Tabled!Query(choice)' = Tabled!Query(choice)
      BY <2>2, <3>2, KeyAfter DEF TablesInv, Tabled!Key, Tabled!apiKey
    <3>4. QED
      BY <2>2, <3>2, <3>3 DEF TablesInv, ChoiceOf, EntryOf, Tabled!ShownAsChosen, Tabled!Entry
  <2>5. QED
    BY <2>3, <2>4
<1>3. QED
  BY <1>1, <1>2, PTL DEF Spec

\* The types of the session and of the import are those of their own proofs.
LEMMA SameTypes ==
  /\ Session!TypeOK <=> Proved!TypeOK
  /\ Import!TypeOK <=> Imported!TypeOK
<1>1. Session!TypeOK <=> Proved!TypeOK
  BY DEF Session!TypeOK, Proved!TypeOK, Session!Pages, Proved!Pages, Session!Access,
         Proved!Access, Session!None, Proved!None, Session!Nonces, Proved!Nonces,
         Session!Logout, Proved!Logout, Session!AllCalls, Proved!AllCalls,
         Session!Phases, Proved!Phases
<1>2. Import!TypeOK <=> Imported!TypeOK
  <2>1. Import!Files = Imported!Files /\ Import!Runs = Imported!Runs
    BY DEF Import!Files, Imported!Files, Import!Runs, Imported!Runs
  <2>2. QED
    BY <2>1, Zenon DEF Import!TypeOK, Imported!TypeOK
<1>3. QED
  BY <1>1, <1>2

\* Where a screen is looked at, it is in its types.
ScreensTypes ==
  /\ section \in Sections
  /\ section = "campaigns" => Editor!TypeOK
  /\ section = "quick send" => QuickTypes
  /\ section = "inbox" => InboxTypes
  /\ section = "contacts" => ContactsTypes
  /\ section = "import" => Imported!TakenWithin
  /\ section = "panels" => PanelsTypes
  /\ section = "top-up" => TopUpTypes
  /\ section = "tables" => TablesTypes

LEMMA ScreensBegin == Init => ScreensTypes
<1> SUFFICES ASSUME Init PROVE ScreensTypes
  OBVIOUS
<1>1. /\ Editor!CampaignEditorAssumption /\ Quick!QuickSendAssumption
      /\ Inbox!InboxAssumption /\ Lists!ContactListAssumption
      /\ Panels!DialogsAssumption /\ Buying!TopUpAssumption /\ Tabled!TablesAssumption
  BY ApplicationAssumption DEF ApplicationAssumption
<1>2. Editor!Init /\ Quick!Init /\ Inbox!Init /\ Lists!Init /\ Panels!Init /\ Buying!Init
        /\ Tabled!Init
  BY DEF Init
<1>3. Imported!ContactImportAssumption /\ Imported!Init
  BY SameImport, ApplicationAssumption DEF ApplicationAssumption, Init
<1>4. Editor!TypeOK
  BY <1>1, <1>2, EditorTypesInit
<1>5. QuickTypes
  BY <1>1, <1>2, QuickTypesInit
<1>6. InboxTypes
  BY <1>1, <1>2, InboxTypesInit
<1>7. ContactsTypes
  BY <1>1, <1>2, ContactsTypesInit
<1>8. PanelsTypes
  BY <1>1, <1>2, PanelsInit, PanelsTypesInit
<1>9. TopUpTypes
  BY <1>1, <1>2, TopUpTypesInit
<1>10. TablesTypes
  BY <1>1, <1>2, TablesTypesInit
<1>11. Imported!TakenWithin
  BY <1>3, Imported!TakenInit
<1>12. QED
  BY <1>4, <1>5, <1>6, <1>7, <1>8, <1>9, <1>10, <1>11 DEF ScreensTypes, Init

LEMMA ScreensGoOn ==
  ASSUME [Next]_vars, ScreensTypes, ScreensKept, ScreensKept', ImportKept, TablesKept,
         TablesKept'
  PROVE  ScreensTypes'
<1>1. /\ Editor!CampaignEditorAssumption /\ Quick!QuickSendAssumption
      /\ Inbox!InboxAssumption /\ Lists!ContactListAssumption
      /\ Panels!DialogsAssumption /\ Buying!TopUpAssumption /\ Tabled!TablesAssumption
  BY ApplicationAssumption DEF ApplicationAssumption
<1>2. section' = section
  BY ScreenSteps
<1>3. ASSUME section = "campaigns" PROVE Editor!TypeOK'
  <2>1. EditorInv /\ EditorInv' /\ Editor!TypeOK /\ [Editor!Next]_editorVars
    BY <1>2, <1>3, ScreenSteps DEF ScreensTypes, ScreensKept
  <2>2. QED
    BY <1>1, <2>1, EditorTypesStep
<1>4. ASSUME section = "quick send" PROVE QuickTypes'
  <2>1. QuickInv /\ QuickTypes /\ [Quick!Next]_quickVars
    BY <1>2, <1>4, ScreenSteps DEF ScreensTypes, ScreensKept
  <2>2. QED
    BY <1>1, <2>1, QuickTypesStep
<1>5. ASSUME section = "inbox" PROVE InboxTypes'
  <2>1. InboxInv /\ InboxInv' /\ InboxTypes /\ [Inbox!Next]_inboxVars
    BY <1>2, <1>5, ScreenSteps DEF ScreensTypes, ScreensKept
  <2>2. QED
    BY <1>1, <2>1, InboxTypesStep
<1>6. ASSUME section = "contacts" PROVE ContactsTypes'
  <2>1. ContactsInv /\ ContactsTypes /\ [Lists!Next]_listVars
    BY <1>2, <1>6, ScreenSteps DEF ScreensTypes, ScreensKept
  <2>2. QED
    BY <1>1, <2>1, ContactsTypesStep
<1>7. ASSUME section = "panels" PROVE PanelsTypes'
  <2>1. PanelsInv /\ PanelsInv' /\ PanelsTypes /\ [Panels!Next]_panelVars
    BY <1>2, <1>7, ScreenSteps DEF ScreensTypes, ScreensKept
  <2>2. QED
    BY <1>1, <2>1, PanelsTypesStep
<1>8. ASSUME section = "top-up" PROVE TopUpTypes'
  <2>1. TopUpInv /\ TopUpInv' /\ TopUpTypes /\ [Buying!Next]_topUpVars
    BY <1>2, <1>8, ScreenSteps DEF ScreensTypes, ScreensKept
  <2>2. QED
    BY <1>1, <2>1, TopUpTypesStep
<1>9. ASSUME section = "tables" PROVE TablesTypes'
  <2>1. TablesInv /\ TablesInv' /\ TablesTypes
    BY <1>2, <1>9 DEF ScreensTypes, TablesKept
  <2>2. CASE On("tables") /\ Tabled!Next
    BY <1>1, <2>1, <2>2, TablesTypesStep
  <2>3. CASE ~(On("tables") /\ Tabled!Next)
    <3>1. UNCHANGED tableVars
      BY <1>9, <2>3 DEF Next, On, vars
    <3>2. QED
      BY <2>1, <3>1 DEF tableVars, TablesTypes, HeldOf, Tabled!TypeOK, Tabled!Key,
             Tabled!Query, Tabled!apiKey, Tabled!Cursor, Tabled!useCursorTrail, Tabled!Scope
  <2>4. QED
    BY <2>2, <2>3
<1>10. ASSUME section = "import" PROVE Imported!TakenWithin'
  <2>1. Imported!ContactImportAssumption
    BY SameImport, ApplicationAssumption DEF ApplicationAssumption
  <2>2. [Imported!Next]_Imported!vars
    <3>1. CASE On("import") /\ Import!Next
      BY <3>1, SameImport
    <3>2. CASE ~(On("import") /\ Import!Next)
      BY <1>10, <3>2 DEF Next, On, vars, importVars, Imported!vars
    <3>3. QED
      BY <3>1, <3>2
  <2>3. Imported!ImportInv /\ Imported!TakenWithin
    BY <1>10 DEF ScreensTypes, ImportKept
  <2>4. QED
    BY <2>1, <2>2, <2>3, Imported!TakenStep
<1>11. QED
  BY <1>2, <1>3, <1>4, <1>5, <1>6, <1>7, <1>8, <1>9, <1>10 DEF ScreensTypes

-----------------------------------------------------------------------------
(* The theorems                                                            *)

\* However many calls of a tab meet a 401 at once, and whatever answers the
\* network drops, the API acts on none of them twice; and the code of a redirect is
\* exchanged once, whatever is reloaded (sendAuthorized and reach of api/client.ts,
\* completeSignIn and takeHandoff of lib/auth.ts).
THEOREM NeverActedTwice == Spec => []ActedOnOnce
<1>1. SessionKept => ActedOnOnce
  <2> SUFFICES ASSUME SessionKept, section = "session"
               PROVE  Session!ActedOnOnce /\ Session!CodeExchangedOnce
    BY DEF ActedOnOnce
  <2>1. Session!ActedOnOnce
    BY DEF SessionKept, Session!ActedOnOnce, Session!AllCalls,
           Proved!SessionInv, Proved!WaitingIsUnacted, Proved!AllCalls
  <2>2. Session!CodeExchangedOnce
    BY DEF SessionKept, Session!CodeExchangedOnce, Session!Nonces,
           Proved!SessionInv, Proved!HandoffIsUnspent, Proved!Nonces
  <2>3. QED
    BY <2>1, <2>2
<1>2. QED
  BY <1>1, SessionIsKept, PTL

\* A call that ends unrenewed has the tab on its way to sign-in
\* (refreshAccessToken of lib/auth.ts).
THEOREM NobodyIsStranded == Spec => []UnrenewedIsRedirected
<1>1. SessionKept => UnrenewedIsRedirected
  BY DEF SessionKept, UnrenewedIsRedirected, Session!UnrenewedIsRedirected, Session!None,
         Proved!SessionInv, Proved!UnrenewedIsRedirected, Proved!None
<1>2. QED
  BY <1>1, SessionIsKept, PTL

\* Who comes back from the last redirect begun finds its handoff
\* (redirectToSignIn of lib/auth.ts).
THEOREM LastComesBack == Spec => LastRedirectReturns
<1>1. SessionKept /\ [Next]_vars
        => [page = "provider" /\ page' = "callback" /\ param = nonces
             => handoff = param]_Session!vars
  BY DEF SessionKept, Next, On, vars, sessionVars, Session!vars,
         Proved!SessionInv, Proved!LastHasHandoff
<1>2. QED
  BY <1>1, SessionIsKept, PTL DEF Spec, LastRedirectReturns, Session!LastRedirectReturns

\* For any files, also with a number in several rows or in none, chunks of any size and any
\* number of runs and modals, a report on show means that the whole file is in the list, and
\* counts each row once, but those whose number comes again in their chunk: of these only
\* the last is put and counted (ImportModal of the contact screens, import_contacts).
THEOREM ReportsAreTrue == Spec => []ReportMeansAll
<1>1. \A S : Import!Cardinality(S) = Imported!Cardinality(S)
  BY DEF Import!Cardinality, Imported!Cardinality
<1>2. \A file, part : /\ Import!LastOfChunk(file, part) = Imported!LastOfChunk(file, part)
                      /\ Import!Skipped(file, part) = Imported!Skipped(file, part)
  BY DEF Import!LastOfChunk, Imported!LastOfChunk, Import!Skipped, Imported!Skipped,
         Import!Parted, Imported!Parted
<1>3. ImportKept => ReportMeansAll
  BY <1>1, <1>2 DEF ImportKept, ReportMeansAll, Import!ReportMeansAll,
         Imported!ImportInv, Imported!ReportIsOver, Imported!Tallies
<1>4. QED
  BY <1>3, ImportIsKept, PTL

\* Whatever order the answers come in, and however the rows change, a table shows the
\* answer to what is chosen once that is in, and a page that has rows
\* (useApiQuery, useCursorTrail, PagedRows and LogsResults).
THEOREM TablesShowTheirChoice == Spec => []TableShowsWhatIsChosen
<1>0. Tabled!TablesAssumption
  BY ApplicationAssumption DEF ApplicationAssumption
<1>1. TablesKept => TableShowsWhatIsChosen
  BY <1>0, TablesShow DEF TablesKept, TableShowsWhatIsChosen
<1>2. QED
  BY <1>1, TablesAreKept, PTL

\* However often a button is pressed and whatever is lost, the dialog of a quick send
\* sends its message once, and an opening of any other dialog has one request of a kind
\* under way at most (ConfirmSendModal and useSend, FormModal and useMutation).
THEOREM DialogsAskOnce == Spec => []AskedOncePerDialog
<1>1. ScreensKept => AskedOncePerDialog
  BY PanelsShow DEF ScreensKept, AskedOncePerDialog, QuickInv
<1>2. QED
  BY <1>1, ScreensAreKept, PTL

\* Whichever polls, refetches and failures overlap a change, a list that is loaded with
\* nothing out for it shows every change the user was told was made, and the balance the
\* payment he was told of (INVALIDATES of api/queries.ts, TopUpOutcome).
THEOREM ChangesAreShown == Spec => []OwnChangesShown
<1>1. ScreensKept => OwnChangesShown
  BY InboxShow, PanelsShow, TopUpShows DEF ScreensKept, OwnChangesShown
<1>2. QED
  BY <1>1, ScreensAreKept, PTL

\* A button that is busy is busy with a request that is under way, so the answer or its
\* failure frees it; and the reply that the composer of the inbox waits for goes to the
\* peer on show, so that the answer clears the composer it was written in and no other
\* (ConfirmSendModal and useSend, ReplyComposer and ThreadPane).
BusyWithWhatIsOut ==
  /\ section = "quick send" /\ composer # Quick!NoComposer /\ composer.sending # 0 =>
       sends[composer.sending].op = "send"
  /\ section = "inbox" /\ reply.sending # 0 =>
       /\ replies[reply.sending].op = "reply"
       /\ replies[reply.sending].peer = selection.peer

THEOREM NobodyIsKeptBusy == Spec => []BusyWithWhatIsOut
<1>1. ScreensKept => BusyWithWhatIsOut
  BY DEF ScreensKept, BusyWithWhatIsOut, QuickInv, DialogInv, InboxInv, ReplyInv
<1>2. QED
  BY <1>1, ScreensAreKept, PTL

\* However the lists are searched, opened and deleted under the ticks, a bulk action names
\* contacts of the list it is asked of (ListPanel and SelectableContacts of the contacts
\* screen).
THEOREM BulksStayInTheirList == Spec => []BulkActsOnItsList
<1>1. ContactsInv => Lists!BulkActsOnItsList
  BY DEF ContactsInv, AllOf, Lists!BulkActsOnItsList
<1>2. ScreensKept => BulkActsOnItsList
  BY <1>1 DEF ScreensKept, BulkActsOnItsList
<1>3. QED
  BY <1>2, ScreensAreKept, PTL

\* In whatever order the answers come, the inbox goes where its user goes or to the
\* thread his own message began, and the browser leaves only for the checkout asked for
\* last (ReplyComposer and ThreadPane, useTopUpCheckout).
THEOREM AnswersLeaveUsAlone == Spec => AnswersMoveNobody
<1>1. ScreensKept /\ [Next]_vars
        => [selection' # selection /\ moves' = moves
              => /\ selection.kind = "new"
                 /\ selection' = [kind |-> "thread", peer |-> selection.peer]
                 /\ reply.sending # 0]_Inbox!vars
  <2> SUFFICES ASSUME ScreensKept, [Next]_vars, ~UNCHANGED Inbox!vars,
                      selection' # selection, moves' = moves
               PROVE  /\ selection.kind = "new"
                      /\ selection' = [kind |-> "thread", peer |-> selection.peer]
                      /\ reply.sending # 0
    OBVIOUS
  <2>1. ~UNCHANGED inboxVars
    BY DEF inboxVars
  <2>2. section = "inbox" /\ Inbox!Next
    BY <2>1, ScreenSteps
  <2>3. QED
    BY <2>2, PaneStays DEF ScreensKept
<1>2. ScreensKept /\ [Next]_vars
        => [leaving' # leaving => leaving' = wanted]_Buying!vars
  <2> SUFFICES ASSUME ScreensKept, [Next]_vars, leaving' # leaving PROVE leaving' = wanted
    OBVIOUS
  <2>1. ~UNCHANGED topUpVars
    BY DEF topUpVars
  <2>2. section = "top-up" /\ Buying!Next
    BY <2>1, ScreenSteps
  <2>3. QED
    BY <2>2, LeavesAsWanted DEF ScreensKept
<1>3. QED
  BY <1>1, <1>2, ScreensAreKept, PTL
     DEF Spec, AnswersMoveNobody, Inbox!AnswersMoveNobody, Buying!LastCheckoutOpens

\* However late the answers come and whatever is lost, a form that says it is clean shows
\* what is saved, for a user who waits for every answer before going on
\* (useCampaignEditor and SaveDraftDialog).
THEOREM CleanIsSaved == Spec => []CleanMeansSaved
<1>1. ScreensKept => CleanMeansSaved
  BY EditorShows DEF ScreensKept, CleanMeansSaved
<1>2. QED
  BY <1>1, ScreensAreKept, PTL

\* What a quick send asks the API to send is what its dialog had a price for, and what a
\* waiting user schedules is what the price on the dialog was for, whatever saves, prices,
\* uploads and refetches came and went before (ConfirmSendModal, ConfirmCampaignModal).
THEOREM PriceIsForWhatIsSent == Spec => SentAsQuoted
<1>1. ScreensKept => (section = "campaigns" => Editor!SentAsPriced)
  BY EditorShows DEF ScreensKept
<1>2. ScreensKept /\ [Next]_vars
        => [\A s \in Quick!Slots : sends'[s].op = "send" /\ sends[s].op # "send" =>
              sends'[s].input \in quotes]_Quick!vars
  <2> SUFFICES ASSUME ScreensKept, [Next]_vars, NEW s \in Quick!Slots,
                      sends'[s].op = "send", sends[s].op # "send"
               PROVE  sends'[s].input \in quotes
    OBVIOUS
  <2>1. ~UNCHANGED quickVars
    BY DEF quickVars
  <2>2. section = "quick send" /\ Quick!Next
    BY <2>1, ScreenSteps
  <2>3. QED
    BY <2>2, SendsAreQuoted DEF ScreensKept
<1>3. QED
  BY <1>1, <1>2, ScreensAreKept, PTL DEF Spec, SentAsQuoted, Quick!SentAsQuoted

\* However many STOPs come, twice or together, and whatever dies on the way, whoever said
\* STOP, or was moved to the opt-out list from another, is there until a user takes him off
\* it (handle_body of inbound, _move_to_opt_out and opt_out of contacts).
THEOREM NoOptOutIsLost == Spec => []OptOutsAreKept
<1>1. RepliesKept /\ ListsKept => OptOutsAreKept
  BY DEF RepliesKept, RepliesInv, ListsKept, KeptInv, OptOutsAreKept
<1>2. QED
  BY <1>1, RepliesAreKept, ListsAreKept, PTL

\* For any contacts, requests at once and ceiling, a list's counter is the number of its
\* contacts less those that an update put back after a deletion under it, which nothing
\* counts, whenever no batch that read the list is about to write to it, unless a request
\* wrote under a batch that had read it, or a batch died half way (upsert_contact,
\* delete_contact, _add_many and _remove_many of contacts).
THEOREM CountsAreRight == Spec => []CountAgrees
<1>1. ListsKept => CountAgrees
  <2> SUFFICES ASSUME KeptInv, NEW l \in there \ blurred,
                      \A w \in Writers : ~Kept!StandsOn(w, l)
               PROVE  count[l] + restored[l] = Kept!Cardinality(contacts[l])
    BY DEF ListsKept, CountAgrees, Kept!CountAgrees
  <2>1. \A w \in Writers : Debt(w, l) = 0
    BY DEF Debt, Kept!StandsOn
  <2>2. ~Emptying(l)
    BY DEF Emptying, Kept!StandsOn
  <2>3. l \in Kept!Kinds /\ count[l] \in Int /\ restored[l] \in Int
    BY DEF KeptInv, KeptType
  <2>4. Even(l) \/ \E w \in Writers : Settles(w, l)
    BY <2>2 DEF KeptInv, Counted
  <2>5. QED
    BY <2>1, <2>3, <2>4 DEF Even, Settles
<1>2. QED
  BY <1>1, ListsAreKept, PTL

\* Whatever is retried, delivered again or asked for in two requests at once, it is done
\* once: a request with the key of another, a reply, a first sign-in (begin_idempotency and
\* finish_idempotency, record_inbound, create_account and link_user).
THEOREM RepeatsAreOne == Spec => []RepeatsActOnce
<1>1. RepliesKept => (section = "replies" => Inbound!RepliedOnce)
  BY DEF RepliesKept, RepliesInv, DoneOnce, Past, Inbound!RepliedOnce, Inbound!At
<1>2. ApiKept => (section = "api" => Api!RepeatsActOnce)
  BY AskedTwiceActsOnce DEF ApiKept
<1>3. JoinKept => (section = "sign-in" => Joining!OneUser)
  BY JoinedOnce DEF JoinKept
<1>4. RepliesKept /\ ApiKept /\ JoinKept => RepeatsActOnce
  BY <1>1, <1>2, <1>3 DEF RepeatsActOnce
<1>5. QED
  BY <1>4, RepliesAreKept, ApiIsKept, JoiningIsKept, PTL

\* For batches and concurrency of any size, a batch is given back what was refused of it
\* once all of it is over; and for any number of periods, deaths of the run and cancellations
\* the rental of a period is paid once, and a number is released as unpaid only while its
\* period is (_send_priced and settle, charge_rental and Renewals.run).
THEOREM NothingIsBilledTwice == Spec => []BilledOnce
<1>1. ApiKept => (section = "api" => Api!BilledAsDispatched)
  BY BilledRight DEF ApiKept
<1>2. RentalsKept => (section = "rentals" => Renting!PeriodPaidOnce)
  BY DEF RentalsKept, RentalInv, RowsMatch, UnpaidIsUnpaid, Renting!PeriodPaidOnce
<1>3. ApiKept /\ RentalsKept => BilledOnce
  BY <1>1, <1>2 DEF BilledOnce
<1>4. QED
  BY <1>3, ApiIsKept, RentalsAreKept, PTL

\* Whatever is opened, typed, pressed, answered, lost or left in whichever section, its
\* state stays of its types: the bounds of the counters, what a request may be for, what a
\* query may hold, the chips of a draft that are as many as the values they stand for
\* (the sections' state: useApiQuery, useMutation, the routes, and the rows of the API).
THEOREM TypesAreRight == Spec => []TypeOK
<1>1. ScreensTypes /\ ScreensKept /\ ScreensKept' /\ ImportKept /\ TablesKept
        /\ TablesKept' /\ [Next]_vars => ScreensTypes'
  BY ScreensGoOn
<1>2. Spec => []ScreensTypes
  BY <1>1, ScreensBegin, ScreensAreKept, ImportIsKept, TablesAreKept, PTL DEF Spec
<1>3. SessionKept /\ ScreensKept /\ ScreensTypes /\ ImportKept
        /\ ServicesKept /\ ServicesTypes => TypeOK
  <2> SUFFICES ASSUME SessionKept, ScreensKept, ScreensTypes, ImportKept,
                      ServicesKept, ServicesTypes
               PROVE  TypeOK
    OBVIOUS
  <2>1. section = "session" => Session!TypeOK
    BY SameTypes DEF SessionKept, Proved!SessionInv
  <2>2. section = "quick send" => Quick!TypeOK
    BY QuickTyped DEF ScreensKept, ScreensTypes
  <2>3. /\ section = "inbox" => Inbox!TypeOK
        /\ section = "contacts" => Lists!TypeOK
        /\ section = "panels" => Panels!TypeOK
        /\ section = "top-up" => Buying!TypeOK
        /\ section = "tables" => Tabled!TypeOK
        /\ section = "campaigns" => Editor!TypeOK
    BY DEF ScreensTypes, InboxTypes, ContactsTypes, PanelsTypes, TopUpTypes, TablesTypes
  <2>4. section = "import" => Import!TypeOK
    <3>1. Imported!ContactImportAssumption
      BY SameImport, ApplicationAssumption DEF ApplicationAssumption
    <3>2. QED
      BY <3>1, SameTypes, Imported!ImportTypes DEF ScreensTypes, ImportKept
  <2>5. QED
    BY <2>1, <2>2, <2>3, <2>4, ServicesTyped DEF TypeOK, ScreensTypes
<1>4. QED
  BY <1>2, <1>3, SessionIsKept, ScreensAreKept, ImportIsKept, ServicesAreTyped, PTL

=============================================================================
