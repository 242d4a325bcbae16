----------------------------- MODULE ContactList -----------------------------
(***************************************************************************)
(* The contacts screen: the lists that are shown, the list that is open,   *)
(* the pages of its contacts, and the contacts that are ticked for a bulk  *)
(* action.  The open list follows from what is shown: when the one that    *)
(* was chosen goes, another takes its place, in the middle of whatever the *)
(* user was doing.  The lists and contacts behind the API are external.    *)
(***************************************************************************)
EXTENDS Naturals, FiniteSets, Sequences, SequencesExt

CONSTANTS MaxList,    \* the lists are 1 .. MaxList, in the order they are shown
          MaxNumber,  \* bound: the contacts of a list
          Limits,     \* the sizes of a page
          MaxTrail,   \* bound: pages gone forward
          MaxBulks    \* bound: bulk actions of a behaviour

ContactListAssumption ==
  /\ MaxList \in Nat \ {0} /\ MaxNumber \in Nat /\ MaxTrail \in Nat /\ MaxBulks \in Nat
  /\ Limits # {} /\ Limits \subseteq Nat \ {0}

VARIABLES
  exist,     \* the lists the account has
  members,   \* who is in them
  listed,    \* the lists on show
  chosen,    \* the list the user opened last, 0 for none
  panel,     \* the open list's panel
  bulks      \* the bulk actions asked for

vars == <<exist, members, listed, chosen, panel, bulks>>

Lists    == 1 .. MaxList
Contacts == Lists \X (1 .. MaxNumber)
Bulks    == 1 .. MaxBulks
NoPage   == [is |-> "nothing", rows |-> {}, next |-> 0]
Refused  == [is |-> "refusal", rows |-> {}, next |-> 0]
NoBulk   == [list |-> 0, contacts |-> {}, answer |-> "none"]

TypeOK ==
  /\ exist \subseteq Lists /\ listed \subseteq Lists /\ members \subseteq Contacts
  /\ chosen \in 0 .. MaxList
  /\ panel.list \in 0 .. MaxList /\ panel.limit \in Limits
  /\ panel.selected \subseteq Contacts /\ panel.bulk \in 0 .. MaxBulks
  /\ panel.bulk # 0 => panel.selected # {}
  /\ Len(panel.trail.cursors) <= MaxTrail
  /\ \A b \in Bulks : bulks[b].contacts \subseteq Contacts

-----------------------------------------------------------------------------
(* Pages and the trail of cursors that leads through them                  *)

Scope(list, limit) == <<list, limit>>

\* The trail belongs to a list and a size of page: under another it is empty.
useCursorTrail(scope) == IF panel.trail.scope = scope THEN panel.trail.cursors ELSE << >>

Trail  == useCursorTrail(Scope(panel.list, panel.limit))
Cursor == IF Trail = << >> THEN 0 ELSE Trail[Len(Trail)]

\* A page of a list from a cursor on, and the cursor of the next one if any.
Page ==
  LET left == {c \in members : c[1] = panel.list /\ c[2] > Cursor}
      rows == {c \in left : Cardinality({d \in left : d[2] <= c[2]}) <= panel.limit}
  IN [is |-> "page", rows |-> rows,
      next |-> IF rows = left THEN 0 ELSE Max({c[2] : c \in rows})]

-----------------------------------------------------------------------------
(* The panel of the open list                                              *)

Mounted(list) ==
  [list |-> list, limit |-> Min(Limits), shown |-> NoPage, selected |-> {}, bulk |-> 0,
   trail |-> [cursors |-> << >>, scope |-> Scope(list, Min(Limits))]]

\* The panel keeps what it holds when another list is opened in it: a mutant of
\* ListPanel.
ListPanelKept(list) ==
  IF list = 0 \/ panel.list = 0 THEN Mounted(list) ELSE [panel EXCEPT !.list = list]

\* Every list has a panel of its own: the one of a list that is still open stays
\* as it is.
ListPanel(list) == IF panel.list = list THEN panel ELSE Mounted(list)

\* The list that is open: the chosen one while it is shown, or else the first.
Selected(shown, wanted) ==
  IF wanted \in shown THEN wanted ELSE IF shown = {} THEN 0 ELSE Min(shown)

Init ==
  /\ exist = Lists /\ members = Contacts
  /\ listed = Lists /\ chosen = 0
  /\ panel = Mounted(Min(Lists))
  /\ bulks = [b \in Bulks |-> NoBulk]

\* What may be searched for: a list by its name, or 0 for them all.
SearchForm == 0 .. MaxList

\* The answer to a search for lists: what it leaves out is no longer on show,
\* and a refusal takes every panel away until the next answer.
ContactsScreen ==
  /\ \/ \E q \in SearchForm : listed' = {l \in exist : q \in {0, l}}
     \/ listed' = {}
  /\ panel' = ListPanel(Selected(listed', chosen))
  /\ UNCHANGED <<exist, members, chosen, bulks>>

\* A card opens its list.
ListCard(list) ==
  /\ list \in listed
  /\ chosen' = list
  /\ panel' = ListPanel(Selected(listed, list))
  /\ UNCHANGED <<exist, members, listed, bulks>>

\* A card's menu deletes its list, asked and answered at once: the lists are
\* fetched again as ContactsScreen says.
ListCards(list) ==
  /\ list \in listed
  /\ exist' = exist \ {list}
  /\ members' = {c \in members : c[1] # list}
  /\ UNCHANGED <<listed, chosen, panel, bulks>>

-----------------------------------------------------------------------------
(* Paging, with the last page on show until the next has come              *)

Turn(turned) ==
  /\ panel.shown.is = "page"
  /\ panel' = turned
  /\ UNCHANGED <<exist, members, listed, chosen, bulks>>

NextPage ==
  /\ panel.shown.next # 0 /\ Len(Trail) < MaxTrail
  /\ Turn([panel EXCEPT !.trail = [cursors |-> Append(Trail, panel.shown.next),
                                   scope |-> Scope(panel.list, panel.limit)]])

PreviousPage ==
  /\ Trail # << >>
  /\ Turn([panel EXCEPT !.trail = [cursors |-> Front(Trail),
                                   scope |-> Scope(panel.list, panel.limit)]])

EntriesSelect(limit) == Turn([panel EXCEPT !.limit = limit])

\* A page that is refused leaves nothing of the table, its ticks included.
PageAnswered ==
  /\ panel.list # 0
  /\ \/ panel' = [panel EXCEPT !.shown = Page]
     \/ panel' = [panel EXCEPT !.shown = Refused, !.selected = {}, !.bulk = 0]
  /\ UNCHANGED <<exist, members, listed, chosen, bulks>>

-----------------------------------------------------------------------------
(* Ticks and bulk actions                                                  *)

toggledOne(selected, contact) ==
  IF contact \in selected THEN selected \ {contact} ELSE selected \cup {contact}

\* The page's contacts and no others; or none, when all of them were ticked.
toggledAll(rows, selected) == IF rows \subseteq selected THEN {} ELSE rows

\* The toolbar, and what it waits for, goes with the last tick.
SelectableContacts(selected) ==
  /\ panel.shown.is = "page"
  /\ panel' = [panel EXCEPT !.selected = selected, !.bulk = IF selected = {} THEN 0 ELSE @]
  /\ UNCHANGED <<exist, members, listed, chosen, bulks>>

ContactRow(contact) ==
  /\ contact \in panel.shown.rows
  /\ SelectableContacts(toggledOne(panel.selected, contact))

ContactsTable ==
  /\ panel.shown.rows # {}
  /\ SelectableContacts(toggledAll(panel.shown.rows, panel.selected))

Unasked == {b \in Bulks : bulks[b] = NoBulk}

\* The buttons, one of which deletes and one opts out, stay enabled while an
\* earlier action is under way.
BulkToolbar ==
  /\ panel.shown.is = "page" /\ panel.selected # {} /\ Unasked # {}
  /\ LET b == Min(Unasked)
     IN /\ bulks' = [bulks EXCEPT ![b] = [list |-> panel.list, contacts |-> panel.selected,
                                          answer |-> "awaited"]]
        /\ panel' = [panel EXCEPT !.bulk = b]
  /\ UNCHANGED <<exist, members, listed, chosen>>

\* A delete, like a move to the opt-out list, takes the contacts out of the list, unless it
\* is refused, or some of them, where it fails half way.
Handle(b) ==
  /\ bulks[b].answer = "awaited"
  /\ bulks' = [bulks EXCEPT ![b].answer = "given"]
  /\ \E gone \in SUBSET bulks[b].contacts : members' = members \ gone
  /\ UNCHANGED <<exist, listed, chosen, panel>>

\* The answer of the last action the toolbar asked for clears the ticks, those
\* made since included, whether it was refused or not.
onDone(b) ==
  /\ bulks[b].answer = "given"
  /\ bulks' = [bulks EXCEPT ![b] = [NoBulk EXCEPT !.answer = "heard"]]
  /\ panel' = IF panel.bulk = b THEN [panel EXCEPT !.selected = {}, !.bulk = 0] ELSE panel
  /\ UNCHANGED <<exist, members, listed, chosen>>

-----------------------------------------------------------------------------
Next ==
  \/ ContactsScreen
  \/ \E l \in Lists : ListCard(l) \/ ListCards(l)
  \/ NextPage \/ PreviousPage \/ PageAnswered
  \/ \E n \in Limits : EntriesSelect(n)
  \/ ContactsTable \/ \E c \in Contacts : ContactRow(c)
  \/ BulkToolbar
  \/ \E b \in Bulks : Handle(b) \/ onDone(b)

Spec == Init /\ [][Next]_vars

-----------------------------------------------------------------------------
(* Properties                                                              *)

\* A bulk action names contacts of the list it is asked of, however the list
\* that is open changed under the ticks: a number may be in several lists, and
\* the wrong one would lose it.
BulkActsOnItsList ==
  \A b \in Bulks : \A c \in bulks[b].contacts : c[1] = bulks[b].list
=============================================================================
