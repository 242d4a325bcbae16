-------------------------------- MODULE Inbox --------------------------------
(***************************************************************************)
(* The inbox screen: the list of conversations and the thread that is      *)
(* open, both polled and both fetched again after what the user does, and  *)
(* the composer of replies.  The fetches, the answers of the mutations and *)
(* the messages that come in interleave freely; what the user has left     *)
(* hears no answer.  The inbox behind the API is external here: it has a  *)
(* version, which every change of a conversation advances.                 *)
(***************************************************************************)
EXTENDS Naturals, FiniteSets, QueryClient

CONSTANTS Peers,       \* the numbers the account talks with
          MaxSlots,    \* bound: mutations under way at once
          MaxChanges,  \* bound: changes of the conversations
          MaxMoves     \* bound: times the user goes to a conversation

InboxAssumption ==
  MaxSlots \in Nat /\ MaxChanges \in Nat /\ MaxMoves \in Nat

VARIABLES
  selection,  \* what the thread pane shows
  reply,      \* the composer there: whether it holds text, and its send
  queries,    \* the list's query and that of each thread
  requests,   \* the mutations under way
  version,    \* how many changes the conversations have seen
  answered,   \* the version of the last change the user was told was made
  moves       \* how often the user has gone to a conversation

vars == <<selection, reply, queries, requests, version, answered, moves>>

Nobody   == "nobody"
List     == "the list"
Queries  == {List} \cup Peers
Slots    == 1 .. MaxSlots
Actions  == {"read", "read-all", "close", "reopen", "reply"}
NoRequest == [op |-> "none", peer |-> Nobody, answer |-> "none", at |-> 0]
Empty     == [text |-> FALSE, sending |-> 0]

TypeOK ==
  /\ selection \in [kind : {"none", "new", "thread"}, peer : Peers \cup {Nobody}]
  /\ reply \in [text : BOOLEAN, sending : 0 .. MaxSlots]
  /\ \A q \in Queries : queries[q].held.at \in 0 .. version
  /\ \A s \in Slots : requests[s].op \in Actions \cup {"none"}
  /\ version \in 0 .. MaxChanges /\ answered \in 0 .. version
  /\ moves \in 0 .. MaxMoves

\* The screen opens on no conversation, with its list being fetched.
Init ==
  /\ selection = [kind |-> "none", peer |-> Nobody]
  /\ reply = Empty
  /\ queries = [q \in Queries |-> [held |-> NoData, fetch |-> IF q = List THEN Asked ELSE NoFetch]]
  /\ requests = [s \in Slots |-> NoRequest]
  /\ version = 0 /\ answered = 0
  /\ moves = 0

Shown(q) == q = List \/ (selection.kind = "thread" /\ selection.peer = q)
Loaded(q) == queries[q].held.is = "data"

\* A reply can be written where the pane has a composer: in a new thread, or
\* under a thread that is loaded.
ReplyComposer ==
  \/ selection.kind = "new"
  \/ selection.kind = "thread" /\ Loaded(selection.peer)

Free == {s \in Slots : requests[s] = NoRequest}
Slot == CHOOSE s \in Free : \A t \in Free : s <= t
Sent(op, peer) ==
  [requests EXCEPT ![Slot] = [NoRequest EXCEPT !.op = op, !.peer = peer]]

Move == moves < MaxMoves /\ moves' = moves + 1

\* Another conversation in the pane is another composer: what it held is gone.
Selected(kind, peer) ==
  /\ selection' = [kind |-> kind, peer |-> peer]
  /\ reply' = IF selection' = selection THEN reply ELSE Empty

-----------------------------------------------------------------------------
(* The list pane                                                           *)

\* A row marks its conversation as read and opens it, and the thread is
\* fetched as it mounts.
ConversationRow(p) ==
  /\ Move
  /\ Loaded(List) /\ Free # {}
  /\ requests' = Sent("read", p)
  /\ Selected("thread", p)
  /\ queries' = [queries EXCEPT ![p] = IF Shown(p) THEN @ ELSE Fetched(@)]
  /\ UNCHANGED <<version, answered>>

ConversationsToolbar ==
  /\ Free # {}
  /\ requests' = Sent("read-all", Nobody)
  /\ UNCHANGED <<selection, reply, queries, version, answered, moves>>

\* A number typed into the prompt, or searched for without a hit.
NewNumberPrompt(p) ==
  /\ Move
  /\ Selected("new", p)
  /\ UNCHANGED <<queries, requests, version, answered>>

-----------------------------------------------------------------------------
(* The thread pane                                                         *)

\* The thread that is shown says which of the two the button does; closing
\* what is closed changes nothing.
ThreadView ==
  /\ selection.kind = "thread" /\ Loaded(selection.peer) /\ Free # {}
  /\ \E op \in {"close", "reopen"} : requests' = Sent(op, selection.peer)
  /\ UNCHANGED <<selection, reply, queries, version, answered, moves>>

Type ==
  /\ ReplyComposer /\ ~reply.text
  /\ reply' = [reply EXCEPT !.text = TRUE]
  /\ UNCHANGED <<selection, queries, requests, version, answered, moves>>

send ==
  /\ ReplyComposer /\ reply.text /\ reply.sending = 0
  /\ Free # {}
  /\ requests' = Sent("reply", selection.peer)
  /\ reply' = [reply EXCEPT !.sending = Slot]
  /\ UNCHANGED <<selection, queries, version, answered, moves>>

-----------------------------------------------------------------------------
(* The API and the answers                                                 *)

\* Every change of a conversation is a new version of the inbox.
Changes == version < MaxChanges /\ version' = version + 1

Inbound ==
  /\ Changes
  /\ UNCHANGED <<selection, reply, queries, requests, answered, moves>>

\* A mutation is made or refused; its answer carries the version it made, or is
\* lost.
Handle(s) ==
  /\ requests[s].op # "none" /\ requests[s].answer = "none"
  /\ \/ /\ Changes
        /\ \/ requests' = [requests EXCEPT ![s].answer = "ok", ![s].at = version + 1]
           \/ requests' = [requests EXCEPT ![s].answer = "error"]
     \/ /\ requests' = [requests EXCEPT ![s].answer = "error"]
        /\ UNCHANGED version
  /\ UNCHANGED <<selection, reply, queries, answered, moves>>

OperationOf(op) ==
  CASE op = "read-all" -> "post conversations/read-all"
    [] op = "read" -> "post conversations/{peer}/read"
    [] op = "close" -> "post conversations/{peer}/close"
    [] op = "reopen" -> "post conversations/{peer}/reopen"
    [] op = "reply" -> "post conversations/{peer}/messages"

QueryOf(q) == IF q = List THEN "get conversations" ELSE "get conversations/{peer}"

\* Whatever the answer, the queries on show that it made stale are fetched.
invalidate(op, shown) ==
  queries' = [q \in Queries |->
    IF q \in shown /\ QueryOf(q) \in INVALIDATES(OperationOf(op))
      THEN Invalidated(queries[q]) ELSE queries[q]]

\* The version the user is told of counts from the list's first load on: a
\* first load under way is joined, and may land from before the change.
Settled(s) ==
  /\ requests' = [requests EXCEPT ![s] = NoRequest]
  /\ answered' = IF /\ requests[s].answer = "ok" /\ requests[s].at > answered
                    /\ queries[List].held # NoData
                   THEN requests[s].at ELSE answered

Answered(s) ==
  /\ requests[s].op \in Actions \ {"reply"} /\ requests[s].answer # "none"
  /\ Settled(s)
  /\ invalidate(requests[s].op, {q \in Queries : Shown(q)})
  /\ UNCHANGED <<selection, reply, version, moves>>

\* The composer awaits the answer, wherever the user is by then: a mutant of Heard.
HeardAnywhere(s) == TRUE

\* A composer hears the answer of the reply it sent, while it is there.
Heard(s) == reply.sending = s

\* The composer that sent the reply is cleared, and the conversation it began is
\* opened; one that is gone hears nothing.
onSent(s) ==
  IF selection.kind = "new"
    THEN /\ selection' = [kind |-> "thread", peer |-> requests[s].peer]
         /\ reply' = Empty
    ELSE /\ reply' = Empty
         /\ UNCHANGED selection

ReplyAnswered(s) ==
  /\ requests[s].op = "reply" /\ requests[s].answer # "none"
  /\ Settled(s)
  /\ CASE Heard(s) /\ requests[s].answer = "ok" -> onSent(s)
       [] Heard(s) /\ requests[s].answer = "error" ->
            reply' = [reply EXCEPT !.sending = 0] /\ UNCHANGED selection
       [] OTHER -> UNCHANGED <<selection, reply>>
  /\ LET opened == {q \in Peers : selection' = [kind |-> "thread", peer |-> q] /\ ~Shown(q)}
     IN queries' = [q \in Queries |->
          CASE q \in opened -> Fetched(queries[q])
            [] Shown(q) /\ QueryOf(q) \in INVALIDATES(OperationOf("reply")) ->
                 Invalidated(queries[q])
            [] OTHER -> queries[q]]
  /\ UNCHANGED <<version, moves>>

\* Only the list is polled: a mutant of Poll.
PollTheList(q) ==
  /\ q = List
  /\ queries[q].fetch = NoFetch
  /\ queries' = [queries EXCEPT ![q] = Fetched(@)]
  /\ UNCHANGED <<selection, reply, requests, version, answered, moves>>

\* What is on show is fetched every POLL_MS and on focus.
Poll(q) ==
  /\ Shown(q)
  /\ queries[q].fetch = NoFetch
  /\ queries' = [queries EXCEPT ![q] = Fetched(@)]
  /\ UNCHANGED <<selection, reply, requests, version, answered, moves>>

\* The API reads the conversations, and the answer is under way.
Read(q) ==
  /\ queries[q].fetch = Asked
  /\ queries' = [queries EXCEPT ![q].fetch = Data(version)]
  /\ UNCHANGED <<selection, reply, requests, version, answered, moves>>

\* A thread whose fetch failed shows the refusal, and its composer is gone.
Land(q, answer) ==
  /\ queries' = [queries EXCEPT ![q] = Landed(@, answer)]
  /\ reply' = IF q \in Peers /\ Shown(q) /\ answer = Failure THEN Empty ELSE reply
  /\ UNCHANGED <<selection, requests, version, answered, moves>>

FetchOk(q) ==
  /\ queries[q].fetch \notin {NoFetch, Asked}
  /\ Land(q, queries[q].fetch)

FetchFails(q) ==
  /\ queries[q].fetch \notin {NoFetch, Asked}
  /\ Land(q, Failure)

-----------------------------------------------------------------------------
Next ==
  \/ \E p \in Peers : ConversationRow(p) \/ NewNumberPrompt(p)
  \/ Inbound \/ ConversationsToolbar \/ ThreadView \/ Type \/ send
  \/ \E s \in Slots : Handle(s) \/ Answered(s) \/ ReplyAnswered(s)
  \/ \E q \in Queries : Poll(q) \/ Read(q) \/ FetchOk(q) \/ FetchFails(q)

Spec == Init /\ [][Next]_vars

-----------------------------------------------------------------------------
(* Properties                                                              *)

\* Whenever the list is loaded and nothing is out for it, it shows every change
\* the user was told was made, whichever polls and failures overlapped it.
OwnChangesShown ==
  Loaded(List) /\ queries[List].fetch = NoFetch => queries[List].held.at >= answered

\* The pane moves by the user's hand, or from a new conversation to the thread
\* its own first message made: never because a reply left behind is answered.
AnswersMoveNobody ==
  [][selection' # selection /\ moves' = moves =>
       /\ selection.kind = "new"
       /\ selection' = [kind |-> "thread", peer |-> selection.peer]
       /\ reply.sending # 0]_vars

\* A message that comes in, and every other change, is shown in the thread on
\* show in the end, or the thread is left: whichever fetches fail or are given
\* up meanwhile.
InboundIsShown ==
  \A p \in Peers : \A n \in 1 .. MaxChanges :
    (Shown(p) /\ version >= n) ~> (~Shown(p) \/ queries[p].held.at >= n)
=============================================================================
