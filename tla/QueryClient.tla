----------------------------- MODULE QueryClient -----------------------------
(***************************************************************************)
(* The query client every screen shares: which queries a mutation makes    *)
(* stale (api/queries.ts), and what the query library does with a fetch    *)
(* that is under way when its query is wanted again.  A query has at most  *)
(* one fetch under way whose answer will be kept.  Operators only: the     *)
(* screens' modules hold the state.                                        *)
(***************************************************************************)
EXTENDS Naturals

\* The groups of queries that go stale together, as the operations they hold.
ACCOUNT_SETTINGS == {"get account/settings", "get account/settings/messaging"}
CAMPAIGNS == {"get campaigns", "get campaigns/{id}", "get campaigns/{id}/report"}
CARDS     == {"get billing/cards"}
CONTACTS  == {"get contacts/search", "get lists", "get lists/{id}/contacts"}
DELIVERY_RULES == {"get rules/delivery"}
EMAIL_SENDERS  == {"get email-senders"}
GENERAL   == {"get billing/general"}
INBOUND_RULES  == {"get rules/inbound"}
INBOX     == {"get conversations", "get conversations/{peer}"}
ME        == {"get home", "get me"}
SENDERS   == {"get senders"}
TEMPLATES == {"get templates"}
USERS     == {"get account/users"}
WEBSITES  == {"get websites"}

\* The replies of the inbox are left out of the table: a mutant of INVALIDATES.
InvalidatesNoInbox(operation) ==
  IF operation = "post messages/send" THEN ME ELSE {}

\* What each mutation makes stale; the mutations it does not list, nothing.
INVALIDATES(operation) ==
  CASE operation \in {"delete billing/cards/{id}", "put billing/cards/{id}/default"} -> CARDS
    [] operation \in {"delete campaigns/{id}", "post campaigns", "put campaigns/{id}",
                      "post campaigns/{id}/duplicate"} -> CAMPAIGNS
    [] operation \in {"post campaigns/{id}/cancel", "post campaigns/{id}/schedule"} ->
         CAMPAIGNS \cup ME
    [] operation \in {"delete email-senders/{id}", "post email-senders"} -> EMAIL_SENDERS
    [] operation \in {"delete lists/{id}", "patch lists/{id}", "post lists",
                      "patch lists/{id}/contacts/{id}", "post lists/{id}/clean-up",
                      "post lists/{id}/contacts", "post lists/{id}/contacts/bulk",
                      "post lists/{id}/contacts/import"} -> CONTACTS
    [] operation \in {"delete rules/delivery/{id}", "post rules/delivery",
                      "put rules/delivery/{id}"} -> DELIVERY_RULES
    [] operation \in {"delete rules/inbound/{id}", "post rules/inbound",
                      "put rules/inbound/{id}"} -> INBOUND_RULES
    [] operation \in {"delete senders/{id}", "post numbers/{number}/buy", "post senders/alpha",
                      "post senders/own", "post senders/own/{id}/verify",
                      "put senders/smart/{country}"} -> SENDERS
    [] operation \in {"delete templates/{id}", "post templates", "put templates/{id}"} ->
         TEMPLATES
    [] operation \in {"patch me/profile", "post messages/send"} -> ME
    [] operation \in {"post account/users", "post account/users/{id}/api-key"} -> USERS
    [] operation \in {"post conversations/read-all", "post conversations/{peer}/close",
                      "post conversations/{peer}/messages", "post conversations/{peer}/read",
                      "post conversations/{peer}/reopen"} -> INBOX
    [] operation = "post websites" -> WEBSITES
    [] operation \in {"put account/settings", "put account/settings/messaging"} ->
         ACCOUNT_SETTINGS
    [] operation = "put billing/general" -> GENERAL
    [] OTHER -> {}

-----------------------------------------------------------------------------
(* One query: what it holds, and its fetch                                 *)

NoData  == [is |-> "nothing", at |-> 0]
Failure == [is |-> "refusal", at |-> 0]
Data(n) == [is |-> "data", at |-> n]
NoFetch == [is |-> "no fetch", at |-> 0]
Asked   == [is |-> "asked", at |-> 0]

\* A query that is mounted, polled or focused is fetched, unless it is already.
Fetched(query) ==
  IF query.fetch = NoFetch THEN [query EXCEPT !.fetch = Asked] ELSE query

\* A stale query on show is fetched anew: a fetch under way is given up, save
\* the first one, which is joined.
Invalidated(query) ==
  IF query.fetch # NoFetch /\ query.held = NoData THEN query
                                                 ELSE [query EXCEPT !.fetch = Asked]

\* What the answer of a fetch leaves: a refusal replaces what was held.
Landed(query, answer) == [held |-> answer, fetch |-> NoFetch]
=============================================================================
