----------------------------- MODULE WebSession -----------------------------
(***************************************************************************)
(* The browser's session: the tokens of one tab (lib/auth.ts), the client  *)
(* that puts them on every call and refreshes them after a 401             *)
(* (api/client.ts), the shell that shows a screen, the landing page or     *)
(* nothing (app/shell/Shell.tsx), and the page the identity provider sends *)
(* the browser back to (screens/auth/callback).  The tokens live in the    *)
(* memory of a document and die with it; the handoff of a redirect lives   *)
(* in sessionStorage and survives it.  Calls of a document run             *)
(* concurrently and each refreshes on its own.                             *)
(***************************************************************************)
EXTENDS Naturals, FiniteSets

CONSTANTS Calls,        \* the calls the screens of a document make
          Opening,      \* the call that opens the session at sign-in
          MaxTokens,    \* bound: access tokens the provider issues
          MaxRedirects  \* bound: redirects to the provider that are begun

WebSessionAssumption ==
  /\ Opening \notin Calls
  /\ MaxTokens \in Nat /\ MaxRedirects \in Nat \ {0}

VARIABLES
  page,       \* what the tab shows
  tokens,     \* the access token in memory, or None
  renewable,  \* whether a refresh token came with the tokens
  handoff,    \* the state nonce in sessionStorage, or None
  param,      \* the state nonce the provider has been sent, or None
  redirects,  \* nonces of the redirects whose challenge is being computed
  going,      \* where location.assign is taking the tab, or None
  calls,      \* each call of the document: its phase and its bearer
  issued,     \* how many access tokens the provider has issued
  expired,    \* the access tokens the API refuses
  nonces,     \* how many redirects have been begun
  handled,    \* how often the API has acted on each call
  exchanged   \* how often the code of each redirect has been exchanged

vars == <<page, tokens, renewable, handoff, param, redirects, going, calls,
          issued, expired, nonces, handled, exchanged>>

None   == 0
Logout == MaxRedirects + 1

Pages    == {"screens", "blank", "landing", "callback", "exchanging", "opening",
             "failed", "provider", "out"}
Document == {"screens", "blank", "landing", "callback", "exchanging", "opening",
             "failed"}
AllCalls == Calls \cup {Opening}
Phases   == {"idle", "sent", "refreshing", "resent", "ok", "unreachable",
             "refused", "unrenewed"}
Access   == 1 .. MaxTokens
Nonces   == 1 .. MaxRedirects
NoCall   == [phase |-> "idle", bearer |-> None]

TypeOK ==
  /\ page \in Pages
  /\ tokens \in Access \cup {None} /\ renewable \in BOOLEAN
  /\ handoff \in Nonces \cup {None} /\ param \in Nonces \cup {None}
  /\ redirects \subseteq Nonces
  /\ going \in Nonces \cup {None, Logout}
  /\ calls \in [AllCalls -> [phase : Phases, bearer : Access \cup {None}]]
  /\ issued \in 0 .. MaxTokens /\ expired \subseteq Access
  /\ nonces \in 0 .. MaxRedirects
  /\ handled \in [AllCalls -> Nat] /\ exchanged \in [Nonces -> Nat]

\* The tab opens on a document, so no token is in memory.
Init ==
  /\ page \in {"blank", "landing"}
  /\ tokens = None /\ renewable = FALSE
  /\ param = None /\ going = None
  /\ nonces = IF page = "blank" THEN 1 ELSE 0
  /\ handoff = nonces
  /\ redirects = IF page = "blank" THEN {1} ELSE {}
  /\ calls = [c \in AllCalls |-> NoCall]
  /\ issued = 0 /\ expired = {}
  /\ handled = [c \in AllCalls |-> 0]
  /\ exchanged = [n \in Nonces |-> 0]

-----------------------------------------------------------------------------
(* lib/auth.ts                                                             *)

isSignedIn == tokens # None

\* A handoff that is still there is kept: a mutant of redirectToSignIn.
RedirectKeepsHandoff(under_way) ==
  /\ nonces < MaxRedirects
  /\ nonces' = nonces + 1
  /\ handoff' = IF handoff = None THEN nonces + 1 ELSE handoff
  /\ redirects' = under_way \cup {nonces + 1}

\* The handoff is stored at once, the challenge is awaited, and only then is
\* the browser sent away: AssignAuthorize.
redirectToSignIn(under_way) ==
  /\ nonces < MaxRedirects
  /\ nonces' = nonces + 1
  /\ handoff' = nonces + 1
  /\ redirects' = under_way \cup {nonces + 1}

\* The digest of a redirect is ready, and its authorize URL supersedes a
\* navigation that has not left the document yet.
AssignAuthorize(n) ==
  /\ page \in Document
  /\ n \in redirects
  /\ redirects' = redirects \ {n}
  /\ going' = n
  /\ UNCHANGED <<page, tokens, renewable, handoff, param, calls, issued, expired,
                 nonces, handled, exchanged>>

\* The tokens go and the browser stays: a mutant of signOut.
SignOutStays ==
  /\ page = "screens"
  /\ tokens' = None /\ renewable' = FALSE
  /\ UNCHANGED <<page, going, handoff, param, redirects, calls, issued, expired,
                 nonces, handled, exchanged>>

signOut ==
  /\ page = "screens"
  /\ tokens' = None /\ renewable' = FALSE
  /\ going' = Logout
  /\ UNCHANGED <<page, handoff, param, redirects, calls, issued, expired, nonces,
                 handled, exchanged>>

\* The provider answers a token form: a new access token is issued.
postTokenForm ==
  /\ issued < MaxTokens
  /\ issued' = issued + 1
  /\ tokens' = issued + 1

\* The call answers with its 401 and the tab stays: a mutant of refreshFails.
RefreshFailsQuietly(c) ==
  /\ tokens' = None /\ renewable' = FALSE
  /\ calls' = [calls EXCEPT ![c].phase = "unrenewed"]
  /\ UNCHANGED <<issued, redirects, handoff, nonces>>

\* The refresh of one call: without a refresh token, or when the provider
\* refuses or cannot be reached, the tokens go and the browser with them, and
\* the call answers with the 401 it had.
refreshFails(c) ==
  /\ tokens' = None /\ renewable' = FALSE
  /\ redirectToSignIn(redirects)
  /\ calls' = [calls EXCEPT ![c].phase = "unrenewed"]
  /\ UNCHANGED issued

refreshAccessToken(c) ==
  /\ page \in Document
  /\ calls[c].phase = "refreshing"
  /\ \/ /\ postTokenForm
        /\ renewable' = TRUE
        /\ calls' = [calls EXCEPT ![c] = [phase |-> "resent", bearer |-> issued + 1]]
        /\ UNCHANGED <<handoff, redirects, nonces>>
     \/ refreshFails(c)
  /\ UNCHANGED <<page, param, going, expired, handled, exchanged>>

\* The handoff is read and not removed: a mutant of takeHandoff.
ReadHandoff == handoff' = handoff

takeHandoff == handoff' = None

\* The handoff is taken whatever comes of it; the code is exchanged only for
\* the redirect the handoff belongs to.
completeSignIn ==
  /\ page = "callback"
  /\ takeHandoff
  /\ IF handoff # None /\ handoff = param
       THEN /\ page' = "exchanging"
            /\ exchanged' = [exchanged EXCEPT ![param] = @ + 1]
       ELSE /\ page' = "failed"
            /\ UNCHANGED exchanged
  /\ UNCHANGED <<tokens, renewable, param, redirects, going, calls, issued, expired,
                 nonces, handled>>

\* The exchange of the code, and the session opened with the tokens it gave.
\* The provider may leave the refresh token out.
ExchangeCode ==
  /\ page = "exchanging"
  /\ \/ /\ postTokenForm
        /\ renewable' \in BOOLEAN
        /\ page' = "opening"
        /\ calls' = [calls EXCEPT ![Opening] = [phase |-> "sent", bearer |-> issued + 1]]
     \/ /\ page' = "failed"
        /\ UNCHANGED <<tokens, renewable, issued, calls>>
  /\ UNCHANGED <<handoff, param, redirects, going, expired, nonces, handled, exchanged>>

\* The callback page follows what became of the session.
CallbackScreen ==
  /\ page = "opening"
  /\ \/ /\ calls[Opening].phase = "ok"
        /\ page' = "screens"
        /\ UNCHANGED <<tokens, renewable>>
     \/ /\ calls[Opening].phase \in {"unreachable", "refused", "unrenewed"}
        /\ page' = "failed"
        /\ tokens' = None /\ renewable' = FALSE
  /\ UNCHANGED <<handoff, param, redirects, going, calls, issued, expired, nonces,
                 handled, exchanged>>

TryAgain ==
  /\ page \in {"failed", "landing"}
  /\ redirectToSignIn(redirects)
  /\ UNCHANGED <<page, tokens, renewable, param, going, calls, issued, expired,
                 handled, exchanged>>

-----------------------------------------------------------------------------
(* api/client.ts                                                           *)

\* A screen of the document makes a call with the bearer of the moment.  A
\* screen stays on show after its tokens are gone, so the bearer may be None.
callApi(c) ==
  /\ page = "screens"
  /\ calls[c].phase \in {"idle", "ok", "unreachable", "refused", "unrenewed"}
  /\ calls' = [calls EXCEPT ![c] = [phase |-> "sent", bearer |-> tokens]]
  /\ handled' = [handled EXCEPT ![c] = 0]
  /\ UNCHANGED <<page, tokens, renewable, handoff, param, redirects, going, issued,
                 expired, nonces, exchanged>>

Accepted(c) == calls[c].bearer # None /\ calls[c].bearer \notin expired

\* What the API's answer makes of a call: a 401 starts a refresh the first time
\* and is the answer the second time.
sendAuthorized(c) ==
  \/ /\ Accepted(c)
     /\ handled' = [handled EXCEPT ![c] = @ + 1]
     /\ calls' = [calls EXCEPT ![c].phase = "ok"]
     /\ UNCHANGED <<tokens, renewable, handoff, redirects, nonces, issued>>
  \/ /\ ~Accepted(c) /\ calls[c].phase = "resent"
     /\ calls' = [calls EXCEPT ![c].phase = "refused"]
     /\ UNCHANGED <<tokens, renewable, handoff, redirects, nonces, issued, handled>>
  \/ /\ ~Accepted(c) /\ calls[c].phase = "sent" /\ renewable
     /\ calls' = [calls EXCEPT ![c].phase = "refreshing"]
     /\ UNCHANGED <<tokens, renewable, handoff, redirects, nonces, issued, handled>>
  \/ /\ ~Accepted(c) /\ calls[c].phase = "sent" /\ ~renewable
     /\ refreshFails(c)
     /\ UNCHANGED handled

\* A dropped call is sent again: a mutant of reach.
ReachAgain(c) ==
  /\ calls' = [calls EXCEPT ![c].phase = IF @ = "sent" THEN "resent" ELSE "unreachable"]
  /\ handled' \in {handled} \cup
       (IF Accepted(c) THEN {[handled EXCEPT ![c] = @ + 1]} ELSE {})
  /\ UNCHANGED <<tokens, renewable, handoff, redirects, nonces, issued>>

\* A call that the network drops, before or after the API acted on it, is
\* answered as unreachable and is not sent again.
reach(c) ==
  /\ calls' = [calls EXCEPT ![c].phase = "unreachable"]
  /\ handled' \in {handled} \cup
       (IF Accepted(c) THEN {[handled EXCEPT ![c] = @ + 1]} ELSE {})
  /\ UNCHANGED <<tokens, renewable, handoff, redirects, nonces, issued>>

Answer(c) ==
  /\ page \in Document
  /\ calls[c].phase \in {"sent", "resent"}
  /\ sendAuthorized(c) \/ reach(c)
  /\ UNCHANGED <<page, param, going, expired, exchanged>>

-----------------------------------------------------------------------------
(* The documents of the tab, and the provider                              *)

\* What the shell shows a visitor without tokens, and the redirect it begins.
ShellSignedOut(under_way) ==
  \/ /\ page' = "landing"
     /\ redirects' = under_way
     /\ UNCHANGED <<nonces, handoff>>
  \/ /\ page' = "blank"
     /\ redirectToSignIn(under_way)

\* A move inside the document renders the shell again, which looks at the
\* tokens then.  A reload drops the document, its tokens and its calls.
Shell ==
  /\ page = "screens"
  /\ ~isSignedIn
  /\ ShellSignedOut(redirects)
  /\ UNCHANGED <<tokens, renewable, param, going, calls, issued, expired, handled, exchanged>>

Forget ==
  /\ tokens' = None /\ renewable' = FALSE
  /\ calls' = [c \in AllCalls |-> NoCall]
  /\ handled' = [c \in AllCalls |-> 0]
  /\ going' = None

Reload ==
  /\ page = "screens"
  /\ Forget
  /\ ShellSignedOut({})
  /\ UNCHANGED <<param, issued, expired, exchanged>>

\* The callback's URL keeps its code and state when the page is reloaded.
ReloadCallback ==
  /\ page \in {"callback", "exchanging", "opening", "failed"}
  /\ Forget
  /\ page' = "callback"
  /\ redirects' = {}
  /\ UNCHANGED <<handoff, param, issued, expired, nonces, exchanged>>

\* The browser leaves for the URL last assigned, and the document is gone.
Unload ==
  /\ page \in Document /\ going # None
  /\ page' = IF going = Logout THEN "out" ELSE "provider"
  /\ param' = IF going = Logout THEN None ELSE going
  /\ Forget
  /\ redirects' = {}
  /\ UNCHANGED <<handoff, issued, expired, nonces, exchanged>>

\* The user signs in at the provider, which echoes the state it was sent.
ProviderReturns ==
  /\ page = "provider"
  /\ page' = "callback"
  /\ UNCHANGED <<tokens, renewable, handoff, param, redirects, going, calls, issued,
                 expired, nonces, handled, exchanged>>

ReturnHome ==
  /\ page = "out"
  /\ page' = "landing"
  /\ UNCHANGED <<tokens, renewable, handoff, param, redirects, going, calls, issued,
                 expired, nonces, handled, exchanged>>

Expire(t) ==
  /\ t \in 1 .. issued
  /\ expired' = expired \cup {t}
  /\ UNCHANGED <<page, tokens, renewable, handoff, param, redirects, going, calls,
                 issued, nonces, handled, exchanged>>

-----------------------------------------------------------------------------
Next ==
  \/ \E n \in Nonces : AssignAuthorize(n)
  \/ signOut \/ completeSignIn \/ ExchangeCode \/ CallbackScreen \/ TryAgain
  \/ \E c \in Calls : callApi(c)
  \/ \E c \in AllCalls : Answer(c) \/ refreshAccessToken(c)
  \/ Shell \/ Reload \/ ReloadCallback \/ Unload \/ ProviderReturns \/ ReturnHome
  \/ \E t \in Access : Expire(t)

Spec == Init /\ [][Next]_vars

-----------------------------------------------------------------------------
(* Properties                                                              *)

\* The API acts at most once on a call: it is sent again only after a 401,
\* which the API gives without acting, and never after an answer was lost
\* (sendAuthorized and reach of client.ts).
ActedOnOnce == \A c \in AllCalls : handled[c] <= 1

\* A call that ends with its first 401 because no fresh token came has the
\* browser on its way to sign-in: the user is never left on a screen of
\* refusals, whatever another call's refresh made of the tokens meanwhile
\* (refreshAccessToken redirects before it answers undefined).
UnrenewedIsRedirected ==
  (\E c \in Calls : calls[c].phase = "unrenewed") => redirects # {} \/ going # None

\* The code of a redirect is exchanged once, reload the callback as one may:
\* the handoff is removed before the exchange begins (takeHandoff).
CodeExchangedOnce == \A n \in Nonces : exchanged[n] <= 1

\* A browser that comes back from the last redirect begun finds its handoff:
\* a sign-in that nothing overtook is not refused for its state.
LastRedirectReturns ==
  [][page = "provider" /\ page' = "callback" /\ param = nonces => handoff = param]_vars

\* Screens whose tokens are gone do not stay: the tab leaves them or the
\* tokens come back, while redirects can still be begun.
SignedOutLeaves ==
  (page = "screens" /\ ~isSignedIn) ~> (page # "screens" \/ isSignedIn)
=============================================================================
