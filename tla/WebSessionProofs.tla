-------------------------- MODULE WebSessionProofs ---------------------------
(***************************************************************************)
(* Theorems about WebSession, for any number of calls, tokens and          *)
(* redirects.  One invariant carries them: a call that waits for an answer *)
(* was not acted on, a document that was just loaded owes nothing to       *)
(* the one before it, and the handoff is that of the last redirect for as  *)
(* long as its code has not been exchanged.                                *)
(***************************************************************************)
EXTENDS WebSession, TLAPS

\* A call that still waits for its answer has not been acted on.
WaitingIsUnacted ==
  \A c \in AllCalls :
    /\ handled[c] <= 1
    /\ calls[c].phase \in {"idle", "sent", "refreshing", "resent"} => handled[c] = 0

\* Where the tab is away, or back and about to look at its handoff, there is
\* nothing left of the document it came from.
NothingIsOut ==
  page \in {"provider", "out", "callback", "exchanging"} =>
    /\ \A c \in AllCalls : calls[c] = NoCall
    /\ redirects = {} /\ going = None

\* A nonce was handed out before it is used, and the code of a redirect that has
\* its handoff still, or is yet to be begun, was not exchanged.
HandoffIsUnspent ==
  /\ handoff <= nonces /\ param <= nonces
  /\ \A n \in redirects : n <= nonces
  /\ going # Logout => going <= nonces
  /\ \A n \in Nonces : n > nonces \/ handoff = n => exchanged[n] = 0
  /\ \A n \in Nonces : exchanged[n] <= 1

\* The last redirect has its handoff from its beginning to the provider.
LastHasHandoff ==
  /\ nonces \in redirects \/ (going = nonces /\ going # None) => handoff = nonces
  /\ page = "provider" => param # None /\ (param = nonces => handoff = nonces)

SessionInv ==
  /\ TypeOK
  /\ WaitingIsUnacted
  /\ NothingIsOut
  /\ HandoffIsUnspent
  /\ LastHasHandoff
  /\ UnrenewedIsRedirected

-----------------------------------------------------------------------------
(* The parts of a step                                                     *)

\* What a redirect that is begun leaves of the types, and of the handoff.
LEMMA RedirectBegins ==
  ASSUME WebSessionAssumption, TypeOK, HandoffIsUnspent, UNCHANGED exchanged,
         NEW under_way, under_way \in {redirects, {}}, redirectToSignIn(under_way)
  PROVE  /\ nonces' \in Nonces /\ handoff' = nonces' /\ nonces' = nonces + 1
         /\ redirects' \subseteq Nonces /\ redirects' # {}
         /\ \A n \in redirects' : n <= nonces'
         /\ \A n \in Nonces : n > nonces' \/ handoff' = n => exchanged'[n] = 0
  BY DEF WebSessionAssumption, TypeOK, HandoffIsUnspent, redirectToSignIn, Nonces

LEMMA InitHolds == ASSUME WebSessionAssumption PROVE Init => SessionInv
<1> SUFFICES ASSUME Init PROVE SessionInv
  OBVIOUS
<1> USE WebSessionAssumption
        DEF Init, WebSessionAssumption, None, Logout, Nonces, Access, NoCall, AllCalls
<1>1. TypeOK
  <2>1. nonces \in 0 .. 1 /\ nonces \in 0 .. MaxRedirects /\ redirects \subseteq Nonces
    OBVIOUS
  <2>2. calls \in [AllCalls -> [phase : Phases, bearer : Access \cup {None}]]
    BY DEF Phases
  <2>3. handoff \in Nonces \cup {None}
    BY <2>1
  <2>4. handled \in [AllCalls -> Nat] /\ exchanged \in [Nonces -> Nat]
    OBVIOUS
  <2>5. page \in Pages /\ issued \in 0 .. MaxTokens /\ expired \subseteq Access
    BY DEF Pages
  <2>6. tokens \in Access \cup {None} /\ param \in Nonces \cup {None}
        /\ going \in Nonces \cup {None, Logout} /\ renewable \in BOOLEAN
    OBVIOUS
  <2>7. QED
    BY <2>1, <2>2, <2>3, <2>4, <2>5, <2>6 DEF TypeOK
<1>2. WaitingIsUnacted /\ NothingIsOut
  BY DEF WaitingIsUnacted, NothingIsOut
<1>3. HandoffIsUnspent /\ LastHasHandoff
  BY DEF HandoffIsUnspent, LastHasHandoff
<1>4. UnrenewedIsRedirected
  BY DEF UnrenewedIsRedirected
<1>5. QED
  BY <1>1, <1>2, <1>3, <1>4 DEF SessionInv

-----------------------------------------------------------------------------
(* Types                                                                   *)

\* A call that moves on, and one that is sent again, are calls.
LEMMA CallMoves ==
  ASSUME TypeOK, NEW c \in AllCalls, NEW p \in Phases, NEW b \in Access \cup {None}
  PROVE  /\ [calls EXCEPT ![c].phase = p] \in [AllCalls -> [phase : Phases, bearer : Access \cup {None}]]
         /\ [calls EXCEPT ![c] = [phase |-> p, bearer |-> b]]
              \in [AllCalls -> [phase : Phases, bearer : Access \cup {None}]]
  BY DEF TypeOK

LEMMA FailureKeepsTypes ==
  ASSUME WebSessionAssumption, SessionInv, NEW c \in AllCalls, refreshFails(c),
         UNCHANGED <<page, param, going, expired, handled, exchanged>>
  PROVE  TypeOK'
<1>1. calls' \in [AllCalls -> [phase : Phases, bearer : Access \cup {None}]]
  BY CallMoves DEF refreshFails, Phases, SessionInv
<1>2. redirectToSignIn(redirects) /\ TypeOK /\ HandoffIsUnspent
  BY DEF refreshFails, SessionInv
<1>3. nonces' \in Nonces /\ handoff' = nonces' /\ redirects' \subseteq Nonces
  BY <1>2, RedirectBegins
<1>4. nonces' \in 0 .. MaxRedirects
  BY <1>3 DEF Nonces, WebSessionAssumption
<1>5. QED
  BY <1>1, <1>2, <1>3, <1>4 DEF refreshFails, TypeOK

LEMMA TypeHolds == ASSUME WebSessionAssumption PROVE SessionInv /\ [Next]_vars => TypeOK'
<1> SUFFICES ASSUME SessionInv, [Next]_vars PROVE TypeOK'
  OBVIOUS
<1>a. TypeOK /\ HandoffIsUnspent
  BY DEF SessionInv
<1>b. ASSUME NEW under_way \in {redirects, {}}, redirectToSignIn(under_way), UNCHANGED exchanged
      PROVE  /\ nonces' \in 0 .. MaxRedirects /\ handoff' \in Nonces \cup {None}
             /\ redirects' \subseteq Nonces
  BY <1>a, <1>b, RedirectBegins DEF Nonces, WebSessionAssumption
<1> USE <1>a, WebSessionAssumption DEF TypeOK
<1> DEFINE Call == [phase : Phases, bearer : Access \cup {None}]
<1>1. ASSUME NEW n \in Nonces, AssignAuthorize(n) PROVE TypeOK'
  BY <1>1 DEF AssignAuthorize
<1>2. CASE signOut
  BY <1>2 DEF signOut
<1>3. CASE completeSignIn
  <2>1. param # None => exchanged' \in [Nonces -> Nat]
    BY <1>3 DEF completeSignIn
  <2>2. QED
    BY <1>3, <2>1 DEF completeSignIn, takeHandoff, Pages
<1>4. CASE ExchangeCode
  <2>1. postTokenForm => issued' \in 0 .. MaxTokens /\ tokens' \in Access
    BY DEF postTokenForm, Access, WebSessionAssumption
  <2>2. calls' \in [AllCalls -> Call]
    <3>1. postTokenForm => issued + 1 \in Access
      BY DEF postTokenForm, Access, WebSessionAssumption
    <3>2. Opening \in AllCalls /\ "sent" \in Phases
      BY DEF AllCalls, Phases
    <3>3. QED
      BY <1>4, <3>1, <3>2, CallMoves DEF ExchangeCode
  <2>3. QED
    BY <1>4, <2>1, <2>2 DEF ExchangeCode, Pages
<1>5. CASE CallbackScreen
  BY <1>5 DEF CallbackScreen, Pages
<1>6. CASE TryAgain
  BY <1>6, <1>b DEF TryAgain
<1>7. ASSUME NEW c \in Calls, callApi(c) PROVE TypeOK'
  BY <1>7 DEF callApi, Phases, AllCalls
<1>8. ASSUME NEW c \in AllCalls, Answer(c) PROVE TypeOK'
  <2>1. CASE refreshFails(c) /\ UNCHANGED handled
    BY <1>8, <2>1, FailureKeepsTypes DEF Answer
  <2>2. CASE UNCHANGED <<tokens, renewable, handoff, redirects, nonces, issued>>
    <3>1. calls' \in [AllCalls -> Call]
      <4>1. \E p \in Phases : calls' = [calls EXCEPT ![c].phase = p]
        BY <1>8, <2>2 DEF Answer, sendAuthorized, reach, refreshFails, Phases
      <4>2. QED
        BY <4>1, CallMoves
    <3>2. handled' \in [AllCalls -> Nat]
      <4>1. handled' = handled \/ handled' = [handled EXCEPT ![c] = @ + 1]
        BY <1>8 DEF Answer, sendAuthorized, reach
      <4>2. QED
        BY <4>1
    <3>3. QED
      BY <1>8, <2>2, <3>1, <3>2 DEF Answer
  <2>3. QED
    BY <1>8, <2>1, <2>2 DEF Answer, sendAuthorized, reach
<1>9. ASSUME NEW c \in AllCalls, refreshAccessToken(c) PROVE TypeOK'
  <2>1. CASE refreshFails(c)
    BY <1>9, <2>1, FailureKeepsTypes DEF refreshAccessToken
  <2>2. CASE ~refreshFails(c)
    <3>1. issued' \in 0 .. MaxTokens /\ tokens' \in Access /\ issued + 1 \in Access
      BY <1>9, <2>2 DEF refreshAccessToken, postTokenForm, Access, WebSessionAssumption
    <3>2. calls' \in [AllCalls -> Call]
      <4>1. calls' = [calls EXCEPT ![c] = [phase |-> "resent", bearer |-> issued + 1]]
        BY <1>9, <2>2 DEF refreshAccessToken
      <4>2. "resent" \in Phases
        BY DEF Phases
      <4>3. QED
        BY <3>1, <4>1, <4>2, CallMoves
    <3>3. QED
      BY <1>9, <2>2, <3>1, <3>2 DEF refreshAccessToken
  <2>3. QED
    BY <2>1, <2>2
<1>10. CASE Shell
  BY <1>10, <1>b DEF Shell, ShellSignedOut, Pages
<1>11. Forget => calls' \in [AllCalls -> Call] /\ handled' \in [AllCalls -> Nat]
  BY DEF Forget, NoCall, Phases
<1>12. CASE Reload
  <2>1. nonces' \in 0 .. MaxRedirects /\ handoff' \in Nonces \cup {None}
        /\ redirects' \subseteq Nonces
    BY <1>12, <1>b DEF Reload, ShellSignedOut
  <2>2. QED
    BY <1>11, <1>12, <2>1 DEF Reload, Forget, ShellSignedOut, Pages
<1>13. CASE ReloadCallback
  BY <1>11, <1>13 DEF ReloadCallback, Forget, Pages
<1>14. CASE Unload
  BY <1>11, <1>14 DEF Unload, Forget, Pages
<1>15. CASE ProviderReturns \/ ReturnHome
  BY <1>15 DEF ProviderReturns, ReturnHome, Pages
<1>16. ASSUME NEW t \in Access, Expire(t) PROVE TypeOK'
  BY <1>16 DEF Expire
<1>17. CASE UNCHANGED vars
  BY <1>17 DEF vars
<1>18. QED
  BY <1>1, <1>2, <1>3, <1>4, <1>5, <1>6, <1>7, <1>8, <1>9, <1>10, <1>12, <1>13, <1>14,
     <1>15, <1>16, <1>17 DEF Next

-----------------------------------------------------------------------------
(* Calls: what waits was not acted on, and nothing outlives its document   *)

LEMMA CallsHold ==
  ASSUME WebSessionAssumption
  PROVE  SessionInv /\ [Next]_vars => WaitingIsUnacted' /\ NothingIsOut'
<1> SUFFICES ASSUME SessionInv, [Next]_vars PROVE WaitingIsUnacted' /\ NothingIsOut'
  OBVIOUS
<1>a. TypeOK /\ WaitingIsUnacted /\ NothingIsOut
  BY DEF SessionInv
<1> USE <1>a DEF TypeOK, WaitingIsUnacted, NothingIsOut
<1>1. ASSUME NEW n \in Nonces, AssignAuthorize(n) PROVE WaitingIsUnacted' /\ NothingIsOut'
  BY <1>1 DEF AssignAuthorize, Document
<1>2. CASE signOut \/ completeSignIn
  BY <1>2 DEF signOut, completeSignIn
<1>3. CASE ExchangeCode
  <2>1. Opening \in AllCalls /\ calls[Opening] = NoCall
    BY <1>3 DEF ExchangeCode, AllCalls
  <2>2. QED
    BY <1>3, <2>1 DEF ExchangeCode, NoCall
<1>4. CASE CallbackScreen \/ TryAgain
  BY <1>4 DEF CallbackScreen, TryAgain
<1>5. ASSUME NEW c \in Calls, callApi(c) PROVE WaitingIsUnacted' /\ NothingIsOut'
  BY <1>5 DEF callApi, AllCalls
<1>6. ASSUME NEW c \in AllCalls, Answer(c) \/ refreshAccessToken(c)
      PROVE  WaitingIsUnacted' /\ NothingIsOut'
  <2>1. page \in Document /\ UNCHANGED <<page, going>> /\ calls[c] # NoCall
    BY <1>6 DEF Answer, refreshAccessToken, NoCall
  <2>2. NothingIsOut'
    BY <2>1 DEF Document
  <2>3. WaitingIsUnacted'
    <3>1. CASE Answer(c)
      BY <3>1 DEF Answer, sendAuthorized, reach, refreshFails
    <3>2. CASE refreshAccessToken(c)
      BY <3>2 DEF refreshAccessToken, refreshFails
    <3>3. QED
      BY <1>6, <3>1, <3>2
  <2>4. QED
    BY <2>2, <2>3
<1>7. CASE Shell
  BY <1>7 DEF Shell, ShellSignedOut
<1>8. CASE Reload \/ ReloadCallback \/ Unload
  BY <1>8 DEF Reload, ShellSignedOut, ReloadCallback, Unload, Forget, NoCall
<1>9. CASE ProviderReturns \/ ReturnHome
  BY <1>9 DEF ProviderReturns, ReturnHome
<1>10. ASSUME NEW t \in Access, Expire(t) PROVE WaitingIsUnacted' /\ NothingIsOut'
  BY <1>10 DEF Expire
<1>11. CASE UNCHANGED vars
  BY <1>11 DEF vars
<1>12. QED
  BY <1>1, <1>2, <1>3, <1>4, <1>5, <1>6, <1>7, <1>8, <1>9, <1>10, <1>11 DEF Next

-----------------------------------------------------------------------------
(* The handoff, and the way to sign-in                                     *)

LEMMA HandoffHolds ==
  ASSUME WebSessionAssumption
  PROVE  SessionInv /\ [Next]_vars => HandoffIsUnspent' /\ LastHasHandoff'
<1> SUFFICES ASSUME SessionInv, [Next]_vars PROVE HandoffIsUnspent' /\ LastHasHandoff'
  OBVIOUS
<1> DEFINE Kept == HandoffIsUnspent' /\ LastHasHandoff'
<1>a. TypeOK /\ NothingIsOut /\ HandoffIsUnspent /\ LastHasHandoff
  BY DEF SessionInv
<1> USE <1>a, WebSessionAssumption
        DEF TypeOK, HandoffIsUnspent, LastHasHandoff, Nonces, None, Logout,
            WebSessionAssumption
<1>b. ASSUME NEW under_way \in {redirects, {}}, redirectToSignIn(under_way),
             UNCHANGED <<param, exchanged>>, going' \in {going, None}, page' # "provider"
      PROVE  Kept
  BY <1>b DEF redirectToSignIn
<1>1. ASSUME NEW n \in Nonces, AssignAuthorize(n) PROVE Kept
  BY <1>1 DEF AssignAuthorize, Document
<1>2. CASE signOut
  BY <1>2 DEF signOut
<1>3. CASE completeSignIn
  <2>1. redirects = {} /\ going = None
    BY <1>3 DEF completeSignIn, NothingIsOut
  <2>2. QED
    BY <1>3, <2>1 DEF completeSignIn, takeHandoff
<1>4. CASE ExchangeCode \/ CallbackScreen
  BY <1>4 DEF ExchangeCode, CallbackScreen
<1>5. CASE TryAgain
  BY <1>5, <1>b DEF TryAgain
<1>6. ASSUME NEW c \in AllCalls, callApi(c) PROVE Kept
  BY <1>6 DEF callApi
<1>7. ASSUME NEW c \in AllCalls, Answer(c) \/ refreshAccessToken(c) PROVE Kept
  <2>1. page' = page /\ page # "provider" /\ UNCHANGED <<param, exchanged, going>>
    BY <1>7 DEF Answer, refreshAccessToken, Document
  <2>2. redirectToSignIn(redirects) \/ UNCHANGED <<handoff, redirects, nonces>>
    BY <1>7 DEF Answer, refreshAccessToken, sendAuthorized, reach, refreshFails
  <2>3. QED
    BY <1>b, <2>1, <2>2
<1>8. CASE Shell
  BY <1>8, <1>b DEF Shell, ShellSignedOut
<1>9. CASE Reload
  BY <1>9, <1>b DEF Reload, Forget, ShellSignedOut
<1>10. CASE ReloadCallback
  BY <1>10 DEF ReloadCallback, Forget
<1>11. CASE Unload
  BY <1>11 DEF Unload, Forget
<1>12. CASE ProviderReturns \/ ReturnHome
  BY <1>12 DEF ProviderReturns, ReturnHome
<1>13. ASSUME NEW t \in Access, Expire(t) PROVE Kept
  BY <1>13 DEF Expire
<1>14. CASE UNCHANGED vars
  BY <1>14 DEF vars
<1>15. QED
  BY <1>1, <1>2, <1>3, <1>4, <1>5, <1>6, <1>7, <1>8, <1>9, <1>10, <1>11, <1>12, <1>13,
     <1>14 DEF Next, AllCalls

LEMMA UnrenewedHolds ==
  ASSUME WebSessionAssumption
  PROVE  SessionInv /\ [Next]_vars => UnrenewedIsRedirected'
<1> SUFFICES ASSUME SessionInv, [Next]_vars PROVE UnrenewedIsRedirected'
  OBVIOUS
<1>a. TypeOK /\ UnrenewedIsRedirected
  BY DEF SessionInv
<1> USE <1>a, WebSessionAssumption
        DEF TypeOK, UnrenewedIsRedirected, None, Logout, Nonces, WebSessionAssumption
<1>1. ASSUME NEW n \in Nonces, AssignAuthorize(n) PROVE UnrenewedIsRedirected'
  BY <1>1 DEF AssignAuthorize
<1>2. CASE signOut \/ completeSignIn \/ CallbackScreen
  BY <1>2 DEF signOut, completeSignIn, CallbackScreen
<1>3. CASE ExchangeCode
  BY <1>3 DEF ExchangeCode, AllCalls
<1>4. CASE TryAgain
  BY <1>4 DEF TryAgain, redirectToSignIn
<1>5. ASSUME NEW c \in Calls, callApi(c) PROVE UnrenewedIsRedirected'
  BY <1>5 DEF callApi, AllCalls
<1>6. ASSUME NEW c \in AllCalls, Answer(c) \/ refreshAccessToken(c)
      PROVE  UnrenewedIsRedirected'
  <2>1. CASE refreshFails(c)
    BY <2>1 DEF refreshFails, redirectToSignIn
  <2>2. CASE ~refreshFails(c)
    <3>1. UNCHANGED <<redirects, going>>
      BY <1>6, <2>2 DEF Answer, refreshAccessToken, sendAuthorized, reach
    <3>2. \A d \in Calls : calls'[d].phase = "unrenewed" => calls[d].phase = "unrenewed"
      BY <1>6, <2>2, SMTT(30) DEF Answer, refreshAccessToken, sendAuthorized, reach, AllCalls
    <3>3. QED
      BY <3>1, <3>2
  <2>3. QED
    BY <2>1, <2>2
<1>7. CASE Shell
  BY <1>7 DEF Shell, ShellSignedOut, redirectToSignIn
<1>8. CASE Reload \/ ReloadCallback \/ Unload
  BY <1>8 DEF Reload, ReloadCallback, Unload, Forget, NoCall, AllCalls
<1>9. CASE ProviderReturns \/ ReturnHome
  BY <1>9 DEF ProviderReturns, ReturnHome
<1>10. ASSUME NEW t \in Access, Expire(t) PROVE UnrenewedIsRedirected'
  BY <1>10 DEF Expire
<1>11. CASE UNCHANGED vars
  BY <1>11 DEF vars
<1>12. QED
  BY <1>1, <1>2, <1>3, <1>4, <1>5, <1>6, <1>7, <1>8, <1>9, <1>10, <1>11 DEF Next

-----------------------------------------------------------------------------
(* The theorems                                                            *)

LEMMA StepHolds ==
  ASSUME WebSessionAssumption PROVE SessionInv /\ [Next]_vars => SessionInv'
  BY TypeHolds, CallsHold, HandoffHolds, UnrenewedHolds DEF SessionInv

LEMMA InvHolds == ASSUME WebSessionAssumption PROVE Spec => []SessionInv
<1>1. Init => SessionInv
  BY InitHolds
<1>2. SessionInv /\ [Next]_vars => SessionInv'
  BY StepHolds
<1>3. QED
  BY <1>1, <1>2, PTL DEF Spec

\* The state of a tab is well typed: in particular no nonce and no token is used
\* that was not handed out (lib/auth.ts).
THEOREM TypeCorrect == ASSUME WebSessionAssumption PROVE Spec => []TypeOK
<1>1. SessionInv => TypeOK
  BY DEF SessionInv
<1>2. QED
  BY <1>1, InvHolds, PTL
=============================================================================
