------------------------------- MODULE SignIn -------------------------------
(***************************************************************************)
(* First sign-ins: a person whose sub has no pointer yet is linked to the  *)
(* user that was invited under the same address, or opens an account, for  *)
(* which the hooks then run (trial credit, lists, rules, senders).         *)
(***************************************************************************)
EXTENDS Integers, FiniteSets

CONSTANTS
  Subs,      \* people at the identity provider, all with the one address
  Sessions,  \* requests that open a session
  Hooks,     \* hooks of a new account, run in order
  MaxFails   \* bound: requests that die or raise

\* A user is the one invited, or the owner of the account that a request opened.
Invited == "the invited"
Nobody  == "nobody"
Users   == Sessions \cup {Invited}

SignInAssumption ==
  /\ {Invited, Nobody} \cap Sessions = {}
  /\ Hooks \in Nat
  /\ MaxFails \in Nat

VARIABLES
  pointer,     \* the user that each sub's pointer names
  invited,     \* the user invited under the address
  linked,      \* the sub on that user's row
  update,      \* the row as update_user read it
  session,     \* what each request is doing
  hooked,      \* how often each hook ran for the account that a request opened
  fails

vars == <<pointer, invited, linked, update, session, hooked, fails>>

-----------------------------------------------------------------------------

NoSession == [at |-> "new", sub |-> "none", owner |-> FALSE, hook |-> 1, as |-> Nobody]

NoUpdate == [at |-> "idle", invited |-> "no", linked |-> "none"]

Init ==
  /\ pointer = [u \in Subs |-> Nobody]
  /\ invited = "no"
  /\ linked = "none"
  /\ update = NoUpdate
  /\ session = [r \in Sessions |-> NoSession]
  /\ hooked = [r \in Sessions |-> [k \in 1..Hooks |-> 0]]
  /\ fails = 0

At(r, place) == session[r].at = place
Goto(r, place) == session' = [session EXCEPT ![r].at = place]
Answer(r, user) == session' = [session EXCEPT ![r].at = "in", ![r].as = user]
Refuse(r) == Goto(r, "refused")
IsOwner(user) == user \in Sessions

\* Nobody has the address, or somebody opened an account with it.
AddressIsFree == invited = "no" /\ \A u \in Subs : ~IsOwner(pointer[u])

-----------------------------------------------------------------------------

\* create_user: an owner of some account invites the address, if nobody has it.
Invite ==
  /\ AddressIsFree
  /\ invited' = "yes"
  /\ UNCHANGED <<pointer, linked, session, hooked, update, fails>>

\* update_user: the row is read, and put back whole with the status that was asked for,
\* or with the one it had.
StartUpdate ==
  /\ invited # "no" /\ update.at = "idle"
  /\ update' = [at |-> "save", invited |-> invited, linked |-> linked]
  /\ UNCHANGED <<pointer, invited, linked, session, hooked, fails>>

Update ==
  /\ update.at = "save"
  /\ invited' \in {update.invited, "yes", "disabled"}
  /\ linked' = update.linked
  /\ update' = NoUpdate
  /\ UNCHANGED <<pointer, session, hooked, fails>>

\* open_session, signed_in: can_sign_in is asked of the row.
SignedIn(r, user) ==
  IF user = Invited /\ invited = "disabled" THEN Refuse(r) ELSE Answer(r, user)

Open(r, u) ==
  /\ At(r, "new")
  /\ session' = [session EXCEPT ![r].sub = u,
                                ![r].at = IF pointer[u] = Nobody THEN "find" ELSE "signed in"]
  /\ UNCHANGED <<pointer, invited, linked, hooked, update, fails>>

\* find_user_by_username: nobody, or one of those who have the address.
Find(r) ==
  /\ At(r, "find")
  /\ \/ AddressIsFree /\ Goto(r, "create")
     \/ \E owner \in BOOLEAN :
          /\ IF owner THEN \E u \in Subs : IsOwner(pointer[u]) ELSE invited # "no"
          /\ session' = [session EXCEPT
               ![r].at = IF ~owner /\ invited = "disabled" THEN "refused" ELSE "link",
               ![r].owner = owner]
  /\ UNCHANGED <<pointer, invited, linked, hooked, update, fails>>

\* a pointer that is there is overwritten: a mutant of IsUnknown.
IsAnyone(u) == TRUE

IsUnknown(u) == pointer[u] = Nobody

\* link_user: the pointer put if absent and the user's sub set if he has none, in one
\* transaction.  An owner found under the address has one.
Link(r, u) ==
  /\ At(r, "link") /\ session[r].sub = u
  /\ IF IsUnknown(u) /\ ~session[r].owner /\ linked = "none"
     THEN /\ pointer' = [pointer EXCEPT ![u] = Invited]
          /\ linked' = u
          /\ invited' = "yes"
          /\ Answer(r, Invited)
     ELSE Goto(r, "reread") /\ UNCHANGED <<pointer, linked, invited>>
  /\ UNCHANGED <<hooked, update, fails>>

\* create_account: account, owner and pointer, each put if absent.
Create(r, u) ==
  /\ At(r, "create") /\ session[r].sub = u
  /\ IF IsUnknown(u)
     THEN pointer' = [pointer EXCEPT ![u] = r] /\ Goto(r, "hooks")
     ELSE Goto(r, "reread") /\ UNCHANGED pointer
  /\ UNCHANGED <<invited, linked, hooked, update, fails>>

RunHook(r) ==
  /\ At(r, "hooks") /\ session[r].hook <= Hooks
  /\ hooked' = [hooked EXCEPT ![r][session[r].hook] = @ + 1]
  /\ session' = [session EXCEPT ![r].hook = @ + 1]
  /\ UNCHANGED <<pointer, invited, linked, update, fails>>

Welcome(r) ==
  /\ At(r, "hooks") /\ session[r].hook > Hooks
  /\ Answer(r, r)
  /\ UNCHANGED <<pointer, invited, linked, hooked, update, fails>>

\* Another request won.  Where it did not win this sub, the address is taken: 409.
Reread(r, u) ==
  /\ At(r, "reread") /\ session[r].sub = u
  /\ Goto(r, IF pointer[u] = Nobody THEN "refused" ELSE "signed in")
  /\ UNCHANGED <<pointer, invited, linked, hooked, update, fails>>

\* The user that the pointer names is read.
Enter(r, u) ==
  /\ At(r, "signed in") /\ session[r].sub = u
  /\ SignedIn(r, pointer[u])
  /\ UNCHANGED <<pointer, invited, linked, hooked, update, fails>>

\* The request dies, or an await raises.
Fail(r) ==
  /\ session[r].at \notin {"new", "in", "refused"} /\ fails < MaxFails
  /\ fails' = fails + 1
  /\ Refuse(r)
  /\ UNCHANGED <<pointer, invited, linked, hooked, update>>

Next ==
  \/ Invite \/ StartUpdate \/ Update
  \/ \E r \in Sessions : Find(r) \/ RunHook(r) \/ Welcome(r) \/ Fail(r)
  \/ \E r \in Sessions, u \in Subs :
        Open(r, u) \/ Link(r, u) \/ Create(r, u) \/ Reread(r, u) \/ Enter(r, u)

Spec == Init /\ [][Next]_vars

-----------------------------------------------------------------------------
(* Properties *)

TypeOK ==
  /\ pointer \in [Subs -> Users \cup {Nobody}]
  /\ invited \in {"no", "yes", "disabled"}
  /\ linked \in Subs \cup {"none"}
  /\ update \in [at: {"idle", "save"}, invited: {"no", "yes", "disabled"},
                 linked: Subs \cup {"none"}]
  /\ session \in [Sessions -> [at: {"new", "find", "link", "create", "hooks", "reread",
                                    "signed in", "in", "refused"},
                               sub: Subs \cup {"none"}, owner: BOOLEAN,
                               hook: 1..(Hooks + 1), as: Users \cup {Nobody}]]
  /\ hooked \in [Sessions -> [1..Hooks -> Nat]]
  /\ fails \in 0..MaxFails

\* Whoever signs in for the first time in two requests at once is one user in both, and
\* the owner of an account is one person; each hook ran once for an account that its
\* first sign-in was answered for (create_account, reread).
OneUser ==
  /\ \A r, q \in Sessions : At(r, "in") /\ At(q, "in") =>
        /\ session[r].sub = session[q].sub => session[r].as = session[q].as
        /\ session[r].as = session[q].as /\ IsOwner(session[r].as)
             => session[r].sub = session[q].sub
  /\ \A r \in Sessions, k \in 1..Hooks :
        /\ hooked[r][k] <= 1
        /\ hooked[r][k] = 1 => \E u \in Subs : pointer[u] = r
        /\ At(r, "in") /\ session[r].as = r => hooked[r][k] = 1
=============================================================================
