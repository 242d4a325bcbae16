------------------------------ MODULE SendOnce -------------------------------
(***************************************************************************)
(* What the send path promises the campaign it sends for.  Each recipient  *)
(* of a campaign meets one fate: the provider takes the message, or it is  *)
(* refused before the provider has seen it; never both.  The campaign is   *)
(* told of that fate at most once, and told the truth.  It may never be    *)
(* told: a worker that dies between the provider and the campaign row      *)
(* leaves the recipient uncounted.                                         *)
(***************************************************************************)
EXTENDS Naturals

CONSTANT Recipients

VARIABLES
    fate,       \* what became of the recipient's message
    told        \* what the campaign's counters were given for the recipient

vars == <<fate, told>>

Fates == {"open", "accepted", "refused"}
Untold == [sent |-> 0, refused |-> 0]

Init ==
    /\ fate = [r \in Recipients |-> "open"]
    /\ told = [r \in Recipients |-> Untold]

Meet(r, f) ==
    /\ fate[r] = "open"
    /\ fate' = [fate EXCEPT ![r] = f]
    /\ UNCHANGED told

Accept(r) == Meet(r, "accepted")
Refuse(r) == Meet(r, "refused")

Tell(r) ==
    /\ fate[r] # "open"
    /\ told[r] = Untold
    /\ told' = [told EXCEPT ![r] =
                    IF fate[r] = "accepted" THEN [Untold EXCEPT !.sent = 1]
                    ELSE [Untold EXCEPT !.refused = 1]]
    /\ UNCHANGED fate

Next == \E r \in Recipients : Accept(r) \/ Refuse(r) \/ Tell(r)

Spec == Init /\ [][Next]_vars

=============================================================================
