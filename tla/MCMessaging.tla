---------------------------- MODULE MCMessaging ------------------------------
(* Messaging on a small instance; the safety runs reduce by symmetry. *)
EXTENDS Messaging, TLC

Symmetry ==
    Permutations(Recipients) \cup Permutations(Workers)

=============================================================================
