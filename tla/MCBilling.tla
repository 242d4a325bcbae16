----------------------------- MODULE MCBilling -----------------------------
(* Small instances of Billing: up to three recharge jobs, and one top-up. *)
EXTENDS Billing, TLC

CONSTANTS p1, p2, j1, j2, j3, c1

\* Processes and jobs are told apart by name only, where no property is a
\* liveness property.
Symmetry == Permutations(Procs) \cup Permutations(Jobs)

=============================================================================
