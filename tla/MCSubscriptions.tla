-------------------------- MODULE MCSubscriptions --------------------------
(* Model values for the Subscriptions run. *)
EXTENDS Subscriptions, TLC

CONSTANTS t1, t2

Symmetry == Permutations(Tasks)

=============================================================================
