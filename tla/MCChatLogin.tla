---------------------------- MODULE MCChatLogin ----------------------------
(* Model values for the ChatLogin run. *)
EXTENDS ChatLogin, TLC

CONSTANTS h1, h2, h3, a1, a2, a3

Symmetry == Permutations(Handlers)

=============================================================================
