-------------------------- MODULE MCConnectTokens --------------------------
(* Model values and symmetry for the ConnectTokens runs. *)
EXTENDS ConnectTokens, TLC

CONSTANTS u1, u2, k1, k2, h1, h2, r1, r2, p1, p2

Symmetry ==
  Permutations(Tokens) \cup Permutations(Requests) \cup Permutations(Handlers)
    \cup Permutations(Sweepers)

=============================================================================
