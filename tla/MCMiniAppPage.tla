--------------------------- MODULE MCMiniAppPage ---------------------------
(* Model values for the MiniAppPage runs. *)
EXTENDS MiniAppPage

CONSTANTS a1, a2, k1, k2, k3, g1, g2

=============================================================================
