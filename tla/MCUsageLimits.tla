--------------------------- MODULE MCUsageLimits ---------------------------
(* Model values for the UsageLimits runs: `std` has one .check a month and *)
(* no .send, `pro` has two checks and batches of two, two instants apart.  *)
EXTENDS UsageLimits, TLC

CONSTANTS c1, c2, std, pro

MCQuota    == std :> 1 @@ pro :> 2
MCCooldown == std :> 0 @@ pro :> 2
MCMaxCount == std :> 0 @@ pro :> 2

Symmetry == Permutations(Commands)

=============================================================================
