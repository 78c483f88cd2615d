--------------------------- MODULE MCMessageCache ---------------------------
(* Model values for the MessageCache runs: two private messages, the second  *)
(* a photo, and a channel message that has the id of the first.              *)
EXTENDS MessageCache, TLC

CONSTANTS t1, t2, d1, d2, s1

MCId == [m \in Messages |-> IF m = d2 THEN 2 ELSE 1]
Symmetry == Permutations(Tasks)

=============================================================================
