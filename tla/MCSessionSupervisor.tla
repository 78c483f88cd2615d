----------------------- MODULE MCSessionSupervisor -----------------------
(* Constants for model-checking SessionSupervisor: one owner with one       *)
(* account, whose row can be deleted and created again under another id.    *)
EXTENDS SessionSupervisor, TLC

CONSTANTS a1, s1, s2, k1, k2, k3, t1, t2, t3, h1, h2

MCAccountOf == [s \in Sessions |-> a1]

KeySymmetry     == Permutations(Keys)
TaskSymmetry    == Permutations(Tasks)
HandlerSymmetry == Permutations(Handlers)
Symmetry        == KeySymmetry \cup TaskSymmetry \cup HandlerSymmetry
=============================================================================
