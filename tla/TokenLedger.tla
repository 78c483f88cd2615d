---------------------------- MODULE TokenLedger ----------------------------
(***************************************************************************)
(* What a one-time link promises, whoever races for it: it is spent at     *)
(* most once; it can be spent after its time only by somebody who asked    *)
(* for it in time and was still being served; and "your link ran out" is   *)
(* said only of a link whose time is over.  ConnectTokens implements this  *)
(* specification with any number of handlers, POSTs and sweepers.          *)
(***************************************************************************)
CONSTANT Tokens

VARIABLES
  issued,
  lapsed,  \* tokens whose time is over, spent or not
  held,    \* unspent tokens somebody asked for in time and may yet spend
  spent,
  told     \* tokens whose owner was told that the time is over

vars == <<issued, lapsed, held, spent, told>>

Init ==
  /\ issued = {} /\ lapsed = {} /\ held = {} /\ spent = {} /\ told = {}

\* The time a token is dated from is read before its row is written: a slow
\* writer issues one whose time is over.
Issue(k) ==
  /\ k \notin issued
  /\ issued' = issued \cup {k}
  /\ lapsed' \in {lapsed, lapsed \cup {k}}
  /\ UNCHANGED <<held, spent, told>>

Lapse(K) ==
  /\ K \subseteq issued \ lapsed
  /\ lapsed' = lapsed \cup K
  /\ UNCHANGED <<issued, held, spent, told>>

Hold(k) ==
  /\ k \in issued \ (lapsed \cup spent)
  /\ held' = held \cup {k}
  /\ UNCHANGED <<issued, lapsed, spent, told>>

\* Those who held the tokens were refused, failed or died.
Release(K) ==
  /\ held' = held \ K
  /\ UNCHANGED <<issued, lapsed, spent, told>>

\* Nobody can hold a token that is spent.
Spend(k) ==
  /\ k \in held
  /\ spent' = spent \cup {k}
  /\ held' = held \ {k}
  /\ UNCHANGED <<issued, lapsed, told>>

Tell(k) ==
  /\ k \in lapsed
  /\ told' = told \cup {k}
  /\ UNCHANGED <<issued, lapsed, held, spent>>

Next ==
  \/ \E k \in Tokens : Issue(k) \/ Hold(k) \/ Spend(k) \/ Tell(k)
  \/ \E K \in SUBSET Tokens : Lapse(K) \/ Release(K)

Spec == Init /\ [][Next]_vars

=============================================================================
