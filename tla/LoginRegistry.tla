-------------------------- MODULE LoginRegistry --------------------------
(***************************************************************************)
(* What the sessions table promises its owner, whoever writes it and in    *)
(* whatever order: an account's login is replaced only by a newer login,   *)
(* and is ended only by the owner or by Telegram having killed that very   *)
(* key.  SessionSupervisor implements this specification as long as no     *)
(* re-link overlaps an unlink or a deactivation of the row it re-uses.     *)
(***************************************************************************)
CONSTANTS Accounts, Keys, NoKey

VARIABLES
  keys,    \* what Telegram knows of every auth key
  login,   \* the key in each account's active row, NoKey when there is none
  wanted   \* the owner's last completed login, NoKey once they ended it

vars == <<keys, login, wanted>>

Init ==
  /\ keys = [k \in Keys |-> "unused"]
  /\ login = [a \in Accounts |-> NoKey]
  /\ wanted = [a \in Accounts |-> NoKey]

\* Telegram hands out a new key, or kills one.
Issue(k) ==
  /\ keys[k] = "unused"
  /\ keys' = [keys EXCEPT ![k] = "live"]
  /\ UNCHANGED <<login, wanted>>

Kill(k) ==
  /\ keys[k] = "live"
  /\ keys' = [keys EXCEPT ![k] = "dead"]
  /\ UNCHANGED <<login, wanted>>

\* A login is completed with a key that no account holds yet.
LinkAccount(a, k) ==
  /\ keys[k] # "unused"
  /\ \A b \in Accounts : login[b] # k
  /\ login' = [login EXCEPT ![a] = k]
  /\ wanted' = [wanted EXCEPT ![a] = k]
  /\ UNCHANGED keys

\* The owner unlinks some accounts, or is deleted.
EndByOwner(A) ==
  /\ login' = [a \in Accounts |-> IF a \in A THEN NoKey ELSE login[a]]
  /\ wanted' = [a \in Accounts |-> IF a \in A THEN NoKey ELSE wanted[a]]
  /\ UNCHANGED keys

\* A login ends without the owner only when its own key is dead.
EndByDeath(a) ==
  /\ login[a] # NoKey
  /\ keys[login[a]] = "dead"
  /\ login' = [login EXCEPT ![a] = NoKey]
  /\ UNCHANGED <<keys, wanted>>

Next ==
  \/ \E k \in Keys : Issue(k) \/ Kill(k)
  \/ \E a \in Accounts, k \in Keys : LinkAccount(a, k)
  \/ \E a \in Accounts : EndByDeath(a)
  \/ \E A \in SUBSET Accounts : EndByOwner(A)

Spec == Init /\ [][Next]_vars
=============================================================================
