--------------------------- MODULE AccessContract ---------------------------
(***************************************************************************)
(* What the shop keeps to.  Access begins with a gift, or with a claim,    *)
(* whoever makes it, on a paid subscription: one claim, one period of the  *)
(* length that was bought.  The owner ends it early, for a user as a       *)
(* whole: a revocation ends everything that runs and can be undone by a    *)
(* further claim, a deletion cannot.  A subscription is paid once but may  *)
(* be claimed again: the code does not count claims, so neither does the   *)
(* contract.  Subscriptions implements it, however its handlers interleave *)
(* and wherever they die.                                                  *)
(***************************************************************************)
EXTENDS Naturals

CONSTANTS Ids, Periods, Claimants

VARIABLES
  now,
  length,   \* what was bought or given, 0 for no subscription
  offered,  \* subscriptions that are for sale
  paid,
  claim,    \* the subscription each claimant asks for, 0 for none
  ends,     \* when access ends, 0 while there is none
  revoked,
  gone      \* subscriptions of a user who was deleted

vars == <<now, length, offered, paid, claim, ends, revoked, gone>>

NoAccess == [i \in Ids |-> 0]

Init ==
  /\ now = 0
  /\ length = [i \in Ids |-> 0] /\ ends = NoAccess
  /\ offered = {} /\ paid = {}
  /\ claim = [c \in Claimants |-> 0]
  /\ revoked = {} /\ gone = {}

Tick ==
  /\ now' = now + 1
  /\ UNCHANGED <<length, offered, paid, claim, ends, revoked, gone>>

Offer(i, d) ==
  /\ length[i] = 0
  /\ length' = [length EXCEPT ![i] = d]
  /\ offered' = offered \cup {i}
  /\ UNCHANGED <<now, paid, claim, ends, revoked, gone>>

Give(i, d) ==
  /\ length[i] = 0
  /\ length' = [length EXCEPT ![i] = d]
  /\ ends' = [ends EXCEPT ![i] = now + d]
  /\ UNCHANGED <<now, offered, paid, claim, revoked, gone>>

Pay(i) ==
  /\ i \in offered \ paid
  /\ paid' = paid \cup {i}
  /\ UNCHANGED <<now, length, offered, claim, ends, revoked, gone>>

MakeClaim(c, i) ==
  /\ claim[c] = 0 /\ i \in offered \ gone
  /\ claim' = [claim EXCEPT ![c] = i]
  /\ UNCHANGED <<now, length, offered, paid, ends, revoked, gone>>

\* Claims that come to nothing.
Drop(C) ==
  /\ claim' = [c \in Claimants |-> IF c \in C THEN 0 ELSE claim[c]]
  /\ UNCHANGED <<now, length, offered, paid, ends, revoked, gone>>

Start(c, i) ==
  /\ claim[c] = i /\ i \in paid \ gone
  /\ claim' = [claim EXCEPT ![c] = 0]
  /\ ends' = [ends EXCEPT ![i] = now + length[i]]
  /\ revoked' = revoked \ {i}
  /\ UNCHANGED <<now, length, offered, paid, gone>>

Revoke ==
  /\ ends # NoAccess
  /\ ends' = NoAccess
  /\ revoked' = revoked \cup {i \in Ids : ends[i] # 0}
  /\ UNCHANGED <<now, length, offered, paid, claim, gone>>

Delete ==
  /\ ends' = NoAccess
  /\ revoked' = {}
  /\ gone' = {i \in Ids : length[i] # 0}
  /\ UNCHANGED <<now, length, offered, paid, claim>>

Next ==
  \/ Tick \/ Revoke \/ Delete
  \/ \E i \in Ids, d \in Periods : Offer(i, d) \/ Give(i, d)
  \/ \E i \in Ids : Pay(i)
  \/ \E c \in Claimants, i \in Ids : MakeClaim(c, i) \/ Start(c, i)
  \/ \E C \in SUBSET Claimants : Drop(C)

Spec == Init /\ [][Next]_vars

=============================================================================
