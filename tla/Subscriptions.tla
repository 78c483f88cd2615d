--------------------------- MODULE Subscriptions ---------------------------
(***************************************************************************)
(* The subscriptions of one user: purchase with Telegram Stars or Crypto   *)
(* Pay (management_bot/handlers/subscribe.py, subscriptions.py), grants    *)
(* and revocations from the admin panel (admin_web/service.py), and who    *)
(* has access (db/queries.py).                                             *)
(*                                                                         *)
(* A purchase is a pending row, then an invoice.  A payment reaches the    *)
(* bot as an update (Stars), or when somebody asks Crypto Pay by the check *)
(* button's callback; either activates the row.  A callback may come at    *)
(* any time, also when its button is gone, and an update may be delivered  *)
(* again after a restart; no handler looks whether its row has been        *)
(* activated before.  Handlers interleave and may die at any await.  A     *)
(* purchase that dies half-way is one that goes no further.                *)
(***************************************************************************)
EXTENDS Naturals, Sequences

CONSTANTS
  Tasks,    \* payment and check handlers running at once (a bound)
  Periods,  \* lengths of the durations on sale, and of grants
  MaxRows,  \* bound on the rows of the user
  MaxTime   \* bound on the clock

ASSUME SubscriptionsAssumption ==
  /\ Periods \subseteq Nat \ {0}
  /\ {MaxRows, MaxTime} \subseteq Nat

VARIABLES
  now,
  rows,   \* the user's rows of `subscriptions`, by created_at
  paid,   \* rows whose invoice has been paid
  due,    \* Stars: payments whose update has not come yet
  unconfirmed,  \* Stars: updates received since the last poll
  tasks,
  started,   \* history: rows that have been activated
  lost,      \* history: payments whose handler died
  repeated   \* history: rows asked for again, after or beside another request

vars == <<now, rows, paid, due, unconfirmed, tasks, started, lost, repeated>>

-----------------------------------------------------------------------------

Ids == 1..MaxRows

\* invoice: "created" at Crypto Pay, "recorded" in the row, "shown" with its
\* buttons, "claimed" once the check button is gone.
Rows ==
  [provider : {"stars", "crypto", "free", "admin"}, days : Periods,
   status : {"pending", "active", "cancelled", "deleted"}, ends : Nat,
   invoice : {"none", "created", "recorded", "shown", "claimed"}]

\* seen is the status the SELECT before the activation returned.
Idle == [at |-> "idle", id |-> 0, seen |-> "pending"]

TaskStates ==
  [at : {"idle", "ask", "paid", "activate", "edit", "answer"}, id : 0..MaxRows,
   seen : {"pending", "active", "cancelled"}]

\* Values are of their types; only existing rows are worked on.
TypeOK ==
  /\ now \in 0..MaxTime
  /\ rows \in Seq(Rows) /\ Len(rows) <= MaxRows
  /\ paid \subseteq DOMAIN rows
  /\ due \subseteq paid /\ unconfirmed \subseteq paid /\ lost \subseteq paid
  /\ tasks \in [Tasks -> TaskStates]
  /\ started \subseteq DOMAIN rows /\ repeated \subseteq DOMAIN rows

Init ==
  /\ now = 0
  /\ rows = <<>>
  /\ paid = {} /\ due = {} /\ unconfirmed = {}
  /\ tasks = [t \in Tasks |-> Idle]
  /\ started = {} /\ lost = {} /\ repeated = {}

End(t) == tasks' = [tasks EXCEPT ![t] = Idle]
Goes(t, at) == tasks' = [tasks EXCEPT ![t].at = at, ![t].seen = "pending"]

-----------------------------------------------------------------------------
(* Purchases. *)

Tick ==
  /\ now < MaxTime
  /\ now' = now + 1
  /\ UNCHANGED <<rows, paid, due, unconfirmed, tasks, started, lost, repeated>>

AddRow(row) ==
  /\ Len(rows) < MaxRows
  /\ rows' = Append(rows, row)

\* create_pending.
Buy(provider, d) ==
  /\ AddRow([provider |-> provider, days |-> d, status |-> "pending", ends |-> 0,
             invoice |-> "none"])
  /\ UNCHANGED <<now, paid, due, unconfirmed, tasks, started, lost, repeated>>

\* A whole discount (_grant_free), or the admin panel: active at once.
Grant(provider, d) ==
  /\ AddRow([provider |-> provider, days |-> d, status |-> "active", ends |-> now + d,
             invoice |-> "none"])
  /\ started' = started \cup {Len(rows) + 1}
  /\ UNCHANGED <<now, paid, due, unconfirmed, tasks, lost, repeated>>

\* on_pay_stars sends the invoice; on_pay_crypto creates one, stores its id
\* (a row deleted meanwhile ends it) and shows the buttons.
NextInvoice(i) ==
  CASE rows[i].invoice = "none" /\ rows[i].provider = "stars" -> "shown"
    [] rows[i].invoice = "none" /\ rows[i].provider = "crypto" -> "created"
    [] rows[i].invoice = "created" /\ rows[i].status # "deleted" -> "recorded"
    [] rows[i].invoice = "recorded" -> "shown"
    [] OTHER -> rows[i].invoice

Invoice(i) ==
  /\ rows' = [rows EXCEPT ![i].invoice = NextInvoice(i)]
  /\ rows' # rows
  /\ UNCHANGED <<now, paid, due, unconfirmed, tasks, started, lost, repeated>>

\* The buyer pays what is shown; pre-checkout is always answered with ok.
Pay(i) ==
  /\ rows[i].invoice \in {"shown", "claimed"} /\ i \notin paid
  /\ paid' = paid \cup {i}
  /\ due' = IF rows[i].provider = "stars" THEN due \cup {i} ELSE due
  /\ UNCHANGED <<now, rows, unconfirmed, tasks, started, lost, repeated>>

-----------------------------------------------------------------------------
(* Activation. *)

\* Row i is asked for by one more request.
Asked(i) ==
  repeated' = IF i \in started \/ \E u \in Tasks : tasks[u].id = i
                THEN repeated \cup {i} ELSE repeated

\* Mutant: a row that is gone is not noticed.
OnPaymentBlind(t, i) ==
  /\ tasks[t] = Idle /\ i \in due
  /\ due' = due \ {i} /\ unconfirmed' = unconfirmed \cup {i}
  /\ tasks' = [tasks EXCEPT ![t] = [at |-> "activate", id |-> i,
                                    seen |-> rows[i].status]]
  /\ Asked(i)
  /\ UNCHANGED <<now, rows, paid, started, lost>>

\* on_successful_payment: the SELECT; a row that is gone ends the handler.
OnPayment(t, i) ==
  /\ tasks[t] = Idle /\ i \in due
  /\ due' = due \ {i} /\ unconfirmed' = unconfirmed \cup {i}
  /\ tasks' = IF rows[i].status = "deleted" THEN tasks
              ELSE [tasks EXCEPT ![t] = [at |-> "activate", id |-> i,
                                         seen |-> rows[i].status]]
  /\ Asked(i)
  /\ UNCHANGED <<now, rows, paid, started, lost>>

\* on_check_crypto: the first SELECT finds the row and its invoice.
Check(t, i) ==
  /\ tasks[t] = Idle
  /\ rows[i].provider = "crypto" /\ rows[i].status # "deleted"
  /\ rows[i].invoice \in {"recorded", "shown", "claimed"}
  /\ tasks' = [tasks EXCEPT ![t].at = "ask", ![t].id = i]
  /\ Asked(i)
  /\ UNCHANGED <<now, rows, paid, due, unconfirmed, started, lost>>

\* Mutant: the answer is not looked at.
IsPaidOrNot(t) ==
  /\ tasks[t].at = "ask"
  /\ Goes(t, "paid")
  /\ UNCHANGED <<now, rows, paid, due, unconfirmed, started, lost, repeated>>

\* Mutant: a check before the payment takes the buttons away.
IsPaidClosing(t) ==
  /\ tasks[t].at = "ask"
  /\ IF tasks[t].id \in paid THEN Goes(t, "paid") /\ UNCHANGED rows
     ELSE End(t) /\ rows' = [rows EXCEPT ![tasks[t].id].invoice = "claimed"]
  /\ UNCHANGED <<now, paid, due, unconfirmed, started, lost, repeated>>

\* is_paid; not paid, or no answer, ends the check.
IsPaid(t) ==
  /\ tasks[t].at = "ask"
  /\ IF tasks[t].id \in paid THEN Goes(t, "paid") ELSE End(t)
  /\ UNCHANGED <<now, rows, paid, due, unconfirmed, started, lost, repeated>>

\* The second SELECT; for a row that is gone, activate raises.
CheckReads(t) ==
  /\ tasks[t].at = "paid"
  /\ IF rows[tasks[t].id].status = "deleted" THEN End(t)
     ELSE tasks' = [tasks EXCEPT ![t].at = "activate",
                                 ![t].seen = rows[tasks[t].id].status]
  /\ UNCHANGED <<now, rows, paid, due, unconfirmed, started, lost, repeated>>

\* activate and the commit: the period runs from now.  The status is written
\* only if it changes what was read; an UPDATE of no row raises.
Activate(t) ==
  LET i == tasks[t].id IN
  /\ tasks[t].at = "activate"
  /\ rows[i].status # "deleted"
  /\ rows' = [rows EXCEPT
       ![i].status = IF tasks[t].seen = "active" THEN @ ELSE "active",
       ![i].ends = now + rows[i].days]
  /\ started' = started \cup {i}
  /\ Goes(t, IF rows[i].provider = "crypto" THEN "edit" ELSE "answer")
  /\ UNCHANGED <<now, paid, due, unconfirmed, lost, repeated>>

\* The message loses its buttons.
Edit(t) ==
  /\ tasks[t].at = "edit"
  /\ rows' = [rows EXCEPT ![tasks[t].id].invoice = "claimed"]
  /\ Goes(t, "answer")
  /\ UNCHANGED <<now, paid, due, unconfirmed, started, lost, repeated>>

\* The buyer is told.
Answer(t) ==
  /\ tasks[t].at = "answer"
  /\ End(t)
  /\ UNCHANGED <<now, rows, paid, due, unconfirmed, started, lost, repeated>>

\* Stars payments on the way to their activation: nothing else tells of them.
Activating(t) ==
  IF tasks[t].at = "activate" /\ rows[tasks[t].id].provider = "stars"
    THEN {tasks[t].id} ELSE {}

\* A handler dies: the network, the database.
Dies(t) ==
  /\ tasks[t] # Idle
  /\ lost' = lost \cup Activating(t)
  /\ End(t)
  /\ UNCHANGED <<now, rows, paid, due, unconfirmed, started, repeated>>

\* The next poll confirms the updates received before it.
Poll ==
  /\ unconfirmed # {}
  /\ unconfirmed' = {}
  /\ UNCHANGED <<now, rows, paid, due, tasks, started, lost, repeated>>

\* The process stops and starts again: what it had not confirmed comes again.
Restart ==
  /\ unconfirmed # {} \/ \E t \in Tasks : tasks[t] # Idle
  /\ due' = due \cup unconfirmed /\ unconfirmed' = {}
  /\ lost' = (lost \cup UNION {Activating(t) : t \in Tasks}) \ unconfirmed
  /\ tasks' = [t \in Tasks |-> Idle]
  /\ UNCHANGED <<now, rows, paid, started, repeated>>

-----------------------------------------------------------------------------
(* The admin panel. *)

\* What `ending` rows become, at a revocation.
Cancelled(ending) ==
  [i \in DOMAIN rows |->
     IF i \in ending THEN [rows[i] EXCEPT !.status = "cancelled"] ELSE rows[i]]

\* Mutant: what has not been paid for yet is cancelled as well.
RevokePending ==
  /\ \E i \in DOMAIN rows : rows[i].status = "active"
  /\ rows' = Cancelled({i \in DOMAIN rows : rows[i].status \in {"pending", "active"}})
  /\ UNCHANGED <<now, paid, due, unconfirmed, tasks, started, lost, repeated>>

\* Mutant: only the subscription that the user's status shows, the latest.
RevokeLatest ==
  /\ \E i \in DOMAIN rows :
       /\ rows[i].status = "active"
       /\ \A j \in DOMAIN rows : rows[j].status = "active" => j <= i
       /\ rows' = Cancelled({i})
  /\ UNCHANGED <<now, paid, due, unconfirmed, tasks, started, lost, repeated>>

\* revoke_subscription: every active row, expired or not.
Revoke ==
  /\ \E i \in DOMAIN rows : rows[i].status = "active"
  /\ rows' = Cancelled({i \in DOMAIN rows : rows[i].status = "active"})
  /\ UNCHANGED <<now, paid, due, unconfirmed, tasks, started, lost, repeated>>

\* delete_user: every row goes with the user.
DeleteUser ==
  /\ \E i \in DOMAIN rows : rows[i].status # "deleted"
  /\ rows' = [i \in DOMAIN rows |-> [rows[i] EXCEPT !.status = "deleted"]]
  /\ UNCHANGED <<now, paid, due, unconfirmed, tasks, started, lost, repeated>>

-----------------------------------------------------------------------------

Next ==
  \/ Tick \/ Revoke \/ DeleteUser \/ Poll \/ Restart
  \/ \E d \in Periods :
       \/ \E provider \in {"stars", "crypto"} : Buy(provider, d)
       \/ \E provider \in {"free", "admin"} : Grant(provider, d)
  \/ \E i \in DOMAIN rows : Invoice(i) \/ Pay(i)
  \/ \E t \in Tasks :
       \/ \E i \in DOMAIN rows : OnPayment(t, i) \/ Check(t, i)
       \/ IsPaid(t) \/ CheckReads(t) \/ Activate(t) \/ Edit(t) \/ Answer(t) \/ Dies(t)

Spec == Init /\ [][Next]_vars

-----------------------------------------------------------------------------
(* Properties. *)

\* get_active_subscription_for_user takes any row that is active and not over.
Live(i) == rows[i].status = "active" /\ rows[i].ends > now

\* Access through a bought row is paid for: no interleaving of checks, updates,
\* purchases and revocations activates a row whose invoice is open.
AccessIsBacked ==
  \A i \in DOMAIN rows :
    Live(i) /\ rows[i].provider \in {"stars", "crypto"} => i \in paid

\* A payment that has not been answered with a period still can be: its update
\* is to come or in a handler (unless that died), or its check button is there.
PaidCanBeClaimed ==
  \A i \in paid : i \notin started /\ rows[i].status # "deleted" =>
    IF rows[i].provider = "stars"
      THEN i \in due \cup lost \/ \E t \in Tasks : tasks[t].id = i
      ELSE rows[i].invoice = "shown"

\* A revocation is undone by nothing but a further request for the same row: a
\* payment or a check that was under way when the owner revoked, alone, is not
\* one.  The code asks for no more, and refuses no further request: a check
\* sent again, or a Stars update delivered again, does bring the row back.
RevocationHolds ==
  [][\A i \in DOMAIN rows \ repeated :
       rows[i].status = "cancelled" => rows'[i].status # "active"]_vars

\* What the shop keeps to (module AccessContract): access begins with a gift or
\* with a claim on a paid subscription, for its length, one period per claim,
\* and never again once the user is deleted; it ends early only by a revocation
\* or a deletion, which end all of the user's.
Length  == [i \in Ids |-> IF i \in DOMAIN rows THEN rows[i].days ELSE 0]
Offered == {i \in DOMAIN rows : rows[i].provider \in {"stars", "crypto"}}
Claim   == [t \in Tasks |-> IF tasks[t].at \in {"ask", "paid", "activate"}
                              THEN tasks[t].id ELSE 0]
Ends    == [i \in Ids |-> IF i \in DOMAIN rows /\ rows[i].status = "active"
                            THEN rows[i].ends ELSE 0]
WithStatus(status) == {i \in DOMAIN rows : rows[i].status = status}

Contract == INSTANCE AccessContract WITH
  Claimants <- Tasks, length <- Length, offered <- Offered, claim <- Claim,
  ends <- Ends, revoked <- WithStatus("cancelled"), gone <- WithStatus("deleted")

ContractSpec == Contract!Spec

=============================================================================
