------------------------ MODULE Subscriptions_proofs ------------------------
(***************************************************************************)
(* Proofs about Subscriptions for every number of handlers, rows and       *)
(* periods, and any bound on the clock.                                    *)
(***************************************************************************)
EXTENDS Subscriptions, SequenceTheorems, TLAPS

-----------------------------------------------------------------------------
(* The inductive invariant. *)

\* A handler at work has a row, which is paid once the handler has found it so.
TasksHold ==
  \A t \in Tasks :
    \/ tasks[t] = Idle
    \/ /\ tasks[t].id \in DOMAIN rows
       /\ tasks[t].at \in {"paid", "activate", "edit", "answer"} => tasks[t].id \in paid
       /\ tasks[t].at \in {"ask", "paid", "edit"}
            => rows[tasks[t].id].provider = "crypto"
       /\ tasks[t].at \in {"ask", "paid", "activate"}
            => rows[tasks[t].id].provider \in {"stars", "crypto"}
       /\ tasks[t].at \in {"edit", "answer"} => tasks[t].id \in started
       /\ tasks[t].at # "idle"

\* What is bought is activated by its payment, and paid once it is invoiced.
RowsHold ==
  \A i \in DOMAIN rows :
    /\ rows[i].provider \in {"free", "admin"} => rows[i].invoice = "none"
    /\ rows[i].provider = "stars" => rows[i].invoice \in {"none", "shown"}
    /\ i \in paid => rows[i].invoice \in {"shown", "claimed"}
    /\ i \in due \cup unconfirmed => rows[i].provider = "stars"
    /\ rows[i].invoice = "claimed" => i \in started
    /\ rows[i].status \in {"active", "cancelled"} => i \in started
    /\ /\ rows[i].status \in {"active", "cancelled"}
       /\ rows[i].provider \in {"stars", "crypto"}
       => i \in paid

\* A row that is not asked for again has one handler, which finds it not
\* activated yet.
Working(t) == tasks[t].at \in {"ask", "paid", "activate"}

Alone(i) ==
  /\ \A t, u \in Tasks : tasks[t].id = i /\ tasks[u].id = i => t = u
  /\ \A t \in Tasks : tasks[t].id = i /\ Working(t) => i \notin started

OneHandler == \A i \in DOMAIN rows \ repeated : Alone(i)

IInv == TypeOK /\ TasksHold /\ RowsHold /\ PaidCanBeClaimed /\ OneHandler

-----------------------------------------------------------------------------
(* What a step does to the rows, as facts about each row. *)

\* Replacing one row keeps the sequence and the other rows.
LEMMA RowSet ==
  ASSUME rows \in Seq(Rows), NEW i \in DOMAIN rows, NEW r \in Rows
  PROVE  /\ [rows EXCEPT ![i] = r] \in Seq(Rows)
         /\ DOMAIN [rows EXCEPT ![i] = r] = DOMAIN rows
         /\ Len([rows EXCEPT ![i] = r]) = Len(rows)
         /\ \A j \in DOMAIN rows :
              [rows EXCEPT ![i] = r][j] = IF j = i THEN r ELSE rows[j]
<1>1. i \in 1..Len(rows)
  BY LenProperties
<1>2. /\ [rows EXCEPT ![i] = r] \in Seq(Rows)
      /\ Len([rows EXCEPT ![i] = r]) = Len(rows)
      /\ \A j \in 1..Len(rows) :
           [rows EXCEPT ![i] = r][j] = IF j = i THEN r ELSE rows[j]
  BY <1>1, ExceptSeq
<1> QED BY <1>2, LenProperties

\* One row is replaced, the others stay.
Replaced(i, r) ==
  /\ rows' \in Seq(Rows) /\ Len(rows') = Len(rows)
  /\ DOMAIN rows' = DOMAIN rows
  /\ r \in Rows
  /\ \A j \in DOMAIN rows : rows'[j] = IF j = i THEN r ELSE rows[j]

\* Every row is a row.
LEMMA RowType == ASSUME TypeOK PROVE \A i \in DOMAIN rows : rows[i] \in Rows
<1> SUFFICES ASSUME NEW i \in DOMAIN rows PROVE rows[i] \in Rows
  OBVIOUS
<1>1. rows \in Seq(Rows)
  BY DEF TypeOK
<1>2. i \in 1..Len(rows)
  BY <1>1, LenProperties
<1> QED BY <1>1, <1>2, ElementOfSeq

\* The next invoice step replaces one row.
LEMMA InvoiceRows ==
  ASSUME TypeOK, NEW i \in DOMAIN rows, Invoice(i)
  PROVE  Replaced(i, [rows[i] EXCEPT !.invoice = NextInvoice(i)])
<1>1. rows \in Seq(Rows)
  BY DEF TypeOK
<1>2. rows[i] \in Rows
  BY RowType
<1>3. NextInvoice(i) \in {"none", "created", "recorded", "shown", "claimed"}
  BY <1>2 DEF NextInvoice, Rows
<1>4. [rows[i] EXCEPT !.invoice = NextInvoice(i)] \in Rows
  BY <1>2, <1>3 DEF Rows
<1>5. rows' = [rows EXCEPT ![i] = [rows[i] EXCEPT !.invoice = NextInvoice(i)]]
  BY DEF Invoice
<1> HIDE DEF NextInvoice
<1> QED BY <1>1, <1>4, <1>5, RowSet DEF Replaced

\* So does taking the buttons away.
LEMMA EditRows ==
  ASSUME TypeOK, NEW t \in Tasks, Edit(t), tasks[t].id \in DOMAIN rows
  PROVE  Replaced(tasks[t].id, [rows[tasks[t].id] EXCEPT !.invoice = "claimed"])
<1> DEFINE i == tasks[t].id
<1>1. rows \in Seq(Rows) /\ i \in DOMAIN rows
  BY DEF TypeOK
<1>2. rows[i] \in Rows
  BY RowType
<1>3. [rows[i] EXCEPT !.invoice = "claimed"] \in Rows
  BY <1>2 DEF Rows
<1>4. rows' = [rows EXCEPT ![i] = [rows[i] EXCEPT !.invoice = "claimed"]]
  BY DEF Edit
<1> QED BY <1>1, <1>3, <1>4, RowSet DEF Replaced

\* The row as an activation leaves it.
Activated(t) ==
  LET i == tasks[t].id IN
  [rows[i] EXCEPT !.status = IF tasks[t].seen = "active" THEN @ ELSE "active",
                  !.ends = now + rows[i].days]

\* So does an activation.
LEMMA ActivateRows ==
  ASSUME SubscriptionsAssumption, TypeOK, NEW t \in Tasks, Activate(t),
         tasks[t].id \in DOMAIN rows
  PROVE  Replaced(tasks[t].id, Activated(t))
<1> DEFINE i == tasks[t].id
<1>1. rows \in Seq(Rows) /\ i \in DOMAIN rows
  BY DEF TypeOK
<1>2. rows[i] \in Rows
  BY RowType
<1>3. now + rows[i].days \in Nat
  <2>1. now \in Nat
    BY DEF TypeOK, SubscriptionsAssumption
  <2>2. rows[i].days \in Nat
    BY <1>2 DEF Rows, SubscriptionsAssumption
  <2> QED BY <2>1, <2>2
<1>4. Activated(t) \in Rows
  BY <1>2, <1>3 DEF Rows, Activated
<1>5. rows' = [rows EXCEPT ![i] = Activated(t)]
  BY DEF Activate, Activated
<1> QED BY <1>1, <1>4, <1>5, RowSet DEF Replaced

\* One row is added.
Added(r) ==
  /\ rows' \in Seq(Rows) /\ Len(rows') = Len(rows) + 1
  /\ Len(rows) + 1 \in Ids /\ Len(rows) + 1 <= MaxRows
  /\ Len(rows) + 1 \notin DOMAIN rows
  /\ DOMAIN rows' = DOMAIN rows \cup {Len(rows) + 1}
  /\ \A j \in DOMAIN rows : rows'[j] = rows[j]
  /\ rows'[Len(rows) + 1] = r
  /\ r \in Rows

\* A row that is added comes last.
LEMMA AddedRow ==
  ASSUME SubscriptionsAssumption, TypeOK, NEW r \in Rows, AddRow(r)
  PROVE  Added(r)
<1>1. rows \in Seq(Rows) /\ Len(rows) \in Nat /\ DOMAIN rows = 1..Len(rows)
  BY LenProperties DEF TypeOK
<1>2. /\ rows' \in Seq(Rows) /\ Len(rows') = Len(rows) + 1
      /\ \A j \in 1..Len(rows) : rows'[j] = rows[j]
      /\ rows'[Len(rows) + 1] = r
  BY <1>1, AppendProperties DEF AddRow
<1>3. DOMAIN rows' = 1..(Len(rows) + 1)
  BY <1>2, LenProperties
<1>4. Len(rows) + 1 \in Ids /\ Len(rows) + 1 <= MaxRows
  BY <1>1 DEF AddRow, Ids, SubscriptionsAssumption
<1> QED BY <1>1, <1>2, <1>3, <1>4 DEF Added

\* A purchase adds a row that is pending.
LEMMA BuyRows ==
  ASSUME SubscriptionsAssumption, TypeOK, NEW p \in {"stars", "crypto"},
         NEW d \in Periods, Buy(p, d)
  PROVE  Added([provider |-> p, days |-> d, status |-> "pending", ends |-> 0,
                invoice |-> "none"])
<1>1. [provider |-> p, days |-> d, status |-> "pending", ends |-> 0,
       invoice |-> "none"] \in Rows
  BY DEF Rows
<1> QED BY <1>1, AddedRow DEF Buy

\* A grant adds a row that is active.
LEMMA GrantRows ==
  ASSUME SubscriptionsAssumption, TypeOK, NEW p \in {"free", "admin"},
         NEW d \in Periods, Grant(p, d)
  PROVE  Added([provider |-> p, days |-> d, status |-> "active", ends |-> now + d,
                invoice |-> "none"])
<1>1. now + d \in Nat
  BY DEF TypeOK, SubscriptionsAssumption
<1>2. [provider |-> p, days |-> d, status |-> "active", ends |-> now + d,
       invoice |-> "none"] \in Rows
  BY <1>1 DEF Rows
<1> QED BY <1>2, AddedRow DEF Grant

\* Every row may change its status, and nothing else.
Restated(gone) ==
  /\ rows' \in Seq(Rows) /\ Len(rows') = Len(rows)
  /\ DOMAIN rows' = DOMAIN rows
  /\ \A i \in DOMAIN rows :
       /\ rows'[i] \in Rows
       /\ rows'[i].provider = rows[i].provider
       /\ rows'[i].invoice = rows[i].invoice
       /\ rows'[i].status = rows[i].status \/ rows'[i].status = gone
       /\ rows[i].status = "deleted" => rows'[i].status = "deleted"
       /\ rows'[i].status = "cancelled" => rows[i].status \in {"active", "cancelled"}

\* A revocation cancels the active rows.
LEMMA RevokeRows == ASSUME TypeOK, Revoke PROVE Restated("cancelled")
<1> DEFINE e(i) == IF rows[i].status = "active"
                     THEN [rows[i] EXCEPT !.status = "cancelled"] ELSE rows[i]
<1>1. rows \in Seq(Rows) /\ Len(rows) \in Nat /\ DOMAIN rows = 1..Len(rows)
  BY LenProperties DEF TypeOK
<1>2. \A i \in DOMAIN rows : e(i) \in Rows
  BY RowType DEF Rows
<1>3. rows' = [i \in 1..Len(rows) |-> e(i)]
  BY <1>1 DEF Revoke, Cancelled
<1>4. [i \in 1..Len(rows) |-> e(i)] \in Seq(Rows)
  <2> HIDE DEF e
  <2> QED BY <1>1, <1>2, IsASeq
<1>5. Len(rows') = Len(rows) /\ DOMAIN rows' = DOMAIN rows
  BY <1>1, <1>3, <1>4, LenProperties
<1>6. \A i \in DOMAIN rows : rows'[i] = e(i)
  BY <1>1, <1>3
<1>7. \A i \in DOMAIN rows :
        /\ e(i).provider = rows[i].provider
        /\ e(i).invoice = rows[i].invoice
        /\ e(i).status = rows[i].status \/ e(i).status = "cancelled"
        /\ rows[i].status = "deleted" => e(i).status = "deleted"
        /\ e(i).status = "cancelled" => rows[i].status \in {"active", "cancelled"}
  BY RowType DEF Rows
<1> HIDE DEF e
<1> QED BY <1>2, <1>3, <1>4, <1>5, <1>6, <1>7 DEF Restated

\* A deletion takes every row.
LEMMA DeleteRows == ASSUME TypeOK, DeleteUser PROVE Restated("deleted")
<1> DEFINE e(i) == [rows[i] EXCEPT !.status = "deleted"]
<1>1. rows \in Seq(Rows) /\ Len(rows) \in Nat /\ DOMAIN rows = 1..Len(rows)
  BY LenProperties DEF TypeOK
<1>2. \A i \in DOMAIN rows : e(i) \in Rows
  BY RowType DEF Rows
<1>3. rows' = [i \in 1..Len(rows) |-> e(i)]
  BY <1>1 DEF DeleteUser
<1>4. [i \in 1..Len(rows) |-> e(i)] \in Seq(Rows)
  <2> HIDE DEF e
  <2> QED BY <1>1, <1>2, IsASeq
<1>5. Len(rows') = Len(rows) /\ DOMAIN rows' = DOMAIN rows
  BY <1>1, <1>3, <1>4, LenProperties
<1>6. \A i \in DOMAIN rows : rows'[i] = e(i)
  BY <1>1, <1>3
<1>7. \A i \in DOMAIN rows :
        /\ e(i).provider = rows[i].provider
        /\ e(i).invoice = rows[i].invoice
        /\ e(i).status = "deleted"
  BY RowType DEF Rows
<1> HIDE DEF e
<1> QED BY <1>2, <1>3, <1>4, <1>5, <1>6, <1>7 DEF Restated

\* The same, field by field.
LEMMA Fields ==
  ASSUME SubscriptionsAssumption, TypeOK, NEW i \in DOMAIN rows
  PROVE  /\ i \in Ids /\ i \in 0..MaxRows
         /\ rows[i].provider \in {"stars", "crypto", "free", "admin"}
         /\ rows[i].status \in {"pending", "active", "cancelled", "deleted"}
         /\ rows[i].invoice \in {"none", "created", "recorded", "shown", "claimed"}
<1>1. rows \in Seq(Rows) /\ Len(rows) \in Nat /\ DOMAIN rows = 1..Len(rows)
  BY LenProperties DEF TypeOK
<1>2. i \in Ids /\ i \in 0..MaxRows
  BY <1>1 DEF TypeOK, Ids, SubscriptionsAssumption
<1> QED BY <1>2, RowType DEF Rows

\* The other rows stay, and the provider of row i.
OthersStay(i) ==
  /\ DOMAIN rows' = DOMAIN rows
  /\ rows[i].provider = rows'[i].provider
  /\ \A j \in DOMAIN rows \ {i} : rows'[j] = rows[j]

\* An invoice step changes the invoice.
LEMMA InvoiceFields ==
  ASSUME TypeOK, NEW i \in DOMAIN rows, Invoice(i)
  PROVE  /\ OthersStay(i)
         /\ rows'[i].status = rows[i].status
         /\ rows'[i].invoice = NextInvoice(i)
<1>1. Replaced(i, [rows[i] EXCEPT !.invoice = NextInvoice(i)])
  BY InvoiceRows
<1>2. rows[i] \in Rows
  BY RowType
<1>3. rows'[i] = [rows[i] EXCEPT !.invoice = NextInvoice(i)]
  BY <1>1 DEF Replaced
<1> HIDE DEF NextInvoice
<1> QED BY <1>1, <1>2, <1>3 DEF Replaced, OthersStay, Rows

\* So does taking the buttons away.
LEMMA EditFields ==
  ASSUME TypeOK, NEW t \in Tasks, Edit(t), NEW i \in DOMAIN rows, i = tasks[t].id
  PROVE  /\ OthersStay(i)
         /\ rows'[i].status = rows[i].status
         /\ rows'[i].invoice = "claimed"
<1>1. Replaced(i, [rows[i] EXCEPT !.invoice = "claimed"])
  BY EditRows
<1>2. rows[i] \in Rows
  BY RowType
<1>3. rows'[i] = [rows[i] EXCEPT !.invoice = "claimed"]
  BY <1>1 DEF Replaced
<1> QED BY <1>1, <1>2, <1>3 DEF Replaced, OthersStay, Rows

\* An activation changes the status and the end.
LEMMA ActivateFields ==
  ASSUME SubscriptionsAssumption, TypeOK, NEW t \in Tasks, Activate(t),
         NEW i \in DOMAIN rows, i = tasks[t].id
  PROVE  /\ OthersStay(i)
         /\ rows'[i].status \in {rows[i].status, "active"}
         /\ rows'[i].invoice = rows[i].invoice
<1>1. Replaced(i, Activated(t))
  BY ActivateRows
<1>2. rows[i] \in Rows
  BY RowType
<1>3. rows'[i] = Activated(t)
  BY <1>1 DEF Replaced
<1> QED BY <1>1, <1>2, <1>3 DEF Replaced, OthersStay, Rows, Activated

-----------------------------------------------------------------------------

\* Handlers that begin, go on or end, one at a time.
Moves(t, w) ==
  /\ tasks'[t] = w
  /\ \A u \in Tasks \ {t} : tasks'[u] = tasks[u]

\* A handler that goes on keeps its row.
LEMMA GoesMoves ==
  ASSUME TypeOK, NEW t \in Tasks,
         NEW at \in {"idle", "ask", "paid", "activate", "edit", "answer"}, Goes(t, at)
  PROVE  /\ tasks' \in [Tasks -> TaskStates]
         /\ Moves(t, [at |-> at, id |-> tasks[t].id, seen |-> "pending"])
<1>1. tasks \in [Tasks -> TaskStates] /\ tasks[t] \in TaskStates
  BY DEF TypeOK
<1>2. [tasks[t] EXCEPT !.at = at, !.seen = "pending"]
        = [at |-> at, id |-> tasks[t].id, seen |-> "pending"]
  <2> DEFINE w == [tasks[t] EXCEPT !.at = at, !.seen = "pending"]
  <2>1. w \in TaskStates /\ w.at = at /\ w.id = tasks[t].id /\ w.seen = "pending"
    BY <1>1 DEF TaskStates
  <2> HIDE DEF w
  <2>2. w = [at |-> w.at, id |-> w.id, seen |-> w.seen]
    BY <2>1 DEF TaskStates
  <2> QED BY <2>1, <2>2 DEF w
<1>3. [at |-> at, id |-> tasks[t].id, seen |-> "pending"] \in TaskStates
  BY <1>1 DEF TaskStates
<1>4. tasks' = [tasks EXCEPT ![t] = [at |-> at, id |-> tasks[t].id, seen |-> "pending"]]
  BY <1>2 DEF Goes
<1> QED BY <1>1, <1>3, <1>4 DEF Moves

\* A handler ends.
LEMMA EndMoves ==
  ASSUME TypeOK, NEW t \in Tasks, End(t)
  PROVE  tasks' \in [Tasks -> TaskStates] /\ Moves(t, Idle)
<1>1. tasks \in [Tasks -> TaskStates]
  BY DEF TypeOK
<1>2. Idle \in TaskStates
  BY SubscriptionsAssumption DEF Idle, TaskStates, SubscriptionsAssumption
<1> QED BY <1>1, <1>2 DEF End, Moves

\* A check begins.
LEMMA CheckMoves ==
  ASSUME TypeOK, NEW t \in Tasks, NEW i \in DOMAIN rows, Check(t, i)
  PROVE  Moves(t, [at |-> "ask", id |-> i, seen |-> "pending"])
<1>1. tasks \in [Tasks -> TaskStates] /\ tasks[t] = Idle
  BY DEF TypeOK, Check
<1>2. [tasks[t] EXCEPT !.at = "ask", !.id = i] = [at |-> "ask", id |-> i, seen |-> "pending"]
  <2> DEFINE w == [tasks[t] EXCEPT !.at = "ask", !.id = i]
  <2>1. tasks[t] \in TaskStates /\ i \in 0..MaxRows
    BY <1>1, Fields, SubscriptionsAssumption
  <2>2. w \in TaskStates /\ w.at = "ask" /\ w.id = i /\ w.seen = "pending"
    <3>1. w \in TaskStates /\ w.at = "ask" /\ w.id = i /\ w.seen = tasks[t].seen
      BY <2>1 DEF TaskStates
    <3>2. tasks[t].seen = "pending"
      BY <1>1 DEF Idle
    <3> QED BY <3>1, <3>2
  <2> HIDE DEF w
  <2>3. w = [at |-> w.at, id |-> w.id, seen |-> w.seen]
    BY <2>2 DEF TaskStates
  <2> QED BY <2>2, <2>3 DEF w
<1>3. tasks' = [tasks EXCEPT ![t] = [at |-> "ask", id |-> i, seen |-> "pending"]]
  BY <1>2 DEF Check
<1> QED BY <1>1, <1>3 DEF Moves

\* Every step keeps the types.
LEMMA TypeStep ==
  ASSUME SubscriptionsAssumption, TypeOK, TasksHold, [Next]_vars
  PROVE  TypeOK'
<1> USE DEF TypeOK, TaskStates, Idle, SubscriptionsAssumption, Replaced, Added,
            Restated, TasksHold
<1>1. CASE Tick
  BY <1>1 DEF Tick
<1>2. CASE Revoke
  BY <1>2, RevokeRows DEF Revoke
<1>3. CASE DeleteUser
  BY <1>3, DeleteRows DEF DeleteUser
<1>4. ASSUME NEW p \in {"stars", "crypto"}, NEW d \in Periods, Buy(p, d)
      PROVE  TypeOK'
  <2>1. Added([provider |-> p, days |-> d, status |-> "pending", ends |-> 0,
               invoice |-> "none"])
    BY <1>4, BuyRows
  <2> QED BY <1>4, <2>1 DEF Buy
<1>5. ASSUME NEW p \in {"free", "admin"}, NEW d \in Periods, Grant(p, d)
      PROVE  TypeOK'
  <2>1. Added([provider |-> p, days |-> d, status |-> "active", ends |-> now + d,
               invoice |-> "none"])
    BY <1>5, GrantRows
  <2> QED BY <1>5, <2>1 DEF Grant
<1>6. ASSUME NEW i \in DOMAIN rows, Invoice(i)
      PROVE  TypeOK'
  BY <1>6, InvoiceRows DEF Invoice
<1>7. ASSUME NEW i \in DOMAIN rows, Pay(i)
      PROVE  TypeOK'
  BY <1>7 DEF Pay
<1>8. ASSUME NEW t \in Tasks, NEW i \in DOMAIN rows, OnPayment(t, i)
      PROVE  TypeOK'
  BY <1>8, Fields DEF OnPayment, Asked
<1>9. ASSUME NEW t \in Tasks, NEW i \in DOMAIN rows, Check(t, i)
      PROVE  TypeOK'
  BY <1>9, Fields DEF Check, Asked
<1>10. ASSUME NEW t \in Tasks, IsPaid(t)
      PROVE  TypeOK'
  <2>1. tasks' \in [Tasks -> TaskStates]
    <3> HIDE DEF TypeOK, TaskStates, Idle
    <3> QED BY <1>10, GoesMoves, EndMoves DEF IsPaid
  <2> QED BY <1>10, <2>1 DEF IsPaid
<1>11. ASSUME NEW t \in Tasks, CheckReads(t)
      PROVE  TypeOK'
  <2>1. tasks[t].id \in DOMAIN rows
    BY <1>11 DEF CheckReads
  <2> QED BY <1>11, <2>1, Fields DEF CheckReads, End
<1>12. ASSUME NEW t \in Tasks, Activate(t)
      PROVE  TypeOK'
  <2>1. tasks[t].id \in DOMAIN rows
    BY <1>12 DEF Activate
  <2>2. Replaced(tasks[t].id, Activated(t))
    BY <1>12, <2>1, ActivateRows
  <2>3. rows' \in Seq(Rows) /\ Len(rows') <= MaxRows /\ DOMAIN rows' = DOMAIN rows
    BY <2>2
  <2>4. tasks' \in [Tasks -> TaskStates]
    <3> HIDE DEF TypeOK, TaskStates, Idle
    <3> QED BY <1>12, GoesMoves DEF Activate
  <2> QED BY <1>12, <2>1, <2>3, <2>4 DEF Activate
<1>13. ASSUME NEW t \in Tasks, Edit(t)
      PROVE  TypeOK'
  <2>1. tasks[t].id \in DOMAIN rows
    BY <1>13 DEF Edit
  <2>2. Replaced(tasks[t].id, [rows[tasks[t].id] EXCEPT !.invoice = "claimed"])
    BY <1>13, <2>1, EditRows
  <2>3. rows' \in Seq(Rows) /\ Len(rows') <= MaxRows /\ DOMAIN rows' = DOMAIN rows
    BY <2>2
  <2>4. tasks' \in [Tasks -> TaskStates]
    <3> HIDE DEF TypeOK, TaskStates, Idle
    <3> QED BY <1>13, GoesMoves DEF Edit
  <2> QED BY <1>13, <2>3, <2>4 DEF Edit
<1>14. ASSUME NEW t \in Tasks, Dies(t)
      PROVE  TypeOK'
  <2>1. tasks[t].id \in DOMAIN rows
    BY <1>14 DEF Dies
  <2>2. lost' \subseteq paid
    BY <1>14, <2>1 DEF Dies, Activating
  <2> QED BY <1>14, <2>2 DEF Dies, End
<1>15. CASE UNCHANGED vars
  BY <1>15 DEF vars
<1>16. ASSUME NEW t \in Tasks, Answer(t)
      PROVE  TypeOK'
  BY <1>16 DEF Answer, End
<1>17. CASE Poll
  BY <1>17 DEF Poll
<1>18. CASE Restart
  BY <1>18 DEF Restart, Activating
<1> QED
  BY <1>1, <1>2, <1>3, <1>4, <1>5, <1>6, <1>7, <1>8, <1>9, <1>10, <1>11,
     <1>12, <1>13, <1>14, <1>15, <1>16, <1>17, <1>18 DEF Next

\* What a handler at work knows of its row, after a step.
Knows(w) ==
  /\ w.id \in DOMAIN rows'
  /\ w.at \in {"paid", "activate", "edit", "answer"} => w.id \in paid'
  /\ w.at \in {"ask", "paid", "edit"} => rows'[w.id].provider = "crypto"
  /\ w.at \in {"ask", "paid", "activate"}
       => rows'[w.id].provider \in {"stars", "crypto"}
  /\ w.at \in {"edit", "answer"} => w.id \in started'
  /\ w.at # "idle"

\* One handler moves, to a row that is its own.
LEMMA TaskMoves ==
  ASSUME TypeOK, TasksHold, NEW t \in Tasks, NEW w, Moves(t, w),
         w = Idle \/ Knows(w),
         DOMAIN rows' = DOMAIN rows, paid' = paid, started \subseteq started',
         \A i \in DOMAIN rows : rows'[i].provider = rows[i].provider
  PROVE  TasksHold'
<1> SUFFICES ASSUME NEW u \in Tasks PROVE tasks'[u] = Idle \/ Knows(tasks'[u])
  BY DEF TasksHold, Knows
<1>1. CASE u = t
  BY <1>1 DEF Moves
<1>2. CASE u # t
  <2>1. tasks'[u] = tasks[u]
    BY <1>2 DEF Moves
  <2> QED BY <2>1 DEF TasksHold, Knows
<1> QED BY <1>1, <1>2

\* Every step keeps the handlers on rows that are theirs.
LEMMA TaskStep ==
  ASSUME SubscriptionsAssumption, TypeOK, TasksHold, RowsHold, [Next]_vars
  PROVE  TasksHold'
<1> USE Fields DEF TypeOK, TaskStates, Idle, OthersStay, Added, Restated, TasksHold
<1>1. CASE Tick
  BY <1>1 DEF Tick
<1>2. CASE Revoke
  BY <1>2, RevokeRows DEF Revoke
<1>3. CASE DeleteUser
  BY <1>3, DeleteRows DEF DeleteUser
<1>4. ASSUME NEW p \in {"stars", "crypto"}, NEW d \in Periods, Buy(p, d)
      PROVE  TasksHold'
  BY <1>4, BuyRows DEF Buy
<1>5. ASSUME NEW p \in {"free", "admin"}, NEW d \in Periods, Grant(p, d)
      PROVE  TasksHold'
  BY <1>5, GrantRows DEF Grant
<1>6. ASSUME NEW i \in DOMAIN rows, Invoice(i)
      PROVE  TasksHold'
  BY <1>6, InvoiceFields DEF Invoice
<1>7. ASSUME NEW i \in DOMAIN rows, Pay(i)
      PROVE  TasksHold'
  BY <1>7 DEF Pay
<1>8. ASSUME NEW t \in Tasks, NEW i \in DOMAIN rows, OnPayment(t, i)
      PROVE  TasksHold'
  <2>1. CASE tasks' = tasks
    BY <1>8, <2>1 DEF OnPayment
  <2>2. CASE tasks' # tasks
    <3> DEFINE w == [at |-> "activate", id |-> i, seen |-> rows[i].status]
    <3>1. Moves(t, w)
      BY <1>8, <2>2 DEF OnPayment, Moves
    <3>2. i \in paid /\ rows[i].provider = "stars"
      BY <1>8 DEF OnPayment, RowsHold
    <3>3. Knows(w)
      BY <1>8, <3>2 DEF OnPayment, Knows
    <3> HIDE DEF w, TypeOK, TasksHold
    <3> QED BY <1>8, <3>1, <3>3, TaskMoves DEF OnPayment
  <2> QED BY <2>1, <2>2
<1>9. ASSUME NEW t \in Tasks, NEW i \in DOMAIN rows, Check(t, i)
      PROVE  TasksHold'
  BY <1>9 DEF Check
<1>10. ASSUME NEW t \in Tasks, IsPaid(t)
      PROVE  TasksHold'
  <2>1. CASE tasks[t].id \in paid /\ tasks' = [tasks EXCEPT ![t].at = "paid", ![t].seen = "pending"]
    BY <1>10, <2>1 DEF IsPaid
  <2>2. CASE tasks' = [tasks EXCEPT ![t] = Idle]
    BY <1>10, <2>2 DEF IsPaid
  <2> QED BY <1>10, <2>1, <2>2 DEF IsPaid, Goes, End
<1>11. ASSUME NEW t \in Tasks, CheckReads(t)
      PROVE  TasksHold'
  <2>1. CASE tasks' = [tasks EXCEPT ![t] = Idle]
    BY <1>11, <2>1 DEF CheckReads
  <2>2. CASE tasks' = [tasks EXCEPT ![t].at = "activate",
                                   ![t].seen = rows[tasks[t].id].status]
    BY <1>11, <2>2 DEF CheckReads
  <2> QED BY <1>11, <2>1, <2>2 DEF CheckReads, End
<1>12. ASSUME NEW t \in Tasks, Activate(t)
      PROVE  TasksHold'
  <2> DEFINE i == tasks[t].id
             at == IF rows[i].provider = "crypto" THEN "edit" ELSE "answer"
             w == [at |-> at, id |-> i, seen |-> "pending"]
  <2>1. i \in DOMAIN rows /\ i \in paid
    BY <1>12 DEF Activate
  <2>2. OthersStay(i)
    BY <1>12, <2>1, ActivateFields
  <2>3. paid' = paid /\ started' = started \cup {i}
    BY <1>12 DEF Activate
  <2>4. Moves(t, w)
    BY <1>12, GoesMoves DEF Activate
  <2>5. Knows(w)
    BY <2>1, <2>2, <2>3 DEF Knows
  <2> HIDE DEF w, TypeOK, TasksHold
  <2> QED BY <2>2, <2>3, <2>4, <2>5, TaskMoves
<1>13. ASSUME NEW t \in Tasks, Edit(t)
      PROVE  TasksHold'
  <2> DEFINE i == tasks[t].id
             w == [at |-> "answer", id |-> i, seen |-> "pending"]
  <2>1. i \in DOMAIN rows /\ i \in paid /\ i \in started
    BY <1>13 DEF Edit
  <2>2. OthersStay(i)
    BY <1>13, <2>1, EditFields
  <2>3. Moves(t, w)
    BY <1>13, GoesMoves DEF Edit
  <2>4. Knows(w)
    BY <1>13, <2>1, <2>2 DEF Edit, Knows
  <2> HIDE DEF w, TypeOK, TasksHold
  <2> QED BY <1>13, <2>2, <2>3, <2>4, TaskMoves DEF Edit
<1>14. ASSUME NEW t \in Tasks, Dies(t)
      PROVE  TasksHold'
  BY <1>14 DEF Dies, End
<1>15. CASE UNCHANGED vars
  BY <1>15 DEF vars
<1>16. ASSUME NEW t \in Tasks, Answer(t)
      PROVE  TasksHold'
  BY <1>16 DEF Answer, End
<1>17. CASE Poll
  BY <1>17 DEF Poll
<1>18. CASE Restart
  BY <1>18 DEF Restart, Activating
<1> QED
  BY <1>1, <1>2, <1>3, <1>4, <1>5, <1>6, <1>7, <1>8, <1>9, <1>10, <1>11,
     <1>12, <1>13, <1>14, <1>15, <1>16, <1>17, <1>18 DEF Next

\* Every step keeps paid what is activated, and invoiced what is paid.
LEMMA RowStep ==
  ASSUME SubscriptionsAssumption, TypeOK, TasksHold, RowsHold, [Next]_vars
  PROVE  RowsHold'
<1> USE Fields DEF TypeOK, TaskStates, Idle, OthersStay, Added, Restated, TasksHold,
                   RowsHold
<1>1. CASE Tick
  BY <1>1 DEF Tick
<1>2. CASE Revoke
  BY <1>2, RevokeRows DEF Revoke
<1>3. CASE DeleteUser
  BY <1>3, DeleteRows DEF DeleteUser
<1>4. ASSUME NEW p \in {"stars", "crypto"}, NEW d \in Periods, Buy(p, d)
      PROVE  RowsHold'
  <2>1. Added([provider |-> p, days |-> d, status |-> "pending", ends |-> 0,
               invoice |-> "none"])
    BY <1>4, BuyRows
  <2> DEFINE n == Len(rows) + 1
  <2>2. /\ rows'[n].provider = p /\ rows'[n].status = "pending"
        /\ rows'[n].invoice = "none"
    BY <2>1 DEF Added
  <2>3. /\ DOMAIN rows' = DOMAIN rows \cup {n} /\ n \notin DOMAIN rows
        /\ \A j \in DOMAIN rows : rows'[j] = rows[j]
    BY <2>1 DEF Added
  <2> HIDE DEF n
  <2> QED BY <1>4, <2>2, <2>3 DEF Buy
<1>5. ASSUME NEW p \in {"free", "admin"}, NEW d \in Periods, Grant(p, d)
      PROVE  RowsHold'
  BY <1>5, GrantRows DEF Grant
<1>6. ASSUME NEW i \in DOMAIN rows, Invoice(i)
      PROVE  RowsHold'
  BY <1>6, InvoiceFields DEF Invoice, NextInvoice
<1>7. ASSUME NEW i \in DOMAIN rows, Pay(i)
      PROVE  RowsHold'
  BY <1>7 DEF Pay
<1>8. ASSUME NEW t \in Tasks, NEW i \in DOMAIN rows, OnPayment(t, i)
      PROVE  RowsHold'
  BY <1>8 DEF OnPayment
<1>9. ASSUME NEW t \in Tasks, NEW i \in DOMAIN rows, Check(t, i)
      PROVE  RowsHold'
  BY <1>9 DEF Check
<1>10. ASSUME NEW t \in Tasks, IsPaid(t)
      PROVE  RowsHold'
  BY <1>10 DEF IsPaid, Goes, End
<1>11. ASSUME NEW t \in Tasks, CheckReads(t)
      PROVE  RowsHold'
  BY <1>11 DEF CheckReads, End
<1>12. ASSUME NEW t \in Tasks, Activate(t)
      PROVE  RowsHold'
  <2>1. tasks[t].id \in DOMAIN rows
    BY <1>12 DEF Activate
  <2> QED BY <1>12, <2>1, ActivateFields DEF Activate
<1>13. ASSUME NEW t \in Tasks, Edit(t)
      PROVE  RowsHold'
  <2>1. tasks[t].id \in DOMAIN rows
    BY <1>13 DEF Edit
  <2> DEFINE i == tasks[t].id
  <2>2. OthersStay(i) /\ rows'[i].status = rows[i].status /\ rows'[i].invoice = "claimed"
    <3> HIDE DEF TypeOK, TasksHold, RowsHold, OthersStay
    <3> QED BY <1>13, <2>1, EditFields
  <2>3. /\ UNCHANGED <<paid, due, unconfirmed, started>>
        /\ rows[i].provider = "crypto" /\ i \in started /\ i \in paid
    BY <1>13, <2>1 DEF Edit
  <2>4. /\ i \notin due \cup unconfirmed
        /\ DOMAIN rows' = DOMAIN rows /\ rows'[i].provider = "crypto"
        /\ \A j \in DOMAIN rows \ {i} : rows'[j] = rows[j]
    BY <2>1, <2>2, <2>3
  <2> HIDE DEF i, TypeOK, TasksHold, OthersStay
  <2> QED BY <2>2, <2>3, <2>4
<1>14. ASSUME NEW t \in Tasks, Dies(t)
      PROVE  RowsHold'
  BY <1>14 DEF Dies, End
<1>15. CASE UNCHANGED vars
  BY <1>15 DEF vars
<1>16. ASSUME NEW t \in Tasks, Answer(t)
      PROVE  RowsHold'
  BY <1>16 DEF Answer, End
<1>17. CASE Poll
  BY <1>17 DEF Poll
<1>18. CASE Restart
  BY <1>18 DEF Restart, Activating
<1> QED
  BY <1>1, <1>2, <1>3, <1>4, <1>5, <1>6, <1>7, <1>8, <1>9, <1>10, <1>11,
     <1>12, <1>13, <1>14, <1>15, <1>16, <1>17, <1>18 DEF Next

\* Every step leaves a way to claim what is paid.
LEMMA ClaimStep ==
  ASSUME SubscriptionsAssumption, TypeOK, TasksHold, RowsHold, PaidCanBeClaimed,
         [Next]_vars
  PROVE  PaidCanBeClaimed'
<1> USE Fields DEF TypeOK, TaskStates, Idle, OthersStay, Added, Restated, TasksHold,
                   RowsHold, PaidCanBeClaimed
<1>1. CASE Tick
  BY <1>1 DEF Tick
<1>2. CASE Revoke
  BY <1>2, RevokeRows DEF Revoke
<1>3. CASE DeleteUser
  BY <1>3, DeleteRows DEF DeleteUser
<1>4. ASSUME NEW p \in {"stars", "crypto"}, NEW d \in Periods, Buy(p, d)
      PROVE  PaidCanBeClaimed'
  <2>1. Added([provider |-> p, days |-> d, status |-> "pending", ends |-> 0,
               invoice |-> "none"])
    BY <1>4, BuyRows
  <2>2. \A i \in paid : i \in DOMAIN rows /\ rows'[i] = rows[i]
    BY <2>1
  <2> QED BY <1>4, <2>2 DEF Buy
<1>5. ASSUME NEW p \in {"free", "admin"}, NEW d \in Periods, Grant(p, d)
      PROVE  PaidCanBeClaimed'
  <2>1. Added([provider |-> p, days |-> d, status |-> "active", ends |-> now + d,
               invoice |-> "none"])
    BY <1>5, GrantRows
  <2>2. \A i \in paid : i \in DOMAIN rows /\ rows'[i] = rows[i] /\ started \subseteq started'
    BY <1>5, <2>1 DEF Grant
  <2> QED BY <1>5, <2>2 DEF Grant
<1>6. ASSUME NEW i \in DOMAIN rows, Invoice(i)
      PROVE  PaidCanBeClaimed'
  BY <1>6, InvoiceFields DEF Invoice, NextInvoice
<1>7. ASSUME NEW i \in DOMAIN rows, Pay(i)
      PROVE  PaidCanBeClaimed'
  BY <1>7 DEF Pay
<1>8. ASSUME NEW t \in Tasks, NEW i \in DOMAIN rows, OnPayment(t, i)
      PROVE  PaidCanBeClaimed'
  BY <1>8 DEF OnPayment
<1>9. ASSUME NEW t \in Tasks, NEW i \in DOMAIN rows, Check(t, i)
      PROVE  PaidCanBeClaimed'
  BY <1>9 DEF Check
<1>10. ASSUME NEW t \in Tasks, IsPaid(t)
      PROVE  PaidCanBeClaimed'
  BY <1>10 DEF IsPaid, Goes, End
<1>11. ASSUME NEW t \in Tasks, CheckReads(t)
      PROVE  PaidCanBeClaimed'
  <2> DEFINE i == tasks[t].id
  <2>1. i \in DOMAIN rows /\ rows[i].provider = "crypto"
    BY <1>11 DEF CheckReads
  <2>2. \A j \in paid : j # i => \A u \in Tasks : tasks[u].id = j => tasks'[u].id = j
    <3>1. \A u \in Tasks \ {t} : tasks'[u] = tasks[u]
      BY <1>11 DEF CheckReads, End
    <3> QED BY <3>1
  <2> QED BY <1>11, <2>1, <2>2 DEF CheckReads
<1>12. ASSUME NEW t \in Tasks, Activate(t)
      PROVE  PaidCanBeClaimed'
  <2> DEFINE i == tasks[t].id
  <2>1. i \in DOMAIN rows /\ i \in Ids
    BY <1>12, Fields DEF Activate
  <2>2. OthersStay(i)
    BY <1>12, <2>1, ActivateFields
  <2>3. i \in started' /\ started' = started \cup {i}
    BY <1>12, <2>1 DEF Activate
  <2>4. \A j \in paid : j # i => \A u \in Tasks : tasks[u].id = j => tasks'[u].id = j
    BY <1>12 DEF Activate, Goes
  <2>5. paid' = paid /\ due' = due /\ lost' = lost
    BY <1>12 DEF Activate
  <2>6. ASSUME NEW j \in paid, j # i, j \notin started', rows'[j].status # "deleted"
        PROVE  IF rows'[j].provider = "stars"
                 THEN j \in due \cup lost \/ \E u \in Tasks : tasks'[u].id = j
                 ELSE rows'[j].invoice = "shown"
    <3>1. j \in DOMAIN rows /\ j \in Ids /\ rows'[j] = rows[j] /\ j \notin started
      BY <2>2, <2>3, <2>6, Fields
    <3> QED BY <3>1, <2>4, <2>6
  <2> QED BY <2>3, <2>5, <2>6
<1>13. ASSUME NEW t \in Tasks, Edit(t)
      PROVE  PaidCanBeClaimed'
  <2>1. tasks[t].id \in DOMAIN rows
    BY <1>13 DEF Edit
  <2>2. OthersStay(tasks[t].id) /\ rows'[tasks[t].id].status = rows[tasks[t].id].status
    <3> HIDE DEF TypeOK, TasksHold, RowsHold, OthersStay, PaidCanBeClaimed
    <3> QED BY <1>13, <2>1, EditFields
  <2>3. tasks[t].id \in started
    BY <1>13 DEF Edit
  <2>4. \A u \in Tasks : tasks'[u].id = tasks[u].id
    <3>1. Moves(t, [at |-> "answer", id |-> tasks[t].id, seen |-> "pending"])
      <4> HIDE DEF TypeOK
      <4> QED BY <1>13, GoesMoves DEF Edit
    <3> QED BY <3>1 DEF Moves
  <2> QED BY <1>13, <2>1, <2>2, <2>3, <2>4 DEF Edit
<1>14. ASSUME NEW t \in Tasks, Dies(t)
      PROVE  PaidCanBeClaimed'
  BY <1>14 DEF Dies, End, Activating
<1>15. CASE UNCHANGED vars
  BY <1>15 DEF vars
<1>16. ASSUME NEW t \in Tasks, Answer(t)
      PROVE  PaidCanBeClaimed'
  BY <1>16 DEF Answer, End
<1>17. CASE Poll
  BY <1>17 DEF Poll
<1>18. CASE Restart
  <2>1. UNCHANGED <<rows, paid, started>>
    BY <1>18 DEF Restart
  <2>2. ASSUME NEW j \in paid, j \notin started, rows[j].status # "deleted",
               rows[j].provider = "stars"
        PROVE  j \in due' \cup lost'
    <3>1. CASE j \in unconfirmed \cup due \cup lost
      BY <1>18, <3>1 DEF Restart
    <3>2. ASSUME NEW t \in Tasks, tasks[t].id = j PROVE j \in due' \cup lost'
      <4>1. tasks[t].at = "activate"
        BY <2>2, <3>2
      <4>2. j \in Activating(t)
        BY <2>2, <3>2, <4>1 DEF Activating
      <4> QED BY <1>18, <4>2 DEF Restart
    <3> QED BY <2>2, <3>1, <3>2
  <2> QED BY <2>1, <2>2
<1> QED
  BY <1>1, <1>2, <1>3, <1>4, <1>5, <1>6, <1>7, <1>8, <1>9, <1>10, <1>11,
     <1>12, <1>13, <1>14, <1>15, <1>16, <1>17, <1>18 DEF Next

\* A row keeps its handler, if nobody joins it and none works on it when it is
\* activated.
LEMMA HandlerKept ==
  ASSUME TypeOK, TasksHold, OneHandler, NEW t \in Tasks, NEW w, Moves(t, w),
         w = Idle \/ w.id = tasks[t].id,
         DOMAIN rows' = DOMAIN rows, repeated' = repeated,
         \/ started' = started /\ (w = Idle \/ Working(t))
         \/ started' = started \cup {tasks[t].id} /\ w.at \in {"edit", "answer"}
         \/ started' = started /\ w.at = "answer"
  PROVE  OneHandler'
<1> SUFFICES ASSUME NEW i \in DOMAIN rows \ repeated PROVE Alone(i)'
  BY DEF OneHandler
<1>1. Alone(i) /\ i # 0
  BY Fields, SubscriptionsAssumption DEF OneHandler, Ids
<1>2. \A u \in Tasks : tasks'[u].id = i => tasks[u].id = i
  BY <1>1 DEF Moves, Idle
<1>3. ASSUME NEW u \in Tasks, tasks'[u].id = i, tasks'[u].at \in {"ask", "paid", "activate"}
      PROVE  i \notin started'
  <2>1. tasks[u].id = i /\ Working(u)
    BY <1>1, <1>3 DEF Moves, Idle, Working
  <2>2. u # t \/ started' = started
    BY <1>3 DEF Moves
  <2>3. u # t => tasks[t].id # i
    BY <1>1, <2>1 DEF Alone
  <2> QED BY <1>1, <2>1, <2>2, <2>3 DEF Alone
<1> QED BY <1>1, <1>2, <1>3 DEF Alone, Working

\* A row that is asked for has no handler yet, or is asked for again.
LEMMA HandlerAsked ==
  ASSUME TypeOK, TasksHold, OneHandler, NEW t \in Tasks, NEW j \in DOMAIN rows,
         tasks[t] = Idle, Asked(j), NEW w, w.id = j, Moves(t, w),
         rows' = rows, started' = started
  PROVE  OneHandler'
<1> SUFFICES ASSUME NEW i \in DOMAIN rows, i \notin repeated' PROVE Alone(i)'
  BY DEF OneHandler
<1>1. Alone(i) /\ i # 0
  BY Fields, SubscriptionsAssumption DEF OneHandler, Ids, Asked
<1>2. CASE i = j
  BY <1>1, <1>2 DEF Alone, Asked, Moves, Working, Idle
<1>3. CASE i # j
  <2>1. \A u \in Tasks : tasks'[u].id = i => tasks'[u] = tasks[u]
    BY <1>3 DEF Moves
  <2> QED BY <1>1, <2>1 DEF Alone, Working
<1> QED BY <1>2, <1>3

\* Every step keeps one handler to a row.
LEMMA HandlerStep ==
  ASSUME SubscriptionsAssumption, TypeOK, TasksHold, OneHandler, [Next]_vars
  PROVE  OneHandler'
<1>0. tasks \in [Tasks -> TaskStates]
  BY DEF TypeOK
<1>1. CASE tasks' = tasks /\ started' = started /\ repeated' = repeated
           /\ DOMAIN rows' = DOMAIN rows
  BY <1>1 DEF OneHandler, Alone, Working
<1>2. ASSUME NEW n, n \notin DOMAIN rows, n # 0, DOMAIN rows' = DOMAIN rows \cup {n},
             tasks' = tasks, repeated' = repeated, started' \subseteq started \cup {n}
      PROVE  OneHandler'
  <2>1. \A t \in Tasks : tasks[t].id # n
    BY <1>2 DEF TasksHold, Idle
  <2> QED BY <1>2, <2>1 DEF OneHandler, Alone, Working
<1>3. ASSUME NEW p \in {"stars", "crypto"}, NEW d \in Periods, Buy(p, d)
      PROVE  OneHandler'
  BY <1>2, <1>3, BuyRows DEF Added, Buy, Ids
<1>4. ASSUME NEW p \in {"free", "admin"}, NEW d \in Periods, Grant(p, d)
      PROVE  OneHandler'
  BY <1>2, <1>4, GrantRows DEF Added, Grant, Ids
<1>5. ASSUME NEW i \in DOMAIN rows, Invoice(i)
      PROVE  OneHandler'
  BY <1>1, <1>5, InvoiceFields DEF Invoice, OthersStay
<1>6. ASSUME NEW t \in Tasks, NEW i \in DOMAIN rows, OnPayment(t, i)
      PROVE  OneHandler'
  <2>1. CASE tasks' = tasks
    BY <1>6, <2>1 DEF OnPayment, Asked, OneHandler, Alone, Working
  <2>2. CASE tasks' # tasks
    <3> DEFINE w == [at |-> "activate", id |-> i, seen |-> rows[i].status]
    <3>1. Moves(t, w) /\ w.id = i
      BY <1>0, <1>6, <2>2 DEF OnPayment, Moves
    <3> HIDE DEF w
    <3> QED BY <1>6, <3>1, HandlerAsked DEF OnPayment
  <2> QED BY <2>1, <2>2
<1>7. ASSUME NEW t \in Tasks, NEW i \in DOMAIN rows, Check(t, i)
      PROVE  OneHandler'
  <2> DEFINE w == [at |-> "ask", id |-> i, seen |-> "pending"]
  <2>1. Moves(t, w) /\ w.id = i
    BY <1>7, CheckMoves
  <2> HIDE DEF w
  <2> QED BY <1>7, <2>1, HandlerAsked DEF Check
<1>8. ASSUME NEW t \in Tasks, End(t), started' = started, repeated' = repeated,
             DOMAIN rows' = DOMAIN rows
      PROVE  OneHandler'
  <2>1. Moves(t, Idle)
    BY <1>0, <1>8 DEF End, Moves
  <2> QED BY <1>8, <2>1, HandlerKept
<1>9. ASSUME NEW t \in Tasks, IsPaid(t)
      PROVE  OneHandler'
  <2>1. CASE Goes(t, "paid")
    <3> DEFINE w == [at |-> "paid", id |-> tasks[t].id, seen |-> "pending"]
    <3>1. Moves(t, w) /\ w.id = tasks[t].id
      BY <1>0, <2>1 DEF Goes, Moves, TaskStates
    <3> HIDE DEF w
    <3> QED BY <1>9, <3>1, HandlerKept DEF IsPaid, Working
  <2> QED BY <1>8, <1>9, <2>1 DEF IsPaid
<1>10. ASSUME NEW t \in Tasks, CheckReads(t)
      PROVE  OneHandler'
  <2>1. CASE ~End(t)
    <3> DEFINE w == [at |-> "activate", id |-> tasks[t].id,
                     seen |-> rows[tasks[t].id].status]
    <3>1. Moves(t, w) /\ w.id = tasks[t].id
      BY <1>0, <1>10, <2>1 DEF CheckReads, Moves, TaskStates
    <3> HIDE DEF w
    <3> QED BY <1>10, <3>1, HandlerKept DEF CheckReads, Working
  <2> QED BY <1>8, <1>10, <2>1 DEF CheckReads
<1>11. ASSUME NEW t \in Tasks, Activate(t)
      PROVE  OneHandler'
  <2> DEFINE at == IF rows[tasks[t].id].provider = "crypto" THEN "edit" ELSE "answer"
             w  == [at |-> at, id |-> tasks[t].id, seen |-> "pending"]
  <2>1. Moves(t, w) /\ w.id = tasks[t].id /\ w.at \in {"edit", "answer"}
    BY <1>0, <1>11 DEF Activate, Goes, Moves, TaskStates
  <2>2. tasks[t].id \in DOMAIN rows
    BY <1>11 DEF Activate, TasksHold, Idle
  <2>3. DOMAIN rows' = DOMAIN rows
    BY <1>11, <2>2, ActivateFields DEF OthersStay
  <2> HIDE DEF w
  <2> QED BY <1>11, <2>1, <2>3, HandlerKept DEF Activate
<1>12. ASSUME NEW t \in Tasks, Edit(t)
      PROVE  OneHandler'
  <2> DEFINE w == [at |-> "answer", id |-> tasks[t].id, seen |-> "pending"]
  <2>1. Moves(t, w) /\ w.id = tasks[t].id /\ w.at = "answer"
    BY <1>0, <1>12 DEF Edit, Goes, Moves, TaskStates
  <2>2. tasks[t].id \in DOMAIN rows
    BY <1>12 DEF Edit, TasksHold, Idle
  <2>3. DOMAIN rows' = DOMAIN rows
    BY <1>12, <2>2, EditFields DEF OthersStay
  <2> HIDE DEF w
  <2> QED BY <1>12, <2>1, <2>3, HandlerKept DEF Edit
<1>13. CASE Restart
  <2>1. \A t \in Tasks : tasks'[t] = Idle
    BY <1>13 DEF Restart
  <2>2. \A i \in DOMAIN rows : i # 0
    BY Fields DEF Ids
  <2> QED BY <1>13, <2>1, <2>2 DEF Restart, OneHandler, Alone, Working, Idle
<1>14. CASE Revoke
  BY <1>1, <1>14, RevokeRows DEF Revoke, Restated
<1>15. CASE DeleteUser
  BY <1>1, <1>15, DeleteRows DEF DeleteUser, Restated
<1>16. ASSUME NEW t \in Tasks, Answer(t) \/ Dies(t)
      PROVE  OneHandler'
  BY <1>8, <1>16 DEF Answer, Dies
<1>17. CASE Tick \/ Poll \/ UNCHANGED vars \/ \E i \in DOMAIN rows : Pay(i)
  BY <1>1, <1>17 DEF Tick, Poll, vars, Pay
<1> QED
  BY <1>3, <1>4, <1>5, <1>6, <1>7, <1>9, <1>10, <1>11, <1>12, <1>13, <1>14, <1>15,
     <1>16, <1>17 DEF Next

-----------------------------------------------------------------------------
(* The invariant. *)

\* So the invariant is inductive,
LEMMA Inductive ==
  ASSUME SubscriptionsAssumption, IInv, [Next]_vars
  PROVE  IInv'
BY TypeStep, TaskStep, RowStep, ClaimStep, HandlerStep DEF IInv

\* holds at the start,
LEMMA Initially == ASSUME SubscriptionsAssumption, Init PROVE IInv
<1>1. rows \in Seq(Rows) /\ Len(rows) = 0 /\ DOMAIN rows = {}
  BY EmptySeq DEF Init
<1>2. Idle \in TaskStates
  BY DEF Idle, TaskStates, SubscriptionsAssumption
<1>3. TypeOK
  BY <1>1, <1>2 DEF Init, TypeOK, SubscriptionsAssumption
<1>4. TasksHold /\ RowsHold /\ PaidCanBeClaimed
  BY <1>1 DEF Init, TasksHold, RowsHold, PaidCanBeClaimed
<1>5. OneHandler
  BY <1>1 DEF OneHandler
<1> QED BY <1>3, <1>4, <1>5 DEF IInv

\* and always.
LEMMA Invariance == SubscriptionsAssumption /\ Spec => []IInv
<1>1. SubscriptionsAssumption /\ Init => IInv
  BY Initially
<1>2. SubscriptionsAssumption /\ IInv /\ [Next]_vars => IInv'
  BY Inductive
<1> QED BY <1>1, <1>2, SubscriptionsAssumption, PTL DEF Spec

-----------------------------------------------------------------------------
(* The theorems. *)

\* Values keep their types, whatever the number of handlers, rows and periods.
THEOREM SubscriptionsTypeCorrect == Spec => []TypeOK
<1>1. IInv => TypeOK
  BY DEF IInv
<1> QED BY <1>1, Invariance, SubscriptionsAssumption, PTL

\* Access through a bought row is paid for.
THEOREM AccessBacked == Spec => []AccessIsBacked
<1>1. IInv => AccessIsBacked
  BY DEF IInv, RowsHold, AccessIsBacked, Live
<1> QED BY <1>1, Invariance, SubscriptionsAssumption, PTL

\* A payment not yet answered with a period still can be.
THEOREM PaidClaimable == Spec => []PaidCanBeClaimed
<1>1. IInv => PaidCanBeClaimed
  BY DEF IInv
<1> QED BY <1>1, Invariance, SubscriptionsAssumption, PTL

\* Only an activation makes a row active, and it finds the row not started.
LEMMA RevokedStep ==
  ASSUME SubscriptionsAssumption, IInv, [Next]_vars,
         NEW j \in DOMAIN rows \ repeated, rows[j].status = "cancelled"
  PROVE  rows'[j].status # "active"
<1> USE DEF IInv
<1>1. j \in started /\ rows[j] \in Rows
  BY RowType DEF RowsHold
<1>2. CASE rows' = rows
  BY <1>2
<1>3. CASE Revoke
  BY <1>3, RevokeRows DEF Restated
<1>4. CASE DeleteUser
  BY <1>4, DeleteRows DEF Restated
<1>5. ASSUME NEW p \in {"stars", "crypto"}, NEW d \in Periods, Buy(p, d)
      PROVE  rows'[j].status # "active"
  BY <1>5, BuyRows DEF Added
<1>6. ASSUME NEW p \in {"free", "admin"}, NEW d \in Periods, Grant(p, d)
      PROVE  rows'[j].status # "active"
  BY <1>6, GrantRows DEF Added
<1>7. ASSUME NEW i \in DOMAIN rows, Invoice(i)
      PROVE  rows'[j].status # "active"
  BY <1>7, InvoiceFields DEF OthersStay
<1>8. ASSUME NEW t \in Tasks, Activate(t)
      PROVE  rows'[j].status # "active"
  <2>1. tasks[t].id \in DOMAIN rows /\ tasks[t].id # j
    BY <1>1, <1>8 DEF Activate, TasksHold, Idle, OneHandler, Alone, Working
  <2> QED BY <1>8, <2>1, ActivateFields DEF OthersStay
<1>9. ASSUME NEW t \in Tasks, Edit(t)
      PROVE  rows'[j].status # "active"
  <2>1. tasks[t].id \in DOMAIN rows
    BY <1>9 DEF Edit, TasksHold, Idle
  <2> QED BY <1>9, <2>1, EditFields DEF OthersStay
<1> QED
  BY <1>2, <1>3, <1>4, <1>5, <1>6, <1>7, <1>8, <1>9 DEF Next, vars, Tick, Pay,
     OnPayment, Check, IsPaid, CheckReads, Dies, Answer, Poll, Restart

\* A revoked subscription comes back only when it is asked for again, however
\* payments and checks that were under way interleave with the revocation.
THEOREM RevokedStays == Spec => RevocationHolds
<1>1. SubscriptionsAssumption /\ IInv /\ [Next]_vars =>
        [\A i \in DOMAIN rows \ repeated :
           rows[i].status = "cancelled" => rows'[i].status # "active"]_vars
  BY RevokedStep
<1> QED
  BY <1>1, Invariance, SubscriptionsAssumption, PTL DEF Spec, RevocationHolds

-----------------------------------------------------------------------------
(* The contract. *)

\* What a handler read of a row that was no longer pending is no longer pending.
SeenHolds ==
  \A t \in Tasks :
    tasks[t].at = "activate" /\ tasks[t].seen # "pending"
      => rows[tasks[t].id].status # "pending"

\* No row becomes pending again.
Onward ==
  \A i \in DOMAIN rows :
    i \in DOMAIN rows' /\ (rows'[i].status = "pending" => rows[i].status = "pending")

\* No step makes a row pending but its purchase.
LEMMA OnwardStep ==
  ASSUME SubscriptionsAssumption, TypeOK, TasksHold, [Next]_vars
  PROVE  Onward
<1> USE DEF Onward
<1>2. CASE rows' = rows
  BY <1>2
<1>3. CASE Revoke
  BY <1>3, RevokeRows DEF Restated
<1>4. CASE DeleteUser
  BY <1>4, DeleteRows DEF Restated
<1>5. ASSUME NEW p \in {"stars", "crypto"}, NEW d \in Periods, Buy(p, d)
      PROVE  Onward
  BY <1>5, BuyRows DEF Added
<1>6. ASSUME NEW p \in {"free", "admin"}, NEW d \in Periods, Grant(p, d)
      PROVE  Onward
  BY <1>6, GrantRows DEF Added
<1>7. ASSUME NEW i \in DOMAIN rows, Invoice(i)
      PROVE  Onward
  BY <1>7, InvoiceFields DEF OthersStay
<1>8. ASSUME NEW t \in Tasks, Activate(t)
      PROVE  Onward
  <2>1. tasks[t].id \in DOMAIN rows
    BY <1>8 DEF Activate, TasksHold, Idle
  <2> QED BY <1>8, <2>1, ActivateFields DEF OthersStay
<1>9. ASSUME NEW t \in Tasks, Edit(t)
      PROVE  Onward
  <2>1. tasks[t].id \in DOMAIN rows
    BY <1>9 DEF Edit, TasksHold, Idle
  <2> QED BY <1>9, <2>1, EditFields DEF OthersStay
<1> QED
  BY <1>2, <1>3, <1>4, <1>5, <1>6, <1>7, <1>8, <1>9 DEF Next, vars, Tick, Pay,
     OnPayment, Check, IsPaid, CheckReads, Dies, Answer, Poll, Restart

\* So what handlers read stays true.
LEMMA SeenStep ==
  ASSUME SubscriptionsAssumption, TypeOK, TasksHold, SeenHolds, [Next]_vars
  PROVE  SeenHolds'
<1>1. Onward
  BY OnwardStep
<1>2. tasks \in [Tasks -> TaskStates]
  BY DEF TypeOK
<1> SUFFICES ASSUME NEW u \in Tasks, tasks'[u].at = "activate",
                    tasks'[u].seen # "pending"
             PROVE  rows'[tasks'[u].id].status # "pending"
  BY DEF SeenHolds
<1>3. CASE tasks'[u] = tasks[u]
  <2>1. tasks[u].id \in DOMAIN rows
    BY <1>3 DEF TasksHold, Idle
  <2> QED BY <1>1, <1>3, <2>1 DEF SeenHolds, Onward
<1>4. ASSUME NEW t \in Tasks, NEW i \in DOMAIN rows, OnPayment(t, i)
      PROVE  tasks'[u] = tasks[u] \/ rows'[tasks'[u].id].status # "pending"
  BY <1>2, <1>4 DEF OnPayment
<1>5. ASSUME NEW t \in Tasks, NEW i \in DOMAIN rows, Check(t, i)
      PROVE  tasks'[u] = tasks[u]
  BY <1>2, <1>5 DEF Check, TaskStates
<1>6. ASSUME NEW t \in Tasks, IsPaid(t)
      PROVE  tasks'[u] = tasks[u]
  BY <1>2, <1>6 DEF IsPaid, Goes, End, TaskStates, Idle
<1>7. ASSUME NEW t \in Tasks, CheckReads(t)
      PROVE  tasks'[u] = tasks[u] \/ rows'[tasks'[u].id].status # "pending"
  BY <1>2, <1>7 DEF CheckReads, End, TaskStates, Idle
<1>8. ASSUME NEW t \in Tasks, Activate(t)
      PROVE  tasks'[u] = tasks[u]
  BY <1>2, <1>8 DEF Activate, Goes, End, TaskStates, Idle
<1>9. ASSUME NEW t \in Tasks, Edit(t) \/ Answer(t) \/ Dies(t)
      PROVE  tasks'[u] = tasks[u]
  BY <1>2, <1>9 DEF Edit, Answer, Dies, Goes, End, TaskStates, Idle
<1>10. CASE tasks' = tasks
  BY <1>3, <1>10
<1>11. CASE Restart
  BY <1>11 DEF Restart, Idle
<1> QED
  BY <1>3, <1>4, <1>5, <1>6, <1>7, <1>8, <1>9, <1>10, <1>11 DEF Next, vars, Tick,
     Revoke, DeleteUser, Buy, Grant, Invoice, Pay, Poll

\* Every row keeps what it is for and when it ends.
RowsKept ==
  /\ DOMAIN rows' = DOMAIN rows
  /\ \A i \in DOMAIN rows :
       /\ rows'[i].provider = rows[i].provider
       /\ rows'[i].days = rows[i].days
       /\ rows'[i].ends = rows[i].ends

\* An invoice step leaves all of it, and the status.
LEMMA InvoiceKeeps ==
  ASSUME TypeOK, NEW i \in DOMAIN rows, Invoice(i)
  PROVE  RowsKept /\ \A j \in DOMAIN rows : rows'[j].status = rows[j].status
<1>1. Replaced(i, [rows[i] EXCEPT !.invoice = NextInvoice(i)])
  BY InvoiceRows
<1>2. rows[i] \in Rows
  BY RowType
<1>3. rows'[i] = [rows[i] EXCEPT !.invoice = NextInvoice(i)]
  BY <1>1 DEF Replaced
<1> HIDE DEF NextInvoice
<1> QED BY <1>1, <1>2, <1>3 DEF Replaced, RowsKept, Rows

\* So does the loss of the buttons.
LEMMA EditKeeps ==
  ASSUME TypeOK, NEW t \in Tasks, Edit(t), tasks[t].id \in DOMAIN rows
  PROVE  RowsKept /\ \A j \in DOMAIN rows : rows'[j].status = rows[j].status
<1>1. Replaced(tasks[t].id, [rows[tasks[t].id] EXCEPT !.invoice = "claimed"])
  BY EditRows
<1>2. rows[tasks[t].id] \in Rows
  BY RowType
<1>3. rows'[tasks[t].id] = [rows[tasks[t].id] EXCEPT !.invoice = "claimed"]
  BY <1>1 DEF Replaced
<1> QED BY <1>1, <1>2, <1>3 DEF Replaced, RowsKept, Rows

\* A revocation ends the active rows.
LEMMA RevokeKeeps ==
  ASSUME TypeOK, Revoke
  PROVE  /\ RowsKept
         /\ \A i \in DOMAIN rows :
              rows'[i].status = IF rows[i].status = "active" THEN "cancelled"
                                ELSE rows[i].status
BY RowType DEF Revoke, Cancelled, RowsKept, Rows

\* A deletion ends every row.
LEMMA DeleteKeeps ==
  ASSUME TypeOK, DeleteUser
  PROVE  RowsKept /\ \A i \in DOMAIN rows : rows'[i].status = "deleted"
BY RowType DEF DeleteUser, RowsKept, Rows

\* An activation moves the end of its row.
LEMMA ActivateMoves ==
  ASSUME SubscriptionsAssumption, TypeOK, NEW t \in Tasks, Activate(t),
         NEW i \in DOMAIN rows, i = tasks[t].id
  PROVE  /\ OthersStay(i)
         /\ rows'[i].days = rows[i].days
         /\ rows'[i].ends = now + rows[i].days
         /\ rows'[i].status =
              IF tasks[t].seen = "active" THEN rows[i].status ELSE "active"
<1>1. Replaced(i, Activated(t))
  BY ActivateRows
<1>2. rows'[i] = Activated(t)
  BY <1>1 DEF Replaced
<1> QED BY <1>1, <1>2, RowType DEF Replaced, OthersStay, Rows, Activated

\* A row that gives access, or gave it, has an end.
EndsLater ==
  \A i \in DOMAIN rows : rows[i].status = "active" => rows[i].ends # 0

\* Every step gives what it activates an end after now.
LEMMA EndsStep ==
  ASSUME SubscriptionsAssumption, TypeOK, TasksHold, EndsLater, [Next]_vars
  PROVE  EndsLater'
<1>0. now \in Nat /\ \A d \in Periods : d \in Nat \ {0}
  BY DEF TypeOK, SubscriptionsAssumption
<1>1. CASE rows' = rows
  BY <1>1 DEF EndsLater
<1>2. CASE Revoke
  BY <1>2, RevokeKeeps DEF RowsKept, EndsLater
<1>3. CASE DeleteUser
  BY <1>3, DeleteKeeps DEF RowsKept, EndsLater
<1>4. ASSUME NEW p \in {"stars", "crypto"}, NEW d \in Periods, Buy(p, d)
      PROVE  EndsLater'
  <2>1. Added([provider |-> p, days |-> d, status |-> "pending", ends |-> 0,
               invoice |-> "none"])
    BY <1>4, BuyRows
  <2> QED BY <2>1 DEF Added, EndsLater
<1>5. ASSUME NEW p \in {"free", "admin"}, NEW d \in Periods, Grant(p, d)
      PROVE  EndsLater'
  <2>1. now + d # 0
    BY <1>0
  <2>2. Added([provider |-> p, days |-> d, status |-> "active", ends |-> now + d,
               invoice |-> "none"])
    BY <1>5, GrantRows
  <2> QED BY <2>1, <2>2 DEF Added, EndsLater
<1>6. ASSUME NEW i \in DOMAIN rows, Invoice(i)
      PROVE  EndsLater'
  BY <1>6, InvoiceKeeps DEF RowsKept, EndsLater
<1>7. ASSUME NEW t \in Tasks, Activate(t)
      PROVE  EndsLater'
  <2>1. tasks[t].id \in DOMAIN rows
    BY <1>7 DEF Activate, TasksHold, Idle
  <2>2. rows[tasks[t].id].days \in Periods
    BY <2>1, RowType DEF Rows
  <2>3. now + rows[tasks[t].id].days # 0
    <3> DEFINE d == rows[tasks[t].id].days
    <3>1. d \in Nat \ {0}
      BY <1>0, <2>2
    <3> HIDE DEF d
    <3>2. now + d # 0
      BY <1>0, <3>1
    <3> QED BY <3>2 DEF d
  <2> QED BY <1>7, <2>1, <2>3, ActivateMoves DEF OthersStay, EndsLater
<1>8. ASSUME NEW t \in Tasks, Edit(t)
      PROVE  EndsLater'
  <2>1. tasks[t].id \in DOMAIN rows
    BY <1>8 DEF Edit, TasksHold, Idle
  <2> QED BY <1>8, <2>1, EditKeeps DEF RowsKept, EndsLater
<1> QED
  BY <1>1, <1>2, <1>3, <1>4, <1>5, <1>6, <1>7, <1>8 DEF Next, vars, Tick, Pay,
     OnPayment, Check, IsPaid, CheckReads, Dies, Answer, Poll, Restart

\* What is for sale, and for how long, is the rows' alone.
LEMMA KeptShown ==
  ASSUME RowsKept
  PROVE  Length' = Length /\ Offered' = Offered
BY DEF RowsKept, Length, Offered

\* What the contract sees of the rows.
RowsUnseen ==
  /\ Length' = Length /\ Offered' = Offered /\ Ends' = Ends
  /\ WithStatus("cancelled")' = WithStatus("cancelled")
  /\ WithStatus("deleted")' = WithStatus("deleted")

\* The steps whose rows the contract does not see.
LEMMA UnseenStep ==
  ASSUME rows' = rows \/ (RowsKept /\ \A j \in DOMAIN rows : rows'[j].status = rows[j].status)
  PROVE  RowsUnseen
<1>1. CASE rows' = rows
  BY <1>1 DEF Length, Offered, Ends, WithStatus, RowsUnseen
<1>2. CASE RowsKept /\ \A j \in DOMAIN rows : rows'[j].status = rows[j].status
  BY <1>2, KeptShown DEF RowsKept, Ends, WithStatus, RowsUnseen
<1> QED BY <1>1, <1>2

\* The claim of a handler.
ClaimOf(w) == IF w.at \in {"ask", "paid", "activate"} THEN w.id ELSE 0

\* A handler that moves moves its claim.
LEMMA ClaimMoves ==
  ASSUME NEW t \in Tasks, NEW w, Moves(t, w)
  PROVE  Claim' = [Claim EXCEPT ![t] = ClaimOf(w)]
BY DEF Claim, ClaimOf, Moves

\* The claims stay while the handlers do.
LEMMA ClaimsStay == ASSUME tasks' = tasks PROVE Claim' = Claim
BY DEF Claim

\* A handler that ends, or has started a period, drops its claim if it has one.
LEMMA DropsOne ==
  ASSUME NEW t \in Tasks, NEW w, Moves(t, w), ClaimOf(w) = 0,
         RowsUnseen, UNCHANGED <<now, paid>>
  PROVE  Contract!Next
<1>1. Claim' = [Claim EXCEPT ![t] = ClaimOf(w)]
  BY ClaimMoves
<1>2. Claim' = [c \in Tasks |-> IF c \in {t} THEN 0 ELSE Claim[c]]
  BY <1>1 DEF Claim
<1>3. Contract!Drop({t})
  BY <1>2 DEF RowsUnseen, Contract!Drop
<1> QED BY <1>3 DEF Contract!Next

\* A handler that goes on with its claim is not seen.
LEMMA GoesUnseen ==
  ASSUME NEW t \in Tasks, NEW w, Moves(t, w), ClaimOf(w) = Claim[t],
         RowsUnseen, UNCHANGED <<now, paid>>
  PROVE  UNCHANGED Contract!vars
<1>1. Claim' = [Claim EXCEPT ![t] = Claim[t]]
  BY ClaimMoves
<1>2. Claim' = Claim
  BY <1>1 DEF Claim
<1> QED BY <1>2 DEF RowsUnseen, Contract!vars

\* A request claims its row.
LEMMA RequestClaims ==
  ASSUME SubscriptionsAssumption, TypeOK, NEW t \in Tasks, NEW i \in DOMAIN rows,
         NEW w, Moves(t, w), ClaimOf(w) = i, tasks[t] = Idle,
         rows[i].provider \in {"stars", "crypto"}, rows[i].status # "deleted",
         rows' = rows, UNCHANGED <<now, paid>>
  PROVE  Contract!Next
<1>1. i \in Ids /\ i \in Offered \ WithStatus("deleted")
  BY Fields DEF Offered, WithStatus
<1>2. Claim[t] = 0 /\ Claim' = [Claim EXCEPT ![t] = i]
  BY ClaimMoves DEF Claim, Idle
<1>3. Contract!MakeClaim(t, i)
  BY <1>1, <1>2, UnseenStep DEF RowsUnseen, Contract!MakeClaim
<1> QED BY <1>1, <1>3 DEF Contract!Next

\* A purchase is an offer.
LEMMA BuyOffers ==
  ASSUME SubscriptionsAssumption, TypeOK, NEW p \in {"stars", "crypto"},
         NEW d \in Periods, Buy(p, d)
  PROVE  Contract!Offer(Len(rows) + 1, d)
<1> DEFINE n == Len(rows) + 1
<1>1. Added([provider |-> p, days |-> d, status |-> "pending", ends |-> 0,
             invoice |-> "none"])
  BY BuyRows
<1>2. /\ n \in Ids /\ n \notin DOMAIN rows /\ DOMAIN rows' = DOMAIN rows \cup {n}
      /\ \A j \in DOMAIN rows : rows'[j] = rows[j]
      /\ rows'[n].provider = p /\ rows'[n].days = d /\ rows'[n].status = "pending"
  BY <1>1 DEF Added
<1> HIDE DEF n
<1>3. Length[n] = 0 /\ Length' = [Length EXCEPT ![n] = d]
  BY <1>2 DEF Length
<1>4. Offered' = Offered \cup {n}
  BY <1>2 DEF Offered
<1>5. Ends' = Ends
  BY <1>2 DEF Ends
<1>6. /\ WithStatus("cancelled")' = WithStatus("cancelled")
      /\ WithStatus("deleted")' = WithStatus("deleted")
  BY <1>2 DEF WithStatus
<1>7. Claim' = Claim /\ UNCHANGED <<now, paid>>
  BY ClaimsStay DEF Buy
<1>8. Contract!Offer(n, d)
  BY <1>3, <1>4, <1>5, <1>6, <1>7 DEF Contract!Offer
<1> QED BY <1>8 DEF n

\* A grant is a gift.
LEMMA GrantGives ==
  ASSUME SubscriptionsAssumption, TypeOK, NEW p \in {"free", "admin"},
         NEW d \in Periods, Grant(p, d)
  PROVE  Contract!Give(Len(rows) + 1, d)
<1> DEFINE n == Len(rows) + 1
<1>1. Added([provider |-> p, days |-> d, status |-> "active", ends |-> now + d,
             invoice |-> "none"])
  BY GrantRows
<1>2. /\ n \in Ids /\ n \notin DOMAIN rows /\ DOMAIN rows' = DOMAIN rows \cup {n}
      /\ \A j \in DOMAIN rows : rows'[j] = rows[j]
      /\ rows'[n].provider = p /\ rows'[n].days = d
      /\ rows'[n].status = "active" /\ rows'[n].ends = now + d
  BY <1>1 DEF Added
<1> HIDE DEF n
<1>3. Length[n] = 0 /\ Length' = [Length EXCEPT ![n] = d]
  BY <1>2 DEF Length
<1>4. Offered' = Offered
  BY <1>2 DEF Offered
<1>5. Ends' = [Ends EXCEPT ![n] = now + d]
  BY <1>2 DEF Ends
<1>6. /\ WithStatus("cancelled")' = WithStatus("cancelled")
      /\ WithStatus("deleted")' = WithStatus("deleted")
  BY <1>2 DEF WithStatus
<1>7. Claim' = Claim /\ UNCHANGED <<now, paid>>
  BY ClaimsStay DEF Grant
<1>8. Contract!Give(n, d)
  BY <1>3, <1>4, <1>5, <1>6, <1>7 DEF Contract!Give
<1> QED BY <1>8 DEF n

\* A payment pays what is for sale: nothing else is invoiced.
LEMMA PayPays ==
  ASSUME SubscriptionsAssumption, TypeOK, RowsHold, NEW i \in DOMAIN rows, Pay(i)
  PROVE  Contract!Pay(i)
<1>1. i \in Offered \ paid
  BY Fields DEF Pay, RowsHold, Offered
<1>2. RowsUnseen /\ Claim' = Claim
  BY UnseenStep, ClaimsStay DEF Pay
<1> QED BY <1>1, <1>2 DEF Pay, RowsUnseen, Contract!Pay

\* An activation starts a paid row's period, or finds the row revoked.
LEMMA ActivateStarts ==
  ASSUME SubscriptionsAssumption, IInv, SeenHolds, NEW t \in Tasks, Activate(t)
  PROVE  Contract!Next
<1> DEFINE i == tasks[t].id
           at == IF rows[i].provider = "crypto" THEN "edit" ELSE "answer"
           w == [at |-> at, id |-> i, seen |-> "pending"]
<1>1. /\ TypeOK /\ i \in DOMAIN rows /\ i \in paid /\ i \in Ids
      /\ tasks[t].at = "activate" /\ rows[i].status # "deleted"
  BY Fields DEF IInv, Activate, TasksHold, Idle
<1>2. /\ OthersStay(i) /\ rows'[i].days = rows[i].days
      /\ rows'[i].ends = now + rows[i].days
      /\ rows'[i].status = IF tasks[t].seen = "active" THEN rows[i].status ELSE "active"
  BY <1>1, ActivateMoves
<1>3. Moves(t, w) /\ ClaimOf(w) = 0
  BY <1>1 DEF Activate, Goes, Moves, TypeOK, TaskStates, ClaimOf
<1>4. UNCHANGED <<now, paid>>
  BY DEF Activate
<1>5. Claim[t] = i /\ Claim' = [Claim EXCEPT ![t] = 0]
  BY <1>1, <1>3, ClaimMoves DEF Claim
<1>6. Length' = Length /\ Offered' = Offered
  BY <1>2, <1>1 DEF OthersStay, Length, Offered
<1>7. WithStatus("deleted")' = WithStatus("deleted") /\ i \notin WithStatus("deleted")
  BY <1>1, <1>2 DEF OthersStay, WithStatus
<1> HIDE DEF w
<1>8. CASE rows'[i].status = "active"
  <2>1. Ends' = [Ends EXCEPT ![i] = now + Length[i]]
    BY <1>1, <1>2, <1>8 DEF OthersStay, Ends, Length
  <2>2. WithStatus("cancelled")' = WithStatus("cancelled") \ {i}
    BY <1>1, <1>2, <1>8 DEF OthersStay, WithStatus
  <2>3. Contract!Start(t, i)
    BY <1>1, <1>4, <1>5, <1>6, <1>7, <2>1, <2>2 DEF Contract!Start
  <2> QED BY <1>1, <2>3 DEF Contract!Next
<1>9. CASE rows'[i].status # "active"
  <2>1. rows[i].status = "cancelled" /\ rows'[i].status = "cancelled"
    BY <1>1, <1>2, <1>9, Fields DEF SeenHolds, Activate
  <2>2. Ends' = Ends /\ WithStatus("cancelled")' = WithStatus("cancelled")
    BY <1>1, <1>2, <1>9, <2>1 DEF OthersStay, Ends, WithStatus
  <2> QED BY <1>3, <1>4, <1>6, <1>7, <2>2, DropsOne DEF RowsUnseen
<1> QED BY <1>8, <1>9

\* A revocation ends what runs.
LEMMA RevokeRevokes ==
  ASSUME SubscriptionsAssumption, TypeOK, RowsHold, EndsLater, Revoke
  PROVE  Contract!Revoke
<1>1. RowsKept /\ \A i \in DOMAIN rows :
        rows'[i].status = IF rows[i].status = "active" THEN "cancelled"
                          ELSE rows[i].status
  BY RevokeKeeps
<1>2. Length' = Length /\ Offered' = Offered
  BY <1>1, KeptShown
<1>3. Ends' = Contract!NoAccess
  BY <1>1 DEF RowsKept, Ends, Contract!NoAccess
<1>4. \A i \in Ids : Ends[i] # 0 <=> (i \in DOMAIN rows /\ rows[i].status = "active")
  BY DEF Ends, EndsLater
<1>5. Ends # Contract!NoAccess
  <2>1. PICK i \in DOMAIN rows : rows[i].status = "active"
    BY DEF Revoke
  <2> QED BY <1>4, <2>1, Fields DEF Contract!NoAccess
<1>6. WithStatus("cancelled")' = WithStatus("cancelled") \cup {i \in Ids : Ends[i] # 0}
  BY <1>1, <1>4, Fields DEF RowsKept, WithStatus
<1>7. WithStatus("deleted")' = WithStatus("deleted")
  BY <1>1 DEF RowsKept, WithStatus
<1>8. Claim' = Claim /\ UNCHANGED <<now, paid>>
  BY ClaimsStay DEF Revoke
<1> QED BY <1>2, <1>3, <1>5, <1>6, <1>7, <1>8 DEF Contract!Revoke

\* A deletion ends everything, for good.
LEMMA DeleteDeletes ==
  ASSUME SubscriptionsAssumption, TypeOK, DeleteUser
  PROVE  Contract!Delete
<1>1. RowsKept /\ \A i \in DOMAIN rows : rows'[i].status = "deleted"
  BY DeleteKeeps
<1>2. Length' = Length /\ Offered' = Offered
  BY <1>1, KeptShown
<1>3. Ends' = Contract!NoAccess /\ WithStatus("cancelled")' = {}
  BY <1>1 DEF RowsKept, Ends, WithStatus, Contract!NoAccess
<1>4. \A i \in Ids : Length[i] # 0 <=> i \in DOMAIN rows
  BY RowType DEF Length, Rows, SubscriptionsAssumption
<1>5. WithStatus("deleted")' = {i \in Ids : Length[i] # 0}
  BY <1>1, <1>4, Fields DEF RowsKept, WithStatus
<1>6. Claim' = Claim /\ UNCHANGED <<now, paid>>
  BY ClaimsStay DEF DeleteUser
<1> QED BY <1>2, <1>3, <1>5, <1>6 DEF Contract!Delete

\* Every step is one the contract allows.
LEMMA ContractStep ==
  ASSUME SubscriptionsAssumption, IInv, SeenHolds, EndsLater, [Next]_vars
  PROVE  [Contract!Next]_Contract!vars
<1>0. TypeOK /\ TasksHold /\ RowsHold /\ tasks \in [Tasks -> TaskStates]
  BY DEF IInv, TypeOK
<1>1. CASE Tick
  BY <1>1, UnseenStep, ClaimsStay DEF Tick, RowsUnseen, Contract!Next, Contract!Tick
<1>2. CASE Revoke
  BY <1>0, <1>2, RevokeRevokes DEF Contract!Next
<1>3. CASE DeleteUser
  BY <1>0, <1>3, DeleteDeletes DEF Contract!Next
<1>4. ASSUME NEW p \in {"stars", "crypto"}, NEW d \in Periods, Buy(p, d)
      PROVE  Contract!Next
  <2>1. Len(rows) + 1 \in Ids
    BY <1>0, <1>4, BuyRows DEF Added
  <2> QED BY <1>0, <1>4, <2>1, BuyOffers DEF Contract!Next
<1>5. ASSUME NEW p \in {"free", "admin"}, NEW d \in Periods, Grant(p, d)
      PROVE  Contract!Next
  <2>1. Len(rows) + 1 \in Ids
    BY <1>0, <1>5, GrantRows DEF Added
  <2> QED BY <1>0, <1>5, <2>1, GrantGives DEF Contract!Next
<1>6. ASSUME NEW i \in DOMAIN rows, Invoice(i)
      PROVE  UNCHANGED Contract!vars
  <2>1. RowsUnseen
    BY <1>0, <1>6, InvoiceKeeps, UnseenStep
  <2> QED BY <1>6, <2>1, ClaimsStay DEF Invoice, RowsUnseen, Contract!vars
<1>7. ASSUME NEW i \in DOMAIN rows, Pay(i)
      PROVE  Contract!Next
  BY <1>0, <1>7, PayPays, Fields DEF Contract!Next
<1>8. ASSUME tasks' = tasks, rows' = rows, UNCHANGED <<now, paid>>
      PROVE  UNCHANGED Contract!vars
  BY <1>8, UnseenStep, ClaimsStay DEF RowsUnseen, Contract!vars
<1>9. ASSUME NEW t \in Tasks, NEW i \in DOMAIN rows, OnPayment(t, i)
      PROVE  UNCHANGED Contract!vars \/ Contract!Next
  <2>1. CASE tasks' = tasks
    BY <1>8, <1>9, <2>1 DEF OnPayment
  <2>2. CASE tasks' # tasks
    <3> DEFINE w == [at |-> "activate", id |-> i, seen |-> rows[i].status]
    <3>1. Moves(t, w) /\ ClaimOf(w) = i /\ rows[i].status # "deleted"
      BY <1>0, <1>9, <2>2 DEF OnPayment, Moves, ClaimOf
    <3>2. rows[i].provider \in {"stars", "crypto"}
      BY <1>0, <1>9 DEF OnPayment, RowsHold
    <3> HIDE DEF w
    <3> QED BY <1>0, <1>9, <3>1, <3>2, RequestClaims DEF OnPayment
  <2> QED BY <2>1, <2>2
<1>10. ASSUME NEW t \in Tasks, NEW i \in DOMAIN rows, Check(t, i)
       PROVE  Contract!Next
  <2> DEFINE w == [at |-> "ask", id |-> i, seen |-> "pending"]
  <2>1. Moves(t, w) /\ ClaimOf(w) = i
    BY <1>0, <1>10, CheckMoves DEF ClaimOf
  <2> HIDE DEF w
  <2> QED BY <1>0, <1>10, <2>1, RequestClaims DEF Check
<1>11. ASSUME NEW t \in Tasks, End(t), rows' = rows, UNCHANGED <<now, paid>>
       PROVE  Contract!Next
  <2>1. Moves(t, Idle) /\ ClaimOf(Idle) = 0
    BY <1>0, <1>11 DEF End, Moves, Idle, ClaimOf
  <2> QED BY <1>11, <2>1, UnseenStep, DropsOne
<1>12. ASSUME NEW t \in Tasks, IsPaid(t)
       PROVE  UNCHANGED Contract!vars \/ Contract!Next
  <2>1. CASE Goes(t, "paid")
    <3> DEFINE w == [at |-> "paid", id |-> tasks[t].id, seen |-> "pending"]
    <3>1. Moves(t, w) /\ ClaimOf(w) = Claim[t]
      BY <1>0, <1>12, <2>1 DEF IsPaid, Goes, Moves, TaskStates, ClaimOf, Claim
    <3> HIDE DEF w
    <3> QED BY <1>12, <3>1, UnseenStep, GoesUnseen DEF IsPaid
  <2> QED BY <1>11, <1>12, <2>1 DEF IsPaid
<1>13. ASSUME NEW t \in Tasks, CheckReads(t)
       PROVE  UNCHANGED Contract!vars \/ Contract!Next
  <2>1. CASE ~End(t)
    <3> DEFINE w == [at |-> "activate", id |-> tasks[t].id,
                     seen |-> rows[tasks[t].id].status]
    <3>1. Moves(t, w) /\ ClaimOf(w) = Claim[t]
      BY <1>0, <1>13, <2>1 DEF CheckReads, Moves, TaskStates, ClaimOf, Claim
    <3> HIDE DEF w
    <3> QED BY <1>13, <3>1, UnseenStep, GoesUnseen DEF CheckReads
  <2> QED BY <1>11, <1>13, <2>1 DEF CheckReads
<1>14. ASSUME NEW t \in Tasks, Activate(t)
       PROVE  Contract!Next
  BY <1>14, ActivateStarts
<1>15. ASSUME NEW t \in Tasks, Edit(t)
       PROVE  UNCHANGED Contract!vars
  <2> DEFINE w == [at |-> "answer", id |-> tasks[t].id, seen |-> "pending"]
  <2>1. tasks[t].id \in DOMAIN rows
    BY <1>0, <1>15 DEF Edit, TasksHold, Idle
  <2>2. RowsUnseen
    BY <1>0, <1>15, <2>1, EditKeeps, UnseenStep
  <2>3. Moves(t, w) /\ ClaimOf(w) = Claim[t]
    BY <1>0, <1>15 DEF Edit, Goes, Moves, TaskStates, ClaimOf, Claim
  <2> HIDE DEF w
  <2> QED BY <1>15, <2>2, <2>3, GoesUnseen DEF Edit
<1>16. ASSUME NEW t \in Tasks, Answer(t) \/ Dies(t)
       PROVE  Contract!Next
  BY <1>11, <1>16 DEF Answer, Dies
<1>17. CASE Restart
  <2>1. Claim' = [c \in Tasks |-> IF c \in Tasks THEN 0 ELSE Claim[c]]
    BY <1>17 DEF Restart, Claim, Idle
  <2>2. Contract!Drop(Tasks)
    BY <1>17, <2>1, UnseenStep DEF Restart, RowsUnseen, Contract!Drop
  <2> QED BY <2>2 DEF Contract!Next
<1>18. CASE Poll \/ UNCHANGED vars
  BY <1>8, <1>18 DEF Poll, vars
<1> QED
  BY <1>1, <1>2, <1>3, <1>4, <1>5, <1>6, <1>7, <1>9, <1>10, <1>12, <1>13, <1>14,
     <1>15, <1>16, <1>17, <1>18 DEF Next

\* The shop keeps its contract, however the handlers interleave and die and
\* whatever is asked for again: one period per claim on a paid subscription, and
\* no end of access but with a revocation or a deletion.
THEOREM KeepsContract == Spec => ContractSpec
<1>1. SubscriptionsAssumption /\ Init => SeenHolds /\ EndsLater /\ Contract!Init
  <2> SUFFICES ASSUME SubscriptionsAssumption, Init
               PROVE  SeenHolds /\ EndsLater /\ Contract!Init
    OBVIOUS
  <2>1. DOMAIN rows = {}
    BY EmptySeq DEF Init
  <2>2. Length = [i \in Ids |-> 0] /\ Ends = Contract!NoAccess
    BY <2>1 DEF Length, Ends, Contract!NoAccess
  <2>3. Offered = {} /\ WithStatus("cancelled") = {} /\ WithStatus("deleted") = {}
    BY <2>1 DEF Offered, WithStatus
  <2>4. Claim = [t \in Tasks |-> 0]
    BY DEF Init, Claim, Idle
  <2> QED BY <2>1, <2>2, <2>3, <2>4 DEF Init, Contract!Init, SeenHolds, EndsLater, Idle
<1>2. /\ SubscriptionsAssumption /\ IInv /\ SeenHolds /\ EndsLater /\ [Next]_vars
      => (SeenHolds /\ EndsLater)'
  BY SeenStep, EndsStep DEF IInv
<1>3. SubscriptionsAssumption /\ IInv /\ SeenHolds /\ EndsLater /\ [Next]_vars
        => [Contract!Next]_Contract!vars
  BY ContractStep
<1> QED
  BY <1>1, <1>2, <1>3, Invariance, SubscriptionsAssumption, PTL
  DEF Spec, ContractSpec, Contract!Spec

=============================================================================
