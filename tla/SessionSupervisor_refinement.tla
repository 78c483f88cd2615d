-------------------- MODULE SessionSupervisor_refinement --------------------
(***************************************************************************)
(* As long as no re-link overlaps a deactivation of the row it re-uses,    *)
(* SessionSupervisor implements LoginRegistry: every step of the bot's     *)
(* handlers, of the supervisor and of the workers is a step of the         *)
(* registry or leaves it as it is.                                         *)
(***************************************************************************)
EXTENDS SessionSupervisor_proofs

-----------------------------------------------------------------------------
(* A key belongs to one login: to one handler, or to a row.                 *)

Linking(h) == handlers[h].pc \in {"linking", "saving"}

KeysApart ==
  /\ \A s \in Sessions : rows[s].key # NoKey => keys[rows[s].key] # "unused"
  /\ \A h \in Handlers : Linking(h) =>
       \A s \in Sessions : rows[s].key # handlers[h].key
  /\ \A h, g \in Handlers :
       Linking(h) /\ Linking(g) /\ handlers[h].key = handlers[g].key => h = g

\* An issued key stays issued.
LEMMA IssuedForEver ==
  ASSUME TypeOK, [Next]_vars, NEW k \in Keys, keys[k] # "unused"
  PROVE  keys'[k] # "unused"
BY DEF TypeOK, Next, OwnerNext, SignIn, LinkRead, LinkCommit, LinkFails,
   UnlinkRead, UnlinkCommit, DeleteUser, Revoke, SupervisorNext, Wake, Load,
   LoadFails, Apply, Restart, WorkerNext, WorkerFaults, Connect, Dies,
   DeactivateRead, DeactivateCommit, DeactivateFails, Notify, CancelLands,
   WorkerFails, NotifyFails, vars

\* Steps that give no row another key and begin no login.
LEMMA SameKeys ==
  ASSUME ConstantsAssumption, TypeOK, KeysApart, [Next]_vars,
         \A s \in Sessions : rows'[s].key \in {rows[s].key, NoKey},
         \A h \in Handlers : Linking(h)' =>
           Linking(h) /\ handlers'[h].key = handlers[h].key
  PROVE  KeysApart'
<1>1. \A s \in Sessions : rows[s].key \in Keys \cup {NoKey}
  BY DEF TypeOK, RowStates
<1>2. \A s \in Sessions : rows'[s].key # NoKey => keys'[rows'[s].key] # "unused"
  BY <1>1, IssuedForEver DEF KeysApart
<1>3. \A h \in Handlers : Linking(h) => handlers[h].key # NoKey
  BY DEF TypeOK, Linking, ConstantsAssumption
<1> QED BY <1>2, <1>3 DEF KeysApart, Linking

\* A login is saved: its key moves from the handler to a row.
LEMMA CommitKeepsApart ==
  ASSUME ConstantsAssumption, TypeOK, KeysApart, KeysIssued, [Next]_vars,
         NEW h \in Handlers, LinkCommit(h)
  PROVE  KeysApart'
<1> DEFINE k == handlers[h].key
<1>1. k \in Keys /\ Linking(h) /\ keys[k] # "unused"
  BY DEF LinkCommit, TypeOK, Linking, KeysIssued
<1>2. \A s \in Sessions : rows'[s].key \in {rows[s].key, k}
  <2>1. ASSUME NEW r \in Sessions,
               rows' = [rows EXCEPT ![r] = [state |-> "present", key |-> k,
                                            active |-> TRUE]]
        PROVE  \A s \in Sessions : rows'[s].key \in {rows[s].key, k}
    BY <2>1 DEF TypeOK
  <2>2. ASSUME NEW r \in Sessions,
               rows' = [rows EXCEPT ![r] = Relinked(@, k, handlers[h].seen)]
        PROVE  \A s \in Sessions : rows'[s].key \in {rows[s].key, k}
    BY <2>2 DEF TypeOK, RowStates, Relinked
  <2>3. handlers[h].targets \subseteq Sessions
    BY DEF TypeOK, HandlerStates
  <2> QED BY <2>1, <2>2, <2>3 DEF LinkCommit, FreshRows
<1>3. keys'[k] # "unused"
  BY <1>1, IssuedForEver
<1>4. \A g \in Handlers : Linking(g)' =>
        g # h /\ Linking(g) /\ handlers'[g] = handlers[g]
  BY DEF LinkCommit, Linking, TypeOK, IdleHandler
<1>5. \A g \in Handlers : Linking(g)' => handlers'[g].key # k
  BY <1>1, <1>4 DEF KeysApart
<1>6. \A s \in Sessions : rows'[s].key # NoKey => keys'[rows'[s].key] # "unused"
  BY <1>2, <1>3, IssuedForEver DEF KeysApart, TypeOK, RowStates
<1> HIDE DEF k
<1> QED BY <1>2, <1>4, <1>5, <1>6 DEF KeysApart

\* A login begins: its key is in no row and in no other handler.
LEMMA SignInKeepsApart ==
  ASSUME ConstantsAssumption, TypeOK, KeysApart, KeysIssued, [Next]_vars,
         NEW h \in Handlers, NEW a \in Accounts, NEW k \in Keys, SignIn(h, a, k)
  PROVE  KeysApart'
<1>1. rows' = rows /\ keys[k] = "unused"
  BY DEF SignIn
<1>2. handlers'[h].key = k /\ \A g \in Handlers \ {h} : handlers'[g] = handlers[g]
  BY DEF SignIn, TypeOK, IdleHandler
<1>3. \A s \in Sessions : rows[s].key # k
  BY <1>1 DEF KeysApart, ConstantsAssumption
<1>4. \A g \in Handlers \ {h} : Linking(g) => handlers[g].key # k
  BY <1>1 DEF KeysIssued, Linking
<1>5. \A s \in Sessions : rows[s].key # NoKey => keys'[rows[s].key] # "unused"
  BY IssuedForEver DEF KeysApart, TypeOK, RowStates
<1> QED BY <1>1, <1>2, <1>3, <1>4, <1>5 DEF KeysApart, Linking

\* Every step keeps keys apart.
LEMMA ApartStep ==
  ASSUME ConstantsAssumption, TypeOK, KeysIssued, KeysApart, [Next]_vars
  PROVE  KeysApart'
<1>1. ASSUME NEW h \in Handlers, LinkCommit(h) PROVE KeysApart'
  BY <1>1, CommitKeepsApart
<1>2. ASSUME NEW h \in Handlers, NEW a \in Accounts, NEW k \in Keys,
             SignIn(h, a, k)
      PROVE  KeysApart'
  BY <1>2, SignInKeepsApart
<1>3. ASSUME NEW h \in Handlers, LinkRead(h) PROVE KeysApart'
  <2>1. rows' = rows
    BY <1>3 DEF LinkRead
  <2>2. \A g \in Handlers : Linking(g)' =>
          Linking(g) /\ handlers'[g].key = handlers[g].key
    BY <1>3 DEF LinkRead, Linking, TypeOK, HandlerStates
  <2> QED BY <2>1, <2>2, SameKeys
<1>4. ASSUME NEW h \in Handlers, LinkFails(h) \/ UnlinkRead(h) \/ UnlinkCommit(h)
      PROVE  KeysApart'
  <2>1. \A s \in Sessions : rows'[s].key = rows[s].key
    BY <1>4 DEF LinkFails, UnlinkRead, UnlinkCommit, TypeOK, RowStates
  <2>2. \A g \in Handlers : Linking(g)' =>
          Linking(g) /\ handlers'[g].key = handlers[g].key
    <3>1. handlers'[h].pc \in {"idle", "unlinking"}
      <4>1. CASE UnlinkRead(h)
        <5> DEFINE u == [IdleHandler EXCEPT !.pc = "unlinking", !.targets = ActiveRows]
        <5>1. handlers'[h] = u
          BY <4>1 DEF UnlinkRead, TypeOK
        <5>2. u.pc = "unlinking"
          BY DEF IdleHandler
        <5> QED BY <5>1, <5>2
      <4>2. CASE LinkFails(h) \/ UnlinkCommit(h)
        BY <4>2 DEF LinkFails, UnlinkCommit, TypeOK, IdleHandler
      <4> QED BY <1>4, <4>1, <4>2
    <3>2. \A g \in Handlers \ {h} : handlers'[g] = handlers[g]
      BY <1>4 DEF LinkFails, UnlinkRead, UnlinkCommit, TypeOK
    <3> QED BY <3>1, <3>2 DEF Linking
  <2> QED BY <2>1, <2>2, SameKeys
<1>5. CASE DeleteUser
  <2>1. \A s \in Sessions : rows'[s].key \in {rows[s].key, NoKey}
    BY <1>5 DEF DeleteUser, DeletedRow
  <2>2. handlers' = handlers
    BY <1>5 DEF DeleteUser
  <2> QED BY <2>1, <2>2, SameKeys DEF Linking
<1>6. CASE (\E k \in Keys : Revoke(k)) \/ SupervisorNext \/ UNCHANGED vars
  <2>1. rows' = rows /\ handlers' = handlers
    BY <1>6 DEF Revoke, SupervisorNext, Wake, Load, LoadFails, Apply, Restart, vars
  <2> QED BY <2>1, SameKeys DEF Linking
<1>7. ASSUME NEW t \in Tasks, WorkerNext(t) \/ WorkerFaults(t) PROVE KeysApart'
  <2>1. \A s \in Sessions : rows'[s].key = rows[s].key
    BY <1>7, WorkerRows
  <2>2. handlers' = handlers
    BY <1>7 DEF WorkerNext, WorkerFaults, Connect, Dies, DeactivateRead,
       DeactivateCommit, DeactivateFails, Notify, CancelLands, WorkerFails,
       NotifyFails
  <2> QED BY <2>1, <2>2, SameKeys DEF Linking
<1> QED BY <1>1, <1>2, <1>3, <1>4, <1>5, <1>6, <1>7 DEF Next, OwnerNext

-----------------------------------------------------------------------------
(* The refinement mapping. *)

\* An account's login is the key of its active row, if it has one.
LoginIsActiveRow ==
  \A a \in Accounts :
    /\ \A s \in ActiveRows : AccountOf[s] = a => Login[a] = rows[s].key
    /\ (\A s \in ActiveRows : AccountOf[s] # a) => Login[a] = NoKey

\* No account has two active rows, so the CHOOSE of the mapping chooses it.
LEMMA LoginOf == OneRowPerAccount => LoginIsActiveRow
<1>1. SUFFICES ASSUME OneRowPerAccount, NEW a \in Accounts
               PROVE  /\ \A s \in ActiveRows : AccountOf[s] = a => Login[a] = rows[s].key
                      /\ (\A s \in ActiveRows : AccountOf[s] # a) => Login[a] = NoKey
  BY DEF LoginIsActiveRow
<1>2. ASSUME NEW s \in ActiveRows, AccountOf[s] = a
      PROVE  Login[a] = rows[s].key
  <2> DEFINE r == CHOOSE r \in ActiveRows : AccountOf[r] = a
  <2>1. r \in ActiveRows /\ AccountOf[r] = a
    BY <1>2
  <2>2. r = s
    BY <1>1, <1>2, <2>1 DEF OneRowPerAccount, ActiveRows
  <2>3. Login[a] = rows[r].key
    BY <1>2 DEF Login
  <2> QED BY <2>2, <2>3
<1>3. ASSUME \A s \in ActiveRows : AccountOf[s] # a PROVE Login[a] = NoKey
  BY <1>3 DEF Login
<1> QED BY <1>2, <1>3

\* Initially nobody is logged in.
LEMMA InitRefines == Init => Registry!Init
BY DEF Init, Registry!Init, Login, ActiveRows, Present, NoRow

\* Steps of Telegram, and steps that the registry does not see.
LEMMA QuietStep ==
  ASSUME UNCHANGED <<rows, wanted>>,
         \/ UNCHANGED keys
         \/ \E k \in Keys : keys[k] = "unused" /\ keys' = [keys EXCEPT ![k] = "live"]
         \/ \E k \in Keys : keys[k] = "live" /\ keys' = [keys EXCEPT ![k] = "dead"]
  PROVE  [Registry!Next]_Registry!vars
<1>1. Login' = Login
  BY DEF Login, ActiveRows, Present
<1> QED BY <1>1 DEF Registry!Next, Registry!Issue, Registry!Kill, Registry!vars

\* save_session's commit is the registry's LinkAccount.
LEMMA LinkRefines ==
  ASSUME ConstantsAssumption, TypeOK, ReadsKept, OneRowPerAccount,
         OneRowPerAccount', KeysIssued, KeysApart, NEW h \in Handlers, LinkCommit(h)
  PROVE  Registry!Next
<1> DEFINE a == handlers[h].acct
           k == handlers[h].key
<1>1. /\ a \in Accounts /\ k \in Keys /\ Linking(h) /\ keys[k] # "unused"
      /\ UNCHANGED keys /\ wanted' = [wanted EXCEPT ![a] = k]
  BY DEF LinkCommit, TypeOK, Linking, KeysIssued
<1> DEFINE Saved(s) ==
             /\ s \in Sessions /\ AccountOf[s] = a
             /\ rows'[s].state = "present" /\ rows'[s].active = TRUE
             /\ rows'[s].key = k
             /\ \A r \in Sessions \ {s} : rows'[r] = rows[r]
<1>2. PICK s \in Sessions : Saved(s)
  BY LoginSaved
<1>3. LoginIsActiveRow /\ LoginIsActiveRow'
  <2>1. OneRowPerAccount => LoginIsActiveRow
    BY LoginOf
  <2>2. OneRowPerAccount' => LoginIsActiveRow'
    BY LoginOf, PTL
  <2> QED BY <2>1, <2>2
<1>4. Login'[a] = k
  <2>1. s \in ActiveRows'
    BY <1>2 DEF ActiveRows, Present
  <2> QED BY <1>1, <1>2, <1>3, <2>1 DEF LoginIsActiveRow
<1>5. ASSUME NEW b \in Accounts, b # a PROVE Login'[b] = Login[b]
  <2>1. \A r \in Sessions : AccountOf[r] = b =>
          rows'[r] = rows[r] /\ (r \in ActiveRows' <=> r \in ActiveRows)
    BY <1>2, <1>5 DEF ActiveRows, Present
  <2>2. CASE \E r \in ActiveRows : AccountOf[r] = b
    BY <1>3, <2>1, <2>2 DEF LoginIsActiveRow, ActiveRows
  <2>3. CASE \A r \in ActiveRows : AccountOf[r] # b
    <3>1. \A r \in ActiveRows' : AccountOf[r] # b
      BY <2>1, <2>3 DEF ActiveRows
    <3> QED BY <1>3, <2>3, <3>1 DEF LoginIsActiveRow
  <2> QED BY <2>2, <2>3
<1>6. \A b \in Accounts : Login[b] # k
  <2>1. \A r \in ActiveRows : rows[r].key # k
    BY <1>1 DEF KeysApart, ActiveRows
  <2>2. NoKey # k
    BY <1>1 DEF ConstantsAssumption
  <2> QED BY <1>3, <2>1, <2>2 DEF LoginIsActiveRow
<1>7. Login' = [Login EXCEPT ![a] = k]
  <2>1. Login = [b \in Accounts |-> Login[b]] /\ Login' = [b \in Accounts |-> Login'[b]]
    BY DEF Login
  <2> QED BY <1>1, <1>4, <1>5, <2>1
<1> HIDE DEF a, k
<1>8. Registry!LinkAccount(a, k)
  BY <1>1, <1>6, <1>7 DEF Registry!LinkAccount
<1> QED BY <1>1, <1>8 DEF Registry!Next

\* Unlinking ends the logins of the accounts whose rows it read; those that
\* became active since are left alone.
LEMMA UnlinkRefines ==
  ASSUME ConstantsAssumption, TypeOK, OneRowPerAccount, OneRowPerAccount',
         NEW h \in Handlers, UnlinkCommit(h)
  PROVE  [Registry!Next]_Registry!vars
<1> DEFINE T == handlers[h].targets
           A == {a \in Accounts : \E s \in T : AccountOf[s] = a}
<1>1. CASE UNCHANGED <<rows, wanted>>
  BY <1>1, QuietStep DEF UnlinkCommit
<1>2. CASE \A s \in T : Present(s)
  <2>1. /\ rows' = [s \in Sessions |-> IF s \in T
                                         THEN [rows[s] EXCEPT !.active = FALSE]
                                         ELSE rows[s]]
        /\ wanted' = [a \in Accounts |-> IF a \in A THEN NoKey ELSE wanted[a]]
        /\ UNCHANGED keys
    BY <1>2 DEF UnlinkCommit
  <2>2. T \subseteq Sessions
    BY DEF TypeOK, HandlerStates
  <2>3. \A s \in Sessions : /\ s \in T => rows'[s].active = FALSE
                            /\ s \notin T => rows'[s] = rows[s]
    BY <2>1 DEF TypeOK, RowStates
  <2>4. ActiveRows' = ActiveRows \ T
    BY <2>2, <2>3 DEF ActiveRows, Present
  <2>5. LoginIsActiveRow /\ LoginIsActiveRow'
    <3>1. OneRowPerAccount => LoginIsActiveRow
      BY LoginOf
    <3>2. OneRowPerAccount' => LoginIsActiveRow'
      BY LoginOf, PTL
    <3> QED BY <3>1, <3>2
  <2>6. ASSUME NEW a \in A PROVE Login'[a] = NoKey
    <3>1. \A r \in ActiveRows : AccountOf[r] = a => r \in T
      BY <1>2, <2>2 DEF OneRowPerAccount, ActiveRows
    <3>2. \A r \in ActiveRows' : AccountOf[r] # a
      BY <2>4, <3>1
    <3> QED BY <2>5, <3>2 DEF LoginIsActiveRow
  <2>7. ASSUME NEW a \in Accounts \ A PROVE Login'[a] = Login[a]
    <3>1. \A r \in Sessions : AccountOf[r] = a =>
            rows'[r] = rows[r] /\ (r \in ActiveRows' <=> r \in ActiveRows)
      BY <2>3, <2>4
    <3>2. CASE \E r \in ActiveRows : AccountOf[r] = a
      BY <2>5, <3>1, <3>2 DEF LoginIsActiveRow, ActiveRows
    <3>3. CASE \A r \in ActiveRows : AccountOf[r] # a
      <4>1. \A r \in ActiveRows' : AccountOf[r] # a
        BY <2>4, <3>3
      <4> QED BY <2>5, <3>3, <4>1 DEF LoginIsActiveRow
    <3> QED BY <3>2, <3>3
  <2>8. Login' = [a \in Accounts |-> IF a \in A THEN NoKey ELSE Login[a]]
    <3>1. Login' = [a \in Accounts |-> Login'[a]]
      BY DEF Login
    <3> HIDE DEF A
    <3> QED BY <2>6, <2>7, <3>1
  <2> HIDE DEF A
  <2>9. Registry!EndByOwner(A)
    BY <2>1, <2>8 DEF Registry!EndByOwner
  <2>10. A \in SUBSET Accounts
    BY DEF A
  <2> QED BY <2>9, <2>10 DEF Registry!Next
<1> QED BY <1>1, <1>2 DEF UnlinkCommit

\* The deletion of the user ends them all.
LEMMA DeleteRefines ==
  ASSUME TypeOK, DeleteUser PROVE Registry!Next
<1>1. ActiveRows' = {}
  BY DEF DeleteUser, ActiveRows, Present, DeletedRow
<1>2. Login' = [a \in Accounts |-> NoKey]
  BY <1>1 DEF Login
<1>3. Registry!EndByOwner(Accounts)
  BY <1>2 DEF Registry!EndByOwner, DeleteUser
<1> QED BY <1>3 DEF Registry!Next

\* A worker ends no login but one whose key is dead.
LEMMA WorkerRefines ==
  ASSUME ConstantsAssumption, TypeOK, ReadsKept, OneRowPerAccount,
         OneRowPerAccount', DyingKeysAreDead, NEW t \in Tasks, WorkerNext(t) \/ WorkerFaults(t)
  PROVE  [Registry!Next]_Registry!vars
<1>1. UNCHANGED <<keys, wanted>>
  BY DEF WorkerNext, WorkerFaults, Connect, Dies, DeactivateRead,
     DeactivateCommit, DeactivateFails, Notify, CancelLands, WorkerFails,
     NotifyFails
<1>2. \/ UNCHANGED rows
      \/ /\ tasks[t].pc = "deactivating" /\ rows' = Deactivated(t)
         /\ UpdateFindsRow(t)
  BY DEF WorkerNext, WorkerFaults, Connect, Dies, DeactivateRead,
     DeactivateCommit, DeactivateFails, Notify, CancelLands, WorkerFails,
     NotifyFails, CommitInDoubt, At
<1>3. CASE UNCHANGED rows
  BY <1>1, <1>3, QuietStep
<1>4. CASE /\ tasks[t].pc = "deactivating" /\ rows' = Deactivated(t)
           /\ UpdateFindsRow(t)
  <2> DEFINE s == tasks[t].sess
             a == AccountOf[s]
  <2>1. /\ s \in Sessions /\ a \in Accounts
        /\ Present(s) => rows[s].key \in Keys /\ keys[rows[s].key] = "dead"
    BY <1>4 DEF ReadsKept, TOpen, DyingKeysAreDead, TypeOK, ConstantsAssumption
  <2>2. CASE rows' = rows
    BY <1>1, <2>2, QuietStep
  <2>3. CASE rows' # rows
    <3>1. /\ rows[s].active = TRUE /\ rows'[s].active = FALSE
          /\ \A r \in Sessions \ {s} : rows'[r] = rows[r]
      <4>1. rows[s] \in RowStates /\ rows \in [Sessions -> RowStates]
        BY <2>1 DEF TypeOK
      <4>2. rows' = [rows EXCEPT ![s] =
                       [rows[s] EXCEPT !.active = IF tasks[t].seen THEN FALSE
                                                  ELSE rows[s].active]]
        BY <1>4 DEF Deactivated
      <4>3. CASE tasks[t].seen /\ rows[s].active
        BY <2>1, <4>1, <4>2, <4>3 DEF RowStates
      <4>4. CASE ~(tasks[t].seen /\ rows[s].active)
        <5>1. (IF tasks[t].seen THEN FALSE ELSE rows[s].active) = rows[s].active
          BY <4>1, <4>4 DEF RowStates
        <5>2. [rows[s] EXCEPT !.active = rows[s].active] = rows[s]
          BY <4>1 DEF RowStates
        <5>3. rows' = rows
          BY <2>1, <4>1, <4>2, <5>1, <5>2
        <5> QED BY <2>3, <5>3
      <4> QED BY <4>3, <4>4
    <3>2. tasks[t].seen /\ Present(s)
      <4>1. CASE ~tasks[t].seen
        BY <1>4, <2>1, <3>1, <4>1 DEF Deactivated, TypeOK, RowStates
      <4> QED BY <1>4, <4>1 DEF UpdateFindsRow
    <3>3. ActiveRows' = ActiveRows \ {s} /\ s \in ActiveRows
      BY <2>1, <3>1, <3>2 DEF ActiveRows, Present
    <3>4. LoginIsActiveRow /\ LoginIsActiveRow'
      <4>1. OneRowPerAccount => LoginIsActiveRow
        BY LoginOf
      <4>2. OneRowPerAccount' => LoginIsActiveRow'
        BY LoginOf, PTL
      <4> QED BY <4>1, <4>2
    <3>5. Login[a] = rows[s].key
      BY <2>1, <3>3, <3>4 DEF LoginIsActiveRow
    <3>6. \A r \in ActiveRows' : AccountOf[r] # a
      BY <2>1, <3>3 DEF OneRowPerAccount, ActiveRows
    <3>7. Login'[a] = NoKey
      BY <2>1, <3>6 DEF Login
    <3>8. ASSUME NEW b \in Accounts, b # a PROVE Login'[b] = Login[b]
      <4>1. \A r \in Sessions : AccountOf[r] = b =>
              rows'[r] = rows[r] /\ (r \in ActiveRows' <=> r \in ActiveRows)
        BY <3>1, <3>3, <3>8
      <4>2. CASE \E r \in ActiveRows : AccountOf[r] = b
        BY <3>4, <4>1, <4>2 DEF LoginIsActiveRow, ActiveRows
      <4>3. CASE \A r \in ActiveRows : AccountOf[r] # b
        <5>1. \A r \in ActiveRows' : AccountOf[r] # b
          BY <4>1, <4>3 DEF ActiveRows
        <5> QED BY <3>4, <4>3, <5>1 DEF LoginIsActiveRow
      <4> QED BY <4>2, <4>3
    <3>9. Login' = [Login EXCEPT ![a] = NoKey]
      <4>1. Login = [b \in Accounts |-> Login[b]] /\ Login' = [b \in Accounts |-> Login'[b]]
        BY DEF Login
      <4> QED BY <2>1, <3>7, <3>8, <4>1
    <3>10. Registry!EndByDeath(a)
      BY <1>1, <2>1, <3>2, <3>5, <3>9 DEF Registry!EndByDeath, ConstantsAssumption
    <3> QED BY <2>1, <3>10 DEF Registry!Next
  <2> QED BY <2>2, <2>3
<1> QED BY <1>2, <1>3, <1>4

\* Every step is the registry's, or none.
LEMMA StepRefines ==
  ASSUME ConstantsAssumption, TypeOK, AccountInv, AccountInv', DyingKeysAreDead,
         ReadsKept, KeysIssued, KeysApart, [Next]_vars
  PROVE  [Registry!Next]_Registry!vars
<1> USE DEF AccountInv
<1>1. ASSUME NEW h \in Handlers, LinkCommit(h) PROVE Registry!Next
  BY <1>1, LinkRefines
<1>2. ASSUME NEW h \in Handlers, UnlinkCommit(h)
      PROVE  [Registry!Next]_Registry!vars
  BY <1>2, UnlinkRefines
<1>3. CASE DeleteUser
  BY <1>3, DeleteRefines
<1>4. ASSUME NEW t \in Tasks, WorkerNext(t) \/ WorkerFaults(t)
      PROVE  [Registry!Next]_Registry!vars
  BY <1>4, WorkerRefines
<1>5. CASE \/ \E h \in Handlers, a \in Accounts, k \in Keys : SignIn(h, a, k)
           \/ \E h \in Handlers : LinkRead(h) \/ LinkFails(h) \/ UnlinkRead(h)
           \/ \E k \in Keys : Revoke(k)
           \/ SupervisorNext
           \/ UNCHANGED vars
  BY <1>5, QuietStep DEF SignIn, LinkRead, LinkFails, UnlinkRead, Revoke,
     SupervisorNext, Wake, Load, LoadFails, Apply, Restart, vars
<1> QED BY <1>1, <1>2, <1>3, <1>4, <1>5 DEF Next, OwnerNext

\* What the sessions table promises its owner: save_session,
\* deactivate_user_sessions, deactivate_session and the deletion of a user, in
\* any order, interleaved in any way and with any crashes, replace a login
\* only by a newer one and end it only for its owner or when its key is dead -
\* unless a re-link overlapped a deactivation of the row it re-used.
THEOREM RefinesRelinksApart ==
  ASSUME ConstantsAssumption
  PROVE  Spec /\ []RelinksApart => RegistrySpec
<1>1. Init => KeysApart
  BY DEF Init, KeysApart, Linking, NoRow, IdleHandler
<1>2. TypeOK /\ WorkersAreTracked /\ AccountInv /\ [Next]_vars => AccountInv'
  BY AccountStep
<1>3. TypeOK /\ DyingKeysAreDead /\ [Next]_vars => DyingKeysAreDead'
  BY DyingStep
<1>4. /\ TypeOK /\ RelinksApart /\ AccountInv /\ DyingKeysAreDead /\ LoginInv
      /\ [Next]_vars
      => LoginInv'
  BY LoginStep
<1>5. TypeOK /\ LoginInv /\ KeysApart /\ [Next]_vars => KeysApart'
  BY ApartStep DEF LoginInv
<1>6. /\ TypeOK /\ AccountInv /\ AccountInv' /\ DyingKeysAreDead /\ LoginInv
      /\ KeysApart /\ [Next]_vars
      => [Registry!Next]_Registry!vars
  BY StepRefines DEF LoginInv
<1> QED BY <1>1, <1>2, <1>3, <1>4, <1>5, <1>6, InitRefines, AccountInit,
           DyingInit, LoginInit, TypeCorrect, Tracked, PTL
           DEF Spec, RegistrySpec, Registry!Spec

\* In particular a database that runs read-modify-write transactions one at a
\* time keeps the promise.
THEOREM Refines == ASSUME ConstantsAssumption, SerialTx PROVE Spec => RegistrySpec
  BY SerialApart, RefinesRelinksApart, PTL

=============================================================================
