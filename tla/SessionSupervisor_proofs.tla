--------------------- MODULE SessionSupervisor_proofs ---------------------
(***************************************************************************)
(* Proofs about SessionSupervisor for every set of accounts, rows, keys,   *)
(* tasks and handlers, every number of faults, and either kind of          *)
(* database.                                                               *)
(***************************************************************************)
EXTENDS SessionSupervisor, TLAPS

USE DEF NoRow, DeletedRow, IdleHandler, DoneTask, NewTask, EmptySnap, Fault

-----------------------------------------------------------------------------
(* Type correctness. *)

LEMMA RowUpdate ==
  ASSUME NEW r \in RowStates, NEW b \in BOOLEAN, NEW k \in Keys \cup {NoKey}
  PROVE  /\ [r EXCEPT !.active = b] \in RowStates
         /\ [r EXCEPT !.key = k, !.active = b] \in RowStates
  BY DEF RowStates

LEMMA HandlerUpdate ==
  ASSUME NEW r \in HandlerStates, NEW b \in BOOLEAN, NEW T \in SUBSET Sessions
  PROVE  [r EXCEPT !.pc = "saving", !.targets = T, !.seen = b] \in HandlerStates
  BY DEF HandlerStates

LEMMA TaskUpdate ==
  ASSUME NEW u \in TaskStates, NEW b \in BOOLEAN
  PROVE  /\ [u EXCEPT !.cancelled = b] \in TaskStates
         /\ [u EXCEPT !.pc = "deactivating", !.seen = b] \in TaskStates
  BY DEF TaskStates

\* The records the code starts from.
LEMMA Constructors ==
  /\ NoRow \in RowStates /\ DeletedRow \in RowStates
  /\ IdleHandler \in HandlerStates
  /\ DoneTask \in TaskStates /\ DoneTask.pc = "done"
  /\ \A s \in Sessions, k \in Keys : NewTask(s, k) \in TaskStates
<1>1. \A b \in BOOLEAN :
        /\ [state |-> "absent", key |-> NoKey, active |-> b] \in RowStates
        /\ [state |-> "deleted", key |-> NoKey, active |-> b] \in RowStates
        /\ [pc |-> "idle", acct |-> NoAccount, key |-> NoKey, targets |-> {},
            seen |-> b] \in HandlerStates
  BY DEF RowStates, HandlerStates
<1>2. \A b, c \in BOOLEAN :
        /\ [pc |-> "done", sess |-> NoSession, key |-> NoKey, seen |-> b,
            cancelled |-> c] \in TaskStates
        /\ \A s \in Sessions, k \in Keys :
             [pc |-> "connecting", sess |-> s, key |-> k, seen |-> b,
              cancelled |-> c] \in TaskStates
  BY DEF TaskStates
<1> QED BY <1>1, <1>2

LEMMA InitType == ASSUME ConstantsAssumption, Init PROVE TypeOK
<1>1. rows \in [Sessions -> RowStates] /\ handlers \in [Handlers -> HandlerStates]
      /\ tasks \in [Tasks -> TaskStates]
  BY Constructors DEF Init
<1>2. /\ \A h \in Handlers : handlers[h].pc = "idle"
      /\ \A t \in Tasks : tasks[t].pc = "done"
  BY DEF Init
<1>3. /\ keys \in [Keys -> {"unused", "live", "dead"}]
      /\ sup \in [pc : {"asleep", "loading", "loaded"},
                 snap : [Sessions -> Keys \cup {NoKey}]]
      /\ running \in [Sessions -> Tasks \cup {NoTask}]
      /\ startedWith \in [Sessions -> Keys \cup {NoKey}]
      /\ wanted \in [Accounts -> Keys \cup {NoKey}]
      /\ notices \in [Keys -> 0..2]
      /\ faults \in 0..MaxFaults
  BY DEF Init, ConstantsAssumption
<1> QED BY <1>1, <1>2, <1>3 DEF TypeOK

LEMMA OwnerType ==
  ASSUME ConstantsAssumption, TypeOK, OwnerNext PROVE TypeOK'
<1> USE DEF TypeOK, supVars
<1>1. ASSUME NEW h \in Handlers, NEW a \in Accounts, NEW k \in Keys,
             SignIn(h, a, k)
      PROVE  TypeOK'
  BY <1>1 DEF SignIn, HandlerStates
<1>2. ASSUME NEW h \in Handlers, LinkRead(h) PROVE TypeOK'
  <2> DEFINE a == handlers[h].acct
             b == \E s \in RowsOf(a) : rows[s].active
  <2>1. b \in BOOLEAN /\ RowsOf(a) \in SUBSET Sessions
    BY DEF RowsOf
  <2> HIDE DEF b
  <2>2. handlers' = [handlers EXCEPT ![h].pc = "saving",
                                     ![h].targets = RowsOf(a), ![h].seen = b]
    BY <1>2 DEF LinkRead, b
  <2>3. handlers' \in [Handlers -> HandlerStates]
    <3>1. [handlers[h] EXCEPT !.pc = "saving", !.targets = RowsOf(a),
                              !.seen = b] \in HandlerStates
      BY <2>1, HandlerUpdate
    <3> QED BY <2>2, <3>1
  <2>4. handlers[h].pc = "linking"
    BY <1>2 DEF LinkRead
  <2>5. \A g \in Handlers : handlers'[g].pc \in {"linking", "saving"} =>
          handlers'[g].acct \in Accounts /\ handlers'[g].key \in Keys
    BY <2>2, <2>4 DEF HandlerStates
  <2> QED BY <1>2, <2>3, <2>5 DEF LinkRead
<1>3. ASSUME NEW h \in Handlers, LinkCommit(h) PROVE TypeOK'
  <2>1. handlers[h].key \in Keys /\ handlers[h].acct \in Accounts
    BY <1>3 DEF LinkCommit
  <2>2. rows' \in [Sessions -> RowStates]
    <3>1. ASSUME NEW s \in Sessions,
                 rows' = [rows EXCEPT ![s] = [state |-> "present",
                                              key |-> handlers[h].key,
                                              active |-> TRUE]]
          PROVE  rows' \in [Sessions -> RowStates]
      BY <2>1, <3>1 DEF RowStates
    <3>2. ASSUME NEW s \in Sessions,
                 rows' = [rows EXCEPT ![s] = Relinked(@, handlers[h].key,
                                                      handlers[h].seen)]
          PROVE  rows' \in [Sessions -> RowStates]
      <4>1. Relinked(rows[s], handlers[h].key, handlers[h].seen) \in RowStates
        <5> DEFINE b == IF handlers[h].seen THEN rows[s].active ELSE TRUE
        <5>1. b \in BOOLEAN
          BY DEF RowStates
        <5>2. Relinked(rows[s], handlers[h].key, handlers[h].seen)
                = [rows[s] EXCEPT !.key = handlers[h].key, !.active = b]
          BY DEF Relinked
        <5>3. rows[s] \in RowStates
          OBVIOUS
        <5> HIDE DEF b
        <5>4. [rows[s] EXCEPT !.key = handlers[h].key, !.active = b] \in RowStates
          BY <2>1, <5>1, <5>3, RowUpdate
        <5> QED BY <5>2, <5>4
      <4> QED BY <3>2, <4>1
    <3>3. handlers[h].targets \in SUBSET Sessions
      BY DEF HandlerStates
    <3> QED BY <1>3, <3>1, <3>2, <3>3 DEF LinkCommit, FreshRows
  <2>3. wanted' \in [Accounts -> Keys \cup {NoKey}]
    BY <1>3, <2>1 DEF LinkCommit
  <2> QED BY <1>3, <2>2, <2>3 DEF LinkCommit, HandlerStates
<1>4. ASSUME NEW h \in Handlers, LinkFails(h) PROVE TypeOK'
  BY <1>4 DEF LinkFails, HandlerStates
<1>5. ASSUME NEW h \in Handlers, UnlinkRead(h) PROVE TypeOK'
  BY <1>5 DEF UnlinkRead, ActiveRows, HandlerStates
<1>6. ASSUME NEW h \in Handlers, UnlinkCommit(h) PROVE TypeOK'
  <2>1. rows' \in [Sessions -> RowStates]
    <3>1. \A s \in Sessions : [rows[s] EXCEPT !.active = FALSE] \in RowStates
      BY RowUpdate
    <3> QED BY <1>6, <3>1 DEF UnlinkCommit
  <2>2. wanted' \in [Accounts -> Keys \cup {NoKey}]
    BY <1>6 DEF UnlinkCommit
  <2> QED BY <1>6, <2>1, <2>2 DEF UnlinkCommit, HandlerStates
<1>7. CASE DeleteUser
  BY <1>7 DEF DeleteUser, RowStates
<1>8. ASSUME NEW k \in Keys, Revoke(k) PROVE TypeOK'
  BY <1>8 DEF Revoke
<1> QED
  BY <1>1, <1>2, <1>3, <1>4, <1>5, <1>6, <1>7, <1>8 DEF OwnerNext

LEMMA SupervisorType ==
  ASSUME ConstantsAssumption, TypeOK, SupervisorNext PROVE TypeOK'
<1> USE DEF TypeOK
<1>1. CASE Wake
  BY <1>1 DEF Wake
<1>2. CASE LoadFails
  BY <1>2 DEF LoadFails, ConstantsAssumption
<1>3. CASE Load
  BY <1>3 DEF Load, Snapshot, ActiveRows, RowStates
<1>4. CASE Apply
  <2>1. PICK new \in [Started -> FreeTasks] :
          /\ running' = [s \in Sessions |->
                           IF s \in Started THEN new[s]
                           ELSE IF s \in Kept THEN running[s] ELSE NoTask]
          /\ tasks' = Pool(new)
    BY <1>4 DEF Apply
  <2>2. running' \in [Sessions -> Tasks \cup {NoTask}]
    BY <2>1 DEF FreeTasks, Started
  <2>3. startedWith' \in [Sessions -> Keys \cup {NoKey}]
    BY <1>4 DEF Apply
  <2>4. ASSUME NEW t \in Tasks
        PROVE  /\ tasks'[t] \in TaskStates
               /\ tasks'[t].pc # "done" =>
                    tasks'[t].sess \in Sessions /\ tasks'[t].key \in Keys
    <3>1. CASE \E s \in Started : new[s] = t
      <4>1. PICK s \in Started : tasks'[t] = NewTask(s, sup.snap[s])
        BY <2>1, <3>1 DEF Pool
      <4> QED BY <4>1 DEF Started, TaskStates
    <3>2. CASE ~\E s \in Started : new[s] = t
      <4>1. [tasks[t] EXCEPT !.cancelled = TRUE] \in TaskStates
        BY TaskUpdate
      <4>2. tasks'[t] \in {tasks[t], [tasks[t] EXCEPT !.cancelled = TRUE]}
        BY <2>1, <3>2 DEF Pool
      <4> QED BY <4>1, <4>2 DEF TaskStates
    <3> QED BY <3>1, <3>2
  <2>5. tasks' \in [Tasks -> TaskStates]
    BY <2>1, <2>4 DEF Pool
  <2> QED BY <1>4, <2>2, <2>3, <2>4, <2>5 DEF Apply
<1>5. CASE Restart
  BY <1>5 DEF Restart, ConstantsAssumption, TaskStates
<1> QED BY <1>1, <1>2, <1>3, <1>4, <1>5 DEF SupervisorNext

LEMMA CommitInDoubtType ==
  ASSUME TypeOK, NEW t \in Tasks,
         CommitInDoubt(t) \/ DeactivateCommit(t)
  PROVE  rows' \in [Sessions -> RowStates]
<1>1. CASE rows' = rows
  BY <1>1 DEF TypeOK
<1>2. CASE tasks[t].pc = "deactivating" /\ rows' = Deactivated(t)
  <2> DEFINE s == tasks[t].sess
             b == IF tasks[t].seen THEN FALSE ELSE rows[s].active
  <2>1. s \in Sessions /\ tasks[t].seen \in BOOLEAN
    BY <1>2 DEF TypeOK, TaskStates
  <2>2. [rows[s] EXCEPT !.active = b] \in RowStates
    <3>1. rows[s] \in RowStates /\ b \in BOOLEAN
      BY <2>1 DEF TypeOK, RowStates
    <3> QED BY <3>1, RowUpdate
  <2>3. rows' = [rows EXCEPT ![s] = [rows[s] EXCEPT !.active = b]]
    BY <1>2, <2>1 DEF Deactivated, TypeOK
  <2> QED BY <2>1, <2>2, <2>3 DEF TypeOK
<1> QED BY <1>1, <1>2 DEF CommitInDoubt, DeactivateCommit, At

\* A worker that only moves on, or ends, keeps the tasks well-typed.
LEMMA TaskStepType ==
  ASSUME TypeOK, NEW t \in Tasks, NEW u \in TaskStates,
         u.pc # "done" => u.sess \in Sessions /\ u.key \in Keys,
         tasks' = [tasks EXCEPT ![t] = u]
  PROVE  /\ tasks' \in [Tasks -> TaskStates]
         /\ \A w \in Tasks : tasks'[w].pc # "done" =>
              tasks'[w].sess \in Sessions /\ tasks'[w].key \in Keys
  BY DEF TypeOK

LEMMA WorkerType ==
  ASSUME ConstantsAssumption, TypeOK, NEW t \in Tasks,
         WorkerNext(t) \/ WorkerFaults(t)
  PROVE  TypeOK'
<1> DEFINE Goto(pc) == [tasks[t] EXCEPT !.pc = pc]
<1>1. tasks' \in [Tasks -> TaskStates]
      /\ \A w \in Tasks : tasks'[w].pc # "done" =>
           tasks'[w].sess \in Sessions /\ tasks'[w].key \in Keys
  <2>1. DoneTask \in TaskStates /\ DoneTask.pc = "done"
    BY DEF TaskStates
  <2>2. ASSUME tasks' = [tasks EXCEPT ![t] = DoneTask] PROVE <1>1
    BY <2>1, <2>2, TaskStepType
  <2>3. ASSUME NEW pc \in {"online", "dying", "notifying"},
               tasks[t].pc # "done", tasks' = [tasks EXCEPT ![t].pc = pc]
        PROVE  <1>1
    <3>1. Goto(pc) \in TaskStates /\ Goto(pc).sess = tasks[t].sess
          /\ Goto(pc).key = tasks[t].key
      BY DEF TypeOK, TaskStates
    <3>2. tasks' = [tasks EXCEPT ![t] = Goto(pc)]
      BY <2>3
    <3> QED BY <2>3, <3>1, <3>2, TaskStepType DEF TypeOK
  <2>4. CASE DeactivateRead(t)
    <3> DEFINE b == rows[tasks[t].sess].active
               u == [tasks[t] EXCEPT !.pc = "deactivating", !.seen = b]
    <3>1. tasks[t].sess \in Sessions /\ tasks[t].key \in Keys
      BY <2>4 DEF TypeOK, DeactivateRead, At
    <3>2. u \in TaskStates /\ u.sess = tasks[t].sess /\ u.key = tasks[t].key
      <4>1. b \in BOOLEAN /\ tasks[t] \in TaskStates
        BY <3>1 DEF TypeOK, RowStates
      <4> HIDE DEF b
      <4>2. u.sess = tasks[t].sess /\ u.key = tasks[t].key
        BY <4>1 DEF TaskStates
      <4> QED BY <4>1, <4>2, TaskUpdate
    <3>3. \/ tasks' = [tasks EXCEPT ![t] = DoneTask]
          \/ tasks' = [tasks EXCEPT ![t] = u]
      BY <2>4 DEF DeactivateRead
    <3> QED BY <2>2, <3>1, <3>2, <3>3, TaskStepType
  <2>5. ASSUME tasks[t].pc # "done" PROVE
          Connect(t) \/ Dies(t) \/ DeactivateCommit(t) =>
            \E pc \in {"online", "dying", "notifying"} :
              tasks' = [tasks EXCEPT ![t].pc = pc]
    BY DEF Connect, Dies, DeactivateCommit
  <2>6. Connect(t) \/ Dies(t) \/ DeactivateCommit(t) => tasks[t].pc # "done"
    BY DEF Connect, Dies, DeactivateCommit, At
  <2>7. DeactivateFails(t) \/ Notify(t) \/ CancelLands(t) \/ WorkerFaults(t)
          => tasks' = [tasks EXCEPT ![t] = DoneTask]
    BY DEF DeactivateFails, Notify, CancelLands, WorkerFaults, WorkerFails,
           NotifyFails
  <2> QED BY <2>2, <2>3, <2>4, <2>5, <2>6, <2>7 DEF WorkerNext
<1>2. rows' \in [Sessions -> RowStates]
  <2>1. CommitInDoubt(t) \/ DeactivateCommit(t) \/ UNCHANGED rows
    BY DEF WorkerNext, WorkerFaults, Connect, Dies, DeactivateRead,
           DeactivateFails, Notify, CancelLands, WorkerFails, NotifyFails
  <2> QED BY <2>1, CommitInDoubtType DEF TypeOK
<1>3. notices' \in [Keys -> 0..2] /\ faults' \in 0..MaxFaults
  BY DEF TypeOK, ConstantsAssumption, WorkerNext, WorkerFaults, Connect, Dies,
         DeactivateRead, DeactivateCommit, DeactivateFails, Notify, CancelLands,
         WorkerFails, NotifyFails, Told
<1>4. UNCHANGED <<keys, handlers, sup, running, startedWith, wanted>>
  BY DEF WorkerNext, WorkerFaults, Connect, Dies, DeactivateRead, supVars,
         DeactivateCommit, DeactivateFails, Notify, CancelLands, WorkerFails,
         NotifyFails
<1> QED BY <1>1, <1>2, <1>3, <1>4 DEF TypeOK

\* The state keeps its types: in particular a worker in progress always has
\* the row and the key it was started with (userbot/main.py, worker.py).
THEOREM TypeCorrect == ASSUME ConstantsAssumption PROVE Spec => []TypeOK
<1>1. Init => TypeOK
  BY InitType
<1>2. TypeOK /\ [Next]_vars => TypeOK'
  <2> SUFFICES ASSUME TypeOK, [Next]_vars PROVE TypeOK'
    OBVIOUS
  <2>1. CASE OwnerNext
    BY <2>1, OwnerType
  <2>2. CASE SupervisorNext
    BY <2>2, SupervisorType
  <2>3. ASSUME NEW t \in Tasks, WorkerNext(t) \/ WorkerFaults(t) PROVE TypeOK'
    BY <2>3, WorkerType
  <2>4. CASE UNCHANGED vars
    BY <2>4 DEF vars, TypeOK
  <2> QED BY <2>1, <2>2, <2>3, <2>4 DEF Next
<1> QED BY <1>1, <1>2, PTL DEF Spec

-----------------------------------------------------------------------------
(* The supervisor never loses track of a worker. *)

\* Everything but the supervisor leaves both dicts alone, and a worker that
\* is still live afterwards was live before, for the same row and key.
LEMMA OthersKeepTracked ==
  ASSUME TypeOK, OwnerNext \/ \E t \in Tasks : WorkerNext(t) \/ WorkerFaults(t)
  PROVE  /\ UNCHANGED <<running, startedWith>>
         /\ \A t \in Tasks : Live(t)' =>
              /\ Live(t)
              /\ tasks'[t].sess = tasks[t].sess /\ tasks'[t].key = tasks[t].key
<1> USE DEF TypeOK, TaskStates, Live, supVars
<1>1. CASE OwnerNext
  BY <1>1 DEF OwnerNext, SignIn, LinkRead, LinkCommit, LinkFails, UnlinkRead,
              UnlinkCommit, DeleteUser, Revoke
<1>2. ASSUME NEW t \in Tasks, WorkerNext(t) \/ WorkerFaults(t)
      PROVE  /\ UNCHANGED <<running, startedWith>>
             /\ \A w \in Tasks : Live(w)' =>
                  /\ Live(w)
                  /\ tasks'[w].sess = tasks[w].sess
                  /\ tasks'[w].key = tasks[w].key
  <2>1. CASE Connect(t) \/ Dies(t) \/ DeactivateCommit(t)
    BY <2>1 DEF Connect, Dies, DeactivateCommit, At
  <2>2. CASE DeactivateRead(t)
    BY <2>2 DEF DeactivateRead, At
  <2>3. CASE \/ DeactivateFails(t) \/ Notify(t) \/ CancelLands(t)
             \/ WorkerFaults(t)
    BY <2>3 DEF DeactivateFails, Notify, CancelLands, WorkerFaults, WorkerFails,
                NotifyFails
  <2> QED BY <1>2, <2>1, <2>2, <2>3 DEF WorkerNext
<1> QED BY <1>1, <1>2

LEMMA ApplyKeepsTracked ==
  ASSUME ConstantsAssumption, TypeOK, WorkersAreTracked, Apply
  PROVE  WorkersAreTracked'
<1>1. PICK new \in [Started -> FreeTasks] :
        /\ running' = [s \in Sessions |->
                         IF s \in Started THEN new[s]
                         ELSE IF s \in Kept THEN running[s] ELSE NoTask]
        /\ startedWith' = [s \in Sessions |->
                             IF s \in Started THEN sup.snap[s]
                             ELSE IF s \in Kept THEN startedWith[s] ELSE NoKey]
        /\ tasks' = Pool(new)
  BY DEF Apply
<1>2. ASSUME NEW t \in Tasks, Live(t)'
      PROVE  /\ tasks'[t].sess \in Sessions
             /\ running'[tasks'[t].sess] = t
             /\ startedWith'[tasks'[t].sess] = tasks'[t].key
  <2>1. CASE \E s \in Started : new[s] = t
    <3>1. PICK s \in Started : new[s] = t /\ tasks'[t] = NewTask(s, sup.snap[s])
      BY <1>1, <2>1 DEF Pool
    <3> QED BY <1>1, <3>1 DEF Started
  <2>2. CASE ~\E s \in Started : new[s] = t
    <3>1. CASE \E s \in Stopped : running[s] = t
      <4>1. tasks'[t] = [tasks[t] EXCEPT !.cancelled = TRUE]
        BY <1>1, <2>2, <3>1 DEF Pool
      <4>2. tasks'[t].cancelled
        BY <4>1 DEF TypeOK, TaskStates
      <4> QED BY <1>2, <4>2 DEF Live
    <3>2. CASE ~\E s \in Stopped : running[s] = t
      <4>1. tasks'[t] = tasks[t] /\ Live(t)
        BY <1>1, <1>2, <2>2, <3>2 DEF Pool, Live
      <4>2. /\ tasks[t].sess \in Sessions /\ running[tasks[t].sess] = t
            /\ startedWith[tasks[t].sess] = tasks[t].key
        BY <4>1 DEF WorkersAreTracked
      <4>3. tasks[t].sess \in Kept
        BY <3>2, <4>1, <4>2 DEF Kept, Running, Reaped, Live, ConstantsAssumption
      <4> QED BY <1>1, <4>1, <4>2, <4>3 DEF Started
    <3> QED BY <3>1, <3>2
  <2> QED BY <2>1, <2>2
<1>3. ASSUME NEW s \in Sessions
      PROVE  running'[s] = NoTask <=> startedWith'[s] = NoKey
  BY <1>1 DEF WorkersAreTracked, Started, FreeTasks, ConstantsAssumption, TypeOK
<1> QED BY <1>2, <1>3 DEF WorkersAreTracked

\* userbot/main.py keeps "exactly one worker task per active session": every
\* worker that is not cancelled is the one in `running` for its row, started
\* with the key in `started_with`.
THEOREM Tracked == ASSUME ConstantsAssumption PROVE Spec => []WorkersAreTracked
<1>1. Init => WorkersAreTracked
  BY DEF Init, WorkersAreTracked, Live
<1>2. TypeOK /\ WorkersAreTracked /\ [Next]_vars => WorkersAreTracked'
  <2> SUFFICES ASSUME TypeOK, WorkersAreTracked, [Next]_vars
               PROVE  WorkersAreTracked'
    OBVIOUS
  <2>1. CASE OwnerNext \/ \E t \in Tasks : WorkerNext(t) \/ WorkerFaults(t)
    BY <2>1, OthersKeepTracked DEF WorkersAreTracked
  <2>2. CASE Apply
    BY <2>2, ApplyKeepsTracked
  <2>3. CASE Wake \/ Load \/ LoadFails
    BY <2>3 DEF Wake, Load, LoadFails, WorkersAreTracked, Live
  <2>4. CASE Restart
    BY <2>4 DEF Restart, WorkersAreTracked, Live
  <2>5. CASE UNCHANGED vars
    BY <2>5 DEF vars, WorkersAreTracked, Live
  <2> QED BY <2>1, <2>2, <2>3, <2>4, <2>5 DEF Next, SupervisorNext
<1> QED BY <1>1, <1>2, TypeCorrect, PTL DEF Spec

-----------------------------------------------------------------------------
(* One worker per account: the table, what the supervisor loaded from it    *)
(* and the workers it runs hold one row per account each.                   *)

OneRowPerAccount ==
  \A s1, s2 \in Sessions :
    Present(s1) /\ Present(s2) /\ AccountOf[s1] = AccountOf[s2] => s1 = s2

OneLoadedPerAccount ==
  \A s1, s2 \in Sessions :
    sup.snap[s1] # NoKey /\ sup.snap[s2] # NoKey
      /\ AccountOf[s1] = AccountOf[s2] => s1 = s2

OneRunningPerAccount ==
  \A s1, s2 \in Sessions :
    s1 \in Running /\ s2 \in Running /\ AccountOf[s1] = AccountOf[s2] => s1 = s2

AccountInv == OneRowPerAccount /\ OneLoadedPerAccount /\ OneRunningPerAccount

LEMMA OwnerKeepsRowsApart ==
  ASSUME TypeOK, OneRowPerAccount, OwnerNext PROVE OneRowPerAccount'
<1> USE DEF TypeOK, OneRowPerAccount, Present
<1>1. CASE \E h \in Handlers : LinkCommit(h)
  <2>1. PICK h \in Handlers : LinkCommit(h)
    BY <1>1
  <2>2. ASSUME handlers[h].targets = {}, RowsOf(handlers[h].acct) = {},
               NEW s \in FreshRows(handlers[h].acct),
               rows' = [rows EXCEPT ![s] = [state |-> "present",
                                            key |-> handlers[h].key,
                                            active |-> TRUE]]
        PROVE  OneRowPerAccount'
    BY <2>2 DEF RowsOf, FreshRows
  <2>3. ASSUME NEW s \in handlers[h].targets, Present(s),
               rows' = [rows EXCEPT ![s] = Relinked(@, handlers[h].key,
                                                    handlers[h].seen)]
        PROVE  OneRowPerAccount'
    <3>1. Relinked(rows[s], handlers[h].key, handlers[h].seen).state = "present"
          \/ s \notin Sessions
      BY <2>3 DEF Relinked, RowStates
    <3> QED BY <2>3, <3>1
  <2> QED BY <2>1, <2>2, <2>3 DEF LinkCommit
<1>2. CASE \E h \in Handlers : UnlinkCommit(h)
  <2>1. \A s \in Sessions : rows'[s].state = rows[s].state
    BY <1>2 DEF UnlinkCommit, RowStates
  <2> QED BY <2>1
<1>3. CASE DeleteUser
  <2>1. \A s \in Sessions : rows'[s].state # "present"
    BY <1>3 DEF DeleteUser
  <2> QED BY <2>1
<1>4. CASE UNCHANGED rows
  BY <1>4
<1> QED
  BY <1>1, <1>2, <1>3, <1>4 DEF OwnerNext, SignIn, LinkRead, LinkFails,
     UnlinkRead, Revoke

\* No worker step creates, removes or re-keys a row.
LEMMA WorkerRows ==
  ASSUME TypeOK, NEW t \in Tasks, WorkerNext(t) \/ WorkerFaults(t)
  PROVE  \A s \in Sessions : /\ rows'[s].state = rows[s].state
                            /\ rows'[s].key = rows[s].key
<1>1. CASE UNCHANGED rows
  BY <1>1
<1>2. CASE rows' = Deactivated(t)
  BY <1>2 DEF Deactivated, TypeOK, RowStates
<1> QED
  BY <1>1, <1>2 DEF WorkerNext, WorkerFaults, Connect, Dies, DeactivateRead,
     DeactivateCommit, DeactivateFails, Notify, CancelLands, CommitInDoubt,
     WorkerFails, NotifyFails

LEMMA AccountStep ==
  ASSUME ConstantsAssumption, TypeOK, WorkersAreTracked, AccountInv, [Next]_vars
  PROVE  AccountInv'
<1>1. OneRowPerAccount'
  <2>1. CASE OwnerNext
    BY <2>1, OwnerKeepsRowsApart DEF AccountInv
  <2>2. ASSUME NEW t \in Tasks, WorkerNext(t) \/ WorkerFaults(t)
        PROVE  OneRowPerAccount'
    BY <2>2, WorkerRows DEF AccountInv, OneRowPerAccount, Present
  <2>3. CASE SupervisorNext \/ UNCHANGED vars
    BY <2>3 DEF AccountInv, OneRowPerAccount, Present, SupervisorNext, Wake,
       Load, LoadFails, Apply, Restart, vars
  <2> QED BY <2>1, <2>2, <2>3 DEF Next
<1>2. CASE Apply
  <2>1. OneLoadedPerAccount'
    <3>1. sup'.snap = EmptySnap
      BY <1>2 DEF Apply
    <3> QED BY <3>1 DEF OneLoadedPerAccount
  <2>2. Running' \subseteq {s \in Sessions : sup.snap[s] # NoKey}
    BY <1>2 DEF Apply, Running, Started, Kept, Stopped
  <2>3. OneRunningPerAccount'
    BY <2>2 DEF AccountInv, OneLoadedPerAccount, OneRunningPerAccount, Running
  <2> QED BY <1>1, <2>1, <2>3 DEF AccountInv
<1>3. CASE Load
  <2>1. OneLoadedPerAccount'
    <3>1. sup'.snap = Snapshot
      BY <1>3 DEF Load
    <3>2. \A s \in Sessions : sup'.snap[s] # NoKey => Present(s)
      BY <3>1 DEF Snapshot, ActiveRows
    <3> QED BY <3>2 DEF AccountInv, OneRowPerAccount, OneLoadedPerAccount
  <2> QED BY <1>1, <1>3, <2>1 DEF Load, AccountInv, OneRunningPerAccount, Running
<1>4. CASE Wake \/ LoadFails
  <2>1. sup'.snap = sup.snap /\ UNCHANGED running
    BY <1>4 DEF Wake, LoadFails, TypeOK
  <2> QED BY <1>1, <2>1 DEF AccountInv, OneLoadedPerAccount,
             OneRunningPerAccount, Running
<1>5. CASE Restart
  <2>1. sup'.snap = EmptySnap /\ running' = [s \in Sessions |-> NoTask]
    BY <1>5 DEF Restart
  <2> QED BY <1>1, <2>1 DEF AccountInv, OneLoadedPerAccount,
             OneRunningPerAccount, Running
<1>6. CASE OwnerNext \/ (\E t \in Tasks : WorkerNext(t) \/ WorkerFaults(t))
           \/ UNCHANGED vars
  <2>1. UNCHANGED <<sup, running>>
    BY <1>6 DEF OwnerNext, SignIn, LinkRead, LinkCommit, LinkFails, UnlinkRead,
       UnlinkCommit, DeleteUser, Revoke, WorkerNext, WorkerFaults, Connect,
       Dies, DeactivateRead, DeactivateCommit, DeactivateFails, Notify,
       CancelLands, WorkerFails, NotifyFails, supVars, vars
  <2> QED BY <1>1, <2>1 DEF AccountInv, OneLoadedPerAccount,
             OneRunningPerAccount, Running
<1> QED BY <1>2, <1>3, <1>4, <1>5, <1>6 DEF Next, SupervisorNext

LEMMA AccountInit == Init => AccountInv
<1> SUFFICES ASSUME Init PROVE AccountInv
  OBVIOUS
<1>1. \A s \in Sessions : ~Present(s) /\ s \notin Running
  BY DEF Init, Present, Running
<1>2. sup.snap = EmptySnap
  BY DEF Init
<1> QED BY <1>1, <1>2 DEF AccountInv, OneRowPerAccount, OneLoadedPerAccount,
           OneRunningPerAccount

\* No account is ever served by two workers that are both meant to run, even
\* when its row is deleted and created again between two polls.
THEOREM OneWorker == ASSUME ConstantsAssumption PROVE Spec => []OneWorkerPerAccount
<1>2. TypeOK /\ WorkersAreTracked /\ AccountInv /\ [Next]_vars => AccountInv'
  BY AccountStep
<1>3. TypeOK /\ WorkersAreTracked /\ AccountInv => OneWorkerPerAccount
  BY DEF WorkersAreTracked, AccountInv, OneRunningPerAccount, Running,
     OneWorkerPerAccount, ConstantsAssumption
<1> QED BY <1>2, <1>3, AccountInit, TypeCorrect, Tracked, PTL DEF Spec

-----------------------------------------------------------------------------
(* The notice. *)

\* A worker on its way to the notice has been told by Telegram that its key
\* is dead, and a dead key stays dead.
DyingKeysAreDead ==
  /\ \A t \in Tasks : tasks[t].pc \in {"dying", "deactivating", "notifying"}
       => keys[tasks[t].key] = "dead"
  /\ NoticeOnlyForDeadKey

LEMMA DeadStaysDead ==
  ASSUME TypeOK, [Next]_vars
  PROVE  \A k \in Keys : keys[k] = "dead" => keys'[k] = "dead"
<1>1. CASE \E h \in Handlers, a \in Accounts, k \in Keys : SignIn(h, a, k)
  BY <1>1 DEF SignIn, TypeOK
<1>2. CASE \E k \in Keys : Revoke(k)
  BY <1>2 DEF Revoke, TypeOK
<1>3. CASE UNCHANGED keys
  BY <1>3
<1> QED
  BY <1>1, <1>2, <1>3 DEF Next, OwnerNext, LinkRead, LinkCommit, LinkFails,
     UnlinkRead, UnlinkCommit, DeleteUser, SupervisorNext, Wake, Load,
     LoadFails, Apply, Restart, WorkerNext, WorkerFaults, Connect, Dies,
     DeactivateRead, DeactivateCommit, DeactivateFails, Notify, CancelLands,
     WorkerFails, NotifyFails, vars

LEMMA WorkerKeepsDying ==
  ASSUME TypeOK, DyingKeysAreDead, NEW t \in Tasks,
         WorkerNext(t) \/ WorkerFaults(t)
  PROVE  DyingKeysAreDead'
<1> USE DEF TypeOK, TaskStates, DyingKeysAreDead, NoticeOnlyForDeadKey, At
<1>1. CASE Connect(t)
  BY <1>1 DEF Connect
<1>2. CASE Dies(t)
  BY <1>2 DEF Dies
<1>3. CASE DeactivateRead(t)
  BY <1>3 DEF DeactivateRead
<1>4. CASE DeactivateCommit(t)
  BY <1>4 DEF DeactivateCommit
<1>5. CASE DeactivateFails(t)
  BY <1>5 DEF DeactivateFails
<1>6. CASE Notify(t)
  BY <1>6 DEF Notify, Told
<1>7. CASE CancelLands(t)
  BY <1>7 DEF CancelLands, Told
<1>8. CASE WorkerFaults(t)
  BY <1>8 DEF WorkerFaults, WorkerFails, NotifyFails
<1> QED
  BY <1>1, <1>2, <1>3, <1>4, <1>5, <1>6, <1>7, <1>8 DEF WorkerNext

LEMMA DyingStep ==
  ASSUME TypeOK, DyingKeysAreDead, [Next]_vars PROVE DyingKeysAreDead'
<1>1. \A k \in Keys : keys[k] = "dead" => keys'[k] = "dead"
  BY DeadStaysDead
<1>2. CASE \E t \in Tasks : WorkerNext(t) \/ WorkerFaults(t)
  BY <1>2, WorkerKeepsDying
<1>3. CASE Apply
  <2>1. UNCHANGED notices
    BY <1>3 DEF Apply
  <2>2. ASSUME NEW t \in Tasks,
               tasks'[t].pc \in {"dying", "deactivating", "notifying"}
        PROVE  tasks'[t].pc = tasks[t].pc /\ tasks'[t].key = tasks[t].key
    <3>1. PICK new \in [Started -> FreeTasks] : tasks' = Pool(new)
      BY <1>3 DEF Apply
    <3> QED BY <2>2, <3>1 DEF Pool, TypeOK, TaskStates
  <2> QED BY <1>1, <2>1, <2>2 DEF DyingKeysAreDead, NoticeOnlyForDeadKey, TypeOK
<1>4. CASE Restart
  BY <1>1, <1>4 DEF Restart, DyingKeysAreDead, NoticeOnlyForDeadKey, TypeOK
<1>5. CASE UNCHANGED <<tasks, notices>>
  BY <1>1, <1>5 DEF DyingKeysAreDead, NoticeOnlyForDeadKey, TypeOK
<1> QED
  BY <1>2, <1>3, <1>4, <1>5 DEF Next, OwnerNext, SignIn, LinkRead, LinkCommit,
     LinkFails, UnlinkRead, UnlinkCommit, DeleteUser, Revoke, SupervisorNext,
     Wake, Load, LoadFails, vars

LEMMA DyingInit == Init => DyingKeysAreDead
  BY DEF Init, DyingKeysAreDead, NoticeOnlyForDeadKey

\* worker.py: a "session_invalid" notice is only ever sent about a key that
\* Telegram has killed.
THEOREM NoticeSound ==
  ASSUME ConstantsAssumption PROVE Spec => []NoticeOnlyForDeadKey
<1>1. TypeOK /\ DyingKeysAreDead /\ [Next]_vars => DyingKeysAreDead'
  BY DyingStep
<1>2. DyingKeysAreDead => NoticeOnlyForDeadKey
  BY DEF DyingKeysAreDead
<1> QED BY <1>1, <1>2, DyingInit, TypeCorrect, PTL DEF Spec

-----------------------------------------------------------------------------
(* A completed login survives, unless a re-link of its row overlaps a       *)
(* deactivation of that row.                                                *)

TOpen(t) == tasks[t].pc = "deactivating"

\* No save_session that has read a row overlaps an unlinking or a worker's
\* deactivation that has read the same row: what `SELECT ... FOR UPDATE` in
\* db/queries.py would give.  Every other overlap is allowed.
RelinksApart ==
  \A h \in Handlers : handlers[h].pc = "saving" =>
    \A s \in handlers[h].targets :
      /\ \A g \in Handlers :
           handlers[g].pc = "unlinking" => s \notin handlers[g].targets
      /\ \A t \in Tasks : TOpen(t) => tasks[t].sess # s

\* What an open transaction has read and relies on still holds.
ReadsKept ==
  /\ \A h \in Handlers : handlers[h].pc = "saving" =>
       \A s \in handlers[h].targets :
         /\ AccountOf[s] = handlers[h].acct
         /\ rows[s].state # "absent"
         /\ handlers[h].seen /\ Present(s) => rows[s].active
  /\ \A t \in Tasks : TOpen(t) =>
       /\ rows[tasks[t].sess].state # "absent"
       /\ Present(tasks[t].sess) => rows[tasks[t].sess].key = tasks[t].key

\* The key of a login in progress, or completed, has been issued by Telegram.
KeysIssued ==
  /\ \A h \in Handlers : handlers[h].pc \in {"linking", "saving"} =>
       keys[handlers[h].key] # "unused"
  /\ \A a \in Accounts : wanted[a] # NoKey => keys[wanted[a]] # "unused"

\* A step that opens no transaction, and switches off or re-keys no row that
\* an open one relies on.
LEMMA ReadsStay ==
  ASSUME TypeOK, ReadsKept,
         \A s \in Sessions : rows[s].state # "absent" => rows'[s].state # "absent",
         \A h \in Handlers : handlers'[h].pc = "saving" =>
           /\ handlers'[h] = handlers[h]
           /\ \A s \in handlers[h].targets : rows'[s].state = "present" =>
                Present(s) /\ (rows[s].active => rows'[s].active),
         \A t \in Tasks : TOpen(t)' =>
           /\ TOpen(t)
           /\ tasks'[t].sess = tasks[t].sess /\ tasks'[t].key = tasks[t].key
           /\ rows'[tasks[t].sess].state = "present" =>
                /\ Present(tasks[t].sess)
                /\ rows'[tasks[t].sess].key = rows[tasks[t].sess].key
  PROVE  ReadsKept'
<1>1. ASSUME NEW h \in Handlers, handlers'[h].pc = "saving",
             NEW s \in handlers'[h].targets
      PROVE  /\ AccountOf[s] = handlers'[h].acct
             /\ rows'[s].state # "absent"
             /\ handlers'[h].seen /\ rows'[s].state = "present" => rows'[s].active
  <2>1. handlers'[h] = handlers[h] /\ handlers[h].pc = "saving"
    BY <1>1
  <2>2. s \in Sessions /\ s \in handlers[h].targets
    BY <1>1, <2>1 DEF TypeOK, HandlerStates
  <2> QED BY <1>1, <2>1, <2>2 DEF ReadsKept, Present
<1>2. ASSUME NEW t \in Tasks, TOpen(t)'
      PROVE  /\ rows'[tasks'[t].sess].state # "absent"
             /\ rows'[tasks'[t].sess].state = "present" =>
                  rows'[tasks'[t].sess].key = tasks'[t].key
  <2>1. TOpen(t) /\ tasks'[t].sess = tasks[t].sess /\ tasks'[t].key = tasks[t].key
    BY <1>2
  <2>2. tasks[t].sess \in Sessions
    BY <2>1 DEF TypeOK, TOpen
  <2> QED BY <1>2, <2>1, <2>2 DEF ReadsKept, Present
<1> QED BY <1>1, <1>2 DEF ReadsKept, Present

\* The commit of a login: one row of the account holds its key and is active.
LEMMA LoginSaved ==
  ASSUME TypeOK, ReadsKept, NEW h \in Handlers, LinkCommit(h)
  PROVE  \E s \in Sessions :
           /\ AccountOf[s] = handlers[h].acct
           /\ rows'[s].state = "present" /\ rows'[s].active = TRUE
           /\ rows'[s].key = handlers[h].key
           /\ \A r \in Sessions \ {s} : rows'[r] = rows[r]
           /\ (rows[s].state = "absent" \/ (s \in handlers[h].targets /\ Present(s)))
<1> DEFINE a == handlers[h].acct
           k == handlers[h].key
<1>1. ASSUME NEW s \in FreshRows(a),
             rows' = [rows EXCEPT ![s] = [state |-> "present", key |-> k,
                                          active |-> TRUE]]
      PROVE  /\ s \in Sessions /\ AccountOf[s] = a /\ rows[s].state = "absent"
             /\ rows'[s].state = "present" /\ rows'[s].active = TRUE
             /\ rows'[s].key = k
             /\ \A r \in Sessions \ {s} : rows'[r] = rows[r]
  BY <1>1 DEF FreshRows, TypeOK
<1>2. ASSUME NEW s \in handlers[h].targets, Present(s),
             rows' = [rows EXCEPT ![s] = Relinked(@, k, handlers[h].seen)]
      PROVE  /\ s \in Sessions /\ AccountOf[s] = a
             /\ rows'[s].state = "present" /\ rows'[s].active = TRUE
             /\ rows'[s].key = k
             /\ \A r \in Sessions \ {s} : rows'[r] = rows[r]
  <2>1. s \in Sessions
    BY DEF TypeOK, HandlerStates
  <2>2. AccountOf[s] = a /\ (handlers[h].seen => rows[s].active)
    BY <1>2 DEF LinkCommit, ReadsKept
  <2>3. /\ rows'[s] = Relinked(rows[s], k, handlers[h].seen)
        /\ \A r \in Sessions \ {s} : rows'[r] = rows[r]
    BY <1>2, <2>1 DEF TypeOK
  <2>4. /\ Relinked(rows[s], k, handlers[h].seen).key = k
        /\ Relinked(rows[s], k, handlers[h].seen).state = "present"
        /\ Relinked(rows[s], k, handlers[h].seen).active = TRUE
    BY <1>2, <2>1, <2>2 DEF Relinked, Present, TypeOK, RowStates
  <2> QED BY <2>1, <2>2, <2>3, <2>4
<1> HIDE DEF a, k
<1>3. \/ \E s \in FreshRows(a) :
           rows' = [rows EXCEPT ![s] = [state |-> "present", key |-> k,
                                        active |-> TRUE]]
      \/ \E s \in handlers[h].targets :
           Present(s) /\ rows' = [rows EXCEPT ![s] = Relinked(@, k, handlers[h].seen)]
  BY DEF LinkCommit, a, k
<1>4. CASE \E s \in FreshRows(a) :
             rows' = [rows EXCEPT ![s] = [state |-> "present", key |-> k,
                                          active |-> TRUE]]
  BY <1>1, <1>4 DEF a, k
<1>5. CASE \E s \in handlers[h].targets :
             Present(s) /\ rows' = [rows EXCEPT ![s] = Relinked(@, k, handlers[h].seen)]
  BY <1>2, <1>5 DEF a, k
<1> QED BY <1>3, <1>4, <1>5

LEMMA OwnerReads ==
  ASSUME TypeOK, OneRowPerAccount, RelinksApart, ReadsKept, OwnerNext
  PROVE  ReadsKept'
<1>1. CASE OwnerNext /\ UNCHANGED <<rows, tasks>>
  <2>1. \A g \in Handlers : handlers'[g].pc = "saving" =>
          handlers'[g] = handlers[g] \/ LinkRead(g)
    <3>1. ASSUME NEW g \in Handlers, NEW a \in Accounts, NEW k \in Keys,
                 NEW h \in Handlers, SignIn(h, a, k)
          PROVE  handlers'[g].pc = "saving" => handlers'[g] = handlers[g]
      <4> DEFINE u == [IdleHandler EXCEPT !.pc = "linking", !.acct = a, !.key = k]
      <4>1. handlers' = [handlers EXCEPT ![h] = u]
        BY <3>1 DEF SignIn
      <4>2. u.pc = "linking"
        BY DEF IdleHandler
      <4> HIDE DEF u
      <4> QED BY <4>1, <4>2 DEF TypeOK
    <3>2. ASSUME NEW g \in Handlers, NEW h \in Handlers, UnlinkRead(h)
          PROVE  handlers'[g].pc = "saving" => handlers'[g] = handlers[g]
      <4> DEFINE u == [IdleHandler EXCEPT !.pc = "unlinking", !.targets = ActiveRows]
      <4>1. handlers' = [handlers EXCEPT ![h] = u]
        BY <3>2 DEF UnlinkRead
      <4>2. u.pc = "unlinking"
        BY DEF IdleHandler
      <4> HIDE DEF u
      <4> QED BY <4>1, <4>2 DEF TypeOK
    <3>3. ASSUME NEW g \in Handlers, NEW h \in Handlers,
                 LinkCommit(h) \/ LinkFails(h) \/ UnlinkCommit(h)
          PROVE  handlers'[g].pc = "saving" => handlers'[g] = handlers[g]
      BY <3>3 DEF LinkCommit, LinkFails, UnlinkCommit, IdleHandler, TypeOK
    <3>4. ASSUME NEW g \in Handlers, NEW h \in Handlers, LinkRead(h), g # h
          PROVE  handlers'[g] = handlers[g]
      BY <3>4 DEF LinkRead, TypeOK
    <3> QED BY <1>1, <3>1, <3>2, <3>3, <3>4 DEF OwnerNext, DeleteUser, Revoke
  <2>2. CASE \A h \in Handlers : ~LinkRead(h)
    BY <1>1, <2>1, <2>2, ReadsStay DEF Present, TOpen
  <2>3. ASSUME NEW h \in Handlers, LinkRead(h) PROVE ReadsKept'
    <3> DEFINE a == handlers[h].acct
               b == \E s \in RowsOf(a) : rows[s].active
    <3>1. b \in BOOLEAN /\ (b => \E s \in RowsOf(a) : rows[s].active)
      OBVIOUS
    <3>2. handlers' = [handlers EXCEPT ![h].pc = "saving",
                                       ![h].targets = RowsOf(a), ![h].seen = b]
      BY <2>3 DEF LinkRead
    <3> HIDE DEF b
    <3>3. /\ handlers'[h].acct = a
          /\ handlers'[h].targets = RowsOf(a) /\ handlers'[h].seen = b
          /\ \A g \in Handlers \ {h} : handlers'[g] = handlers[g]
      BY <3>2 DEF TypeOK, HandlerStates
    <3> HIDE DEF a
    <3>4. ASSUME NEW s \in RowsOf(a)
          PROVE  /\ AccountOf[s] = a /\ rows[s].state # "absent"
                 /\ b => rows[s].active
      BY <3>1, <3>4 DEF RowsOf, Present, OneRowPerAccount
    <3> QED BY <1>1, <3>3, <3>4 DEF ReadsKept, Present, TOpen
  <2> QED BY <2>2, <2>3
<1>2. ASSUME NEW h \in Handlers, LinkCommit(h) PROVE ReadsKept'
  <2>1. PICK s \in Sessions :
          /\ rows'[s].state = "present" /\ rows'[s].active = TRUE
          /\ \A r \in Sessions \ {s} : rows'[r] = rows[r]
          /\ (rows[s].state = "absent" \/ (s \in handlers[h].targets /\ Present(s)))
    BY <1>2, LoginSaved
  <2>2. \A g \in Handlers : handlers'[g].pc = "saving" =>
          handlers'[g] = handlers[g] /\ handlers[g].targets \subseteq Sessions
    BY <1>2 DEF LinkCommit, IdleHandler, TypeOK, HandlerStates
  <2>3. ASSUME NEW g \in Handlers, handlers'[g].pc = "saving",
               NEW r \in handlers[g].targets, rows'[r].state = "present"
        PROVE  Present(r) /\ (rows[r].active => rows'[r].active)
    <3>1. rows[r].state # "absent" /\ r \in Sessions
      BY <2>2, <2>3 DEF ReadsKept
    <3> QED BY <2>1, <2>3, <3>1 DEF Present
  <2>4. ASSUME NEW t \in Tasks, TOpen(t)
        PROVE  rows'[tasks[t].sess] = rows[tasks[t].sess]
    <3>1. tasks[t].sess \in Sessions /\ rows[tasks[t].sess].state # "absent"
      BY <2>4 DEF ReadsKept, TypeOK, TOpen
    <3>2. tasks[t].sess \notin handlers[h].targets
      BY <1>2, <2>4 DEF RelinksApart, LinkCommit
    <3> QED BY <2>1, <3>1, <3>2
  <2>5. tasks' = tasks
    BY <1>2 DEF LinkCommit
  <2>6. \A r \in Sessions : rows[r].state # "absent" => rows'[r].state # "absent"
    BY <2>1
  <2> QED BY <2>2, <2>3, <2>4, <2>5, <2>6, ReadsStay DEF TOpen, Present
<1>3. ASSUME NEW g \in Handlers, UnlinkCommit(g), rows' # rows PROVE ReadsKept'
  <2>1. /\ handlers[g].pc = "unlinking" /\ tasks' = tasks
        /\ \A s \in Sessions :
             /\ rows'[s].state = rows[s].state /\ rows'[s].key = rows[s].key
             /\ s \notin handlers[g].targets => rows'[s] = rows[s]
    BY <1>3 DEF UnlinkCommit, TypeOK, RowStates
  <2>2. \A h \in Handlers : handlers'[h].pc = "saving" =>
          handlers'[h] = handlers[h] /\ handlers[h].targets \subseteq Sessions
    BY <1>3 DEF UnlinkCommit, IdleHandler, TypeOK, HandlerStates
  <2>3. \A h \in Handlers : handlers'[h].pc = "saving" =>
          \A s \in handlers[h].targets : rows'[s] = rows[s]
    BY <2>1, <2>2 DEF RelinksApart
  <2>4. \A t \in Tasks : TOpen(t) => tasks[t].sess \in Sessions
    BY DEF TypeOK, TOpen
  <2> QED BY <2>1, <2>2, <2>3, <2>4, ReadsStay DEF TOpen, Present
<1>4. CASE DeleteUser
  <2>1. /\ UNCHANGED <<handlers, tasks>>
        /\ \A s \in Sessions : /\ rows'[s].state # "present"
                               /\ rows[s].state # "absent" => rows'[s].state # "absent"
    BY <1>4 DEF DeleteUser, DeletedRow, Present
  <2>2. \A h \in Handlers : handlers[h].targets \subseteq Sessions
    BY DEF TypeOK, HandlerStates
  <2>3. \A t \in Tasks : TOpen(t) => tasks[t].sess \in Sessions
    BY DEF TypeOK, TOpen
  <2> QED BY <2>1, <2>2, <2>3, ReadsStay DEF TOpen
<1> QED
  BY <1>1, <1>2, <1>3, <1>4 DEF OwnerNext, SignIn, LinkRead, LinkFails,
     UnlinkRead, UnlinkCommit, Revoke

LEMMA SupervisorReads ==
  ASSUME TypeOK, ReadsKept, SupervisorNext PROVE ReadsKept'
<1>1. UNCHANGED <<rows, handlers>>
  BY DEF SupervisorNext, Wake, Load, LoadFails, Apply, Restart
<1>2. \A t \in Tasks : TOpen(t)' =>
        /\ TOpen(t)
        /\ tasks'[t].sess = tasks[t].sess /\ tasks'[t].key = tasks[t].key
  <2>1. CASE Apply
    <3>1. PICK new \in [Started -> FreeTasks] : tasks' = Pool(new)
      BY <2>1 DEF Apply
    <3> QED BY <3>1 DEF Pool, TypeOK, TaskStates, TOpen
  <2>2. CASE Restart
    BY <2>2 DEF Restart, TOpen
  <2>3. CASE UNCHANGED tasks
    BY <2>3 DEF TOpen
  <2> QED BY <2>1, <2>2, <2>3 DEF SupervisorNext, Wake, Load, LoadFails
<1> QED BY <1>1, <1>2, ReadsStay DEF Present

LEMMA WorkerReads ==
  ASSUME TypeOK, RelinksApart, ReadsKept, NEW t \in Tasks,
         WorkerNext(t) \/ WorkerFaults(t)
  PROVE  ReadsKept'
<1>1. UNCHANGED handlers /\ \A h \in Handlers : handlers[h].targets \subseteq Sessions
  BY DEF WorkerNext, WorkerFaults, Connect, Dies, DeactivateRead,
     DeactivateCommit, DeactivateFails, Notify, CancelLands, WorkerFails,
     NotifyFails, TypeOK, HandlerStates
<1>2. \A w \in Tasks \ {t} : tasks'[w] = tasks[w]
  BY DEF WorkerNext, WorkerFaults, Connect, Dies, DeactivateRead,
     DeactivateCommit, DeactivateFails, Notify, CancelLands, WorkerFails,
     NotifyFails, TypeOK
<1>3. \/ UNCHANGED rows
      \/ TOpen(t) /\ rows' = Deactivated(t)
  BY DEF WorkerNext, WorkerFaults, Connect, Dies, DeactivateRead,
     DeactivateCommit, DeactivateFails, Notify, CancelLands, WorkerFails,
     NotifyFails, CommitInDoubt, At, TOpen
<1>4. CASE DeactivateRead(t) /\ OwnsRow(t)
  <2>1. UNCHANGED rows /\ tasks'[t].sess = tasks[t].sess
        /\ tasks'[t].key = tasks[t].key
    BY <1>4 DEF DeactivateRead, TypeOK, TaskStates
  <2>2. Present(tasks[t].sess) /\ rows[tasks[t].sess].key = tasks[t].key
    BY <1>4 DEF OwnsRow
  <2> QED BY <1>1, <1>2, <2>1, <2>2 DEF ReadsKept, Present, TOpen
<1>5. ASSUME TOpen(t)' PROVE DeactivateRead(t) /\ OwnsRow(t)
  <2>1. ~(Connect(t) \/ Dies(t) \/ DeactivateCommit(t) \/ DeactivateFails(t)
          \/ Notify(t) \/ CancelLands(t) \/ WorkerFails(t) \/ NotifyFails(t))
    BY <1>5 DEF Connect, Dies, DeactivateCommit, DeactivateFails, Notify,
       CancelLands, WorkerFails, NotifyFails, TOpen, TypeOK, TaskStates, DoneTask
  <2>2. DeactivateRead(t)
    BY <2>1 DEF WorkerNext, WorkerFaults
  <2>3. OwnsRow(t)
    BY <1>5, <2>2 DEF DeactivateRead, TOpen, TypeOK, DoneTask
  <2> QED BY <2>2, <2>3
<1>6. CASE ~TOpen(t)'
  <2>1. \A s \in Sessions : rows'[s].state = rows[s].state /\ rows'[s].key = rows[s].key
    BY <1>3 DEF Deactivated, TypeOK, RowStates
  <2>2. \A h \in Handlers : handlers[h].pc = "saving" =>
          \A s \in handlers[h].targets : rows'[s] = rows[s]
    <3>1. CASE UNCHANGED rows
      BY <3>1
    <3>2. CASE TOpen(t) /\ rows' = Deactivated(t)
      BY <1>1, <3>2 DEF RelinksApart, Deactivated, TypeOK
    <3> QED BY <1>3, <3>1, <3>2
  <2>3. \A w \in Tasks : TOpen(w) => tasks[w].sess \in Sessions
    BY DEF TypeOK, TOpen
  <2>4. \A w \in Tasks : TOpen(w)' => TOpen(w) /\ tasks'[w] = tasks[w]
    BY <1>2, <1>6 DEF TOpen
  <2> QED BY <1>1, <2>1, <2>2, <2>3, <2>4, ReadsStay DEF Present
<1> QED BY <1>4, <1>5, <1>6

\* A row keeps the key and the activity a login gave it, unless the owner or
\* the worker of that very key takes the activity away.
LEMMA OwnerLogin ==
  ASSUME TypeOK, ConstantsAssumption, ReadsKept, KeysIssued,
         FreshLoginSurvives, OwnerNext
  PROVE  FreshLoginSurvives'
<1> USE DEF TypeOK, HandlerStates, RowStates
<1>1. ASSUME UNCHANGED <<rows, wanted>> PROVE FreshLoginSurvives'
  <2>1. ASSUME NEW k \in Keys, keys'[k] = "live", keys[k] # "unused"
        PROVE  keys[k] = "live"
    BY <2>1 DEF OwnerNext, SignIn, LinkRead, LinkCommit, LinkFails, UnlinkRead,
       UnlinkCommit, DeleteUser, Revoke
  <2> QED BY <1>1, <2>1 DEF FreshLoginSurvives, KeysIssued, Linked, Present
<1>2. ASSUME NEW h \in Handlers, LinkCommit(h) PROVE FreshLoginSurvives'
  <2> DEFINE a == handlers[h].acct
             k == handlers[h].key
  <2>1. a \in Accounts /\ k \in Keys /\ UNCHANGED keys
        /\ wanted' = [wanted EXCEPT ![a] = k]
    BY <1>2 DEF LinkCommit
  <2> DEFINE Saved(s) ==
               /\ s \in Sessions /\ AccountOf[s] = a
               /\ rows'[s].state = "present" /\ rows'[s].active = TRUE
               /\ rows'[s].key = k
               /\ \A r \in Sessions \ {s} : rows'[r] = rows[r]
  <2>2. PICK s \in Sessions : Saved(s)
    BY <1>2, LoginSaved
  <2>3. ASSUME NEW b \in Accounts, b # a, wanted[b] # NoKey,
               keys[wanted[b]] = "live"
        PROVE  \E r \in Sessions : AccountOf[r] = b /\ Linked(r, wanted[b])'
    <3>1. PICK r \in Sessions : AccountOf[r] = b /\ Linked(r, wanted[b])
      BY <2>3 DEF FreshLoginSurvives
    <3>2. rows'[r] = rows[r]
      BY <2>2, <2>3, <3>1
    <3> QED BY <2>1, <2>3, <3>1, <3>2 DEF Linked, Present
  <2>4. ASSUME NEW b \in Accounts, wanted'[b] # NoKey, keys'[wanted'[b]] = "live"
        PROVE  \E r \in Sessions : AccountOf[r] = b /\ Linked(r, wanted[b])'
    <3>1. CASE b = a
      <4>1. wanted'[b] = k
        BY <2>1, <3>1
      <4> QED BY <2>2, <3>1, <4>1 DEF Linked, Present
    <3>2. CASE b # a
      <4>1. wanted'[b] = wanted[b] /\ keys[wanted[b]] = "live"
        BY <2>1, <2>4, <3>2
      <4> QED BY <2>3, <2>4, <3>2, <4>1 DEF Linked, Present
    <3> QED BY <3>1, <3>2
  <2> QED BY <2>4 DEF FreshLoginSurvives
<1>3. ASSUME NEW h \in Handlers, UnlinkCommit(h), ~UNCHANGED <<rows, wanted>>
      PROVE  FreshLoginSurvives'
  <2> DEFINE T == handlers[h].targets
  <2>1. UNCHANGED keys /\ \A s \in Sessions \ T : rows'[s] = rows[s]
    BY <1>3 DEF UnlinkCommit
  <2>2. ASSUME NEW b \in Accounts, wanted'[b] # NoKey
        PROVE  wanted'[b] = wanted[b] /\ \A s \in T : AccountOf[s] # b
    BY <1>3, <2>2 DEF UnlinkCommit
  <2>3. ASSUME NEW b \in Accounts, wanted'[b] # NoKey, keys'[wanted'[b]] = "live"
        PROVE  \E r \in Sessions : AccountOf[r] = b /\ Linked(r, wanted[b])'
    <3>1. PICK r \in Sessions : AccountOf[r] = b /\ Linked(r, wanted[b])
      BY <2>1, <2>2, <2>3 DEF FreshLoginSurvives
    <3>2. rows'[r] = rows[r] /\ wanted'[b] = wanted[b]
      BY <2>1, <2>2, <2>3, <3>1
    <3> QED BY <3>1, <3>2 DEF Linked, Present
  <2> QED BY <2>3 DEF FreshLoginSurvives
<1>4. CASE DeleteUser
  BY <1>4 DEF DeleteUser, FreshLoginSurvives
<1> QED
  BY <1>1, <1>2, <1>3, <1>4 DEF OwnerNext, SignIn, LinkRead, LinkFails,
     UnlinkRead, Revoke

LEMMA WorkerLogin ==
  ASSUME TypeOK, ReadsKept, DyingKeysAreDead, FreshLoginSurvives,
         NEW t \in Tasks, WorkerNext(t) \/ WorkerFaults(t)
  PROVE  FreshLoginSurvives'
<1>1. UNCHANGED <<keys, wanted>>
  BY DEF WorkerNext, WorkerFaults, Connect, Dies, DeactivateRead,
     DeactivateCommit, DeactivateFails, Notify, CancelLands, WorkerFails,
     NotifyFails
<1>2. \/ UNCHANGED rows
      \/ tasks[t].pc = "deactivating" /\ rows' = Deactivated(t)
  BY DEF WorkerNext, WorkerFaults, Connect, Dies, DeactivateRead,
     DeactivateCommit, DeactivateFails, Notify, CancelLands, WorkerFails,
     NotifyFails, CommitInDoubt, At
<1>3. CASE UNCHANGED rows
  BY <1>1, <1>3 DEF FreshLoginSurvives, Linked, Present
<1>4. CASE tasks[t].pc = "deactivating" /\ rows' = Deactivated(t)
  <2>1. /\ Present(tasks[t].sess) => rows[tasks[t].sess].key = tasks[t].key
        /\ keys[tasks[t].key] = "dead"
    BY <1>4 DEF ReadsKept, TOpen, DyingKeysAreDead
  <2>2. ASSUME NEW a \in Accounts, wanted[a] # NoKey, keys[wanted[a]] = "live"
        PROVE  \E r \in Sessions : AccountOf[r] = a /\ Linked(r, wanted[a])'
    <3>1. PICK r \in Sessions : AccountOf[r] = a /\ Linked(r, wanted[a])
      BY <2>2 DEF FreshLoginSurvives
    <3>2. r # tasks[t].sess
      BY <2>1, <2>2, <3>1 DEF Linked
    <3>3. rows'[r] = rows[r]
      BY <1>4, <3>2 DEF Deactivated, TypeOK
    <3> QED BY <1>1, <3>1, <3>3 DEF Linked, Present
  <2> QED BY <1>1, <2>2 DEF FreshLoginSurvives, Linked, Present
<1> QED BY <1>2, <1>3, <1>4

LEMMA IssuedStep ==
  ASSUME TypeOK, KeysIssued, [Next]_vars PROVE KeysIssued'
<1>1. \A k \in Keys : keys[k] # "unused" => keys'[k] # "unused"
  BY DEF TypeOK, Next, OwnerNext, SignIn, LinkRead, LinkCommit, LinkFails,
     UnlinkRead, UnlinkCommit, DeleteUser, Revoke, SupervisorNext, Wake, Load,
     LoadFails, Apply, Restart, WorkerNext, WorkerFaults, Connect, Dies,
     DeactivateRead, DeactivateCommit, DeactivateFails, Notify, CancelLands,
     WorkerFails, NotifyFails, vars
<1>2. ASSUME NEW h \in Handlers, handlers'[h].pc \in {"linking", "saving"}
      PROVE  keys'[handlers'[h].key] # "unused"
  <2>1. CASE \E a \in Accounts, k \in Keys : SignIn(h, a, k)
    <3>1. PICK a \in Accounts, k \in Keys : SignIn(h, a, k)
      BY <2>1
    <3> DEFINE u == [IdleHandler EXCEPT !.pc = "linking", !.acct = a, !.key = k]
    <3>2. handlers'[h] = u /\ keys'[k] = "live"
      BY <3>1 DEF SignIn, TypeOK
    <3>3. u.key = k
      OBVIOUS
    <3> QED BY <3>2, <3>3
  <2>2. CASE LinkRead(h)
    <3>1. handlers'[h].key = handlers[h].key /\ handlers[h].pc = "linking"
      BY <2>2 DEF LinkRead, TypeOK, HandlerStates
    <3> QED BY <1>1, <3>1 DEF KeysIssued, TypeOK
  <2>3. CASE handlers'[h] = handlers[h]
    BY <1>1, <1>2, <2>3 DEF KeysIssued, TypeOK
  <2>4. CASE UnlinkRead(h)
    <3> DEFINE u == [IdleHandler EXCEPT !.pc = "unlinking", !.targets = ActiveRows]
    <3>1. handlers'[h] = u
      BY <2>4 DEF UnlinkRead, TypeOK
    <3>2. u.pc = "unlinking"
      OBVIOUS
    <3> QED BY <1>2, <3>1, <3>2
  <2>5. CASE LinkCommit(h) \/ LinkFails(h) \/ UnlinkCommit(h)
    BY <1>2, <2>5 DEF LinkCommit, LinkFails, UnlinkCommit, TypeOK
  <2>6. CASE \/ DeleteUser \/ (\E k \in Keys : Revoke(k)) \/ SupervisorNext
             \/ (\E t \in Tasks : WorkerNext(t) \/ WorkerFaults(t))
             \/ UNCHANGED vars
    <3>1. UNCHANGED handlers
      BY <2>6 DEF DeleteUser, Revoke, SupervisorNext, Wake, Load, LoadFails,
         Apply, Restart, WorkerNext, WorkerFaults, Connect, Dies,
         DeactivateRead, DeactivateCommit, DeactivateFails, Notify,
         CancelLands, WorkerFails, NotifyFails, vars
    <3> QED BY <2>3, <3>1
  <2>7. ASSUME NEW g \in Handlers, g # h,
               \/ \E a \in Accounts, k \in Keys : SignIn(g, a, k)
               \/ LinkRead(g) \/ LinkCommit(g) \/ LinkFails(g)
               \/ UnlinkRead(g) \/ UnlinkCommit(g)
        PROVE  handlers'[h] = handlers[h]
    BY <2>7 DEF SignIn, LinkRead, LinkCommit, LinkFails, UnlinkRead,
       UnlinkCommit, TypeOK
  <2> QED
    BY <2>1, <2>2, <2>3, <2>4, <2>5, <2>6, <2>7 DEF Next, OwnerNext
<1>3. ASSUME NEW a \in Accounts, wanted'[a] # NoKey
      PROVE  keys'[wanted'[a]] # "unused"
  <2>1. CASE \E h \in Handlers : LinkCommit(h)
    BY <1>1, <1>3, <2>1 DEF LinkCommit, KeysIssued, TypeOK
  <2>2. CASE \A b \in Accounts : wanted'[b] \in {wanted[b], NoKey}
    BY <1>1, <1>3, <2>2 DEF KeysIssued, TypeOK
  <2> QED
    BY <2>1, <2>2 DEF Next, OwnerNext, SignIn, LinkRead, LinkFails, UnlinkRead,
       UnlinkCommit, DeleteUser, Revoke, SupervisorNext, Wake, Load, LoadFails,
       Apply, Restart, WorkerNext, WorkerFaults, Connect, Dies, DeactivateRead,
       DeactivateCommit, DeactivateFails, Notify, CancelLands, WorkerFails,
       NotifyFails, vars
<1> QED BY <1>2, <1>3 DEF KeysIssued

LoginInv == ReadsKept /\ KeysIssued /\ FreshLoginSurvives

LEMMA LoginInit == Init => LoginInv
  BY DEF Init, LoginInv, ReadsKept, TOpen, KeysIssued, FreshLoginSurvives,
     IdleHandler, DoneTask

LEMMA LoginStep ==
  ASSUME ConstantsAssumption, TypeOK, RelinksApart, AccountInv,
         DyingKeysAreDead, LoginInv, [Next]_vars
  PROVE  LoginInv'
<1> USE DEF LoginInv
<1>1. KeysIssued'
  BY IssuedStep
<1>2. CASE OwnerNext
  BY <1>1, <1>2, OwnerReads, OwnerLogin DEF AccountInv
<1>3. ASSUME NEW t \in Tasks, WorkerNext(t) \/ WorkerFaults(t) PROVE LoginInv'
  BY <1>1, <1>3, WorkerReads, WorkerLogin
<1>4. CASE SupervisorNext
  <2>1. UNCHANGED <<rows, keys, wanted>>
    BY <1>4 DEF SupervisorNext, Wake, Load, LoadFails, Apply, Restart
  <2>2. FreshLoginSurvives'
    BY <2>1 DEF FreshLoginSurvives, Linked, Present
  <2> QED BY <1>1, <1>4, <2>2, SupervisorReads
<1>5. CASE UNCHANGED vars
  <2>1. FreshLoginSurvives'
    BY <1>5 DEF vars, FreshLoginSurvives, Linked, Present
  <2>2. ReadsKept'
    BY <1>5 DEF vars, ReadsKept, TOpen, Present
  <2> QED BY <1>1, <2>1, <2>2
<1> QED BY <1>2, <1>3, <1>4, <1>5 DEF Next

\* db/queries.py, deactivate_session: whatever older workers, other handlers,
\* deletions, crashes and restarts do, and however their transactions
\* interleave, a completed login whose key is alive stays in an active row
\* until its owner ends it - unless a re-link overlapped a deactivation of
\* the very row it re-used.  That race is the only one there is.
THEOREM FreshLoginRelinksApart ==
  ASSUME ConstantsAssumption
  PROVE  Spec /\ []RelinksApart => []FreshLoginSurvives
<1>1. TypeOK /\ WorkersAreTracked /\ AccountInv /\ [Next]_vars => AccountInv'
  BY AccountStep
<1>2. TypeOK /\ DyingKeysAreDead /\ [Next]_vars => DyingKeysAreDead'
  BY DyingStep
<1>3. /\ TypeOK /\ RelinksApart /\ AccountInv /\ DyingKeysAreDead /\ LoginInv
      /\ [Next]_vars
      => LoginInv'
  BY LoginStep
<1>4. LoginInv => FreshLoginSurvives
  BY DEF LoginInv
<1> QED BY <1>1, <1>2, <1>3, <1>4, AccountInit, DyingInit, LoginInit,
           TypeCorrect, Tracked, PTL DEF Spec

\* db/queries.py, deactivate_session's docstring: a worker that holds the old
\* key never switches off a row that holds a newer login.  The run RelinkRace
\* violates it by the overlap that RelinksApart excludes; nothing else does.
THEOREM SparesNewerLoginRelinksApart ==
  ASSUME ConstantsAssumption
  PROVE  Spec /\ []RelinksApart => WorkerSparesNewerLogin
<1> DEFINE Spares == \A t \in Tasks :
       LET s == tasks[t].sess IN
       tasks[t].pc = "deactivating" /\ tasks'[t] # tasks[t]
         /\ rows[s].active /\ ~rows'[s].active
         => rows[s].key = tasks[t].key
<1>1. TypeOK /\ WorkersAreTracked /\ AccountInv /\ [Next]_vars => AccountInv'
  BY AccountStep
<1>2. TypeOK /\ DyingKeysAreDead /\ [Next]_vars => DyingKeysAreDead'
  BY DyingStep
<1>3. /\ TypeOK /\ RelinksApart /\ AccountInv /\ DyingKeysAreDead /\ LoginInv
      /\ [Next]_vars
      => LoginInv'
  BY LoginStep
<1>4. TypeOK /\ LoginInv /\ [Next]_vars => [Spares]_vars
  <2> SUFFICES ASSUME TypeOK, LoginInv, Next, NEW t \in Tasks, TOpen(t),
                      tasks'[t] # tasks[t], rows'[tasks[t].sess] # rows[tasks[t].sess]
               PROVE  rows[tasks[t].sess].key = tasks[t].key
    BY DEF TOpen
  <2>1. ASSUME NEW w \in Tasks, WorkerNext(w) \/ WorkerFaults(w)
        PROVE  UpdateFindsRow(t) /\ tasks[t].seen
    <3>1. w = t
      BY <2>1 DEF WorkerNext, WorkerFaults, Connect, Dies, DeactivateRead,
         DeactivateCommit, DeactivateFails, Notify, CancelLands, WorkerFails,
         NotifyFails, TypeOK
    <3>2. UpdateFindsRow(t) /\ rows' = Deactivated(t)
      BY <2>1, <3>1 DEF WorkerNext, WorkerFaults, Connect, Dies, DeactivateRead,
         DeactivateCommit, DeactivateFails, Notify, CancelLands, WorkerFails,
         NotifyFails, CommitInDoubt
    <3>3. rows \in [Sessions -> RowStates] /\ tasks[t].sess \in Sessions
      BY DEF TypeOK, TOpen
    <3> QED BY <3>2, <3>3 DEF Deactivated, RowStates
  <2>2. ~OwnerNext
    BY DEF OwnerNext, SignIn, LinkRead, LinkCommit, LinkFails, UnlinkRead,
       UnlinkCommit, DeleteUser, Revoke
  <2>3. ~SupervisorNext
    BY DEF SupervisorNext, Wake, Load, LoadFails, Apply, Restart
  <2> QED BY <2>1, <2>2, <2>3 DEF Next, UpdateFindsRow, LoginInv, ReadsKept
<1> QED BY <1>1, <1>2, <1>3, <1>4, AccountInit, DyingInit, LoginInit,
           TypeCorrect, Tracked, PTL DEF Spec, WorkerSparesNewerLogin

-----------------------------------------------------------------------------
(* Transactions that do not interleave keep re-links apart.                 *)

HOpen(h) == handlers[h].pc \in {"saving", "unlinking"}

\* At most one transaction is between its SELECT and its commit.
TxExclusive ==
  /\ \A h1, h2 \in Handlers : HOpen(h1) /\ HOpen(h2) => h1 = h2
  /\ \A t1, t2 \in Tasks : TOpen(t1) /\ TOpen(t2) => t1 = t2
  /\ \A h \in Handlers, t \in Tasks : ~(HOpen(h) /\ TOpen(t))

\* A transaction opens only when none is open, and one step opens one.
LEMMA OpensAlone ==
  ASSUME SerialTx, TypeOK, [Next]_vars
  PROVE  \/ /\ \A h \in Handlers : HOpen(h)' => HOpen(h)
            /\ \A t \in Tasks : TOpen(t)' => TOpen(t)
         \/ /\ \A h \in Handlers : ~HOpen(h)
            /\ \A t \in Tasks : ~TOpen(t)
            /\ \/ /\ \E h \in Handlers : \A g \in Handlers \ {h} : ~HOpen(g)'
                  /\ \A t \in Tasks : ~TOpen(t)'
               \/ /\ \E t \in Tasks : \A w \in Tasks \ {t} : ~TOpen(w)'
                  /\ \A h \in Handlers : ~HOpen(h)'
<1>1. ASSUME NEW h \in Handlers, LinkRead(h) \/ UnlinkRead(h)
      PROVE  /\ \A g \in Handlers : ~HOpen(g)
             /\ \A t \in Tasks : ~TOpen(t) /\ ~TOpen(t)'
             /\ \A g \in Handlers \ {h} : ~HOpen(g)'
  BY <1>1 DEF LinkRead, UnlinkRead, MayOpenTx, TxOpen, HOpen, TOpen, TypeOK
<1>2. ASSUME NEW t \in Tasks, DeactivateRead(t)
      PROVE  /\ \A g \in Handlers : ~HOpen(g) /\ ~HOpen(g)'
             /\ \A w \in Tasks : ~TOpen(w)
             /\ \A w \in Tasks \ {t} : ~TOpen(w)'
  BY <1>2 DEF DeactivateRead, MayOpenTx, TxOpen, HOpen, TOpen, TypeOK
<1>3. ASSUME NEW h \in Handlers, LinkCommit(h) \/ LinkFails(h) \/ UnlinkCommit(h)
      PROVE  /\ \A g \in Handlers : HOpen(g)' => HOpen(g)
             /\ \A t \in Tasks : TOpen(t)' => TOpen(t)
  BY <1>3 DEF LinkCommit, LinkFails, UnlinkCommit, IdleHandler, HOpen, TOpen, TypeOK
<1>4. ASSUME NEW h \in Handlers, NEW a \in Accounts, NEW k \in Keys, SignIn(h, a, k)
      PROVE  /\ \A g \in Handlers : HOpen(g)' => HOpen(g)
             /\ \A t \in Tasks : TOpen(t)' => TOpen(t)
  <2> DEFINE u == [IdleHandler EXCEPT !.pc = "linking", !.acct = a, !.key = k]
  <2>1. handlers' = [handlers EXCEPT ![h] = u] /\ tasks' = tasks
    BY <1>4 DEF SignIn
  <2>2. u.pc = "linking"
    BY DEF IdleHandler
  <2> HIDE DEF u
  <2> QED BY <2>1, <2>2 DEF HOpen, TOpen, TypeOK
<1>5. CASE DeleteUser \/ (\E k \in Keys : Revoke(k)) \/ UNCHANGED vars
  BY <1>5 DEF DeleteUser, Revoke, vars, HOpen, TOpen
<1>6. CASE SupervisorNext
  <2>1. UNCHANGED handlers
    BY <1>6 DEF SupervisorNext, Wake, Load, LoadFails, Apply, Restart
  <2>2. \A t \in Tasks : TOpen(t)' => TOpen(t)
    <3>1. CASE Apply
      <4>1. PICK new \in [Started -> FreeTasks] : tasks' = Pool(new)
        BY <3>1 DEF Apply
      <4> QED BY <4>1 DEF Pool, TypeOK, TaskStates, TOpen
    <3>2. CASE Restart
      BY <3>2 DEF Restart, TOpen
    <3>3. CASE UNCHANGED tasks
      BY <3>3 DEF TOpen
    <3> QED BY <1>6, <3>1, <3>2, <3>3 DEF SupervisorNext, Wake, Load, LoadFails
  <2> QED BY <2>1, <2>2 DEF HOpen
<1>7. ASSUME NEW t \in Tasks, WorkerNext(t) \/ WorkerFaults(t), ~DeactivateRead(t)
      PROVE  /\ \A g \in Handlers : HOpen(g)' => HOpen(g)
             /\ \A w \in Tasks : TOpen(w)' => TOpen(w)
  BY <1>7 DEF WorkerNext, WorkerFaults, Connect, Dies, DeactivateCommit,
     DeactivateFails, Notify, CancelLands, WorkerFails, NotifyFails, HOpen,
     TOpen, TypeOK, TaskStates, DoneTask
<1> QED
  BY <1>1, <1>2, <1>3, <1>4, <1>5, <1>6, <1>7 DEF Next, OwnerNext

LEMMA SerialApart ==
  ASSUME ConstantsAssumption, SerialTx PROVE Spec => []RelinksApart
<1>1. Init => TxExclusive
  BY DEF Init, TxExclusive, HOpen, TOpen, IdleHandler, DoneTask
<1>2. TypeOK /\ TxExclusive /\ [Next]_vars => TxExclusive'
  BY OpensAlone DEF TxExclusive
<1>3. TxExclusive => RelinksApart
  BY DEF TxExclusive, RelinksApart, HOpen
<1> QED BY <1>1, <1>2, <1>3, TypeCorrect, PTL DEF Spec

\* db/queries.py, deactivate_session: with transactions that do not
\* interleave, the ciphertext guard does what its docstring promises - a
\* completed login whose key is alive stays in an active row until its owner
\* ends it, whatever older workers, other handlers, crashes and restarts do.
THEOREM FreshLogin ==
  ASSUME ConstantsAssumption, SerialTx PROVE Spec => []FreshLoginSurvives
  BY SerialApart, FreshLoginRelinksApart, PTL

=============================================================================
