------------------------ MODULE SessionSupervisor ------------------------
(***************************************************************************)
(* The userbot worker pool and the table it serves.                        *)
(*                                                                         *)
(*   - the supervisor of userbot/main.py, which polls the `sessions` table *)
(*     and keeps one asyncio task per active row;                          *)
(*   - the worker of userbot/worker.py, which connects to Telegram with    *)
(*     the key it was started with and, when Telegram says the key is      *)
(*     dead, deactivates the row and tells the owner;                      *)
(*   - the bot / connect_web handlers that write the same rows: a login    *)
(*     (management_bot/storage.py:save_session), an unlink                 *)
(*     (db/queries.py:deactivate_user_sessions), and the admin panel's     *)
(*     delete_user.                                                        *)
(*                                                                         *)
(* All rows belong to one owner, who may hold several accounts (phone      *)
(* numbers).  A row id is never used twice.  Every login produces a fresh  *)
(* Telegram auth key, so a key also stands for the ciphertext stored in    *)
(* the row and for the session string the supervisor compares.             *)
(*                                                                         *)
(* A transaction of the code is a SELECT, then a flush and commit: two     *)
(* steps, as the code takes no row lock and Postgres runs at its default   *)
(* READ COMMITTED.  SerialTx = TRUE is the idealised database that runs    *)
(* those transactions one after another.                                   *)
(***************************************************************************)
EXTENDS Naturals, FiniteSets

CONSTANTS
  Accounts,   \* (owner, phone) pairs
  Sessions,   \* row ids of the sessions table
  AccountOf,  \* the account a row id is for
  Keys,       \* Telegram auth keys, one per login
  Tasks,      \* asyncio task slots of the userbot process (a bound)
  Handlers,   \* concurrent update handlers / HTTP requests (a bound)
  NoAccount, NoSession, NoKey, NoTask,
  SerialTx,   \* TRUE: read-modify-write transactions do not interleave
  MaxFaults   \* bound on crashes, disconnects, failed loads and restarts

ASSUME ConstantsAssumption ==
  /\ AccountOf \in [Sessions -> Accounts]
  /\ NoAccount \notin Accounts
  /\ NoSession \notin Sessions
  /\ NoKey \notin Keys
  /\ NoTask \notin Tasks
  /\ SerialTx \in BOOLEAN
  /\ MaxFaults \in Nat

VARIABLES
  rows,         \* the sessions table
  keys,         \* what Telegram knows of every auth key
  handlers,     \* the bot and connect_web handlers in progress
  sup,          \* the supervisor coroutine: where it awaits, what it loaded
  running,      \* _supervise's dict: row id -> task
  startedWith,  \* _supervise's dict: row id -> session string
  tasks,        \* the run_worker coroutines
  wanted,       \* history: the owner's last completed login per account
  notices,      \* history: "session_invalid" messages delivered per key
  faults        \* how many faults have happened

supVars == <<sup, running, startedWith>>
vars    == <<rows, keys, handlers, sup, running, startedWith, tasks, wanted,
             notices, faults>>

-----------------------------------------------------------------------------
(* The sessions table. *)

NoRow      == [state |-> "absent",  key |-> NoKey, active |-> FALSE]
DeletedRow == [state |-> "deleted", key |-> NoKey, active |-> FALSE]

Present(s)     == rows[s].state = "present"
RowsOf(a)      == {s \in Sessions : AccountOf[s] = a /\ Present(s)}
FreshRows(a)   == {s \in Sessions : AccountOf[s] = a /\ rows[s].state = "absent"}
ActiveRows     == {s \in Sessions : Present(s) /\ rows[s].active}
Linked(s, k)   == Present(s) /\ rows[s].active /\ rows[s].key = k

IdleHandler == [pc |-> "idle", acct |-> NoAccount, key |-> NoKey,
                targets |-> {}, seen |-> FALSE]
DoneTask    == [pc |-> "done", sess |-> NoSession, key |-> NoKey,
                seen |-> FALSE, cancelled |-> FALSE]
NewTask(s, k) == [pc |-> "connecting", sess |-> s, key |-> k,
                  seen |-> FALSE, cancelled |-> FALSE]

\* Somebody has read rows it is about to write back.
TxOpen == \/ \E h \in Handlers : handlers[h].pc \in {"saving", "unlinking"}
          \/ \E t \in Tasks : tasks[t].pc = "deactivating"
MayOpenTx == SerialTx => ~TxOpen

Fault == faults < MaxFaults /\ faults' = faults + 1

RowStates ==
  [state : {"absent", "present", "deleted"}, key : Keys \cup {NoKey},
   active : BOOLEAN]
HandlerStates ==
  [pc : {"idle", "linking", "saving", "unlinking"},
   acct : Accounts \cup {NoAccount}, key : Keys \cup {NoKey},
   targets : SUBSET Sessions, seen : BOOLEAN]
TaskStates ==
  [pc : {"done", "connecting", "online", "dying", "deactivating", "notifying"},
   sess : Sessions \cup {NoSession}, key : Keys \cup {NoKey},
   seen : BOOLEAN, cancelled : BOOLEAN]

\* Values are of their types, and a login or a worker in progress has the
\* account, the row and the key it is for.
TypeOK ==
  /\ rows \in [Sessions -> RowStates]
  /\ keys \in [Keys -> {"unused", "live", "dead"}]
  /\ handlers \in [Handlers -> HandlerStates]
  /\ sup \in [pc   : {"asleep", "loading", "loaded"},
              snap : [Sessions -> Keys \cup {NoKey}]]
  /\ running \in [Sessions -> Tasks \cup {NoTask}]
  /\ startedWith \in [Sessions -> Keys \cup {NoKey}]
  /\ tasks \in [Tasks -> TaskStates]
  /\ wanted \in [Accounts -> Keys \cup {NoKey}]
  /\ notices \in [Keys -> 0..2]
  /\ faults \in 0..MaxFaults
  /\ \A h \in Handlers : handlers[h].pc \in {"linking", "saving"} =>
       handlers[h].acct \in Accounts /\ handlers[h].key \in Keys
  /\ \A t \in Tasks : tasks[t].pc # "done" =>
       tasks[t].sess \in Sessions /\ tasks[t].key \in Keys

EmptySnap == [s \in Sessions |-> NoKey]

Init ==
  /\ rows = [s \in Sessions |-> NoRow]
  /\ keys = [k \in Keys |-> "unused"]
  /\ handlers = [h \in Handlers |-> IdleHandler]
  /\ sup = [pc |-> "asleep", snap |-> EmptySnap]
  /\ running = [s \in Sessions |-> NoTask]
  /\ startedWith = [s \in Sessions |-> NoKey]
  /\ tasks = [t \in Tasks |-> DoneTask]
  /\ wanted = [a \in Accounts |-> NoKey]
  /\ notices = [k \in Keys |-> 0]
  /\ faults = 0

-----------------------------------------------------------------------------
(* The owner's side: logging in, unlinking, being deleted, and revoking a  *)
(* key from another device.                                                *)

\* The login dialogue with Telegram succeeded: there is a new key, and a
\* handler that is about to call save_session with it.
SignIn(h, a, k) ==
  /\ handlers[h].pc = "idle"
  /\ keys[k] = "unused"
  /\ keys' = [keys EXCEPT ![k] = "live"]
  /\ handlers' = [handlers EXCEPT
                    ![h] = [IdleHandler EXCEPT !.pc = "linking", !.acct = a,
                                               !.key = k]]
  /\ UNCHANGED <<rows, supVars, tasks, wanted, notices, faults>>

\* save_session's SELECT by (user, phone).
LinkRead(h) ==
  LET a == handlers[h].acct IN
  /\ handlers[h].pc = "linking"
  /\ MayOpenTx
  /\ RowsOf(a) # {} \/ FreshRows(a) # {}
  /\ handlers' = [handlers EXCEPT
                    ![h].pc = "saving",
                    ![h].targets = RowsOf(a),
                    ![h].seen = \E s \in RowsOf(a) : rows[s].active]
  /\ UNCHANGED <<rows, keys, supVars, tasks, wanted, notices, faults>>

\* The UPDATE writes the columns whose value changed: is_active is among
\* them only when the row that was read was inactive.
Relinked(row, k, seenActive) ==
  [row EXCEPT !.key = k, !.active = IF seenActive THEN @ ELSE TRUE]

\* save_session's flush and the caller's commit.
LinkCommit(h) ==
  LET a == handlers[h].acct
      k == handlers[h].key
  IN
  /\ handlers[h].pc = "saving"
  /\ \/ /\ handlers[h].targets = {}
        /\ RowsOf(a) = {}
        /\ \E s \in FreshRows(a) :
             rows' = [rows EXCEPT
                        ![s] = [state |-> "present", key |-> k, active |-> TRUE]]
     \/ \E s \in handlers[h].targets :
          /\ Present(s)
          /\ rows' = [rows EXCEPT ![s] = Relinked(@, k, handlers[h].seen)]
  /\ wanted' = [wanted EXCEPT ![a] = k]
  /\ handlers' = [handlers EXCEPT ![h] = IdleHandler]
  /\ UNCHANGED <<keys, supVars, tasks, notices, faults>>

\* The INSERT meets the unique constraint on (user, phone), or the UPDATE
\* finds its row gone: the handler fails and nothing is written.
LinkFails(h) ==
  /\ handlers[h].pc = "saving"
  /\ \/ handlers[h].targets = {} /\ RowsOf(handlers[h].acct) # {}
     \/ \E s \in handlers[h].targets : ~Present(s)
  /\ handlers' = [handlers EXCEPT ![h] = IdleHandler]
  /\ UNCHANGED <<rows, keys, supVars, tasks, wanted, notices, faults>>

\* "Unlink" in the settings: deactivate_user_sessions's SELECT ...
UnlinkRead(h) ==
  /\ handlers[h].pc = "idle"
  /\ MayOpenTx
  /\ ActiveRows # {}
  /\ handlers' = [handlers EXCEPT
                    ![h] = [IdleHandler EXCEPT !.pc = "unlinking",
                                               !.targets = ActiveRows]]
  /\ UNCHANGED <<rows, keys, supVars, tasks, wanted, notices, faults>>

\* ... and its flush and commit; a row that was deleted meanwhile fails it.
UnlinkCommit(h) ==
  LET T == handlers[h].targets IN
  /\ handlers[h].pc = "unlinking"
  /\ IF \A s \in T : Present(s)
       THEN /\ rows' = [s \in Sessions |->
                          IF s \in T THEN [rows[s] EXCEPT !.active = FALSE]
                                     ELSE rows[s]]
            /\ wanted' = [a \in Accounts |->
                            IF \E s \in T : AccountOf[s] = a THEN NoKey
                                                             ELSE wanted[a]]
       ELSE UNCHANGED <<rows, wanted>>
  /\ handlers' = [handlers EXCEPT ![h] = IdleHandler]
  /\ UNCHANGED <<keys, supVars, tasks, notices, faults>>

\* The admin panel deletes the owner: the rows go by ON DELETE CASCADE.
DeleteUser ==
  /\ MayOpenTx
  /\ \E s \in Sessions : Present(s)
  /\ rows' = [s \in Sessions |-> IF Present(s) THEN DeletedRow ELSE rows[s]]
  /\ wanted' = [a \in Accounts |-> NoKey]
  /\ UNCHANGED <<keys, handlers, supVars, tasks, notices, faults>>

\* Telegram: the session is terminated from another device, the password
\* is changed, the account is banned.
Revoke(k) ==
  /\ keys[k] = "live"
  /\ keys' = [keys EXCEPT ![k] = "dead"]
  /\ UNCHANGED <<rows, handlers, supVars, tasks, wanted, notices, faults>>

-----------------------------------------------------------------------------
(* The supervisor: sleep, load, apply. *)

Wake ==
  /\ sup.pc = "asleep"
  /\ sup' = [sup EXCEPT !.pc = "loading"]
  /\ UNCHANGED <<rows, keys, handlers, running, startedWith, tasks, wanted,
                 notices, faults>>

\* The database is not reachable: log, sleep, `continue` - nothing is
\* reaped, stopped or started.
LoadFails ==
  /\ sup.pc = "loading"
  /\ sup' = [sup EXCEPT !.pc = "asleep"]
  /\ Fault
  /\ UNCHANGED <<rows, keys, handlers, running, startedWith, tasks, wanted,
                 notices>>

Snapshot == [s \in Sessions |-> IF s \in ActiveRows THEN rows[s].key ELSE NoKey]

\* _load_active_sessions: one SELECT of the committed rows.  The supervisor
\* goes on only when its connection is handed back, a later step.
Load ==
  /\ sup.pc = "loading"
  /\ sup' = [pc |-> "loaded", snap |-> Snapshot]
  /\ UNCHANGED <<rows, keys, handlers, running, startedWith, tasks, wanted,
                 notices, faults>>

Running == {s \in Sessions : running[s] # NoTask}

\* Mutant: finished tasks are left in the dict.
ReapedNever == {s \in Running : FALSE}

\* Entries whose task is done: forgotten, so that they can be restarted.
Reaped == {s \in Running : tasks[running[s]].pc = "done"}

\* Mutants: a re-linked row, or a row no longer active, keeps its worker.
StoppedUnlessRelinked == {s \in Running \ Reaped : sup.snap[s] = NoKey}
StoppedIfRelinked ==
  {s \in Running \ Reaped : sup.snap[s] \notin {NoKey, startedWith[s]}}

\* Entries to cancel: no longer active, or re-linked with another key.
Stopped == {s \in Running \ Reaped :
              \/ sup.snap[s] = NoKey
              \/ startedWith[s] # sup.snap[s]}

Kept    == Running \ (Reaped \cup Stopped)

\* Mutant: every row is taken for an active one.
StartedRegardless == Sessions \ Kept

Started == {s \in Sessions : sup.snap[s] # NoKey} \ Kept

FreeTasks == {t \in Tasks : tasks[t].pc = "done"
                              /\ \A s \in Sessions : running[s] # t}

\* Mutant: a stopped worker is forgotten without task.cancel().
PoolUncancelled(new) ==
  [t \in Tasks |->
     IF \E s \in Started : new[s] = t
       THEN LET s == CHOOSE s \in Started : new[s] = t
            IN  NewTask(s, sup.snap[s])
       ELSE tasks[t]]

\* The pool after a poll: a fresh task for every started row, task.cancel()
\* for every stopped one.
Pool(new) ==
  [t \in Tasks |->
     IF \E s \in Started : new[s] = t
       THEN LET s == CHOOSE s \in Started : new[s] = t
            IN  NewTask(s, sup.snap[s])
       ELSE IF \E s \in Stopped : running[s] = t
              THEN [tasks[t] EXCEPT !.cancelled = TRUE]
              ELSE tasks[t]]

\* The rest of the poll has no await in it: one step.
Apply ==
  /\ sup.pc = "loaded"
  /\ \E new \in [Started -> FreeTasks] :
       /\ \A s1, s2 \in Started : new[s1] = new[s2] => s1 = s2
       /\ running' = [s \in Sessions |->
                        IF s \in Started THEN new[s]
                        ELSE IF s \in Kept THEN running[s] ELSE NoTask]
       /\ startedWith' = [s \in Sessions |->
                            IF s \in Started THEN sup.snap[s]
                            ELSE IF s \in Kept THEN startedWith[s] ELSE NoKey]
       /\ tasks' = Pool(new)
  /\ sup' = [pc |-> "asleep", snap |-> EmptySnap]
  /\ UNCHANGED <<rows, keys, handlers, wanted, notices, faults>>

\* The userbot process is restarted: every coroutine and both dicts are lost.
Restart ==
  /\ Fault
  /\ sup' = [pc |-> "asleep", snap |-> EmptySnap]
  /\ running' = [s \in Sessions |-> NoTask]
  /\ startedWith' = [s \in Sessions |-> NoKey]
  /\ tasks' = [t \in Tasks |-> DoneTask]
  /\ UNCHANGED <<rows, keys, handlers, wanted, notices>>

-----------------------------------------------------------------------------
(* One worker.  A task that was cancelled takes no step of its own any      *)
(* more: its next resumption raises CancelledError (CancelLands).           *)

At(t, pc) == tasks[t].pc = pc /\ ~tasks[t].cancelled

\* connect() and is_user_authorized() accept the key.
Connect(t) ==
  /\ At(t, "connecting")
  /\ keys[tasks[t].key] = "live"
  /\ tasks' = [tasks EXCEPT ![t].pc = "online"]
  /\ UNCHANGED <<rows, keys, handlers, supVars, wanted, notices, faults>>

\* Mutant: any failure to connect counts as a dead key.
DiesOnAnyError(t) ==
  /\ At(t, "connecting") \/ At(t, "online")
  /\ tasks' = [tasks EXCEPT ![t].pc = "dying"]
  /\ UNCHANGED <<rows, keys, handlers, supVars, wanted, notices, faults>>

\* Telegram refuses the key, at connect() or mid-flight: on to
\* _mark_session_dead.
Dies(t) ==
  /\ At(t, "connecting") \/ At(t, "online")
  /\ keys[tasks[t].key] = "dead"
  /\ tasks' = [tasks EXCEPT ![t].pc = "dying"]
  /\ UNCHANGED <<rows, keys, handlers, supVars, wanted, notices, faults>>

\* Mutant: deactivate_session without only_if_session_is.
OwnsRowById(t) == Present(tasks[t].sess)

\* deactivate_session's guard: the row still holds this worker's ciphertext.
OwnsRow(t) == Present(tasks[t].sess) /\ rows[tasks[t].sess].key = tasks[t].key

\* No UPDATE is sent when the row that was read was inactive already.
Deactivated(t) ==
  [rows EXCEPT ![tasks[t].sess].active = IF tasks[t].seen THEN FALSE ELSE @]

UpdateFindsRow(t) == tasks[t].seen => Present(tasks[t].sess)

\* A worker that is interrupted while it awaits its commit does not learn
\* whether the server carried it out.
CommitInDoubt(t) ==
  \/ UNCHANGED rows
  \/ /\ tasks[t].pc = "deactivating"
     /\ UpdateFindsRow(t)
     /\ rows' = Deactivated(t)

\* Any other exception, or a plain disconnect: the task ends.
WorkerFails(t) ==
  /\ At(t, "connecting") \/ At(t, "online") \/ At(t, "dying")
     \/ At(t, "deactivating")
  /\ Fault
  /\ CommitInDoubt(t)
  /\ tasks' = [tasks EXCEPT ![t] = DoneTask]
  /\ UNCHANGED <<keys, handlers, supVars, wanted, notices>>

\* deactivate_session's SELECT and its early returns.
DeactivateRead(t) ==
  /\ At(t, "dying")
  /\ MayOpenTx
  /\ tasks' = [tasks EXCEPT
                 ![t] = IF OwnsRow(t)
                          THEN [@ EXCEPT !.pc = "deactivating",
                                         !.seen = rows[tasks[t].sess].active]
                          ELSE DoneTask]
  /\ UNCHANGED <<rows, keys, handlers, supVars, wanted, notices, faults>>

\* Its flush and the commit; then the owner is told.
DeactivateCommit(t) ==
  /\ At(t, "deactivating")
  /\ UpdateFindsRow(t)
  /\ rows' = Deactivated(t)
  /\ tasks' = [tasks EXCEPT ![t].pc = "notifying"]
  /\ UNCHANGED <<keys, handlers, supVars, wanted, notices, faults>>

\* The UPDATE finds its row gone: the worker ends with the error.
DeactivateFails(t) ==
  /\ At(t, "deactivating")
  /\ ~UpdateFindsRow(t)
  /\ tasks' = [tasks EXCEPT ![t] = DoneTask]
  /\ UNCHANGED <<rows, keys, handlers, supVars, wanted, notices, faults>>

\* 2 stands for "two or more".
Told(k) == [notices EXCEPT ![k] = IF @ < 2 THEN @ + 1 ELSE @]

\* send_text delivers "session_invalid" and the worker is finished.
Notify(t) ==
  /\ At(t, "notifying")
  /\ notices' = Told(tasks[t].key)
  /\ tasks' = [tasks EXCEPT ![t] = DoneTask]
  /\ UNCHANGED <<rows, keys, handlers, supVars, wanted, faults>>

\* Telegram refuses the message (send_text returns False) or is not
\* reachable: nothing is sent again.
NotifyFails(t) ==
  /\ At(t, "notifying")
  /\ Fault
  /\ tasks' = [tasks EXCEPT ![t] = DoneTask]
  /\ UNCHANGED <<rows, keys, handlers, supVars, wanted, notices>>

\* CancelledError reaches the worker.  The request it was awaiting may have
\* been carried out: the commit by the server, the message by Telegram.
CancelLands(t) ==
  /\ tasks[t].pc # "done" /\ tasks[t].cancelled
  /\ CommitInDoubt(t)
  /\ \/ UNCHANGED notices
     \/ tasks[t].pc = "notifying" /\ notices' = Told(tasks[t].key)
  /\ tasks' = [tasks EXCEPT ![t] = DoneTask]
  /\ UNCHANGED <<keys, handlers, supVars, wanted, faults>>

-----------------------------------------------------------------------------

OwnerNext ==
  \/ \E h \in Handlers, a \in Accounts, k \in Keys : SignIn(h, a, k)
  \/ \E h \in Handlers : \/ LinkRead(h) \/ LinkCommit(h) \/ LinkFails(h)
                         \/ UnlinkRead(h) \/ UnlinkCommit(h)
  \/ DeleteUser
  \/ \E k \in Keys : Revoke(k)

SupervisorNext == Wake \/ Load \/ LoadFails \/ Apply \/ Restart

WorkerNext(t) ==
  \/ Connect(t) \/ Dies(t) \/ DeactivateRead(t) \/ DeactivateCommit(t)
  \/ DeactivateFails(t) \/ Notify(t) \/ CancelLands(t)

WorkerFaults(t) == WorkerFails(t) \/ NotifyFails(t)

Next ==
  \/ OwnerNext
  \/ SupervisorNext
  \/ \E t \in Tasks : WorkerNext(t) \/ WorkerFaults(t)

Spec == Init /\ [][Next]_vars

\* The event loop resumes every coroutine whose await has an answer; a
\* handler that has begun a transaction ends it.  What the owner does, and
\* the faults, are never forced.
Fairness ==
  /\ WF_vars(Wake) /\ WF_vars(Load) /\ WF_vars(Apply)
  /\ \A t \in Tasks : WF_vars(WorkerNext(t))
  /\ \A h \in Handlers :
       WF_vars(LinkRead(h) \/ LinkCommit(h) \/ LinkFails(h) \/ UnlinkCommit(h))

FairSpec == Spec /\ Fairness

-----------------------------------------------------------------------------
(* Properties. *)

\* A task the supervisor still means to run.
Live(t) == tasks[t].pc # "done" /\ ~tasks[t].cancelled

\* "exactly one worker task per active session" (userbot/main.py): a worker
\* that nobody has cancelled is the one `running` holds for its row and works
\* with the key `started_with` remembers; the two dicts have the same keys.
\* A poll that lost track of a worker would leave it serving a row for good.
WorkersAreTracked ==
  /\ \A t \in Tasks : Live(t) =>
       /\ tasks[t].sess \in Sessions
       /\ running[tasks[t].sess] = t
       /\ startedWith[tasks[t].sess] = tasks[t].key
  /\ \A s \in Sessions : running[s] = NoTask <=> startedWith[s] = NoKey

\* An account is never served by two workers, not even while its row is
\* deleted and a new login creates another one between two polls.
OneWorkerPerAccount ==
  \A t1, t2 \in Tasks :
    Live(t1) /\ Live(t2) /\ AccountOf[tasks[t1].sess] = AccountOf[tasks[t2].sess]
      => t1 = t2

\* The owner is told "your account fell off" only about a key that Telegram
\* has really killed, however late the message arrives.
NoticeOnlyForDeadKey == \A k \in Keys : notices[k] > 0 => keys[k] = "dead"

\* A login the owner completed and has not ended, and whose key Telegram
\* still accepts, is in an active row: no worker of an older key, no
\* concurrent handler has switched it off (deactivate_session's docstring).
FreshLoginSurvives ==
  \A a \in Accounts :
    wanted[a] # NoKey /\ keys[wanted[a]] = "live"
      => \E s \in Sessions : AccountOf[s] = a /\ Linked(s, wanted[a])

\* A row whose key is dead does not stay active: some worker finds out and
\* deactivates it, whatever crashed before (the supervisor restarts workers).
DeadLoginIsRetired ==
  \A s \in Sessions, k \in Keys :
    Linked(s, k) /\ keys[k] = "dead" ~> ~Linked(s, k)

Serves(t, s, k) == tasks[t].pc # "done" /\ tasks[t].sess = s /\ tasks[t].key = k

\* A completed login gets a connected worker that uses its key, unless the
\* login ends or the key dies first.
LiveLoginIsServed ==
  \A s \in Sessions, k \in Keys :
    Linked(s, k) ~> \/ ~Linked(s, k) \/ keys[k] = "dead"
                    \/ \E t \in Tasks : Serves(t, s, k) /\ At(t, "online")

\* A worker whose row was unlinked, deleted or re-linked with another key
\* does not go on running.
StaleWorkerStops ==
  \A t \in Tasks, s \in Sessions, k \in Keys :
    Serves(t, s, k) /\ ~Linked(s, k) ~> ~Serves(t, s, k)

\* What the table promises the owner (module LoginRegistry).
Login == [a \in Accounts |->
            IF \E s \in ActiveRows : AccountOf[s] = a
              THEN rows[CHOOSE s \in ActiveRows : AccountOf[s] = a].key
              ELSE NoKey]
Registry == INSTANCE LoginRegistry WITH login <- Login
RegistrySpec == Registry!Spec

\* db/queries.py, deactivate_session's docstring: a worker still holding the
\* old key must not deactivate a row that already contains the new login, be
\* its commit awaited or in doubt.
WorkerSparesNewerLogin ==
  [][\A t \in Tasks :
       LET s == tasks[t].sess IN
       tasks[t].pc = "deactivating" /\ tasks'[t] # tasks[t]
         /\ rows[s].active /\ ~rows'[s].active
         => rows[s].key = tasks[t].key]_vars

=============================================================================
