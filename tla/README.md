# usertgbot: TLA+ models and proofs

This directory holds the formal model of `usertgbot`: TLA+ modules translated
from the source, TLC configurations that check them on small instances, and
proofs checked by TLAPS. Paths such as `db/queries.py` are relative to the
repository.

Contents: 1 the system, 2 modules and their correspondence to the code, 3 runs,
bounds and fairness, 4 what the violated runs show, 5 proofs, 6 limits,
7 the plan.

## 1. The system

Three processes share one Postgres database (SQLite in tests).

* **management_bot**: the main Telegram bot (aiogram). Users subscribe, link a
  Telegram account, and edit settings. The process also hosts the Mini App
  backend (`connect_web`), the admin panel (`admin_web`) and the sweeper of
  expired connect tokens. The Mini App itself is a page of JavaScript in the
  owner's Telegram client.
* **userbot**: a supervisor with one worker task per active session. A worker
  logs in *as the owner's account*, serves their commands and saves what is
  deleted and edited in their chats.
* **manager_bot**: a second bot that delivers what the userbot has to say.

All of them are asyncio programs (the page is one of promises): a step runs
from one `await` to the next, and everything else may run in between.
Transactions are a SELECT, a decision in Python, a flush and a commit; the code
takes no row locks and uses the default isolation (READ COMMITTED on Postgres).

| Component | State | Operations | What is hard | What makes it correct |
|---|---|---|---|---|
| supervisor, `userbot/main.py` | dicts `running`, `started_with` | poll: load, reap, stop, start | acts on a snapshot; cancels tasks mid-await; restarts | one worker per active session, with the row's key |
| worker, `userbot/worker.py` | its connection and key | connect, die, deactivate, tell the owner | key revoked at any time; row re-linked under it | dead logins retired, live ones never |
| sessions table, `management_bot/storage.py`, `db/queries.py` | one row per (user, phone) | save, unlink, deactivate, delete user | read-modify-write by three processes | a login ends only by its owner or by its own key's death |
| connect tokens, `shared/connect_tokens.py` | rows with TTL, used, notified, message id | create, look up, consume, claim | concurrent POSTs, expiry, sweeps | one session per token; a failed attempt costs nothing; one notice |
| /connect handlers | FSM state | check, ask, issue, send the button | concurrent updates, failure half-way | one attempt at a time, with a button |
| connect_web backend | one transaction per POST | check session, consume, save, confirm | slow checks between look-up and consumption | as above |
| sweeper, `connect_notices.py` | none but its batch | claim, notify | restart between the two | every expired attempt is claimed, told once |
| Mini App page, `static/app.js` | the tab's globals and DOM, localStorage | open, resume, request a code, submit it, password, hand-off, expire | handlers overlapping at awaits, a redirection that changes the key, lost answers | a login is resumed or abandoned cleanly; never a dead screen; never a false "connected" |
| LoginManager, `management_bot/login.py`, and its keypad handlers | a client per user in memory, FSM state | start, resend, digits, submit, password, cancel | overlapping taps and /connects, restarts | no leaked client, no crossed attempts, no lost sign-in |
| subscriptions and payments | subscription rows, invoices | buy, pay, check, activate, grant, revoke | late, repeated and redelivered confirmations, handlers that die | access is paid for; a payment yields its period; a revocation ends all access, and nothing but a further request undoes it |
| usage limits, `userbot/handlers/commands.py` | `check_usage`, `last_send_at` | `.check`, `.send` | concurrent commands, month rollover, tariff changes | quota and cooldown hold |
| message cache and auto-save | SQLite cache per owner | remember, edit, delete, evict | handlers overtaking each other, ids that collide, stops | a deletion is reported, with the right text and media |
| autoresponder, view-once | last reply per chat | reply, save | cooldown stored after the reply | one reply per cooldown |
| settings screens | JSON documents | read, toggle, write | lost updates | a change is not undone by another |
| web servers, `*/server.py` | task, tunnel, URL | start, stop | concurrent start | one server |
| flood control, referrals, prices, schema | counters, pure functions | - | boundaries | equal to a reference definition |
| db_maintenance | a data source | check, fix, restore, backup | `fix` on what `check` found | `fix` leaves nothing `check` reports |
| menus, dashboard, i18n, formatting | none | rendering | - | - |

The components interact through the database (supervisor and bot over
`sessions`; bot, page and sweeper over `connect_tokens`; worker and bot over
`subscriptions`, `user_settings`), through Telegram (auth keys, messages,
payments), and within a process through shared memory (FSM states, dicts of
tasks and clients). Every row of the table down to the message cache is
modelled, in whole or in its protocol; the rest is not yet. `PROJECT.json`
lists every component with its status and every hazard at its line.

## 2. Modules

| Module | Models | Properties and proofs in |
|---|---|---|
| `LoginRegistry` | the abstract promise of the sessions table | `SessionSupervisor_refinement` |
| `SessionSupervisor` | supervisor, workers, writers of `sessions` | `SessionSupervisor_proofs` |
| `TokenLedger` | the abstract promise of a one-time link | `ConnectTokens_proofs` |
| `ConnectTokens` | tokens, /connect, the POST, the sweeper | `ConnectTokens_proofs` |
| `MiniAppPage` | the login page over its visits | `MiniAppPage_proofs` |
| `ChatLogin` | the keypad login and `LoginManager` | `ChatLogin_proofs` |
| `AccessContract` | the abstract promise of the shop | `Subscriptions_proofs` |
| `Subscriptions` | purchases, payments, grants, revocations | `Subscriptions_proofs` |
| `UsageLimits` | `.check`, `.send` | `UsageLimits_proofs` |
| `MessageCache` | the auto-save handlers over the cache | `MessageCache_proofs` |

The `MC*.tla` modules only give constants their values and a symmetry set.
A definition whose comment begins with "Mutant:" is a plausible bug, used by no
specification: section 3 says what it is for.

### SessionSupervisor, over LoginRegistry

| Model | Code |
|---|---|
| `rows` | the `sessions` table for one owner: state, key (= ciphertext), `is_active` |
| `keys` | what Telegram knows of an auth key: unused, live, dead (external) |
| `handlers`: `SignIn`, `LinkRead`/`LinkCommit`/`LinkFails`, `UnlinkRead`/`UnlinkCommit`, `DeleteUser` | `save_session`, `deactivate_user_sessions`, `delete_user` and their callers |
| `sup`, `running`, `startedWith`: `Wake`, `Load`, `LoadFails`, `Apply`, `Restart` | `_supervise` |
| `tasks`: `Connect`, `Dies`, `DeactivateRead`/`Commit`/`Fails`, `Notify`, `NotifyFails`, `WorkerFails`, `CancelLands` | `run_worker`, `_mark_session_dead`, `deactivate_session` |

Each database transaction that reads and then writes is two steps. SQLAlchemy
sends only columns whose value changed; this matters (`Relinked`,
`Deactivated`): a save that read `is_active = TRUE` does not write it. A
cancelled or failing worker that awaits a commit may or may not have had it
carried out (`CommitInDoubt`); `CancelLands` treats a message being sent in the
same way. `Apply` is one step because the code from the load to the next sleep
has no await. A row that cannot be decrypted is skipped by the loader like an
inactive one and is not modelled apart.

`LoginRegistry.tla` is the abstract promise of the table: a login is replaced
only by a newer login and ends only by its owner or by the death of *its own*
key. `SessionSupervisor!RegistrySpec` states the refinement.

### ConnectTokens, over TokenLedger

`ConnectTokens.tla` models one user's tokens.

| Model | Code |
|---|---|
| `tokens`, `now` | `connect_tokens` rows (issued, created, used, notified, message id known) and the clock |
| `handlers`, `waiting`: `Connect`, `AskPhone`, `BeginLogin`, `RateCheck`, `Create`, `ServerReady`, `SendButton`, `RecordButton`, `HandlerFails` | `cmd_connect`, `on_contact`, `_begin_miniapp_login`, `create_token`, `set_message_id` |
| `requests`: `Post`, `CheckFails`/`CheckPasses`, `Consume`, `SaveCommit`/`SaveFails`, `Finish` | `complete_session`, `consume_token`, `_finish_in_chat` |
| `sweepers`: `ClaimRead`, `ClaimCommit`, `ClaimFails`, `Notify`, `NotifyFails` | `claim_expired_for_notice`, `_tick`, `_notify`, `run_expiry_notices` |
| `button` | the Mini App button in the chat |

`consume_token` captures the time, waits for the row lock (`Locked`), and tests
its WHERE on the row it then finds. The sweeper's UPDATE also waits for the
lock, but what it tests again is only `id IN (...)`: the conditions are in the
subquery, which ran before. `save_session`, which runs in the POST's
transaction, is SessionSupervisor's `LinkRead`/`LinkCommit`; here it succeeds
or fails.

`TokenLedger.tla` is what a one-time link promises. It has no clock, handlers,
transactions or locks: a link is issued, its time lapses, somebody who asks in
time holds it, a holder spends it, and the owner may be told that the time is
over. A token is *held* from the moment `consume_token` captures an instant
before the expiry until that POST ends, so a slow POST may save its session
late, but none that asked late does. `ConnectTokens!LedgerSpec` states the
refinement.

### MiniAppPage

`MiniAppPage.tla` models the page for one token over successive visits.

| Model | Code |
|---|---|
| `page` | the screen, `#pad`, the retry and password buttons, the countdown; the globals `client` (`conn`, `key`, `home`), `phoneCodeHash` (`hash`), `code` |
| `handlers` | the async click handlers in progress, and where each awaits |
| `pending` | `localStorage["connect_pending_" + TOKEN]`: a hash and the auth key that requested it |
| `made`, `keyOf`, `alive`, `signedIn` | Telegram: keys negotiated, the key of each hash, codes still good, keys authorised (external) |
| `token`, `linked` | the backend's row (live, spent, over) and the key it saved a session for |
| `OpenOutside`, `OpenDead`, `OpenFresh`, `OpenLate`, `OpenSaved` | `start`, by what it finds: no initData, a page made for a dead token, no attempt, a countdown already over, an attempt to resume |
| `Close`, `TimeIsUp` | the tab closes; `startTimer`'s interval calls `expire` |
| `SendConnects`/`SendUnconnected`/`SendConnectFails`, `Attach`/`AttachFails` | `ensureClient`, for a request and for a resumed attempt |
| `Retry`, `RequestCode`, `CodeSent`, `SendFails` | `sendCodeNow`; `RequestCode` is GramJS's `sendCode` with its switch of DC, which makes a new key |
| `PressDigit`, `Backspace`, `SubmitCode`, `SignIn`, `PasswordNeeded`, `CodeExpired`, `CodeRefused` | the pad and submit handlers |
| `SendPassword`, `CheckPassword`, `PasswordRefused` | the password handler |
| `SignedIn`, `HandOff`, `Posted`, `Rejected`, `Gone`, `Accepted` | `finish`; `HandOff` is `complete_session`, as ConnectTokens details it |
| `CodeDies`, `TokenDies` | Telegram ages the code; the token expires, or another page finishes it |

A request is three steps: it is on its way, the other side acts, its answer is
handled; the answer may be lost. Handlers do not wait for each other: the page
disables the pad, not its handlers.

### ChatLogin

`ChatLogin.tla` models the login inside the chat, used when no Mini App is
configured.

| Model | Code |
|---|---|
| `registry`, `code` | `LoginManager._states` of the owner, and its digits |
| `client` | each Telethon client: new, open, closed |
| `fsm` | the conversation: `ConnectStates`, none, or another dialogue |
| `handlers` | the /connect handlers in progress |
| `signed`, `saved` | Telegram's view of the clients; sessions `save_session` committed |
| `AskPhone`, `BeginLogin`, `StartCancel`, `StartConnect`, `StartCode`, `StartDone` | `cmd_connect`, `on_contact`, `_begin_login`, `LoginManager.start` |
| `PushDigit`, `Backspace`, `Stale`, `Submit`, `Resend`, `Resent` | `on_code_button`, `push_digit`, `backspace`, `submit_code`, `_resend_code` |
| `SignIn`, `Refused`, `Fails`, `PasswordNeeded`, `Password` | `submit_code`, `submit_password`, `on_password` |
| `SignedIn`, `GetMe`/`GetMeFails`, `Pop`, `Save`, `Clear` | `_finish`, `_persist_and_finish` |
| `OtherDialogue`, `Restart` | another handler's `set_state`; the process starts again |

The history `overlap` records whether taps overlapped, or a /connect ran among
other handlers, and `lost` the sign-ins whose `get_me` or save failed. They
are read by properties only, as are the histories of the next two modules.

### Subscriptions, over AccessContract

| Model | Code |
|---|---|
| `rows` | the user's `subscriptions`: provider, period, status, end, and how far the invoice got |
| `paid`, `due`, `unconfirmed` | invoices paid; Stars payments whose update is still to come; updates the next poll has yet to confirm |
| `tasks` | handlers of a payment or a check, and the status their SELECT returned |
| `Buy`, `Invoice`, `Pay` | `create_pending`, `on_pay_stars`, `on_pay_crypto`, the buyer |
| `OnPayment`, `Activate`, `Answer` | `on_successful_payment`, `activate` |
| `Check`, `IsPaid`, `CheckReads`, `Activate`, `Edit`, `Answer` | `on_check_crypto`: a callback, Crypto Pay's answer, the second SELECT, the commit, the message without buttons, the answers |
| `Grant`, `Revoke`, `DeleteUser` | `admin_web/service.py`, and the free period |
| `Dies`, `Poll`, `Restart` | an exception at any await; aiogram's polling confirms updates one poll late, so a restart brings them again |

`Check` needs a row with an invoice, as `on_check_crypto` does, and nothing
else: the callback may come when its button is gone, twice, or crafted, as
`on_pay_stars` says of callback data. Neither it nor `on_successful_payment`
looks whether the row was activated before, so each further request for a paid
row starts its period again. The histories `started` (rows that have been
activated), `repeated` (rows asked for again, after or beside another request)
and `lost` (Stars payments whose handler died) are read by properties only.

`AccessContract.tla` is what the shop keeps to: access begins with a gift, or
with a claim, whoever makes it, on a subscription that is paid, for the length that
was bought, one period per claim; a revocation ends everything that runs, a
deletion everything for good, and nothing else ends it early. It does not
promise one period per payment, because the code does not count claims.
Invoices, updates, buttons and what handlers read are not in it.
`Subscriptions!ContractSpec` states the refinement: `Ends` is the end of an
active row, 0 otherwise, `Claim` the row each handler is about to activate.

### UsageLimits

`UsageLimits.tla` models `.check` and `.send` of one owner: `Gate`
(`check_command`), `CheckRead`/`CheckCommit`/`CheckCollides`
(`consume_check` over `_get_or_reset_usage`), `SendRead`/`MarkCommit`/
`MarkCollides` (`peek_send_cooldown`, `mark_send_used`,
`get_or_create_settings`), the copies of a batch, a changing subscription and a
clock whose months roll. `Counted` is the row as the flush leaves it, with only
the changed columns written and absolute numbers. The variable `serial` is
chosen at the start: it tells apart behaviours in which these transactions run
one after another.

### MessageCache

| Model | Code |
|---|---|
| `sent`, `gone`, `version` | Telegram: messages, deletions, edits |
| `cache` | the owner's rows of `cached_messages` by `created_at`: message, text, media |
| `tasks` | Telethon's handler tasks: `remember`, `on_edited`, `on_deleted` |
| `Arrives`, `Edited`, `Deleted` | an update, and the task it starts; a worker that is down misses it |
| `Capture`, `Insert`, `Evict` | `_capture_media`, `RecentMessageCache.remember`, `_evict_old` |
| `Get` | `on_edited` reads the previous row for its text and media |
| `Find`, `Remove` | `pop`, `pop_by_message_id`: the SELECT, the DELETE |
| `Handle` | `_handle`: the report to the owner |
| `Stop`, `Start`, `Dies` | the worker stops and starts; a handler dies at an await |

`clean` are the messages whose own updates were handled one at a time, none
missed and no handler dead; what the handlers of other messages do is left
free. `owed` are the deleted messages whose row was there when the deletion
came and that are not reported yet, whichever handler is to do it; colliding
ids are no exception. `mistaken` are the messages whose own deletion took the
row of another message with the same id, which the module's docstring accepts:
the message itself may then go unreported and keep its row. An eviction takes a
message out of `owed` only while no deletion has read its row (`Taken`). A SQL
statement and its commit are one step: all tasks of a worker share one
connection.

## 3. Runs

| Run | Instance | Shows |
|---|---|---|
| SupervisorInterleaved | 1 row, 2 keys, 2 tasks, 1 handler, 1 fault, interleaving transactions, fair | types, tracking, notices only for dead keys; dead logins retired, live ones served, stale workers stopped |
| SupervisorSerial | 2 row ids, 3 keys, 2 tasks, 2 handlers, 1 fault, `SerialTx` | one worker per account, no fresh login lost, refinement of LoginRegistry |
| TokensSerial | 2 tokens, 1 chat handler, 2 POSTs, 1 sweeper, clock to 4, 1 restart, 1 failure | one session per token, one notice, one attempt at a time, spaced attempts, refinement of TokenLedger |
| TokensLiveness | 2 tokens, 1 POST, batch of 1, 1 restart, 1 failure, fair | every attempt is used or claimed |
| PageVisits | 2 handlers, 3 keys, 2 hashes, 1 digit, 3 visits, fair | what is kept can be resumed, the hash fits the client, no false "connected", always a way on, every visit ends |
| ChatLogins | 2 handlers, 3 clients, 1 digit, 1 restart | registry, clients, screen and saved sessions agree |
| Sales | 2 handlers, 2 rows, periods of 1 and 2, clock to 2, any number of deaths, restarts and repeated requests | access is paid for, payments stay claimable, only a further request undoes a revocation, refinement of AccessContract |
| Usage | 2 commands, 2 tariffs, months of 2, clock to 4, 1 failure, 2 tariff changes | exact counter, quota, cooldown; the counter's bound when commands interleave |
| AutoSave | 2 handlers, 2 private messages (one a photo), a channel message with the id of one of them, cache of 2, 1 edit, 1 fault | cache bound, exact rows, deletions reported (also of overlapping handlers and colliding ids), true reports, media kept |
| RelinkRace, PageLeftBehind, EditDropsMedia | as small as the case allows | section 4 |

**Bounds.** SupervisorSerial has two row ids, to see a row deleted and created
again, three keys, for a re-link that overlaps a re-link, and two handlers, for
each pair of writers. SupervisorInterleaved is smaller because liveness is
checked without symmetry: two keys are "old and new", and the second task slot
is the cancelled worker that lives on beside its successor. For tokens,
`TTL = 2`, `Window = 1`, `MaxAge = 3` keep the order of the code's 15 minutes,
60 seconds and 17 minutes; the clock's bound lets one token expire while a
second is issued, and `Batch = 1` makes the limit of 50 bite. On the page, two
handlers are two taps, or a tap and a retry; three keys are a key, the one
after a redirection and one of a visit that could not resume; two hashes a code
and its successor; a third visit resumes what the second kept of the first.
Digits are interchangeable, so one is a code that is complete or not. In the chat
two handlers overlap in every pair, and the third client replaces one that was
replaced. Two subscription rows are a purchase and a renewal or grant; the
clock lets a period of 1 end while one of 2 runs. A cache of two rows with three
messages evicts; two handlers meet at every await, and a deletion of two
messages has an id left when it is interrupted. For usage, quotas of 1 and 2 and
a cooldown of two instants reach each limit and the month's roll. `Faults`,
`restarts`, `failures`, `changes`, `loads` and the clocks are capped by named
constants; `now + TTL <= MaxTime` and the count of free rows in `BeginLogin`
are bounds, not code. The invariants and action properties are proved for
every size (section 5).

**Idealised behaviours.** `SerialTx` in SupervisorSerial, the single chat handler
of TokensSerial, and the histories `serial`, `overlap` and `clean` mark
behaviours in which updates that the code does not serialise happen not to
overlap. What is stated about them alone shows that the logic is right there.
The proofs go further: they replace "no two transactions overlap" by the one
overlap that does the harm (section 5), so that every other interleaving is
covered; section 4 says what that overlap does. Every property that holds
without such an assumption is checked without it: MiniAppPage has none, and
in MessageCache, ChatLogin and Subscriptions an assumption is about one message,
conversation or row, while all the others are free to overlap.

**Deadlock** is checked in the supervisor, token and ChatLogin runs. The others
may stop: an owner without a subscription has nothing left to do in Usage, the
visits of PageVisits and PageLeftBehind, the messages and edits of AutoSave
and EditDropsMedia, and the rows of Sales are used up when their bounds are
reached.

**Fairness.** SupervisorInterleaved: the event loop resumes a coroutine whose await
has an answer, so `Wake`, `Load`, `Apply` and each worker's own steps are weakly
fair (a failed load is retried by the loop itself, and faults are bounded); a
handler that has begun a transaction ends it. TokensLiveness: time passes, the
sweeper's loop runs, a POST that was admitted goes on. PageVisits: `setInterval`
fires while the page is open (`WF(TimeIsUp)`), and nothing else is assumed of
the network, Telegram or the owner. Nobody is forced to log in, unlink or
revoke, and no fault is forced.

**Mutants.** Each checked property has a plausible bug beside the definition it
changes, under which TLC finds the property violated: a supervisor that restarts
workers regardless (`StartedRegardless`) or forgets to cancel
(`PoolUncancelled`), a deactivation by row id (`OwnsRowById`), a consumption
that tests only expiry (`ConsumesUnexpired`) or only use (`ConsumesUnused`), a sweep that forgets whom it told
(`DueAgain`), a count written into the old month (`CountedInOldPeriod`), an
attempt saved before the new hash is stored (`CodeSentSavedEarly`), a start that
leaves its client connected (`StartCodeLeaks`), a revocation of the latest
subscription only (`RevokeLatest`) or of the pending ones too
(`RevokePending`), `ON CONFLICT DO NOTHING` (`InsertIfNew`), an eviction that
keeps a row too many (`EvictLate`).

## 4. What the violated runs show

Each run checks one property taken from a comment or docstring, quoted in
`PROJECT.json`.

* **RelinkRace**: `deactivate_session` compares the ciphertext, then updates by
  id. A re-login that commits in between is switched off, the case its
  docstring says it guards against; the window is one round trip instead of a
  poll interval.
* **PageLeftBehind**: `expire()` clears the pending attempt, but a `sendCode`
  answered afterwards saves it again, on a page nobody can use any more; and a
  page made for a dead token carries no token, so it clears another key.
* **EditDropsMedia**: an edit that comes while the photo is still being
  downloaded reads no row; its upsert then replaces the row that the download
  has written, without the media.

The same models have relatives of these for which no run is kept:

* *Supervisor.* The poll after a deactivation no longer finds the row active
  and cancels the worker while it is sending the notice; nobody sends it again.
  A snapshot loaded before a deactivation and applied after it restarts a
  worker on the dead key, which tells the owner a second time.
  `deactivate_session` answers True for a row that was already inactive.
* *Tokens.* Two concurrent `/connect` both pass the check and the rate limit. A
  token committed before the web server failed to start blocks `/connect` for
  its TTL, pointing at a button that was never sent. Two sweepers (two bot
  processes, as the docstring supposes) claim the same row, because the claim
  tests its conditions only in its subquery; for the same reason a token that is
  spent while a sweep waits for its row is claimed too. A restart after the
  claim's commit loses its messages.
* *Usage.* Peek and mark are a SELECT and a later UPDATE without a lock: two
  batches pass one cooldown, and two `.check` are granted the last use of a
  month.
* *Page.* After a refused hand-off the password button stays disabled
  (`app.js:341`). When GramJS's `connect()` answers false, `sendCodeNow` waits
  for ever and offers no retry. `app.js:115` says an authenticated session
  "never touches storage", but the saved attempt's key is the signed-in one
  from `signIn` to the accepted hand-off. A late `SESSION_PASSWORD_NEEDED`
  opens the password screen over the expired one. A page opened when its
  countdown is over is expired inside `start()`, which then shows the code
  screen, without a countdown (`OpenLate`).
* *Chat.* "One login at a time" (`login.py:12-13`) does not survive two
  overlapping starts: the second replaces the first client, which nobody
  disconnects. The loser of a double tap on submit cancels the client under the
  winner's `get_me`, and the sign-in is lost.
* *Subscriptions.* A Stars payment whose handler dies is not activated by
  anything. A check sent again for a paid row, at any later time and with or
  without its button, starts the period again, also of a revoked row; so does a
  Stars update that comes again after a restart. A renewal overlaps the running
  period. The status screen shows the latest ACTIVE row, the gate the latest
  that is not over; status EXPIRED is never set.
* *Cache.* Of two messages with one id, a private one and one of a channel, the
  deletion of the private one reports and removes the latest row, which may be
  the other's. A capture or an edit that ends after a deletion has popped the
  row writes it again.

Most of them need an interleaving at an await or a fault at a particular point; the
repeated check and the colliding ids need neither.

## 5. Proofs

Eight modules hold theorems. Each assumes the named ASSUME of the module it is
about (`ConstantsAssumption`, `PageAssumption`, ...: typing of the constants
and that the null values are not members) and what the table's last column
says. All constants are arbitrary: any sets of handlers, keys, rows or
messages, any bounds.

| Module | Theorem | States | Besides |
|---|---|---|---|
| `SessionSupervisor_proofs` | `TypeCorrect` | `TypeOK` | |
| | `Tracked` | `WorkersAreTracked` | |
| | `OneWorker` | `OneWorkerPerAccount` | |
| | `NoticeSound` | `NoticeOnlyForDeadKey` | |
| | `FreshLoginRelinksApart` | `FreshLoginSurvives` | `[]RelinksApart` |
| | `FreshLogin` | `FreshLoginSurvives` | `SerialTx` |
| | `SparesNewerLoginRelinksApart` | `WorkerSparesNewerLogin` | `[]RelinksApart` |
| `SessionSupervisor_refinement` | `RefinesRelinksApart` | `RegistrySpec` | `[]RelinksApart` |
| | `Refines` | `RegistrySpec` | `SerialTx` |
| `ConnectTokens_proofs` | `TokensTypeCorrect` | `TypeOK` | |
| | `SessionPerToken` | `OneSessionPerToken` | |
| | `KeepsLedger` | `LedgerSpec` | |
| | `ToldOnceClaimsApart` | `ToldAtMostOnce` | `[]ClaimsApart` |
| | `ToldOnce` | `ToldAtMostOnce` | one sweeper |
| | `OneAttemptApart` | `OneAttemptAtATime` | `[]AttemptsApart` |
| | `OneAttempt` | `OneAttemptAtATime` | one chat handler |
| | `SpacedApart` | `AttemptsAreSpaced` | `[]AttemptsApart` |
| | `Spaced` | `AttemptsAreSpaced` | one chat handler |
| `MiniAppPage_proofs` | `PageTypeCorrect` | `TypeOK` | |
| | `ResumableAttempt` | `PendingIsResumable` | |
| | `HashOfClient` | `HashFitsClient` | |
| | `DoneIsLinked` | `DoneMeansLinked` | |
| | `WayOnAlways` | `CodeScreenHasWayOn` | |
| | `ClearedButTwoWays` | `NothingLeftBehind` | `NoLateCode`, `NoDeadVisit` |
| `ChatLogin_proofs` | `ChatTypeCorrect` | `TypeOK` | |
| | `RegisteredUsable` | `RegisteredIsUsable` | |
| | `ClientsOwned` | `ClientsAreOwned` | |
| | `ScreenMatches` | `ScreenMatchesLogin` | |
| | `SignInSaved` | `SignedInIsSaved` | |
| `Subscriptions_proofs` | `SubscriptionsTypeCorrect` | `TypeOK` | |
| | `AccessBacked` | `AccessIsBacked` | |
| | `PaidClaimable` | `PaidCanBeClaimed` | |
| | `RevokedStays` | `RevocationHolds` | |
| | `KeepsContract` | `ContractSpec` | |
| `UsageLimits_proofs` | `CounterExactApart` | `CounterIsExact` | `[]ChecksApart` |
| | `CounterTrue` | `CounterIsTrue` | |
| | `WithinQuotaApart` | `GrantsWithinQuota` | `[]ChecksApart` |
| | `WithinQuota` | `CheckWithinQuota` | |
| | `CooldownKeptApart` | `BatchesAreSpaced` | `[]MarksApart` |
| | `CooldownKept` | `CooldownHolds` | |
| `MessageCache_proofs` | `CacheTypeCorrect` | `TypeOK` | |
| | `Reported` | `DeletionIsReported` | |
| | `RowExact` | `RowIsExact` | |
| | `ReportsTrue` | `ReportsAreTrue` | |
| | `MediaKept` | `MediaIsKept` | |

The hypotheses of the last column that begin with `[]` are assumptions about
the behaviour, not about the constants: each excludes one overlap and nothing
else; where another row states the same property over an idealised database or
process, that theorem is a corollary. They are the code's own exposure, stated exactly:

| Hypothesis | Excludes | What would provide it |
|---|---|---|
| `RelinksApart` | a `save_session` that has read a row overlaps an unlink or a worker's deactivation that has read the same row | `SELECT ... FOR UPDATE`, or a WHERE on the ciphertext |
| `ClaimsApart` | two sweepers between the subquery and the commit | one bot process, or `expiry_notified_at IS NULL` in the UPDATE itself |
| `AttemptsApart` | two /connect handlers between the look at the attempts and the INSERT | updates of one user handled in turn |
| `ChecksApart` | two `.check` between `consume_check`'s SELECT and the commit | a row lock |
| `MarksApart` | two `.send` between the peek and the mark | a row lock |
| `NoLateCode`, `NoDeadVisit` | `sendCode` answered on a settled page; a saved attempt under a page made for a dead token | a test of the screen; the token on that page |

**SessionSupervisor.** *Tracking* is inductive with the types: only the
supervisor starts workers and changes its dicts, and every other step keeps a
worker's row and key or ends it (`OthersKeepTracked`). *One worker per account*
adds that the table, the loaded snapshot and the dict of running workers each
hold at most one row of an account (`AccountInv`). *Sound notices* need that a
worker past `Dies` holds a key Telegram has killed (`DyingKeysAreDead`), which
persists because keys never come back to life. *Fresh logins* are the delicate
one: a worker between its SELECT and its UPDATE could hold an old comparison.
`LoginInv` adds that what an open transaction has read and relies on still
holds (`ReadsKept`) and that keys in use were issued (`KeysIssued`).
`ReadsKept` asks little: a save that read an active row still finds it active,
a worker that read its own key in a row still finds it there, or the row is
gone. `RelinksApart` is what makes it inductive; two re-links, an unlink and a
deactivation, a deletion and anything, may overlap. Then the only worker that
can switch a row off owns it, and its key is dead; that a worker spares a newer
login follows too. RelinkRace is the overlap that is excluded. The *refinement*
maps the active row of an account to its login (`LoginOf`), which is unique by
`AccountInv`; under `LoginInv` each commit is then one of the registry's
actions, and every other step keeps the mapping. It needs two more facts: that
a key belongs to one login, in a handler's hands or in a row (`KeysApart`), and
that an active row is its account's login (`LoginIsActiveRow`).

**ConnectTokens.** *One session per token* needs no assumption.
`LocksAreExclusive` says that transactions which have consumed a token and are
still open hold its row lock: no two share a token, and no such token is spent
yet. `Consume` keeps it because it waits for the lock and tests `used_at` on
the row it then finds; `SaveCommit` therefore moves `saved` from 0 to 1
together with `used`. *The ledger* rests on the same invariant and on two more
facts: a POST that is saving captured its instant before the expiry, so it
holds the token in the ledger's sense until it commits (`SavingInTime`), and
what a sweep's batch holds has lapsed (`BatchLapsed`). Time moves forward, so a
step either lapses some tokens, or is one of the ledger's actions, or keeps the
mapping. *Told once*: while no two claims overlap, what a batch holds is
unclaimed before the commit and untold after it (`BatchHolds`), and nobody is
told of an unclaimed token (`ToldIsClaimed`). *One attempt* and *spaced
attempts*: while no two handlers decide at once, what the check saw still holds
when the token is created (`AttemptHolds`), since consumptions and time only
end attempts.

**MiniAppPage.** The invariant has no assumption on the order of handlers.
`Kind` and `Phases` say what a handler at each await may hold; `KeysFit` that
the stored attempt, the page's hash and every hash in a handler belong to the
key they are used with, as long as that key is the client's; `Links` that a
"posted" success implies the backend's commit with this client's key; `WayOn`
that a code screen without pad and retry button has a request or a resume under
way, which ends with one of the two. *Cleared* is inductive but for the two
steps that its hypotheses exclude, the ones of the finding.

**ChatLogin.** `CoreInv` types the handlers by where they wait and says who may
touch a closed client; `OwnedInv` that, unless a start ran among other
handlers, an open client is registered or a start is about to register or to
close it; `AloneInv` describes a conversation with no overlap, where the
handler at work and the screen determine the registry.

**Subscriptions.** `RowsHold` relates a row's status, invoice and `paid`;
`TasksHold` says what a handler past the question knows (that the row was
paid). `OneHandler` says that a row not in `repeated` has one handler at a
time, and none that is still to activate it once it has been activated
(`Alone`); a revocation cancels active rows only, which have been. *The contract*
adds that what a handler read of a row that was no longer pending is no longer
pending (`SeenHolds`), because no step makes a row pending again (`Onward`),
and that an active row has an end (`EndsLater`). An activation then is the start
of a claimed, paid period, or, when it read an active row that was revoked
since and so leaves its status, a claim that comes to nothing. Each other step
is an action of the contract or invisible to it (`ContractStep`).

**UsageLimits.** While checks are apart, what a `.check` has read still is the
row (`ReadHolds`), and the row is the tally of grants in its month (`Tally`); a
`.send` may overlap all of it. While marks are apart, `CooldownOver` keeps the
peek true until the mark. With `serial` both are the case (`SerialApart`).
`Bounded` needs none of it: whoever counts wrote at most its tariff's quota.

**MessageCache.** `CoreInv` types tasks by where they wait and bounds every
text by what was sent (`StoredHold`). The bound of the cache (`Few`) is a
count: each insert adds one row and one task at "evict", an eviction removes
what is over, and a fault loses at most one eviction per task. It uses the
library's facts on cardinalities, so `Tasks` is finite. *Reported* follows an
owed deletion that is not mistaken: some deleting task has its id still to do
and its row is cached, or holds its row (`HoldsOwed`, `OwedHeld`). It needs no
condition on overlaps: a row that another task takes is in that task's hands
(`Taken`), an upsert never removes one. `CleanInv` says that a clean message has at most one task
(`Alone`), what that task may find (`FreshAt`, `EditAt`), that its row is
current but for the edit that task brings (`Exact`), and that the row of a
deleted message that is not mistaken is still in the hands of its own
deletion (`GoneHeld`).

## 6. Limits

Only model-checked: the liveness properties (`DeadLoginIsRetired`,
`LiveLoginIsServed`, `StaleWorkerStops`, `ExpiredIsClaimed`, `VisitEnds`), since
liveness under fairness and ENABLED are out of the prover's reach, and the
violations of section 4. Induction over data and RECURSIVE operators are out of
reach too; the modules use neither.

Abstracted: message texts, phone numbers, digits and session strings are model
values or numbers; a message is delivered or not; the owner's tokens, rows and
commands are those of one user, because every query filters by user. Signature
and cryptography are the boolean guards they return. The lock a Postgres UPDATE
waits for and its re-test of the WHERE are modelled as described in section 2;
SQLite, used by the tests and the cache, serialises writers. The parts are modelled
one by one: ConnectTokens's POST and MiniAppPage's `HandOff` are the same
handler, once with its transactions and once as a step, and `sessions` is
SessionSupervisor's.

Not modelled:

* `connect_web/static/gramjs.js`: a third-party bundle, of which some 2,100 of
  2,200 lines are the text of Telegram's TL schema and the rest is minified.
  Of what it does, the requests the page makes and the switch to the phone's DC
  are in MiniAppPage; the transport and its cryptography are not. Most of the
  program's own code is Python.
* settings screens, the on-demand web servers, autoresponder and view-once
  handlers, flood control, referrals, prices, `db_maintenance`: planned below.
* `manager_bot` (one button without a protocol), the reputation stub, rendering,
  keyboards, i18n, the dashboard, byte formats and cryptography, migrations and
  scripts: no behaviour a state machine would add to.
* of the modelled parts, read-outs (status, links, lists) and profile fields;
  `PROJECT.json` says for each component what is left out.

## 7. The plan

1. `SettingsEditor`: the read-modify-write of a user's JSON document by the
   settings screens, the worker's commands and the manager bot's button; lost
   updates, and the schema's normalisation as a function.
2. `OnDemandServer`: concurrent starts and stops, the tunnel and its URL.
3. The autoresponder's reply memory over its awaits.
4. `FloodControl`, referral codes and prices as pure functions against reference
   definitions; `db_maintenance`'s check, fix and restore over a small
   relational state.
5. A composition of MiniAppPage and ConnectTokens over one `token` variable, to
   replace `HandOff` and `TokenDies` by the backend's own steps.
6. Abstract promises for `MessageCache` and `ChatLogin`, in the way
   `TokenLedger` and `AccessContract` state those of their components, with the
   theorems that each implements its own.

The runs stay few: one safety run per module, a fair one where something must
eventually happen, and a violated one for a documented promise the code breaks.
