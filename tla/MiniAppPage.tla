---------------------------- MODULE MiniAppPage ----------------------------
(***************************************************************************)
(* The login page of the Mini App (connect_web/static/app.js) for one      *)
(* token, over the owner's successive visits: the countdown, the login     *)
(* with Telegram (code, password), the hand-off to the backend, and the    *)
(* attempt kept in localStorage so that a visit can resume the one before. *)
(*                                                                         *)
(* The page runs one piece of JavaScript at a time; a click handler is     *)
(* suspended wherever it awaits, and no handler waits for another.  A      *)
(* request is three steps: it is on its way, Telegram or the backend acts  *)
(* on it, its answer is handled; an answer may also be lost.               *)
(*                                                                         *)
(* The token is what ConnectTokens makes of it: live, spent or over.       *)
(***************************************************************************)
EXTENDS Naturals

CONSTANTS
  Handlers,   \* async handlers of the page running at once (a bound)
  Keys,       \* MTProto auth keys
  Hashes,     \* phone_code_hash values
  NoKey, NoHash,
  CodeLength, \* digits of a code
  MaxLoads    \* bound on the visits

ASSUME PageAssumption ==
  /\ NoKey \notin Keys
  /\ NoHash \notin Hashes
  /\ CodeLength \in Nat \ {0}
  /\ MaxLoads \in Nat

VARIABLES
  page,      \* what lives in the tab: the DOM, the globals, the client
  handlers,  \* the handlers in progress
  pending,   \* localStorage["connect_pending_" + TOKEN]
  made,      \* Telegram: auth keys negotiated so far
  keyOf,     \* Telegram: the key that requested each hash
  alive,     \* Telegram: hashes whose code can still sign in
  signedIn,  \* Telegram: authorised keys
  token,     \* the backend's row
  linked,    \* the key the backend has saved a session for
  loads

telegram == <<made, keyOf, alive, signedIn>>
backend == <<token, linked>>
vars == <<page, handlers, pending, made, keyOf, alive, signedIn, token, linked,
          loads>>

-----------------------------------------------------------------------------

Screens == {"closed", "outside", "code", "2fa", "done", "expired"}

\* `conn` is the global `client`: null, connected, or set but not connected;
\* `key` its session's auth key, `home` whether it talks to the phone's DC.
Closed ==
  [screen |-> "closed", timer |-> FALSE, pad |-> FALSE, retry |-> FALSE,
   pw |-> TRUE, code |-> 0, hash |-> NoHash, conn |-> "null", key |-> NoKey,
   home |-> FALSE]

Idle == [job |-> "none", at |-> "idle", key |-> NoKey, hash |-> NoHash,
         reply |-> "none"]

NoAttempt == [hash |-> NoHash, key |-> NoKey]

PageStates ==
  [screen : Screens, timer : BOOLEAN, pad : BOOLEAN, retry : BOOLEAN,
   pw : BOOLEAN, code : 0..CodeLength, hash : Hashes \cup {NoHash},
   conn : {"null", "up", "down"}, key : Keys \cup {NoKey}, home : BOOLEAN]

HandlerStates ==
  [job : {"none", "send", "resume", "code", "password"},
   at : {"idle", "connect", "ask", "answered", "post", "posted"},
   key : Keys \cup {NoKey}, hash : Hashes \cup {NoHash},
   reply : {"none", "ok", "password", "expired", "error", "rejected", "gone"}]

Attempts == [hash : Hashes \cup {NoHash}, key : Keys \cup {NoKey}]

\* Values are of their types; no more digits are held than a code has.
TypeOK ==
  /\ page \in PageStates
  /\ handlers \in [Handlers -> HandlerStates]
  /\ pending \in Attempts
  /\ made \subseteq Keys
  /\ keyOf \in [Hashes -> Keys \cup {NoKey}]
  /\ alive \subseteq Hashes
  /\ signedIn \subseteq Keys
  /\ token \in {"live", "spent", "over"}
  /\ linked \in Keys \cup {NoKey}
  /\ loads \in 0..MaxLoads

Init ==
  /\ page = Closed
  /\ handlers = [h \in Handlers |-> Idle]
  /\ pending = NoAttempt
  /\ made = {} /\ alive = {} /\ signedIn = {}
  /\ keyOf = [g \in Hashes |-> NoKey]
  /\ token = "live" /\ linked = NoKey
  /\ loads = 0

Runs(h, job, at) == handlers[h].job = job /\ handlers[h].at = at
End(h) == handlers' = [handlers EXCEPT ![h] = Idle]
Begin(h, rec) == handlers[h] = Idle /\ handlers' = [handlers EXCEPT ![h] = rec]

\* Keys and hashes are interchangeable: a fresh one is any unused one.
NewKey == CHOOSE k \in Keys : k \notin made
NewHash == CHOOSE g \in Hashes : keyOf[g] = NoKey

\* clearPending.
Forget == pending' = NoAttempt

-----------------------------------------------------------------------------
(* Opening the page. *)

Load == page.screen = "closed" /\ loads < MaxLoads /\ loads' = loads + 1

\* No initData: the page did not come through the bot.
OpenOutside ==
  /\ Load
  /\ page' = [Closed EXCEPT !.screen = "outside"]
  /\ UNCHANGED <<handlers, pending, telegram, backend>>

\* EXPIRED_ON_LOAD.  The backend renders such a page without the token, so
\* that expire() clears the entry of a token called "__TOKEN__".
OpenDead ==
  /\ Load
  /\ token # "live"
  /\ page' = [Closed EXCEPT !.screen = "expired"]
  /\ UNCHANGED <<handlers, pending, telegram, backend>>

\* Nothing to resume: the code request fires on open (sendCodeNow).
OpenFresh(h) ==
  /\ Load
  /\ token = "live"
  /\ pending = NoAttempt
  /\ page' = [Closed EXCEPT !.screen = "code", !.timer = TRUE]
  /\ Begin(h, [Idle EXCEPT !.job = "send", !.at = "connect"])
  /\ UNCHANGED <<pending, telegram, backend>>

\* The device's clock is past the deadline, the server's is not: expire() runs
\* inside startTimer, yet start() goes on.  The attempt is forgotten, the code
\* screen replaces the expired one and has no countdown, and a code is sent.
OpenLate(h) ==
  /\ Load
  /\ token = "live"
  /\ page' = [Closed EXCEPT !.screen = "code"]
  /\ Forget
  /\ Begin(h, [Idle EXCEPT !.job = "send", !.at = "connect"])
  /\ UNCHANGED <<telegram, backend>>

\* A saved attempt: re-attach with its key instead of asking for a code.
OpenSaved(h) ==
  /\ Load
  /\ token = "live"
  /\ pending # NoAttempt
  /\ page' = [Closed EXCEPT !.screen = "code", !.timer = TRUE,
                            !.hash = pending.hash]
  /\ Begin(h, [Idle EXCEPT !.job = "resume", !.at = "connect",
                           !.key = pending.key])
  /\ UNCHANGED <<pending, telegram, backend>>

\* The Mini App is closed: what is not in localStorage is gone.
Close ==
  /\ page.screen # "closed"
  /\ page' = Closed
  /\ handlers' = [h \in Handlers |-> Idle]
  /\ UNCHANGED <<pending, telegram, backend, loads>>

\* ringSettle and show: the countdown stops; handlers in progress go on.
Settled(screen) == [page EXCEPT !.screen = screen, !.timer = FALSE]

\* expire().
Expire ==
  /\ page' = Settled("expired")
  /\ Forget

\* The tick that finds no time left.  The device's clock is not the server's.
TimeIsUp ==
  /\ page.timer
  /\ Expire
  /\ UNCHANGED <<handlers, telegram, backend, loads>>

-----------------------------------------------------------------------------
(* ensureClient: /webapp-config, then connect().  While it runs the pad is  *)
(* off and no other handler uses the client, so it is one step.             *)

\* connect() negotiates a new key, with a default DC.
SendConnects(h) ==
  /\ Runs(h, "send", "connect")
  /\ made # Keys
  /\ \E home \in BOOLEAN :
       page' = [page EXCEPT !.conn = "up", !.key = NewKey, !.home = home]
  /\ made' = made \cup {NewKey}
  /\ handlers' = [handlers EXCEPT ![h].at = "ask"]
  /\ UNCHANGED <<pending, keyOf, alive, signedIn, backend, loads>>

\* connect() gives up after its retries: it answers false and does not throw.
SendUnconnected(h) ==
  /\ Runs(h, "send", "connect")
  /\ page' = [page EXCEPT !.conn = "down"]
  /\ handlers' = [handlers EXCEPT ![h].at = "ask"]
  /\ UNCHANGED <<pending, telegram, backend, loads>>

\* Mutant: a failed send leaves nothing to tap.
ConnectFailsForGood(h) ==
  /\ Runs(h, "send", "connect")
  /\ \E c \in {"null", "down"} : page' = [page EXCEPT !.conn = c]
  /\ End(h)
  /\ UNCHANGED <<pending, telegram, backend, loads>>

\* The configuration cannot be fetched, or connect() throws, by when the
\* global is set.
SendConnectFails(h) ==
  /\ Runs(h, "send", "connect")
  /\ \E c \in {"null", "down"} :
       page' = [page EXCEPT !.conn = c, !.retry = TRUE]
  /\ End(h)
  /\ UNCHANGED <<pending, telegram, backend, loads>>

\* Mutant: the DC is pinned, the saved key is not restored.
AttachWithNewKey(h) ==
  /\ Runs(h, "resume", "connect")
  /\ made # Keys
  /\ page' = [page EXCEPT !.conn = "up", !.key = NewKey, !.home = TRUE,
                          !.pad = TRUE]
  /\ made' = made \cup {NewKey}
  /\ End(h)
  /\ UNCHANGED <<pending, keyOf, alive, signedIn, backend, loads>>

\* With the key restored, connect() makes no new one.
Attach(h) ==
  /\ Runs(h, "resume", "connect")
  /\ \E c \in {"up", "down"} :
       page' = [page EXCEPT !.conn = c, !.key = handlers[h].key,
                            !.home = TRUE, !.pad = TRUE]
  /\ End(h)
  /\ UNCHANGED <<pending, telegram, backend, loads>>

\* "resume failed, requesting a fresh code".
AttachFails(h) ==
  /\ Runs(h, "resume", "connect")
  /\ Forget
  /\ page' = [page EXCEPT !.pad = FALSE, !.retry = FALSE]
  /\ handlers' = [handlers EXCEPT ![h].job = "send", ![h].key = NoKey]
  /\ UNCHANGED <<telegram, backend, loads>>

-----------------------------------------------------------------------------
(* sendCodeNow. *)

\* The retry button.
Retry(h) ==
  /\ page.screen = "code" /\ page.retry
  /\ page' = [page EXCEPT !.retry = FALSE, !.pad = FALSE]
  /\ Begin(h, [Idle EXCEPT !.job = "send",
                 !.at = IF page.conn = "null" THEN "connect" ELSE "ask"])
  /\ UNCHANGED <<pending, telegram, backend, loads>>

\* Telegram sends a code; the client follows a redirection to the phone's DC
\* (_switchDC) and has a new key then.  Unconnected, it waits for ever.
RequestCode(h) ==
  /\ Runs(h, "send", "ask")
  /\ page.conn = "up"
  /\ page.home \/ made # Keys
  /\ \E g \in Hashes : keyOf[g] = NoKey
  /\ LET k == IF page.home THEN page.key ELSE NewKey IN
       /\ page' = [page EXCEPT !.key = k, !.home = TRUE]
       /\ made' = made \cup {k}
       /\ keyOf' = [keyOf EXCEPT ![NewHash] = k]
  /\ alive' = alive \cup {NewHash}
  /\ handlers' = [handlers EXCEPT ![h].at = "answered", ![h].hash = NewHash]
  /\ UNCHANGED <<pending, signedIn, backend, loads>>

\* Mutant: the attempt is saved before the new hash is stored.
CodeSentSavedEarly(h) ==
  /\ Runs(h, "send", "answered")
  /\ page' = [page EXCEPT !.hash = handlers[h].hash, !.code = 0, !.pad = TRUE]
  /\ pending' = [hash |-> page.hash, key |-> page.key]
  /\ End(h)
  /\ UNCHANGED <<telegram, backend, loads>>

\* savePending, with the key the session has by now; the pad is enabled.
CodeSent(h) ==
  /\ Runs(h, "send", "answered")
  /\ page' = [page EXCEPT !.hash = handlers[h].hash, !.code = 0, !.pad = TRUE]
  /\ pending' = [hash |-> handlers[h].hash, key |-> page.key]
  /\ End(h)
  /\ UNCHANGED <<telegram, backend, loads>>

\* sendCode throws, or its answer is lost: retry is offered.
SendFails(h) ==
  /\ \/ Runs(h, "send", "ask") /\ page.conn = "up"
     \/ Runs(h, "send", "answered")
  /\ page' = [page EXCEPT !.retry = TRUE]
  /\ End(h)
  /\ UNCHANGED <<pending, telegram, backend, loads>>

-----------------------------------------------------------------------------
(* The number pad and sign-in. *)

PadUsable == page.screen = "code" /\ page.pad

\* Mutant: no limit on the digits.
PressAnyDigit ==
  /\ PadUsable
  /\ page' = [page EXCEPT !.code = @ + 1]
  /\ UNCHANGED <<handlers, pending, telegram, backend, loads>>

PressDigit ==
  /\ PadUsable
  /\ page.code < CodeLength
  /\ page' = [page EXCEPT !.code = @ + 1]
  /\ UNCHANGED <<handlers, pending, telegram, backend, loads>>

Backspace ==
  /\ PadUsable
  /\ page.code > 0
  /\ page' = [page EXCEPT !.code = @ - 1]
  /\ UNCHANGED <<handlers, pending, telegram, backend, loads>>

\* submit-code with a full code.  Nothing disables the button meanwhile.
SubmitCode(h) ==
  /\ PadUsable
  /\ page.code = CodeLength
  /\ Begin(h, [Idle EXCEPT !.job = "code", !.at = "ask", !.hash = page.hash])
  /\ UNCHANGED <<page, pending, telegram, backend, loads>>

Answers(h, r) ==
  handlers' = [handlers EXCEPT ![h].at = "answered", ![h].reply = r]

\* Telegram decides: a hash is good for the key that requested it, and for
\* one sign-in.  "ok" without an authorised key is a phone that has no
\* account (auth.authorizationSignUpRequired), which the page takes for "ok".
SignIn(h) ==
  /\ Runs(h, "code", "ask")
  /\ page.conn = "up"
  /\ LET g == handlers[h].hash IN
     IF g \in alive /\ keyOf[g] = page.key
       THEN \/ /\ Answers(h, "ok")
               /\ alive' = alive \ {g}
               /\ signedIn' \in {signedIn, signedIn \cup {page.key}}
            \/ \E r \in {"password", "error"} :
                 Answers(h, r) /\ UNCHANGED <<alive, signedIn>>
       ELSE Answers(h, "expired") /\ UNCHANGED <<alive, signedIn>>
  /\ UNCHANGED <<page, pending, made, keyOf, backend, loads>>

\* Signed in: finish() takes the session's key and posts it.
SignedIn(h) ==
  /\ handlers[h].job \in {"code", "password"}
  /\ handlers[h].at = "answered" /\ handlers[h].reply = "ok"
  /\ handlers' = [handlers EXCEPT ![h].at = "post", ![h].key = page.key,
                                  ![h].reply = "none"]
  /\ UNCHANGED <<page, pending, telegram, backend, loads>>

\* Mutant: the countdown stops with the code step.
PasswordNeededSettled(h) ==
  /\ Runs(h, "code", "answered") /\ handlers[h].reply = "password"
  /\ page' = Settled("2fa")
  /\ End(h)
  /\ UNCHANGED <<pending, telegram, backend, loads>>

PasswordNeeded(h) ==
  /\ Runs(h, "code", "answered") /\ handlers[h].reply = "password"
  /\ page' = [page EXCEPT !.screen = "2fa"]
  /\ End(h)
  /\ UNCHANGED <<pending, telegram, backend, loads>>

\* PHONE_CODE_EXPIRED: the saved hash is dead; a fresh code is offered.
CodeExpired(h) ==
  /\ Runs(h, "code", "answered") /\ handlers[h].reply = "expired"
  /\ Forget
  /\ page' = [page EXCEPT !.code = 0, !.pad = FALSE, !.retry = TRUE]
  /\ End(h)
  /\ UNCHANGED <<telegram, backend, loads>>

\* Where a handler's awaited call may throw or its answer be lost.
MayThrow(h) ==
  \/ (handlers[h].at = "ask" /\ page.conn = "up")
  \/ handlers[h].at \in {"answered", "post", "posted"}

\* Any other error of SignIn, or of the hand-off.
CodeRefused(h) ==
  /\ handlers[h].job = "code" /\ MayThrow(h)
  /\ page' = [page EXCEPT !.code = 0]
  /\ End(h)
  /\ UNCHANGED <<pending, telegram, backend, loads>>

\* send-password disables its button.
SendPassword(h) ==
  /\ page.screen = "2fa" /\ page.pw
  /\ page' = [page EXCEPT !.pw = FALSE]
  /\ Begin(h, [Idle EXCEPT !.job = "password", !.at = "ask"])
  /\ UNCHANGED <<pending, telegram, backend, loads>>

\* GetPassword, computeCheck and CheckPassword.
CheckPassword(h) ==
  /\ Runs(h, "password", "ask")
  /\ page.conn = "up"
  /\ \/ Answers(h, "ok") /\ signedIn' = signedIn \cup {page.key}
     \/ Answers(h, "error") /\ UNCHANGED signedIn
  /\ UNCHANGED <<page, pending, made, keyOf, alive, backend, loads>>

\* Any error, of the check or of the hand-off, enables the button again.
PasswordRefused(h) ==
  /\ handlers[h].job = "password" /\ MayThrow(h)
  /\ page' = [page EXCEPT !.pw = TRUE]
  /\ End(h)
  /\ UNCHANGED <<pending, telegram, backend, loads>>

-----------------------------------------------------------------------------
(* finish: the hand-off. *)

Replies(h, r) ==
  handlers' = [handlers EXCEPT ![h].at = "posted", ![h].reply = r]

\* complete_session: 410 for a token that is not live, 4xx or 500 for a check
\* that fails, else the session is saved and the token spent.
HandOff(h) ==
  /\ handlers[h].at = "post"
  /\ \/ token # "live" /\ Replies(h, "gone") /\ UNCHANGED backend
     \/ token = "live" /\ Replies(h, "rejected") /\ UNCHANGED backend
     \/ /\ token = "live" /\ handlers[h].key \in signedIn
        /\ Replies(h, "ok")
        /\ token' = "spent" /\ linked' = handlers[h].key
  /\ UNCHANGED <<page, pending, telegram, loads>>

Posted(h, r) == handlers[h].at = "posted" /\ handlers[h].reply = r

\* Mutant: the status of the response is not looked at.
AcceptedAnyhow(h) ==
  /\ handlers[h].at = "posted"
  /\ page' = Settled("done")
  /\ Forget
  /\ End(h)
  /\ UNCHANGED <<telegram, backend, loads>>

Accepted(h) ==
  /\ Posted(h, "ok")
  /\ page' = Settled("done")
  /\ Forget
  /\ End(h)
  /\ UNCHANGED <<telegram, backend, loads>>

\* A message, and back: the password button stays as it is.
Rejected(h) ==
  /\ Posted(h, "rejected")
  /\ End(h)
  /\ UNCHANGED <<page, pending, telegram, backend, loads>>

\* 410: nothing to retry here.
Gone(h) ==
  /\ Posted(h, "gone")
  /\ Expire
  /\ End(h)
  /\ UNCHANGED <<telegram, backend, loads>>

-----------------------------------------------------------------------------
(* Telegram's own expiry of a code, and the token's. *)

CodeDies(g) ==
  /\ g \in alive
  /\ alive' = alive \ {g}
  /\ UNCHANGED <<page, handlers, pending, made, keyOf, signedIn, backend, loads>>

\* It runs out, or the same attempt is finished elsewhere.
TokenDies ==
  /\ token = "live"
  /\ token' \in {"over", "spent"}
  /\ UNCHANGED <<page, handlers, pending, telegram, linked, loads>>

-----------------------------------------------------------------------------

HandlerNext(h) ==
  \/ OpenFresh(h) \/ OpenSaved(h) \/ OpenLate(h)
  \/ SendConnects(h) \/ SendUnconnected(h) \/ SendConnectFails(h)
  \/ Attach(h) \/ AttachFails(h)
  \/ Retry(h) \/ RequestCode(h) \/ CodeSent(h) \/ SendFails(h)
  \/ SubmitCode(h) \/ SignIn(h) \/ SignedIn(h) \/ PasswordNeeded(h)
  \/ CodeExpired(h) \/ CodeRefused(h)
  \/ SendPassword(h) \/ CheckPassword(h) \/ PasswordRefused(h)
  \/ HandOff(h) \/ Accepted(h) \/ Rejected(h) \/ Gone(h)

Next ==
  \/ OpenOutside \/ OpenDead \/ Close \/ TimeIsUp
  \/ PressDigit \/ Backspace
  \/ \E h \in Handlers : HandlerNext(h)
  \/ \E g \in Hashes : CodeDies(g)
  \/ TokenDies

Spec == Init /\ [][Next]_vars

\* setInterval fires while the page is open.  Nothing else is assumed: the
\* network may never answer and the owner may never tap.
FairSpec == Spec /\ WF_vars(TimeIsUp)

-----------------------------------------------------------------------------
(* Properties. *)

\* The attempt in localStorage can be resumed: its key is the one that
\* requested its hash, also when the client was redirected to another DC in
\* between (ensureClient's comment: "without restoring the original key,
\* signIn always fails").
PendingIsResumable ==
  pending # NoAttempt => pending.hash \in Hashes /\ keyOf[pending.hash] = pending.key

\* Whenever a code can be entered, the hash it would be submitted with belongs
\* to the client's key, after a first request, a retry, a redirection, a
\* resume or a resume that failed.
HashFitsClient ==
  PadUsable /\ page.conn = "up"
    => page.hash \in Hashes /\ keyOf[page.hash] = page.key

\* "Connected" is shown only when the backend has saved a session of this
\* page's client, whatever other hand-offs were refused or lost.
DoneMeansLinked ==
  page.screen = "done" => token = "spent" /\ linked = page.key /\ linked \in signedIn

AllIdle == \A h \in Handlers : handlers[h] = Idle

\* The code screen always offers a way on: when no request is under way the
\* pad is enabled or the retry button is shown ("Without the old confirm step
\* there'd be no way back from a failed send", sendCodeNow), also when two
\* taps on the submit button are answered in either order.
CodeScreenHasWayOn ==
  page.screen = "code" /\ AllIdle => page.pad \/ page.retry

\* A visit whose countdown has begun comes to an end even if Telegram or the
\* backend never answers, on the password screen too.
VisitEnds ==
  page.screen = "code" /\ page.timer
    ~> page.screen \in {"done", "expired", "closed"}

\* The attempt is "cleared the moment it's no longer needed (success, or the
\* token turning out to be dead)".
NothingLeftBehind ==
  page.screen \in {"done", "expired"} /\ AllIdle => pending = NoAttempt

=============================================================================
