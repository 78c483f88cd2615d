--------------------------- MODULE ConnectTokens ---------------------------
(***************************************************************************)
(* One-time tokens of the Mini App login: the row of `connect_tokens` and  *)
(* everybody who reads and writes it.                                      *)
(*                                                                         *)
(*   - the bot's /connect handlers (management_bot/handlers/connect.py),   *)
(*     which issue a token and put its button in the chat;                 *)
(*   - the page's POST /connect/{token}/session (connect_web/app.py), which *)
(*     checks the new session, consumes the token and saves the session in *)
(*     one transaction;                                                    *)
(*   - the sweeper (management_bot/connect_notices.py), which claims the   *)
(*     expired tokens and tells their owner.                               *)
(*                                                                         *)
(* All tokens belong to one user, the Owner: every query filters by that   *)
(* user or by the token's value.  `now` is the clock they all read; a      *)
(* statement compares with the `now` its caller captured.  An UPDATE waits *)
(* for the row lock of an open transaction and, at Postgres's READ         *)
(* COMMITTED, tests its own WHERE again on the row it then finds, but not  *)
(* the subquery it was given.                                              *)
(***************************************************************************)
EXTENDS Naturals, FiniteSets

CONSTANTS
  Users,      \* Telegram users who can open a page
  Owner,      \* the user the tokens are issued to
  Tokens,     \* rows of connect_tokens (a bound)
  Handlers,   \* concurrent /connect and contact updates (a bound)
  Requests,   \* concurrent POSTs (a bound)
  Sweepers,   \* processes that run the sweeper
  NoToken,
  TTL,        \* DEFAULT_TTL_MINUTES
  Window,     \* DEFAULT_RATE_LIMIT_SECONDS
  MaxAge,     \* the freshness window of initData
  Batch,      \* the sweeper's limit
  MaxTime,    \* bound on the clock
  MaxRestarts, MaxFailures  \* bounds on restarts and on failed calls

ASSUME ConstantsAssumption ==
  /\ Owner \in Users
  /\ NoToken \notin Tokens
  /\ {TTL, Window, Batch} \subseteq Nat \ {0}
  /\ {MaxAge, MaxTime, MaxRestarts, MaxFailures} \subseteq Nat

VARIABLES
  now,
  tokens,     \* the rows
  button,     \* the Mini App button in the chat, per token
  waiting,    \* the chat's FSM state is waiting_for_phone
  handlers, requests, sweepers,
  saved,      \* history: sessions saved per token
  notices,    \* history: "your link ran out" messages per token
  restarts, failures

rest == <<restarts, failures>>
vars == <<now, tokens, button, waiting, handlers, requests, sweepers, saved,
          notices, restarts, failures>>

-----------------------------------------------------------------------------

NoRow == [issued |-> FALSE, created |-> 0, used |-> FALSE, notified |-> FALSE,
          msg |-> FALSE]

IdleHandler == [pc |-> "idle", tok |-> NoToken, at |-> 0]
IdleRequest == [pc |-> "idle", user |-> Owner, tok |-> NoToken, at |-> 0,
                msg |-> FALSE]
IdleSweeper == [pc |-> "idle", batch |-> {}, msgs |-> {}]

Issued == {k \in Tokens : tokens[k].issued}
ExpiresAt(k) == tokens[k].created + TTL

\* get_valid_token's WHERE, and consume_token's, at the caller's time.
Valid(k, at) == k \in Issued /\ ~tokens[k].used /\ at < ExpiresAt(k)

Active == {k \in Tokens : Valid(k, now)}

\* Values are of their types; a handler that has issued a token holds it; a
\* POST in progress is for an issued token and was signed by its owner.
TypeOK ==
  /\ now \in 0..MaxTime
  /\ tokens \in [Tokens -> [issued : BOOLEAN, created : Nat, used : BOOLEAN,
                            notified : BOOLEAN, msg : BOOLEAN]]
  /\ button \in [Tokens -> {"none", "shown", "gone"}]
  /\ waiting \in BOOLEAN
  /\ handlers \in [Handlers ->
       [pc : {"idle", "checked", "limiting", "creating", "starting", "sending",
              "recording"}, tok : Tokens \cup {NoToken}, at : Nat]]
  /\ requests \in [Requests ->
       [pc : {"idle", "checking", "consuming", "saving", "finishing"},
        user : Users, tok : Tokens \cup {NoToken}, at : Nat, msg : BOOLEAN]]
  /\ sweepers \in [Sweepers ->
       [pc : {"idle", "claiming", "notifying"}, batch : SUBSET Tokens,
        msgs : SUBSET Tokens]]
  /\ saved \in [Tokens -> Nat]
  /\ notices \in [Tokens -> 0..2]
  /\ restarts \in 0..MaxRestarts
  /\ failures \in 0..MaxFailures
  /\ \A h \in Handlers : handlers[h].pc \in {"starting", "sending", "recording"}
       => handlers[h].tok \in Issued
  /\ \A r \in Requests : requests[r].pc # "idle"
       => requests[r].tok \in Issued /\ requests[r].user = Owner

Init ==
  /\ now = 0
  /\ tokens = [k \in Tokens |-> NoRow]
  /\ button = [k \in Tokens |-> "none"]
  /\ waiting = FALSE
  /\ handlers = [h \in Handlers |-> IdleHandler]
  /\ requests = [r \in Requests |-> IdleRequest]
  /\ sweepers = [p \in Sweepers |-> IdleSweeper]
  /\ saved = [k \in Tokens |-> 0]
  /\ notices = [k \in Tokens |-> 0]
  /\ restarts = 0 /\ failures = 0

Tick ==
  /\ now < MaxTime
  /\ now' = now + 1
  /\ UNCHANGED <<tokens, button, waiting, handlers, requests, sweepers, saved,
                 notices, rest>>

Failure == failures < MaxFailures /\ failures' = failures + 1 /\ UNCHANGED restarts

-----------------------------------------------------------------------------
(* /connect and the login it begins. *)

To(h, pc) == handlers' = [handlers EXCEPT ![h].pc = pc]
EndHandler(h) == handlers' = [handlers EXCEPT ![h] = IdleHandler]

\* Mutant: no look at the attempt in flight.
ConnectUnchecked(h) ==
  /\ handlers[h].pc = "idle"
  /\ To(h, "checked")
  /\ UNCHANGED <<now, tokens, button, waiting, requests, sweepers, saved,
                 notices, rest>>

\* cmd_connect: with an attempt in flight the user is pointed back at it and
\* the dialogue is cleared.
Connect(h) ==
  /\ handlers[h].pc = "idle"
  /\ IF Active # {} THEN waiting' = FALSE /\ UNCHANGED handlers
                    ELSE To(h, "checked") /\ UNCHANGED waiting
  /\ UNCHANGED <<now, tokens, button, requests, sweepers, saved, notices, rest>>

\* No phone on file: ask for it.
AskPhone(h) ==
  /\ handlers[h].pc = "checked"
  /\ EndHandler(h)
  /\ waiting' = TRUE
  /\ UNCHANGED <<now, tokens, button, requests, sweepers, saved, notices, rest>>

Creating == {h \in Handlers : handlers[h].pc \in {"limiting", "creating"}}

\* A known phone (cmd_connect goes on) or the contact that was asked for:
\* _begin_miniapp_login clears the dialogue and calls create_token, which
\* captures the time.  The last two conjuncts only bound the model.
BeginLogin(h) ==
  /\ \/ handlers[h].pc = "checked"
     \/ handlers[h].pc = "idle" /\ waiting
  /\ waiting' = FALSE
  /\ handlers' = [handlers EXCEPT ![h].pc = "limiting", ![h].at = now]
  /\ Cardinality(Creating) < Cardinality(Tokens \ Issued)
  /\ now + TTL <= MaxTime
  /\ UNCHANGED <<now, tokens, button, requests, sweepers, saved, notices, rest>>

\* Mutant: the window ends one instant early.
OldEnough(at) == \A k \in Issued : at + 1 >= tokens[k].created + Window

\* check_rate_limit: the latest token is at least a window old.
RateAllows(at) == \A k \in Issued : at >= tokens[k].created + Window

RateCheck(h) ==
  /\ handlers[h].pc = "limiting"
  /\ IF RateAllows(handlers[h].at) THEN To(h, "creating") ELSE EndHandler(h)
  /\ UNCHANGED <<now, tokens, button, waiting, requests, sweepers, saved,
                 notices, rest>>

\* The INSERT and the commit.
Create(h) ==
  /\ handlers[h].pc = "creating"
  /\ \E k \in Tokens \ Issued :
       /\ tokens' = [tokens EXCEPT ![k].issued = TRUE,
                                   ![k].created = handlers[h].at]
       /\ handlers' = [handlers EXCEPT ![h].pc = "starting", ![h].tok = k]
  /\ UNCHANGED <<now, button, waiting, requests, sweepers, saved, notices, rest>>

\* connect_server.start returned an https origin.
ServerReady(h) ==
  /\ handlers[h].pc = "starting"
  /\ To(h, "sending")
  /\ UNCHANGED <<now, tokens, button, waiting, requests, sweepers, saved,
                 notices, rest>>

SendButton(h) ==
  /\ handlers[h].pc = "sending"
  /\ button' = [button EXCEPT ![handlers[h].tok] = "shown"]
  /\ To(h, "recording")
  /\ UNCHANGED <<now, tokens, waiting, requests, sweepers, saved, notices, rest>>

\* set_message_id.
RecordButton(h) ==
  /\ handlers[h].pc = "recording"
  /\ tokens' = [tokens EXCEPT ![handlers[h].tok].msg = TRUE]
  /\ EndHandler(h)
  /\ UNCHANGED <<now, button, waiting, requests, sweepers, saved, notices, rest>>

\* The database or Telegram raises, or the server does not start or has no
\* https origin: the handler answers "error" and ends; what it committed stays.
HandlerFails(h) ==
  /\ handlers[h].pc # "idle"
  /\ EndHandler(h)
  /\ Failure
  /\ UNCHANGED <<now, tokens, button, waiting, requests, sweepers, saved, notices>>

-----------------------------------------------------------------------------
(* POST /connect/{token}/session. *)

EndRequest(r) == requests' = [requests EXCEPT ![r] = IdleRequest]

\* initData was signed when the page was opened.
InitDataFresh(opened) == now - opened <= MaxAge

\* Mutant: whose initData it is is not compared with the token.
PostByAnyone(r, u, k, opened) ==
  /\ requests[r].pc = "idle"
  /\ Valid(k, now) /\ opened >= tokens[k].created /\ InitDataFresh(opened)
  /\ requests' = [requests EXCEPT
       ![r] = [pc |-> "checking", user |-> u, tok |-> k, at |-> 0,
               msg |-> tokens[k].msg]]
  /\ UNCHANGED <<now, tokens, button, waiting, handlers, sweepers, saved,
                 notices, rest>>

\* get_valid_token and the checks that need no await.  A POST that fails one
\* of them is refused and changes nothing.
Post(r, u, k, opened) ==
  /\ requests[r].pc = "idle"
  /\ Valid(k, now)
  /\ opened >= tokens[k].created
  /\ InitDataFresh(opened)
  /\ u = Owner
  /\ requests' = [requests EXCEPT
       ![r] = [pc |-> "checking", user |-> u, tok |-> k, at |-> 0,
               msg |-> tokens[k].msg]]
  /\ UNCHANGED <<now, tokens, button, waiting, handlers, sweepers, saved,
                 notices, rest>>

\* The session does not work from this machine: 400, the token stays.
CheckFails(r) ==
  /\ requests[r].pc = "checking"
  /\ EndRequest(r)
  /\ UNCHANGED <<now, tokens, button, waiting, handlers, sweepers, saved,
                 notices, rest>>

\* It does: consume_token captures the time and sends its UPDATE.
CheckPasses(r) ==
  /\ requests[r].pc = "checking"
  /\ requests' = [requests EXCEPT ![r].pc = "consuming", ![r].at = now]
  /\ UNCHANGED <<now, tokens, button, waiting, handlers, sweepers, saved,
                 notices, rest>>

\* The row lock of a transaction that has consumed k and is still open.
Locked(k) == \E r \in Requests : requests[r].pc = "saving" /\ requests[r].tok = k

\* Mutant: the UPDATE guards on the expiry alone.
ConsumesUnexpired(r) == requests[r].at < ExpiresAt(requests[r].tok)

\* Mutant: the UPDATE guards on used_at alone.
ConsumesUnused(r) == requests[r].tok \in Issued /\ ~tokens[requests[r].tok].used

Consumes(r) == Valid(requests[r].tok, requests[r].at)

\* The UPDATE gets the row lock, and the row or nothing (410).
Consume(r) ==
  /\ requests[r].pc = "consuming"
  /\ ~Locked(requests[r].tok)
  /\ requests' = [requests EXCEPT ![r] = IF Consumes(r)
                                           THEN [@ EXCEPT !.pc = "saving"]
                                           ELSE IdleRequest]
  /\ UNCHANGED <<now, tokens, button, waiting, handlers, sweepers, saved,
                 notices, rest>>

\* save_session and the commit, which also publishes used_at.
SaveCommit(r) ==
  /\ requests[r].pc = "saving"
  /\ tokens' = [tokens EXCEPT ![requests[r].tok].used = TRUE]
  /\ saved' = [saved EXCEPT ![requests[r].tok] = @ + 1]
  /\ requests' = [requests EXCEPT ![r].pc = "finishing"]
  /\ UNCHANGED <<now, button, waiting, handlers, sweepers, notices, rest>>

\* save_session raises: the transaction is rolled back.
SaveFails(r) ==
  /\ requests[r].pc = "saving"
  /\ EndRequest(r)
  /\ UNCHANGED <<now, tokens, button, waiting, handlers, sweepers, saved,
                 notices, rest>>

Without(k) == [button EXCEPT ![k] = IF @ = "shown" THEN "gone" ELSE @]

\* _finish_in_chat, best effort: deleteMessage when the row that was read
\* at the start had a message id, then the confirmation.
Finish(r) ==
  /\ requests[r].pc = "finishing"
  /\ \/ requests[r].msg /\ button' = Without(requests[r].tok)
     \/ UNCHANGED button
  /\ EndRequest(r)
  /\ UNCHANGED <<now, tokens, waiting, handlers, sweepers, saved, notices, rest>>

-----------------------------------------------------------------------------
(* The sweeper. *)

\* Mutants: tokens are claimed again and again; only those with a button.
DueAgain == {k \in Issued : ~tokens[k].used /\ ExpiresAt(k) <= now}
DueWithButton == {k \in DueAgain : ~tokens[k].notified /\ tokens[k].msg}

Due == {k \in Issued : /\ ~tokens[k].used
                       /\ ~tokens[k].notified
                       /\ ExpiresAt(k) <= now}

\* claim_expired_for_notice's subquery: the first Batch tokens by expiry.
ClaimRead(p) ==
  /\ sweepers[p].pc = "idle"
  /\ \E B \in SUBSET Due \ {{}} :
       /\ Cardinality(B) <= Batch
       /\ B # Due => Cardinality(B) = Batch
       /\ \A k \in B, j \in Due \ B : ExpiresAt(k) <= ExpiresAt(j)
       /\ sweepers' = [sweepers EXCEPT ![p].pc = "claiming", ![p].batch = B]
  /\ UNCHANGED <<now, tokens, button, waiting, handlers, requests, saved,
                 notices, rest>>

\* Its UPDATE of those ids, once nobody holds a lock on them, and the commit.
ClaimCommit(p) ==
  LET B == sweepers[p].batch IN
  /\ sweepers[p].pc = "claiming"
  /\ \A k \in B : ~Locked(k)
  /\ tokens' = [k \in Tokens |->
                  IF k \in B THEN [tokens[k] EXCEPT !.notified = TRUE]
                             ELSE tokens[k]]
  /\ sweepers' = [sweepers EXCEPT ![p].pc = "notifying",
                                  ![p].msgs = {k \in B : tokens[k].msg}]
  /\ UNCHANGED <<now, button, waiting, handlers, requests, saved, notices, rest>>

\* "sweep failed": nothing was claimed, the next tick tries again.
ClaimFails(p) ==
  /\ sweepers[p].pc = "claiming"
  /\ sweepers' = [sweepers EXCEPT ![p] = IdleSweeper]
  /\ Failure
  /\ UNCHANGED <<now, tokens, button, waiting, handlers, requests, saved, notices>>

Served(p, k) ==
  LET left == sweepers[p].batch \ {k} IN
  sweepers' = [sweepers EXCEPT
    ![p] = IF left = {} THEN IdleSweeper ELSE [@ EXCEPT !.batch = left]]

\* _notify: the dead button is removed, best effort, and the owner told.
\* 2 stands for "two or more".
Notify(p, k) ==
  /\ sweepers[p].pc = "notifying" /\ k \in sweepers[p].batch
  /\ \/ k \in sweepers[p].msgs /\ button' = Without(k)
     \/ UNCHANGED button
  /\ notices' = [notices EXCEPT ![k] = IF @ < 2 THEN @ + 1 ELSE @]
  /\ Served(p, k)
  /\ UNCHANGED <<now, tokens, waiting, handlers, requests, saved, rest>>

\* A failed notification is logged and not tried again.
NotifyFails(p, k) ==
  /\ sweepers[p].pc = "notifying" /\ k \in sweepers[p].batch
  /\ \/ k \in sweepers[p].msgs /\ button' = Without(k)
     \/ UNCHANGED button
  /\ Served(p, k)
  /\ Failure
  /\ UNCHANGED <<now, tokens, waiting, handlers, requests, saved, notices>>

\* The bot process, which holds the FSM states, the web server and the
\* sweeper, is restarted; open transactions are rolled back.
Restart ==
  /\ restarts < MaxRestarts
  /\ restarts' = restarts + 1
  /\ waiting' = FALSE
  /\ handlers' = [h \in Handlers |-> IdleHandler]
  /\ requests' = [r \in Requests |-> IdleRequest]
  /\ sweepers' = [p \in Sweepers |-> IdleSweeper]
  /\ UNCHANGED <<now, tokens, button, saved, notices, failures>>

-----------------------------------------------------------------------------

HandlerNext(h) ==
  \/ Connect(h) \/ AskPhone(h) \/ BeginLogin(h) \/ RateCheck(h) \/ Create(h)
  \/ ServerReady(h) \/ SendButton(h) \/ RecordButton(h)

RequestNext(r) ==
  \/ CheckFails(r) \/ CheckPasses(r) \/ Consume(r) \/ SaveCommit(r)
  \/ SaveFails(r) \/ Finish(r)

SweeperNext(p) ==
  ClaimRead(p) \/ ClaimCommit(p) \/ \E k \in Tokens : Notify(p, k)

Next ==
  \/ Tick
  \/ \E h \in Handlers : HandlerNext(h) \/ HandlerFails(h)
  \/ \E r \in Requests :
       \/ RequestNext(r)
       \/ \E u \in Users, k \in Tokens, opened \in 0..now : Post(r, u, k, opened)
  \/ \E p \in Sweepers :
       SweeperNext(p) \/ ClaimFails(p) \/ \E k \in Tokens : NotifyFails(p, k)
  \/ Restart

Spec == Init /\ [][Next]_vars

\* Time passes, the sweeper's loop runs, a POST whose calls are answered goes
\* on.  Whether anybody logs in, and whether anything fails, is left open.
Fairness ==
  /\ WF_vars(Tick)
  /\ \A r \in Requests : WF_vars(RequestNext(r))
  /\ \A p \in Sweepers : WF_vars(SweeperNext(p))

FairSpec == Spec /\ Fairness

-----------------------------------------------------------------------------
(* Properties. *)

\* However many POSTs race for a token, crash or are rolled back, it is spent
\* exactly when a session was saved with it, and then with one: a failed
\* attempt "must leave the token alive" (connect_web/app.py), and two POSTs
\* never "save two sessions for what looks like one login" (consume_token).
OneSessionPerToken ==
  \A k \in Tokens : saved[k] = IF tokens[k].used THEN 1 ELSE 0

\* "your link ran out" arrives at most once, restarts included, and only
\* when the link has run out (claim_expired_for_notice's docstring).
ToldAtMostOnce ==
  \A k \in Tokens : /\ notices[k] <= 1
                    /\ notices[k] > 0 => ExpiresAt(k) <= now

\* There is one login attempt at a time: a second token is not handed out
\* while the first one's button is alive (cmd_connect's comment).
OneAttemptAtATime ==
  \A j, k \in Issued :
    /\ ~tokens[j].used /\ now < tokens[j].created + TTL
    /\ ~tokens[k].used /\ now < tokens[k].created + TTL
    => j = k

\* Two tokens of a user are issued at least a rate-limit window apart.
AttemptsAreSpaced ==
  \A j, k \in Issued :
    j # k => \/ tokens[j].created + Window <= tokens[k].created
             \/ tokens[k].created + Window <= tokens[j].created

\* What a one-time link promises (module TokenLedger).  A token is held from
\* the moment consume_token captures a time before its expiry until that POST
\* ends: a slow one saves its session after the expiry, never a late one.
Lapsed == {k \in Issued : ExpiresAt(k) <= now}

Held == {k \in Tokens :
  /\ ~tokens[k].used
  /\ \E r \in Requests : /\ requests[r].pc \in {"consuming", "saving"}
                         /\ requests[r].tok = k
                         /\ requests[r].at < ExpiresAt(k)}

Spent == {k \in Tokens : saved[k] > 0}
Told == {k \in Tokens : notices[k] > 0}

Ledger == INSTANCE TokenLedger WITH
  issued <- Issued, lapsed <- Lapsed, held <- Held, spent <- Spent, told <- Told

LedgerSpec == Ledger!Spec

\* Every attempt that runs out unused is claimed for its notice, even when
\* restarts and failed sweeps come in between.
ExpiredIsClaimed ==
  \A k \in Tokens : k \in Issued ~> tokens[k].used \/ tokens[k].notified

=============================================================================
