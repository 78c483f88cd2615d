----------------------------- MODULE ChatLogin -----------------------------
(***************************************************************************)
(* The login of one owner inside the chat, used when no Mini App is        *)
(* configured: the /connect handlers (management_bot/handlers/connect.py)  *)
(* over the in-process registry of live Telethon clients                   *)
(* (LoginManager, management_bot/login.py).                                *)
(*                                                                         *)
(* The dispatcher runs every update in a task of its own, so two handlers  *)
(* of one owner interleave at each await: impatient taps, or a second      *)
(* /connect.  The conversation state is kept in memory, as the registry    *)
(* is; a restart loses both.  `overlap` tells the behaviours apart: some   *)
(* properties are only about owners who wait for an answer.                *)
(***************************************************************************)
EXTENDS Naturals

CONSTANTS
  Handlers,   \* handlers running at once (a bound)
  Attempts,   \* Telethon clients, one for each start (a bound)
  NoAttempt,
  CodeLength, \* CODE_LENGTH
  MaxRestarts

ASSUME ChatAssumption ==
  /\ NoAttempt \notin Attempts
  /\ CodeLength \in Nat \ {0}
  /\ MaxRestarts \in Nat

VARIABLES
  registry,  \* login_manager._states of the owner
  client,    \* each client: "new" until connect(), then "open", "closed"
  code,      \* the digits of each attempt's _LoginState
  fsm,       \* the conversation: ConnectStates, "none", or another dialogue's
  handlers,
  signed,    \* Telegram: clients that are signed in
  saved,     \* clients whose session save_session has committed
  lost,      \* history: sign-ins whose get_me or save failed, or cut by a restart
  overlap,   \* history: "none", "taps", or a "start" among other handlers
  restarts

vars == <<registry, client, code, fsm, handlers, signed, saved, lost, overlap,
          restarts>>

-----------------------------------------------------------------------------

Idle == [job |-> "none", at |-> "idle", a |-> NoAttempt, reply |-> "none"]

HandlerStates ==
  [job : {"none", "start", "submit", "resend", "password"},
   at : {"idle", "cancel", "connect", "ask", "answered", "begun", "get_me",
         "pop", "save", "clear"},
   a : Attempts \cup {NoAttempt},
   reply : {"none", "ok", "password", "refused", "error"}]

\* Values are of their types; no more digits are held than a code has.
TypeOK ==
  /\ registry \in Attempts \cup {NoAttempt}
  /\ client \in [Attempts -> {"new", "open", "closed"}]
  /\ code \in [Attempts -> 0..CodeLength]
  /\ fsm \in {"none", "phone", "code", "password", "other"}
  /\ handlers \in [Handlers -> HandlerStates]
  /\ signed \subseteq Attempts /\ saved \subseteq signed /\ lost \subseteq signed
  /\ overlap \in {"none", "taps", "start"}
  /\ restarts \in 0..MaxRestarts

Init ==
  /\ registry = NoAttempt
  /\ client = [a \in Attempts |-> "new"]
  /\ code = [a \in Attempts |-> 0]
  /\ fsm = "none"
  /\ handlers = [h \in Handlers |-> Idle]
  /\ signed = {} /\ saved = {} /\ lost = {}
  /\ overlap = "none"
  /\ restarts = 0

At(h, at) == handlers[h].at = at
Does(h, job, at) == handlers[h].job = job /\ handlers[h].at = at
Goes(h, at) == handlers' = [handlers EXCEPT ![h].at = at]
Answered(h, r) == handlers' = [handlers EXCEPT ![h].at = "answered", ![h].reply = r]
End(h) == handlers' = [handlers EXCEPT ![h] = Idle]

Busy == {h \in Handlers : handlers[h] # Idle}

Begin(h, job, at, a) ==
  /\ handlers[h] = Idle
  /\ handlers' = [handlers EXCEPT ![h] = [Idle EXCEPT !.job = job, !.at = at, !.a = a]]
  /\ overlap' = IF Busy = {} THEN overlap
                ELSE IF job = "start" \/ \E i \in Busy : handlers[i].job = "start"
                       THEN "start"
                ELSE IF overlap = "none" THEN "taps" ELSE overlap

\* cancel: whatever attempt is registered is dropped and disconnected.
Cancel ==
  /\ registry' = NoAttempt
  /\ client' = IF registry = NoAttempt THEN client
               ELSE [client EXCEPT ![registry] = "closed"]

-----------------------------------------------------------------------------
(* /connect: the phone, and LoginManager.start. *)

\* No phone on file: the bot asks for it.
AskPhone ==
  /\ fsm' = "phone"
  /\ UNCHANGED <<registry, client, code, handlers, signed, saved, lost, overlap,
                 restarts>>

\* /connect with a phone on file, or the contact.
BeginLogin(h) ==
  /\ Begin(h, "start", "cancel", NoAttempt)
  /\ UNCHANGED <<registry, client, code, fsm, signed, saved, lost, restarts>>

StartCancel(h) ==
  /\ Does(h, "start", "cancel")
  /\ Cancel
  /\ Goes(h, "connect")
  /\ UNCHANGED <<code, fsm, signed, saved, lost, overlap, restarts>>

\* Clients are interchangeable: the next one is any new one.
NewClient == CHOOSE a \in Attempts : client[a] = "new"

StartConnect(h) ==
  /\ Does(h, "start", "connect")
  /\ \E a \in Attempts : client[a] = "new"
  /\ \/ /\ client' = [client EXCEPT ![NewClient] = "open"]
        /\ handlers' = [handlers EXCEPT ![h].at = "ask", ![h].a = NewClient]
     \/ /\ client' = [client EXCEPT ![NewClient] = "closed"]
        /\ Goes(h, "clear")
  /\ UNCHANGED <<registry, code, fsm, signed, saved, lost, overlap, restarts>>

\* Mutant: the client of a failed code request stays connected.
StartCodeLeaks(h) ==
  /\ Does(h, "start", "ask")
  /\ \/ registry' = handlers[h].a /\ Goes(h, "begun")
     \/ UNCHANGED registry /\ Goes(h, "clear")
  /\ UNCHANGED <<client, code, fsm, signed, saved, lost, overlap, restarts>>

\* send_code_request: the attempt is registered, over whatever is there by
\* now; or it fails, and its client is disconnected.
StartCode(h) ==
  /\ Does(h, "start", "ask")
  /\ \/ registry' = handlers[h].a /\ Goes(h, "begun") /\ UNCHANGED client
     \/ /\ client' = [client EXCEPT ![handlers[h].a] = "closed"]
        /\ Goes(h, "clear")
        /\ UNCHANGED registry
  /\ UNCHANGED <<code, fsm, signed, saved, lost, overlap, restarts>>

\* _begin_login shows the keypad.
StartDone(h) ==
  /\ At(h, "begun")
  /\ fsm' = "code"
  /\ End(h)
  /\ UNCHANGED <<registry, client, code, signed, saved, lost, overlap, restarts>>

\* Mutant: the conversation is left as it is.
ClearNothing(h) ==
  /\ At(h, "clear")
  /\ End(h)
  /\ UNCHANGED <<registry, client, code, fsm, signed, saved, lost, overlap, restarts>>

\* state.clear(), after an error or at the end of a login.
Clear(h) ==
  /\ At(h, "clear")
  /\ fsm' = "none"
  /\ End(h)
  /\ UNCHANGED <<registry, client, code, signed, saved, lost, overlap, restarts>>

\* Another dialogue of the bot (settings) takes over the conversation.
OtherDialogue ==
  /\ fsm' = "other"
  /\ UNCHANGED <<registry, client, code, handlers, signed, saved, lost, overlap,
                 restarts>>

-----------------------------------------------------------------------------
(* The keypad. *)

Keypad == fsm = "code" /\ registry # NoAttempt

\* A button without a login, or a password without one: the conversation ends.
Stale ==
  /\ fsm \in {"code", "password"} /\ registry = NoAttempt
  /\ fsm' = "none"
  /\ UNCHANGED <<registry, client, code, handlers, signed, saved, lost, overlap,
                 restarts>>

\* Mutant: the length is not looked at.
PushAnyDigit ==
  /\ Keypad
  /\ code' = [code EXCEPT ![registry] = @ + 1]
  /\ UNCHANGED <<registry, client, fsm, handlers, signed, saved, lost, overlap, restarts>>

PushDigit ==
  /\ Keypad
  /\ code[registry] < CodeLength
  /\ code' = [code EXCEPT ![registry] = @ + 1]
  /\ UNCHANGED <<registry, client, fsm, handlers, signed, saved, lost, overlap, restarts>>

Backspace ==
  /\ Keypad
  /\ code[registry] > 0
  /\ code' = [code EXCEPT ![registry] = @ - 1]
  /\ UNCHANGED <<registry, client, fsm, handlers, signed, saved, lost, overlap, restarts>>

Submit(h) ==
  /\ Keypad
  /\ code[registry] = CodeLength
  /\ Begin(h, "submit", "ask", registry)
  /\ UNCHANGED <<registry, client, code, fsm, signed, saved, lost, restarts>>

Resend(h) ==
  /\ Keypad
  /\ Begin(h, "resend", "ask", registry)
  /\ UNCHANGED <<registry, client, code, fsm, signed, saved, lost, restarts>>

\* resend_code: a new hash, and no digits; or nothing.
Resent(h) ==
  /\ Does(h, "resend", "ask")
  /\ \/ UNCHANGED code
     \/ /\ client[handlers[h].a] = "open"
        /\ code' = [code EXCEPT ![handlers[h].a] = 0]
  /\ End(h)
  /\ UNCHANGED <<registry, client, fsm, signed, saved, lost, overlap, restarts>>

Password(h) ==
  /\ fsm = "password" /\ registry # NoAttempt
  /\ Begin(h, "password", "ask", registry)
  /\ UNCHANGED <<registry, client, code, fsm, signed, saved, lost, restarts>>

-----------------------------------------------------------------------------
(* submit_code, submit_password and _finish. *)

\* Telegram: a code signs in once; a disconnected client's request fails.
SignIn(h) ==
  /\ At(h, "ask") /\ handlers[h].job \in {"submit", "password"}
  /\ LET a == handlers[h].a IN
     \/ /\ client[a] = "open" /\ a \notin signed
        /\ Answered(h, "ok")
        /\ signed' = signed \cup {a}
     \/ /\ client[a] = "open" /\ a \notin signed /\ handlers[h].job = "submit"
        /\ Answered(h, "password")
        /\ UNCHANGED signed
     \/ client[a] = "open" /\ Answered(h, "refused") /\ UNCHANGED signed
     \/ Answered(h, "error") /\ UNCHANGED signed
  /\ UNCHANGED <<registry, client, code, fsm, saved, lost, overlap, restarts>>

Got(h, r) == At(h, "answered") /\ handlers[h].reply = r

PasswordNeeded(h) ==
  /\ Got(h, "password")
  /\ fsm' = "password"
  /\ End(h)
  /\ UNCHANGED <<registry, client, code, signed, saved, lost, overlap, restarts>>

\* InvalidCode clears the digits; WrongPassword leaves the owner to try again.
Refused(h) ==
  /\ Got(h, "refused")
  /\ code' = IF handlers[h].job = "submit" THEN [code EXCEPT ![handlers[h].a] = 0]
             ELSE code
  /\ End(h)
  /\ UNCHANGED <<registry, client, fsm, signed, saved, lost, overlap, restarts>>

\* Any other error cancels the registered attempt.
Fails(h) ==
  /\ Got(h, "error")
  /\ Cancel
  /\ Goes(h, "clear")
  /\ UNCHANGED <<code, fsm, signed, saved, lost, overlap, restarts>>

SignedIn(h) ==
  /\ Got(h, "ok")
  /\ Goes(h, "get_me")
  /\ UNCHANGED <<registry, client, code, fsm, signed, saved, lost, overlap, restarts>>

\* _finish: get_me, and the client is disconnected.
GetMe(h) ==
  /\ At(h, "get_me")
  /\ client[handlers[h].a] = "open"
  /\ client' = [client EXCEPT ![handlers[h].a] = "closed"]
  /\ Goes(h, "pop")
  /\ UNCHANGED <<registry, code, fsm, signed, saved, lost, overlap, restarts>>

\* get_me fails: no handler catches it.
GetMeFails(h) ==
  /\ At(h, "get_me")
  /\ lost' = IF client[handlers[h].a] = "open" THEN lost \cup {handlers[h].a} ELSE lost
  /\ End(h)
  /\ UNCHANGED <<registry, client, code, fsm, signed, saved, overlap, restarts>>

\* Mutant: disconnected, the attempt stays registered.
PopNothing(h) ==
  /\ At(h, "pop")
  /\ Goes(h, "save")
  /\ UNCHANGED <<registry, client, code, fsm, signed, saved, lost, overlap, restarts>>

\* ... and whatever is registered by now is popped.
Pop(h) ==
  /\ At(h, "pop")
  /\ registry' = NoAttempt
  /\ Goes(h, "save")
  /\ UNCHANGED <<client, code, fsm, signed, saved, lost, overlap, restarts>>

\* Mutant: a failed save is not noticed.
SaveUnnoticed(h) ==
  /\ At(h, "save")
  /\ saved' \in {saved, saved \cup {handlers[h].a}}
  /\ Goes(h, "clear")
  /\ UNCHANGED <<registry, client, code, fsm, signed, lost, overlap, restarts>>

\* _persist_and_finish.
Save(h) ==
  /\ At(h, "save")
  /\ \/ saved' = saved \cup {handlers[h].a} /\ UNCHANGED lost
     \/ lost' = lost \cup {handlers[h].a} /\ UNCHANGED saved
  /\ Goes(h, "clear")
  /\ UNCHANGED <<registry, client, code, fsm, signed, overlap, restarts>>

\* The process restarts: clients, registry and conversation are gone.
Restart ==
  /\ restarts < MaxRestarts
  /\ restarts' = restarts + 1
  /\ registry' = NoAttempt
  /\ client' = [a \in Attempts |-> IF client[a] = "open" THEN "closed" ELSE client[a]]
  /\ handlers' = [h \in Handlers |-> Idle]
  /\ fsm' = "none"
  /\ lost' = lost \cup (signed \ saved)
  /\ UNCHANGED <<code, signed, saved, overlap>>

-----------------------------------------------------------------------------

HandlerNext(h) ==
  \/ BeginLogin(h) \/ StartCancel(h) \/ StartConnect(h) \/ StartCode(h)
  \/ StartDone(h) \/ Clear(h)
  \/ Submit(h) \/ Resend(h) \/ Resent(h) \/ Password(h)
  \/ SignIn(h) \/ PasswordNeeded(h) \/ Refused(h) \/ Fails(h) \/ SignedIn(h)
  \/ GetMe(h) \/ GetMeFails(h) \/ Pop(h) \/ Save(h)

Next ==
  \/ AskPhone \/ OtherDialogue \/ Stale \/ PushDigit \/ Backspace \/ Restart
  \/ \E h \in Handlers : HandlerNext(h)

Spec == Init /\ [][Next]_vars

-----------------------------------------------------------------------------
(* Properties. *)

\* The registered client can be used, but for the moment between the
\* disconnect and the pop of the handler that finishes its login: no race of
\* starts, taps and cancellations leaves a dead client behind the keypad.
RegisteredIsUsable ==
  registry # NoAttempt =>
    \/ client[registry] = "open"
    \/ \E h \in Handlers : handlers[h].at = "pop" /\ handlers[h].a = registry

\* Between handlers no client is connected but the registered one, after every
\* failure and however taps overlap, unless a /connect ran among other
\* handlers.
ClientsAreOwned ==
  Busy = {} /\ overlap # "start" =>
    \A a \in Attempts : client[a] = "open" => a = registry

\* Owners who wait for answers are never asked for a code or a password that
\* no login is there to take.
ScreenMatchesLogin ==
  Busy = {} /\ overlap = "none" /\ fsm \in {"code", "password"}
    => registry # NoAttempt

\* For those owners a sign-in that Telegram accepted is saved, unless get_me
\* or the save failed or the process stopped: it is not left on the account
\* as a login nobody holds.
SignedInIsSaved ==
  Busy = {} /\ overlap = "none" => signed = saved \cup lost

=============================================================================
