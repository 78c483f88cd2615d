---------------------------- MODULE UsageLimits ----------------------------
(***************************************************************************)
(* The two metered userbot commands of one owner: `.check`, so many per    *)
(* calendar month, and `.send`, with a cooldown between batches            *)
(* (userbot/handlers/commands.py over db/queries.py).                      *)
(*                                                                         *)
(* The owner types commands in several chats and from several linked       *)
(* accounts; Telethon runs every handler as a task of its own, so they     *)
(* interleave at each await.  Each command is a SELECT, a decision in      *)
(* Python, and a flush and commit that writes absolute values: the code    *)
(* takes no row lock.  Behaviours with `serial` are those of the idealised *)
(* database that runs these transactions one after another: quota and      *)
(* cooldown are about them, the bound on the stored counter about all.     *)
(***************************************************************************)
EXTENDS Naturals

CONSTANTS
  Commands,    \* command handlers running at the same time (a bound)
  Tariffs, NoTariff,
  Quota,       \* check_quota of every tariff
  SendTariffs, \* the tariffs with has_send
  Cooldown,    \* send_cooldown_seconds of every tariff
  MaxCount,    \* send_max_count of every tariff
  MonthLength, \* of every month of the modelled calendar
  MaxTime,     \* bound on the clock
  MaxFailures, \* bound on handlers that die
  MaxChanges   \* bound on changes of the subscription

ASSUME ConstantsAssumption ==
  /\ NoTariff \notin Tariffs
  /\ Quota \in [Tariffs -> Nat]
  /\ Cooldown \in [Tariffs -> Nat]
  /\ MaxCount \in [Tariffs -> Nat]
  /\ SendTariffs \subseteq Tariffs
  /\ MonthLength \in Nat \ {0}
  /\ {MaxTime, MaxFailures, MaxChanges} \subseteq Nat

VARIABLES
  now,
  sub,       \* tariff of the owner's active subscription
  usage,     \* the check_usage row
  settings,  \* the user_settings row: whether it exists, and last_send_at
  cmds,
  spent,     \* history: .check uses granted per month
  serial,    \* TRUE: read-modify-write transactions do not interleave
  failures, changes

vars == <<now, sub, usage, settings, cmds, spent, serial, failures, changes>>

-----------------------------------------------------------------------------

Month(time) == time \div MonthLength

NoUsage    == [row |-> FALSE, period |-> 0, used |-> 0]
NoSettings == [row |-> FALSE, sent |-> FALSE, at |-> 0]
IdleCmd    == [pc |-> "idle", tariff |-> NoTariff, at |-> 0,
               seen |-> NoUsage, left |-> 0]

Init ==
  /\ now = 0
  /\ sub \in Tariffs \cup {NoTariff}
  /\ usage = NoUsage
  /\ settings = NoSettings
  /\ cmds = [c \in Commands |-> IdleCmd]
  /\ spent = [m \in 0..Month(MaxTime) |-> 0]
  /\ serial \in BOOLEAN
  /\ failures = 0 /\ changes = 0

MayOpenTx ==
  serial => \A c \in Commands : cmds[c].pc \notin {"counting", "marking"}

End(c) == cmds' = [cmds EXCEPT ![c] = IdleCmd]

Tick ==
  /\ now < MaxTime
  /\ now' = now + 1
  /\ UNCHANGED <<serial, sub, usage, settings, cmds, spent, failures, changes>>

\* A purchase, an upgrade or the end of the subscription, in another process.
SubscriptionChanges ==
  /\ changes < MaxChanges
  /\ changes' = changes + 1
  /\ \E t \in (Tariffs \cup {NoTariff}) \ {sub} : sub' = t
  /\ UNCHANGED <<serial, now, usage, settings, cmds, spent, failures>>

\* A settings screen of the bot creates the owner's row (get_or_create_settings).
SettingsOpened ==
  /\ ~settings.row
  /\ settings' = [settings EXCEPT !.row = TRUE]
  /\ UNCHANGED <<serial, now, sub, usage, cmds, spent, failures, changes>>

\* check_command: the tariff is read once; the handler keeps it to its end.
Gate(c, command) ==
  /\ cmds[c].pc = "idle"
  /\ sub # NoTariff
  /\ command = "send" => sub \in SendTariffs
  /\ cmds' = [cmds EXCEPT ![c] = [@ EXCEPT !.pc = command, !.tariff = sub]]
  /\ UNCHANGED <<serial, now, sub, usage, settings, spent, failures, changes>>

-----------------------------------------------------------------------------
(* .check: consume_check. *)

\* The SELECT, and `today`.
CheckRead(c) ==
  /\ cmds[c].pc = "check"
  /\ MayOpenTx
  /\ cmds' = [cmds EXCEPT
                ![c] = [@ EXCEPT !.pc = "counting", !.at = now, !.seen = usage]]
  /\ UNCHANGED <<serial, now, sub, usage, settings, spent, failures, changes>>

\* The row is missing, or of an earlier month.
Rolls(c) == ~cmds[c].seen.row \/ cmds[c].seen.period < Month(cmds[c].at)

Used(c) == IF Rolls(c) THEN 0 ELSE cmds[c].seen.used

\* Mutant: one more than the quota.
AllowedUpToQuota(c) == Used(c) <= Quota[cmds[c].tariff]

Allowed(c) == Used(c) < Quota[cmds[c].tariff]

\* Mutant: the counter is reset but the period stays.
CountedInOldPeriod(c) ==
  [row    |-> TRUE,
   period |-> usage.period,
   used   |-> IF Allowed(c) THEN Used(c) + 1
              ELSE IF Rolls(c) /\ cmds[c].seen.used # 0 THEN 0 ELSE usage.used]

\* The row after the flush: only columns whose value changed are written,
\* and `used` is written as the number computed in Python.
Counted(c) ==
  [row    |-> TRUE,
   period |-> IF Rolls(c) THEN Month(cmds[c].at) ELSE usage.period,
   used   |-> IF Allowed(c) THEN Used(c) + 1
              ELSE IF Rolls(c) /\ cmds[c].seen.used # 0 THEN 0 ELSE usage.used]

\* Reset or insert, increment when allowed, and the commit of _do_check.
CheckCommit(c) ==
  /\ cmds[c].pc = "counting"
  /\ cmds[c].seen.row \/ ~usage.row
  /\ usage' = Counted(c)
  /\ spent' = [spent EXCEPT ![Month(cmds[c].at)] = IF Allowed(c) THEN @ + 1 ELSE @]
  /\ End(c)
  /\ UNCHANGED <<serial, now, sub, settings, failures, changes>>

\* Two first checks: the second INSERT meets the primary key and the
\* handler dies.
CheckCollides(c) ==
  /\ cmds[c].pc = "counting"
  /\ ~cmds[c].seen.row /\ usage.row
  /\ End(c)
  /\ UNCHANGED <<serial, now, sub, usage, settings, spent, failures, changes>>

-----------------------------------------------------------------------------
(* .send *)

\* Mutant: the cooldown is over one instant early.
CooledDownEarly(c) ==
  ~settings.sent \/ now + 1 - settings.at >= Cooldown[cmds[c].tariff]

CooledDown(c) == ~settings.sent \/ now - settings.at >= Cooldown[cmds[c].tariff]

\* peek_send_cooldown: a refusal rolls back; otherwise mark_send_used follows
\* in the same transaction.  seen.row remembers whether the row was there.
SendRead(c) ==
  /\ cmds[c].pc = "send"
  /\ MayOpenTx
  /\ cmds' = [cmds EXCEPT
                ![c] = IF CooledDown(c)
                         THEN [@ EXCEPT !.pc = "marking",
                                        !.seen.row = settings.row]
                         ELSE IdleCmd]
  /\ UNCHANGED <<serial, now, sub, usage, settings, spent, failures, changes>>

\* last_send_at is stored before the first copy is sent.
MarkCommit(c) ==
  /\ cmds[c].pc = "marking"
  /\ cmds[c].seen.row \/ ~settings.row
  /\ settings' = [row |-> TRUE, sent |-> TRUE, at |-> now]
  /\ \E n \in 1..MaxCount[cmds[c].tariff] :
       cmds' = [cmds EXCEPT ![c] = [@ EXCEPT !.pc = "sending", !.left = n]]
  /\ UNCHANGED <<serial, now, sub, usage, spent, failures, changes>>

\* The row was created meanwhile: the INSERT fails and nothing is sent.
MarkCollides(c) ==
  /\ cmds[c].pc = "marking"
  /\ ~cmds[c].seen.row /\ settings.row
  /\ End(c)
  /\ UNCHANGED <<serial, now, sub, usage, settings, spent, failures, changes>>

SendCopy(c) ==
  /\ cmds[c].pc = "sending"
  /\ IF cmds[c].left = 1 THEN End(c)
     ELSE cmds' = [cmds EXCEPT ![c].left = @ - 1]
  /\ UNCHANGED <<serial, now, sub, usage, settings, spent, failures, changes>>

\* Any other error, a flood wait during the batch, or the end of the process:
\* the handler is gone; what it committed stays.
Dies(c) ==
  /\ cmds[c].pc # "idle"
  /\ failures < MaxFailures
  /\ failures' = failures + 1
  /\ End(c)
  /\ UNCHANGED <<serial, now, sub, usage, settings, spent, changes>>

-----------------------------------------------------------------------------

Next ==
  \/ Tick \/ SubscriptionChanges \/ SettingsOpened
  \/ \E c \in Commands :
       \/ \E command \in {"check", "send"} : Gate(c, command)
       \/ CheckRead(c) \/ CheckCommit(c) \/ CheckCollides(c)
       \/ SendRead(c) \/ MarkCommit(c) \/ MarkCollides(c) \/ SendCopy(c)
       \/ Dies(c)

Spec == Init /\ [][Next]_vars

-----------------------------------------------------------------------------
(* Properties. *)

\* A .check is granted only while fewer than the quota were granted in that
\* month ("`.check` uses per calendar month", shared/tariffs.py).
CheckWithinQuota ==
  [][\A c \in Commands, m \in DOMAIN spent :
       /\ cmds[c].pc = "counting" /\ cmds'[c].pc = "idle"
       /\ spent'[m] > spent[m]
       /\ serial
       => spent[m] < Quota[cmds[c].tariff]]_vars

\* The counter is what was granted in the month it is for: no grant is
\* forgotten, none is carried over when the month rolls.  Overlapping commands
\* break that, but never write a count above every quota.
CounterIsTrue ==
  /\ serial /\ usage.row => usage.used = spent[usage.period]
  /\ usage.used > 0 => \E t \in Tariffs : usage.used <= Quota[t]

\* Two batches begin at least the cooldown apart ("min gap between .send
\* runs", shared/tariffs.py), whichever accounts and tariffs they are from.
CooldownHolds ==
  [][\A c \in Commands :
       cmds[c].pc = "marking" /\ cmds'[c].pc = "sending" /\ settings.sent /\ serial
         => now - settings.at >= Cooldown[cmds[c].tariff]]_vars

=============================================================================
