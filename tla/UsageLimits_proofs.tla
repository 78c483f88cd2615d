------------------------- MODULE UsageLimits_proofs -------------------------
(***************************************************************************)
(* Proofs about UsageLimits for any number of commands, any tariffs with   *)
(* any quotas and cooldowns, months of any length, and any number of       *)
(* failures and changes of tariff.                                         *)
(***************************************************************************)
EXTENDS UsageLimits, Integers, TLAPS

-----------------------------------------------------------------------------
(* The inductive invariant. *)

\* Values are of their types; commands have a tariff and read in the past.
UsageRows == [row : BOOLEAN, period : Nat, used : Nat]

CommandStates ==
  [pc : {"idle", "check", "counting", "send", "marking", "sending"},
   tariff : Tariffs \cup {NoTariff}, at : Nat, seen : UsageRows, left : Nat]

RowsTyped ==
  /\ now \in 0..MaxTime
  /\ sub \in Tariffs \cup {NoTariff}
  /\ usage \in UsageRows
  /\ settings \in [row : BOOLEAN, sent : BOOLEAN, at : Nat]
  /\ spent \in [0..Month(MaxTime) -> Nat]
  /\ serial \in BOOLEAN

CmdsTyped == cmds \in [Commands -> CommandStates]

InProgress ==
  \A c \in Commands :
    /\ cmds[c].pc # "idle" => cmds[c].tariff \in Tariffs
    /\ cmds[c].pc = "sending" => cmds[c].left > 0
    /\ cmds[c].at <= now

Typed == RowsTyped /\ CmdsTyped /\ InProgress

\* No count above every quota, in the row or in a handler that has read it.
Bounded ==
  usage.used > 0 => \E t \in Tariffs : usage.used <= Quota[t]

\* With `serial`, one transaction is open at a time.
OneTx ==
  serial => \A c, d \in Commands :
    /\ cmds[c].pc \in {"counting", "marking"}
    /\ cmds[d].pc \in {"counting", "marking"}
    => c = d

\* No two .check commands are between consume_check's SELECT and the commit,
\* no two .send commands between peek_send_cooldown's and the mark's: what a
\* row lock in either SELECT would give, a .check and a .send overlapping
\* freely.
ChecksApart ==
  \A c, d \in Commands :
    cmds[c].pc = "counting" /\ cmds[d].pc = "counting" => c = d
MarksApart ==
  \A c, d \in Commands :
    cmds[c].pc = "marking" /\ cmds[d].pc = "marking" => c = d

\* While checks are apart, what a .check has read still is what the row holds,
ReadHolds ==
  \A c \in Commands : cmds[c].pc = "counting" =>
    cmds[c].seen = usage /\ (usage.row => usage.period <= Month(cmds[c].at))

\* the counter is the present month's or an earlier one's, it is what was
\* granted in its month, and nothing was granted in a later month.
Tally ==
  /\ usage.row => /\ usage.period <= Month(now)
                  /\ usage.used = spent[usage.period]
  /\ \A m \in 0..Month(MaxTime) : ~usage.row \/ m > usage.period => spent[m] = 0

\* While marks are apart, so does what a .send has found of the cooldown.
CooldownOver ==
  /\ settings.sent => settings.at <= now
  /\ \A c \in Commands : cmds[c].pc = "marking" /\ settings.sent =>
       now - settings.at >= Cooldown[cmds[c].tariff]

IInv == Typed /\ Bounded /\ OneTx
CheckInv == ReadHolds /\ Tally

\* The counter is exact, and a grant is below its quota.
CounterIsExact == usage.row => usage.used = spent[usage.period]

GrantsWithinQuota ==
  [][\A c \in Commands, m \in DOMAIN spent :
       /\ cmds[c].pc = "counting" /\ cmds'[c].pc = "idle"
       /\ spent'[m] > spent[m]
       => spent[m] < Quota[cmds[c].tariff]]_vars

\* A batch begins when the cooldown since the last one is over.
BatchesAreSpaced ==
  [][\A c \in Commands :
       cmds[c].pc = "marking" /\ cmds'[c].pc = "sending" /\ settings.sent
         => now - settings.at >= Cooldown[cmds[c].tariff]]_vars

-----------------------------------------------------------------------------
(* The calendar. *)

\* Months are numbers, and later instants are not in earlier months.
LEMMA Months ==
  ASSUME ConstantsAssumption, NEW i \in Nat, NEW j \in Nat, i <= j
  PROVE  Month(i) \in Nat /\ Month(j) \in Nat /\ Month(i) <= Month(j)
<1>1. MonthLength \in Nat \ {0}
  BY DEF ConstantsAssumption
<1>2. ASSUME NEW L \in Nat \ {0}
      PROVE  i \div L \in Nat /\ j \div L \in Nat /\ i \div L <= j \div L
  BY <1>2, Z3
<1> QED BY <1>1, <1>2 DEF Month

\* The month of a command's reading is one of the modelled calendar, and not
\* later than the present month.
LEMMA MonthOfReading ==
  ASSUME ConstantsAssumption, Typed, NEW c \in Commands
  PROVE  /\ Month(cmds[c].at) \in 0..Month(MaxTime)
         /\ Month(now) \in 0..Month(MaxTime)
         /\ Month(cmds[c].at) <= Month(now)
<1>1. cmds[c].at \in Nat /\ now \in Nat /\ MaxTime \in Nat
      /\ cmds[c].at <= now /\ now <= MaxTime
  BY DEF Typed, RowsTyped, CmdsTyped, InProgress, CommandStates, ConstantsAssumption
<1>2. Month(cmds[c].at) <= Month(now) /\ Month(now) <= Month(MaxTime)
  BY <1>1, Months
<1>3. Month(cmds[c].at) \in Nat /\ Month(now) \in Nat /\ Month(MaxTime) \in Nat
  BY <1>1, Months
<1> QED BY <1>2, <1>3

\* Command records with some fields replaced.
LEMMA Fields ==
  ASSUME NEW x \in CommandStates
  PROVE  /\ \A p \in {"check", "send"}, t \in Tariffs :
              [x EXCEPT !.pc = p, !.tariff = t] \in CommandStates
         /\ \A i \in Nat, u \in UsageRows :
              [x EXCEPT !.pc = "counting", !.at = i, !.seen = u] \in CommandStates
         /\ \A b \in BOOLEAN :
              [x EXCEPT !.pc = "marking", !.seen.row = b] \in CommandStates
         /\ \A n \in Nat : [x EXCEPT !.pc = "sending", !.left = n] \in CommandStates
         /\ \A n \in Nat : [x EXCEPT !.left = n] \in CommandStates
<1>1. \A p \in {"check", "send"}, t \in Tariffs :
              [x EXCEPT !.pc = p, !.tariff = t] \in CommandStates
  BY DEF CommandStates
<1>2. \A i \in Nat, u \in UsageRows :
              [x EXCEPT !.pc = "counting", !.at = i, !.seen = u] \in CommandStates
  BY DEF CommandStates
<1>3. \A b \in BOOLEAN :
              [x EXCEPT !.pc = "marking", !.seen.row = b] \in CommandStates
  BY DEF CommandStates, UsageRows
<1>4. \A n \in Nat : [x EXCEPT !.pc = "sending", !.left = n] \in CommandStates
  BY DEF CommandStates
<1>5. \A n \in Nat : [x EXCEPT !.left = n] \in CommandStates
  BY DEF CommandStates
<1> QED BY <1>1, <1>2, <1>3, <1>4, <1>5

\* A command's record is replaced by one of its type.
LEMMA Updated ==
  ASSUME Typed, NEW c \in Commands,
         NEW x \in CommandStates, cmds' = [cmds EXCEPT ![c] = x]
  PROVE  CmdsTyped'
BY DEF Typed, CmdsTyped

\* An idle command has its type.
LEMMA IdleTyped == IdleCmd \in CommandStates
BY DEF IdleCmd, NoUsage, CommandStates, UsageRows

\* A copy is sent: the command goes on with the next one, or ends.
LEMMA Copied ==
  ASSUME Typed, NEW c \in Commands, SendCopy(c)
  PROVE  /\ CmdsTyped' /\ InProgress'
         /\ cmds'[c].pc \in {"idle", "sending"}
         /\ \A d \in Commands \ {c} : cmds'[d] = cmds[d]
         /\ UNCHANGED <<serial, now, sub, usage, settings, spent>>
<1> DEFINE next == [cmds[c] EXCEPT !.left = cmds[c].left - 1]
<1>1. cmds[c] \in CommandStates /\ cmds[c].pc = "sending" /\ cmds[c].left > 0
  BY DEF Typed, CmdsTyped, InProgress, SendCopy
<1>2. cmds[c].left \in Nat
  BY <1>1 DEF CommandStates
<1>3. CASE cmds[c].left = 1
  <2>1. cmds' = [cmds EXCEPT ![c] = IdleCmd]
    BY <1>3 DEF SendCopy, End
  <2>2. CmdsTyped'
    BY <2>1, IdleTyped, Updated
  <2>3. cmds'[c] = IdleCmd /\ \A d \in Commands \ {c} : cmds'[d] = cmds[d]
    BY <2>1 DEF Typed, CmdsTyped
  <2>4. now \in Nat
    BY DEF Typed, RowsTyped
  <2> QED BY <2>2, <2>3, <2>4 DEF Typed, InProgress, SendCopy, IdleCmd
<1>4. CASE cmds[c].left # 1
  <2>1. cmds' = [cmds EXCEPT ![c] = next]
    BY <1>4 DEF SendCopy
  <2>2. cmds[c].left - 1 \in Nat /\ cmds[c].left - 1 > 0
    BY <1>1, <1>2, <1>4
  <2>3. next \in CommandStates
    BY <1>1, <2>2, Fields
  <2>4. CmdsTyped'
    <3> HIDE DEF next
    <3> QED BY <2>1, <2>3, Updated
  <2>5. cmds'[c] = next /\ \A d \in Commands \ {c} : cmds'[d] = cmds[d]
    BY <2>1 DEF Typed, CmdsTyped
  <2>6. /\ next.pc = "sending" /\ next.tariff = cmds[c].tariff
        /\ next.at = cmds[c].at /\ next.left > 0
    BY <1>1, <2>2 DEF CommandStates
  <2> QED
    <3> HIDE DEF next
    <3> QED BY <1>1, <2>4, <2>5, <2>6 DEF Typed, InProgress, SendCopy
<1> QED BY <1>3, <1>4

-----------------------------------------------------------------------------
(* Every step keeps the invariant. *)

\* Types.
LEMMA TypedStep ==
  ASSUME ConstantsAssumption, Typed, [Next]_vars
  PROVE  Typed'
<1> USE DEF Typed, RowsTyped, CmdsTyped, InProgress, UsageRows, CommandStates,
            ConstantsAssumption
<1>1. CASE UNCHANGED vars
  BY <1>1 DEF vars
<1>2. CASE Tick
  BY <1>2 DEF Tick
<1>3. CASE SubscriptionChanges
  BY <1>3 DEF SubscriptionChanges
<1>4. CASE SettingsOpened
  BY <1>4 DEF SettingsOpened
<1>5. ASSUME NEW c \in Commands, CheckRead(c) PROVE Typed'
  <2>1. RowsTyped'
    BY <1>5, MonthOfReading DEF CheckRead, MayOpenTx
  <2>2. CmdsTyped'
    <3> HIDE DEF CommandStates, UsageRows
    <3>1. cmds[c] \in CommandStates /\ usage \in UsageRows /\ now \in Nat
      OBVIOUS
    <3>2. [cmds[c] EXCEPT !.pc = "counting", !.at = now,
                             !.seen = usage] \in CommandStates
      BY <1>5, <3>1, Fields DEF CheckRead
    <3>3. cmds' = [cmds EXCEPT ![c] = [cmds[c] EXCEPT !.pc = "counting", !.at = now,
                             !.seen = usage]]
      BY <1>5 DEF CheckRead
    <3> QED BY <3>2, <3>3, Updated
  <2>3. InProgress'
    BY <1>5 DEF CheckRead, MayOpenTx
  <2> QED BY <2>1, <2>2, <2>3
<1>6. ASSUME NEW c \in Commands, CheckCommit(c) PROVE Typed'
  <2>1. RowsTyped'
    <3>1. Month(cmds[c].at) \in 0..Month(MaxTime) /\ Month(cmds[c].at) \in Nat
      BY MonthOfReading
    <3>2. Quota[cmds[c].tariff] \in Nat /\ Used(c) \in Nat
      BY <1>6 DEF CheckCommit, Used
    <3>3. Counted(c) \in UsageRows
      BY <3>1, <3>2 DEF Counted
    <3>4. spent' \in [0..Month(MaxTime) -> Nat]
      BY <1>6, <3>1 DEF CheckCommit
    <3> QED BY <1>6, <3>3, <3>4 DEF CheckCommit
  <2>2. CmdsTyped'
    BY <1>6 DEF CheckCommit, End, Allowed, Counted, IdleCmd, Used, Rolls, NoUsage
  <2>3. InProgress'
    BY <1>6 DEF CheckCommit, End, Allowed, Counted, IdleCmd, Used, Rolls, NoUsage
  <2> QED BY <2>1, <2>2, <2>3
<1>7. ASSUME NEW c \in Commands, CheckCollides(c) PROVE Typed'
  BY <1>7 DEF CheckCollides, End, IdleCmd, NoUsage
<1>8. ASSUME NEW c \in Commands, SendRead(c) PROVE Typed'
  <2>1. RowsTyped'
    BY <1>8, MonthOfReading DEF SendRead, MayOpenTx, CooledDown, IdleCmd, NoUsage
  <2>2. CmdsTyped'
    <3> DEFINE next == [cmds[c] EXCEPT !.pc = "marking",
                                       !.seen.row = settings.row]
    <3> HIDE DEF CommandStates, UsageRows
    <3>1. cmds[c] \in CommandStates /\ settings.row \in BOOLEAN
      OBVIOUS
    <3>2. next \in CommandStates
      BY <3>1, Fields
    <3>3. cmds' = [cmds EXCEPT ![c] = IF CooledDown(c) THEN next ELSE IdleCmd]
      BY <1>8 DEF SendRead
    <3> HIDE DEF next
    <3> QED BY <3>2, <3>3, IdleTyped, Updated
  <2>3. InProgress'
    BY <1>8 DEF SendRead, MayOpenTx, CooledDown, IdleCmd, NoUsage
  <2> QED BY <2>1, <2>2, <2>3
<1>9. ASSUME NEW c \in Commands, MarkCommit(c) PROVE Typed'
  <2>1. RowsTyped'
    BY <1>9, MonthOfReading DEF MarkCommit
  <2>2. CmdsTyped'
    <3> HIDE DEF CommandStates, UsageRows
    <3>1. cmds[c] \in CommandStates /\ cmds[c].tariff \in Tariffs
      BY <1>9 DEF MarkCommit
    <3>2. PICK n \in 1..MaxCount[cmds[c].tariff] :
            cmds' = [cmds EXCEPT ![c] = [cmds[c] EXCEPT !.pc = "sending", !.left = n]]
      BY <1>9 DEF MarkCommit
    <3>3. n \in Nat
      BY <3>1
    <3>4. [cmds[c] EXCEPT !.pc = "sending", !.left = n] \in CommandStates
      BY <3>1, <3>3, Fields
    <3> QED BY <3>2, <3>4, Updated
  <2>3. InProgress'
    BY <1>9 DEF MarkCommit
  <2> QED BY <2>1, <2>2, <2>3
<1>10. ASSUME NEW c \in Commands, MarkCollides(c) PROVE Typed'
  BY <1>10 DEF MarkCollides, End, IdleCmd, NoUsage
<1>11. ASSUME NEW c \in Commands, SendCopy(c) PROVE Typed'
  <2>1. /\ CmdsTyped' /\ InProgress' /\ cmds'[c].pc \in {"idle", "sending"}
        /\ \A d \in Commands \ {c} : cmds'[d] = cmds[d]
        /\ UNCHANGED <<serial, now, sub, usage, settings, spent>>
    BY <1>11, Copied
  <2> QED BY <2>1
<1>12. ASSUME NEW c \in Commands, Dies(c) PROVE Typed'
  BY <1>12 DEF Dies, End, IdleCmd, NoUsage
<1>13. ASSUME NEW c \in Commands, NEW command \in {"check", "send"},
             Gate(c, command)
      PROVE  Typed'
  <2>1. RowsTyped'
    BY <1>13 DEF Gate
  <2>2. CmdsTyped'
    <3> HIDE DEF CommandStates, UsageRows
    <3>1. cmds[c] \in CommandStates /\ usage \in UsageRows /\ now \in Nat
      OBVIOUS
    <3>2. [cmds[c] EXCEPT !.pc = command, !.tariff = sub] \in CommandStates
      BY <1>13, <3>1, Fields DEF Gate
    <3>3. cmds' = [cmds EXCEPT ![c] = [cmds[c] EXCEPT !.pc = command, !.tariff = sub]]
      BY <1>13 DEF Gate
    <3> QED BY <3>2, <3>3, Updated
  <2>3. InProgress'
    BY <1>13 DEF Gate
  <2> QED BY <2>1, <2>2, <2>3
<1> QED
  <2> HIDE DEF Typed, RowsTyped, CmdsTyped, InProgress, UsageRows, CommandStates,
              ConstantsAssumption
  <2> QED BY <1>1, <1>2, <1>3, <1>4, <1>5, <1>6, <1>7, <1>8, <1>9, <1>10,
     <1>11, <1>12, <1>13 DEF Next

\* The stored counter.
LEMMA BoundedStep ==
  ASSUME ConstantsAssumption, Typed, Bounded, [Next]_vars
  PROVE  Bounded'
<1> USE DEF Typed, RowsTyped, CmdsTyped, InProgress, UsageRows, CommandStates,
            ConstantsAssumption, Bounded
<1>1. CASE UNCHANGED vars
  BY <1>1 DEF vars
<1>2. CASE Tick
  BY <1>2 DEF Tick
<1>3. CASE SubscriptionChanges
  BY <1>3 DEF SubscriptionChanges
<1>4. CASE SettingsOpened
  BY <1>4 DEF SettingsOpened
<1>5. ASSUME NEW c \in Commands, CheckRead(c) PROVE Bounded'
  BY <1>5, MonthOfReading DEF CheckRead, MayOpenTx
<1>6. ASSUME NEW c \in Commands, CheckCommit(c) PROVE Bounded'
  BY <1>6, MonthOfReading DEF CheckCommit, End, Allowed, Counted, IdleCmd,
     Used, Rolls, NoUsage
<1>7. ASSUME NEW c \in Commands, CheckCollides(c) PROVE Bounded'
  BY <1>7 DEF CheckCollides, End, IdleCmd, NoUsage
<1>8. ASSUME NEW c \in Commands, SendRead(c) PROVE Bounded'
  BY <1>8, MonthOfReading DEF SendRead, MayOpenTx, CooledDown, IdleCmd,
     NoUsage
<1>9. ASSUME NEW c \in Commands, MarkCommit(c) PROVE Bounded'
  BY <1>9, MonthOfReading DEF MarkCommit
<1>10. ASSUME NEW c \in Commands, MarkCollides(c) PROVE Bounded'
  BY <1>10 DEF MarkCollides, End, IdleCmd, NoUsage
<1>11. ASSUME NEW c \in Commands, SendCopy(c) PROVE Bounded'
  BY <1>11 DEF SendCopy, End, IdleCmd, NoUsage
<1>12. ASSUME NEW c \in Commands, Dies(c) PROVE Bounded'
  BY <1>12 DEF Dies, End, IdleCmd, NoUsage
<1>13. ASSUME NEW c \in Commands, NEW command \in {"check", "send"},
             Gate(c, command)
      PROVE  Bounded'
  BY <1>13 DEF Gate
<1> QED
  <2> HIDE DEF Typed, RowsTyped, CmdsTyped, InProgress, UsageRows, CommandStates,
              ConstantsAssumption, Bounded
  <2> QED BY <1>1, <1>2, <1>3, <1>4, <1>5, <1>6, <1>7, <1>8, <1>9, <1>10,
     <1>11, <1>12, <1>13 DEF Next

\* Transactions.
LEMMA OneTxStep ==
  ASSUME ConstantsAssumption, Typed, OneTx, [Next]_vars
  PROVE  OneTx'
<1> USE DEF Typed, RowsTyped, CmdsTyped, InProgress, UsageRows, CommandStates,
            ConstantsAssumption, OneTx
<1>1. CASE UNCHANGED vars
  BY <1>1 DEF vars
<1>2. CASE Tick
  BY <1>2 DEF Tick
<1>3. CASE SubscriptionChanges
  BY <1>3 DEF SubscriptionChanges
<1>4. CASE SettingsOpened
  BY <1>4 DEF SettingsOpened
<1>5. ASSUME NEW c \in Commands, CheckRead(c) PROVE OneTx'
  BY <1>5, MonthOfReading DEF CheckRead, MayOpenTx
<1>6. ASSUME NEW c \in Commands, CheckCommit(c) PROVE OneTx'
  BY <1>6, MonthOfReading DEF CheckCommit, End, Allowed, Counted, IdleCmd,
     Used, Rolls, NoUsage
<1>7. ASSUME NEW c \in Commands, CheckCollides(c) PROVE OneTx'
  BY <1>7 DEF CheckCollides, End, IdleCmd, NoUsage
<1>8. ASSUME NEW c \in Commands, SendRead(c) PROVE OneTx'
  BY <1>8, MonthOfReading DEF SendRead, MayOpenTx, CooledDown, IdleCmd,
     NoUsage
<1>9. ASSUME NEW c \in Commands, MarkCommit(c) PROVE OneTx'
  BY <1>9, MonthOfReading DEF MarkCommit
<1>10. ASSUME NEW c \in Commands, MarkCollides(c) PROVE OneTx'
  BY <1>10 DEF MarkCollides, End, IdleCmd, NoUsage
<1>11. ASSUME NEW c \in Commands, SendCopy(c) PROVE OneTx'
  <2>1. /\ CmdsTyped' /\ InProgress' /\ cmds'[c].pc \in {"idle", "sending"}
        /\ \A d \in Commands \ {c} : cmds'[d] = cmds[d]
        /\ UNCHANGED <<serial, now, sub, usage, settings, spent>>
    BY <1>11, Copied
  <2> QED BY <2>1
<1>12. ASSUME NEW c \in Commands, Dies(c) PROVE OneTx'
  BY <1>12 DEF Dies, End, IdleCmd, NoUsage
<1>13. ASSUME NEW c \in Commands, NEW command \in {"check", "send"},
             Gate(c, command)
      PROVE  OneTx'
  BY <1>13 DEF Gate
<1> QED
  <2> HIDE DEF Typed, RowsTyped, CmdsTyped, InProgress, UsageRows, CommandStates,
              ConstantsAssumption, OneTx
  <2> QED BY <1>1, <1>2, <1>3, <1>4, <1>5, <1>6, <1>7, <1>8, <1>9, <1>10,
     <1>11, <1>12, <1>13 DEF Next

\* What a .check has read.
LEMMA ReadStep ==
  ASSUME ConstantsAssumption, Typed, CheckInv, ChecksApart, [Next]_vars
  PROVE  ReadHolds'
<1> USE DEF Typed, RowsTyped, CmdsTyped, InProgress, UsageRows, CommandStates,
            ConstantsAssumption, CheckInv, ChecksApart, ReadHolds, Tally
<1>1. CASE UNCHANGED vars
  BY <1>1 DEF vars
<1>2. CASE Tick
  BY <1>2 DEF Tick
<1>3. CASE SubscriptionChanges
  BY <1>3 DEF SubscriptionChanges
<1>4. CASE SettingsOpened
  BY <1>4 DEF SettingsOpened
<1>5. ASSUME NEW c \in Commands, CheckRead(c) PROVE ReadHolds'
  BY <1>5, MonthOfReading DEF CheckRead, MayOpenTx
<1>6. ASSUME NEW c \in Commands, CheckCommit(c) PROVE ReadHolds'
  BY <1>6, MonthOfReading DEF CheckCommit, End, Allowed, Counted, IdleCmd,
     Used, Rolls, NoUsage
<1>7. ASSUME NEW c \in Commands, CheckCollides(c) PROVE ReadHolds'
  BY <1>7 DEF CheckCollides, End, IdleCmd, NoUsage
<1>8. ASSUME NEW c \in Commands, SendRead(c) PROVE ReadHolds'
  BY <1>8, MonthOfReading DEF SendRead, MayOpenTx, CooledDown, IdleCmd,
     NoUsage
<1>9. ASSUME NEW c \in Commands, MarkCommit(c) PROVE ReadHolds'
  BY <1>9, MonthOfReading DEF MarkCommit
<1>10. ASSUME NEW c \in Commands, MarkCollides(c) PROVE ReadHolds'
  BY <1>10 DEF MarkCollides, End, IdleCmd, NoUsage
<1>11. ASSUME NEW c \in Commands, SendCopy(c) PROVE ReadHolds'
  <2>1. /\ CmdsTyped' /\ InProgress' /\ cmds'[c].pc \in {"idle", "sending"}
        /\ \A d \in Commands \ {c} : cmds'[d] = cmds[d]
        /\ UNCHANGED <<serial, now, sub, usage, settings, spent>>
    BY <1>11, Copied
  <2> QED BY <2>1
<1>12. ASSUME NEW c \in Commands, Dies(c) PROVE ReadHolds'
  BY <1>12 DEF Dies, End, IdleCmd, NoUsage
<1>13. ASSUME NEW c \in Commands, NEW command \in {"check", "send"},
             Gate(c, command)
      PROVE  ReadHolds'
  BY <1>13 DEF Gate
<1> QED
  <2> HIDE DEF Typed, RowsTyped, CmdsTyped, InProgress, UsageRows, CommandStates,
              ConstantsAssumption, CheckInv, ChecksApart, ReadHolds, Tally
  <2> QED BY <1>1, <1>2, <1>3, <1>4, <1>5, <1>6, <1>7, <1>8, <1>9, <1>10,
     <1>11, <1>12, <1>13 DEF Next

\* What a .send has found.
LEMMA CooldownStep ==
  ASSUME ConstantsAssumption, Typed, CooldownOver, MarksApart, [Next]_vars
  PROVE  CooldownOver'
<1> USE DEF Typed, RowsTyped, CmdsTyped, InProgress, UsageRows, CommandStates,
            ConstantsAssumption, MarksApart, CooldownOver
<1>1. CASE UNCHANGED vars
  BY <1>1 DEF vars
<1>2. CASE Tick
  <2>1. now' = now + 1 /\ UNCHANGED <<settings, cmds>> /\ now \in Nat /\ settings.at \in Nat
    BY <1>2 DEF Tick
  <2>2. \A c \in Commands : cmds[c].pc = "marking" => Cooldown[cmds[c].tariff] \in Nat
    OBVIOUS
  <2> HIDE DEF Typed, RowsTyped, CmdsTyped, InProgress, CommandStates, ConstantsAssumption
  <2>3. settings.sent => settings.at <= now + 1
    BY <2>1
  <2>4. ASSUME NEW c \in Commands, cmds[c].pc = "marking", settings.sent
        PROVE  now + 1 - settings.at >= Cooldown[cmds[c].tariff]
    <3>1. now - settings.at >= Cooldown[cmds[c].tariff]
      BY <2>4
    <3> QED BY <2>1, <2>2, <2>4, <3>1
  <2> QED BY <2>1, <2>3, <2>4
<1>3. CASE SubscriptionChanges
  BY <1>3 DEF SubscriptionChanges
<1>4. CASE SettingsOpened
  BY <1>4 DEF SettingsOpened
<1>5. ASSUME NEW c \in Commands, CheckRead(c) PROVE CooldownOver'
  BY <1>5, MonthOfReading DEF CheckRead, MayOpenTx
<1>6. ASSUME NEW c \in Commands, CheckCommit(c) PROVE CooldownOver'
  BY <1>6, MonthOfReading DEF CheckCommit, End, Allowed, Counted, IdleCmd,
     Used, Rolls, NoUsage
<1>7. ASSUME NEW c \in Commands, CheckCollides(c) PROVE CooldownOver'
  BY <1>7 DEF CheckCollides, End, IdleCmd, NoUsage
<1>8. ASSUME NEW c \in Commands, SendRead(c) PROVE CooldownOver'
  BY <1>8, MonthOfReading DEF SendRead, MayOpenTx, CooledDown, IdleCmd,
     NoUsage
<1>9. ASSUME NEW c \in Commands, MarkCommit(c) PROVE CooldownOver'
  <2>1. settings' = [row |-> TRUE, sent |-> TRUE, at |-> now] /\ now' = now
        /\ cmds[c].pc = "marking"
    BY <1>9 DEF MarkCommit
  <2>2. cmds'[c].pc = "sending" /\ \A d \in Commands \ {c} : cmds'[d] = cmds[d]
    BY <1>9 DEF MarkCommit
  <2>3. \A d \in Commands : cmds'[d].pc # "marking"
    BY <2>1, <2>2
  <2> QED BY <2>1, <2>3
<1>10. ASSUME NEW c \in Commands, MarkCollides(c) PROVE CooldownOver'
  BY <1>10 DEF MarkCollides, End, IdleCmd, NoUsage
<1>11. ASSUME NEW c \in Commands, SendCopy(c) PROVE CooldownOver'
  <2>1. /\ CmdsTyped' /\ InProgress' /\ cmds'[c].pc \in {"idle", "sending"}
        /\ \A d \in Commands \ {c} : cmds'[d] = cmds[d]
        /\ UNCHANGED <<serial, now, sub, usage, settings, spent>>
    BY <1>11, Copied
  <2> QED BY <2>1
<1>12. ASSUME NEW c \in Commands, Dies(c) PROVE CooldownOver'
  BY <1>12 DEF Dies, End, IdleCmd, NoUsage
<1>13. ASSUME NEW c \in Commands, NEW command \in {"check", "send"},
             Gate(c, command)
      PROVE  CooldownOver'
  BY <1>13 DEF Gate
<1> QED
  <2> HIDE DEF Typed, RowsTyped, CmdsTyped, InProgress, UsageRows, CommandStates,
              ConstantsAssumption, MarksApart, CooldownOver
  <2> QED BY <1>1, <1>2, <1>3, <1>4, <1>5, <1>6, <1>7, <1>8, <1>9, <1>10,
     <1>11, <1>12, <1>13 DEF Next

\* The counter.
LEMMA TallyStep ==
  ASSUME ConstantsAssumption, Typed, CheckInv, [Next]_vars
  PROVE  Tally'
<1> USE DEF Typed, RowsTyped, CmdsTyped, InProgress, UsageRows, CommandStates,
            ConstantsAssumption, CheckInv, ReadHolds, Tally
<1>1. CASE UNCHANGED vars
  BY <1>1 DEF vars
<1>2. CASE Tick
  <2>1. now \in Nat /\ now + 1 \in Nat /\ now <= now + 1
    OBVIOUS
  <2>2. Month(now) \in Nat /\ Month(now + 1) \in Nat /\ Month(now) <= Month(now + 1)
    BY <2>1, Months
  <2> QED BY <1>2, <2>2 DEF Tick
<1>3. CASE SubscriptionChanges
  BY <1>3 DEF SubscriptionChanges
<1>4. CASE SettingsOpened
  BY <1>4 DEF SettingsOpened
<1>5. ASSUME NEW c \in Commands, CheckRead(c) PROVE Tally'
  BY <1>5, MonthOfReading DEF CheckRead, MayOpenTx
<1>6. ASSUME NEW c \in Commands, CheckCommit(c) PROVE Tally'
  <2> HIDE DEF CommandStates, CmdsTyped
  <2> DEFINE m == Month(cmds[c].at)
  <2>1. m \in 0..Month(MaxTime) /\ Month(now) \in 0..Month(MaxTime) /\ m <= Month(now)
    BY MonthOfReading
  <2>2. cmds[c].seen = usage /\ (usage.row => usage.period <= m)
    BY <1>6 DEF CheckCommit
  <2>3. /\ usage' = Counted(c)
        /\ spent' = [spent EXCEPT ![m] = IF Allowed(c) THEN spent[m] + 1 ELSE spent[m]]
        /\ UNCHANGED <<now, serial, settings>>
    BY <1>6 DEF CheckCommit
  <2> DEFINE u == Used(c)
  <2>4. /\ usage \in UsageRows /\ spent \in [0..Month(MaxTime) -> Nat]
        /\ cmds[c].seen = usage /\ m \in Nat
    BY <2>1, <2>2
  <2>5. usage'.row /\ usage'.period = m
    BY <2>1, <2>2, <2>3, <2>4 DEF Counted, Rolls
  <2>6. spent[m] = u
    BY <2>1, <2>2, <2>4 DEF Rolls, Used
  <2>7. usage'.used = IF Allowed(c) THEN u + 1 ELSE u
    BY <2>3, <2>4 DEF Counted, Used
  <2>8. usage'.used = spent'[m]
    BY <2>1, <2>3, <2>4, <2>6, <2>7
  <2>9. \A n \in 0..Month(MaxTime) : n > m => spent'[n] = 0
    BY <2>1, <2>2, <2>3, <2>4
  <2> HIDE DEF m, u
  <2> QED BY <2>1, <2>3, <2>5, <2>8, <2>9
<1>7. ASSUME NEW c \in Commands, CheckCollides(c) PROVE Tally'
  BY <1>7 DEF CheckCollides, End, IdleCmd, NoUsage
<1>8. ASSUME NEW c \in Commands, SendRead(c) PROVE Tally'
  BY <1>8, MonthOfReading DEF SendRead, MayOpenTx, CooledDown, IdleCmd,
     NoUsage
<1>9. ASSUME NEW c \in Commands, MarkCommit(c) PROVE Tally'
  BY <1>9, MonthOfReading DEF MarkCommit
<1>10. ASSUME NEW c \in Commands, MarkCollides(c) PROVE Tally'
  BY <1>10 DEF MarkCollides, End, IdleCmd, NoUsage
<1>11. ASSUME NEW c \in Commands, SendCopy(c) PROVE Tally'
  BY <1>11 DEF SendCopy, End, IdleCmd, NoUsage
<1>12. ASSUME NEW c \in Commands, Dies(c) PROVE Tally'
  BY <1>12 DEF Dies, End, IdleCmd, NoUsage
<1>13. ASSUME NEW c \in Commands, NEW command \in {"check", "send"},
             Gate(c, command)
      PROVE  Tally'
  BY <1>13 DEF Gate
<1> QED
  <2> HIDE DEF Typed, RowsTyped, CmdsTyped, InProgress, UsageRows, CommandStates,
              ConstantsAssumption, CheckInv, ReadHolds, Tally
  <2> QED BY <1>1, <1>2, <1>3, <1>4, <1>5, <1>6, <1>7, <1>8, <1>9, <1>10,
     <1>11, <1>12, <1>13 DEF Next

-----------------------------------------------------------------------------
(* The invariants of a behaviour. *)

\* They hold at first.
LEMMA InitHolds ==
  ASSUME ConstantsAssumption, Init PROVE IInv /\ CheckInv /\ CooldownOver
<1> USE DEF Init, NoUsage, NoSettings
<1>1. Typed
  <2>1. RowsTyped
    BY DEF RowsTyped, UsageRows, ConstantsAssumption
  <2>2. CmdsTyped
    BY IdleTyped DEF CmdsTyped
  <2>3. \A c \in Commands : cmds[c].pc = "idle" /\ cmds[c].at = 0
    BY DEF IdleCmd
  <2>4. 0 <= now
    OBVIOUS
  <2>5. InProgress
    BY <2>3, <2>4, Zenon DEF InProgress
  <2> QED BY <2>1, <2>2, <2>5 DEF Typed
<1>2. Bounded
  BY DEF Bounded
<1>3. OneTx /\ ReadHolds /\ CooldownOver
  BY DEF OneTx, ReadHolds, CooldownOver, IdleCmd
<1>4. Tally
  BY DEF Tally
<1> QED BY <1>1, <1>2, <1>3, <1>4 DEF IInv, CheckInv

\* One holds in every behaviour,
LEMMA Always == ASSUME ConstantsAssumption PROVE Spec => []IInv
<1>1. Init => IInv
  BY InitHolds
<1>2. IInv /\ [Next]_vars => IInv'
  BY TypedStep, BoundedStep, OneTxStep DEF IInv
<1> QED BY <1>1, <1>2, PTL DEF Spec

\* the others as long as the checks, or the marks, are apart.
LEMMA AlwaysApart ==
  ASSUME ConstantsAssumption PROVE Spec /\ []ChecksApart => []CheckInv
<1>1. Init => CheckInv
  BY InitHolds
<1>2. IInv /\ ChecksApart /\ CheckInv /\ [Next]_vars => CheckInv'
  BY ReadStep, TallyStep DEF IInv, CheckInv
<1> QED BY <1>1, <1>2, Always, PTL DEF Spec

LEMMA AlwaysCooled ==
  ASSUME ConstantsAssumption PROVE Spec /\ []MarksApart => []CooldownOver
<1>1. Init => CooldownOver
  BY InitHolds
<1>2. IInv /\ MarksApart /\ CooldownOver /\ [Next]_vars => CooldownOver'
  BY CooldownStep DEF IInv
<1> QED BY <1>1, <1>2, Always, PTL DEF Spec

\* With `serial`, both are; a behaviour keeps its `serial`.
LEMMA SerialApart ==
  ASSUME ConstantsAssumption
  PROVE  Spec => \/ [](serial /\ ChecksApart /\ MarksApart)
                 \/ [](~serial)
<1>1. serial /\ [Next]_vars => serial'
  BY DEF Next, vars, Tick, SubscriptionChanges, SettingsOpened, Gate, CheckRead,
     CheckCommit, CheckCollides, SendRead, MarkCommit, MarkCollides, SendCopy, Dies
<1>2. ~serial /\ [Next]_vars => ~serial'
  BY DEF Next, vars, Tick, SubscriptionChanges, SettingsOpened, Gate, CheckRead,
     CheckCommit, CheckCollides, SendRead, MarkCommit, MarkCollides, SendCopy, Dies
<1>3. IInv /\ serial => ChecksApart /\ MarksApart
  BY DEF IInv, OneTx, ChecksApart, MarksApart
<1> QED BY <1>1, <1>2, <1>3, Always, PTL DEF Spec

-----------------------------------------------------------------------------
(* The theorems. *)

\* consume_check: as long as no two .check commands overlap, the check_usage
\* row is what was granted in its month, whatever .send commands, changes of
\* tariff and crashes interleave with them.
THEOREM CounterExactApart ==
  ASSUME ConstantsAssumption PROVE Spec /\ []ChecksApart => []CounterIsExact
<1>1. CheckInv => CounterIsExact
  BY DEF CheckInv, Tally, CounterIsExact
<1> QED BY <1>1, AlwaysApart, PTL

\* The check_usage row is what was granted in its month when consume_check runs
\* alone, and is never above every quota.
THEOREM CounterTrue == ASSUME ConstantsAssumption PROVE Spec => []CounterIsTrue
<1>1. IInv /\ CounterIsExact => CounterIsTrue
  BY DEF IInv, Bounded, CounterIsExact, CounterIsTrue
<1>2. IInv /\ ~serial => CounterIsTrue
  BY DEF IInv, Bounded, CounterIsTrue
<1> QED BY <1>1, <1>2, Always, SerialApart, CounterExactApart, PTL

\* What is granted when a command's count is committed was below its quota.
LEMMA GrantBelowQuota ==
  ASSUME ConstantsAssumption, IInv, CheckInv, [Next]_vars,
         NEW c \in Commands, cmds[c].pc = "counting", cmds'[c].pc = "idle",
         NEW m \in DOMAIN spent, spent'[m] > spent[m]
  PROVE  spent[m] < Quota[cmds[c].tariff]
<1>1. spent \in [0..Month(MaxTime) -> Nat] /\ m \in 0..Month(MaxTime)
  BY DEF IInv, Typed, RowsTyped
<1>2. ASSUME spent' = spent PROVE FALSE
  BY <1>1, <1>2
<1>3. PICK d \in Commands : CheckCommit(d)
  BY <1>2 DEF Next, vars, Tick, SubscriptionChanges, SettingsOpened, Gate, CheckRead,
     CheckCollides, SendRead, MarkCommit, MarkCollides, SendCopy, Dies
<1>4. d = c
  BY <1>3 DEF CheckCommit, End, IInv, Typed, CmdsTyped
<1>5. spent' = [spent EXCEPT ![Month(cmds[c].at)] =
                  IF Allowed(c) THEN spent[Month(cmds[c].at)] + 1
                  ELSE spent[Month(cmds[c].at)]]
  BY <1>3, <1>4 DEF CheckCommit
<1>6. m = Month(cmds[c].at) /\ Allowed(c)
  BY <1>1, <1>5
<1>7. cmds[c].seen = usage /\ (usage.row => usage.period <= m) /\ usage.period \in Nat
  BY <1>6 DEF IInv, CheckInv, ReadHolds, Typed, RowsTyped, UsageRows
<1>8. m \in Nat
  BY <1>1
<1>9. spent[m] = Used(c)
  BY <1>1, <1>6, <1>7, <1>8 DEF CheckInv, Tally, Used, Rolls
<1> QED BY <1>6, <1>9 DEF Allowed

\* As long as no two .check commands overlap, one is granted only while fewer
\* than the quota were granted in the month.
THEOREM WithinQuotaApart ==
  ASSUME ConstantsAssumption PROVE Spec /\ []ChecksApart => GrantsWithinQuota
<1>1. IInv /\ CheckInv /\ [Next]_vars =>
        [\A c \in Commands, m \in DOMAIN spent :
           /\ cmds[c].pc = "counting" /\ cmds'[c].pc = "idle"
           /\ spent'[m] > spent[m]
           => spent[m] < Quota[cmds[c].tariff]]_vars
  BY GrantBelowQuota
<1> QED BY Always, AlwaysApart, <1>1, PTL DEF Spec, GrantsWithinQuota

\* .check is granted only while fewer than the quota were granted in the month.
THEOREM WithinQuota == ASSUME ConstantsAssumption PROVE Spec => CheckWithinQuota
<1> DEFINE Within == \A c \in Commands, m \in DOMAIN spent :
             /\ cmds[c].pc = "counting" /\ cmds'[c].pc = "idle"
             /\ spent'[m] > spent[m]
             /\ serial
             => spent[m] < Quota[cmds[c].tariff]
<1>1. IInv /\ CheckInv /\ [Next]_vars => [Within]_vars
  BY GrantBelowQuota
<1>2. ~serial => [Within]_vars
  OBVIOUS
<1>3. Spec => [][Within]_vars
  BY <1>1, <1>2, Always, AlwaysApart, SerialApart, PTL DEF Spec
<1> QED BY <1>3 DEF CheckWithinQuota

\* A command that starts its batch found the cooldown over, and it still is.
LEMMA BatchAfterCooldown ==
  ASSUME CooldownOver, settings.sent,
         NEW c \in Commands, cmds[c].pc = "marking"
  PROVE  now - settings.at >= Cooldown[cmds[c].tariff]
BY DEF CooldownOver

\* peek_send_cooldown and mark_send_used: as long as no two .send commands
\* overlap between them, two batches begin at least the cooldown apart.
THEOREM CooldownKeptApart ==
  ASSUME ConstantsAssumption PROVE Spec /\ []MarksApart => BatchesAreSpaced
<1>1. CooldownOver =>
        [\A c \in Commands :
           cmds[c].pc = "marking" /\ cmds'[c].pc = "sending" /\ settings.sent
             => now - settings.at >= Cooldown[cmds[c].tariff]]_vars
  BY BatchAfterCooldown
<1> QED BY AlwaysCooled, <1>1, PTL DEF BatchesAreSpaced

\* Two batches of .send begin at least the cooldown apart.
THEOREM CooldownKept == ASSUME ConstantsAssumption PROVE Spec => CooldownHolds
<1> DEFINE Spaced == \A c \in Commands :
             cmds[c].pc = "marking" /\ cmds'[c].pc = "sending" /\ settings.sent /\ serial
               => now - settings.at >= Cooldown[cmds[c].tariff]
<1>1. CooldownOver => [Spaced]_vars
  BY BatchAfterCooldown
<1>2. ~serial => [Spaced]_vars
  OBVIOUS
<1>3. Spec => [][Spaced]_vars
  BY <1>1, <1>2, AlwaysCooled, SerialApart, PTL DEF Spec
<1> QED BY <1>3 DEF CooldownHolds

=============================================================================
