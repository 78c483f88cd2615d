------------------------- MODULE MiniAppPage_proofs -------------------------
(***************************************************************************)
(* Proofs about MiniAppPage for any number of handlers, keys, hashes,      *)
(* digits and visits.                                                      *)
(***************************************************************************)
EXTENDS MiniAppPage, TLAPS

-----------------------------------------------------------------------------
(* The inductive invariant. *)

\* What a handler does fits its job.
Kind(x) ==
  \/ x = Idle
  \/ x.job = "resume" /\ x.at = "connect"
  \/ x.job = "send" /\ x.at \in {"connect", "ask", "answered"}
  \/ x.job \in {"code", "password"} /\ x.at \in {"ask", "answered", "post", "posted"}

\* Before the client is set, the handler that connects it is the only one, and
\* nothing on the page can start another.
Phases ==
  /\ \A h \in Handlers : Kind(handlers[h])
  /\ page.screen = "closed" => page = Closed /\ AllIdle
  /\ page.conn = "null" =>
       /\ ~page.pad /\ page.screen \notin {"2fa", "done"}
       /\ \A h \in Handlers : handlers[h] = Idle \/ handlers[h].at = "connect"
       /\ \A h, i \in Handlers :
            handlers[h].at = "connect" /\ handlers[i].at = "connect" => h = i
       /\ page.retry => AllIdle
  /\ page.conn # "null" => \A h \in Handlers : handlers[h].at # "connect"

\* g was requested with key k.
Requested(g, k) == g \in Hashes /\ k \in Keys /\ keyOf[g] = k

\* Keys and hashes belong together, in the page, in its handlers and in storage.
\* Once a code has been sent the client is at the phone's DC, and keeps its key.
KeysFit ==
  /\ pending # NoAttempt => Requested(pending.hash, pending.key)
  /\ page.conn = "up" => page.key \in Keys
  /\ page.pad \/ page.screen \in {"2fa", "done"} => page.home
  /\ page.pad => Requested(page.hash, page.key)
  /\ \A h \in Handlers :
       /\ handlers[h].job \in {"code", "password"} => page.home
       /\ handlers[h].job = "send" /\ handlers[h].at = "answered"
            => page.home /\ Requested(handlers[h].hash, page.key)
       /\ handlers[h].job = "resume" => Requested(page.hash, handlers[h].key)

\* A hand-off is of the page's key; an accepted one has spent the token.
Links ==
  /\ DoneMeansLinked
  /\ \A h \in Handlers :
       /\ handlers[h].at \in {"post", "posted"} => handlers[h].key = page.key
       /\ handlers[h].at = "posted" /\ handlers[h].reply = "ok"
            => token = "spent" /\ linked = handlers[h].key /\ linked \in signedIn

\* A code screen without pad and retry is waiting for a request.
WayOn ==
  page.screen = "code" =>
    page.pad \/ page.retry \/ \E h \in Handlers : handlers[h].job \in {"send", "resume"}

IInv == TypeOK /\ Phases /\ KeysFit /\ Links /\ WayOn

\* Types of what is neither the page nor a handler.
OthersTyped ==
  /\ pending \in Attempts
  /\ made \subseteq Keys /\ alive \subseteq Hashes /\ signedIn \subseteq Keys
  /\ keyOf \in [Hashes -> Keys \cup {NoKey}]
  /\ token \in {"live", "spent", "over"} /\ linked \in Keys \cup {NoKey}
  /\ loads \in 0..MaxLoads

-----------------------------------------------------------------------------
(* Fresh keys and hashes. *)

\* A key that has not been negotiated yet.
LEMMA FreshKey ==
  ASSUME TypeOK, made # Keys
  PROVE  NewKey \in Keys /\ NewKey \notin made
<1>1. \E k \in Keys : k \notin made
  BY DEF TypeOK
<1> QED BY <1>1 DEF NewKey

\* A hash that has not been issued yet.
LEMMA FreshHash ==
  ASSUME TypeOK, NEW x \in Hashes, keyOf[x] = NoKey
  PROVE  NewHash \in Hashes /\ keyOf[NewHash] = NoKey
BY DEF NewHash

-----------------------------------------------------------------------------
(* Every step keeps the invariant. *)

\* The display may be cleared.
LEMMA NoDigits == ASSUME PageAssumption PROVE 0 \in 0..CodeLength
BY DEF PageAssumption

\* Types.
LEMMA TypeStep ==
  ASSUME PageAssumption, TypeOK, KeysFit, [Next]_vars
  PROVE  TypeOK'
<1> USE DEF TypeOK, PageAssumption, PageStates, HandlerStates, Attempts,
            Screens, Closed, Idle, NoAttempt
<1>1. CASE UNCHANGED vars
  BY <1>1 DEF vars
<1>2. CASE OpenOutside
  <2>1. page' \in PageStates
    BY <1>2, NoDigits DEF OpenOutside, telegram, backend, Load
  <2>2. handlers' \in [Handlers -> HandlerStates]
    BY <1>2 DEF OpenOutside, telegram, backend, Load
  <2>3. OthersTyped'
    BY <1>2 DEF OpenOutside, telegram, backend, Load, OthersTyped
  <2> QED BY <2>1, <2>2, <2>3 DEF OthersTyped
<1>3. CASE OpenDead
  <2>1. page' \in PageStates
    BY <1>3, NoDigits DEF OpenDead, telegram, backend, Load
  <2>2. handlers' \in [Handlers -> HandlerStates]
    BY <1>3 DEF OpenDead, telegram, backend, Load
  <2>3. OthersTyped'
    BY <1>3 DEF OpenDead, telegram, backend, Load, OthersTyped
  <2> QED BY <2>1, <2>2, <2>3 DEF OthersTyped
<1>4. CASE Close
  BY <1>4 DEF Close, telegram, backend
<1>5. CASE TimeIsUp
  BY <1>5 DEF TimeIsUp, telegram, backend, Expire, Forget, Settled
<1>6. CASE PressDigit
  BY <1>6 DEF PressDigit, telegram, backend, PadUsable
<1>7. CASE Backspace
  BY <1>7 DEF Backspace, telegram, backend, PadUsable
<1>8. CASE TokenDies
  BY <1>8 DEF TokenDies, telegram
<1>9. ASSUME NEW h \in Handlers, OpenFresh(h) PROVE TypeOK'
  <2>1. page' \in PageStates
    BY <1>9, NoDigits DEF OpenFresh, telegram, backend, Load, Begin
  <2>2. handlers' \in [Handlers -> HandlerStates]
    BY <1>9 DEF OpenFresh, telegram, backend, Load, Begin
  <2>3. OthersTyped'
    BY <1>9 DEF OpenFresh, telegram, backend, Load, Begin, OthersTyped
  <2> QED BY <2>1, <2>2, <2>3 DEF OthersTyped
<1>10. ASSUME NEW h \in Handlers, OpenSaved(h) PROVE TypeOK'
  <2>1. page' \in PageStates
    BY <1>10, NoDigits DEF OpenSaved, telegram, backend, Load, Begin
  <2>2. handlers' \in [Handlers -> HandlerStates]
    BY <1>10 DEF OpenSaved, telegram, backend, Load, Begin
  <2>3. OthersTyped'
    BY <1>10 DEF OpenSaved, telegram, backend, Load, Begin, OthersTyped
  <2> QED BY <2>1, <2>2, <2>3 DEF OthersTyped
<1>11. ASSUME NEW h \in Handlers, OpenLate(h) PROVE TypeOK'
  <2>1. page' \in PageStates
    BY <1>11, NoDigits DEF OpenLate, telegram, backend, Load, Begin, Forget
  <2>2. handlers' \in [Handlers -> HandlerStates]
    BY <1>11 DEF OpenLate, telegram, backend, Load, Begin, Forget
  <2>3. OthersTyped'
    BY <1>11 DEF OpenLate, telegram, backend, Load, Begin, Forget, OthersTyped
  <2> QED BY <2>1, <2>2, <2>3 DEF OthersTyped
<1>12. ASSUME NEW h \in Handlers, SendConnects(h) PROVE TypeOK'
  <2>1. page' \in PageStates
    <3>1. NewKey \in Keys
      BY <1>12, FreshKey DEF SendConnects
    <3>2. PICK home \in BOOLEAN :
            page' = [page EXCEPT !.conn = "up", !.key = NewKey, !.home = home]
      BY <1>12 DEF SendConnects
    <3> QED BY <3>1, <3>2
  <2>2. handlers' \in [Handlers -> HandlerStates]
    BY <1>12 DEF SendConnects, backend, Runs
  <2>3. OthersTyped'
    BY <1>12, FreshKey DEF SendConnects, backend, Runs, OthersTyped
  <2> QED BY <2>1, <2>2, <2>3 DEF OthersTyped
<1>13. ASSUME NEW h \in Handlers, SendUnconnected(h) PROVE TypeOK'
  BY <1>13 DEF SendUnconnected, telegram, backend, Runs
<1>14. ASSUME NEW h \in Handlers, SendConnectFails(h) PROVE TypeOK'
  BY <1>14 DEF SendConnectFails, telegram, backend, End, Runs
<1>15. ASSUME NEW h \in Handlers, Attach(h) PROVE TypeOK'
  BY <1>15 DEF Attach, telegram, backend, End, Runs
<1>16. ASSUME NEW h \in Handlers, AttachFails(h) PROVE TypeOK'
  <2>1. page' \in PageStates
    BY <1>16 DEF AttachFails, telegram, backend, Runs, Forget
  <2>2. handlers' \in [Handlers -> HandlerStates]
    <3>1. \A x \in HandlerStates :
            [x EXCEPT !.job = "send", !.key = NoKey] \in HandlerStates
      OBVIOUS
    <3>2. handlers' = [handlers EXCEPT ![h] =
                         [@ EXCEPT !.job = "send", !.key = NoKey]]
      BY <1>16 DEF AttachFails
    <3> QED
      <4> HIDE DEF HandlerStates
      <4> QED BY <3>1, <3>2
  <2>3. OthersTyped'
    BY <1>16 DEF AttachFails, telegram, backend, Runs, Forget, OthersTyped
  <2> QED BY <2>1, <2>2, <2>3 DEF OthersTyped
<1>17. ASSUME NEW h \in Handlers, Retry(h) PROVE TypeOK'
  BY <1>17 DEF Retry, telegram, backend, Begin
<1>18. ASSUME NEW h \in Handlers, RequestCode(h) PROVE TypeOK'
  <2>1. NewHash \in Hashes
    BY <1>18, FreshHash DEF RequestCode
  <2>2. ~page.home => NewKey \in Keys
    BY <1>18, FreshKey DEF RequestCode
  <2>3. page.home => page.key \in Keys
    BY <1>18 DEF RequestCode, KeysFit
  <2>4. page' \in PageStates
    BY <1>18, <2>2, <2>3 DEF RequestCode
  <2>5. handlers' \in [Handlers -> HandlerStates]
    <3>1. \A x \in HandlerStates, g \in Hashes :
            [x EXCEPT !.at = "answered", !.hash = g] \in HandlerStates
      OBVIOUS
    <3>2. handlers' = [handlers EXCEPT ![h] =
                         [@ EXCEPT !.at = "answered", !.hash = NewHash]]
      BY <1>18 DEF RequestCode
    <3> QED
      <4> HIDE DEF HandlerStates
      <4> QED BY <2>1, <3>1, <3>2
  <2>6. made' \subseteq Keys /\ keyOf' \in [Hashes -> Keys \cup {NoKey}]
    BY <1>18, <2>1, <2>2, <2>3 DEF RequestCode
  <2>7. alive' \subseteq Hashes
    BY <1>18, <2>1 DEF RequestCode
  <2> QED BY <1>18, <2>4, <2>5, <2>6, <2>7 DEF RequestCode, backend
<1>19. ASSUME NEW h \in Handlers, CodeSent(h) PROVE TypeOK'
  <2>1. page' \in PageStates
    BY <1>19, NoDigits DEF CodeSent, telegram, backend, End, Runs
  <2>2. handlers' \in [Handlers -> HandlerStates]
    BY <1>19 DEF CodeSent, telegram, backend, End, Runs
  <2>3. OthersTyped'
    BY <1>19 DEF CodeSent, telegram, backend, End, Runs, OthersTyped
  <2> QED BY <2>1, <2>2, <2>3 DEF OthersTyped
<1>20. ASSUME NEW h \in Handlers, SendFails(h) PROVE TypeOK'
  BY <1>20 DEF SendFails, telegram, backend, End, Runs
<1>21. ASSUME NEW h \in Handlers, SubmitCode(h) PROVE TypeOK'
  <2>1. page' \in PageStates
    BY <1>21 DEF SubmitCode, telegram, backend, Begin, PadUsable
  <2>2. handlers' \in [Handlers -> HandlerStates]
    BY <1>21 DEF SubmitCode, telegram, backend, Begin, PadUsable
  <2>3. OthersTyped'
    BY <1>21 DEF SubmitCode, telegram, backend, Begin, PadUsable, OthersTyped
  <2> QED BY <2>1, <2>2, <2>3 DEF OthersTyped
<1>22. ASSUME NEW h \in Handlers, SignIn(h) PROVE TypeOK'
  <2>1. page' \in PageStates
    BY <1>22 DEF SignIn, backend, Runs, Answers
  <2>2. handlers' \in [Handlers -> HandlerStates]
    BY <1>22 DEF SignIn, backend, Runs, Answers
  <2>3. page.key \in Keys
    BY <1>22 DEF SignIn, KeysFit
  <2>4. OthersTyped'
    BY <1>22, <2>3 DEF SignIn, backend, Runs, Answers, OthersTyped
  <2> QED BY <2>1, <2>2, <2>4 DEF OthersTyped
<1>23. ASSUME NEW h \in Handlers, SignedIn(h) PROVE TypeOK'
  BY <1>23 DEF SignedIn, telegram, backend
<1>24. ASSUME NEW h \in Handlers, PasswordNeeded(h) PROVE TypeOK'
  BY <1>24 DEF PasswordNeeded, telegram, backend, End, Runs
<1>25. ASSUME NEW h \in Handlers, CodeExpired(h) PROVE TypeOK'
  <2>1. page' \in PageStates
    BY <1>25, NoDigits DEF CodeExpired, telegram, backend, End, Runs, Forget
  <2>2. handlers' \in [Handlers -> HandlerStates]
    BY <1>25 DEF CodeExpired, telegram, backend, End, Runs, Forget
  <2>3. OthersTyped'
    BY <1>25 DEF CodeExpired, telegram, backend, End, Runs, Forget, OthersTyped
  <2> QED BY <2>1, <2>2, <2>3 DEF OthersTyped
<1>26. ASSUME NEW h \in Handlers, CodeRefused(h) PROVE TypeOK'
  BY <1>26 DEF CodeRefused, telegram, backend, End, MayThrow
<1>27. ASSUME NEW h \in Handlers, SendPassword(h) PROVE TypeOK'
  BY <1>27 DEF SendPassword, telegram, backend, Begin
<1>28. ASSUME NEW h \in Handlers, CheckPassword(h) PROVE TypeOK'
  <2>1. page' \in PageStates
    BY <1>28 DEF CheckPassword, backend, Runs, Answers
  <2>2. handlers' \in [Handlers -> HandlerStates]
    BY <1>28 DEF CheckPassword, backend, Runs, Answers
  <2>3. page.key \in Keys
    BY <1>28 DEF CheckPassword, KeysFit
  <2>4. OthersTyped'
    BY <1>28, <2>3 DEF CheckPassword, backend, Runs, Answers, OthersTyped
  <2> QED BY <2>1, <2>2, <2>4 DEF OthersTyped
<1>29. ASSUME NEW h \in Handlers, PasswordRefused(h) PROVE TypeOK'
  BY <1>29 DEF PasswordRefused, telegram, backend, End, MayThrow
<1>30. ASSUME NEW h \in Handlers, HandOff(h) PROVE TypeOK'
  BY <1>30 DEF HandOff, telegram, backend, Replies
<1>31. ASSUME NEW h \in Handlers, Accepted(h) PROVE TypeOK'
  BY <1>31 DEF Accepted, telegram, backend, End, Forget, Settled, Posted
<1>32. ASSUME NEW h \in Handlers, Rejected(h) PROVE TypeOK'
  BY <1>32 DEF Rejected, telegram, backend, End, Posted
<1>33. ASSUME NEW h \in Handlers, Gone(h) PROVE TypeOK'
  BY <1>33 DEF Gone, telegram, backend, End, Expire, Posted, Forget, Settled
<1>34. ASSUME NEW g \in Hashes, CodeDies(g) PROVE TypeOK'
  BY <1>34 DEF CodeDies, backend
<1> QED
  BY <1>1, <1>2, <1>3, <1>4, <1>5, <1>6, <1>7, <1>8, <1>9, <1>10, <1>11,
     <1>12, <1>13, <1>14, <1>15, <1>16, <1>17, <1>18, <1>19, <1>20, <1>21,
     <1>22, <1>23, <1>24, <1>25, <1>26, <1>27, <1>28, <1>29, <1>30, <1>31,
     <1>32, <1>33, <1>34 DEF Next, HandlerNext

\* One handler until the client is set.
LEMMA PhaseStep ==
  ASSUME PageAssumption, IInv, [Next]_vars
  PROVE  Phases'
<1> USE DEF PageAssumption, TypeOK, IInv, PageStates, HandlerStates, Attempts,
            Screens, Closed, Idle, NoAttempt, Phases, Kind, AllIdle
<1>1. CASE UNCHANGED vars
  BY <1>1 DEF vars
<1>2. CASE OpenOutside
  BY <1>2 DEF OpenOutside, telegram, backend, Load
<1>3. CASE OpenDead
  BY <1>3 DEF OpenDead, telegram, backend, Load
<1>4. CASE Close
  BY <1>4 DEF Close, telegram, backend
<1>5. CASE TimeIsUp
  BY <1>5 DEF TimeIsUp, telegram, backend, Expire, Forget, Settled
<1>6. CASE PressDigit
  BY <1>6 DEF PressDigit, telegram, backend, PadUsable
<1>7. CASE Backspace
  BY <1>7 DEF Backspace, telegram, backend, PadUsable
<1>8. CASE TokenDies
  BY <1>8 DEF TokenDies, telegram
<1>9. ASSUME NEW h \in Handlers, OpenFresh(h) PROVE Phases'
  BY <1>9 DEF OpenFresh, telegram, backend, Load, Begin
<1>10. ASSUME NEW h \in Handlers, OpenSaved(h) PROVE Phases'
  BY <1>10 DEF OpenSaved, telegram, backend, Load, Begin
<1>11. ASSUME NEW h \in Handlers, OpenLate(h) PROVE Phases'
  BY <1>11 DEF OpenLate, telegram, backend, Load, Begin, Forget
<1>12. ASSUME NEW h \in Handlers, SendConnects(h) PROVE Phases'
  BY <1>12, FreshKey DEF SendConnects, backend, Runs
<1>13. ASSUME NEW h \in Handlers, SendUnconnected(h) PROVE Phases'
  BY <1>13 DEF SendUnconnected, telegram, backend, Runs
<1>14. ASSUME NEW h \in Handlers, SendConnectFails(h) PROVE Phases'
  BY <1>14 DEF SendConnectFails, telegram, backend, End, Runs
<1>15. ASSUME NEW h \in Handlers, Attach(h) PROVE Phases'
  BY <1>15 DEF Attach, telegram, backend, End, Runs
<1>16. ASSUME NEW h \in Handlers, AttachFails(h) PROVE Phases'
  BY <1>16 DEF AttachFails, telegram, backend, Runs, Forget
<1>17. ASSUME NEW h \in Handlers, Retry(h) PROVE Phases'
  BY <1>17 DEF Retry, telegram, backend, Begin
<1>18. ASSUME NEW h \in Handlers, RequestCode(h) PROVE Phases'
  BY <1>18, FreshKey, FreshHash DEF RequestCode, backend, Runs
<1>19. ASSUME NEW h \in Handlers, CodeSent(h) PROVE Phases'
  BY <1>19 DEF CodeSent, telegram, backend, End, Runs
<1>20. ASSUME NEW h \in Handlers, SendFails(h) PROVE Phases'
  BY <1>20 DEF SendFails, telegram, backend, End, Runs
<1>21. ASSUME NEW h \in Handlers, SubmitCode(h) PROVE Phases'
  BY <1>21 DEF SubmitCode, telegram, backend, Begin, PadUsable
<1>22. ASSUME NEW h \in Handlers, SignIn(h) PROVE Phases'
  BY <1>22 DEF SignIn, backend, Runs, Answers
<1>23. ASSUME NEW h \in Handlers, SignedIn(h) PROVE Phases'
  BY <1>23 DEF SignedIn, telegram, backend
<1>24. ASSUME NEW h \in Handlers, PasswordNeeded(h) PROVE Phases'
  BY <1>24 DEF PasswordNeeded, telegram, backend, End, Runs
<1>25. ASSUME NEW h \in Handlers, CodeExpired(h) PROVE Phases'
  BY <1>25 DEF CodeExpired, telegram, backend, End, Runs, Forget
<1>26. ASSUME NEW h \in Handlers, CodeRefused(h) PROVE Phases'
  BY <1>26 DEF CodeRefused, telegram, backend, End, MayThrow
<1>27. ASSUME NEW h \in Handlers, SendPassword(h) PROVE Phases'
  BY <1>27 DEF SendPassword, telegram, backend, Begin
<1>28. ASSUME NEW h \in Handlers, CheckPassword(h) PROVE Phases'
  BY <1>28 DEF CheckPassword, backend, Runs, Answers
<1>29. ASSUME NEW h \in Handlers, PasswordRefused(h) PROVE Phases'
  BY <1>29 DEF PasswordRefused, telegram, backend, End, MayThrow
<1>30. ASSUME NEW h \in Handlers, HandOff(h) PROVE Phases'
  BY <1>30 DEF HandOff, telegram, backend, Replies
<1>31. ASSUME NEW h \in Handlers, Accepted(h) PROVE Phases'
  BY <1>31 DEF Accepted, telegram, backend, End, Forget, Settled, Posted
<1>32. ASSUME NEW h \in Handlers, Rejected(h) PROVE Phases'
  BY <1>32 DEF Rejected, telegram, backend, End, Posted
<1>33. ASSUME NEW h \in Handlers, Gone(h) PROVE Phases'
  BY <1>33 DEF Gone, telegram, backend, End, Expire, Posted, Forget, Settled
<1>34. ASSUME NEW g \in Hashes, CodeDies(g) PROVE Phases'
  BY <1>34 DEF CodeDies, backend
<1> QED
  BY <1>1, <1>2, <1>3, <1>4, <1>5, <1>6, <1>7, <1>8, <1>9, <1>10, <1>11,
     <1>12, <1>13, <1>14, <1>15, <1>16, <1>17, <1>18, <1>19, <1>20, <1>21,
     <1>22, <1>23, <1>24, <1>25, <1>26, <1>27, <1>28, <1>29, <1>30, <1>31,
     <1>32, <1>33, <1>34 DEF Next, HandlerNext

\* Keys and hashes stay together.
LEMMA KeyStep ==
  ASSUME PageAssumption, IInv, [Next]_vars
  PROVE  KeysFit'
<1> USE DEF PageAssumption, TypeOK, IInv, PageStates, HandlerStates, Attempts,
            Screens, Closed, Idle, NoAttempt, Phases, Kind, AllIdle, KeysFit,
            Requested
<1>1. CASE UNCHANGED vars
  BY <1>1 DEF vars
<1>2. CASE OpenOutside
  BY <1>2 DEF OpenOutside, telegram, backend, Load
<1>3. CASE OpenDead
  BY <1>3 DEF OpenDead, telegram, backend, Load
<1>4. CASE Close
  BY <1>4 DEF Close, telegram, backend
<1>5. CASE TimeIsUp
  BY <1>5 DEF TimeIsUp, telegram, backend, Expire, Forget, Settled
<1>6. CASE PressDigit
  BY <1>6 DEF PressDigit, telegram, backend, PadUsable
<1>7. CASE Backspace
  BY <1>7 DEF Backspace, telegram, backend, PadUsable
<1>8. CASE TokenDies
  BY <1>8 DEF TokenDies, telegram
<1>9. ASSUME NEW h \in Handlers, OpenFresh(h) PROVE KeysFit'
  BY <1>9 DEF OpenFresh, telegram, backend, Load, Begin
<1>10. ASSUME NEW h \in Handlers, OpenSaved(h) PROVE KeysFit'
  BY <1>10 DEF OpenSaved, telegram, backend, Load, Begin
<1>11. ASSUME NEW h \in Handlers, OpenLate(h) PROVE KeysFit'
  BY <1>11 DEF OpenLate, telegram, backend, Load, Begin, Forget
<1>12. ASSUME NEW h \in Handlers, SendConnects(h) PROVE KeysFit'
  BY <1>12, FreshKey DEF SendConnects, backend, Runs
<1>13. ASSUME NEW h \in Handlers, SendUnconnected(h) PROVE KeysFit'
  BY <1>13 DEF SendUnconnected, telegram, backend, Runs
<1>14. ASSUME NEW h \in Handlers, SendConnectFails(h) PROVE KeysFit'
  BY <1>14 DEF SendConnectFails, telegram, backend, End, Runs
<1>15. ASSUME NEW h \in Handlers, Attach(h) PROVE KeysFit'
  BY <1>15 DEF Attach, telegram, backend, End, Runs
<1>16. ASSUME NEW h \in Handlers, AttachFails(h) PROVE KeysFit'
  BY <1>16 DEF AttachFails, telegram, backend, Runs, Forget
<1>17. ASSUME NEW h \in Handlers, Retry(h) PROVE KeysFit'
  BY <1>17 DEF Retry, telegram, backend, Begin
<1>18. ASSUME NEW h \in Handlers, RequestCode(h) PROVE KeysFit'
  BY <1>18, FreshKey, FreshHash DEF RequestCode, backend, Runs
<1>19. ASSUME NEW h \in Handlers, CodeSent(h) PROVE KeysFit'
  BY <1>19 DEF CodeSent, telegram, backend, End, Runs
<1>20. ASSUME NEW h \in Handlers, SendFails(h) PROVE KeysFit'
  BY <1>20 DEF SendFails, telegram, backend, End, Runs
<1>21. ASSUME NEW h \in Handlers, SubmitCode(h) PROVE KeysFit'
  BY <1>21 DEF SubmitCode, telegram, backend, Begin, PadUsable
<1>22. ASSUME NEW h \in Handlers, SignIn(h) PROVE KeysFit'
  BY <1>22 DEF SignIn, backend, Runs, Answers
<1>23. ASSUME NEW h \in Handlers, SignedIn(h) PROVE KeysFit'
  BY <1>23 DEF SignedIn, telegram, backend
<1>24. ASSUME NEW h \in Handlers, PasswordNeeded(h) PROVE KeysFit'
  BY <1>24 DEF PasswordNeeded, telegram, backend, End, Runs
<1>25. ASSUME NEW h \in Handlers, CodeExpired(h) PROVE KeysFit'
  BY <1>25 DEF CodeExpired, telegram, backend, End, Runs, Forget
<1>26. ASSUME NEW h \in Handlers, CodeRefused(h) PROVE KeysFit'
  BY <1>26 DEF CodeRefused, telegram, backend, End, MayThrow
<1>27. ASSUME NEW h \in Handlers, SendPassword(h) PROVE KeysFit'
  BY <1>27 DEF SendPassword, telegram, backend, Begin
<1>28. ASSUME NEW h \in Handlers, CheckPassword(h) PROVE KeysFit'
  BY <1>28 DEF CheckPassword, backend, Runs, Answers
<1>29. ASSUME NEW h \in Handlers, PasswordRefused(h) PROVE KeysFit'
  BY <1>29 DEF PasswordRefused, telegram, backend, End, MayThrow
<1>30. ASSUME NEW h \in Handlers, HandOff(h) PROVE KeysFit'
  BY <1>30 DEF HandOff, telegram, backend, Replies
<1>31. ASSUME NEW h \in Handlers, Accepted(h) PROVE KeysFit'
  BY <1>31 DEF Accepted, telegram, backend, End, Forget, Settled, Posted
<1>32. ASSUME NEW h \in Handlers, Rejected(h) PROVE KeysFit'
  BY <1>32 DEF Rejected, telegram, backend, End, Posted
<1>33. ASSUME NEW h \in Handlers, Gone(h) PROVE KeysFit'
  BY <1>33 DEF Gone, telegram, backend, End, Expire, Posted, Forget, Settled
<1>34. ASSUME NEW g \in Hashes, CodeDies(g) PROVE KeysFit'
  BY <1>34 DEF CodeDies, backend
<1> QED
  BY <1>1, <1>2, <1>3, <1>4, <1>5, <1>6, <1>7, <1>8, <1>9, <1>10, <1>11,
     <1>12, <1>13, <1>14, <1>15, <1>16, <1>17, <1>18, <1>19, <1>20, <1>21,
     <1>22, <1>23, <1>24, <1>25, <1>26, <1>27, <1>28, <1>29, <1>30, <1>31,
     <1>32, <1>33, <1>34 DEF Next, HandlerNext

\* Hand-offs and the token.
LEMMA LinkStep ==
  ASSUME PageAssumption, IInv, [Next]_vars
  PROVE  Links'
<1> USE DEF PageAssumption, TypeOK, IInv, PageStates, HandlerStates, Attempts,
            Screens, Closed, Idle, NoAttempt, Phases, Kind, AllIdle, KeysFit,
            Links, DoneMeansLinked
<1>1. CASE UNCHANGED vars
  BY <1>1 DEF vars
<1>2. CASE OpenOutside
  BY <1>2 DEF OpenOutside, telegram, backend, Load
<1>3. CASE OpenDead
  BY <1>3 DEF OpenDead, telegram, backend, Load
<1>4. CASE Close
  BY <1>4 DEF Close, telegram, backend
<1>5. CASE TimeIsUp
  BY <1>5 DEF TimeIsUp, telegram, backend, Expire, Forget, Settled
<1>6. CASE PressDigit
  BY <1>6 DEF PressDigit, telegram, backend, PadUsable
<1>7. CASE Backspace
  BY <1>7 DEF Backspace, telegram, backend, PadUsable
<1>8. CASE TokenDies
  BY <1>8 DEF TokenDies, telegram
<1>9. ASSUME NEW h \in Handlers, OpenFresh(h) PROVE Links'
  BY <1>9 DEF OpenFresh, telegram, backend, Load, Begin
<1>10. ASSUME NEW h \in Handlers, OpenSaved(h) PROVE Links'
  BY <1>10 DEF OpenSaved, telegram, backend, Load, Begin
<1>11. ASSUME NEW h \in Handlers, OpenLate(h) PROVE Links'
  BY <1>11 DEF OpenLate, telegram, backend, Load, Begin, Forget
<1>12. ASSUME NEW h \in Handlers, SendConnects(h) PROVE Links'
  BY <1>12, FreshKey DEF SendConnects, backend, Runs
<1>13. ASSUME NEW h \in Handlers, SendUnconnected(h) PROVE Links'
  BY <1>13 DEF SendUnconnected, telegram, backend, Runs
<1>14. ASSUME NEW h \in Handlers, SendConnectFails(h) PROVE Links'
  BY <1>14 DEF SendConnectFails, telegram, backend, End, Runs
<1>15. ASSUME NEW h \in Handlers, Attach(h) PROVE Links'
  BY <1>15 DEF Attach, telegram, backend, End, Runs
<1>16. ASSUME NEW h \in Handlers, AttachFails(h) PROVE Links'
  BY <1>16 DEF AttachFails, telegram, backend, Runs, Forget
<1>17. ASSUME NEW h \in Handlers, Retry(h) PROVE Links'
  BY <1>17 DEF Retry, telegram, backend, Begin
<1>18. ASSUME NEW h \in Handlers, RequestCode(h) PROVE Links'
  BY <1>18, FreshKey, FreshHash DEF RequestCode, backend, Runs
<1>19. ASSUME NEW h \in Handlers, CodeSent(h) PROVE Links'
  BY <1>19 DEF CodeSent, telegram, backend, End, Runs
<1>20. ASSUME NEW h \in Handlers, SendFails(h) PROVE Links'
  BY <1>20 DEF SendFails, telegram, backend, End, Runs
<1>21. ASSUME NEW h \in Handlers, SubmitCode(h) PROVE Links'
  BY <1>21 DEF SubmitCode, telegram, backend, Begin, PadUsable
<1>22. ASSUME NEW h \in Handlers, SignIn(h) PROVE Links'
  BY <1>22 DEF SignIn, backend, Runs, Answers
<1>23. ASSUME NEW h \in Handlers, SignedIn(h) PROVE Links'
  BY <1>23 DEF SignedIn, telegram, backend
<1>24. ASSUME NEW h \in Handlers, PasswordNeeded(h) PROVE Links'
  BY <1>24 DEF PasswordNeeded, telegram, backend, End, Runs
<1>25. ASSUME NEW h \in Handlers, CodeExpired(h) PROVE Links'
  BY <1>25 DEF CodeExpired, telegram, backend, End, Runs, Forget
<1>26. ASSUME NEW h \in Handlers, CodeRefused(h) PROVE Links'
  BY <1>26 DEF CodeRefused, telegram, backend, End, MayThrow
<1>27. ASSUME NEW h \in Handlers, SendPassword(h) PROVE Links'
  BY <1>27 DEF SendPassword, telegram, backend, Begin
<1>28. ASSUME NEW h \in Handlers, CheckPassword(h) PROVE Links'
  <2>1. CASE Answers(h, "ok") /\ signedIn' = signedIn \cup {page.key}
    BY <1>28, <2>1 DEF CheckPassword, backend, Runs, Answers
  <2>2. CASE Answers(h, "error") /\ UNCHANGED signedIn
    BY <1>28, <2>2 DEF CheckPassword, backend, Runs, Answers
  <2> QED BY <1>28, <2>1, <2>2 DEF CheckPassword
<1>29. ASSUME NEW h \in Handlers, PasswordRefused(h) PROVE Links'
  BY <1>29 DEF PasswordRefused, telegram, backend, End, MayThrow
<1>30. ASSUME NEW h \in Handlers, HandOff(h) PROVE Links'
  BY <1>30 DEF HandOff, telegram, backend, Replies
<1>31. ASSUME NEW h \in Handlers, Accepted(h) PROVE Links'
  BY <1>31 DEF Accepted, telegram, backend, End, Forget, Settled, Posted
<1>32. ASSUME NEW h \in Handlers, Rejected(h) PROVE Links'
  BY <1>32 DEF Rejected, telegram, backend, End, Posted
<1>33. ASSUME NEW h \in Handlers, Gone(h) PROVE Links'
  BY <1>33 DEF Gone, telegram, backend, End, Expire, Posted, Forget, Settled
<1>34. ASSUME NEW g \in Hashes, CodeDies(g) PROVE Links'
  BY <1>34 DEF CodeDies, backend
<1> QED
  BY <1>1, <1>2, <1>3, <1>4, <1>5, <1>6, <1>7, <1>8, <1>9, <1>10, <1>11,
     <1>12, <1>13, <1>14, <1>15, <1>16, <1>17, <1>18, <1>19, <1>20, <1>21,
     <1>22, <1>23, <1>24, <1>25, <1>26, <1>27, <1>28, <1>29, <1>30, <1>31,
     <1>32, <1>33, <1>34 DEF Next, HandlerNext

\* A way on.
LEMMA WayOnStep ==
  ASSUME PageAssumption, IInv, [Next]_vars
  PROVE  WayOn'
<1> USE DEF PageAssumption, TypeOK, IInv, PageStates, HandlerStates, Attempts,
            Screens, Closed, Idle, NoAttempt, Phases, Kind, AllIdle, KeysFit,
            WayOn
<1>1. CASE UNCHANGED vars
  BY <1>1 DEF vars
<1>2. CASE OpenOutside
  BY <1>2 DEF OpenOutside, telegram, backend, Load
<1>3. CASE OpenDead
  BY <1>3 DEF OpenDead, telegram, backend, Load
<1>4. CASE Close
  BY <1>4 DEF Close, telegram, backend
<1>5. CASE TimeIsUp
  BY <1>5 DEF TimeIsUp, telegram, backend, Expire, Forget, Settled
<1>6. CASE PressDigit
  BY <1>6 DEF PressDigit, telegram, backend, PadUsable
<1>7. CASE Backspace
  BY <1>7 DEF Backspace, telegram, backend, PadUsable
<1>8. CASE TokenDies
  BY <1>8 DEF TokenDies, telegram
<1>9. ASSUME NEW h \in Handlers, OpenFresh(h) PROVE WayOn'
  BY <1>9 DEF OpenFresh, telegram, backend, Load, Begin
<1>10. ASSUME NEW h \in Handlers, OpenSaved(h) PROVE WayOn'
  BY <1>10 DEF OpenSaved, telegram, backend, Load, Begin
<1>11. ASSUME NEW h \in Handlers, OpenLate(h) PROVE WayOn'
  BY <1>11 DEF OpenLate, telegram, backend, Load, Begin, Forget
<1>12. ASSUME NEW h \in Handlers, SendConnects(h) PROVE WayOn'
  BY <1>12, FreshKey DEF SendConnects, backend, Runs
<1>13. ASSUME NEW h \in Handlers, SendUnconnected(h) PROVE WayOn'
  BY <1>13 DEF SendUnconnected, telegram, backend, Runs
<1>14. ASSUME NEW h \in Handlers, SendConnectFails(h) PROVE WayOn'
  BY <1>14 DEF SendConnectFails, telegram, backend, End, Runs
<1>15. ASSUME NEW h \in Handlers, Attach(h) PROVE WayOn'
  BY <1>15 DEF Attach, telegram, backend, End, Runs
<1>16. ASSUME NEW h \in Handlers, AttachFails(h) PROVE WayOn'
  BY <1>16 DEF AttachFails, telegram, backend, Runs, Forget
<1>17. ASSUME NEW h \in Handlers, Retry(h) PROVE WayOn'
  BY <1>17 DEF Retry, telegram, backend, Begin
<1>18. ASSUME NEW h \in Handlers, RequestCode(h) PROVE WayOn'
  BY <1>18, FreshKey, FreshHash DEF RequestCode, backend, Runs
<1>19. ASSUME NEW h \in Handlers, CodeSent(h) PROVE WayOn'
  BY <1>19 DEF CodeSent, telegram, backend, End, Runs
<1>20. ASSUME NEW h \in Handlers, SendFails(h) PROVE WayOn'
  BY <1>20 DEF SendFails, telegram, backend, End, Runs
<1>21. ASSUME NEW h \in Handlers, SubmitCode(h) PROVE WayOn'
  BY <1>21 DEF SubmitCode, telegram, backend, Begin, PadUsable
<1>22. ASSUME NEW h \in Handlers, SignIn(h) PROVE WayOn'
  BY <1>22 DEF SignIn, backend, Runs, Answers
<1>23. ASSUME NEW h \in Handlers, SignedIn(h) PROVE WayOn'
  BY <1>23 DEF SignedIn, telegram, backend
<1>24. ASSUME NEW h \in Handlers, PasswordNeeded(h) PROVE WayOn'
  BY <1>24 DEF PasswordNeeded, telegram, backend, End, Runs
<1>25. ASSUME NEW h \in Handlers, CodeExpired(h) PROVE WayOn'
  BY <1>25 DEF CodeExpired, telegram, backend, End, Runs, Forget
<1>26. ASSUME NEW h \in Handlers, CodeRefused(h) PROVE WayOn'
  BY <1>26 DEF CodeRefused, telegram, backend, End, MayThrow
<1>27. ASSUME NEW h \in Handlers, SendPassword(h) PROVE WayOn'
  BY <1>27 DEF SendPassword, telegram, backend, Begin
<1>28. ASSUME NEW h \in Handlers, CheckPassword(h) PROVE WayOn'
  BY <1>28 DEF CheckPassword, backend, Runs, Answers
<1>29. ASSUME NEW h \in Handlers, PasswordRefused(h) PROVE WayOn'
  BY <1>29 DEF PasswordRefused, telegram, backend, End, MayThrow
<1>30. ASSUME NEW h \in Handlers, HandOff(h) PROVE WayOn'
  BY <1>30 DEF HandOff, telegram, backend, Replies
<1>31. ASSUME NEW h \in Handlers, Accepted(h) PROVE WayOn'
  BY <1>31 DEF Accepted, telegram, backend, End, Forget, Settled, Posted
<1>32. ASSUME NEW h \in Handlers, Rejected(h) PROVE WayOn'
  BY <1>32 DEF Rejected, telegram, backend, End, Posted
<1>33. ASSUME NEW h \in Handlers, Gone(h) PROVE WayOn'
  BY <1>33 DEF Gone, telegram, backend, End, Expire, Posted, Forget, Settled
<1>34. ASSUME NEW g \in Hashes, CodeDies(g) PROVE WayOn'
  BY <1>34 DEF CodeDies, backend
<1> QED
  BY <1>1, <1>2, <1>3, <1>4, <1>5, <1>6, <1>7, <1>8, <1>9, <1>10, <1>11,
     <1>12, <1>13, <1>14, <1>15, <1>16, <1>17, <1>18, <1>19, <1>20, <1>21,
     <1>22, <1>23, <1>24, <1>25, <1>26, <1>27, <1>28, <1>29, <1>30, <1>31,
     <1>32, <1>33, <1>34 DEF Next, HandlerNext

-----------------------------------------------------------------------------
(* The theorems. *)

\* The initial states satisfy the invariant.
LEMMA InitHolds == ASSUME PageAssumption, Init PROVE IInv
<1> USE DEF Init, Closed, Idle, NoAttempt
<1>1. TypeOK
  BY NoDigits DEF TypeOK, PageAssumption, PageStates, HandlerStates, Attempts, Screens
<1>2. Phases
  BY DEF Phases, Kind, AllIdle
<1>3. KeysFit
  BY DEF KeysFit
<1>4. Links
  BY DEF Links, DoneMeansLinked
<1>5. WayOn
  BY DEF WayOn
<1> QED BY <1>1, <1>2, <1>3, <1>4, <1>5 DEF IInv

\* Every step keeps the invariant.
LEMMA NextHolds == ASSUME PageAssumption, IInv, [Next]_vars PROVE IInv'
BY TypeStep, PhaseStep, KeyStep, LinkStep, WayOnStep DEF IInv

\* The invariant implies the properties.
LEMMA Implied ==
  ASSUME PageAssumption, IInv
  PROVE  TypeOK /\ PendingIsResumable /\ HashFitsClient /\ DoneMeansLinked /\ CodeScreenHasWayOn
<1>1. PendingIsResumable
  BY DEF IInv, KeysFit, Requested, PendingIsResumable
<1>2. HashFitsClient
  BY DEF IInv, KeysFit, Requested, HashFitsClient, PadUsable
<1>3. CodeScreenHasWayOn
  BY DEF IInv, WayOn, CodeScreenHasWayOn, AllIdle, Idle
<1> QED BY <1>1, <1>2, <1>3 DEF IInv, Links

\* The invariant holds of every behaviour.
LEMMA Always == ASSUME PageAssumption PROVE Spec => []IInv
BY InitHolds, NextHolds, PTL DEF Spec

\* The page, its handlers, its stored attempt and what Telegram and the backend
\* hold keep their types, and the display never holds more digits than a code.
THEOREM PageTypeCorrect == ASSUME PageAssumption PROVE Spec => []TypeOK
<1>1. IInv => TypeOK
  BY Implied
<1> QED BY Always, <1>1, PTL

\* Whatever order visits, requests, redirections and expiries come in, the
\* stored attempt (savePending) is a hash with the key that requested it.
THEOREM ResumableAttempt == ASSUME PageAssumption PROVE Spec => []PendingIsResumable
<1>1. IInv => PendingIsResumable
  BY Implied
<1> QED BY Always, <1>1, PTL

\* The pad is only ever enabled over a hash that the client's key requested.
THEOREM HashOfClient == ASSUME PageAssumption PROVE Spec => []HashFitsClient
<1>1. IInv => HashFitsClient
  BY Implied
<1> QED BY Always, <1>1, PTL

\* The page says "connected" only when the backend has saved this client's
\* authorised session and spent the token.
THEOREM DoneIsLinked == ASSUME PageAssumption PROVE Spec => []DoneMeansLinked
<1>1. IInv => DoneMeansLinked
  BY Implied
<1> QED BY Always, <1>1, PTL

\* The code screen without a request under way has a usable pad or a retry
\* button, for any number of handlers answered in any order.
THEOREM WayOnAlways == ASSUME PageAssumption PROVE Spec => []CodeScreenHasWayOn
<1>1. IInv => CodeScreenHasWayOn
  BY Implied
<1> QED BY Always, <1>1, PTL

-----------------------------------------------------------------------------
(* What may be left in storage.                                             *)

\* Both of these happen, and PageLeftBehind shows the first: an answer to
\* sendCode that comes when the page is settled, and a page rendered for a
\* dead token, whose expire() clears another entry.
NoLateCode ==
  [][\A h \in Handlers : CodeSent(h) => page.screen \notin {"done", "expired"}]_vars
NoDeadVisit == [][OpenDead => pending = NoAttempt]_vars

\* A settled page has cleared the attempt, whatever its handlers still do.
Cleared == page.screen \in {"done", "expired"} => pending = NoAttempt

\* Each of the other steps leaves both alone, or settles and clears, or leaves
\* an unsettled screen.
LEMMA ClearedStep ==
  ASSUME PageAssumption, TypeOK, Cleared, Next,
         \A h \in Handlers : CodeSent(h) => page.screen \notin {"done", "expired"},
         OpenDead => pending = NoAttempt
  PROVE  Cleared'
<1> USE DEF TypeOK, PageStates, Cleared
<1>1. CASE OpenDead
  BY <1>1 DEF OpenDead
<1>2. CASE OpenOutside
  BY <1>2 DEF OpenOutside, Closed
<1>3. CASE Close
  BY <1>3 DEF Close, Closed
<1>4. CASE TimeIsUp
  BY <1>4 DEF TimeIsUp, Expire, Forget
<1>5. CASE PressDigit \/ Backspace \/ TokenDies \/ \E g \in Hashes : CodeDies(g)
  BY <1>5 DEF PressDigit, Backspace, TokenDies, CodeDies
<1>6. ASSUME NEW h \in Handlers, OpenFresh(h) \/ OpenSaved(h) \/ OpenLate(h)
      PROVE  Cleared'
  BY <1>6 DEF OpenFresh, OpenSaved, OpenLate, Closed
<1>7. ASSUME NEW h \in Handlers, CodeSent(h) PROVE Cleared'
  BY <1>7 DEF CodeSent
<1>8. ASSUME NEW h \in Handlers, PasswordNeeded(h) PROVE Cleared'
  BY <1>8 DEF PasswordNeeded
<1>9. ASSUME NEW h \in Handlers, AttachFails(h) \/ CodeExpired(h) \/ Accepted(h) \/ Gone(h)
      PROVE  Cleared'
  BY <1>9 DEF AttachFails, CodeExpired, Accepted, Gone, Expire, Forget
<1>10. ASSUME NEW h \in Handlers,
              SendConnects(h) \/ SendUnconnected(h) \/ SendConnectFails(h) \/ Attach(h)
       PROVE  Cleared'
  BY <1>10 DEF SendConnects, SendUnconnected, SendConnectFails, Attach
<1>11. ASSUME NEW h \in Handlers,
              Retry(h) \/ RequestCode(h) \/ SendFails(h) \/ CodeRefused(h)
                \/ SendPassword(h) \/ PasswordRefused(h)
       PROVE  Cleared'
  BY <1>11 DEF Retry, RequestCode, SendFails, CodeRefused, SendPassword, PasswordRefused
<1>12. ASSUME NEW h \in Handlers,
              SubmitCode(h) \/ SignIn(h) \/ SignedIn(h) \/ CheckPassword(h)
                \/ HandOff(h) \/ Rejected(h)
       PROVE  Cleared'
  BY <1>12 DEF SubmitCode, SignIn, SignedIn, CheckPassword, HandOff, Rejected
<1> QED
  BY <1>1, <1>2, <1>3, <1>4, <1>5, <1>6, <1>7, <1>8, <1>9, <1>10, <1>11, <1>12
  DEF Next, HandlerNext

\* app.js:116: the attempt is cleared "the moment it's no longer needed".  Late
\* codes and dead visits are the only two ways the page breaks its word.
THEOREM ClearedButTwoWays ==
  ASSUME PageAssumption
  PROVE  Spec /\ NoLateCode /\ NoDeadVisit => []NothingLeftBehind
<1>1. Init => Cleared
  BY DEF Init, Cleared
<1>2. /\ TypeOK /\ Cleared /\ [Next]_vars
      /\ [\A h \in Handlers : CodeSent(h) => page.screen \notin {"done", "expired"}]_vars
      /\ [OpenDead => pending = NoAttempt]_vars
      => Cleared'
  <2>1. CASE UNCHANGED vars
    BY <2>1 DEF vars, Cleared
  <2> QED BY <2>1, ClearedStep DEF vars
<1>3. Cleared => NothingLeftBehind
  BY DEF Cleared, NothingLeftBehind
<1> QED BY <1>1, <1>2, <1>3, PageTypeCorrect, PTL DEF Spec, NoLateCode, NoDeadVisit

=============================================================================
