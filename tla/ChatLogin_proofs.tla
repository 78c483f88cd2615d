-------------------------- MODULE ChatLogin_proofs --------------------------
(***************************************************************************)
(* Proofs about ChatLogin for every number of handlers, clients, digits    *)
(* and restarts.                                                           *)
(***************************************************************************)
EXTENDS ChatLogin, TLAPS

-----------------------------------------------------------------------------
(* The inductive invariant. *)

\* A handler that works on an attempt has one, and once Telegram has accepted
\* its sign-in the attempt is signed in.
HandlersHold ==
  \A h \in Handlers :
    /\ handlers[h].job # "start" /\ handlers[h].at \in {"ask", "answered"}
         => handlers[h].a \in Attempts
    /\ handlers[h].at = "begun" => handlers[h].a \in Attempts
    /\ handlers[h].at \in {"answered", "get_me", "pop", "save"}
         => handlers[h].job # "start"
    /\ \/ handlers[h].at \in {"get_me", "pop", "save"}
       \/ handlers[h].at = "answered" /\ handlers[h].reply = "ok"
       => handlers[h].a \in signed

\* A client nobody has connected yet is nobody's.
NewIsFree ==
  \A a \in Attempts : client[a] = "new" =>
    registry # a /\ \A h \in Handlers : handlers[h].a # a

\* A start that waits for its code request has an open client to itself.
Starting(h) == Does(h, "start", "ask")

StartersOwn ==
  \A h \in Handlers : Starting(h) =>
    /\ handlers[h].a \in Attempts
    /\ client[handlers[h].a] = "open"
    /\ registry # handlers[h].a
    /\ \A i \in Handlers \ {h} : handlers[i].a # handlers[h].a

CoreInv == TypeOK /\ HandlersHold /\ NewIsFree /\ StartersOwn /\ RegisteredIsUsable

\* As long as no start runs among other handlers: a handler that is past the
\* start works on the registered attempt or on one that is registered no more.
OthersAgree ==
  overlap # "start" =>
    /\ \A h, i \in Handlers :
         handlers[h] # Idle /\ handlers[h].job = "start" /\ handlers[i] # Idle => h = i
    /\ \A h \in Handlers : handlers[h] # Idle /\ handlers[h].job # "start" =>
         registry \in {handlers[h].a, NoAttempt}
    /\ \A h \in Handlers :
         Does(h, "start", "connect") \/ Starting(h) => registry = NoAttempt

\* ... and every open client is registered, or a start is about to register
\* it or to close it.
OpenIsOwned ==
  overlap # "start" => \A a \in Attempts : client[a] = "open" =>
    registry = a \/ \E h \in Handlers : Starting(h) /\ handlers[h].a = a

PopIsClosed ==
  \A h \in Handlers : handlers[h].at = "pop" => client[handlers[h].a] # "open"

OwnedInv == OthersAgree /\ OpenIsOwned /\ PopIsClosed

\* One handler at a time: it works on the registered attempt until it closes
\* it, and everything signed in is saved, lost, or in its hands.
Alone ==
  overlap = "none" => \A h, i \in Handlers :
    handlers[h] # Idle /\ handlers[i] # Idle => h = i

HoldsRegistered ==
  overlap = "none" => \A h \in Handlers :
    \/ handlers[h].job # "start" /\ handlers[h].at \in {"ask", "answered", "get_me"}
    \/ handlers[h].at = "begun"
    => registry = handlers[h].a /\ registry # NoAttempt

ScreenInv ==
  overlap = "none" /\ fsm \in {"code", "password"} /\ registry = NoAttempt =>
    \E h \in Handlers : handlers[h].at \in {"connect", "save", "clear"} \/ Starting(h)

SignedInv ==
  overlap = "none" => \A a \in signed :
    \/ a \in saved \cup lost
    \/ \E h \in Handlers :
         /\ handlers[h].a = a
         /\ \/ handlers[h].at \in {"get_me", "pop", "save"}
            \/ handlers[h].at = "answered" /\ handlers[h].reply = "ok"

AloneInv == Alone /\ HoldsRegistered /\ ScreenInv /\ SignedInv

-----------------------------------------------------------------------------

\* The client a start takes is one nobody has connected.
LEMMA NewClientIsNew ==
  ASSUME \E a \in Attempts : client[a] = "new"
  PROVE  NewClient \in Attempts /\ client[NewClient] = "new"
BY DEF NewClient

\* Types, action by action.
LEMMA TypeStep ==
  ASSUME ChatAssumption, TypeOK, HandlersHold, [Next]_vars
  PROVE  TypeOK'
<1> USE DEF TypeOK, HandlerStates, HandlersHold, Idle, ChatAssumption
<1>1. CASE AskPhone
  BY <1>1 DEF AskPhone
<1>2. CASE OtherDialogue
  BY <1>2 DEF OtherDialogue
<1>3. CASE Stale
  BY <1>3 DEF Stale
<1>4. CASE PushDigit
  BY <1>4 DEF PushDigit, Keypad
<1>5. CASE Backspace
  BY <1>5 DEF Backspace, Keypad
<1>6. CASE Restart
  BY <1>6 DEF Restart
<1>7. ASSUME NEW h \in Handlers, BeginLogin(h) PROVE TypeOK'
  BY <1>7 DEF BeginLogin, Begin
<1>8. ASSUME NEW h \in Handlers, StartCancel(h) PROVE TypeOK'
  BY <1>8 DEF StartCancel, Cancel, Does, Goes
<1>9. ASSUME NEW h \in Handlers, StartConnect(h) PROVE TypeOK'
  BY <1>9, NewClientIsNew DEF StartConnect, Does, Goes
<1>10. ASSUME NEW h \in Handlers, StartCode(h) PROVE TypeOK'
  BY <1>10 DEF StartCode, Does, Goes
<1>11. ASSUME NEW h \in Handlers, StartDone(h) PROVE TypeOK'
  BY <1>11 DEF StartDone, At, End
<1>12. ASSUME NEW h \in Handlers, Clear(h) PROVE TypeOK'
  BY <1>12 DEF Clear, At, End
<1>13. ASSUME NEW h \in Handlers, Submit(h) PROVE TypeOK'
  BY <1>13 DEF Submit, Keypad, Begin
<1>14. ASSUME NEW h \in Handlers, Resend(h) PROVE TypeOK'
  BY <1>14 DEF Resend, Keypad, Begin
<1>15. ASSUME NEW h \in Handlers, Resent(h) PROVE TypeOK'
  BY <1>15 DEF Resent, Does, End
<1>16. ASSUME NEW h \in Handlers, Password(h) PROVE TypeOK'
  BY <1>16 DEF Password, Begin
<1>17. ASSUME NEW h \in Handlers, SignIn(h) PROVE TypeOK'
  BY <1>17 DEF SignIn, At, Answered
<1>18. ASSUME NEW h \in Handlers, PasswordNeeded(h) PROVE TypeOK'
  BY <1>18 DEF PasswordNeeded, Got, At, End
<1>19. ASSUME NEW h \in Handlers, Refused(h) PROVE TypeOK'
  BY <1>19 DEF Refused, Got, At, End
<1>20. ASSUME NEW h \in Handlers, Fails(h) PROVE TypeOK'
  BY <1>20 DEF Fails, Got, At, Cancel, Goes
<1>21. ASSUME NEW h \in Handlers, SignedIn(h) PROVE TypeOK'
  BY <1>21 DEF SignedIn, Got, At, Goes
<1>22. ASSUME NEW h \in Handlers, GetMe(h) PROVE TypeOK'
  BY <1>22 DEF GetMe, At, Goes
<1>23. ASSUME NEW h \in Handlers, GetMeFails(h) PROVE TypeOK'
  BY <1>23 DEF GetMeFails, At, End
<1>24. ASSUME NEW h \in Handlers, Pop(h) PROVE TypeOK'
  BY <1>24 DEF Pop, At, Goes
<1>25. ASSUME NEW h \in Handlers, Save(h) PROVE TypeOK'
  BY <1>25 DEF Save, At, Goes
<1>26. CASE UNCHANGED vars
  BY <1>26 DEF vars
<1> QED
  BY <1>1, <1>2, <1>3, <1>4, <1>5, <1>6, <1>7, <1>8, <1>9, <1>10, <1>11,
     <1>12, <1>13, <1>14, <1>15, <1>16, <1>17, <1>18, <1>19, <1>20,
     <1>21, <1>22, <1>23, <1>24, <1>25, <1>26 DEF Next, HandlerNext

\* Handlers keep their attempt, and what Telegram accepted.
LEMMA HoldStep ==
  ASSUME ChatAssumption, TypeOK, HandlersHold, StartersOwn, [Next]_vars
  PROVE  HandlersHold'
<1> USE DEF TypeOK, HandlerStates, HandlersHold, StartersOwn, Starting, Does, Idle
<1>1. CASE AskPhone
  BY <1>1 DEF AskPhone
<1>2. CASE OtherDialogue
  BY <1>2 DEF OtherDialogue
<1>3. CASE Stale
  BY <1>3 DEF Stale
<1>4. CASE PushDigit
  BY <1>4 DEF PushDigit, Keypad
<1>5. CASE Backspace
  BY <1>5 DEF Backspace, Keypad
<1>6. CASE Restart
  BY <1>6 DEF Restart
<1>7. ASSUME NEW h \in Handlers, BeginLogin(h) PROVE HandlersHold'
  BY <1>7 DEF BeginLogin, Begin
<1>8. ASSUME NEW h \in Handlers, StartCancel(h) PROVE HandlersHold'
  BY <1>8 DEF StartCancel, Cancel, Does, Goes
<1>9. ASSUME NEW h \in Handlers, StartConnect(h) PROVE HandlersHold'
  BY <1>9, NewClientIsNew DEF StartConnect, Does, Goes
<1>10. ASSUME NEW h \in Handlers, StartCode(h) PROVE HandlersHold'
  BY <1>10 DEF StartCode, Does, Goes
<1>11. ASSUME NEW h \in Handlers, StartDone(h) PROVE HandlersHold'
  BY <1>11 DEF StartDone, At, End
<1>12. ASSUME NEW h \in Handlers, Clear(h) PROVE HandlersHold'
  BY <1>12 DEF Clear, At, End
<1>13. ASSUME NEW h \in Handlers, Submit(h) PROVE HandlersHold'
  BY <1>13 DEF Submit, Keypad, Begin
<1>14. ASSUME NEW h \in Handlers, Resend(h) PROVE HandlersHold'
  BY <1>14 DEF Resend, Keypad, Begin
<1>15. ASSUME NEW h \in Handlers, Resent(h) PROVE HandlersHold'
  BY <1>15 DEF Resent, Does, End
<1>16. ASSUME NEW h \in Handlers, Password(h) PROVE HandlersHold'
  BY <1>16 DEF Password, Begin
<1>17. ASSUME NEW h \in Handlers, SignIn(h) PROVE HandlersHold'
  BY <1>17 DEF SignIn, At, Answered
<1>18. ASSUME NEW h \in Handlers, PasswordNeeded(h) PROVE HandlersHold'
  BY <1>18 DEF PasswordNeeded, Got, At, End
<1>19. ASSUME NEW h \in Handlers, Refused(h) PROVE HandlersHold'
  BY <1>19 DEF Refused, Got, At, End
<1>20. ASSUME NEW h \in Handlers, Fails(h) PROVE HandlersHold'
  BY <1>20 DEF Fails, Got, At, Cancel, Goes
<1>21. ASSUME NEW h \in Handlers, SignedIn(h) PROVE HandlersHold'
  BY <1>21 DEF SignedIn, Got, At, Goes
<1>22. ASSUME NEW h \in Handlers, GetMe(h) PROVE HandlersHold'
  BY <1>22 DEF GetMe, At, Goes
<1>23. ASSUME NEW h \in Handlers, GetMeFails(h) PROVE HandlersHold'
  BY <1>23 DEF GetMeFails, At, End
<1>24. ASSUME NEW h \in Handlers, Pop(h) PROVE HandlersHold'
  BY <1>24 DEF Pop, At, Goes
<1>25. ASSUME NEW h \in Handlers, Save(h) PROVE HandlersHold'
  BY <1>25 DEF Save, At, Goes
<1>26. CASE UNCHANGED vars
  BY <1>26 DEF vars
<1> QED
  BY <1>1, <1>2, <1>3, <1>4, <1>5, <1>6, <1>7, <1>8, <1>9, <1>10, <1>11,
     <1>12, <1>13, <1>14, <1>15, <1>16, <1>17, <1>18, <1>19, <1>20,
     <1>21, <1>22, <1>23, <1>24, <1>25, <1>26 DEF Next, HandlerNext

\* Only StartConnect hands out a new client, and it connects it.
LEMMA NewStep ==
  ASSUME ChatAssumption, TypeOK, HandlersHold, NewIsFree, StartersOwn, [Next]_vars
  PROVE  NewIsFree'
<1> USE DEF TypeOK, HandlerStates, HandlersHold, NewIsFree, StartersOwn, Starting,
            Does, Idle, ChatAssumption
<1>1. CASE AskPhone
  BY <1>1 DEF AskPhone
<1>2. CASE OtherDialogue
  BY <1>2 DEF OtherDialogue
<1>3. CASE Stale
  BY <1>3 DEF Stale
<1>4. CASE PushDigit
  BY <1>4 DEF PushDigit, Keypad
<1>5. CASE Backspace
  BY <1>5 DEF Backspace, Keypad
<1>6. CASE Restart
  BY <1>6 DEF Restart
<1>7. ASSUME NEW h \in Handlers, BeginLogin(h) PROVE NewIsFree'
  BY <1>7 DEF BeginLogin, Begin
<1>8. ASSUME NEW h \in Handlers, StartCancel(h) PROVE NewIsFree'
  BY <1>8 DEF StartCancel, Cancel, Does, Goes
<1>9. ASSUME NEW h \in Handlers, StartConnect(h) PROVE NewIsFree'
  BY <1>9, NewClientIsNew DEF StartConnect, Does, Goes
<1>10. ASSUME NEW h \in Handlers, StartCode(h) PROVE NewIsFree'
  BY <1>10 DEF StartCode, Does, Goes
<1>11. ASSUME NEW h \in Handlers, StartDone(h) PROVE NewIsFree'
  BY <1>11 DEF StartDone, At, End
<1>12. ASSUME NEW h \in Handlers, Clear(h) PROVE NewIsFree'
  BY <1>12 DEF Clear, At, End
<1>13. ASSUME NEW h \in Handlers, Submit(h) PROVE NewIsFree'
  BY <1>13 DEF Submit, Keypad, Begin
<1>14. ASSUME NEW h \in Handlers, Resend(h) PROVE NewIsFree'
  BY <1>14 DEF Resend, Keypad, Begin
<1>15. ASSUME NEW h \in Handlers, Resent(h) PROVE NewIsFree'
  BY <1>15 DEF Resent, Does, End
<1>16. ASSUME NEW h \in Handlers, Password(h) PROVE NewIsFree'
  BY <1>16 DEF Password, Begin
<1>17. ASSUME NEW h \in Handlers, SignIn(h) PROVE NewIsFree'
  BY <1>17 DEF SignIn, At, Answered
<1>18. ASSUME NEW h \in Handlers, PasswordNeeded(h) PROVE NewIsFree'
  BY <1>18 DEF PasswordNeeded, Got, At, End
<1>19. ASSUME NEW h \in Handlers, Refused(h) PROVE NewIsFree'
  BY <1>19 DEF Refused, Got, At, End
<1>20. ASSUME NEW h \in Handlers, Fails(h) PROVE NewIsFree'
  BY <1>20 DEF Fails, Got, At, Cancel, Goes
<1>21. ASSUME NEW h \in Handlers, SignedIn(h) PROVE NewIsFree'
  BY <1>21 DEF SignedIn, Got, At, Goes
<1>22. ASSUME NEW h \in Handlers, GetMe(h) PROVE NewIsFree'
  BY <1>22 DEF GetMe, At, Goes
<1>23. ASSUME NEW h \in Handlers, GetMeFails(h) PROVE NewIsFree'
  BY <1>23 DEF GetMeFails, At, End
<1>24. ASSUME NEW h \in Handlers, Pop(h) PROVE NewIsFree'
  BY <1>24 DEF Pop, At, Goes
<1>25. ASSUME NEW h \in Handlers, Save(h) PROVE NewIsFree'
  BY <1>25 DEF Save, At, Goes
<1>26. CASE UNCHANGED vars
  BY <1>26 DEF vars
<1> QED
  BY <1>1, <1>2, <1>3, <1>4, <1>5, <1>6, <1>7, <1>8, <1>9, <1>10, <1>11,
     <1>12, <1>13, <1>14, <1>15, <1>16, <1>17, <1>18, <1>19, <1>20,
     <1>21, <1>22, <1>23, <1>24, <1>25, <1>26 DEF Next, HandlerNext

\* No handler reaches the client of a start before it is registered.
LEMMA StarterStep ==
  ASSUME ChatAssumption, TypeOK, HandlersHold, NewIsFree, StartersOwn, [Next]_vars
  PROVE  StartersOwn'
<1> USE DEF TypeOK, HandlerStates, HandlersHold, NewIsFree, StartersOwn, Starting,
            Does, Idle, ChatAssumption
<1>1. CASE AskPhone
  BY <1>1 DEF AskPhone
<1>2. CASE OtherDialogue
  BY <1>2 DEF OtherDialogue
<1>3. CASE Stale
  BY <1>3 DEF Stale
<1>4. CASE PushDigit
  BY <1>4 DEF PushDigit, Keypad
<1>5. CASE Backspace
  BY <1>5 DEF Backspace, Keypad
<1>6. CASE Restart
  BY <1>6 DEF Restart
<1>7. ASSUME NEW h \in Handlers, BeginLogin(h) PROVE StartersOwn'
  BY <1>7 DEF BeginLogin, Begin
<1>8. ASSUME NEW h \in Handlers, StartCancel(h) PROVE StartersOwn'
  BY <1>8 DEF StartCancel, Cancel, Does, Goes
<1>9. ASSUME NEW h \in Handlers, StartConnect(h) PROVE StartersOwn'
  BY <1>9, NewClientIsNew DEF StartConnect, Does, Goes
<1>10. ASSUME NEW h \in Handlers, StartCode(h) PROVE StartersOwn'
  BY <1>10 DEF StartCode, Does, Goes
<1>11. ASSUME NEW h \in Handlers, StartDone(h) PROVE StartersOwn'
  BY <1>11 DEF StartDone, At, End
<1>12. ASSUME NEW h \in Handlers, Clear(h) PROVE StartersOwn'
  BY <1>12 DEF Clear, At, End
<1>13. ASSUME NEW h \in Handlers, Submit(h) PROVE StartersOwn'
  BY <1>13 DEF Submit, Keypad, Begin
<1>14. ASSUME NEW h \in Handlers, Resend(h) PROVE StartersOwn'
  BY <1>14 DEF Resend, Keypad, Begin
<1>15. ASSUME NEW h \in Handlers, Resent(h) PROVE StartersOwn'
  BY <1>15 DEF Resent, Does, End
<1>16. ASSUME NEW h \in Handlers, Password(h) PROVE StartersOwn'
  BY <1>16 DEF Password, Begin
<1>17. ASSUME NEW h \in Handlers, SignIn(h) PROVE StartersOwn'
  BY <1>17 DEF SignIn, At, Answered
<1>18. ASSUME NEW h \in Handlers, PasswordNeeded(h) PROVE StartersOwn'
  BY <1>18 DEF PasswordNeeded, Got, At, End
<1>19. ASSUME NEW h \in Handlers, Refused(h) PROVE StartersOwn'
  BY <1>19 DEF Refused, Got, At, End
<1>20. ASSUME NEW h \in Handlers, Fails(h) PROVE StartersOwn'
  BY <1>20 DEF Fails, Got, At, Cancel, Goes
<1>21. ASSUME NEW h \in Handlers, SignedIn(h) PROVE StartersOwn'
  BY <1>21 DEF SignedIn, Got, At, Goes
<1>22. ASSUME NEW h \in Handlers, GetMe(h) PROVE StartersOwn'
  BY <1>22 DEF GetMe, At, Goes
<1>23. ASSUME NEW h \in Handlers, GetMeFails(h) PROVE StartersOwn'
  BY <1>23 DEF GetMeFails, At, End
<1>24. ASSUME NEW h \in Handlers, Pop(h) PROVE StartersOwn'
  BY <1>24 DEF Pop, At, Goes
<1>25. ASSUME NEW h \in Handlers, Save(h) PROVE StartersOwn'
  BY <1>25 DEF Save, At, Goes
<1>26. CASE UNCHANGED vars
  BY <1>26 DEF vars
<1> QED
  BY <1>1, <1>2, <1>3, <1>4, <1>5, <1>6, <1>7, <1>8, <1>9, <1>10, <1>11,
     <1>12, <1>13, <1>14, <1>15, <1>16, <1>17, <1>18, <1>19, <1>20,
     <1>21, <1>22, <1>23, <1>24, <1>25, <1>26 DEF Next, HandlerNext

\* Clients are closed by Cancel, which empties the registry, by a failed
\* start, whose client is its own, and by GetMe, which goes to its pop.
LEMMA UsableStep ==
  ASSUME ChatAssumption, CoreInv, [Next]_vars
  PROVE  RegisteredIsUsable'
<1> USE DEF CoreInv, TypeOK, HandlerStates, NewIsFree, StartersOwn, Starting, Does,
            Idle, ChatAssumption, RegisteredIsUsable
<1>1. CASE AskPhone
  BY <1>1 DEF AskPhone
<1>2. CASE OtherDialogue
  BY <1>2 DEF OtherDialogue
<1>3. CASE Stale
  BY <1>3 DEF Stale
<1>4. CASE PushDigit
  BY <1>4 DEF PushDigit, Keypad
<1>5. CASE Backspace
  BY <1>5 DEF Backspace, Keypad
<1>6. CASE Restart
  BY <1>6 DEF Restart
<1>7. ASSUME NEW h \in Handlers, BeginLogin(h) PROVE RegisteredIsUsable'
  BY <1>7 DEF BeginLogin, Begin
<1>8. ASSUME NEW h \in Handlers, StartCancel(h) PROVE RegisteredIsUsable'
  BY <1>8 DEF StartCancel, Cancel, Does, Goes
<1>9. ASSUME NEW h \in Handlers, StartConnect(h) PROVE RegisteredIsUsable'
  BY <1>9, NewClientIsNew DEF StartConnect, Does, Goes
<1>10. ASSUME NEW h \in Handlers, StartCode(h) PROVE RegisteredIsUsable'
  BY <1>10 DEF StartCode, Does, Goes
<1>11. ASSUME NEW h \in Handlers, StartDone(h) PROVE RegisteredIsUsable'
  BY <1>11 DEF StartDone, At, End
<1>12. ASSUME NEW h \in Handlers, Clear(h) PROVE RegisteredIsUsable'
  BY <1>12 DEF Clear, At, End
<1>13. ASSUME NEW h \in Handlers, Submit(h) PROVE RegisteredIsUsable'
  BY <1>13 DEF Submit, Keypad, Begin
<1>14. ASSUME NEW h \in Handlers, Resend(h) PROVE RegisteredIsUsable'
  BY <1>14 DEF Resend, Keypad, Begin
<1>15. ASSUME NEW h \in Handlers, Resent(h) PROVE RegisteredIsUsable'
  BY <1>15 DEF Resent, Does, End
<1>16. ASSUME NEW h \in Handlers, Password(h) PROVE RegisteredIsUsable'
  BY <1>16 DEF Password, Begin
<1>17. ASSUME NEW h \in Handlers, SignIn(h) PROVE RegisteredIsUsable'
  BY <1>17 DEF SignIn, At, Answered
<1>18. ASSUME NEW h \in Handlers, PasswordNeeded(h) PROVE RegisteredIsUsable'
  BY <1>18 DEF PasswordNeeded, Got, At, End
<1>19. ASSUME NEW h \in Handlers, Refused(h) PROVE RegisteredIsUsable'
  BY <1>19 DEF Refused, Got, At, End
<1>20. ASSUME NEW h \in Handlers, Fails(h) PROVE RegisteredIsUsable'
  BY <1>20 DEF Fails, Got, At, Cancel, Goes
<1>21. ASSUME NEW h \in Handlers, SignedIn(h) PROVE RegisteredIsUsable'
  BY <1>21 DEF SignedIn, Got, At, Goes
<1>22. ASSUME NEW h \in Handlers, GetMe(h) PROVE RegisteredIsUsable'
  BY <1>22 DEF GetMe, At, Goes
<1>23. ASSUME NEW h \in Handlers, GetMeFails(h) PROVE RegisteredIsUsable'
  BY <1>23 DEF GetMeFails, At, End
<1>24. ASSUME NEW h \in Handlers, Pop(h) PROVE RegisteredIsUsable'
  BY <1>24 DEF Pop, At, Goes
<1>25. ASSUME NEW h \in Handlers, Save(h) PROVE RegisteredIsUsable'
  BY <1>25 DEF Save, At, Goes
<1>26. CASE UNCHANGED vars
  BY <1>26 DEF vars
<1> QED
  BY <1>1, <1>2, <1>3, <1>4, <1>5, <1>6, <1>7, <1>8, <1>9, <1>10, <1>11,
     <1>12, <1>13, <1>14, <1>15, <1>16, <1>17, <1>18, <1>19, <1>20,
     <1>21, <1>22, <1>23, <1>24, <1>25, <1>26 DEF Next, HandlerNext

\* Without overlapping starts the registry changes hands only to nobody.
LEMMA AgreeStep ==
  ASSUME ChatAssumption, CoreInv, OwnedInv, [Next]_vars
  PROVE  OthersAgree'
<1> USE DEF CoreInv, TypeOK, HandlerStates, HandlersHold, NewIsFree, StartersOwn,
            Starting, Does, Idle, Busy, ChatAssumption, OwnedInv, OthersAgree
<1>1. CASE AskPhone
  BY <1>1 DEF AskPhone
<1>2. CASE OtherDialogue
  BY <1>2 DEF OtherDialogue
<1>3. CASE Stale
  BY <1>3 DEF Stale
<1>4. CASE PushDigit
  BY <1>4 DEF PushDigit, Keypad
<1>5. CASE Backspace
  BY <1>5 DEF Backspace, Keypad
<1>6. CASE Restart
  BY <1>6 DEF Restart
<1>7. ASSUME NEW h \in Handlers, BeginLogin(h) PROVE OthersAgree'
  BY <1>7 DEF BeginLogin, Begin
<1>8. ASSUME NEW h \in Handlers, StartCancel(h) PROVE OthersAgree'
  BY <1>8 DEF StartCancel, Cancel, Does, Goes
<1>9. ASSUME NEW h \in Handlers, StartConnect(h) PROVE OthersAgree'
  BY <1>9, NewClientIsNew DEF StartConnect, Does, Goes
<1>10. ASSUME NEW h \in Handlers, StartCode(h) PROVE OthersAgree'
  BY <1>10 DEF StartCode, Does, Goes
<1>11. ASSUME NEW h \in Handlers, StartDone(h) PROVE OthersAgree'
  BY <1>11 DEF StartDone, At, End
<1>12. ASSUME NEW h \in Handlers, Clear(h) PROVE OthersAgree'
  BY <1>12 DEF Clear, At, End
<1>13. ASSUME NEW h \in Handlers, Submit(h) PROVE OthersAgree'
  BY <1>13 DEF Submit, Keypad, Begin
<1>14. ASSUME NEW h \in Handlers, Resend(h) PROVE OthersAgree'
  BY <1>14 DEF Resend, Keypad, Begin
<1>15. ASSUME NEW h \in Handlers, Resent(h) PROVE OthersAgree'
  BY <1>15 DEF Resent, Does, End
<1>16. ASSUME NEW h \in Handlers, Password(h) PROVE OthersAgree'
  BY <1>16 DEF Password, Begin
<1>17. ASSUME NEW h \in Handlers, SignIn(h) PROVE OthersAgree'
  BY <1>17 DEF SignIn, At, Answered
<1>18. ASSUME NEW h \in Handlers, PasswordNeeded(h) PROVE OthersAgree'
  BY <1>18 DEF PasswordNeeded, Got, At, End
<1>19. ASSUME NEW h \in Handlers, Refused(h) PROVE OthersAgree'
  BY <1>19 DEF Refused, Got, At, End
<1>20. ASSUME NEW h \in Handlers, Fails(h) PROVE OthersAgree'
  BY <1>20 DEF Fails, Got, At, Cancel, Goes
<1>21. ASSUME NEW h \in Handlers, SignedIn(h) PROVE OthersAgree'
  BY <1>21 DEF SignedIn, Got, At, Goes
<1>22. ASSUME NEW h \in Handlers, GetMe(h) PROVE OthersAgree'
  BY <1>22 DEF GetMe, At, Goes
<1>23. ASSUME NEW h \in Handlers, GetMeFails(h) PROVE OthersAgree'
  BY <1>23 DEF GetMeFails, At, End
<1>24. ASSUME NEW h \in Handlers, Pop(h) PROVE OthersAgree'
  BY <1>24 DEF Pop, At, Goes
<1>25. ASSUME NEW h \in Handlers, Save(h) PROVE OthersAgree'
  BY <1>25 DEF Save, At, Goes
<1>26. CASE UNCHANGED vars
  BY <1>26 DEF vars
<1> QED
  BY <1>1, <1>2, <1>3, <1>4, <1>5, <1>6, <1>7, <1>8, <1>9, <1>10, <1>11,
     <1>12, <1>13, <1>14, <1>15, <1>16, <1>17, <1>18, <1>19, <1>20,
     <1>21, <1>22, <1>23, <1>24, <1>25, <1>26 DEF Next, HandlerNext

\* Without overlapping starts no step loses sight of an open client.
LEMMA OpenStep ==
  ASSUME ChatAssumption, CoreInv, OwnedInv, [Next]_vars
  PROVE  OpenIsOwned'
<1> USE DEF CoreInv, TypeOK, HandlerStates, HandlersHold, NewIsFree, StartersOwn,
            Starting, Does, Idle, Busy, ChatAssumption, OwnedInv, OthersAgree,
            OpenIsOwned, PopIsClosed
<1>1. CASE AskPhone
  BY <1>1 DEF AskPhone
<1>2. CASE OtherDialogue
  BY <1>2 DEF OtherDialogue
<1>3. CASE Stale
  BY <1>3 DEF Stale
<1>4. CASE PushDigit
  BY <1>4 DEF PushDigit, Keypad
<1>5. CASE Backspace
  BY <1>5 DEF Backspace, Keypad
<1>6. CASE Restart
  BY <1>6 DEF Restart
<1>7. ASSUME NEW h \in Handlers, BeginLogin(h) PROVE OpenIsOwned'
  BY <1>7 DEF BeginLogin, Begin
<1>8. ASSUME NEW h \in Handlers, StartCancel(h) PROVE OpenIsOwned'
  BY <1>8 DEF StartCancel, Cancel, Does, Goes
<1>9. ASSUME NEW h \in Handlers, StartConnect(h) PROVE OpenIsOwned'
  BY <1>9, NewClientIsNew DEF StartConnect, Does, Goes
<1>10. ASSUME NEW h \in Handlers, StartCode(h) PROVE OpenIsOwned'
  BY <1>10 DEF StartCode, Does, Goes
<1>11. ASSUME NEW h \in Handlers, StartDone(h) PROVE OpenIsOwned'
  BY <1>11 DEF StartDone, At, End
<1>12. ASSUME NEW h \in Handlers, Clear(h) PROVE OpenIsOwned'
  BY <1>12 DEF Clear, At, End
<1>13. ASSUME NEW h \in Handlers, Submit(h) PROVE OpenIsOwned'
  BY <1>13 DEF Submit, Keypad, Begin
<1>14. ASSUME NEW h \in Handlers, Resend(h) PROVE OpenIsOwned'
  BY <1>14 DEF Resend, Keypad, Begin
<1>15. ASSUME NEW h \in Handlers, Resent(h) PROVE OpenIsOwned'
  BY <1>15 DEF Resent, Does, End
<1>16. ASSUME NEW h \in Handlers, Password(h) PROVE OpenIsOwned'
  BY <1>16 DEF Password, Begin
<1>17. ASSUME NEW h \in Handlers, SignIn(h) PROVE OpenIsOwned'
  BY <1>17 DEF SignIn, At, Answered
<1>18. ASSUME NEW h \in Handlers, PasswordNeeded(h) PROVE OpenIsOwned'
  BY <1>18 DEF PasswordNeeded, Got, At, End
<1>19. ASSUME NEW h \in Handlers, Refused(h) PROVE OpenIsOwned'
  BY <1>19 DEF Refused, Got, At, End
<1>20. ASSUME NEW h \in Handlers, Fails(h) PROVE OpenIsOwned'
  BY <1>20 DEF Fails, Got, At, Cancel, Goes
<1>21. ASSUME NEW h \in Handlers, SignedIn(h) PROVE OpenIsOwned'
  BY <1>21 DEF SignedIn, Got, At, Goes
<1>22. ASSUME NEW h \in Handlers, GetMe(h) PROVE OpenIsOwned'
  BY <1>22 DEF GetMe, At, Goes
<1>23. ASSUME NEW h \in Handlers, GetMeFails(h) PROVE OpenIsOwned'
  BY <1>23 DEF GetMeFails, At, End
<1>24. ASSUME NEW h \in Handlers, Pop(h) PROVE OpenIsOwned'
  BY <1>24 DEF Pop, At, Goes
<1>25. ASSUME NEW h \in Handlers, Save(h) PROVE OpenIsOwned'
  BY <1>25 DEF Save, At, Goes
<1>26. CASE UNCHANGED vars
  BY <1>26 DEF vars
<1> QED
  BY <1>1, <1>2, <1>3, <1>4, <1>5, <1>6, <1>7, <1>8, <1>9, <1>10, <1>11,
     <1>12, <1>13, <1>14, <1>15, <1>16, <1>17, <1>18, <1>19, <1>20,
     <1>21, <1>22, <1>23, <1>24, <1>25, <1>26 DEF Next, HandlerNext

\* A client is connected only when it is new.
LEMMA PopStep ==
  ASSUME ChatAssumption, CoreInv, OwnedInv, [Next]_vars
  PROVE  PopIsClosed'
<1> USE DEF CoreInv, TypeOK, HandlerStates, HandlersHold, NewIsFree, StartersOwn,
            Starting, Does, Idle, ChatAssumption, OwnedInv, PopIsClosed
<1>1. CASE AskPhone
  BY <1>1 DEF AskPhone
<1>2. CASE OtherDialogue
  BY <1>2 DEF OtherDialogue
<1>3. CASE Stale
  BY <1>3 DEF Stale
<1>4. CASE PushDigit
  BY <1>4 DEF PushDigit, Keypad
<1>5. CASE Backspace
  BY <1>5 DEF Backspace, Keypad
<1>6. CASE Restart
  BY <1>6 DEF Restart
<1>7. ASSUME NEW h \in Handlers, BeginLogin(h) PROVE PopIsClosed'
  BY <1>7 DEF BeginLogin, Begin
<1>8. ASSUME NEW h \in Handlers, StartCancel(h) PROVE PopIsClosed'
  BY <1>8 DEF StartCancel, Cancel, Does, Goes
<1>9. ASSUME NEW h \in Handlers, StartConnect(h) PROVE PopIsClosed'
  BY <1>9, NewClientIsNew DEF StartConnect, Does, Goes
<1>10. ASSUME NEW h \in Handlers, StartCode(h) PROVE PopIsClosed'
  BY <1>10 DEF StartCode, Does, Goes
<1>11. ASSUME NEW h \in Handlers, StartDone(h) PROVE PopIsClosed'
  BY <1>11 DEF StartDone, At, End
<1>12. ASSUME NEW h \in Handlers, Clear(h) PROVE PopIsClosed'
  BY <1>12 DEF Clear, At, End
<1>13. ASSUME NEW h \in Handlers, Submit(h) PROVE PopIsClosed'
  BY <1>13 DEF Submit, Keypad, Begin
<1>14. ASSUME NEW h \in Handlers, Resend(h) PROVE PopIsClosed'
  BY <1>14 DEF Resend, Keypad, Begin
<1>15. ASSUME NEW h \in Handlers, Resent(h) PROVE PopIsClosed'
  BY <1>15 DEF Resent, Does, End
<1>16. ASSUME NEW h \in Handlers, Password(h) PROVE PopIsClosed'
  BY <1>16 DEF Password, Begin
<1>17. ASSUME NEW h \in Handlers, SignIn(h) PROVE PopIsClosed'
  BY <1>17 DEF SignIn, At, Answered
<1>18. ASSUME NEW h \in Handlers, PasswordNeeded(h) PROVE PopIsClosed'
  BY <1>18 DEF PasswordNeeded, Got, At, End
<1>19. ASSUME NEW h \in Handlers, Refused(h) PROVE PopIsClosed'
  BY <1>19 DEF Refused, Got, At, End
<1>20. ASSUME NEW h \in Handlers, Fails(h) PROVE PopIsClosed'
  BY <1>20 DEF Fails, Got, At, Cancel, Goes
<1>21. ASSUME NEW h \in Handlers, SignedIn(h) PROVE PopIsClosed'
  BY <1>21 DEF SignedIn, Got, At, Goes
<1>22. ASSUME NEW h \in Handlers, GetMe(h) PROVE PopIsClosed'
  BY <1>22 DEF GetMe, At, Goes
<1>23. ASSUME NEW h \in Handlers, GetMeFails(h) PROVE PopIsClosed'
  BY <1>23 DEF GetMeFails, At, End
<1>24. ASSUME NEW h \in Handlers, Pop(h) PROVE PopIsClosed'
  BY <1>24 DEF Pop, At, Goes
<1>25. ASSUME NEW h \in Handlers, Save(h) PROVE PopIsClosed'
  BY <1>25 DEF Save, At, Goes
<1>26. CASE UNCHANGED vars
  BY <1>26 DEF vars
<1> QED
  BY <1>1, <1>2, <1>3, <1>4, <1>5, <1>6, <1>7, <1>8, <1>9, <1>10, <1>11,
     <1>12, <1>13, <1>14, <1>15, <1>16, <1>17, <1>18, <1>19, <1>20,
     <1>21, <1>22, <1>23, <1>24, <1>25, <1>26 DEF Next, HandlerNext

\* Taps that overlap are remembered.
LEMMA AloneStep ==
  ASSUME ChatAssumption, CoreInv, AloneInv, [Next]_vars
  PROVE  Alone'
<1> USE DEF CoreInv, TypeOK, HandlerStates, HandlersHold, NewIsFree, StartersOwn,
            Starting, Does, Idle, Busy, ChatAssumption, AloneInv, Alone
<1>1. CASE AskPhone
  BY <1>1 DEF AskPhone
<1>2. CASE OtherDialogue
  BY <1>2 DEF OtherDialogue
<1>3. CASE Stale
  BY <1>3 DEF Stale
<1>4. CASE PushDigit
  BY <1>4 DEF PushDigit, Keypad
<1>5. CASE Backspace
  BY <1>5 DEF Backspace, Keypad
<1>6. CASE Restart
  BY <1>6 DEF Restart
<1>7. ASSUME NEW h \in Handlers, BeginLogin(h) PROVE Alone'
  BY <1>7 DEF BeginLogin, Begin
<1>8. ASSUME NEW h \in Handlers, StartCancel(h) PROVE Alone'
  BY <1>8 DEF StartCancel, Cancel, Does, Goes
<1>9. ASSUME NEW h \in Handlers, StartConnect(h) PROVE Alone'
  BY <1>9, NewClientIsNew DEF StartConnect, Does, Goes
<1>10. ASSUME NEW h \in Handlers, StartCode(h) PROVE Alone'
  BY <1>10 DEF StartCode, Does, Goes
<1>11. ASSUME NEW h \in Handlers, StartDone(h) PROVE Alone'
  BY <1>11 DEF StartDone, At, End
<1>12. ASSUME NEW h \in Handlers, Clear(h) PROVE Alone'
  BY <1>12 DEF Clear, At, End
<1>13. ASSUME NEW h \in Handlers, Submit(h) PROVE Alone'
  BY <1>13 DEF Submit, Keypad, Begin
<1>14. ASSUME NEW h \in Handlers, Resend(h) PROVE Alone'
  BY <1>14 DEF Resend, Keypad, Begin
<1>15. ASSUME NEW h \in Handlers, Resent(h) PROVE Alone'
  BY <1>15 DEF Resent, Does, End
<1>16. ASSUME NEW h \in Handlers, Password(h) PROVE Alone'
  BY <1>16 DEF Password, Begin
<1>17. ASSUME NEW h \in Handlers, SignIn(h) PROVE Alone'
  BY <1>17 DEF SignIn, At, Answered
<1>18. ASSUME NEW h \in Handlers, PasswordNeeded(h) PROVE Alone'
  BY <1>18 DEF PasswordNeeded, Got, At, End
<1>19. ASSUME NEW h \in Handlers, Refused(h) PROVE Alone'
  BY <1>19 DEF Refused, Got, At, End
<1>20. ASSUME NEW h \in Handlers, Fails(h) PROVE Alone'
  BY <1>20 DEF Fails, Got, At, Cancel, Goes
<1>21. ASSUME NEW h \in Handlers, SignedIn(h) PROVE Alone'
  BY <1>21 DEF SignedIn, Got, At, Goes
<1>22. ASSUME NEW h \in Handlers, GetMe(h) PROVE Alone'
  BY <1>22 DEF GetMe, At, Goes
<1>23. ASSUME NEW h \in Handlers, GetMeFails(h) PROVE Alone'
  BY <1>23 DEF GetMeFails, At, End
<1>24. ASSUME NEW h \in Handlers, Pop(h) PROVE Alone'
  BY <1>24 DEF Pop, At, Goes
<1>25. ASSUME NEW h \in Handlers, Save(h) PROVE Alone'
  BY <1>25 DEF Save, At, Goes
<1>26. CASE UNCHANGED vars
  BY <1>26 DEF vars
<1> QED
  BY <1>1, <1>2, <1>3, <1>4, <1>5, <1>6, <1>7, <1>8, <1>9, <1>10, <1>11,
     <1>12, <1>13, <1>14, <1>15, <1>16, <1>17, <1>18, <1>19, <1>20,
     <1>21, <1>22, <1>23, <1>24, <1>25, <1>26 DEF Next, HandlerNext

\* The only handler there is finds its own attempt registered.
LEMMA RegisteredStep ==
  ASSUME ChatAssumption, CoreInv, AloneInv, [Next]_vars
  PROVE  HoldsRegistered'
<1> USE DEF CoreInv, TypeOK, HandlerStates, HandlersHold, NewIsFree, StartersOwn,
            Starting, Does, Idle, Busy, ChatAssumption, AloneInv, Alone, HoldsRegistered
<1>1. CASE AskPhone
  BY <1>1 DEF AskPhone
<1>2. CASE OtherDialogue
  BY <1>2 DEF OtherDialogue
<1>3. CASE Stale
  BY <1>3 DEF Stale
<1>4. CASE PushDigit
  BY <1>4 DEF PushDigit, Keypad
<1>5. CASE Backspace
  BY <1>5 DEF Backspace, Keypad
<1>6. CASE Restart
  BY <1>6 DEF Restart
<1>7. ASSUME NEW h \in Handlers, BeginLogin(h) PROVE HoldsRegistered'
  BY <1>7 DEF BeginLogin, Begin
<1>8. ASSUME NEW h \in Handlers, StartCancel(h) PROVE HoldsRegistered'
  BY <1>8 DEF StartCancel, Cancel, Does, Goes
<1>9. ASSUME NEW h \in Handlers, StartConnect(h) PROVE HoldsRegistered'
  BY <1>9, NewClientIsNew DEF StartConnect, Does, Goes
<1>10. ASSUME NEW h \in Handlers, StartCode(h) PROVE HoldsRegistered'
  BY <1>10 DEF StartCode, Does, Goes
<1>11. ASSUME NEW h \in Handlers, StartDone(h) PROVE HoldsRegistered'
  BY <1>11 DEF StartDone, At, End
<1>12. ASSUME NEW h \in Handlers, Clear(h) PROVE HoldsRegistered'
  BY <1>12 DEF Clear, At, End
<1>13. ASSUME NEW h \in Handlers, Submit(h) PROVE HoldsRegistered'
  BY <1>13 DEF Submit, Keypad, Begin
<1>14. ASSUME NEW h \in Handlers, Resend(h) PROVE HoldsRegistered'
  BY <1>14 DEF Resend, Keypad, Begin
<1>15. ASSUME NEW h \in Handlers, Resent(h) PROVE HoldsRegistered'
  BY <1>15 DEF Resent, Does, End
<1>16. ASSUME NEW h \in Handlers, Password(h) PROVE HoldsRegistered'
  BY <1>16 DEF Password, Begin
<1>17. ASSUME NEW h \in Handlers, SignIn(h) PROVE HoldsRegistered'
  BY <1>17 DEF SignIn, At, Answered
<1>18. ASSUME NEW h \in Handlers, PasswordNeeded(h) PROVE HoldsRegistered'
  BY <1>18 DEF PasswordNeeded, Got, At, End
<1>19. ASSUME NEW h \in Handlers, Refused(h) PROVE HoldsRegistered'
  BY <1>19 DEF Refused, Got, At, End
<1>20. ASSUME NEW h \in Handlers, Fails(h) PROVE HoldsRegistered'
  BY <1>20 DEF Fails, Got, At, Cancel, Goes
<1>21. ASSUME NEW h \in Handlers, SignedIn(h) PROVE HoldsRegistered'
  BY <1>21 DEF SignedIn, Got, At, Goes
<1>22. ASSUME NEW h \in Handlers, GetMe(h) PROVE HoldsRegistered'
  BY <1>22 DEF GetMe, At, Goes
<1>23. ASSUME NEW h \in Handlers, GetMeFails(h) PROVE HoldsRegistered'
  BY <1>23 DEF GetMeFails, At, End
<1>24. ASSUME NEW h \in Handlers, Pop(h) PROVE HoldsRegistered'
  BY <1>24 DEF Pop, At, Goes
<1>25. ASSUME NEW h \in Handlers, Save(h) PROVE HoldsRegistered'
  BY <1>25 DEF Save, At, Goes
<1>26. CASE UNCHANGED vars
  BY <1>26 DEF vars
<1> QED
  BY <1>1, <1>2, <1>3, <1>4, <1>5, <1>6, <1>7, <1>8, <1>9, <1>10, <1>11,
     <1>12, <1>13, <1>14, <1>15, <1>16, <1>17, <1>18, <1>19, <1>20,
     <1>21, <1>22, <1>23, <1>24, <1>25, <1>26 DEF Next, HandlerNext

\* Whoever empties the registry is about to end the conversation or to
\* register another attempt.
LEMMA ScreenStep ==
  ASSUME ChatAssumption, CoreInv, AloneInv, [Next]_vars
  PROVE  ScreenInv'
<1> USE DEF CoreInv, TypeOK, HandlerStates, HandlersHold, NewIsFree, StartersOwn,
            Starting, Does, Idle, Busy, ChatAssumption, AloneInv, Alone, HoldsRegistered, ScreenInv
<1>1. CASE AskPhone
  BY <1>1 DEF AskPhone
<1>2. CASE OtherDialogue
  BY <1>2 DEF OtherDialogue
<1>3. CASE Stale
  BY <1>3 DEF Stale
<1>4. CASE PushDigit
  BY <1>4 DEF PushDigit, Keypad
<1>5. CASE Backspace
  BY <1>5 DEF Backspace, Keypad
<1>6. CASE Restart
  BY <1>6 DEF Restart
<1>7. ASSUME NEW h \in Handlers, BeginLogin(h) PROVE ScreenInv'
  BY <1>7 DEF BeginLogin, Begin
<1>8. ASSUME NEW h \in Handlers, StartCancel(h) PROVE ScreenInv'
  BY <1>8 DEF StartCancel, Cancel, Does, Goes
<1>9. ASSUME NEW h \in Handlers, StartConnect(h) PROVE ScreenInv'
  BY <1>9, NewClientIsNew DEF StartConnect, Does, Goes
<1>10. ASSUME NEW h \in Handlers, StartCode(h) PROVE ScreenInv'
  BY <1>10 DEF StartCode, Does, Goes
<1>11. ASSUME NEW h \in Handlers, StartDone(h) PROVE ScreenInv'
  BY <1>11 DEF StartDone, At, End
<1>12. ASSUME NEW h \in Handlers, Clear(h) PROVE ScreenInv'
  BY <1>12 DEF Clear, At, End
<1>13. ASSUME NEW h \in Handlers, Submit(h) PROVE ScreenInv'
  BY <1>13 DEF Submit, Keypad, Begin
<1>14. ASSUME NEW h \in Handlers, Resend(h) PROVE ScreenInv'
  BY <1>14 DEF Resend, Keypad, Begin
<1>15. ASSUME NEW h \in Handlers, Resent(h) PROVE ScreenInv'
  BY <1>15 DEF Resent, Does, End
<1>16. ASSUME NEW h \in Handlers, Password(h) PROVE ScreenInv'
  BY <1>16 DEF Password, Begin
<1>17. ASSUME NEW h \in Handlers, SignIn(h) PROVE ScreenInv'
  BY <1>17 DEF SignIn, At, Answered
<1>18. ASSUME NEW h \in Handlers, PasswordNeeded(h) PROVE ScreenInv'
  BY <1>18 DEF PasswordNeeded, Got, At, End
<1>19. ASSUME NEW h \in Handlers, Refused(h) PROVE ScreenInv'
  BY <1>19 DEF Refused, Got, At, End
<1>20. ASSUME NEW h \in Handlers, Fails(h) PROVE ScreenInv'
  BY <1>20 DEF Fails, Got, At, Cancel, Goes
<1>21. ASSUME NEW h \in Handlers, SignedIn(h) PROVE ScreenInv'
  BY <1>21 DEF SignedIn, Got, At, Goes
<1>22. ASSUME NEW h \in Handlers, GetMe(h) PROVE ScreenInv'
  BY <1>22 DEF GetMe, At, Goes
<1>23. ASSUME NEW h \in Handlers, GetMeFails(h) PROVE ScreenInv'
  BY <1>23 DEF GetMeFails, At, End
<1>24. ASSUME NEW h \in Handlers, Pop(h) PROVE ScreenInv'
  BY <1>24 DEF Pop, At, Goes
<1>25. ASSUME NEW h \in Handlers, Save(h) PROVE ScreenInv'
  BY <1>25 DEF Save, At, Goes
<1>26. CASE UNCHANGED vars
  BY <1>26 DEF vars
<1> QED
  BY <1>1, <1>2, <1>3, <1>4, <1>5, <1>6, <1>7, <1>8, <1>9, <1>10, <1>11,
     <1>12, <1>13, <1>14, <1>15, <1>16, <1>17, <1>18, <1>19, <1>20,
     <1>21, <1>22, <1>23, <1>24, <1>25, <1>26 DEF Next, HandlerNext

\* A sign-in stays with its handler until it is saved or lost.
LEMMA SignedStep ==
  ASSUME ChatAssumption, CoreInv, AloneInv, [Next]_vars
  PROVE  SignedInv'
<1> USE DEF CoreInv, TypeOK, HandlerStates, HandlersHold, NewIsFree, StartersOwn,
            Starting, Does, Idle, Busy, ChatAssumption, AloneInv, Alone, HoldsRegistered, SignedInv, RegisteredIsUsable
<1>1. CASE AskPhone
  BY <1>1 DEF AskPhone
<1>2. CASE OtherDialogue
  BY <1>2 DEF OtherDialogue
<1>3. CASE Stale
  BY <1>3 DEF Stale
<1>4. CASE PushDigit
  BY <1>4 DEF PushDigit, Keypad
<1>5. CASE Backspace
  BY <1>5 DEF Backspace, Keypad
<1>6. CASE Restart
  BY <1>6 DEF Restart
<1>7. ASSUME NEW h \in Handlers, BeginLogin(h) PROVE SignedInv'
  BY <1>7 DEF BeginLogin, Begin
<1>8. ASSUME NEW h \in Handlers, StartCancel(h) PROVE SignedInv'
  BY <1>8 DEF StartCancel, Cancel, Does, Goes
<1>9. ASSUME NEW h \in Handlers, StartConnect(h) PROVE SignedInv'
  BY <1>9, NewClientIsNew DEF StartConnect, Does, Goes
<1>10. ASSUME NEW h \in Handlers, StartCode(h) PROVE SignedInv'
  BY <1>10 DEF StartCode, Does, Goes
<1>11. ASSUME NEW h \in Handlers, StartDone(h) PROVE SignedInv'
  BY <1>11 DEF StartDone, At, End
<1>12. ASSUME NEW h \in Handlers, Clear(h) PROVE SignedInv'
  BY <1>12 DEF Clear, At, End
<1>13. ASSUME NEW h \in Handlers, Submit(h) PROVE SignedInv'
  BY <1>13 DEF Submit, Keypad, Begin
<1>14. ASSUME NEW h \in Handlers, Resend(h) PROVE SignedInv'
  BY <1>14 DEF Resend, Keypad, Begin
<1>15. ASSUME NEW h \in Handlers, Resent(h) PROVE SignedInv'
  BY <1>15 DEF Resent, Does, End
<1>16. ASSUME NEW h \in Handlers, Password(h) PROVE SignedInv'
  BY <1>16 DEF Password, Begin
<1>17. ASSUME NEW h \in Handlers, SignIn(h) PROVE SignedInv'
  BY <1>17 DEF SignIn, At, Answered
<1>18. ASSUME NEW h \in Handlers, PasswordNeeded(h) PROVE SignedInv'
  BY <1>18 DEF PasswordNeeded, Got, At, End
<1>19. ASSUME NEW h \in Handlers, Refused(h) PROVE SignedInv'
  BY <1>19 DEF Refused, Got, At, End
<1>20. ASSUME NEW h \in Handlers, Fails(h) PROVE SignedInv'
  BY <1>20 DEF Fails, Got, At, Cancel, Goes
<1>21. ASSUME NEW h \in Handlers, SignedIn(h) PROVE SignedInv'
  BY <1>21 DEF SignedIn, Got, At, Goes
<1>22. ASSUME NEW h \in Handlers, GetMe(h) PROVE SignedInv'
  BY <1>22 DEF GetMe, At, Goes
<1>23. ASSUME NEW h \in Handlers, GetMeFails(h) PROVE SignedInv'
  <2>1. h \in Handlers /\ At(h, "get_me")
    BY <1>23 DEF GetMeFails
  <2>2. overlap = "none" => client[handlers[h].a] = "open"
    BY <2>1 DEF At
  <2> QED BY <1>23, <2>2 DEF GetMeFails, At, End
<1>24. ASSUME NEW h \in Handlers, Pop(h) PROVE SignedInv'
  BY <1>24 DEF Pop, At, Goes
<1>25. ASSUME NEW h \in Handlers, Save(h) PROVE SignedInv'
  BY <1>25 DEF Save, At, Goes
<1>26. CASE UNCHANGED vars
  BY <1>26 DEF vars
<1> QED
  BY <1>1, <1>2, <1>3, <1>4, <1>5, <1>6, <1>7, <1>8, <1>9, <1>10, <1>11,
     <1>12, <1>13, <1>14, <1>15, <1>16, <1>17, <1>18, <1>19, <1>20,
     <1>21, <1>22, <1>23, <1>24, <1>25, <1>26 DEF Next, HandlerNext

LEMMA CoreInit == ASSUME ChatAssumption, Init PROVE CoreInv
<1>1. TypeOK
  BY DEF ChatAssumption, Init, TypeOK, HandlerStates, Idle
<1>2. HandlersHold /\ NewIsFree /\ StartersOwn /\ RegisteredIsUsable
  BY DEF ChatAssumption, Init, HandlersHold, NewIsFree, StartersOwn, Starting, Does,
     RegisteredIsUsable, Idle
<1> QED BY <1>1, <1>2 DEF CoreInv

LEMMA OthersInit == ASSUME ChatAssumption, Init PROVE OwnedInv /\ AloneInv
<1>1. OwnedInv
  BY DEF Init, OwnedInv, OthersAgree, OpenIsOwned, PopIsClosed, Starting, Does, Idle
<1>2. AloneInv
  BY DEF Init, AloneInv, Alone, HoldsRegistered, ScreenInv, SignedInv, Idle
<1> QED BY <1>1, <1>2

-----------------------------------------------------------------------------
(* The theorems. *)

LEMMA CoreInvariant == ASSUME ChatAssumption PROVE Spec => []CoreInv
<1>1. Init => CoreInv
  BY CoreInit
<1>2. CoreInv /\ [Next]_vars => CoreInv'
  BY TypeStep, HoldStep, NewStep, StarterStep, UsableStep DEF CoreInv
<1> QED BY <1>1, <1>2, PTL DEF Spec

LEMMA OwnedInvariant == ASSUME ChatAssumption PROVE Spec => []OwnedInv
<1>1. Init => OwnedInv
  BY OthersInit
<1>2. CoreInv /\ OwnedInv /\ [Next]_vars => OwnedInv'
  BY AgreeStep, OpenStep, PopStep DEF OwnedInv
<1>3. Spec => []CoreInv
  BY CoreInvariant
<1> QED BY <1>1, <1>2, <1>3, PTL DEF Spec

LEMMA AloneInvariant == ASSUME ChatAssumption PROVE Spec => []AloneInv
<1>1. Init => AloneInv
  BY OthersInit
<1>2. CoreInv /\ AloneInv /\ [Next]_vars => AloneInv'
  BY AloneStep, RegisteredStep, ScreenStep, SignedStep DEF AloneInv
<1>3. Spec => []CoreInv
  BY CoreInvariant
<1> QED BY <1>1, <1>2, <1>3, PTL DEF Spec

\* Type correctness, and what is saved or lost is signed in.
THEOREM ChatTypeCorrect == ASSUME ChatAssumption PROVE Spec => []TypeOK
<1>1. CoreInv => TypeOK
  BY DEF CoreInv
<1>2. Spec => []CoreInv
  BY CoreInvariant
<1> QED BY <1>1, <1>2, PTL

\* No race of starts, taps and cancellations leaves a dead client registered:
\* LoginManager's _states of a user, however many handlers overlap.
THEOREM RegisteredUsable == ASSUME ChatAssumption PROVE Spec => []RegisteredIsUsable
<1>1. CoreInv => RegisteredIsUsable
  BY DEF CoreInv
<1>2. Spec => []CoreInv
  BY CoreInvariant
<1> QED BY <1>1, <1>2, PTL

\* Unless a /connect ran among other handlers, no connected client is left
\* behind: start, cancel and _finish account for each.
THEOREM ClientsOwned == ASSUME ChatAssumption PROVE Spec => []ClientsAreOwned
<1>1. OwnedInv => ClientsAreOwned
  <2> SUFFICES ASSUME OwnedInv, Busy = {}, overlap # "start", NEW a \in Attempts,
                      client[a] = "open"
               PROVE  a = registry
    BY DEF ClientsAreOwned
  <2>1. \A h \in Handlers : ~Starting(h)
    BY DEF Busy, Starting, Does, Idle
  <2> QED BY <2>1 DEF OwnedInv, OpenIsOwned
<1>2. Spec => []OwnedInv
  BY OwnedInvariant
<1> QED BY <1>1, <1>2, PTL

\* The conversation asks for a code or a password only while there is a login
\* to take it, for owners who wait for answers (ConnectStates and _states).
THEOREM ScreenMatches == ASSUME ChatAssumption PROVE Spec => []ScreenMatchesLogin
<1>1. AloneInv => ScreenMatchesLogin
  BY DEF AloneInv, ScreenInv, ScreenMatchesLogin, Busy, Starting, Does, Idle
<1>2. Spec => []AloneInv
  BY AloneInvariant
<1> QED BY <1>1, <1>2, PTL

\* For those owners every accepted sign-in is saved by _persist_and_finish, or
\* get_me or the save failed, or the process stopped.
THEOREM SignInSaved == ASSUME ChatAssumption PROVE Spec => []SignedInIsSaved
<1>1. CoreInv /\ AloneInv => SignedInIsSaved
  <2> SUFFICES ASSUME CoreInv, AloneInv, Busy = {}, overlap = "none"
               PROVE  signed = saved \cup lost
    BY DEF SignedInIsSaved
  <2>1. saved \subseteq signed /\ lost \subseteq signed
    BY DEF CoreInv, TypeOK
  <2>2. signed \subseteq saved \cup lost
    BY DEF AloneInv, SignedInv, Busy, Idle
  <2> QED BY <2>1, <2>2
<1>2. Spec => []CoreInv
  BY CoreInvariant
<1>3. Spec => []AloneInv
  BY AloneInvariant
<1> QED BY <1>1, <1>2, <1>3, PTL

=============================================================================
