----------------------- MODULE ConnectTokens_proofs -----------------------
(***************************************************************************)
(* Proofs about ConnectTokens for every number of tokens, handlers, POSTs, *)
(* sweeping processes, restarts and failures, and every TTL and window.    *)
(***************************************************************************)
EXTENDS ConnectTokens, TLAPS

USE DEF rest

-----------------------------------------------------------------------------
(* Type correctness. *)

TokenRows == [issued : BOOLEAN, created : Nat, used : BOOLEAN,
              notified : BOOLEAN, msg : BOOLEAN]

HandlerStates ==
  [pc : {"idle", "checked", "limiting", "creating", "starting", "sending",
         "recording"}, tok : Tokens \cup {NoToken}, at : Nat]

RequestStates ==
  [pc : {"idle", "checking", "consuming", "saving", "finishing"},
   user : Users, tok : Tokens \cup {NoToken}, at : Nat, msg : BOOLEAN]

SweeperStates ==
  [pc : {"idle", "claiming", "notifying"}, batch : SUBSET Tokens,
   msgs : SUBSET Tokens]

LEMMA TokenUpdate ==
  ASSUME NEW r \in TokenRows, NEW b \in BOOLEAN, NEW n \in Nat
  PROVE  /\ [r EXCEPT !.issued = b, !.created = n] \in TokenRows
         /\ [r EXCEPT !.used = b] \in TokenRows
         /\ [r EXCEPT !.notified = b] \in TokenRows
         /\ [r EXCEPT !.msg = b] \in TokenRows
         /\ [r EXCEPT !.issued = b, !.created = n].issued = b
         /\ [r EXCEPT !.used = b].issued = r.issued
         /\ [r EXCEPT !.notified = b].issued = r.issued
         /\ [r EXCEPT !.msg = b].issued = r.issued
  BY DEF TokenRows

LEMMA HandlerUpdate ==
  ASSUME NEW r \in HandlerStates, NEW n \in Nat
  PROVE  /\ [r EXCEPT !.pc = "limiting", !.at = n] \in HandlerStates
         /\ [r EXCEPT !.pc = "limiting", !.at = n].pc = "limiting"
         /\ \A k \in Tokens :
              /\ [r EXCEPT !.pc = "starting", !.tok = k] \in HandlerStates
              /\ [r EXCEPT !.pc = "starting", !.tok = k].tok = k
  BY DEF HandlerStates

LEMMA SweeperUpdate ==
  ASSUME NEW r \in SweeperStates, NEW B \in SUBSET Tokens
  PROVE  /\ [r EXCEPT !.pc = "claiming", !.batch = B] \in SweeperStates
         /\ [r EXCEPT !.pc = "notifying", !.msgs = B] \in SweeperStates
  BY DEF SweeperStates

\* The records the code starts from.
LEMMA Constructors ==
  ASSUME ConstantsAssumption
  PROVE  /\ NoRow \in TokenRows
         /\ IdleHandler \in HandlerStates
         /\ IdleRequest \in RequestStates
         /\ IdleSweeper \in SweeperStates
         /\ IdleHandler.pc = "idle" /\ IdleRequest.pc = "idle"
<1>1. ASSUME NEW b \in BOOLEAN
      PROVE  /\ [issued |-> b, created |-> 0, used |-> b, notified |-> b,
                 msg |-> b] \in TokenRows
             /\ [pc |-> "idle", user |-> Owner, tok |-> NoToken, at |-> 0,
                 msg |-> b] \in RequestStates
  BY DEF TokenRows, RequestStates, ConstantsAssumption
<1>2. IdleHandler \in HandlerStates /\ IdleSweeper \in SweeperStates
  BY DEF HandlerStates, SweeperStates, IdleHandler, IdleSweeper
<1> QED BY <1>1, <1>2 DEF NoRow, IdleHandler, IdleRequest, IdleSweeper

\* The shape of the state, in the names above.
TypeParts ==
  /\ now \in 0..MaxTime
  /\ tokens \in [Tokens -> TokenRows]
  /\ button \in [Tokens -> {"none", "shown", "gone"}]
  /\ waiting \in BOOLEAN
  /\ handlers \in [Handlers -> HandlerStates]
  /\ requests \in [Requests -> RequestStates]
  /\ sweepers \in [Sweepers -> SweeperStates]
  /\ saved \in [Tokens -> Nat]
  /\ notices \in [Tokens -> 0..2]
  /\ restarts \in 0..MaxRestarts
  /\ failures \in 0..MaxFailures

\* An actor at work has a token that was issued.
HandlersHold ==
  \A h \in Handlers : handlers[h].pc \in {"starting", "sending", "recording"}
    => handlers[h].tok \in Issued

RequestsHold ==
  \A r \in Requests : requests[r].pc # "idle"
    => requests[r].tok \in Issued /\ requests[r].user = Owner

TypeInv == TypeParts /\ HandlersHold /\ RequestsHold

LEMMA TypeSplit == TypeOK <=> TypeInv
  BY DEF TypeInv, TypeOK, TypeParts, HandlersHold, RequestsHold, TokenRows,
     HandlerStates, RequestStates, SweeperStates

LEMMA InitType == ASSUME ConstantsAssumption, Init PROVE TypeInv
<1>1. TypeParts
  <2>1. now \in 0..MaxTime /\ restarts \in 0..MaxRestarts
        /\ failures \in 0..MaxFailures
    BY DEF Init, ConstantsAssumption
  <2>2. /\ tokens \in [Tokens -> TokenRows]
        /\ handlers \in [Handlers -> HandlerStates]
        /\ requests \in [Requests -> RequestStates]
        /\ sweepers \in [Sweepers -> SweeperStates]
    BY Constructors DEF Init
  <2>3. waiting \in BOOLEAN
    BY Zenon DEF Init
  <2>4. /\ button \in [Tokens -> {"none", "shown", "gone"}]
        /\ saved \in [Tokens -> Nat]
        /\ notices \in [Tokens -> 0..2]
    BY DEF Init
  <2> QED BY <2>1, <2>2, <2>3, <2>4 DEF TypeParts
<1>2. HandlersHold /\ RequestsHold
  BY Constructors DEF Init, HandlersHold, RequestsHold
<1> QED BY <1>1, <1>2 DEF TypeInv

\* Tokens are never taken back: a step that issues none keeps the promise
\* of every actor it leaves alone.
LEMMA HandlerType ==
  ASSUME ConstantsAssumption, TypeInv, NEW h \in Handlers,
         HandlerNext(h) \/ HandlerFails(h)
  PROVE  TypeInv'
<1> USE DEF TypeInv, TypeParts
<1>1. UNCHANGED <<now, requests, sweepers, saved, notices, restarts>>
  BY DEF HandlerNext, Connect, AskPhone, BeginLogin, RateCheck, Create,
     ServerReady, SendButton, RecordButton, HandlerFails, Failure
<1>2. waiting' \in BOOLEAN
  BY DEF HandlerNext, Connect, AskPhone, BeginLogin, RateCheck, Create,
     ServerReady, SendButton, RecordButton, HandlerFails, Failure
<1>3. failures' \in 0..MaxFailures
  BY DEF HandlerNext, Connect, AskPhone, BeginLogin, RateCheck, Create,
     ServerReady, SendButton, RecordButton, HandlerFails, Failure,
     ConstantsAssumption
<1>4. ASSUME UNCHANGED <<tokens, button>>,
             \/ Connect(h) \/ AskPhone(h) \/ BeginLogin(h) \/ RateCheck(h)
             \/ ServerReady(h) \/ HandlerFails(h)
      PROVE  TypeInv'
  <2>1. handlers' \in [Handlers -> HandlerStates] /\ HandlersHold'
    <3>1. ASSUME EndHandler(h) PROVE <2>1
      BY <1>4, <3>1, Constructors DEF EndHandler, HandlersHold, Issued
    <3>2. ASSUME NEW pc \in {"checked", "limiting", "creating"}, To(h, pc)
          PROVE  <2>1
      BY <1>4, <3>2 DEF To, HandlersHold, Issued, HandlerStates
    <3>3. ASSUME handlers[h].pc = "starting", To(h, "sending") PROVE <2>1
      BY <1>4, <3>3 DEF To, HandlersHold, Issued, HandlerStates
    <3>4. CASE BeginLogin(h)
      <4> DEFINE u == [handlers[h] EXCEPT !.pc = "limiting", !.at = now]
      <4>1. handlers' = [handlers EXCEPT ![h] = u]
        BY <3>4 DEF BeginLogin
      <4>2. u \in HandlerStates /\ u.pc = "limiting"
        <5>1. handlers[h] \in HandlerStates /\ now \in Nat
          BY DEF ConstantsAssumption
        <5> QED BY <5>1, HandlerUpdate
      <4> HIDE DEF u
      <4> QED BY <1>4, <4>1, <4>2 DEF HandlersHold, Issued
    <3>5. CASE UNCHANGED handlers
      BY <1>4, <3>5 DEF HandlersHold, Issued
    <3> QED BY <1>4, <3>1, <3>2, <3>3, <3>4, <3>5 DEF Connect, AskPhone,
         RateCheck, ServerReady, HandlerFails
  <2>2. RequestsHold'
    BY <1>1, <1>4 DEF RequestsHold, Issued
  <2> QED BY <1>1, <1>2, <1>3, <1>4, <2>1, <2>2
<1>5. CASE Create(h)
  <2>1. PICK k \in Tokens \ Issued :
          /\ tokens' = [tokens EXCEPT ![k].issued = TRUE,
                                      ![k].created = handlers[h].at]
          /\ handlers' = [handlers EXCEPT ![h].pc = "starting", ![h].tok = k]
    BY <1>5 DEF Create
  <2>2. handlers[h].at \in Nat /\ tokens[k] \in TokenRows
    BY DEF HandlerStates
  <2>3. tokens' \in [Tokens -> TokenRows]
    <3> DEFINE row == [tokens[k] EXCEPT !.issued = TRUE,
                                        !.created = handlers[h].at]
    <3>1. row \in TokenRows
      BY <2>2, TokenUpdate
    <3>2. tokens' = [tokens EXCEPT ![k] = row]
      BY <2>1
    <3> QED BY <2>1, <3>1, <3>2
  <2>4. tokens'[k].issued /\ \A j \in Tokens \ {k} : tokens'[j] = tokens[j]
    BY <2>1, <2>2 DEF TokenRows
  <2>5. k \in Issued' /\ Issued \subseteq Issued'
    BY <2>4 DEF Issued
  <2>6. handlers' \in [Handlers -> HandlerStates] /\ HandlersHold'
    <3> DEFINE u == [handlers[h] EXCEPT !.pc = "starting", !.tok = k]
    <3>1. handlers' = [handlers EXCEPT ![h] = u]
      BY <2>1
    <3>2. u \in HandlerStates /\ u.tok = k
      BY <2>1, HandlerUpdate
    <3> HIDE DEF u
    <3> QED BY <2>5, <3>1, <3>2 DEF HandlersHold
  <2>7. RequestsHold' /\ UNCHANGED <<button, failures>>
    BY <1>1, <1>5, <2>5 DEF RequestsHold, Create
  <2> QED BY <1>1, <1>2, <1>3, <2>3, <2>6, <2>7
<1>6. CASE SendButton(h)
  <2>1. button' \in [Tokens -> {"none", "shown", "gone"}] /\ UNCHANGED tokens
    BY <1>6 DEF SendButton
  <2>2. handlers' \in [Handlers -> HandlerStates] /\ HandlersHold'
    BY <1>6, <2>1 DEF SendButton, To, HandlersHold, Issued, HandlerStates
  <2>3. RequestsHold'
    BY <1>1, <2>1 DEF RequestsHold, Issued
  <2> QED BY <1>1, <1>2, <1>3, <2>1, <2>2, <2>3
<1>7. CASE RecordButton(h)
  <2> DEFINE k == handlers[h].tok
  <2>1. k \in Tokens
    BY <1>7 DEF RecordButton, HandlersHold, Issued
  <2>2. tokens' = [tokens EXCEPT ![k] = [@ EXCEPT !.msg = TRUE]]
        /\ handlers' = [handlers EXCEPT ![h] = IdleHandler]
        /\ UNCHANGED button
    BY <1>7 DEF RecordButton, EndHandler
  <2>3. [tokens[k] EXCEPT !.msg = TRUE] \in TokenRows
        /\ [tokens[k] EXCEPT !.msg = TRUE].issued = tokens[k].issued
    BY <2>1, TokenUpdate
  <2>4. tokens' \in [Tokens -> TokenRows] /\ Issued' = Issued
    BY <2>1, <2>2, <2>3 DEF Issued
  <2>5. handlers' \in [Handlers -> HandlerStates] /\ HandlersHold'
    BY <2>2, <2>4, Constructors DEF HandlersHold
  <2>6. RequestsHold'
    BY <1>1, <2>4 DEF RequestsHold
  <2> QED BY <1>1, <1>2, <1>3, <2>2, <2>4, <2>5, <2>6
<1> QED
  BY <1>4, <1>5, <1>6, <1>7 DEF HandlerNext, Connect, AskPhone, BeginLogin,
     RateCheck, ServerReady, HandlerFails

\* A step that leaves the tokens and one kind of actor alone leaves what those
\* actors hold in place.
LEMMA RequestType ==
  ASSUME ConstantsAssumption, TypeInv, NEW r \in Requests,
         \/ RequestNext(r)
         \/ \E u \in Users, k \in Tokens, opened \in 0..now : Post(r, u, k, opened)
  PROVE  TypeInv'
<1> USE DEF TypeInv, TypeParts
<1>1. UNCHANGED <<now, waiting, handlers, sweepers, notices, restarts, failures>>
  BY DEF RequestNext, CheckFails, CheckPasses, Consume, SaveCommit, SaveFails,
     Finish, Post
<1>2. ASSUME Issued' = Issued PROVE HandlersHold'
  BY <1>1, <1>2 DEF HandlersHold
<1>3. ASSUME UNCHANGED <<tokens, saved>>,
             button' \in [Tokens -> {"none", "shown", "gone"}],
             NEW u \in RequestStates, requests' = [requests EXCEPT ![r] = u],
             u.pc # "idle" => u.tok \in Issued /\ u.user = Owner
      PROVE  TypeInv'
  <2>1. Issued' = Issued
    BY <1>3 DEF Issued
  <2>2. requests' \in [Requests -> RequestStates] /\ RequestsHold'
    BY <1>3, <2>1 DEF RequestsHold
  <2> QED BY <1>1, <1>2, <1>3, <2>1, <2>2
<1>4. ASSUME EndRequest(r), UNCHANGED <<tokens, saved>>,
             button' \in [Tokens -> {"none", "shown", "gone"}]
      PROVE  TypeInv'
  BY <1>3, <1>4, Constructors DEF EndRequest
<1>5. CASE CheckFails(r) \/ SaveFails(r) \/ Finish(r)
  BY <1>4, <1>5 DEF CheckFails, SaveFails, Finish, Without
<1>6. CASE CheckPasses(r)
  <2> DEFINE u == [requests[r] EXCEPT !.pc = "consuming", !.at = now]
  <2>1. requests' = [requests EXCEPT ![r] = u] /\ UNCHANGED <<tokens, saved, button>>
    BY <1>6 DEF CheckPasses
  <2>2. u \in RequestStates /\ u.tok = requests[r].tok /\ u.user = requests[r].user
    <3>1. requests[r] \in RequestStates /\ now \in Nat
      BY DEF ConstantsAssumption
    <3> QED BY <3>1 DEF RequestStates
  <2>3. u.tok \in Issued /\ u.user = Owner
    BY <1>6, <2>2 DEF CheckPasses, RequestsHold
  <2> HIDE DEF u
  <2> QED BY <1>3, <2>1, <2>2, <2>3
<1>7. CASE Consume(r)
  <2> DEFINE u == [requests[r] EXCEPT !.pc = "saving"]
  <2>1. CASE requests' = [requests EXCEPT ![r] = u]
    <3>1. u \in RequestStates /\ u.tok = requests[r].tok /\ u.user = requests[r].user
      BY DEF RequestStates
    <3>2. u.tok \in Issued /\ u.user = Owner /\ UNCHANGED <<tokens, saved, button>>
      BY <1>7, <3>1 DEF Consume, RequestsHold
    <3> HIDE DEF u
    <3> QED BY <1>3, <2>1, <3>1, <3>2
  <2>2. CASE requests' = [requests EXCEPT ![r] = IdleRequest]
    BY <1>4, <1>7, <2>2 DEF Consume, EndRequest
  <2> QED BY <1>7, <2>1, <2>2 DEF Consume
<1>8. CASE SaveCommit(r)
  <2> DEFINE k == requests[r].tok
             u == [requests[r] EXCEPT !.pc = "finishing"]
             row == [tokens[k] EXCEPT !.used = TRUE]
  <2>1. k \in Tokens /\ k \in Issued /\ requests[r].user = Owner
    BY <1>8 DEF SaveCommit, RequestsHold, Issued
  <2>2. tokens' = [tokens EXCEPT ![k] = row] /\ UNCHANGED button
        /\ saved' = [saved EXCEPT ![k] = @ + 1]
        /\ requests' = [requests EXCEPT ![r] = u]
    BY <1>8 DEF SaveCommit
  <2>3. row \in TokenRows /\ row.issued = tokens[k].issued
    BY <2>1, TokenUpdate
  <2>4. u \in RequestStates /\ u.tok = k /\ u.user = Owner
    BY <2>1 DEF RequestStates
  <2> HIDE DEF row, u
  <2>5. tokens' \in [Tokens -> TokenRows] /\ Issued' = Issued
    BY <2>1, <2>2, <2>3 DEF Issued
  <2>6. saved' \in [Tokens -> Nat]
    BY <2>1, <2>2
  <2>7. requests' \in [Requests -> RequestStates] /\ RequestsHold'
    BY <2>1, <2>2, <2>4, <2>5 DEF RequestsHold
  <2> QED BY <1>1, <1>2, <2>2, <2>5, <2>6, <2>7
<1>9. ASSUME NEW u \in Users, NEW k \in Tokens, NEW opened \in 0..now,
             Post(r, u, k, opened)
      PROVE  TypeInv'
  <2> DEFINE b == tokens[k].msg
             v == [pc |-> "checking", user |-> u, tok |-> k, at |-> 0, msg |-> b]
  <2>1. requests' = [requests EXCEPT ![r] = v] /\ k \in Issued /\ u = Owner
        /\ UNCHANGED <<tokens, saved, button>>
    BY <1>9 DEF Post, Valid
  <2>2. b \in BOOLEAN
    BY DEF TokenRows
  <2> HIDE DEF b
  <2>3. v \in RequestStates /\ v.tok = k /\ v.user = u
    BY <2>2 DEF RequestStates
  <2> HIDE DEF v
  <2> QED BY <1>3, <2>1, <2>3
<1> QED BY <1>5, <1>6, <1>7, <1>8, <1>9 DEF RequestNext

LEMMA SweeperType ==
  ASSUME ConstantsAssumption, TypeInv, NEW p \in Sweepers,
         \/ SweeperNext(p) \/ ClaimFails(p)
         \/ \E k \in Tokens : NotifyFails(p, k)
  PROVE  TypeInv'
<1> USE DEF TypeInv, TypeParts
<1>1. UNCHANGED <<now, waiting, handlers, requests, saved, restarts>>
  BY DEF SweeperNext, ClaimRead, ClaimCommit, Notify, ClaimFails, NotifyFails,
     Failure
<1>2. failures' \in 0..MaxFailures
  BY DEF SweeperNext, ClaimRead, ClaimCommit, Notify, ClaimFails, NotifyFails,
     Failure, ConstantsAssumption
<1>3. /\ button' \in [Tokens -> {"none", "shown", "gone"}]
      /\ notices' \in [Tokens -> 0..2]
  BY DEF SweeperNext, ClaimRead, ClaimCommit, Notify, ClaimFails, NotifyFails,
     Without
<1>4. tokens' \in [Tokens -> TokenRows] /\ Issued' = Issued
  <2>1. CASE ClaimCommit(p)
    <3>1. \A k \in Tokens :
            LET row == [tokens[k] EXCEPT !.notified = TRUE]
            IN  row \in TokenRows /\ row.issued = tokens[k].issued
      BY TokenUpdate
    <3> QED BY <2>1, <3>1 DEF ClaimCommit, Issued
  <2>2. CASE UNCHANGED tokens
    BY <2>2 DEF Issued
  <2> QED BY <2>1, <2>2 DEF SweeperNext, ClaimRead, Notify, ClaimFails,
             NotifyFails
<1>5. sweepers' \in [Sweepers -> SweeperStates]
  <2>1. CASE ClaimRead(p)
    <3>1. PICK B \in SUBSET Tokens :
            sweepers' = [sweepers EXCEPT ![p].pc = "claiming", ![p].batch = B]
      BY <2>1 DEF ClaimRead, Due, Issued
    <3> DEFINE u == [sweepers[p] EXCEPT !.pc = "claiming", !.batch = B]
    <3>2. u \in SweeperStates
      BY SweeperUpdate
    <3>3. sweepers' = [sweepers EXCEPT ![p] = u]
      BY <3>1
    <3> HIDE DEF u
    <3> QED BY <3>2, <3>3
  <2>2. CASE ClaimCommit(p)
    <3> DEFINE M == {k \in sweepers[p].batch : tokens[k].msg}
               u == [sweepers[p] EXCEPT !.pc = "notifying", !.msgs = M]
    <3>1. M \in SUBSET Tokens
      BY DEF SweeperStates
    <3>2. sweepers' = [sweepers EXCEPT ![p] = u]
      BY <2>2 DEF ClaimCommit
    <3> HIDE DEF M
    <3>3. u \in SweeperStates
      BY <3>1, SweeperUpdate
    <3> HIDE DEF u
    <3> QED BY <3>2, <3>3
  <2>3. CASE ClaimFails(p)
    BY <2>3, Constructors DEF ClaimFails
  <2>4. ASSUME NEW k \in Tokens, Served(p, k) PROVE <1>5
    BY <2>4, Constructors DEF Served, SweeperStates
  <2> QED BY <2>1, <2>2, <2>3, <2>4 DEF SweeperNext, Notify, NotifyFails
<1>6. HandlersHold' /\ RequestsHold'
  BY <1>1, <1>4 DEF HandlersHold, RequestsHold
<1> QED BY <1>1, <1>2, <1>3, <1>4, <1>5, <1>6

LEMMA TypeStep ==
  ASSUME ConstantsAssumption, TypeInv, [Next]_vars PROVE TypeInv'
<1>1. CASE Tick
  BY <1>1 DEF Tick, TypeInv, TypeParts, HandlersHold, RequestsHold, Issued,
     ConstantsAssumption
<1>2. CASE Restart
  <2>1. restarts' \in 0..MaxRestarts
    BY <1>2 DEF Restart, TypeInv, TypeParts, ConstantsAssumption
  <2>2. /\ handlers' \in [Handlers -> HandlerStates] /\ HandlersHold'
        /\ requests' \in [Requests -> RequestStates] /\ RequestsHold'
        /\ sweepers' \in [Sweepers -> SweeperStates]
    BY <1>2, Constructors DEF Restart, HandlersHold, RequestsHold
  <2>3. waiting' \in BOOLEAN
    BY <1>2, Zenon DEF Restart
  <2> QED BY <1>2, <2>1, <2>2, <2>3 DEF Restart, TypeInv, TypeParts
<1>3. CASE UNCHANGED vars
  BY <1>3 DEF vars, TypeInv, TypeParts, HandlersHold, RequestsHold, Issued
<1> QED BY <1>1, <1>2, <1>3, HandlerType, RequestType, SweeperType DEF Next

\* The state keeps its types; in particular a handler that sends a button has
\* a row, and a POST past its checks is the owner's and for an issued token.
THEOREM TokensTypeCorrect == ASSUME ConstantsAssumption PROVE Spec => []TypeOK
<1>1. Init => TypeInv
  BY InitType
<1>2. TypeInv /\ [Next]_vars => TypeInv'
  BY TypeStep
<1>3. TypeInv => TypeOK
  BY TypeSplit
<1> QED BY <1>1, <1>2, <1>3, PTL DEF Spec

-----------------------------------------------------------------------------
(* One session per token. *)

\* The transactions that have consumed a token and are still open hold its
\* row lock: no two of them share it, and nobody has spent it.
LocksAreExclusive ==
  /\ \A r \in Requests : requests[r].pc = "saving"
                           => ~tokens[requests[r].tok].used
  /\ \A q, r \in Requests :
       requests[q].pc = "saving" /\ requests[r].pc = "saving"
       /\ requests[q].tok = requests[r].tok => q = r

SpendInv == LocksAreExclusive /\ OneSessionPerToken

LEMMA SpendStep ==
  ASSUME TypeInv, TypeInv', SpendInv, [Next]_vars PROVE SpendInv'
<1> USE DEF TypeInv, TypeParts, RequestStates, TokenRows, SpendInv
\* What a step must leave alone to disturb nothing.
<1>1. ASSUME \A k \in Tokens : tokens'[k].used = tokens[k].used,
             UNCHANGED saved,
             \A r \in Requests : requests'[r].pc = "saving"
               => requests[r].pc = "saving" /\ requests'[r].tok = requests[r].tok
      PROVE  SpendInv'
  <2>1. \A r \in Requests : requests[r].pc = "saving" => requests[r].tok \in Tokens
    BY DEF RequestsHold, Issued
  <2> QED BY <1>1, <2>1 DEF LocksAreExclusive, OneSessionPerToken
<1>2. ASSUME NEW r \in Requests, Consume(r) PROVE SpendInv'
  <2>1. CASE Consumes(r) /\ requests' = [requests EXCEPT ![r].pc = "saving"]
    <3>1. ~tokens[requests[r].tok].used
      BY <2>1 DEF Consumes, Valid
    <3>2. \A q \in Requests \ {r} : requests[q].pc = "saving"
                                    => requests[q].tok # requests[r].tok
      BY <1>2 DEF Consume, Locked
    <3>3. UNCHANGED <<tokens, saved>>
      BY <1>2 DEF Consume
    <3> QED BY <2>1, <3>1, <3>2, <3>3 DEF LocksAreExclusive, OneSessionPerToken
  <2>2. CASE requests' = [requests EXCEPT ![r] = IdleRequest]
    BY <1>1, <1>2, <2>2 DEF Consume, IdleRequest
  <2> QED BY <1>2, <2>1, <2>2 DEF Consume
<1>3. ASSUME NEW r \in Requests, SaveCommit(r) PROVE SpendInv'
  <2> DEFINE k == requests[r].tok
  <2>1. k \in Tokens /\ ~tokens[k].used /\ saved[k] = 0
    BY <1>3 DEF SaveCommit, RequestsHold, Issued, LocksAreExclusive,
       OneSessionPerToken
  <2>2. /\ tokens'[k].used = TRUE /\ saved'[k] = 1
        /\ \A j \in Tokens \ {k} : tokens'[j] = tokens[j] /\ saved'[j] = saved[j]
    BY <1>3, <2>1 DEF SaveCommit
  <2>3. /\ requests'[r].pc = "finishing"
        /\ \A q \in Requests \ {r} : requests'[q] = requests[q]
    BY <1>3 DEF SaveCommit
  <2>4. \A q \in Requests \ {r} : requests[q].pc = "saving"
                                  => requests[q].tok \in Tokens \ {k}
    BY <1>3 DEF SaveCommit, LocksAreExclusive, RequestsHold, Issued
  <2>5. LocksAreExclusive'
    <3>1. ASSUME NEW q \in Requests, requests'[q].pc = "saving"
          PROVE  /\ q # r /\ requests'[q] = requests[q]
                 /\ tokens'[requests[q].tok] = tokens[requests[q].tok]
      BY <2>2, <2>3, <2>4, <3>1
    <3> QED BY <3>1 DEF LocksAreExclusive
  <2>6. OneSessionPerToken'
    BY <2>2 DEF OneSessionPerToken
  <2> QED BY <2>5, <2>6
<1>4. ASSUME NEW r \in Requests,
             \/ CheckFails(r) \/ CheckPasses(r) \/ SaveFails(r) \/ Finish(r)
             \/ \E u \in Users, k \in Tokens, opened \in 0..now :
                  Post(r, u, k, opened)
      PROVE  SpendInv'
  <2>1. UNCHANGED <<tokens, saved>>
    BY <1>4 DEF CheckFails, CheckPasses, SaveFails, Finish, Post
  <2>2. \A q \in Requests \ {r} : requests'[q] = requests[q]
    BY <1>4 DEF CheckFails, CheckPasses, SaveFails, Finish, Post, EndRequest
  <2>3. requests'[r].pc # "saving"
    <3>1. CASE CheckFails(r) \/ SaveFails(r) \/ Finish(r)
      BY <3>1 DEF CheckFails, SaveFails, Finish, EndRequest, IdleRequest
    <3>2. CASE CheckPasses(r)
      BY <3>2 DEF CheckPasses
    <3>3. ASSUME NEW u \in Users, NEW k \in Tokens, NEW opened \in 0..now,
                 Post(r, u, k, opened)
          PROVE  requests'[r].pc = "checking"
      BY <3>3 DEF Post
    <3> QED BY <1>4, <3>1, <3>2, <3>3
  <2> QED BY <1>1, <2>1, <2>2, <2>3
<1>5. ASSUME NEW h \in Handlers, HandlerNext(h) \/ HandlerFails(h)
      PROVE  SpendInv'
  <2>1. UNCHANGED <<saved, requests>>
    BY <1>5 DEF HandlerNext, HandlerFails, Connect, AskPhone, BeginLogin,
       RateCheck, Create, ServerReady, SendButton, RecordButton
  <2>2. \A k \in Tokens : tokens'[k].used = tokens[k].used
    <3>1. CASE Create(h)
      BY <3>1 DEF Create
    <3>2. CASE RecordButton(h)
      BY <3>2 DEF RecordButton
    <3>3. CASE UNCHANGED tokens
      BY <3>3
    <3> QED BY <1>5, <3>1, <3>2, <3>3 DEF HandlerNext, HandlerFails, Connect,
         AskPhone, BeginLogin, RateCheck, ServerReady, SendButton
  <2> QED BY <1>1, <2>1, <2>2
<1>6. ASSUME NEW p \in Sweepers,
             \/ SweeperNext(p) \/ ClaimFails(p)
             \/ \E k \in Tokens : NotifyFails(p, k)
      PROVE  SpendInv'
  <2>1. UNCHANGED <<saved, requests>>
    BY <1>6 DEF SweeperNext, ClaimRead, ClaimCommit, Notify, ClaimFails,
       NotifyFails
  <2>2. \A k \in Tokens : tokens'[k].used = tokens[k].used
    BY <1>6 DEF SweeperNext, ClaimRead, ClaimCommit, Notify, ClaimFails,
       NotifyFails
  <2> QED BY <1>1, <2>1, <2>2
<1>7. CASE Restart
  BY <1>1, <1>7 DEF Restart, IdleRequest
<1>8. CASE Tick \/ UNCHANGED vars
  BY <1>1, <1>8 DEF Tick, vars
<1> QED BY <1>2, <1>3, <1>4, <1>5, <1>6, <1>7, <1>8 DEF Next, RequestNext

\* shared/connect_tokens.py, consume_token, and connect_web/app.py: however
\* many POSTs race for a token, are rolled back or die, it is spent exactly
\* when one session was saved with it.
THEOREM SessionPerToken ==
  ASSUME ConstantsAssumption PROVE Spec => []OneSessionPerToken
<1>1. Init => TypeInv /\ SpendInv
  <2>1. ASSUME Init PROVE SpendInv
    BY <2>1 DEF Init, SpendInv, LocksAreExclusive, OneSessionPerToken, NoRow,
       IdleRequest
  <2> QED BY <2>1, InitType
<1>2. TypeInv /\ [Next]_vars => TypeInv'
  BY TypeStep
<1>3. TypeInv /\ TypeInv' /\ SpendInv /\ [Next]_vars => SpendInv'
  BY SpendStep
<1>4. SpendInv => OneSessionPerToken
  BY DEF SpendInv
<1> QED BY <1>1, <1>2, <1>3, <1>4, PTL DEF Spec

-----------------------------------------------------------------------------
(* What steps do to the rows and the clock. *)

\* No row is issued or dated anew, and no mark is taken back.
RowsKept ==
  \A k \in Tokens :
    /\ tokens'[k].issued = tokens[k].issued
    /\ tokens'[k].created = tokens[k].created
    /\ tokens[k].used => tokens'[k].used
    /\ tokens[k].notified => tokens'[k].notified

LEMMA RowSteps ==
  ASSUME TypeInv, [Next]_vars
  PROVE  RowsKept \/ \E h \in Handlers : Create(h)
<1> USE DEF TypeInv, TypeParts
<1>1. CASE UNCHANGED tokens
  BY <1>1 DEF RowsKept
<1>2. ASSUME NEW h \in Handlers, RecordButton(h) PROVE RowsKept
  BY <1>2 DEF RecordButton, RowsKept, TokenRows
<1>3. ASSUME NEW r \in Requests, SaveCommit(r) PROVE RowsKept
  BY <1>3 DEF SaveCommit, RowsKept, TokenRows
<1>4. ASSUME NEW p \in Sweepers, ClaimCommit(p) PROVE RowsKept
  BY <1>4 DEF ClaimCommit, RowsKept, TokenRows
<1>5. ASSUME NEW h \in Handlers, HandlerNext(h) \/ HandlerFails(h)
      PROVE  Create(h) \/ RecordButton(h) \/ UNCHANGED tokens
  BY <1>5 DEF HandlerNext, HandlerFails, Connect, AskPhone, BeginLogin,
     RateCheck, ServerReady, SendButton
<1>6. ASSUME NEW r \in Requests,
             \/ RequestNext(r)
             \/ \E u \in Users, k \in Tokens, opened \in 0..now :
                  Post(r, u, k, opened)
      PROVE  SaveCommit(r) \/ UNCHANGED tokens
  BY <1>6 DEF RequestNext, CheckFails, CheckPasses, Consume, SaveFails, Finish, Post
<1>7. ASSUME NEW p \in Sweepers,
             \/ SweeperNext(p) \/ ClaimFails(p)
             \/ \E k \in Tokens : NotifyFails(p, k)
      PROVE  ClaimCommit(p) \/ UNCHANGED tokens
  BY <1>7 DEF SweeperNext, ClaimRead, Notify, ClaimFails, NotifyFails
<1>8. CASE Tick \/ Restart \/ UNCHANGED vars
  BY <1>1, <1>8 DEF Tick, Restart, vars
<1> QED BY <1>1, <1>2, <1>3, <1>4, <1>5, <1>6, <1>7, <1>8 DEF Next

LEMMA ClockSteps ==
  ASSUME ConstantsAssumption, TypeInv, [Next]_vars
  PROVE  now \in Nat /\ now' \in Nat /\ now <= now'
<1>1. now \in Nat
  BY DEF TypeInv, TypeParts, ConstantsAssumption
<1>2. UNCHANGED now \/ now' = now + 1
  BY DEF Next, vars, Tick, Restart, HandlerNext, HandlerFails, Connect, AskPhone,
     BeginLogin, RateCheck, Create, ServerReady, SendButton, RecordButton,
     RequestNext, CheckFails, CheckPasses, Consume, SaveCommit, SaveFails, Finish,
     Post, SweeperNext, ClaimRead, ClaimCommit, Notify, ClaimFails, NotifyFails
<1> QED BY <1>1, <1>2

\* Create issues one row that was not issued.
LEMMA CreateEffect ==
  ASSUME TypeInv, NEW h \in Handlers, Create(h)
  PROVE  \E k \in Tokens \ Issued :
           /\ tokens'[k].issued /\ tokens'[k].created = handlers[h].at
           /\ tokens'[k].used = tokens[k].used
           /\ tokens'[k].notified = tokens[k].notified
           /\ \A j \in Tokens \ {k} : tokens'[j] = tokens[j]
  BY DEF TypeInv, TypeParts, Create, TokenRows

-----------------------------------------------------------------------------
(* The notice, where no two claims overlap. *)

\* claim_expired_for_notice is one statement: no other process is between the
\* rows its subquery read and its commit.
ClaimsApart ==
  \A p, q \in Sweepers :
    sweepers[p].pc = "claiming" /\ sweepers[q].pc = "claiming" => p = q

\* What a sweep holds is past its deadline; until its claim is committed
\* nobody has claimed it, then it is claimed, nobody was told yet and nobody
\* else will tell.
BatchHolds ==
  \A p \in Sweepers : \A k \in sweepers[p].batch :
    /\ k \in Issued /\ ExpiresAt(k) <= now
    /\ sweepers[p].pc = "claiming" => ~tokens[k].notified
    /\ sweepers[p].pc = "notifying" =>
         /\ tokens[k].notified /\ notices[k] = 0
         /\ \A q \in Sweepers : sweepers[q].pc = "notifying"
                                /\ k \in sweepers[q].batch => p = q

\* Nobody is told of a token that was not claimed.
ToldIsClaimed ==
  \A k \in Tokens : notices[k] > 0 => k \in Issued /\ tokens[k].notified

ToldInv == BatchHolds /\ ToldIsClaimed /\ ToldAtMostOnce

\* Deadlines of issued tokens do not move.
LEMMA ToldByOthers ==
  ASSUME ConstantsAssumption, TypeInv, TypeInv', ToldInv, [Next]_vars,
         UNCHANGED notices,
         \A p \in Sweepers : sweepers'[p] = sweepers[p] \/ sweepers'[p] = IdleSweeper,
         \A k \in Tokens : tokens'[k].notified = tokens[k].notified
  PROVE  ToldInv'
<1> USE DEF TypeInv, TypeParts
<1>1. now \in Nat /\ now' \in Nat /\ now <= now'
  BY ClockSteps
<1>2. \A k \in Issued : k \in Issued' /\ tokens'[k].created = tokens[k].created
  <2>1. CASE RowsKept
    BY <2>1 DEF RowsKept, Issued
  <2>2. ASSUME NEW h \in Handlers, Create(h) PROVE <1>2
    BY <2>2, CreateEffect DEF Issued
  <2> QED BY <2>1, <2>2, RowSteps
<1>3. \A k \in Issued : ExpiresAt(k)' = ExpiresAt(k) /\ ExpiresAt(k) \in Nat
  BY <1>2 DEF ExpiresAt, Issued, TokenRows, ConstantsAssumption
<1>4. ASSUME NEW k \in Issued, ExpiresAt(k) <= now PROVE ExpiresAt(k)' <= now'
  BY <1>1, <1>3, <1>4
<1>5. BatchHolds'
  <2>1. ASSUME NEW p \in Sweepers, NEW k \in sweepers'[p].batch
        PROVE  sweepers'[p] = sweepers[p] /\ k \in Tokens
    BY <2>1 DEF IdleSweeper, SweeperStates
  <2> QED BY <1>2, <1>4, <2>1 DEF BatchHolds, ToldInv
<1>6. ToldIsClaimed' /\ ToldAtMostOnce'
  BY <1>2, <1>4 DEF ToldIsClaimed, ToldAtMostOnce, ToldInv
<1> QED BY <1>5, <1>6 DEF ToldInv

LEMMA ToldBySweeper ==
  ASSUME ConstantsAssumption, ClaimsApart, TypeInv, TypeInv', ToldInv,
         NEW p \in Sweepers,
         SweeperNext(p) \/ \E k \in Tokens : NotifyFails(p, k)
  PROVE  ToldInv'
<1> USE DEF TypeInv, TypeParts, ToldInv
<1>1. now' = now /\ now \in Nat
  BY DEF SweeperNext, ClaimRead, ClaimCommit, Notify, NotifyFails,
     ConstantsAssumption
<1>2. \A q \in Sweepers \ {p} : sweepers'[q] = sweepers[q]
  BY DEF SweeperNext, ClaimRead, ClaimCommit, Notify, NotifyFails, Served
<1>3. \A q \in Sweepers : sweepers[q].batch \subseteq Tokens
  BY DEF SweeperStates
<1>4. CASE ClaimRead(p)
  <2>1. PICK B \in SUBSET Due :
          /\ sweepers'[p].pc = "claiming" /\ sweepers'[p].batch = B
          /\ UNCHANGED <<tokens, notices>>
    BY <1>4 DEF ClaimRead, SweeperStates
  <2>2. Issued' = Issued /\ \A k \in Tokens : ExpiresAt(k)' = ExpiresAt(k)
    BY <2>1 DEF Issued, ExpiresAt
  <2>3. BatchHolds'
    BY <1>1, <1>2, <1>3, <2>1, <2>2 DEF BatchHolds, Due, Issued
  <2> QED BY <1>1, <2>1, <2>2, <2>3 DEF ToldIsClaimed, ToldAtMostOnce
<1>5. CASE ClaimCommit(p)
  <2> DEFINE B == sweepers[p].batch
  <2>1. B \subseteq Tokens /\ sweepers[p].pc = "claiming"
    BY <1>3, <1>5 DEF ClaimCommit
  <2>2. /\ \A k \in Tokens : /\ tokens'[k].issued = tokens[k].issued
                             /\ tokens'[k].created = tokens[k].created
                             /\ k \notin B => tokens'[k] = tokens[k]
                             /\ k \in B => tokens'[k].notified
        /\ sweepers'[p].pc = "notifying" /\ sweepers'[p].batch = B
        /\ UNCHANGED notices
    <3>1. \A k \in Tokens : [tokens[k] EXCEPT !.notified = TRUE].notified
      BY DEF TokenRows
    <3>2. /\ sweepers'[p].pc = "notifying" /\ sweepers'[p].batch = B
          /\ UNCHANGED notices
      <4> DEFINE M == {k \in B : tokens[k].msg}
                 u == [sweepers[p] EXCEPT !.pc = "notifying", !.msgs = M]
      <4>1. sweepers' = [sweepers EXCEPT ![p] = u] /\ UNCHANGED notices
        BY <1>5 DEF ClaimCommit
      <4> HIDE DEF M
      <4>2. u.pc = "notifying" /\ u.batch = B
        BY DEF SweeperStates
      <4> HIDE DEF u
      <4> QED BY <4>1, <4>2
    <3> QED BY <1>5, <3>1, <3>2 DEF ClaimCommit
  <2>3. Issued' = Issued /\ \A k \in Tokens : ExpiresAt(k)' = ExpiresAt(k)
    BY <2>2 DEF Issued, ExpiresAt
  \* Nobody has claimed these rows, nor is anybody about to.
  <2>4. ASSUME NEW k \in B
        PROVE  /\ k \in Issued /\ ExpiresAt(k) <= now
               /\ ~tokens[k].notified /\ notices[k] = 0
    BY <2>1, <2>4 DEF BatchHolds, ToldIsClaimed
  <2>5. ASSUME NEW q \in Sweepers \ {p}, NEW k \in sweepers[q].batch
        PROVE  /\ sweepers[q].pc # "claiming"
               /\ sweepers[q].pc = "notifying" => k \notin B
    BY <2>1, <2>4, <2>5 DEF ClaimsApart, BatchHolds
  <2>6. ASSUME NEW q \in Sweepers, NEW k \in sweepers'[q].batch
        PROVE  /\ (k \in Issued)' /\ ExpiresAt(k)' <= now'
               /\ sweepers'[q].pc = "claiming" => ~tokens'[k].notified
               /\ sweepers'[q].pc = "notifying" =>
                    /\ tokens'[k].notified /\ notices'[k] = 0
                    /\ \A r \in Sweepers : sweepers'[r].pc = "notifying"
                                           /\ k \in sweepers'[r].batch => q = r
    <3>1. CASE q = p
      BY <1>1, <1>2, <2>1, <2>2, <2>3, <2>4, <2>5, <2>6, <3>1
    <3>2. CASE q # p
      <4>1. /\ sweepers'[q] = sweepers[q] /\ k \in Tokens
            /\ sweepers[q].pc # "claiming"
            /\ k \in Issued /\ ExpiresAt(k) <= now
        BY <1>2, <1>3, <2>5, <2>6, <3>2 DEF BatchHolds
      <4>2. ASSUME sweepers[q].pc = "notifying"
            PROVE  /\ k \notin B /\ tokens[k].notified /\ notices[k] = 0
                   /\ \A r \in Sweepers : sweepers[r].pc = "notifying"
                                          /\ k \in sweepers[r].batch => q = r
        BY <2>5, <2>6, <3>2, <4>1, <4>2 DEF BatchHolds
      <4> QED BY <1>1, <1>2, <2>2, <2>3, <3>2, <4>1, <4>2
    <3> QED BY <3>1, <3>2
  <2>7. BatchHolds'
    BY <2>6 DEF BatchHolds
  <2>8. \A k \in Tokens : tokens[k].notified => tokens'[k].notified
    BY <2>2
  <2> QED BY <1>1, <2>2, <2>3, <2>7, <2>8 DEF ToldIsClaimed, ToldAtMostOnce
<1>6. ASSUME NEW k \in Tokens, Notify(p, k) \/ NotifyFails(p, k) PROVE ToldInv'
  <2>1. /\ k \in Issued /\ ExpiresAt(k) <= now
        /\ tokens[k].notified /\ notices[k] = 0
        /\ sweepers[p].pc = "notifying" /\ k \in sweepers[p].batch
    BY <1>6 DEF Notify, NotifyFails, BatchHolds
  <2>2. /\ UNCHANGED tokens
        /\ notices'[k] \in {0, 1}
        /\ \A j \in Tokens \ {k} : notices'[j] = notices[j]
    BY <1>6, <2>1 DEF Notify, NotifyFails
  <2>3. /\ sweepers'[p].pc \in {"idle", "notifying"}
        /\ sweepers'[p].batch \subseteq sweepers[p].batch \ {k}
    BY <1>6, <2>1 DEF Notify, NotifyFails, Served, IdleSweeper, SweeperStates
  <2>4. Issued' = Issued /\ \A j \in Tokens : ExpiresAt(j)' = ExpiresAt(j)
    BY <2>2 DEF Issued, ExpiresAt
  <2>5. BatchHolds'
    <3>1. ASSUME NEW q \in Sweepers, NEW j \in sweepers'[q].batch
          PROVE  /\ j \in sweepers[q].batch /\ j \in Tokens
                 /\ sweepers'[q].pc = "claiming" => sweepers[q].pc = "claiming"
                 /\ sweepers'[q].pc = "notifying" =>
                      sweepers[q].pc = "notifying" /\ j # k
      <4>1. CASE q = p
        BY <1>3, <2>1, <2>3, <3>1, <4>1
      <4>2. CASE q # p
        <5>1. sweepers'[q] = sweepers[q]
          BY <1>2, <4>2
        <5> QED BY <1>3, <2>1, <3>1, <4>2, <5>1 DEF BatchHolds
      <4> QED BY <4>1, <4>2
    <3> QED BY <1>1, <2>2, <2>4, <3>1 DEF BatchHolds
  <2>6. ToldIsClaimed' /\ ToldAtMostOnce'
    BY <1>1, <2>1, <2>2, <2>4 DEF ToldIsClaimed, ToldAtMostOnce
  <2> QED BY <2>5, <2>6
<1> QED BY <1>4, <1>5, <1>6 DEF SweeperNext

LEMMA ToldStep ==
  ASSUME ConstantsAssumption, ClaimsApart, TypeInv, TypeInv', ToldInv, [Next]_vars
  PROVE  ToldInv'
<1> USE DEF TypeInv, TypeParts
<1>1. ASSUME NEW p \in Sweepers,
             SweeperNext(p) \/ \E k \in Tokens : NotifyFails(p, k)
      PROVE  ToldInv'
  BY <1>1, ToldBySweeper
<1>2. ASSUME UNCHANGED <<sweepers, notices>>,
             \A k \in Tokens : tokens'[k].notified = tokens[k].notified
      PROVE  ToldInv'
  BY <1>2, ToldByOthers
<1>3. ASSUME NEW h \in Handlers, HandlerNext(h) \/ HandlerFails(h) PROVE ToldInv'
  <2>1. UNCHANGED <<sweepers, notices>>
    BY <1>3 DEF HandlerNext, HandlerFails, Connect, AskPhone, BeginLogin,
       RateCheck, Create, ServerReady, SendButton, RecordButton
  <2>2. \A k \in Tokens : tokens'[k].notified = tokens[k].notified
    <3>1. CASE Create(h)
      BY <3>1, CreateEffect
    <3>2. CASE RecordButton(h)
      BY <3>2 DEF RecordButton, TokenRows
    <3>3. CASE UNCHANGED tokens
      BY <3>3
    <3> QED BY <1>3, <3>1, <3>2, <3>3 DEF HandlerNext, HandlerFails, Connect,
         AskPhone, BeginLogin, RateCheck, ServerReady, SendButton
  <2> QED BY <1>2, <2>1, <2>2
<1>4. ASSUME NEW r \in Requests,
             \/ RequestNext(r)
             \/ \E u \in Users, k \in Tokens, opened \in 0..now :
                  Post(r, u, k, opened)
      PROVE  ToldInv'
  <2>1. UNCHANGED <<sweepers, notices>>
    BY <1>4 DEF RequestNext, CheckFails, CheckPasses, Consume, SaveCommit,
       SaveFails, Finish, Post
  <2>2. \A k \in Tokens : tokens'[k].notified = tokens[k].notified
    <3>1. CASE SaveCommit(r)
      BY <3>1 DEF SaveCommit, TokenRows
    <3>2. CASE UNCHANGED tokens
      BY <3>2
    <3> QED BY <1>4, <3>1, <3>2 DEF RequestNext, CheckFails, CheckPasses, Consume,
         SaveFails, Finish, Post
  <2> QED BY <1>2, <2>1, <2>2
<1>5. CASE Restart \/ \E p \in Sweepers : ClaimFails(p)
  <2>1. UNCHANGED <<tokens, notices>>
    BY <1>5 DEF Restart, ClaimFails
  <2>2. \A q \in Sweepers : sweepers'[q] = sweepers[q] \/ sweepers'[q] = IdleSweeper
    BY <1>5 DEF Restart, ClaimFails
  <2> QED BY <2>1, <2>2, ToldByOthers
<1>6. CASE Tick \/ UNCHANGED vars
  BY <1>2, <1>6 DEF Tick, vars
<1> QED BY <1>1, <1>3, <1>4, <1>5, <1>6 DEF Next

\* shared/connect_tokens.py, claim_expired_for_notice: however many processes
\* sweep, as long as no two of their claims overlap "your link ran out" is sent
\* at most once for a token and only when its time is over, whatever restarts,
\* failed sweeps and POSTs intervene.
THEOREM ToldOnceClaimsApart ==
  ASSUME ConstantsAssumption PROVE Spec /\ []ClaimsApart => []ToldAtMostOnce
<1>1. Init => TypeInv /\ ToldInv
  <2>1. ASSUME Init PROVE ToldInv
    BY <2>1 DEF Init, ToldInv, BatchHolds, ToldIsClaimed, ToldAtMostOnce,
       IdleSweeper
  <2> QED BY <2>1, InitType
<1>2. TypeInv /\ [Next]_vars => TypeInv'
  BY TypeStep
<1>3. ClaimsApart /\ TypeInv /\ TypeInv' /\ ToldInv /\ [Next]_vars => ToldInv'
  BY ToldStep
<1>4. ToldInv => ToldAtMostOnce
  BY DEF ToldInv
<1> QED BY <1>1, <1>2, <1>3, <1>4, PTL DEF Spec

OneSweeper == \A p, q \in Sweepers : p = q

\* The deployment of docker-compose.yml, one bot process: nothing overlaps.
THEOREM ToldOnce ==
  ASSUME ConstantsAssumption, OneSweeper PROVE Spec => []ToldAtMostOnce
<1>1. ClaimsApart
  BY DEF OneSweeper, ClaimsApart
<1>2. []ClaimsApart
  BY <1>1, PTL
<1> QED BY <1>2, ToldOnceClaimsApart, PTL

-----------------------------------------------------------------------------
(* One attempt at a time, and the rate limit, where no two handlers decide   *)
(* about an attempt at once.                                                 *)

\* Between the look at the attempts in flight and the INSERT.
Deciding == {h \in Handlers : handlers[h].pc \in {"checked", "limiting", "creating"}}

AttemptsApart == \A g, h \in Deciding : g = h

NoneActive == \A k \in Issued : tokens[k].used \/ ExpiresAt(k) <= now

\* From the look at the attempts in flight to the INSERT, and while the owner
\* is asked for a phone, there is no attempt in flight; past the rate limit the
\* other tokens are a window old.
AttemptHolds ==
  /\ waiting => NoneActive
  /\ \A h \in Handlers :
       /\ h \in Deciding => NoneActive
       /\ handlers[h].pc \in {"limiting", "creating"} => ~waiting
       /\ handlers[h].pc = "creating" => RateAllows(handlers[h].at)

AttemptInv == AttemptHolds /\ OneAttemptAtATime /\ AttemptsAreSpaced

\* While no token is issued there is none in flight and none is too close.
LEMMA AttemptsKept ==
  ASSUME ConstantsAssumption, TypeInv, TypeInv', AttemptInv, [Next]_vars, RowsKept
  PROVE  /\ NoneActive => NoneActive'
         /\ OneAttemptAtATime' /\ AttemptsAreSpaced'
         /\ \A at \in Nat : RateAllows(at) => RateAllows(at)'
<1> USE DEF TypeInv, TypeParts
<1>1. now \in Nat /\ now' \in Nat /\ now <= now'
  BY ClockSteps
<1>2. Issued' = Issued /\ \A k \in Issued : tokens'[k].created = tokens[k].created
  BY DEF RowsKept, Issued
<1>3. \A k \in Issued : tokens[k].created \in Nat /\ TTL \in Nat /\ k \in Tokens
  BY DEF Issued, TokenRows, ConstantsAssumption
<1>4. NoneActive => NoneActive'
  BY <1>1, <1>2, <1>3 DEF NoneActive, ExpiresAt, RowsKept
<1>5. OneAttemptAtATime'
  BY <1>1, <1>2, <1>3 DEF OneAttemptAtATime, RowsKept, AttemptInv
<1>6. AttemptsAreSpaced' /\ \A at \in Nat : RateAllows(at) => RateAllows(at)'
  BY <1>2 DEF AttemptsAreSpaced, RateAllows, AttemptInv
<1> QED BY <1>4, <1>5, <1>6

LEMMA AttemptByOthers ==
  ASSUME ConstantsAssumption, TypeInv, TypeInv', AttemptInv, [Next]_vars, RowsKept,
         waiting' => waiting,
         \A h \in Handlers : handlers'[h] = handlers[h] \/ handlers'[h] = IdleHandler
  PROVE  AttemptInv'
<1> USE DEF TypeInv, TypeParts
<1>1. /\ NoneActive => NoneActive'
      /\ OneAttemptAtATime' /\ AttemptsAreSpaced'
      /\ \A at \in Nat : RateAllows(at) => RateAllows(at)'
  BY AttemptsKept
<1>2. ASSUME NEW h \in Handlers, handlers'[h].pc # "idle"
      PROVE  handlers'[h] = handlers[h] /\ handlers[h].at \in Nat
  BY <1>2 DEF IdleHandler, HandlerStates
<1>3. ASSUME waiting' PROVE NoneActive'
  BY <1>1, <1>3 DEF AttemptInv, AttemptHolds
<1>4. ASSUME NEW h \in Handlers
      PROVE  /\ h \in Deciding' => NoneActive'
             /\ handlers'[h].pc \in {"limiting", "creating"} => ~waiting'
             /\ handlers'[h].pc = "creating" => RateAllows(handlers[h].at)'
  BY <1>1, <1>2 DEF AttemptInv, AttemptHolds, RateAllows, Deciding
<1> QED BY <1>1, <1>3, <1>4 DEF AttemptInv, AttemptHolds

LEMMA AttemptByHandler ==
  ASSUME ConstantsAssumption, AttemptsApart, TypeInv, TypeInv', AttemptInv,
         NEW h \in Handlers, HandlerNext(h)
  PROVE  AttemptInv'
<1> USE DEF TypeInv, TypeParts
<1>1. [Next]_vars
  BY DEF Next
<1>2. /\ handlers[h] \in HandlerStates /\ now \in Nat /\ now' = now
      /\ \A g \in Handlers \ {h} : handlers'[g] = handlers[g]
  <2>1. handlers[h] \in HandlerStates /\ now \in Nat /\ now' = now
    BY DEF HandlerNext, Connect, AskPhone, BeginLogin, RateCheck, Create,
       ServerReady, SendButton, RecordButton, ConstantsAssumption
  <2>2. CASE BeginLogin(h)
    BY <2>1, <2>2 DEF BeginLogin
  <2>3. CASE Create(h)
    BY <2>1, <2>3 DEF Create
  <2>4. CASE UNCHANGED handlers \/ EndHandler(h)
    BY <2>1, <2>4 DEF EndHandler
  <2>5. ASSUME NEW pc, To(h, pc)
        PROVE  \A g \in Handlers \ {h} : handlers'[g] = handlers[g]
    BY <2>5 DEF To
  <2> QED BY <2>1, <2>2, <2>3, <2>4, <2>5 DEF HandlerNext, Connect, AskPhone,
       RateCheck, ServerReady, SendButton, RecordButton
\* While h decides nobody else does, so nobody else minds.
<1>3. h \in Deciding => \A g \in Handlers \ {h} : g \notin Deciding'
  BY <1>2 DEF AttemptsApart, Deciding
\* What is left to show for a step that issues no token.
<1>4. ASSUME RowsKept,
             waiting' => NoneActive,
             waiting' => waiting \/ h \in Deciding,
             h \in Deciding' => NoneActive,
             handlers'[h].pc \in {"limiting", "creating"} => ~waiting',
             handlers'[h].pc = "creating"
               => handlers'[h].at \in Nat /\ RateAllows(handlers'[h].at)
      PROVE  AttemptInv'
  <2>1. /\ NoneActive => NoneActive'
        /\ OneAttemptAtATime' /\ AttemptsAreSpaced'
        /\ \A at \in Nat : RateAllows(at) => RateAllows(at)'
    BY <1>1, <1>4, AttemptsKept
  <2>2. handlers'[h].pc = "creating" => RateAllows(handlers[h].at)'
    BY <1>4, <2>1 DEF RateAllows
  <2>3. ASSUME NEW g \in Handlers \ {h}
        PROVE  /\ g \in Deciding' => NoneActive'
               /\ handlers'[g].pc \in {"limiting", "creating"} => ~waiting'
               /\ handlers'[g].pc = "creating" => RateAllows(handlers[g].at)'
    <3>1. handlers'[g] = handlers[g] /\ handlers[g].at \in Nat
      BY <1>2 DEF HandlerStates
    <3>2. (g \in Deciding' => g \in Deciding)
          /\ (handlers'[g].pc \in {"limiting", "creating"} => g \in Deciding)
      BY <3>1 DEF Deciding
    <3>3. g \in Deciding => h \notin Deciding
      BY DEF AttemptsApart
    <3>4. handlers'[g].pc = "creating" => RateAllows(handlers[g].at)'
      BY <2>1, <3>1 DEF RateAllows, AttemptInv, AttemptHolds
    <3> QED BY <1>4, <2>1, <3>1, <3>2, <3>3, <3>4 DEF AttemptInv, AttemptHolds
  <2>4. (waiting => NoneActive)'
    BY <1>4, <2>1
  <2> QED BY <1>4, <2>1, <2>2, <2>3, <2>4 DEF AttemptInv, AttemptHolds
<1>5. UNCHANGED tokens => RowsKept
  BY DEF RowsKept
<1>6. CASE Connect(h)
  <2>1. Active = {} => NoneActive
    BY <1>2 DEF Active, Valid, NoneActive, Issued, ExpiresAt, TokenRows,
       ConstantsAssumption
  <2>2. CASE Active = {}
    <3>1. handlers'[h].pc = "checked" /\ UNCHANGED <<tokens, waiting>>
      BY <1>2, <1>6, <2>2 DEF Connect, To, HandlerStates
    <3> QED BY <1>4, <1>5, <2>1, <2>2, <3>1
  <2>3. CASE Active # {}
    <3>1. UNCHANGED <<handlers, tokens>> /\ ~waiting'
      BY <1>6, <2>3 DEF Connect
    <3>2. handlers[h].pc = "idle" /\ h \notin Deciding'
      BY <1>6, <3>1 DEF Connect, Deciding
    <3> QED BY <1>4, <1>5, <3>1, <3>2
  <2> QED BY <2>2, <2>3
<1>7. CASE AskPhone(h)
  <2>1. /\ handlers'[h].pc = "idle" /\ h \notin Deciding' /\ h \in Deciding
        /\ UNCHANGED tokens
    BY <1>7 DEF AskPhone, EndHandler, IdleHandler, Deciding
  <2> QED BY <1>4, <1>5, <2>1 DEF AttemptInv, AttemptHolds
<1>8. CASE BeginLogin(h)
  <2>1. h \in Deciding \/ waiting
    BY <1>8 DEF BeginLogin, Deciding
  <2>2. /\ NoneActive /\ ~waiting' /\ handlers'[h].pc = "limiting"
        /\ UNCHANGED tokens
    BY <1>2, <1>8, <2>1 DEF BeginLogin, AttemptInv, AttemptHolds, HandlerStates
  <2> QED BY <1>4, <1>5, <2>2
<1>9. CASE RateCheck(h)
  <2>1. NoneActive /\ ~waiting' /\ UNCHANGED tokens
    BY <1>9 DEF RateCheck, AttemptInv, AttemptHolds, Deciding
  <2>2. CASE RateAllows(handlers[h].at) /\ To(h, "creating")
    BY <1>2, <1>4, <1>5, <2>1, <2>2 DEF To, HandlerStates
  <2>3. CASE EndHandler(h)
    BY <1>4, <1>5, <2>1, <2>3 DEF EndHandler, IdleHandler
  <2> QED BY <1>9, <2>2, <2>3 DEF RateCheck
<1>10. CASE ServerReady(h) \/ SendButton(h)
  <2>1. /\ handlers'[h].pc \in {"sending", "recording"} /\ h \notin Deciding'
        /\ UNCHANGED <<tokens, waiting>>
    BY <1>2, <1>10 DEF ServerReady, SendButton, To, HandlerStates, Deciding
  <2> QED BY <1>4, <1>5, <2>1 DEF AttemptInv, AttemptHolds
<1>11. CASE RecordButton(h)
  <2>1. RowsKept
    BY <1>11 DEF RecordButton, RowsKept, TokenRows
  <2>2. handlers'[h].pc = "idle" /\ h \notin Deciding' /\ UNCHANGED waiting
    BY <1>11 DEF RecordButton, EndHandler, IdleHandler, Deciding
  <2> QED BY <1>4, <2>1, <2>2 DEF AttemptInv, AttemptHolds
<1>12. CASE Create(h)
  <2> DEFINE at == handlers[h].at
  <2>1. /\ NoneActive /\ ~waiting' /\ RateAllows(at) /\ at \in Nat
        /\ h \in Deciding
    BY <1>2, <1>12 DEF Create, AttemptInv, AttemptHolds, HandlerStates, Deciding
  <2>2. PICK k \in Tokens \ Issued :
          /\ tokens'[k].issued /\ tokens'[k].created = at
          /\ \A j \in Tokens \ {k} : tokens'[j] = tokens[j]
    BY <1>12, CreateEffect
  <2>3. Issued' = Issued \cup {k}
    BY <2>2 DEF Issued
  <2>4. \A j \in Issued : /\ tokens'[j] = tokens[j] /\ j # k
                          /\ tokens[j].created \in Nat
    BY <2>2 DEF Issued, TokenRows
  <2>5. \A j \in Issued' : j = k \/ tokens'[j].used \/ tokens'[j].created + TTL <= now'
    BY <1>2, <2>1, <2>3, <2>4 DEF NoneActive, ExpiresAt
  <2>6. OneAttemptAtATime'
    BY <1>2, <2>2, <2>3, <2>4, <2>5 DEF OneAttemptAtATime, ConstantsAssumption
  <2>7. AttemptsAreSpaced'
    BY <2>1, <2>2, <2>3, <2>4 DEF AttemptsAreSpaced, RateAllows, AttemptInv
  <2>8. handlers'[h].pc = "starting"
    BY <1>2, <1>12 DEF Create, HandlerStates
  <2>9. \A g \in Handlers : g \notin Deciding'
    BY <1>3, <2>1, <2>8 DEF Deciding
  <2>10. AttemptHolds'
    BY <2>1, <2>8, <2>9 DEF AttemptHolds, Deciding
  <2> QED BY <2>6, <2>7, <2>10 DEF AttemptInv
<1> QED BY <1>6, <1>7, <1>8, <1>9, <1>10, <1>11, <1>12 DEF HandlerNext

LEMMA AttemptStep ==
  ASSUME ConstantsAssumption, AttemptsApart, TypeInv, TypeInv', AttemptInv,
         [Next]_vars
  PROVE  AttemptInv'
<1>1. ASSUME NEW h \in Handlers, HandlerNext(h) PROVE AttemptInv'
  BY <1>1, AttemptByHandler
<1>2. CASE Restart \/ \E h \in Handlers : HandlerFails(h)
  <2>1. RowsKept
    BY <1>2 DEF Restart, HandlerFails, RowsKept
  <2>2. /\ waiting' => waiting
        /\ \A h \in Handlers :
             handlers'[h] = handlers[h] \/ handlers'[h] = IdleHandler
    BY <1>2 DEF Restart, HandlerFails, EndHandler, TypeInv, TypeParts
  <2> QED BY <2>1, <2>2, AttemptByOthers
<1>3. CASE UNCHANGED <<handlers, waiting>>
  <2>1. RowsKept
    <3>1. ASSUME NEW h \in Handlers, Create(h) PROVE FALSE
      BY <1>3, <3>1 DEF Create, TypeInv, TypeParts, HandlerStates
    <3> QED BY <3>1, RowSteps
  <2> QED BY <1>3, <2>1, AttemptByOthers
<1>4. ASSUME NEW r \in Requests,
             \/ RequestNext(r)
             \/ \E u \in Users, k \in Tokens, opened \in 0..now :
                  Post(r, u, k, opened)
      PROVE  UNCHANGED <<handlers, waiting>>
  BY <1>4 DEF RequestNext, CheckFails, CheckPasses, Consume, SaveCommit,
     SaveFails, Finish, Post
<1>5. ASSUME NEW p \in Sweepers,
             \/ SweeperNext(p) \/ ClaimFails(p)
             \/ \E k \in Tokens : NotifyFails(p, k)
      PROVE  UNCHANGED <<handlers, waiting>>
  BY <1>5 DEF SweeperNext, ClaimRead, ClaimCommit, Notify, ClaimFails, NotifyFails
<1>6. CASE Tick \/ UNCHANGED vars
  BY <1>3, <1>6 DEF Tick, vars
<1> QED BY <1>1, <1>2, <1>3, <1>4, <1>5, <1>6 DEF Next

\* What both theorems below rest on.
LEMMA AttemptsHold ==
  ASSUME ConstantsAssumption PROVE Spec /\ []AttemptsApart => []AttemptInv
<1>1. Init => TypeInv /\ AttemptInv
  <2>1. ASSUME Init PROVE AttemptInv
    <3>1. Issued = {}
      BY <2>1 DEF Init, Issued, NoRow
    <3> QED BY <2>1, <3>1 DEF Init, AttemptInv, AttemptHolds, NoneActive,
         OneAttemptAtATime, AttemptsAreSpaced, IdleHandler, Deciding
  <2> QED BY <2>1, InitType
<1>2. TypeInv /\ [Next]_vars => TypeInv'
  BY TypeStep
<1>3. AttemptsApart /\ TypeInv /\ TypeInv' /\ AttemptInv /\ [Next]_vars
        => AttemptInv'
  BY AttemptStep
<1> QED BY <1>1, <1>2, <1>3, PTL DEF Spec

\* management_bot/handlers/connect.py, cmd_connect: however many of the owner's
\* updates are handled at once, as long as no two of them are between their look
\* at the attempts in flight and their INSERT there is one login attempt at a
\* time, through restarts, failed handlers and phones asked for and sent later.
THEOREM OneAttemptApart ==
  ASSUME ConstantsAssumption
  PROVE  Spec /\ []AttemptsApart => []OneAttemptAtATime
<1>1. AttemptInv => OneAttemptAtATime
  BY DEF AttemptInv
<1> QED BY <1>1, AttemptsHold, PTL

\* shared/connect_tokens.py, create_token: under the same condition two tokens
\* are issued at least a rate-limit window apart.
THEOREM SpacedApart ==
  ASSUME ConstantsAssumption
  PROVE  Spec /\ []AttemptsApart => []AttemptsAreSpaced
<1>1. AttemptInv => AttemptsAreSpaced
  BY DEF AttemptInv
<1> QED BY <1>1, AttemptsHold, PTL

OneHandler == \A g, h \in Handlers : g = h

\* An owner whose updates are handled one after another meets the condition.
LEMMA HandledInTurn ==
  ASSUME OneHandler PROVE []AttemptsApart
<1>1. AttemptsApart
  BY DEF OneHandler, AttemptsApart, Deciding
<1> QED BY <1>1, PTL

THEOREM OneAttempt ==
  ASSUME ConstantsAssumption, OneHandler PROVE Spec => []OneAttemptAtATime
BY HandledInTurn, OneAttemptApart, PTL

THEOREM Spaced ==
  ASSUME ConstantsAssumption, OneHandler PROVE Spec => []AttemptsAreSpaced
BY HandledInTurn, SpacedApart, PTL

-----------------------------------------------------------------------------
(* The tokens keep the ledger's promise.                                    *)

\* A consumption that holds the row lock captured its time in time; a sweep
\* holds tokens whose time is over.  Both need no condition on who overlaps.
SavingInTime ==
  \A r \in Requests : requests[r].pc = "saving"
    => requests[r].at < ExpiresAt(requests[r].tok)

BatchLapsed == \A p \in Sweepers : sweepers[p].batch \subseteq Lapsed

LedgerInv == SpendInv /\ SavingInTime /\ BatchLapsed

\* What the ledger sees of the rows is the same before and after the step.
RowsSame ==
  \A k \in Tokens : /\ tokens'[k].issued = tokens[k].issued
                    /\ tokens'[k].created = tokens[k].created
                    /\ tokens'[k].used = tokens[k].used

LEMMA SameRows ==
  ASSUME RowsSame
  PROVE  /\ Issued' = Issued
         /\ \A k \in Tokens : ExpiresAt(k)' = ExpiresAt(k)
         /\ now' = now => Lapsed' = Lapsed
BY DEF RowsSame, Issued, ExpiresAt, Lapsed

\* A token is held by whom a POST in flight says.
Holds(r, k) ==
  /\ requests[r].pc \in {"consuming", "saving"}
  /\ requests[r].tok = k
  /\ requests[r].at < ExpiresAt(k)

LEMMA HeldBy ==
  /\ Held = {k \in Tokens : ~tokens[k].used /\ \E r \in Requests : Holds(r, k)}
  /\ Held' = {k \in Tokens : ~tokens'[k].used /\ \E r \in Requests : Holds(r, k)'}
BY DEF Held, Holds

LEMMA SameHeld ==
  ASSUME RowsSame,
         \A r \in Requests, k \in Tokens : Holds(r, k)' <=> Holds(r, k)
  PROVE  Held' = Held
BY HeldBy DEF RowsSame

\* Handlers: the INSERT issues a token, which nobody can hold yet.
LEMMA HandlerLedger ==
  ASSUME ConstantsAssumption, TypeInv, NEW h \in Handlers,
         HandlerNext(h) \/ HandlerFails(h)
  PROVE  [Ledger!Next]_Ledger!vars
<1> USE DEF TypeInv, TypeParts
<1>1. UNCHANGED <<now, requests, saved, notices>> /\ UNCHANGED <<Spent, Told>>
  BY DEF HandlerNext, Connect, AskPhone, BeginLogin, RateCheck, Create,
     ServerReady, SendButton, RecordButton, HandlerFails, Spent, Told
<1>2. CASE RowsSame
  <2>1. \A r \in Requests, k \in Tokens : Holds(r, k)' <=> Holds(r, k)
    BY <1>1, <1>2, SameRows DEF Holds
  <2> QED BY <1>1, <1>2, <2>1, SameRows, SameHeld DEF Ledger!vars
<1>3. CASE Create(h)
  <2>1. PICK k \in Tokens \ Issued :
          /\ tokens'[k].issued /\ tokens'[k].created = handlers[h].at
          /\ tokens'[k].used = tokens[k].used
          /\ \A j \in Tokens \ {k} : tokens'[j] = tokens[j]
    BY <1>3, CreateEffect
  <2>2. Issued' = Issued \cup {k}
    BY <2>1 DEF Issued
  <2>3. Lapsed' \in {Lapsed, Lapsed \cup {k}}
    BY <1>1, <2>1, <2>2 DEF Lapsed, Issued, ExpiresAt
  <2>4. Held' = Held
    <3>1. ASSUME NEW r \in Requests PROVE ~Holds(r, k) /\ ~Holds(r, k)'
      BY <1>1, <2>1 DEF Holds, RequestsHold
    <3>2. ASSUME NEW r \in Requests, NEW j \in Tokens \ {k}
          PROVE  Holds(r, j)' <=> Holds(r, j)
      BY <1>1, <2>1 DEF Holds, ExpiresAt
    <3>3. \A j \in Tokens : tokens'[j].used = tokens[j].used
      BY <2>1
    <3> QED BY <3>1, <3>2, <3>3, HeldBy
  <2>5. Ledger!Issue(k)
    BY <1>1, <2>1, <2>2, <2>3, <2>4 DEF Ledger!Issue
  <2> QED BY <2>5 DEF Ledger!Next
<1>4. CASE RecordButton(h)
  BY <1>2, <1>4 DEF RecordButton, RowsSame, TokenRows
<1>5. UNCHANGED tokens => RowsSame
  BY DEF RowsSame
<1> QED BY <1>2, <1>3, <1>4, <1>5 DEF HandlerNext, HandlerFails, Connect,
     AskPhone, BeginLogin, RateCheck, ServerReady, SendButton

\* POSTs: capturing the time in time is holding the token; the commit spends
\* it, and takes it from everybody else who held it.
LEMMA RequestLedger ==
  ASSUME ConstantsAssumption, TypeInv, LedgerInv, NEW r \in Requests,
         \/ RequestNext(r)
         \/ \E u \in Users, k \in Tokens, opened \in 0..now : Post(r, u, k, opened)
  PROVE  [Ledger!Next]_Ledger!vars
<1> USE DEF TypeInv, TypeParts
<1>1. UNCHANGED <<now, notices>> /\ UNCHANGED Told
  BY DEF RequestNext, CheckFails, CheckPasses, Consume, SaveCommit, SaveFails,
     Finish, Post, Told
<1>2. requests[r] \in RequestStates /\ now \in Nat
  BY DEF ConstantsAssumption
\* What is left to show for a step that writes no row.
<1>3. ASSUME UNCHANGED <<tokens, saved>>,
             \A q \in Requests \ {r} : requests'[q] = requests[q],
             \/ \A k \in Tokens : Holds(r, k)' => Holds(r, k)
             \/ \E j \in Tokens :
                  /\ j \in Issued \ Lapsed
                  /\ \A k \in Tokens : Holds(r, k)' <=> k = j
                  /\ \A k \in Tokens : ~Holds(r, k)
      PROVE  [Ledger!Next]_Ledger!vars
  <2>1. RowsSame /\ UNCHANGED Spent
    BY <1>3 DEF RowsSame, Spent
  <2>2. Issued' = Issued /\ Lapsed' = Lapsed
    BY <1>1, <2>1, SameRows
  <2>3. \A q \in Requests \ {r}, k \in Tokens : Holds(q, k)' <=> Holds(q, k)
    BY <1>3 DEF Holds, ExpiresAt
  <2>4. CASE \A k \in Tokens : Holds(r, k)' => Holds(r, k)
    <3>1. Held' \subseteq Held /\ Held \subseteq Tokens
      BY <1>3, <2>3, <2>4, HeldBy
    <3>2. Ledger!Release(Held \ Held')
      BY <1>1, <2>1, <2>2, <3>1 DEF Ledger!Release
    <3> QED BY <3>1, <3>2 DEF Ledger!Next
  <2>5. ASSUME NEW j \in Tokens, j \in Issued \ Lapsed,
               \A k \in Tokens : Holds(r, k)' <=> k = j,
               \A k \in Tokens : ~Holds(r, k)
        PROVE  [Ledger!Next]_Ledger!vars
    <3>1. CASE tokens[j].used
      <4>1. Held' = Held
        BY <1>3, <2>3, <2>5, <3>1, HeldBy
      <4> QED BY <1>1, <2>1, <2>2, <4>1 DEF Ledger!vars
    <3>2. CASE ~tokens[j].used
      <4>1. Held' = Held \cup {j}
        BY <1>3, <2>3, <2>5, <3>2, HeldBy
      <4>2. j \notin Spent
        BY <2>5, <3>2 DEF Spent, LedgerInv, SpendInv, OneSessionPerToken
      <4>3. Ledger!Hold(j)
        BY <1>1, <2>1, <2>2, <2>5, <4>1, <4>2 DEF Ledger!Hold
      <4> QED BY <4>3 DEF Ledger!Next
    <3> QED BY <3>1, <3>2
  <2> QED BY <1>3, <2>4, <2>5
<1>4. ASSUME requests'[r].pc \notin {"consuming", "saving"},
             UNCHANGED <<tokens, saved>>,
             \A q \in Requests \ {r} : requests'[q] = requests[q]
      PROVE  [Ledger!Next]_Ledger!vars
  BY <1>3, <1>4 DEF Holds
<1>5. CASE CheckFails(r) \/ SaveFails(r) \/ Finish(r)
  BY <1>4, <1>5 DEF CheckFails, SaveFails, Finish, EndRequest, IdleRequest
<1>6. ASSUME NEW u \in Users, NEW k \in Tokens, NEW opened \in 0..now,
             Post(r, u, k, opened)
      PROVE  [Ledger!Next]_Ledger!vars
  <2> DEFINE b == tokens[k].msg
             v == [pc |-> "checking", user |-> u, tok |-> k, at |-> 0, msg |-> b]
  <2>1. requests' = [requests EXCEPT ![r] = v] /\ UNCHANGED <<tokens, saved>>
    BY <1>6 DEF Post
  <2>2. v.pc = "checking"
    OBVIOUS
  <2> HIDE DEF v
  <2> QED BY <1>4, <2>1, <2>2
<1>7. CASE CheckPasses(r)
  <2> DEFINE u == [requests[r] EXCEPT !.pc = "consuming", !.at = now]
             j == requests[r].tok
  <2>1. requests' = [requests EXCEPT ![r] = u] /\ UNCHANGED <<tokens, saved>>
        /\ requests[r].pc = "checking"
    BY <1>7 DEF CheckPasses
  <2>2. u.pc = "consuming" /\ u.tok = j /\ u.at = now
    BY <1>2 DEF RequestStates
  <2>3. j \in Issued /\ j \in Tokens
    BY <2>1 DEF RequestsHold, Issued
  <2> HIDE DEF u, j
  <2>4. requests'[r] = u /\ \A q \in Requests \ {r} : requests'[q] = requests[q]
    BY <2>1
  <2>5. \A k \in Tokens : ~Holds(r, k)
    BY <2>1 DEF Holds
  <2>6. \A k \in Tokens : Holds(r, k)' <=> k = j /\ now < ExpiresAt(k)
    BY <2>1, <2>2, <2>4 DEF Holds, ExpiresAt
  <2>7. CASE now < ExpiresAt(j)
    <3>1. j \notin Lapsed
      BY <1>2, <2>3, <2>7 DEF Lapsed, ExpiresAt, TokenRows, ConstantsAssumption
    <3> QED BY <1>3, <2>1, <2>3, <2>4, <2>5, <2>6, <2>7, <3>1
  <2>8. CASE ~(now < ExpiresAt(j))
    BY <1>3, <2>1, <2>4, <2>6, <2>8
  <2> QED BY <2>7, <2>8
<1>8. CASE Consume(r)
  <2> DEFINE u == [requests[r] EXCEPT !.pc = "saving"]
  <2>1. UNCHANGED <<tokens, saved>> /\ requests[r].pc = "consuming"
    BY <1>8 DEF Consume
  <2>2. CASE requests' = [requests EXCEPT ![r] = u]
    <3>1. u.pc = "saving" /\ u.tok = requests[r].tok /\ u.at = requests[r].at
      BY <1>2 DEF RequestStates
    <3> HIDE DEF u
    <3>2. requests'[r] = u /\ \A q \in Requests \ {r} : requests'[q] = requests[q]
      BY <2>2
    <3>3. \A k \in Tokens : Holds(r, k)' => Holds(r, k)
      BY <2>1, <3>1, <3>2 DEF Holds, ExpiresAt
    <3> QED BY <1>3, <2>1, <3>2, <3>3
  <2>3. CASE requests' = [requests EXCEPT ![r] = IdleRequest]
    BY <1>4, <2>1, <2>3 DEF IdleRequest
  <2> QED BY <1>8, <2>2, <2>3 DEF Consume
<1>9. CASE SaveCommit(r)
  <2> DEFINE k == requests[r].tok
  <2>1. /\ k \in Tokens /\ k \in Issued /\ requests[r].pc = "saving"
        /\ ~tokens[k].used /\ saved[k] = 0
        /\ requests[r].at < ExpiresAt(k)
    BY <1>9 DEF SaveCommit, RequestsHold, Issued, LedgerInv, SpendInv,
       LocksAreExclusive, OneSessionPerToken, SavingInTime
  <2>2. /\ tokens'[k].issued = tokens[k].issued
        /\ tokens'[k].created = tokens[k].created
        /\ tokens'[k].used = TRUE /\ saved'[k] = 1
        /\ \A j \in Tokens \ {k} : tokens'[j] = tokens[j] /\ saved'[j] = saved[j]
    BY <1>9, <2>1 DEF SaveCommit, TokenRows
  <2>3. /\ requests'[r].pc = "finishing"
        /\ \A q \in Requests \ {r} : requests'[q] = requests[q]
    BY <1>9 DEF SaveCommit
  <2> HIDE DEF k
  <2>4. Issued' = Issued /\ Lapsed' = Lapsed /\ Spent' = Spent \cup {k}
    BY <1>1, <2>1, <2>2 DEF Issued, Lapsed, Spent, ExpiresAt
  <2>5. k \in Held
    BY <2>1 DEF Held, k
  <2>6. Held' = Held \ {k}
    <3>1. ASSUME NEW j \in Tokens \ {k}, NEW q \in Requests
          PROVE  Holds(q, j)' <=> Holds(q, j)
      <4>1. CASE q = r
        BY <2>1, <2>3, <4>1 DEF Holds, k
      <4>2. CASE q # r
        BY <2>2, <2>3, <4>2 DEF Holds, ExpiresAt
      <4> QED BY <4>1, <4>2
    <3> QED BY <2>2, <3>1, HeldBy
  <2>7. Ledger!Spend(k)
    BY <1>1, <2>4, <2>5, <2>6 DEF Ledger!Spend
  <2> QED BY <2>1, <2>7 DEF Ledger!Next
<1> QED BY <1>5, <1>6, <1>7, <1>8, <1>9 DEF RequestNext

\* Sweepers: a claim is none of the ledger's business, a message tells one
\* owner that a link's time is over.
LEMMA SweeperLedger ==
  ASSUME TypeInv, LedgerInv, NEW p \in Sweepers,
         \/ SweeperNext(p) \/ ClaimFails(p)
         \/ \E k \in Tokens : NotifyFails(p, k)
  PROVE  [Ledger!Next]_Ledger!vars
<1> USE DEF TypeInv, TypeParts
<1>1. UNCHANGED <<now, requests, saved>> /\ UNCHANGED Spent
  BY DEF SweeperNext, ClaimRead, ClaimCommit, Notify, ClaimFails, NotifyFails,
     Spent
<1>2. RowsSame
  BY DEF SweeperNext, ClaimRead, ClaimCommit, Notify, ClaimFails, NotifyFails,
     RowsSame, TokenRows
<1>3. Issued' = Issued /\ Lapsed' = Lapsed /\ Held' = Held
  <2>1. \A r \in Requests, k \in Tokens : Holds(r, k)' <=> Holds(r, k)
    BY <1>1, <1>2, SameRows DEF Holds
  <2> QED BY <1>1, <1>2, <2>1, SameRows, SameHeld
<1>4. ASSUME NEW k \in Tokens, Notify(p, k) PROVE [Ledger!Next]_Ledger!vars
  <2>1. k \in Lapsed
    BY <1>4 DEF Notify, LedgerInv, BatchLapsed
  <2>2. /\ notices'[k] > 0
        /\ \A j \in Tokens \ {k} : notices'[j] = notices[j]
    BY <1>4 DEF Notify
  <2>3. Told' = Told \cup {k}
    BY <2>2 DEF Told
  <2>4. Ledger!Tell(k)
    BY <1>1, <1>3, <2>1, <2>3 DEF Ledger!Tell
  <2> QED BY <2>4 DEF Ledger!Next
<1>5. CASE UNCHANGED notices
  BY <1>1, <1>3, <1>5 DEF Told, Ledger!vars
<1> QED BY <1>4, <1>5 DEF SweeperNext, ClaimRead, ClaimCommit, ClaimFails,
     NotifyFails

\* A restart lets go of every token that is held.
LEMMA StepLedger ==
  ASSUME ConstantsAssumption, TypeInv, LedgerInv, [Next]_vars
  PROVE  [Ledger!Next]_Ledger!vars
<1> USE DEF TypeInv, TypeParts
<1>1. CASE Tick
  <2>1. RowsSame /\ UNCHANGED <<requests, Spent, Told>>
    BY <1>1 DEF Tick, RowsSame, Spent, Told
  <2>2. Issued' = Issued /\ \A k \in Tokens : ExpiresAt(k)' = ExpiresAt(k)
    BY <2>1, SameRows
  <2>3. Lapsed \subseteq Lapsed' /\ Lapsed' \subseteq Issued
    <3>1. now \in Nat /\ now' = now + 1
      BY <1>1 DEF Tick, ConstantsAssumption
    <3>2. \A k \in Issued : ExpiresAt(k) \in Nat /\ k \in Tokens
      BY DEF Issued, ExpiresAt, TokenRows, ConstantsAssumption
    <3> QED BY <2>2, <3>1, <3>2 DEF Lapsed
  <2>4. Held' = Held
    <3>1. \A r \in Requests, k \in Tokens : Holds(r, k)' <=> Holds(r, k)
      BY <2>1, <2>2 DEF Holds
    <3> QED BY <2>1, <3>1, SameHeld
  <2>5. Ledger!Lapse(Lapsed' \ Lapsed)
    BY <2>1, <2>2, <2>3, <2>4 DEF Ledger!Lapse
  <2>6. Lapsed' \ Lapsed \in SUBSET Tokens
    BY <2>3 DEF Issued
  <2> QED BY <2>5, <2>6 DEF Ledger!Next
<1>2. CASE Restart
  <2>1. RowsSame /\ UNCHANGED <<now, Spent, Told>>
    BY <1>2 DEF Restart, RowsSame, Spent, Told
  <2>2. \A r \in Requests, k \in Tokens : ~Holds(r, k)'
    BY <1>2 DEF Restart, Holds, IdleRequest
  <2>3. Held' = {}
    BY <2>2, HeldBy
  <2>4. Ledger!Release(Held)
    BY <2>1, <2>3, SameRows DEF Ledger!Release
  <2>5. Held \in SUBSET Tokens
    BY DEF Held
  <2> QED BY <2>4, <2>5 DEF Ledger!Next
<1>3. CASE UNCHANGED vars
  BY <1>3 DEF vars, Ledger!vars, Issued, Lapsed, ExpiresAt, Held, Spent, Told
<1> QED BY <1>1, <1>2, <1>3, HandlerLedger, RequestLedger, SweeperLedger DEF Next

LEMMA LapsedGrows ==
  ASSUME ConstantsAssumption, TypeInv, [Next]_vars
  PROVE  /\ Lapsed \subseteq Lapsed'
         /\ \A k \in Issued : ExpiresAt(k)' = ExpiresAt(k)
<1> USE DEF TypeInv, TypeParts
<1>1. now \in Nat /\ now' \in Nat /\ now <= now'
  BY ClockSteps
<1>2. \A k \in Issued : k \in Issued' /\ tokens'[k].created = tokens[k].created
  <2>1. CASE RowsKept
    BY <2>1 DEF RowsKept, Issued
  <2>2. ASSUME NEW h \in Handlers, Create(h) PROVE <1>2
    BY <2>2, CreateEffect DEF Issued
  <2> QED BY <2>1, <2>2, RowSteps
<1>3. \A k \in Issued : ExpiresAt(k)' = ExpiresAt(k) /\ ExpiresAt(k) \in Nat
  BY <1>2 DEF ExpiresAt, Issued, TokenRows, ConstantsAssumption
<1> QED BY <1>1, <1>2, <1>3 DEF Lapsed

LEMMA SavingStep ==
  ASSUME ConstantsAssumption, TypeInv, SavingInTime, [Next]_vars
  PROVE  SavingInTime'
<1> USE DEF TypeInv, TypeParts
<1>1. \A r \in Requests : requests[r].pc # "idle" => requests[r].tok \in Issued
  BY DEF RequestsHold
<1>2. ASSUME \A r \in Requests : requests'[r].pc = "saving"
               => /\ requests[r].pc # "idle"
                  /\ requests'[r].tok = requests[r].tok
                  /\ requests'[r].at = requests[r].at
                  /\ requests[r].at < ExpiresAt(requests[r].tok)
      PROVE  SavingInTime'
  BY <1>1, <1>2, LapsedGrows DEF SavingInTime, ExpiresAt
<1>3. CASE UNCHANGED requests
  BY <1>2, <1>3 DEF SavingInTime
<1>4. ASSUME NEW r \in Requests, Consume(r) PROVE SavingInTime'
  <2>1. Consumes(r) => requests[r].at < ExpiresAt(requests[r].tok)
    BY DEF Consumes, Valid
  <2> QED BY <1>2, <1>4, <2>1 DEF Consume, SavingInTime, IdleRequest, RequestStates
<1>5. ASSUME NEW r \in Requests,
             \/ CheckFails(r) \/ CheckPasses(r) \/ SaveCommit(r) \/ SaveFails(r)
             \/ Finish(r)
             \/ \E u \in Users, k \in Tokens, opened \in 0..now :
                  Post(r, u, k, opened)
      PROVE  SavingInTime'
  <2>1. \A q \in Requests \ {r} : requests'[q] = requests[q]
    BY <1>5 DEF CheckFails, CheckPasses, SaveCommit, SaveFails, Finish, Post,
       EndRequest
  <2>2. requests'[r].pc # "saving"
    <3>1. CASE CheckFails(r) \/ SaveFails(r) \/ Finish(r)
      BY <3>1 DEF CheckFails, SaveFails, Finish, EndRequest, IdleRequest
    <3>2. CASE CheckPasses(r)
      BY <3>2 DEF CheckPasses
    <3>3. CASE SaveCommit(r)
      BY <3>3 DEF SaveCommit
    <3>4. ASSUME NEW u \in Users, NEW k \in Tokens, NEW opened \in 0..now,
                 Post(r, u, k, opened)
          PROVE  requests'[r].pc = "checking"
      BY <3>4 DEF Post
    <3> QED BY <1>5, <3>1, <3>2, <3>3, <3>4
  <2> QED BY <1>2, <2>1, <2>2 DEF SavingInTime
<1>6. CASE Restart
  BY <1>2, <1>6 DEF Restart, IdleRequest
<1>7. ASSUME NEW h \in Handlers, HandlerNext(h) \/ HandlerFails(h)
      PROVE  UNCHANGED requests
  BY <1>7 DEF HandlerNext, HandlerFails, Connect, AskPhone, BeginLogin,
     RateCheck, Create, ServerReady, SendButton, RecordButton
<1>8. ASSUME NEW q \in Sweepers,
             \/ SweeperNext(q) \/ ClaimFails(q)
             \/ \E k \in Tokens : NotifyFails(q, k)
      PROVE  UNCHANGED requests
  BY <1>8 DEF SweeperNext, ClaimRead, ClaimCommit, Notify, ClaimFails, NotifyFails
<1>9. CASE Tick \/ UNCHANGED vars
  BY <1>3, <1>9 DEF Tick, vars
<1> QED BY <1>3, <1>4, <1>5, <1>6, <1>7, <1>8, <1>9 DEF Next, RequestNext

LEMMA BatchStep ==
  ASSUME ConstantsAssumption, TypeInv, BatchLapsed, [Next]_vars
  PROVE  BatchLapsed'
<1> USE DEF TypeInv, TypeParts
<1>1. ASSUME \A q \in Sweepers : sweepers'[q].batch \subseteq Lapsed
      PROVE  BatchLapsed'
  BY <1>1, LapsedGrows DEF BatchLapsed
<1>2. CASE UNCHANGED sweepers
  BY <1>1, <1>2 DEF BatchLapsed
<1>3. ASSUME NEW p \in Sweepers, NEW B \in SUBSET Lapsed,
             sweepers'[p].batch = B,
             \A q \in Sweepers \ {p} : sweepers'[q] = sweepers[q]
      PROVE  BatchLapsed'
  BY <1>1, <1>3 DEF BatchLapsed
<1>4. ASSUME NEW p \in Sweepers, ClaimRead(p) PROVE BatchLapsed'
  <2>1. PICK B \in SUBSET Due :
          sweepers' = [sweepers EXCEPT ![p].pc = "claiming", ![p].batch = B]
    BY <1>4 DEF ClaimRead
  <2>2. B \in SUBSET Lapsed
    BY DEF Due, Lapsed
  <2>3. sweepers'[p].batch = B
    BY <2>1 DEF SweeperStates
  <2>4. \A q \in Sweepers \ {p} : sweepers'[q] = sweepers[q]
    BY <2>1
  <2> QED BY <1>3, <2>2, <2>3, <2>4
<1>5. ASSUME NEW p \in Sweepers, ClaimCommit(p) PROVE BatchLapsed'
  <2> DEFINE M == {k \in sweepers[p].batch : tokens[k].msg}
  <2>1. sweepers' = [sweepers EXCEPT ![p].pc = "notifying", ![p].msgs = M]
    BY <1>5 DEF ClaimCommit
  <2> HIDE DEF M
  <2>2. sweepers'[p].batch = sweepers[p].batch
    BY <2>1 DEF SweeperStates
  <2>3. \A q \in Sweepers \ {p} : sweepers'[q] = sweepers[q]
    BY <2>1
  <2> QED BY <1>3, <2>2, <2>3 DEF BatchLapsed
<1>6. ASSUME NEW p \in Sweepers, ClaimFails(p) PROVE BatchLapsed'
  <2>1. sweepers' = [sweepers EXCEPT ![p] = IdleSweeper]
    BY <1>6 DEF ClaimFails
  <2>2. sweepers'[p].batch = {}
    BY <2>1 DEF IdleSweeper
  <2>3. \A q \in Sweepers \ {p} : sweepers'[q] = sweepers[q]
    BY <2>1
  <2> QED BY <1>3, <2>2, <2>3
<1>7. ASSUME NEW p \in Sweepers, NEW k \in Tokens,
             Notify(p, k) \/ NotifyFails(p, k)
      PROVE  BatchLapsed'
  <2>1. Served(p, k)
    BY <1>7 DEF Notify, NotifyFails
  <2>2. sweepers'[p].batch \subseteq sweepers[p].batch
    BY <2>1 DEF Served, IdleSweeper, SweeperStates
  <2>3. sweepers[p].batch \subseteq Lapsed
    BY DEF BatchLapsed
  <2>4. \A q \in Sweepers \ {p} : sweepers'[q] = sweepers[q]
    BY <2>1 DEF Served
  <2> QED BY <1>3, <2>2, <2>3, <2>4
<1>8. CASE Restart
  BY <1>1, <1>8 DEF Restart, IdleSweeper
<1>9. ASSUME NEW h \in Handlers, HandlerNext(h) \/ HandlerFails(h)
      PROVE  UNCHANGED sweepers
  BY <1>9 DEF HandlerNext, HandlerFails, Connect, AskPhone, BeginLogin,
     RateCheck, Create, ServerReady, SendButton, RecordButton
<1>10. ASSUME NEW r \in Requests,
              \/ RequestNext(r)
              \/ \E u \in Users, k \in Tokens, opened \in 0..now :
                   Post(r, u, k, opened)
       PROVE  UNCHANGED sweepers
  BY <1>10 DEF RequestNext, CheckFails, CheckPasses, Consume, SaveCommit,
     SaveFails, Finish, Post
<1>11. CASE Tick \/ UNCHANGED vars
  BY <1>2, <1>11 DEF Tick, vars
<1> QED BY <1>2, <1>4, <1>5, <1>6, <1>7, <1>8, <1>9, <1>10, <1>11
         DEF Next, SweeperNext

\* What a one-time link promises, with any number of handlers, POSTs, sweepers,
\* restarts and failures: it is spent once, after its time only by a POST whose
\* consume_token had captured an earlier time (shared/connect_tokens.py), and
\* its owner is told that it ran out only when it did.
THEOREM KeepsLedger ==
  ASSUME ConstantsAssumption PROVE Spec => LedgerSpec
<1>1. Init => TypeInv /\ LedgerInv /\ Ledger!Init
  <2>1. ASSUME Init PROVE LedgerInv /\ Ledger!Init
    BY <2>1 DEF Init, LedgerInv, SpendInv, LocksAreExclusive, OneSessionPerToken,
       SavingInTime, BatchLapsed, NoRow, IdleRequest, IdleSweeper, Ledger!Init,
       Issued, Lapsed, Held, Spent, Told
  <2> QED BY <2>1, InitType
<1>2. TypeInv /\ [Next]_vars => TypeInv'
  BY TypeStep
<1>3. TypeInv /\ TypeInv' /\ LedgerInv /\ [Next]_vars => LedgerInv'
  BY SpendStep, SavingStep, BatchStep DEF LedgerInv
<1>4. TypeInv /\ LedgerInv /\ [Next]_vars => [Ledger!Next]_Ledger!vars
  BY StepLedger
<1> QED BY <1>1, <1>2, <1>3, <1>4, PTL DEF Spec, LedgerSpec, Ledger!Spec

=============================================================================
