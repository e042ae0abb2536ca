---------------------------- MODULE JourneyProofs ----------------------------
(***************************************************************************)
(* The safety of Journey.  A journey is a behaviour of CicApi, so all that *)
(* is proved of CicApi holds in it; what the caller is told, besides, is   *)
(* JourneyInv, which is inductive together with IInv.  First what a step   *)
(* may do to a row and to a frame, then one lemma per action of the        *)
(* journey with one step per part of the invariant.                        *)
(***************************************************************************)
EXTENDS Journey, CicApiProofs

USE JourneyAssumption
-----------------------------------------------------------------------------
(* A journey is a behaviour of CicApi.                                     *)

LEMMA RequestIsStep ==
    ASSUME NEW i \in Invocations, Request(i)
    PROVE  EndpointStep(i)
BY DEF Request, OpenSession, SubmitClaim, AskForCode, TokenPost, UserInfoPost,
       EndpointStep, SessionStep, ClaimedIdentityStep, AuthorizationStep, TokenStep,
       UserInfoStep

LEMMA JourneyStep == [JourneyNext]_allVars => [Next]_vars
<1> SUFFICES ASSUME [JourneyNext]_allVars PROVE [Next]_vars
  OBVIOUS
<1>1. ASSUME NEW i \in Invocations, Request(i) \/ Serve(i) \/ ReceiveReply(i) \/ LoseReply(i)
      PROVE  Next
  BY <1>1, RequestIsStep DEF Serve, ReceiveReply, LoseReply, Next
<1>2. CASE GiveUp \/ UNCHANGED allVars
  BY <1>2 DEF GiveUp, allVars
<1>3. CASE Environment
  BY <1>3 DEF Next
<1> QED
  BY <1>1, <1>2, <1>3 DEF JourneyNext

\* Whatever a user and the callback do, with replies lost and calls given up, is among the
\* behaviours of the API: every theorem about CicApi holds of each journey.
THEOREM JourneysAreServed == JourneySpec => Spec
<1>1. JourneyInit => Init
  BY DEF JourneyInit
<1> QED
  BY <1>1, JourneyStep, PTL DEF JourneySpec, Spec
-----------------------------------------------------------------------------
(* What a step may do to a session row, where nobody aborts.               *)

\* The row that an invocation of /session puts.
PutBySession(s) ==
    /\ sessionTable'[s].state = "CIC_SESSION_CREATED" /\ sessionTable'[s].registered
    /\ \E i \in Invocations :
        inv[i].op = "session" /\ inv[i].sid = s /\ sessionTable'[s].expiry = inv[i].expiry

RowGoesOn(s) ==
    \/ sessionTable'[s] = sessionTable[s]
    \/ Expired(sessionTable[s]) /\ sessionTable'[s] = NoSessionRow
    \/ s \notin opened /\ PutBySession(s)
    \/ /\ sessionTable'[s].state \in ClaimReceived
       /\ sessionTable'[s].expiry = sessionTable[s].expiry
       /\ sessionTable'[s].registered = sessionTable[s].registered

\* A row that is put in one of these two ways lets every row go on.
LEMMA RowPutGoesOn ==
    ASSUME TypeInv, NEW s \in Sessions, NEW t \in Sessions, NEW row \in SessionRow,
           PutSessionRow(t, row),
           \/ /\ t \notin opened
              /\ row.state = "CIC_SESSION_CREATED" /\ row.registered
              /\ \E i \in Invocations :
                    inv[i].op = "session" /\ inv[i].sid = t /\ row.expiry = inv[i].expiry
           \/ /\ row.state \in ClaimReceived
              /\ row.expiry = sessionTable[t].expiry
              /\ row.registered = sessionTable[t].registered
    PROVE  RowGoesOn(s)
<1>1. SessionsTyped
  BY DEF TypeInv, TypeOK, StoreTypeOK, SessionsTyped
<1>2. sessionTable'[t] = row /\ \A u \in Sessions \ {t} : sessionTable'[u] = sessionTable[u]
  BY <1>1, PutSessionRowFields
<1> QED
  BY <1>2 DEF RowGoesOn, PutBySession

LEMMA EndpointRows ==
    ASSUME IInv, NEW i \in Invocations, EndpointStep(i), inv[i].op # "abort",
           NEW s \in Sessions
    PROVE  RowGoesOn(s)
<1> USE DEF storeVars, sessionVars
<1>0. /\ TypeInv /\ Secluded /\ Shaped(inv[i]) /\ inv[i] \in Invocation
      /\ \A t \in Sessions : sessionTable[t] \in SessionRow
  BY DEF IInv, TypeInv, TypeOK, StoreTypeOK, Frames
<1>1. CASE sessionTable' = sessionTable
  BY <1>1 DEF RowGoesOn
<1>2. CASE PutSession(i)
  <2>1. PICK t \in Sessions, expiry \in Expiry :
            t = inv[i].sid /\ expiry = inv[i].expiry /\ t \notin opened
    BY <1>0, <1>2 DEF PutSession, At, Shaped, Invocation, Secluded
  <2>2. CASE CreateAuthSession(inv[i].sid, inv[i].expiry)
    <3>1. PICK row \in SessionRow : /\ row = Created(expiry) /\ row.expiry = expiry
                                    /\ row.state = "CIC_SESSION_CREATED" /\ row.registered
      BY CreatedFields
    <3>2. PutSessionRow(t, row)
      BY <2>1, <2>2, <3>1 DEF CreateAuthSession, Created
    <3> QED
      BY <1>0, <1>2, <2>1, <3>1, <3>2, RowPutGoesOn DEF PutSession, At
  <2> QED
    BY <1>1, <1>2, <2>2 DEF PutSession
<1>3. CASE UpdateState(i)
  <2>1. PICK t \in Sessions : t = inv[i].sid
    BY <1>0, <1>3 DEF UpdateState, At, Shaped
  <2>2. CASE UpdateSessionAuthState(inv[i].sid, "CIC_DATA_RECEIVED")
    <3>1. PICK row \in SessionRow : /\ row = Advanced(sessionTable[t], "CIC_DATA_RECEIVED")
                                    /\ row.state \in ClaimReceived
                                    /\ row.expiry = sessionTable[t].expiry
                                    /\ row.registered = sessionTable[t].registered
      BY <1>0, AdvancedFields DEF AuthSessionState, ClaimReceived
    <3>2. PutSessionRow(t, row)
      BY <2>1, <2>2, <3>1 DEF UpdateSessionAuthState, Advanced
    <3> QED
      BY <1>0, <3>1, <3>2, RowPutGoesOn
  <2> QED
    BY <1>1, <1>3, <2>2 DEF UpdateState
<1>4. CASE SetCode(i)
  <2>1. PICK t \in Sessions, k \in Codes : t = inv[i].sid /\ k = inv[i].code
    BY <1>0, <1>4 DEF SetCode, At, Shaped
  <2>2. CASE SetAuthorizationCode(inv[i].sid, inv[i].code)
    <3>1. PICK row \in SessionRow : /\ row = Coded(sessionTable[t], k)
                                    /\ row.state \in ClaimReceived
                                    /\ row.expiry = sessionTable[t].expiry
                                    /\ row.registered = sessionTable[t].registered
      BY <1>0, CodedFields DEF ClaimReceived
    <3>2. PutSessionRow(t, row)
      BY <2>1, <2>2, <3>1 DEF SetAuthorizationCode, Coded
    <3> QED
      BY <1>0, <3>1, <3>2, RowPutGoesOn
  <2> QED
    BY <1>1, <1>4, <2>2 DEF SetCode
<1>5. CASE UpdateToken(i)
  <2>1. PICK t \in Sessions : t = inv[i].sid
    BY <1>0, <1>5 DEF UpdateToken, At, Shaped
  <2>2. CASE UpdateSessionWithAccessTokenDetails(inv[i].sid)
    <3>1. PICK row \in SessionRow : /\ row = Exchanged(sessionTable[t])
                                    /\ row.state \in ClaimReceived
                                    /\ row.expiry = sessionTable[t].expiry
                                    /\ row.registered = sessionTable[t].registered
      BY <1>0, ExchangedFields DEF ClaimReceived
    <3>2. PutSessionRow(t, row)
      BY <2>1, <2>2, <3>1 DEF UpdateSessionWithAccessTokenDetails, Exchanged
    <3> QED
      BY <1>0, <3>1, <3>2, RowPutGoesOn
  <2> QED
    BY <1>1, <1>5, <2>2 DEF UpdateToken
<1>6. CASE SessionStep(i)
  BY <1>1, <1>2, <1>6 DEF SessionStep, RejectSessionRequest, AcceptSessionRequest, PutPerson,
     AuditStart
<1>7. CASE ClaimedIdentityStep(i)
  BY <1>1, <1>3, <1>7 DEF ClaimedIdentityStep, ReceiveClaim, UpdatePerson
<1>8. CASE AuthorizationStep(i)
  BY <1>1, <1>4, <1>8 DEF AuthorizationStep, RequestCode, AuditCode
<1>9. CASE TokenStep(i)
  BY <1>1, <1>5, <1>9 DEF TokenStep, RequestToken, VerifyAndSign
<1>10. CASE UserInfoStep(i)
  BY <1>1, <1>10 DEF UserInfoStep, PresentToken, GetPerson, SignCredential, AuditIssued,
     AuditEnd
<1>11. CASE AbortStep(i)
  BY <1>1, <1>11 DEF AbortStep, RequestAbort, SessionConfig, AbortState, AuditAbort, At
<1> QED
  BY <1>6, <1>7, <1>8, <1>9, <1>10, <1>11 DEF EndpointStep

LEMMA EnvironmentGoesOn ==
    ASSUME TypeInv, Environment, NEW s \in Sessions
    PROVE  /\ RowGoesOn(s)
           /\ now \in Nat /\ now' \in Nat /\ now <= now'
           /\ UNCHANGED <<inv, clientVars>>
BY EnvironmentRows DEF RowGoesOn

\* Only /session makes a row that waits for its claim, and not of a session known already.
LEMMA ClaimedStays ==
    ASSUME NEW s \in opened, RowGoesOn(s), sessionTable[s].state # "CIC_SESSION_CREATED"
    PROVE  sessionTable'[s].state # "CIC_SESSION_CREATED"
BY DEF RowGoesOn, PutBySession, NoSessionRow, ClaimReceived

LEMMA RegularRow ==
    ASSUME RowsRegular, NEW s \in Sessions, RowGoesOn(s)
    PROVE  /\ sessionTable'[s].state # "CIC_CRI_SESSION_ABORTED"
           /\ sessionTable'[s].state = "MISSING" => ~sessionTable'[s].registered
BY DEF RowsRegular, RowGoesOn, PutBySession, NoSessionRow, ClaimReceived

\* Where a request finds no live session that nobody aborted, the session's time is up.
LEMMA NotLiveMeansTimeIsUp ==
    ASSUME IInv, JourneyInv, NEW s \in opened,
           sessionTable[s].state = "MISSING" \/ Expired(sessionTable[s])
    PROVE  TimeIsUp
<1>1. s \in Sessions /\ now \in Nat /\ since \in Nat
  BY DEF IInv, TypeInv, TypeOK, LambdaTypeOK, StoreTypeOK, JourneyInv, JourneyTypeOK
<1>2. CASE sessionTable[s].registered
  <2>1. Expired(sessionTable[s])
    BY <1>1, <1>2 DEF JourneyInv, RowsRegular
  <2>2. sessionTable[s].expiry \in Nat /\ since + SessionTtl <= sessionTable[s].expiry
    BY <1>1, <1>2 DEF JourneyInv, LastsItsTime
  <2> QED
    BY <1>1, <2>1, <2>2, NumbersAssumption DEF Expired, TimeIsUp
<1>3. CASE ~sessionTable[s].registered
  BY <1>3 DEF JourneyInv, LastsItsTime
<1> QED
  BY <1>2, <1>3
-----------------------------------------------------------------------------
(* What a step may do to the frame of its invocation.                      *)

\* An invocation under way stays with its operation or fails; if it is one of those that
\* are repeated, it does not fail with a refusal; and a claim is answered once its
\* session has gone on.
GoesOn(i) ==
    /\ OnlyFrame(i)
    /\ inv[i].op # "none"
    /\ inv'[i].op = inv[i].op \/ Failed(inv[i])'
    /\ inv[i].op \in {"claimedIdentity", "authorization"} => inv'[i].status # 401
    /\ inv'[i].op = "claimedIdentity" /\ inv'[i].at = "respond" =>
        sessionTable'[inv'[i].sid].state # "CIC_SESSION_CREATED"

LEMMA FailGoesOn ==
    ASSUME TypeInv, NEW i \in Invocations, inv[i].op # "none",
           NEW status \in {400, 401, 500}, Fail(i, status),
           inv[i].op \in {"claimedIdentity", "authorization"} => status = 500
    PROVE  GoesOn(i)
BY FailFields DEF GoesOn, Failed

LEMMA GotoGoesOn ==
    ASSUME TypeInv, NEW i \in Invocations, inv[i].op # "none", inv[i].status = 0,
           NEW point \in Points \ {"respond"}, Goto(i, point)
    PROVE  GoesOn(i)
BY GotoFields DEF GoesOn

LEMMA ResendGoesOn ==
    ASSUME NEW i \in Invocations, inv[i].op # "none", inv[i].status = 0,
           inv[i].at # "respond", Resend(i)
    PROVE  GoesOn(i)
BY DEF GoesOn, Resend, OnlyFrame

LEMMA SucceedGoesOn ==
    ASSUME TypeInv, NEW i \in Invocations, inv[i].op # "none", Succeed(i),
           inv[i].op = "claimedIdentity" =>
                sessionTable'[inv[i].sid].state # "CIC_SESSION_CREATED"
    PROVE  GoesOn(i)
BY SucceedFields DEF GoesOn

LEMMA ServeGoesOn ==
    ASSUME IInv, NEW i \in Invocations, EndpointStep(i), inv[i] # Idle
    PROVE  GoesOn(i)
<1>0. /\ TypeInv
      /\ inv[i] \in Invocation /\ Shaped(inv[i])
      /\ inv[i].at # "respond" => inv[i].status = 0
  BY DEF IInv, TypeInv, Frames, FramesBacked, FrameBacked
<1>1. CASE SessionStep(i)
  <2>1. CASE PutSession(i) \/ PutPerson(i)
    BY <1>0, <2>1, FailGoesOn, GotoGoesOn, ResendGoesOn DEF PutSession, PutPerson, At, Points
  <2>2. CASE AuditStart(i)
    BY <1>0, <2>2, SucceedGoesOn DEF AuditStart, Sending, At
  <2> QED
    BY <1>1, <2>1, <2>2 DEF SessionStep, RejectSessionRequest, AcceptSessionRequest
<1>2. CASE ClaimedIdentityStep(i)
  <2>1. CASE UpdatePerson(i)
    BY <1>0, <2>1, FailGoesOn, GotoGoesOn, ResendGoesOn DEF UpdatePerson, At, Points
  <2>2. CASE UpdateState(i)
    <3>1. inv[i].sid \in Sessions
      BY <1>0, <2>2 DEF UpdateState, At, Shaped
    <3>2. UpdateSessionAuthState(inv[i].sid, "CIC_DATA_RECEIVED") =>
            sessionTable'[inv[i].sid].state = "CIC_DATA_RECEIVED"
      <4>1. sessionTable \in [Sessions -> SessionRow] /\ sessionTable[inv[i].sid] \in SessionRow
        BY <1>0, <3>1 DEF TypeInv, TypeOK, StoreTypeOK
      <4> QED
        BY <3>1, <4>1 DEF UpdateSessionAuthState, PutSessionRow, SessionRow
    <3> QED
      BY <1>0, <2>2, <3>2, FailGoesOn, SucceedGoesOn, ResendGoesOn DEF UpdateState, At
  <2> QED
    BY <1>2, <2>1, <2>2 DEF ClaimedIdentityStep, ReceiveClaim
<1>3. CASE AuthorizationStep(i)
  <2>1. CASE SetCode(i)
    BY <1>0, <2>1, FailGoesOn, GotoGoesOn, ResendGoesOn DEF SetCode, At, Points
  <2>2. CASE AuditCode(i)
    BY <1>0, <2>2, SucceedGoesOn DEF AuditCode, Sending, At
  <2> QED
    BY <1>3, <2>1, <2>2 DEF AuthorizationStep, RequestCode
<1>4. CASE TokenStep(i)
  <2>1. CASE VerifyAndSign(i)
    <3>1. inv[i].op = "token"
      BY <2>1 DEF VerifyAndSign, At
    <3>2. ASSUME Enter(i, Signed(inv[i], now + TokenTtl))
          PROVE  GoesOn(i)
      <4>1. OnlyFrame(i) /\ inv'[i] = Signed(inv[i], now + TokenTtl)
        BY <1>0, <3>2, EnterFields
      <4>2. inv'[i].op = "token"
        BY <1>0, <3>1, <4>1 DEF Signed, Invocation
      <4> QED
        BY <3>1, <4>1, <4>2 DEF GoesOn
    <3>3. ASSUME NEW status \in {401, 500}, Fail(i, status)
          PROVE  GoesOn(i)
      BY <1>0, <3>1, <3>3, FailGoesOn
    <3> QED
      BY <2>1, <3>2, <3>3 DEF VerifyAndSign
  <2>2. CASE UpdateToken(i)
    BY <1>0, <2>2, FailGoesOn, SucceedGoesOn, ResendGoesOn DEF UpdateToken, At
  <2> QED
    BY <1>4, <2>1, <2>2 DEF TokenStep, RequestToken
<1>5. CASE UserInfoStep(i)
  <2>1. CASE GetPerson(i)
    <3>1. inv[i].op = "userinfo"
      BY <2>1 DEF GetPerson, At
    <3>2. ASSUME NEW person, Enter(i, Identified(inv[i], person.names))
          PROVE  GoesOn(i)
      <4>1. OnlyFrame(i) /\ inv'[i] = Identified(inv[i], person.names)
        BY <1>0, <3>2, EnterFields
      <4>2. inv'[i].op = "userinfo"
        BY <1>0, <3>1, <4>1 DEF Identified, Invocation
      <4> QED
        BY <3>1, <4>1, <4>2 DEF GoesOn
    <3>3. ASSUME NEW status \in {400, 401, 500}, Fail(i, status)
          PROVE  GoesOn(i)
      BY <1>0, <3>1, <3>3, FailGoesOn
    <3> QED
      BY <2>1, <3>2, <3>3 DEF GetPerson
  <2>2. CASE SignCredential(i) \/ AuditIssued(i)
    BY <1>0, <2>2, FailGoesOn, GotoGoesOn DEF SignCredential, AuditIssued, Sending, At, Points
  <2>3. CASE AuditEnd(i)
    BY <1>0, <2>3, SucceedGoesOn DEF AuditEnd, At
  <2> QED
    BY <1>5, <2>1, <2>2, <2>3 DEF UserInfoStep, PresentToken
<1>6. CASE AbortStep(i)
  <2>1. CASE AbortState(i)
    BY <1>0, <2>1, FailGoesOn, GotoGoesOn, ResendGoesOn DEF AbortState, At, Points
  <2>2. CASE AuditAbort(i)
    BY <1>0, <2>2, SucceedGoesOn DEF AuditAbort, Sending, At
  <2> QED
    BY <1>6, <2>1, <2>2 DEF AbortStep, RequestAbort, SessionConfig
<1> QED
  BY <1>1, <1>2, <1>3, <1>4, <1>5, <1>6 DEF EndpointStep

\* An invocation of /session keeps what it decided, and goes on only when the row is put.
SessionGoesOn(i) ==
    /\ inv[i].op = "session" /\ inv'[i].sid = inv[i].sid /\ inv'[i].expiry = inv[i].expiry
    /\ inv'[i].at # "putSession" =>
        inv[i].at # "putSession" \/ sessionTable'[inv[i].sid].registered

LEMMA ServeSessionGoesOn ==
    ASSUME IInv, NEW i \in Invocations, EndpointStep(i), inv[i] # Idle, inv'[i].op = "session"
    PROVE  SessionGoesOn(i)
<1>0. /\ TypeInv /\ inv[i] \in Invocation /\ Shaped(inv[i])
      /\ inv[i].at # "respond" => inv[i].status = 0
  BY DEF IInv, TypeInv, Frames, FramesBacked, FrameBacked
<1>1. inv[i].op = "session"
  BY ServeGoesOn DEF GoesOn, Failed
<1>2. \A status \in {400, 401, 500} : ~Fail(i, status)
  BY <1>0, FailFields
<1>3. PutSession(i) \/ PutPerson(i) \/ AuditStart(i)
  BY <1>1 DEF EndpointStep, SessionStep, RejectSessionRequest, AcceptSessionRequest,
     ClaimedIdentityStep, ReceiveClaim, UpdatePerson, UpdateState,
     AuthorizationStep, RequestCode, SetCode, AuditCode,
     TokenStep, RequestToken, VerifyAndSign, UpdateToken,
     UserInfoStep, PresentToken, GetPerson, SignCredential, AuditIssued, AuditEnd,
     AbortStep, RequestAbort, SessionConfig, AbortState, AuditAbort, Sending, At
<1>4. CASE PutSession(i)
  <2>1. sessionTable'[inv[i].sid].registered
    <3>1. inv[i].sid \in Sessions /\ sessionTable \in [Sessions -> SessionRow]
      BY <1>0, <1>1 DEF Shaped, TypeInv, TypeOK, StoreTypeOK
    <3> QED
      BY <1>2, <1>4, <3>1 DEF PutSession, CreateAuthSession, PutSessionRow
  <2>2. CASE Resend(i)
    BY <1>1, <2>1, <2>2 DEF Resend, SessionGoesOn
  <2>3. ASSUME NEW point \in Points \ {"respond"}, Goto(i, point)
        PROVE  SessionGoesOn(i)
    BY <1>0, <1>1, <2>1, <2>3, GotoFields DEF SessionGoesOn
  <2> QED
    BY <1>2, <1>4, <2>2, <2>3 DEF PutSession, Points
<1>5. CASE PutPerson(i)
  <2>1. inv[i].at = "putPerson" /\ "audit" \in Points \ {"respond"}
    BY <1>5 DEF PutPerson, At, Points
  <2> QED
    BY <1>0, <1>1, <1>2, <1>5, <2>1, GotoFields DEF PutPerson, Resend, SessionGoesOn
<1>6. CASE AuditStart(i)
  <2>1. inv[i].at = "audit" /\ Succeed(i)
    BY <1>6 DEF AuditStart, Sending, At
  <2> QED
    BY <1>0, <1>1, <2>1, SucceedFields DEF SessionGoesOn
<1> QED
  BY <1>3, <1>4, <1>5, <1>6

LEMMA EndpointLeavesCallers ==
    ASSUME NEW i \in Invocations, EndpointStep(i)
    PROVE  UNCHANGED <<now, clientVars>>
<1> USE DEF storeVars, sessionVars, personVars
<1>1. CASE SessionStep(i)
  BY <1>1 DEF SessionStep, RejectSessionRequest, AcceptSessionRequest, PutSession,
              PutPerson, AuditStart
<1>2. CASE ClaimedIdentityStep(i)
  BY <1>2 DEF ClaimedIdentityStep, ReceiveClaim, UpdatePerson, UpdateState
<1>3. CASE AuthorizationStep(i)
  BY <1>3 DEF AuthorizationStep, RequestCode, SetCode, AuditCode
<1>4. CASE TokenStep(i)
  BY <1>4 DEF TokenStep, RequestToken, VerifyAndSign, UpdateToken
<1>5. CASE UserInfoStep(i)
  BY <1>5 DEF UserInfoStep, PresentToken, GetPerson, SignCredential, AuditIssued, AuditEnd
<1>6. CASE AbortStep(i)
  BY <1>6 DEF AbortStep, RequestAbort, SessionConfig, AbortState, AuditAbort
<1> QED
  BY <1>1, <1>2, <1>3, <1>4, <1>5, <1>6 DEF EndpointStep
-----------------------------------------------------------------------------
(* What a request finds.                                                   *)

\* The frame of a new request, of the operation op; and what it says of the session, which
\* it has just read: a claim that counts as received was, and a refusal has its reason.
Begins(i, op) ==
    /\ OnlyFrame(i)
    /\ inv'[i].op = op \/ Failed(inv[i])'
    /\ ~StaleReads /\ inv'[i].op = "claimedIdentity" /\ inv'[i].at = "respond" =>
        sessionTable[inv'[i].sid].state # "CIC_SESSION_CREATED"
    /\ ~StaleReads /\ op \in {"claimedIdentity", "authorization"} /\ inv'[i].status = 401 =>
        TimeIsUp

LEMMA FailBegins ==
    ASSUME TypeInv, NEW i \in Invocations, NEW op, NEW status \in {400, 401, 500},
           Fail(i, status),
           ~StaleReads /\ op \in {"claimedIdentity", "authorization"} /\ status = 401 =>
                TimeIsUp
    PROVE  Begins(i, op)
BY FailFields DEF Begins, Failed

LEMMA NoSessionFoundBegins ==
    ASSUME TypeInv, NEW i \in Invocations, NEW op, NEW s, NEW missing \in {400, 401, 500},
           NEW expired \in {400, 401, 500}, NoSessionFound(i, s, missing, expired),
           op \in {"claimedIdentity", "authorization"} => IInv /\ JourneyInv /\ s \in opened
    PROVE  Begins(i, op)
<1>1. ASSUME ~StaleReads, NEW row \in SessionReads(s), op \in {"claimedIdentity", "authorization"},
             row.state = "MISSING" \/ Expired(row)
      PROVE  TimeIsUp
  BY <1>1, NotLiveMeansTimeIsUp DEF SessionReads
<1> QED
  BY <1>1, FailBegins DEF NoSessionFound

LEMMA EnterBegins ==
    ASSUME TypeInv, NEW i \in Invocations, NEW op, NEW frame, Enter(i, frame),
           frame.op = op, frame.at # "respond", frame.status = 0
    PROVE  Begins(i, op)
BY EnterFields DEF Begins

LEMMA OpenSessionBegins ==
    ASSUME TypeInv, NEW i \in Invocations, OpenSession(i)
    PROVE  Begins(i, "session") /\ UNCHANGED <<storeVars, clientVars>>
<1>1. CASE RejectSessionRequest(i)
  BY <1>1, FailBegins DEF RejectSessionRequest
<1>2. ASSUME NEW s \in Sessions, NEW shared \in {NoClaim, SharedClaim},
             AcceptSessionRequest(i, s, shared)
      PROVE  Begins(i, "session") /\ UNCHANGED <<storeVars, clientVars>>
  <2> DEFINE frame == Opening(s, now + SessionTtl, shared)
  <2>1. frame.op = "session" /\ frame.at = "putSession" /\ frame.status = 0
    BY DEF Opening, Begin
  <2> QED
    BY <1>2, <2>1, FailBegins, EnterBegins DEF AcceptSessionRequest
<1> QED
  BY <1>1, <1>2 DEF OpenSession

LEMMA SubmitClaimBegins ==
    ASSUME IInv, JourneyInv, NEW i \in Invocations, NEW s \in opened, NEW claim \in Claims,
           ReceiveClaim(i, s, claim)
    PROVE  Begins(i, "claimedIdentity") /\ UNCHANGED <<storeVars, clientVars>>
<1>0. TypeInv /\ RowsRegular /\ s \in Sessions
  BY DEF IInv, JourneyInv, TypeInv, TypeOK, LambdaTypeOK
<1>1. ASSUME NEW expiry, Enter(i, Claiming(s, claim, expiry))
      PROVE  Begins(i, "claimedIdentity")
  <2> DEFINE frame == Claiming(s, claim, expiry)
  <2>1. frame.op = "claimedIdentity" /\ frame.at = "updatePerson" /\ frame.status = 0
    BY DEF Claiming, Begin
  <2> QED
    BY <1>0, <1>1, <2>1, EnterBegins
<1>2. ASSUME NEW row \in LiveSession(s), row.state \in ClaimReceived,
             Answer(i, "claimedIdentity", s)
      PROVE  Begins(i, "claimedIdentity")
  <2>1. ~StaleReads => sessionTable[s].state # "CIC_SESSION_CREATED"
    BY <1>2 DEF LiveSession, SessionReads, ClaimReceived
  <2> QED
    BY <1>0, <1>2, <2>1, AnswerFields DEF Begins
<1>3. ASSUME NEW row \in LiveSession(s), Fail(i, 401),
             row.state \notin ClaimReceived \cup {"CIC_SESSION_CREATED"}
      PROVE  Begins(i, "claimedIdentity")
  <2>1. row.state = "CIC_CRI_SESSION_ABORTED"
    <3>1. row \in SessionRow
      BY <1>0, <1>3, SessionReadsType DEF LiveSession, TypeInv, TypeOK
    <3> QED
      BY <1>3, <3>1 DEF SessionRow, AuthSessionState, ClaimReceived, LiveSession
  <2>2. StaleReads
    BY <1>0, <1>3, <2>1 DEF RowsRegular, LiveSession, SessionReads
  <2> QED
    BY <1>0, <1>3, <2>2, FailBegins
<1>4. ASSUME Fail(i, 400)
      PROVE  Begins(i, "claimedIdentity")
  BY <1>0, <1>4, FailBegins
<1>5. ASSUME NoSessionFound(i, s, 401, 401)
      PROVE  Begins(i, "claimedIdentity")
  BY <1>0, <1>5, NoSessionFoundBegins
<1> QED
  BY <1>1, <1>2, <1>3, <1>4, <1>5 DEF ReceiveClaim

LEMMA AskForCodeBegins ==
    ASSUME IInv, JourneyInv, NEW i \in Invocations, NEW s \in opened, RequestCode(i, s),
           ~StaleReads => sessionTable[s].state # "CIC_SESSION_CREATED"
    PROVE  Begins(i, "authorization") /\ UNCHANGED <<storeVars, clientVars>>
<1>0. TypeInv /\ RowsRegular /\ s \in Sessions
  BY DEF IInv, JourneyInv, TypeInv, TypeOK, LambdaTypeOK
<1>1. ASSUME NEW k \in Codes, Enter(i, Holding("setCode", s, k))
      PROVE  Begins(i, "authorization")
  <2> DEFINE frame == Holding("setCode", s, k)
  <2>1. frame.op = "authorization" /\ frame.at = "setCode" /\ frame.status = 0
    BY DEF Holding, Begin
  <2> QED
    BY <1>0, <1>1, <2>1, EnterBegins
<1>2. ASSUME NEW row \in LiveSession(s), Enter(i, Reply(Holding("respond", s, row.code), 200))
      PROVE  Begins(i, "authorization")
  <2> DEFINE frame == Holding("respond", s, row.code)
  <2>1. row.code \in Codes \cup {NoCode}
    BY <1>0, SessionReadsType DEF LiveSession, SessionRow, TypeInv, TypeOK
  <2>2. frame \in Invocation
    BY <1>0, <2>1, HoldingType DEF Points, Frames
  <2>3. frame.op = "authorization"
    BY DEF Holding, Begin
  <2>4. OnlyFrame(i) /\ inv'[i] = Reply(frame, 200)
    BY <1>0, <1>2, EnterFields
  <2>5. inv'[i].op = "authorization" /\ inv'[i].status = 200
    <3> HIDE DEF frame
    <3> QED BY <2>2, <2>3, <2>4, ReplyFields
  <2> QED
    BY <2>4, <2>5 DEF Begins
<1>3. ASSUME NEW row \in LiveSession(s), Fail(i, 401),
             row.state \in {"CIC_SESSION_CREATED", "CIC_CRI_SESSION_ABORTED"}
      PROVE  Begins(i, "authorization")
  <2>1. StaleReads
    BY <1>0, <1>3 DEF RowsRegular, LiveSession, SessionReads
  <2> QED
    BY <1>0, <1>3, <2>1, FailBegins
<1>4. ASSUME Fail(i, 400)
      PROVE  Begins(i, "authorization")
  BY <1>0, <1>4, FailBegins
<1>5. ASSUME NoSessionFound(i, s, 401, 401)
      PROVE  Begins(i, "authorization")
  BY <1>0, <1>5, NoSessionFoundBegins
<1> QED
  BY <1>1, <1>2, <1>3, <1>4, <1>5 DEF RequestCode

LEMMA TokenPostBegins ==
    ASSUME TypeInv, NEW i \in Invocations, NEW k, RequestToken(i, k)
    PROVE  Begins(i, "token") /\ UNCHANGED <<storeVars, clientVars>>
<1>1. ASSUME NEW s \in Sessions, Enter(i, Begin("token", "verify", s))
      PROVE  Begins(i, "token")
  <2> DEFINE frame == Begin("token", "verify", s)
  <2>1. frame.op = "token" /\ frame.at = "verify" /\ frame.status = 0
    BY DEF Begin
  <2> QED
    BY <1>1, <2>1, EnterBegins
<1> QED
  BY <1>1, FailBegins DEF RequestToken

LEMMA UserInfoPostBegins ==
    ASSUME TypeInv, NEW i \in Invocations, NEW token \in tokens, PresentToken(i, token)
    PROVE  Begins(i, "userinfo") /\ UNCHANGED <<storeVars, clientVars>>
<1>1. ASSUME NEW state, Enter(i, Presented(token.sub, state))
      PROVE  Begins(i, "userinfo")
  <2> DEFINE frame == Presented(token.sub, state)
  <2>1. frame.op = "userinfo" /\ frame.at = "getPerson" /\ frame.status = 0
    BY DEF Presented, Begin
  <2> QED
    BY <1>1, <2>1, EnterBegins
<1> QED
  BY <1>1, FailBegins, NoSessionFoundBegins DEF PresentToken

LEMMA RequestBegins ==
    ASSUME IInv, JourneyInv, NEW i \in Invocations, Request(i)
    PROVE  /\ stage \in DOMAIN Endpoint /\ Begins(i, Endpoint[stage])
           /\ UNCHANGED <<storeVars, clientVars, stage, accepted, late>>
           /\ waiting' = i /\ submitted' \in Claims \cup {NoClaim}
           /\ since' = since \/ (OpenSession(i) /\ since' = now)
<1> USE DEF Wait, Endpoint
<1>0. TypeInv /\ submitted \in Claims \cup {NoClaim}
  BY DEF IInv, JourneyInv, JourneyTypeOK
<1>1. CASE OpenSession(i)
  BY <1>0, <1>1, OpenSessionBegins DEF OpenSession
<1>2. CASE SubmitClaim(i)
  BY <1>0, <1>2, SubmitClaimBegins DEF SubmitClaim
<1>3. CASE AskForCode(i)
  BY <1>0, <1>3, AskForCodeBegins DEF AskForCode, JourneyInv, ClaimAdvances
<1>4. CASE TokenPost(i)
  BY <1>0, <1>4, TokenPostBegins DEF TokenPost
<1>5. CASE UserInfoPost(i)
  BY <1>0, <1>5, UserInfoPostBegins DEF UserInfoPost
<1> QED
  BY <1>1, <1>2, <1>3, <1>4, <1>5 DEF Request
-----------------------------------------------------------------------------
(* The actions of the journey keep its invariant.                          *)

\* A step that goes on with the rows, and leaves what callers know alone.
LEMMA RowsGoOn ==
    ASSUME IInv, RowsRegular, \A s \in Sessions : RowGoesOn(s)
    PROVE  /\ \A s \in Sessions :
                /\ sessionTable'[s].state # "CIC_CRI_SESSION_ABORTED"
                /\ sessionTable'[s].state = "MISSING" => ~sessionTable'[s].registered
           /\ \A s \in opened : sessionTable[s].state # "CIC_SESSION_CREATED" =>
                sessionTable'[s].state # "CIC_SESSION_CREATED"
<1>1. opened \subseteq Sessions
  BY DEF IInv, TypeInv, TypeOK, LambdaTypeOK
<1> QED
  BY <1>1, RegularRow, ClaimedStays

\* Before anybody has asked for a session, /session is not at work and there is no row; after
\* that, what /session decided is what the row says for as long as it is there.
LEMMA Lasting ==
    ASSUME IInv, JourneyInv, \A s \in Sessions : RowGoesOn(s),
           now' \in Nat, now <= now', since' = since,
           \A i \in Invocations : inv'[i].op = "session" => SessionGoesOn(i),
           \A s \in opened' : s \in opened \/ \E i \in Invocations :
                inv[i].op = "session" /\ inv[i].at = "respond" /\ inv[i].sid = s,
           stage' = "start" /\ waiting' = NoInvocation =>
                stage = "start" /\ waiting = NoInvocation
    PROVE  LastsItsTime'
<1>0. /\ LastsItsTime /\ now \in Nat /\ since \in Nat /\ SessionTtl \in Nat
      /\ opened \subseteq Sessions
      /\ \A i \in Invocations : inv[i].op = "session" => inv[i].sid \in Sessions
  BY NumbersAssumption DEF IInv, TypeInv, TypeOK, LambdaTypeOK, StoreTypeOK, JourneyInv,
     JourneyTypeOK, Frames, Shaped
<1>1. TimeIsUp => TimeIsUp'
  BY <1>0 DEF TimeIsUp
<1>2. ASSUME NEW s \in Sessions, sessionTable'[s].registered
      PROVE  sessionTable'[s].expiry \in Nat /\ since + SessionTtl <= sessionTable'[s].expiry
  BY <1>0, <1>2 DEF RowGoesOn, PutBySession, NoSessionRow, LastsItsTime
<1>3. ASSUME NEW s \in Sessions, sessionTable[s].registered \/ TimeIsUp
      PROVE  sessionTable'[s].registered \/ TimeIsUp'
  <2>1. CASE TimeIsUp
    BY <1>1, <2>1
  <2>2. CASE sessionTable[s].registered
    <3>1. CASE Expired(sessionTable[s])
      BY <1>0, <1>1, <2>2, <3>1 DEF Expired, LastsItsTime, TimeIsUp
    <3>2. CASE ~Expired(sessionTable[s])
      BY <2>2, <3>2 DEF RowGoesOn, PutBySession
    <3> QED
      BY <3>1, <3>2
  <2> QED
    BY <1>3, <2>1, <2>2
<1>4. ASSUME stage' = "start", waiting' = NoInvocation
      PROVE  /\ \A i \in Invocations : inv'[i].op # "session"
             /\ \A s \in Sessions : ~sessionTable'[s].registered
  BY <1>0, <1>4 DEF LastsItsTime, SessionGoesOn, RowGoesOn, PutBySession, NoSessionRow
<1>5. ASSUME NEW i \in Invocations, inv'[i].op = "session"
      PROVE  /\ inv'[i].expiry \in Nat /\ since + SessionTtl <= inv'[i].expiry
             /\ inv'[i].at # "putSession" =>
                  sessionTable'[inv'[i].sid].registered \/ TimeIsUp'
  <2>1. SessionGoesOn(i) /\ inv[i].sid \in Sessions
    BY <1>0, <1>5 DEF SessionGoesOn
  <2> QED
    BY <1>0, <1>3, <2>1 DEF SessionGoesOn, LastsItsTime
<1>6. ASSUME NEW s \in opened'
      PROVE  sessionTable'[s].registered \/ TimeIsUp'
  <2>1. s \in Sessions /\ (sessionTable[s].registered \/ TimeIsUp)
    BY <1>0, <1>6 DEF LastsItsTime
  <2> QED
    BY <1>3, <2>1
<1> QED
  BY <1>2, <1>4, <1>5, <1>6 DEF LastsItsTime

LEMMA ClaimsOpened ==
    ASSUME IInv, NEW i \in Invocations, inv[i].op = "claimedIdentity"
    PROVE  inv[i].sid \in opened
BY DEF IInv, Secluded

LEMMA RequestLasts ==
    ASSUME IInv, JourneyInv, NEW i \in Invocations, Request(i)
    PROVE  LastsItsTime'
<1>0. /\ stage \in DOMAIN Endpoint /\ Begins(i, Endpoint[stage]) /\ waiting' = i
      /\ UNCHANGED <<sessionTable, now, opened, stage>>
      /\ since' = since \/ (OpenSession(i) /\ since' = now)
      /\ i # NoInvocation /\ now \in Nat
  BY RequestBegins, JourneyAssumption DEF IInv, TypeInv, TypeOK, StoreTypeOK, storeVars, sessionVars, personVars, clientVars
<1>1. CASE OpenSession(i)
  <2>1. /\ stage = "start" /\ waiting = NoInvocation /\ opened = {} /\ since' = now
        /\ \A j \in Invocations : inv[j].op # "session"
        /\ \A s \in Sessions : ~sessionTable[s].registered
    BY <1>1 DEF OpenSession, Wait, JourneyInv, OneSession, LastsItsTime
  <2>2. ASSUME inv'[i].op = "session"
        PROVE  inv'[i].at = "putSession" /\ inv'[i].expiry = now + SessionTtl
    <3>1. ASSUME NEW status \in {400, 401, 500}, Fail(i, status)
          PROVE  FALSE
      BY <2>2, <3>1, FailFields DEF IInv
    <3>2. PICK s \in Sessions, shared \in {NoClaim, SharedClaim} :
             Enter(i, Opening(s, now + SessionTtl, shared))
      BY <1>1, <3>1 DEF OpenSession, RejectSessionRequest, AcceptSessionRequest
    <3>3. inv'[i] = Opening(s, now + SessionTtl, shared)
      BY <3>2, EnterFields DEF IInv
    <3> QED
      BY <3>3 DEF Opening, Begin
  <2>3. \A j \in Invocations : inv'[j].op = "session" => j = i
    BY <1>0, <2>1 DEF Begins, OnlyFrame
  <2>4. now + SessionTtl \in Nat
    BY <1>0, NumbersAssumption
  <2> QED
    BY <1>0, <2>1, <2>2, <2>3, <2>4 DEF LastsItsTime
<1>2. CASE ~OpenSession(i)
  <2>1. since' = since /\ stage # "start"
    BY <1>0, <1>2 DEF Request, SubmitClaim, AskForCode, TokenPost, UserInfoPost
  <2>2. inv'[i].op # "session"
    BY <1>0, <2>1 DEF Begins, Endpoint, Failed
  <2>3. \A j \in Invocations : inv'[j].op = "session" => inv'[j] = inv[j]
    BY <1>0, <2>2 DEF Begins, OnlyFrame
  <2>4. TimeIsUp' <=> TimeIsUp
    BY <1>0, <2>1 DEF TimeIsUp
  <2> QED
    BY <1>0, <2>1, <2>3, <2>4 DEF LastsItsTime, JourneyInv
<1> QED
  BY <1>1, <1>2

LEMMA RequestKeeps ==
    ASSUME IInv, JourneyInv, NEW i \in Invocations, Request(i)
    PROVE  JourneyInv'
<1>0. /\ stage \in DOMAIN Endpoint /\ Begins(i, Endpoint[stage])
      /\ UNCHANGED <<sessionTable, now, opened, stage, accepted, late>>
      /\ waiting' = i /\ submitted' \in Claims \cup {NoClaim}
      /\ since' \in Nat /\ (stage \in Repeated \cup {"refused"} => since' = since)
  BY RequestBegins DEF IInv, TypeInv, TypeOK, StoreTypeOK, storeVars, sessionVars, personVars, clientVars,
     JourneyInv, JourneyTypeOK, OpenSession, Repeated
<1>1. JourneyTypeOK'
  BY <1>0 DEF JourneyInv, JourneyTypeOK
<1>2. WaitingServed'
  BY <1>0 DEF WaitingServed, Begins
<1>3. OneSession'
  BY <1>0 DEF JourneyInv, OneSession
<1>4. RowsRegular'
  BY <1>0 DEF JourneyInv, RowsRegular, Begins, OnlyFrame, Endpoint, Failed
<1>5. stage \in Repeated \cup {"refused"} => (TimeIsUp' <=> TimeIsUp)
  BY <1>0 DEF TimeIsUp
<1>6. ASSUME ~StaleReads
      PROVE  ClaimAdvances' /\ RefusalIsJust' /\ RefusedOnlyWhenOver'
  <2>1. ClaimAdvances'
    BY <1>0, <1>6 DEF JourneyInv, ClaimAdvances, Begins, OnlyFrame
  <2>2. RefusalIsJust'
    BY <1>0, <1>5, <1>6 DEF RefusalIsJust, Begins, Repeated, Endpoint
  <2>3. RefusedOnlyWhenOver'
    BY <1>0, <1>5, <1>6 DEF JourneyInv, RefusedOnlyWhenOver
  <2> QED
    BY <2>1, <2>2, <2>3
<1> QED
  BY <1>1, <1>2, <1>3, <1>4, <1>6, RequestLasts DEF JourneyInv

LEMMA ServeKeeps ==
    ASSUME IInv, JourneyInv, NEW i \in Invocations, Serve(i)
    PROVE  JourneyInv'
<1>0. /\ GoesOn(i) /\ UNCHANGED <<now, opened, stage, waiting, submitted, accepted, late, since>>
      /\ \A s \in Sessions : RowGoesOn(s)
      /\ now \in Nat
  BY ServeGoesOn, EndpointLeavesCallers, EndpointRows
     DEF Serve, JourneyInv, RowsRegular, journeyVars, clientVars, IInv, TypeInv, TypeOK,
         StoreTypeOK
<1>r. /\ \A s \in Sessions :
            /\ sessionTable'[s].state # "CIC_CRI_SESSION_ABORTED"
            /\ sessionTable'[s].state = "MISSING" => ~sessionTable'[s].registered
      /\ \A s \in opened : sessionTable[s].state # "CIC_SESSION_CREATED" =>
            sessionTable'[s].state # "CIC_SESSION_CREATED"
  BY <1>0, RowsGoOn DEF JourneyInv
<1>1. JourneyTypeOK'
  BY <1>0 DEF JourneyInv, JourneyTypeOK
<1>2. WaitingServed'
  BY <1>0 DEF JourneyInv, WaitingServed, GoesOn, OnlyFrame, Failed, JourneyTypeOK
<1>3. OneSession'
  BY <1>0 DEF JourneyInv, OneSession
<1>4. RowsRegular'
  BY <1>0, <1>r DEF JourneyInv, RowsRegular, GoesOn, OnlyFrame, Failed
<1>t. TimeIsUp' <=> TimeIsUp
  BY <1>0 DEF TimeIsUp
<1>6. LastsItsTime'
  <2>1. \A j \in Invocations : inv'[j].op = "session" => SessionGoesOn(j)
    BY <1>0, ServeSessionGoesOn DEF Serve, GoesOn, OnlyFrame, SessionGoesOn
  <2> QED
    BY <1>0, <2>1, Lasting
<1>5. ASSUME ~StaleReads
      PROVE  ClaimAdvances' /\ RefusalIsJust' /\ RefusedOnlyWhenOver'
  <2>1. ClaimAdvances'
    <3>1. ASSUME NEW j \in Invocations,
                 inv'[j].op = "claimedIdentity", inv'[j].at = "respond"
          PROVE  sessionTable'[inv'[j].sid].state # "CIC_SESSION_CREATED"
      <4>1. CASE j = i
        BY <1>0, <3>1, <4>1 DEF GoesOn
      <4>2. CASE j # i
        <5>1. inv'[j] = inv[j]
          BY <1>0, <4>2 DEF GoesOn, OnlyFrame
        <5> QED
          BY <1>5, <1>r, <3>1, <5>1, ClaimsOpened DEF JourneyInv, ClaimAdvances
      <4> QED
        BY <4>1, <4>2
    <3> QED
      BY <1>0, <1>5, <1>r, <3>1 DEF JourneyInv, ClaimAdvances
  <2>2. RefusalIsJust'
    <3>1. CASE waiting = i
      BY <1>0, <3>1 DEF JourneyInv, WaitingServed, RefusalIsJust, GoesOn, Failed, Repeated,
         Endpoint
    <3>2. CASE waiting # i
      BY <1>0, <1>5, <1>t, <3>2 DEF JourneyInv, JourneyTypeOK, RefusalIsJust, GoesOn, OnlyFrame
    <3> QED
      BY <3>1, <3>2
  <2>3. RefusedOnlyWhenOver'
    BY <1>0, <1>5, <1>t DEF JourneyInv, RefusedOnlyWhenOver
  <2> QED
    BY <2>1, <2>2, <2>3
<1> QED
  BY <1>1, <1>2, <1>3, <1>4, <1>5, <1>6 DEF JourneyInv

LEMMA ReplyKeeps ==
    ASSUME IInv, JourneyInv, NEW i \in Invocations, ReceiveReply(i)
    PROVE  JourneyInv'
<1> DEFINE r == inv[i]
<1>0. /\ waiting = i /\ waiting' = NoInvocation /\ r.at = "respond"
      /\ UNCHANGED <<sessionTable, now, submitted, late, since>>
      /\ OnlyFrame(i) /\ inv'[i].op = "none"
      /\ stage \in DOMAIN Endpoint /\ (r.op = Endpoint[stage] \/ Failed(r))
  BY IdleFields DEF ReceiveReply, Respond, storeVars, sessionVars, personVars, IInv, JourneyInv, WaitingServed
<1>1. opened' = opened \/ (stage = "start" /\ opened' = {r.sid})
  BY <1>0 DEF ReceiveReply, Respond, JourneyInv, OneSession, Endpoint, Failed
<1>2. stage' \in Stages \ {"start"} /\ accepted' \in Claims \cup {NoClaim}
  BY <1>0 DEF ReceiveReply, Unanswered, NextStage, Repeated, Stages, Endpoint, JourneyInv,
     JourneyTypeOK
<1>3. JourneyTypeOK'
  BY <1>0, <1>2 DEF JourneyInv, JourneyTypeOK
<1>4. WaitingServed'
  BY <1>0 DEF WaitingServed
<1>5. OneSession'
  BY <1>1, <1>2 DEF JourneyInv, OneSession
<1>6. RowsRegular'
  BY <1>0 DEF JourneyInv, RowsRegular, OnlyFrame
<1>7. TimeIsUp' <=> TimeIsUp
  BY <1>0 DEF TimeIsUp
<1>9. LastsItsTime'
  <2>1. \A s \in opened' : s \in opened \/ \E j \in Invocations :
            inv[j].op = "session" /\ inv[j].at = "respond" /\ inv[j].sid = s
    BY <1>0 DEF ReceiveReply, Respond
  <2>2. \A j \in Invocations : inv'[j].op = "session" => SessionGoesOn(j)
    BY <1>0 DEF OnlyFrame, SessionGoesOn
  <2>3. (\A s \in Sessions : RowGoesOn(s)) /\ now' \in Nat /\ now <= now'
    BY <1>0 DEF RowGoesOn, IInv, TypeInv, TypeOK, StoreTypeOK
  <2> QED
    BY <1>0, <1>2, <2>1, <2>2, <2>3, Lasting
<1>8. ASSUME ~StaleReads
      PROVE  ClaimAdvances' /\ RefusalIsJust' /\ RefusedOnlyWhenOver'
  <2>1. ASSUME stage' = "code"
        PROVE  \A s \in opened' : sessionTable'[s].state # "CIC_SESSION_CREATED"
    <3>1. stage = "code" \/ (stage = "claim" /\ r.status = 200)
      BY <1>0, <2>1 DEF ReceiveReply, Succeeded, Unanswered, NextStage, Repeated, Endpoint
    <3>2. CASE stage = "code"
      BY <1>0, <1>1, <1>8, <3>2 DEF JourneyInv, ClaimAdvances
    <3>3. CASE stage = "claim" /\ r.status = 200
      <4>1. r.op = "claimedIdentity" /\ r.sid \in opened
        BY <1>0, <3>3, ClaimsOpened DEF Endpoint, Failed
      <4>2. sessionTable[r.sid].state # "CIC_SESSION_CREATED"
        BY <1>0, <1>8, <4>1 DEF JourneyInv, ClaimAdvances
      <4> QED
        BY <1>0, <1>1, <3>3, <4>1, <4>2 DEF JourneyInv, OneSession
    <3> QED
      BY <3>1, <3>2, <3>3
  <2>2. ClaimAdvances'
    BY <1>0, <1>8, <2>1 DEF JourneyInv, ClaimAdvances, OnlyFrame
  <2>3. RefusalIsJust'
    BY <1>0 DEF RefusalIsJust
  <2>4. RefusedOnlyWhenOver'
    <3>1. stage' = "refused" => stage \in Repeated /\ r.status = 401
      BY <1>0 DEF ReceiveReply, Unanswered, NextStage, Repeated, Endpoint
    <3>2. stage' = "refused" => TimeIsUp
      BY <1>0, <1>8, <3>1, JourneyAssumption DEF JourneyInv, RefusalIsJust
    <3> QED
      BY <1>7, <3>2 DEF RefusedOnlyWhenOver
  <2> QED
    BY <2>2, <2>3, <2>4
<1> QED
  BY <1>3, <1>4, <1>5, <1>6, <1>8, <1>9 DEF JourneyInv

\* The caller stops waiting, because the reply is lost or for want of patience.
LEMMA StopKeeps ==
    ASSUME IInv, JourneyInv,
           UNCHANGED <<sessionTable, now, opened, submitted, accepted, since>>,
           late' \in 0..MaxLate,
           \A j \in Invocations : inv'[j] = inv[j] \/ (inv'[j].op = "none" /\ j # waiting'),
           \/ UNCHANGED <<stage, waiting>>
           \/ stage' = Unanswered /\ waiting' = NoInvocation
    PROVE  JourneyInv'
<1>1. JourneyTypeOK'
  BY DEF JourneyInv, JourneyTypeOK, Unanswered, Stages
<1>2. WaitingServed'
  BY DEF JourneyInv, JourneyTypeOK, WaitingServed
<1>3. OneSession'
  BY DEF JourneyInv, OneSession, Unanswered, Repeated
<1>4. RowsRegular'
  BY DEF JourneyInv, RowsRegular
<1>5. TimeIsUp' <=> TimeIsUp
  BY DEF TimeIsUp
<1>7. LastsItsTime'
  <2>1. \A j \in Invocations : inv'[j].op = "session" => SessionGoesOn(j)
    BY DEF SessionGoesOn
  <2>2. (\A s \in Sessions : RowGoesOn(s)) /\ now' \in Nat /\ now <= now'
    BY DEF RowGoesOn, IInv, TypeInv, TypeOK, StoreTypeOK
  <2>3. stage' = "start" /\ waiting' = NoInvocation => stage = "start" /\ waiting = NoInvocation
    BY DEF Unanswered, Repeated
  <2> QED
    BY <2>1, <2>2, <2>3, Lasting
<1>6. ASSUME ~StaleReads
      PROVE  ClaimAdvances' /\ RefusalIsJust' /\ RefusedOnlyWhenOver'
  <2>1. ClaimAdvances'
    BY <1>6 DEF JourneyInv, ClaimAdvances, Unanswered
  <2>2. RefusalIsJust'
    BY <1>5, <1>6 DEF JourneyInv, JourneyTypeOK, RefusalIsJust
  <2>3. RefusedOnlyWhenOver'
    BY <1>5, <1>6 DEF JourneyInv, RefusedOnlyWhenOver, Unanswered
  <2> QED
    BY <2>1, <2>2, <2>3
<1> QED
  BY <1>1, <1>2, <1>3, <1>4, <1>6, <1>7 DEF JourneyInv

LEMMA LossKeeps ==
    ASSUME IInv, JourneyInv, NEW i \in Invocations, LoseReply(i)
    PROVE  JourneyInv'
<1>1. OnlyFrame(i) /\ inv'[i].op = "none" /\ waiting' # i
  BY IdleFields DEF LoseReply, Crash, IInv
<1> QED
  BY <1>1, StopKeeps DEF LoseReply, Crash, OnlyFrame, storeVars, sessionVars, personVars, clientVars,
     JourneyInv, JourneyTypeOK

LEMMA GiveUpKeeps ==
    ASSUME IInv, JourneyInv, GiveUp
    PROVE  JourneyInv'
BY StopKeeps DEF GiveUp, vars, storeVars, sessionVars, personVars, clientVars, JourneyInv, JourneyTypeOK

LEMMA TimeKeeps ==
    ASSUME IInv, JourneyInv, Environment, UNCHANGED journeyVars
    PROVE  JourneyInv'
<1>a. UNCHANGED <<inv, opened, stage, waiting, submitted, accepted, late, since>>
  BY DEF Environment, journeyVars, clientVars
<1>b. \A s \in Sessions : RowGoesOn(s)
  BY EnvironmentGoesOn DEF IInv
<1>0. /\ UNCHANGED <<inv, opened, stage, waiting, submitted, accepted, late, since>>
      /\ \A s \in Sessions : RowGoesOn(s)
  BY <1>a, <1>b
<1>1. now' \in Nat /\ now <= now'
  BY DEF Environment, StoreStep, Tick, CatchUpSession, CatchUpPerson,
     DeleteExpiredSession, DeleteExpiredPerson, IInv, TypeInv, TypeOK, StoreTypeOK
<1>r. /\ \A s \in Sessions :
            /\ sessionTable'[s].state # "CIC_CRI_SESSION_ABORTED"
            /\ sessionTable'[s].state = "MISSING" => ~sessionTable'[s].registered
      /\ \A s \in opened : sessionTable[s].state # "CIC_SESSION_CREATED" =>
            sessionTable'[s].state # "CIC_SESSION_CREATED"
  BY <1>0, RowsGoOn DEF JourneyInv
<1>t. TimeIsUp => TimeIsUp'
  BY <1>0, <1>1, NumbersAssumption DEF TimeIsUp, IInv, TypeInv, TypeOK, StoreTypeOK, JourneyInv,
     JourneyTypeOK
<1>5. LastsItsTime'
  BY <1>0, <1>1, Lasting DEF SessionGoesOn
<1>2. JourneyTypeOK' /\ WaitingServed' /\ OneSession'
  BY <1>0 DEF JourneyInv, JourneyTypeOK, WaitingServed, OneSession
<1>3. RowsRegular'
  BY <1>0, <1>r DEF JourneyInv, RowsRegular
<1>4. ASSUME ~StaleReads
      PROVE  ClaimAdvances' /\ RefusalIsJust' /\ RefusedOnlyWhenOver'
  <2>1. ClaimAdvances'
    BY <1>0, <1>4, <1>r, ClaimsOpened DEF JourneyInv, ClaimAdvances
  <2>2. RefusalIsJust' /\ RefusedOnlyWhenOver'
    BY <1>0, <1>4, <1>t DEF JourneyInv, RefusalIsJust, RefusedOnlyWhenOver
  <2> QED
    BY <2>1, <2>2
<1> QED
  BY <1>2, <1>3, <1>4, <1>5 DEF JourneyInv
-----------------------------------------------------------------------------
LEMMA JourneyInitKeeps == JourneyInit => JourneyInv
<1> SUFFICES ASSUME JourneyInit PROVE JourneyInv
  OBVIOUS
<1>1. Idle.op = "none" /\ NoSessionRow.state = "MISSING" /\ ~NoSessionRow.registered
  BY DEF Idle, Begin, NoSessionRow
<1> QED
  BY <1>1 DEF JourneyInit, Init, StoreInit, LambdaInit, JourneyInv, JourneyTypeOK, Stages,
     WaitingServed, OneSession, RowsRegular, LastsItsTime, ClaimAdvances, RefusalIsJust,
     RefusedOnlyWhenOver

LEMMA JourneyNextKeeps == IInv /\ JourneyInv /\ [JourneyNext]_allVars => JourneyInv'
<1> SUFFICES ASSUME IInv, JourneyInv, [JourneyNext]_allVars PROVE JourneyInv'
  OBVIOUS
<1>1. CASE UNCHANGED allVars
  BY <1>1, StopKeeps DEF allVars, vars, storeVars, sessionVars, personVars, clientVars, journeyVars,
     JourneyInv, JourneyTypeOK
<1> QED
  BY <1>1, RequestKeeps, ServeKeeps, ReplyKeeps, LossKeeps, GiveUpKeeps, TimeKeeps
     DEF JourneyNext

\* The caller's view and the session's agree throughout a journey, with reads consistent or
\* stale: who is waited for is at work on what the stage is about, one session is known and
\* no row is half there; and with consistent reads a claim once answered is never undone.
THEOREM JourneyInvariantHolds == JourneySpec => []JourneyInv
<1>1. JourneySpec => []IInv
  BY JourneysAreServed, InvariantHolds, PTL
<1> QED
  BY <1>1, JourneyInitKeeps, JourneyNextKeeps, PTL DEF JourneySpec

\* A user who repeats requests is refused only when the session is over, however many of
\* the earlier attempts were lost, crashed, or are still writing (consistent reads).
THEOREM RefusalsAreJust ==
    ASSUME ~StaleReads
    PROVE  JourneySpec => []RefusedOnlyWhenOver
<1>1. JourneyInv => RefusedOnlyWhenOver
  BY DEF JourneyInv
<1> QED
  BY <1>1, JourneyInvariantHolds, PTL
=============================================================================
