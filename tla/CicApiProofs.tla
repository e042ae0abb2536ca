---------------------------- MODULE CicApiProofs ----------------------------
(***************************************************************************)
(* The safety of CicApi.  First that every endpoint, the replies, crashes  *)
(* and the database's own steps keep every variable within its type; then  *)
(* that IInv is inductive: what a step that only grows the histories       *)
(* leaves intact, one lemma per endpoint with one step per action, one for *)
(* replies and crashes and one for the database's own steps; and last the  *)
(* theorems that follow from IInv.                                         *)
(***************************************************************************)
EXTENDS CicApiInvariant, TLAPS

USE NamesAssumption, NumbersAssumption, InvocationAssumption
-----------------------------------------------------------------------------
(* The frames of Lambda and of the endpoints.                              *)

LEMMA EnterType ==
    ASSUME inv \in [Invocations -> Frames], NEW i \in Invocations,
           NEW frame \in Frames, Enter(i, frame)
    PROVE  inv' \in [Invocations -> Frames]
BY DEF Enter

LEMMA BeginType ==
    ASSUME NEW op \in Operations \cup {"none"}, NEW point \in Points \cup {"idle"},
           NEW s \in Sessions \cup {NoSession}
    PROVE  Begin(op, point, s) \in Invocation
BY DEF Begin, Invocation, Expiry, NoExpiry, AuthSessionState

LEMMA IdleType == Idle \in Frames
<1>1. Idle \in Invocation
  BY BeginType DEF Idle
<1>2. Shaped(Idle)
  BY DEF Idle, Begin, Shaped
<1> QED
  BY <1>1, <1>2 DEF Frames

LEMMA ReplyFields ==
    ASSUME NEW r \in Invocation, NEW status \in {0, 200, 400, 401, 500}
    PROVE  /\ Reply(r, status) \in Invocation
           /\ Reply(r, status).op = r.op
           /\ Reply(r, status).at = "respond"
           /\ Reply(r, status).sid = r.sid
           /\ Reply(r, status).state = r.state
           /\ Reply(r, status).expiry = r.expiry
           /\ Reply(r, status).names = r.names
           /\ Reply(r, status).code = r.code
           /\ Reply(r, status).status = status
<1> DEFINE q == [r EXCEPT !.at = "respond"]
<1>1. q \in Invocation
  BY DEF Invocation, Points
<1>2. [q EXCEPT !.status = status] \in Invocation
  <2> HIDE DEF q
  <2> QED BY <1>1 DEF Invocation
<1>3. Reply(r, status) \in Invocation
  BY <1>2 DEF Reply
<1> QED
  BY <1>3 DEF Reply, Invocation

LEMMA ReplyType ==
    ASSUME NEW r \in Frames, NEW status \in {0, 200, 400, 401, 500},
           r.op = "token" => r.at # "verify",
           r.op = "userinfo" => r.at # "getPerson"
    PROVE  Reply(r, status) \in Frames
BY ReplyFields DEF Frames, Shaped

LEMMA OpeningType ==
    ASSUME NEW s \in Sessions, NEW expiry \in Expiry, NEW names \in Names \cup {NoClaim}
    PROVE  Opening(s, expiry, names) \in Frames
<1> DEFINE q == [Begin("session", "putSession", s) EXCEPT !.expiry = expiry]
<1>1. Begin("session", "putSession", s) \in Invocation
  BY BeginType DEF Operations, Points
<1>2. q \in Invocation
  BY <1>1 DEF Invocation
<1>3. [q EXCEPT !.names = names] \in Invocation
  <2> HIDE DEF q
  <2> QED BY <1>2 DEF Invocation
<1>4. Shaped(Opening(s, expiry, names))
  BY DEF Shaped, Opening, Begin
<1> QED
  BY <1>3, <1>4 DEF Opening, Frames

LEMMA ClaimingType ==
    ASSUME NEW s \in Sessions, NEW claim \in Claims, NEW expiry \in Expiry
    PROVE  Claiming(s, claim, expiry) \in Frames
<1> DEFINE q == [Begin("claimedIdentity", "updatePerson", s) EXCEPT !.names = claim]
<1>1. Begin("claimedIdentity", "updatePerson", s) \in Invocation
  BY BeginType DEF Operations, Points
<1>2. q \in Invocation
  BY <1>1 DEF Invocation, Names
<1>3. [q EXCEPT !.expiry = expiry] \in Invocation
  <2> HIDE DEF q
  <2> QED BY <1>2 DEF Invocation
<1>4. Shaped(Claiming(s, claim, expiry))
  BY DEF Shaped, Claiming, Begin
<1> QED
  BY <1>3, <1>4 DEF Claiming, Frames

LEMMA HoldingType ==
    ASSUME NEW point \in Points, NEW s \in Sessions, NEW k \in Codes \cup {NoCode},
           point = "setCode" => k \in Codes
    PROVE  Holding(point, s, k) \in Frames
<1>1. [op |-> "authorization", at |-> point, sid |-> s, state |-> "MISSING",
       expiry |-> NoExpiry, names |-> NoClaim, code |-> k, status |-> 0] \in Invocation
  BY DEF Invocation, Operations, AuthSessionState, Expiry, NoExpiry
<1>2. Holding(point, s, k) \in Invocation
  BY <1>1 DEF Holding, Begin
<1>3. Shaped(Holding(point, s, k))
  BY DEF Shaped, Holding, Begin
<1> QED
  BY <1>2, <1>3 DEF Frames

LEMMA SignedType ==
    ASSUME NEW r \in Frames, r.op = "token", NEW expiry \in Nat
    PROVE  Signed(r, expiry) \in Frames
<1> DEFINE q == [r EXCEPT !.at = "updateToken"]
<1>1. r \in Invocation /\ r.sid \in Sessions
  BY DEF Frames, Shaped
<1>2. q \in Invocation
  BY <1>1 DEF Invocation, Points
<1>3. [q EXCEPT !.expiry = expiry] \in Invocation
  <2> HIDE DEF q
  <2> QED BY <1>2 DEF Invocation, Expiry
<1>4. Shaped(Signed(r, expiry))
  BY <1>1 DEF Shaped, Signed, Invocation
<1> QED
  BY <1>3, <1>4 DEF Signed, Frames

LEMMA PresentedType ==
    ASSUME NEW s \in Sessions, NEW state \in AuthSessionState \cup {"MISSING"}
    PROVE  Presented(s, state) \in Frames
<1>1. [op |-> "userinfo", at |-> "getPerson", sid |-> s, state |-> state,
       expiry |-> NoExpiry, names |-> NoClaim, code |-> NoCode, status |-> 0] \in Invocation
  BY DEF Invocation, Operations, Points, Expiry, NoExpiry
<1>2. Presented(s, state) \in Invocation
  BY <1>1 DEF Presented, Begin
<1>3. Shaped(Presented(s, state))
  BY DEF Shaped, Presented, Begin
<1> QED
  BY <1>2, <1>3 DEF Frames

LEMMA IdentifiedType ==
    ASSUME NEW r \in Frames, r.op = "userinfo", NEW names \in Names
    PROVE  Identified(r, names) \in Frames
<1> DEFINE q == [r EXCEPT !.at = "sign"]
<1>1. r \in Invocation /\ r.sid \in Sessions
  BY DEF Frames, Shaped
<1>2. q \in Invocation
  BY <1>1 DEF Invocation, Points
<1>3. [q EXCEPT !.names = names] \in Invocation
  <2> HIDE DEF q
  <2> QED BY <1>2 DEF Invocation
<1>4. Shaped(Identified(r, names))
  BY <1>1 DEF Shaped, Identified, Invocation
<1> QED
  BY <1>3, <1>4 DEF Identified, Frames

LEMMA FailType ==
    ASSUME inv \in [Invocations -> Frames], NEW i \in Invocations,
           NEW status \in {400, 401, 500}, Fail(i, status)
    PROVE  inv' \in [Invocations -> Frames]
<1>1. Idle.op = "none"
  BY DEF Idle, Begin
<1> QED
  BY <1>1, IdleType, ReplyType, EnterType DEF Fail

LEMMA GotoType ==
    ASSUME inv \in [Invocations -> Frames], NEW i \in Invocations,
           NEW point \in Points \ {"updatePerson", "setCode", "updateToken"},
           inv[i].op # "token",
           inv[i].op = "userinfo" => inv[i].at # "getPerson",
           Goto(i, point)
    PROVE  inv' \in [Invocations -> Frames]
<1> DEFINE q == [inv[i] EXCEPT !.at = point]
<1>1. inv[i] \in Invocation /\ Shaped(inv[i])
  BY DEF Frames
<1>2. q \in Invocation
  BY <1>1 DEF Invocation
<1>3. Shaped(q)
  BY <1>1 DEF Shaped, Invocation
<1>4. q \in Frames
  BY <1>2, <1>3 DEF Frames
<1> QED
  BY <1>4, EnterType DEF Goto

LEMMA SucceedType ==
    ASSUME inv \in [Invocations -> Frames], NEW i \in Invocations, Succeed(i),
           inv[i].op = "token" => inv[i].at # "verify",
           inv[i].op = "userinfo" => inv[i].at # "getPerson"
    PROVE  inv' \in [Invocations -> Frames]
BY ReplyType, EnterType DEF Succeed

LEMMA AnswerType ==
    ASSUME inv \in [Invocations -> Frames], NEW i \in Invocations, NEW s \in Sessions,
           NEW op \in {"claimedIdentity", "abort", "sessionConfig"}, Answer(i, op, s)
    PROVE  inv' \in [Invocations -> Frames]
<1>1. Begin(op, "respond", s) \in Invocation
  BY BeginType DEF Operations, Points
<1>2. Shaped(Begin(op, "respond", s)) /\ Begin(op, "respond", s).op = op
  BY DEF Begin, Shaped
<1> QED
  BY <1>1, <1>2, ReplyType, EnterType DEF Answer, Frames

LEMMA NoSessionFoundType ==
    ASSUME inv \in [Invocations -> Frames], NEW i \in Invocations, NEW s \in Sessions,
           NEW missing \in {400, 401, 500}, NEW expired \in {400, 401, 500},
           NoSessionFound(i, s, missing, expired)
    PROVE  inv' \in [Invocations -> Frames]
BY FailType DEF NoSessionFound
-----------------------------------------------------------------------------
(* What a read returns.                                                    *)

LEMMA SessionReadsType ==
    ASSUME StoreTypeOK, NEW s \in Sessions, NEW row \in SessionReads(s)
    PROVE  row \in SessionRow
BY DEF StoreTypeOK, SessionReads

LEMMA PersonReadsType ==
    ASSUME StoreTypeOK, NEW s \in Sessions, NEW person \in PersonReads(s)
    PROVE  person \in PersonRow
BY DEF StoreTypeOK, PersonReads
-----------------------------------------------------------------------------
(* The writes of CicService.                                              *)

SessionsTyped ==
    /\ sessionTable \in [Sessions -> SessionRow]
    /\ sessionStale \in [Sessions -> SUBSET SessionRow]
    /\ entered \subseteq Sessions \X (AuthSessionState \cup {"MISSING"})

PersonsTyped ==
    /\ personTable \in [Sessions -> PersonRow]
    /\ personStale \in [Sessions -> SUBSET PersonRow]

\* What a write of the row of s does, to it and to the versions of it.
LEMMA PutSessionRowFields ==
    ASSUME SessionsTyped, NEW s \in Sessions, NEW row \in SessionRow, PutSessionRow(s, row)
    PROVE  /\ SessionsTyped'
           /\ sessionTable'[s] = row
           /\ sessionStale'[s] \subseteq sessionStale[s] \cup {sessionTable[s]}
           /\ \A t \in Sessions \ {s} :
                sessionTable'[t] = sessionTable[t] /\ sessionStale'[t] = sessionStale[t]
           /\ entered' = entered \cup {<<s, row.state>>}
<1>1. sessionTable' = [sessionTable EXCEPT ![s] = row]
  BY DEF PutSessionRow
<1>2. PICK old \in SUBSET {sessionTable[s]} :
        sessionStale' = [sessionStale EXCEPT ![s] = (sessionStale[s] \cup old) \ {row}]
  BY DEF PutSessionRow
<1>3. (sessionStale[s] \cup old) \ {row} \in SUBSET SessionRow
  BY DEF SessionsTyped
<1>4. /\ sessionTable' \in [Sessions -> SessionRow] /\ sessionTable'[s] = row
      /\ \A t \in Sessions \ {s} : sessionTable'[t] = sessionTable[t]
  BY <1>1 DEF SessionsTyped
<1>5. /\ sessionStale' \in [Sessions -> SUBSET SessionRow]
      /\ sessionStale'[s] \subseteq sessionStale[s] \cup {sessionTable[s]}
      /\ \A t \in Sessions \ {s} : sessionStale'[t] = sessionStale[t]
  BY <1>2, <1>3 DEF SessionsTyped
<1>6. entered' = entered \cup {<<s, row.state>>} /\ row.state \in AuthSessionState \cup {"MISSING"}
  BY DEF PutSessionRow, SessionRow
<1> QED
  BY <1>4, <1>5, <1>6 DEF SessionsTyped

LEMMA PutPersonRowFields ==
    ASSUME PersonsTyped, NEW s \in Sessions, NEW row \in PersonRow, PutPersonRow(s, row)
    PROVE  /\ PersonsTyped'
           /\ personTable'[s] = row
           /\ personStale'[s] \subseteq personStale[s] \cup {personTable[s]}
           /\ \A t \in Sessions \ {s} :
                personTable'[t] = personTable[t] /\ personStale'[t] = personStale[t]
<1>1. personTable' = [personTable EXCEPT ![s] = row]
  BY DEF PutPersonRow
<1>2. PICK stale \in SUBSET (personStale[s] \cup {personTable[s]}) :
        personStale' = [personStale EXCEPT ![s] = stale]
  <2>1. (personStale[s] \cup {personTable[s]}) \ {row} \in
            SUBSET (personStale[s] \cup {personTable[s]})
    OBVIOUS
  <2>2. personStale[s] \in SUBSET (personStale[s] \cup {personTable[s]})
    OBVIOUS
  <2> QED
    BY <2>1, <2>2 DEF PutPersonRow
<1>3. /\ personTable' \in [Sessions -> PersonRow] /\ personTable'[s] = row
      /\ \A t \in Sessions \ {s} : personTable'[t] = personTable[t]
  BY <1>1 DEF PersonsTyped
<1>4. stale \in SUBSET PersonRow
  BY DEF PersonsTyped
<1>5. /\ personStale' \in [Sessions -> SUBSET PersonRow]
      /\ personStale'[s] = stale
      /\ \A t \in Sessions \ {s} : personStale'[t] = personStale[t]
  BY <1>2, <1>4 DEF PersonsTyped
<1> QED
  BY <1>3, <1>5 DEF PersonsTyped

\* The rows that are put.
Created(expiry) == [state |-> "CIC_SESSION_CREATED", expiry |-> expiry,
                    code |-> NoCode, registered |-> TRUE]
Advanced(row, state) == [row EXCEPT !.state = state]
Coded(row, k) == [row EXCEPT !.state = "CIC_AUTH_CODE_ISSUED", !.code = k]
Exchanged(row) == [row EXCEPT !.state = "CIC_ACCESS_TOKEN_ISSUED", !.code = NoCode]

LEMMA CreatedFields ==
    ASSUME NEW expiry \in Expiry
    PROVE  /\ Created(expiry) \in SessionRow
           /\ Created(expiry).state = "CIC_SESSION_CREATED"
           /\ Created(expiry).code = NoCode
           /\ Created(expiry).expiry = expiry
           /\ Created(expiry).registered
BY DEF Created, SessionRow, AuthSessionState

LEMMA AdvancedFields ==
    ASSUME NEW row \in SessionRow, NEW state \in AuthSessionState
    PROVE  /\ Advanced(row, state) \in SessionRow
           /\ Advanced(row, state).state = state
           /\ Advanced(row, state).code = row.code
           /\ Advanced(row, state).expiry = row.expiry
           /\ Advanced(row, state).registered = row.registered
BY DEF Advanced, SessionRow

LEMMA CodedFields ==
    ASSUME NEW row \in SessionRow, NEW k \in Codes
    PROVE  /\ Coded(row, k) \in SessionRow
           /\ Coded(row, k).state = "CIC_AUTH_CODE_ISSUED"
           /\ Coded(row, k).code = k
           /\ Coded(row, k).expiry = row.expiry
           /\ Coded(row, k).registered = row.registered
<1> DEFINE q == Advanced(row, "CIC_AUTH_CODE_ISSUED")
<1>1. q \in SessionRow
  BY AdvancedFields DEF AuthSessionState
<1>2. [q EXCEPT !.code = k] \in SessionRow
  <2> HIDE DEF q
  <2> QED BY <1>1 DEF SessionRow
<1>3. Coded(row, k) = [q EXCEPT !.code = k]
  BY DEF Coded, Advanced
<1>4. Coded(row, k) \in SessionRow
  <2> HIDE DEF q
  <2> QED BY <1>2, <1>3
<1> QED
  BY <1>4 DEF Coded, SessionRow

LEMMA ExchangedFields ==
    ASSUME NEW row \in SessionRow
    PROVE  /\ Exchanged(row) \in SessionRow
           /\ Exchanged(row).state = "CIC_ACCESS_TOKEN_ISSUED"
           /\ Exchanged(row).code = NoCode
           /\ Exchanged(row).expiry = row.expiry
           /\ Exchanged(row).registered = row.registered
<1> DEFINE q == Advanced(row, "CIC_ACCESS_TOKEN_ISSUED")
<1>1. q \in SessionRow
  BY AdvancedFields DEF AuthSessionState
<1>2. [q EXCEPT !.code = NoCode] \in SessionRow
  <2> HIDE DEF q
  <2> QED BY <1>1 DEF SessionRow
<1>3. Exchanged(row) = [q EXCEPT !.code = NoCode]
  BY DEF Exchanged, Advanced
<1>4. Exchanged(row) \in SessionRow
  <2> HIDE DEF q
  <2> QED BY <1>2, <1>3
<1> QED
  BY <1>4 DEF Exchanged, SessionRow

LEMMA CreateAuthSessionType ==
    ASSUME SessionsTyped, NEW s \in Sessions, NEW expiry \in Expiry,
           CreateAuthSession(s, expiry)
    PROVE  SessionsTyped'
<1>1. PutSessionRow(s, Created(expiry))
  BY DEF CreateAuthSession, Created
<1> QED
  BY <1>1, CreatedFields, PutSessionRowFields

LEMMA UpdateSessionAuthStateType ==
    ASSUME SessionsTyped, NEW s \in Sessions, NEW state \in AuthSessionState,
           UpdateSessionAuthState(s, state)
    PROVE  SessionsTyped'
<1>1. PutSessionRow(s, Advanced(sessionTable[s], state)) /\ sessionTable[s] \in SessionRow
  BY DEF UpdateSessionAuthState, Advanced, SessionsTyped
<1> QED
  BY <1>1, AdvancedFields, PutSessionRowFields

LEMMA SetAuthorizationCodeType ==
    ASSUME SessionsTyped, NEW s \in Sessions, NEW k \in Codes, SetAuthorizationCode(s, k)
    PROVE  SessionsTyped'
<1>1. PutSessionRow(s, Coded(sessionTable[s], k)) /\ sessionTable[s] \in SessionRow
  BY DEF SetAuthorizationCode, Coded, SessionsTyped
<1> QED
  BY <1>1, CodedFields, PutSessionRowFields

LEMMA UpdateSessionWithAccessTokenDetailsType ==
    ASSUME SessionsTyped, NEW s \in Sessions, UpdateSessionWithAccessTokenDetails(s)
    PROVE  SessionsTyped'
<1>1. PutSessionRow(s, Exchanged(sessionTable[s])) /\ sessionTable[s] \in SessionRow
  BY DEF UpdateSessionWithAccessTokenDetails, Exchanged, SessionsTyped
<1> QED
  BY <1>1, ExchangedFields, PutSessionRowFields

LEMMA SavePersonIdentityType ==
    ASSUME PersonsTyped, NEW s \in Sessions, NEW expiry \in Expiry,
           SavePersonIdentity(s, expiry)
    PROVE  /\ PersonsTyped'
           /\ personTable'[s] = [names |-> SharedClaim, expiry |-> expiry]
           /\ personStale'[s] \subseteq personStale[s] \cup {personTable[s]}
           /\ \A t \in Sessions \ {s} :
                personTable'[t] = personTable[t] /\ personStale'[t] = personStale[t]
<1>1. [names |-> SharedClaim, expiry |-> expiry] \in PersonRow
  BY DEF PersonRow, Names
<1> QED
  BY <1>1, PutPersonRowFields DEF SavePersonIdentity

LEMMA SaveCICPersonInfoType ==
    ASSUME PersonsTyped, NEW s \in Sessions, NEW claim \in Claims, NEW expiry \in Expiry,
           SaveCICPersonInfo(s, claim, expiry)
    PROVE  /\ PersonsTyped'
           /\ personTable'[s] = [names |-> claim, expiry |-> expiry]
           /\ personStale'[s] \subseteq personStale[s] \cup {personTable[s]}
           /\ \A t \in Sessions \ {s} :
                personTable'[t] = personTable[t] /\ personStale'[t] = personStale[t]
           /\ recorded' = recorded \cup {<<s, claim>>}
<1>1. [names |-> claim, expiry |-> expiry] \in PersonRow
  BY DEF PersonRow, Names
<1> QED
  BY <1>1, PutPersonRowFields DEF SaveCICPersonInfo
-----------------------------------------------------------------------------
(* One lemma per endpoint.                                                *)

LEMMA SessionType ==
    ASSUME TypeInv, NEW i \in Invocations, SessionStep(i)
    PROVE  TypeInv'
<1> USE DEF TypeInv, TypeOK, StoreTypeOK, LambdaTypeOK, storeVars, sessionVars, personVars,
            clientVars, SessionsTyped, PersonsTyped
<1>0. SUFFICES /\ inv' \in [Invocations -> Frames]
               /\ SessionsTyped'
               /\ PersonsTyped'
               /\ UNCHANGED <<now, recorded, coded, clientVars>>
  BY DEF Frames
<1>f. inv[i] \in Invocation /\ Shaped(inv[i])
  BY DEF Frames
<1>1. CASE RejectSessionRequest(i)
  BY <1>1, FailType DEF RejectSessionRequest
<1>2. ASSUME NEW s \in Sessions, NEW shared \in {NoClaim, SharedClaim},
             AcceptSessionRequest(i, s, shared)
      PROVE  /\ inv' \in [Invocations -> Frames]
             /\ UNCHANGED <<sessionVars, personVars, now, recorded, coded, clientVars>>
  <2>1. Opening(s, now + SessionTtl, shared) \in Frames
    <3>1. now + SessionTtl \in Expiry /\ shared \in Names \cup {NoClaim}
      BY DEF Names, Expiry
    <3> QED
      BY <3>1, OpeningType
  <2> QED
    BY <1>2, <2>1, FailType, EnterType DEF AcceptSessionRequest
<1>3. CASE PutSession(i)
  <2>1. inv' \in [Invocations -> Frames]
    BY <1>3, FailType, GotoType DEF PutSession, Points, At, Resend
  <2>2. inv[i].sid \in Sessions /\ inv[i].expiry \in Expiry
    BY <1>3, <1>f DEF PutSession, At, Shaped, Invocation
  <2>3. SessionsTyped'
    BY <1>3, <2>2, CreateAuthSessionType DEF PutSession
  <2> QED
    BY <1>3, <2>1, <2>3 DEF PutSession
<1>4. CASE PutPerson(i)
  <2>1. inv' \in [Invocations -> Frames]
    BY <1>4, FailType, GotoType DEF PutPerson, Points, At, Resend
  <2>2. inv[i].sid \in Sessions /\ inv[i].expiry \in Expiry
    BY <1>4, <1>f DEF PutPerson, At, Shaped, Invocation
  <2>3. PersonsTyped'
    BY <1>4, <2>2, SavePersonIdentityType DEF PutPerson
  <2> QED
    BY <1>4, <2>1, <2>3 DEF PutPerson
<1>5. CASE AuditStart(i)
  BY <1>5, SucceedType DEF AuditStart, Sending, At
<1> QED
  BY <1>1, <1>2, <1>3, <1>4, <1>5 DEF SessionStep

LEMMA ClaimedIdentityType ==
    ASSUME TypeInv, NEW i \in Invocations, ClaimedIdentityStep(i)
    PROVE  TypeInv'
<1> USE DEF TypeInv, TypeOK, StoreTypeOK, LambdaTypeOK, storeVars, sessionVars, personVars,
            clientVars, SessionsTyped, PersonsTyped
<1>0. SUFFICES /\ inv' \in [Invocations -> Frames]
               /\ SessionsTyped'
               /\ PersonsTyped'
               /\ recorded' \subseteq Sessions \X Claims
               /\ UNCHANGED <<now, coded, clientVars>>
  BY DEF Frames
<1>f. inv[i] \in Invocation /\ Shaped(inv[i])
  BY DEF Frames
<1>1. ASSUME NEW s \in opened, NEW claim \in Claims, ReceiveClaim(i, s, claim)
      PROVE  inv' \in [Invocations -> Frames]
  <2>1. \A row \in LiveSession(s) : Claiming(s, claim, row.expiry) \in Frames
    BY SessionReadsType, ClaimingType DEF LiveSession, SessionRow
  <2> QED
    BY <1>1, <2>1, FailType, NoSessionFoundType, AnswerType, EnterType DEF ReceiveClaim
<1>2. CASE UpdatePerson(i)
  <2>1. inv' \in [Invocations -> Frames]
    BY <1>2, FailType, GotoType DEF UpdatePerson, Points, At, Resend
  <2>2. inv[i].sid \in Sessions /\ inv[i].names \in Claims /\ inv[i].expiry \in Expiry
    BY <1>2, <1>f DEF UpdatePerson, At, Shaped, Invocation
  <2>3. PersonsTyped' /\ recorded' \subseteq Sessions \X Claims
    <3>1. CASE SaveCICPersonInfo(inv[i].sid, inv[i].names, inv[i].expiry)
      <4>1. PersonsTyped /\ recorded \subseteq Sessions \X Claims
        OBVIOUS
      <4>2. PersonsTyped' /\ recorded' = recorded \cup {<<inv[i].sid, inv[i].names>>}
        BY <2>2, <3>1, <4>1, SaveCICPersonInfoType
      <4> QED
        BY <2>2, <4>1, <4>2
    <3>2. CASE UNCHANGED <<personVars, recorded>>
      BY <3>2
    <3> QED
      BY <1>2, <3>1, <3>2 DEF UpdatePerson
  <2> QED
    BY <1>2, <2>1, <2>3 DEF UpdatePerson
<1>3. CASE UpdateState(i)
  <2>1. inv' \in [Invocations -> Frames]
    BY <1>3, FailType, SucceedType DEF UpdateState, At, Resend
  <2>2. inv[i].sid \in Sessions
    BY <1>3, <1>f DEF UpdateState, At, Shaped
  <2>3. SessionsTyped'
    BY <1>3, <2>2, UpdateSessionAuthStateType DEF UpdateState, AuthSessionState
  <2> QED
    BY <1>3, <2>1, <2>3 DEF UpdateState
<1> QED
  BY <1>1, <1>2, <1>3 DEF ClaimedIdentityStep, ReceiveClaim

LEMMA AuthorizationType ==
    ASSUME TypeInv, NEW i \in Invocations, AuthorizationStep(i)
    PROVE  TypeInv'
<1> USE DEF TypeInv, TypeOK, StoreTypeOK, LambdaTypeOK, storeVars, sessionVars, personVars,
            clientVars, SessionsTyped, PersonsTyped
<1>0. SUFFICES /\ inv' \in [Invocations -> Frames]
               /\ SessionsTyped'
               /\ coded' \subseteq Sessions \X Codes
               /\ UNCHANGED <<personVars, now, recorded, clientVars>>
  BY DEF Frames
<1>f. inv[i] \in Invocation /\ Shaped(inv[i])
  BY DEF Frames
<1>1. ASSUME NEW s \in opened, RequestCode(i, s)
      PROVE  inv' \in [Invocations -> Frames]
  <2>1. \A k \in Codes : Holding("setCode", s, k) \in Frames
    BY HoldingType DEF Points
  <2>2. ASSUME NEW row \in LiveSession(s)
        PROVE  Reply(Holding("respond", s, row.code), 200) \in Frames
    <3>1. row.code \in Codes \cup {NoCode}
      BY SessionReadsType DEF LiveSession, SessionRow
    <3>2. Holding("respond", s, row.code).op = "authorization"
      BY DEF Holding, Begin
    <3> QED
      BY <3>1, <3>2, HoldingType, ReplyType DEF Points
  <2> QED
    BY <1>1, <2>1, <2>2, FailType, NoSessionFoundType, EnterType DEF RequestCode
<1>2. CASE SetCode(i)
  <2>1. inv' \in [Invocations -> Frames]
    BY <1>2, FailType, GotoType DEF SetCode, Points, At, Resend
  <2>2. inv[i].sid \in Sessions /\ inv[i].code \in Codes
    BY <1>2, <1>f DEF SetCode, At, Shaped
  <2>3. SessionsTyped'
    BY <1>2, <2>2, SetAuthorizationCodeType DEF SetCode
  <2>4. coded' \subseteq Sessions \X Codes
    BY <1>2, <2>2 DEF SetCode, SetAuthorizationCode
  <2> QED
    BY <1>2, <2>1, <2>3, <2>4 DEF SetCode
<1>3. CASE AuditCode(i)
  BY <1>3, SucceedType DEF AuditCode, Sending, At
<1> QED
  BY <1>1, <1>2, <1>3 DEF AuthorizationStep, RequestCode

LEMMA TokenType ==
    ASSUME TypeInv, NEW i \in Invocations, TokenStep(i)
    PROVE  TypeInv'
<1> USE DEF TypeInv, TypeOK, StoreTypeOK, LambdaTypeOK, storeVars, sessionVars, personVars,
            clientVars, SessionsTyped, PersonsTyped
<1>0. SUFFICES /\ inv' \in [Invocations -> Frames]
               /\ SessionsTyped'
               /\ UNCHANGED <<personVars, now, recorded, coded, clientVars>>
  BY DEF Frames
<1>f. inv[i] \in Frames /\ Shaped(inv[i])
  BY DEF Frames
<1>1. ASSUME NEW grant \in codes, RequestToken(i, grant[2])
      PROVE  inv' \in [Invocations -> Frames]
  <2>1. \A s \in Sessions : Begin("token", "verify", s) \in Frames
    <3> TAKE s \in Sessions
    <3>1. Begin("token", "verify", s) \in Invocation
      BY BeginType DEF Operations, Points
    <3>2. Shaped(Begin("token", "verify", s))
      BY DEF Begin, Shaped
    <3> QED
      BY <3>1, <3>2 DEF Frames
  <2> QED
    BY <1>1, <2>1, FailType, EnterType DEF RequestToken
<1>2. CASE VerifyAndSign(i)
  <2>1. Signed(inv[i], now + TokenTtl) \in Frames
    BY <1>2, <1>f, SignedType DEF VerifyAndSign, At
  <2> QED
    BY <1>2, <2>1, FailType, EnterType DEF VerifyAndSign
<1>3. CASE UpdateToken(i)
  <2>1. inv' \in [Invocations -> Frames]
    BY <1>3, FailType, SucceedType DEF UpdateToken, At, Resend
  <2>2. inv[i].sid \in Sessions
    BY <1>3, <1>f DEF UpdateToken, At, Shaped
  <2>3. SessionsTyped'
    BY <1>3, <2>2, UpdateSessionWithAccessTokenDetailsType DEF UpdateToken
  <2> QED
    BY <1>3, <2>1, <2>3 DEF UpdateToken
<1> QED
  BY <1>1, <1>2, <1>3 DEF TokenStep, RequestToken

LEMMA UserInfoType ==
    ASSUME TypeInv, NEW i \in Invocations, UserInfoStep(i)
    PROVE  TypeInv'
<1> USE DEF TypeInv, TypeOK, StoreTypeOK, LambdaTypeOK
<1>0. SUFFICES inv' \in [Invocations -> Frames] /\ UNCHANGED <<storeVars, clientVars>>
  BY DEF Frames, storeVars, sessionVars, personVars, clientVars
<1>f. inv[i] \in Frames /\ Shaped(inv[i])
  BY DEF Frames
<1>1. ASSUME NEW token \in tokens, PresentToken(i, token)
      PROVE  inv' \in [Invocations -> Frames]
  <2>1. token.sub \in Sessions
    BY DEF Token
  <2>2. \A row \in LiveSession(token.sub) : Presented(token.sub, row.state) \in Frames
    BY <2>1, SessionReadsType, PresentedType DEF LiveSession, SessionRow
  <2> QED
    BY <1>1, <2>1, <2>2, FailType, NoSessionFoundType, EnterType DEF PresentToken
<1>2. CASE GetPerson(i)
  <2>1. inv[i].op = "userinfo" /\ inv[i].sid \in Sessions
    BY <1>2, <1>f DEF GetPerson, At, Shaped
  <2>2. \A person \in PersonReads(inv[i].sid) : person.names # NoClaim =>
            Identified(inv[i], person.names) \in Frames
    BY <1>f, <2>1, PersonReadsType, IdentifiedType DEF PersonRow
  <2> QED
    BY <1>2, <2>2, FailType, EnterType DEF GetPerson
<1>3. CASE SignCredential(i)
  BY <1>3, FailType, GotoType DEF SignCredential, Points, At
<1>4. CASE AuditIssued(i)
  BY <1>4, GotoType DEF AuditIssued, Sending, Points, At
<1>5. CASE AuditEnd(i)
  BY <1>5, SucceedType DEF AuditEnd, At
<1> QED
  BY <1>1, <1>2, <1>3, <1>4, <1>5
     DEF UserInfoStep, PresentToken, GetPerson, SignCredential, AuditIssued, AuditEnd

LEMMA AbortType ==
    ASSUME TypeInv, NEW i \in Invocations, AbortStep(i)
    PROVE  TypeInv'
<1> USE DEF TypeInv, TypeOK, StoreTypeOK, LambdaTypeOK, storeVars, sessionVars, personVars,
            clientVars, SessionsTyped, PersonsTyped
<1>0. SUFFICES /\ inv' \in [Invocations -> Frames]
               /\ SessionsTyped'
               /\ UNCHANGED <<personVars, now, recorded, coded, clientVars>>
  BY DEF Frames
<1>f. inv[i] \in Frames /\ Shaped(inv[i])
  BY DEF Frames
<1>1. ASSUME NEW s \in opened, RequestAbort(i, s)
      PROVE  inv' \in [Invocations -> Frames]
  <2>1. Begin("abort", "abortState", s) \in Invocation
    BY BeginType DEF Operations, Points
  <2>2. Shaped(Begin("abort", "abortState", s))
    BY DEF Begin, Shaped
  <2> QED
    BY <1>1, <2>1, <2>2, FailType, NoSessionFoundType, AnswerType, EnterType
       DEF RequestAbort, Frames
<1>2. ASSUME NEW s \in opened, SessionConfig(i, s)
      PROVE  inv' \in [Invocations -> Frames]
  BY <1>2, FailType, NoSessionFoundType, AnswerType DEF SessionConfig
<1>3. CASE AbortState(i)
  <2>1. inv' \in [Invocations -> Frames]
    BY <1>3, FailType, GotoType DEF AbortState, Points, At, Resend
  <2>2. inv[i].sid \in Sessions
    BY <1>3, <1>f DEF AbortState, At, Shaped
  <2>3. SessionsTyped'
    BY <1>3, <2>2, UpdateSessionAuthStateType DEF AbortState, AuthSessionState
  <2> QED
    BY <1>3, <2>1, <2>3 DEF AbortState
<1>4. CASE AuditAbort(i)
  BY <1>4, SucceedType DEF AuditAbort, Sending, At
<1> QED
  BY <1>1, <1>2, <1>3, <1>4 DEF AbortStep, RequestAbort, SessionConfig
-----------------------------------------------------------------------------
(* Replies, crashes and the database's own steps.                          *)

LEMMA RespondType ==
    ASSUME TypeInv, NEW i \in Invocations, Respond(i)
    PROVE  TypeInv'
<1> USE DEF TypeInv, TypeOK, LambdaTypeOK
<1>1. inv[i] \in Invocation /\ Shaped(inv[i]) /\ inv[i].at = "respond"
  BY DEF Frames, Respond
<1>2. inv' \in [Invocations -> Frames] /\ inv' \in [Invocations -> Invocation]
  <2>1. inv' \in [Invocations -> Frames]
    BY IdleType, EnterType DEF Respond
  <2> QED
    BY <2>1 DEF Frames
<1>3. opened' \subseteq Sessions
  BY <1>1 DEF Respond, Shaped
<1>4. codes' \subseteq Sessions \X Codes
  BY <1>1 DEF Respond, Shaped, Invocation
<1>5. tokens' \subseteq Token
  <2>1. inv[i].op = "token" => [sub |-> inv[i].sid, exp |-> inv[i].expiry] \in Token
    BY <1>1 DEF Shaped, Token
  <2> QED
    BY <2>1 DEF Respond
<1>6. credentials' \subseteq Sessions \X Names
  BY <1>1 DEF Respond, Shaped
<1>7. StoreTypeOK'
  BY DEF Respond, StoreTypeOK, storeVars, sessionVars, personVars
<1> QED
  BY <1>2, <1>3, <1>4, <1>5, <1>6, <1>7

LEMMA CrashType ==
    ASSUME TypeInv, NEW i \in Invocations, Crash(i)
    PROVE  TypeInv'
<1>1. inv' \in [Invocations -> Frames]
  BY IdleType, EnterType DEF Crash, TypeInv
<1> QED
  BY <1>1 DEF TypeInv, TypeOK, StoreTypeOK, LambdaTypeOK, Frames, Crash, storeVars,
              sessionVars, personVars, clientVars

LEMMA EnvironmentType ==
    ASSUME TypeInv, Environment
    PROVE  TypeInv'
<1> USE DEF TypeInv, TypeOK, StoreTypeOK, LambdaTypeOK, Environment, sessionVars,
            personVars, clientVars, SessionsTyped, PersonsTyped
<1>1. NoSessionRow \in SessionRow /\ NoPersonRow \in PersonRow
  BY DEF NoSessionRow, SessionRow, NoPersonRow, PersonRow, Expiry, NoExpiry
<1>2. CASE Tick
  BY <1>2 DEF Tick
<1>4. ASSUME NEW s \in Sessions, CatchUpSession(s)
      PROVE  TypeInv'
  BY <1>4 DEF CatchUpSession
<1>5. ASSUME NEW s \in Sessions, CatchUpPerson(s)
      PROVE  TypeInv'
  BY <1>5 DEF CatchUpPerson
<1>6. ASSUME NEW s \in Sessions, DeleteExpiredSession(s)
      PROVE  TypeInv'
  BY <1>1, <1>6, PutSessionRowFields DEF DeleteExpiredSession
<1>7. ASSUME NEW s \in Sessions, DeleteExpiredPerson(s)
      PROVE  TypeInv'
  BY <1>1, <1>7, PutPersonRowFields DEF DeleteExpiredPerson
<1> QED
  BY <1>2, <1>4, <1>5, <1>6, <1>7 DEF StoreStep
-----------------------------------------------------------------------------
LEMMA InitType == Init => TypeInv
<1> SUFFICES ASSUME Init PROVE TypeInv
  OBVIOUS
<1>1. NoSessionRow \in SessionRow /\ NoPersonRow \in PersonRow
  BY DEF NoSessionRow, SessionRow, NoPersonRow, PersonRow, Expiry, NoExpiry
<1>2. inv \in [Invocations -> Frames]
  BY IdleType DEF Init, LambdaInit
<1> QED
  BY <1>1, <1>2 DEF Init, StoreInit, LambdaInit, TypeInv, TypeOK, StoreTypeOK, LambdaTypeOK,
                    Frames

LEMMA NextType == TypeInv /\ [Next]_vars => TypeInv'
<1> SUFFICES ASSUME TypeInv, [Next]_vars PROVE TypeInv'
  OBVIOUS
<1>1. ASSUME NEW i \in Invocations, EndpointStep(i)
      PROVE  TypeInv'
  BY <1>1, SessionType, ClaimedIdentityType, AuthorizationType, TokenType, UserInfoType,
     AbortType DEF EndpointStep
<1>2. CASE Environment
  BY <1>2, EnvironmentType
<1>3. CASE UNCHANGED vars
  BY <1>3 DEF vars, storeVars, sessionVars, personVars, clientVars, TypeInv, TypeOK,
              StoreTypeOK, LambdaTypeOK
<1> QED
  BY <1>1, <1>2, <1>3, RespondType, CrashType DEF Next

\* Every variable has its type in every reachable state, for any sets of sessions,
\* codes, claims and invocations and any lifetimes: in particular no value that was
\* never read ends up in a table, a code, a token or a credential.
THEOREM TypeCorrect == Spec => []TypeOK
<1>1. TypeInv => TypeOK
  BY DEF TypeInv
<1> QED
  BY <1>1, InitType, NextType, PTL DEF Spec
-----------------------------------------------------------------------------
(* IInv: what a step leaves intact.                                        *)

\* What only grows does so in this step.
Grows ==
    /\ recorded \subseteq recorded'
    /\ coded \subseteq coded'
    /\ tokens \subseteq tokens'
    /\ entered \subseteq entered'

OnlyFrame(i) == \A j \in Invocations \ {i} : inv'[j] = inv[j]

\* How the frame of i is placed: it is given up, goes on about the same session, or
\* enters about a session whose id a caller has, or about a fresh one.
Placed(i) ==
    \/ inv'[i].op = "none" /\ inv'[i].sid = NoSession
    \/ inv'[i].op = inv[i].op /\ inv'[i].sid = inv[i].sid
    \/ inv'[i].op \notin {"session", "none"} /\ inv'[i].sid \in opened
    \/ inv'[i].op = "session" /\ inv'[i].sid \in Sessions /\ FreshSession(inv'[i].sid)

\* Of the persons whose session is not open yet, only that of i is touched.
PersonsLeft(i) ==
    /\ now' = now
    /\ \A t \in Sessions \ opened : t # inv[i].sid => personTable'[t] = personTable[t]

LEMMA FramesKept ==
    ASSUME IInv, NEW i \in Invocations, OnlyFrame(i), Grows, PersonsLeft(i),
           FrameBacked(inv[i])'
    PROVE  FramesBacked'
<1> SUFFICES ASSUME NEW j \in Invocations PROVE FrameBacked(inv[j])'
  BY DEF FramesBacked
<1>1. CASE j = i
  BY <1>1
<1>2. CASE j # i
  <2>1. inv'[j] = inv[j] /\ FrameBacked(inv[j])
    BY <1>2 DEF OnlyFrame, IInv, FramesBacked
  <2>2. SessionFrame(inv[j])'
    <3> SUFFICES ASSUME inv[j].op = "session", inv[j].at # "putSession"
                 PROVE  /\ Reached(inv[j].sid, "CIC_SESSION_CREATED")'
                        /\ inv[j].at # "putPerson" /\ inv[j].names = SharedClaim =>
                                SharedStored(inv[j])'
      BY <2>1 DEF SessionFrame
    <3>1. inv[j].sid \in Sessions \ opened /\ inv[j].sid # inv[i].sid
      BY <1>2 DEF IInv, Secluded, TypeInv, Frames, Shaped
    <3>2. personTable'[inv[j].sid] = personTable[inv[j].sid] /\ now' = now
      BY <3>1 DEF PersonsLeft
    <3> QED
      BY <2>1, <3>2 DEF FrameBacked, SessionFrame, SharedStored, Reached, Grows
  <2> QED
    BY <2>1, <2>2 DEF Grows, FrameBacked, ClaimFrame, AuthorizationFrame, TokenFrame,
                UserInfoFrame, AbortFrame, HasClaim, HasCode, HasToken, Reached
<1> QED
  BY <1>1, <1>2

LEMMA SecludedKept ==
    ASSUME IInv, NEW i \in Invocations, OnlyFrame(i), opened' = opened, Placed(i)
    PROVE  Secluded'
<1>1. \A j \in Invocations : inv[j].op # "none" => inv[j].sid \in Sessions
  BY DEF IInv, TypeInv, Frames, Shaped
<1>2. Secluded
  BY DEF IInv
<1>3. ASSUME NEW k \in Invocations, inv'[k].op = "session"
      PROVE  inv'[k].sid \notin opened /\ \A j \in Invocations : inv'[j].sid = inv'[k].sid => j = k
  <2>1. CASE k = i /\ inv'[i].op = inv[i].op /\ inv'[i].sid = inv[i].sid
    BY <1>2, <1>3, <2>1 DEF Secluded, OnlyFrame
  <2>2. CASE k = i /\ FreshSession(inv'[i].sid)
    BY <2>2 DEF FreshSession, OnlyFrame
  <2>3. CASE k # i
    <3>1. /\ inv'[k] = inv[k] /\ inv[k].sid \in Sessions /\ inv[k].sid \notin opened
          /\ \A j \in Invocations : inv[j].sid = inv[k].sid => j = k
      BY <1>1, <1>2, <1>3, <2>3 DEF OnlyFrame, Secluded
    <3>2. inv'[i].sid # inv[k].sid
      BY <2>3, <3>1, InvocationAssumption DEF Placed, FreshSession
    <3> QED
      BY <3>1, <3>2 DEF OnlyFrame
  <2> QED
    BY <1>3, <2>1, <2>2, <2>3 DEF Placed
<1>4. ASSUME NEW k \in Invocations, inv'[k].op \notin {"session", "none"}
      PROVE  inv'[k].sid \in opened
  BY <1>2, <1>4 DEF Placed, OnlyFrame, Secluded
<1> QED
  BY <1>3, <1>4 DEF Secluded

LEMMA RowBackedStays ==
    ASSUME NEW s, NEW row, RowBacked(s, row), Grows
    PROVE  RowBacked(s, row)'
BY DEF RowBacked, Grows, HasClaim, HasCode, Reached

LEMMA RowsKept ==
    ASSUME IInv, Grows, UNCHANGED <<sessionTable, sessionStale>>
    PROVE  RowsBacked'
<1> SUFFICES ASSUME NEW s \in Sessions, NEW row \in IndexReads(s)'
             PROVE  RowBacked(s, row)'
  BY DEF RowsBacked
<1>1. row \in IndexReads(s)
  BY DEF IndexReads
<1> QED
  BY <1>1, RowBackedStays DEF IInv, RowsBacked

LEMMA RowWritten ==
    ASSUME IInv, Grows, NEW s \in Sessions, NEW row \in SessionRow, PutSessionRow(s, row),
           RowBacked(s, row)'
    PROVE  RowsBacked'
<1> SUFFICES ASSUME NEW t \in Sessions, NEW other \in IndexReads(t)'
             PROVE  RowBacked(t, other)'
  BY DEF RowsBacked
<1>1. SessionsTyped
  BY DEF IInv, TypeInv, TypeOK, StoreTypeOK, SessionsTyped
<1>2. CASE t = s
  <2>1. other = row \/ other \in IndexReads(t)
    BY <1>1, <1>2, PutSessionRowFields DEF IndexReads
  <2> QED
    BY <1>2, <2>1, RowBackedStays DEF IInv, RowsBacked
<1>3. CASE t # s
  <2>1. other \in IndexReads(t)
    BY <1>1, <1>3, PutSessionRowFields DEF IndexReads
  <2> QED
    BY <2>1, RowBackedStays DEF IInv, RowsBacked
<1> QED
  BY <1>2, <1>3

\* A step that only changes what one invocation has in hand.
LEMMA QuietStep ==
    ASSUME IInv, TypeInv', NEW i \in Invocations, OnlyFrame(i), Placed(i),
           FrameBacked(inv[i])', UNCHANGED <<storeVars, clientVars>>
    PROVE  IInv'
<1> USE DEF storeVars, sessionVars, personVars, clientVars, Reached
<1>1. Grows
  BY DEF Grows
<1>2. RowsBacked'
  BY <1>1, RowsKept
<1>3. FramesBacked'
  BY <1>1, FramesKept DEF PersonsLeft
<1>4. Secluded'
  BY SecludedKept
<1>5. GrantsBacked' /\ ClaimsAreOpened' /\ PersonBacked'
  BY DEF IInv, GrantsBacked, CodeNeedsClaim, TokenNeedsCode, CredentialCarriesClaim,
         HasClaim, HasCode, HasToken, ClaimsAreOpened, PersonBacked
<1> QED
  BY <1>2, <1>3, <1>4, <1>5 DEF IInv
-----------------------------------------------------------------------------
(* What the frame holds after the steps of Lambda.                         *)

LEMMA EnterFields ==
    ASSUME TypeInv, NEW i \in Invocations, NEW frame, Enter(i, frame)
    PROVE  OnlyFrame(i) /\ inv'[i] = frame
BY DEF TypeInv, Enter, OnlyFrame

LEMMA FailFields ==
    ASSUME TypeInv, NEW i \in Invocations, NEW status \in {400, 401, 500}, Fail(i, status)
    PROVE  /\ OnlyFrame(i) /\ Placed(i)
           /\ inv'[i].op = "none"
           /\ inv'[i].at = "respond"
           /\ inv'[i].sid = NoSession
           /\ inv'[i].status = status
<1>1. OnlyFrame(i) /\ inv'[i] = Reply(Idle, status)
  BY EnterFields DEF Fail
<1>2. Idle \in Invocation /\ Idle.op = "none" /\ Idle.sid = NoSession
  BY IdleType DEF Frames, Idle, Begin
<1>3. /\ inv'[i].op = "none" /\ inv'[i].sid = NoSession
      /\ inv'[i].at = "respond" /\ inv'[i].status = status
  BY <1>1, <1>2, ReplyFields
<1> QED
  BY <1>1, <1>3 DEF Placed

LEMMA FailKeeps ==
    ASSUME TypeInv, NEW i \in Invocations, NEW status \in {400, 401, 500}, Fail(i, status)
    PROVE  OnlyFrame(i) /\ Placed(i) /\ FrameBacked(inv[i])'
BY FailFields DEF FrameBacked, SessionFrame, ClaimFrame, AbortFrame, AuthorizationFrame, TokenFrame, UserInfoFrame

LEMMA NoSessionFoundKeeps ==
    ASSUME TypeInv, NEW i \in Invocations, NEW s, NEW missing \in {400, 401, 500},
           NEW expired \in {400, 401, 500}, NoSessionFound(i, s, missing, expired)
    PROVE  OnlyFrame(i) /\ Placed(i) /\ FrameBacked(inv[i])'
BY FailKeeps DEF NoSessionFound

LEMMA ResendKeeps ==
    ASSUME IInv, NEW i \in Invocations, Resend(i), Grows,
           inv[i].op = "session" => inv[i].at \in {"putSession", "putPerson"}
    PROVE  OnlyFrame(i) /\ Placed(i) /\ FrameBacked(inv[i])'
<1>1. inv' = inv /\ FrameBacked(inv[i])
  BY DEF Resend, IInv, FramesBacked
<1> QED
  BY <1>1 DEF OnlyFrame, Placed, Grows, FrameBacked, SessionFrame, ClaimFrame, AbortFrame, AuthorizationFrame,
              TokenFrame, UserInfoFrame, HasClaim, HasCode, HasToken, Reached

LEMMA GotoFields ==
    ASSUME TypeInv, NEW i \in Invocations, NEW point \in Points, Goto(i, point)
    PROVE  /\ OnlyFrame(i) /\ Placed(i)
           /\ inv'[i].at = point
           /\ inv'[i].op = inv[i].op
           /\ inv'[i].sid = inv[i].sid
           /\ inv'[i].state = inv[i].state
           /\ inv'[i].expiry = inv[i].expiry
           /\ inv'[i].names = inv[i].names
           /\ inv'[i].code = inv[i].code
           /\ inv'[i].status = inv[i].status
<1>1. OnlyFrame(i) /\ inv'[i] = [inv[i] EXCEPT !.at = point]
  BY EnterFields DEF Goto
<1>2. inv[i] \in Invocation
  BY DEF TypeInv, Frames
<1> QED
  BY <1>1, <1>2 DEF Placed, Invocation

LEMMA SucceedFields ==
    ASSUME TypeInv, NEW i \in Invocations, Succeed(i)
    PROVE  /\ OnlyFrame(i) /\ Placed(i)
           /\ inv'[i].at = "respond"
           /\ inv'[i].op = inv[i].op
           /\ inv'[i].sid = inv[i].sid
           /\ inv'[i].state = inv[i].state
           /\ inv'[i].expiry = inv[i].expiry
           /\ inv'[i].names = inv[i].names
           /\ inv'[i].code = inv[i].code
           /\ inv'[i].status = 200
<1>1. OnlyFrame(i) /\ inv'[i] = Reply(inv[i], 200)
  BY EnterFields DEF Succeed
<1>2. inv[i] \in Invocation
  BY DEF TypeInv, Frames
<1> QED
  BY <1>1, <1>2, ReplyFields DEF Placed

LEMMA AnswerFields ==
    ASSUME TypeInv, NEW i \in Invocations, NEW s \in opened,
           NEW op \in {"claimedIdentity", "abort", "sessionConfig"}, Answer(i, op, s)
    PROVE  /\ OnlyFrame(i) /\ Placed(i)
           /\ inv'[i].op = op
           /\ inv'[i].at = "respond"
           /\ inv'[i].sid = s
           /\ inv'[i].state = "MISSING"
           /\ inv'[i].names = NoClaim
           /\ inv'[i].code = NoCode
           /\ inv'[i].status = 200
<1> DEFINE frame == Begin(op, "respond", s)
<1>1. s \in Sessions
  BY DEF TypeInv, TypeOK, LambdaTypeOK
<1>2. frame \in Invocation
  BY <1>1, BeginType DEF Operations, Points
<1>3. /\ frame.op = op /\ frame.sid = s /\ frame.state = "MISSING"
      /\ frame.names = NoClaim /\ frame.code = NoCode
  BY DEF Begin
<1>4. OnlyFrame(i) /\ inv'[i] = Reply(frame, 200)
  BY EnterFields DEF Answer
<1>5. /\ inv'[i].op = op /\ inv'[i].at = "respond" /\ inv'[i].sid = s
      /\ inv'[i].state = "MISSING" /\ inv'[i].names = NoClaim /\ inv'[i].code = NoCode
      /\ inv'[i].status = 200
  <2> HIDE DEF frame
  <2> QED BY <1>2, <1>3, <1>4, ReplyFields
<1> QED
  BY <1>4, <1>5 DEF Placed
LEMMA ReadBacked ==
    ASSUME IInv, NEW s \in Sessions, NEW row \in IndexReads(s)
    PROVE  RowBacked(s, row)
BY DEF IInv, RowsBacked

LEMMA SessionReadsAreVersions ==
    ASSUME NEW s \in Sessions
    PROVE  SessionReads(s) \subseteq IndexReads(s)
BY DEF SessionReads, IndexReads

\* A write of one session row that leaves the grants and the persons alone.
LEMMA RowStep ==
    ASSUME IInv, TypeInv', NEW i \in Invocations, OnlyFrame(i), Placed(i),
           FrameBacked(inv[i])', NEW s \in Sessions, NEW row \in SessionRow,
           PutSessionRow(s, row), RowBacked(s, row)',
           UNCHANGED <<personVars, now, recorded, coded, clientVars>>
    PROVE  IInv'
<1> USE DEF personVars, clientVars
<1>1. Grows
  BY DEF Grows, PutSessionRow
<1>2. RowsBacked'
  BY <1>1, RowWritten
<1>3. FramesBacked' /\ Secluded'
  BY <1>1, FramesKept, SecludedKept DEF PersonsLeft
<1>4. GrantsBacked' /\ ClaimsAreOpened' /\ PersonBacked'
  BY DEF IInv, GrantsBacked, CodeNeedsClaim, TokenNeedsCode, CredentialCarriesClaim,
         HasClaim, HasCode, HasToken, ClaimsAreOpened, PersonBacked
<1> QED
  BY <1>2, <1>3, <1>4 DEF IInv

LEMMA StateUpdated ==
    ASSUME IInv, NEW s \in Sessions,
           NEW state \in {"CIC_DATA_RECEIVED", "CIC_CRI_SESSION_ABORTED"},
           state = "CIC_DATA_RECEIVED" => HasClaim(s),
           UpdateSessionAuthState(s, state), UNCHANGED <<recorded, coded>>
    PROVE  /\ \E row \in SessionRow : PutSessionRow(s, row) /\ RowBacked(s, row)'
           /\ Reached(s, state)'
           /\ entered \subseteq entered'
<1>1. sessionTable[s] \in SessionRow /\ RowBacked(s, sessionTable[s])
  BY ReadBacked DEF IInv, TypeInv, TypeOK, StoreTypeOK, IndexReads
<1>2. PICK row \in SessionRow : /\ row = Advanced(sessionTable[s], state)
                                /\ row.state = state /\ row.code = sessionTable[s].code
  BY <1>1, AdvancedFields DEF AuthSessionState
<1>3. PutSessionRow(s, row)
  BY <1>2 DEF UpdateSessionAuthState, Advanced
<1>4. entered' = entered \cup {<<s, state>>}
  BY <1>2, <1>3 DEF PutSessionRow
<1>5. RowBacked(s, row)'
  BY <1>1, <1>2, <1>4 DEF RowBacked, HasClaim, HasCode, Reached, ClaimReceived
<1> QED
  BY <1>3, <1>4, <1>5 DEF Reached

-----------------------------------------------------------------------------
(* One lemma per endpoint.                                                 *)

LEMMA SessionKeeps ==
    ASSUME IInv, NEW i \in Invocations, SessionStep(i)
    PROVE  IInv'
<1> USE DEF storeVars, sessionVars, personVars, clientVars, Reached
<1>0. TypeInv /\ TypeInv' /\ inv[i] \in Invocation /\ Shaped(inv[i]) /\ FrameBacked(inv[i])
  BY SessionType DEF IInv, TypeInv, Frames, FramesBacked
<1>1. CASE RejectSessionRequest(i)
  BY <1>0, <1>1, FailKeeps, QuietStep DEF RejectSessionRequest
<1>2. ASSUME NEW s \in Sessions, NEW shared \in {NoClaim, SharedClaim},
             AcceptSessionRequest(i, s, shared)
      PROVE  IInv'
  <2>1. CASE Fail(i, 500)
    BY <1>0, <1>2, <2>1, FailKeeps, QuietStep DEF AcceptSessionRequest
  <2>2. CASE Enter(i, Opening(s, now + SessionTtl, shared))
    <3>1. OnlyFrame(i) /\ inv'[i] = Opening(s, now + SessionTtl, shared)
      BY <1>0, <2>2, EnterFields
    <3>2. /\ inv'[i].op = "session" /\ inv'[i].at = "putSession"
          /\ inv'[i].sid = s /\ inv'[i].status = 0
      BY <3>1 DEF Opening, Begin
    <3>3. Placed(i)
      BY <1>2, <3>2 DEF Placed, AcceptSessionRequest
    <3>4. FrameBacked(inv[i])'
      BY <3>2 DEF FrameBacked, SessionFrame, ClaimFrame, AbortFrame, AuthorizationFrame, TokenFrame, UserInfoFrame
    <3> QED
      BY <1>0, <1>2, <3>1, <3>3, <3>4, QuietStep DEF AcceptSessionRequest
  <2> QED
    BY <1>2, <2>1, <2>2 DEF AcceptSessionRequest
<1>3. CASE PutSession(i)
  <2>0. PICK s \in Sessions : s = inv[i].sid /\ inv[i].expiry \in Expiry
    BY <1>0, <1>3 DEF PutSession, At, Shaped, Invocation
  <2>1. CASE Fail(i, 500) /\ UNCHANGED sessionVars
    BY <1>0, <1>3, <2>1, FailKeeps, QuietStep DEF PutSession
  <2>2. CASE CreateAuthSession(inv[i].sid, inv[i].expiry)
    <3>1. PICK row \in SessionRow : /\ row = Created(inv[i].expiry)
                                    /\ row.state = "CIC_SESSION_CREATED" /\ row.code = NoCode
      BY <2>0, CreatedFields
    <3>2. PutSessionRow(s, row)
      BY <2>0, <2>2, <3>1 DEF CreateAuthSession, Created
    <3>3. /\ Grows /\ RowBacked(s, row)' /\ Reached(s, "CIC_SESSION_CREATED")'
      BY <1>3, <3>1, <3>2, NamesAssumption
         DEF PutSession, Grows, PutSessionRow, RowBacked, ClaimReceived
    <3>4. OnlyFrame(i) /\ Placed(i) /\ FrameBacked(inv[i])'
      <4>1. CASE Fail(i, 500)
        BY <1>0, <4>1, FailKeeps
      <4>2. CASE Goto(i, IF inv[i].names = NoClaim THEN "audit" ELSE "putPerson")
        <5>1. /\ OnlyFrame(i) /\ Placed(i) /\ inv'[i].op = "session" /\ inv'[i].sid = s
              /\ inv'[i].status = 0 /\ inv'[i].names = inv[i].names
              /\ inv'[i].names = NoClaim \/ inv'[i].at = "putPerson"
          BY <1>0, <1>3, <2>0, <4>2, GotoFields DEF PutSession, At, Points, FrameBacked
        <5> QED
          BY <3>3, <5>1, NamesAssumption DEF FrameBacked, SessionFrame, ClaimFrame,
             AbortFrame, AuthorizationFrame, TokenFrame, UserInfoFrame
      <4>3. CASE Resend(i)
        BY <1>3, <3>3, <4>3, ResendKeeps DEF PutSession, At
      <4> QED
        BY <1>3, <4>1, <4>2, <4>3, <2>2 DEF PutSession
    <3> QED
      BY <1>0, <1>3, <3>2, <3>3, <3>4, RowStep DEF PutSession
  <2> QED
    BY <1>3, <2>1, <2>2 DEF PutSession
<1>4. CASE PutPerson(i)
  <2> DEFINE stored == [names |-> SharedClaim, expiry |-> inv[i].expiry]
  <2>0. PICK s \in Sessions : s = inv[i].sid /\ s \notin opened /\ inv[i].expiry \in Expiry
    BY <1>0, <1>4 DEF PutPerson, At, Shaped, Invocation, IInv, Secluded
  <2>1. CASE Fail(i, 500) /\ UNCHANGED personVars
    BY <1>0, <1>4, <2>1, FailKeeps, QuietStep DEF PutPerson
  <2>2. CASE SavePersonIdentity(inv[i].sid, inv[i].expiry)
    <3>1. Grows
      BY <1>4 DEF PutPerson, Grows
    <3>2. /\ personTable'[s] = stored
          /\ personStale'[s] \subseteq personStale[s] \cup {personTable[s]}
          /\ \A t \in Sessions \ {s} :
                personTable'[t] = personTable[t] /\ personStale'[t] = personStale[t]
      <4>1. PersonsTyped
        BY <1>0 DEF PersonsTyped, TypeInv, TypeOK, StoreTypeOK
      <4> QED
        BY <2>0, <2>2, <4>1, SavePersonIdentityType
    <3>3. OnlyFrame(i) /\ Placed(i) /\ FrameBacked(inv[i])'
      <4>1. CASE Fail(i, 500)
        BY <1>0, <4>1, FailKeeps
      <4>2. CASE Goto(i, "audit")
        <5>1. /\ OnlyFrame(i) /\ Placed(i) /\ inv'[i].op = "session" /\ inv'[i].sid = s
              /\ inv'[i].status = 0 /\ inv'[i].expiry = inv[i].expiry
          BY <1>0, <1>4, <2>0, <4>2, GotoFields DEF PutPerson, At, Points, FrameBacked
        <5>2. Reached(s, "CIC_SESSION_CREATED")'
          BY <1>0, <1>4, <2>0 DEF PutPerson, At, FrameBacked, SessionFrame
        <5>3. SharedStored(inv[i])'
          BY <3>2, <5>1 DEF SharedStored
        <5> QED
          BY <5>1, <5>2, <5>3 DEF FrameBacked, SessionFrame, ClaimFrame,
             AbortFrame, AuthorizationFrame, TokenFrame, UserInfoFrame
      <4>3. CASE Resend(i)
        BY <1>4, <3>1, <4>3, ResendKeeps DEF PutPerson, At
      <4> QED
        BY <1>4, <4>1, <4>2, <4>3, <2>2 DEF PutPerson
    <3>4. PersonsLeft(i)
      BY <1>4, <2>0, <3>2 DEF PutPerson, PersonsLeft
    <3>5. RowsBacked' /\ FramesBacked' /\ Secluded'
      BY <1>4, <3>1, <3>3, <3>4, RowsKept, FramesKept, SecludedKept DEF PutPerson
    <3>6. PersonBacked'
      <4>1. recorded' = recorded /\ PersonBacked /\ ~HasClaim(s)
        BY <1>4, <2>0 DEF PutPerson, IInv, ClaimsAreOpened
      <4>2. SUFFICES ASSUME NEW t \in Sessions
                     PROVE  /\ \A person \in {personTable'[t]} \cup personStale'[t] :
                                    person.names \in Claims => <<t, person.names>> \in recorded
                            /\ HasClaim(t) => personTable'[t].names # SharedClaim
        BY <4>1 DEF PersonBacked, HasClaim
      <4>3. CASE t = s
        <5>1. personTable'[t].names = SharedClaim
          BY <3>2, <4>3
        <5> QED
          BY <3>2, <4>1, <4>3, <5>1, NamesAssumption DEF PersonBacked
      <4>4. CASE t # s
        BY <3>2, <4>1, <4>4 DEF PersonBacked
      <4> QED
        BY <4>3, <4>4
    <3>7. GrantsBacked' /\ ClaimsAreOpened'
      BY <1>4 DEF PutPerson, IInv, GrantsBacked, CodeNeedsClaim, TokenNeedsCode,
           CredentialCarriesClaim, HasClaim, HasCode, HasToken, ClaimsAreOpened
    <3> QED
      BY <1>0, <3>5, <3>6, <3>7 DEF IInv
  <2> QED
    BY <1>4, <2>1, <2>2 DEF PutPerson
<1>5. CASE AuditStart(i)
  <2>1. /\ OnlyFrame(i) /\ Placed(i) /\ inv'[i].op = "session" /\ inv'[i].sid = inv[i].sid
        /\ inv'[i].at = "respond" /\ inv'[i].names = inv[i].names
        /\ inv'[i].expiry = inv[i].expiry
    BY <1>0, <1>5, SucceedFields DEF AuditStart, Sending, At
  <2>2. FrameBacked(inv[i])'
    BY <1>0, <1>5, <2>1 DEF AuditStart, Sending, At, FrameBacked, SessionFrame, SharedStored,
       ClaimFrame, AbortFrame, AuthorizationFrame, TokenFrame, UserInfoFrame
  <2> QED
    BY <1>0, <1>5, <2>1, <2>2, QuietStep DEF AuditStart
<1> QED
  BY <1>1, <1>2, <1>3, <1>4, <1>5 DEF SessionStep

LEMMA ClaimedIdentityKeeps ==
    ASSUME IInv, NEW i \in Invocations, ClaimedIdentityStep(i)
    PROVE  IInv'
<1> USE DEF storeVars, sessionVars, personVars, clientVars, Reached
<1>0. TypeInv /\ TypeInv' /\ inv[i] \in Invocation /\ Shaped(inv[i]) /\ FrameBacked(inv[i])
  BY ClaimedIdentityType DEF IInv, TypeInv, Frames, FramesBacked
<1>1. ASSUME NEW s \in opened, NEW claim \in Claims, ReceiveClaim(i, s, claim)
      PROVE  IInv'
  <2>0. s \in Sessions
    BY <1>0 DEF TypeInv, TypeOK, LambdaTypeOK
  <2>1. CASE \E status \in {400, 401, 500} : Fail(i, status)
    BY <1>0, <1>1, <2>1, FailKeeps, QuietStep DEF ReceiveClaim
  <2>2. CASE NoSessionFound(i, s, 401, 401)
    BY <1>0, <1>1, <2>2, NoSessionFoundKeeps, QuietStep DEF ReceiveClaim
  <2>3. ASSUME NEW row \in LiveSession(s), Enter(i, Claiming(s, claim, row.expiry))
        PROVE  IInv'
    <3>1. OnlyFrame(i) /\ inv'[i] = Claiming(s, claim, row.expiry)
      BY <1>0, <2>3, EnterFields
    <3>2. /\ inv'[i].op = "claimedIdentity" /\ inv'[i].at = "updatePerson"
          /\ inv'[i].sid = s /\ inv'[i].status = 0
      BY <3>1 DEF Claiming, Begin
    <3>3. Placed(i) /\ FrameBacked(inv[i])'
      BY <3>2 DEF Placed, FrameBacked, SessionFrame, ClaimFrame, AbortFrame, AuthorizationFrame, TokenFrame,
                  UserInfoFrame
    <3> QED
      BY <1>0, <1>1, <3>1, <3>3, QuietStep DEF ReceiveClaim
  <2>4. ASSUME NEW row \in LiveSession(s), row.state \in ClaimReceived,
               Answer(i, "claimedIdentity", s)
        PROVE  IInv'
    <3>1. HasClaim(s) /\ Reached(s, "CIC_DATA_RECEIVED")
      BY <2>0, <2>4, ReadBacked, SessionReadsAreVersions DEF LiveSession, RowBacked
    <3>2. /\ OnlyFrame(i) /\ Placed(i)
          /\ inv'[i].op = "claimedIdentity" /\ inv'[i].sid = s /\ inv'[i].at = "respond"
          /\ inv'[i].names = NoClaim
      BY <1>0, <2>4, AnswerFields
    <3>3. FrameBacked(inv[i])'
      BY <1>1, <3>1, <3>2 DEF ReceiveClaim, HasClaim, FrameBacked, SessionFrame, ClaimFrame,
           AbortFrame, AuthorizationFrame, TokenFrame, UserInfoFrame
    <3> QED
      BY <1>0, <1>1, <3>2, <3>3, QuietStep DEF ReceiveClaim
  <2> QED
    BY <1>1, <2>1, <2>2, <2>3, <2>4 DEF ReceiveClaim
<1>2. CASE UpdatePerson(i)
  <2>0. PICK s \in Sessions, claim \in Claims :
            /\ s = inv[i].sid /\ claim = inv[i].names
            /\ s \in opened /\ inv[i].expiry \in Expiry
    BY <1>0, <1>2 DEF UpdatePerson, At, Shaped, Invocation, IInv, Secluded
  <2>1. CASE Fail(i, 500) /\ UNCHANGED <<personVars, recorded>>
    BY <1>0, <1>2, <2>1, FailKeeps, QuietStep DEF UpdatePerson
  <2>2. CASE SaveCICPersonInfo(inv[i].sid, inv[i].names, inv[i].expiry)
    <3>0. /\ personTable'[s].names = claim
          /\ personStale'[s] \subseteq personStale[s] \cup {personTable[s]}
          /\ \A t \in Sessions \ {s} :
                personTable'[t] = personTable[t] /\ personStale'[t] = personStale[t]
          /\ recorded' = recorded \cup {<<s, claim>>}
      <4>1. PersonsTyped
        BY <1>0 DEF PersonsTyped, TypeInv, TypeOK, StoreTypeOK
      <4>2. inv[i].sid \in Sessions /\ inv[i].names \in Claims /\ inv[i].expiry \in Expiry
        BY <2>0
      <4>3. /\ personTable'[inv[i].sid] = [names |-> inv[i].names, expiry |-> inv[i].expiry]
            /\ personStale'[inv[i].sid] \subseteq
                    personStale[inv[i].sid] \cup {personTable[inv[i].sid]}
            /\ \A t \in Sessions \ {inv[i].sid} :
                    personTable'[t] = personTable[t] /\ personStale'[t] = personStale[t]
            /\ recorded' = recorded \cup {<<inv[i].sid, inv[i].names>>}
        BY <2>2, <4>1, <4>2, SaveCICPersonInfoType
      <4> QED
        BY <2>0, <4>3
    <3>1. Grows /\ PersonsLeft(i)
      BY <1>2, <2>0, <3>0 DEF UpdatePerson, Grows, PersonsLeft
    <3>2. OnlyFrame(i) /\ Placed(i) /\ FrameBacked(inv[i])'
      <4>1. CASE Fail(i, 500)
        BY <1>0, <4>1, FailKeeps
      <4>2. CASE Goto(i, "updateState")
        <5>1. /\ OnlyFrame(i) /\ Placed(i) /\ inv'[i].sid = s /\ inv'[i].names = claim
              /\ inv'[i].op = "claimedIdentity" /\ inv'[i].status = 0
              /\ inv'[i].at = "updateState"
          BY <1>0, <1>2, <2>0, <4>2, GotoFields DEF UpdatePerson, At, Points, FrameBacked
        <5>2. HasClaim(s)' /\ <<s, claim>> \in recorded'
          BY <2>0, <3>0 DEF HasClaim
        <5> QED
          BY <5>1, <5>2 DEF FrameBacked, SessionFrame, ClaimFrame, AbortFrame,
             AuthorizationFrame, TokenFrame, UserInfoFrame, HasClaim
      <4>3. CASE Resend(i)
        BY <1>2, <3>1, <4>3, ResendKeeps DEF UpdatePerson, At
      <4> QED
        BY <1>2, <2>2, <4>1, <4>2, <4>3 DEF UpdatePerson
    <3>3. RowsBacked' /\ FramesBacked' /\ Secluded'
      BY <1>2, <3>1, <3>2, RowsKept, FramesKept, SecludedKept DEF UpdatePerson
    <3>4. GrantsBacked'
      BY <1>2, <3>0 DEF UpdatePerson, IInv, GrantsBacked, CodeNeedsClaim, TokenNeedsCode,
           CredentialCarriesClaim, HasClaim, HasCode, HasToken
    <3>5. ClaimsAreOpened'
      BY <1>2, <2>0, <3>0 DEF UpdatePerson, IInv, ClaimsAreOpened, HasClaim
    <3>6. PersonBacked'
      <4>1. SUFFICES ASSUME NEW t \in Sessions
                     PROVE  /\ \A person \in {personTable'[t]} \cup personStale'[t] :
                                    person.names \in Claims => <<t, person.names>> \in recorded'
                            /\ HasClaim(t)' => personTable'[t].names # SharedClaim
        BY DEF PersonBacked
      <4>2. PersonBacked
        BY DEF IInv
      <4>3. CASE t = s
        BY <2>0, <3>0, <4>2, <4>3, NamesAssumption DEF PersonBacked
      <4>4. CASE t # s
        <5>1. HasClaim(t)' => HasClaim(t)
          BY <3>0, <4>4 DEF HasClaim
        <5> QED
          BY <3>0, <4>2, <4>4, <5>1 DEF PersonBacked
      <4> QED
        BY <4>3, <4>4
    <3> QED
      BY <1>0, <3>3, <3>4, <3>5, <3>6 DEF IInv
  <2> QED
    BY <1>2, <2>1, <2>2 DEF UpdatePerson
<1>3. CASE UpdateState(i)
  <2>0. PICK s \in Sessions : s = inv[i].sid /\ HasClaim(s)
    BY <1>0, <1>3 DEF UpdateState, At, Shaped, FrameBacked, ClaimFrame
  <2>1. CASE Fail(i, 500) /\ UNCHANGED sessionVars
    BY <1>0, <1>3, <2>1, FailKeeps, QuietStep DEF UpdateState
  <2>2. CASE UpdateSessionAuthState(inv[i].sid, "CIC_DATA_RECEIVED")
    <3>1. PICK row \in SessionRow : PutSessionRow(s, row) /\ RowBacked(s, row)'
      BY <1>3, <2>0, <2>2, StateUpdated DEF UpdateState
    <3>2. Grows /\ Reached(s, "CIC_DATA_RECEIVED")'
      BY <1>3, <2>0, <2>2, StateUpdated DEF UpdateState, Grows
    <3>3. OnlyFrame(i) /\ Placed(i) /\ FrameBacked(inv[i])'
      <4>1. CASE Fail(i, 500)
        BY <1>0, <4>1, FailKeeps
      <4>2. CASE Succeed(i)
        <5>1. /\ OnlyFrame(i) /\ Placed(i) /\ inv'[i].sid = s /\ inv'[i].names = inv[i].names
              /\ inv'[i].op = "claimedIdentity" /\ inv'[i].at = "respond"
          BY <1>0, <1>3, <2>0, <4>2, SucceedFields DEF UpdateState, At
        <5>2. HasClaim(s)' /\ (inv[i].names # NoClaim => <<s, inv[i].names>> \in recorded')
          BY <1>0, <1>3, <2>0 DEF UpdateState, At, FrameBacked, ClaimFrame, HasClaim
        <5> QED
          BY <3>2, <5>1, <5>2 DEF FrameBacked, SessionFrame, ClaimFrame, AbortFrame,
             AuthorizationFrame, TokenFrame, UserInfoFrame
      <4>3. CASE Resend(i)
        BY <1>3, <3>2, <4>3, ResendKeeps DEF UpdateState, At
      <4> QED
        BY <1>3, <2>2, <4>1, <4>2, <4>3 DEF UpdateState
    <3> QED
      BY <1>0, <1>3, <3>1, <3>3, RowStep DEF UpdateState
  <2> QED
    BY <1>3, <2>1, <2>2 DEF UpdateState
<1> QED
  BY <1>1, <1>2, <1>3 DEF ClaimedIdentityStep

LEMMA AuthorizationKeeps ==
    ASSUME IInv, NEW i \in Invocations, AuthorizationStep(i)
    PROVE  IInv'
<1> USE DEF storeVars, sessionVars, personVars, clientVars, Reached
<1>0. TypeInv /\ TypeInv' /\ inv[i] \in Invocation /\ Shaped(inv[i]) /\ FrameBacked(inv[i])
  BY AuthorizationType DEF IInv, TypeInv, Frames, FramesBacked
<1>1. ASSUME NEW s \in opened, RequestCode(i, s)
      PROVE  IInv'
  <2>0. s \in Sessions
    BY <1>0 DEF TypeInv, TypeOK, LambdaTypeOK
  <2>1. CASE \E status \in {400, 401, 500} : Fail(i, status)
    BY <1>0, <1>1, <2>1, FailKeeps, QuietStep DEF RequestCode
  <2>2. CASE NoSessionFound(i, s, 401, 401)
    BY <1>0, <1>1, <2>2, NoSessionFoundKeeps, QuietStep DEF RequestCode
  <2>3. ASSUME NEW row \in LiveSession(s), row.state = "CIC_DATA_RECEIVED", NEW k \in Codes,
               Enter(i, Holding("setCode", s, k))
        PROVE  IInv'
    <3>1. OnlyFrame(i) /\ inv'[i] = Holding("setCode", s, k)
      BY <1>0, <2>3, EnterFields
    <3>2. /\ inv'[i].op = "authorization" /\ inv'[i].at = "setCode"
          /\ inv'[i].sid = s /\ inv'[i].status = 0
      BY <3>1 DEF Holding, Begin
    <3>3. HasClaim(s) /\ Reached(s, "CIC_DATA_RECEIVED")
      BY <2>0, <2>3, ReadBacked, SessionReadsAreVersions DEF LiveSession, RowBacked, ClaimReceived
    <3>4. Placed(i) /\ FrameBacked(inv[i])'
      BY <1>1, <3>2, <3>3 DEF RequestCode, HasClaim, Placed, FrameBacked, SessionFrame, ClaimFrame,
           AbortFrame, AuthorizationFrame, TokenFrame, UserInfoFrame
    <3> QED
      BY <1>0, <1>1, <3>1, <3>4, QuietStep DEF RequestCode
  <2>4. ASSUME NEW row \in LiveSession(s),
               row.state \in {"CIC_AUTH_CODE_ISSUED", "CIC_ACCESS_TOKEN_ISSUED"},
               Enter(i, Reply(Holding("respond", s, row.code), 200))
        PROVE  IInv'
    <3> DEFINE frame == Holding("respond", s, row.code)
    <3>1. RowBacked(s, row) /\ row.code \in Codes \cup {NoCode}
      BY <1>0, <2>0, ReadBacked, SessionReadsAreVersions, SessionReadsType
         DEF LiveSession, SessionRow, TypeInv, TypeOK
    <3>2. /\ frame \in Invocation
          /\ frame.op = "authorization" /\ frame.sid = s /\ frame.code = row.code
      BY <2>0, <3>1, HoldingType DEF Points, Frames, Holding, Begin
    <3>3. OnlyFrame(i) /\ inv'[i] = Reply(frame, 200)
      BY <1>0, <2>4, EnterFields
    <3>4. /\ inv'[i].op = "authorization" /\ inv'[i].at = "respond"
          /\ inv'[i].sid = s /\ inv'[i].code = row.code
      <4> HIDE DEF frame
      <4> QED BY <3>2, <3>3, ReplyFields
    <3>5. /\ HasClaim(s) /\ Reached(s, "CIC_DATA_RECEIVED") /\ HasCode(s)
          /\ row.code # NoCode => <<s, row.code>> \in coded
      BY <2>4, <3>1 DEF RowBacked, ClaimReceived
    <3>6. Placed(i) /\ FrameBacked(inv[i])'
      BY <1>1, <3>4, <3>5 DEF RequestCode, HasClaim, HasCode, Placed, FrameBacked, SessionFrame, ClaimFrame,
           AbortFrame, AuthorizationFrame, TokenFrame, UserInfoFrame
    <3> QED
      BY <1>0, <1>1, <3>3, <3>6, QuietStep DEF RequestCode
  <2> QED
    BY <1>1, <2>1, <2>2, <2>3, <2>4 DEF RequestCode
<1>2. CASE SetCode(i)
  <2>0. PICK s \in Sessions, k \in Codes :
            /\ s = inv[i].sid /\ k = inv[i].code
            /\ HasClaim(s) /\ Reached(s, "CIC_DATA_RECEIVED")
    BY <1>0, <1>2 DEF SetCode, At, Shaped, FrameBacked, AuthorizationFrame
  <2>1. CASE Fail(i, 500) /\ UNCHANGED <<sessionVars, coded>>
    BY <1>0, <1>2, <2>1, FailKeeps, QuietStep DEF SetCode
  <2>2. CASE SetAuthorizationCode(inv[i].sid, inv[i].code)
    <3>0. sessionTable[s] \in SessionRow
      BY <1>0 DEF TypeInv, TypeOK, StoreTypeOK
    <3>1. PICK row \in SessionRow : /\ row = Coded(sessionTable[s], k)
                                    /\ row.state = "CIC_AUTH_CODE_ISSUED" /\ row.code = k
      BY <3>0, CodedFields
    <3>2. PutSessionRow(s, row) /\ coded' = coded \cup {<<s, k>>}
      BY <2>0, <2>2, <3>1 DEF SetAuthorizationCode, Coded
    <3>3. Grows /\ PersonsLeft(i)
      BY <1>2, <3>2 DEF SetCode, Grows, PutSessionRow, PersonsLeft
    <3>4. HasClaim(s)' /\ HasCode(s)' /\ Reached(s, "CIC_DATA_RECEIVED")' /\ <<s, k>> \in coded'
      BY <1>2, <2>0, <3>2, <3>3 DEF SetCode, HasClaim, HasCode, Grows
    <3>5. RowBacked(s, row)'
      BY <3>1, <3>2, <3>4, NamesAssumption DEF PutSessionRow, RowBacked
    <3>6. OnlyFrame(i) /\ Placed(i) /\ FrameBacked(inv[i])'
      <4>1. CASE Fail(i, 500)
        BY <1>0, <4>1, FailKeeps
      <4>2. CASE Goto(i, "audit")
        <5>1. /\ OnlyFrame(i) /\ Placed(i) /\ inv'[i].sid = s /\ inv'[i].code = k
              /\ inv'[i].op = "authorization" /\ inv'[i].status = 0
          BY <1>0, <1>2, <2>0, <4>2, GotoFields DEF SetCode, At, Points, FrameBacked
        <5> QED
          BY <3>4, <5>1 DEF FrameBacked, SessionFrame, ClaimFrame, AbortFrame,
             AuthorizationFrame, TokenFrame, UserInfoFrame
      <4>3. CASE Resend(i)
        BY <1>2, <3>3, <4>3, ResendKeeps DEF SetCode, At
      <4> QED
        BY <1>2, <2>2, <4>1, <4>2, <4>3 DEF SetCode
    <3>7. RowsBacked' /\ FramesBacked' /\ Secluded'
      BY <1>2, <3>2, <3>3, <3>5, <3>6, RowWritten, FramesKept, SecludedKept DEF SetCode
    <3>8. GrantsBacked'
      <4>1. CodeNeedsClaim'
        BY <1>2, <2>0, <3>2
           DEF SetCode, IInv, GrantsBacked, CodeNeedsClaim, HasClaim, HasCode
      <4>2. TokenNeedsCode' /\ (~StaleReads => CredentialCarriesClaim')
        BY <1>2, <3>3 DEF SetCode, Grows, IInv, GrantsBacked, TokenNeedsCode, HasToken,
             HasCode, CredentialCarriesClaim
      <4> QED
        BY <4>1, <4>2 DEF GrantsBacked
    <3>9. ClaimsAreOpened' /\ PersonBacked'
      BY <1>2 DEF SetCode, IInv, ClaimsAreOpened, PersonBacked, HasClaim
    <3> QED
      BY <1>0, <3>7, <3>8, <3>9 DEF IInv
  <2> QED
    BY <1>2, <2>1, <2>2 DEF SetCode
<1>3. CASE AuditCode(i)
  <2>1. OnlyFrame(i) /\ Placed(i) /\ FrameBacked(inv[i])'
    BY <1>0, <1>3, SucceedFields DEF AuditCode, Sending, At, FrameBacked, SessionFrame, ClaimFrame,
       AbortFrame, AuthorizationFrame, TokenFrame, UserInfoFrame, HasClaim, HasCode
  <2> QED
    BY <1>0, <1>3, <2>1, QuietStep DEF AuditCode
<1> QED
  BY <1>1, <1>2, <1>3 DEF AuthorizationStep

LEMMA TokenKeeps ==
    ASSUME IInv, NEW i \in Invocations, TokenStep(i)
    PROVE  IInv'
<1> USE DEF storeVars, sessionVars, personVars, clientVars, Reached
<1>0. TypeInv /\ TypeInv' /\ inv[i] \in Invocation /\ Shaped(inv[i]) /\ FrameBacked(inv[i])
  BY TokenType DEF IInv, TypeInv, Frames, FramesBacked
<1>1. ASSUME NEW k, RequestToken(i, k)
      PROVE  IInv'
  <2>1. CASE \E status \in {400, 401, 500} : Fail(i, status)
    BY <1>0, <1>1, <2>1, FailKeeps, QuietStep DEF RequestToken
  <2>2. ASSUME NEW s \in Sessions, NEW row \in IndexReads(s),
               row.state = "CIC_AUTH_CODE_ISSUED",
               Enter(i, Begin("token", "verify", s))
        PROVE  IInv'
    <3>1. HasCode(s) /\ Reached(s, "CIC_DATA_RECEIVED") /\ s \in opened
      BY <2>2, ReadBacked DEF RowBacked, ClaimReceived, IInv, ClaimsAreOpened
    <3>2. OnlyFrame(i) /\ inv'[i] = Begin("token", "verify", s)
      BY <1>0, <2>2, EnterFields
    <3>3. /\ inv'[i].op = "token" /\ inv'[i].at = "verify"
          /\ inv'[i].sid = s /\ inv'[i].status = 0
      BY <3>2 DEF Begin
    <3>4. Placed(i) /\ FrameBacked(inv[i])'
      BY <1>1, <3>1, <3>3 DEF RequestToken, HasCode, Placed, FrameBacked, SessionFrame, ClaimFrame,
           AbortFrame, AuthorizationFrame, TokenFrame, UserInfoFrame
    <3> QED
      BY <1>0, <1>1, <3>2, <3>4, QuietStep DEF RequestToken
  <2> QED
    BY <1>1, <2>1, <2>2 DEF RequestToken
<1>2. CASE VerifyAndSign(i)
  <2>1. CASE \E status \in {401, 500} : Fail(i, status)
    BY <1>0, <1>2, <2>1, FailKeeps, QuietStep DEF VerifyAndSign
  <2>2. CASE Enter(i, Signed(inv[i], now + TokenTtl))
    <3>1. OnlyFrame(i) /\ inv'[i] = Signed(inv[i], now + TokenTtl)
      BY <1>0, <2>2, EnterFields
    <3>2. /\ inv'[i].op = "token" /\ inv'[i].at = "updateToken"
          /\ inv'[i].sid = inv[i].sid /\ inv'[i].status = 0
      BY <1>0, <1>2, <3>1 DEF VerifyAndSign, At, Signed, Invocation, FrameBacked
    <3>3. Placed(i) /\ FrameBacked(inv[i])'
      BY <1>0, <1>2, <3>2 DEF VerifyAndSign, At, HasCode, Placed, FrameBacked, SessionFrame, ClaimFrame,
           AbortFrame, AuthorizationFrame, TokenFrame, UserInfoFrame
    <3> QED
      BY <1>0, <1>2, <3>1, <3>3, QuietStep DEF VerifyAndSign
  <2> QED
    BY <1>2, <2>1, <2>2 DEF VerifyAndSign
<1>3. CASE UpdateToken(i)
  <2>0. PICK s \in Sessions :
            /\ s = inv[i].sid /\ HasCode(s) /\ HasClaim(s)
            /\ Reached(s, "CIC_DATA_RECEIVED")
    BY <1>0, <1>3 DEF UpdateToken, At, Shaped, FrameBacked, TokenFrame, IInv, GrantsBacked,
       CodeNeedsClaim
  <2>1. CASE Fail(i, 500) /\ UNCHANGED sessionVars
    BY <1>0, <1>3, <2>1, FailKeeps, QuietStep DEF UpdateToken
  <2>2. CASE UpdateSessionWithAccessTokenDetails(inv[i].sid)
    <3>0. sessionTable[s] \in SessionRow
      BY <1>0 DEF TypeInv, TypeOK, StoreTypeOK
    <3>1. PICK row \in SessionRow : /\ row = Exchanged(sessionTable[s])
                                    /\ row.state = "CIC_ACCESS_TOKEN_ISSUED"
                                    /\ row.code = NoCode
      BY <3>0, ExchangedFields
    <3>2. PutSessionRow(s, row)
      BY <2>0, <2>2, <3>1 DEF UpdateSessionWithAccessTokenDetails, Exchanged
    <3>3. Grows /\ Reached(s, "CIC_ACCESS_TOKEN_ISSUED")'
      BY <1>3, <3>1, <3>2 DEF UpdateToken, Grows, PutSessionRow
    <3>4. HasClaim(s)' /\ HasCode(s)' /\ Reached(s, "CIC_DATA_RECEIVED")'
      BY <1>3, <2>0, <3>3 DEF UpdateToken, HasClaim, HasCode, Grows
    <3>5. RowBacked(s, row)'
      BY <3>1, <3>3, <3>4 DEF RowBacked
    <3>6. OnlyFrame(i) /\ Placed(i) /\ FrameBacked(inv[i])'
      <4>1. CASE Fail(i, 500)
        BY <1>0, <4>1, FailKeeps
      <4>2. CASE Succeed(i)
        <5>1. /\ OnlyFrame(i) /\ Placed(i) /\ inv'[i].sid = s
              /\ inv'[i].op = "token" /\ inv'[i].at = "respond"
          BY <1>0, <1>3, <2>0, <4>2, SucceedFields DEF UpdateToken, At
        <5> QED
          BY <3>3, <3>4, <5>1 DEF FrameBacked, SessionFrame, ClaimFrame, AbortFrame,
             AuthorizationFrame, TokenFrame, UserInfoFrame
      <4>3. CASE Resend(i)
        BY <1>3, <3>3, <4>3, ResendKeeps DEF UpdateToken, At
      <4> QED
        BY <1>3, <2>2, <4>1, <4>2, <4>3 DEF UpdateToken
    <3> QED
      BY <1>0, <1>3, <3>2, <3>5, <3>6, RowStep DEF UpdateToken
  <2> QED
    BY <1>3, <2>1, <2>2 DEF UpdateToken
<1> QED
  BY <1>1, <1>2, <1>3 DEF TokenStep

LEMMA UserInfoKeeps ==
    ASSUME IInv, NEW i \in Invocations, UserInfoStep(i)
    PROVE  IInv'
<1> USE DEF storeVars, sessionVars, personVars, clientVars, Reached
<1>0. TypeInv /\ TypeInv' /\ inv[i] \in Invocation /\ Shaped(inv[i]) /\ FrameBacked(inv[i])
  BY UserInfoType DEF IInv, TypeInv, Frames, FramesBacked
<1>1. ASSUME NEW token \in tokens, PresentToken(i, token)
      PROVE  IInv'
  <2> DEFINE s == token.sub
  <2>0. s \in Sessions /\ HasToken(s) /\ s \in opened
    BY <1>0 DEF TypeInv, TypeOK, LambdaTypeOK, Token, HasToken, IInv, GrantsBacked,
       TokenNeedsCode, CodeNeedsClaim, ClaimsAreOpened
  <2>1. CASE \E status \in {401, 500} : Fail(i, status)
    BY <1>0, <1>1, <2>1, FailKeeps, QuietStep DEF PresentToken
  <2>2. CASE NoSessionFound(i, s, 401, 500)
    BY <1>0, <1>1, <2>2, NoSessionFoundKeeps, QuietStep DEF PresentToken
  <2>3. ASSUME NEW row \in LiveSession(s), Enter(i, Presented(s, row.state))
        PROVE  IInv'
    <3>1. OnlyFrame(i) /\ inv'[i] = Presented(s, row.state)
      BY <1>0, <2>3, EnterFields
    <3>2. /\ inv'[i].op = "userinfo" /\ inv'[i].at = "getPerson" /\ inv'[i].sid = s
          /\ inv'[i].state = row.state /\ inv'[i].status = 0
      BY <3>1 DEF Presented, Begin
    <3>3. row.state = "CIC_ACCESS_TOKEN_ISSUED" => HasClaim(s)
      BY <2>0, ReadBacked, SessionReadsAreVersions DEF LiveSession, RowBacked, ClaimReceived
    <3>4. Placed(i) /\ FrameBacked(inv[i])'
      BY <1>1, <2>0, <3>2, <3>3 DEF PresentToken, HasToken, HasClaim, Placed, FrameBacked,
           SessionFrame, ClaimFrame, AbortFrame, AuthorizationFrame, TokenFrame, UserInfoFrame
    <3> QED
      BY <1>0, <1>1, <3>1, <3>4, QuietStep DEF PresentToken
  <2> QED
    BY <1>1, <2>1, <2>2, <2>3 DEF PresentToken
<1>2. CASE GetPerson(i)
  <2>0. /\ inv[i].sid \in Sessions /\ HasToken(inv[i].sid)
        /\ inv[i].state = "CIC_ACCESS_TOKEN_ISSUED" => HasClaim(inv[i].sid)
        /\ inv[i].op = "userinfo" /\ inv[i].status = 0
    BY <1>0, <1>2 DEF GetPerson, At, Shaped, FrameBacked, UserInfoFrame
  <2>1. CASE \E status \in {400, 401, 500} : Fail(i, status)
    BY <1>0, <1>2, <2>1, FailKeeps, QuietStep DEF GetPerson
  <2>2. ASSUME NEW person \in PersonReads(inv[i].sid), person.names # NoClaim,
               inv[i].state = "CIC_ACCESS_TOKEN_ISSUED",
               Enter(i, Identified(inv[i], person.names))
        PROVE  IInv'
    <3>1. OnlyFrame(i) /\ inv'[i] = Identified(inv[i], person.names)
      BY <1>0, <2>2, EnterFields
    <3>2. /\ inv'[i].op = "userinfo" /\ inv'[i].at = "sign" /\ inv'[i].sid = inv[i].sid
          /\ inv'[i].state = inv[i].state /\ inv'[i].names = person.names
          /\ inv'[i].status = 0
      BY <1>0, <2>0, <3>1 DEF Identified, Invocation
    <3>3. ~StaleReads \/ person.names # SharedClaim => <<inv[i].sid, person.names>> \in recorded
      <4> SUFFICES ASSUME ~StaleReads \/ person.names # SharedClaim
                   PROVE  <<inv[i].sid, person.names>> \in recorded
        OBVIOUS
      <4>1. \/ person = personTable[inv[i].sid]
            \/ StaleReads /\ person \in personStale[inv[i].sid]
        BY DEF PersonReads
      <4>2. person.names \in Names
        BY <1>0, <2>0, <2>2, <4>1 DEF TypeInv, TypeOK, StoreTypeOK, PersonRow
      <4> QED
        BY <2>0, <2>2, <4>1, <4>2 DEF Names, IInv, PersonBacked
    <3>4. Placed(i) /\ FrameBacked(inv[i])'
      BY <1>2, <2>0, <2>2, <3>2, <3>3 DEF GetPerson, HasToken, HasClaim, Placed,
           FrameBacked, SessionFrame, ClaimFrame, AbortFrame, AuthorizationFrame, TokenFrame, UserInfoFrame
    <3> QED
      BY <1>0, <1>2, <3>1, <3>4, QuietStep DEF GetPerson
  <2> QED
    BY <1>2, <2>1, <2>2 DEF GetPerson
<1>3. ASSUME NEW point \in {"audit", "auditEnd"}, Goto(i, point), inv[i].op = "userinfo",
             inv[i].at \in {"sign", "audit"}, UNCHANGED <<storeVars, clientVars>>
      PROVE  IInv'
  <2>1. OnlyFrame(i) /\ Placed(i) /\ FrameBacked(inv[i])'
    BY <1>0, <1>3, GotoFields DEF Points, HasToken, HasClaim, FrameBacked, SessionFrame, ClaimFrame,
       AbortFrame, AuthorizationFrame, TokenFrame, UserInfoFrame
  <2> QED
    BY <1>0, <1>3, <2>1, QuietStep
<1>4. CASE SignCredential(i)
  BY <1>0, <1>3, <1>4, FailKeeps, QuietStep DEF SignCredential, At
<1>5. CASE AuditIssued(i)
  BY <1>3, <1>5 DEF AuditIssued, Sending, At
<1>6. CASE AuditEnd(i)
  <2>1. OnlyFrame(i) /\ Placed(i) /\ FrameBacked(inv[i])'
    BY <1>0, <1>6, SucceedFields DEF AuditEnd, At, HasToken, HasClaim, FrameBacked,
       SessionFrame, ClaimFrame, AbortFrame, AuthorizationFrame, TokenFrame, UserInfoFrame
  <2> QED
    BY <1>0, <1>6, <2>1, QuietStep DEF AuditEnd
<1> QED
  BY <1>1, <1>2, <1>4, <1>5, <1>6 DEF UserInfoStep

LEMMA AbortKeeps ==
    ASSUME IInv, NEW i \in Invocations, AbortStep(i)
    PROVE  IInv'
<1> USE DEF storeVars, sessionVars, personVars, clientVars, Reached
<1>0. TypeInv /\ TypeInv' /\ inv[i] \in Invocation /\ Shaped(inv[i]) /\ FrameBacked(inv[i])
  BY AbortType DEF IInv, TypeInv, Frames, FramesBacked
<1>1. ASSUME NEW s \in opened, NEW op \in {"abort", "sessionConfig"}, Answer(i, op, s),
             op = "abort" => Reached(s, "CIC_CRI_SESSION_ABORTED"),
             UNCHANGED <<storeVars, clientVars>>
      PROVE  IInv'
  <2>1. /\ OnlyFrame(i) /\ Placed(i) /\ inv'[i].op = op /\ inv'[i].at = "respond"
        /\ inv'[i].sid = s
    BY <1>0, <1>1, AnswerFields
  <2>2. FrameBacked(inv[i])'
    BY <1>1, <2>1 DEF FrameBacked, SessionFrame, ClaimFrame, AbortFrame, AuthorizationFrame, TokenFrame, UserInfoFrame
  <2> QED
    BY <1>0, <1>1, <2>1, <2>2, QuietStep
<1>2. ASSUME NEW s \in opened, RequestAbort(i, s)
      PROVE  IInv'
  <2>1. CASE Fail(i, 401)
    BY <1>0, <1>2, <2>1, FailKeeps, QuietStep DEF RequestAbort
  <2>2. CASE NoSessionFound(i, s, 400, 401)
    BY <1>0, <1>2, <2>2, NoSessionFoundKeeps, QuietStep DEF RequestAbort
  <2>3. ASSUME NEW row \in LiveSession(s), row.state = "CIC_CRI_SESSION_ABORTED",
               Answer(i, "abort", s)
        PROVE  IInv'
    <3>1. s \in Sessions
      BY <1>0 DEF TypeInv, TypeOK, LambdaTypeOK
    <3>2. Reached(s, "CIC_CRI_SESSION_ABORTED")
      BY <2>3, <3>1, ReadBacked, SessionReadsAreVersions DEF LiveSession, RowBacked
    <3> QED
      BY <1>1, <1>2, <2>3, <3>2 DEF RequestAbort
  <2>4. CASE Enter(i, Begin("abort", "abortState", s))
    <3>1. OnlyFrame(i) /\ inv'[i] = Begin("abort", "abortState", s)
      BY <1>0, <2>4, EnterFields
    <3>2. /\ inv'[i].op = "abort" /\ inv'[i].at = "abortState"
          /\ inv'[i].sid = s /\ inv'[i].status = 0
      BY <3>1 DEF Begin
    <3>3. Placed(i) /\ FrameBacked(inv[i])'
      BY <3>2 DEF Placed, FrameBacked, SessionFrame, ClaimFrame, AbortFrame, AuthorizationFrame, TokenFrame,
                  UserInfoFrame
    <3> QED
      BY <1>0, <1>2, <3>1, <3>3, QuietStep DEF RequestAbort
  <2> QED
    BY <1>2, <2>1, <2>2, <2>3, <2>4 DEF RequestAbort
<1>3. ASSUME NEW s \in opened, SessionConfig(i, s)
      PROVE  IInv'
  <2>1. CASE Fail(i, 400)
    BY <1>0, <1>3, <2>1, FailKeeps, QuietStep DEF SessionConfig
  <2>2. CASE NoSessionFound(i, s, 401, 500)
    BY <1>0, <1>3, <2>2, NoSessionFoundKeeps, QuietStep DEF SessionConfig
  <2> QED
    BY <1>1, <1>3, <2>1, <2>2 DEF SessionConfig
<1>4. CASE AbortState(i)
  <2>0. PICK s \in Sessions : s = inv[i].sid
    BY <1>0, <1>4 DEF AbortState, At, Shaped
  <2>1. CASE Fail(i, 500) /\ UNCHANGED sessionVars
    BY <1>0, <1>4, <2>1, FailKeeps, QuietStep DEF AbortState
  <2>2. CASE UpdateSessionAuthState(inv[i].sid, "CIC_CRI_SESSION_ABORTED")
    <3>1. PICK row \in SessionRow : PutSessionRow(s, row) /\ RowBacked(s, row)'
      BY <1>4, <2>0, <2>2, StateUpdated DEF AbortState
    <3>2. Grows /\ Reached(s, "CIC_CRI_SESSION_ABORTED")'
      BY <1>4, <2>0, <2>2, StateUpdated DEF AbortState, Grows
    <3>3. OnlyFrame(i) /\ Placed(i) /\ FrameBacked(inv[i])'
      <4>1. CASE Fail(i, 500)
        BY <1>0, <4>1, FailKeeps
      <4>2. CASE Goto(i, "audit")
        <5>1. /\ OnlyFrame(i) /\ Placed(i) /\ inv'[i].sid = s
              /\ inv'[i].op = "abort" /\ inv'[i].status = 0
          BY <1>0, <1>4, <2>0, <4>2, GotoFields DEF AbortState, At, Points, FrameBacked
        <5> QED
          BY <3>2, <5>1 DEF FrameBacked, SessionFrame, ClaimFrame, AbortFrame,
             AuthorizationFrame, TokenFrame, UserInfoFrame
      <4>3. CASE Resend(i)
        BY <1>4, <3>2, <4>3, ResendKeeps DEF AbortState, At
      <4> QED
        BY <1>4, <2>2, <4>1, <4>2, <4>3 DEF AbortState
    <3> QED
      BY <1>0, <1>4, <3>1, <3>3, RowStep DEF AbortState
  <2> QED
    BY <1>4, <2>1, <2>2 DEF AbortState
<1>5. CASE AuditAbort(i)
  <2>1. OnlyFrame(i) /\ Placed(i) /\ FrameBacked(inv[i])'
    BY <1>0, <1>5, SucceedFields DEF AuditAbort, Sending, At, FrameBacked, SessionFrame, ClaimFrame,
       AbortFrame, AuthorizationFrame, TokenFrame, UserInfoFrame
  <2> QED
    BY <1>0, <1>5, <2>1, QuietStep DEF AuditAbort
<1> QED
  BY <1>2, <1>3, <1>4, <1>5 DEF AbortStep
-----------------------------------------------------------------------------
(* Replies, crashes and the database's own steps.                          *)

LEMMA IdleFields ==
    ASSUME TypeInv, NEW i \in Invocations, Enter(i, Idle)
    PROVE  /\ OnlyFrame(i) /\ Placed(i)
           /\ FrameBacked(inv[i])'
           /\ inv'[i].op = "none" /\ inv'[i].sid = NoSession
<1>1. OnlyFrame(i) /\ inv'[i] = Idle
  BY EnterFields
<1>2. inv'[i].op = "none" /\ inv'[i].sid = NoSession /\ inv'[i].status = 0
  BY <1>1 DEF Idle, Begin
<1> QED
  BY <1>1, <1>2 DEF Placed, FrameBacked, SessionFrame, ClaimFrame, AbortFrame, AuthorizationFrame, TokenFrame,
                    UserInfoFrame

LEMMA RespondKeeps ==
    ASSUME IInv, NEW i \in Invocations, Respond(i)
    PROVE  IInv'
<1> USE DEF storeVars, sessionVars, personVars, Reached
<1>0. TypeInv /\ TypeInv' /\ inv[i] \in Invocation /\ Shaped(inv[i]) /\ FrameBacked(inv[i])
  BY RespondType DEF IInv, TypeInv, Frames, FramesBacked
<1>1. OnlyFrame(i) /\ FrameBacked(inv[i])' /\ inv'[i].op = "none" /\ inv'[i].sid = NoSession
  BY <1>0, IdleFields DEF Respond
<1>2. Grows
  BY DEF Respond, Grows
<1>3. RowsBacked' /\ FramesBacked'
  BY <1>1, <1>2, RowsKept, FramesKept DEF Respond, PersonsLeft
<1>4. /\ opened \subseteq opened'
      /\ opened' \subseteq opened \cup {inv[i].sid}
      /\ opened' # opened => inv[i].op = "session"
  BY DEF Respond
<1>5. Secluded'
  <2>1. Secluded /\ \A j \in Invocations : inv[j].op # "none" => inv[j].sid \in Sessions
    BY DEF IInv, TypeInv, Frames, Shaped
  <2>2. ASSUME NEW k \in Invocations, inv'[k].op = "session"
        PROVE  /\ inv'[k].sid \notin opened'
               /\ \A j \in Invocations : inv'[j].sid = inv'[k].sid => j = k
    <3>1. k # i /\ inv'[k] = inv[k] /\ inv[k].sid \in Sessions
      BY <1>1, <2>1, <2>2 DEF OnlyFrame
    <3>2. /\ inv[k].sid \notin opened
          /\ \A j \in Invocations : inv[j].sid = inv[k].sid => j = k
      BY <2>1, <2>2, <3>1 DEF Secluded
    <3> QED
      BY <1>1, <1>4, <3>1, <3>2, InvocationAssumption DEF OnlyFrame
  <2>3. ASSUME NEW k \in Invocations, inv'[k].op \notin {"session", "none"}
        PROVE  inv'[k].sid \in opened'
    BY <1>1, <1>4, <2>1, <2>3 DEF Secluded, OnlyFrame
  <2> QED
    BY <2>2, <2>3 DEF Secluded
<1>6. GrantsBacked'
  <2>1. CodeNeedsClaim'
    BY DEF IInv, GrantsBacked, CodeNeedsClaim, HasClaim, HasCode, Respond
  <2>2. TokenNeedsCode'
    <3> SUFFICES ASSUME NEW s \in Sessions, NEW t \in tokens', t.sub = s
                 PROVE  HasCode(s)
      BY DEF TokenNeedsCode, HasToken, HasCode, Respond
    <3>1. CASE t \in tokens
      BY <3>1 DEF IInv, GrantsBacked, TokenNeedsCode, HasToken
    <3>2. CASE t \notin tokens
      <4>1. inv[i].op = "token" /\ t = [sub |-> inv[i].sid, exp |-> inv[i].expiry]
        BY <3>2 DEF Respond
      <4> QED
        BY <1>0, <4>1 DEF FrameBacked, TokenFrame
    <3> QED
      BY <3>1, <3>2
  <2>3. ~StaleReads => CredentialCarriesClaim'
    <3> SUFFICES ASSUME ~StaleReads, NEW s \in Sessions, NEW n \in Names,
                        <<s, n>> \in credentials'
                 PROVE  <<s, n>> \in recorded
      BY DEF CredentialCarriesClaim, Respond
    <3>1. CASE <<s, n>> \in credentials
      BY <3>1 DEF IInv, GrantsBacked, CredentialCarriesClaim
    <3>2. CASE <<s, n>> \notin credentials
      <4>1. inv[i].op = "userinfo" /\ inv[i].at = "respond" /\ <<s, n>> = <<inv[i].sid, inv[i].names>>
        BY <3>2 DEF Respond
      <4> QED
        BY <1>0, <4>1 DEF FrameBacked, UserInfoFrame
    <3> QED
      BY <3>1, <3>2
  <2> QED
    BY <2>1, <2>2, <2>3 DEF GrantsBacked
<1>7. ClaimsAreOpened' /\ PersonBacked'
  BY <1>4 DEF Respond, IInv, ClaimsAreOpened, PersonBacked, HasClaim
<1> QED
  BY <1>0, <1>3, <1>5, <1>6, <1>7 DEF IInv

LEMMA CrashKeeps ==
    ASSUME IInv, NEW i \in Invocations, Crash(i)
    PROVE  IInv'
BY CrashType, IdleFields, QuietStep DEF Crash, IInv

\* The database's own steps leave every version of a row as it is or missing, and touch
\* only persons who have expired.
LEMMA EnvironmentRows ==
    ASSUME TypeInv, Environment
    PROVE  /\ UNCHANGED <<inv, clientVars, recorded, coded>>
           /\ entered \subseteq entered'
           /\ now \in Nat /\ now' \in Nat /\ now <= now'
           /\ \A s \in Sessions :
                /\ \A row \in IndexReads(s)' : row \in IndexReads(s) \cup {NoSessionRow}
                /\ \/ sessionTable'[s] = sessionTable[s]
                   \/ Expired(sessionTable[s]) /\ sessionTable'[s] = NoSessionRow
                /\ \A person \in {personTable'[s]} \cup personStale'[s] :
                     person \in {personTable[s], NoPersonRow} \cup personStale[s]
                /\ \/ personTable'[s] = personTable[s]
                   \/ Expired(personTable[s]) /\ personTable'[s] = NoPersonRow
<1> USE DEF sessionVars, personVars
<1>0. SessionsTyped /\ PersonsTyped /\ now \in Nat
  BY DEF TypeInv, TypeOK, StoreTypeOK, SessionsTyped, PersonsTyped
<1>1. NoSessionRow \in SessionRow /\ NoPersonRow \in PersonRow
  BY DEF NoSessionRow, SessionRow, NoPersonRow, PersonRow, Expiry, NoExpiry
<1>2. CASE Tick
  BY <1>0, <1>2 DEF Environment, Tick, IndexReads
<1>3. ASSUME NEW t \in Sessions, CatchUpSession(t)
      PROVE  /\ UNCHANGED <<sessionTable, entered, personVars, now, recorded, coded>>
             /\ \A s \in Sessions : sessionStale'[s] \subseteq sessionStale[s]
  BY <1>0, <1>3 DEF CatchUpSession, SessionsTyped
<1>4. ASSUME NEW t \in Sessions, CatchUpPerson(t)
      PROVE  /\ UNCHANGED <<personTable, sessionVars, now, recorded, coded>>
             /\ \A s \in Sessions : personStale'[s] \subseteq personStale[s]
  BY <1>0, <1>4 DEF CatchUpPerson, PersonsTyped
<1>5. ASSUME NEW t \in Sessions, DeleteExpiredSession(t)
      PROVE  /\ UNCHANGED <<personVars, now, recorded, coded>> /\ entered \subseteq entered'
             /\ Expired(sessionTable[t]) /\ sessionTable'[t] = NoSessionRow
             /\ sessionStale'[t] \subseteq sessionStale[t] \cup {sessionTable[t]}
             /\ \A s \in Sessions \ {t} :
                    sessionTable'[s] = sessionTable[s] /\ sessionStale'[s] = sessionStale[s]
  BY <1>0, <1>1, <1>5, PutSessionRowFields DEF DeleteExpiredSession
<1>6. ASSUME NEW t \in Sessions, DeleteExpiredPerson(t)
      PROVE  /\ UNCHANGED <<sessionVars, now, recorded, coded>>
             /\ Expired(personTable[t]) /\ personTable'[t] = NoPersonRow
             /\ personStale'[t] \subseteq personStale[t] \cup {personTable[t]}
             /\ \A s \in Sessions \ {t} :
                    personTable'[s] = personTable[s] /\ personStale'[s] = personStale[s]
  BY <1>0, <1>1, <1>6, PutPersonRowFields DEF DeleteExpiredPerson
<1>7. UNCHANGED <<inv, clientVars>>
  BY DEF Environment
<1>8. CASE \E t \in Sessions : CatchUpSession(t) \/ CatchUpPerson(t)
  BY <1>0, <1>3, <1>4, <1>7, <1>8 DEF IndexReads
<1>9. CASE \E t \in Sessions : DeleteExpiredSession(t)
  BY <1>0, <1>5, <1>7, <1>9 DEF IndexReads
<1>10. CASE \E t \in Sessions : DeleteExpiredPerson(t)
  BY <1>0, <1>6, <1>7, <1>10 DEF IndexReads
<1> QED
  BY <1>2, <1>8, <1>9, <1>10 DEF Environment, StoreStep

LEMMA EnvironmentKeeps ==
    ASSUME IInv, Environment
    PROVE  IInv'
<1> USE DEF clientVars
<1>0. TypeInv /\ TypeInv'
  BY EnvironmentType DEF IInv
<1>1. UNCHANGED <<inv, clientVars, recorded, coded>> /\ entered \subseteq entered'
  BY <1>0, EnvironmentRows
<1>2. FramesBacked' /\ Secluded' /\ GrantsBacked' /\ ClaimsAreOpened'
  <2>1. FramesBacked'
    <3> SUFFICES ASSUME NEW j \in Invocations PROVE FrameBacked(inv[j])'
      BY DEF FramesBacked
    <3>1. inv'[j] = inv[j] /\ FrameBacked(inv[j])
      BY <1>1 DEF IInv, FramesBacked
    <3>2. SessionFrame(inv[j])'
      <4> SUFFICES ASSUME inv[j].op = "session", inv[j].at # "putSession"
                   PROVE  /\ Reached(inv[j].sid, "CIC_SESSION_CREATED")'
                          /\ inv[j].at # "putPerson" /\ inv[j].names = SharedClaim =>
                                  SharedStored(inv[j])'
        BY <3>1 DEF SessionFrame
      <4>1. inv[j].sid \in Sessions /\ inv[j].expiry \in Int
        BY <1>0 DEF TypeInv, Frames, Shaped, Invocation, Expiry, NoExpiry
      <4>2. SharedStored(inv[j]) => SharedStored(inv[j])'
        <5>1. /\ now \in Nat /\ now' \in Nat /\ now <= now'
              /\ \/ personTable'[inv[j].sid] = personTable[inv[j].sid]
                 \/ Expired(personTable[inv[j].sid])
          BY <1>0, <4>1, EnvironmentRows
        <5> QED
          BY <3>1, <4>1, <5>1 DEF SharedStored, Expired
      <4> QED
        BY <1>1, <3>1, <4>2 DEF FrameBacked, SessionFrame, Reached
    <3> QED
      BY <1>1, <3>1, <3>2 DEF FrameBacked, ClaimFrame, AuthorizationFrame, TokenFrame,
         UserInfoFrame, AbortFrame, HasClaim, HasCode, HasToken, Reached
  <2>2. Secluded' /\ ClaimsAreOpened'
    BY <1>1 DEF IInv, Secluded, ClaimsAreOpened, HasClaim
  <2>3. GrantsBacked'
    BY <1>1 DEF IInv, GrantsBacked, CodeNeedsClaim, TokenNeedsCode, CredentialCarriesClaim,
         HasClaim, HasCode, HasToken
  <2> QED
    BY <2>1, <2>2, <2>3
<1>3. RowsBacked'
  <2> SUFFICES ASSUME NEW s \in Sessions, NEW row \in IndexReads(s)'
               PROVE  RowBacked(s, row)'
    BY DEF RowsBacked
  <2>1. CASE row \in IndexReads(s)
    BY <1>1, <2>1, ReadBacked, RowBackedStays DEF Grows
  <2>2. CASE row = NoSessionRow
    BY <2>2 DEF RowBacked, NoSessionRow, ClaimReceived
  <2> QED
    BY <1>0, <2>1, <2>2, EnvironmentRows
<1>4. PersonBacked'
  <2> SUFFICES ASSUME NEW s \in Sessions
               PROVE  /\ \A person \in {personTable'[s]} \cup personStale'[s] :
                            person.names \in Claims => <<s, person.names>> \in recorded
                      /\ HasClaim(s) => personTable'[s].names # SharedClaim
    BY <1>1 DEF PersonBacked, HasClaim
  <2>1. NoPersonRow.names = NoClaim
    BY DEF NoPersonRow
  <2>2. /\ \A person \in {personTable'[s]} \cup personStale'[s] :
                person \in {personTable[s], NoPersonRow} \cup personStale[s]
        /\ personTable'[s] \in {personTable[s], NoPersonRow}
    BY <1>0, EnvironmentRows
  <2> QED
    BY <2>1, <2>2, NamesAssumption DEF IInv, PersonBacked
<1> QED
  BY <1>0, <1>2, <1>3, <1>4 DEF IInv
-----------------------------------------------------------------------------
LEMMA InitKeeps == Init => IInv
<1> SUFFICES ASSUME Init PROVE IInv
  OBVIOUS
<1>1. TypeInv
  BY InitType
<1>2. RowsBacked
  BY DEF Init, StoreInit, RowsBacked, IndexReads, RowBacked, NoSessionRow, ClaimReceived
<1>3. \A i \in Invocations : /\ inv[i].op = "none" /\ inv[i].sid = NoSession
                             /\ inv[i].status = 0
  BY DEF Init, LambdaInit, Idle, Begin
<1>4. FramesBacked /\ Secluded
  BY <1>3 DEF FramesBacked, FrameBacked, SessionFrame, ClaimFrame, AbortFrame, AuthorizationFrame, TokenFrame,
              UserInfoFrame, Secluded
<1>5. GrantsBacked /\ ClaimsAreOpened
  BY DEF Init, StoreInit, LambdaInit, GrantsBacked, CodeNeedsClaim, TokenNeedsCode,
         CredentialCarriesClaim, ClaimsAreOpened, HasClaim, HasCode, HasToken
<1>6. PersonBacked
  BY NamesAssumption DEF Init, StoreInit, PersonBacked, NoPersonRow, HasClaim
<1> QED
  BY <1>1, <1>2, <1>4, <1>5, <1>6 DEF IInv

LEMMA NextKeeps == IInv /\ [Next]_vars => IInv'
<1> SUFFICES ASSUME IInv, [Next]_vars PROVE IInv'
  OBVIOUS
<1>1. ASSUME NEW i \in Invocations, EndpointStep(i)
      PROVE  IInv'
  BY <1>1, SessionKeeps, ClaimedIdentityKeeps, AuthorizationKeeps, TokenKeeps,
     UserInfoKeeps, AbortKeeps DEF EndpointStep
<1>2. CASE UNCHANGED vars
  <2>1. TypeInv'
    BY NextType DEF IInv
  <2>2. UNCHANGED <<sessionTable, sessionStale, entered, personTable, personStale, now,
                    recorded, coded, inv, opened, tokens, credentials>>
    BY <1>2 DEF vars, storeVars, sessionVars, personVars, clientVars
  <2>3. RowsBacked'
    BY <2>2, RowsKept DEF Grows
  <2>4. FramesBacked' /\ Secluded'
    BY <2>2 DEF IInv, FramesBacked, FrameBacked, SessionFrame, ClaimFrame, AbortFrame, AuthorizationFrame,
         TokenFrame, UserInfoFrame, SharedStored, HasClaim, HasCode, HasToken,
         Reached, Secluded
  <2>5. GrantsBacked' /\ ClaimsAreOpened' /\ PersonBacked'
    BY <2>2 DEF IInv, GrantsBacked, CodeNeedsClaim, TokenNeedsCode, CredentialCarriesClaim,
         HasClaim, HasCode, HasToken, ClaimsAreOpened, PersonBacked
  <2> QED
    BY <2>1, <2>3, <2>4, <2>5 DEF IInv
<1> QED
  BY <1>1, <1>2, RespondKeeps, CrashKeeps, EnvironmentKeeps DEF Next

\* The inductive invariant holds throughout, with consistent and with stale reads.
THEOREM InvariantHolds == Spec => []IInv
BY InitKeeps, NextKeeps, PTL DEF Spec

\* No authorization code is ever stored for a session none of whose claims is stored
\* (GET /authorization needs CIC_DATA_RECEIVED, which only a stored claim leads to),
\* whatever calls fail, crash, overlap or read stale rows.
THEOREM CodeAfterClaim == Spec => []CodeNeedsClaim
<1>1. IInv => CodeNeedsClaim
  BY DEF IInv, GrantsBacked
<1> QED
  BY <1>1, InvariantHolds, PTL

\* With consistent reads a credential states a claim stored for its session, never the
\* shared claims that /session put into the same row: saveCICData writes the person
\* before the state that lets the session go on.
THEOREM CredentialsCarryClaims ==
    ASSUME ~StaleReads
    PROVE  Spec => []CredentialCarriesClaim
<1>1. IInv => CredentialCarriesClaim
  BY DEF IInv, GrantsBacked
<1> QED
  BY <1>1, InvariantHolds, PTL

\* No endpoint answers 200, or sends the audit event of its success, before each thing it
\* announces was stored: the write of that very thing, not one like it.
THEOREM SuccessFollowsWrite == Spec => []SuccessIsDurable
<1>1. IInv => SuccessIsDurable
  <2> SUFFICES ASSUME IInv, NEW i \in Invocations, NEW r, r = inv[i],
                      r.at \in {"audit", "auditEnd"} \/ r.status = 200
               PROVE  /\ r.op = "session" =>
                            /\ Reached(r.sid, "CIC_SESSION_CREATED")
                            /\ r.names = SharedClaim /\ r.expiry >= now =>
                                    personTable[r.sid].names = SharedClaim
                      /\ r.op = "claimedIdentity" =>
                            /\ Reached(r.sid, "CIC_DATA_RECEIVED") /\ HasClaim(r.sid)
                            /\ r.names # NoClaim => <<r.sid, r.names>> \in recorded
                      /\ r.op = "authorization" =>
                            /\ HasCode(r.sid)
                            /\ r.code # NoCode => <<r.sid, r.code>> \in coded
                      /\ r.op = "token" => Reached(r.sid, "CIC_ACCESS_TOKEN_ISSUED")
                      /\ r.op = "abort" => Reached(r.sid, "CIC_CRI_SESSION_ABORTED")
                      /\ r.op = "userinfo" => HasToken(r.sid) /\ HasClaim(r.sid)
    BY DEF SuccessIsDurable
  <2>1. r.at \in {"audit", "auditEnd", "respond"} /\ FrameBacked(r)
    BY DEF IInv, FramesBacked, FrameBacked
  <2>2. r.op = "session" /\ r.names = SharedClaim /\ r.expiry >= now =>
            personTable[r.sid].names = SharedClaim
    <3>1. r.expiry \in Int /\ now \in Nat
      BY DEF IInv, TypeInv, TypeOK, StoreTypeOK, Frames, Invocation, Expiry, NoExpiry
    <3>2. r.op = "session" /\ r.names = SharedClaim => SharedStored(r)
      BY <2>1 DEF FrameBacked, SessionFrame
    <3> QED
      BY <3>1, <3>2 DEF SharedStored
  <2> QED
    BY <2>1, <2>2 DEF FrameBacked, SessionFrame, ClaimFrame, AuthorizationFrame, TokenFrame,
       UserInfoFrame, AbortFrame
<1> QED
  BY <1>1, InvariantHolds, PTL

\* Every version of a row in CIC_AUTH_CODE_ISSUED, however old, has a code that was
\* stored for its session, so a repeated GET /authorization has a code to return.
THEOREM RetriesReturnCode == Spec => []RetryReturnsCode
<1>1. IInv => RetryReturnsCode
  BY ReadBacked DEF RowBacked, RetryReturnsCode
<1> QED
  BY <1>1, InvariantHolds, PTL
=============================================================================
