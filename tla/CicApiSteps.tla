-------------------------------- MODULE CicApiSteps --------------------------------
(***************************************************************************)
(* What a step of CicApi may never do, from IInv: the action properties,   *)
(* and the refinement.                                                     *)
(*                                                                         *)
(* CicApi implements ClaimFlow when reads are consistent: UpdatePerson is  *)
(* RecordClaim, SetCode is IssueCode, the reply to /token is GrantToken    *)
(* and the reply to /userinfo is IssueCredential; every other step is a    *)
(* stutter.  IInv supplies the evidence each of these needs, except that a *)
(* new code belongs to nobody, which HeldCodesFresh adds.                  *)
(***************************************************************************)
EXTENDS CicApiProofs
-----------------------------------------------------------------------------
(* The frames a step of an endpoint may leave, and where they come from.   *)

LEMMA NoSessionFoundOp ==
    ASSUME TypeInv, NEW i \in Invocations, NEW s, NEW missing \in {400, 401, 500},
           NEW expired \in {400, 401, 500}, NoSessionFound(i, s, missing, expired)
    PROVE  OnlyFrame(i) /\ inv'[i].op = "none"
BY FailFields DEF NoSessionFound

LEMMA ResendOp ==
    ASSUME NEW i \in Invocations, Resend(i)
    PROVE  OnlyFrame(i) /\ inv'[i].op = inv[i].op
BY DEF Resend, OnlyFrame

\* The step leaves invocation i with a frame of one of these operations, or of none.
FrameOf(i, ops) == OnlyFrame(i) /\ inv'[i].op \in ops \cup {"none"}

LEMMA SessionFrames ==
    ASSUME TypeInv, NEW i \in Invocations, SessionStep(i)
    PROVE  FrameOf(i, {"session"})
<1> USE DEF FrameOf
<1>1. CASE RejectSessionRequest(i)
  BY <1>1, FailFields DEF RejectSessionRequest
<1>2. ASSUME NEW s \in Sessions, NEW shared \in {NoClaim, SharedClaim},
             AcceptSessionRequest(i, s, shared)
      PROVE  FrameOf(i, {"session"})
  <2>1. Opening(s, now + SessionTtl, shared).op = "session"
    BY DEF Opening, Begin
  <2> QED
    BY <1>2, <2>1, FailFields, EnterFields DEF AcceptSessionRequest
<1>3. CASE PutSession(i)
  BY <1>3, FailFields, GotoFields, ResendOp DEF PutSession, At, Points
<1>4. CASE PutPerson(i)
  BY <1>4, FailFields, GotoFields, ResendOp DEF PutPerson, At, Points
<1>5. CASE AuditStart(i)
  BY <1>5, SucceedFields DEF AuditStart, Sending, At
<1> QED
  BY <1>1, <1>2, <1>3, <1>4, <1>5 DEF SessionStep

LEMMA ClaimedIdentityFrames ==
    ASSUME TypeInv, NEW i \in Invocations, ClaimedIdentityStep(i)
    PROVE  FrameOf(i, {"claimedIdentity"})
<1> USE DEF FrameOf
<1>1. ASSUME NEW s \in opened, NEW claim \in Claims, ReceiveClaim(i, s, claim)
      PROVE  FrameOf(i, {"claimedIdentity"})
  <2>1. \A row : Claiming(s, claim, row.expiry).op = "claimedIdentity"
    BY DEF Claiming, Begin
  <2> QED
    BY <1>1, <2>1, FailFields, NoSessionFoundOp, AnswerFields, EnterFields DEF ReceiveClaim
<1>2. CASE UpdatePerson(i)
  BY <1>2, FailFields, GotoFields, ResendOp DEF UpdatePerson, At, Points
<1>3. CASE UpdateState(i)
  BY <1>3, FailFields, SucceedFields, ResendOp DEF UpdateState, At
<1> QED
  BY <1>1, <1>2, <1>3 DEF ClaimedIdentityStep

LEMMA AuthorizationFrames ==
    ASSUME TypeInv, NEW i \in Invocations, AuthorizationStep(i)
    PROVE  FrameOf(i, {"authorization"})
<1> USE DEF FrameOf
<1>1. ASSUME NEW s \in opened, RequestCode(i, s)
      PROVE  FrameOf(i, {"authorization"})
  <2>1. ASSUME NEW point, NEW k
        PROVE  /\ Holding(point, s, k).op = "authorization"
               /\ Reply(Holding(point, s, k), 200).op = "authorization"
    BY DEF Holding, Begin, Reply
  <2> QED
    BY <1>1, <2>1, FailFields, NoSessionFoundOp, EnterFields DEF RequestCode
<1>2. CASE SetCode(i)
  BY <1>2, FailFields, GotoFields, ResendOp DEF SetCode, At, Points
<1>3. CASE AuditCode(i)
  BY <1>3, SucceedFields DEF AuditCode, Sending, At
<1> QED
  BY <1>1, <1>2, <1>3 DEF AuthorizationStep

LEMMA TokenFrames ==
    ASSUME TypeInv, NEW i \in Invocations, TokenStep(i)
    PROVE  FrameOf(i, {"token"})
<1> USE DEF FrameOf
<1>1. ASSUME NEW grant \in codes, RequestToken(i, grant[2])
      PROVE  FrameOf(i, {"token"})
  <2>1. \A s : Begin("token", "verify", s).op = "token"
    BY DEF Begin
  <2> QED
    BY <1>1, <2>1, FailFields, EnterFields DEF RequestToken
<1>2. CASE VerifyAndSign(i)
  <2>1. inv[i] \in Invocation /\ inv[i].op = "token"
    BY <1>2 DEF VerifyAndSign, At, TypeInv, Frames
  <2>2. Signed(inv[i], now + TokenTtl).op = "token"
    BY <2>1 DEF Signed, Invocation
  <2> QED
    BY <1>2, <2>2, FailFields, EnterFields DEF VerifyAndSign
<1>3. CASE UpdateToken(i)
  BY <1>3, FailFields, SucceedFields, ResendOp DEF UpdateToken, At
<1> QED
  BY <1>1, <1>2, <1>3 DEF TokenStep

LEMMA AbortFrames ==
    ASSUME TypeInv, NEW i \in Invocations, AbortStep(i)
    PROVE  FrameOf(i, {"abort", "sessionConfig"})
<1> USE DEF FrameOf
<1>1. ASSUME NEW s \in opened, RequestAbort(i, s)
      PROVE  FrameOf(i, {"abort", "sessionConfig"})
  <2>1. Begin("abort", "abortState", s).op = "abort"
    BY DEF Begin
  <2> QED
    BY <1>1, <2>1, FailFields, NoSessionFoundOp, AnswerFields, EnterFields DEF RequestAbort
<1>2. ASSUME NEW s \in opened, SessionConfig(i, s)
      PROVE  FrameOf(i, {"abort", "sessionConfig"})
  BY <1>2, FailFields, NoSessionFoundOp, AnswerFields DEF SessionConfig
<1>3. CASE AbortState(i)
  BY <1>3, FailFields, GotoFields, ResendOp DEF AbortState, At, Points
<1>4. CASE AuditAbort(i)
  BY <1>4, SucceedFields DEF AuditAbort, Sending, At
<1> QED
  BY <1>1, <1>2, <1>3, <1>4 DEF AbortStep

\* A frame of /userinfo has the state and the names it had before, or just read ones.
FetchFrame(i) ==
    LET s == inv'[i].sid
        same == inv[i].op = "userinfo" /\ inv[i].sid = s
    IN  /\ FrameOf(i, {"userinfo"})
        /\ inv[i] = Idle \/ inv[i].op = "userinfo"
        /\ inv'[i].op = "userinfo" =>
            /\ \/ same /\ inv'[i].state = inv[i].state
               \/ \E row \in LiveSession(s) : inv'[i].state = row.state
            /\ \/ same /\ inv'[i].names = inv[i].names
               \/ inv'[i].names = NoClaim
               \/ \E person \in PersonReads(s) : inv'[i].names = person.names

LEMMA UserInfoFrames ==
    ASSUME TypeInv, NEW i \in Invocations, UserInfoStep(i)
    PROVE  FetchFrame(i)
<1> USE DEF FrameOf, FetchFrame
<1>0. inv[i] \in Invocation
  BY DEF TypeInv, Frames
<1>1. ASSUME NEW token \in tokens, PresentToken(i, token)
      PROVE  FetchFrame(i)
  <2>1. ASSUME NEW row \in LiveSession(token.sub), Enter(i, Presented(token.sub, row.state))
        PROVE  FetchFrame(i)
    <3>1. OnlyFrame(i) /\ inv'[i] = Presented(token.sub, row.state)
      BY <2>1, EnterFields
    <3>2. /\ inv'[i].op = "userinfo" /\ inv'[i].sid = token.sub
          /\ inv'[i].state = row.state /\ inv'[i].names = NoClaim
      BY <3>1 DEF Presented, Begin
    <3> QED
      BY <1>1, <3>1, <3>2 DEF PresentToken
  <2> QED
    BY <1>1, <2>1, FailFields, NoSessionFoundOp DEF PresentToken
<1>2. CASE GetPerson(i)
  <2>1. ASSUME NEW person \in PersonReads(inv[i].sid), Enter(i, Identified(inv[i], person.names))
        PROVE  FetchFrame(i)
    <3>1. OnlyFrame(i) /\ inv'[i] = Identified(inv[i], person.names)
      BY <2>1, EnterFields
    <3>2. /\ inv'[i].op = inv[i].op /\ inv'[i].names = person.names
          /\ inv'[i].sid = inv[i].sid /\ inv'[i].state = inv[i].state
      BY <1>0, <3>1 DEF Identified, Invocation
    <3> QED
      BY <1>2, <3>1, <3>2 DEF GetPerson, At
  <2> QED
    BY <1>2, <2>1, FailFields DEF GetPerson, At
<1>3. CASE SignCredential(i) \/ AuditIssued(i)
  BY <1>3, FailFields, GotoFields DEF SignCredential, AuditIssued, Sending, At, Points
<1>4. CASE AuditEnd(i)
  BY <1>4, SucceedFields DEF AuditEnd, At
<1> QED
  BY <1>1, <1>2, <1>3, <1>4 DEF UserInfoStep

LEMMA EndpointFrames ==
    ASSUME TypeInv, NEW i \in Invocations, EndpointStep(i)
    PROVE  /\ OnlyFrame(i)
           /\ inv'[i].op = "userinfo" => FetchFrame(i)
           /\ inv'[i].op = "token" => TokenStep(i)
BY SessionFrames, ClaimedIdentityFrames, AuthorizationFrames, TokenFrames, AbortFrames,
   UserInfoFrames DEF EndpointStep, FrameOf, FetchFrame
-----------------------------------------------------------------------------
(* What a step of an endpoint writes, and what can be read after it.       *)

Wrote(i) ==
    /\ UNCHANGED <<now, clientVars>>
    /\ recorded \subseteq recorded'
    /\ \A s \in Sessions :
        /\ sessionStale'[s] \subseteq {sessionTable[s]} \cup sessionStale[s]
        /\ personStale'[s] \subseteq {personTable[s]} \cup personStale[s]
        /\ \/ sessionTable'[s].registered = sessionTable[s].registered
           \/ inv[i].op = "session" /\ inv[i].sid = s
        /\ \/ Pending(i, s)
           \/ /\ \/ sessionTable'[s] = sessionTable[s]
                 \/ sessionTable'[s].state = "CIC_CRI_SESSION_ABORTED"
              /\ personTable'[s] = personTable[s]
              /\ StoredOf(s)' = StoredOf(s)

LEMMA WroteNothing ==
    ASSUME NEW i \in Invocations, UNCHANGED <<storeVars, clientVars>>
    PROVE  Wrote(i)
BY DEF Wrote, storeVars, sessionVars, personVars, StoredOf, clientVars

LEMMA WroteRow ==
    ASSUME TypeInv, NEW i \in Invocations, NEW t \in Sessions, t = inv[i].sid,
           NEW row \in SessionRow, PutSessionRow(t, row),
           UNCHANGED <<personVars, now, recorded, clientVars>>,
           inv[i].op = "session" \/ row.registered = sessionTable[t].registered,
           \/ Pending(i, t) /\ \A g \in coded' : g \in coded \/ g[1] = t
           \/ row.state = "CIC_CRI_SESSION_ABORTED" /\ coded' = coded,
           coded \subseteq coded'
    PROVE  Wrote(i)
<1>1. SessionsTyped
  BY DEF TypeInv, TypeOK, StoreTypeOK, SessionsTyped
<1>2. /\ sessionTable'[t] = row
      /\ sessionStale'[t] \subseteq sessionStale[t] \cup {sessionTable[t]}
      /\ \A s \in Sessions \ {t} :
            sessionTable'[s] = sessionTable[s] /\ sessionStale'[s] = sessionStale[s]
  BY <1>1, PutSessionRowFields
<1>3. \A s \in Sessions : StoredOf(s)' = StoredOf(s) \/ (s = t /\ Pending(i, s))
  BY DEF StoredOf
<1> QED
  BY <1>2, <1>3 DEF Wrote, personVars

LEMMA WrotePerson ==
    ASSUME NEW i \in Invocations, NEW t \in Sessions, Pending(i, t),
           personStale'[t] \subseteq personStale[t] \cup {personTable[t]},
           \A s \in Sessions \ {t} :
                personTable'[s] = personTable[s] /\ personStale'[s] = personStale[s],
           UNCHANGED <<sessionVars, now, coded, clientVars>>, recorded \subseteq recorded',
           \A g \in recorded' : g \in recorded \/ g[1] = t
    PROVE  Wrote(i)
<1>1. \A s \in Sessions : StoredOf(s)' = StoredOf(s) \/ s = t
  BY DEF StoredOf
<1> QED
  BY <1>1 DEF Wrote, sessionVars

LEMMA SessionWrites ==
    ASSUME TypeInv, NEW i \in Invocations, SessionStep(i)
    PROVE  Wrote(i)
<1>0. inv[i] \in Invocation /\ Shaped(inv[i]) /\ SessionsTyped /\ PersonsTyped
  BY DEF TypeInv, TypeOK, StoreTypeOK, SessionsTyped, PersonsTyped, Frames
<1>1. CASE UNCHANGED <<storeVars, clientVars>>
  BY <1>1, WroteNothing
<1>2. CASE PutSession(i)
  <2>1. PICK t \in Sessions, expiry \in Expiry : t = inv[i].sid /\ expiry = inv[i].expiry
    BY <1>0, <1>2 DEF PutSession, At, Shaped, Invocation
  <2>2. Pending(i, t)
    BY <1>2, <2>1 DEF PutSession, At, Pending
  <2>3. CASE CreateAuthSession(inv[i].sid, inv[i].expiry)
    <3>1. PICK row \in SessionRow : row = Created(expiry)
      BY CreatedFields
    <3>2. PutSessionRow(t, row)
      BY <2>1, <2>3, <3>1 DEF CreateAuthSession, Created
    <3> QED
      BY <1>2, <2>1, <2>2, <3>2, WroteRow DEF PutSession, At
  <2> QED
    BY <1>1, <1>2, <2>3 DEF PutSession, storeVars
<1>3. CASE PutPerson(i)
  <2>1. PICK t \in Sessions, expiry \in Expiry : t = inv[i].sid /\ expiry = inv[i].expiry
    BY <1>0, <1>3 DEF PutPerson, At, Shaped, Invocation
  <2>2. Pending(i, t)
    BY <1>3, <2>1 DEF PutPerson, At, Pending
  <2>3. CASE SavePersonIdentity(inv[i].sid, inv[i].expiry)
    <3>1. SavePersonIdentity(t, expiry)
      BY <2>1, <2>3 DEF SavePersonIdentity
    <3>2. /\ personStale'[t] \subseteq personStale[t] \cup {personTable[t]}
          /\ \A s \in Sessions \ {t} :
                personTable'[s] = personTable[s] /\ personStale'[s] = personStale[s]
      BY <1>0, <3>1, SavePersonIdentityType
    <3> QED
      BY <1>3, <2>2, <3>2, WrotePerson DEF PutPerson
  <2> QED
    BY <1>1, <1>3, <2>3 DEF PutPerson, storeVars
<1> QED
  BY <1>1, <1>2, <1>3 DEF SessionStep, RejectSessionRequest, AcceptSessionRequest, AuditStart

LEMMA ClaimedIdentityWrites ==
    ASSUME TypeInv, NEW i \in Invocations, ClaimedIdentityStep(i)
    PROVE  Wrote(i)
<1>0. inv[i] \in Invocation /\ Shaped(inv[i]) /\ SessionsTyped /\ PersonsTyped
  BY DEF TypeInv, TypeOK, StoreTypeOK, SessionsTyped, PersonsTyped, Frames
<1>1. CASE UNCHANGED <<storeVars, clientVars>>
  BY <1>1, WroteNothing
<1>2. CASE UpdatePerson(i)
  <2>1. PICK t \in Sessions, claim \in Claims, expiry \in Expiry :
            t = inv[i].sid /\ claim = inv[i].names /\ expiry = inv[i].expiry
    BY <1>0, <1>2 DEF UpdatePerson, At, Shaped, Invocation
  <2>2. Pending(i, t)
    BY <1>2, <2>1 DEF UpdatePerson, At, Pending
  <2>3. CASE SaveCICPersonInfo(inv[i].sid, inv[i].names, inv[i].expiry)
    <3>1. SaveCICPersonInfo(t, claim, expiry)
      BY <2>1, <2>3 DEF SaveCICPersonInfo
    <3>2. /\ personStale'[t] \subseteq personStale[t] \cup {personTable[t]}
          /\ \A s \in Sessions \ {t} :
                personTable'[s] = personTable[s] /\ personStale'[s] = personStale[s]
          /\ recorded' = recorded \cup {<<t, claim>>}
      BY <1>0, <3>1, SaveCICPersonInfoType
    <3>3. recorded \subseteq recorded' /\ \A g \in recorded' : g \in recorded \/ g[1] = t
      BY <3>2
    <3> QED
      BY <1>2, <2>2, <3>2, <3>3, WrotePerson DEF UpdatePerson
  <2> QED
    BY <1>1, <1>2, <2>3 DEF UpdatePerson, storeVars
<1>3. CASE UpdateState(i)
  <2>1. PICK t \in Sessions : t = inv[i].sid
    BY <1>0, <1>3 DEF UpdateState, At, Shaped
  <2>2. Pending(i, t)
    BY <1>3, <2>1 DEF UpdateState, At, Pending
  <2>3. CASE UpdateSessionAuthState(inv[i].sid, "CIC_DATA_RECEIVED")
    <3>1. PICK row \in SessionRow : /\ row = Advanced(sessionTable[t], "CIC_DATA_RECEIVED")
                                    /\ row.registered = sessionTable[t].registered
      BY <1>0, AdvancedFields DEF SessionsTyped, AuthSessionState
    <3>2. PutSessionRow(t, row)
      BY <2>1, <2>3, <3>1 DEF UpdateSessionAuthState, Advanced
    <3> QED
      BY <1>3, <2>1, <2>2, <3>1, <3>2, WroteRow DEF UpdateState
  <2> QED
    BY <1>1, <1>3, <2>3 DEF UpdateState, storeVars
<1> QED
  BY <1>1, <1>2, <1>3 DEF ClaimedIdentityStep, ReceiveClaim

LEMMA AuthorizationWrites ==
    ASSUME TypeInv, NEW i \in Invocations, AuthorizationStep(i)
    PROVE  Wrote(i)
<1>0. inv[i] \in Invocation /\ Shaped(inv[i]) /\ SessionsTyped
  BY DEF TypeInv, TypeOK, StoreTypeOK, SessionsTyped, Frames
<1>1. CASE UNCHANGED <<storeVars, clientVars>>
  BY <1>1, WroteNothing
<1>2. CASE SetCode(i)
  <2>1. PICK t \in Sessions, k \in Codes : t = inv[i].sid /\ k = inv[i].code
    BY <1>0, <1>2 DEF SetCode, At, Shaped
  <2>2. Pending(i, t)
    BY <1>2, <2>1 DEF SetCode, At, Pending
  <2>3. CASE SetAuthorizationCode(inv[i].sid, inv[i].code)
    <3>1. PICK row \in SessionRow : /\ row = Coded(sessionTable[t], k)
                                    /\ row.registered = sessionTable[t].registered
      BY <1>0, CodedFields DEF SessionsTyped
    <3>2. PutSessionRow(t, row) /\ coded' = coded \cup {<<t, k>>}
      BY <2>1, <2>3, <3>1 DEF SetAuthorizationCode, Coded
    <3>3. coded \subseteq coded' /\ \A g \in coded' : g \in coded \/ g[1] = t
      BY <3>2
    <3> QED
      BY <1>2, <2>1, <2>2, <3>1, <3>2, <3>3, WroteRow DEF SetCode
  <2> QED
    BY <1>1, <1>2, <2>3 DEF SetCode, storeVars
<1> QED
  BY <1>1, <1>2 DEF AuthorizationStep, RequestCode, AuditCode

LEMMA TokenWrites ==
    ASSUME TypeInv, NEW i \in Invocations, TokenStep(i)
    PROVE  Wrote(i)
<1>0. inv[i] \in Invocation /\ Shaped(inv[i]) /\ SessionsTyped
  BY DEF TypeInv, TypeOK, StoreTypeOK, SessionsTyped, Frames
<1>1. CASE UNCHANGED <<storeVars, clientVars>>
  BY <1>1, WroteNothing
<1>2. CASE UpdateToken(i)
  <2>1. PICK t \in Sessions : t = inv[i].sid
    BY <1>0, <1>2 DEF UpdateToken, At, Shaped
  <2>2. Pending(i, t)
    BY <1>2, <2>1 DEF UpdateToken, At, Pending
  <2>3. CASE UpdateSessionWithAccessTokenDetails(inv[i].sid)
    <3>1. PICK row \in SessionRow : /\ row = Exchanged(sessionTable[t])
                                    /\ row.registered = sessionTable[t].registered
      BY <1>0, ExchangedFields DEF SessionsTyped
    <3>2. PutSessionRow(t, row)
      BY <2>1, <2>3, <3>1 DEF UpdateSessionWithAccessTokenDetails, Exchanged
    <3> QED
      BY <1>2, <2>1, <2>2, <3>1, <3>2, WroteRow DEF UpdateToken
  <2> QED
    BY <1>1, <1>2, <2>3 DEF UpdateToken, storeVars
<1> QED
  BY <1>1, <1>2 DEF TokenStep, RequestToken, VerifyAndSign

LEMMA AbortWrites ==
    ASSUME TypeInv, NEW i \in Invocations, AbortStep(i)
    PROVE  Wrote(i)
<1>0. inv[i] \in Invocation /\ Shaped(inv[i]) /\ SessionsTyped
  BY DEF TypeInv, TypeOK, StoreTypeOK, SessionsTyped, Frames
<1>1. CASE UNCHANGED <<storeVars, clientVars>>
  BY <1>1, WroteNothing
<1>2. CASE AbortState(i)
  <2>1. PICK t \in Sessions : t = inv[i].sid
    BY <1>0, <1>2 DEF AbortState, At, Shaped
  <2>3. CASE UpdateSessionAuthState(inv[i].sid, "CIC_CRI_SESSION_ABORTED")
    <3>1. PICK row \in SessionRow :
            /\ row = Advanced(sessionTable[t], "CIC_CRI_SESSION_ABORTED")
            /\ row.state = "CIC_CRI_SESSION_ABORTED"
            /\ row.registered = sessionTable[t].registered
      BY <1>0, AdvancedFields DEF SessionsTyped, AuthSessionState
    <3>2. PutSessionRow(t, row)
      BY <2>1, <2>3, <3>1 DEF UpdateSessionAuthState, Advanced
    <3> QED
      BY <1>2, <2>1, <3>1, <3>2, WroteRow DEF AbortState
  <2> QED
    BY <1>1, <1>2, <2>3 DEF AbortState, storeVars
<1> QED
  BY <1>1, <1>2 DEF AbortStep, RequestAbort, SessionConfig, AuditAbort

LEMMA EndpointWrites ==
    ASSUME TypeInv, NEW i \in Invocations, EndpointStep(i)
    PROVE  Wrote(i)
<1>1. CASE UserInfoStep(i)
  BY <1>1, WroteNothing DEF UserInfoStep, PresentToken, GetPerson, SignCredential,
     AuditIssued, AuditEnd
<1> QED
  BY <1>1, SessionWrites, ClaimedIdentityWrites, AuthorizationWrites, TokenWrites,
     AbortWrites DEF EndpointStep

\* What any step leaves to be read: versions that could be read before, what it put, or
\* the missing row.
LEMMA StepReads ==
    ASSUME TypeInv, [Next]_vars, NEW s \in Sessions
    PROVE  /\ now \in Nat /\ now' \in Nat /\ now <= now'
           /\ recorded \subseteq recorded'
           /\ \A row \in IndexReads(s)' :
                row \in IndexReads(s) \/ row = sessionTable'[s] \/ row = NoSessionRow
           /\ \A row \in SessionReads(s)' :
                row \in SessionReads(s) \/ row = sessionTable'[s] \/ row = NoSessionRow
           /\ \A person \in PersonReads(s)' :
                \/ person \in PersonReads(s) \/ person = personTable'[s]
                \/ person = NoPersonRow
<1> USE DEF IndexReads, SessionReads, PersonReads
<1>0. now \in Nat
  BY DEF TypeInv, TypeOK, StoreTypeOK
<1>1. ASSUME NEW i \in Invocations, EndpointStep(i)
      PROVE  /\ recorded \subseteq recorded' /\ now' = now
             /\ sessionStale'[s] \subseteq {sessionTable[s]} \cup sessionStale[s]
             /\ personStale'[s] \subseteq {personTable[s]} \cup personStale[s]
  BY <1>1, EndpointWrites DEF Wrote
<1>2. CASE Environment
  <2>1. /\ recorded' = recorded /\ now' \in Nat /\ now <= now'
        /\ \A row \in IndexReads(s)' : row \in IndexReads(s) \cup {NoSessionRow}
        /\ \A person \in {personTable'[s]} \cup personStale'[s] :
                person \in {personTable[s], NoPersonRow} \cup personStale[s]
    BY <1>2, EnvironmentRows
  <2> QED
    BY <1>0, <2>1
<1>3. CASE (\E i \in Invocations : Respond(i) \/ Crash(i)) \/ UNCHANGED vars
  BY <1>0, <1>3 DEF Respond, Crash, vars, storeVars, sessionVars, personVars
<1> QED
  BY <1>0, <1>1, <1>2, <1>3 DEF Next
-----------------------------------------------------------------------------
(* The shared claims.                                                      *)

\* The three parts of ClaimSettled, one by one, and the credentials.
LEMMA SettledStep ==
    ASSUME IInv, IInv', [Next]_vars, NEW s \in Sessions, ClaimSettled(s)
    PROVE  /\ ClaimSettled(s)'
           /\ CredentialsOf(s)' \subseteq CredentialsOf(s) \cup recorded'
<1> DEFINE Held(i) == inv[i].op = "userinfo" /\ inv[i].sid = s
<1>0. /\ TypeInv /\ TypeInv' /\ PersonBacked' /\ HasClaim(s)
      /\ \A person \in PersonReads(s) : person.names # SharedClaim
      /\ \A i \in Invocations : Held(i) => inv[i].names # SharedClaim
  BY DEF IInv, ClaimSettled
<1>1. recorded \subseteq recorded'
  BY <1>0, StepReads
<1>2. HasClaim(s)'
  BY <1>0, <1>1 DEF HasClaim
<1>4. \A person \in PersonReads(s)' : person.names # SharedClaim
  <2>1. personTable'[s].names # SharedClaim
    BY <1>0, <1>2 DEF PersonBacked
  <2>2. NoPersonRow.names # SharedClaim
    BY NamesAssumption DEF NoPersonRow
  <2> QED
    BY <1>0, <2>1, <2>2, StepReads
<1>5. ASSUME NEW j \in Invocations, Held(j)'
      PROVE  inv'[j].names # SharedClaim
  <2>1. ASSUME NEW i \in Invocations, EndpointStep(i)
        PROVE  inv'[j].names # SharedClaim
    <3>1. CASE j = i
      <4>1. FetchFrame(j)
        BY <1>0, <1>5, <2>1, <3>1, EndpointFrames
      <4> QED
        BY <1>0, <1>5, <4>1, NamesAssumption DEF FetchFrame
    <3>2. CASE j # i
      BY <1>0, <1>5, <2>1, <3>2, EndpointFrames DEF OnlyFrame
    <3> QED
      BY <3>1, <3>2
  <2>2. ASSUME NEW i \in Invocations, Enter(i, Idle)
        PROVE  inv'[j].names # SharedClaim
    BY <1>0, <1>5, <2>2, IdleFields DEF OnlyFrame
  <2>3. CASE UNCHANGED inv
    BY <1>0, <1>5, <2>3
  <2> QED
    BY <2>1, <2>2, <2>3 DEF Next, Respond, Crash, Environment, vars
<1>6. CredentialsOf(s)' \subseteq CredentialsOf(s) \cup recorded'
  <2>1. ASSUME NEW i \in Invocations, Respond(i)
        PROVE  CredentialsOf(s)' \subseteq CredentialsOf(s) \cup recorded
    <3> SUFFICES ASSUME NEW g \in credentials', g[1] = s, g \notin credentials
                 PROVE  g \in recorded
      BY DEF CredentialsOf
    <3>1. Held(i) /\ inv[i].at = "respond" /\ g = <<inv[i].sid, inv[i].names>>
      BY <2>1 DEF Respond
    <3> QED
      BY <1>0, <3>1 DEF IInv, FramesBacked, FrameBacked, UserInfoFrame
  <2>2. CASE UNCHANGED credentials
    BY <2>2 DEF CredentialsOf
  <2>3. ASSUME NEW i \in Invocations, EndpointStep(i)
        PROVE  UNCHANGED credentials
    BY <1>0, <2>3, EndpointWrites DEF Wrote, clientVars
  <2> QED
    BY <1>1, <2>1, <2>2, <2>3 DEF Next, Crash, Environment, vars, clientVars
<1> QED
  BY <1>2, <1>4, <1>5, <1>6 DEF ClaimSettled

\* Whatever version of the person row a lagging replica shows, /userinfo signs the shared
\* claims of a session whose claim is stored only until every replica, and every call that
\* has read one, is past the versions that have them; no late write brings them back.
THEOREM ClaimsSettle == Spec => ClaimSettles
<1>1. IInv /\ IInv' /\ [Next]_vars => [\A s \in Sessions : ClaimSettled(s) =>
          /\ ClaimSettled(s)'
          /\ CredentialsOf(s)' \subseteq CredentialsOf(s) \cup recorded']_vars
  BY SettledStep
<1> QED
  BY <1>1, InvariantHolds, PTL DEF Spec, ClaimSettles
-----------------------------------------------------------------------------
(* A session whose code was exchanged, or that is closed.                  *)

LEMMA ClosedIsSpent ==
    ASSUME NEW s \in Sessions, Closed(s)
    PROVE  Spent(s)
BY DEF Closed, Spent

\* What a request can still find of a spent session.
LEMMA SpentReads ==
    ASSUME NEW s \in Sessions, Spent(s), NEW row \in LiveSession(s)
    PROVE  \/ row.state = "CIC_CRI_SESSION_ABORTED"
           \/ row.state = "CIC_ACCESS_TOKEN_ISSUED" /\ row.code = NoCode
BY DEF Spent, Shut, LiveSession

\* Invocation i does not go to work for s.
Rests(i, s) == OnlyFrame(i) /\ ~Pending(i, s)'

LEMMA FrameElsewhere ==
    ASSUME NEW i \in Invocations, NEW s \in Sessions, OnlyFrame(i), inv'[i].sid # s
    PROVE  Rests(i, s)
BY DEF Rests, Pending

LEMMA FailRests ==
    ASSUME TypeInv, NEW i \in Invocations, NEW s \in Sessions,
           NEW status \in {400, 401, 500}, Fail(i, status)
    PROVE  Rests(i, s)
BY FailFields, FrameElsewhere, InvocationAssumption

LEMMA NoSessionFoundRests ==
    ASSUME TypeInv, NEW i \in Invocations, NEW s \in Sessions, NEW t,
           NEW missing \in {400, 401, 500}, NEW expired \in {400, 401, 500},
           NoSessionFound(i, t, missing, expired)
    PROVE  Rests(i, s)
BY FailRests DEF NoSessionFound

LEMMA AnswerRests ==
    ASSUME TypeInv, NEW i \in Invocations, NEW s \in Sessions, NEW t \in opened,
           NEW op \in {"claimedIdentity", "abort", "sessionConfig"}, Answer(i, op, t)
    PROVE  Rests(i, s)
BY AnswerFields DEF Rests, Pending

\* An invocation that goes on about s was not pending, so it is none of those that write.
LEMMA GotoRests ==
    ASSUME TypeInv, NEW i \in Invocations, NEW s \in Sessions, ~Pending(i, s),
           inv[i].at # "respond", NEW point \in Points, Goto(i, point)
    PROVE  Rests(i, s)
BY GotoFields DEF Rests, Pending

LEMMA SucceedRests ==
    ASSUME TypeInv, NEW i \in Invocations, NEW s \in Sessions, ~Pending(i, s),
           inv[i].at # "respond", Succeed(i)
    PROVE  Rests(i, s)
BY SucceedFields DEF Rests, Pending

LEMMA ResendRests ==
    ASSUME NEW i \in Invocations, NEW s \in Sessions, ~Pending(i, s), Resend(i)
    PROVE  Rests(i, s)
BY DEF Resend, Rests, OnlyFrame, Pending
-----------------------------------------------------------------------------
(* No endpoint goes to work for a spent session, except to abort it.       *)

LEMMA SessionRests ==
    ASSUME TypeInv, NEW i \in Invocations, SessionStep(i),
           NEW s \in Sessions, Spent(s), ~Pending(i, s)
    PROVE  Rests(i, s)
<1>1. CASE RejectSessionRequest(i)
  BY <1>1, FailRests DEF RejectSessionRequest
<1>2. ASSUME NEW t \in Sessions, NEW shared \in {NoClaim, SharedClaim},
             AcceptSessionRequest(i, t, shared)
      PROVE  Rests(i, s)
  <2>1. t # s
    BY <1>2 DEF AcceptSessionRequest, FreshSession, Spent
  <2>2. Opening(t, now + SessionTtl, shared).sid = t
    BY DEF Opening, Begin
  <2> QED
    BY <1>2, <2>1, <2>2, FailRests, EnterFields, FrameElsewhere DEF AcceptSessionRequest
<1>3. CASE PutSession(i)
  BY <1>3, FailRests, GotoRests, ResendRests DEF PutSession, At, Points
<1>4. CASE PutPerson(i)
  BY <1>4, FailRests, GotoRests, ResendRests DEF PutPerson, At, Points
<1>5. CASE AuditStart(i)
  BY <1>5, SucceedRests DEF AuditStart, Sending, At
<1> QED
  BY <1>1, <1>2, <1>3, <1>4, <1>5 DEF SessionStep

LEMMA ClaimedIdentityRests ==
    ASSUME TypeInv, NEW i \in Invocations, ClaimedIdentityStep(i),
           NEW s \in Sessions, Spent(s), ~Pending(i, s)
    PROVE  Rests(i, s)
<1>1. ASSUME NEW t \in opened, NEW claim \in Claims, ReceiveClaim(i, t, claim)
      PROVE  Rests(i, s)
  <2>1. ASSUME NEW row \in LiveSession(t), row.state = "CIC_SESSION_CREATED",
               Enter(i, Claiming(t, claim, row.expiry))
        PROVE  Rests(i, s)
    <3>1. t # s
      BY <2>1, SpentReads
    <3>2. Claiming(t, claim, row.expiry).sid = t
      BY DEF Claiming, Begin
    <3> QED
      BY <2>1, <3>1, <3>2, EnterFields, FrameElsewhere
  <2> QED
    BY <1>1, <2>1, FailRests, NoSessionFoundRests, AnswerRests DEF ReceiveClaim
<1>2. CASE UpdatePerson(i)
  BY <1>2, FailRests, GotoRests, ResendRests DEF UpdatePerson, At, Points
<1>3. CASE UpdateState(i)
  BY <1>3, FailRests, SucceedRests, ResendRests DEF UpdateState, At
<1> QED
  BY <1>1, <1>2, <1>3 DEF ClaimedIdentityStep

LEMMA AuthorizationRests ==
    ASSUME TypeInv, NEW i \in Invocations, AuthorizationStep(i),
           NEW s \in Sessions, Spent(s), ~Pending(i, s)
    PROVE  Rests(i, s)
<1>1. ASSUME NEW t \in opened, RequestCode(i, t)
      PROVE  Rests(i, s)
  <2>1. ASSUME NEW row \in LiveSession(t), NEW k, row.state = "CIC_DATA_RECEIVED",
               Enter(i, Holding("setCode", t, k))
        PROVE  Rests(i, s)
    <3>1. t # s
      BY <2>1, SpentReads
    <3>2. Holding("setCode", t, k).sid = t
      BY DEF Holding, Begin
    <3> QED
      BY <2>1, <3>1, <3>2, EnterFields, FrameElsewhere
  <2>2. ASSUME NEW row \in LiveSession(t),
               row.state \in {"CIC_AUTH_CODE_ISSUED", "CIC_ACCESS_TOKEN_ISSUED"},
               Enter(i, Reply(Holding("respond", t, row.code), 200))
        PROVE  Rests(i, s)
    <3> DEFINE frame == Holding("respond", t, row.code)
    <3>1. t \in Sessions
      BY DEF TypeInv, TypeOK, LambdaTypeOK
    <3>2. row.code \in Codes \cup {NoCode}
      BY <3>1, SessionReadsType DEF LiveSession, SessionRow, TypeInv, TypeOK
    <3>3. frame \in Invocation
      BY <3>1, <3>2, HoldingType DEF Points, Frames
    <3>4. frame.op = "authorization" /\ frame.sid = t /\ frame.code = row.code
      BY DEF Holding, Begin
    <3>5. OnlyFrame(i) /\ inv'[i] = Reply(frame, 200)
      BY <2>2, EnterFields
    <3>6. /\ inv'[i].op = "authorization" /\ inv'[i].sid = t /\ inv'[i].at = "respond"
          /\ inv'[i].code = row.code
      <4> HIDE DEF frame
      <4> QED BY <3>3, <3>4, <3>5, ReplyFields
    <3>7. t = s => row.code = NoCode
      BY <2>2, SpentReads
    <3> QED
      BY <3>5, <3>6, <3>7 DEF Rests, Pending
  <2> QED
    BY <1>1, <2>1, <2>2, FailRests, NoSessionFoundRests DEF RequestCode
<1>2. CASE SetCode(i)
  BY <1>2, FailRests, GotoRests, ResendRests DEF SetCode, At, Points
<1>3. CASE AuditCode(i)
  BY <1>3, SucceedRests DEF AuditCode, Sending, At
<1> QED
  BY <1>1, <1>2, <1>3 DEF AuthorizationStep

LEMMA TokenRests ==
    ASSUME TypeInv, NEW i \in Invocations, TokenStep(i),
           NEW s \in Sessions, Spent(s), ~Pending(i, s)
    PROVE  Rests(i, s)
<1>1. ASSUME NEW k, RequestToken(i, k)
      PROVE  Rests(i, s)
  <2>1. ASSUME NEW t \in Sessions, NEW row \in IndexReads(t), ~Expired(row),
               row.state = "CIC_AUTH_CODE_ISSUED", Enter(i, Begin("token", "verify", t))
        PROVE  Rests(i, s)
    <3>1. t # s
      BY <2>1 DEF Spent, Exchangeable
    <3>2. Begin("token", "verify", t).sid = t
      BY DEF Begin
    <3> QED
      BY <2>1, <3>1, <3>2, EnterFields, FrameElsewhere
  <2> QED
    BY <1>1, <2>1, FailRests DEF RequestToken
<1>2. CASE VerifyAndSign(i)
  <2>1. inv[i] \in Invocation /\ inv[i].sid # s
    BY <1>2 DEF VerifyAndSign, At, Pending, TypeInv, Frames
  <2>2. Signed(inv[i], now + TokenTtl).sid = inv[i].sid
    BY <2>1 DEF Signed, Invocation
  <2> QED
    BY <1>2, <2>1, <2>2, FailRests, EnterFields, FrameElsewhere DEF VerifyAndSign
<1>3. CASE UpdateToken(i)
  BY <1>3, FailRests, SucceedRests, ResendRests DEF UpdateToken, At
<1> QED
  BY <1>1, <1>2, <1>3 DEF TokenStep

LEMMA EndpointRests ==
    ASSUME TypeInv, NEW i \in Invocations, EndpointStep(i),
           NEW s \in Sessions, Spent(s), ~Pending(i, s)
    PROVE  Rests(i, s)
<1>1. CASE UserInfoStep(i)
  BY <1>1, UserInfoFrames DEF FetchFrame, FrameOf, Rests, Pending
<1>2. CASE AbortStep(i)
  BY <1>2, AbortFrames DEF FrameOf, Rests, Pending
<1> QED
  BY <1>1, <1>2, SessionRests, ClaimedIdentityRests, AuthorizationRests, TokenRests
     DEF EndpointStep

\* No call begins to work for a spent session, nor to fetch a credential of a closed one.
LEMMA StepFrames ==
    ASSUME IInv, [Next]_vars, NEW s \in Sessions, Spent(s), NEW j \in Invocations
    PROVE  /\ Pending(j, s)' => Pending(j, s)
           /\ Closed(s) => (Fetching(j, s)' => Fetching(j, s))
<1>0. TypeInv
  BY DEF IInv
<1>1. CASE inv'[j] = inv[j]
  BY <1>1 DEF Pending, Fetching
<1>2. CASE EndpointStep(j)
  <2>1. Pending(j, s)' => Pending(j, s)
    BY <1>0, <1>2, EndpointRests DEF Rests
  <2>2. ASSUME Closed(s), Fetching(j, s)'
        PROVE  Fetching(j, s)
    <3>1. FetchFrame(j) /\ inv'[j].op = "userinfo" /\ inv'[j].sid = s
      BY <1>0, <1>2, <2>2, EndpointFrames DEF Fetching
    <3>2. ASSUME NEW row \in LiveSession(s)
          PROVE  row.state # "CIC_ACCESS_TOKEN_ISSUED"
      <4>1. row \in SessionReads(s) /\ row.state # "MISSING" /\ ~Expired(row)
        BY DEF LiveSession
      <4>2. Shut(row)
        BY <2>2, <4>1 DEF Closed
      <4> QED
        BY <4>1, <4>2 DEF Shut
    <3> QED
      BY <2>2, <3>1, <3>2 DEF FetchFrame, Fetching
  <2> QED
    BY <2>1, <2>2
<1>3. ASSUME NEW i \in Invocations, EndpointStep(i), i # j
      PROVE  inv'[j] = inv[j]
  BY <1>0, <1>3, EndpointFrames DEF OnlyFrame
<1>4. ASSUME NEW i \in Invocations, Enter(i, Idle)
      PROVE  inv'[j] = inv[j] \/ inv'[j].sid # s
  BY <1>0, <1>4, IdleFields, InvocationAssumption DEF OnlyFrame
<1>5. CASE Environment \/ UNCHANGED vars
  BY <1>1, <1>5 DEF Environment, vars
<1>6. CASE inv'[j].sid # s
  BY <1>6 DEF Pending, Fetching
<1> QED
  BY <1>1, <1>2, <1>3, <1>4, <1>5, <1>6 DEF Next, Respond, Crash
-----------------------------------------------------------------------------
(* With no call at work for it, a spent session stays spent and a closed   *)
(* one closed.                                                             *)

NonePending(s) == \A i \in Invocations : ~Pending(i, s)

LEMMA StepStore ==
    ASSUME IInv, [Next]_vars, NEW s \in Sessions, NonePending(s)
    PROVE  /\ \/ sessionTable'[s] = sessionTable[s]
              \/ sessionTable'[s].state \in {"MISSING", "CIC_CRI_SESSION_ABORTED"}
           /\ personTable'[s] \in {personTable[s], NoPersonRow}
           /\ StoredOf(s)' = StoredOf(s)
           /\ opened \subseteq opened'
<1>0. TypeInv
  BY DEF IInv
<1>1. ASSUME NEW i \in Invocations, EndpointStep(i)
      PROVE  /\ \/ sessionTable'[s] = sessionTable[s]
                \/ sessionTable'[s].state = "CIC_CRI_SESSION_ABORTED"
             /\ personTable'[s] = personTable[s]
             /\ StoredOf(s)' = StoredOf(s)
             /\ opened' = opened
  BY <1>0, <1>1, EndpointWrites DEF Wrote, NonePending, clientVars
<1>2. CASE Environment
  <2>1. NoSessionRow.state = "MISSING"
    BY DEF NoSessionRow
  <2> QED
    BY <1>0, <1>2, <2>1, EnvironmentRows DEF StoredOf, clientVars
<1>3. CASE (\E i \in Invocations : Respond(i) \/ Crash(i)) \/ UNCHANGED vars
  BY <1>3 DEF Respond, Crash, vars, storeVars, sessionVars, personVars, clientVars, StoredOf
<1> QED
  BY <1>1, <1>2, <1>3 DEF Next

LEMMA ExpiredStays ==
    ASSUME NEW row \in SessionRow, Expired(row), now \in Nat, now' \in Nat, now <= now'
    PROVE  Expired(row)'
BY DEF Expired, SessionRow, Expiry, NoExpiry

\* What holds of every row that can be read, and is as good as shut or an exchanged row.
LEMMA ReadsStay ==
    ASSUME IInv, [Next]_vars, NEW s \in Sessions, NonePending(s), NEW P \in SUBSET SessionRow,
           \A row \in SessionReads(s) : Shut(row) \/ row \in P
    PROVE  \A row \in SessionReads(s)' : Shut(row)' \/ row \in P
<1>1. TypeInv /\ StoreTypeOK
  BY DEF IInv, TypeInv, TypeOK
<1>2. ASSUME NEW row \in SessionReads(s)
      PROVE  Shut(row)' \/ row \in P
  <2>1. row \in SessionRow
    BY <1>1, SessionReadsType
  <2>2. now \in Nat /\ now' \in Nat /\ now <= now'
    BY <1>1, StepReads
  <2> QED
    BY <1>2, <2>1, <2>2, ExpiredStays DEF Shut
<1>3. sessionTable[s] \in SessionReads(s)
  BY DEF SessionReads
<1>4. Shut(sessionTable[s])' \/ sessionTable'[s] \in P
  BY <1>2, <1>3, StepStore DEF Shut
<1>5. Shut(NoSessionRow)'
  BY DEF Shut, NoSessionRow
<1> QED
  BY <1>1, <1>2, <1>4, <1>5, StepReads DEF Shut

LEMMA ExchangeableStays ==
    ASSUME IInv, [Next]_vars, NEW s \in Sessions, NonePending(s), ~Exchangeable(s)
    PROVE  ~Exchangeable(s)'
<1>1. TypeInv /\ \A row \in IndexReads(s) : row \in SessionRow
  BY DEF IInv, TypeInv, TypeOK, StoreTypeOK, IndexReads
<1>2. ASSUME NEW row \in IndexReads(s)
      PROVE  row.state # "CIC_AUTH_CODE_ISSUED" \/ Expired(row)'
  <2>1. now \in Nat /\ now' \in Nat /\ now <= now'
    BY <1>1, StepReads
  <2> QED
    BY <1>1, <2>1, ExpiredStays DEF Exchangeable
<1>3. sessionTable'[s].state # "CIC_AUTH_CODE_ISSUED" \/ sessionTable'[s] \in IndexReads(s)
  BY StepStore DEF IndexReads
<1>4. NoSessionRow.state = "MISSING"
  BY DEF NoSessionRow
<1> QED
  BY <1>1, <1>2, <1>3, <1>4, StepReads DEF Exchangeable

\* What callers are given comes with a reply.
LEMMA StepGrants ==
    ASSUME IInv, [Next]_vars, NEW s \in Sessions
    PROVE  /\ NonePending(s) => CodesOf(s)' = CodesOf(s) /\ TokensOf(s)' = TokensOf(s)
           /\ (\A i \in Invocations : ~Fetching(i, s)) => CredentialsOf(s)' = CredentialsOf(s)
<1>0. TypeInv
  BY DEF IInv
<1>1. ASSUME NEW i \in Invocations, Respond(i)
      PROVE  /\ ~Pending(i, s) => CodesOf(s)' = CodesOf(s) /\ TokensOf(s)' = TokensOf(s)
             /\ ~Fetching(i, s) => CredentialsOf(s)' = CredentialsOf(s)
  <2>0. inv[i].at = "respond"
    BY <1>1 DEF Respond
  <2>1. ~Pending(i, s) => CodesOf(s)' = CodesOf(s)
    BY <1>1, <2>0 DEF Respond, CodesOf, Pending
  <2>2. ~Pending(i, s) => TokensOf(s)' = TokensOf(s)
    <3>1. ~Pending(i, s) /\ inv[i].op = "token" =>
            [sub |-> inv[i].sid, exp |-> inv[i].expiry].sub # s
      BY <2>0 DEF Pending
    <3> QED
      BY <1>1, <3>1 DEF Respond, TokensOf
  <2>3. inv[i].op = "userinfo" => inv[i].state = "CIC_ACCESS_TOKEN_ISSUED"
    BY <2>0 DEF IInv, FramesBacked, FrameBacked, UserInfoFrame
  <2>4. ~Fetching(i, s) => CredentialsOf(s)' = CredentialsOf(s)
    BY <1>1, <2>3 DEF Respond, CredentialsOf, Fetching
  <2> QED
    BY <2>1, <2>2, <2>4
<1>2. CASE UNCHANGED clientVars
  BY <1>2 DEF clientVars, CodesOf, TokensOf, CredentialsOf
<1>3. ASSUME NEW i \in Invocations, EndpointStep(i)
      PROVE  UNCHANGED clientVars
  BY <1>0, <1>3, EndpointWrites DEF Wrote
<1> QED
  BY <1>1, <1>2, <1>3 DEF Next, Crash, Environment, vars, NonePending

LEMMA SpentStep ==
    ASSUME IInv, [Next]_vars, NEW s \in Sessions, Spent(s)
    PROVE  /\ \A i \in Invocations : Pending(i, s)' => Pending(i, s)
           /\ NonePending(s) =>
                /\ Spent(s)'
                /\ UNCHANGED <<StoredOf(s), CodesOf(s), TokensOf(s)>>
                /\ personTable'[s] \in {personTable[s], NoPersonRow}
<1>1. \A i \in Invocations : Pending(i, s)' => Pending(i, s)
  BY StepFrames
<1>2. ASSUME NonePending(s)
      PROVE  Spent(s)'
  <2> DEFINE P == {row \in SessionRow :
                      row.state = "CIC_ACCESS_TOKEN_ISSUED" /\ row.code = NoCode}
  <2>1. \A row \in SessionReads(s) : Shut(row) \/ row \in P
    BY SessionReadsType DEF Spent, IInv, TypeInv, TypeOK
  <2>2. \A row \in SessionReads(s)' : Shut(row)' \/ row \in P
    <3> HIDE DEF P
    <3>1. P \in SUBSET SessionRow
      BY DEF P
    <3> QED
      BY <1>2, <2>1, <3>1, ReadsStay
  <2>3. s \in opened'
    BY <1>2, StepStore DEF Spent
  <2>4. ~Exchangeable(s)'
    BY <1>2, ExchangeableStays DEF Spent
  <2> QED
    BY <2>2, <2>3, <2>4 DEF Spent
<1> QED
  BY <1>1, <1>2, StepGrants, StepStore

LEMMA ClosedStep ==
    ASSUME IInv, [Next]_vars, NEW s \in Sessions, Closed(s)
    PROVE  /\ \A i \in Invocations :
                (Pending(i, s)' => Pending(i, s)) /\ (Fetching(i, s)' => Fetching(i, s))
           /\ NonePending(s) => Closed(s)' /\ UNCHANGED <<StoredOf(s), CodesOf(s), TokensOf(s)>>
           /\ (\A i \in Invocations : ~Fetching(i, s)) => UNCHANGED CredentialsOf(s)
<1>1. \A i \in Invocations :
        (Pending(i, s)' => Pending(i, s)) /\ (Fetching(i, s)' => Fetching(i, s))
  BY ClosedIsSpent, StepFrames
<1>2. ASSUME NonePending(s)
      PROVE  Closed(s)'
  <2>1. \A row \in SessionReads(s)' : Shut(row)'
    <3> DEFINE P == {}
    <3>1. P \in SUBSET SessionRow /\ \A row : row \notin P
      OBVIOUS
    <3>2. \A row \in SessionReads(s) : Shut(row) \/ row \in P
      BY DEF Closed
    <3> HIDE DEF P
    <3>3. \A row \in SessionReads(s)' : Shut(row)' \/ row \in P
      BY <1>2, <3>1, <3>2, ReadsStay
    <3> QED
      BY <3>1, <3>3
  <2>2. s \in opened'
    BY <1>2, StepStore DEF Closed
  <2>3. ~Exchangeable(s)'
    BY <1>2, ExchangeableStays DEF Closed
  <2> QED
    BY <2>1, <2>2, <2>3 DEF Closed
<1> QED
  BY <1>1, <1>2, StepGrants, StepStore

\* While every version of a session's row that can still be read is aborted, expired or
\* missing, no call begins to work for it; and with none under way it is over for good: no
\* endpoint, retry, late index entry, stale replica or re-created row stores or hands out
\* anything of it again.
THEOREM ClosedForGood == Spec => ClosedStays
<1>1. IInv /\ [Next]_vars => [\A s \in Sessions : Closed(s) =>
          /\ \A i \in Invocations :
                (Pending(i, s)' => Pending(i, s)) /\ (Fetching(i, s)' => Fetching(i, s))
          /\ (\A i \in Invocations : ~Pending(i, s)) =>
                Closed(s)' /\ UNCHANGED <<StoredOf(s), CodesOf(s), TokensOf(s)>>
          /\ (\A i \in Invocations : ~Fetching(i, s)) => UNCHANGED CredentialsOf(s)]_vars
  BY ClosedStep DEF NonePending
<1> QED
  BY <1>1, InvariantHolds, PTL DEF Spec, ClosedStays

\* Once every version of its row that can still be read shows the exchange of its code, no
\* call begins to work for a second code or token or another claim of the session; and with
\* none under way there is none, and the person whose credential is fetched is not replaced
\* any more, only deleted.
THEOREM SpentForGood == Spec => SpentStays
<1>1. IInv /\ [Next]_vars => [\A s \in Sessions : Spent(s) =>
          /\ \A i \in Invocations : Pending(i, s)' => Pending(i, s)
          /\ (\A i \in Invocations : ~Pending(i, s)) =>
                /\ Spent(s)'
                /\ UNCHANGED <<StoredOf(s), CodesOf(s), TokensOf(s)>>
                /\ personTable'[s] \in {personTable[s], NoPersonRow}]_vars
  BY SpentStep DEF NonePending
<1> QED
  BY <1>1, InvariantHolds, PTL DEF Spec, SpentStays
-----------------------------------------------------------------------------
(* A row re-created after the TTL deleted it.                              *)

LEMMA TokenNotBegun ==
    ASSUME TypeInv, NEW i \in Invocations, TokenStep(i), NEW s \in Sessions, Deleted(s),
           inv'[i].op = "token", inv'[i].sid = s
    PROVE  inv[i].op = "token" /\ inv[i].sid = s
<1>1. ASSUME NEW k, RequestToken(i, k)
      PROVE  FALSE
  <2>1. ASSUME NEW t \in Sessions, NEW row \in IndexReads(t), row.registered,
               Enter(i, Begin("token", "verify", t))
        PROVE  FALSE
    <3>1. inv'[i].sid = t
      BY <2>1, EnterFields DEF Begin
    <3> QED
      BY <2>1, <3>1 DEF Deleted
  <2> QED
    BY <1>1, <2>1, FailFields DEF RequestToken
<1>2. CASE VerifyAndSign(i)
  <2>1. inv[i] \in Invocation
    BY DEF TypeInv, Frames
  <2>2. Signed(inv[i], now + TokenTtl).sid = inv[i].sid
    BY <2>1 DEF Signed, Invocation
  <2> QED
    BY <1>2, <2>2, FailFields, EnterFields DEF VerifyAndSign, At
<1>3. CASE UpdateToken(i)
  BY <1>3, FailFields, SucceedFields DEF UpdateToken, At, Resend
<1> QED
  BY <1>1, <1>2, <1>3 DEF TokenStep

LEMMA DeletedStep ==
    ASSUME IInv, [Next]_vars, NEW s \in Sessions, Deleted(s)
    PROVE  /\ Deleted(s)'
           /\ \A i \in Invocations :
                inv'[i].sid = s /\ inv'[i].op = "token" =>
                    inv[i].sid = s /\ inv[i].op = "token"
           /\ TokensOf(s)' \subseteq TokensOf(s) \cup
                {[sub |-> s, exp |-> inv[i].expiry] :
                    i \in {j \in Invocations : inv[j].sid = s /\ inv[j].op = "token"}}
<1>0. TypeInv /\ Secluded /\ s \in opened
  BY DEF IInv, Deleted
<1>1. Deleted(s)'
  <2>1. ~sessionTable[s].registered
    BY DEF Deleted, IndexReads
  <2>2. ~NoSessionRow.registered
    BY DEF NoSessionRow
  <2>3. ~sessionTable'[s].registered /\ opened \subseteq opened'
    <3>1. ASSUME NEW i \in Invocations, EndpointStep(i)
          PROVE  ~sessionTable'[s].registered /\ opened' = opened
      <4>1. ~(inv[i].op = "session" /\ inv[i].sid = s)
        BY <1>0 DEF Secluded
      <4> QED
        BY <1>0, <2>1, <3>1, <4>1, EndpointWrites DEF Wrote, clientVars
    <3>2. CASE Environment
      BY <1>0, <2>1, <2>2, <3>2, EnvironmentRows DEF clientVars
    <3>3. CASE (\E i \in Invocations : Respond(i) \/ Crash(i)) \/ UNCHANGED vars
      BY <2>1, <3>3 DEF Respond, Crash, vars, storeVars, sessionVars, clientVars
    <3> QED
      BY <3>1, <3>2, <3>3 DEF Next
  <2>4. \A row \in IndexReads(s)' : ~row.registered
    BY <1>0, <2>2, <2>3, StepReads DEF Deleted
  <2> QED
    BY <1>0, <2>3, <2>4 DEF Deleted
<1>2. ASSUME NEW j \in Invocations, inv'[j].sid = s, inv'[j].op = "token"
      PROVE  inv[j].sid = s /\ inv[j].op = "token"
  <2>1. CASE inv'[j] = inv[j]
    BY <1>2, <2>1
  <2>2. CASE EndpointStep(j)
    BY <1>0, <1>2, <2>2, EndpointFrames, TokenNotBegun
  <2>3. ASSUME NEW i \in Invocations, EndpointStep(i), i # j
        PROVE  inv'[j] = inv[j]
    BY <1>0, <2>3, EndpointFrames DEF OnlyFrame
  <2>4. ASSUME NEW i \in Invocations, Enter(i, Idle)
        PROVE  inv'[j] = inv[j]
    BY <1>0, <1>2, <2>4, IdleFields, InvocationAssumption DEF OnlyFrame
  <2> QED
    BY <2>1, <2>2, <2>3, <2>4 DEF Next, Respond, Crash, Environment, vars
<1>3. TokensOf(s)' \subseteq TokensOf(s) \cup
        {[sub |-> s, exp |-> inv[i].expiry] :
            i \in {j \in Invocations : inv[j].sid = s /\ inv[j].op = "token"}}
  <2> SUFFICES ASSUME NEW g \in tokens', g.sub = s, g \notin tokens
               PROVE  \E i \in Invocations : /\ inv[i].sid = s /\ inv[i].op = "token"
                                             /\ g = [sub |-> s, exp |-> inv[i].expiry]
    BY DEF TokensOf
  <2>1. PICK i \in Invocations : Respond(i)
    <3>1. ASSUME NEW i \in Invocations, EndpointStep(i)
          PROVE  UNCHANGED tokens
      BY <1>0, <3>1, EndpointWrites DEF Wrote, clientVars
    <3> QED
      BY <3>1 DEF Next, Crash, Environment, vars, clientVars
  <2>2. inv[i].op = "token" /\ g = [sub |-> inv[i].sid, exp |-> inv[i].expiry]
    BY <2>1 DEF Respond
  <2>3. inv[i].sid = s
    BY <2>2
  <2> QED
    BY <2>2, <2>3
<1> QED
  BY <1>1, <1>2, <1>3

\* A session whose row the TTL has deleted, in every version that can still be read, never
\* leads to a token again, although a late update may re-create the row, without its
\* expiryDate: only a call that looked the code up before hands one out.
THEOREM DeletedIsDeadEnd == Spec => RecreatedIsDeadEnd
<1>1. IInv /\ [Next]_vars => [\A s \in Sessions : Deleted(s) =>
          /\ Deleted(s)'
          /\ \A i \in Invocations :
                inv'[i].sid = s /\ inv'[i].op = "token" => inv[i].sid = s /\ inv[i].op = "token"
          /\ TokensOf(s)' \subseteq TokensOf(s) \cup
                {[sub |-> s, exp |-> inv[i].expiry] :
                    i \in {j \in Invocations : inv[j].sid = s /\ inv[j].op = "token"}}]_vars
  BY DeletedStep
<1> QED
  BY <1>1, InvariantHolds, PTL DEF Spec, RecreatedIsDeadEnd
-----------------------------------------------------------------------------
(* The refinement.                                                         *)
flowVars == <<recorded, coded, tokens, credentials>>

\* Invocation i does not take up a new code to store.
Steady(i) == OnlyFrame(i) /\ (inv'[i] = inv[i] \/ ~Storing(i)')

LEMMA HeldKept ==
    ASSUME HeldCodesFresh, NEW i \in Invocations, Steady(i), coded' = coded
    PROVE  HeldCodesFresh'
BY DEF HeldCodesFresh, Steady, OnlyFrame, Storing, At

LEMMA EnterSteady ==
    ASSUME TypeInv, NEW i \in Invocations, NEW frame, Enter(i, frame),
           frame.op # "authorization" \/ frame.at # "setCode"
    PROVE  Steady(i)
BY EnterFields DEF Steady, Storing, At

LEMMA FailSteady ==
    ASSUME TypeInv, NEW i \in Invocations, NEW status \in {400, 401, 500}, Fail(i, status)
    PROVE  Steady(i)
<1>1. Reply(Idle, status).at = "respond"
  BY IdleType, ReplyFields DEF Frames
<1> QED
  BY <1>1, EnterSteady DEF Fail

LEMMA NoSessionFoundSteady ==
    ASSUME TypeInv, NEW i \in Invocations, NEW s, NEW missing \in {400, 401, 500},
           NEW expired \in {400, 401, 500}, NoSessionFound(i, s, missing, expired)
    PROVE  Steady(i)
BY FailSteady DEF NoSessionFound

LEMMA GotoSteady ==
    ASSUME TypeInv, NEW i \in Invocations, NEW point \in Points \ {"setCode"}, Goto(i, point)
    PROVE  Steady(i)
BY GotoFields DEF Steady, Storing, At

LEMMA SucceedSteady ==
    ASSUME TypeInv, NEW i \in Invocations, Succeed(i)
    PROVE  Steady(i)
BY SucceedFields DEF Steady, Storing, At

LEMMA AnswerSteady ==
    ASSUME TypeInv, NEW i \in Invocations, NEW s \in opened,
           NEW op \in {"claimedIdentity", "abort", "sessionConfig"}, Answer(i, op, s)
    PROVE  Steady(i)
BY AnswerFields DEF Steady, Storing, At

LEMMA ResendSteady ==
    ASSUME NEW i \in Invocations, Resend(i)
    PROVE  Steady(i)
BY DEF Resend, Steady, OnlyFrame
-----------------------------------------------------------------------------
(* Endpoints that neither record a claim nor take up a code.               *)

LEMMA SessionQuiet ==
    ASSUME TypeInv, NEW i \in Invocations, SessionStep(i)
    PROVE  Steady(i) /\ UNCHANGED flowVars
<1> USE DEF flowVars, storeVars, clientVars
<1>1. CASE RejectSessionRequest(i)
  BY <1>1, FailSteady DEF RejectSessionRequest
<1>2. ASSUME NEW s \in Sessions, NEW shared \in {NoClaim, SharedClaim},
             AcceptSessionRequest(i, s, shared)
      PROVE  Steady(i) /\ UNCHANGED flowVars
  <2>1. Opening(s, now + SessionTtl, shared).op = "session"
    BY DEF Opening, Begin
  <2> QED
    BY <1>2, <2>1, FailSteady, EnterSteady DEF AcceptSessionRequest
<1>3. CASE PutSession(i)
  BY <1>3, FailSteady, ResendSteady, GotoSteady DEF PutSession, Points
<1>4. CASE PutPerson(i)
  BY <1>4, FailSteady, ResendSteady, GotoSteady DEF PutPerson, Points
<1>5. CASE AuditStart(i)
  BY <1>5, SucceedSteady DEF AuditStart
<1> QED
  BY <1>1, <1>2, <1>3, <1>4, <1>5 DEF SessionStep

LEMMA TokenQuiet ==
    ASSUME TypeInv, NEW i \in Invocations, TokenStep(i)
    PROVE  Steady(i) /\ UNCHANGED flowVars
<1> USE DEF flowVars, storeVars, clientVars
<1>1. ASSUME NEW k, RequestToken(i, k)
      PROVE  Steady(i) /\ UNCHANGED flowVars
  <2>1. \A s \in Sessions : Begin("token", "verify", s).op = "token"
    BY DEF Begin
  <2> QED
    BY <1>1, <2>1, FailSteady, EnterSteady DEF RequestToken
<1>2. CASE VerifyAndSign(i)
  <2>1. inv[i] \in Invocation /\ inv[i].op = "token"
    BY <1>2 DEF VerifyAndSign, At, TypeInv, Frames
  <2>2. Signed(inv[i], now + TokenTtl).op = "token"
    BY <2>1 DEF Signed, Invocation
  <2> QED
    BY <1>2, <2>2, FailSteady, EnterSteady DEF VerifyAndSign
<1>3. CASE UpdateToken(i)
  BY <1>3, FailSteady, ResendSteady, SucceedSteady DEF UpdateToken
<1> QED
  BY <1>1, <1>2, <1>3 DEF TokenStep

LEMMA UserInfoQuiet ==
    ASSUME TypeInv, NEW i \in Invocations, UserInfoStep(i)
    PROVE  Steady(i) /\ UNCHANGED flowVars
<1> USE DEF flowVars, storeVars, clientVars
<1>1. ASSUME NEW token \in tokens, PresentToken(i, token)
      PROVE  Steady(i) /\ UNCHANGED flowVars
  <2>1. \A state : Presented(token.sub, state).op = "userinfo"
    BY DEF Presented, Begin
  <2> QED
    BY <1>1, <2>1, FailSteady, NoSessionFoundSteady, EnterSteady DEF PresentToken
<1>2. CASE GetPerson(i)
  <2>1. inv[i] \in Invocation /\ inv[i].op = "userinfo"
    BY <1>2 DEF GetPerson, At, TypeInv, Frames
  <2>2. \A names : Identified(inv[i], names).op = "userinfo"
    BY <2>1 DEF Identified, Invocation
  <2> QED
    BY <1>2, <2>2, FailSteady, EnterSteady DEF GetPerson
<1>3. CASE SignCredential(i)
  BY <1>3, FailSteady, GotoSteady DEF SignCredential, Points
<1>4. CASE AuditIssued(i)
  BY <1>4, GotoSteady DEF AuditIssued, Points
<1>5. CASE AuditEnd(i)
  BY <1>5, SucceedSteady DEF AuditEnd
<1> QED
  BY <1>1, <1>2, <1>3, <1>4, <1>5 DEF UserInfoStep

LEMMA AbortQuiet ==
    ASSUME TypeInv, NEW i \in Invocations, AbortStep(i)
    PROVE  Steady(i) /\ UNCHANGED flowVars
<1> USE DEF flowVars, storeVars, clientVars
<1>1. ASSUME NEW s \in opened, RequestAbort(i, s)
      PROVE  Steady(i) /\ UNCHANGED flowVars
  <2>1. Begin("abort", "abortState", s).op = "abort"
    BY DEF Begin
  <2> QED
    BY <1>1, <2>1, FailSteady, NoSessionFoundSteady, AnswerSteady, EnterSteady
       DEF RequestAbort
<1>2. ASSUME NEW s \in opened, SessionConfig(i, s)
      PROVE  Steady(i) /\ UNCHANGED flowVars
  BY <1>2, FailSteady, NoSessionFoundSteady, AnswerSteady DEF SessionConfig
<1>3. CASE AbortState(i)
  BY <1>3, FailSteady, ResendSteady, GotoSteady DEF AbortState, Points
<1>4. CASE AuditAbort(i)
  BY <1>4, SucceedSteady DEF AuditAbort
<1> QED
  BY <1>1, <1>2, <1>3, <1>4 DEF AbortStep
LEMMA CrashQuiet ==
    ASSUME TypeInv, NEW i \in Invocations, Crash(i)
    PROVE  Steady(i) /\ UNCHANGED flowVars
<1>1. Idle.op = "none"
  BY DEF Idle, Begin
<1> QED
  BY <1>1, EnterSteady DEF Crash, flowVars, storeVars, clientVars
-----------------------------------------------------------------------------
(* The steps that are steps of the flow.                                   *)

\* Invocation i records its claim, or nothing of the flow changes.
RecordsClaim(i) ==
    /\ \/ inv[i].sid \in Sessions /\ inv[i].names \in Claims
          /\ recorded' = recorded \cup {<<inv[i].sid, inv[i].names>>}
       \/ recorded' = recorded
    /\ UNCHANGED <<coded, tokens, credentials>>

LEMMA ClaimedIdentityRecords ==
    ASSUME TypeInv, NEW i \in Invocations, ClaimedIdentityStep(i)
    PROVE  Steady(i) /\ RecordsClaim(i)
<1> USE DEF RecordsClaim, storeVars, clientVars
<1>1. ASSUME NEW s \in opened, NEW claim \in Claims, ReceiveClaim(i, s, claim)
      PROVE  Steady(i) /\ RecordsClaim(i)
  <2>1. \A expiry : Claiming(s, claim, expiry).op = "claimedIdentity"
    BY DEF Claiming, Begin
  <2> QED
    BY <1>1, <2>1, FailSteady, NoSessionFoundSteady, AnswerSteady, EnterSteady
       DEF ReceiveClaim
<1>2. CASE UpdatePerson(i)
  <2>1. Steady(i)
    BY <1>2, FailSteady, ResendSteady, GotoSteady DEF UpdatePerson, Points
  <2>2. inv[i].sid \in Sessions /\ inv[i].names \in Claims
    BY <1>2 DEF UpdatePerson, At, TypeInv, Frames, Shaped
  <2> QED
    BY <1>2, <2>1, <2>2 DEF UpdatePerson, SaveCICPersonInfo
<1>3. CASE UpdateState(i)
  BY <1>3, FailSteady, ResendSteady, SucceedSteady DEF UpdateState
<1> QED
  BY <1>1, <1>2, <1>3 DEF ClaimedIdentityStep

\* Invocation i stores its code, or nothing of the flow changes.
StoresCode(i) ==
    /\ \/ /\ Storing(i)
          /\ coded' = coded \cup {<<inv[i].sid, inv[i].code>>}
       \/ coded' = coded
    /\ UNCHANGED <<recorded, tokens, credentials>>

\* Invocation i takes up a code nobody has or had.
TakesUpCode(i) ==
    /\ OnlyFrame(i)
    /\ FreshCode(inv'[i].code)
    /\ UNCHANGED flowVars

LEMMA AuthorizationStores ==
    ASSUME TypeInv, NEW i \in Invocations, AuthorizationStep(i)
    PROVE  \/ TakesUpCode(i)
           \/ Steady(i) /\ StoresCode(i)
<1> USE DEF StoresCode, TakesUpCode, flowVars, storeVars, clientVars
<1>1. ASSUME NEW s \in opened, RequestCode(i, s)
      PROVE  TakesUpCode(i) \/ (Steady(i) /\ StoresCode(i))
  <2>1. ASSUME NEW k \in Codes, FreshCode(k), Enter(i, Holding("setCode", s, k))
        PROVE  TakesUpCode(i)
    <3>1. OnlyFrame(i) /\ inv'[i] = Holding("setCode", s, k)
      BY <2>1, EnterFields
    <3>2. inv'[i].code = k
      BY <3>1 DEF Holding, Begin
    <3> QED
      BY <1>1, <2>1, <3>1, <3>2 DEF RequestCode
  <2>2. ASSUME NEW row \in LiveSession(s), Enter(i, Reply(Holding("respond", s, row.code), 200))
        PROVE  Steady(i)
    <3>1. s \in Sessions
      BY DEF TypeInv, TypeOK, LambdaTypeOK
    <3>2. row.code \in Codes \cup {NoCode}
      BY <3>1, SessionReadsType DEF LiveSession, SessionRow, TypeInv, TypeOK
    <3>3. Holding("respond", s, row.code) \in Invocation
      BY <3>1, <3>2, HoldingType DEF Points, Frames
    <3>4. Reply(Holding("respond", s, row.code), 200).at = "respond"
      BY <3>3, ReplyFields
    <3> QED
      BY <2>2, <3>4, EnterSteady
  <2> QED
    BY <1>1, <2>1, <2>2, FailSteady, NoSessionFoundSteady DEF RequestCode
<1>2. CASE SetCode(i)
  <2>1. Steady(i)
    BY <1>2, FailSteady, ResendSteady, GotoSteady DEF SetCode, Points
  <2> QED
    BY <1>2, <2>1 DEF SetCode, SetAuthorizationCode, Storing
<1>3. CASE AuditCode(i)
  BY <1>3, SucceedSteady DEF AuditCode
<1> QED
  BY <1>1, <1>2, <1>3 DEF AuthorizationStep

LEMMA HeldAfterTaking ==
    ASSUME HeldCodesFresh, NEW i \in Invocations, TakesUpCode(i)
    PROVE  HeldCodesFresh'
<1> USE DEF TakesUpCode, flowVars
<1>1. \A j \in Invocations : j # i => inv'[j] = inv[j] /\ inv[j].code # inv'[i].code
  BY DEF OnlyFrame, FreshCode
<1>2. \A s \in Sessions : <<s, inv'[i].code>> \notin coded
  BY DEF FreshCode
<1> QED
  BY <1>1, <1>2 DEF HeldCodesFresh, Storing, At

LEMMA HeldAfterStoring ==
    ASSUME HeldCodesFresh, NEW i \in Invocations, Steady(i), StoresCode(i)
    PROVE  HeldCodesFresh'
<1>1. CASE coded' = coded
  BY <1>1, HeldKept
<1>2. CASE Storing(i) /\ coded' = coded \cup {<<inv[i].sid, inv[i].code>>}
  <2> SUFFICES ASSUME NEW j \in Invocations, Storing(j)'
               PROVE  /\ \A s \in Sessions : <<s, inv'[j].code>> \in coded' => s = inv'[j].sid
                      /\ \A l \in Invocations :
                            Storing(l)' /\ inv'[l].code = inv'[j].code => l = j
    BY DEF HeldCodesFresh
  <2>1. \A l \in Invocations : Storing(l)' => Storing(l) /\ inv'[l] = inv[l]
    BY DEF Steady, OnlyFrame, Storing, At
  <2> QED
    BY <1>2, <2>1 DEF HeldCodesFresh
<1> QED
  BY <1>1, <1>2 DEF StoresCode

LEMMA HeldNext == IInv /\ HeldCodesFresh /\ [Next]_vars => HeldCodesFresh'
<1> SUFFICES ASSUME IInv, HeldCodesFresh, [Next]_vars PROVE HeldCodesFresh'
  OBVIOUS
<1>0. TypeInv
  BY DEF IInv
<1>1. ASSUME NEW i \in Invocations, EndpointStep(i)
      PROVE  HeldCodesFresh'
  <2>1. CASE SessionStep(i) \/ TokenStep(i) \/ UserInfoStep(i) \/ AbortStep(i)
    BY <1>0, <2>1, SessionQuiet, TokenQuiet, UserInfoQuiet, AbortQuiet, HeldKept
       DEF flowVars
  <2>2. CASE ClaimedIdentityStep(i)
    BY <1>0, <2>2, ClaimedIdentityRecords, HeldKept DEF RecordsClaim
  <2>3. CASE AuthorizationStep(i)
    BY <1>0, <2>3, AuthorizationStores, HeldAfterTaking, HeldAfterStoring
  <2> QED
    BY <1>1, <2>1, <2>2, <2>3 DEF EndpointStep
<1>2. ASSUME NEW i \in Invocations, Respond(i)
      PROVE  HeldCodesFresh'
  <2>1. Idle.op = "none"
    BY DEF Idle, Begin
  <2> QED
    BY <1>0, <1>2, <2>1, EnterSteady, HeldKept DEF Respond, storeVars
<1>3. ASSUME NEW i \in Invocations, Crash(i)
      PROVE  HeldCodesFresh'
  BY <1>0, <1>3, CrashQuiet, HeldKept DEF flowVars
<1>4. CASE Environment \/ UNCHANGED vars
  <2>1. inv' = inv /\ coded' = coded
    BY <1>4 DEF Environment, StoreStep, Tick, CatchUpSession, CatchUpPerson,
         DeleteExpiredSession, DeleteExpiredPerson, vars, storeVars
  <2> QED
    BY <2>1 DEF HeldCodesFresh, Storing, At
<1> QED
  BY <1>1, <1>2, <1>3, <1>4 DEF Next
-----------------------------------------------------------------------------
(* The mapping.                                                            *)

LEMMA FlowStutter ==
    ASSUME UNCHANGED flowVars
    PROVE  UNCHANGED Flow!vars
BY DEF flowVars, Flow!vars

\* A claim may only be recorded of a session, so RecordClaim has no other condition.
LEMMA ClaimedIdentityFlows ==
    ASSUME NEW i \in Invocations, RecordsClaim(i)
    PROVE  [Flow!Next]_(Flow!vars)
<1>1. CASE recorded' = recorded
  BY <1>1, FlowStutter DEF RecordsClaim, flowVars
<1>2. CASE /\ inv[i].sid \in Sessions /\ inv[i].names \in Claims
           /\ recorded' = recorded \cup {<<inv[i].sid, inv[i].names>>}
  <2>1. Flow!RecordClaim(inv[i].sid, inv[i].names)
    BY <1>2 DEF RecordsClaim, Flow!RecordClaim
  <2> QED
    BY <1>2, <2>1 DEF Flow!Next
<1> QED
  BY <1>1, <1>2 DEF RecordsClaim

\* A code is stored a second time (Resend), or it is new and its session has a claim.
LEMMA AuthorizationFlows ==
    ASSUME IInv, HeldCodesFresh, NEW i \in Invocations, StoresCode(i)
    PROVE  [Flow!Next]_(Flow!vars)
<1>1. CASE coded' = coded
  BY <1>1, FlowStutter DEF StoresCode, flowVars
<1>2. CASE Storing(i) /\ coded' = coded \cup {<<inv[i].sid, inv[i].code>>} /\ coded' # coded
  <2>1. inv[i].sid \in Sessions /\ inv[i].code \in Codes /\ HasClaim(inv[i].sid)
    BY <1>2 DEF Storing, At, IInv, TypeInv, Frames, Shaped, FramesBacked, FrameBacked,
       AuthorizationFrame
  <2>2. \A s \in Sessions : <<s, inv[i].code>> \notin coded
    BY <1>2 DEF HeldCodesFresh
  <2>3. Flow!IssueCode(inv[i].sid, inv[i].code)
    BY <1>2, <2>1, <2>2 DEF StoresCode, HasClaim, Flow!IssueCode
  <2> QED
    BY <2>1, <2>3 DEF Flow!Next
<1> QED
  BY <1>1, <1>2 DEF StoresCode

LEMMA RespondFlows ==
    ASSUME IInv, ~StaleReads, NEW i \in Invocations, Respond(i)
    PROVE  [Flow!Next]_(Flow!vars)
<1> DEFINE s == inv[i].sid
<1>0. /\ inv[i].at = "respond"
      /\ FrameBacked(inv[i]) /\ Shaped(inv[i])
      /\ recorded' = recorded /\ coded' = coded
  BY DEF Respond, IInv, FramesBacked, TypeInv, Frames, storeVars
<1>1. CASE inv[i].op = "token" /\ inv[i].status = 200
  <2>1. s \in Sessions /\ HasCode(s)
    BY <1>0, <1>1 DEF Shaped, FrameBacked, TokenFrame
  <2>2. /\ tokens' = tokens \cup {[sub |-> s, exp |-> inv[i].expiry]}
        /\ credentials' = credentials
    BY <1>1 DEF Respond
  <2>3. {t.sub : t \in tokens'} = {t.sub : t \in tokens} \cup {s}
    <3>1. [sub |-> s, exp |-> inv[i].expiry].sub = s
      OBVIOUS
    <3>2. \A x : x \in {t.sub : t \in tokens'} <=> x \in {t.sub : t \in tokens} \cup {s}
      BY <2>2, <3>1
    <3> QED
      BY <3>2
  <2> QED
    BY <1>0, <2>1, <2>2, <2>3 DEF HasCode, Flow!GrantToken, Flow!Next
<1>2. CASE inv[i].op = "userinfo" /\ inv[i].status = 200
  <2>1. s \in Sessions /\ HasToken(s) /\ <<s, inv[i].names>> \in recorded
    BY <1>0, <1>2 DEF Shaped, FrameBacked, UserInfoFrame
  <2>2. inv[i].names \in Claims
    BY <2>1 DEF IInv, TypeInv, TypeOK, StoreTypeOK
  <2>3. credentials' = credentials \cup {<<s, inv[i].names>>} /\ tokens' = tokens
    BY <1>2 DEF Respond
  <2>4. Flow!IssueCredential(s, inv[i].names)
    BY <1>0, <2>1, <2>3 DEF HasToken, Flow!IssueCredential
  <2> QED
    BY <2>1, <2>2, <2>4 DEF Flow!Next
<1>3. CASE inv[i].op \notin {"token", "userinfo"} \/ inv[i].status # 200
  <2>1. UNCHANGED flowVars
    BY <1>0, <1>3 DEF Respond, flowVars
  <2> QED
    BY <2>1, FlowStutter
<1> QED
  BY <1>1, <1>2, <1>3

LEMMA NextFlows ==
    IInv /\ HeldCodesFresh /\ ~StaleReads /\ [Next]_vars => [Flow!Next]_(Flow!vars)
<1> SUFFICES ASSUME IInv, HeldCodesFresh, ~StaleReads, [Next]_vars
             PROVE  [Flow!Next]_(Flow!vars)
  OBVIOUS
<1>0. TypeInv
  BY DEF IInv
<1>1. ASSUME NEW i \in Invocations, EndpointStep(i)
      PROVE  [Flow!Next]_(Flow!vars)
  <2>1. CASE SessionStep(i) \/ TokenStep(i) \/ UserInfoStep(i) \/ AbortStep(i)
    BY <1>0, <2>1, SessionQuiet, TokenQuiet, UserInfoQuiet, AbortQuiet, FlowStutter
  <2>2. CASE ClaimedIdentityStep(i)
    BY <1>0, <2>2, ClaimedIdentityRecords, ClaimedIdentityFlows
  <2>3. CASE AuthorizationStep(i)
    BY <1>0, <2>3, AuthorizationStores, AuthorizationFlows, FlowStutter DEF TakesUpCode
  <2> QED
    BY <1>1, <2>1, <2>2, <2>3 DEF EndpointStep
<1>2. ASSUME NEW i \in Invocations, Crash(i)
      PROVE  [Flow!Next]_(Flow!vars)
  BY <1>0, <1>2, CrashQuiet, FlowStutter
<1>3. CASE Environment \/ UNCHANGED vars
  <2>1. UNCHANGED flowVars
    BY <1>3 DEF Environment, StoreStep, Tick, CatchUpSession, CatchUpPerson,
         DeleteExpiredSession, DeleteExpiredPerson, flowVars, clientVars, vars, storeVars
  <2> QED
    BY <2>1, FlowStutter
<1> QED
  BY <1>1, <1>2, <1>3, RespondFlows DEF Next

\* With consistent reads the endpoints, however they interleave, fail, crash and repeat
\* their calls, implement the claim flow: each artefact they store or hand out is granted
\* on the strength of the one before it, and a code belongs to one session.
THEOREM ClaimFlowImplemented ==
    ASSUME ~StaleReads
    PROVE  Spec => ImplementsClaimFlow
<1>1. Init => HeldCodesFresh
  <2>1. Idle.op = "none"
    BY DEF Idle, Begin
  <2> QED
    BY <2>1 DEF Init, LambdaInit, HeldCodesFresh, Storing, At
<1>2. Init => Flow!Init
  BY DEF Init, StoreInit, LambdaInit, Flow!Init
<1>3. IInv /\ HeldCodesFresh /\ [Next]_vars => [Flow!Next]_(Flow!vars)
  BY NextFlows
<1> QED
  BY <1>1, <1>2, <1>3, HeldNext, InvariantHolds, PTL DEF Spec, ImplementsClaimFlow, Flow!Spec
=============================================================================
