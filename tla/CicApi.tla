------------------------------- MODULE CicApi -------------------------------
(***************************************************************************)
(* The whole credential issuer: the endpoints of one API over the shared   *)
(* tables, all of them interleaved with each other, with the database's    *)
(* own steps and with crashes.                                             *)
(***************************************************************************)
EXTENDS SessionEndpoint, ClaimedIdentityEndpoint, AuthorizationEndpoint,
        TokenEndpoint, UserInfoEndpoint, AbortEndpoint

vars == <<storeVars, inv, clientVars>>

Init == StoreInit /\ LambdaInit

EndpointStep(i) ==
    \/ SessionStep(i)
    \/ ClaimedIdentityStep(i)
    \/ AuthorizationStep(i)
    \/ TokenStep(i)
    \/ UserInfoStep(i)
    \/ AbortStep(i)

Environment == StoreStep /\ UNCHANGED <<inv, clientVars>>

Next ==
    \/ \E i \in Invocations : EndpointStep(i) \/ Respond(i) \/ Crash(i)
    \/ Environment

Spec == Init /\ [][Next]_vars

TypeOK == StoreTypeOK /\ LambdaTypeOK
-----------------------------------------------------------------------------
(* What a session has behind it.                                           *)

HasClaim(s) == \E c \in Claims : <<s, c>> \in recorded
HasCode(s) == \E k \in Codes : <<s, k>> \in coded
HasToken(s) == \E t \in tokens : t.sub = s
Reached(s, state) == <<s, state>> \in entered

\* GET /authorization "will only work if the required claimed identity data is recorded
\* as being received by that session": no code is ever stored for a session none of
\* whose claims is stored, whatever writes failed, crashed or overlapped before.
CodeNeedsClaim == \A s \in Sessions : HasCode(s) => HasClaim(s)

\* No caller holds an access token for a session that never had a code: the index, which
\* may show any version of a row it has not got past, never vouches for such a session.
TokenNeedsCode == \A s \in Sessions : HasToken(s) => HasCode(s)

\* A credential states a name that was submitted to /claimedIdentity for that session,
\* never the shared claims that /session put into the same row, because saveCICData
\* writes the person before it advances the session (needs consistent reads).
CredentialCarriesClaim == \A s \in Sessions, n \in Names :
    <<s, n>> \in credentials => <<s, n>> \in recorded

\* What a 200 or an audit event of success announces has been stored by then, whichever
\* write failed, was repeated or overtaken: the session and the shared claims /session put
\* (until they expire), the claim and the state of /claimedIdentity, the code of
\* /authorization, the exchange of /token, the abort of /abort; and nothing is said by
\* /userinfo without a token and a claim.
SuccessIsDurable == \A i \in Invocations :
    LET r == inv[i]
        announces(op) == r.op = op /\ (r.at \in {"audit", "auditEnd"} \/ r.status = 200)
        was(state) == Reached(r.sid, state)
    IN  /\ announces("session") =>
            /\ was("CIC_SESSION_CREATED")
            /\ r.names = SharedClaim /\ r.expiry >= now => personTable[r.sid].names = SharedClaim
        /\ announces("claimedIdentity") =>
            /\ was("CIC_DATA_RECEIVED") /\ HasClaim(r.sid)
            /\ r.names # NoClaim => <<r.sid, r.names>> \in recorded
        /\ announces("authorization") =>
            /\ HasCode(r.sid)
            /\ r.code # NoCode => <<r.sid, r.code>> \in coded
        /\ announces("token") => was("CIC_ACCESS_TOKEN_ISSUED")
        /\ announces("abort") => was("CIC_CRI_SESSION_ABORTED")
        /\ announces("userinfo") => HasToken(r.sid) /\ HasClaim(r.sid)

\* A repeated GET /authorization is answered from the row: in CIC_AUTH_CODE_ISSUED the
\* row has a code, and it is one that was stored for this very session.  So a caller
\* whose first reply was lost can still get a code.
RetryReturnsCode == \A s \in Sessions : \A row \in IndexReads(s) :
    row.state = "CIC_AUTH_CODE_ISSUED" => row.code # NoCode /\ <<s, row.code>> \in coded
-----------------------------------------------------------------------------
(***************************************************************************)
(* When a session is over.  No write of the service is conditional, so an  *)
(* invocation that read an earlier state can undo an abort or an exchange. *)
(* What does hold is that once a session is over in every place it can be  *)
(* read from, no invocation goes to work for it that is not at work on it  *)
(* already; and when the last of these has ended, it is over for good.     *)
(***************************************************************************)
Shut(row) ==
    row.state \in {"MISSING", "CIC_CRI_SESSION_ABORTED"} \/ Expired(row)

Exchangeable(s) ==
    \E row \in IndexReads(s) : row.state = "CIC_AUTH_CODE_ISSUED" /\ ~Expired(row)

\* Invocation i may still store something for session s, or hand out a code or a token;
\* a 200 that says "already processed" hands out nothing.
Pending(i, s) ==
    /\ inv[i].sid = s
    /\ inv[i].op \in {"session", "claimedIdentity", "authorization", "token"}
    /\ ~ /\ inv[i].at = "respond" /\ inv[i].code = NoCode
         /\ inv[i].op \in {"claimedIdentity", "authorization"}

\* Invocation i may still hand out a credential.
Fetching(i, s) ==
    inv[i].op = "userinfo" /\ inv[i].sid = s /\ inv[i].state = "CIC_ACCESS_TOKEN_ISSUED"

\* Aborted, expired or deleted, wherever it can be read.
Closed(s) ==
    /\ s \in opened
    /\ \A row \in SessionReads(s) : Shut(row)
    /\ ~Exchangeable(s)

\* Closed, or its code was exchanged; credentials may still be fetched.
Spent(s) ==
    /\ s \in opened
    /\ \A row \in SessionReads(s) :
        Shut(row) \/ (row.state = "CIC_ACCESS_TOKEN_ISSUED" /\ row.code = NoCode)
    /\ ~Exchangeable(s)

CodesOf(s) == {g \in codes : g[1] = s}
TokensOf(s) == {t \in tokens : t.sub = s}
CredentialsOf(s) == {g \in credentials : g[1] = s}
StoredOf(s) == {g \in recorded \cup coded : g[1] = s}

\* While a session is closed no call begins to work for it, so a claim or a code is
\* stored, and a code, token or credential handed out, only by calls that read it before;
\* and unless one of these is still under way it stays closed, whatever is retried,
\* deleted, re-created or shown late.
ClosedStays == [][\A s \in Sessions : Closed(s) =>
    /\ \A i \in Invocations :
        (Pending(i, s)' => Pending(i, s)) /\ (Fetching(i, s)' => Fetching(i, s))
    /\ (\A i \in Invocations : ~Pending(i, s)) =>
        Closed(s)' /\ UNCHANGED <<StoredOf(s), CodesOf(s), TokensOf(s)>>
    /\ (\A i \in Invocations : ~Fetching(i, s)) => UNCHANGED CredentialsOf(s)]_vars

\* While the code of a session is exchanged no call begins to work for a second code or
\* token or for another claim; unless one that read the session before is still under way,
\* none is stored or handed out, and the person whose credential is fetched stays the same.
SpentStays == [][\A s \in Sessions : Spent(s) =>
    /\ \A i \in Invocations : Pending(i, s)' => Pending(i, s)
    /\ (\A i \in Invocations : ~Pending(i, s)) =>
        /\ Spent(s)'
        /\ UNCHANGED <<StoredOf(s), CodesOf(s), TokensOf(s)>>
        /\ personTable'[s] \in {personTable[s], NoPersonRow}]_vars

\* No version of the row that can be read was put by /session: the TTL has deleted it.
Deleted(s) == s \in opened /\ \A row \in IndexReads(s) : ~row.registered

\* A late update that re-creates a row after its deletion makes a session that never
\* expires; but it lacks what /token needs of it, so it is a dead end: no call begins to
\* exchange a code of it, and no token is handed out but by one that began before.
RecreatedIsDeadEnd == [][\A s \in Sessions : Deleted(s) =>
    /\ Deleted(s)'
    /\ \A i \in Invocations :
        inv'[i].sid = s /\ inv'[i].op = "token" => inv[i].sid = s /\ inv[i].op = "token"
    /\ TokensOf(s)' \subseteq TokensOf(s) \cup
        {[sub |-> s, exp |-> inv[i].expiry] :
            i \in {j \in Invocations : inv[j].sid = s /\ inv[j].op = "token"}}]_vars

\* A claim was stored, and neither a read nor a credential under way still finds the
\* shared claims that were in the same row before.
ClaimSettled(s) ==
    /\ HasClaim(s)
    /\ \A person \in PersonReads(s) : person.names # SharedClaim
    /\ \A i \in Invocations :
        inv[i].op = "userinfo" /\ inv[i].sid = s => inv[i].names # SharedClaim

\* With stale reads /userinfo may still sign the shared claims after the claim is stored,
\* but only until every replica and every call that read one has gone past them: from
\* then on each new credential states a claim, and no late write brings them back.
ClaimSettles == [][\A s \in Sessions : ClaimSettled(s) =>
    /\ ClaimSettled(s)'
    /\ CredentialsOf(s)' \subseteq CredentialsOf(s) \cup recorded']_vars
-----------------------------------------------------------------------------
(* The service implements the abstract claim flow.                         *)

Flow == INSTANCE ClaimFlow WITH holders <- {t.sub : t \in tokens}

\* Every behaviour of the endpoints is one of the claim flow, where each artefact is
\* granted on the strength of the one before it.
ImplementsClaimFlow == Flow!Spec
-----------------------------------------------------------------------------
(* What the API's description says and the code does not do.               *)

\* deploy/cic-spec.yaml:30, POST /token: "the service will only issue an access token
\* once for any given session".
OneTokenPerSession == \A i \in Invocations :
    inv[i].op = "token" /\ inv[i].status = 200 => ~HasToken(inv[i].sid)

\* deploy/cic-spec.yaml:125, POST /userinfo: "can only be called once".
UserInfoOnce == \A i \in Invocations :
    inv[i].op = "userinfo" /\ inv[i].status = 200 => CredentialsOf(inv[i].sid) = {}

\* deploy/cic-spec.yaml:216, GET /authorization: "this service can only be used once for
\* each session", read as: at most one code is ever stored for it.
OneCodePerSession == \A s \in Sessions, k, l \in Codes :
    {<<s, k>>, <<s, l>>} \subseteq coded => k = l

\* deploy/cic-spec.yaml:676, POST /abort: "Terminate a session without issuing an
\* authorization code".
AbortTerminates == [][\A s \in Sessions :
    sessionTable[s].state = "CIC_CRI_SESSION_ABORTED" =>
        sessionTable'[s].state # "CIC_AUTH_CODE_ISSUED"]_vars

\* tests/unit/services/AuthorizationRequestProcessor.test.ts:80: a repeated GET
\* /authorization "Returns authCode from DB" in both issued states.
DuplicateReturnsCode == \A i \in Invocations :
    inv[i].op = "authorization" /\ inv[i].status = 200 => inv[i].code # NoCode
=============================================================================
