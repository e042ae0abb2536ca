-------------------------- MODULE UserInfoEndpoint --------------------------
(***************************************************************************)
(* POST /userinfo: UserInfoHandler.ts, UserInfoRequestProcessor.ts,        *)
(* ValidationHelper.eventToSubjectIdentifier and                           *)
(* VerifiableCredentialService.ts.                                         *)
(***************************************************************************)
EXTENDS Lambda

\* The token's session s was read in this state; then the person's names.
Presented(s, state) == [Begin("userinfo", "getPerson", s) EXCEPT !.state = state]
Identified(r, names) == [r EXCEPT !.at = "sign", !.names = names]

\* eventToSubjectIdentifier looks at the token before it looks for the session.
Unexpired(token) == token.exp >= now

\* The bearer token is verified and must not have expired (401; 500 when its payload
\* cannot be read); the session it names is then read, and its state remembered
\* across the next read.
PresentToken(i, token) ==
    /\ inv[i] = Idle
    /\ \/ \E status \in {401, 500} : Fail(i, status)
       \/ /\ Unexpired(token)
          /\ \/ NoSessionFound(i, token.sub, 401, 500)
             \/ \E row \in LiveSession(token.sub) :
                    Enter(i, Presented(token.sub, row.state))
    /\ UNCHANGED <<storeVars, clientVars>>

\* Mutant: a missing person row goes unnoticed.
GetAnyPerson(i) ==
    /\ At(i, "userinfo", "getPerson")
    /\ inv[i].state = "CIC_ACCESS_TOKEN_ISSUED"
    /\ \E person \in PersonReads(inv[i].sid) : Enter(i, Identified(inv[i], person.names))
    /\ UNCHANGED <<storeVars, clientVars>>

\* The person is read, and only then the session's state checked.  Shared claims
\* may lack a name or a birth date (400, or 500 when the attribute is not a list).
GetPerson(i) ==
    /\ At(i, "userinfo", "getPerson")
    /\ \/ Fail(i, 500)
       \/ \E person \in PersonReads(inv[i].sid) :
            \/ person.names = NoClaim /\ Fail(i, 401)
            \/ /\ person.names # NoClaim
               /\ inv[i].state # "CIC_ACCESS_TOKEN_ISSUED"
               /\ Fail(i, 401)
            \/ /\ person.names # NoClaim
               /\ inv[i].state = "CIC_ACCESS_TOKEN_ISSUED"
               /\ \/ /\ person.names = SharedClaim
                     /\ \E status \in {400, 500} : Fail(i, status)
                  \/ Enter(i, Identified(inv[i], person.names))
    /\ UNCHANGED <<storeVars, clientVars>>

SignCredential(i) ==
    /\ At(i, "userinfo", "sign")
    /\ Fail(i, 500) \/ Goto(i, "audit")
    /\ UNCHANGED <<storeVars, clientVars>>

\* CIC_CRI_VC_ISSUED goes out, then CIC_CRI_END.
AuditIssued(i) ==
    /\ Sending(i, "userinfo")
    /\ Goto(i, "auditEnd")
    /\ UNCHANGED <<storeVars, clientVars>>

AuditEnd(i) ==
    /\ At(i, "userinfo", "auditEnd")
    /\ Succeed(i)
    /\ UNCHANGED <<storeVars, clientVars>>

UserInfoStep(i) ==
    \/ \E token \in tokens : PresentToken(i, token)
    \/ GetPerson(i)
    \/ SignCredential(i)
    \/ AuditIssued(i)
    \/ AuditEnd(i)
=============================================================================
