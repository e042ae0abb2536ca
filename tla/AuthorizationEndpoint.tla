------------------------ MODULE AuthorizationEndpoint ------------------------
(***************************************************************************)
(* GET /authorization: AuthorizationCodeHandler.ts and                     *)
(* AuthorizationRequestProcessor.ts.                                       *)
(***************************************************************************)
EXTENDS Lambda

\* randomUUID(): a code nobody has or had.
FreshCode(k) ==
    /\ \A s \in Sessions : <<s, k>> \notin coded
    /\ \A i \in Invocations : inv[i].code # k

\* The code k in hand for session s: generated, or read from the row.
Holding(point, s, k) == [Begin("authorization", point, s) EXCEPT !.code = k]

\* Mutant: a session whose claim was never received gets a code as well.
RequestCodeEarly(i, s) ==
    /\ inv[i] = Idle
    /\ \E row \in LiveSession(s), k \in Codes :
        /\ row.state \in {"CIC_SESSION_CREATED", "CIC_DATA_RECEIVED"}
        /\ FreshCode(k)
        /\ Enter(i, Holding("setCode", s, k))
    /\ UNCHANGED <<storeVars, clientVars>>

\* Mutant: a repeated request is in the wrong state.
RequestCodeOnce(i, s) ==
    /\ inv[i] = Idle
    /\ \/ Fail(i, 400)
       \/ NoSessionFound(i, s, 401, 401)
       \/ \E row \in LiveSession(s) :
            IF row.state = "CIC_DATA_RECEIVED"
            THEN \E k \in Codes : FreshCode(k) /\ Enter(i, Holding("setCode", s, k))
            ELSE Fail(i, 401)
    /\ UNCHANGED <<storeVars, clientVars>>

\* Mutant: a repeated request is answered without the code of the row.
RequestCodeWithout(i, s) ==
    /\ inv[i] = Idle
    /\ \/ Fail(i, 400)
       \/ NoSessionFound(i, s, 401, 401)
       \/ \E row \in LiveSession(s) :
            IF row.state = "CIC_DATA_RECEIVED"
            THEN \E k \in Codes : FreshCode(k) /\ Enter(i, Holding("setCode", s, k))
            ELSE Answer(i, "authorization", s)
    /\ UNCHANGED <<storeVars, clientVars>>

\* A missing or malformed session-id header answers 400 before the session is read.
\* In CIC_DATA_RECEIVED a new code will be stored; once a code was issued the
\* reply carries whatever authorizationCode the row still has.
RequestCode(i, s) ==
    /\ inv[i] = Idle
    /\ \/ Fail(i, 400)
       \/ NoSessionFound(i, s, 401, 401)
       \/ \E row \in LiveSession(s) :
            \/ /\ row.state = "CIC_DATA_RECEIVED"
               /\ \E k \in Codes :
                    /\ FreshCode(k)
                    /\ Enter(i, Holding("setCode", s, k))
            \/ /\ row.state \in {"CIC_AUTH_CODE_ISSUED", "CIC_ACCESS_TOKEN_ISSUED"}
               /\ Enter(i, Reply(Holding("respond", s, row.code), 200))
            \/ /\ row.state \in {"CIC_SESSION_CREATED", "CIC_CRI_SESSION_ABORTED"}
               /\ Fail(i, 401)
    /\ UNCHANGED <<storeVars, clientVars>>

\* Mutant: an error of the update is swallowed.
SetCodeSwallowed(i) ==
    /\ At(i, "authorization", "setCode")
    /\ \/ SetAuthorizationCode(inv[i].sid, inv[i].code)
       \/ UNCHANGED <<sessionVars, coded>>
    /\ Goto(i, "audit")
    /\ UNCHANGED <<personVars, now, recorded, clientVars>>

SetCode(i) ==
    /\ At(i, "authorization", "setCode")
    /\ \/ /\ SetAuthorizationCode(inv[i].sid, inv[i].code)
          /\ Goto(i, "audit") \/ Resend(i) \/ Fail(i, 500)
       \/ Fail(i, 500) /\ UNCHANGED <<sessionVars, coded>>
    /\ UNCHANGED <<personVars, now, recorded, clientVars>>

AuditCode(i) ==
    /\ Sending(i, "authorization")
    /\ Succeed(i)
    /\ UNCHANGED <<storeVars, clientVars>>

AuthorizationStep(i) ==
    \/ \E s \in opened : RequestCode(i, s)
    \/ SetCode(i)
    \/ AuditCode(i)
=============================================================================
