--------------------------- MODULE SessionEndpoint ---------------------------
(***************************************************************************)
(* POST /session: SessionHandler.ts and SessionRequestProcessor.ts.        *)
(***************************************************************************)
EXTENDS Lambda

\* Mutant: an id is taken to be free without looking it up.
UncheckedSession(s) == \A i \in Invocations : inv[i].sid # s

\* randomUUID(): an id that has left no trace anywhere.
FreshSession(s) ==
    /\ s \notin opened
    /\ IndexReads(s) = {NoSessionRow}
    /\ {personTable[s]} \cup personStale[s] = {NoPersonRow}
    /\ \A i \in Invocations : inv[i].sid # s

\* An unknown client (400), a bad configuration (500), a request object that does
\* not decrypt, decode, verify or validate (401): nothing is stored.
RejectSessionRequest(i) ==
    /\ inv[i] = Idle
    /\ \E status \in {400, 401, 500} : Fail(i, status)
    /\ UNCHANGED <<storeVars, clientVars>>

\* A session about to be stored, with the names its shared claims carry, if any.
Opening(s, expiry, names) ==
    [Begin("session", "putSession", s) EXCEPT !.expiry = expiry, !.names = names]

\* The request is valid and its id is not taken; expiryDate is fixed here.
AcceptSessionRequest(i, s, shared) ==
    /\ inv[i] = Idle
    /\ FreshSession(s)
    /\ \/ Fail(i, 500)
       \/ Enter(i, Opening(s, now + SessionTtl, shared))
    /\ UNCHANGED <<storeVars, clientVars>>

PutSession(i) ==
    /\ At(i, "session", "putSession")
    /\ \/ /\ CreateAuthSession(inv[i].sid, inv[i].expiry)
          /\ \/ Goto(i, IF inv[i].names = NoClaim THEN "audit" ELSE "putPerson")
             \/ Resend(i) \/ Fail(i, 500)
       \/ Fail(i, 500) /\ UNCHANGED sessionVars
    /\ UNCHANGED <<personVars, now, recorded, coded, clientVars>>

PutPerson(i) ==
    /\ At(i, "session", "putPerson")
    /\ \/ /\ SavePersonIdentity(inv[i].sid, inv[i].expiry)
          /\ Goto(i, "audit") \/ Resend(i) \/ Fail(i, 500)
       \/ Fail(i, 500) /\ UNCHANGED personVars
    /\ UNCHANGED <<sessionVars, now, recorded, coded, clientVars>>

AuditStart(i) ==
    /\ Sending(i, "session")
    /\ Succeed(i)
    /\ UNCHANGED <<storeVars, clientVars>>

SessionStep(i) ==
    \/ RejectSessionRequest(i)
    \/ \E s \in Sessions, shared \in {NoClaim, SharedClaim} :
        AcceptSessionRequest(i, s, shared)
    \/ PutSession(i)
    \/ PutPerson(i)
    \/ AuditStart(i)
=============================================================================
