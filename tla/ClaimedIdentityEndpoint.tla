----------------------- MODULE ClaimedIdentityEndpoint -----------------------
(***************************************************************************)
(* POST /claimedIdentity: ClaimedIdentityHandler.ts,                       *)
(* ClaimedIdRequestProcessor.ts and CicService.saveCICData.                *)
(***************************************************************************)
EXTENDS Lambda

\* States in which the claim counts as received already.
ClaimReceived ==
    {"CIC_DATA_RECEIVED", "CIC_AUTH_CODE_ISSUED", "CIC_ACCESS_TOKEN_ISSUED"}

\* A claim about to be stored, with the expiryDate of the session that was read.
Claiming(s, claim, expiry) ==
    [Begin("claimedIdentity", "updatePerson", s) EXCEPT !.names = claim, !.expiry = expiry]

\* Mutant: whatever the session's state, the claim is stored.
ReceiveAnyClaim(i, s, claim) ==
    /\ inv[i] = Idle
    /\ \E row \in LiveSession(s) : Enter(i, Claiming(s, claim, row.expiry))
    /\ UNCHANGED <<storeVars, clientVars>>

\* The body is validated first (400); then the session decides.  A claim whose names
\* do not match the name pattern is refused before anything is written (400).
ReceiveClaim(i, s, claim) ==
    /\ inv[i] = Idle
    /\ \/ Fail(i, 400)
       \/ NoSessionFound(i, s, 401, 401)
       \/ \E row \in LiveSession(s) :
            \/ /\ row.state = "CIC_SESSION_CREATED"
               /\ \/ Fail(i, 400)
                  \/ Enter(i, Claiming(s, claim, row.expiry))
            \/ /\ row.state \in ClaimReceived
               /\ Answer(i, "claimedIdentity", s)
            \/ /\ row.state \notin ClaimReceived \cup {"CIC_SESSION_CREATED"}
               /\ Fail(i, 401)
    /\ UNCHANGED <<storeVars, clientVars>>

\* Mutant: an error of the first update of saveCICData is swallowed.
UpdatePersonSwallowed(i) ==
    /\ At(i, "claimedIdentity", "updatePerson")
    /\ \/ SaveCICPersonInfo(inv[i].sid, inv[i].names, inv[i].expiry)
       \/ UNCHANGED <<personVars, recorded>>
    /\ Goto(i, "updateState")
    /\ UNCHANGED <<sessionVars, now, coded, clientVars>>

UpdatePerson(i) ==
    /\ At(i, "claimedIdentity", "updatePerson")
    /\ \/ /\ SaveCICPersonInfo(inv[i].sid, inv[i].names, inv[i].expiry)
          /\ Goto(i, "updateState") \/ Resend(i) \/ Fail(i, 500)
       \/ Fail(i, 500) /\ UNCHANGED <<personVars, recorded>>
    /\ UNCHANGED <<sessionVars, now, coded, clientVars>>

\* Mutant: an error of the second update of saveCICData is swallowed.
UpdateStateSwallowed(i) ==
    /\ At(i, "claimedIdentity", "updateState")
    /\ UpdateSessionAuthState(inv[i].sid, "CIC_DATA_RECEIVED") \/ UNCHANGED sessionVars
    /\ Succeed(i)
    /\ UNCHANGED <<personVars, now, recorded, coded, clientVars>>

UpdateState(i) ==
    /\ At(i, "claimedIdentity", "updateState")
    /\ \/ /\ UpdateSessionAuthState(inv[i].sid, "CIC_DATA_RECEIVED")
          /\ Succeed(i) \/ Resend(i) \/ Fail(i, 500)
       \/ Fail(i, 500) /\ UNCHANGED sessionVars
    /\ UNCHANGED <<personVars, now, recorded, coded, clientVars>>

ClaimedIdentityStep(i) ==
    \/ \E s \in opened, claim \in Claims : ReceiveClaim(i, s, claim)
    \/ UpdatePerson(i)
    \/ UpdateState(i)
=============================================================================
