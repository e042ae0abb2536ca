---------------------------- MODULE TokenEndpoint ----------------------------
(***************************************************************************)
(* POST /token: AccessTokenHandler.ts, AccessTokenRequestProcessor.ts and  *)
(* AccessTokenRequestValidationHelper.ts.                                  *)
(***************************************************************************)
EXTENDS Lambda

\* Mutant: the row is not asked for the client it was put for.
RequestTokenOfAny(i, k) ==
    /\ inv[i] = Idle
    /\ \E s \in Sessions : \E row \in IndexReads(s) :
        /\ FindsByCode(k, s, row) /\ ~Expired(row)
        /\ row.state = "CIC_AUTH_CODE_ISSUED"
        /\ Enter(i, Begin("token", "verify", s))
    /\ UNCHANGED <<storeVars, clientVars>>

\* Everything a code is checked against is the projection the index returns: it must
\* name exactly one session (500), unexpired (401), of a known client (400), in
\* CIC_AUTH_CODE_ISSUED (401).  An invalid body answers 401, as does an error of the
\* query, which is not an AppError; an unreadable client configuration answers 500.
RequestToken(i, k) ==
    /\ inv[i] = Idle
    /\ \/ \E status \in {401, 500} : Fail(i, status)
       \/ \E s \in Sessions : \E row \in IndexReads(s) :
            /\ FindsByCode(k, s, row)
            /\ \/ Expired(row) /\ Fail(i, 401)
               \/ /\ ~Expired(row)
                  /\ ~row.registered
                  /\ Fail(i, 400)
               \/ /\ ~Expired(row)
                  /\ row.registered
                  /\ IF row.state = "CIC_AUTH_CODE_ISSUED"
                     THEN Enter(i, Begin("token", "verify", s))
                     ELSE Fail(i, 401)
    /\ UNCHANGED <<storeVars, clientVars>>

\* The access token is signed; its expiry is fixed before the session is updated.
Signed(r, expiry) == [r EXCEPT !.at = "updateToken", !.expiry = expiry]

\* The client assertion is decoded and verified against the client's JWKS, the
\* redirect URI compared (401 each), and the access token signed (500).
VerifyAndSign(i) ==
    /\ At(i, "token", "verify")
    /\ \/ \E status \in {401, 500} : Fail(i, status)
       \/ Enter(i, Signed(inv[i], now + TokenTtl))
    /\ UNCHANGED <<storeVars, clientVars>>

\* Mutant: an error of the update is swallowed.
UpdateTokenSwallowed(i) ==
    /\ At(i, "token", "updateToken")
    /\ UpdateSessionWithAccessTokenDetails(inv[i].sid) \/ UNCHANGED sessionVars
    /\ Succeed(i)
    /\ UNCHANGED <<personVars, now, recorded, coded, clientVars>>

UpdateToken(i) ==
    /\ At(i, "token", "updateToken")
    /\ \/ /\ UpdateSessionWithAccessTokenDetails(inv[i].sid)
          /\ Succeed(i) \/ Resend(i) \/ Fail(i, 500)
       \/ Fail(i, 500) /\ UNCHANGED sessionVars
    /\ UNCHANGED <<personVars, now, recorded, coded, clientVars>>

TokenStep(i) ==
    \/ \E grant \in codes : RequestToken(i, grant[2])
    \/ VerifyAndSign(i)
    \/ UpdateToken(i)
=============================================================================
