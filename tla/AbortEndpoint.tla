---------------------------- MODULE AbortEndpoint ----------------------------
(***************************************************************************)
(* POST /abort: AbortHandler.ts and AbortRequestProcessor.ts; and          *)
(* GET /session-config, which only reads: SessionConfigHandler.ts and      *)
(* SessionConfigRequestProcessor.ts.                                       *)
(***************************************************************************)
EXTENDS Lambda

\* A missing or malformed session id header answers 401 before the session is read.
\* An aborted session is left alone; any other is aborted, whatever its state.
RequestAbort(i, s) ==
    /\ inv[i] = Idle
    /\ \/ Fail(i, 401)
       \/ NoSessionFound(i, s, 400, 401)
       \/ \E row \in LiveSession(s) :
            IF row.state = "CIC_CRI_SESSION_ABORTED"
            THEN Answer(i, "abort", s)
            ELSE Enter(i, Begin("abort", "abortState", s))
    /\ UNCHANGED <<storeVars, clientVars>>

AbortState(i) ==
    /\ At(i, "abort", "abortState")
    /\ \/ /\ UpdateSessionAuthState(inv[i].sid, "CIC_CRI_SESSION_ABORTED")
          /\ Goto(i, "audit") \/ Resend(i) \/ Fail(i, 500)
       \/ Fail(i, 500) /\ UNCHANGED sessionVars
    /\ UNCHANGED <<personVars, now, recorded, coded, clientVars>>

AuditAbort(i) ==
    /\ Sending(i, "abort")
    /\ Succeed(i)
    /\ UNCHANGED <<storeVars, clientVars>>

\* GET /session-config: every error but a bad header or a missing session is a 500.
SessionConfig(i, s) ==
    /\ inv[i] = Idle
    /\ \/ Fail(i, 400)
       \/ NoSessionFound(i, s, 401, 500)
       \/ LiveSession(s) # {} /\ Answer(i, "sessionConfig", s)
    /\ UNCHANGED <<storeVars, clientVars>>

AbortStep(i) ==
    \/ \E s \in opened : RequestAbort(i, s) \/ SessionConfig(i, s)
    \/ AbortState(i)
    \/ AuditAbort(i)
=============================================================================
