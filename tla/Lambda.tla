------------------------------- MODULE Lambda -------------------------------
(***************************************************************************)
(* The frame every endpoint shares: Lambda invocations that run            *)
(* concurrently, each at a program point between two of its awaits, with   *)
(* the values it read earlier.  An invocation can die at any point (the    *)
(* function times out or its environment is lost); its caller then learns  *)
(* nothing.  A reply is delivered by a step of its own, so a write may be  *)
(* applied whose caller never hears of it.                                 *)
(***************************************************************************)
EXTENDS CicService

CONSTANTS
    Invocations,   \* concurrently running Lambda invocations
    NoSession      \* the invocation has no session (yet)

ASSUME InvocationAssumption == NoSession \notin Sessions

VARIABLES
    inv,           \* per invocation: its operation, program point and local values
    opened,        \* session ids that callers were given
    codes,         \* <<s, k>>: codes that callers were given
    tokens,        \* access tokens that callers were given
    credentials    \* <<s, names>>: verifiable credentials that callers were given

clientVars == <<opened, codes, tokens, credentials>>

Operations == {"session", "claimedIdentity", "authorization", "token",
               "userinfo", "sessionConfig", "abort"}

\* Each point is named for the call the invocation makes next.
Points == {"putSession", "putPerson", "updatePerson", "updateState",
           "setCode", "verify", "updateToken", "getPerson", "sign",
           "abortState", "audit", "auditEnd", "respond"}

Invocation ==
    [op : Operations \cup {"none"}, at : Points \cup {"idle"},
     sid : Sessions \cup {NoSession}, state : AuthSessionState \cup {"MISSING"},
     expiry : Expiry, names : Names \cup {NoClaim}, code : Codes \cup {NoCode},
     status : {0, 200, 400, 401, 500}]

\* The frame of operation op on session s, at a point, with nothing read yet.
Begin(op, point, s) ==
    [op |-> op, at |-> point, sid |-> s, state |-> "MISSING",
     expiry |-> NoExpiry, names |-> NoClaim, code |-> NoCode, status |-> 0]

Idle == Begin("none", "idle", NoSession)

\* The frame r once its invocation is ready to answer.
Reply(r, status) == [r EXCEPT !.at = "respond", !.status = status]

\* The access token is a signed JWT with these claims.
Token == [sub : Sessions, exp : Nat]
-----------------------------------------------------------------------------
At(i, op, point) == inv[i].op = op /\ inv[i].at = point

Enter(i, frame) == inv' = [inv EXCEPT ![i] = frame]
Goto(i, point) == Enter(i, [inv[i] EXCEPT !.at = point])

\* Answer with an error: nothing but the status is left of the invocation.
Fail(i, status) == Enter(i, Reply(Idle, status))

\* A write was applied but its reply lost: the SDK client, which has its default of
\* several attempts, sends it again.
Resend(i) == UNCHANGED inv

\* Answer 200 with what the invocation has gathered, or without having done anything.
Succeed(i) == Enter(i, Reply(inv[i], 200))
Answer(i, op, s) == Enter(i, Reply(Begin(op, "respond", s), 200))

(***************************************************************************)
(* sendToTXMA sends the audit event of the operation.  Every caller        *)
(* ignores its failure and the service never reads the queue, so the queue *)
(* is no variable: Sending(i, op) is the state in which the event goes     *)
(* out, and the step that follows is the same whether or not it arrives.   *)
(***************************************************************************)
Sending(i, op) == At(i, op, "audit")

\* Mutant: expiryDate is not looked at.
UnexpiringSession(s) == {row \in SessionReads(s) : row.state # "MISSING"}

(***************************************************************************)
(* getSessionById for a request about session s: an error of the database  *)
(* answers 500, a missing session the status "missing", an expired one     *)
(* "expired"; otherwise the handler goes on with a row of LiveSession(s).  *)
(***************************************************************************)
LiveSession(s) == {row \in SessionReads(s) : row.state # "MISSING" /\ ~Expired(row)}

NoSessionFound(i, s, missing, expired) ==
    \/ Fail(i, 500)
    \/ \E row \in SessionReads(s) :
        \/ row.state = "MISSING" /\ Fail(i, missing)
        \/ row.state # "MISSING" /\ Expired(row) /\ Fail(i, expired)
-----------------------------------------------------------------------------
(* The reply reaches the caller.                                           *)

Respond(i) ==
    LET r == inv[i]
        ok(op) == r.op = op /\ r.status = 200
    IN  /\ r.at = "respond"
        /\ opened' = IF ok("session") THEN opened \cup {r.sid} ELSE opened
        /\ codes' = IF ok("authorization") /\ r.code # NoCode
                    THEN codes \cup {<<r.sid, r.code>>} ELSE codes
        /\ tokens' = IF ok("token")
                     THEN tokens \cup {[sub |-> r.sid, exp |-> r.expiry]} ELSE tokens
        /\ credentials' = IF ok("userinfo")
                          THEN credentials \cup {<<r.sid, r.names>>} ELSE credentials
        /\ Enter(i, Idle)
        /\ UNCHANGED storeVars

\* The invocation dies, or its reply is lost on the way. One whose last write is applied
\* only after its end is here at that write still, and dies when it is applied.
Crash(i) ==
    /\ inv[i] # Idle
    /\ Enter(i, Idle)
    /\ UNCHANGED <<storeVars, clientVars>>

LambdaInit ==
    /\ inv = [i \in Invocations |-> Idle]
    /\ opened = {}
    /\ codes = {}
    /\ tokens = {}
    /\ credentials = {}

LambdaTypeOK ==
    /\ inv \in [Invocations -> Invocation]
    /\ opened \subseteq Sessions
    /\ codes \subseteq Sessions \X Codes
    /\ tokens \subseteq Token
    /\ credentials \subseteq Sessions \X Names
=============================================================================
