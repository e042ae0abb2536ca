----------------------------- MODULE CicService -----------------------------
(***************************************************************************)
(* The storage layer of the CIC credential issuer: the DynamoDB session    *)
(* and person-identity tables as services/CicService.ts uses them, the     *)
(* global secondary index on authorizationCode, the clock, and what the    *)
(* database does on its own (asynchronous index and replica updates,       *)
(* deletion of rows whose TTL has passed).                                 *)
(*                                                                         *)
(* DynamoDB keeps no schema: a row that was never put is here the row with *)
(* every attribute missing, which is also what UpdateItem starts from when *)
(* the key does not exist (it creates the row).                            *)
(***************************************************************************)
EXTENDS Integers, FiniteSets

CONSTANTS
    Sessions,      \* session ids, the UUIDs of SessionRequestProcessor
    Codes,         \* authorization codes, the UUIDs of AuthorizationRequestProcessor
    NoCode,        \* the attribute authorizationCode is missing
    Claims,        \* names and birth dates a user can submit to /claimedIdentity
    SharedClaim,   \* names and birth date from the shared_claims of the /session JWT
    NoClaim,       \* the attributes personNames and birthDates are missing
    SessionTtl,    \* AUTHSESSIONTTL
    TokenTtl,      \* TOKEN_EXPIRY_SECONDS
    MaxTime,       \* bound: the clock stops here
    MaxLag,        \* bound: so many outdated versions of a row may still be shown
    StaleReads     \* TRUE: GetItem is eventually consistent; FALSE: it sees every write

ASSUME NamesAssumption ==
    /\ NoCode \notin Codes
    /\ NoClaim \notin Claims \cup {SharedClaim}
    /\ SharedClaim \notin Claims
ASSUME NumbersAssumption ==
    /\ SessionTtl \in Nat /\ TokenTtl \in Nat /\ MaxTime \in Nat /\ MaxLag \in Nat
    /\ StaleReads \in BOOLEAN

VARIABLES
    sessionTable,    \* the session table, by sessionId
    sessionStale,    \* outdated versions of its rows that may still be shown
    personTable,     \* the person-identity table, by sessionId
    personStale,     \* outdated versions of its rows that may still be shown
    now,             \* absoluteTimeNow()
    entered,         \* history: <<s, state>> where a row of session s was put in that state
    recorded,        \* history: <<s, c>> where claim c was stored for session s
    coded            \* history: <<s, k>> where code k was stored for session s

sessionVars == <<sessionTable, sessionStale, entered>>
personVars == <<personTable, personStale>>
storeVars == <<sessionVars, personVars, now, recorded, coded>>

AuthSessionState ==
    {"CIC_SESSION_CREATED", "CIC_DATA_RECEIVED", "CIC_AUTH_CODE_ISSUED",
     "CIC_ACCESS_TOKEN_ISSUED", "CIC_CRI_SESSION_ABORTED"}

\* A missing expiryDate compares FALSE with every number.
NoExpiry == -1
Expiry == Nat \cup {NoExpiry}

\* registered: the row was put by /session and so has clientId, redirectUri,
\* state and subject, which no update ever sets.
SessionRow == [state : AuthSessionState \cup {"MISSING"}, expiry : Expiry,
               code : Codes \cup {NoCode}, registered : BOOLEAN]
NoSessionRow == [state |-> "MISSING", expiry |-> NoExpiry,
                 code |-> NoCode, registered |-> FALSE]

Names == Claims \cup {SharedClaim}
PersonRow == [names : Names \cup {NoClaim}, expiry : Expiry]
NoPersonRow == [names |-> NoClaim, expiry |-> NoExpiry]

\* session.expiryDate < absoluteTimeNow()
Expired(row) == row.expiry # NoExpiry /\ row.expiry < now
-----------------------------------------------------------------------------
(***************************************************************************)
(* Reads.  The index takes over the writes of the session table one after  *)
(* another, and so does a replica that GetItem without ConsistentRead may  *)
(* be answered by: what they show of a row is its current version or any   *)
(* they have not got past yet.                                             *)
(***************************************************************************)

SessionReads(s) ==
    {sessionTable[s]} \cup IF StaleReads THEN sessionStale[s] ELSE {}

PersonReads(s) ==
    {personTable[s]} \cup IF StaleReads THEN personStale[s] ELSE {}

\* authCode-updated-index has an entry for every version with an authorizationCode.
IndexReads(s) == {sessionTable[s]} \cup sessionStale[s]

\* getSessionByAuthorizationCode gets back this version of the row of s and nothing else.
FindsByCode(k, s, row) ==
    /\ row \in IndexReads(s) /\ row.code = k
    /\ \A t \in Sessions \ {s} : \E other \in IndexReads(t) : other.code # k
-----------------------------------------------------------------------------
(* Writes, none of which has a condition.  The version a write replaces    *)
(* may still be shown: by a lagging replica, or by the index, where only   *)
(* those matter whose code it would give a token for (an outdated entry of *)
(* any other state makes /token refuse, which it may do anyhow).           *)

Lingers(row) == StaleReads \/ row.state = "CIC_AUTH_CODE_ISSUED"

PutSessionRow(s, row) ==
    /\ sessionTable' = [sessionTable EXCEPT ![s] = row]
    /\ sessionStale' = [sessionStale EXCEPT ![s] =
        (@ \cup {old \in {sessionTable[s]} : Lingers(old)}) \ {row}]
    /\ Cardinality(sessionStale'[s]) <= MaxLag
    /\ entered' = entered \cup {<<s, row.state>>}

PutPersonRow(s, row) ==
    /\ personTable' = [personTable EXCEPT ![s] = row]
    /\ personStale' = [personStale EXCEPT ![s] =
        IF StaleReads THEN (@ \cup {personTable[s]}) \ {row} ELSE @]
    /\ Cardinality(personStale'[s]) <= MaxLag

CreateAuthSession(s, expiry) ==
    PutSessionRow(s, [state |-> "CIC_SESSION_CREATED", expiry |-> expiry,
                      code |-> NoCode, registered |-> TRUE])

SavePersonIdentity(s, expiry) ==
    PutPersonRow(s, [names |-> SharedClaim, expiry |-> expiry])

\* The two updates of saveCICData.
SaveCICPersonInfo(s, claim, expiry) ==
    /\ PutPersonRow(s, [names |-> claim, expiry |-> expiry])
    /\ recorded' = recorded \cup {<<s, claim>>}

UpdateSessionAuthState(s, state) ==
    PutSessionRow(s, [sessionTable[s] EXCEPT !.state = state])

SetAuthorizationCode(s, k) ==
    /\ PutSessionRow(s, [sessionTable[s] EXCEPT !.state = "CIC_AUTH_CODE_ISSUED",
                                                !.code = k])
    /\ coded' = coded \cup {<<s, k>>}

\* Mutant: the code is removed but the state not advanced.
RemoveCodeOnly(s) == PutSessionRow(s, [sessionTable[s] EXCEPT !.code = NoCode])

UpdateSessionWithAccessTokenDetails(s) ==
    PutSessionRow(s, [sessionTable[s] EXCEPT !.state = "CIC_ACCESS_TOKEN_ISSUED",
                                             !.code = NoCode])
-----------------------------------------------------------------------------
(* What happens outside every request.                                     *)

Tick ==
    /\ now < MaxTime
    /\ now' = now + 1
    /\ UNCHANGED <<sessionVars, personVars, recorded, coded>>

\* The replicas, and the index, get past an outdated version of a row.
CatchUpSession(s) ==
    /\ \E old \in sessionStale[s] :
        sessionStale' = [sessionStale EXCEPT ![s] = @ \ {old}]
    /\ UNCHANGED <<sessionTable, entered, personVars, now, recorded, coded>>

CatchUpPerson(s) ==
    /\ \E old \in personStale[s] :
        personStale' = [personStale EXCEPT ![s] = @ \ {old}]
    /\ UNCHANGED <<personTable, sessionVars, now, recorded, coded>>

\* TimeToLive on expiryDate: rows go some time after they expire, each on its own.
DeleteExpiredSession(s) ==
    /\ Expired(sessionTable[s])
    /\ PutSessionRow(s, NoSessionRow)
    /\ UNCHANGED <<personVars, now, recorded, coded>>

DeleteExpiredPerson(s) ==
    /\ Expired(personTable[s])
    /\ PutPersonRow(s, NoPersonRow)
    /\ UNCHANGED <<sessionVars, now, recorded, coded>>

StoreStep ==
    \/ Tick
    \/ \E s \in Sessions :
        \/ CatchUpSession(s) \/ CatchUpPerson(s)
        \/ DeleteExpiredSession(s) \/ DeleteExpiredPerson(s)
-----------------------------------------------------------------------------
StoreInit ==
    /\ sessionTable = [s \in Sessions |-> NoSessionRow]
    /\ sessionStale = [s \in Sessions |-> {}]
    /\ personTable = [s \in Sessions |-> NoPersonRow]
    /\ personStale = [s \in Sessions |-> {}]
    /\ now = 0
    /\ entered = {}
    /\ recorded = {}
    /\ coded = {}

StoreTypeOK ==
    /\ sessionTable \in [Sessions -> SessionRow]
    /\ sessionStale \in [Sessions -> SUBSET SessionRow]
    /\ personTable \in [Sessions -> PersonRow]
    /\ personStale \in [Sessions -> SUBSET PersonRow]
    /\ now \in Nat
    /\ entered \subseteq Sessions \X (AuthSessionState \cup {"MISSING"})
    /\ recorded \subseteq Sessions \X Claims
    /\ coded \subseteq Sessions \X Codes
=============================================================================
