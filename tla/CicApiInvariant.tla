--------------------------- MODULE CicApiInvariant ---------------------------
(***************************************************************************)
(* The inductive invariant of CicApi.  Each artefact carries its evidence  *)
(* along: a row, a copy of a row (replica or index entry) and the local    *)
(* values of an invocation all name only what the histories recorded and   *)
(* coded contain, and the histories only grow.                             *)
(***************************************************************************)
EXTENDS CicApi

\* The values an invocation has in hand where it uses them.
Shaped(r) ==
    /\ r.op # "none" => r.sid \in Sessions
    /\ r.op = "claimedIdentity" /\ r.at = "updatePerson" => r.names \in Claims
    /\ r.op = "authorization" /\ r.at = "setCode" => r.code \in Codes
    /\ r.op = "token" /\ r.at # "verify" => r.expiry \in Nat
    /\ r.op = "userinfo" /\ r.at # "getPerson" => r.names \in Names

Frames == {r \in Invocation : Shaped(r)}

\* TypeOK made inductive: where a value is used, it is not the missing one.
TypeInv == TypeOK /\ inv \in [Invocations -> Frames]

\* A version of the session row of s, however old.
RowBacked(s, row) ==
    /\ row.state # "MISSING" => Reached(s, row.state)
    /\ row.state \in ClaimReceived => HasClaim(s) /\ Reached(s, "CIC_DATA_RECEIVED")
    /\ row.state \in {"CIC_AUTH_CODE_ISSUED", "CIC_ACCESS_TOKEN_ISSUED"} => HasCode(s)
    /\ row.state = "CIC_AUTH_CODE_ISSUED" => row.code # NoCode
    /\ row.code # NoCode => <<s, row.code>> \in coded

RowsBacked == \A s \in Sessions : \A row \in IndexReads(s) : RowBacked(s, row)

\* What a running invocation has in hand.
SharedStored(r) ==
    personTable[r.sid] = [names |-> SharedClaim, expiry |-> r.expiry] \/ r.expiry < now

SessionFrame(r) == r.op = "session" /\ r.at # "putSession" =>
    /\ Reached(r.sid, "CIC_SESSION_CREATED")
    /\ r.at # "putPerson" /\ r.names = SharedClaim => SharedStored(r)

ClaimFrame(r) == r.op = "claimedIdentity" /\ r.at # "updatePerson" =>
    /\ HasClaim(r.sid)
    /\ r.names # NoClaim => <<r.sid, r.names>> \in recorded
    /\ r.at # "updateState" => Reached(r.sid, "CIC_DATA_RECEIVED")

AuthorizationFrame(r) == r.op = "authorization" =>
    /\ HasClaim(r.sid) /\ Reached(r.sid, "CIC_DATA_RECEIVED")
    /\ r.at # "setCode" =>
        /\ HasCode(r.sid)
        /\ r.code # NoCode => <<r.sid, r.code>> \in coded

TokenFrame(r) == r.op = "token" =>
    /\ HasCode(r.sid) /\ Reached(r.sid, "CIC_DATA_RECEIVED")
    /\ r.at \notin {"verify", "updateToken"} => Reached(r.sid, "CIC_ACCESS_TOKEN_ISSUED")

AbortFrame(r) ==
    r.op = "abort" /\ r.at # "abortState" => Reached(r.sid, "CIC_CRI_SESSION_ABORTED")

UserInfoFrame(r) == r.op = "userinfo" =>
    /\ HasToken(r.sid)
    /\ r.state = "CIC_ACCESS_TOKEN_ISSUED" => HasClaim(r.sid)
    /\ r.at # "getPerson" =>
        /\ r.state = "CIC_ACCESS_TOKEN_ISSUED"
        /\ ~StaleReads \/ r.names # SharedClaim => <<r.sid, r.names>> \in recorded

FrameBacked(r) ==
    /\ r.at # "respond" => r.status = 0
    /\ SessionFrame(r)
    /\ ClaimFrame(r)
    /\ AuthorizationFrame(r)
    /\ TokenFrame(r)
    /\ UserInfoFrame(r)
    /\ AbortFrame(r)

FramesBacked == \A i \in Invocations : FrameBacked(inv[i])

GrantsBacked ==
    /\ CodeNeedsClaim
    /\ TokenNeedsCode
    /\ ~StaleReads => CredentialCarriesClaim

\* Until /session has answered, nobody else knows the id and nothing is claimed for it.
Secluded == \A i \in Invocations :
    /\ inv[i].op = "session" =>
        /\ inv[i].sid \notin opened
        /\ \A j \in Invocations : inv[j].sid = inv[i].sid => j = i
    /\ inv[i].op \notin {"session", "none"} => inv[i].sid \in opened

ClaimsAreOpened == \A s \in Sessions : HasClaim(s) => s \in opened

\* The person row and its replica state a stored claim, if any; and once there is one,
\* the row itself no longer has the shared claims.
PersonBacked == \A s \in Sessions :
    /\ \A person \in {personTable[s]} \cup personStale[s] :
        person.names \in Claims => <<s, person.names>> \in recorded
    /\ HasClaim(s) => personTable[s].names # SharedClaim

IInv ==
    /\ TypeInv
    /\ RowsBacked
    /\ FramesBacked
    /\ GrantsBacked
    /\ Secluded
    /\ ClaimsAreOpened
    /\ PersonBacked

\* For the refinement: a code about to be stored is nobody else's.
Storing(i) == At(i, "authorization", "setCode")

HeldCodesFresh == \A i \in Invocations : Storing(i) =>
    /\ \A s \in Sessions : <<s, inv[i].code>> \in coded => s = inv[i].sid
    /\ \A j \in Invocations : Storing(j) /\ inv[j].code = inv[i].code => j = i
=============================================================================
