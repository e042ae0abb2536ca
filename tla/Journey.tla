------------------------------ MODULE Journey ------------------------------
(***************************************************************************)
(* One user's journey through the API, request by request. The front end   *)
(* (not in this repository) opens a session, submits the claim and asks    *)
(* for the code, these two again when the reply was an error or did not    *)
(* come; the relying party's callback then exchanges the code and fetches  *)
(* the credential, each once, as the stub's callback.ts does.  Whoever     *)
(* waits may give up before the invocation has ended, which then goes on.  *)
(***************************************************************************)
EXTENDS CicApi

CONSTANTS
    NoInvocation,  \* nobody is waited for
    MaxLate        \* bound: so many invocations go on after they were given up

ASSUME JourneyAssumption == NoInvocation \notin Invocations /\ MaxLate \in Nat

VARIABLES
    stage,     \* how far the journey has got
    waiting,   \* the invocation whose reply is awaited
    submitted, \* the claim that was submitted last
    accepted,  \* the claim whose submission was answered with 200
    late,      \* invocations given up so far
    since      \* history: when /session was called

journeyVars == <<stage, waiting, submitted, accepted, late, since>>
allVars == <<vars, journeyVars>>

Stages == {"start", "claim", "code", "token", "userinfo", "done", "refused", "failed"}

\* The stages that are repeated until they are answered.
Repeated == {"claim", "code"}
-----------------------------------------------------------------------------
Wait(i) == waiting = NoInvocation /\ waiting' = i /\ UNCHANGED <<stage, accepted, late>>

OpenSession(i) ==
    /\ stage = "start" /\ Wait(i) /\ since' = now /\ UNCHANGED submitted
    /\ \/ RejectSessionRequest(i)
       \/ \E s \in Sessions, shared \in {NoClaim, SharedClaim} : AcceptSessionRequest(i, s, shared)

SubmitClaim(i) ==
    /\ stage = "claim" /\ Wait(i) /\ UNCHANGED since
    /\ \E s \in opened, claim \in Claims : ReceiveClaim(i, s, claim) /\ submitted' = claim

AskForCode(i) ==
    /\ stage = "code" /\ Wait(i) /\ UNCHANGED <<submitted, since>>
    /\ \E s \in opened : RequestCode(i, s)

\* tokenPost and userInfoPost of the callback.
TokenPost(i) ==
    /\ stage = "token" /\ Wait(i) /\ UNCHANGED <<submitted, since>>
    /\ \E grant \in codes : RequestToken(i, grant[2])

UserInfoPost(i) ==
    /\ stage = "userinfo" /\ Wait(i) /\ UNCHANGED <<submitted, since>>
    /\ \E token \in tokens : PresentToken(i, token)

Request(i) == OpenSession(i) \/ SubmitClaim(i) \/ AskForCode(i) \/ TokenPost(i) \/ UserInfoPost(i)

\* An invocation that is under way, awaited or not, goes on.  One that is not awaited any
\* more sends no write again (bound: a late claim undoes a code only once).
Serve(i) ==
    /\ inv[i] # Idle /\ EndpointStep(i) /\ UNCHANGED journeyVars
    /\ waiting # i => inv'[i] # inv[i]
-----------------------------------------------------------------------------
Succeeded(r) == r.status = 200 /\ (stage = "code" => r.code # NoCode)

NextStage == CASE stage = "start" -> "claim"
               [] stage = "claim" -> "code"
               [] stage = "code" -> "token"
               [] stage = "token" -> "userinfo"
               [] stage = "userinfo" -> "done"

\* Without a good reply the callback goes on to /userinfo without a token and throws.
Unanswered == IF stage \in Repeated THEN stage ELSE "failed"

\* The reply arrives at the one who waits for it.
ReceiveReply(i) ==
    /\ waiting = i /\ Respond(i)
    /\ stage' = IF Succeeded(inv[i]) THEN NextStage
                ELSE IF stage \in Repeated /\ inv[i].status = 401 THEN "refused"
                ELSE Unanswered
    /\ accepted' = IF stage = "claim" /\ Succeeded(inv[i]) THEN submitted ELSE accepted
    /\ waiting' = NoInvocation
    /\ UNCHANGED <<submitted, late, since>>

\* The invocation dies, its reply is lost, or nobody waits for it any more.
LoseReply(i) ==
    /\ Crash(i)
    /\ IF waiting = i THEN stage' = Unanswered /\ waiting' = NoInvocation
                      ELSE UNCHANGED <<stage, waiting>>
    /\ UNCHANGED <<submitted, accepted, late, since>>

GiveUp ==
    /\ waiting # NoInvocation /\ late < MaxLate
    /\ stage' = Unanswered
    /\ waiting' = NoInvocation
    /\ late' = late + 1
    /\ UNCHANGED <<vars, submitted, accepted, since>>
-----------------------------------------------------------------------------
JourneyInit ==
    /\ Init
    /\ stage = "start" /\ waiting = NoInvocation
    /\ submitted = NoClaim /\ accepted = NoClaim /\ late = 0 /\ since = 0

JourneyNext ==
    \/ \E i \in Invocations : Request(i) \/ Serve(i) \/ ReceiveReply(i) \/ LoseReply(i)
    \/ GiveUp
    \/ Environment /\ UNCHANGED journeyVars

JourneySpec == JourneyInit /\ [][JourneyNext]_allVars

(***************************************************************************)
(* The user goes on.  An invocation ends, at the latest by timing out, so  *)
(* it does not send one write again forever.  What is tried again and      *)
(* again is not invalid, failing or lost forever: at each point of a stage *)
(* that is repeated the step is taken in the end, or the session refuses.  *)
(***************************************************************************)
Advance(i) == (Serve(i) \/ ReceiveReply(i) \/ LoseReply(i)) /\ inv'[i] # inv[i]

Answered(i) == inv'[i].status \in {0, 200, 401}
SuccessfulRequest(s) == stage = s /\ \E i \in Invocations : Request(i) /\ Answered(i)
SuccessfulStep(point) == \E i \in Invocations :
    waiting = i /\ inv[i].at = point /\ Serve(i) /\ Answered(i) /\ inv'[i] # inv[i]
SuccessfulReply(s) == stage = s /\ \E i \in Invocations :
    ReceiveReply(i) /\ inv[i].status \in {200, 401}

Fairness ==
    /\ WF_allVars(\E i \in Invocations : Request(i))
    /\ \A i \in Invocations : WF_allVars(Advance(i))
    /\ \A s \in Repeated : SF_allVars(SuccessfulRequest(s)) /\ SF_allVars(SuccessfulReply(s))
    /\ \A point \in {"updatePerson", "updateState", "setCode", "audit"} :
         SF_allVars(SuccessfulStep(point))

FairJourney == JourneySpec /\ Fairness
-----------------------------------------------------------------------------
\* The bookkeeping of the journey: only what /claimedIdentity was sent counts as submitted.
JourneyTypeOK ==
    /\ stage \in Stages /\ waiting \in Invocations \cup {NoInvocation}
    /\ submitted \in Claims \cup {NoClaim} /\ accepted \in Claims \cup {NoClaim}
    /\ late \in 0..MaxLate /\ since \in Nat

TimeIsUp == since + SessionTtl < now

\* A user who repeats a request, because its reply was lost or an error, is not turned
\* away for what the lost attempts have done or are still doing: a claim or a code that was
\* stored is answered as if it had just been. A journey ends before its code only when
\* AUTH_SESSION_TTL has passed since /session was called (the branches for repeated
\* requests; expiryDate, which no update changes; consistent reads).
RefusedOnlyWhenOver == stage = "refused" => TimeIsUp

\* And repeating leads to the code, whatever is lost, crashes or overlaps on the way.
RepeatingLeadsToCode == stage = "claim" ~> stage \in {"token", "refused"}

\* deploy/cic-spec.yaml:420, of the 200 of POST /claimedIdentity: "claimed identity data
\* has been received and accepted"; so it is what the credential states.
AcceptedIsStated == \A s \in Sessions, n \in Names :
    stage = "done" /\ <<s, n>> \in credentials => n = accepted
-----------------------------------------------------------------------------
(***************************************************************************)
(* The inductive invariant behind RefusedOnlyWhenOver: the caller's view   *)
(* and the session's agree on how far the journey has got, although calls  *)
(* that were given up go on writing.                                       *)
(***************************************************************************)

\* Whose answer is awaited at each stage.
Endpoint == [start |-> "session", claim |-> "claimedIdentity", code |-> "authorization",
             token |-> "token", userinfo |-> "userinfo"]

\* An invocation that failed, whatever it was for.
Failed(r) == r.op = "none" /\ r.at = "respond" /\ r.status \in {400, 401, 500}

WaitingServed == waiting # NoInvocation =>
    /\ stage \in DOMAIN Endpoint
    /\ inv[waiting].op = Endpoint[stage] \/ Failed(inv[waiting])

\* One session, known to the caller only once /session has answered.
OneSession ==
    /\ stage = "start" => opened = {}
    /\ \A s, t \in opened : s = t

\* Nobody aborts; and what put a state into a row that had none is not /session.
RowsRegular ==
    /\ \A i \in Invocations : inv[i].op # "abort"
    /\ \A s \in Sessions :
        /\ sessionTable[s].state # "CIC_CRI_SESSION_ABORTED"
        /\ sessionTable[s].state = "MISSING" => ~sessionTable[s].registered

\* A claim is answered when its session has gone on, and none ever goes back to where
\* a claim is yet to come, although late claims take the state back as well.
ClaimAdvances ==
    /\ \A i \in Invocations :
        inv[i].op = "claimedIdentity" /\ inv[i].at = "respond" =>
            sessionTable[inv[i].sid].state # "CIC_SESSION_CREATED"
    /\ stage = "code" =>
        \A s \in opened : sessionTable[s].state # "CIC_SESSION_CREATED"

\* The row of a session goes on with the expiry it was put with, and is missed, by those
\* who may find it missing, only when that is past.
LastsItsTime ==
    /\ stage = "start" /\ waiting = NoInvocation =>
        /\ \A i \in Invocations : inv[i].op # "session"
        /\ \A s \in Sessions : ~sessionTable[s].registered
    /\ \A i \in Invocations : inv[i].op = "session" =>
        /\ inv[i].expiry \in Nat /\ since + SessionTtl <= inv[i].expiry
        /\ inv[i].at # "putSession" => sessionTable[inv[i].sid].registered \/ TimeIsUp
    /\ \A s \in Sessions : sessionTable[s].registered =>
        sessionTable[s].expiry \in Nat /\ since + SessionTtl <= sessionTable[s].expiry
    /\ \A s \in opened : sessionTable[s].registered \/ TimeIsUp

\* A refusal on its way has its reason already.
RefusalIsJust ==
    waiting # NoInvocation /\ stage \in Repeated /\ inv[waiting].status = 401 => TimeIsUp

\* What the caller waits for is at work on the caller's stage, one session is known, its row
\* is whole or gone, and gone only when its time is up; with consistent reads an answered
\* claim is never undone, and a refusal has its reason already when it is decided (the
\* branches for repeated requests).
JourneyInv ==
    /\ JourneyTypeOK
    /\ WaitingServed
    /\ OneSession
    /\ RowsRegular
    /\ LastsItsTime
    /\ ~StaleReads => ClaimAdvances /\ RefusalIsJust /\ RefusedOnlyWhenOver
=============================================================================
