----------------------------- MODULE JwksCache -----------------------------
(***************************************************************************)
(* KmsJwtAdapter.verifyWithJwks: how /session and /token verify what the   *)
(* client signed. Each Lambda container has one adapter and each adapter   *)
(* keeps the client's published keys for as long as the reply's            *)
(* Cache-Control said, while the client goes on to publish and retire      *)
(* keys. A container runs one invocation at a time.                        *)
(*                                                                         *)
(* There is one JWKS endpoint: the cache does not record where its keys    *)
(* came from, and every environment of deploy/template.yaml configures a   *)
(* single client. A key and its kid are the same thing.                    *)
(***************************************************************************)
EXTENDS Integers

CONSTANTS
    Keys,            \* the keys of the client, by kid
    NoKid,           \* the kid of no key
    Adapters,        \* the adapters of all containers of /session and /token
    MaxAges,         \* what max-age a reply may carry
    NoMaxAge,        \* the reply has no Cache-Control, or none with a max-age
    DefaultMaxAge,   \* 300 seconds
    LongestCaching,  \* an upper bound of the caching times that MaxAges cause
    Timeout,         \* of an invocation
    MaxTime          \* bound: the clock stops here

\* max-age=0 is as falsy as no number at all.
CachingTime(maxAge) == IF maxAge \in Nat \ {0} THEN maxAge ELSE DefaultMaxAge

\* undefined: nothing cached, or a reply without keys
NoKeys == {NoKid}

ASSUME NoKidAssumption == NoKid \notin Keys
ASSUME AgesAssumption ==
    /\ MaxAges \subseteq Nat \cup {NoMaxAge} /\ NoMaxAge \notin Nat
    /\ DefaultMaxAge \in Nat /\ LongestCaching \in Nat
    /\ \A g \in MaxAges : CachingTime(g) <= LongestCaching
ASSUME ClockAssumption == Timeout \in Nat \ {0} /\ MaxTime \in Nat

VARIABLES
    now,         \* the clock
    published,   \* the keys the client's endpoint serves
    changedAt,   \* history: when the client last published or retired a key
    cachedJwks,  \* by adapter
    cachedTime,  \* by adapter: until when cachedJwks may be used
    call,        \* by adapter: its call of verifyWithJwks
    verdict      \* by adapter: how its last completed call ended, and when

clientVars == <<published, changedAt>>
cacheVars == <<cachedJwks, cachedTime>>
vars == <<now, clientVars, cacheVars, call, verdict>>

\* since: when the invocation began; keys and maxAge: the reply it got.
NoCall == [at |-> "idle"]
Asking == [at : {"asking"}, kid : Keys, since : Nat]
Answered == [at : {"answered"}, kid : Keys, since : Nat,
             keys : (SUBSET Keys) \cup {NoKeys}, maxAge : MaxAges]

NoVerdict == [result |-> "none"]
Verdict == [kid : Keys, result : {"accepted", "invalid", "unknown", "error"}, at : Nat]

Idle(a) == call[a] = NoCall
Busy == {a \in Adapters : ~Idle(a)}
-----------------------------------------------------------------------------
(* The adapter. jwtVerify accepts a token or finds its signature or its    *)
(* dates invalid; a kid that is not among the keys is refused at once.     *)

\* Mutant: the refresh forgets to look at the time.
FreshForever(a) == cachedJwks[a] # NoKeys

Fresh(a) == cachedJwks[a] # NoKeys /\ now <= cachedTime[a]

Conclude(a, kid, result) ==
    verdict' = [verdict EXCEPT ![a] = [kid |-> kid, result |-> result, at |-> now]]

VerifyAgainst(a, kid, keys) ==
    \/ kid \in keys /\ \E result \in {"accepted", "invalid"} : Conclude(a, kid, result)
    \/ kid \notin keys /\ Conclude(a, kid, "unknown")

\* Mutant: every use of the cache prolongs it.
VerifyAndProlong(a) ==
    /\ Idle(a)
    /\ Fresh(a)
    /\ \E kid \in Keys : VerifyAgainst(a, kid, cachedJwks[a])
    /\ cachedTime' = [cachedTime EXCEPT ![a] = now + DefaultMaxAge]
    /\ UNCHANGED <<now, clientVars, cachedJwks, call>>

VerifyCached(a) ==
    /\ Idle(a)
    /\ Fresh(a)
    /\ \E kid \in Keys : VerifyAgainst(a, kid, cachedJwks[a])
    /\ UNCHANGED <<now, clientVars, cacheVars, call>>

FetchKeys(a) ==
    /\ Idle(a)
    /\ ~Fresh(a)
    /\ \E kid \in Keys :
         call' = [call EXCEPT ![a] = [at |-> "asking", kid |-> kid, since |-> now]]
    /\ UNCHANGED <<now, clientVars, cacheVars, verdict>>

\* What was fetched replaces what was cached even when it holds no keys.
ReceiveKeys(a) ==
    /\ call[a].at = "answered"
    /\ cachedJwks' = [cachedJwks EXCEPT ![a] = call[a].keys]
    /\ cachedTime' = [cachedTime EXCEPT ![a] = now + CachingTime(call[a].maxAge)]
    /\ \/ /\ call[a].keys # NoKeys
          /\ VerifyAgainst(a, call[a].kid, call[a].keys)
       \/ /\ call[a].keys = NoKeys
          /\ Conclude(a, call[a].kid, "error")
    /\ call' = [call EXCEPT ![a] = NoCall]
    /\ UNCHANGED <<now, clientVars>>

\* Mutant: when the fetch fails, what was cached is used for longer.
FetchFailsOver(a) ==
    /\ ~Idle(a)
    /\ Conclude(a, call[a].kid, "error")
    /\ call' = [call EXCEPT ![a] = NoCall]
    /\ cachedTime' = [cachedTime EXCEPT ![a] = now + DefaultMaxAge]
    /\ UNCHANGED <<now, clientVars, cachedJwks>>

FetchFails(a) ==
    /\ ~Idle(a)
    /\ Conclude(a, call[a].kid, "error")
    /\ call' = [call EXCEPT ![a] = NoCall]
    /\ UNCHANGED <<now, clientVars, cacheVars>>

\* A container ends, idle or in the middle of a call, and another takes its place.
ReplaceContainer(a) ==
    /\ cachedJwks' = [cachedJwks EXCEPT ![a] = NoKeys]
    /\ cachedTime' = [cachedTime EXCEPT ![a] = 0]
    /\ call' = [call EXCEPT ![a] = NoCall]
    /\ UNCHANGED <<now, clientVars, verdict>>
-----------------------------------------------------------------------------
(* The client, its endpoint and time. A call that does not end within      *)
(* Timeout is ended, so time passes only while no call exceeds it.         *)

ServeKeys(a) ==
    /\ call[a].at = "asking"
    /\ \E keys \in {published, NoKeys}, maxAge \in MaxAges :
         call' = [call EXCEPT ![a] =
                    [at |-> "answered", kid |-> call[a].kid, since |-> call[a].since,
                     keys |-> keys, maxAge |-> maxAge]]
    /\ UNCHANGED <<now, clientVars, cacheVars, verdict>>

PublishOrRetire(kid) ==
    /\ published' \in {published \cup {kid}, published \ {kid}} \ {published}
    /\ changedAt' = [changedAt EXCEPT ![kid] = now]
    /\ UNCHANGED <<now, cacheVars, call, verdict>>

Tick ==
    /\ now < MaxTime
    /\ \A a \in Busy : now < call[a].since + Timeout
    /\ now' = now + 1
    /\ UNCHANGED <<clientVars, cacheVars, call, verdict>>
-----------------------------------------------------------------------------
Init ==
    /\ now = 0
    /\ published \in SUBSET Keys
    /\ changedAt = [kid \in Keys |-> 0]
    /\ cachedJwks = [a \in Adapters |-> NoKeys]
    /\ cachedTime = [a \in Adapters |-> 0]
    /\ call = [a \in Adapters |-> NoCall]
    /\ verdict = [a \in Adapters |-> NoVerdict]

AdapterStep(a) ==
    \/ VerifyCached(a)
    \/ FetchKeys(a)
    \/ ServeKeys(a)
    \/ ReceiveKeys(a)
    \/ FetchFails(a)
    \/ ReplaceContainer(a)

Next ==
    \/ \E a \in Adapters : AdapterStep(a)
    \/ \E kid \in Keys : PublishOrRetire(kid)
    \/ Tick

Spec == Init /\ [][Next]_vars
-----------------------------------------------------------------------------
\* Type correctness: what verifyWithJwks keeps and returns is well formed.
TypeOK ==
    /\ now \in Nat
    /\ published \in SUBSET Keys
    /\ changedAt \in [Keys -> Nat]
    /\ cachedJwks \in [Adapters -> (SUBSET Keys) \cup {NoKeys}]
    /\ cachedTime \in [Adapters -> Nat]
    /\ call \in [Adapters -> {NoCall} \cup Asking \cup Answered]
    /\ verdict \in [Adapters -> {NoVerdict} \cup Verdict]

\* How long the keys an adapter goes by may lag behind the published ones: the
\* reply is under way no longer than its invocation runs, and cached thereafter.
MaxLag == Timeout + LongestCaching

Ended(a, result) == verdict[a] # NoVerdict /\ verdict[a].result = result

\* A key the client has retired is accepted for MaxLag at most, by any adapter,
\* whatever its cache holds and however late a reply to it arrives (the refresh
\* in verifyWithJwks).
RetiredKeyDies == \A a \in Adapters :
    Ended(a, "accepted") /\ verdict[a].kid \notin published
        => verdict[a].at <= changedAt[verdict[a].kid] + MaxLag

\* A client that signs with a key no earlier than MaxLag after publishing it, and
\* keeps it published, is never told that there is no key with that kid: the safe
\* overlap of adr/0001 exists although an unknown kid causes no fetch.
PublishedKeyFound == \A a \in Adapters :
    Ended(a, "unknown") /\ verdict[a].kid \in published
        => verdict[a].at <= changedAt[verdict[a].kid] + MaxLag

\* Whatever an adapter may still use differs from what is published by changes of
\* the last MaxLag only, as seen from the time the use ends.
CacheLag == \A a \in Adapters, kid \in Keys :
    cachedJwks[a] # NoKeys /\ (kid \in cachedJwks[a]) # (kid \in published)
        => cachedTime[a] <= changedAt[kid] + MaxLag
ReplyLag == \A a \in Adapters, kid \in Keys :
    /\ call[a].at = "answered"
    /\ call[a].keys # NoKeys
    /\ (kid \in call[a].keys) # (kid \in published)
    => call[a].since <= changedAt[kid]

\* No cache outlives the longest caching time, no call its timeout, and nothing
\* happened in the future.
InTime ==
    /\ \A a \in Adapters : cachedTime[a] <= now + LongestCaching
    /\ \A a \in Busy : call[a].since <= now /\ now <= call[a].since + Timeout
    /\ \A a \in Adapters : verdict[a] # NoVerdict => verdict[a].at <= now
    /\ \A kid \in Keys : changedAt[kid] <= now

\* The inductive invariant behind RetiredKeyDies and PublishedKeyFound.
JwksInv == TypeOK /\ InTime /\ CacheLag /\ ReplyLag /\ RetiredKeyDies /\ PublishedKeyFound

\* What the comment at KmsJwtAdapter.ts:93 says: the default applies when the
\* reply has no max-age; one that has it is cached for no longer.
MaxAgeHonoured == [][\A a \in Adapters :
    ReceiveKeys(a) /\ call[a].maxAge # NoMaxAge
        => cachedTime'[a] <= now + call[a].maxAge]_vars
=============================================================================
