-------------------------- MODULE JwksCacheProofs --------------------------
(***************************************************************************)
(* How long an adapter of JwksCache may lag behind the client's keys, for  *)
(* any keys, adapters, caching times and timeout. Every difference between *)
(* keys in use and keys published is due to a change whose date bounds the *)
(* time of use (CacheLag, ReplyLag); a verdict inherits that date.         *)
(***************************************************************************)
EXTENDS JwksCache, TLAPS

USE NoKidAssumption, AgesAssumption, ClockAssumption

LEMMA CachingTimes ==
    \A g \in MaxAges : CachingTime(g) \in Nat /\ CachingTime(g) <= LongestCaching
BY DEF CachingTime

LEMMA NoKeysDiffer == NoKeys \notin SUBSET Keys
BY DEF NoKeys

LEMMA InitJwks == Init => JwksInv
<1> SUFFICES ASSUME Init PROVE JwksInv
  OBVIOUS
<1>1. TypeOK
  BY DEF Init, TypeOK
<1>2. InTime
  BY DEF Init, InTime, Busy, Idle
<1>3. CacheLag /\ ReplyLag
  BY DEF Init, CacheLag, ReplyLag, NoCall
<1>4. RetiredKeyDies /\ PublishedKeyFound
  BY DEF Init, RetiredKeyDies, PublishedKeyFound, Ended
<1> QED
  BY <1>1, <1>2, <1>3, <1>4 DEF JwksInv
-----------------------------------------------------------------------------
(* Verdicts.                                                               *)

\* The verdict just reached: a key that is accepted though retired, or unknown
\* though published, changed no longer than MaxLag ago.
NewVerdict(a, kid) ==
    \E result \in {"accepted", "invalid", "unknown", "error"} :
        /\ Conclude(a, kid, result)
        /\ result = "accepted" /\ kid \notin published => now <= changedAt[kid] + MaxLag
        /\ result = "unknown" /\ kid \in published => now <= changedAt[kid] + MaxLag

LEMMA VerdictKeeps ==
    ASSUME JwksInv, NEW a \in Adapters, NEW kid \in Keys, NewVerdict(a, kid),
           UNCHANGED <<now, clientVars>>
    PROVE  /\ verdict' \in [Adapters -> {NoVerdict} \cup Verdict]
           /\ \A b \in Adapters : verdict'[b] # NoVerdict => verdict'[b].at <= now'
           /\ RetiredKeyDies' /\ PublishedKeyFound'
<1>1. PICK result \in {"accepted", "invalid", "unknown", "error"} :
        /\ Conclude(a, kid, result)
        /\ result = "accepted" /\ kid \notin published => now <= changedAt[kid] + MaxLag
        /\ result = "unknown" /\ kid \in published => now <= changedAt[kid] + MaxLag
  BY DEF NewVerdict
<1> DEFINE v == [kid |-> kid, result |-> result, at |-> now]
<1>2. v \in Verdict
  BY DEF JwksInv, TypeOK, Verdict
<1>3. \A b \in Adapters : verdict'[b] = IF b = a THEN v ELSE verdict[b]
  BY <1>1 DEF Conclude, JwksInv, TypeOK
<1>4. verdict' \in [Adapters -> {NoVerdict} \cup Verdict]
  BY <1>1, <1>2 DEF Conclude, JwksInv, TypeOK
<1>5. \A b \in Adapters : verdict'[b] # NoVerdict => verdict'[b].at <= now'
  BY <1>3 DEF JwksInv, InTime, TypeOK, clientVars
<1>6. RetiredKeyDies'
  BY <1>1, <1>3 DEF JwksInv, RetiredKeyDies, Ended, clientVars
<1>7. PublishedKeyFound'
  BY <1>1, <1>3 DEF JwksInv, PublishedKeyFound, Ended, clientVars
<1> QED
  BY <1>4, <1>5, <1>6, <1>7

\* Verifying against keys that differ from the published ones by recent changes.
LEMMA VerifyGivesVerdict ==
    ASSUME NEW a \in Adapters, NEW kid \in Keys, NEW keys, VerifyAgainst(a, kid, keys),
           (kid \in keys) # (kid \in published) => now <= changedAt[kid] + MaxLag
    PROVE  NewVerdict(a, kid)
BY DEF VerifyAgainst, NewVerdict
-----------------------------------------------------------------------------
(* The steps of an adapter.                                                *)

LEMMA VerifyCachedKeeps ==
    ASSUME JwksInv, NEW a \in Adapters, VerifyCached(a)
    PROVE  JwksInv'
<1>1. PICK kid \in Keys : VerifyAgainst(a, kid, cachedJwks[a])
  BY DEF VerifyCached
<1>2. UNCHANGED <<now, clientVars, cacheVars, call>>
  BY DEF VerifyCached
<1>3. (kid \in cachedJwks[a]) # (kid \in published) => now <= changedAt[kid] + MaxLag
  BY DEF VerifyCached, Fresh, JwksInv, CacheLag, TypeOK, MaxLag
<1>4. NewVerdict(a, kid)
  BY <1>1, <1>3, VerifyGivesVerdict
<1> QED
  BY <1>2, <1>4, VerdictKeeps
     DEF JwksInv, TypeOK, InTime, CacheLag, ReplyLag, Busy, Idle, clientVars, cacheVars

LEMMA FetchKeysKeeps ==
    ASSUME JwksInv, NEW a \in Adapters, FetchKeys(a)
    PROVE  JwksInv'
<1>1. PICK kid \in Keys :
        call' = [call EXCEPT ![a] = [at |-> "asking", kid |-> kid, since |-> now]]
  BY DEF FetchKeys
<1> DEFINE c == [at |-> "asking", kid |-> kid, since |-> now]
<1>2. c \in Asking /\ c.since = now /\ c.at = "asking"
  BY DEF Asking, JwksInv, TypeOK
<1>3. call' \in [Adapters -> {NoCall} \cup Asking \cup Answered]
  BY <1>1, <1>2 DEF JwksInv, TypeOK
<1>4. \A b \in Adapters : call'[b] = IF b = a THEN c ELSE call[b]
  BY <1>1 DEF JwksInv, TypeOK
<1> HIDE DEF c
<1>5. InTime'
  BY <1>2, <1>4 DEF JwksInv, InTime, TypeOK, Busy, Idle, FetchKeys, clientVars, cacheVars
<1>6. ReplyLag'
  BY <1>2, <1>4 DEF JwksInv, ReplyLag, FetchKeys, clientVars
<1> QED
  BY <1>3, <1>5, <1>6
     DEF JwksInv, TypeOK, CacheLag, RetiredKeyDies, PublishedKeyFound, Ended, FetchKeys,
         clientVars, cacheVars

LEMMA ServeKeysKeeps ==
    ASSUME JwksInv, NEW a \in Adapters, ServeKeys(a)
    PROVE  JwksInv'
<1>1. PICK keys \in {published, NoKeys}, maxAge \in MaxAges :
        call' = [call EXCEPT ![a] =
                   [at |-> "answered", kid |-> call[a].kid, since |-> call[a].since,
                    keys |-> keys, maxAge |-> maxAge]]
  BY DEF ServeKeys
<1> DEFINE c == [at |-> "answered", kid |-> call[a].kid, since |-> call[a].since,
                 keys |-> keys, maxAge |-> maxAge]
<1>2. call[a] \in Asking
  BY DEF ServeKeys, JwksInv, TypeOK, NoCall, Answered
<1>3. /\ c \in Answered
      /\ c.since = call[a].since /\ c.at = "answered" /\ c.keys = keys
  BY <1>2 DEF Answered, Asking, JwksInv, TypeOK
<1>4. call' \in [Adapters -> {NoCall} \cup Asking \cup Answered]
  BY <1>1, <1>3 DEF JwksInv, TypeOK
<1>5. \A b \in Adapters : call'[b] = IF b = a THEN c ELSE call[b]
  BY <1>1 DEF JwksInv, TypeOK
<1> HIDE DEF c
<1>6. a \in Busy
  BY DEF ServeKeys, Busy, Idle, NoCall
<1>7. InTime'
  BY <1>3, <1>5, <1>6 DEF JwksInv, InTime, TypeOK, Busy, Idle, ServeKeys, clientVars, cacheVars
<1>8. ReplyLag'
  BY <1>3, <1>5 DEF JwksInv, ReplyLag, ServeKeys, clientVars
<1> QED
  BY <1>4, <1>7, <1>8
     DEF JwksInv, TypeOK, CacheLag, RetiredKeyDies, PublishedKeyFound, Ended, ServeKeys,
         clientVars, cacheVars

\* An adapter that becomes idle disturbs nothing that is said of the others' calls.
LEMMA IdleKeeps ==
    ASSUME JwksInv, NEW a \in Adapters, call' = [call EXCEPT ![a] = NoCall],
           UNCHANGED <<now, clientVars>>
    PROVE  /\ call' \in [Adapters -> {NoCall} \cup Asking \cup Answered]
           /\ \A b \in Busy' : call'[b].since <= now' /\ now' <= call'[b].since + Timeout
           /\ ReplyLag'
<1>1. \A b \in Adapters : call'[b] = IF b = a THEN NoCall ELSE call[b]
  BY DEF JwksInv, TypeOK
<1>2. call' \in [Adapters -> {NoCall} \cup Asking \cup Answered]
  BY DEF JwksInv, TypeOK
<1>3. \A b \in Busy' : b \in Busy /\ call'[b] = call[b]
  BY <1>1 DEF Busy, Idle
<1>4. ReplyLag'
  BY <1>1 DEF JwksInv, ReplyLag, NoCall, clientVars
<1> QED
  BY <1>2, <1>3, <1>4 DEF JwksInv, InTime

LEMMA ReceiveKeysKeeps ==
    ASSUME JwksInv, NEW a \in Adapters, ReceiveKeys(a)
    PROVE  JwksInv'
<1> DEFINE kid == call[a].kid
           keys == call[a].keys
           caching == CachingTime(call[a].maxAge)
<1>1. call[a] \in Answered /\ a \in Busy
  BY DEF ReceiveKeys, JwksInv, TypeOK, Busy, Idle, NoCall, Asking
<1>2. /\ kid \in Keys /\ keys \in (SUBSET Keys) \cup {NoKeys} /\ call[a].since \in Nat
      /\ caching \in Nat /\ caching <= LongestCaching
  BY <1>1, CachingTimes DEF Answered
<1>3. now <= call[a].since + Timeout
  BY <1>1 DEF JwksInv, InTime
<1>4. \A k \in Keys : keys # NoKeys /\ (k \in keys) # (k \in published)
                        => call[a].since <= changedAt[k]
  BY DEF ReceiveKeys, JwksInv, ReplyLag
<1>5. UNCHANGED <<now, clientVars>>
  BY DEF ReceiveKeys
<1>6. NewVerdict(a, kid)
  <2>1. CASE keys # NoKeys
    <3>1. (kid \in keys) # (kid \in published) => now <= changedAt[kid] + MaxLag
      BY <2>1, <1>2, <1>3, <1>4 DEF MaxLag, JwksInv, TypeOK
    <3> QED
      BY <2>1, <3>1, <1>2, VerifyGivesVerdict DEF ReceiveKeys
  <2>2. CASE keys = NoKeys
    BY <2>2 DEF ReceiveKeys, NewVerdict
  <2> QED
    BY <2>1, <2>2
<1>7. /\ verdict' \in [Adapters -> {NoVerdict} \cup Verdict]
      /\ \A b \in Adapters : verdict'[b] # NoVerdict => verdict'[b].at <= now'
      /\ RetiredKeyDies' /\ PublishedKeyFound'
  BY <1>2, <1>5, <1>6, VerdictKeeps
<1>8. /\ call' \in [Adapters -> {NoCall} \cup Asking \cup Answered]
      /\ \A b \in Busy' : call'[b].since <= now' /\ now' <= call'[b].since + Timeout
      /\ ReplyLag'
  BY <1>5, IdleKeeps DEF ReceiveKeys
<1>9. /\ cachedJwks' \in [Adapters -> (SUBSET Keys) \cup {NoKeys}]
      /\ cachedTime' \in [Adapters -> Nat]
      /\ \A b \in Adapters : /\ cachedJwks'[b] = IF b = a THEN keys ELSE cachedJwks[b]
                             /\ cachedTime'[b] = IF b = a THEN now + caching ELSE cachedTime[b]
  BY <1>2 DEF ReceiveKeys, JwksInv, TypeOK
<1>10. \A b \in Adapters : cachedTime'[b] <= now' + LongestCaching
  BY <1>2, <1>5, <1>9 DEF JwksInv, InTime, TypeOK
<1>11. CacheLag'
  <2> SUFFICES ASSUME NEW b \in Adapters, NEW k \in Keys, cachedJwks'[b] # NoKeys,
                      (k \in cachedJwks'[b]) # (k \in published)
               PROVE  cachedTime'[b] <= changedAt[k] + MaxLag
    BY <1>5 DEF CacheLag, clientVars
  <2>1. CASE b = a
    <3>1. call[a].since <= changedAt[k]
      BY <2>1, <1>4, <1>9
    <3> QED
      BY <2>1, <3>1, <1>2, <1>3, <1>9 DEF MaxLag, JwksInv, TypeOK
  <2>2. CASE b # a
    BY <2>2, <1>9 DEF JwksInv, CacheLag
  <2> QED
    BY <2>1, <2>2
<1>12. TypeOK'
  BY <1>5, <1>7, <1>8, <1>9 DEF JwksInv, TypeOK, clientVars
<1>13. InTime'
  BY <1>5, <1>7, <1>8, <1>10 DEF JwksInv, InTime, clientVars
<1> QED
  BY <1>7, <1>8, <1>11, <1>12, <1>13 DEF JwksInv

LEMMA FetchFailsKeeps ==
    ASSUME JwksInv, NEW a \in Adapters, FetchFails(a)
    PROVE  JwksInv'
<1>1. call[a].kid \in Keys
  BY DEF FetchFails, JwksInv, TypeOK, Idle, Asking, Answered
<1>2. NewVerdict(a, call[a].kid)
  BY DEF FetchFails, NewVerdict
<1>3. UNCHANGED <<now, clientVars, cacheVars>>
  BY DEF FetchFails
<1>4. /\ verdict' \in [Adapters -> {NoVerdict} \cup Verdict]
      /\ \A b \in Adapters : verdict'[b] # NoVerdict => verdict'[b].at <= now'
      /\ RetiredKeyDies' /\ PublishedKeyFound'
  BY <1>1, <1>2, <1>3, VerdictKeeps
<1>5. /\ call' \in [Adapters -> {NoCall} \cup Asking \cup Answered]
      /\ \A b \in Busy' : call'[b].since <= now' /\ now' <= call'[b].since + Timeout
      /\ ReplyLag'
  BY <1>3, IdleKeeps DEF FetchFails
<1> QED
  BY <1>3, <1>4, <1>5 DEF JwksInv, TypeOK, InTime, CacheLag, clientVars, cacheVars

LEMMA ReplaceContainerKeeps ==
    ASSUME JwksInv, NEW a \in Adapters, ReplaceContainer(a)
    PROVE  JwksInv'
<1>1. UNCHANGED <<now, clientVars, verdict>>
  BY DEF ReplaceContainer
<1>2. /\ call' \in [Adapters -> {NoCall} \cup Asking \cup Answered]
      /\ \A b \in Busy' : call'[b].since <= now' /\ now' <= call'[b].since + Timeout
      /\ ReplyLag'
  BY <1>1, IdleKeeps DEF ReplaceContainer
<1>3. /\ cachedJwks' \in [Adapters -> (SUBSET Keys) \cup {NoKeys}]
      /\ cachedTime' \in [Adapters -> Nat]
      /\ \A b \in Adapters : /\ cachedJwks'[b] = IF b = a THEN NoKeys ELSE cachedJwks[b]
                             /\ cachedTime'[b] = IF b = a THEN 0 ELSE cachedTime[b]
  BY DEF ReplaceContainer, JwksInv, TypeOK
<1>4. CacheLag' /\ \A b \in Adapters : cachedTime'[b] <= now' + LongestCaching
  BY <1>1, <1>3 DEF JwksInv, CacheLag, InTime, TypeOK, clientVars
<1> QED
  BY <1>1, <1>2, <1>3, <1>4
     DEF JwksInv, TypeOK, InTime, RetiredKeyDies, PublishedKeyFound, Ended, clientVars
-----------------------------------------------------------------------------
(* The client and time.                                                    *)

LEMMA PublishOrRetireKeeps ==
    ASSUME JwksInv, NEW kid \in Keys, PublishOrRetire(kid)
    PROVE  JwksInv'
<1>1. UNCHANGED <<now, cacheVars, call, verdict>>
  BY DEF PublishOrRetire
<1>2. \A k \in Keys : k # kid => (k \in published') = (k \in published)
  BY DEF PublishOrRetire
<1>3. \A k \in Keys : changedAt'[k] = IF k = kid THEN now ELSE changedAt[k]
  BY DEF PublishOrRetire, JwksInv, TypeOK
<1>4. TypeOK'
  BY <1>1 DEF PublishOrRetire, JwksInv, TypeOK, cacheVars
<1>5. InTime'
  BY <1>1, <1>3 DEF JwksInv, InTime, TypeOK, Busy, Idle, cacheVars
<1>6. CacheLag'
  BY <1>1, <1>2, <1>3 DEF JwksInv, CacheLag, InTime, TypeOK, MaxLag, cacheVars
<1>7. ReplyLag'
  <2> SUFFICES ASSUME NEW a \in Adapters, NEW k \in Keys, call[a].at = "answered",
                      call[a].keys # NoKeys, (k \in call[a].keys) # (k \in published')
               PROVE  call[a].since <= changedAt'[k]
    BY <1>1 DEF ReplyLag
  <2>1. call[a].since <= now
    BY DEF JwksInv, InTime, Busy, Idle, NoCall
  <2> QED
    BY <2>1, <1>2, <1>3 DEF JwksInv, ReplyLag
<1>8. \A a \in Adapters : verdict[a] # NoVerdict
        => /\ verdict[a].kid \in Keys /\ verdict[a].at \in Nat /\ verdict[a].at <= now
  BY DEF JwksInv, TypeOK, InTime, Verdict
<1>9. RetiredKeyDies' /\ PublishedKeyFound'
  BY <1>1, <1>2, <1>3, <1>8
     DEF JwksInv, TypeOK, RetiredKeyDies, PublishedKeyFound, Ended, MaxLag
<1> QED
  BY <1>4, <1>5, <1>6, <1>7, <1>9 DEF JwksInv

LEMMA TickKeeps == ASSUME JwksInv, Tick PROVE JwksInv'
<1>1. UNCHANGED <<clientVars, cacheVars, call, verdict>> /\ now' = now + 1
  BY DEF Tick
<1>2. \A a \in Busy : call[a].since \in Nat
  BY DEF JwksInv, TypeOK, Busy, Idle, Asking, Answered
<1>3. Busy' = Busy
  BY <1>1 DEF Busy, Idle
<1>4. \A a \in Adapters : verdict[a] # NoVerdict => verdict[a].at \in Nat
  BY DEF JwksInv, TypeOK, Verdict
<1>5. InTime'
  BY <1>1, <1>2, <1>3, <1>4 DEF JwksInv, InTime, TypeOK, Tick, clientVars, cacheVars
<1> QED
  BY <1>1, <1>5 DEF JwksInv, TypeOK, CacheLag, ReplyLag, RetiredKeyDies, PublishedKeyFound,
     Ended, clientVars, cacheVars
-----------------------------------------------------------------------------
LEMMA StepKeepsJwksInv == JwksInv /\ [Next]_vars => JwksInv'
<1> SUFFICES ASSUME JwksInv, [Next]_vars PROVE JwksInv'
  OBVIOUS
<1>1. ASSUME NEW a \in Adapters, AdapterStep(a) PROVE JwksInv'
  BY <1>1, VerifyCachedKeeps, FetchKeysKeeps, ServeKeysKeeps, ReceiveKeysKeeps,
     FetchFailsKeeps, ReplaceContainerKeeps DEF AdapterStep
<1>2. ASSUME NEW kid \in Keys, PublishOrRetire(kid) PROVE JwksInv'
  BY <1>2, PublishOrRetireKeeps
<1>3. CASE Tick
  BY <1>3, TickKeeps
<1>4. CASE UNCHANGED vars
  BY <1>4 DEF vars, clientVars, cacheVars, JwksInv, TypeOK, InTime, CacheLag, ReplyLag,
     RetiredKeyDies, PublishedKeyFound, Ended, Busy, Idle
<1> QED
  BY <1>1, <1>2, <1>3, <1>4 DEF Next

\* Every difference between the keys an adapter goes by and the published ones is
\* younger than MaxLag (verifyWithJwks, for any number of adapters and keys).
THEOREM JwksInvariantHolds == Spec => []JwksInv
<1> QED
  BY InitJwks, StepKeepsJwksInv, PTL DEF Spec

\* A retired key is accepted for MaxLag at most.
THEOREM RetiredKeysDie == Spec => []RetiredKeyDies
<1>1. JwksInv => RetiredKeyDies
  BY DEF JwksInv
<1> QED
  BY <1>1, JwksInvariantHolds, PTL

\* A key that has been published for MaxLag is known to every adapter.
THEOREM PublishedKeysFound == Spec => []PublishedKeyFound
<1>1. JwksInv => PublishedKeyFound
  BY DEF JwksInv
<1> QED
  BY <1>1, JwksInvariantHolds, PTL
=============================================================================
