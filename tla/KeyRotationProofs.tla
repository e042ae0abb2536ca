------------------------- MODULE KeyRotationProofs -------------------------
(***************************************************************************)
(* That the search of KmsJwtAdapter.decrypt finds every key that is there  *)
(* to be found, for any number of aliases, keys, requests and concurrent   *)
(* calls, any lifetime and any timeout. The argument is about one call:    *)
(* whoever was asked in vain got the key later if he has it (AskedInVain), *)
(* so somebody who has had it since before the call is still to be asked   *)
(* (StillFindable), and the rotation may take it from him only if there is *)
(* another of this kind.                                                   *)
(***************************************************************************)
EXTENDS KeyRotation, TLAPS

USE KeysAssumption, AliasAssumption, TimesAssumption

LEMMA HolderFacts ==
    /\ Legacy \in Holders /\ Legacy \notin Aliases /\ Aliases \subseteq Holders
    /\ Holders \subseteq Nat
    /\ \A h \in Holders : h >= 1 /\ h <= Legacy
    /\ \A h \in Aliases : h + 1 \in Holders
BY DEF Legacy, Holders, Aliases

LEMMA BusyCalls ==
    ASSUME TypeOK, NEW c \in Busy
    PROVE  /\ c \in Calls /\ call[c] \in Call
           /\ call[c].next \in Holders /\ call[c].silent \in SUBSET Holders
           /\ call[c].key \in Keys \cup {ForeignKey}
           /\ call[c].exp \in Nat /\ call[c].since \in Nat
BY DEF TypeOK, Busy, Call

LEMMA Searching ==
    ASSUME TypeOK, NEW c \in Calls, call[c].next \in Holders
    PROVE  c \in Busy
BY HolderFacts DEF Busy, NoCall

LEMMA InitKeys == Init => KeyInv
<1> SUFFICES ASSUME Init PROVE KeyInv
  OBVIOUS
<1>1. TypeOK
  BY DEF Init, TypeOK
<1>2. InTime
  BY DEF Init, InTime, Busy, Undecryptable, NoVerdict
<1>3. NeededHeld
  BY <1>1 DEF Init, NeededHeld, Needed, TypeOK
<1>4. KeysAwaited /\ AskedInVain /\ StillFindable
  BY DEF Init, KeysAwaited, AskedInVain, StillFindable, Busy, NoRequest
<1>5. HeldKeyFound /\ LiveRequestDecrypts
  BY DEF Init, HeldKeyFound, LiveRequestDecrypts, Undecryptable, NoVerdict
<1> QED
  BY <1>1, <1>2, <1>3, <1>4, <1>5 DEF KeyInv
-----------------------------------------------------------------------------
(* The stub.                                                               *)

\* What a request must satisfy to be put in the hands of a stub.
GoodRequest(r) ==
    /\ r \in {NoRequest} \cup Signed \cup Request
    /\ r # NoRequest => r.exp <= now + Lifetime
    /\ r.at = "made" /\ r.key \in Keys => Awaited(r.key, r.exp)

LEMMA RequestKeeps ==
    ASSUME KeyInv, NEW s \in Stubs, NEW r, GoodRequest(r), request' = [request EXCEPT ![s] = r],
           UNCHANGED <<now, keyVars, call, verdict>>
    PROVE  KeyInv'
<1>1. \A z \in Stubs : request'[z] = IF z = s THEN r ELSE request[z]
  BY DEF KeyInv, TypeOK
<1>2. TypeOK'
  BY DEF KeyInv, TypeOK, GoodRequest, keyVars
<1>3. InTime'
  BY <1>1 DEF KeyInv, InTime, GoodRequest, Busy, Undecryptable, keyVars
<1>4. KeysAwaited'
  BY <1>1 DEF KeyInv, KeysAwaited, GoodRequest, Awaited, Busy, keyVars
<1>5. NeededHeld' /\ AskedInVain' /\ StillFindable'
  BY DEF KeyInv, NeededHeld, Needed, AskedInVain, StillFindable, Findable, Busy, keyVars
<1>6. HeldKeyFound' /\ LiveRequestDecrypts'
  BY DEF KeyInv, HeldKeyFound, LiveRequestDecrypts, Undecryptable, keyVars
<1> QED
  BY <1>2, <1>3, <1>4, <1>5, <1>6 DEF KeyInv

LEMMA StubStepKeeps ==
    ASSUME KeyInv, NEW s \in Stubs, StubStep(s)
    PROVE  KeyInv'
<1>1. UNCHANGED <<now, keyVars, call, verdict>>
  BY DEF StubStep, StartCicCheck, EncryptRequest, DropRequest
<1>2. CASE StartCicCheck(s)
  <2> DEFINE r == [at |-> "signed", exp |-> now + Lifetime]
  <2>1. r \in Signed /\ r.at = "signed" /\ r.exp = now + Lifetime
    BY DEF KeyInv, TypeOK, Signed
  <2>2. GoodRequest(r)
    BY <2>1 DEF GoodRequest, KeyInv, TypeOK
  <2>3. request' = [request EXCEPT ![s] = r]
    BY <1>2 DEF StartCicCheck
  <2> HIDE DEF r
  <2> QED
    BY <1>1, <2>2, <2>3, RequestKeeps
<1>3. CASE EncryptRequest(s)
  <2>1. PICK key \in {published, ForeignKey} : request' = [request EXCEPT ![s] = Encrypted(s, key)]
    BY <1>3 DEF EncryptRequest, EncryptionKeys
  <2> DEFINE r == [at |-> "made", exp |-> request[s].exp, key |-> key]
  <2>2. request[s] \in Signed \cup Request /\ request[s] # NoRequest
    BY <1>3 DEF EncryptRequest, KeyInv, TypeOK, NoRequest
  <2>3. request[s].exp \in Nat /\ request[s].exp <= now + Lifetime
    BY <2>2 DEF KeyInv, InTime, Signed, Request
  <2>4. r \in Request /\ r.exp = request[s].exp /\ r.key = key
    BY <2>3 DEF KeyInv, TypeOK, Request
  <2>5. GoodRequest(r)
    BY <2>3, <2>4 DEF GoodRequest, Awaited
  <2>6. request' = [request EXCEPT ![s] = r]
    BY <2>1 DEF Encrypted
  <2> HIDE DEF r
  <2> QED
    BY <1>1, <2>5, <2>6, RequestKeeps
<1>4. CASE DropRequest(s)
  <2>1. GoodRequest(NoRequest)
    BY DEF GoodRequest, NoRequest
  <2> QED
    BY <1>1, <1>4, <2>1, RequestKeeps DEF DropRequest
<1> QED
  BY <1>2, <1>3, <1>4 DEF StubStep
-----------------------------------------------------------------------------
(* The calls of decrypt.                                                   *)

\* What a call must satisfy to be under way.
GoodCall(d) ==
    /\ d \in Call
    /\ d.since <= now /\ now <= d.since + Timeout /\ d.exp <= now + Lifetime
    /\ d.key \in Keys => Awaited(d.key, d.exp)
    /\ \A h \in Holders : h < d.next /\ h \notin d.silent /\ holder[h] = d.key
                            => movedAt[h] >= d.since
    /\ d.key \in Keys /\ d.since <= d.exp
         => \E h \in Holders : /\ holder[h] = d.key /\ movedAt[h] <= d.since
                               /\ h >= d.next \/ h \in d.silent

LEMMA CallsAreGood == ASSUME KeyInv, NEW c \in Busy PROVE GoodCall(call[c])
BY BusyCalls DEF KeyInv, InTime, KeysAwaited, AskedInVain, StillFindable, Findable, GoodCall

\* What a verdict must satisfy: it is no worse than what the two properties allow.
GoodVerdict(v) ==
    /\ v \in {NoVerdict, Decrypted} \cup Undecrypted
    /\ v.result = "undecryptable" =>
        /\ \A h \in Holders : holder[h] = v.key => h \in v.silent \/ movedAt[h] >= v.since
        /\ v.key = ForeignKey \/ v.silent # {} \/ v.since > v.exp
        /\ v.since <= now

LEMMA VerdictsAreGood == ASSUME KeyInv, NEW c \in Calls PROVE GoodVerdict(verdict[c])
BY DEF KeyInv, TypeOK, InTime, HeldKeyFound, LiveRequestDecrypts, Undecryptable, GoodVerdict

LEMMA CallKeeps ==
    ASSUME KeyInv, NEW c \in Calls, NEW d, d = NoCall \/ GoodCall(d), NEW v, GoodVerdict(v),
           call' = [call EXCEPT ![c] = d], verdict' = [verdict EXCEPT ![c] = v],
           UNCHANGED <<now, keyVars, request>>
    PROVE  KeyInv'
<1>1. \A b \in Calls : /\ call'[b] = IF b = c THEN d ELSE call[b]
                       /\ verdict'[b] = IF b = c THEN v ELSE verdict[b]
  BY DEF KeyInv, TypeOK
<1>2. TypeOK'
  BY DEF KeyInv, TypeOK, GoodCall, GoodVerdict, keyVars
<1>3. \A b \in Busy' : b \in Calls /\ GoodCall(call'[b])
  BY <1>1, CallsAreGood DEF Busy
<1>4. \A b \in Calls : GoodVerdict(verdict'[b])
  BY <1>1, VerdictsAreGood
<1>5. InTime'
  BY <1>3, <1>4 DEF KeyInv, InTime, Undecryptable, GoodCall, GoodVerdict, keyVars
<1>6. NeededHeld'
  BY DEF KeyInv, NeededHeld, Needed, keyVars
<1>7. KeysAwaited'
  BY <1>3 DEF KeyInv, KeysAwaited, GoodCall, Awaited, keyVars
<1>8. AskedInVain' /\ StillFindable'
  BY <1>3 DEF AskedInVain, StillFindable, Findable, GoodCall, keyVars
<1>9. HeldKeyFound' /\ LiveRequestDecrypts'
  BY <1>4 DEF HeldKeyFound, LiveRequestDecrypts, Undecryptable, GoodVerdict, keyVars
<1> QED
  BY <1>2, <1>5, <1>6, <1>7, <1>8, <1>9 DEF KeyInv

\* A step that gives no verdict leaves the last one in place.
LEMMA OldVerdict ==
    ASSUME KeyInv, NEW c \in Calls, UNCHANGED verdict
    PROVE  verdict' = [verdict EXCEPT ![c] = verdict[c]] /\ GoodVerdict(verdict[c])
BY VerdictsAreGood DEF KeyInv, TypeOK

LEMMA PresentRequestKeeps ==
    ASSUME KeyInv, NEW c \in Calls, NEW s \in Stubs, PresentRequest(c, s)
    PROVE  KeyInv'
<1> DEFINE d == [next |-> 1, silent |-> {}, key |-> request[s].key,
                 exp |-> request[s].exp, since |-> now]
<1>1. /\ request[s] \in Request /\ request[s] # NoRequest
      /\ request[s].exp \in Nat /\ request[s].key \in Keys \cup {ForeignKey}
      /\ request[s].exp <= now + Lifetime
      /\ request[s].key \in Keys => Awaited(request[s].key, request[s].exp)
  BY DEF PresentRequest, KeyInv, TypeOK, InTime, KeysAwaited, NoRequest, Signed, Request
<1>2. /\ d \in Call /\ d.next = 1 /\ d.silent = {} /\ d.key = request[s].key
      /\ d.exp = request[s].exp /\ d.since = now
  BY <1>1 DEF Call, Holders, Legacy, KeyInv, TypeOK
<1>3. call' = [call EXCEPT ![c] = d]
  BY DEF PresentRequest
<1> HIDE DEF d
<1>4. d.key \in Keys /\ d.since <= d.exp
        => \E h \in Holders : holder[h] = d.key /\ movedAt[h] <= d.since /\ h >= d.next
  <2> SUFFICES ASSUME d.key \in Keys, now <= d.exp
               PROVE  \E h \in Holders : holder[h] = d.key /\ movedAt[h] <= now /\ h >= 1
    BY <1>2
  <2>1. d.exp \in Nat /\ (d.key = published \/ d.exp + Timeout <= usedUntil[d.key])
    BY <1>1, <1>2 DEF Awaited
  <2>2. now \in Nat /\ usedUntil[d.key] \in Int
    BY DEF KeyInv, TypeOK
  <2>3. Needed(d.key)
    BY <2>1, <2>2 DEF Needed
  <2>4. PICK h \in Holders : holder[h] = d.key
    BY <2>3 DEF KeyInv, NeededHeld
  <2> QED
    BY <2>4, HolderFacts DEF KeyInv, InTime
<1>5. GoodCall(d)
  BY <1>1, <1>2, <1>4, HolderFacts DEF GoodCall, KeyInv, TypeOK
<1>6. UNCHANGED <<now, keyVars, request>> /\ verdict' = [verdict EXCEPT ![c] = NoVerdict]
  BY DEF PresentRequest
<1>7. GoodVerdict(NoVerdict)
  BY DEF GoodVerdict, NoVerdict
<1> QED
  BY <1>3, <1>5, <1>6, <1>7, CallKeeps

\* A call that has no key for the one that was asked, or no answer from it, goes on.
LEMMA ProceedKeeps ==
    ASSUME KeyInv, NEW c \in Calls, call[c].next \in Aliases,
           NEW silent, \/ silent = call[c].silent /\ ~RightKey(c)
                       \/ silent = SilentNow(c),
           Proceed(c, call[c].next + 1, silent), UNCHANGED <<now, keyVars, request>>
    PROVE  KeyInv'
<1> DEFINE d == [next |-> call[c].next + 1, silent |-> silent, key |-> call[c].key,
                 exp |-> call[c].exp, since |-> call[c].since]
<1>1. c \in Busy
  BY Searching, HolderFacts DEF KeyInv
<1>2. /\ call[c].next \in Holders /\ call[c].silent \in SUBSET Holders
      /\ call[c].key \in Keys \cup {ForeignKey}
      /\ call[c].exp \in Nat /\ call[c].since \in Nat
  BY <1>1, BusyCalls DEF KeyInv
<1>3. /\ d \in Call /\ d.next = call[c].next + 1 /\ d.silent = silent
      /\ d.key = call[c].key /\ d.exp = call[c].exp /\ d.since = call[c].since
  BY <1>2, HolderFacts DEF Call, SilentNow
<1>4. call' = [call EXCEPT ![c] = d] /\ UNCHANGED verdict
  BY DEF Proceed
<1> HIDE DEF d
<1>5. GoodCall(call[c])
  BY <1>1, CallsAreGood
<1>6. \A h \in Holders : /\ h < d.next <=> h < call[c].next \/ h = call[c].next
                         /\ h >= call[c].next <=> h >= d.next \/ h = call[c].next
  BY <1>2, <1>3, HolderFacts
<1>7. \A h \in Holders : h < d.next /\ h \notin d.silent /\ holder[h] = d.key
                         => movedAt[h] >= d.since
  BY <1>3, <1>5, <1>6 DEF GoodCall, RightKey, SilentNow
<1>8. d.key \in Keys /\ d.since <= d.exp
        => \E h \in Holders : /\ holder[h] = d.key /\ movedAt[h] <= d.since
                              /\ h >= d.next \/ h \in d.silent
  BY <1>3, <1>5, <1>6 DEF GoodCall, RightKey, SilentNow
<1>9. GoodCall(d)
  BY <1>3, <1>5, <1>7, <1>8 DEF GoodCall
<1> QED
  BY <1>4, <1>9, OldVerdict, CallKeeps

LEMMA SucceedKeeps ==
    ASSUME KeyInv, NEW c \in Calls, Succeed(c), UNCHANGED <<now, keyVars, request>>
    PROVE  KeyInv'
<1>1. GoodVerdict(Decrypted)
  BY DEF GoodVerdict, Decrypted
<1> QED
  BY <1>1, CallKeeps DEF Succeed

LEMMA AskAliasKeeps ==
    ASSUME KeyInv, NEW c \in Calls, AskAlias(c)
    PROVE  KeyInv'
<1>1. call[c].next \in Aliases /\ UNCHANGED <<now, keyVars, request>>
  BY DEF AskAlias
<1>2. CASE Succeed(c)
  BY <1>1, <1>2, SucceedKeeps
<1>3. CASE ~RightKey(c) /\ Proceed(c, call[c].next + 1, call[c].silent)
  BY <1>1, <1>3, ProceedKeeps
<1>4. CASE Proceed(c, call[c].next + 1, SilentNow(c))
  BY <1>1, <1>4, ProceedKeeps
<1> QED
  BY <1>2, <1>3, <1>4 DEF AskAlias

LEMMA GiveUpKeeps ==
    ASSUME KeyInv, NEW c \in Calls, call[c].next = Legacy,
           NEW silent, \/ silent = call[c].silent /\ ~RightKey(c)
                       \/ silent = SilentNow(c),
           GiveUp(c, silent), UNCHANGED <<now, keyVars, request>>
    PROVE  KeyInv'
<1> DEFINE v == [result |-> "undecryptable", silent |-> silent, key |-> call[c].key,
                 exp |-> call[c].exp, since |-> call[c].since]
<1>1. c \in Busy
  BY Searching, HolderFacts DEF KeyInv
<1>2. /\ call[c].next \in Holders /\ call[c].silent \in SUBSET Holders
      /\ call[c].key \in Keys \cup {ForeignKey}
      /\ call[c].exp \in Nat /\ call[c].since \in Nat
  BY <1>1, BusyCalls DEF KeyInv
<1>3. /\ v \in Undecrypted /\ v.silent = silent
      /\ v.key = call[c].key /\ v.exp = call[c].exp /\ v.since = call[c].since
  BY <1>2, HolderFacts DEF Undecrypted, SilentNow
<1>4. verdict' = [verdict EXCEPT ![c] = v] /\ call' = [call EXCEPT ![c] = NoCall]
  BY DEF GiveUp
<1> HIDE DEF v
<1>5. GoodCall(call[c])
  BY <1>1, CallsAreGood
<1>6. \A h \in Holders : h < call[c].next \/ h = call[c].next
  BY DEF Holders, Legacy
<1>7. \A h \in Holders : holder[h] = v.key => h \in v.silent \/ movedAt[h] >= v.since
  BY <1>3, <1>5, <1>6 DEF GoodCall, RightKey, SilentNow
<1>8. v.key = ForeignKey \/ v.silent # {} \/ v.since > v.exp
  <2> SUFFICES ASSUME v.key # ForeignKey, v.silent = {} PROVE v.since > v.exp
    OBVIOUS
  <2>1. silent = call[c].silent /\ ~RightKey(c)
    BY <1>3 DEF SilentNow
  <2>2. SUFFICES ASSUME call[c].since <= call[c].exp PROVE FALSE
    BY <1>2, <1>3
  <2>3. PICK h \in Holders : /\ holder[h] = call[c].key
                             /\ h >= call[c].next \/ h \in call[c].silent
    BY <1>2, <1>3, <1>5, <2>2 DEF GoodCall
  <2>4. h = call[c].next
    BY <1>3, <2>1, <2>3, HolderFacts
  <2> QED
    BY <2>1, <2>3, <2>4 DEF RightKey
<1>9. GoodVerdict(v)
  BY <1>3, <1>5, <1>7, <1>8 DEF GoodVerdict, GoodCall
<1> QED
  BY <1>4, <1>9, CallKeeps

LEMMA AskLegacyKeeps ==
    ASSUME KeyInv, NEW c \in Calls, AskLegacy(c)
    PROVE  KeyInv'
<1>1. call[c].next = Legacy /\ UNCHANGED <<now, keyVars, request>>
  BY DEF AskLegacy
<1>2. CASE Succeed(c)
  BY <1>1, <1>2, SucceedKeeps
<1>3. CASE ~RightKey(c) /\ GiveUp(c, call[c].silent)
  BY <1>1, <1>3, GiveUpKeeps
<1>4. CASE GiveUp(c, SilentNow(c))
  BY <1>1, <1>4, GiveUpKeeps
<1> QED
  BY <1>2, <1>3, <1>4 DEF AskLegacy

LEMMA EndCallKeeps ==
    ASSUME KeyInv, NEW c \in Calls, EndCall(c)
    PROVE  KeyInv'
<1>1. call' = [call EXCEPT ![c] = NoCall] /\ UNCHANGED <<now, keyVars, request, verdict>>
  BY DEF EndCall
<1> QED
  BY <1>1, OldVerdict, CallKeeps
-----------------------------------------------------------------------------
(* The rotation and time.                                                  *)

LEMMA LiveCallsAreNeeded ==
    ASSUME KeyInv, NEW c \in Busy, call[c].key \in Keys, call[c].since <= call[c].exp
    PROVE  Needed(call[c].key)
<1>1. call[c].exp \in Nat /\ call[c].since \in Nat
  BY BusyCalls DEF KeyInv
<1>2. now <= call[c].since + Timeout
  BY DEF KeyInv, InTime
<1>3. call[c].key = published \/ call[c].exp + Timeout <= usedUntil[call[c].key]
  BY DEF KeyInv, KeysAwaited, Awaited
<1>4. now \in Nat /\ usedUntil[call[c].key] \in Int
  BY DEF KeyInv, TypeOK
<1> QED
  BY <1>1, <1>2, <1>3, <1>4 DEF Needed

LEMMA MoveAliasKeeps ==
    ASSUME KeyInv, NEW m \in Aliases, NEW key \in Keys, MoveAlias(m, key)
    PROVE  KeyInv'
<1>1. UNCHANGED <<now, published, usedUntil, request, call, verdict>> /\ Busy' = Busy
  BY DEF MoveAlias, Busy
<1>2. m \in Holders /\ MayMove(m)
  BY HolderFacts DEF MoveAlias
<1>3. /\ holder' \in [Holders -> Keys] /\ movedAt' \in [Holders -> Nat]
      /\ \A h \in Holders : /\ holder'[h] = IF h = m THEN key ELSE holder[h]
                            /\ movedAt'[h] = IF h = m THEN now ELSE movedAt[h]
  BY <1>2 DEF MoveAlias, KeyInv, TypeOK
<1>4. TypeOK'
  BY <1>1, <1>3 DEF KeyInv, TypeOK
<1>5. InTime'
  BY <1>1, <1>3 DEF KeyInv, InTime, TypeOK, Undecryptable
<1>6. NeededHeld'
  <2> SUFFICES ASSUME NEW k \in Keys, Needed(k) PROVE \E h \in Holders : holder'[h] = k
    BY <1>1 DEF NeededHeld, Needed
  <2>1. PICK h \in Holders : holder[h] = k
    BY DEF KeyInv, NeededHeld
  <2>2. CASE h # m
    BY <2>1, <2>2, <1>3
  <2>3. CASE h = m
    BY <2>1, <2>3, <1>2, <1>3 DEF MayMove
  <2> QED
    BY <2>2, <2>3
<1>7. KeysAwaited'
  BY <1>1 DEF KeyInv, KeysAwaited, Awaited
<1>8. \A c \in Busy : call[c].since \in Nat /\ call[c].since <= now
                       /\ now <= call[c].since + Timeout
  BY BusyCalls DEF KeyInv, InTime
<1>9. AskedInVain'
  BY <1>1, <1>3, <1>8 DEF KeyInv, AskedInVain
<1>10. StillFindable'
  <2> SUFFICES ASSUME NEW c \in Busy, call[c].key \in Keys, call[c].since <= call[c].exp
               PROVE  \E h \in Holders : Findable(c, h)'
    BY <1>1 DEF StillFindable
  <2>1. PICK h \in Holders : Findable(c, h)
    BY DEF KeyInv, StillFindable
  <2>2. CASE h # m
    BY <2>1, <2>2, <1>1, <1>3 DEF Findable
  <2>3. CASE h = m
    <3>1. Needed(holder[m]) /\ holder[m] = call[c].key
      BY <2>1, <2>3, LiveCallsAreNeeded DEF Findable
    <3>2. PICK g \in Holders \ {m} : holder[g] = holder[m] /\ now > movedAt[g] + Timeout
      BY <3>1, <1>2 DEF MayMove
    <3>3. movedAt[g] \in Nat /\ now \in Nat
      BY DEF KeyInv, TypeOK
    <3>4. movedAt[g] < call[c].since
      BY <3>2, <3>3, <1>8
    <3>5. ~(movedAt[g] >= call[c].since)
      BY <3>3, <3>4, <1>8
    <3>6. ~(g < call[c].next) \/ g \in call[c].silent
      BY <3>1, <3>2, <3>5 DEF KeyInv, AskedInVain
    <3>7. call[c].next \in Holders
      BY BusyCalls DEF KeyInv
    <3>8. g \in Nat /\ call[c].next \in Nat /\ call[c].since \in Nat
      BY <3>7, <1>8, HolderFacts
    <3>9. g >= call[c].next \/ g \in call[c].silent
      BY <3>6, <3>8
    <3>10. movedAt[g] <= call[c].since
      BY <3>3, <3>4, <3>8
    <3>11. holder'[g] = holder[g] /\ movedAt'[g] = movedAt[g]
      BY <1>3
    <3> QED
      BY <3>1, <3>2, <3>9, <3>10, <3>11, <1>1 DEF Findable
  <2> QED
    BY <2>2, <2>3
<1>11. \A c \in Calls : Undecryptable(c) => verdict[c].since \in Nat /\ verdict[c].since <= now
  BY DEF KeyInv, TypeOK, InTime, Undecryptable, NoVerdict, Decrypted, Undecrypted
<1>12. HeldKeyFound'
  BY <1>1, <1>3, <1>11 DEF KeyInv, TypeOK, HeldKeyFound, Undecryptable
<1>13. LiveRequestDecrypts'
  BY <1>1 DEF KeyInv, LiveRequestDecrypts, Undecryptable
<1> QED
  BY <1>4, <1>5, <1>6, <1>7, <1>9, <1>10, <1>12, <1>13 DEF KeyInv

LEMMA PublishKeyKeeps ==
    ASSUME KeyInv, NEW key \in Keys, PublishKey(key)
    PROVE  KeyInv'
<1>1. UNCHANGED <<now, holder, movedAt, request, call, verdict>> /\ Busy' = Busy
  BY DEF PublishKey, Busy
<1>2. /\ published' = key /\ usedUntil' \in [Keys -> Nat \cup {-1}]
      /\ \A k \in Keys : usedUntil'[k] = IF k = published THEN now + Lifetime + Timeout
                                          ELSE usedUntil[k]
  BY DEF PublishKey, KeyInv, TypeOK
<1>3. TypeOK'
  BY <1>1, <1>2 DEF KeyInv, TypeOK
<1>4. InTime'
  BY <1>1 DEF KeyInv, InTime, Undecryptable
<1>5. NeededHeld'
  <2> SUFFICES ASSUME NEW k \in Keys, Needed(k)' PROVE \E h \in Holders : holder[h] = k
    BY <1>1 DEF NeededHeld
  <2>1. CASE k = key
    BY <2>1 DEF PublishKey
  <2>2. CASE k # key
    <3>1. Needed(k)
      BY <2>2, <1>1, <1>2 DEF Needed
    <3> QED
      BY <3>1 DEF KeyInv, NeededHeld
  <2> QED
    BY <2>1, <2>2
<1>6. ASSUME NEW k \in Keys, NEW exp \in Nat, exp <= now + Lifetime, Awaited(k, exp)
      PROVE  k = published' \/ exp + Timeout <= usedUntil'[k]
  BY <1>2, <1>6 DEF Awaited, KeyInv, TypeOK
<1>7. \A s \in Stubs : request[s].at = "made" => request[s].exp \in Nat
  BY DEF KeyInv, TypeOK, NoRequest, Signed, Request
<1>8. KeysAwaited'
  <2>1. ASSUME NEW s \in Stubs, request[s].at = "made", request[s].key \in Keys
        PROVE  Awaited(request[s].key, request[s].exp)'
    <3>1. request[s].exp <= now + Lifetime /\ Awaited(request[s].key, request[s].exp)
      BY <2>1 DEF KeyInv, InTime, KeysAwaited, NoRequest
    <3> QED
      BY <2>1, <3>1, <1>1, <1>6, <1>7 DEF Awaited
  <2>2. ASSUME NEW c \in Busy, call[c].key \in Keys
        PROVE  Awaited(call[c].key, call[c].exp)'
    <3>1. call[c].exp <= now + Lifetime /\ Awaited(call[c].key, call[c].exp)
      BY <2>2 DEF KeyInv, InTime, KeysAwaited
    <3>2. call[c].exp \in Nat
      BY BusyCalls DEF KeyInv
    <3> QED
      BY <2>2, <3>1, <3>2, <1>1, <1>6 DEF Awaited
  <2> QED
    BY <2>1, <2>2, <1>1 DEF KeysAwaited
<1>9. AskedInVain' /\ StillFindable'
  BY <1>1 DEF KeyInv, AskedInVain, StillFindable, Findable
<1>10. HeldKeyFound' /\ LiveRequestDecrypts'
  BY <1>1 DEF KeyInv, HeldKeyFound, LiveRequestDecrypts, Undecryptable
<1> QED
  BY <1>3, <1>4, <1>5, <1>8, <1>9, <1>10 DEF KeyInv

LEMMA TickKeeps == ASSUME KeyInv, Tick PROVE KeyInv'
<1>1. UNCHANGED <<keyVars, request, call, verdict>> /\ now' = now + 1 /\ Busy' = Busy
  BY DEF Tick, Busy
<1>2. /\ now \in Nat
      /\ \A h \in Holders : movedAt[h] \in Nat
      /\ \A key \in Keys : usedUntil[key] \in Int
  BY DEF KeyInv, TypeOK
<1>3. \A c \in Busy : call[c].since \in Nat /\ call[c].exp \in Nat
  BY BusyCalls DEF KeyInv
<1>4. \A s \in Stubs : request[s] # NoRequest => request[s].exp \in Nat
  BY DEF KeyInv, TypeOK, Signed, Request
<1>5. \A c \in Calls : Undecryptable(c) => verdict[c].since \in Nat
  BY DEF KeyInv, TypeOK, Undecryptable, NoVerdict, Decrypted, Undecrypted
<1>6. TypeOK'
  BY <1>1, <1>2 DEF KeyInv, TypeOK, keyVars
<1>7. InTime'
  BY <1>1, <1>2, <1>3, <1>4, <1>5 DEF KeyInv, InTime, Tick, Undecryptable, keyVars
<1>8. NeededHeld'
  BY <1>1, <1>2 DEF KeyInv, NeededHeld, Needed, keyVars
<1>9. KeysAwaited' /\ AskedInVain' /\ StillFindable'
  BY <1>1 DEF KeyInv, KeysAwaited, Awaited, AskedInVain, StillFindable, Findable, keyVars
<1>10. HeldKeyFound' /\ LiveRequestDecrypts'
  BY <1>1 DEF KeyInv, HeldKeyFound, LiveRequestDecrypts, Undecryptable, keyVars
<1> QED
  BY <1>6, <1>7, <1>8, <1>9, <1>10 DEF KeyInv
-----------------------------------------------------------------------------
LEMMA StepKeepsKeyInv == KeyInv /\ [Next]_vars => KeyInv'
<1> SUFFICES ASSUME KeyInv, [Next]_vars PROVE KeyInv'
  OBVIOUS
<1>1. ASSUME NEW s \in Stubs, StubStep(s) PROVE KeyInv'
  BY <1>1, StubStepKeeps
<1>2. ASSUME NEW c \in Calls, DecryptStep(c) PROVE KeyInv'
  BY <1>2, PresentRequestKeeps, AskAliasKeeps, AskLegacyKeeps, EndCallKeeps DEF DecryptStep
<1>3. CASE Rotation
  BY <1>3, MoveAliasKeeps, PublishKeyKeeps DEF Rotation
<1>4. CASE Tick
  BY <1>4, TickKeeps
<1>5. CASE UNCHANGED vars
  BY <1>5 DEF vars, keyVars, KeyInv, TypeOK, InTime, NeededHeld, Needed, KeysAwaited, Awaited,
     AskedInVain, StillFindable, Findable, HeldKeyFound, LiveRequestDecrypts, Undecryptable, Busy
<1> QED
  BY <1>1, <1>2, <1>3, <1>4, <1>5 DEF Next

\* The search and the rotation keep their invariant (decrypt, startCicCheck).
THEOREM KeyInvariantHolds == Spec => []KeyInv
<1> QED
  BY InitKeys, StepKeepsKeyInv, PTL DEF Spec

\* A key that somebody had all along, and who answered, is found.
THEOREM HeldKeysFound == Spec => []HeldKeyFound
<1>1. KeyInv => HeldKeyFound
  BY DEF KeyInv
<1> QED
  BY <1>1, KeyInvariantHolds, PTL

\* No live request is lost to a rotation of the keys.
THEOREM LiveRequestsDecrypt == Spec => []LiveRequestDecrypts
<1>1. KeyInv => LiveRequestDecrypts
  BY DEF KeyInv
<1> QED
  BY <1>1, KeyInvariantHolds, PTL
=============================================================================
