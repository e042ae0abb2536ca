---------------------------- MODULE KeyRotation ----------------------------
(***************************************************************************)
(* KmsJwtAdapter.decrypt: which key a request object was encrypted to is   *)
(* found out by asking KMS, alias by alias and the legacy key last, while  *)
(* the aliases are moved from key to key. Each question is an await of its *)
(* own, so the keys may change hands in the middle of the search.          *)
(*                                                                         *)
(* The relying party is the repository's stub of it: startCicCheck dates   *)
(* and signs a request, reads the published encryption key and encrypts to *)
(* it. The rotation is not in this repository. It is assumed to keep a     *)
(* rule (MayMove, PublishKey) that leaves a key which requests may still   *)
(* be encrypted to where a search finds it; the code does not enforce that *)
(* rule.                                                                   *)
(*                                                                         *)
(* KEY_ROTATION_ENABLED is true in every environment of                    *)
(* deploy/template.yaml; without it the search has only the legacy key.    *)
(***************************************************************************)
EXTENDS Integers

CONSTANTS
    AliasCount,  \* the aliases of Constants.ENCRYPTION_KEY_ALIASES: active, inactive, previous
    Keys,        \* decryption keys of the service, by KMS id
    LegacyKey,   \* the one in ENCRYPTION_KEY_IDS
    ForeignKey,  \* a key of somebody else: additionalEncryptionKey of the stub
    Stubs,       \* the stub's invocations, each with the request it makes
    Calls,       \* the invocations of /session, each with its call of decrypt
    Lifetime,    \* of a request object, 3 * 60 seconds
    Timeout,     \* of an invocation of /session
    MaxTime      \* bound: the clock stops here

ASSUME KeysAssumption == LegacyKey \in Keys /\ ForeignKey \notin Keys
ASSUME AliasAssumption == AliasCount \in Nat \ {0}
ASSUME TimesAssumption == Lifetime \in Nat /\ Timeout \in Nat /\ MaxTime \in Nat

\* In the order of the search.
Aliases == 1..AliasCount
Legacy == AliasCount + 1
Holders == 1..Legacy

VARIABLES
    now,       \* the clock
    holder,    \* the key that each alias and ENCRYPTION_KEY_IDS stand for
    movedAt,   \* since when
    published, \* the encryption key that /.well-known/jwks.json serves
    usedUntil, \* by key: until when requests made before it was withdrawn are searched for
    request,   \* by stub
    call,      \* by invocation of /session
    verdict    \* by invocation: how its last call of decrypt ended

keyVars == <<holder, movedAt, published, usedUntil>>
vars == <<now, keyVars, request, call, verdict>>

NoRequest == [at |-> "none"]
Signed == [at : {"signed"}, exp : Nat]
Request == [at : {"made"}, exp : Nat, key : Keys \cup {ForeignKey}]

\* next: whom to ask next. silent: who was asked and did not answer.
NoCall == [next |-> 0]
Call == [next : Holders, silent : SUBSET Holders, key : Keys \cup {ForeignKey},
         exp : Nat, since : Nat]

NoVerdict == [result |-> "none"]
Decrypted == [result |-> "decrypted"]
Undecrypted == [result : {"undecryptable"}, silent : SUBSET Holders,
                key : Keys \cup {ForeignKey}, exp : Nat, since : Nat]

Busy == {c \in Calls : call[c] # NoCall}
-----------------------------------------------------------------------------
(* The stub, and whoever presents the requests it makes.                   *)

\* The dates are taken first; signing asks KMS.
StartCicCheck(s) ==
    /\ request[s] = NoRequest
    /\ request' = [request EXCEPT ![s] = [at |-> "signed", exp |-> now + Lifetime]]
    /\ UNCHANGED <<now, keyVars, call, verdict>>

\* The published key, or with the override invalidEncryptionKid a key that nobody
\* here has.
EncryptionKeys == {published, ForeignKey}

\* A fresh content key is encrypted to key, and the signed request to the content key.
Encrypted(s, key) == [at |-> "made", exp |-> request[s].exp, key |-> key]

EncryptRequest(s) ==
    /\ request[s].at = "signed"
    /\ \E key \in EncryptionKeys :
         request' = [request EXCEPT ![s] = Encrypted(s, key)]
    /\ UNCHANGED <<now, keyVars, call, verdict>>

\* Signing or encrypting failed, or the request is used no more.
DropRequest(s) ==
    /\ request[s] # NoRequest
    /\ request' = [request EXCEPT ![s] = NoRequest]
    /\ UNCHANGED <<now, keyVars, call, verdict>>

\* A request may be presented again and again, and after it has expired.
PresentRequest(c, s) ==
    /\ call[c] = NoCall
    /\ request[s].at = "made"
    /\ call' = [call EXCEPT ![c] = [next |-> 1, silent |-> {}, key |-> request[s].key,
                                    exp |-> request[s].exp, since |-> now]]
    /\ verdict' = [verdict EXCEPT ![c] = NoVerdict]
    /\ UNCHANGED <<now, keyVars, request>>
-----------------------------------------------------------------------------
(* decrypt.                                                                *)

Proceed(c, next, silent) ==
    /\ call' = [call EXCEPT ![c] = [next |-> next, silent |-> silent, key |-> call[c].key,
                                    exp |-> call[c].exp, since |-> call[c].since]]
    /\ UNCHANGED verdict

Succeed(c) ==
    /\ verdict' = [verdict EXCEPT ![c] = Decrypted]
    /\ call' = [call EXCEPT ![c] = NoCall]

GiveUp(c, silent) ==
    /\ verdict' = [verdict EXCEPT ![c] =
            [result |-> "undecryptable", silent |-> silent, key |-> call[c].key,
             exp |-> call[c].exp, since |-> call[c].since]]
    /\ call' = [call EXCEPT ![c] = NoCall]

\* KMS has the plaintext if the key asked is the right one, and answers.
RightKey(c) == holder[call[c].next] = call[c].key
SilentNow(c) == call[c].silent \cup {call[c].next}

\* Mutant: an error of KMS ends the search of the aliases.
AskAliasOrGiveUp(c) ==
    /\ call[c].next \in Aliases
    /\ \/ RightKey(c) /\ Succeed(c)
       \/ ~RightKey(c) /\ Proceed(c, call[c].next + 1, call[c].silent)
       \/ Proceed(c, Legacy, SilentNow(c))
    /\ UNCHANGED <<now, keyVars, request>>

\* An error, of whatever kind, is logged and the next alias is asked.
AskAlias(c) ==
    /\ call[c].next \in Aliases
    /\ \/ RightKey(c) /\ Succeed(c)
       \/ ~RightKey(c) /\ Proceed(c, call[c].next + 1, call[c].silent)
       \/ Proceed(c, call[c].next + 1, SilentNow(c))
    /\ UNCHANGED <<now, keyVars, request>>

\* Mutant: with the aliases in place nobody falls back on the legacy key.
AskNobody(c) ==
    /\ call[c].next = Legacy
    /\ GiveUp(c, call[c].silent)
    /\ UNCHANGED <<now, keyVars, request>>

AskLegacy(c) ==
    /\ call[c].next = Legacy
    /\ \/ RightKey(c) /\ Succeed(c)
       \/ ~RightKey(c) /\ GiveUp(c, call[c].silent)
       \/ GiveUp(c, SilentNow(c))
    /\ UNCHANGED <<now, keyVars, request>>

\* A malformed request object fails before KMS is asked, a garbled one after; an
\* invocation that takes too long ends without a verdict.
EndCall(c) ==
    /\ call[c] # NoCall
    /\ call' = [call EXCEPT ![c] = NoCall]
    /\ UNCHANGED <<now, keyVars, request, verdict>>
-----------------------------------------------------------------------------
(* The rotation and time.                                                  *)

\* A request made with key may still be on its way, or being decrypted.
Needed(key) == key = published \/ now <= usedUntil[key]

\* The rule assumed of the rotation: a holder gives up a key that is not needed, or that
\* another holder has had for longer than any call that is under way.
MayMove(h) ==
    \/ ~Needed(holder[h])
    \/ \E g \in Holders \ {h} : holder[g] = holder[h] /\ now > movedAt[g] + Timeout

MoveAlias(h, key) ==
    /\ key # holder[h] /\ MayMove(h)
    /\ holder' = [holder EXCEPT ![h] = key]
    /\ movedAt' = [movedAt EXCEPT ![h] = now]
    /\ UNCHANGED <<now, published, usedUntil, request, call, verdict>>

\* A key that some holder has is published; JwksHandler publishes the legacy key.
PublishKey(key) ==
    /\ key # published
    /\ \E h \in Holders : holder[h] = key
    /\ published' = key
    /\ usedUntil' = [usedUntil EXCEPT ![published] = now + Lifetime + Timeout]
    /\ UNCHANGED <<now, holder, movedAt, request, call, verdict>>

Tick ==
    /\ now < MaxTime
    /\ \A c \in Busy : now < call[c].since + Timeout
    /\ now' = now + 1
    /\ UNCHANGED <<keyVars, request, call, verdict>>
-----------------------------------------------------------------------------
Init ==
    /\ now = 0
    /\ holder \in [Holders -> Keys] /\ holder[Legacy] = LegacyKey
    /\ movedAt = [h \in Holders |-> 0]
    /\ published \in {holder[h] : h \in Holders}
    /\ usedUntil = [key \in Keys |-> -1]
    /\ request = [s \in Stubs |-> NoRequest]
    /\ call = [c \in Calls |-> NoCall]
    /\ verdict = [c \in Calls |-> NoVerdict]

StubStep(s) == StartCicCheck(s) \/ EncryptRequest(s) \/ DropRequest(s)

DecryptStep(c) ==
    \/ \E s \in Stubs : PresentRequest(c, s)
    \/ AskAlias(c)
    \/ AskLegacy(c)
    \/ EndCall(c)

Rotation ==
    \/ \E h \in Aliases, key \in Keys : MoveAlias(h, key)
    \/ \E key \in Keys : PublishKey(key)

Next ==
    \/ \E s \in Stubs : StubStep(s)
    \/ \E c \in Calls : DecryptStep(c)
    \/ Rotation
    \/ Tick

Spec == Init /\ [][Next]_vars
-----------------------------------------------------------------------------
\* Type correctness: what decrypt and the rotation keep is well formed.
TypeOK ==
    /\ now \in Nat
    /\ holder \in [Holders -> Keys]
    /\ movedAt \in [Holders -> Nat]
    /\ published \in Keys
    /\ usedUntil \in [Keys -> Nat \cup {-1}]
    /\ request \in [Stubs -> {NoRequest} \cup Signed \cup Request]
    /\ call \in [Calls -> {NoCall} \cup Call]
    /\ verdict \in [Calls -> {NoVerdict, Decrypted} \cup Undecrypted]

Undecryptable(c) == verdict[c].result = "undecryptable"

\* A request is found undecryptable only if every holder of its key got the key
\* during the call, or did not answer: neither a KMS error at one alias nor keys that
\* change hands behind the search lose a key that somebody held all along (decrypt).
HeldKeyFound == \A c \in Calls : Undecryptable(c) =>
    \A h \in Holders : holder[h] = verdict[c].key
        => h \in verdict[c].silent \/ movedAt[h] >= verdict[c].since

\* A request that is encrypted to the key published when it was made, and presented
\* before it expires, is decrypted if KMS answers, however the keys rotate meanwhile
\* within the rule assumed of the rotation (startCicCheck and decrypt).
LiveRequestDecrypts == \A c \in Calls : Undecryptable(c) =>
    LET d == verdict[c] IN d.key = ForeignKey \/ d.silent # {} \/ d.since > d.exp

\* Nothing happened in the future, and no call outlives its timeout.
InTime ==
    /\ \A h \in Holders : movedAt[h] <= now
    /\ \A s \in Stubs : request[s] # NoRequest => request[s].exp <= now + Lifetime
    /\ \A c \in Busy : /\ call[c].since <= now /\ now <= call[c].since + Timeout
                        /\ call[c].exp <= now + Lifetime
    /\ \A c \in Calls : Undecryptable(c) => verdict[c].since <= now

\* The rotation keeps its side: every key that is needed is held, and needed for as
\* long as a request made with it can be presented and decrypted.
NeededHeld == \A key \in Keys : Needed(key) => \E h \in Holders : holder[h] = key
Awaited(key, exp) == key = published \/ exp + Timeout <= usedUntil[key]
KeysAwaited ==
    /\ \A s \in Stubs : request[s].at = "made" /\ request[s].key \in Keys
                            => Awaited(request[s].key, request[s].exp)
    /\ \A c \in Busy : call[c].key \in Keys => Awaited(call[c].key, call[c].exp)

\* Who was asked, answered, and has the key all the same got it since.
AskedInVain == \A c \in Busy, h \in Holders :
    h < call[c].next /\ h \notin call[c].silent /\ holder[h] = call[c].key
        => movedAt[h] >= call[c].since

\* The search for the key of a live request has somebody left to ask, unless he was
\* asked and did not answer.
Findable(c, h) ==
    /\ holder[h] = call[c].key /\ movedAt[h] <= call[c].since
    /\ h >= call[c].next \/ h \in call[c].silent
StillFindable == \A c \in Busy :
    call[c].key \in Keys /\ call[c].since <= call[c].exp => \E h \in Holders : Findable(c, h)

\* The inductive invariant behind HeldKeyFound, which holds whatever the rotation does,
\* and LiveRequestDecrypts, which holds within the rule assumed of it.
KeyInv ==
    /\ TypeOK /\ InTime /\ NeededHeld /\ KeysAwaited /\ AskedInVain /\ StillFindable
    /\ HeldKeyFound /\ LiveRequestDecrypts
=============================================================================
