# A TLA+ model of the CIC credential issuer

The Claimed Identity Collector (CIC) lets a user state a name and a date of birth and issues
a verifiable credential that says what was stated. Its API is a set of AWS Lambda functions
over two DynamoDB tables. Each step of a user's journey is a request of its own, handled by a
Lambda invocation of its own, and nothing but the rows of the two tables ties the steps
together. No write has a condition. What can go wrong is therefore a matter of how requests
overlap, fail half-way, are repeated, and read rows that are no longer current; this project
states what holds all the same, and records where the API's description promises more.

Paths below are relative to the repository's root; `src/` is the backend.

## The system

| Part | State it keeps | Operations |
| --- | --- | --- |
| `CicService` over DynamoDB | session table (state, expiry, code), index on `authorizationCode`, person table | get, put and update rows, query by code |
| POST /session | puts a session row in `CIC_SESSION_CREATED` and, with shared claims, a person row | decrypt, verify and validate the request object, store, audit |
| POST /claimedIdentity | person row, then state `CIC_DATA_RECEIVED` | validate, check state, two updates |
| GET /authorization | code and state `CIC_AUTH_CODE_ISSUED` | check state, store a code, or return the stored one |
| POST /token | removes the code, state `CIC_ACCESS_TOKEN_ISSUED` | find the session by code in the index, verify the client, sign, update |
| POST /userinfo | none | verify the token, read session and person, sign the credential, two audit events |
| POST /abort | state `CIC_CRI_SESSION_ABORTED` | update whatever the state is, audit |
| GET /session-config | none | read the session |
| TxMA queue | audit events | every failure to send is ignored |
| `KmsJwtAdapter` | one cached key set with an expiry | sign, verify, verify with a client's JWKS (/session, /token), decrypt under one of several keys |
| `JwksHandler` | keys in two S3 buckets | upload, then copy |
| `DeleteBucketProcessor` | an S3 bucket | empty it when its CloudFormation resource is deleted |
| `test-harness` `DequeueHandler` | objects in S3 | store the records of an SQS batch |
| IPV stub | none | make a request object (`startCicCheck`); exchange the code and fetch the credential (`callback`) |

The endpoints interact only through the rows and through what a caller carries from one
reply to the next request: the session id, the code, the access token. The hard behaviours:

* every state check is made on a row read one or more awaits before the write it guards;
* GetItem is used without `ConsistentRead`, and the index is updated asynchronously;
* `saveCICData` is two writes to two tables, /session likewise;
* UpdateItem creates a row that the TTL has deleted in the meantime, without `expiryDate`;
* an invocation can time out between any two awaits, the SDK client repeats a write whose
  reply it did not get, and callers repeat requests whose reply was lost.

Beside the API, three functions work on S3 buckets and a queue, with hard behaviours of their
own: `JwksHandler` publishes a key set by way of two buckets while other runs do the same;
`DeleteBucketProcessor` empties a versioned bucket one page at a time while others write to it;
`DequeueHandler` is fed batches that SQS composes and delivers as often as it likes. And
`KmsJwtAdapter` goes by keys that change while it looks for them: the client's, which it
caches, and the service's own, which it finds by asking KMS alias by alias.

`PROJECT.json` lists these as hazards, at the lines where they bite.

### What makes each part correct

* Storage: a row never claims more than was stored, in any version that the index or a replica
  may still show.
* /session: until it has answered, the id is nobody's and nothing is claimed for it.
* /claimedIdentity: the person is stored before the state says so.
* /authorization: no code without a stored claim; a repeated request gets a code that was
  stored; success is announced after the write.
* /token: no token without a code; once a code is spent, only requests that read the session
  before can still get something out of it.
* /userinfo: the credential states a claim stored for the session of the token.
* /abort: once a session is aborted, no request goes to work for it that did not read it before.
* Rows that an update re-creates after their deletion lead to no token.
* JWKS cache: a key the client has retired dies within a known time, and a key published for
  that long is found, whatever replies were delayed, failed or empty.
* Decryption: a request made with the published key is decrypted until it expires, whatever
  the rotation does within its rule and wherever the search for the key stands meanwhile.
* JWKS publication: a success that nobody overlapped is what it says, and repeated runs repair
  what overlapping and failed ones leave in either bucket.
* Bucket deletion: a success is earned. (That an invocation never returns without an answer does
  not hold; see below.)
* Dequeue: an event is taken off the queue only when it is stored, and leaves it in the end.
* A journey: who repeats a request is not turned away for what lost attempts did, and gets
  there.

## The modules

| Module | Models | Code |
| --- | --- | --- |
| `CicService` | the tables, their index and replicas, the clock, TTL deletion; one operator per read and write | `services/CicService.ts`, `infra-l2-dynamo/template.yaml` |
| `Lambda` | concurrent invocations: operation, point between two awaits, local values; replies, crashes, repeated writes | handlers' common frame, `deploy/template.yaml` |
| `SessionEndpoint` | POST /session | `SessionHandler.ts`, `SessionRequestProcessor.ts` |
| `ClaimedIdentityEndpoint` | POST /claimedIdentity | `ClaimedIdentityHandler.ts`, `ClaimedIdRequestProcessor.ts`, `saveCICData` |
| `AuthorizationEndpoint` | GET /authorization | `AuthorizationCodeHandler.ts`, `AuthorizationRequestProcessor.ts` |
| `TokenEndpoint` | POST /token | `AccessTokenHandler.ts`, `AccessTokenRequestProcessor.ts` and its validation helper |
| `UserInfoEndpoint` | POST /userinfo | `UserInfoHandler.ts`, `UserInfoRequestProcessor.ts`, `VerifiableCredentialService.ts` |
| `AbortEndpoint` | POST /abort, GET /session-config | their handlers and processors |
| `CicApi` | all endpoints together, and the properties | |
| `ClaimFlow` | the abstract specification: claim, code, token, credential, each earned by the one before | `deploy/cic-spec.yaml` |
| `CicApiInvariant` | the inductive invariant | |
| `MCCicApi` | the instance TLC checks | |
| `CicApiProofs`, `CicApiSteps` | the proofs: types and invariants; what a step never does, and the refinement | |
| `Journey`, `MCJourney` | the callers of `CicApi`: a front end that repeats requests, the relying party's callback; fairness | `cic-ipv-stub/src/handlers/callback.ts` |
| `JwksCache` | the cache of the client's keys, the client's rotation, the fetch between them | `utils/KmsJwtAdapter.ts`, `verifyWithJwks` |
| `KeyRotation` | the search for a decryption key while aliases move, and the stub that encrypts requests | `KmsJwtAdapter.decrypt`, `cic-ipv-stub/src/handlers/startCicCheck.ts` |
| `JwksPublish` | runs that build, upload and copy the key set | `JwksHandler.ts` |
| `DeleteBucket` | the custom resource that empties a versioned bucket | `DeleteBucketHandler.ts`, `services/DeleteBucketProcessor.ts` |
| `EventArchive` | the abstract specification: an event is archived, then done with, or set aside | `test-harness` |
| `DequeueHandler` | batches of TxMA events, from SQS to S3 | `test-harness/src/DequeueHandler.ts` |
| `MCJwksCache`, `MCKeyRotation`, `MCJwksPublish`, `MCDeleteBucket`, `MCDequeueHandler` | the instances TLC checks | |
| `JwksCacheProofs`, `KeyRotationProofs`, `JwksPublishProofs`, `DeleteBucketProofs`, `DequeueHandlerProofs`, `JourneyProofs` | the proofs | |

### State and actions

`sessionTable[s]` is the row of session `s`: its state, its `expiryDate`, its code, and whether
it was put by /session (`registered`) and so has a client and a redirect URI. A row that does not
exist is the row with everything missing, because that is what UpdateItem starts from.
`personTable[s]` has the names, one of `Claims` or the `SharedClaim` of the request object.
DynamoDB applies the writes of a row to its replicas and to the index one after another, each in
its own time. So what a read may be answered with is the current row or an outdated version of it
that some copy has not got past: `sessionStale[s]` and `personStale[s]` are the sets of those,
`SessionReads`, `PersonReads` and `IndexReads` what GetItem and the query of the index choose
from. A write adds the version it replaces, `CatchUpSession` and `CatchUpPerson` take one away
once no copy shows it. A copy that is several writes behind thus shows every version in between
before it is up to date, and two reads may even see versions in the wrong order. When GetItem is
consistent (`StaleReads = FALSE`) only outdated versions in `CIC_AUTH_CODE_ISSUED` are kept
(`Lingers`), for the index: of any other it makes /token refuse, which it may do anyhow.
`recorded`, `coded` and `entered` are histories of the claims and codes ever stored and of the
states the rows were put in; no action reads them except to choose a UUID that is new. `opened`,
`codes`, `tokens`, `credentials` are what callers were given by replies; requests are made with
these, since session ids and codes are unguessable and tokens are signed.

Each action is what an invocation does from one await to the next. A handler that reads a row
and checks it is one action (`ReceiveClaim`, `RequestCode`, ...), whose error answers are its
other disjuncts; each write is an action whose outcomes are: applied and answered; applied,
its reply lost and the SDK sending it again (`Resend`) or giving up; not applied. `Respond`
delivers a reply, `Crash` ends an invocation or loses the reply. A write that DynamoDB applies only
after the end of the invocation that sent it is the invocation standing at that write until it is
applied, and crashing after it. An error is modelled as its
status; texts and headers are left out. Cryptography is a refusal: a request object, client
assertion or access token either verifies or is refused with the status the code gives.

An access token is checked for expiry before the session is read, as in the code; a session is
expired when `expiryDate < absoluteTimeNow()`, which a missing `expiryDate` never is. The
sum `Date.now() / 1000 + ttl` has a fraction in the code, but compared with a whole number of
seconds it expires at the same second as the sum of whole seconds.

`JwksCache` is a module of its own, since it shares nothing with the tables: in `CicApi` the
verdict on a request object or client assertion is a choice, and `JwksCache` says what limits
that choice as far as keys go. `cachedJwks[a]` and `cachedTime[a]` are the fields of adapter
`a`, one for each Lambda container; `call[a]` is its call of `verifyWithJwks` with the reply it
is waiting for or has been sent; `verdict[a]` is how its last call ended, and when.
`published` is what the client's endpoint serves and `changedAt` a history of when each key
was last published or retired. A container runs one invocation at a time, so it has one
call. There is one endpoint: the cache does not record the URL its keys came from, and every
environment of `deploy/template.yaml` configures one client. A time is in whole seconds. That
`jwtVerify` finds a signature or a date invalid is a choice; only a kid that is not among the
keys is certain to be refused. `ReplaceContainer` is the end of a container, in the middle
of a call or not; `FetchFails` covers a failed request, an unreadable reply and a timeout.

`Journey` composes `CicApi` with those who call it. `stage` is how far one user has got,
`waiting` the invocation whose reply is awaited, `since` a history of when /session was called.
`Request(i)` is an endpoint's entry action made by whoever is next to call; `Serve(i)` any later
step of an invocation; `ReceiveReply` is `Respond` seen by the caller, `LoseReply` is `Crash`,
and `GiveUp` is a caller who stops waiting while the invocation goes on. /claimedIdentity and
/authorization are repeated until they answer 200 or 401. The callback is the stub's: one POST
/token, one POST /userinfo, and whatever is not a 200 there ends in an exception (`callback.ts`
lines 30-44). The front end is not in this repository; what is assumed of it is only that it
repeats what did not succeed.

`KeyRotation`. `holder[h]` is the key that an alias, or `ENCRYPTION_KEY_IDS` as the last holder,
stands for, `movedAt[h]` since when. A request passes `StartCicCheck` (dated), `EncryptRequest`
(under the published key, or a foreign one) and may be presented any number of times;
`call[c].next` is whom `decrypt` asks next, `silent` who did not answer. Each question is an
await, so any move fits in between. The rotation is not in the repository. A rule is assumed of
it (`MayMove`, `PublishKey`): a key is published only while somebody holds it, and a holder gives
up a key that requests may still need only when another has held it for longer than any call
lasts. Without the last clause TLC moves the key from an alias not asked yet to one already
asked. The rule is sufficient, not necessary: it also forbids harmless moves, such as one
straight to an alias that is asked later. `HeldKeyFound` does not rest on it,
`LiveRequestDecrypts` does: it says that the search, as the code does it, loses nothing to a
rotation that keeps the rule.

`JwksPublish`. `run[r]` is an invocation with its program point, the configuration it was started
with, the body it built and what S3 read on its behalf: CopyObject is a read (`ReadSource`) and a
write (`WriteCopy`), since other runs may put in between. The S3 client sends a put or a copy
whose reply is lost again, and the copy then reads the source again (`CopyAgain`). `Throw` is any
failure, `Crash` a time-out. A write that S3 performs after the run that asked for it is dead is
not modelled.

`DeleteBucket`. A version has the number of the write it came from, so S3's order and "newest"
are comparisons. `call` is the invocation, with the page it listed; `left` is a history of what
that page did not show and S3 refused. A `DeleteObjects` without versions that is sent again adds
a second marker. `Crash` lets Lambda start the event again (`RepeatEvent`); an invocation that
returned, even without an answer, is not started again.

`DequeueHandler`. `fate[m]` is what the queue made of a message, `batch[c]` the records of an
invocation, those still to do and those to report. SQS is external: `ReceiveMessages` gives a
consumer any set of receivable messages, including ones in another's hands; `ReturnFailures`
deletes what was not reported; `RedriveMessage` sets aside what was received `MaxReceiveCount`
times. Records of a batch are handled in any order, which includes the order in which the code
handles them. Message retention and the lifecycle of stored objects are left out.

## What is checked

| Run | Instance | Shows |
| --- | --- | --- |
| `race` | 1 session, 2 codes, 2 claims, 2 invocations | `CodeNeedsClaim`, `CredentialCarriesClaim`, `SuccessIsDurable`, `RetryReturnsCode`, `ClosedStays`, `SpentStays`, `ImplementsClaimFlow` |
| `expiry` | 1 session, time 0..2, lifetimes 1, 2 invocations | `TypeOK`, `IInv`, `ClosedStays`, `RecreatedIsDeadEnd` with rows expiring and deleted during requests |
| `stale` | 1 session, stale reads with 2 outdated versions, 2 invocations | `IInv` (and with it `CodeNeedsClaim`, `RetryReturnsCode`), `ClosedStays`, `SpentStays`, `ClaimSettles` |
| `sessions` | 2 sessions, 2 codes | `IInv`: nothing of one session is credited to the other |
| `journey` | 1 user and session, 3 codes, 2 invocations, 1 given up | `JourneyInv`, `RefusedOnlyWhenOver`, `RepeatingLeadsToCode` |
| `jwks_cache` | 2 keys, 1 adapter, time 0..5 | `RetiredKeyDies`, `PublishedKeyFound`, `JwksInv` |
| `key_rotation` | 2 aliases and the legacy key, 2 keys, time 0..3 | `HeldKeyFound`, `LiveRequestDecrypts`, `KeyInv` |
| `jwks_publish` | 3 keys, one of them unsupported, 2 runs, 2 failures, 1 deployment | `PublishInv`, `ReportedIsPublished`, `KeptUpToDate` |
| `delete_bucket` | 2 keys, pages of 2, 4 writes, 3 events | `SuccessIsEarned`, `DeleteInv` |
| `dequeue` | 3 messages, one malformed, 2 consumers, batches of 2, 2 receipts | `DoneIsStored`, `DequeueInv`, `ImplementsArchive`, `EveryEventSettles` |

The properties in words:

* `CodeNeedsClaim`: no code is ever stored for a session none of whose claims is stored.
* `CredentialCarriesClaim`: a credential states a claim stored for its session.
* `SuccessIsDurable`: what a 200 or an audit event of success announces was stored before: by
  /session the row and, until they expire, the shared claims; by /claimedIdentity the claim it
  was sent and the state; by /authorization the very code; by /token the exchange; by /abort the
  abort; and /userinfo has a token and a claim to go by.
* `RetryReturnsCode`: every version of a row in `CIC_AUTH_CODE_ISSUED` has a code that was stored
  for that very session.
* `ClosedStays`: while a session is aborted, expired or deleted in every version that can be
  read, no call goes to work for it. What is still stored for it, or handed out, comes from calls
  that read it before, and when the last of them has ended it is over for good. A single abort
  can be undone by such a call (see below), and this says by which calls and for how long.
* `SpentStays`: the same for a session whose code was exchanged: no second code or token, and no
  other claim in the person row whose credential is being fetched.
* `RecreatedIsDeadEnd`: once a row put by /session is deleted, in every version that can be read,
  what late updates re-create under its id is never exchanged: no call begins to, and no token is
  handed out but by one that began before.
* `ClaimSettles`: with stale reads /userinfo may sign the shared claims of /session although a
  claim is stored. Once no version of the person row that can be read shows them, and no call
  under way has read them, this is over for good: every later credential states a stored claim.
* `ImplementsClaimFlow`: the refinement of `ClaimFlow`.
* `RefusedOnlyWhenOver`: a user who repeats /claimedIdentity or /authorization gets a 401 only
  when `AUTH_SESSION_TTL` has passed since /session was called, not for what lost attempts have
  done, and not because the session did not last that long.
* `RepeatingLeadsToCode`: a user who has a session and keeps repeating reaches the exchange of a
  code, or is refused as above, although an abandoned attempt may set the session back.
* `RetiredKeyDies`: a key is accepted for no longer than `MaxLag` after the client retired it,
  where `MaxLag` (of `JwksCache`) is the longest life of an invocation plus the longest caching
  time.
* `PublishedKeyFound`: a key is refused as unknown for no longer than `MaxLag` after the client
  published it. An unknown kid causes no fetch, so this is the overlap a rotation needs.
* `HeldKeyFound`: decryption gives up only if every holder of the right key got it during the
  call or did not answer.
* `LiveRequestDecrypts`: a request made with the published key and presented before it expires is
  decrypted if KMS answers, however the keys rotate within the rule.
* `ReportedIsPublished`: a successful run that no other overlapped has published the body it
  returns, whatever earlier runs left in the buckets.
* `KeptUpToDate`: if runs are started again and again, the published set becomes that of the
  configuration and stays so once failures and deployments have ended.
* `SuccessIsEarned`: when the function reports a bucket as emptied, nothing is left of what was
  there when it listed the versions except what the page did not show and what S3 refused;
  undisturbed, nothing at all is left, not even a delete marker of its own.
* `DoneIsStored`: an event that was taken off the queue as done is in the bucket, and no other
  event's object has replaced it.
* `EveryEventSettles`: every event leaves the queue, although a malformed one throws its whole
  batch away each time.
* `ImplementsArchive`: the refinement of `EventArchive`.

`JwksInv`, `KeyInv`, `PublishInv`, `DeleteInv`, `DequeueInv`, `JourneyInv` and `IInv` are the
inductive invariants of the proofs; each includes its module's type invariant.

Bounds. One session suffices for everything but mix-ups between sessions, since no operation
touches two rows; `sessions` has two. Two invocations race two requests of any kind against each
other, and since an invocation slot is used again and again, a run has any number of requests in
sequence. Two codes let both racing requests store one and let a late one differ; two claims let
a second submission differ from the first. `MaxTime` bounds the clock: with lifetimes of 1 and
time up to 2, rows are read alive and written after they expired and were deleted. `MaxLag` (of
`CicService`) bounds how many outdated versions of a row can be read beside the current one; a
write that would leave more waits for the copies to catch up. With consistent reads, where only
those with a code are kept, the bound is never reached (a larger one gives the same states); in
`stale` 2 besides the current one let copies be two writes behind, with the version in between
shown last, as after a code that was stored and then taken back by an abort. The proofs assume
nothing of `MaxLag`. `race`, `stale` and `expiry` use symmetry between invocations and between
codes, neither of which any definition tells apart. Deadlock is checked in all runs of `CicApi`:
an idle slot can always take a request that is refused.

Adapters share only `published`, which they do not change, so one shows whatever several do; the
proofs are for any number. Two keys let one be retired while the other is published. A cached set
lasts 2 ticks at most (max-age 0 or none, by default; 1 tick with max-age 1) and an invocation 1,
so in 5 ticks a set is fetched, goes stale, is used to its last tick and is replaced. `MaxLag`
(of `JwksCache`) is exact: with `MaxLag - 1` in its place TLC refutes both properties.

`journey` needs three codes: one stored by an attempt that was lost, one stored after an abandoned
claim has set the session back, and a spare. `MaxLate` is one abandoned invocation; it sends no
write a second time, or it would undo one code after the other and no finite set would do. Time
stands still in `journey`, liveness with time being too slow: the session never ends, so
`RefusedOnlyWhenOver` says that the user is never refused, and `RepeatingLeadsToCode` that the code
is reached; with time, `RefusedOnlyWhenOver` is proved. Time and stale reads are in
separate runs (`expiry`, `stale`), their combination being too large; `IInv` and the properties
it implies are proved for both together.

Two keys, two aliases and the legacy key let the key sought and the key published be different
and both move during one search, from behind it to ahead of it and back; the code has one alias
more, and the proofs are for any number. A lifetime and a time-out of one tick each fit into
three ticks with one left, so requests expire, keys are given up and searches are in between. In
`jwks_publish` two runs overlap at every pair of points; two failures can hit one run and its
successor, or both, and one deployment falls anywhere. In `delete_bucket` four versions and
markers of two keys exceed a page of two. In `dequeue` two well-formed messages and a malformed
one share batches of two in all combinations, and each is received twice.

Deadlock is not checked in `journey`, `dequeue` and `delete_bucket`, where the system stops: the
journey is over, the queue is empty, CloudFormation has its answer.

### Fairness

Safety runs assume none. Three runs state liveness:

* `dequeue`: weak fairness of each invocation's next step or death (Lambda ends an invocation at
  the latest by its time-out), of SQS delivering what can be received, and of its redrive policy
  (`deploy/template.yaml` lines 1509-1514). Nothing is assumed of S3: it may refuse every object.
* `jwks_publish`: weak fairness of the steps of a run, for the same reason. That runs are started
  is not assumed, since the schedule is commented out in `deploy/template.yaml` (from line 1635);
  it is the premise of `KeptUpToDate`. Failures end because the number is bounded.
* `journey`: the user goes on (weak fairness of the next request) and each invocation leaves its
  point in the end (weak fairness of `Advance`: it does not send the same write forever). That
  what is tried again and again is not lost or failing forever is strong fairness of
  `SuccessfulRequest`, `SuccessfulStep` and `SuccessfulReply`, which say only that the call does
  not fail: which of the code's branches it then takes is the model's business. Without this
  assumption a service that always fails is a counterexample. Nothing is assumed of /token and
  /userinfo, which are called once, and nothing of the index, so a journey may fail there; the
  property is about the code.

### Where the description promises more than the code does

Two runs check what the API's description says, and TLC refutes it:

| Run | Says | What happens |
| --- | --- | --- |
| `one_token` | `deploy/cic-spec.yaml:30`: a token is issued only once per session | the code is exchanged, the index still shows it, and a second request exchanges it again (one request after the other: no overlap is needed) |
| `abort_terminates` | `deploy/cic-spec.yaml:676`: abort ends the session without a code | a request in flight writes its code over the abort |

The modules state eight more such sentences. They are no runs of their own: each is seen to fail
by putting its name in the configuration of the run named here (a property that speaks of a step
under `PROPERTIES`; `AcceptedIsStated` takes a second claim), and what holds in its place
is among the properties above.

| Property | In | Says | What happens |
| --- | --- | --- | --- |
| `UserInfoOnce` | `race` | `deploy/cic-spec.yaml:125`: /userinfo can only be called once | issuing the credential changes no state |
| `OneCodePerSession` | `race` | `deploy/cic-spec.yaml:216`: /authorization can only be used once | two requests both read `CIC_DATA_RECEIVED` and both store a code |
| `DuplicateReturnsCode` | `race` | a unit test: a repeated /authorization returns the code in both issued states | in `CIC_ACCESS_TOKEN_ISSUED` the code was removed from the row, and the 200 has none |
| `AcceptedIsStated` | `journey` | `deploy/cic-spec.yaml:420`: a 200 means the claim was received and accepted | the reply to a first claim is lost, other names are submitted and answered 200, and the credential states the first |
| `FirstRunShowsChange` | `jwks_publish` | `adr/0001-JwksBootstrapping.md:33-35`: the key set is kept up to date with the configuration, within 60 minutes | a key that KMS does not give is left out, and the run succeeds |
| `SuccessMeansEmpty` | `delete_bucket` | `DeleteBucketProcessor.test.ts:29`: the versions are emptied | one page is listed, refusals are not looked at, and a marker is put on top of what stays |
| `ReturnedIsAnswered` | `delete_bucket` | `DeleteBucketProcessor.ts:46`: a response is sent so that CloudFormation does not hang | an HTTP error does not make `fetch` throw, and a second failure is swallowed |
| `MaxAgeHonoured` | `jwks_cache` | `KmsJwtAdapter.ts:93`: the default caching time applies when there is no max-age | `max-age=0` is falsy, and the keys are cached for 300 seconds |

With stale reads a credential may state the shared claims of /session, because /userinfo may
read a person row older than the claim. No document of the repository says otherwise, so this
is no finding; it is why `CredentialCarriesClaim` and the refinement assume consistent reads.

## What is proved

For every number of sessions, codes, claims and invocations and every value of the lifetimes
(assuming only that the special values are distinct from the others: `NamesAssumption`,
`NumbersAssumption`, `InvocationAssumption`), for every number of keys and adapters and all
caching times and timeouts (`NoKidAssumption`, `AgesAssumption`, `ClockAssumption`), for every
number of aliases, keys, stubs and calls (`KeysAssumption`, `AliasAssumption`,
`TimesAssumption`), of runs, failures and deployments (`SupportedAssumption`,
`BoundsAssumption`), of keys, writes and events of a bucket and every page size
(`BucketAssumption`), and for all messages, consumers and receive counts
(`MessagesAssumption`, `QueueAssumption`), for any number of lost replies and abandoned calls
(`JourneyAssumption`), TLAPS proves:

| Theorem | Says |
| --- | --- |
| `TypeCorrect` | `Spec => []TypeOK` |
| `InvariantHolds` | `Spec => []IInv` |
| `CodeAfterClaim` | `Spec => []CodeNeedsClaim` |
| `CredentialsCarryClaims` | with consistent reads, `Spec => []CredentialCarriesClaim` |
| `SuccessFollowsWrite` | `Spec => []SuccessIsDurable`, with stale reads as well |
| `RetriesReturnCode` | `Spec => []RetryReturnsCode` |
| `ClaimsSettle` | `Spec => ClaimSettles`, with consistent and with stale reads |
| `ClosedForGood`, `SpentForGood` | `Spec => ClosedStays`, `Spec => SpentStays`, with consistent and with stale reads |
| `DeletedIsDeadEnd` | `Spec => RecreatedIsDeadEnd`, with consistent and with stale reads |
| `ClaimFlowImplemented` | with consistent reads, `Spec => ImplementsClaimFlow` |
| `JourneysAreServed` | `JourneySpec => Spec`: what is proved of `CicApi` holds of every journey |
| `JourneyInvariantHolds` | `JourneySpec => []JourneyInv` |
| `RefusalsAreJust` | with consistent reads, `JourneySpec => []RefusedOnlyWhenOver` |
| `JwksInvariantHolds` | in `JwksCache`, `Spec => []JwksInv` |
| `RetiredKeysDie` | in `JwksCache`, `Spec => []RetiredKeyDies` |
| `PublishedKeysFound` | in `JwksCache`, `Spec => []PublishedKeyFound` |
| `KeyInvariantHolds`, `HeldKeysFound`, `LiveRequestsDecrypt` | in `KeyRotation`, `Spec => []KeyInv`, `[]HeldKeyFound`, `[]LiveRequestDecrypts` |
| `PublishInvariantHolds`, `ReportedRunsArePublished` | in `JwksPublish`, `Spec => []PublishInv`, `[]ReportedIsPublished` |
| `DeleteInvariantHolds`, `SuccessesAreEarned` | in `DeleteBucket`, `Spec => []DeleteInv`, `[]SuccessIsEarned` |
| `DequeueInvariantHolds`, `DoneEventsAreStored` | in `DequeueHandler`, `Spec => []DequeueInv`, `[]DoneIsStored` |
| `ArchiveImplemented` | in `DequeueHandler`, `Spec => ImplementsArchive` |

"With stale reads" means: whatever versions of the rows, any number of writes behind, the copies
still show and in whatever order they get past them, since the sets of outdated versions are
arbitrary there (`MaxLag` is any number).

`TypeOK` alone is not inductive: a credential states names only because the invocation that
signs it holds names, not the missing value. `TypeInv` adds, per operation and point, which
local values are there (`Shaped`).

`IInv` follows one idea: evidence travels with the data. The histories only grow, so a fact such
as "this session has a claim" stays true, and it is enough to know that everything that can be
copied carries it. `RowsBacked` says it of every version of a row that can be read,
`FramesBacked` of what invocations hold between two awaits, `GrantsBacked` of what callers were
given. Races are then harmless to these properties: an invocation may overwrite a newer state
with an older one, but both are backed. Two facts are of another kind and need care with overlap:
`PersonBacked` (once a claim is stored, the shared claims never come back into the person row)
rests on `Secluded` (while /session runs, its id is known to nobody else) and `ClaimsAreOpened`
(claims are stored only for ids that were given out). `ClaimsSettle` rests on `PersonBacked` too:
of a session with a claim no write of the person row has the shared claims, so the versions that
show them can only become fewer. The proof has one lemma per endpoint and in it one step per
action.

`ClosedForGood` and `SpentForGood` need nothing beyond `IInv`. They have two halves. An
invocation enters work for a session only by a version of its row that can be read, and all of
these show it over (`StepFrames`, with a lemma for each endpoint, `SessionRests` to
`TokenRests`): so none begins, whatever calls are under way. And what calls under way may write
is known from the frames: if none of them is `Pending`, the only write left is that of /abort,
which closes (`EndpointWrites`, `StepStore`); the versions that can be read then are those of
before and the aborted one (`StepReads`); copies that catch up only lose versions; and time only
adds to what has expired. `DeletedIsDeadEnd` uses the same two: only the put of /session makes a
row that is `registered`, it does so only for an id that nobody has (`Secluded`), and /token
begins only for a registered version.

The refinement maps UpdatePerson to RecordClaim, SetCode to IssueCode, the reply of /token to
GrantToken and that of /userinfo to IssueCredential. It needs one more invariant,
`HeldCodesFresh`: a code about to be stored has been stored for no other session and is in no
other invocation's hands, so that a repeated write is a stutter.

`JwksInv` follows another idea: every difference between what an adapter goes by and what is
published is dated. If a reply under way differs from `published` in some key, that key
changed no earlier than the call began (`ReplyLag`); the call lasts at most `Timeout`
(`InTime`), so when the reply is cached, its last use is no later than the change plus `MaxLag`
(`CacheLag`); and a verdict, given from either, is no later than that. A change of `published`
moves `changedAt` to now, which no use of a present cache outlives by more than `MaxLag`.

`KeyInv` follows the search. `StillFindable` says that for a live request somebody who had its key
before the call began is still to be asked, or was asked and did not answer; a move keeps that
because of the rotation's rule: a holder gives the key up only if another has had it for longer
than the call has lasted (`InTime`). That the key is needed at all is `KeysAwaited`: whoever made a
request with a key that was then withdrawn did so before, so `usedUntil` outlasts the request and
its call. `AskedInVain` is the other half: who was asked, answered, and has the key all the same
got it since.

`PublishInv` rests on `AloneInv`: a run that is alone knows, stage by stage, what is in the
buckets, and ceases to be alone the moment another starts. `DeleteInv` adds to `SuccessIsEarned`
what is known between the listing and the answer (`ListingInv`): what is older than the listing
is on the page or is `left`, and what is newer shows that somebody wrote. `DequeueInv` needs that
a record is done with only when it is stored or reported (`BatchAccounted`), that the key of an
object names its message (`KeyNamesBody`), so that a put never replaces another event's object,
and that only what was sent is under way (`OnlySent`), which the refinement needs as well.

`JourneyInv` is inductive together with `IInv`, which every journey has by `JourneysAreServed`.
The difficulty is that a call given up goes on writing, so the row is not where the caller's
stage says. What can be relied on is weaker and stable. A row only goes on (`RowGoesOn`), to be
deleted or to be in one of the states a claim leads to, so once a claim has been answered its
session is never again in `CIC_SESSION_CREATED`, although late claims take it back to
`CIC_DATA_RECEIVED` (`ClaimAdvances`). And a row lasts its time (`LastsItsTime`): the expiry that
/session fixed reaches the row by whichever of its writes, no update changes it, only the TTL
deletes the row, after that expiry, and what an update then re-creates is no row of /session
(`registered`). So whoever repeats a request meets a state the code answers, and a 401 was
decided when the session's time was up (`RefusalIsJust`), which it still is when the reply
arrives. The run has time stand still; the theorem has not, so sessions expire and rows are
deleted and half re-created while requests are repeated.

Only model-checked: the three liveness properties `RepeatingLeadsToCode`, `KeptUpToDate` and
`EveryEventSettles`, since TLAPS does not reach liveness under fairness; and the refutations. Every
other property of a run that passes is a theorem.

## What is not modelled

* How keys are rotated: not in this repository. `KeyRotation` states the rule it must keep.
  `KEY_ROTATION_ENABLED` is `true` in every environment of `deploy/template.yaml`, and the branch
  without it is the search with the legacy key alone.
* SQS, S3, KMS, Lambda and CloudFormation themselves: external, modelled by what the code sees.
  Message retention, object lifecycle, and a write that S3 performs for a run that is dead are
  left out; CloudFormation sends one event at a time.
* The cache under several JWKS endpoints or clients, and the mock of the local tests
  (`USE_MOCKED`): no deployed environment has them.
* Which payload fails which check (`ValidationHelper`, `Validations`): functions of one request;
  each is a refusal with its status. The bytes of tokens and signatures.
* Contents of audit events and their obfuscation in logs, headers and texts of replies,
  metrics: no state depends on them.
* `authorizationCodeExpiryDate`, `accessTokenExpiryDate`, `attemptCount`, `createdDate`: written
  and never read.
* Collisions of UUIDs: a new id or code is one that has left no trace.
* In `Journey`, aborts and stale reads: an abort ends a journey by intent; with stale reads a
  user can be refused because a replica does not show the session yet.
* The stub's `generateTokenRequest` and `jsonWebKeys`: the client assertion is part of what /token
  may refuse, and the client's endpoint is in `JwksCache`. Pipelines and the remaining
  templates: deployment.

## Plan

1. `CicService`, `Lambda`, the endpoints, `CicApi`, `ClaimFlow`, with their runs and theorems.
Done.
2. `JwksCache`, `KeyRotation`, `JwksPublish`, `DeleteBucket`, `DequeueHandler` with
`EventArchive`, each with its proofs. Done.
3. `Journey`, with liveness. Done.
4. Proofs of every safety property the runs check, for every value of the constants. Done.
5. Left: with stale reads, what a user who is refused for a replica that lags can rely on.
