---------------------------- MODULE DeleteBucket ----------------------------
(***************************************************************************)
(* The custom resource behind Custom::EmptyBucket. CloudFormation sends it *)
(* an event and waits for an answer at the event's ResponseURL; on Delete  *)
(* the function empties the bucket first, since CloudFormation can delete  *)
(* only an empty one. The bucket is versioned: what was put stays until it *)
(* is deleted by its version, and a delete without one adds a marker.      *)
(*                                                                         *)
(* S3, CloudFormation and those that write to the bucket meanwhile         *)
(* (JwksHandler, the test harness's DequeueHandler) are external. Lambda   *)
(* starts an invocation again that died, but none that has returned.       *)
(***************************************************************************)
EXTENDS Integers, FiniteSets

CONSTANTS
    LastKey,     \* keys are 1..LastKey, in the order in which S3 lists them
    PageSize,    \* S3 lists no more than this many at once (1000)
    MaxWrites,   \* bound: the write number from which on nobody else puts anything and no
                 \* marking is sent again
    MaxEvents    \* bound: events and repeated invocations

ASSUME BucketAssumption ==
    LastKey \in Nat /\ PageSize \in Nat \ {0} /\ MaxWrites \in Nat /\ MaxEvents \in Nat

VARIABLES
    versions,    \* the versions and delete markers in the bucket
    next,        \* a version has the number of the write it came from
    written,     \* history: next after the last put by somebody else
    call,        \* the invocation
    answer,      \* what CloudFormation was told of the event, if anything
    events       \* events and repeated invocations so far

vars == <<versions, next, written, call, answer, events>>

Keys == 1..LastKey
Version == [key : Keys, no : Nat, marker : BOOLEAN]
Kinds == {"Create", "Update", "Delete"}
Stages == {"idle", "listing", "removing", "checking", "marking",
           "succeeding", "failing", "ended", "dead"}

\* page, contents: what the two listings returned; seen: next at the first of them;
\* left: history, the versions it did not show and those S3 refused to delete.
Call == [at : Stages, kind : Kinds, page : SUBSET Version, contents : SUBSET Keys,
         seen : Nat, left : SUBSET Version]
NoCall == [at |-> "idle", kind |-> "Create", page |-> {}, contents |-> {}, seen |-> 0,
           left |-> {}]

\* The first page of a listing by key and from the newest version to the oldest.
Before(v, w) == v.key < w.key \/ (v.key = w.key /\ v.no > w.no)
Page == {v \in versions : Cardinality({w \in versions : Before(w, v)}) < PageSize}

\* The first page of the keys whose newest version is no marker.
Newest(v) == \A w \in versions : w.key = v.key => w.no <= v.no
Current == {v.key : v \in {w \in versions : Newest(w) /\ ~w.marker}}
CurrentPage == {k \in Current : Cardinality({j \in Current : j < k}) < PageSize}
-----------------------------------------------------------------------------
At(stage) == call' = [call EXCEPT !.at = stage]

\* An error of S3 is caught in processRequest.
Fail == At("failing")

Start(kind) ==
    /\ events < MaxEvents /\ events' = events + 1
    /\ call' = [NoCall EXCEPT !.at = IF kind = "Delete" THEN "listing" ELSE "succeeding",
                              !.kind = kind]

\* CloudFormation sends an event, and no other before it was answered or it gave up.
ReceiveEvent(kind) ==
    /\ call.at \in {"idle", "ended"} /\ ~(call.kind = "Delete" /\ answer = "SUCCESS")
    /\ Start(kind)
    /\ answer' = "none"
    /\ UNCHANGED <<versions, next, written>>

\* Lambda repeats an asynchronous invocation that died.
RepeatEvent ==
    /\ call.at = "dead"
    /\ Start(call.kind)
    /\ UNCHANGED <<versions, next, written, answer>>

ListVersions(listed) ==
    \/ /\ call' = [call EXCEPT !.at = "removing", !.page = listed, !.seen = next,
                               !.left = versions \ Page]
       /\ UNCHANGED <<versions, next, written, answer, events>>
    \/ Fail /\ UNCHANGED <<versions, next, written, answer, events>>

\* Mutant: the delete markers of the listing are overlooked.
ListObjectVersionsOnly ==
    call.at = "listing" /\ ListVersions({v \in Page : ~v.marker})

ListObjectVersions == call.at = "listing" /\ ListVersions(Page)

\* DeleteObjects of versions: S3 may refuse some, which the reply says and nobody reads;
\* it may also fail with any part of it done.
DeleteVersions ==
    /\ call.at = "removing"
    /\ \E refused \in SUBSET call.page :
         /\ versions' = versions \ (call.page \ refused)
         /\ \/ call' = [call EXCEPT !.at = "checking", !.left = @ \cup refused]
            \/ call.page # {} /\ Fail
    /\ UNCHANGED <<next, written, answer, events>>

\* ListObjectsV2 shows what was put in the meantime or lay beyond the page.
ListObjects ==
    /\ call.at = "checking"
    /\ \/ CurrentPage = {} /\ At("succeeding")
       \/ CurrentPage # {}
            /\ call' = [call EXCEPT !.at = "marking", !.contents = CurrentPage]
       \/ Fail
    /\ UNCHANGED <<versions, next, written, answer, events>>

\* DeleteObjects without versions adds a marker to each key that S3 does not refuse, and
\* another one if the reply is lost and the client sends it again.
DeleteContents ==
    /\ call.at = "marking"
    /\ \E refused \in SUBSET call.contents :
         versions' = versions \cup {[key |-> k, no |-> next, marker |-> TRUE] :
                                      k \in call.contents \ refused}
    /\ next' = next + 1
    /\ At("succeeding") \/ Fail \/ (next < MaxWrites /\ UNCHANGED call)
    /\ UNCHANGED <<written, answer, events>>

Tell(status) == answer' = IF answer = "none" THEN status ELSE answer

\* The fetch: it arrives; it arrives and its reply is lost; it is lost; or its reply is an
\* HTTP error, which fetch does not throw. The first answer to an event is the one that counts.
SendSuccess ==
    /\ call.at = "succeeding"
    /\ \/ Tell("SUCCESS") /\ At("ended")
       \/ Tell("SUCCESS") /\ Fail
       \/ UNCHANGED answer /\ (At("ended") \/ Fail)
    /\ UNCHANGED <<versions, next, written, events>>

\* If this fails as well the handler returns a 500 that nobody sees.
SendFailed ==
    /\ call.at = "failing"
    /\ Tell("FAILED") \/ UNCHANGED answer
    /\ At("ended")
    /\ UNCHANGED <<versions, next, written, events>>

Crash ==
    /\ call.at \notin {"idle", "ended", "dead"}
    /\ At("dead")
    /\ UNCHANGED <<versions, next, written, answer, events>>

\* Somebody else puts an object.
PutObject(key) ==
    /\ next < MaxWrites
    /\ versions' = versions \cup {[key |-> key, no |-> next, marker |-> FALSE]}
    /\ next' = next + 1
    /\ written' = next'
    /\ UNCHANGED <<call, answer, events>>
-----------------------------------------------------------------------------
Init ==
    /\ versions = {} /\ next = 0 /\ written = 0
    /\ call = NoCall /\ answer = "none" /\ events = 0

Handler ==
    \/ ListObjectVersions \/ DeleteVersions \/ ListObjects \/ DeleteContents
    \/ SendSuccess \/ SendFailed

Next ==
    \/ Handler \/ Crash
    \/ RepeatEvent \/ \E kind \in Kinds : ReceiveEvent(kind)
    \/ \E key \in Keys : PutObject(key)

Spec == Init /\ [][Next]_vars
-----------------------------------------------------------------------------
\* Type correctness: versions, listings and the invocation are well formed.
TypeOK ==
    /\ versions \in SUBSET Version /\ next \in Nat /\ written \in 0..next
    /\ call \in Call
    /\ answer \in {"none", "SUCCESS", "FAILED"}
    /\ events \in 0..MaxEvents

Emptying == call.at = "succeeding" /\ call.kind = "Delete"

\* No put by others since the listing, and all of it was on one page and deleted.
Undisturbed == written <= call.seen /\ call.left = {}

\* When the function reports a bucket as emptied, whatever earlier invocations died over,
\* everything is gone that was there when it listed the versions, except for what
\* the page did not show and what S3 refused; and nothing else is there either, unless
\* somebody put it there meanwhile (no delete marker of its own making stays).
SuccessIsEarned == Emptying =>
    /\ \A v \in versions : v.no < call.seen => v \in call.left
    /\ Undisturbed => versions = {}

\* What is known at each stage between the first listing and the answer.
ListingInv ==
    /\ \A v \in versions : v.no < next
    /\ call.seen <= next
    /\ call.at = "removing" =>
         /\ \A v \in versions : v.no < call.seen => v \in call.page \cup call.left
         /\ \A v \in versions : v.no >= call.seen => written > call.seen
    /\ call.at \in {"checking", "marking"} =>
         /\ \A v \in versions : v.no < call.seen => v \in call.left
         /\ Undisturbed => versions = {}
    /\ call.at = "marking" => ~Undisturbed

DeleteInv == TypeOK /\ ListingInv /\ SuccessIsEarned

\* The expectation of src/src/tests/unit/services/DeleteBucketProcessor.test.ts:29
\* (successfully empties bucket versions): a bucket nobody wrote to since is empty.
SuccessMeansEmpty == Emptying /\ written <= call.seen => versions = {}

\* The expectation of src/src/services/DeleteBucketProcessor.ts:46 (response sent to
\* prevent CloudFormation hanging): no invocation returns with its event unanswered.
ReturnedIsAnswered == call.at = "ended" => answer # "none"
=============================================================================
