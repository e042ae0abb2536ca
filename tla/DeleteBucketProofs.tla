------------------------- MODULE DeleteBucketProofs -------------------------
(***************************************************************************)
(* That a bucket reported as emptied is as empty as two listings can know, *)
(* for any number of keys, any page size and any writes of others. The     *)
(* argument follows the invocation (ListingInv): what is older than the    *)
(* listing is on the page or left, then deleted or left; what is newer was *)
(* put by somebody else; so if neither is the case the second listing is   *)
(* empty and no marker is added.                                           *)
(***************************************************************************)
EXTENDS DeleteBucket, TLAPS

USE BucketAssumption

LEMMA InitDelete == Init => DeleteInv
<1> SUFFICES ASSUME Init PROVE DeleteInv
  OBVIOUS
<1>1. NoCall \in Call /\ NoCall.at = "idle" /\ NoCall.seen = 0
  BY DEF NoCall, Call, Stages, Kinds
<1> HIDE DEF NoCall
<1> QED
  BY <1>1 DEF Init, DeleteInv, TypeOK, ListingInv, SuccessIsEarned, Emptying

\* What an invocation must satisfy, given the bucket after the step.
GoodCall(d) ==
    /\ d \in Call
    /\ d.seen <= next'
    /\ d.at = "removing" =>
         /\ \A v \in versions' : v.no < d.seen => v \in d.page \cup d.left
         /\ \A v \in versions' : v.no >= d.seen => written' > d.seen
    /\ d.at \in {"checking", "marking"} \/ (d.at = "succeeding" /\ d.kind = "Delete") =>
         /\ \A v \in versions' : v.no < d.seen => v \in d.left
         /\ written' <= d.seen /\ d.left = {} => versions' = {}
    /\ d.at = "marking" => ~(written' <= d.seen /\ d.left = {})

LEMMA StepKeeps ==
    ASSUME GoodCall(call'), versions' \in SUBSET Version, next' \in Nat, written' \in 0..next',
           \A v \in versions' : v.no < next',
           answer' \in {"none", "SUCCESS", "FAILED"}, events' \in 0..MaxEvents
    PROVE  DeleteInv'
BY DEF GoodCall, DeleteInv, TypeOK, ListingInv, SuccessIsEarned, Emptying, Undisturbed

\* Stages of an invocation at which nothing more is known than that it is well formed.
LEMMA OtherStagesAreGood ==
    ASSUME NEW d \in Call, d.seen <= next',
           d.at \in {"idle", "listing", "failing", "ended", "dead"}
             \/ (d.at = "succeeding" /\ d.kind # "Delete")
    PROVE  GoodCall(d)
BY DEF GoodCall

LEMMA BucketFacts ==
    ASSUME DeleteInv
    PROVE  /\ versions \in SUBSET Version /\ next \in Nat /\ written \in Nat /\ written <= next
           /\ \A v \in versions : v \in Version /\ v.no \in Nat /\ v.no < next
           /\ call \in Call /\ call.seen \in Nat /\ call.seen <= next
           /\ call.page \in SUBSET Version /\ call.left \in SUBSET Version
           /\ call.contents \in SUBSET Keys /\ call.kind \in Kinds
           /\ answer \in {"none", "SUCCESS", "FAILED"} /\ events \in 0..MaxEvents
BY DEF DeleteInv, TypeOK, ListingInv, Version, Call

\* An invocation that goes to another stage keeps the rest.
LEMMA AtIs ==
    ASSUME DeleteInv, NEW stage \in Stages, At(stage)
    PROVE  /\ call' \in Call /\ call'.at = stage /\ call'.kind = call.kind
           /\ call'.seen = call.seen /\ call'.left = call.left
           /\ call'.page = call.page /\ call'.contents = call.contents
<1>1. call \in Call
  BY BucketFacts
<1> QED
  BY <1>1 DEF At, Call

\* Steps that leave the bucket alone and end at a stage of which nothing is known.
LEMMA QuietKeeps ==
    ASSUME DeleteInv, UNCHANGED <<versions, next, written>>,
           NEW stage \in {"failing", "ended", "dead"}, At(stage),
           answer' \in {"none", "SUCCESS", "FAILED"}, UNCHANGED events
    PROVE  DeleteInv'
BY BucketFacts, AtIs, OtherStagesAreGood, StepKeeps DEF Stages
-----------------------------------------------------------------------------
LEMMA StartKeeps ==
    ASSUME DeleteInv, NEW kind \in Kinds, Start(kind), UNCHANGED <<versions, next, written>>,
           answer' \in {"none", "SUCCESS", "FAILED"}
    PROVE  DeleteInv'
<1>1. /\ call' \in Call /\ call'.kind = kind /\ call'.seen = 0
      /\ call'.at = IF kind = "Delete" THEN "listing" ELSE "succeeding"
  BY DEF Start, NoCall, Call, Stages, Kinds
<1>2. GoodCall(call')
  BY <1>1, BucketFacts, OtherStagesAreGood
<1>3. events' \in 0..MaxEvents
  BY BucketFacts DEF Start
<1> QED
  BY <1>2, <1>3, BucketFacts, StepKeeps

LEMMA ListObjectVersionsKeeps == DeleteInv /\ ListObjectVersions => DeleteInv'
<1> SUFFICES ASSUME DeleteInv, ListObjectVersions PROVE DeleteInv'
  OBVIOUS
<1>1. /\ UNCHANGED <<versions, next, written, answer, events>>
      /\ \/ call' = [call EXCEPT !.at = "removing", !.page = Page, !.seen = next,
                                 !.left = versions \ Page]
         \/ At("failing")
  BY DEF ListObjectVersions, ListVersions, Fail
<1>2. ASSUME call' = [call EXCEPT !.at = "removing", !.page = Page, !.seen = next,
                                  !.left = versions \ Page]
      PROVE  GoodCall(call')
  <2>1. Page \in SUBSET Version /\ versions \ Page \in SUBSET Version
    BY BucketFacts DEF Page
  <2>2. /\ call' \in Call /\ call'.at = "removing" /\ call'.page = Page
        /\ call'.seen = next /\ call'.left = versions \ Page
    BY <1>2, <2>1, BucketFacts DEF Call, Stages
  <2> QED
    BY <1>1, <2>2, BucketFacts DEF GoodCall
<1> QED
  BY <1>1, <1>2, BucketFacts, QuietKeeps, StepKeeps

LEMMA DeleteVersionsKeeps == DeleteInv /\ DeleteVersions => DeleteInv'
<1> SUFFICES ASSUME DeleteInv, DeleteVersions PROVE DeleteInv'
  OBVIOUS
<1>1. call.at = "removing" /\ UNCHANGED <<next, written, answer, events>>
  BY DEF DeleteVersions
<1>2. PICK refused \in SUBSET call.page :
         /\ versions' = versions \ (call.page \ refused)
         /\ \/ call' = [call EXCEPT !.at = "checking", !.left = call.left \cup refused]
            \/ At("failing")
  BY DEF DeleteVersions, Fail
<1>3. versions' \in SUBSET Version /\ \A v \in versions' : v \in versions /\ v.no < next'
  BY <1>1, <1>2, BucketFacts
<1>4. CASE call' = [call EXCEPT !.at = "checking", !.left = call.left \cup refused]
  <2>1. /\ call' \in Call /\ call'.at = "checking" /\ call'.seen = call.seen
        /\ call'.left = call.left \cup refused
    BY <1>2, <1>4, BucketFacts DEF Call, Stages
  <2>2. ASSUME NEW v \in versions', v.no < call.seen PROVE v \in call.left \cup refused
    BY <1>1, <1>2, <2>2 DEF DeleteInv, ListingInv
  <2>3. ASSUME NEW v \in versions', v.no >= call.seen PROVE written > call.seen
    BY <1>1, <1>3, <2>3 DEF DeleteInv, ListingInv
  <2>4. ASSUME written <= call.seen, call.left \cup refused = {} PROVE versions' = {}
    <3>1. ASSUME NEW v \in versions' PROVE FALSE
      <4>1. v.no \in Nat
        BY <1>3, <3>1, BucketFacts
      <4>2. v.no < call.seen \/ v.no >= call.seen
        BY <4>1, BucketFacts
      <4> QED
        BY <2>2, <2>3, <2>4, <4>2, BucketFacts
    <3> QED
      BY <3>1
  <2>5. GoodCall(call')
    BY <1>1, <2>1, <2>2, <2>4, BucketFacts DEF GoodCall
  <2> QED
    BY <1>1, <1>3, <2>5, BucketFacts, StepKeeps
<1>5. CASE At("failing")
  BY <1>1, <1>3, <1>5, AtIs, BucketFacts, OtherStagesAreGood, StepKeeps DEF Stages
<1> QED
  BY <1>2, <1>4, <1>5

LEMMA ListObjectsKeeps == DeleteInv /\ ListObjects => DeleteInv'
<1> SUFFICES ASSUME DeleteInv, ListObjects PROVE DeleteInv'
  OBVIOUS
<1>1. call.at = "checking" /\ UNCHANGED <<versions, next, written, answer, events>>
  BY DEF ListObjects
<1>2. /\ \A v \in versions : v.no < call.seen => v \in call.left
      /\ written <= call.seen /\ call.left = {} => versions = {}
  BY <1>1 DEF DeleteInv, ListingInv, Undisturbed
<1>3. CASE At("succeeding")
  <2>1. GoodCall(call')
    BY <1>1, <1>2, <1>3, AtIs, BucketFacts DEF GoodCall, Stages
  <2> QED
    BY <1>1, <2>1, BucketFacts, StepKeeps
<1>4. CASE CurrentPage # {} /\ call' = [call EXCEPT !.at = "marking", !.contents = CurrentPage]
  <2>1. CurrentPage \in SUBSET Keys /\ versions # {}
    BY <1>4, BucketFacts DEF CurrentPage, Current, Version
  <2>2. /\ call' \in Call /\ call'.at = "marking" /\ call'.seen = call.seen
        /\ call'.left = call.left
    BY <1>4, <2>1, BucketFacts DEF Call, Stages
  <2>3. GoodCall(call')
    BY <1>1, <1>2, <2>1, <2>2, BucketFacts DEF GoodCall
  <2> QED
    BY <1>1, <2>3, BucketFacts, StepKeeps
<1> QED
  BY <1>1, <1>3, <1>4, BucketFacts, QuietKeeps DEF ListObjects, Fail

\* A version that a write adds.
LEMMA NewVersion ==
    ASSUME DeleteInv, NEW k \in Keys, NEW b \in BOOLEAN
    PROVE  LET v == [key |-> k, no |-> next, marker |-> b] IN v \in Version /\ v.no = next
BY BucketFacts DEF Version

LEMMA DeleteContentsKeeps == DeleteInv /\ DeleteContents => DeleteInv'
<1> SUFFICES ASSUME DeleteInv, DeleteContents PROVE DeleteInv'
  OBVIOUS
<1>1. /\ call.at = "marking" /\ next' = next + 1 /\ UNCHANGED <<written, answer, events>>
      /\ At("succeeding") \/ At("failing") \/ UNCHANGED call
  BY DEF DeleteContents, Fail
<1>2. /\ \A v \in versions : v.no < call.seen => v \in call.left
      /\ ~(written <= call.seen /\ call.left = {})
  BY <1>1 DEF DeleteInv, ListingInv, Undisturbed
<1>3. PICK marked \in SUBSET Keys :
        versions' = versions \cup {[key |-> k, no |-> next, marker |-> TRUE] : k \in marked}
  BY BucketFacts DEF DeleteContents
<1>4. ASSUME NEW v \in versions' PROVE v \in Version /\ v.no < next' /\ (v \in versions \/ v.no = next)
  <2>1. CASE v \in versions
    BY <1>1, <2>1, BucketFacts
  <2>2. CASE v \notin versions
    <3>1. PICK k \in marked : v = [key |-> k, no |-> next, marker |-> TRUE]
      BY <1>3, <2>2
    <3>2. v \in Version /\ v.no = next
      BY <3>1, NewVersion
    <3> QED
      BY <1>1, <3>2, BucketFacts
  <2> QED
    BY <2>1, <2>2
<1>5. versions' \in SUBSET Version
  BY <1>4
<1>6. CASE At("succeeding")
  <2>1. GoodCall(call')
    BY <1>1, <1>2, <1>4, <1>6, AtIs, BucketFacts DEF GoodCall, Stages
  <2> QED
    BY <1>1, <1>4, <1>5, <2>1, BucketFacts, StepKeeps
<1>7. CASE At("failing")
  <2>1. GoodCall(call')
    BY <1>1, <1>7, AtIs, BucketFacts, OtherStagesAreGood DEF Stages
  <2> QED
    BY <1>1, <1>4, <1>5, <2>1, BucketFacts, StepKeeps
<1>8. CASE UNCHANGED call
  <2>1. GoodCall(call')
    BY <1>1, <1>2, <1>4, <1>8, BucketFacts DEF GoodCall
  <2> QED
    BY <1>1, <1>4, <1>5, <2>1, BucketFacts, StepKeeps
<1> QED
  BY <1>1, <1>6, <1>7, <1>8

LEMMA SendKeeps == DeleteInv /\ (SendSuccess \/ SendFailed) => DeleteInv'
<1> SUFFICES ASSUME DeleteInv, SendSuccess \/ SendFailed PROVE DeleteInv'
  OBVIOUS
<1>1. /\ At("ended") \/ At("failing")
      /\ answer' \in {"none", "SUCCESS", "FAILED"}
      /\ UNCHANGED <<versions, next, written, events>>
  BY BucketFacts DEF SendSuccess, SendFailed, Tell, Fail
<1> QED
  BY <1>1, QuietKeeps

LEMMA PutObjectKeeps ==
    ASSUME DeleteInv, NEW key \in Keys, PutObject(key)
    PROVE  DeleteInv'
<1>1. /\ next' = next + 1 /\ written' = next + 1 /\ UNCHANGED <<call, answer, events>>
      /\ versions' = versions \cup {[key |-> key, no |-> next, marker |-> FALSE]}
  BY DEF PutObject
<1>2. ASSUME NEW v \in versions' PROVE v \in Version /\ v.no < next' /\ (v \in versions \/ v.no = next)
  <2>1. CASE v \in versions
    BY <1>1, <2>1, BucketFacts
  <2>2. CASE v \notin versions
    <3>1. v = [key |-> key, no |-> next, marker |-> FALSE]
      BY <1>1, <2>2
    <3>2. v \in Version /\ v.no = next
      BY <3>1, NewVersion
    <3> QED
      BY <1>1, <3>2, BucketFacts
  <2> QED
    BY <2>1, <2>2
<1>3. GoodCall(call')
  BY <1>1, <1>2, BucketFacts
     DEF GoodCall, DeleteInv, ListingInv, SuccessIsEarned, Emptying, Undisturbed
<1> QED
  BY <1>1, <1>2, <1>3, BucketFacts, StepKeeps

LEMMA NextDelete == DeleteInv /\ [Next]_vars => DeleteInv'
<1> SUFFICES ASSUME DeleteInv, [Next]_vars PROVE DeleteInv'
  OBVIOUS
<1>1. CASE Handler
  BY <1>1, ListObjectVersionsKeeps, DeleteVersionsKeeps, ListObjectsKeeps, DeleteContentsKeeps,
     SendKeeps DEF Handler
<1>2. CASE Crash
  BY <1>2, BucketFacts, QuietKeeps DEF Crash
<1>3. CASE RepeatEvent
  BY <1>3, BucketFacts, StartKeeps DEF RepeatEvent
<1>4. ASSUME NEW kind \in Kinds, ReceiveEvent(kind) PROVE DeleteInv'
  BY <1>4, StartKeeps DEF ReceiveEvent
<1>5. CASE UNCHANGED vars
  BY <1>5 DEF vars, DeleteInv, TypeOK, ListingInv, SuccessIsEarned, Emptying, Undisturbed
<1> QED
  BY <1>1, <1>2, <1>3, <1>4, <1>5, PutObjectKeeps DEF Next

\* Every reachable state satisfies the invariant: the invocation knows the bucket as well
\* as its listings, its deletions and the writes of others allow.
THEOREM DeleteInvariantHolds == Spec => []DeleteInv
<1> QED
  BY InitDelete, NextDelete, PTL DEF Spec

\* A bucket reported as emptied has lost all that its listing showed and S3 did not refuse
\* to delete, and is empty if that was all and nobody wrote to it.
THEOREM SuccessesAreEarned == Spec => []SuccessIsEarned
<1>1. DeleteInv => SuccessIsEarned
  BY DEF DeleteInv
<1> QED
  BY <1>1, DeleteInvariantHolds, PTL
=============================================================================
