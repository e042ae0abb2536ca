------------------------- MODULE JwksPublishProofs -------------------------
(***************************************************************************)
(* That a run of JwksHandler which no other overlapped and which reports   *)
(* success has published the set it returns, for any keys, any number of   *)
(* invocations, failures and deployments. A run that is alone finds at     *)
(* each stage what it left at the one before, since every other run is     *)
(* over and the next one will end its being alone (AloneInv).              *)
(***************************************************************************)
EXTENDS JwksPublish, TLAPS

USE SupportedAssumption, BoundsAssumption

LEMMA InitPublish == Init => PublishInv
<1> SUFFICES ASSUME Init PROVE PublishInv
  OBVIOUS
<1>1. NoRun \in Run
  BY DEF NoRun, Run, Stages, Objects, Body
<1>2. TypeOK
  BY <1>1 DEF Init, TypeOK, Objects
<1>3. AloneInv
  BY DEF Init, AloneInv, NoRun
<1> QED
  BY <1>2, <1>3 DEF PublishInv

\* What a run must satisfy, given the buckets after the step: the stages of AloneInv.
GoodRun(d) ==
    /\ d \in Run
    /\ d.alone =>
        /\ d.at \in {"copying", "writing"} => source' = {d.body}
        /\ d.at = "writing" => d.copied = {d.body}
        /\ d.at = "reported" => published' = {d.body}

\* A step of one run, which is under way. It may change a bucket only because a run that
\* is alone and not under way any more no longer counts as alone once this one began.
LEMMA RunKeeps ==
    ASSUME PublishInv, NEW r \in Busy, NEW d, GoodRun(d), d.alone = run[r].alone,
           run' = [run EXCEPT ![r] = d], source' \in Objects, published' \in Objects,
           faults' \in 0..MaxFaults, UNCHANGED <<configured, deploys>>
    PROVE  PublishInv'
<1>1. \A q \in Runs : run'[q] = IF q = r THEN d ELSE run[q]
  BY DEF PublishInv, TypeOK
<1>2. TypeOK'
  BY DEF PublishInv, TypeOK, GoodRun
<1>3. Busy' \subseteq Busy /\ r \in Runs
  BY <1>1 DEF Busy
<1>4. ASSUME NEW q \in Runs, q # r PROVE ~run'[q].alone
  BY <1>1, <1>4 DEF PublishInv, AloneInv
<1>5. AloneInv'
  <2> SUFFICES ASSUME NEW q \in Runs, run'[q].alone
               PROVE  /\ Busy' \subseteq {q}
                      /\ run'[q].at \in {"copying", "writing"} => source' = {run'[q].body}
                      /\ run'[q].at = "writing" => run'[q].copied = {run'[q].body}
                      /\ run'[q].at = "reported" => published' = {run'[q].body}
    BY DEF AloneInv
  <2>1. q = r /\ run'[q] = d
    BY <1>1, <1>4
  <2>2. Busy \subseteq {r}
    BY <1>3, <2>1 DEF PublishInv, AloneInv
  <2> QED
    BY <1>3, <2>1, <2>2 DEF GoodRun
<1> QED
  BY <1>2, <1>5 DEF PublishInv

\* What is known of a run under way.
LEMMA BusyFacts ==
    ASSUME PublishInv, NEW r \in Busy
    PROVE  /\ r \in Runs /\ run[r] \in Run
           /\ run[r].alone => /\ run[r].at \in {"copying", "writing"} => source = {run[r].body}
                              /\ run[r].at = "writing" => run[r].copied = {run[r].body}
           /\ source \in Objects /\ published \in Objects
           /\ faults \in 0..MaxFaults
BY DEF PublishInv, TypeOK, AloneInv, Busy

LEMMA FaultBound == ASSUME PublishInv, Fault PROVE faults' \in 0..MaxFaults
BY DEF Fault, PublishInv, TypeOK

\* A run that throws, whatever it has done to the buckets.
LEMMA ThrowKeeps ==
    ASSUME PublishInv, NEW r \in Busy, Throw(r), source' \in Objects, published' \in Objects,
           UNCHANGED <<configured, deploys>>
    PROVE  PublishInv'
<1> DEFINE d == [run[r] EXCEPT !.at = "failed"]
<1>1. d \in Run /\ d.at = "failed" /\ d.alone = run[r].alone
  BY BusyFacts DEF Run, Stages
<1>2. run' = [run EXCEPT ![r] = d]
  BY BusyFacts DEF Throw
<1> HIDE DEF d
<1>3. GoodRun(d)
  BY <1>1 DEF GoodRun
<1> QED
  BY <1>1, <1>2, <1>3, RunKeeps, FaultBound DEF Throw

LEMMA InvokeKeeps ==
    ASSUME PublishInv, NEW r \in Runs, Invoke(r)
    PROVE  PublishInv'
<1> DEFINE d == [NoRun EXCEPT !.at = IF configured = {} THEN "failed" ELSE "building",
                              !.ids = configured, !.alone = (Busy = {})]
<1>1. d \in Run /\ d.at \in {"failed", "building"} /\ d.alone = (Busy = {})
  BY DEF NoRun, Run, Stages, Objects, Body, PublishInv, TypeOK
<1>2. run' = [q \in Runs |-> IF q # r THEN [run[q] EXCEPT !.alone = FALSE] ELSE d]
  BY DEF Invoke
<1> HIDE DEF d
<1>3. \A q \in Runs : q # r => /\ [run[q] EXCEPT !.alone = FALSE] \in Run
                              /\ ~[run[q] EXCEPT !.alone = FALSE].alone
                              /\ [run[q] EXCEPT !.alone = FALSE].at = run[q].at
  <2> TAKE q \in Runs
  <2>1. run[q] \in Run
    BY DEF PublishInv, TypeOK
  <2> QED
    BY <2>1 DEF Run
<1>4. TypeOK'
  <2>1. run' \in [Runs -> Run]
    BY <1>1, <1>2, <1>3
  <2>2. UNCHANGED <<configured, source, published, faults, deploys>>
    BY DEF Invoke, buckets, counters
  <2> QED
    BY <2>1, <2>2 DEF PublishInv, TypeOK
<1>5. Busy' \subseteq Busy \cup {r}
  BY <1>2, <1>3 DEF Busy
<1>6. AloneInv'
  BY <1>1, <1>2, <1>3, <1>5 DEF AloneInv
<1> QED
  BY <1>4, <1>6 DEF PublishInv

LEMMA BuildBodyKeeps ==
    ASSUME PublishInv, NEW r \in Runs, BuildBody(r)
    PROVE  PublishInv'
<1>1. r \in Busy /\ UNCHANGED <<configured, source, published, deploys>>
  BY DEF BuildBody, Busy, buckets
<1>2. ASSUME NEW body \in SUBSET Keys,
             run' = [run EXCEPT ![r].body = body, ![r].at = "putting"],
             faults' \in 0..MaxFaults
      PROVE  PublishInv'
  <2> DEFINE d == [run[r] EXCEPT !.body = body, !.at = "putting"]
  <2>1. d \in Run /\ d.at = "putting" /\ d.alone = run[r].alone
    BY <1>1, BusyFacts DEF Run, Stages, Body
  <2>2. run' = [run EXCEPT ![r] = d]
    BY <1>1, <1>2, BusyFacts DEF PublishInv, TypeOK
  <2> HIDE DEF d
  <2>3. GoodRun(d)
    BY <2>1 DEF GoodRun
  <2> QED
    BY <1>1, <1>2, <2>1, <2>2, <2>3, BusyFacts, RunKeeps
<1>3. ASSUME NEW silent \in SUBSET run[r].ids
      PROVE  (run[r].ids \cap Supported) \ silent \in SUBSET Keys
  OBVIOUS
<1> QED
  BY <1>1, <1>2, <1>3, BusyFacts, FaultBound, ThrowKeeps DEF BuildBody

\* A run that goes on to its next stage.
LEMMA ProceedIs ==
    ASSUME PublishInv, NEW r \in Busy, NEW stage \in Stages, Proceed(r, stage)
    PROVE  \E d \in Run : /\ run' = [run EXCEPT ![r] = d]
                          /\ d.at = stage /\ d.body = run[r].body
                          /\ d.copied = run[r].copied /\ d.alone = run[r].alone
<1> DEFINE d == [run[r] EXCEPT !.at = stage]
<1>1. /\ d \in Run /\ run' = [run EXCEPT ![r] = d]
      /\ d.at = stage /\ d.body = run[r].body
      /\ d.copied = run[r].copied /\ d.alone = run[r].alone
  BY BusyFacts DEF Run, Proceed
<1> QED
  BY <1>1

LEMMA PutKeysKeeps ==
    ASSUME PublishInv, NEW r \in Runs, PutKeys(r)
    PROVE  PublishInv'
<1>1. /\ r \in Busy /\ run[r].at = "putting" /\ UNCHANGED <<configured, published, deploys>>
      /\ published' \in Objects /\ {run[r].body} \in Objects
  BY BusyFacts DEF PutKeys, Busy, PublishInv, TypeOK, Run, Objects
<1>2. CASE source' = {run[r].body} /\ Proceed(r, "copying")
  <2>1. PICK d \in Run : /\ run' = [run EXCEPT ![r] = d]
                         /\ d.at = "copying" /\ d.body = run[r].body /\ d.alone = run[r].alone
    BY <1>1, <1>2, ProceedIs DEF Stages
  <2>2. GoodRun(d)
    BY <1>2, <2>1 DEF GoodRun
  <2> QED
    BY <1>1, <1>2, <2>1, <2>2, BusyFacts, RunKeeps DEF Proceed
<1>3. CASE source' = {run[r].body} /\ UNCHANGED run /\ Fault
  <2>1. GoodRun(run[r]) /\ run' = [run EXCEPT ![r] = run[r]]
    BY <1>1, <1>3, BusyFacts DEF GoodRun, PublishInv, TypeOK
  <2> QED
    BY <1>1, <1>3, <2>1, FaultBound, RunKeeps
<1> QED
  BY <1>1, <1>2, <1>3, BusyFacts, ThrowKeeps DEF PutKeys

LEMMA ReadSourceKeeps ==
    ASSUME PublishInv, NEW r \in Runs, ReadSource(r)
    PROVE  PublishInv'
<1>1. r \in Busy /\ run[r].at = "copying" /\ UNCHANGED <<configured, source, published, counters>>
  BY DEF ReadSource, Busy, buckets
<1> DEFINE d == [run[r] EXCEPT !.copied = source, !.at = "writing"]
<1>2. /\ d \in Run /\ d.at = "writing" /\ d.copied = source
      /\ d.body = run[r].body /\ d.alone = run[r].alone
  BY <1>1, BusyFacts DEF Run, Stages
<1>3. run' = [run EXCEPT ![r] = d]
  BY <1>1, BusyFacts DEF ReadSource, PublishInv, TypeOK
<1> HIDE DEF d
<1>4. GoodRun(d)
  BY <1>1, <1>2, BusyFacts DEF GoodRun
<1> QED
  BY <1>1, <1>2, <1>3, <1>4, BusyFacts, RunKeeps DEF counters

LEMMA WriteCopyKeeps ==
    ASSUME PublishInv, NEW r \in Runs, WriteCopy(r)
    PROVE  PublishInv'
<1>1. /\ r \in Busy /\ run[r].at = "writing" /\ UNCHANGED <<configured, source, deploys>>
      /\ source' \in Objects /\ run[r].copied \in Objects
  BY BusyFacts DEF WriteCopy, Busy, PublishInv, TypeOK, Run
<1>2. CASE published' = run[r].copied /\ Proceed(r, "reported")
  <2>1. PICK d \in Run : /\ run' = [run EXCEPT ![r] = d]
                         /\ d.at = "reported" /\ d.body = run[r].body
                         /\ d.alone = run[r].alone
    BY <1>1, <1>2, ProceedIs DEF Stages
  <2>2. GoodRun(d)
    BY <1>1, <1>2, <2>1, BusyFacts DEF GoodRun
  <2> QED
    BY <1>1, <1>2, <2>1, <2>2, BusyFacts, RunKeeps DEF Proceed
<1>3. CASE published' = run[r].copied /\ CopyAgain(r)
  <2> DEFINE d == [run[r] EXCEPT !.at = "copying"]
  <2>1. /\ d \in Run /\ d.at = "copying"
        /\ d.body = run[r].body /\ d.alone = run[r].alone
    BY <1>1, BusyFacts DEF Run, Stages
  <2>2. run' = [run EXCEPT ![r] = d] /\ Fault
    BY <1>3, BusyFacts DEF CopyAgain
  <2> HIDE DEF d
  <2>3. GoodRun(d)
    BY <1>1, <2>1, BusyFacts DEF GoodRun
  <2> QED
    BY <1>1, <1>3, <2>1, <2>2, <2>3, FaultBound, RunKeeps
<1> QED
  BY <1>1, <1>2, <1>3, BusyFacts, ThrowKeeps DEF WriteCopy

LEMMA DeployKeeps ==
    ASSUME PublishInv, NEW ids \in SUBSET Keys, Deploy(ids)
    PROVE  PublishInv'
BY DEF Deploy, PublishInv, TypeOK, AloneInv, Busy, buckets

LEMMA NextPublish == PublishInv /\ [Next]_vars => PublishInv'
<1> SUFFICES ASSUME PublishInv, [Next]_vars PROVE PublishInv'
  OBVIOUS
<1>1. ASSUME NEW r \in Runs, Crash(r) PROVE PublishInv'
  BY <1>1, BusyFacts, ThrowKeeps DEF Crash, buckets
<1>2. CASE UNCHANGED vars
  BY <1>2 DEF vars, buckets, counters, PublishInv, TypeOK, AloneInv, Busy
<1> QED
  BY <1>1, <1>2, InvokeKeeps, BuildBodyKeeps, PutKeysKeeps, ReadSourceKeeps, WriteCopyKeeps,
     DeployKeeps DEF Next, InvokeSome, RunStep

\* Every reachable state satisfies the invariant: buckets and runs are well formed, and a
\* run that is alone finds what it left.
THEOREM PublishInvariantHolds == Spec => []PublishInv
<1> QED
  BY InitPublish, NextPublish, PTL DEF Spec

\* A success that no other run overlapped is published (put, then copy, each failure
\* reported).
THEOREM ReportedRunsArePublished == Spec => []ReportedIsPublished
<1>1. PublishInv => ReportedIsPublished
  BY DEF PublishInv, AloneInv, ReportedIsPublished
<1> QED
  BY <1>1, PublishInvariantHolds, PTL
=============================================================================
