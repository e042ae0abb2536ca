---------------------------- MODULE JwksPublish ----------------------------
(***************************************************************************)
(* JwksHandler: builds the service's JSON Web Key Set from the KMS keys in *)
(* its configuration, puts it in a bucket of its own and has S3 copy it to *)
(* the published bucket, from which /.well-known/jwks.json is served. A    *)
(* key that KMS does not give is left out; a failed put or copy fails the  *)
(* run. Runs are started by hand or by a schedule and may overlap.         *)
(***************************************************************************)
EXTENDS Integers

CONSTANTS
    Keys,        \* ids of KMS keys, signing and encryption
    Supported,   \* the keys of a spec that getKeySpecMap knows
    Runs,        \* slots for concurrent invocations
    MaxFaults,   \* bound: so many calls and runs fail
    MaxDeploys   \* bound: so often the configuration changes

ASSUME SupportedAssumption == Supported \subseteq Keys
ASSUME BoundsAssumption == MaxFaults \in Nat /\ MaxDeploys \in Nat

VARIABLES
    configured,  \* SIGNING_KEY_IDS and ENCRYPTION_KEY_IDS of the deployed version
    source,      \* the object in the handler's bucket: no body or one
    published,   \* the object in the published bucket
    run,         \* by slot: the invocation
    faults, deploys

buckets == <<source, published>>
counters == <<faults, deploys>>
vars == <<configured, buckets, run, counters>>

Body == SUBSET Keys
Objects == {{}} \cup {{body} : body \in Body}
Stages == {"idle", "building", "putting", "copying", "writing", "reported", "failed"}

\* ids: the configuration the container was started with; copied: what S3 has read;
\* alone: a history of whether no other run overlapped this one.
Run == [at : Stages, ids : SUBSET Keys, body : Body, copied : Objects, alone : BOOLEAN]
NoRun == [at |-> "idle", ids |-> {}, body |-> {}, copied |-> {}, alone |-> FALSE]

Busy == {r \in Runs : run[r].at \in {"building", "putting", "copying", "writing"}}
-----------------------------------------------------------------------------
Fault == faults < MaxFaults /\ faults' = faults + 1

Proceed(r, stage) == run' = [run EXCEPT ![r].at = stage] /\ UNCHANGED faults

Throw(r) == run' = [run EXCEPT ![r].at = "failed"] /\ Fault

\* Without its configuration the handler throws before it does anything.
Invoke(r) ==
    /\ r \notin Busy
    /\ run' = [q \in Runs |->
                 IF q # r THEN [run[q] EXCEPT !.alone = FALSE]
                 ELSE [NoRun EXCEPT !.at = IF configured = {} THEN "failed" ELSE "building",
                                    !.ids = configured, !.alone = (Busy = {})]]
    /\ UNCHANGED <<configured, buckets, counters>>

\* Mutant: the body is a field of the handler's instance and not reset between runs.
BuildOnBody(r) ==
    /\ run[r].at = "building"
    /\ \E silent \in SUBSET run[r].ids :
         /\ run' = [run EXCEPT ![r].body = UNION source \cup ((run[r].ids \cap Supported) \ silent),
                               ![r].at = "putting"]
         /\ IF silent = {} THEN UNCHANGED faults ELSE Fault
    /\ UNCHANGED <<configured, buckets, deploys>>

\* One call of getPublicKey for each key; those without an answer or of an unknown spec
\* are left out. A key that createPublicKey cannot read fails the run.
BuildBody(r) ==
    /\ run[r].at = "building"
    /\ \/ \E silent \in SUBSET run[r].ids :
            /\ run' = [run EXCEPT ![r].body = (run[r].ids \cap Supported) \ silent,
                                  ![r].at = "putting"]
            /\ IF silent = {} THEN UNCHANGED faults ELSE Fault
       \/ Throw(r)
    /\ UNCHANGED <<configured, buckets, deploys>>

\* A put whose reply is lost was done; the client sends it again or gives up.
PutKeys(r) ==
    /\ run[r].at = "putting"
    /\ \/ source' = {run[r].body} /\ Proceed(r, "copying")
       \/ source' = {run[r].body} /\ UNCHANGED run /\ Fault
       \/ source' = {run[r].body} /\ Throw(r)
       \/ UNCHANGED source /\ Throw(r)
    /\ UNCHANGED <<configured, published, deploys>>

\* CopyObject, on S3's side: it reads the source ...
ReadSource(r) ==
    /\ run[r].at = "copying" /\ source # {}
    /\ run' = [run EXCEPT ![r].copied = source, ![r].at = "writing"]
    /\ UNCHANGED <<configured, buckets, counters>>

\* The reply to a copy is lost and the client sends it again: S3 reads the source again.
CopyAgain(r) == run' = [run EXCEPT ![r].at = "copying"] /\ Fault

\* Mutant: copyKeys logs the error and does not throw.
WriteCopySwallowed(r) ==
    /\ run[r].at = "writing"
    /\ \/ published' = run[r].copied /\ Proceed(r, "reported")
       \/ published' = run[r].copied /\ CopyAgain(r)
       \/ UNCHANGED published /\ run' = [run EXCEPT ![r].at = "reported"] /\ Fault
    /\ UNCHANGED <<configured, source, deploys>>

\* ... and writes what it has read.
WriteCopy(r) ==
    /\ run[r].at = "writing"
    /\ \/ published' = run[r].copied /\ Proceed(r, "reported")
       \/ published' = run[r].copied /\ CopyAgain(r)
       \/ published' = run[r].copied /\ Throw(r)
       \/ UNCHANGED published /\ Throw(r)
    /\ UNCHANGED <<configured, source, deploys>>

\* The run times out or its container is lost.
Crash(r) ==
    /\ r \in Busy
    /\ Throw(r)
    /\ UNCHANGED <<configured, buckets, deploys>>

\* A new version of the function, with other keys; runs under way keep the old one.
Deploy(ids) ==
    /\ deploys < MaxDeploys /\ deploys' = deploys + 1
    /\ ids # configured /\ configured' = ids
    /\ UNCHANGED <<buckets, run, faults>>
-----------------------------------------------------------------------------
Init ==
    /\ configured \in SUBSET Keys
    /\ source = {} /\ published = {}
    /\ run = [r \in Runs |-> NoRun]
    /\ faults = 0 /\ deploys = 0

RunStep(r) == BuildBody(r) \/ PutKeys(r) \/ ReadSource(r) \/ WriteCopy(r) \/ Crash(r)
InvokeSome == \E r \in Runs : Invoke(r)

Next ==
    \/ InvokeSome
    \/ \E r \in Runs : RunStep(r)
    \/ \E ids \in SUBSET Keys : Deploy(ids)

Spec == Init /\ [][Next]_vars

\* A run that was started ends, at the latest by timing out. Nothing says that one is
\* started: the schedule is commented out of the template.
FairSpec == Spec /\ \A r \in Runs : WF_vars(RunStep(r))
-----------------------------------------------------------------------------
\* Type correctness: bodies are sets of keys, a bucket holds at most one object.
TypeOK ==
    /\ configured \in SUBSET Keys
    /\ source \in Objects /\ published \in Objects
    /\ run \in [Runs -> Run]
    /\ faults \in 0..MaxFaults /\ deploys \in 0..MaxDeploys

\* A run that reports success and that no other run overlapped has published the very
\* body it returns, through a bucket that earlier runs left in any state.
ReportedIsPublished == \A r \in Runs :
    run[r].at = "reported" /\ run[r].alone => published = {run[r].body}

\* What a run that is alone knows of the buckets at each stage.
AloneInv == \A r \in Runs : run[r].alone =>
    /\ Busy \subseteq {r}
    /\ run[r].at \in {"copying", "writing"} => source = {run[r].body}
    /\ run[r].at = "writing" => run[r].copied = {run[r].body}
    /\ run[r].at = "reported" => published = {run[r].body}

PublishInv == TypeOK /\ AloneInv

UpToDate == configured # {} => published = {configured \cap Supported}

\* If the handler is run again and again, then once failures and deployments have ended
\* the published set becomes that of the configuration and stays so, whatever overlapping
\* and failed runs have left in either bucket.
KeptUpToDate == []<><<InvokeSome>>_vars => <>[]UpToDate

\* The expectation of adr/0001-JwksBootstrapping.md:33-35: the first run after a change of
\* the configuration that reports success shows the change.
FirstRunShowsChange == \A r \in Runs :
    run[r].at = "reported" /\ run[r].alone /\ run[r].ids = configured => UpToDate
=============================================================================
