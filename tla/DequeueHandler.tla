--------------------------- MODULE DequeueHandler ---------------------------
(***************************************************************************)
(* The test harness's DequeueHandler: a Lambda function that SQS feeds     *)
(* with batches of TxMA events, each of which it puts in the event bucket  *)
(* under a key made of the session, the time and the message id. A record  *)
(* that it cannot read throws out of the whole batch; one that S3 refuses  *)
(* is reported back. What is not reported is deleted from the queue, and a *)
(* message that was received too often goes to the dead-letter queue.      *)
(*                                                                         *)
(* SQS is external: a standard queue, which delivers a message again while *)
(* an earlier delivery is still being worked on, in whatever batches and   *)
(* order it likes.                                                         *)
(***************************************************************************)
EXTENDS Integers

CONSTANTS
    Messages,         \* the events CicService sends, and what else is put on the queue
    Malformed,        \* not JSON, or without user.session_id's parent
    Sessions,
    SessionOf,        \* by well-formed message: its user.session_id
    Consumers,        \* concurrent invocations of the handler
    BatchSize,        \* the most messages in a batch
    MaxReceiveCount,  \* of the queue's redrive policy
    MaxTime           \* bound: the clock stops here

ASSUME MessagesAssumption ==
    /\ Malformed \subseteq Messages
    /\ SessionOf \in [Messages \ Malformed -> Sessions]
ASSUME QueueAssumption == MaxReceiveCount \in Nat \ {0} /\ MaxTime \in Nat

VARIABLES
    now,        \* the clock that stamps the keys
    fate,       \* by message: unsent, queued, deleted or dead
    received,   \* by message: how often it was received
    batch,      \* by consumer: the records still to do, the failures, all records
    bucket      \* the objects

queueVars == <<fate, received>>
vars == <<now, queueVars, batch, bucket>>

Fates == {"unsent", "queued", "deleted", "dead"}
Key == [session : Sessions, at : Nat, id : Messages]
Object == [key : Key, body : Messages \ Malformed]

NoBatch == [records |-> {}, todo |-> {}, failed |-> {}]
Batch == [records : SUBSET Messages, todo : SUBSET Messages, failed : SUBSET Messages]

Stored(m) == \E object \in bucket : object.body = m
InFlight == UNION {batch[c].records : c \in Consumers}
-----------------------------------------------------------------------------
(* The handler.                                                            *)

\* Mutant: the key does without the message id.
KeyBySession(m) == [session |-> SessionOf[m], at |-> now, id |-> CHOOSE id \in Messages : TRUE]

ObjectKey(m) == [session |-> SessionOf[m], at |-> now, id |-> m]

\* An object of the same key is replaced.
PutObject(m) ==
    bucket' = {object \in bucket : object.key # ObjectKey(m)}
                 \cup {[key |-> ObjectKey(m), body |-> m]}

Handled(c, m, failed) ==
    batch' = [batch EXCEPT ![c] = [records |-> batch[c].records, todo |-> batch[c].todo \ {m},
                                   failed |-> batch[c].failed \cup failed]]

\* Mutant: a refused record is logged and no more.
StoreRecordSwallowed(c, m) ==
    /\ m \in batch[c].todo \ Malformed
    /\ \/ PutObject(m) /\ Handled(c, m, {})
       \/ UNCHANGED bucket /\ Handled(c, m, {})
    /\ UNCHANGED <<now, queueVars>>

\* A put whose reply is lost counts as refused although it was done.
StoreRecord(c, m) ==
    /\ m \in batch[c].todo \ Malformed
    /\ \/ PutObject(m) /\ Handled(c, m, {})
       \/ PutObject(m) /\ Handled(c, m, {m})
       \/ UNCHANGED bucket /\ Handled(c, m, {m})
    /\ UNCHANGED <<now, queueVars>>

\* JSON.parse or the reduce over user.session_id throws: the batch fails as a whole.
ThrowOnRecord(c, m) ==
    /\ m \in batch[c].todo \cap Malformed
    /\ batch' = [batch EXCEPT ![c] = NoBatch]
    /\ UNCHANGED <<now, queueVars, bucket>>

\* SQS deletes what was not reported.
ReturnFailures(c) ==
    /\ batch[c] # NoBatch /\ batch[c].todo = {}
    /\ fate' = [m \in Messages |->
                  IF m \in batch[c].records \ batch[c].failed /\ fate[m] = "queued"
                  THEN "deleted" ELSE fate[m]]
    /\ batch' = [batch EXCEPT ![c] = NoBatch]
    /\ UNCHANGED <<now, received, bucket>>

\* The function times out or its container is lost: nothing is deleted.
Crash(c) ==
    /\ batch[c] # NoBatch
    /\ batch' = [batch EXCEPT ![c] = NoBatch]
    /\ UNCHANGED <<now, queueVars, bucket>>
-----------------------------------------------------------------------------
(* The queue and time.                                                     *)

SendMessage(m) ==
    /\ fate[m] = "unsent"
    /\ fate' = [fate EXCEPT ![m] = "queued"]
    /\ UNCHANGED <<now, received, batch, bucket>>

Receivable == {m \in Messages : fate[m] = "queued" /\ received[m] < MaxReceiveCount}

\* SQS starts the function with a batch.
ReceiveMessages(c, records) ==
    /\ batch[c] = NoBatch
    /\ records \in (SUBSET Receivable) \ {{}}
    /\ \E places \in [records -> 1..BatchSize] :
         \A m, n \in records : places[m] = places[n] => m = n
    /\ received' = [m \in Messages |->
                      IF m \in records THEN received[m] + 1 ELSE received[m]]
    /\ batch' = [batch EXCEPT ![c] = [records |-> records, todo |-> records, failed |-> {}]]
    /\ UNCHANGED <<now, fate, bucket>>

\* Mutant: without a redrive policy nothing ends the deliveries.
RedriveMissing(m) ==
    /\ fate[m] = "queued" /\ received[m] > MaxReceiveCount /\ m \notin InFlight
    /\ fate' = [fate EXCEPT ![m] = "dead"]
    /\ UNCHANGED <<now, received, batch, bucket>>

\* The visibility timeout is longer than the function's, so no delivery is under way.
RedriveMessage(m) ==
    /\ fate[m] = "queued" /\ received[m] = MaxReceiveCount /\ m \notin InFlight
    /\ fate' = [fate EXCEPT ![m] = "dead"]
    /\ UNCHANGED <<now, received, batch, bucket>>

Tick == now < MaxTime /\ now' = now + 1 /\ UNCHANGED <<queueVars, batch, bucket>>
-----------------------------------------------------------------------------
Init ==
    /\ now = 0
    /\ fate = [m \in Messages |-> "unsent"]
    /\ received = [m \in Messages |-> 0]
    /\ batch = [c \in Consumers |-> NoBatch]
    /\ bucket = {}

HandlerStep(c) ==
    \/ \E m \in Messages : StoreRecord(c, m) \/ ThrowOnRecord(c, m)
    \/ ReturnFailures(c)

Receive(c) == \E records \in SUBSET Messages : ReceiveMessages(c, records)

Next ==
    \/ \E c \in Consumers : HandlerStep(c) \/ Crash(c) \/ Receive(c)
    \/ \E m \in Messages : SendMessage(m) \/ RedriveMessage(m)
    \/ Tick

Spec == Init /\ [][Next]_vars

(***************************************************************************)
(* An invocation that was started goes on, at the latest until it times    *)
(* out; SQS keeps on delivering what can be received and redrives what     *)
(* cannot any more. Nothing says that S3 ever accepts an object.           *)
(***************************************************************************)
Fairness ==
    /\ \A c \in Consumers : WF_vars(HandlerStep(c) \/ Crash(c))
    /\ WF_vars(\E c \in Consumers : Receive(c))
    /\ \A m \in Messages : WF_vars(RedriveMessage(m))

FairSpec == Spec /\ Fairness
-----------------------------------------------------------------------------
\* Type correctness: queue, batches and bucket are well formed.
TypeOK ==
    /\ now \in Nat
    /\ fate \in [Messages -> Fates]
    /\ received \in [Messages -> 0..MaxReceiveCount]
    /\ batch \in [Consumers -> Batch]
    /\ bucket \subseteq Object

\* An event that was taken off the queue as done is in the bucket, under a key that no
\* other event's object can replace, however often it was delivered, in whatever
\* company, and wherever an invocation failed or died (the order of put and report).
DoneIsStored == \A m \in Messages : fate[m] = "deleted" => Stored(m)

\* Where a record stands in its batch: done with only when it was stored or is reported.
BatchAccounted == \A c \in Consumers :
    /\ batch[c].todo \subseteq batch[c].records
    /\ \A m \in batch[c].records : m \in batch[c].todo \/ m \in batch[c].failed \/ Stored(m)

\* Objects of different events have different keys.
KeyNamesBody == \A object \in bucket : object.key.id = object.body

\* Only what was sent is in flight or stored.
OnlySent ==
    /\ \A m \in InFlight : fate[m] # "unsent"
    /\ \A object \in bucket : fate[object.body] # "unsent"

\* The inductive invariant behind DoneIsStored and the refinement.
DequeueInv == TypeOK /\ BatchAccounted /\ KeyNamesBody /\ OnlySent /\ DoneIsStored

\* The handler and the queue keep what the harness promises of each event.
Archive == INSTANCE EventArchive WITH archived <- {m \in Messages : Stored(m)}
ImplementsArchive == Archive!Spec

\* Every event leaves the queue in the end, although a malformed companion throws its
\* batch away again and again and S3 may refuse it each time (maxReceiveCount).
EveryEventSettles == \A m \in Messages : Archive!Settled(m)
=============================================================================
