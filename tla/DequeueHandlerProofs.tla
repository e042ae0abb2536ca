------------------------ MODULE DequeueHandlerProofs ------------------------
(***************************************************************************)
(* That nothing is taken off the queue that is not in the bucket, for any  *)
(* messages, sessions, batches and number of concurrent invocations. A     *)
(* record leaves a batch's todo only when it is stored or among the        *)
(* failures (BatchAccounted), and what is stored stays, because an object  *)
(* is replaced only by one of the same message (KeyNamesBody).             *)
(***************************************************************************)
EXTENDS DequeueHandler, TLAPS

USE MessagesAssumption, QueueAssumption

LEMMA InitDequeue == Init => DequeueInv
BY DEF Init, DequeueInv, TypeOK, Fates, Batch, NoBatch, BatchAccounted, KeyNamesBody, OnlySent,
       InFlight, DoneIsStored

\* A put adds an object of its message and takes away none of another.
LEMMA PutStores ==
    ASSUME DequeueInv, NEW m \in Messages \ Malformed, PutObject(m)
    PROVE  /\ bucket' \subseteq Object
           /\ KeyNamesBody'
           /\ \A n \in Messages : Stored(n)' <=> Stored(n) \/ n = m
           /\ \A object \in bucket' : object \in bucket \/ object.body = m
<1> DEFINE new == [key |-> ObjectKey(m), body |-> m]
<1>1. /\ new \in Object /\ new.body = m /\ new.key = ObjectKey(m) /\ new.key.id = m
      /\ new.key.id = new.body
  BY DEF Object, Key, ObjectKey, DequeueInv, TypeOK
<1>2. bucket' = {object \in bucket : object.key # ObjectKey(m)} \cup {new}
  BY DEF PutObject
<1> HIDE DEF new
<1>3. bucket' \subseteq Object /\ \A object \in bucket' : object \in bucket \/ object.body = m
  BY <1>1, <1>2 DEF DequeueInv, TypeOK
<1>4. KeyNamesBody'
  BY <1>1, <1>2 DEF DequeueInv, KeyNamesBody
<1>5. \A object \in bucket : object \in bucket' \/ object.body = m
  BY <1>1, <1>2 DEF DequeueInv, KeyNamesBody
<1>6. new \in bucket'
  BY <1>2
<1>7. \A n \in Messages : Stored(n)' <=> Stored(n) \/ n = m
  BY <1>1, <1>3, <1>5, <1>6 DEF Stored
<1> QED
  BY <1>3, <1>4, <1>7

\* What the bucket must satisfy for a step to be in order: nothing stored is lost, and
\* all that is stored was sent.
BucketGrows ==
    /\ bucket' \subseteq Object
    /\ KeyNamesBody'
    /\ \A n \in Messages : Stored(n) => Stored(n)'
    /\ \A object \in bucket' : fate[object.body] # "unsent"

LEMMA SameBucketGrows == ASSUME DequeueInv, UNCHANGED bucket PROVE BucketGrows
BY DEF DequeueInv, TypeOK, KeyNamesBody, OnlySent, Stored, BucketGrows

LEMMA PutGrows ==
    ASSUME DequeueInv, NEW m \in Messages \ Malformed, fate[m] # "unsent", PutObject(m)
    PROVE  BucketGrows
BY PutStores DEF DequeueInv, OnlySent, BucketGrows

\* What a batch must satisfy to be under way, given the bucket after the step.
GoodBatch(b) ==
    /\ b \in Batch
    /\ b.todo \subseteq b.records
    /\ \A n \in b.records : /\ n \in b.todo \/ n \in b.failed \/ Stored(n)'
                            /\ fate[n] # "unsent"

LEMMA BatchKeeps ==
    ASSUME DequeueInv, NEW c \in Consumers, NEW b, GoodBatch(b), BucketGrows,
           batch' = [batch EXCEPT ![c] = b], UNCHANGED fate,
           now' \in Nat, received' \in [Messages -> 0..MaxReceiveCount]
    PROVE  DequeueInv'
<1>1. \A d \in Consumers : batch'[d] = IF d = c THEN b ELSE batch[d]
  BY DEF DequeueInv, TypeOK
<1>2. TypeOK'
  BY DEF DequeueInv, TypeOK, GoodBatch, BucketGrows
<1>3. \A n \in InFlight' : fate[n] # "unsent"
  BY <1>1 DEF DequeueInv, OnlySent, InFlight, GoodBatch
<1>4. BatchAccounted'
  <2> SUFFICES ASSUME NEW d \in Consumers
               PROVE  /\ batch'[d].todo \subseteq batch'[d].records
                      /\ \A n \in batch'[d].records :
                            n \in batch'[d].todo \/ n \in batch'[d].failed \/ Stored(n)'
    BY DEF BatchAccounted
  <2>1. batch[d].records \subseteq Messages
    BY DEF DequeueInv, TypeOK, Batch
  <2> QED
    BY <1>1, <2>1 DEF DequeueInv, BatchAccounted, GoodBatch, BucketGrows
<1>5. KeyNamesBody' /\ OnlySent' /\ DoneIsStored'
  BY <1>3 DEF DequeueInv, OnlySent, DoneIsStored, BucketGrows
<1> QED
  BY <1>2, <1>4, <1>5 DEF DequeueInv

\* An invocation that has ended holds nothing.
LEMMA NoBatchIsGood == GoodBatch(NoBatch)
BY DEF GoodBatch, NoBatch, Batch

\* What a batch under way is known to be.
LEMMA BatchFacts ==
    ASSUME DequeueInv, NEW c \in Consumers
    PROVE  /\ batch[c] \in Batch
           /\ batch[c].records \subseteq Messages /\ batch[c].failed \subseteq Messages
           /\ batch[c].todo \subseteq batch[c].records
           /\ \A m \in batch[c].records : /\ m \in batch[c].todo \/ m \in batch[c].failed \/ Stored(m)
                                          /\ fate[m] # "unsent"
BY DEF DequeueInv, TypeOK, BatchAccounted, OnlySent, InFlight, Batch
-----------------------------------------------------------------------------
LEMMA StoreRecordKeeps ==
    ASSUME DequeueInv, NEW c \in Consumers, NEW m \in Messages, StoreRecord(c, m)
    PROVE  DequeueInv'
<1>1. m \in Messages \ Malformed /\ m \in batch[c].todo /\ m \in batch[c].records
      /\ fate[m] # "unsent"
  BY BatchFacts DEF StoreRecord
<1>2. /\ UNCHANGED fate /\ now' \in Nat /\ received' \in [Messages -> 0..MaxReceiveCount]
  BY DEF StoreRecord, queueVars, DequeueInv, TypeOK
<1>3. PICK failed \in SUBSET {m} : /\ Handled(c, m, failed)
                                   /\ PutObject(m) \/ UNCHANGED bucket
                                   /\ PutObject(m) \/ m \in failed
  BY DEF StoreRecord
<1>4. BucketGrows
  BY <1>1, <1>3, PutGrows, SameBucketGrows
<1>5. PutObject(m) => Stored(m)'
  BY <1>1, PutStores
<1> DEFINE b == [records |-> batch[c].records, todo |-> batch[c].todo \ {m},
                 failed |-> batch[c].failed \cup failed]
<1>6. b \in Batch /\ b.records = batch[c].records /\ b.todo = batch[c].todo \ {m}
      /\ b.failed = batch[c].failed \cup failed
  BY BatchFacts DEF Batch
<1>7. batch' = [batch EXCEPT ![c] = b]
  BY <1>3 DEF Handled
<1> HIDE DEF b
<1>8. GoodBatch(b)
  BY <1>3, <1>4, <1>5, <1>6, BatchFacts DEF GoodBatch, BucketGrows
<1> QED
  BY <1>2, <1>4, <1>7, <1>8, BatchKeeps

LEMMA ThrowOrCrashKeeps ==
    ASSUME DequeueInv, NEW c \in Consumers, batch' = [batch EXCEPT ![c] = NoBatch],
           UNCHANGED <<now, queueVars, bucket>>
    PROVE  DequeueInv'
<1>1. now' \in Nat /\ received' \in [Messages -> 0..MaxReceiveCount] /\ UNCHANGED <<fate, bucket>>
  BY DEF queueVars, DequeueInv, TypeOK
<1> QED
  BY <1>1, NoBatchIsGood, SameBucketGrows, BatchKeeps

LEMMA ReceiveKeeps ==
    ASSUME DequeueInv, NEW c \in Consumers, NEW records \in SUBSET Messages,
           ReceiveMessages(c, records)
    PROVE  DequeueInv'
<1> DEFINE b == [records |-> records, todo |-> records, failed |-> {}]
<1>1. b \in Batch /\ b.records = records /\ b.todo = records
  BY DEF Batch
<1>2. \A m \in records : fate[m] = "queued" /\ received[m] < MaxReceiveCount
  BY DEF ReceiveMessages, Receivable
<1>3. received' \in [Messages -> 0..MaxReceiveCount]
  BY <1>2 DEF ReceiveMessages, DequeueInv, TypeOK
<1>4. now' \in Nat /\ UNCHANGED <<fate, bucket>> /\ batch' = [batch EXCEPT ![c] = b]
  BY DEF ReceiveMessages, DequeueInv, TypeOK
<1> HIDE DEF b
<1>5. GoodBatch(b)
  BY <1>1, <1>2 DEF GoodBatch
<1> QED
  BY <1>3, <1>4, <1>5, SameBucketGrows, BatchKeeps

\* A step that changes how far some messages have got and ends at most one batch.
LEMMA FateKeeps ==
    ASSUME DequeueInv, fate' \in [Messages -> Fates],
           \A m \in Messages : fate'[m] = "unsent" => fate[m] = "unsent",
           \A m \in Messages : fate'[m] = "deleted" => fate[m] = "deleted" \/ Stored(m),
           \A c \in Consumers : batch'[c] = batch[c] \/ batch'[c] = NoBatch,
           batch' \in [Consumers -> Batch],
           UNCHANGED <<now, received, bucket>>
    PROVE  DequeueInv'
<1>1. TypeOK'
  BY DEF DequeueInv, TypeOK
<1>2. \A m : Stored(m)' <=> Stored(m)
  BY DEF Stored
<1>3. BatchAccounted'
  BY <1>2 DEF DequeueInv, BatchAccounted, NoBatch
<1>4. InFlight' \subseteq InFlight /\ InFlight \subseteq Messages
  BY DEF InFlight, NoBatch, DequeueInv, TypeOK, Batch
<1>5. OnlySent'
  BY <1>4 DEF DequeueInv, OnlySent, TypeOK, Object
<1>6. KeyNamesBody' /\ DoneIsStored'
  BY <1>2 DEF DequeueInv, KeyNamesBody, DoneIsStored
<1> QED
  BY <1>1, <1>3, <1>5, <1>6 DEF DequeueInv

\* What is deleted as done was stored: the records a batch does not report.
LEMMA ReturnedAreStored ==
    ASSUME DequeueInv, NEW c \in Consumers, ReturnFailures(c)
    PROVE  \A m \in batch[c].records \ batch[c].failed : Stored(m)
BY BatchFacts DEF ReturnFailures

LEMMA ReturnFailuresKeeps ==
    ASSUME DequeueInv, NEW c \in Consumers, ReturnFailures(c)
    PROVE  DequeueInv'
<1>1. NoBatch \in Batch
  BY NoBatchIsGood DEF GoodBatch
<1>2. fate' \in [Messages -> Fates]
  BY DEF ReturnFailures, DequeueInv, TypeOK, Fates
<1>3. \A m \in Messages : fate'[m] = fate[m]
        \/ (m \in batch[c].records \ batch[c].failed /\ fate'[m] = "deleted")
  BY DEF ReturnFailures
<1>4. /\ batch' \in [Consumers -> Batch]
      /\ \A d \in Consumers : batch'[d] = batch[d] \/ batch'[d] = NoBatch
      /\ UNCHANGED <<now, received, bucket>>
  BY <1>1 DEF ReturnFailures, DequeueInv, TypeOK
<1> QED
  BY <1>2, <1>3, <1>4, ReturnedAreStored, FateKeeps

LEMMA QueueKeeps ==
    ASSUME DequeueInv, NEW m \in Messages, SendMessage(m) \/ RedriveMessage(m)
    PROVE  DequeueInv'
<1>1. /\ fate' \in [Messages -> Fates]
      /\ \A n \in Messages : fate'[n] = fate[n] \/ fate'[n] \in {"queued", "dead"}
      /\ UNCHANGED <<now, received, batch, bucket>>
  BY DEF SendMessage, RedriveMessage, DequeueInv, TypeOK, Fates
<1>2. batch' \in [Consumers -> Batch]
  BY <1>1 DEF DequeueInv, TypeOK
<1> QED
  BY <1>1, <1>2, FateKeeps

LEMMA TickKeeps == DequeueInv /\ Tick => DequeueInv'
BY DEF Tick, queueVars, DequeueInv, TypeOK, BatchAccounted, KeyNamesBody, OnlySent, InFlight,
       DoneIsStored, Stored

LEMMA NextDequeue == DequeueInv /\ [Next]_vars => DequeueInv'
<1> SUFFICES ASSUME DequeueInv, [Next]_vars PROVE DequeueInv'
  OBVIOUS
<1>1. ASSUME NEW c \in Consumers, HandlerStep(c) PROVE DequeueInv'
  <2>1. ASSUME NEW m \in Messages, ThrowOnRecord(c, m) PROVE DequeueInv'
    BY <2>1, ThrowOrCrashKeeps DEF ThrowOnRecord
  <2> QED
    BY <1>1, <2>1, StoreRecordKeeps, ReturnFailuresKeeps DEF HandlerStep
<1>2. ASSUME NEW c \in Consumers, Crash(c) PROVE DequeueInv'
  BY <1>2, ThrowOrCrashKeeps DEF Crash
<1>3. ASSUME NEW c \in Consumers, Receive(c) PROVE DequeueInv'
  BY <1>3, ReceiveKeeps DEF Receive
<1>4. CASE UNCHANGED vars
  BY <1>4 DEF vars, queueVars, DequeueInv, TypeOK, BatchAccounted, KeyNamesBody, OnlySent,
              InFlight, DoneIsStored, Stored
<1> QED
  BY <1>1, <1>2, <1>3, <1>4, QueueKeeps, TickKeeps DEF Next

\* Every reachable state satisfies the invariant: batches account for their records, and
\* objects and messages for each other.
THEOREM DequeueInvariantHolds == Spec => []DequeueInv
<1> QED
  BY InitDequeue, NextDequeue, PTL DEF Spec

\* No event leaves the queue as done that is not in the bucket (the put before the
\* report, and keys that no other message's object has).
THEOREM DoneEventsAreStored == Spec => []DoneIsStored
<1>1. DequeueInv => DoneIsStored
  BY DEF DequeueInv
<1> QED
  BY <1>1, DequeueInvariantHolds, PTL
-----------------------------------------------------------------------------
(* The refinement.                                                         *)

archivedBar == {m \in Messages : Stored(m)}

LEMMA InitMaps == Init => Archive!Init
BY DEF Init, Archive!Init, Stored

LEMMA HandlerMaps ==
    ASSUME DequeueInv, NEW c \in Consumers, HandlerStep(c)
    PROVE  [Archive!Next]_Archive!archiveVars
<1>1. ASSUME NEW m \in Messages, StoreRecord(c, m) PROVE [Archive!Next]_Archive!archiveVars
  <2>1. m \in Messages \ Malformed /\ fate[m] # "unsent" /\ UNCHANGED fate
    BY <1>1, BatchFacts DEF StoreRecord, queueVars
  <2>2. CASE PutObject(m)
    <3>1. archivedBar' = archivedBar \cup {m}
      BY <2>1, <2>2, PutStores DEF archivedBar
    <3>2. Archive!Archive(m)
      BY <2>1, <3>1 DEF Archive!Archive, archivedBar
    <3> QED
      BY <3>2 DEF Archive!Next
  <2>3. CASE UNCHANGED bucket
    BY <2>1, <2>3 DEF Archive!archiveVars, Stored
  <2> QED
    BY <1>1, <2>2, <2>3 DEF StoreRecord
<1>2. ASSUME NEW m \in Messages, ThrowOnRecord(c, m) PROVE UNCHANGED Archive!archiveVars
  BY <1>2 DEF ThrowOnRecord, queueVars, Archive!archiveVars, Stored
<1>3. CASE ReturnFailures(c)
  <2> DEFINE done == batch[c].records \ batch[c].failed
  <2>1. done \in SUBSET Messages /\ done \subseteq archivedBar
    BY <1>3, ReturnedAreStored, BatchFacts DEF archivedBar
  <2>2. Archive!Finish(done)
    BY <1>3, <2>1 DEF ReturnFailures, Archive!Finish, archivedBar, Stored
  <2> QED
    BY <2>1, <2>2 DEF Archive!Next
<1> QED
  BY <1>1, <1>2, <1>3 DEF HandlerStep

LEMMA QueueMaps ==
    ASSUME NEW m \in Messages, SendMessage(m) \/ RedriveMessage(m)
    PROVE  Archive!Next
<1>1. SendMessage(m) => Archive!Send(m)
  BY DEF SendMessage, Archive!Send, Stored
<1>2. RedriveMessage(m) => Archive!SetAside(m)
  BY DEF RedriveMessage, Archive!SetAside, Stored
<1> QED
  BY <1>1, <1>2 DEF Archive!Next

LEMMA StepMaps == DequeueInv /\ [Next]_vars => [Archive!Next]_Archive!archiveVars
<1>1. UNCHANGED <<fate, bucket>> => UNCHANGED Archive!archiveVars
  BY DEF Archive!archiveVars, Stored
<1>2. ASSUME NEW c \in Consumers, Crash(c) \/ Receive(c) PROVE UNCHANGED <<fate, bucket>>
  BY <1>2 DEF Crash, Receive, ReceiveMessages, queueVars
<1>3. Tick \/ UNCHANGED vars => UNCHANGED <<fate, bucket>>
  BY DEF Tick, vars, queueVars
<1> QED
  BY <1>1, <1>2, <1>3, HandlerMaps, QueueMaps DEF Next

\* The handler and the queue implement what the harness promises of each event, for any
\* number of messages, sessions and invocations.
THEOREM ArchiveImplemented == Spec => ImplementsArchive
<1> QED
  BY InitMaps, StepMaps, DequeueInvariantHolds, PTL DEF Spec, ImplementsArchive, Archive!Spec
=============================================================================
