---------------------------- MODULE EventArchive ----------------------------
(***************************************************************************)
(* What the test harness promises about the events on the TxMA queue (see  *)
(* test-harness/README.md): each is put in the bucket before it is taken   *)
(* off the queue, or else is set aside for a person to look at; and        *)
(* neither takes forever.                                                  *)
(***************************************************************************)
CONSTANTS Messages

VARIABLES
    archived,  \* the messages that have an object in the bucket
    fate       \* by message: still pending, done with, or set aside

archiveVars == <<archived, fate>>

Archive(m) ==
    /\ fate[m] # "unsent"
    /\ archived' = archived \cup {m}
    /\ UNCHANGED fate

Send(m) ==
    /\ fate[m] = "unsent"
    /\ fate' = [fate EXCEPT ![m] = "queued"]
    /\ UNCHANGED archived

Finish(done) ==
    /\ done \subseteq archived
    /\ fate' = [m \in Messages |->
                  IF m \in done /\ fate[m] = "queued" THEN "deleted" ELSE fate[m]]
    /\ UNCHANGED archived

SetAside(m) ==
    /\ fate[m] = "queued"
    /\ fate' = [fate EXCEPT ![m] = "dead"]
    /\ UNCHANGED archived

Init ==
    /\ archived = {}
    /\ fate = [m \in Messages |-> "unsent"]

Next ==
    \/ \E m \in Messages : Send(m) \/ Archive(m) \/ SetAside(m)
    \/ \E done \in SUBSET Messages : Finish(done)

Spec == Init /\ [][Next]_archiveVars

\* Every event leaves the queue in the end.
Settled(m) == fate[m] = "queued" ~> fate[m] \in {"deleted", "dead"}
=============================================================================
