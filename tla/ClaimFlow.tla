------------------------------ MODULE ClaimFlow ------------------------------
(***************************************************************************)
(* What the credential issuer promises, without tables, endpoints or       *)
(* failures: for each session a claim is recorded, a code is stored on the *)
(* strength of a claim, a token granted on the strength of a code, and a   *)
(* credential issued that states a recorded claim to a token holder.  What *)
(* was granted is never taken back, and a code belongs to one session.     *)
(***************************************************************************)
CONSTANTS Sessions, Claims, Codes

VARIABLES
    recorded,     \* <<s, c>>: claim c was recorded for session s
    coded,        \* <<s, k>>: code k was issued for session s
    holders,      \* the sessions for which somebody holds an access token
    credentials   \* <<s, c>>: a credential for session s that states claim c

vars == <<recorded, coded, holders, credentials>>

Init ==
    /\ recorded = {}
    /\ coded = {}
    /\ holders = {}
    /\ credentials = {}

RecordClaim(s, c) ==
    /\ recorded' = recorded \cup {<<s, c>>}
    /\ UNCHANGED <<coded, holders, credentials>>

IssueCode(s, k) ==
    /\ \E c \in Claims : <<s, c>> \in recorded
    /\ \A t \in Sessions : <<t, k>> \notin coded
    /\ coded' = coded \cup {<<s, k>>}
    /\ UNCHANGED <<recorded, holders, credentials>>

GrantToken(s) ==
    /\ \E k \in Codes : <<s, k>> \in coded
    /\ holders' = holders \cup {s}
    /\ UNCHANGED <<recorded, coded, credentials>>

IssueCredential(s, c) ==
    /\ s \in holders
    /\ <<s, c>> \in recorded
    /\ credentials' = credentials \cup {<<s, c>>}
    /\ UNCHANGED <<recorded, coded, holders>>

Next ==
    \/ \E s \in Sessions, c \in Claims : RecordClaim(s, c) \/ IssueCredential(s, c)
    \/ \E s \in Sessions, k \in Codes : IssueCode(s, k)
    \/ \E s \in Sessions : GrantToken(s)

Spec == Init /\ [][Next]_vars
=============================================================================
