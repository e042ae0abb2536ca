-------------------------- MODULE MCDequeueHandler --------------------------
EXTENDS DequeueHandler

CONSTANTS m1, m2, m3, c1, c2, s1

MCSessionOf == [m \in Messages \ Malformed |-> s1]
=============================================================================
