------------------------------ MODULE MCCicApi ------------------------------
EXTENDS CicApiInvariant, TLC

Symmetry == Permutations(Invocations) \cup Permutations(Codes)
=============================================================================
