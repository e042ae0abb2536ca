--------------------------- MODULE MCKeyRotation ---------------------------
EXTENDS KeyRotation, TLC

Symmetry == Permutations(Keys \ {LegacyKey})
=============================================================================
