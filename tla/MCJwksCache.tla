---------------------------- MODULE MCJwksCache ----------------------------
EXTENDS JwksCache, TLC

Symmetry == Permutations(Keys)
=============================================================================
