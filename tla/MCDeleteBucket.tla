-------------------------- MODULE MCDeleteBucket ---------------------------
EXTENDS DeleteBucket
=============================================================================
