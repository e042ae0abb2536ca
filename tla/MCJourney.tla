----------------------------- MODULE MCJourney -----------------------------
EXTENDS Journey
=============================================================================
