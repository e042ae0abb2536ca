SPECIFICATION FairJourney
CONSTANTS
    Sessions = {s1}
    Codes = {k1, k2, k3}
    NoCode = NoCode
    Claims = {c1}
    SharedClaim = SharedClaim
    NoClaim = NoClaim
    SessionTtl = 0
    TokenTtl = 0
    MaxTime = 0
    MaxLag = 9
    StaleReads = FALSE
    Invocations = {i1, i2}
    NoSession = NoSession
    NoInvocation = NoInvocation
    MaxLate = 1
CHECK_DEADLOCK FALSE
INVARIANTS JourneyInv RefusedOnlyWhenOver
PROPERTIES RepeatingLeadsToCode
