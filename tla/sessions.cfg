SPECIFICATION Spec
CONSTANTS
    Sessions = {s1, s2}
    Codes = {k1, k2}
    NoCode = NoCode
    Claims = {c1}
    SharedClaim = SharedClaim
    NoClaim = NoClaim
    SessionTtl = 0
    TokenTtl = 0
    MaxTime = 0
    MaxLag = 3
    StaleReads = FALSE
    Invocations = {i1}
    NoSession = NoSession
INVARIANTS IInv
