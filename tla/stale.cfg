SPECIFICATION Spec
CONSTANTS
    Sessions = {s1}
    Codes = {k1}
    NoCode = NoCode
    Claims = {c1}
    SharedClaim = SharedClaim
    NoClaim = NoClaim
    SessionTtl = 0
    TokenTtl = 0
    MaxTime = 0
    MaxLag = 2
    StaleReads = TRUE
    Invocations = {i1, i2}
    NoSession = NoSession
SYMMETRY Symmetry
INVARIANTS IInv
PROPERTIES ClosedStays SpentStays ClaimSettles
