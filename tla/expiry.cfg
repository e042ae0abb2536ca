SPECIFICATION Spec
CONSTANTS
    Sessions = {s1}
    Codes = {k1}
    NoCode = NoCode
    Claims = {c1}
    SharedClaim = SharedClaim
    NoClaim = NoClaim
    SessionTtl = 1
    TokenTtl = 1
    MaxTime = 2
    MaxLag = 3
    StaleReads = FALSE
    Invocations = {i1, i2}
    NoSession = NoSession
SYMMETRY Symmetry
INVARIANTS TypeOK IInv
PROPERTIES ClosedStays RecreatedIsDeadEnd
