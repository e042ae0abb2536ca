SPECIFICATION Spec
CONSTANTS
    Keys = {k1, k2}
    NoKid = NoKid
    Adapters = {a1}
    MaxAges = {0, 1, NoMaxAge}
    NoMaxAge = NoMaxAge
    DefaultMaxAge = 2
    LongestCaching = 2
    Timeout = 1
    MaxTime = 5
SYMMETRY Symmetry
INVARIANTS RetiredKeyDies PublishedKeyFound JwksInv
