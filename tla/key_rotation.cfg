SPECIFICATION Spec
CONSTANTS
    AliasCount = 2
    Keys = {k0, k1}
    LegacyKey = k0
    ForeignKey = ForeignKey
    Stubs = {s1}
    Calls = {c1}
    Lifetime = 1
    Timeout = 1
    MaxTime = 3

INVARIANTS HeldKeyFound LiveRequestDecrypts KeyInv
