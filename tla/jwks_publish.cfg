SPECIFICATION FairSpec
CONSTANTS
    k1 = k1
    k2 = k2
    k3 = k3
    r1 = r1
    r2 = r2
    Keys = {k1, k2, k3}
    Supported = {k1, k2}
    Runs = {r1, r2}
    MaxFaults = 2
    MaxDeploys = 1
INVARIANTS PublishInv ReportedIsPublished
PROPERTIES KeptUpToDate
