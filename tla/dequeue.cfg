SPECIFICATION FairSpec
CONSTANTS
    m1 = m1
    m2 = m2
    m3 = m3
    c1 = c1
    c2 = c2
    s1 = s1
    Messages = {m1, m2, m3}
    Malformed = {m3}
    Sessions = {s1}
    SessionOf <- MCSessionOf
    Consumers = {c1, c2}
    BatchSize = 2
    MaxReceiveCount = 2
    MaxTime = 1
CHECK_DEADLOCK FALSE
INVARIANTS DoneIsStored DequeueInv
PROPERTIES ImplementsArchive EveryEventSettles
