SPECIFICATION Spec
CONSTANTS
    LastKey = 2
    PageSize = 2
    MaxWrites = 4
    MaxEvents = 3
CHECK_DEADLOCK FALSE
INVARIANTS SuccessIsEarned DeleteInv
