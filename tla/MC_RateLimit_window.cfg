SPECIFICATION Spec
CONSTANTS
    Requests = {r1, r2, r3, r4}
    Points = 1
    Duration = 2
    BlockDuration = 3
    MaxTime = 6
    MaxFaults = 1
INVARIANTS
    LimitInv
    TwoBudgetsAtMost
    BlockStands
    OverLimitBlocks
    RefusedForReason
    ShutOutLasts
CHECK_DEADLOCK FALSE
