SPECIFICATION FairRestoreSpec
CONSTANTS
    alice = alice
    o1 = o1
    o2 = o2
    Users = {alice}
    Owner <- OneOwner
    RetryLimit = 3
    StageRetries = 2
    Orders = {o1}
    Amount = 2
    RegisteredUsers = {}
    MaxFaults = 1
    MaxCrashes = 1
    Paced = {}
    ZeroId = {}
INVARIANTS
    MatchRecorded
    CancelKept
    Covered
    RestoreInv
PROPERTIES
    ViewSpec
    RestoreEnds
CHECK_DEADLOCK FALSE
