SPECIFICATION RestoreSpec
CONSTANTS
    alice = alice
    o1 = o1
    o2 = o2
    Users = {alice}
    Owner <- OneOwner
    RetryLimit = 3
    StageRetries = 2
    Orders = {o1, o2}
    Amount = 2
    RegisteredUsers = {alice}
    MaxFaults = 0
    MaxCrashes = 0
    Paced = {o1,o2}
    ZeroId = {o2}
INVARIANTS
    CatchUpInv
    CancelsApplied
    RestoredNotBehind
CHECK_DEADLOCK FALSE
