SPECIFICATION RestoreSpec
CONSTANTS
    alice = alice
    o1 = o1
    o2 = o2
    Users = {alice}
    Owner <- OneOwner
    Orders = {o1, o2}
    Amount = 1
    RegisteredUsers = {alice}
    RetryLimit = 3
    MaxFaults = 0
    MaxCrashes = 0
    Paced = {}
    ZeroId = {}
    StageRetries = 2
INVARIANTS
    UpToDateIsTrue
CHECK_DEADLOCK FALSE
