SPECIFICATION FairSpec
CONSTANTS
    alice = alice
    o1 = o1
    o2 = o2
    Users = {alice}
    Owner <- OneOwner
    RetryLimit = 3
    Orders = {o1}
    Amount = 3
    RegisteredUsers = {alice}
    MaxFaults = 1
    MaxCrashes = 1
    Paced = {}
INVARIANTS
    IInv
    NeverGivesUp
PROPERTIES
    ViewSpec
    HandlersEnd
    OrderListed
CHECK_DEADLOCK FALSE
