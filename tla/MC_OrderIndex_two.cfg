SPECIFICATION Spec
CONSTANTS
    alice = alice
    o1 = o1
    o2 = o2
    Users = {alice}
    Owner <- OneOwner
    RetryLimit = 3
    Orders = {o1, o2}
    Amount = 2
    RegisteredUsers = {}
    MaxFaults = 1
    MaxCrashes = 0
    Paced = {o1}
INVARIANTS
    FillHasWriter
    SelfHealing
    IInv
CHECK_DEADLOCK FALSE
