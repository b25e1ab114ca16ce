SPECIFICATION FairSpec
CONSTANTS
    weth = weth
    usdc = usdc
    restore1 = restore1
    restore2 = restore2
    handler1 = handler1
    handler2 = handler2
    Callers = {restore1, restore2, handler1, handler2}
    Tokens = {weth, usdc}
    Address <- Addresses
    Attempts <- Retries
    MaxFaults = 4
INVARIANTS
    CacheInv
PROPERTIES
    SavedByOthers
    CallersEnd
CHECK_DEADLOCK FALSE
