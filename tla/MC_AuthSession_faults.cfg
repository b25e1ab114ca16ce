SPECIFICATION Spec
CONSTANTS
    alice = alice
    phone = phone
    laptop = laptop
    None = None
    Users = {alice}
    Browsers = {phone}
    Account <- OneAccount
    Requests = {1, 2, 3, 4}
    Traders = {alice}
    OneAtATime = FALSE
    MaxFaults = 1
    MaxExpiries = 1
INVARIANTS
    AuthInv
    NonceSpent
    CookieBacked
    UserAlwaysFound
PROPERTIES
    LedgerSpec
CHECK_DEADLOCK FALSE
