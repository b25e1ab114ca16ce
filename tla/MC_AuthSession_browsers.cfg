SPECIFICATION FairSpec
CONSTANTS
    alice = alice
    phone = phone
    laptop = laptop
    None = None
    Users = {alice}
    Browsers = {phone, laptop}
    Account <- OneAccount
    Requests = {1, 2, 3, 4, 5, 6}
    Traders = {alice}
    OneAtATime = TRUE
    MaxFaults = 0
    MaxExpiries = 0
INVARIANTS
    LogoutStands
PROPERTIES
    RequestsEnd
    LoginWorks
CHECK_DEADLOCK FALSE
