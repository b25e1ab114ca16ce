SPECIFICATION Spec
CONSTANTS
    alice = alice
    weth = weth
    usdc = usdc
    Orders = {o1, o2}
    Tokens = {weth, usdc}
    Accounts = {alice}
    Owner <- AliceOwns
    Pairs <- OneWay
    MaxAmount = 2
    MaxOvertaken = 1
INVARIANTS
    BookInv
    NothingHidden
    OffersGood
    BestPriceFirst
    BookShowsOpen
    RestoredLikeLive
SYMMETRY Symmetry
CHECK_DEADLOCK FALSE
