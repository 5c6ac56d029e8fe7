SPECIFICATION Spec
CONSTANTS
    b1 = b1
    b2 = b2
    app1 = app1
    app2 = app2
    None = None
    Bettors = {b1, b2}
    AppIds = {app1, app2}
    SqrtScale = 1
    FeeBps = 200
    BpsBase = 10000
    MaxUInt64 = 1000000
    SeedPool = 50
    MinBet = 100
    MinBalance = 10
    Funding = 100
    Amounts = {99, 100, 900}
    ResolutionPrice = 5
    FinalPrices = {4, 5}
    ExpiryTs = 1
    MaxBets = 3
    MaxTime = 1
INVARIANT TypeOK
INVARIANT SameTermsForAll
PROPERTY PaidOnce
PROPERTY ImplementsBettingMarket
