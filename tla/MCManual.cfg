SPECIFICATION Spec
CONSTANTS
    m1 = m1
    m2 = m2
    a1 = a1
    t1 = t1
    t2 = t2
    Human = Human
    Scheduler = Scheduler
    None = None
    Agents = {}
    FeeBps = 200
    BpsBase = 10000
    Grain = 2
    Markets = {m1}
    SportsMarkets = {}
    FlakyMarkets = {m1}
    HttpThreads = {t1, t2}
    ManualResolvers = {t1}
    Amounts = {1, 100}
    Overrides = {"YES", "NO"}
    MaxBets = 2
    MaxTime = 1
INVARIANT TypeOK
INVARIANT PoolsCountBets
INVARIANT SettledPrefix
INVARIANT SettledOnlyIfResolved
INVARIANT WinnersKeepTheirStake
