SPECIFICATION Spec
CONSTANTS
    m1 = m1
    m2 = m2
    a1 = a1
    t1 = t1
    t2 = t2
    Human = Human
    Scheduler = Scheduler
    None = None
    Agents = {a1}
    FeeBps = 200
    BpsBase = 10000
    Grain = 2
    Markets = {m1}
    SportsMarkets = {}
    FlakyMarkets = {}
    HttpThreads = {t1, t2}
    ManualResolvers = {}
    Amounts = {1, 100}
    Overrides = {"YES", "NO"}
    MaxBets = 2
    MaxTime = 1
PROPERTY BetsOnlyWhileOpen
SYMMETRY ThreadSymmetry
