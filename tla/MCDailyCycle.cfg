SPECIFICATION FairSpec
CONSTANTS
    btc = btc
    cup = cup
    a1 = a1
    web1 = web1
    None = None
    Scheduler = Scheduler
    Assets <- TwoAssets
    FlakyAssets = {btc}
    Agents = {a1}
    Interests <- BothAssets
    HttpThreads = {web1}
    MaxRequests = 1
    MaxResolved = 0
    MaxDay = 1
PROPERTY CompletedRunCoversAllAssets
PROPERTY EveryDayCoveredOrReported
