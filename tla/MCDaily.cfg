SPECIFICATION Spec
CONSTANTS
    btc = btc
    cup = cup
    a1 = a1
    web1 = web1
    None = None
    Scheduler = Scheduler
    Assets <- TwoAssets
    FlakyAssets = {btc}
    Agents = {a1}
    Interests <- BothOrNone
    HttpThreads = {web1}
    MaxRequests = 2
    MaxResolved = 1
    MaxDay = 0
INVARIANT TypeOK
INVARIANT NoThreadCreatesTwice
