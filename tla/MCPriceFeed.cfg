SPECIFICATION FairSpec
CONSTANTS
    t1 = t1
    t2 = t2
    coin = coin
    stock = stock
    NoThread = NoThread
    Threads = {t1, t2}
    Cryptos = {coin}
    Stocks = {stock}
    CacheSeconds = 2
    MinInterval = 2
    MaxLatency = 1
    MaxTime = 4
INVARIANT TypeOK
INVARIANT ServedPriceIsRecent
PROPERTY StockPricesMoveForward
PROPERTY StockCallsSpaced
PROPERTY StockLockReleased
