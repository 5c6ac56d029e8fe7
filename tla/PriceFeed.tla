----------------------------- MODULE PriceFeed -----------------------------
(***************************************************************************)
(* backend/services/price_feed.py: prices of cryptocurrencies and stocks   *)
(* behind a cache, asked for by any thread of the backend.  A crypto       *)
(* request takes no lock.  A stock request holds _stock_lock from before   *)
(* the sleep that keeps Alpha Vantage's interval until its answer is       *)
(* cached; the thread looked at the cache before it waited for the lock    *)
(* and does not look again.                                                *)
(*                                                                         *)
(* A price is known by the time it was quoted, a fallback price by not     *)
(* being live.  Steps are cut at the requests, the sleep and the lock.     *)
(***************************************************************************)
EXTENDS Integers

CONSTANTS
    Threads,       \* request threads and the scheduler
    NoThread,      \* the lock's owner when it is free
    Cryptos,       \* ids at CoinGecko
    Stocks,        \* symbols at Alpha Vantage
    CacheSeconds,  \* PRICE_CACHE_SECONDS
    MinInterval,   \* ALPHA_VANTAGE_MIN_INTERVAL_SECONDS
    MaxLatency,    \* bound: from the quoting of a price to its storing
    MaxTime        \* bound: the clock when stocks are asked for

Keys == Cryptos \cup Stocks

ASSUME PriceFeedAssumption ==
    /\ NoThread \notin Threads
    /\ Cryptos \cap Stocks = {}
    /\ CacheSeconds \in Nat
    /\ MinInterval \in Nat
    /\ MaxLatency \in Nat
    /\ MaxTime \in Nat

VARIABLES
    cache,        \* _price_cache
    last_call,    \* _last_stock_call
    lock,         \* the owner of _stock_lock
    alpha_key,    \* whether ALPHA_KEY is set
    now,          \* time.time()
    pc,           \* pc[t]: where thread t stands
    loc,          \* loc[t]: its local variables
    served,       \* the last price any caller was given, and when; read by no code
    last_answer   \* when Alpha Vantage answered last; read by no code

vars == <<cache, last_call, lock, alpha_key, now, pc, loc, served, last_answer>>

\* An entry that was never written is like one that has long expired.
LongAgo == 0 - (CacheSeconds + MinInterval + 1)
Times == LongAgo..now
Entries == [live : BOOLEAN, at : Times, fetched_at : Times]
NoEntry == [live |-> FALSE, at |-> LongAgo, fetched_at |-> LongAgo]

Labels == {"idle", "waiting", "sleeping", "asking", "answered"}
Locals == [key : Keys, wake : 0..now + MinInterval, at : 0..now]

Quote(at) == [live |-> TRUE, at |-> at, fetched_at |-> now]
Fallback == [live |-> FALSE, at |-> now, fetched_at |-> now]

Init ==
    /\ cache = [k \in Keys |-> NoEntry]
    /\ last_call = LongAgo
    /\ lock = NoThread
    /\ alpha_key \in BOOLEAN
    /\ now = 0
    /\ pc = [t \in Threads |-> "idle"]
    /\ \E k \in Keys : loc = [t \in Threads |-> [key |-> k, wake |-> 0, at |-> 0]]
    /\ served = [entry |-> NoEntry, when |-> 0]
    /\ last_answer = LongAgo

----------------------------------------------------------------------------
(* The cache *)

\* _cached_get: an entry older than PRICE_CACHE_SECONDS counts for nothing.
Fresh(k) == now - cache[k].fetched_at <= CacheSeconds

\* What the caller is given.
Serve(e) == served' = [entry |-> e, when |-> now]

\* _cached_set, and the return of what was cached.
CachedSet(k, e) == cache' = [cache EXCEPT ![k] = e] /\ Serve(e)

----------------------------------------------------------------------------
(* get_live_price until the request *)

\* Without a key stocks have their fallback prices, cached or not.
Keyless(k) == k \in Stocks /\ ~alpha_key

\* Mutant: an entry that is used is renewed.
HitRenewed(t, k) ==
    /\ pc[t] = "idle"
    /\ ~Keyless(k)
    /\ Fresh(k)
    /\ CachedSet(k, [cache[k] EXCEPT !.fetched_at = now])
    /\ UNCHANGED <<last_call, lock, alpha_key, now, pc, loc, last_answer>>

Hit(t, k) ==
    /\ pc[t] = "idle"
    /\ ~Keyless(k)
    /\ Fresh(k)
    /\ Serve(cache[k])
    /\ UNCHANGED <<cache, last_call, lock, alpha_key, now, pc, loc, last_answer>>

KeylessPrice(t, k) ==
    /\ pc[t] = "idle"
    /\ Keyless(k)
    /\ CachedSet(k, Fallback)
    /\ UNCHANGED <<last_call, lock, alpha_key, now, pc, loc, last_answer>>

\* The request for a crypto price goes out, that for a stock's waits for the lock.
Miss(t, k) ==
    /\ pc[t] = "idle"
    /\ k \in Stocks => now < MaxTime
    /\ ~Keyless(k)
    /\ ~Fresh(k)
    /\ pc' = [pc EXCEPT ![t] = IF k \in Stocks THEN "waiting" ELSE "asking"]
    /\ loc' = [loc EXCEPT ![t].key = k]
    /\ UNCHANGED <<cache, last_call, lock, alpha_key, now, served, last_answer>>

\* delay, and what time.sleep does with it.
WakeAt == IF now < last_call + MinInterval THEN last_call + MinInterval ELSE now

\* Mutant: the lock is not taken.
AcquireUnlocked(t) ==
    /\ pc[t] = "waiting"
    /\ pc' = [pc EXCEPT ![t] = "sleeping"]
    /\ loc' = [loc EXCEPT ![t].wake = WakeAt]
    /\ UNCHANGED <<cache, last_call, lock, alpha_key, now, served, last_answer>>

Acquire(t) ==
    /\ pc[t] = "waiting"
    /\ lock = NoThread
    /\ lock' = t
    /\ pc' = [pc EXCEPT ![t] = "sleeping"]
    /\ loc' = [loc EXCEPT ![t].wake = WakeAt]
    /\ UNCHANGED <<cache, last_call, alpha_key, now, served, last_answer>>

Send(t) ==
    /\ pc[t] = "sleeping"
    /\ loc[t].wake <= now
    /\ pc' = [pc EXCEPT ![t] = "asking"]
    /\ loc' = [loc EXCEPT ![t].wake = 0]
    /\ UNCHANGED <<cache, last_call, lock, alpha_key, now, served, last_answer>>

----------------------------------------------------------------------------
(* The answer, which may be any *)

AsksStock(t) == loc[t].key \in Stocks

\* The service quotes a price, or refuses; the answer is on its way.
Respond(t) ==
    /\ pc[t] = "asking"
    /\ pc' = [pc EXCEPT ![t] = "answered"]
    /\ loc' = [loc EXCEPT ![t].at = now]
    /\ last_answer' = IF AsksStock(t) THEN now ELSE last_answer
    /\ UNCHANGED <<cache, last_call, lock, alpha_key, now, served>>

\* Leaving the with block.
Release(t) == lock' = IF lock = t THEN NoThread ELSE lock

\* Mutant: the time is recorded at which the next call may leave.
AnsweredInAdvance(t) == last_call' = IF AsksStock(t) THEN now + MinInterval ELSE last_call

\* _last_stock_call is set as soon as there is an answer, whatever it says.
Answered(t) == last_call' = IF AsksStock(t) THEN now ELSE last_call

\* Back in the caller.
Leave(t) == pc' = [pc EXCEPT ![t] = "idle"] /\ loc' = [loc EXCEPT ![t].at = 0]

\* The price is there.
StoreQuote(t) ==
    /\ pc[t] = "answered"
    /\ CachedSet(loc[t].key, Quote(loc[t].at))
    /\ Answered(t)
    /\ Release(t)
    /\ Leave(t)
    /\ UNCHANGED <<alpha_key, now, last_answer>>

\* Mutant: a refused call is not counted.
StoreFallbackUncounted(t) ==
    /\ pc[t] = "answered"
    /\ CachedSet(loc[t].key, Fallback)
    /\ Release(t)
    /\ Leave(t)
    /\ UNCHANGED <<last_call, alpha_key, now, last_answer>>

\* 429, another error status, or an answer without a quote.
StoreFallback(t) ==
    /\ pc[t] = "answered"
    /\ CachedSet(loc[t].key, Fallback)
    /\ Answered(t)
    /\ Release(t)
    /\ Leave(t)
    /\ UNCHANGED <<alpha_key, now, last_answer>>

\* Mutant: the exception leaves the lock taken.
BadQuoteKeepsLock(t) ==
    /\ pc[t] = "answered"
    /\ Answered(t)
    /\ Leave(t)
    /\ UNCHANGED <<cache, lock, alpha_key, now, served, last_answer>>

\* No USD price, or one that is no number: a ValueError for the caller.
BadQuote(t) ==
    /\ pc[t] = "answered"
    /\ Answered(t)
    /\ Release(t)
    /\ Leave(t)
    /\ UNCHANGED <<cache, alpha_key, now, served, last_answer>>

\* A RequestException without an answer: such a call is not counted.
NoAnswer(t) ==
    /\ pc[t] = "asking"
    /\ CachedSet(loc[t].key, Fallback)
    /\ Release(t)
    /\ pc' = [pc EXCEPT ![t] = "idle"]
    /\ UNCHANGED <<last_call, alpha_key, now, loc, last_answer>>

\* Time passes; an answer does not stay under way for longer than MaxLatency.
Tick ==
    /\ now < MaxTime \/ \E t \in Threads : pc[t] = "sleeping" /\ now < loc[t].wake
    /\ \A t \in Threads : pc[t] = "answered" => now < loc[t].at + MaxLatency
    /\ now' = now + 1
    /\ UNCHANGED <<cache, last_call, lock, alpha_key, pc, loc, served, last_answer>>

Ends(t) ==
    \/ StoreQuote(t) \/ StoreFallback(t) \/ BadQuote(t) \/ NoAnswer(t)

Next ==
    \/ \E t \in Threads : \/ \E k \in Keys : Hit(t, k) \/ KeylessPrice(t, k) \/ Miss(t, k)
                          \/ Acquire(t) \/ Send(t) \/ Respond(t) \/ Ends(t)
    \/ Tick

Spec == Init /\ [][Next]_vars

\* A thread that can run will, a request ends (it is given a timeout), time passes.
\* Nothing is asked of the callers, nor of the order in which a free lock is taken.
FairSpec ==
    /\ Spec
    /\ WF_vars(Tick)
    /\ \A t \in Threads : WF_vars(Send(t)) /\ WF_vars(Respond(t) \/ Ends(t))

----------------------------------------------------------------------------
(* Properties *)

\* The variables have their types: no price, call or answer is dated later than now.
TypeOK ==
    /\ cache \in [Keys -> Entries]
    /\ last_call \in Times
    /\ lock \in Threads \cup {NoThread}
    /\ alpha_key \in BOOLEAN
    /\ now \in Nat
    /\ pc \in [Threads -> Labels]
    /\ loc \in [Threads -> Locals]
    /\ served \in [entry : Entries, when : 0..now]
    /\ last_answer \in Times

\* A live price that decides a market was quoted at most the cache's time to live and one
\* answer's latency before, although a slow thread may store an older price over a newer
\* one (get_crypto_price takes no lock).
ServedPriceIsRecent ==
    served.entry.live => served.when - served.entry.at <= CacheSeconds + MaxLatency

\* The lock keeps the answers of Alpha Vantage in order: a cached stock price is never
\* replaced by one quoted before it.
StockPricesMoveForward ==
    [][\A s \in Stocks : cache[s].live /\ cache'[s].live => cache'[s].at >= cache[s].at]_vars

\* get_stock_price keeps to the interval Alpha Vantage allows: a request leaves at least
\* MinInterval after the last answer, while no other is under way, however many threads
\* wait. (A request without an answer is not counted.)
StockCallsSpaced ==
    [][\A t \in Threads :
         pc[t] = "sleeping" /\ pc'[t] = "asking" =>
           /\ now >= last_answer + MinInterval
           /\ \A u \in Threads \ {t} : AsksStock(u) => pc[u] \notin {"asking", "answered"}]_vars

\* Whatever becomes of a request, the thread that holds _stock_lock gives it back, so no
\* caller waits behind a request that has ended.
StockLockReleased ==
    \A t \in Threads : lock = t ~> lock # t
=============================================================================
