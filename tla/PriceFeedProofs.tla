--------------------------- MODULE PriceFeedProofs ---------------------------
(* What holds of PriceFeed for every value of its constants. *)
EXTENDS PriceFeed, TLAPS

\* Where a thread has _stock_lock.
InLock(t) == \/ pc[t] = "sleeping"
             \/ pc[t] \in {"asking", "answered"} /\ AsksStock(t)

\* The lock's owner is the one thread between the lock and its release.
LockInv == \A t \in Threads : /\ pc[t] = "waiting" => AsksStock(t)
                              /\ pc[t] = "sleeping" => AsksStock(t)
                              /\ InLock(t) <=> lock = t

\* Who sleeps does so until the interval is over. The last answer was recorded, unless the
\* thread that got it still has the lock.
IntervalInv ==
    /\ \A t \in Threads : pc[t] = "sleeping" => last_call + MinInterval <= loc[t].wake
    /\ (\A t \in Threads : pc[t] = "answered" => ~AsksStock(t)) => last_answer <= last_call

\* A live price was stored soon after it was quoted; an answer on its way is young and, for
\* a stock, no older than what is cached.
QuoteInv ==
    /\ \A k \in Keys : cache[k].live => cache[k].fetched_at <= cache[k].at + MaxLatency
    /\ \A t \in Threads : pc[t] = "answered" =>
         /\ now <= loc[t].at + MaxLatency
         /\ AsksStock(t) /\ cache[loc[t].key].live => cache[loc[t].key].at <= loc[t].at

PriceInv == TypeOK /\ LockInv /\ IntervalInv /\ QuoteInv /\ ServedPriceIsRecent

LEMMA ConstantFacts ==
    /\ NoThread \notin Threads
    /\ CacheSeconds \in Nat /\ MinInterval \in Nat /\ MaxLatency \in Nat /\ MaxTime \in Nat
    /\ LongAgo \in Int /\ LongAgo < 0 /\ Stocks \subseteq Keys
BY PriceFeedAssumption DEF LongAgo, Keys

LEMMA InitInv == Init => PriceInv
<1> SUFFICES ASSUME Init PROVE PriceInv
  OBVIOUS
<1> USE ConstantFacts DEF Init
<1>1. PICK k \in Keys : loc = [t \in Threads |-> [key |-> k, wake |-> 0, at |-> 0]]
  OBVIOUS
<1>2. TypeOK
  BY <1>1 DEF TypeOK, Entries, Times, NoEntry, Labels, Locals
<1>3. LockInv
  BY DEF LockInv, InLock
<1>4. IntervalInv
  BY DEF IntervalInv
<1>5. QuoteInv /\ ServedPriceIsRecent
  BY DEF QuoteInv, ServedPriceIsRecent, NoEntry
<1> QED
  BY <1>2, <1>3, <1>4, <1>5 DEF PriceInv

LEMMA HitStep ==
    ASSUME PriceInv, NEW t \in Threads, NEW k \in Keys, Hit(t, k)
    PROVE  PriceInv'
<1> USE ConstantFacts DEF PriceInv, Hit, Serve, Fresh
<1>1. TypeOK'
  BY DEF TypeOK, Entries, Times, Locals
<1>2. LockInv'
  BY DEF LockInv, InLock, AsksStock
<1>3. IntervalInv'
  BY DEF IntervalInv, AsksStock
<1>4. QuoteInv'
  BY DEF QuoteInv, AsksStock
<1>5. ServedPriceIsRecent'
  BY DEF ServedPriceIsRecent, QuoteInv, TypeOK, Entries, Times
<1> QED
  BY <1>1, <1>2, <1>3, <1>4, <1>5

LEMMA KeylessStep ==
    ASSUME PriceInv, NEW t \in Threads, NEW k \in Keys, KeylessPrice(t, k)
    PROVE  PriceInv'
<1> USE ConstantFacts DEF PriceInv, KeylessPrice, CachedSet, Serve, Fallback
<1>1. TypeOK'
  BY DEF TypeOK, Entries, Times, Locals
<1>2. LockInv'
  BY DEF LockInv, InLock, AsksStock
<1>3. IntervalInv'
  BY DEF IntervalInv, AsksStock
<1>4. QuoteInv'
  BY DEF QuoteInv, AsksStock, TypeOK, Entries, Times, Locals
<1>5. ServedPriceIsRecent'
  BY DEF ServedPriceIsRecent
<1> QED
  BY <1>1, <1>2, <1>3, <1>4, <1>5

LEMMA MissStep ==
    ASSUME PriceInv, NEW t \in Threads, NEW k \in Keys, Miss(t, k)
    PROVE  PriceInv'
<1> USE ConstantFacts DEF PriceInv, Miss
<1>1. TypeOK'
  BY SMTT(30) DEF TypeOK, Entries, Times, Locals, Labels
<1>2. LockInv'
  BY DEF LockInv, InLock, AsksStock, TypeOK, Entries, Times, Locals
<1>3. IntervalInv'
  BY DEF IntervalInv, AsksStock, LockInv, InLock, TypeOK, Entries, Times, Locals
<1>4. QuoteInv'
  BY DEF QuoteInv, AsksStock, TypeOK, Entries, Times, Locals
<1>5. ServedPriceIsRecent'
  BY DEF ServedPriceIsRecent
<1> QED
  BY <1>1, <1>2, <1>3, <1>4, <1>5

LEMMA AcquireStep ==
    ASSUME PriceInv, NEW t \in Threads, Acquire(t)
    PROVE  PriceInv'
<1> USE ConstantFacts DEF PriceInv, Acquire, WakeAt
<1>1. TypeOK'
  BY DEF TypeOK, Entries, Times, Locals, Labels
<1>2. LockInv'
  BY DEF LockInv, InLock, AsksStock, TypeOK, Entries, Times, Locals
<1>3. IntervalInv'
  BY DEF IntervalInv, AsksStock, LockInv, InLock, TypeOK, Entries, Times, Locals
<1>4. QuoteInv'
  BY DEF QuoteInv, AsksStock, TypeOK, Entries, Times, Locals
<1>5. ServedPriceIsRecent'
  BY DEF ServedPriceIsRecent
<1> QED
  BY <1>1, <1>2, <1>3, <1>4, <1>5

LEMMA SendStep ==
    ASSUME PriceInv, NEW t \in Threads, Send(t)
    PROVE  PriceInv'
<1> USE ConstantFacts DEF PriceInv, Send
<1>1. TypeOK'
  BY DEF TypeOK, Entries, Times, Locals, Labels
<1>2. LockInv'
  BY DEF LockInv, InLock, AsksStock, TypeOK, Entries, Times, Locals
<1>3. IntervalInv'
  BY DEF IntervalInv, AsksStock, LockInv, InLock, TypeOK, Entries, Times, Locals
<1>4. QuoteInv'
  BY DEF QuoteInv, AsksStock, TypeOK, Entries, Times, Locals
<1>5. ServedPriceIsRecent'
  BY DEF ServedPriceIsRecent
<1> QED
  BY <1>1, <1>2, <1>3, <1>4, <1>5

LEMMA RespondStep ==
    ASSUME PriceInv, NEW t \in Threads, Respond(t)
    PROVE  PriceInv'
<1> USE ConstantFacts DEF PriceInv, Respond
<1>1. TypeOK'
  BY DEF TypeOK, Entries, Times, Locals, Labels, AsksStock
<1>2. LockInv'
  BY DEF LockInv, InLock, AsksStock, TypeOK, Entries, Times, Locals
<1>3. IntervalInv'
  BY DEF IntervalInv, AsksStock, LockInv, InLock, TypeOK, Entries, Times, Locals
<1>4. QuoteInv'
  BY DEF QuoteInv, AsksStock, TypeOK, Entries, Times, Locals
<1>5. ServedPriceIsRecent'
  BY DEF ServedPriceIsRecent
<1> QED
  BY <1>1, <1>2, <1>3, <1>4, <1>5

LEMMA StoreQuoteStep ==
    ASSUME PriceInv, NEW t \in Threads, StoreQuote(t)
    PROVE  PriceInv'
<1> USE ConstantFacts DEF PriceInv, StoreQuote, CachedSet, Serve, Quote, Answered, Release, Leave
<1>1. TypeOK'
  BY SMTT(30) DEF TypeOK, Entries, Times, Locals, Labels, AsksStock
<1>2. LockInv'
  BY DEF LockInv, InLock, AsksStock, TypeOK, Entries, Times, Locals
<1>3. IntervalInv'
  BY DEF IntervalInv, AsksStock, LockInv, InLock, TypeOK, Entries, Times, Locals
<1>4. QuoteInv'
  BY DEF QuoteInv, AsksStock, LockInv, InLock, TypeOK, Entries, Times, Locals
<1>5. ServedPriceIsRecent'
  BY DEF ServedPriceIsRecent, QuoteInv, TypeOK, Entries, Times, Locals
<1> QED
  BY <1>1, <1>2, <1>3, <1>4, <1>5

LEMMA StoreFallbackStep ==
    ASSUME PriceInv, NEW t \in Threads, StoreFallback(t)
    PROVE  PriceInv'
<1> USE ConstantFacts DEF PriceInv, StoreFallback, CachedSet, Serve, Fallback, Answered, Release, Leave
<1>1. TypeOK'
  BY DEF TypeOK, Entries, Times, Locals, Labels, AsksStock
<1>2. LockInv'
  BY DEF LockInv, InLock, AsksStock, TypeOK, Entries, Times, Locals
<1>3. IntervalInv'
  BY DEF IntervalInv, AsksStock, LockInv, InLock, TypeOK, Entries, Times, Locals
<1>4. QuoteInv'
  BY DEF QuoteInv, AsksStock, LockInv, InLock, TypeOK, Entries, Times, Locals
<1>5. ServedPriceIsRecent'
  BY DEF ServedPriceIsRecent, QuoteInv, TypeOK, Entries, Times, Locals
<1> QED
  BY <1>1, <1>2, <1>3, <1>4, <1>5

LEMMA BadQuoteStep ==
    ASSUME PriceInv, NEW t \in Threads, BadQuote(t)
    PROVE  PriceInv'
<1> USE ConstantFacts DEF PriceInv, BadQuote, Answered, Release, Leave
<1>1. TypeOK'
  BY DEF TypeOK, Entries, Times, Locals, Labels, AsksStock
<1>2. LockInv'
  BY DEF LockInv, InLock, AsksStock, TypeOK, Entries, Times, Locals
<1>3. IntervalInv'
  BY DEF IntervalInv, AsksStock, LockInv, InLock, TypeOK, Entries, Times, Locals
<1>4. QuoteInv'
  BY DEF QuoteInv, AsksStock, LockInv, InLock, TypeOK, Entries, Times, Locals
<1>5. ServedPriceIsRecent'
  BY DEF ServedPriceIsRecent, QuoteInv, TypeOK, Entries, Times, Locals
<1> QED
  BY <1>1, <1>2, <1>3, <1>4, <1>5

LEMMA NoAnswerStep ==
    ASSUME PriceInv, NEW t \in Threads, NoAnswer(t)
    PROVE  PriceInv'
<1> USE ConstantFacts DEF PriceInv, NoAnswer, CachedSet, Serve, Fallback, Release
<1>1. TypeOK'
  BY DEF TypeOK, Entries, Times, Locals, Labels, AsksStock
<1>2. LockInv'
  BY DEF LockInv, InLock, AsksStock, TypeOK, Entries, Times, Locals
<1>3. IntervalInv'
  BY DEF IntervalInv, AsksStock, LockInv, InLock, TypeOK, Entries, Times, Locals
<1>4. QuoteInv'
  BY DEF QuoteInv, AsksStock, LockInv, InLock, TypeOK, Entries, Times, Locals
<1>5. ServedPriceIsRecent'
  BY DEF ServedPriceIsRecent, QuoteInv, TypeOK, Entries, Times, Locals
<1> QED
  BY <1>1, <1>2, <1>3, <1>4, <1>5

LEMMA TickStep ==
    ASSUME PriceInv, Tick
    PROVE  PriceInv'
<1> USE ConstantFacts DEF PriceInv, Tick
<1>1. TypeOK'
  BY DEF TypeOK, Entries, Times, Locals
<1>2. LockInv'
  BY DEF LockInv, InLock, AsksStock
<1>3. IntervalInv'
  BY DEF IntervalInv, AsksStock
<1>4. QuoteInv'
  BY DEF QuoteInv, AsksStock, TypeOK, Entries, Times, Locals
<1>5. ServedPriceIsRecent'
  BY DEF ServedPriceIsRecent
<1> QED
  BY <1>1, <1>2, <1>3, <1>4, <1>5

LEMMA StutterStep == ASSUME PriceInv, UNCHANGED vars PROVE PriceInv'
BY DEF PriceInv, vars, TypeOK, Entries, Times, Locals, LockInv, InLock, AsksStock, IntervalInv,
       QuoteInv, ServedPriceIsRecent

LEMMA NextStep == ASSUME PriceInv, [Next]_vars PROVE PriceInv'
BY HitStep, KeylessStep, MissStep, AcquireStep, SendStep, RespondStep, StoreQuoteStep,
   StoreFallbackStep, BadQuoteStep, NoAnswerStep, TickStep, StutterStep DEF Next, Ends

LEMMA InvAlways == Spec => []PriceInv
BY InitInv, NextStep, PTL DEF Spec

\* The variables keep their types, and no price, call or answer is dated in the future.
THEOREM PriceFeedTypeCorrect == Spec => []TypeOK
BY InvAlways, PTL DEF PriceInv

\* No caller is given a live price older than the time to live and one answer's latency.
THEOREM PricesAreRecent == Spec => []ServedPriceIsRecent
BY InvAlways, PTL DEF PriceInv

\* Requests to Alpha Vantage go one at a time, each MinInterval after the last answer.
THEOREM StockCallsAreSpaced == Spec => StockCallsSpaced
<1> DEFINE Spaced(t) ==
      pc[t] = "sleeping" /\ pc'[t] = "asking" =>
        /\ now >= last_answer + MinInterval
        /\ \A u \in Threads \ {t} : AsksStock(u) => pc[u] \notin {"asking", "answered"}
<1>1. ASSUME PriceInv, [Next]_vars, NEW t \in Threads PROVE Spaced(t)
  <2> SUFFICES ASSUME pc[t] = "sleeping", pc'[t] = "asking" PROVE Spaced(t)
    OBVIOUS
  <2>1. Send(t)
    BY <1>1 DEF Next, Ends, vars, PriceInv, TypeOK, Hit, KeylessPrice, Miss, Acquire, Send,
       Respond, StoreQuote, StoreFallback, BadQuote, NoAnswer, Leave, Tick
  <2>2. \A u \in Threads \ {t} : ~InLock(u)
    BY <1>1 DEF PriceInv, LockInv, InLock
  <2>3. last_answer <= last_call
    BY <1>1, <2>2 DEF PriceInv, IntervalInv, InLock
  <2>4. now >= last_answer + MinInterval
    BY <1>1, <2>1, <2>3, ConstantFacts DEF PriceInv, IntervalInv, Send, TypeOK, Locals, Times
  <2> QED
    BY <2>2, <2>4 DEF InLock
<1>2. PriceInv /\ [Next]_vars => [\A t \in Threads : Spaced(t)]_vars
  BY <1>1
<1> QED
  BY <1>2, InvAlways, PTL DEF Spec, StockCallsSpaced

\* A cached stock price is never replaced by one quoted before it.
THEOREM StockPricesInOrder == Spec => StockPricesMoveForward
<1> DEFINE Forward(s) ==
      cache[s].live /\ cache'[s].live => cache'[s].at >= cache[s].at
<1>1. ASSUME PriceInv, [Next]_vars, NEW s \in Stocks PROVE Forward(s)
  <2>1. CASE UNCHANGED cache
    BY <1>1, <2>1, ConstantFacts DEF PriceInv, TypeOK, Entries, Times
  <2>2. ASSUME NEW t \in Threads, StoreQuote(t) PROVE Forward(s)
    BY <1>1, <2>2, ConstantFacts DEF PriceInv, TypeOK, Entries, Times, Locals, QuoteInv,
       StoreQuote, CachedSet, Quote, AsksStock
  <2>3. ASSUME NEW t \in Threads, StoreFallback(t) \/ NoAnswer(t) PROVE Forward(s)
    BY <1>1, <2>3, ConstantFacts DEF PriceInv, TypeOK, Entries, Times, StoreFallback, NoAnswer,
       CachedSet, Fallback
  <2>4. ASSUME NEW t \in Threads, NEW k \in Keys, KeylessPrice(t, k) PROVE Forward(s)
    BY <1>1, <2>4, ConstantFacts DEF PriceInv, TypeOK, Entries, Times, KeylessPrice, CachedSet,
       Fallback
  <2> QED
    BY <1>1, <2>1, <2>2, <2>3, <2>4 DEF Next, Ends, vars, Hit, Miss, Acquire, Send, Respond,
       BadQuote, Tick
<1>2. PriceInv /\ [Next]_vars => [\A s \in Stocks : Forward(s)]_vars
  BY <1>1
<1> QED
  BY <1>2, InvAlways, PTL DEF Spec, StockPricesMoveForward
=============================================================================
