# AlgoWagers in TLA+

This directory specifies and verifies the core of AlgoWagers: the prediction
markets of the Flask backend, on which people and autonomous agents bet Algos,
and the Algorand contracts that are to hold the stakes.

- [Inventory](#inventory): the system's parts, their state, how they interact
- [Modules](#modules): what is modelled where
- [Runs](#runs): what TLC checks, the bounds and the fairness
- [Proofs](#proofs): what TLAPS proves, and how
- [Findings](#findings)
- [Plan](#plan) and [What is not modelled](#what-is-not-modelled)

## Inventory

| part | state | operations | talks to |
|---|---|---|---|
| market controller (`backend/controllers/market_controller.py`) | `markets`: status, outcome, pools, volume, the list of bets, the settlement summary | `create_market`, `ensure_daily_markets`, `place_bet`, `resolve_market`, `resolve_due_markets`, reads | agent controller (calls), price feed (I/O), contract gateway (I/O), feed |
| agent controller (`agent_controller.py`) | `agents`, `agents_stats`, `agent_histories` | `register_agent`, `record_agent_bet`, `record_agent_settlement`, `trigger_agent`, `trigger_active_agents_for_market`, leaderboard | agent runner (I/O), market controller (a cycle: a trigger places a bet) |
| scheduler (`services/market_scheduler.py`) | APScheduler's jobs | `ensure_daily_markets` every 24 h, `resolve_due_markets` every minute | market controller |
| price feed (`services/price_feed.py`) | a cache with expiry; for stocks a lock and the time of the last call | `get_live_price` | CoinGecko, Alpha Vantage |
| agent runner (`services/agent_runner.py`) | none | `run_agent` | a webhook (which may call back) or a language model |
| contract gateway and client (`services/contract_gateway.py`, `utils/contract_client.py`, `utils/algorand_utils.py`) | none of its own | `lock_bet`, `settle_market_gateway`, deploy; every failure becomes a status in the answer | Algorand node |
| event streams (`routes/agent_routes.py`) | the list of connections and its lock, one queue per connection | `broadcast_event`, `register_connection`, `unregister_connection`, `event_stream` | SDK agents, browsers |
| feed (`controllers/feed_controller.py`) | a list of texts | `add_event` | the page that shows it |
| MarketPool contract | pools, `resolved`, `outcome`, per account shares and `claimed`, the account's balance | `create`, `opt_in`, `place_bet`, `settle`, `claim_winnings` | PlatformRegistry (call), FeeVault (payment) |
| PlatformRegistry, FeeVault, OracleAggregator, AgentRegistry, MarketFactory | boxes and global state | register, collect and distribute, push and get prices, register agents, number markets | each other through the registry |
| marketplace SDK (`sdk/algowager_marketplace_sdk`) | an agent's history, its tracker | `analyze_and_bet`, `run_once`, webhooks | backend's REST API and event stream |
| deployment scripts (`SmartContracts/smart_contracts/deploy*.py`) | what is on chain | create and fund, each under `retry_operation` | Algorand node |
| frontend (`frontend/`) | React state | pages over the REST API | backend |

What makes it hard: the backend's dictionaries are shared without a lock by
Flask's request threads and the scheduler's thread, and the handlers do network
I/O in the middle (`resolve_market` asks for a price between its test of the
status and its writes; `place_bet` waits for the chain between its test and its
append). The contract has no interleaving inside a call, but its calls come in
any order, its accounts come and go, and every overflow and every uncovered
payment undoes the call. PROJECT.json lists the hazards one by one, with the
line where each bites.

What makes each part correct:

- market controller: pools and volume are the sums of the bets; a bet is settled
  once, by the outcome of its market, from the pools of its market, and is paid
  its stake at least, to six decimals, if it won; the outcome is decided once; a market takes bets
  only while it is open; a due market is resolved and settled to the end.
- agent controller: an agent's wins, losses and profit are those of its settled
  bets, each counted once.
- MarketPool: the terms of the claims do not move once the market is settled; a bettor
  is paid once, for a position on the winning side only.
- scheduler: one market's failure does not stop the others; a day's market is
  created once by each creator, and a day's markets are never missing in silence.
- price feed: a price that decides a market is recent; a stock's price does not go
  back in time; Alpha Vantage's interval is kept; the lock is always given back.
- event streams: each listener gets every event from its connection on, in the one
  order of the broadcasts; dead connections are cleared away.
- agents' webhooks: backend and agent wait for each other and still every request ends;
  a server that refuses a call has no bet on account of it;
  the backend bets what the agent answered (it does not, see the observed behaviours).
- deployment: what a successful script reports is whole, and stays whole when
  transactions it gave up are confirmed later; no registry names an unpaid contract.
- registries, factory, vault, the rest of the SDK: see the plan.

## Modules

| module | models |
|---|---|
| `Payouts` | `_calculate_payouts`' arithmetic: a winner gets stake + share of the losing pool − fee on the profit, rounded half to even as Python's `round` does. A stake is whatever number the request carries and is never rounded, a payout is rounded to six decimals; so amounts are counted in units finer than that, `Grain` of which make up the last decimal of a payout (`Rounded`). `Net` is what a result adds to an agent's profit. |
| `MarketController` | `place_bet`, `resolve_market`, `resolve_due_markets` with `record_agent_bet` and `record_agent_settlement`, run by any number of threads, and `register_agent` in its two steps |
| `MarketControllerProofs` | the theorems about it |
| `MCMarketController` | its instances for TLC |
| `PoolMath` | `_calc_shares`, the fee and the worth of a claim, with the intermediate results that have to fit in 64 bits |
| `MarketPool` | the contract: one action per method, plus opting out (ClearState), the registry's admin and time |
| `BettingMarket` | the abstract promise: positions while undecided, one decision, and what a bettor has `received`, which changes once only and for a position on the side that won. `MarketPool` implements it |
| `MarketPoolProofs` | the theorems about the arithmetic and about the contract |
| `SumProofs` | the facts about sums over finite sets that the proofs about pools, volumes, profits and balances rest on |
| `MCMarketPool` | its instance for TLC |
| `DailyMarkets` | `create_market` and `ensure_daily_markets` with `trigger_active_agents_for_market`, run by the scheduler once a day and by requests |
| `DailyMarketsProofs` | the theorems about it |
| `MCDailyMarkets` | its instances for TLC |
| `PriceFeed` | `get_live_price` with its cache, the stock lock, the fallbacks and the failures, called by any thread |
| `EventStream` | `broadcast_event`, the connections' registration and generators, and the SDK's `start_listening` and `stop_listening` at the other end |
| `Deployment` | `deploy_testnet.py` and `deploy_market_pool.py`: every operation under `retry_operation`, the chain's late confirmations, crashes and runs from the start |
| `AgentWebhook` | the backend's call of an agent (`trigger_agent`, `run_agent`), the SDK's webhook server that answers it, and the bet this server sends the backend meanwhile |
| `PriceFeedProofs`, `EventStreamProofs`, `DeploymentProofs`, `AgentWebhookProofs` | the theorems about them |
| `MCPriceFeed`, `MCEventStream`, `MCDeployment`, `MCAgentWebhook` | their instances for TLC |

### MarketController: state and steps

`status`, `outcome`, `pool`, `volume`, `bets`, `summary`, `closes` are the fields
of the dictionaries in `markets`, `store` the order of its keys, `registered` the
keys of `agents`, `tracked` those of `agents_stats` and `agent_histories`, `stats` the
entries of `agents_stats`. A bet carries in `hist`
the state of its entry in `agent_histories`. `pc` and `loc` are the thread's place
in its handler and its local variables.

CPython 3.10 and later (README.md:122 asks for it) lets another thread run only
after a call and at a loop's back edge. A step of the model is the code from one
such point to the next at which shared state matters:

| `pc` | the thread stands |
|---|---|
| `bet_lock` | in `lock_bet` (network), its checks done |
| `bet_pool` | after `bets.append` |
| `bet_agent` | at the call of `record_agent_bet` |
| `bet_volume` | in `float(bet["amount"])`, having read `total_volume_algo` |
| `res_price` | in `get_live_price` (network), the status looked at |
| `res_settle` | in the loop of `_calculate_payouts`, outcome and status written |
| `res_payout` | in `round(payout, 6)`, the bet's status `won` written and its payout not |
| `res_record` | in the loop over `settlement`, after the gateway's call |
| `res_stats` | at the call of `record_agent_settlement`, with the payout read from the bet (`pay`) |
| `due_next` | in the loop of `resolve_due_markets` |

`register_agent` is two steps as well: `RegisterAgent` puts the agent into `agents`,
`EnsureAgentStats` gives it statistics and a history. A handler that reaches a bet of
the agent in between raises a `KeyError`: `place_bet` after the bet is stored
(`RecordAgentBetCount`), a settlement before its summary (`RecordFails`). What the
settlement does to an agent's result and to the history entry is one step: nobody reads
one and expects the other. Stakes are numbers one can add and compare: `float()` also
takes "nan" and "inf", and of pools and payouts they have met no property about amounts
says anything.

Abstracted: event texts, ids, timestamps other than `closes_at`, prices (the
price decides YES or NO, so a resolver picks either), `_refresh_agent_metrics`
(ratios of fields that are modelled), the result of the contract's calls (stored,
never read). A market whose price lookup can fail is in `FlakyMarkets`. The human
bettors are one, because nothing is kept per human.

### MarketPool: state and steps

The variables are the contract's global state (`pool`, `total_bets`, `resolved`,
`outcome`), the accounts' local state (`opted`, `shares`, `claimed`), the
application account's `balance`, the registry's answer `appId`, and what was paid
out (`fees` per receiving application, `paid` per bettor), which no code reads.
`TRUE` is the yes side. An action's guard holds every assertion of its method,
the overflows that would panic (`CalcSharesFits`, `ClaimFits`, `\in UInt64`) and
the balance the inner payments need, which no line of the contract looks at and the
ledger enforces (`Covered`): if one fails the group of transactions has no effect,
which is no step. Payments made to the application outside `place_bet` are left out.
`settle` takes its price from the caller, as the code does. The receivers of
payments are taken to be able to receive them.

### DailyMarkets: state and steps

`markets` and `agents` are the dictionaries in insertion order (no code deletes
from them); `wants` stands for an agent's status and specialization. A market
keeps its asset, closing time, whether it is open, who bet automatically, and
`by`, the thread whose daily run made it, which no code reads. `today` counts the
closing hours (`_resolve_time_from_request`), so a market made now by a daily run
closes at `today + 1`. `reported` collects the days whose scheduled run APScheduler
logged as failed or skipped.

| `pc` | the thread stands |
|---|---|
| `existing`, `scan` | before and in the comprehension over `markets.values()` |
| `loop` | in the loop over the supported assets |
| `build` | in `_build_market` (price feed, deployment) |
| `trigger`, `ask` | before and in the loop over `agents.items()`, with `run_agent`'s network call in each round |
| `place`, `lock` | in the loop over the agents' decisions; in `place_bet`'s `lock_bet` |

A dictionary that grew while it was iterated makes the next round of the loop
raise (`ScanFails`, `AskFails`); so do a price that cannot be had (`BuildFails`) and
a bet that `place_bet` refuses (`AutoBetFails`). Nothing on the way catches an
exception except the one around `run_agent`, so each ends the whole run, after the
market was stored in the last two cases. `Resolve` and `AutoBetAppend` stand for
what `MarketController` has in detail. An agent that is inactive, of another
specialization or fails to answer is passed over; the agents seeded at start are
registrations before the first run.

### PriceFeed: state and steps

`cache`, `last_call` and `lock` are `_price_cache`, `_last_stock_call` and the owner of
`_stock_lock`. A price is the time it was quoted at and whether it is live; `served`
and `last_answer`, which no code reads, remember what a caller got last and when Alpha
Vantage answered last. A missing entry is one that expired long ago.

| `pc` | the thread stands |
|---|---|
| `waiting` | at `with _stock_lock`, having looked at the cache |
| `sleeping` | in `time.sleep`, holding the lock |
| `asking` | in `requests.get`, before the service has quoted a price |
| `answered` | the answer is on its way back |

The split of a request in two is what makes prices old when they are stored:
`MaxLatency` bounds that time (the request has a timeout). How a request ends is
`StoreQuote`, `StoreFallback` (429, an error status, no quote), `BadQuote` (a
`ValueError` for the caller) or `NoAnswer`. A thread leaves the lock in the same step
in which it stores. The clock is one for all; `time.time()` is read where a step says
`now`. Alpha Vantage and CoinGecko are modelled by what they may answer.

### EventStream: state and steps

`active` and `lock` are `_active_connections` and the owner of `_connection_lock`; a
connection has its `queue`, its generator's place `stream` (`registering`, `waiting` in
`q.get`, `sending` in a `yield`, `closing` in the `finally`), the message `out` on its
way, what TCP knows of the client (`link`) and what the listener `got`. `running` is the
SDK agent's `is_running`, one flag for all the listeners an agent has (`AgentOf`):
`Connect` (`start_listening`) sets it, `StopListening` clears it, an error of one
connection clears it (`Cut`), and every listener reads it with its next message. So a
restart before that message revives the listener that was to stop, a stop before
`start_listening` has set the flag is lost, and one connection's error ends the others.
An event is its number in the order of the broadcasts (`sent`), so that gaps and
exchanges show; `since` is the number when the connection was registered. Registering
and the broadcasts take the same lock: `Broadcast` takes it and copies the list, `Put`
is one turn of the loop, `BroadcastDone` gives it back.
A connection that is over lends its name to a new one. The first write after a client
went may still be taken by its socket (`Swallow`), the next one fails (`WriteFails`).
What an agent does with an event is left out: nothing flows back.

### Deployment: state and steps

`op` and `con` say which operation `main` has reached: `deploy`, `fund` or `register`
of the registry (number 0, never registered) or of a role's contract; `attempt` is
`retry_operation`'s counter; `app_id` is what the script knows. With `Roles = 0` the
model is `deploy_market_pool.py`. `txs` holds every transaction ever sent,
`confirmed` the positions of those that took effect, `boxes` what the registries name.
An application is known by the position of the transaction that created it. The step
`Confirm` may come at any time: in time, after the attempt was given up, after the
run ended. An exception (`Retry`, `GiveUp`) may come before sending, while waiting, and
also when the transaction has just been confirmed (the node's answer is lost).
`Crash` ends the process anywhere; `Begin` starts it from nothing. The deployer is the
registry's admin, who is the only one to register.

### AgentWebhook: state and steps

A call (`POST /agents/<id>/trigger`, or `webhook-trigger`, which only asks) and the bet
its agent may send are two requests at the backend. `stage` says where the backend is
with each: in line (`backlog`), `calling` the webhook, `locking` in `lock_bet`. The last two
hold one of `Workers` workers: Flask's own server has as many as there are threads,
gunicorn, which `requirements.txt` names, one unless told otherwise. `hook` is the place of the
SDK's handler: `called`, `betting` in `api.place_bet`, `answering`. The handler goes on when
the backend has given up (`TriggerTimesOut`), the backend serves a bet whose sender has
given up (`BetReturns`). `Payload` is what the SDK's server answers, `Decision` what the
backend reads in it. A server with a secret refuses the call (`Reject`), because the backend
sends no `X-Webhook-Signature`. Amounts are left out, and the language model's answer is one
of the three the connectors ask for; several calls are about one market. Only requests
that end are modelled: an event connection holds a worker as long as it lasts, which
leaves fewer `Workers` for the rest.

## Runs

| run | instance | checks |
|---|---|---|
| `racing_resolvers` | 1 market (its price lookup may fail), 2 request threads of which one also resolves by hand, the scheduler, human bettors, stakes {1, 100} in units of half a last decimal, 2 bets | what holds whoever resolves: `TypeOK`, `PoolsCountBets`, `SettledPrefix`, `SettledOnlyIfResolved`, `WinnersKeepTheirStake` |
| `scheduled_only` | the same with 1 agent who may register at any time, a price that never fails and the scheduler as only resolver | `ResultMatchesOutcome`, `ResultsCountedOnce`, `BookBalances`, `VolumeNotInflated`, `OutcomeFinal` |
| `scheduler_liveness` | 2 markets in either order that close at the same time, one of which has a price lookup that may fail; 1 request thread, 1 agent who may register at any time, 1 bet in each market | `DueGetsResolved`, `SettlementCompletes` under fairness |
| `late_bet`, `double_settlement` | the smallest instances that show the findings below | one property each, violated |
| `market_pool` | 2 bettors, 3 bets of {99, 100, 900} (below, at and far above the minimum), 2 applications for the registry to name, prices below and at the resolution price | `TypeOK`, `SameTermsForAll`, `PaidOnce`, `ImplementsBettingMarket` |
| `daily_markets` | 2 assets, the first with a price that may fail; the scheduler and 1 request thread with 2 requests (seeding or creating); 1 agent, who may register at any time, active or not; 1 resolution; 1 day | `TypeOK`, `NoThreadCreatesTwice` |
| `daily_cycle` | the same with 1 request, no resolution, 2 days | `CompletedRunCoversAllAssets`, `EveryDayCoveredOrReported` under fairness |
| `price_feed` | 2 threads, 1 cryptocurrency, 1 stock, with and without a key; time to live 2, interval 2, latency up to 1, requests up to time 4 | `TypeOK`, `ServedPriceIsRecent`, `StockPricesMoveForward`, `StockCallsSpaced`, and `StockLockReleased` under fairness |
| `event_stream` | 1 agent with 2 connections that come again and again, 2 broadcasting threads, 2 events | `TypeOK`, `ReceivedWithoutGaps`, and under fairness `BroadcastReachesListeners`, `DeadConnectionsLeave`, `StopTakesEffect` |
| `deployment` | 2 roles, 3 attempts per operation, 2 runs of the script, 9 transactions | `TypeOK`, `ReportedDeploymentIsWhole`, `NamedAppsAreFunded`, `DuplicatesAreBounded`, `NamesAreFinal`, and `RunEnds` under fairness |
| `agent_webhook` | 3 calls, one to a server with a secret, 2 workers | `TypeOK`, `SecretMeansNoBet`, and `RequestsEnd` under fairness |

Bounds. Two bets are the least with which settlement by a prefix, a lost update,
a bet on each side and a bet arriving behind the settlement all happen; two
request threads and the scheduler are the three actors the interleavings need,
because a handler races with at most a bet and a resolution at a time. With `Grain = 2` a
stake of 1 is half of the last decimal of a payout, and is paid nothing (`round` goes to
the even number); the payouts of 100 against 1 are not whole and are rounded. The race of
resolvers has no agents, because a race breaks what one would say of their statistics
(see the findings). In the liveness run all markets close at time 1: the order in the
dictionary and the failing lookup decide who waits for whom. `MaxBets` counts the
bets in flight too, so it stops new requests and never a running one. `MaxTime`
bounds the clock; with `closes` up to it every market becomes due. For the pool,
a unit is a hundredth of an Algo, so that seed (50), minimum bet (100), minimum
balance (10) and funding (100) keep their proportions within TLC's integers;
`SqrtScale`, a factor for precision, is 1, and `MaxUInt64` is small enough for
`ClaimFits` to fail in some states and large enough to hold in others. For the daily
markets two assets are the least with one that was passed and one still to come,
one request thread beside the scheduler races with it in every way one can, and two
requests let a thread run a second time over markets of its own. Two days are the
least with markets of another closing time in the scan, and with a run that is
still going when the next is due.
For the price feed two threads are the least that race for the lock and for an entry;
in 4 units of time an entry is stored, expires and is stored again, and a second stock
call meets the interval. Two events are the least that have an order, two connections
the least that can disagree on it, and two senders the least that race; a connection
that is over is used again, so that one comes in the middle of a broadcast. A whole
deployment of 2 roles sends 8 transactions (2 for the registry, 3 for each role), so 9 leave
one retry to a complete run, and a failed run with retries in front of a second one
that is cut short; `MaxSent` stops sending only. `MaxRetries` is the code's 3. For the webhooks two workers are the
least with which calls overlap, and two agents that both bet bring them to a standstill. For the
events both connections belong to one agent, which is the case in which they can disturb each
other. That the bounds are
no more than that is what the theorems are for: they hold for any number of roles,
attempts, runs and transactions, and any `Grain`. Sports markets (`SportsMarkets`) are in no run, in
the theorems of `MarketController` they are any set.

Fairness. `FairSpec` asks weak fairness of every started handler's steps (a
thread that can run will, and its network calls end: the price feed's and the
agents' `requests` are given timeouts; `lock_bet`'s calls of the Algorand node are not, so that
these end is an assumption) and of `ResolveDueStart(Scheduler)`, because APScheduler runs the job
every minute (`market_scheduler.py`), one instance at a time (`max_instances` is
1 by default). Nothing is asked of requests, of registrations or of the clock. In
`DailyMarkets` it asks weak fairness of every started handler's steps and of
`ScheduledRun`: the interval job fires once in 24 hours, and is skipped with a log
entry while its last run still goes on (one instance at a time). The clock waits for
the day's firing (`Tick`), which says that the process is up. In `PriceFeed` it asks
it of the clock, of the end of a sleep and of the end of a request (it has a timeout),
not of the callers, and not of who gets a free lock: `StockLockReleased` needs none of that.
In `EventStream` it asks it of the loop under the lock, which does no I/O, and of each
generator: `q.get` returns after 30 seconds at the latest, a write ends because the
client reads or TCP gives up. In `Deployment` it asks it of the script's own steps:
`time.sleep` ends, and so do the requests to a node, which the code assumes (it gives the
client no timeout). In `AgentWebhook` it asks it of the backend's
workers and of the timeout of the webhook's call, and nothing of the agents: one may
never answer. The timeout of `requests` is one for each read, so an answer that trickles in
byte by byte would outlast it, and `lock_bet` has none: that both end is assumed.

Deadlock is checked in every run but `deployment`, whose scripts stop when they are
done, and `agent_webhook`, whose calls are so many and no more: the scheduler can always start again, and in
the pool the registry's admin can always act; agents can always register again; a
cached price can always be asked for, and a connection made.

## Proofs

`MarketControllerProofs` proves for any finite set of markets and any sets of
threads, agents and stakes:

- `TypeCorrect`: `Spec => []TypeOK`. The type is inductive only together with
  `LocalsOK`, which says what each `pc` promises of the local variables: the bet a
  handler appended is in the list, a settlement's index is within the list or just
  behind it. That needs `ListsGrow` (no step shortens a list) for the threads that
  stand still while another moves.
- `SettlementSafe`: `SettledOnlyIfResolved`, `SettledPrefix`,
  `WinnersKeepTheirStake` (the first and the last also by themselves, as
  `OnlyResolvedMarketsSettle` and `WinnersAreMadeWhole`). A winner's payout may be
  missing while some thread is between its two writes of that bet (`Paying`), and only
  then. The strengthening `SettleInv` adds, for each thread in a
  settlement, that its market is resolved and everything behind its index is
  settled (`SettlerOK`). It holds with any number of racing resolvers; the lemmas
  `QuietStep`, `AppendStep`, `CalculateStep` and `PayoutStep` say what a step may change,
  `PayingStays` that a payout is not forgotten when its writer is another thread.
  `PayoutAtLeastStake` gives the arithmetic, for every stake however fine: the fee is at
  most the profit, and rounding keeps the order of what is rounded (`RoundScaled`,
  `RoundClose`), so a payout is at least the rounded stake, and short of the stake
  itself by half of the last decimal at most.
- `OneResolverSettlesByOutcome` and `OneResolverDecidesOnce`: with
  `ManualResolvers = {}`, `ResultMatchesOutcome` and `OutcomeFinal`. The invariant
  `OneResolver` says that a market has an outcome exactly when it is not open, that
  the scheduler stands at `res_price` only for an open market, that it settles
  by the outcome it published, and that the bet whose payout or result it is about to
  write is as it left it (`AtBet`). The run `double_settlement` shows the assumption is
  needed.
- `OneResolverCountsOnce` and `OneResolverBalancesTheBook`: under the same assumption,
  `ResultsCountedOnce` and `BookBalances`. `CountInv` says that an agent's wins, losses
  and profit are those of some set of its settled bets that do not wait (`Tallied`,
  `Awaits`): while a market is being settled all its bets wait, while its results are
  recorded those from the loop's index on. Publishing makes no counted bet wait,
  because an open market has no settled bets; each turn of the recording loop takes one
  bet out of the waiting ones and adds it to the tallied ones, unless its agent is not
  registered then; a settlement that fails because an agent is just being registered
  leaves the rest untallied. When as many bets are tallied as are settled, they are the same set.
- `PoolsFollowTheList`: `PoolsCountBets`, with any number of racing resolvers. A step
  moves one stake from the handler's hands (`Pending`) into the pool or into the list,
  or it touches neither (`StakesKept`): settling rewrites a bet's status, never its
  side, stake or bettor.
- `VolumeIsCovered`: `VolumeNotInflated`. `record_agent_bet` reads the volume and writes
  it back later, so a lost update is possible and an invented one is the question.
  `VolumeInv` says that each handler in between owns a bet of its own, and that what
  it has read is at most the stakes of the bets whose handlers are done (`Entered`); when it
  writes back the sum it enters its own bet, which nobody else can enter.

`MarketPoolProofs` proves of the contract, for any accounts,
amounts, pools and 64-bit bound:

- `IsqrtCorrect`: the square root the model chooses exists, by the least root that
  is too large (`LeastNatural`); `IsqrtMonotone`; `DivisorPositive`: `_calc_shares`
  never divides by zero. From them `FavouriteBuysNoMoreThanItsStake`. It does not say
  that the claims are covered: shares of the side behind cost less than their number,
  and the fee is paid again with every claim.
- `PoolTypeCorrect`: `Spec => []TypeOK`, inductive by itself: the pools
  start at their seed and only grow, so a claim's divisor is never zero; the balance
  stays a natural number because the ledger refuses what is not `Covered`.
- `TermsAreTheSameForAll` (`SameTermsForAll`) and `NobodyIsPaidTwice` (`PaidOnce`),
  from `PaidInv`: an account that is out holds no shares and no claim, nobody is
  paid before the resolution, and who was paid has claimed or has left without
  shares. The last part is what stops a second payment after clearing the local
  state: shares are only bought before the resolution.
- `PoolImplementsBettingMarket`: `Spec => ImplementsBettingMarket`. Opting in and
  clearing is `Leave`; a bet that buys shares is `Bet`, one too small to buy any
  changes no position; a claim worth something is `Pay`; the registry and time are
  stuttering steps. `received` is mapped to `paid`, so a second payment would be a step
  that `BettingMarket` does not have; that a claim never is one follows from `PaidInv`.

`DailyMarketsProofs` proves, for any assets, agents and threads:

- `DailyTypeCorrect`: `Spec => []TypeOK`, inductive with `LocalsOK` (what each `pc`
  promises of indices and of the decisions left).
- `CompletedRunsCover` (`CompletedRunCoversAllAssets`). `CoverInv` says that every
  key a run found, every asset it has passed and the market it just stored are
  really there; `MarketsKept` (markets keep place, asset, closing time and creator,
  and never open again) carries that over other threads' steps.
- `NoThreadDuplicates` (`NoThreadCreatesTwice`). `OnceInv` says that a thread's own open
  markets of the day are among the keys it found or the assets it has passed. It
  needs `OwnKept` (only a thread itself adds markets of its own), the scan's
  failure when the dictionary grows, and that no asset is listed twice.

`PriceFeedProofs` proves, for any threads, assets, times to live, intervals and latencies:

- `PriceFeedTypeCorrect` (`TypeOK`: no entry, call or answer is dated in the future).
- `PricesAreRecent` (`ServedPriceIsRecent`). `QuoteInv` bounds the age of a live entry
  when it was stored, and of an answer under way, by `MaxLatency`; that is what the
  clock's guard says and what a slower writer, who stores an older price, cannot break.
- `StockCallsAreSpaced` and `StockPricesInOrder` (`StockCallsSpaced`,
  `StockPricesMoveForward`). Whoever sleeps, asks or is answered for a stock owns the lock
  (`LockInv`), a sleeper wakes no earlier than the interval after the last answer
  (`IntervalInv`), and no cached stock price is newer than the answer under way (`QuoteInv`).

`EventStreamProofs` proves, for any connections, senders and events:

- `EventStreamTypeCorrect` (`TypeOK`).
- `ListenersMissNothing` (`ReceivedWithoutGaps`). What a listener got, the message on its
  way and its queue, put together, are consecutive numbers from `since + 1` to the last
  event put into its queue (`OrderInv`); that is the last event broadcast, or the one
  before while the broadcasting thread still owes it to the connection. It needs that only
  the owner of the lock broadcasts and that nobody joins or leaves the list meanwhile
  (`LockInv`), and that who is owed an event is in the list (`ListInv`).

`DeploymentProofs` proves, for any number of roles, attempts, runs and transactions:

- `DeploymentTypeCorrect` (`TypeOK`; attempts stay below their limit).
- `DeploymentIsWhole`, `NamedAppsCanPay`, `NamesStay` (`ReportedDeploymentIsWhole`,
  `NamedAppsAreFunded`, `NamesAreFinal`) from `DeployInv`: what the script knows was
  created for that contract (`KnownInv`), everything before the current operation is
  created, paid and registered (`ProgressInv`), a registration was only sent for an
  application that is paid (`TxInv`), and any two registrations of the same role in the
  same registry name the same application (`SameName`), because a registry belongs to
  one run and a run knows one application for each contract. The last is why a late
  registration can do no harm.
- `RetriesCostLittle` (`DuplicatesAreBounded`) from `CountInv`: an operation has sent no more
  transactions than its failed attempts and the one it waits for (`AttemptInv`), and none
  before its turn (`ComingInv`, with `Rank`, the order of `main` in numbers); a payment goes to
  an application of its own contract and run.

`AgentWebhookProofs` proves, for any calls, secrets and number of workers:

- `WebhookTypeCorrect` (`TypeOK`; what is bet is a side, never an agent's "no bet"). `LineInv` says that
  a request stands in line once, `HandlerInv` that the handler starts with the call and
  that a bet under way is for the side the agent decided for.
- `SecretServersNeverBet` (`SecretMeansNoBet`): no call to a server with a secret ever leads to a bet
  (`SecretInv`), although the SDK's README says always to use one.

Assumptions: `FeeAssumption` (the fee is between 0 and 100 %, a stake is counted in whole
fractions of a payout's last decimal, `Grain` of them) and `ModelAssumption`
(finitely many markets, positive stakes, the scheduler is no request thread, ...);
for the pool `PoolMathAssumption` and `PoolAssumption` (the scale, the fee's base
and the seed are positive, the fee is at most 100 %); `DailyAssumption` (no asset is
listed twice, the scheduler is no request thread); `PriceFeedAssumption`,
`EventStreamAssumption`, `DeploymentAssumption`, `WebhookAssumption` (names do not coincide, bounds are
numbers, an operation is tried once at least, a connection belongs to one agent). TLC evaluates them on every
instance.

The sums of these invariants are the community modules' `SumFunctionOnSet`, which picks
one element after the other by recursion. `SumProofs` gets along without an induction
rule: the recursion's solution is shown to exist on every finite set, and two solutions
to agree, by looking at a least set on which they would not (`LeastNatural`,
`SmallestSubset`). The proofs then use only `SumRemove`, `SumAdd`, `SumChange`,
`SumSubset` and `SumZero`: what a sum is after one element joins, leaves or changes.

Only model-checked: the liveness properties (`DueGetsResolved`, `SettlementCompletes`,
`EveryDayCoveredOrReported`, `StockLockReleased`, `BroadcastReachesListeners`,
`DeadConnectionsLeave`, `StopTakesEffect`, `RunEnds`, `RequestsEnd`), which are out of the prover's reach. Every
invariant and every action property that a passing run checks is also proved, the
refinement of `BettingMarket` included; `ResultMatchesOutcome`, `OutcomeFinal`,
`ResultsCountedOnce` and `BookBalances` under `ManualResolvers = {}`, as the run
`scheduled_only` has it.

## Findings

1. `late_bet`: a bet that passed "market is not open" is appended to the list of a market
   that is resolved already. If it comes before the walk of `_calculate_payouts` over the
   live list reaches the end, it is settled, by pools that lack its stake; if it comes
   after that, it stays `locked` and its stake is in no payout, because a resolved
   market is not settled again (`SettledPrefix` says that these are the only two cases).
2. `double_settlement`: between the status test and the writes of `resolve_market`
   stands the price feed's I/O; two resolvers give the market two outcomes in
   turn, and the bets, and the agents' statistics, are settled twice.

More behaviours that the documents do not lead one to expect have no run of their own:

- A settlement that reaches a bet of an agent between the two steps of `register_agent`
  (`agent_controller.py:76` and `:77`) raises a `KeyError` (`:220`). The market is
  resolved, so nobody settles it again: it has no summary, and the results behind that bet are
  never counted. With a run of the scheduler the due markets behind it wait for the next run.
  `SettlementCompletes` names this exception (`BettorRegistering`) and shows that there is no other.
- Status and payout of a bet are written on either side of `round()`
  (`market_controller.py:356`). With two resolvers of different outcomes a bet may end as lost
  with the payout of the resolver for whom it had won; `ResultMatchesOutcome` excludes that for one
  resolver. `WinnersKeepTheirStake` holds for any number: a bet that is won has its payout as
  soon as nobody is about to write it.
- A stake is not rounded (`:257`) and its payout is (`:357`): a winner may get less than its stake,
  by half of the sixth decimal at most, and nothing for a stake below that.
- A failing price lookup ends the loop of `resolve_due_markets`
  (`market_controller.py:438`), so the markets behind it in the dictionary wait as long as it
  fails, although README.md:35 says that markets are resolved on a daily cycle.
  `DueGetsResolved` states how far this goes (`HeldUp`): it holds up the markets behind it, and
  no other.
- The SDK's webhook server nests the agent's decision under `result` (`webhook.py:87`),
  where the backend does not look (`agent_runner.py:36`). The backend takes its default NO
  and bets, for an agent that decided not to bet, although README.md:71 says such a bet is
  skipped, and against one that just bet on YES. `Payload` and `Decision` in `AgentWebhook`
  model this mismatch.

What the properties do not say, although one might read it into them: `PoolsCountBets` and
`SettledPrefix` allow a settlement by pools that lack a bet's own stake, as the code does.
`VolumeNotInflated` is an upper bound: an update of an agent's volume that two concurrent bets
lose lowers it, which the model allows as the code does. `ResultsCountedOnce` compares results
with settled bets; they may exceed `total_bets`, which counts from the registration on. That a
claim of the pool overflows for good, or meets an account that cannot pay it, violates nothing:
the contract promises neither. `EveryDayCoveredOrReported` catches a day without markets that
passes in silence; one whose run failed and was logged is covered by the log.

## Plan

Done: `MarketController`, `MarketPool` with `BettingMarket`, `DailyMarkets`, `PriceFeed`,
`EventStream`, `Deployment`, `AgentWebhook`. Left, in this order:

1. `SdkAgent`: the agent's loop over markets and its tracker.
2. `Contracts`: FeeVault, AgentRegistry and OracleAggregator around `MarketPool`.
3. `Escrow`: the backend's book and the pool contract with the client between them
   (confirmed, simulated, timed out and confirmed later), once the client calls the
   methods the contract has.
4. Pure algorithms against reference definitions: `calculate_kelly_bet`,
   `parse_market_odds`, `_expected_payout`.

## What is not modelled

- The contract client and gateway, beyond what `MarketController` uses of them (they never
  raise): the method selectors the client sends are not the contract's, so every call
  ends as `simulated`.
- FeeVault, AgentRegistry, OracleAggregator: bookkeeping that no other modelled part
  reads. MarketFactory: its `create_market` calls `get_paused`, which the
  registry does not have, so it cannot succeed. The registry's fee and pause switch
  are written and read by nobody.
- The SDK's loop, tracker and stake arithmetic (in the plan);
  `connectors.py` (calls to language models: any answer is possible).
- `deploy.py`, the same sequence as `deploy_testnet.py` with a library's retries.
- The feed's list of texts; the documentation service (`sdk_service.py`, static text);
  the frontend (a user interface over the REST API whose payment hook is a mock); the
  legacy `algowager_sdk` (mock data); generated clients.
- The Go toolchain under `sdk/` in the repository: third-party code that no part of the
  program uses. It is nearly all of the repository's lines.

PROJECT.json says it of each component, and names the hazards no property covers with
the reason.
