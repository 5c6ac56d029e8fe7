------------------------- MODULE MarketController -------------------------
(***************************************************************************)
(* backend/controllers/market_controller.py with the part of               *)
(* agent_controller.py it calls: place_bet, resolve_market,                *)
(* resolve_due_markets, record_agent_bet, record_agent_settlement.         *)
(*                                                                         *)
(* The backend keeps everything in Python dictionaries that Flask's        *)
(* request threads and the APScheduler thread share without a lock.  A     *)
(* handler runs from one switch point to the next as one step.  CPython    *)
(* 3.10+ (README.md asks for it) switches threads only after a call or at  *)
(* the back edge of a loop, so a run of plain subscripts and assignments   *)
(* is one step, and everything else is split where a call stands between   *)
(* two accesses of shared state.                                           *)
(***************************************************************************)
EXTENDS Integers, Sequences, FiniteSets, Functions, Payouts

CONSTANTS
    Markets,         \* market ids (uuid4)
    SportsMarkets,   \* those of market_type "sports": resolved by hand only
    FlakyMarkets,    \* those whose price lookup may raise (no USD price returned)
    Agents,          \* agent ids
    Human,           \* stands for every bettor_type other than "agent"
    HttpThreads,     \* Flask request threads
    Scheduler,       \* the APScheduler thread running resolve_due_markets
    ManualResolvers, \* the request threads that call POST /resolve, /resolve-due
    Amounts,         \* stakes a request may carry
    Overrides,       \* what outcome_override.upper() may be
    None,            \* Python's None
    MaxBets,         \* bound: bets per market, the ones in flight included
    MaxTime          \* bound: the clock

Sides == {"YES", "NO"}
Bettors == Agents \cup {Human}
Procs == HttpThreads \cup {Scheduler}

ASSUME ModelAssumption ==
    /\ IsFiniteSet(Markets)
    /\ SportsMarkets \subseteq Markets
    /\ FlakyMarkets \subseteq Markets \ SportsMarkets
    /\ Human \notin Agents
    /\ Scheduler \notin HttpThreads
    /\ ManualResolvers \subseteq HttpThreads
    /\ Amounts \subseteq Nat \ {0}
    /\ Sides \subseteq Overrides
    /\ None \notin Overrides \cup Markets
    /\ MaxBets \in Nat
    /\ MaxTime \in Nat

VARIABLES
    store,      \* the ids of the dictionary markets, in insertion order
    status,     \* status[m]: "open" or "resolved"
    outcome,    \* outcome[m]: None until a resolver writes it
    closes,     \* closes[m]: closes_at
    pool,       \* pool[m][s]: yes_pool and no_pool
    volume,     \* volume[m]: total_volume
    bets,       \* bets[m]: the list market["bets"]
    summary,    \* summary[m]: settlement_summary, None or the pools it quotes
    registered, \* the keys of the dictionary agents
    tracked,    \* the keys of agents_stats and of agent_histories
    stats,      \* stats[a]: agents_stats[a]
    now,        \* the wall clock
    pc,         \* pc[t]: where thread t stands
    loc         \* loc[t]: the local variables of thread t

ledger == <<outcome, status, pool, volume, bets, summary>>
vars == <<store, closes, ledger, registered, tracked, stats, now, pc, loc>>

----------------------------------------------------------------------------
(* A bet as market["bets"] holds it.  hist is the state of the bet's entry *)
(* in agent_histories: absent, "open" or "resolved".                       *)
BetRecord == [bettor : Bettors, side : Sides, amount : Nat,
              status : {"locked", "won", "lost"}, payout : Nat,
              hist : {"absent", "open", "resolved"}]

StatsRecord == [total_bets : Nat, wins : Nat, losses : Nat,
                volume : Nat, profit : Int]

Summaries == [win : Nat, lose : Nat]

Labels == {"idle", "due_next",
           "bet_lock", "bet_pool", "bet_agent", "bet_volume",
           "res_price", "res_settle", "res_payout", "res_record", "res_stats"}

Locals == [m : Markets \cup {None}, bettor : Bettors, side : Sides,
           amount : Nat, vol : Nat, outcome : Overrides \cup {None},
           win : Nat, lose : Nat, i : Nat, n : Nat, pay : Nat,
           todo : Seq(Markets), at : Nat]

NoLocals == [m |-> None, bettor |-> Human, side |-> "YES", amount |-> 0,
             vol |-> 0, outcome |-> None, win |-> 0, lose |-> 0,
             i |-> 0, n |-> 0, pay |-> 0, todo |-> <<>>, at |-> 0]

NewStats == [total_bets |-> 0, wins |-> 0, losses |-> 0, volume |-> 0,
             profit |-> 0]

\* winning_pool and losing_pool: an outcome that is not "YES" pays from no_pool.
WinningPool(m, o) == pool[m][IF o = "YES" THEN "YES" ELSE "NO"]
LosingPool(m, o) == pool[m][IF o = "YES" THEN "NO" ELSE "YES"]

\* Mutant: the status is not looked at.
DueWhateverStatus(m, t) == m \notin SportsMarkets /\ closes[m] <= t

\* An open market past its closing time that the scheduler is to resolve.
Due(m, t) == /\ status[m] = "open"
             /\ m \notin SportsMarkets
             /\ closes[m] <= t

Goto(t, l, locals) == /\ pc' = [pc EXCEPT ![t] = l]
                      /\ loc' = [loc EXCEPT ![t] = locals]

\* A handler that ends, or raises, frees its request thread.
Return(t) == Goto(t, "idle", NoLocals)

\* resolve_market returns to the loop of resolve_due_markets when that called it.
ReturnFromResolve(t) ==
    IF loc[t].todo = <<>> THEN Return(t)
    ELSE Goto(t, "due_next", [NoLocals EXCEPT !.todo = loc[t].todo, !.at = loc[t].at])

Init ==
    /\ store \in {s \in [1..Cardinality(Markets) -> Markets] :
                    \A i, j \in DOMAIN s : s[i] = s[j] => i = j}
    /\ status = [m \in Markets |-> "open"]
    /\ outcome = [m \in Markets |-> None]
    /\ closes \in [Markets -> 1..MaxTime]
    /\ pool = [m \in Markets |-> [s \in Sides |-> 0]]
    /\ volume = [m \in Markets |-> 0]
    /\ bets = [m \in Markets |-> <<>>]
    /\ summary = [m \in Markets |-> None]
    /\ registered \in SUBSET Agents
    /\ tracked = registered
    /\ stats = [a \in Agents |-> NewStats]
    /\ now = 0
    /\ pc = [t \in Procs |-> "idle"]
    /\ loc = [t \in Procs |-> NoLocals]

----------------------------------------------------------------------------
(* place_bet *)

\* Bets of market m whose place_bet has passed the check and not yet appended.
InFlight(m) == {t \in Procs : pc[t] = "bet_lock" /\ loc[t].m = m}

\* The checks of place_bet and the bet's construction; lock_bet starts its I/O.
\* A market that is not open, a bad side or amount: the request raises, no step.
PlaceBetCheck(t) ==
    /\ pc[t] = "idle"
    /\ t \in HttpThreads
    /\ \E m \in Markets, b \in Bettors, s \in Sides, amount \in Amounts :
         /\ status[m] = "open"
         /\ Len(bets[m]) + Cardinality(InFlight(m)) < MaxBets
         /\ Goto(t, "bet_lock", [NoLocals EXCEPT !.m = m, !.bettor = b,
                                                 !.side = s, !.amount = amount])
    /\ UNCHANGED <<store, closes, ledger, registered, tracked, stats, now>>

\* Mutant: the newest bet goes to the front of the list.
PlaceBetInsertFirst(t) ==
    /\ pc[t] = "bet_lock"
    /\ LET l == loc[t]
           bet == [bettor |-> l.bettor, side |-> l.side, amount |-> l.amount,
                   status |-> "locked", payout |-> 0, hist |-> "absent"]
       IN  /\ bets' = [bets EXCEPT ![l.m] = <<bet>> \o @]
           /\ Goto(t, "bet_pool", [l EXCEPT !.n = Len(bets[l.m]) + 1])
    /\ UNCHANGED <<store, closes, outcome, status, pool, volume, summary,
                   registered, tracked, stats, now>>

\* lock_bet has returned (it never raises); the bet joins the list unconditionally.
PlaceBetAppend(t) ==
    /\ pc[t] = "bet_lock"
    /\ LET l == loc[t]
           bet == [bettor |-> l.bettor, side |-> l.side, amount |-> l.amount,
                   status |-> "locked", payout |-> 0, hist |-> "absent"]
       IN  /\ bets' = [bets EXCEPT ![l.m] = Append(@, bet)]
           /\ Goto(t, "bet_pool", [l EXCEPT !.n = Len(bets[l.m]) + 1])
    /\ UNCHANGED <<store, closes, outcome, status, pool, volume, summary,
                   registered, tracked, stats, now>>

\* Mutant: the stake joins the other side's pool.
PlaceBetWrongPool(t) ==
    /\ pc[t] = "bet_pool"
    /\ LET l == loc[t]
       IN  /\ pool' = [pool EXCEPT ![l.m][IF l.side = "YES" THEN "NO" ELSE "YES"] = @ + l.amount]
           /\ volume' = [volume EXCEPT ![l.m] = @ + l.amount]
           /\ IF l.bettor = Human THEN Return(t) ELSE Goto(t, "bet_agent", l)
    /\ UNCHANGED <<store, closes, outcome, status, bets, summary,
                   registered, tracked, stats, now>>

\* total_volume and the side's pool; for a human the handler is then done.
PlaceBetPool(t) ==
    /\ pc[t] = "bet_pool"
    /\ LET l == loc[t]
       IN  /\ pool' = [pool EXCEPT ![l.m][l.side] = @ + l.amount]
           /\ volume' = [volume EXCEPT ![l.m] = @ + l.amount]
           /\ IF l.bettor = Human THEN Return(t) ELSE Goto(t, "bet_agent", l)
    /\ UNCHANGED <<store, closes, outcome, status, bets, summary,
                   registered, tracked, stats, now>>

\* record_agent_bet up to the call of float(): total_bets is counted, the old
\* total_volume_algo is read.  An agent that is not registered is not counted; one whose
\* registration is under way has no statistics yet, and the request fails (KeyError).
RecordAgentBetCount(t) ==
    /\ pc[t] = "bet_agent"
    /\ LET l == loc[t]
       IN  IF l.bettor \in registered \cap tracked
           THEN /\ stats' = [stats EXCEPT ![l.bettor].total_bets = @ + 1]
                /\ Goto(t, "bet_volume", [l EXCEPT !.vol = stats[l.bettor].volume])
           ELSE /\ UNCHANGED stats
                /\ Return(t)
    /\ UNCHANGED <<store, closes, ledger, registered, tracked, now>>

\* Mutant: the volume read before is added once more.
RecordAgentBetVolumeTwice(t) ==
    /\ pc[t] = "bet_volume"
    /\ LET l == loc[t]
       IN  /\ stats' = [stats EXCEPT ![l.bettor].volume = @ + l.vol + l.amount]
           /\ bets' = [bets EXCEPT ![l.m][l.n].hist = "open"]
           /\ Return(t)
    /\ UNCHANGED <<store, closes, outcome, status, pool, volume, summary,
                   registered, tracked, now>>

\* ... and from there on: total_volume_algo is written from the value read
\* before the call, and the history entry is inserted.
RecordAgentBetVolume(t) ==
    /\ pc[t] = "bet_volume"
    /\ LET l == loc[t]
       IN  /\ stats' = [stats EXCEPT ![l.bettor].volume = l.vol + l.amount]
           /\ bets' = [bets EXCEPT ![l.m][l.n].hist = "open"]
           /\ Return(t)
    /\ UNCHANGED <<store, closes, outcome, status, pool, volume, summary,
                   registered, tracked, now>>

----------------------------------------------------------------------------
(* resolve_market *)

\* POST /<market_id>/resolve up to its first call: the price feed's I/O, or for
\* a sports market outcome_override.upper().  A market that is resolved returns
\* at once, a sports market without an override raises: no step.
ResolveCheck(t) ==
    /\ pc[t] = "idle"
    /\ t \in ManualResolvers
    /\ \E m \in Markets :
         /\ status[m] # "resolved"
         /\ \E o \in IF m \in SportsMarkets THEN Overrides ELSE {None} :
              Goto(t, "res_price", [NoLocals EXCEPT !.m = m, !.outcome = o])
    /\ UNCHANGED <<store, closes, ledger, registered, tracked, stats, now>>

\* Mutant: the status stays open until the settlement is over (and then, too).
ResolvePublishKeepsOpen(t) ==
    /\ pc[t] = "res_price"
    /\ LET l == loc[t]
       IN  \E o \in IF l.m \in SportsMarkets THEN {l.outcome} ELSE Sides :
             /\ outcome' = [outcome EXCEPT ![l.m] = o]
             /\ Goto(t, "res_settle",
                     [l EXCEPT !.outcome = o, !.win = WinningPool(l.m, o),
                               !.lose = LosingPool(l.m, o), !.i = 1])
    /\ UNCHANGED <<store, closes, status, pool, volume, bets, summary,
                   registered, tracked, stats, now>>

\* The price (or the override) decides; outcome and status are written without
\* a second look at the status, and _calculate_payouts reads the two pools.
ResolvePublish(t) ==
    /\ pc[t] = "res_price"
    /\ LET l == loc[t]
       IN  /\ \E o \in IF l.m \in SportsMarkets THEN {l.outcome} ELSE Sides :
                /\ outcome' = [outcome EXCEPT ![l.m] = o]
                /\ Goto(t, "res_settle",
                        [l EXCEPT !.outcome = o, !.win = WinningPool(l.m, o),
                                  !.lose = LosingPool(l.m, o), !.i = 1])
           /\ status' = [status EXCEPT ![l.m] = "resolved"]
    /\ UNCHANGED <<store, closes, pool, volume, bets, summary,
                   registered, tracked, stats, now>>

\* get_live_price raises: the request fails, and with it the loop of
\* resolve_due_markets that may have called it.
ResolvePriceFails(t) ==
    /\ pc[t] = "res_price"
    /\ loc[t].m \in FlakyMarkets
    /\ Return(t)
    /\ UNCHANGED <<store, closes, ledger, registered, tracked, stats, now>>

\* Mutants: YES always wins; the payout of a lost bet is the loss itself.
SettledAsYes(bet, o) ==
    IF bet.side = "YES" THEN [bet EXCEPT !.status = "won"]
    ELSE [bet EXCEPT !.status = "lost", !.payout = 0]

SettledWithLoss(bet, o) ==
    IF bet.side = o THEN [bet EXCEPT !.status = "won"]
    ELSE [bet EXCEPT !.status = "lost", !.payout = -bet.amount]

\* A bet as outcome o leaves it. What a winner is paid is not known yet.
Settled(bet, o) ==
    IF bet.side = o THEN [bet EXCEPT !.status = "won"]
    ELSE [bet EXCEPT !.status = "lost", !.payout = 0]

\* One turn of the loop of _calculate_payouts over the live list of bets, for a winner up to
\* the call of round().
CalculatePayout(t) ==
    /\ pc[t] = "res_settle"
    /\ LET l == loc[t]
       IN  /\ l.i <= Len(bets[l.m])
           /\ bets' = [bets EXCEPT ![l.m][l.i] = Settled(@, l.outcome)]
           /\ IF bets[l.m][l.i].side = l.outcome THEN Goto(t, "res_payout", l)
              ELSE Goto(t, "res_settle", [l EXCEPT !.i = @ + 1])
    /\ UNCHANGED <<store, closes, outcome, status, pool, volume, summary,
                   registered, tracked, stats, now>>

\* ... and from there on: the winner's payout is written, whatever became of its status.
WritePayout(t) ==
    /\ pc[t] = "res_payout"
    /\ LET l == loc[t]
       IN  /\ bets' = [bets EXCEPT ![l.m][l.i].payout =
                          Payout(bets[l.m][l.i].amount, l.win, l.lose)]
           /\ Goto(t, "res_settle", [l EXCEPT !.i = @ + 1])
    /\ UNCHANGED <<store, closes, outcome, status, pool, volume, summary,
                   registered, tracked, stats, now>>

\* Mutant: with nothing to settle the handler returns early.
SettlementDoneIfAny(t) ==
    /\ pc[t] = "res_settle"
    /\ loc[t].i > Len(bets[loc[t].m])
    /\ IF loc[t].i = 1 THEN ReturnFromResolve(t)
       ELSE Goto(t, "res_record", [loc[t] EXCEPT !.n = loc[t].i - 1, !.i = 1])
    /\ UNCHANGED <<store, closes, ledger, registered, tracked, stats, now>>

\* The loop has reached the end of the list: settlement holds the first n bets.
\* settle_market_gateway does its I/O and never raises.
SettlementDone(t) ==
    /\ pc[t] = "res_settle"
    /\ loc[t].i > Len(bets[loc[t].m])
    /\ Goto(t, "res_record", [loc[t] EXCEPT !.n = loc[t].i - 1, !.i = 1])
    /\ UNCHANGED <<store, closes, ledger, registered, tracked, stats, now>>

\* Mutants: a lost bet is counted as won as well; the stake is not subtracted.
WithBothResults(st, bet, pay, won) ==
    [st EXCEPT !.wins = @ + 1,
               !.losses = IF won THEN @ ELSE @ + 1,
               !.profit = @ + Net(pay, bet.amount)]

WithGrossProfit(st, bet, pay, won) ==
    [st EXCEPT !.wins = IF won THEN @ + 1 ELSE @,
               !.losses = IF won THEN @ ELSE @ + 1,
               !.profit = @ + pay]

\* An agent's statistics with one more result, won or lost, of the bet.
WithResult(st, bet, pay, won) ==
    [st EXCEPT !.wins = IF won THEN @ + 1 ELSE @,
               !.losses = IF won THEN @ ELSE @ + 1,
               !.profit = @ + Net(pay, bet.amount)]

\* The next bet of the settlement: record_agent_settlement is called for an agent's, with
\* the payout that the shared bet holds now.
RecordNext(t) ==
    /\ pc[t] = "res_record"
    /\ LET l == loc[t]
           bet == bets[l.m][l.i]
       IN  /\ l.i <= l.n
           /\ IF bet.bettor = Human THEN Goto(t, "res_record", [l EXCEPT !.i = @ + 1])
              ELSE Goto(t, "res_stats", [l EXCEPT !.pay = bet.payout])
    /\ UNCHANGED <<store, closes, ledger, registered, tracked, stats, now>>

\* record_agent_settlement: the payout it was called with, the result of this resolver's
\* outcome. An agent that is not registered is passed over.
RecordAgentSettlement(t) ==
    /\ pc[t] = "res_stats"
    /\ LET l == loc[t]
           bet == bets[l.m][l.i]
           won == bet.side = l.outcome
       IN  /\ bet.bettor \in registered => bet.bettor \in tracked
           /\ IF bet.bettor \in registered
              THEN /\ stats' = [stats EXCEPT ![bet.bettor] = WithResult(@, bet, l.pay, won)]
                   /\ bets' = IF bet.hist = "absent" THEN bets
                              ELSE [bets EXCEPT ![l.m][l.i].hist = "resolved"]
              ELSE UNCHANGED <<stats, bets>>
           /\ Goto(t, "res_record", [l EXCEPT !.i = @ + 1])
    /\ UNCHANGED <<store, closes, outcome, status, pool, volume, summary,
                   registered, tracked, now>>

\* An agent whose registration is under way has no statistics: the KeyError ends the
\* settlement, and the loop of resolve_due_markets, with the market resolved.
RecordFails(t) ==
    /\ pc[t] = "res_stats"
    /\ LET l == loc[t]
       IN  bets[l.m][l.i].bettor \in registered \ tracked
    /\ Return(t)
    /\ UNCHANGED <<store, closes, ledger, registered, tracked, stats, now>>

\* settlement_summary quotes the pools, rounded, as they are now, not as they were paid.
ResolveFinish(t) ==
    /\ pc[t] = "res_record"
    /\ LET l == loc[t]
       IN  /\ l.i > l.n
           /\ summary' = [summary EXCEPT ![l.m] =
                 [win |-> Rounded(WinningPool(l.m, l.outcome), 1),
                  lose |-> Rounded(LosingPool(l.m, l.outcome), 1)]]
    /\ ReturnFromResolve(t)
    /\ UNCHANGED <<store, closes, outcome, status, pool, volume, bets,
                   registered, tracked, stats, now>>

----------------------------------------------------------------------------
(* resolve_due_markets: the scheduler's job, and POST /resolve-due *)

\* The snapshot list(markets.items()) and the time the loop compares with.
ResolveDueStart(t) ==
    /\ pc[t] = "idle"
    /\ t \in ManualResolvers \cup {Scheduler}
    /\ store # <<>>
    /\ Goto(t, "due_next", [NoLocals EXCEPT !.todo = store, !.at = now])
    /\ UNCHANGED <<store, closes, ledger, registered, tracked, stats, now>>

\* Mutant: a market that is not due ends the loop (break for continue).
ResolveDueBreak(t) ==
    /\ pc[t] = "due_next"
    /\ ~Due(Head(loc[t].todo), loc[t].at)
    /\ Return(t)
    /\ UNCHANGED <<store, closes, ledger, registered, tracked, stats, now>>

\* The next market of the snapshot is passed over.
ResolveDueSkip(t) ==
    /\ pc[t] = "due_next"
    /\ ~Due(Head(loc[t].todo), loc[t].at)
    /\ IF Tail(loc[t].todo) = <<>> THEN Return(t)
       ELSE Goto(t, "due_next", [loc[t] EXCEPT !.todo = Tail(@)])
    /\ UNCHANGED <<store, closes, ledger, registered, tracked, stats, now>>

\* The next market of the snapshot is due: resolve_market is called.
ResolveDueCall(t) ==
    /\ pc[t] = "due_next"
    /\ Due(Head(loc[t].todo), loc[t].at)
    /\ Goto(t, "res_price", [loc[t] EXCEPT !.m = Head(loc[t].todo), !.todo = Tail(@)])
    /\ UNCHANGED <<store, closes, ledger, registered, tracked, stats, now>>

----------------------------------------------------------------------------
(* The rest of the world *)

\* register_agent up to the call of _ensure_agent_stats: the agent is in agents.
RegisterAgent(a) ==
    /\ a \notin registered
    /\ registered' = registered \cup {a}
    /\ UNCHANGED <<store, closes, ledger, tracked, stats, now, pc, loc>>

\* _ensure_agent_stats: an agent that was never here before gets statistics and a history.
EnsureAgentStats(a) ==
    /\ a \in registered \ tracked
    /\ tracked' = tracked \cup {a}
    /\ UNCHANGED <<store, closes, ledger, registered, stats, now, pc, loc>>

Tick ==
    /\ now < MaxTime
    /\ now' = now + 1
    /\ UNCHANGED <<store, closes, ledger, registered, tracked, stats, pc, loc>>

PlaceBet(t) == \/ PlaceBetCheck(t) \/ PlaceBetAppend(t) \/ PlaceBetPool(t)
               \/ RecordAgentBetCount(t) \/ RecordAgentBetVolume(t)

\* The steps of a handler that is under way.
ResolveSteps(t) == \/ ResolvePublish(t) \/ ResolvePriceFails(t)
                   \/ CalculatePayout(t) \/ WritePayout(t) \/ SettlementDone(t)
                   \/ RecordNext(t) \/ RecordAgentSettlement(t) \/ RecordFails(t)
                   \/ ResolveFinish(t)
                   \/ ResolveDueSkip(t) \/ ResolveDueCall(t)

Next == \/ \E t \in Procs : \/ PlaceBet(t)
                            \/ ResolveCheck(t) \/ ResolveDueStart(t)
                            \/ ResolveSteps(t)
        \/ \E a \in Agents : RegisterAgent(a) \/ EnsureAgentStats(a)
        \/ Tick

Spec == Init /\ [][Next]_vars
----------------------------------------------------------------------------
(* Properties *)

TypeOK ==
    /\ store \in Seq(Markets)
    /\ status \in [Markets -> {"open", "resolved"}]
    /\ outcome \in [Markets -> Overrides \cup {None}]
    /\ closes \in [Markets -> Nat]
    /\ pool \in [Markets -> [Sides -> Nat]]
    /\ volume \in [Markets -> Nat]
    /\ bets \in [Markets -> Seq(BetRecord)]
    /\ summary \in [Markets -> Summaries \cup {None}]
    /\ registered \subseteq Agents
    /\ tracked \subseteq Agents
    /\ stats \in [Agents -> StatsRecord]
    /\ now \in Nat
    /\ pc \in [Procs -> Labels]
    /\ loc \in [Procs -> Locals]

\* The bets of the whole book, each named by its market and its place in the list.
BetKeys == UNION {{<<m, k>> : k \in DOMAIN bets[m]} : m \in Markets}
BetAt(key) == bets[key[1]][key[2]]
SettledBets(a) == {key \in BetKeys : BetAt(key).bettor = a /\ BetAt(key).status # "locked"}

\* The pools are the stakes of the list: a side's pool lacks exactly the stakes
\* of the handlers between bets.append and the pool's update.
PoolsCountBets ==
    \A m \in Markets : \A s \in Sides :
        pool[m][s] + SumFunctionOnSet([t \in Procs |-> loc[t].amount],
                        {t \in Procs : pc[t] = "bet_pool" /\ loc[t].m = m /\ loc[t].side = s})
          = SumFunctionOnSet([k \in DOMAIN bets[m] |-> bets[m][k].amount],
                        {k \in DOMAIN bets[m] : bets[m][k].side = s})

\* Bets are settled from the front of the list without a gap, whoever settles:
\* a bet left "locked" in a resolved market is one that came after all of them.
SettledPrefix ==
    \A m \in Markets : \A k \in DOMAIN bets[m] : \A j \in 1..k :
        bets[m][k].status # "locked" => bets[m][j].status # "locked"

\* No bet is won or lost while its market still takes bets.
SettledOnlyIfResolved ==
    \A m \in Markets : \A k \in DOMAIN bets[m] :
        bets[m][k].status # "locked" => status[m] = "resolved"

\* The threads that have marked bet k of market m as won and not yet written its payout.
Paying(m, k) == {t \in Procs : pc[t] = "res_payout" /\ loc[t].m = m /\ loc[t].i = k}

\* A bet that won is paid its stake at least (as far as six decimals can say), whatever the
\* pools were when it was settled and whoever settles it too; only between the two writes of
\* _calculate_payouts it may be without. A bet that is locked is paid nothing.
WinnersKeepTheirStake ==
    \A m \in Markets : \A k \in DOMAIN bets[m] :
        LET bet == bets[m][k]
        IN  /\ bet.status = "won" /\ Paying(m, k) = {} => bet.payout >= Rounded(bet.amount, 1)
            /\ bet.status = "locked" => bet.payout = 0

\* The result of a settled bet is the one its market's outcome gives it, and nobody but a
\* winner holds a payout.
ResultMatchesOutcome ==
    \A m \in Markets : \A k \in DOMAIN bets[m] :
        LET bet == bets[m][k]
        IN  /\ bet.status # "locked" => (bet.status = "won" <=> bet.side = outcome[m])
            /\ bet.payout > 0 => bet.status = "won"

\* An agent's wins and losses count each settled bet at most once.
ResultsCountedOnce ==
    \A a \in Agents : stats[a].wins + stats[a].losses <= Cardinality(SettledBets(a))

\* When every settled bet of an agent has been counted, its wins and its profit
\* are those of the bets.
BookBalances ==
    \A a \in Agents :
        stats[a].wins + stats[a].losses = Cardinality(SettledBets(a)) =>
            /\ stats[a].wins = Cardinality({key \in SettledBets(a) : BetAt(key).status = "won"})
            /\ stats[a].profit = SumFunctionOnSet(
                   [key \in BetKeys |-> Net(BetAt(key).payout, BetAt(key).amount)], SettledBets(a))

\* Updates of total_volume_algo may be lost, never invented.
VolumeNotInflated ==
    \A a \in Agents :
        stats[a].volume <= SumFunctionOnSet([key \in BetKeys |-> BetAt(key).amount],
                                            {key \in BetKeys : BetAt(key).bettor = a})

\* Once a market has an outcome it keeps it, and it stays resolved.
OutcomeFinal ==
    [][\A m \in Markets : outcome[m] # None => /\ outcome'[m] = outcome[m]
                                               /\ status'[m] = "resolved"]_vars

\* place_bet's "market is not open" (market_controller.py:284): a bet joins a
\* market only while that is open.
BetsOnlyWhileOpen ==
    [][\A m \in Markets : bets'[m] # bets[m] /\ Len(bets'[m]) > Len(bets[m]) => status[m] = "open"]_vars

----------------------------------------------------------------------------
(* Liveness.  APScheduler starts resolve_due_markets again every minute, and *)
(* a started thread keeps running: its I/O is bounded by request timeouts.   *)

FairSpec == /\ Spec
            /\ \A t \in Procs : WF_vars(PlaceBet(t) /\ pc[t] # "idle")
            /\ \A t \in Procs : WF_vars(ResolveSteps(t))
            /\ WF_vars(ResolveDueStart(Scheduler))

\* A due market stands before m, and its price lookup may fail: the exception ends the run
\* of resolve_due_markets before m's turn.
HeldUp(m) ==
    \E i, j \in DOMAIN store :
        i < j /\ store[j] = m /\ store[i] \in FlakyMarkets /\ Due(store[i], now)

\* README.md:35 "Auto-creates and resolves markets on a daily cycle": a market past its
\* closing time is resolved, unless it waits for a sports result. One failing lookup holds up
\* no more than the markets that stand behind it in the dictionary.
DueGetsResolved ==
    \A m \in Markets \ FlakyMarkets : Due(m, now) ~> (status[m] = "resolved" \/ HeldUp(m))

\* An agent with a bet in m is between the two steps of its registration.
BettorRegistering(m) == \E k \in DOMAIN bets[m] : bets[m][k].bettor \in registered \ tracked

Settling(m) ==
    \E t \in Procs : /\ pc[t] \in {"res_settle", "res_payout", "res_record", "res_stats"}
                     /\ loc[t].m = m

\* A settlement that has begun ends with the settlement summary: the payouts, the gateway and
\* the statistics are all behind it. Only an agent that is just being registered ends it
\* before, for good: the market is resolved, and nobody settles it a second time.
SettlementCompletes ==
    \A m \in Markets : Settling(m) ~> summary[m] # None \/ BettorRegistering(m)
=============================================================================
