---------------------------- MODULE DailyMarkets ----------------------------
(***************************************************************************)
(* How markets come to be: ensure_daily_markets and create_market of       *)
(* backend/controllers/market_controller.py, with the agents' automatic    *)
(* bets (trigger_active_agents_for_market, agent_controller.py).  The job  *)
(* of the scheduler and the requests POST /seed and POST /create run them  *)
(* on threads of their own, over dictionaries nobody locks: a dictionary   *)
(* that grows while it is iterated raises in the loop's next round.        *)
(*                                                                         *)
(* Steps are cut as in MarketController.  What place_bet does with a bet's *)
(* amount is there; here a market keeps who bet.  The unit of time is the  *)
(* day from one closing hour to the next.                                  *)
(***************************************************************************)
EXTENDS Integers, Sequences, FiniteSets, SequencesExt

CONSTANTS
    Assets,       \* SUPPORTED_ASSETS, in order
    FlakyAssets,  \* those whose price lookup may raise
    Agents,       \* agent ids
    Interests,    \* the sets of assets an agent may bet on
    HttpThreads,  \* Flask request threads
    Scheduler,    \* the APScheduler thread running ensure_daily_markets
    None,         \* a market nobody's daily run created
    MaxRequests,  \* bound: requests that create markets
    MaxResolved,  \* bound: markets resolved early or late
    MaxDay        \* bound: the clock

AssetIds == ToSet(Assets)
Threads == HttpThreads \cup {Scheduler}

ASSUME DailyAssumption ==
    /\ Assets \in Seq(AssetIds)
    /\ \A i, j \in 1..Len(Assets) : Assets[i] = Assets[j] => i = j
    /\ FlakyAssets \subseteq AssetIds
    /\ Interests \subseteq SUBSET AssetIds
    /\ Scheduler \notin HttpThreads
    /\ None \notin Threads
    /\ MaxRequests \in Nat
    /\ MaxResolved \in Nat
    /\ MaxDay \in Nat

VARIABLES
    markets,   \* the values of the dictionary markets, in insertion order
    agents,    \* the keys of the dictionary agents, in insertion order
    wants,     \* wants[a]: the assets agent a bets on, by status and specialization
    today,     \* the day; a market created now closes at today + 1
    next_run,  \* the day of the scheduler's next daily run
    requests,  \* requests made so far
    reported,  \* the closing times whose scheduled run raised or was skipped
    pc,        \* pc[t]: where thread t stands
    loc        \* loc[t]: the local variables of thread t

vars == <<markets, agents, wants, today, next_run, requests, reported, pc, loc>>

\* by is the thread whose daily run created the market, None after POST /create.
MarketRecord == [asset : AssetIds, closes : Nat, open : BOOLEAN,
                 by : Threads \cup {None}, bettors : SUBSET Agents]

\* What run_agent made of an agent: good is whether place_bet will take it.
Decisions == [agent : Agents, good : BOOLEAN]

Labels == {"idle", "existing", "scan", "loop", "build", "trigger", "ask", "place", "lock"}

Locals == [close : Nat, existing : SUBSET AssetIds, k : Nat, m : Nat,
           size : Nat, i : Nat, todo : Seq(Decisions), daily : BOOLEAN]

NoLocals == [close |-> 0, existing |-> {}, k |-> 0, m |-> 0, size |-> 0,
             i |-> 0, todo |-> <<>>, daily |-> FALSE]

Goto(t, l, locals) == /\ pc' = [pc EXCEPT ![t] = l]
                      /\ loc' = [loc EXCEPT ![t] = locals]

\* An exception ends the handler; APScheduler logs that of the scheduled run.
Raise(t) ==
    /\ Goto(t, "idle", NoLocals)
    /\ reported' = IF t = Scheduler THEN reported \cup {loc[t].close} ELSE reported

Init ==
    /\ markets = <<>>
    /\ agents = <<>>
    /\ wants = [a \in Agents |-> {}]
    /\ today = 0
    /\ next_run = 0
    /\ requests = 0
    /\ reported = {}
    /\ pc = [t \in Threads |-> "idle"]
    /\ loc = [t \in Threads |-> NoLocals]

----------------------------------------------------------------------------
(* ensure_daily_markets *)

EnsureStart(t) ==
    Goto(t, "existing", [NoLocals EXCEPT !.close = today + 1, !.daily = TRUE])

\* The interval job fires once a day; a run still going has the next one skipped.
ScheduledRun ==
    /\ next_run <= today
    /\ next_run' = today + 1
    /\ IF pc[Scheduler] = "idle"
       THEN EnsureStart(Scheduler) /\ UNCHANGED reported
       ELSE reported' = reported \cup {today + 1} /\ UNCHANGED <<pc, loc>>
    /\ UNCHANGED <<markets, agents, wants, today, requests>>

\* POST /seed
SeedRequest(t) ==
    /\ t \in HttpThreads
    /\ pc[t] = "idle"
    /\ requests < MaxRequests
    /\ requests' = requests + 1
    /\ EnsureStart(t)
    /\ UNCHANGED <<markets, agents, wants, today, next_run, reported>>

\* The iteration over markets.values() starts.
ScanStart(t) ==
    /\ pc[t] = "existing"
    /\ Goto(t, "scan", [loc[t] EXCEPT !.size = Len(markets), !.i = 1])
    /\ UNCHANGED <<markets, agents, wants, today, next_run, requests, reported>>

\* Mutant: the closing time is left out of the key.
ScanMarketAnyDay(t) ==
    /\ pc[t] = "scan"
    /\ Len(markets) = loc[t].size
    /\ loc[t].i <= loc[t].size
    /\ LET market == markets[loc[t].i]
           found == IF market.open THEN {market.asset} ELSE {}
       IN  Goto(t, "scan", [loc[t] EXCEPT !.i = @ + 1, !.existing = @ \cup found])
    /\ UNCHANGED <<markets, agents, wants, today, next_run, requests, reported>>

\* The key of the next open market; only those of this closing time can be looked up.
ScanMarket(t) ==
    /\ pc[t] = "scan"
    /\ Len(markets) = loc[t].size
    /\ loc[t].i <= loc[t].size
    /\ LET market == markets[loc[t].i]
           found == IF market.open /\ market.closes = loc[t].close
                    THEN {market.asset} ELSE {}
       IN  Goto(t, "scan", [loc[t] EXCEPT !.i = @ + 1, !.existing = @ \cup found])
    /\ UNCHANGED <<markets, agents, wants, today, next_run, requests, reported>>

\* Mutant: the last market is not looked at.
ScanEndEarly(t) ==
    /\ pc[t] = "scan"
    /\ Len(markets) = loc[t].size
    /\ loc[t].i >= loc[t].size
    /\ Goto(t, "loop", [loc[t] EXCEPT !.k = 1, !.size = 0, !.i = 0])
    /\ UNCHANGED <<markets, agents, wants, today, next_run, requests, reported>>

ScanEnd(t) ==
    /\ pc[t] = "scan"
    /\ Len(markets) = loc[t].size
    /\ loc[t].i > loc[t].size
    /\ Goto(t, "loop", [loc[t] EXCEPT !.k = 1, !.size = 0, !.i = 0])
    /\ UNCHANGED <<markets, agents, wants, today, next_run, requests, reported>>

\* RuntimeError: dictionary changed size during iteration.
ScanFails(t) ==
    /\ pc[t] = "scan"
    /\ Len(markets) # loc[t].size
    /\ Raise(t)
    /\ UNCHANGED <<markets, agents, wants, today, next_run, requests>>

\* Assets[k] has an open market of this closing time already.
SkipAsset(t) ==
    /\ pc[t] = "loop"
    /\ loc[t].k <= Len(Assets)
    /\ Assets[loc[t].k] \in loc[t].existing
    /\ Goto(t, "loop", [loc[t] EXCEPT !.k = @ + 1])
    /\ UNCHANGED <<markets, agents, wants, today, next_run, requests, reported>>

CreateAsset(t) ==
    /\ pc[t] = "loop"
    /\ loc[t].k <= Len(Assets)
    /\ Assets[loc[t].k] \notin loc[t].existing
    /\ Goto(t, "build", loc[t])
    /\ UNCHANGED <<markets, agents, wants, today, next_run, requests, reported>>

EnsureReturn(t) ==
    /\ pc[t] = "loop"
    /\ loc[t].k > Len(Assets)
    /\ Goto(t, "idle", NoLocals)
    /\ UNCHANGED <<markets, agents, wants, today, next_run, requests, reported>>

----------------------------------------------------------------------------
(* create_market *)

\* POST /create, for any closing time the caller likes.
CreateRequest(t, k, close) ==
    /\ t \in HttpThreads
    /\ pc[t] = "idle"
    /\ requests < MaxRequests
    /\ requests' = requests + 1
    /\ Goto(t, "build", [NoLocals EXCEPT !.close = close, !.k = k])
    /\ UNCHANGED <<markets, agents, wants, today, next_run, reported>>

\* Mutant: the exception is caught and the run ends without a word.
BuildFailsSilently(t) ==
    /\ pc[t] = "build"
    /\ Assets[loc[t].k] \in FlakyAssets
    /\ Goto(t, "idle", NoLocals)
    /\ UNCHANGED <<markets, agents, wants, today, next_run, requests, reported>>

\* The opening price cannot be had.
BuildFails(t) ==
    /\ pc[t] = "build"
    /\ Assets[loc[t].k] \in FlakyAssets
    /\ Raise(t)
    /\ UNCHANGED <<markets, agents, wants, today, next_run, requests>>

\* The price is there and the contract deployed, or not: the market is stored.
StoreMarket(t) ==
    /\ pc[t] = "build"
    /\ markets' = Append(markets,
           [asset |-> Assets[loc[t].k], closes |-> loc[t].close, open |-> TRUE,
            by |-> IF loc[t].daily THEN t ELSE None, bettors |-> {}])
    /\ Goto(t, "trigger", [loc[t] EXCEPT !.m = Len(markets) + 1])
    /\ UNCHANGED <<agents, wants, today, next_run, requests, reported>>

\* trigger_active_agents_for_market starts to iterate over agents.items().
TriggerStart(t) ==
    /\ pc[t] = "trigger"
    /\ Goto(t, "ask", [loc[t] EXCEPT !.size = Len(agents), !.i = 1])
    /\ UNCHANGED <<markets, agents, wants, today, next_run, requests, reported>>

\* The next agent is inactive, of another specialization or fails to answer, or it
\* decides.  run_agent's wait for the model is between this step and the next.
AskAgent(t) ==
    /\ pc[t] = "ask"
    /\ Len(agents) = loc[t].size
    /\ loc[t].i <= loc[t].size
    /\ LET a == agents[loc[t].i]
       IN  \/ Goto(t, "ask", [loc[t] EXCEPT !.i = @ + 1])
           \/ /\ Assets[loc[t].k] \in wants[a]
              /\ \E good \in BOOLEAN :
                    Goto(t, "ask", [loc[t] EXCEPT !.i = @ + 1,
                           !.todo = Append(@, [agent |-> a, good |-> good])])
    /\ UNCHANGED <<markets, agents, wants, today, next_run, requests, reported>>

AskEnd(t) ==
    /\ pc[t] = "ask"
    /\ Len(agents) = loc[t].size
    /\ loc[t].i > loc[t].size
    /\ Goto(t, "place", [loc[t] EXCEPT !.size = 0, !.i = 0])
    /\ UNCHANGED <<markets, agents, wants, today, next_run, requests, reported>>

\* RuntimeError again: an agent registered while another one was deciding.
AskFails(t) ==
    /\ pc[t] = "ask"
    /\ Len(agents) # loc[t].size
    /\ Raise(t)
    /\ UNCHANGED <<markets, agents, wants, today, next_run, requests>>

\* place_bet's checks pass; lock_bet starts.
AutoBetCheck(t) ==
    /\ pc[t] = "place"
    /\ loc[t].todo # <<>>
    /\ markets[loc[t].m].open
    /\ Head(loc[t].todo).good
    /\ Goto(t, "lock", loc[t])
    /\ UNCHANGED <<markets, agents, wants, today, next_run, requests, reported>>

\* The market was resolved meanwhile, or the side or the amount is refused: the
\* ValueError ends create_market and the run that called it.
AutoBetFails(t) ==
    /\ pc[t] = "place"
    /\ loc[t].todo # <<>>
    /\ ~(markets[loc[t].m].open /\ Head(loc[t].todo).good)
    /\ Raise(t)
    /\ UNCHANGED <<markets, agents, wants, today, next_run, requests>>

\* Mutant: the whole decision is stored as the bettor.
AutoBetWholeDecision(t) ==
    /\ pc[t] = "lock"
    /\ markets' = [markets EXCEPT ![loc[t].m].bettors = @ \cup {Head(loc[t].todo)}]
    /\ Goto(t, "place", [loc[t] EXCEPT !.todo = Tail(@)])
    /\ UNCHANGED <<agents, wants, today, next_run, requests, reported>>

AutoBetAppend(t) ==
    /\ pc[t] = "lock"
    /\ markets' = [markets EXCEPT ![loc[t].m].bettors = @ \cup {Head(loc[t].todo).agent}]
    /\ Goto(t, "place", [loc[t] EXCEPT !.todo = Tail(@)])
    /\ UNCHANGED <<agents, wants, today, next_run, requests, reported>>

\* create_market returns, to the loop over the assets when that called it.
CreateReturn(t) ==
    /\ pc[t] = "place"
    /\ loc[t].todo = <<>>
    /\ IF loc[t].daily
       THEN Goto(t, "loop", [loc[t] EXCEPT !.k = @ + 1, !.m = 0])
       ELSE Goto(t, "idle", NoLocals)
    /\ UNCHANGED <<markets, agents, wants, today, next_run, requests, reported>>

----------------------------------------------------------------------------
(* The other threads *)

\* resolve_market, by the scheduler or by hand: MarketController has the rest of it.
Resolve(i) ==
    /\ markets[i].open
    /\ Cardinality({j \in 1..Len(markets) : ~markets[j].open}) < MaxResolved
    /\ markets' = [markets EXCEPT ![i].open = FALSE]
    /\ UNCHANGED <<agents, wants, today, next_run, requests, reported, pc, loc>>

\* register_agent, again perhaps, with another specialization or status.
RegisterAgent(a, w) ==
    /\ agents' = IF a \in ToSet(agents) THEN agents ELSE Append(agents, a)
    /\ wants' = [wants EXCEPT ![a] = w]
    /\ UNCHANGED <<markets, today, next_run, requests, reported, pc, loc>>

\* The closing hour; the daily job has run once since the last one.
Tick ==
    /\ today < MaxDay
    /\ next_run > today
    /\ today' = today + 1
    /\ UNCHANGED <<markets, agents, wants, next_run, requests, reported, pc, loc>>

EnsureSteps(t) == \/ ScanStart(t) \/ ScanMarket(t) \/ ScanEnd(t) \/ ScanFails(t)
                  \/ SkipAsset(t) \/ CreateAsset(t) \/ EnsureReturn(t)

CreateSteps(t) == \/ BuildFails(t) \/ StoreMarket(t)
                  \/ TriggerStart(t) \/ AskAgent(t) \/ AskEnd(t) \/ AskFails(t)
                  \/ AutoBetCheck(t) \/ AutoBetFails(t) \/ AutoBetAppend(t)
                  \/ CreateReturn(t)

Next ==
    \/ ScheduledRun
    \/ \E t \in Threads : EnsureSteps(t) \/ CreateSteps(t) \/ SeedRequest(t)
    \/ \E t \in HttpThreads, k \in 1..Len(Assets), close \in 1..(MaxDay + 1) :
          CreateRequest(t, k, close)
    \/ \E i \in 1..Len(markets) : Resolve(i)
    \/ \E a \in Agents, w \in Interests : RegisterAgent(a, w)
    \/ Tick

Spec == Init /\ [][Next]_vars

\* Handlers go on, and APScheduler fires the job when it is time.
FairSpec ==
    /\ Spec
    /\ WF_vars(ScheduledRun)
    /\ \A t \in Threads : WF_vars(EnsureSteps(t) \/ CreateSteps(t))

----------------------------------------------------------------------------
(* Properties *)

TypeOK ==
    /\ markets \in Seq(MarketRecord)
    /\ agents \in Seq(Agents)
    /\ wants \in [Agents -> SUBSET AssetIds]
    /\ today \in Nat
    /\ next_run \in Nat
    /\ requests \in Nat
    /\ reported \subseteq Nat
    /\ pc \in [Threads -> Labels]
    /\ loc \in [Threads -> Locals]

\* There is a market for the asset that closes then, open or resolved.
Covered(asset, close) ==
    \E i \in 1..Len(markets) : markets[i].asset = asset /\ markets[i].closes = close

\* The runs of one thread open an asset's market for a day once, whatever other
\* threads create and resolve meanwhile: with the scheduler alone there are no
\* duplicates, and as many as racing threads at most (market_controller.py:211-220).
NoThreadCreatesTwice ==
    \A i, j \in 1..Len(markets) :
        /\ markets[i].open /\ markets[j].open
        /\ markets[i].asset = markets[j].asset
        /\ markets[i].closes = markets[j].closes
        /\ markets[i].by = markets[j].by /\ markets[i].by # None
        => i = j

\* A run of ensure_daily_markets that returns leaves every supported asset with a
\* market for its day: what it skipped was really there.
CompletedRunCoversAllAssets ==
    [][\A t \in Threads :
          pc[t] = "loop" /\ pc'[t] = "idle" =>
              \A a \in AssetIds : Covered(a, loc[t].close)]_vars

\* A day's markets are never missing in silence: each day every asset has a market in
\* the end, or the day's scheduled run raised or was skipped.
EveryDayCoveredOrReported ==
    \A d \in 0..MaxDay :
        (today = d) ~> \/ \A a \in AssetIds : Covered(a, d + 1)
                       \/ (d + 1) \in reported
=============================================================================
