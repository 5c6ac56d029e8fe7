------------------------- MODULE DailyMarketsProofs -------------------------
(* What holds of DailyMarkets for every value of its constants. *)
EXTENDS DailyMarkets, TLAPS

\* The labels of create_market, and those where its market is stored.
Creating == {"build", "trigger", "ask", "place", "lock"}
Stored == Creating \ {"build"}

\* What a thread's program counter says of its local variables.
ThreadOK(p, l, n) ==
    /\ p \in {"scan", "ask"} => l.i >= 1
    /\ p \in {"existing", "scan", "loop"} => l.daily
    /\ p = "loop" => l.k >= 1
    /\ p \in Creating => l.k \in 1..Len(Assets)
    /\ p \in Stored => l.m \in 1..n
    /\ p = "lock" => l.todo # <<>>

LocalsOK == \A t \in Threads : ThreadOK(pc[t], loc[t], Len(markets))

TypeInv == TypeOK /\ LocalsOK

LEMMA AppendFacts ==
    ASSUME NEW S, NEW s \in Seq(S), NEW x \in S
    PROVE  /\ Append(s, x) \in Seq(S)
           /\ Len(Append(s, x)) = Len(s) + 1
           /\ Append(s, x)[Len(s) + 1] = x
           /\ \A i \in 1..Len(s) : Append(s, x)[i] = s[i]
  OBVIOUS

LEMMA TailFacts ==
    ASSUME NEW S, NEW s \in Seq(S), s # <<>>
    PROVE  Head(s) \in S /\ Tail(s) \in Seq(S)
  OBVIOUS

\* AssetIds are the entries of Assets.
LEMMA AssetsFacts ==
    /\ Assets \in Seq(AssetIds) /\ Len(Assets) \in Nat
    /\ \A i \in 1..Len(Assets) : Assets[i] \in AssetIds
    /\ \A a \in AssetIds : \E i \in 1..Len(Assets) : Assets[i] = a
<1>1. Assets \in Seq(AssetIds)
  BY DailyAssumption
<1>2. AssetIds = {Assets[i] : i \in 1..Len(Assets)}
  BY <1>1 DEF AssetIds, ToSet
<1> QED
  BY <1>1, <1>2

\* A step of thread t that goes to label l with locals r keeps every thread well typed
\* when r is, and no list of markets shrinks.
LEMMA GotoKeeps ==
    ASSUME TypeInv, NEW t \in Threads, NEW l \in Labels, NEW r \in Locals,
           Goto(t, l, r),
           Len(markets') \in Nat, Len(markets') >= Len(markets),
           ThreadOK(l, r, Len(markets'))
    PROVE  /\ pc' \in [Threads -> Labels] /\ loc' \in [Threads -> Locals]
           /\ LocalsOK'
           /\ \A u \in Threads : u # t => pc'[u] = pc[u] /\ loc'[u] = loc[u]
           /\ pc'[t] = l /\ loc'[t] = r
<1>1. /\ pc' \in [Threads -> Labels] /\ loc' \in [Threads -> Locals]
      /\ \A u \in Threads : u # t => pc'[u] = pc[u] /\ loc'[u] = loc[u]
      /\ pc'[t] = l /\ loc'[t] = r
  BY DEF TypeInv, TypeOK, Goto
<1>2. Len(markets) \in Nat
  BY DEF TypeInv, TypeOK
<1>3. ASSUME NEW u \in Threads PROVE ThreadOK(pc'[u], loc'[u], Len(markets'))
  <2>1. CASE u = t
    BY <1>1, <2>1
  <2>2. CASE u # t
    <3>1. ThreadOK(pc[u], loc[u], Len(markets))
      BY DEF TypeInv, LocalsOK
    <3>2. loc[u].m \in Nat
      BY DEF TypeInv, TypeOK, Locals
    <3> QED
      BY <1>1, <1>2, <2>2, <3>1, <3>2 DEF ThreadOK
  <2> QED
    BY <2>1, <2>2
<1> QED
  BY <1>1, <1>3 DEF LocalsOK

----------------------------------------------------------------------------
(* Type correctness *)

LEMMA NoLocalsType == NoLocals \in Locals /\ \A n : ThreadOK("idle", NoLocals, n)
<1>1. <<>> \in Seq(Decisions)
  OBVIOUS
<1> QED
  BY <1>1 DEF NoLocals, Locals, ThreadOK, Creating, Stored

\* A step that moves one thread and leaves the dictionaries alone.
LEMMA QuietStep ==
    ASSUME TypeInv, NEW t \in Threads, NEW l \in Labels, NEW r \in Locals,
           Goto(t, l, r), ThreadOK(l, r, Len(markets)),
           UNCHANGED <<markets, agents, wants, today>>,
           next_run' \in Nat, requests' \in Nat, reported' \subseteq Nat
    PROVE  TypeInv'
<1>1. Len(markets) \in Nat /\ markets' = markets
  BY DEF TypeInv, TypeOK
<1>2. pc' \in [Threads -> Labels] /\ loc' \in [Threads -> Locals] /\ LocalsOK'
  BY <1>1, GotoKeeps
<1> QED
  BY <1>2 DEF TypeInv, TypeOK

LEMMA InitTypeInv == Init => TypeInv
<1> SUFFICES ASSUME Init PROVE TypeInv
  OBVIOUS
<1>1. <<>> \in Seq(MarketRecord) /\ <<>> \in Seq(Agents)
  OBVIOUS
<1>2. TypeOK
  BY <1>1, NoLocalsType DEF Init, TypeOK, Labels
<1>3. LocalsOK
  BY NoLocalsType DEF Init, LocalsOK
<1> QED
  BY <1>2, <1>3 DEF TypeInv

LEMMA RaiseTypeInv ==
    ASSUME TypeInv, NEW t \in Threads, Raise(t),
           UNCHANGED <<markets, agents, wants, today, next_run, requests>>
    PROVE  TypeInv'
<1>1. Goto(t, "idle", NoLocals) /\ reported' \subseteq Nat
  <2>1. loc[t].close \in Nat
    BY DEF TypeInv, TypeOK, Locals
  <2> QED
    BY <2>1 DEF Raise, TypeInv, TypeOK
<1>2. "idle" \in Labels /\ next_run' \in Nat /\ requests' \in Nat
  BY DEF Labels, TypeInv, TypeOK
<1>3. UNCHANGED <<markets, agents, wants, today>>
  OBVIOUS
<1> QED
  BY <1>1, <1>2, <1>3, NoLocalsType, QuietStep

LEMMA EnsureStartTypeInv ==
    ASSUME TypeInv, NEW t \in Threads, EnsureStart(t),
           UNCHANGED <<markets, agents, wants, today>>,
           next_run' \in Nat, requests' \in Nat, reported' \subseteq Nat
    PROVE  TypeInv'
<1> DEFINE r == [NoLocals EXCEPT !.close = today + 1, !.daily = TRUE]
<1>1. Goto(t, "existing", r)
  BY DEF EnsureStart
<1>2. r \in Locals
  <2>1. today + 1 \in Nat
    BY DEF TypeInv, TypeOK
  <2>2. NoLocals \in Locals
    BY NoLocalsType
  <2> QED
    BY <2>1, <2>2 DEF Locals
<1>3. ThreadOK("existing", r, Len(markets)) /\ "existing" \in Labels
  BY DEF ThreadOK, Creating, Stored, Labels
<1> HIDE DEF r
<1> QED
  BY <1>1, <1>2, <1>3, QuietStep

LEMMA EnsureTypeInv ==
    ASSUME TypeInv, NEW t \in Threads, EnsureSteps(t)
    PROVE  TypeInv'
<1> USE DEF TypeInv
<1>0. /\ loc[t] \in Locals /\ pc[t] \in Labels /\ ThreadOK(pc[t], loc[t], Len(markets))
      /\ markets \in Seq(MarketRecord) /\ Len(markets) \in Nat
      /\ next_run \in Nat /\ requests \in Nat /\ reported \subseteq Nat
  BY DEF TypeOK, LocalsOK
<1> DEFINE Quiet == UNCHANGED <<markets, agents, wants, today, next_run, requests, reported>>
<1>a. ASSUME NEW l \in Labels, NEW r \in Locals, Goto(t, l, r), Quiet,
             ThreadOK(l, r, Len(markets))
      PROVE  TypeInv'
  BY <1>0, <1>a, QuietStep
<1>1. CASE ScanStart(t)
  <2> DEFINE r == [loc[t] EXCEPT !.size = Len(markets), !.i = 1]
  <2>1. r \in Locals
    BY <1>0 DEF Locals
  <2>2. loc[t].daily
    BY <1>0, <1>1 DEF ScanStart, ThreadOK
  <2>3. Goto(t, "scan", r) /\ Quiet
    BY <1>1 DEF ScanStart
  <2>4. ThreadOK("scan", r, Len(markets)) /\ "scan" \in Labels
    BY <1>0, <2>2 DEF ThreadOK, Locals, Creating, Stored, Labels
  <2> HIDE DEF r
  <2> QED
    BY <1>a, <2>1, <2>3, <2>4
<1>2. CASE ScanMarket(t)
  <2> DEFINE market == markets[loc[t].i]
             found == IF market.open /\ market.closes = loc[t].close
                      THEN {market.asset} ELSE {}
             r == [loc[t] EXCEPT !.i = @ + 1, !.existing = @ \cup found]
  <2>1. loc[t].i \in 1..Len(markets) /\ loc[t].daily
    BY <1>0, <1>2 DEF ScanMarket, ThreadOK, Locals
  <2>2. found \subseteq AssetIds
    <3>1. market \in MarketRecord
      BY <1>0, <2>1
    <3>2. market.asset \in AssetIds
      BY <3>1 DEF MarketRecord
    <3> QED
      BY <3>2
  <2>3. Goto(t, "scan", r) /\ Quiet
    BY <1>2 DEF ScanMarket
  <2> HIDE DEF found
  <2>4. r \in Locals
    <3>1. loc[t].i + 1 \in Nat /\ loc[t].existing \cup found \in SUBSET AssetIds
      BY <1>0, <2>2 DEF Locals
    <3> QED
      BY <1>0, <3>1 DEF Locals
  <2>5. ThreadOK("scan", r, Len(markets)) /\ "scan" \in Labels
    BY <1>0, <2>1 DEF ThreadOK, Locals, Creating, Stored, Labels
  <2> HIDE DEF r
  <2> QED
    BY <1>a, <2>3, <2>4, <2>5
<1>3. CASE ScanEnd(t)
  <2> DEFINE r == [loc[t] EXCEPT !.k = 1, !.size = 0, !.i = 0]
  <2>1. r \in Locals
    BY <1>0 DEF Locals
  <2>2. loc[t].daily
    BY <1>0, <1>3 DEF ScanEnd, ThreadOK
  <2>3. Goto(t, "loop", r) /\ Quiet
    BY <1>3 DEF ScanEnd
  <2>4. ThreadOK("loop", r, Len(markets)) /\ "loop" \in Labels
    BY <1>0, <2>2 DEF ThreadOK, Locals, Creating, Stored, Labels
  <2> HIDE DEF r
  <2> QED
    BY <1>a, <2>1, <2>3, <2>4
<1>4. CASE ScanFails(t)
  BY <1>4, RaiseTypeInv DEF ScanFails
<1>5. CASE SkipAsset(t)
  <2> DEFINE r == [loc[t] EXCEPT !.k = @ + 1]
  <2>1. r \in Locals /\ loc[t].k >= 1 /\ loc[t].daily
    <3>1. loc[t].k >= 1 /\ loc[t].daily
      BY <1>0, <1>5 DEF SkipAsset, ThreadOK
    <3>2. loc[t].k + 1 \in Nat
      BY <1>0 DEF Locals
    <3> QED
      BY <1>0, <3>1, <3>2 DEF Locals
  <2>2. Goto(t, "loop", r) /\ Quiet
    BY <1>5 DEF SkipAsset
  <2>3. ThreadOK("loop", r, Len(markets)) /\ "loop" \in Labels
    BY SMTT(30), <1>0, <2>1 DEF ThreadOK, Locals, Creating, Stored, Labels
  <2> HIDE DEF r
  <2> QED
    BY <1>a, <2>1, <2>2, <2>3
<1>6. CASE CreateAsset(t)
  <2>1. Goto(t, "build", loc[t]) /\ Quiet /\ loc[t].k \in 1..Len(Assets)
    BY <1>0, <1>6, AssetsFacts DEF CreateAsset, ThreadOK, Locals
  <2>2. ThreadOK("build", loc[t], Len(markets)) /\ "build" \in Labels
    BY <1>0, <2>1 DEF ThreadOK, Creating, Stored, Labels
  <2> QED
    BY <1>0, <1>a, <2>1, <2>2
<1>7. CASE EnsureReturn(t)
  <2>1. Goto(t, "idle", NoLocals) /\ Quiet /\ "idle" \in Labels
    BY <1>7 DEF EnsureReturn, Labels
  <2> QED
    BY <1>a, <2>1, NoLocalsType
<1> QED
  BY <1>1, <1>2, <1>3, <1>4, <1>5, <1>6, <1>7 DEF EnsureSteps

\* A market record may be replaced by one that differs in open or in bettors.
LEMMA ReplaceMarket ==
    ASSUME NEW s \in Seq(MarketRecord), NEW i \in 1..Len(s), NEW r \in MarketRecord
    PROVE  /\ [s EXCEPT ![i] = r] \in Seq(MarketRecord)
           /\ Len([s EXCEPT ![i] = r]) = Len(s)
  OBVIOUS

LEMMA CreateTypeInv ==
    ASSUME TypeInv, NEW t \in Threads, CreateSteps(t)
    PROVE  TypeInv'
<1> USE DEF TypeInv
<1>0. /\ loc[t] \in Locals /\ pc[t] \in Labels /\ ThreadOK(pc[t], loc[t], Len(markets))
      /\ markets \in Seq(MarketRecord) /\ Len(markets) \in Nat
      /\ agents \in Seq(Agents) /\ Len(agents) \in Nat
      /\ next_run \in Nat /\ requests \in Nat /\ reported \subseteq Nat
  BY DEF TypeOK, LocalsOK
<1> DEFINE Quiet == UNCHANGED <<markets, agents, wants, today, next_run, requests, reported>>
<1>a. ASSUME NEW l \in Labels, NEW r \in Locals, Goto(t, l, r), Quiet,
             ThreadOK(l, r, Len(markets))
      PROVE  TypeInv'
  BY <1>0, <1>a, QuietStep
<1>b. ASSUME NEW l \in Labels, NEW r \in Locals, Goto(t, l, r),
             markets' \in Seq(MarketRecord), Len(markets') >= Len(markets),
             UNCHANGED <<agents, wants, today, next_run, requests, reported>>,
             ThreadOK(l, r, Len(markets'))
      PROVE  TypeInv'
  <2>1. Len(markets') \in Nat
    BY <1>b
  <2>2. pc' \in [Threads -> Labels] /\ loc' \in [Threads -> Locals] /\ LocalsOK'
    BY <1>b, <2>1, GotoKeeps
  <2> QED
    BY <1>b, <2>2 DEF TypeOK
<1>1. CASE BuildFails(t)
  BY <1>1, RaiseTypeInv DEF BuildFails
<1>2. CASE StoreMarket(t)
  <2> DEFINE r == [loc[t] EXCEPT !.m = Len(markets) + 1]
             new == [asset |-> Assets[loc[t].k], closes |-> loc[t].close, open |-> TRUE,
                     by |-> IF loc[t].daily THEN t ELSE None, bettors |-> {}]
  <2>1. loc[t].k \in 1..Len(Assets)
    BY <1>0, <1>2 DEF StoreMarket, ThreadOK, Creating
  <2>2. new \in MarketRecord
    <3>1. Assets[loc[t].k] \in AssetIds
      BY <2>1, AssetsFacts
    <3>2. loc[t].close \in Nat
      BY <1>0 DEF Locals
    <3> QED
      BY <3>1, <3>2 DEF MarketRecord
  <2>3. markets' = Append(markets, new) /\ Goto(t, "trigger", r)
        /\ UNCHANGED <<agents, wants, today, next_run, requests, reported>>
    BY <1>2 DEF StoreMarket
  <2>4. r \in Locals /\ r.m = Len(markets) + 1 /\ r.k \in 1..Len(Assets)
    <3>1. Len(markets) + 1 \in Nat
      BY <1>0
    <3> QED
      BY <1>0, <2>1, <3>1 DEF Locals
  <2> HIDE DEF r, new
  <2>5. markets' \in Seq(MarketRecord) /\ Len(markets') = Len(markets) + 1
    BY <1>0, <2>2, <2>3, AppendFacts
  <2>6. ThreadOK("trigger", r, Len(markets')) /\ "trigger" \in Labels
    BY <1>0, <2>4, <2>5 DEF ThreadOK, Creating, Stored, Labels
  <2> QED
    BY <1>0, <1>b, <2>3, <2>4, <2>5, <2>6
<1>3. CASE TriggerStart(t)
  <2> DEFINE r == [loc[t] EXCEPT !.size = Len(agents), !.i = 1]
  <2>1. r \in Locals
    BY <1>0 DEF Locals
  <2>2. ThreadOK("ask", r, Len(markets)) /\ "ask" \in Labels
    BY <1>0, <1>3 DEF TriggerStart, ThreadOK, Locals, Creating, Stored, Labels
  <2>3. Goto(t, "ask", r) /\ Quiet
    BY <1>3 DEF TriggerStart
  <2> HIDE DEF r
  <2> QED
    BY <1>a, <2>1, <2>2, <2>3
<1>4. CASE AskAgent(t)
  <2> DEFINE a == agents[loc[t].i]
  <2>1. loc[t].i \in 1..Len(agents) /\ pc[t] = "ask" /\ Quiet
    <3>1. pc[t] = "ask" /\ Len(agents) = loc[t].size /\ loc[t].i <= loc[t].size /\ Quiet
      BY <1>4 DEF AskAgent
    <3>2. loc[t].i \in Nat /\ loc[t].i >= 1
      BY <1>0, <3>1 DEF Locals, ThreadOK
    <3> QED
      BY <1>0, <3>1, <3>2
  <2>2. ASSUME NEW r \in Locals, Goto(t, "ask", r), r.i >= 1,
               r.k = loc[t].k, r.m = loc[t].m
        PROVE  TypeInv'
    <3>1. ThreadOK("ask", r, Len(markets)) /\ "ask" \in Labels
      BY <1>0, <2>1, <2>2 DEF ThreadOK, Creating, Stored, Labels
    <3> QED
      BY <1>a, <2>1, <2>2, <3>1
  <2>3. CASE Goto(t, "ask", [loc[t] EXCEPT !.i = @ + 1])
    <3> DEFINE r == [loc[t] EXCEPT !.i = @ + 1]
    <3>1. r \in Locals /\ r.i >= 1 /\ r.k = loc[t].k /\ r.m = loc[t].m
      <4>1. loc[t].i + 1 \in Nat /\ loc[t].i + 1 >= 1
        BY <2>1
      <4> QED
        BY <1>0, <4>1 DEF Locals
    <3>2. Goto(t, "ask", r)
      BY <2>3
    <3> HIDE DEF r
    <3> QED
      BY <2>2, <3>1, <3>2
  <2>4. ASSUME NEW good \in BOOLEAN,
               Goto(t, "ask", [loc[t] EXCEPT !.i = @ + 1,
                                   !.todo = Append(@, [agent |-> a, good |-> good])])
        PROVE  TypeInv'
    <3> DEFINE d == [agent |-> a, good |-> good]
               r == [loc[t] EXCEPT !.i = @ + 1, !.todo = Append(@, d)]
    <3>1. a \in Agents
      BY <1>0, <2>1
    <3>2. d \in Decisions
      BY <3>1 DEF Decisions
    <3>3. Goto(t, "ask", r)
      BY <2>4
    <3> HIDE DEF d
    <3>4. Append(loc[t].todo, d) \in Seq(Decisions)
      BY <1>0, <3>2, AppendFacts DEF Locals
    <3>5. loc[t].i + 1 \in Nat
      BY <1>0 DEF Locals
    <3>6. r \in Locals /\ r.i = loc[t].i + 1 /\ r.k = loc[t].k /\ r.m = loc[t].m
      BY <1>0, <3>4, <3>5 DEF Locals
    <3> HIDE DEF r
    <3> QED
      BY <2>1, <2>2, <3>3, <3>6
  <2> QED
    BY <1>4, <2>3, <2>4 DEF AskAgent
<1>5. CASE AskEnd(t)
  <2> DEFINE r == [loc[t] EXCEPT !.size = 0, !.i = 0]
  <2>1. r \in Locals
    BY <1>0 DEF Locals
  <2>2. ThreadOK("place", r, Len(markets)) /\ "place" \in Labels
    BY <1>0, <1>5 DEF AskEnd, ThreadOK, Locals, Creating, Stored, Labels
  <2>3. Goto(t, "place", r) /\ Quiet
    BY <1>5 DEF AskEnd
  <2> HIDE DEF r
  <2> QED
    BY <1>a, <2>1, <2>2, <2>3
<1>6. CASE AskFails(t)
  BY <1>6, RaiseTypeInv DEF AskFails
<1>7. CASE AutoBetCheck(t)
  <2>1. Goto(t, "lock", loc[t]) /\ Quiet
    BY <1>7 DEF AutoBetCheck
  <2>2. ThreadOK("lock", loc[t], Len(markets)) /\ "lock" \in Labels
    BY <1>0, <1>7 DEF AutoBetCheck, ThreadOK, Creating, Stored, Labels
  <2> QED
    BY <1>0, <1>a, <2>1, <2>2
<1>8. CASE AutoBetFails(t)
  BY <1>8, RaiseTypeInv DEF AutoBetFails
<1>9. CASE AutoBetAppend(t)
  <2> DEFINE m == loc[t].m
             new == [markets[m] EXCEPT !.bettors = @ \cup {Head(loc[t].todo).agent}]
             r == [loc[t] EXCEPT !.todo = Tail(@)]
  <2>1. m \in 1..Len(markets) /\ loc[t].todo # <<>> /\ loc[t].todo \in Seq(Decisions)
    BY <1>0, <1>9 DEF AutoBetAppend, ThreadOK, Stored, Creating, Locals
  <2>2. Head(loc[t].todo) \in Decisions /\ Tail(loc[t].todo) \in Seq(Decisions)
    BY <2>1, TailFacts
  <2>3. new \in MarketRecord
    <3>1. markets[m] \in MarketRecord
      BY <1>0, <2>1
    <3>2. Head(loc[t].todo).agent \in Agents
      BY <2>2 DEF Decisions
    <3>3. markets[m].bettors \cup {Head(loc[t].todo).agent} \in SUBSET Agents
      BY <3>1, <3>2 DEF MarketRecord
    <3> QED
      BY <3>1, <3>3 DEF MarketRecord
  <2>4. markets' = [markets EXCEPT ![m] = new] /\ Goto(t, "place", r)
        /\ UNCHANGED <<agents, wants, today, next_run, requests, reported>>
    BY <1>9 DEF AutoBetAppend
  <2>5. r \in Locals /\ r.m = m /\ r.k = loc[t].k
    BY <1>0, <2>2 DEF Locals
  <2> HIDE DEF new, r
  <2>6. markets' \in Seq(MarketRecord) /\ Len(markets') = Len(markets)
    BY <1>0, <2>1, <2>3, <2>4, ReplaceMarket
  <2>7. ThreadOK("place", r, Len(markets')) /\ "place" \in Labels
    BY <1>0, <1>9, <2>5, <2>6 DEF AutoBetAppend, ThreadOK, Creating, Stored, Labels
  <2> QED
    BY <1>0, <1>b, <2>4, <2>5, <2>6, <2>7
<1>10. CASE CreateReturn(t)
  <2>1. CASE loc[t].daily
    <3> DEFINE r == [loc[t] EXCEPT !.k = @ + 1, !.m = 0]
    <3>1. r \in Locals /\ r.k >= 1 /\ r.daily
      <4>1. loc[t].k + 1 \in Nat /\ loc[t].k + 1 >= 1
        BY <1>0 DEF Locals
      <4> QED
        BY <1>0, <2>1, <4>1 DEF Locals
    <3>2. Goto(t, "loop", r) /\ Quiet
      BY <1>10, <2>1 DEF CreateReturn
    <3> HIDE DEF r
    <3>3. ThreadOK("loop", r, Len(markets)) /\ "loop" \in Labels
      BY <3>1 DEF ThreadOK, Creating, Stored, Labels
    <3> QED
      BY <1>a, <3>1, <3>2, <3>3
  <2>2. CASE ~loc[t].daily
    <3>1. Goto(t, "idle", NoLocals) /\ Quiet /\ "idle" \in Labels
      BY <1>10, <2>2 DEF CreateReturn, Labels
    <3> QED
      BY <1>a, <3>1, NoLocalsType
  <2> QED
    BY <2>1, <2>2
<1> QED
  BY <1>1, <1>2, <1>3, <1>4, <1>5, <1>6, <1>7, <1>8, <1>9, <1>10 DEF CreateSteps

LEMMA NextTypeInv == TypeInv /\ [Next]_vars => TypeInv'
<1> SUFFICES ASSUME TypeInv, [Next]_vars PROVE TypeInv'
  OBVIOUS
<1> USE DEF TypeInv
<1>0. /\ Scheduler \in Threads /\ HttpThreads \subseteq Threads
      /\ today \in Nat /\ today + 1 \in Nat
      /\ next_run \in Nat /\ requests \in Nat /\ requests + 1 \in Nat
      /\ reported \subseteq Nat
  BY DEF Threads, TypeOK
<1>1. CASE ScheduledRun
  <2>1. next_run' \in Nat /\ requests' \in Nat /\ UNCHANGED <<markets, agents, wants, today>>
    BY <1>0, <1>1 DEF ScheduledRun
  <2>2. CASE EnsureStart(Scheduler) /\ UNCHANGED reported
    BY <1>0, <2>1, <2>2, EnsureStartTypeInv
  <2>3. CASE reported' = reported \cup {today + 1} /\ UNCHANGED <<pc, loc>>
    BY <1>0, <2>1, <2>3 DEF TypeOK, LocalsOK
  <2> QED
    BY <1>1, <2>2, <2>3 DEF ScheduledRun
<1>2. ASSUME NEW t \in Threads, EnsureSteps(t) PROVE TypeInv'
  BY <1>2, EnsureTypeInv
<1>3. ASSUME NEW t \in Threads, CreateSteps(t) PROVE TypeInv'
  BY <1>3, CreateTypeInv
<1>4. ASSUME NEW t \in Threads, SeedRequest(t) PROVE TypeInv'
  <2>1. /\ EnsureStart(t) /\ UNCHANGED <<markets, agents, wants, today>>
        /\ next_run' \in Nat /\ requests' \in Nat /\ reported' \subseteq Nat
    BY <1>0, <1>4 DEF SeedRequest
  <2> QED
    BY <2>1, EnsureStartTypeInv
<1>5. ASSUME NEW t \in HttpThreads, NEW k \in 1..Len(Assets), NEW close \in 1..(MaxDay + 1),
             CreateRequest(t, k, close)
      PROVE  TypeInv'
  <2> DEFINE r == [NoLocals EXCEPT !.close = close, !.k = k]
  <2>1. close \in Nat /\ k \in Nat
    BY DailyAssumption, AssetsFacts
  <2>2. r \in Locals /\ r.k = k
    BY <2>1, NoLocalsType DEF Locals
  <2>3. ThreadOK("build", r, Len(markets)) /\ "build" \in Labels
    BY <2>2 DEF ThreadOK, Creating, Stored, Labels
  <2>4. /\ Goto(t, "build", r) /\ UNCHANGED <<markets, agents, wants, today>>
        /\ next_run' \in Nat /\ requests' \in Nat /\ reported' \subseteq Nat
    BY <1>0, <1>5 DEF CreateRequest
  <2> HIDE DEF r
  <2> QED
    BY <1>0, <2>2, <2>3, <2>4, QuietStep
<1>6. ASSUME NEW i \in 1..Len(markets), Resolve(i) PROVE TypeInv'
  <2> DEFINE new == [markets[i] EXCEPT !.open = FALSE]
  <2>1. markets \in Seq(MarketRecord)
    BY DEF TypeOK
  <2>2. markets[i] \in MarketRecord
    BY <2>1
  <2>3. new \in MarketRecord
    BY <2>2 DEF MarketRecord
  <2>4. markets' = [markets EXCEPT ![i] = new]
        /\ UNCHANGED <<agents, wants, today, next_run, requests, reported, pc, loc>>
    BY <1>6 DEF Resolve
  <2> HIDE DEF new
  <2>5. markets' \in Seq(MarketRecord) /\ Len(markets') = Len(markets)
    BY <2>1, <2>3, <2>4, ReplaceMarket
  <2> QED
    BY <2>4, <2>5 DEF TypeOK, LocalsOK
<1>7. ASSUME NEW a \in Agents, NEW w \in Interests, RegisterAgent(a, w) PROVE TypeInv'
  <2>1. agents' \in Seq(Agents)
    BY <1>7, AppendFacts DEF RegisterAgent, TypeOK
  <2>2. wants' \in [Agents -> SUBSET AssetIds]
    BY <1>7, DailyAssumption DEF RegisterAgent, TypeOK
  <2> QED
    BY <1>7, <2>1, <2>2 DEF RegisterAgent, TypeOK, LocalsOK
<1>8. CASE Tick
  BY <1>8 DEF Tick, TypeOK, LocalsOK
<1>9. CASE UNCHANGED vars
  BY <1>9 DEF vars, TypeOK, LocalsOK
<1> QED
  BY <1>1, <1>2, <1>3, <1>4, <1>5, <1>6, <1>7, <1>8, <1>9 DEF Next

LEMMA TypeInvAlways == Spec => []TypeInv
  BY InitTypeInv, NextTypeInv, PTL DEF Spec

\* Every variable keeps its type: the bookkeeping of create_market and of
\* ensure_daily_markets never points outside the dictionaries.
THEOREM DailyTypeCorrect == Spec => []TypeOK
<1>1. TypeInv => TypeOK
  BY DEF TypeInv
<1> QED
  BY <1>1, TypeInvAlways, PTL

----------------------------------------------------------------------------
(* What a step may do to the markets and to the threads *)

\* Markets keep their place, asset, closing time and creator, and never open again.
MarketsKept ==
    /\ Len(markets) \in Nat /\ Len(markets') \in Nat /\ Len(markets) <= Len(markets')
    /\ \A i \in 1..Len(markets) :
          /\ markets'[i].asset = markets[i].asset
          /\ markets'[i].closes = markets[i].closes
          /\ markets'[i].by = markets[i].by
          /\ markets'[i].open => markets[i].open

LEMMA UnchangedKept == TypeInv /\ UNCHANGED markets => MarketsKept
  BY DEF TypeInv, TypeOK, MarketsKept

\* The market that StoreMarket appends.
NewMarket(t) == [asset |-> Assets[loc[t].k], closes |-> loc[t].close, open |-> TRUE,
                 by |-> IF loc[t].daily THEN t ELSE None, bettors |-> {}]

LEMMA StoreKept ==
    ASSUME TypeInv, NEW t \in Threads, StoreMarket(t)
    PROVE  /\ MarketsKept
           /\ Len(markets') = Len(markets) + 1
           /\ markets'[Len(markets) + 1] = NewMarket(t)
           /\ \A i \in 1..Len(markets) : markets'[i] = markets[i]
<1>1. markets' = Append(markets, NewMarket(t))
  BY DEF StoreMarket, NewMarket
<1>2. markets \in Seq(MarketRecord) /\ Len(markets) \in Nat
  BY DEF TypeInv, TypeOK
<1> DEFINE new == NewMarket(t)
<1> HIDE DEF new
<1>3. /\ Len(markets') = Len(markets) + 1
      /\ markets'[Len(markets) + 1] = new
      /\ \A i \in 1..Len(markets) : markets'[i] = markets[i]
  BY <1>1, <1>2 DEF new
<1> QED
  BY <1>2, <1>3 DEF MarketsKept, new

LEMMA NextKept ==
    TypeInv /\ [Next]_vars =>
        /\ MarketsKept
        /\ Len(markets') = Len(markets) \/ \E t \in Threads : StoreMarket(t)
<1> SUFFICES ASSUME TypeInv, [Next]_vars
             PROVE  \/ MarketsKept /\ Len(markets') = Len(markets)
                    \/ MarketsKept /\ \E t \in Threads : StoreMarket(t)
  OBVIOUS
<1>0. markets \in Seq(MarketRecord) /\ Len(markets) \in Nat
  BY DEF TypeInv, TypeOK
<1> DEFINE Same == MarketsKept /\ Len(markets') = Len(markets)
<1>1. ASSUME NEW t \in Threads, StoreMarket(t) PROVE MarketsKept
  BY <1>1, StoreKept
<1>2. ASSUME NEW t \in Threads, AutoBetAppend(t) PROVE Same
  BY <1>0, <1>2 DEF AutoBetAppend, MarketsKept
<1>3. ASSUME NEW i \in 1..Len(markets), Resolve(i) PROVE Same
  BY <1>0, <1>3 DEF Resolve, MarketsKept
<1>4. ASSUME NEW t \in Threads, EnsureSteps(t) \/ CreateSteps(t) \/ SeedRequest(t)
      PROVE  UNCHANGED markets \/ StoreMarket(t) \/ AutoBetAppend(t)
  BY <1>4 DEF EnsureSteps, CreateSteps, SeedRequest, ScanStart, ScanMarket, ScanEnd,
     ScanFails, SkipAsset, CreateAsset, EnsureReturn, BuildFails, TriggerStart, AskAgent,
     AskEnd, AskFails, AutoBetCheck, AutoBetFails, CreateReturn
<1>5. CASE UNCHANGED markets
  BY <1>5, UnchangedKept
<1> HIDE DEF Same
<1>6. Same \/ (MarketsKept /\ \E t \in Threads : StoreMarket(t))
  BY <1>1, <1>2, <1>3, <1>4, <1>5
  DEF Next, vars, ScheduledRun, CreateRequest, RegisterAgent, Tick, Same
<1> QED
  BY <1>6 DEF Same

\* An asset stays covered.
LEMMA CoveredStays ==
    ASSUME MarketsKept, NEW a, NEW c, Covered(a, c)
    PROVE  Covered(a, c)'
<1>1. PICK i \in 1..Len(markets) : markets[i].asset = a /\ markets[i].closes = c
  BY DEF Covered
<1>2. i \in 1..Len(markets') /\ markets'[i].asset = a /\ markets'[i].closes = c
  BY <1>1 DEF MarketsKept
<1> QED
  BY <1>2 DEF Covered

LEMMA GotoFacts ==
    ASSUME TypeInv, NEW t \in Threads, NEW l, NEW r, Goto(t, l, r)
    PROVE  /\ pc'[t] = l /\ loc'[t] = r
           /\ \A u \in Threads : u # t => pc'[u] = pc[u] /\ loc'[u] = loc[u]
  BY DEF TypeInv, TypeOK, Goto

----------------------------------------------------------------------------
(* A run covers the assets it has passed *)

\* What a run knows to be there really is: the keys it found, the assets it has
\* passed, the market it has just stored.
CoverOK(t) ==
    /\ \A a \in loc[t].existing : Covered(a, loc[t].close)
    /\ pc[t] \in {"loop"} \cup Creating /\ loc[t].daily =>
          \A j \in 1..(loc[t].k - 1) : Covered(Assets[j], loc[t].close)
    /\ pc[t] \in Stored =>
          /\ markets[loc[t].m].asset = Assets[loc[t].k]
          /\ markets[loc[t].m].closes = loc[t].close

CoverInv == TypeInv /\ \A t \in Threads : CoverOK(t)

\* A thread that does not move keeps what it knows.
LEMMA CoverStays ==
    ASSUME TypeInv, MarketsKept, NEW t \in Threads, CoverOK(t),
           pc'[t] = pc[t], loc'[t] = loc[t]
    PROVE  CoverOK(t)'
<1>1. \A a, c : Covered(a, c) => Covered(a, c)'
  BY CoveredStays
<1>2. pc[t] \in Stored => loc[t].m \in 1..Len(markets)
  BY DEF TypeInv, LocalsOK, ThreadOK
<1> QED
  BY <1>1, <1>2 DEF CoverOK, MarketsKept

LEMMA RaiseCover ==
    ASSUME TypeInv, NEW t \in Threads, Raise(t)
    PROVE  CoverOK(t)'
<1>1. pc'[t] = "idle" /\ loc'[t] = NoLocals
  BY GotoFacts DEF Raise
<1> QED
  BY <1>1 DEF NoLocals, CoverOK, Creating, Stored

LEMMA EnsureCover ==
    ASSUME CoverInv, NEW t \in Threads, EnsureSteps(t), MarketsKept
    PROVE  CoverOK(t)'
<1>0. /\ CoverOK(t) /\ TypeInv /\ loc[t] \in Locals
      /\ ThreadOK(pc[t], loc[t], Len(markets)) /\ Len(markets) \in Nat
  BY DEF CoverInv, TypeInv, TypeOK, LocalsOK
<1>a. \A a, c : Covered(a, c) => Covered(a, c)'
  BY CoveredStays
<1> USE DEF Creating, Stored
<1>1. CASE ScanStart(t)
  <2>1. pc'[t] = "scan" /\ loc'[t] = [loc[t] EXCEPT !.size = Len(markets), !.i = 1]
    BY <1>0, <1>1, GotoFacts DEF ScanStart
  <2>2. loc'[t].existing = loc[t].existing /\ loc'[t].close = loc[t].close
    BY <1>0, <2>1 DEF Locals
  <2> QED
    BY <1>0, <1>a, <2>1, <2>2 DEF CoverOK
<1>2. CASE ScanMarket(t)
  <2> DEFINE market == markets[loc[t].i]
             found == IF market.open /\ market.closes = loc[t].close
                      THEN {market.asset} ELSE {}
  <2>1. pc'[t] = "scan"
        /\ loc'[t] = [loc[t] EXCEPT !.i = @ + 1, !.existing = @ \cup found]
    BY <1>0, <1>2, GotoFacts DEF ScanMarket
  <2>2. loc[t].i \in 1..Len(markets)
    BY <1>0, <1>2 DEF ScanMarket, ThreadOK, Locals
  <2>3. \A a \in found : Covered(a, loc[t].close)
    BY <2>2 DEF Covered
  <2> HIDE DEF found
  <2>4. loc'[t].existing = loc[t].existing \cup found /\ loc'[t].close = loc[t].close
    BY <1>0, <2>1 DEF Locals
  <2> QED
    BY <1>0, <1>a, <2>1, <2>3, <2>4 DEF CoverOK
<1>3. CASE ScanEnd(t)
  <2>1. pc'[t] = "loop" /\ loc'[t] = [loc[t] EXCEPT !.k = 1, !.size = 0, !.i = 0]
    BY <1>0, <1>3, GotoFacts DEF ScanEnd
  <2>2. /\ loc'[t].existing = loc[t].existing /\ loc'[t].close = loc[t].close
        /\ loc'[t].k = 1
    BY <1>0, <2>1 DEF Locals
  <2> QED
    BY <1>0, <1>a, <2>1, <2>2 DEF CoverOK
<1>4. CASE ScanFails(t)
  BY <1>0, <1>4, RaiseCover DEF ScanFails
<1>5. CASE SkipAsset(t)
  <2>1. /\ pc'[t] = "loop" /\ loc'[t] = [loc[t] EXCEPT !.k = @ + 1]
        /\ pc[t] = "loop" /\ Assets[loc[t].k] \in loc[t].existing
    BY <1>0, <1>5, GotoFacts DEF SkipAsset
  <2>2. /\ loc'[t].existing = loc[t].existing /\ loc'[t].close = loc[t].close
        /\ loc'[t].k = loc[t].k + 1 /\ loc[t].k \in Nat /\ loc[t].daily
    BY <1>0, <2>1 DEF Locals, ThreadOK
  <2>3. \A j \in 1..loc[t].k : Covered(Assets[j], loc[t].close)
    BY <1>0, <2>1, <2>2 DEF CoverOK
  <2> QED
    BY <1>0, <1>a, <2>1, <2>2, <2>3 DEF CoverOK
<1>6. CASE CreateAsset(t)
  <2>1. pc'[t] = "build" /\ loc'[t] = loc[t] /\ pc[t] = "loop"
    BY <1>0, <1>6, GotoFacts DEF CreateAsset
  <2> QED
    BY <1>0, <1>a, <2>1 DEF CoverOK
<1>7. CASE EnsureReturn(t)
  <2>1. pc'[t] = "idle" /\ loc'[t] = NoLocals
    BY <1>0, <1>7, GotoFacts DEF EnsureReturn
  <2> QED
    BY <2>1 DEF NoLocals, CoverOK
<1> QED
  BY <1>1, <1>2, <1>3, <1>4, <1>5, <1>6, <1>7 DEF EnsureSteps

\* Inside create_market, a step that leaves the run's place and its market alone.
LEMMA CreatingCover ==
    ASSUME CoverInv, NEW t \in Threads, MarketsKept,
           pc[t] \in Stored, pc'[t] \in Stored,
           loc'[t].existing = loc[t].existing, loc'[t].close = loc[t].close,
           loc'[t].k = loc[t].k, loc'[t].m = loc[t].m, loc'[t].daily = loc[t].daily
    PROVE  CoverOK(t)'
<1>1. \A a, c : Covered(a, c) => Covered(a, c)'
  BY CoveredStays
<1>2. CoverOK(t) /\ loc[t].m \in 1..Len(markets)
  BY DEF CoverInv, TypeInv, LocalsOK, ThreadOK
<1> QED
  BY <1>1, <1>2 DEF CoverOK, MarketsKept, Creating, Stored

LEMMA CreateCover ==
    ASSUME CoverInv, NEW t \in Threads, CreateSteps(t), MarketsKept
    PROVE  CoverOK(t)'
<1>0. /\ CoverOK(t) /\ TypeInv /\ loc[t] \in Locals
      /\ ThreadOK(pc[t], loc[t], Len(markets)) /\ Len(markets) \in Nat
  BY DEF CoverInv, TypeInv, TypeOK, LocalsOK
<1>a. \A a, c : Covered(a, c) => Covered(a, c)'
  BY CoveredStays
<1> USE DEF Creating, Stored
<1>1. CASE BuildFails(t)
  BY <1>0, <1>1, RaiseCover DEF BuildFails
<1>2. CASE StoreMarket(t)
  <2>1. /\ pc'[t] = "trigger" /\ loc'[t] = [loc[t] EXCEPT !.m = Len(markets) + 1]
        /\ pc[t] = "build"
    BY <1>0, <1>2, GotoFacts DEF StoreMarket
  <2>2. /\ loc'[t].existing = loc[t].existing /\ loc'[t].close = loc[t].close
        /\ loc'[t].k = loc[t].k /\ loc'[t].m = Len(markets) + 1
        /\ loc'[t].daily = loc[t].daily
    BY <1>0, <2>1 DEF Locals
  <2>3. markets'[Len(markets) + 1] = NewMarket(t)
    BY <1>0, <1>2, StoreKept
  <2>4. /\ markets'[loc'[t].m].asset = Assets[loc'[t].k]
        /\ markets'[loc'[t].m].closes = loc'[t].close
    BY <2>2, <2>3 DEF NewMarket
  <2> QED
    BY <1>0, <1>a, <2>1, <2>2, <2>4 DEF CoverOK
<1>3. CASE TriggerStart(t)
  <2>1. /\ pc'[t] = "ask" /\ pc[t] = "trigger"
        /\ loc'[t] = [loc[t] EXCEPT !.size = Len(agents), !.i = 1]
    BY <1>0, <1>3, GotoFacts DEF TriggerStart
  <2> QED
    BY <1>0, <2>1, CreatingCover DEF Locals
<1>4. CASE AskAgent(t)
  <2>1. pc[t] = "ask"
    BY <1>4 DEF AskAgent
  <2>3. CASE Goto(t, "ask", [loc[t] EXCEPT !.i = @ + 1])
    <3>1. pc'[t] = "ask" /\ loc'[t] = [loc[t] EXCEPT !.i = @ + 1]
      BY <1>0, <2>3, GotoFacts
    <3> QED
      BY <1>0, <2>1, <3>1, CreatingCover DEF Locals
  <2>4. ASSUME NEW d, Goto(t, "ask", [loc[t] EXCEPT !.i = @ + 1, !.todo = Append(@, d)])
        PROVE  CoverOK(t)'
    <3>1. pc'[t] = "ask" /\ loc'[t] = [loc[t] EXCEPT !.i = @ + 1, !.todo = Append(@, d)]
      BY <1>0, <2>4, GotoFacts
    <3> QED
      BY <1>0, <2>1, <3>1, CreatingCover DEF Locals
  <2> QED
    BY <1>4, <2>3, <2>4 DEF AskAgent
<1>5. CASE AskEnd(t)
  <2>1. /\ pc'[t] = "place" /\ pc[t] = "ask"
        /\ loc'[t] = [loc[t] EXCEPT !.size = 0, !.i = 0]
    BY <1>0, <1>5, GotoFacts DEF AskEnd
  <2> QED
    BY <1>0, <2>1, CreatingCover DEF Locals
<1>6. CASE AskFails(t)
  BY <1>0, <1>6, RaiseCover DEF AskFails
<1>7. CASE AutoBetCheck(t)
  <2>1. pc'[t] = "lock" /\ pc[t] = "place" /\ loc'[t] = loc[t]
    BY <1>0, <1>7, GotoFacts DEF AutoBetCheck
  <2> QED
    BY <2>1, CreatingCover
<1>8. CASE AutoBetFails(t)
  BY <1>0, <1>8, RaiseCover DEF AutoBetFails
<1>9. CASE AutoBetAppend(t)
  <2>1. pc'[t] = "place" /\ pc[t] = "lock" /\ loc'[t] = [loc[t] EXCEPT !.todo = Tail(@)]
    BY <1>0, <1>9, GotoFacts DEF AutoBetAppend
  <2> QED
    BY <1>0, <2>1, CreatingCover DEF Locals
<1>10. CASE CreateReturn(t)
  <2>1. CASE loc[t].daily
    <3>1. /\ pc'[t] = "loop" /\ pc[t] = "place"
          /\ loc'[t] = [loc[t] EXCEPT !.k = @ + 1, !.m = 0]
      BY <1>0, <1>10, <2>1, GotoFacts DEF CreateReturn
    <3>2. /\ loc'[t].existing = loc[t].existing /\ loc'[t].close = loc[t].close
          /\ loc'[t].k = loc[t].k + 1 /\ loc[t].k \in Nat
      BY <1>0, <3>1 DEF Locals
    <3>3. Covered(Assets[loc[t].k], loc[t].close)
      BY <1>0, <3>1 DEF CoverOK, Covered, ThreadOK
    <3>4. \A j \in 1..loc[t].k : Covered(Assets[j], loc[t].close)
      BY <1>0, <2>1, <3>1, <3>2, <3>3 DEF CoverOK
    <3> QED
      BY <1>0, <1>a, <3>1, <3>2, <3>4 DEF CoverOK
  <2>2. CASE ~loc[t].daily
    <3>1. pc'[t] = "idle" /\ loc'[t] = NoLocals
      BY <1>0, <1>10, <2>2, GotoFacts DEF CreateReturn
    <3> QED
      BY <3>1 DEF NoLocals, CoverOK
  <2> QED
    BY <2>1, <2>2
<1> QED
  BY <1>1, <1>2, <1>3, <1>4, <1>5, <1>6, <1>7, <1>8, <1>9, <1>10 DEF CreateSteps

\* A handler that starts has found nothing yet.
LEMMA StartCover ==
    ASSUME TypeInv, NEW t \in Threads, NEW l \in {"existing", "build"}, NEW r,
           Goto(t, l, r), r.existing = {}, l = "build" => ~r.daily
    PROVE  CoverOK(t)'
<1>1. pc'[t] = l /\ loc'[t] = r
  BY GotoFacts
<1> QED
  BY <1>1 DEF CoverOK, Creating, Stored

LEMMA InitCover == Init => CoverInv
<1> SUFFICES ASSUME Init PROVE CoverInv
  OBVIOUS
<1>1. \A t \in Threads : CoverOK(t)
  BY DEF Init, CoverOK, NoLocals, Creating, Stored
<1> QED
  BY <1>1, InitTypeInv DEF CoverInv

\* A step moves one thread, or none.
LEMMA OneMoves ==
    ASSUME TypeInv, [Next]_vars
    PROVE  \/ UNCHANGED <<pc, loc>>
           \/ \E t \in Threads :
                 /\ \/ EnsureSteps(t) \/ CreateSteps(t)
                    \/ pc[t] = "idle" /\ EnsureStart(t)
                    \/ pc[t] = "idle" /\ \E k, close : CreateRequest(t, k, close)
                 /\ \A u \in Threads : u # t => pc'[u] = pc[u] /\ loc'[u] = loc[u]
<1>0. Scheduler \in Threads /\ HttpThreads \subseteq Threads
  BY DEF Threads
<1>1. ASSUME NEW t \in Threads, NEW l, NEW r, Goto(t, l, r)
      PROVE  \A u \in Threads : u # t => pc'[u] = pc[u] /\ loc'[u] = loc[u]
  BY <1>1, GotoFacts
<1>2. ASSUME NEW t \in Threads,
             EnsureSteps(t) \/ CreateSteps(t) \/ EnsureStart(t)
               \/ \E k, close : CreateRequest(t, k, close)
      PROVE  \E l, r : Goto(t, l, r)
  <2>1. CASE EnsureSteps(t)
    BY <2>1 DEF EnsureSteps, ScanStart, ScanMarket, ScanEnd, ScanFails, SkipAsset,
       CreateAsset, EnsureReturn, Raise
  <2>2. CASE CreateSteps(t)
    BY <2>2 DEF CreateSteps, BuildFails, StoreMarket, TriggerStart, AskAgent, AskEnd,
       AskFails, AutoBetCheck, AutoBetFails, AutoBetAppend, CreateReturn, Raise
  <2> QED
    BY <1>2, <2>1, <2>2 DEF EnsureStart, CreateRequest
<1>3. CASE ScheduledRun
  BY <1>0, <1>1, <1>2, <1>3 DEF ScheduledRun
<1>4. ASSUME NEW t \in Threads, EnsureSteps(t) \/ CreateSteps(t)
      PROVE  \A u \in Threads : u # t => pc'[u] = pc[u] /\ loc'[u] = loc[u]
  BY <1>1, <1>2, <1>4
<1>5. ASSUME NEW t \in Threads, SeedRequest(t)
      PROVE  /\ pc[t] = "idle" /\ EnsureStart(t)
             /\ \A u \in Threads : u # t => pc'[u] = pc[u] /\ loc'[u] = loc[u]
  BY <1>1, <1>2, <1>5 DEF SeedRequest
<1>6. ASSUME NEW t \in HttpThreads, NEW k, NEW close, CreateRequest(t, k, close)
      PROVE  /\ t \in Threads /\ pc[t] = "idle"
             /\ \A u \in Threads : u # t => pc'[u] = pc[u] /\ loc'[u] = loc[u]
  BY <1>0, <1>1, <1>2, <1>6 DEF CreateRequest
<1>7. ASSUME NEW i, Resolve(i) PROVE UNCHANGED <<pc, loc>>
  BY <1>7 DEF Resolve
<1>8. ASSUME NEW a, NEW w, RegisterAgent(a, w) PROVE UNCHANGED <<pc, loc>>
  BY <1>8 DEF RegisterAgent
<1>9. CASE Tick \/ UNCHANGED vars
  BY <1>9 DEF Tick, vars
<1> QED
  BY <1>3, <1>4, <1>5, <1>6, <1>7, <1>8, <1>9 DEF Next

LEMMA NextCover == CoverInv /\ [Next]_vars => CoverInv'
<1> SUFFICES ASSUME CoverInv, [Next]_vars PROVE CoverInv'
  OBVIOUS
<1>1. TypeInv /\ TypeInv' /\ MarketsKept /\ \A t \in Threads : CoverOK(t)
  BY NextTypeInv, NextKept DEF CoverInv
<1>2. ASSUME NEW t \in Threads, pc'[t] = pc[t], loc'[t] = loc[t]
      PROVE  CoverOK(t)'
  BY <1>1, <1>2, CoverStays
<1>3. ASSUME NEW t \in Threads, EnsureStart(t) PROVE CoverOK(t)'
  <2> DEFINE r == [NoLocals EXCEPT !.close = today + 1, !.daily = TRUE]
  <2>1. Goto(t, "existing", r) /\ r.existing = {}
    BY <1>3 DEF EnsureStart, NoLocals
  <2> HIDE DEF r
  <2> QED
    BY <1>1, <2>1, StartCover
<1>4. ASSUME NEW t \in Threads, NEW k, NEW close, CreateRequest(t, k, close)
      PROVE  CoverOK(t)'
  <2> DEFINE r == [NoLocals EXCEPT !.close = close, !.k = k]
  <2>1. Goto(t, "build", r) /\ r.existing = {} /\ ~r.daily
    BY <1>4 DEF CreateRequest, NoLocals
  <2> HIDE DEF r
  <2> QED
    BY <1>1, <2>1, StartCover
<1>5. ASSUME NEW t \in Threads, EnsureSteps(t) \/ CreateSteps(t) PROVE CoverOK(t)'
  BY <1>1, <1>5, EnsureCover, CreateCover
<1>6. \A t \in Threads : CoverOK(t)'
  BY <1>1, <1>2, <1>3, <1>4, <1>5, OneMoves
<1> QED
  BY <1>1, <1>6 DEF CoverInv

LEMMA CoverInvAlways == Spec => []CoverInv
  BY InitCover, NextCover, PTL DEF Spec

\* A run of ensure_daily_markets that returns has left every supported asset with a
\* market for its day, whatever the other threads did.
THEOREM CompletedRunsCover == Spec => CompletedRunCoversAllAssets
<1>1. ASSUME CoverInv, [Next]_vars, NEW t \in Threads, pc[t] = "loop", pc'[t] = "idle",
             NEW a \in AssetIds
      PROVE  Covered(a, loc[t].close)
  <2>1. TypeInv /\ CoverOK(t) /\ ThreadOK(pc[t], loc[t], Len(markets)) /\ loc[t] \in Locals
    BY <1>1 DEF CoverInv, TypeInv, TypeOK, LocalsOK
  <2>2. EnsureSteps(t) \/ CreateSteps(t)
    BY <1>1, <2>1, OneMoves
  <2>3. ~CreateSteps(t)
    BY <1>1 DEF CreateSteps, BuildFails, StoreMarket, TriggerStart, AskAgent, AskEnd,
       AskFails, AutoBetCheck, AutoBetFails, AutoBetAppend, CreateReturn
  <2>4. ~(SkipAsset(t) \/ CreateAsset(t))
    BY <1>1, <2>1, GotoFacts DEF SkipAsset, CreateAsset
  <2>5. EnsureReturn(t)
    BY <1>1, <2>2, <2>3, <2>4 DEF EnsureSteps, ScanStart, ScanMarket, ScanEnd, ScanFails
  <2>6. loc[t].k > Len(Assets) /\ loc[t].daily /\ loc[t].k \in Nat
    BY <1>1, <2>1, <2>5 DEF EnsureReturn, ThreadOK, Locals
  <2>7. PICK j \in 1..Len(Assets) : Assets[j] = a
    BY AssetsFacts
  <2>8. j \in 1..(loc[t].k - 1)
    <3> DEFINE k == loc[t].k
               n == Len(Assets)
    <3>1. k > n /\ k \in Nat /\ n \in Nat /\ j \in 1..n
      BY <2>6, <2>7, AssetsFacts
    <3> HIDE DEF k, n
    <3>2. j \in 1..(k - 1)
      BY <3>1
    <3> QED
      BY <3>2 DEF k
  <2> QED
    BY <1>1, <2>1, <2>6, <2>7, <2>8 DEF CoverOK
<1>2. CoverInv /\ [Next]_vars =>
        [\A t \in Threads :
          pc[t] = "loop" /\ pc'[t] = "idle" =>
              \A a \in AssetIds : Covered(a, loc[t].close)]_vars
  BY <1>1
<1> QED
  BY <1>2, CoverInvAlways, PTL DEF Spec, CompletedRunCoversAllAssets

----------------------------------------------------------------------------
(* No thread opens an asset's market for a day twice *)

\* An open market of the day that this thread's run is about, which it made itself.
Mine(t, i) == markets[i].open /\ markets[i].by = t /\ markets[i].closes = loc[t].close

\* The assets before which the run stands: up to its place in the loop.
Passed(t, a) ==
    \E j \in 1..(IF pc[t] \in Stored THEN loc[t].k ELSE loc[t].k - 1) : Assets[j] = a

\* A run knows of its own open markets: it found them in the scan or has passed them,
\* and it creates what it did not find.
OnceOK(t) ==
    /\ pc[t] = "scan" =>
          \A i \in 1..Len(markets) :
             i < loc[t].i /\ Mine(t, i) => markets[i].asset \in loc[t].existing
    /\ pc[t] \in {"loop"} \cup Creating /\ loc[t].daily =>
          \A i \in 1..Len(markets) :
             Mine(t, i) => markets[i].asset \in loc[t].existing \/ Passed(t, markets[i].asset)
    /\ pc[t] = "build" /\ loc[t].daily => Assets[loc[t].k] \notin loc[t].existing

OnceInv == TypeInv /\ NoThreadCreatesTwice /\ \A t \in Threads : OnceOK(t)

\* The open markets that thread t made were there before.
OwnKept(t) ==
    \A i \in 1..Len(markets') :
        markets'[i].open /\ markets'[i].by = t =>
            /\ i \in 1..Len(markets) /\ markets[i].open /\ markets[i].by = t
            /\ markets'[i].closes = markets[i].closes
            /\ markets'[i].asset = markets[i].asset

\* Only thread t makes markets of its own.
LEMMA NextOwn ==
    ASSUME TypeInv, [Next]_vars, NEW t \in Threads, ~StoreMarket(t)
    PROVE  OwnKept(t)
<1>1. CASE Len(markets') = Len(markets)
  BY <1>1, NextKept DEF MarketsKept, OwnKept
<1>2. ASSUME NEW u \in Threads, StoreMarket(u) PROVE OwnKept(t)
  <2>1. u # t
    BY <1>2
  <2>2. /\ MarketsKept /\ Len(markets') = Len(markets) + 1
        /\ markets'[Len(markets) + 1] = NewMarket(u)
    BY <1>2, StoreKept
  <2>3. NewMarket(u).by # t
    BY <2>1, DailyAssumption DEF NewMarket
  <2> QED
    BY <2>2, <2>3 DEF MarketsKept, OwnKept
<1> QED
  BY <1>1, <1>2, NextKept

\* A thread that keeps its place and what it knows, and makes no market.
LEMMA OnceStays ==
    ASSUME NEW t \in Threads, OnceOK(t), OwnKept(t),
           pc'[t] = pc[t] \/ (pc[t] \in Stored /\ pc'[t] \in Stored),
           loc'[t].existing = loc[t].existing, loc'[t].close = loc[t].close,
           loc'[t].k = loc[t].k, loc'[t].daily = loc[t].daily,
           pc[t] # "scan" \/ loc'[t].i = loc[t].i
    PROVE  OnceOK(t)'
  BY DEF OnceOK, OwnKept, Mine, Passed, Creating, Stored

\* A handler that ends has nothing to know.
LEMMA IdleOnce ==
    ASSUME TypeInv, NEW t \in Threads, NEW r, Goto(t, "idle", r)
    PROVE  OnceOK(t)'
<1>1. pc'[t] = "idle"
  BY GotoFacts
<1> QED
  BY <1>1 DEF OnceOK, Creating, Stored

LEMMA EnsureOnce ==
    ASSUME OnceInv, NEW t \in Threads, EnsureSteps(t), OwnKept(t)
    PROVE  OnceOK(t)'
<1>0. /\ OnceOK(t) /\ TypeInv /\ loc[t] \in Locals
      /\ ThreadOK(pc[t], loc[t], Len(markets)) /\ Len(markets) \in Nat
  BY DEF OnceInv, TypeInv, TypeOK, LocalsOK
<1> USE DEF Creating, Stored
<1>1. CASE ScanStart(t)
  <2>1. pc'[t] = "scan" /\ loc'[t] = [loc[t] EXCEPT !.size = Len(markets), !.i = 1]
    BY <1>0, <1>1, GotoFacts DEF ScanStart
  <2>2. loc'[t].i = 1
    BY <1>0, <2>1 DEF Locals
  <2> QED
    BY <2>1, <2>2 DEF OnceOK
<1>2. CASE ScanMarket(t)
  <2> DEFINE market == markets[loc[t].i]
             found == IF market.open /\ market.closes = loc[t].close
                      THEN {market.asset} ELSE {}
  <2>1. /\ pc'[t] = "scan" /\ pc[t] = "scan"
        /\ loc'[t] = [loc[t] EXCEPT !.i = @ + 1, !.existing = @ \cup found]
    BY <1>0, <1>2, GotoFacts DEF ScanMarket
  <2>2. Mine(t, loc[t].i) => market.asset \in found
    BY DEF Mine
  <2> HIDE DEF found
  <2>3. /\ loc'[t].existing = loc[t].existing \cup found /\ loc'[t].close = loc[t].close
        /\ loc'[t].i = loc[t].i + 1 /\ loc[t].i \in Nat
    BY <1>0, <2>1 DEF Locals
  <2>4. \A i \in 1..Len(markets) :
           i < loc[t].i + 1 /\ Mine(t, i) => markets[i].asset \in loc[t].existing \cup found
    BY <1>0, <2>1, <2>2, <2>3 DEF OnceOK
  <2> QED
    BY <2>1, <2>3, <2>4 DEF OnceOK, OwnKept, Mine
<1>3. CASE ScanEnd(t)
  <2>1. /\ pc'[t] = "loop" /\ loc'[t] = [loc[t] EXCEPT !.k = 1, !.size = 0, !.i = 0]
        /\ pc[t] = "scan" /\ loc[t].i > Len(markets)
    BY <1>0, <1>3, GotoFacts DEF ScanEnd
  <2>2. /\ loc'[t].existing = loc[t].existing /\ loc'[t].close = loc[t].close
        /\ loc[t].i \in Nat
    BY <1>0, <2>1 DEF Locals
  <2>3. \A i \in 1..Len(markets) : Mine(t, i) => markets[i].asset \in loc[t].existing
    BY <1>0, <2>1, <2>2 DEF OnceOK
  <2> QED
    BY <2>1, <2>2, <2>3 DEF OnceOK, OwnKept, Mine
<1>4. CASE ScanFails(t)
  BY <1>0, <1>4, IdleOnce DEF ScanFails, Raise
<1>5. CASE SkipAsset(t)
  <2>1. /\ pc'[t] = "loop" /\ loc'[t] = [loc[t] EXCEPT !.k = @ + 1] /\ pc[t] = "loop"
    BY <1>0, <1>5, GotoFacts DEF SkipAsset
  <2>2. /\ loc'[t].existing = loc[t].existing /\ loc'[t].close = loc[t].close
        /\ loc'[t].k = loc[t].k + 1 /\ loc[t].k \in Nat /\ loc[t].daily
    BY <1>0, <2>1 DEF Locals, ThreadOK
  <2>3. \A a : Passed(t, a) => Passed(t, a)'
    BY <2>1, <2>2 DEF Passed
  <2> QED
    BY <1>0, <2>1, <2>2, <2>3 DEF OnceOK, OwnKept, Mine
<1>6. CASE CreateAsset(t)
  <2>1. /\ pc'[t] = "build" /\ loc'[t] = loc[t] /\ pc[t] = "loop"
        /\ Assets[loc[t].k] \notin loc[t].existing
    BY <1>0, <1>6, GotoFacts DEF CreateAsset
  <2>2. \A a : Passed(t, a) => Passed(t, a)'
    BY <2>1 DEF Passed
  <2> QED
    BY <1>0, <2>1, <2>2 DEF OnceOK, OwnKept, Mine
<1>7. CASE EnsureReturn(t)
  BY <1>0, <1>7, IdleOnce DEF EnsureReturn
<1> QED
  BY <1>1, <1>2, <1>3, <1>4, <1>5, <1>6, <1>7 DEF EnsureSteps

\* A run that stores a market has passed it.
LEMMA StoreOnce ==
    ASSUME OnceInv, NEW t \in Threads, StoreMarket(t)
    PROVE  OnceOK(t)'
<1>0. /\ OnceOK(t) /\ TypeInv /\ loc[t] \in Locals
      /\ ThreadOK(pc[t], loc[t], Len(markets)) /\ Len(markets) \in Nat
  BY DEF OnceInv, TypeInv, TypeOK, LocalsOK
<1>1. /\ pc'[t] = "trigger" /\ loc'[t] = [loc[t] EXCEPT !.m = Len(markets) + 1]
      /\ pc[t] = "build"
  BY <1>0, GotoFacts DEF StoreMarket
<1>2. /\ loc'[t].existing = loc[t].existing /\ loc'[t].close = loc[t].close
      /\ loc'[t].k = loc[t].k /\ loc'[t].daily = loc[t].daily /\ loc[t].k \in Nat
      /\ loc[t].k \in 1..Len(Assets)
  BY <1>0, <1>1 DEF Locals, ThreadOK, Creating
<1>3. /\ Len(markets') = Len(markets) + 1
      /\ markets'[Len(markets) + 1].asset = Assets[loc[t].k]
      /\ \A i \in 1..Len(markets) : markets'[i] = markets[i]
  <2>1. NewMarket(t).asset = Assets[loc[t].k]
    BY DEF NewMarket
  <2> QED
    BY <1>0, <2>1, StoreKept
<1>4. \A a : Passed(t, a) \/ a = Assets[loc[t].k] => Passed(t, a)'
  BY <1>1, <1>2 DEF Passed, Stored, Creating
<1>5. ASSUME loc[t].daily, NEW i \in 1..Len(markets'), Mine(t, i)'
      PROVE  markets'[i].asset \in loc'[t].existing \/ Passed(t, markets[i].asset)'
  <2>1. CASE i \in 1..Len(markets)
    BY <1>0, <1>1, <1>2, <1>3, <1>4, <1>5, <2>1 DEF OnceOK, Mine, Creating
  <2>2. CASE i = Len(markets) + 1
    BY <1>3, <1>4, <2>2
  <2> QED
    BY <1>0, <1>3, <2>1, <2>2
<1> QED
  BY <1>1, <1>2, <1>5 DEF OnceOK

LEMMA CreateOnce ==
    ASSUME OnceInv, NEW t \in Threads, CreateSteps(t), StoreMarket(t) \/ OwnKept(t)
    PROVE  OnceOK(t)'
<1>0. /\ OnceOK(t) /\ TypeInv /\ loc[t] \in Locals
  BY DEF OnceInv, TypeInv, TypeOK
<1> USE DEF Creating, Stored
<1>1. CASE StoreMarket(t)
  BY <1>1, StoreOnce
<1>2. CASE BuildFails(t) \/ AskFails(t) \/ AutoBetFails(t)
  BY <1>0, <1>2, IdleOnce DEF BuildFails, AskFails, AutoBetFails, Raise
<1>3. CASE TriggerStart(t) /\ OwnKept(t)
  <2>1. /\ pc'[t] = "ask" /\ pc[t] = "trigger"
        /\ loc'[t] = [loc[t] EXCEPT !.size = Len(agents), !.i = 1]
    BY <1>0, <1>3, GotoFacts DEF TriggerStart
  <2> QED
    BY <1>0, <1>3, <2>1, OnceStays DEF Locals
<1>4. CASE AskAgent(t) /\ OwnKept(t)
  <2>1. pc[t] = "ask"
    BY <1>4 DEF AskAgent
  <2>2. CASE Goto(t, "ask", [loc[t] EXCEPT !.i = @ + 1])
    <3>1. pc'[t] = "ask" /\ loc'[t] = [loc[t] EXCEPT !.i = @ + 1]
      BY <1>0, <2>2, GotoFacts
    <3> QED
      BY <1>0, <1>4, <2>1, <3>1, OnceStays DEF Locals
  <2>3. ASSUME NEW d, Goto(t, "ask", [loc[t] EXCEPT !.i = @ + 1, !.todo = Append(@, d)])
        PROVE  OnceOK(t)'
    <3>1. pc'[t] = "ask" /\ loc'[t] = [loc[t] EXCEPT !.i = @ + 1, !.todo = Append(@, d)]
      BY <1>0, <2>3, GotoFacts
    <3> QED
      BY <1>0, <1>4, <2>1, <3>1, OnceStays DEF Locals
  <2> QED
    BY <1>4, <2>2, <2>3 DEF AskAgent
<1>5. CASE AskEnd(t) /\ OwnKept(t)
  <2>1. /\ pc'[t] = "place" /\ pc[t] = "ask"
        /\ loc'[t] = [loc[t] EXCEPT !.size = 0, !.i = 0]
    BY <1>0, <1>5, GotoFacts DEF AskEnd
  <2> QED
    BY <1>0, <1>5, <2>1, OnceStays DEF Locals
<1>6. CASE AutoBetCheck(t) /\ OwnKept(t)
  <2>1. pc'[t] = "lock" /\ pc[t] = "place" /\ loc'[t] = loc[t]
    BY <1>0, <1>6, GotoFacts DEF AutoBetCheck
  <2> QED
    BY <1>0, <1>6, <2>1, OnceStays
<1>7. CASE AutoBetAppend(t) /\ OwnKept(t)
  <2>1. pc'[t] = "place" /\ pc[t] = "lock" /\ loc'[t] = [loc[t] EXCEPT !.todo = Tail(@)]
    BY <1>0, <1>7, GotoFacts DEF AutoBetAppend
  <2> QED
    BY <1>0, <1>7, <2>1, OnceStays DEF Locals
<1>8. CASE CreateReturn(t) /\ OwnKept(t)
  <2>1. CASE loc[t].daily
    <3>1. /\ pc'[t] = "loop" /\ pc[t] = "place"
          /\ loc'[t] = [loc[t] EXCEPT !.k = @ + 1, !.m = 0]
      BY <1>0, <1>8, <2>1, GotoFacts DEF CreateReturn
    <3>2. /\ loc'[t].existing = loc[t].existing /\ loc'[t].close = loc[t].close
          /\ loc'[t].k = loc[t].k + 1 /\ loc[t].k \in Nat
      BY <1>0, <3>1 DEF Locals
    <3>3. \A a : Passed(t, a) => Passed(t, a)'
      BY <3>1, <3>2 DEF Passed
    <3> QED
      BY <1>0, <1>8, <2>1, <3>1, <3>2, <3>3 DEF OnceOK, OwnKept, Mine
  <2>2. CASE ~loc[t].daily
    BY <1>0, <1>8, <2>2, IdleOnce DEF CreateReturn
  <2> QED
    BY <2>1, <2>2
<1> QED
  BY <1>1, <1>2, <1>3, <1>4, <1>5, <1>6, <1>7, <1>8 DEF CreateSteps

\* The new market is none that its thread has open: the run did not find its asset in
\* the scan and has not passed it, and no asset is listed twice.
LEMMA NextNoTwice == OnceInv /\ [Next]_vars => NoThreadCreatesTwice'
<1> SUFFICES ASSUME OnceInv, [Next]_vars PROVE NoThreadCreatesTwice'
  OBVIOUS
<1>0. TypeInv /\ NoThreadCreatesTwice /\ Len(markets) \in Nat
  BY DEF OnceInv, TypeInv, TypeOK
<1>1. CASE Len(markets') = Len(markets)
  BY <1>0, <1>1, NextKept DEF MarketsKept, NoThreadCreatesTwice
<1>2. ASSUME NEW t \in Threads, StoreMarket(t) PROVE NoThreadCreatesTwice'
  <2> DEFINE n == Len(markets) + 1
  <2>1. /\ OnceOK(t) /\ ThreadOK(pc[t], loc[t], Len(markets)) /\ pc[t] = "build"
    BY <1>2 DEF OnceInv, TypeInv, LocalsOK, StoreMarket
  <2>2. /\ Len(markets') = n /\ markets'[n] = NewMarket(t)
        /\ \A i \in 1..Len(markets) : markets'[i] = markets[i]
    BY <1>0, <1>2, StoreKept
  <2>3. ASSUME NEW i \in 1..Len(markets), markets[i].open, loc[t].daily, markets[i].by = t,
               markets[i].closes = loc[t].close
        PROVE  markets[i].asset # Assets[loc[t].k]
    <3>1. loc[t].k \in 1..Len(Assets) /\ Assets[loc[t].k] \notin loc[t].existing
      BY <2>1, <2>3 DEF OnceOK, ThreadOK, Creating
    <3>2. markets[i].asset \in loc[t].existing \/ Passed(t, markets[i].asset)
      BY <2>1, <2>3 DEF OnceOK, Mine, Creating
    <3>3. ASSUME NEW j \in 1..(loc[t].k - 1) PROVE Assets[j] # Assets[loc[t].k]
      <4> DEFINE k == loc[t].k
                 last == Len(Assets)
      <4>0. k \in 1..last /\ last \in Nat /\ j \in 1..(k - 1)
        BY <3>1, AssetsFacts
      <4> HIDE DEF k, last
      <4>1. j \in 1..last /\ j # k
        BY <4>0
      <4> USE DEF k, last
      <4> QED
        BY <3>1, <4>1, DailyAssumption
    <3> QED
      BY <2>1, <3>1, <3>2, <3>3 DEF Passed, Stored
  <2>4. /\ markets'[n].asset = Assets[loc[t].k] /\ markets'[n].closes = loc[t].close
        /\ markets'[n].by = IF loc[t].daily THEN t ELSE None
    BY <2>2 DEF NewMarket
  <2>5. ASSUME NEW i \in 1..Len(markets), markets'[i].open,
               markets'[i].asset = markets'[n].asset, markets'[i].closes = markets'[n].closes,
               markets'[i].by = markets'[n].by, markets'[i].by # None
        PROVE  FALSE
    BY <2>2, <2>3, <2>4, <2>5
  <2> HIDE DEF n
  <2>6. \A i \in 1..Len(markets') : i \in 1..Len(markets) \/ i = n
    BY <1>0, <2>2 DEF n
  <2> QED
    BY <1>0, <2>2, <2>5, <2>6 DEF NoThreadCreatesTwice
<1> QED
  BY <1>0, <1>1, <1>2, NextKept

LEMMA NextOnce == OnceInv /\ [Next]_vars => OnceInv'
<1> SUFFICES ASSUME OnceInv, [Next]_vars PROVE OnceInv'
  OBVIOUS
<1>1. TypeInv /\ TypeInv' /\ NoThreadCreatesTwice' /\ \A t \in Threads : OnceOK(t)
  BY NextTypeInv, NextNoTwice DEF OnceInv
<1>2. \A t \in Threads : StoreMarket(t) \/ OwnKept(t)
  BY <1>1, NextOwn
<1>3. ASSUME NEW t \in Threads, pc'[t] = pc[t], loc'[t] = loc[t]
      PROVE  OnceOK(t)'
  <2>1. ~StoreMarket(t)
    BY <1>1, <1>3, GotoFacts DEF StoreMarket
  <2> QED
    BY <1>1, <1>2, <1>3, <2>1, OnceStays
<1>4. ASSUME NEW t \in Threads, EnsureStart(t) PROVE OnceOK(t)'
  <2> DEFINE r == [NoLocals EXCEPT !.close = today + 1, !.daily = TRUE]
  <2>1. Goto(t, "existing", r)
    BY <1>4 DEF EnsureStart
  <2> HIDE DEF r
  <2>2. pc'[t] = "existing"
    BY <1>1, <2>1, GotoFacts
  <2> QED
    BY <2>2 DEF OnceOK, Creating, Stored
<1>5. ASSUME NEW t \in Threads, NEW k, NEW close, CreateRequest(t, k, close)
      PROVE  OnceOK(t)'
  <2> DEFINE r == [NoLocals EXCEPT !.close = close, !.k = k]
  <2>1. Goto(t, "build", r) /\ ~r.daily
    BY <1>5 DEF CreateRequest, NoLocals
  <2> HIDE DEF r
  <2>2. pc'[t] = "build" /\ ~loc'[t].daily
    BY <1>1, <2>1, GotoFacts
  <2> QED
    BY <2>2 DEF OnceOK
<1>6. ASSUME NEW t \in Threads, EnsureSteps(t) PROVE OnceOK(t)'
  <2>1. ~StoreMarket(t)
    BY <1>6 DEF EnsureSteps, StoreMarket, ScanStart, ScanMarket, ScanEnd, ScanFails,
       SkipAsset, CreateAsset, EnsureReturn
  <2> QED
    BY <1>2, <1>6, <2>1, EnsureOnce
<1>7. ASSUME NEW t \in Threads, CreateSteps(t) PROVE OnceOK(t)'
  BY <1>2, <1>7, CreateOnce
<1>8. \A t \in Threads : OnceOK(t)'
  BY <1>1, <1>3, <1>4, <1>5, <1>6, <1>7, OneMoves
<1> QED
  BY <1>1, <1>8 DEF OnceInv

LEMMA InitOnce == Init => OnceInv
<1> SUFFICES ASSUME Init PROVE OnceInv
  OBVIOUS
<1>1. \A t \in Threads : OnceOK(t)
  BY DEF Init, OnceOK, Creating, Stored
<1>2. NoThreadCreatesTwice
  BY DEF Init, NoThreadCreatesTwice
<1> QED
  BY <1>1, <1>2, InitTypeInv DEF OnceInv

\* The daily runs of one thread never open a second market for the same asset and day,
\* for any number of threads, whatever the others create and resolve.
THEOREM NoThreadDuplicates == Spec => []NoThreadCreatesTwice
<1>1. OnceInv => NoThreadCreatesTwice
  BY DEF OnceInv
<1> QED
  BY <1>1, InitOnce, NextOnce, PTL DEF Spec
=============================================================================
