---------------------- MODULE MarketControllerProofs ----------------------
(* What holds of MarketController for every value of its constants. *)
EXTENDS MarketController, SequenceTheorems, SumProofs, TLAPS

\* What a thread's program counter says of its local variables: which market it
\* works on, which bet it has appended, how far its settlement has come.
ThreadOK(p, l, b) ==
    /\ p \notin {"idle", "due_next"} => l.m \in Markets
    /\ p = "due_next" => l.todo # <<>>
    /\ p \in {"bet_pool", "bet_agent", "bet_volume"} => l.n \in 1..Len(b[l.m])
    /\ p \in {"bet_agent", "bet_volume"} => l.bettor \in Agents
    /\ p = "res_price" /\ l.m \in SportsMarkets => l.outcome \in Overrides
    /\ p \in {"res_settle", "res_payout", "res_record", "res_stats"} =>
          l.outcome \in Overrides /\ l.i >= 1
    /\ p = "res_settle" => l.i <= Len(b[l.m]) + 1
    /\ p = "res_payout" => l.i <= Len(b[l.m])
    /\ p \in {"res_record", "res_stats"} => l.n <= Len(b[l.m])
    /\ p = "res_stats" => l.i <= l.n

LocalsOK == \A t \in Procs : ThreadOK(pc[t], loc[t], bets)

TypeInv == TypeOK /\ LocalsOK

\* A step shortens no list of bets.
ListsGrow == \A m \in Markets : /\ Len(bets[m]) \in Nat /\ Len(bets'[m]) \in Nat
                                /\ Len(bets[m]) <= Len(bets'[m])

\* Python's round never takes a payout below zero profit.
LEMMA RoundNat ==
    ASSUME NEW n \in Nat, NEW d \in Nat \ {0}
    PROVE  RoundHalfEven(n, d) \in Nat
<1>1. n \div d \in Int /\ n % d \in 0..(d - 1) /\ n = d * (n \div d) + (n % d)
  BY SMT
<1>2. n \div d >= 0
  <2> DEFINE q == n \div d
  <2>1. SUFFICES ASSUME q <= -1 PROVE FALSE
    BY <1>1
  <2>2. d * q <= -d
    BY <1>1, <2>1, SMT
  <2> QED
    BY <1>1, <2>2, SMT
<1> QED
  BY <1>1, <1>2, SMT DEF RoundHalfEven

\* Quotients and remainders of n by d and of a number at least w times n by w times d.
LEMMA ScaledDivision ==
    ASSUME NEW d \in Nat \ {0}, NEW w \in Nat \ {0}, NEW q \in Int, NEW r \in Nat,
           NEW k \in Int, NEW z \in Nat, z < w * d,
           w * d * k + z >= w * (d * q + r)
    PROVE  /\ k >= q
           /\ k = q /\ 2 * r > d => 2 * z > w * d
           /\ k = q /\ 2 * r = d => 2 * z >= w * d
<1>1. PICK e \in Nat \ {0} : e = w * d
  BY SMT
<1>2. PICK x \in Nat : x = w * r
  BY SMT
<1>3. w * (d * q + r) = e * q + x
  BY <1>1, <1>2, SMT
<1>4. e * k + z >= e * q + x /\ z < e
  BY <1>1, <1>3
<1>5. k >= q
  <2>1. SUFFICES ASSUME q - k >= 1 PROVE FALSE
    OBVIOUS
  <2>2. PICK j \in Nat : q = k + 1 + j
    <3>1. q - k - 1 \in Nat /\ q = k + 1 + (q - k - 1)
      BY <2>1
    <3> QED
      BY <3>1
  <2>3. e * q = e * k + e + e * j
    BY <1>1, <2>2, SMT
  <2>4. e * j \in Nat /\ e * k \in Int
    BY <1>1, SMT
  <2> QED
    BY <1>4, <2>3, <2>4
<1>6. k = q => z >= x
  BY <1>1, <1>4, SMT
<1>7. 2 * r > d => 2 * x > e
  <2>1. ASSUME 2 * r > d PROVE 2 * x > e
    <3>1. PICK j \in Nat : 2 * r = d + 1 + j
      <4>1. 2 * r - d - 1 \in Nat /\ 2 * r = d + 1 + (2 * r - d - 1)
        BY <2>1
      <4> QED
        BY <4>1
    <3>2. w * (2 * r) = w * d + w + w * j
      BY <3>1, SMT
    <3>3. w * (2 * r) = 2 * x /\ w * j \in Nat
      BY <1>2, SMT
    <3> QED
      BY <1>1, <3>2, <3>3
  <2> QED
    BY <2>1
<1>8. 2 * r = d => 2 * x = e
  <2>1. w * (2 * r) = 2 * x
    BY <1>2, SMT
  <2> QED
    BY <1>1, <2>1
<1> QED
  BY <1>1, <1>5, <1>6, <1>7, <1>8

\* A bigger share of a finer unit does not round to less.
LEMMA RoundScaled ==
    ASSUME NEW n \in Nat, NEW d \in Nat \ {0}, NEW w \in Nat \ {0}, NEW x \in Nat, x >= w * n
    PROVE  RoundHalfEven(x, w * d) >= RoundHalfEven(n, d)
<1>1. PICK q \in Int, r \in 0..(d - 1) : q = n \div d /\ r = n % d /\ n = d * q + r
  BY SMT
<1>2. PICK e \in Nat \ {0} : e = w * d
  BY SMT
<1>3. PICK k \in Int, z \in 0..(e - 1) : k = x \div e /\ z = x % e /\ x = e * k + z
  BY SMT
<1>4. RoundHalfEven(n, d) = IF 2 * r > d \/ (2 * r = d /\ q % 2 = 1) THEN q + 1 ELSE q
  BY <1>1 DEF RoundHalfEven
<1>5. RoundHalfEven(x, w * d) = IF 2 * z > e \/ (2 * z = e /\ k % 2 = 1) THEN k + 1 ELSE k
  BY <1>2, <1>3 DEF RoundHalfEven
<1>6. r \in Nat /\ z \in Nat /\ z < w * d /\ w * d * k + z >= w * (d * q + r)
  BY <1>1, <1>2, <1>3
<1>7. /\ k >= q
      /\ k = q /\ 2 * r > d => 2 * z > w * d
      /\ k = q /\ 2 * r = d => 2 * z >= w * d
  BY <1>6, ScaledDivision
<1>8. CASE k = q
  <2>1. 2 * r > d => 2 * z > e
    BY <1>2, <1>7, <1>8
  <2>2. 2 * r = d => 2 * z >= e
    BY <1>2, <1>7, <1>8
  <2>3. (2 * r > d \/ (2 * r = d /\ q % 2 = 1)) => (2 * z > e \/ (2 * z = e /\ k % 2 = 1))
    BY <1>2, <1>8, <2>1, <2>2
  <2> QED
    BY <1>4, <1>5, <1>8, <2>3
<1>9. CASE k >= q + 1
  BY <1>4, <1>5, <1>9
<1> QED
  BY <1>7, <1>8, <1>9

\* Rounding takes away half of the last decimal at most.
LEMMA RoundClose ==
    ASSUME NEW n \in Nat, NEW d \in Nat \ {0}
    PROVE  2 * (n - d * RoundHalfEven(n, d)) <= d
<1> DEFINE q == n \div d
           r == n % d
<1>1. q \in Int /\ r \in 0..(d - 1) /\ n = d * q + r /\ d * q \in Int
  BY SMT
<1>2. RoundHalfEven(n, d) = IF 2 * r > d \/ (2 * r = d /\ q % 2 = 1) THEN q + 1 ELSE q
  BY DEF RoundHalfEven
<1>3. d * (q + 1) = d * q + d
  BY <1>1, SMT
<1> HIDE DEF q, r
<1>4. CASE RoundHalfEven(n, d) = q
  <2>1. 2 * r <= d
    BY <1>1, <1>2, <1>4
  <2> QED
    BY <1>1, <1>4, <2>1
<1>5. CASE RoundHalfEven(n, d) = q + 1
  BY <1>1, <1>3, <1>5
<1> QED
  BY <1>2, <1>4, <1>5

LEMMA RoundedNat ==
    ASSUME NEW n \in Nat, NEW d \in Nat \ {0}
    PROVE  Rounded(n, d) \in Nat
<1>1. d * Grain \in Nat \ {0} /\ Grain \in Nat
  BY FeeAssumption, SMT
<1> DEFINE k == RoundHalfEven(n, d * Grain)
<1>2. k \in Nat
  BY <1>1, RoundNat
<1> HIDE DEF k
<1>3. Grain * k \in Nat
  BY <1>1, <1>2, SMT
<1> QED
  BY <1>3 DEF Rounded, k

\* A winning bet is paid its stake at least, as far as six decimals can say it: the stake is
\* not rounded and the payout is, so that half of the last decimal may be missing, whatever
\* the pools are. A stake of less than that is paid nothing.
LEMMA PayoutAtLeastStake ==
    ASSUME NEW amount \in Nat, NEW win \in Nat, NEW lose \in Nat
    PROVE  /\ Payout(amount, win, lose) \in Nat
           /\ Payout(amount, win, lose) >= Rounded(amount, 1)
           /\ 2 * (amount - Payout(amount, win, lose)) <= Grain
<1>1. Grain \in Nat \ {0} /\ BpsBase - FeeBps \in Nat /\ BpsBase \in Nat \ {0}
  BY FeeAssumption
<1>2. Rounded(amount, 1) \in Nat
  BY RoundedNat
<1>3. 2 * (amount - Rounded(amount, 1)) <= Grain
  BY <1>1, RoundClose DEF Rounded
<1>4. Payout(amount, win, lose) \in Nat /\ Payout(amount, win, lose) >= Rounded(amount, 1)
  <2>1. CASE win = 0
    BY <1>2, <2>1 DEF Payout
  <2>2. CASE win # 0
    <3> DEFINE w == win * BpsBase
               x == amount * win * BpsBase + lose * amount * (BpsBase - FeeBps)
    <3>1. w \in Nat \ {0}
      BY <1>1, <2>2, SMT
    <3>2. lose * amount \in Nat
      BY SMT
    <3>3. lose * amount * (BpsBase - FeeBps) \in Nat
      BY <1>1, <3>2, SMT
    <3>4. amount * win * BpsBase \in Nat /\ amount * win * BpsBase = w * amount
      BY <1>1, SMT
    <3>5. x \in Nat /\ x >= w * amount
      BY <3>3, <3>4
    <3>6. Payout(amount, win, lose) = Rounded(x, w)
      BY <2>2 DEF Payout
    <3> HIDE DEF w, x
    <3>7. Rounded(x, w) \in Nat
      BY <3>1, <3>5, RoundedNat
    <3> DEFINE j == RoundHalfEven(amount, Grain)
               k == RoundHalfEven(x, w * Grain)
    <3>8. k >= j
      BY <1>1, <3>1, <3>5, RoundScaled
    <3>9. j \in Nat
      BY <1>1, RoundNat
    <3>10. w * Grain \in Nat \ {0}
      BY <1>1, <3>1, SMT
    <3>11. k \in Nat
      BY <3>5, <3>10, RoundNat
    <3>12. Rounded(amount, 1) = Grain * j /\ Rounded(x, w) = Grain * k
      BY <1>1 DEF Rounded
    <3> HIDE DEF j, k
    <3>13. Grain * k >= Grain * j
      BY <1>1, <3>8, <3>9, <3>11, SMT
    <3> QED
      BY <3>6, <3>7, <3>12, <3>13
  <2> QED
    BY <2>1, <2>2
<1> HIDE DEF Rounded
<1> QED
  BY <1>1, <1>2, <1>3, <1>4

LEMMA NetInt ==
    ASSUME NEW payout \in Nat, NEW amount \in Nat
    PROVE  Net(payout, amount) \in Int
<1>1. CASE payout >= amount
  <2>1. PICK n \in Nat : n = payout - amount
    BY <1>1
  <2> QED
    BY <1>1, <2>1, RoundedNat DEF Net
<1>2. CASE ~(payout >= amount)
  <2>1. PICK n \in Nat : n = amount - payout
    BY <1>2
  <2>2. Rounded(n, 1) \in Nat
    BY RoundedNat
  <2> QED
    BY <1>2, <2>1, <2>2 DEF Net
<1> QED
  BY <1>1, <1>2

----------------------------------------------------------------------------
(* Type correctness *)

\* Replacing one bet of one market's list keeps every list's length and type,
\* and every other bet.
LEMMA ReplaceBet ==
    ASSUME NEW b \in [Markets -> Seq(BetRecord)], NEW m \in Markets,
           NEW i \in 1..Len(b[m]), NEW r \in BetRecord,
           NEW c, c = [b EXCEPT ![m] = [b[m] EXCEPT ![i] = r]]
    PROVE  /\ c \in [Markets -> Seq(BetRecord)]
           /\ \A x \in Markets : Len(c[x]) = Len(b[x])
           /\ \A x \in Markets : \A k \in 1..Len(b[x]) :
                 c[x][k] = IF x = m /\ k = i THEN r ELSE b[x][k]
<1>1. b[m] \in Seq(BetRecord)
  OBVIOUS
<1>2. /\ [b[m] EXCEPT ![i] = r] \in Seq(BetRecord)
      /\ Len([b[m] EXCEPT ![i] = r]) = Len(b[m])
      /\ \A k \in 1..Len(b[m]) : [b[m] EXCEPT ![i] = r][k] = IF k = i THEN r ELSE b[m][k]
  BY <1>1, ExceptSeq
<1> QED
  BY <1>1, <1>2

LEMMA InitType == Init => TypeInv
<1> SUFFICES ASSUME Init PROVE TypeInv
  OBVIOUS
<1> USE DEF Init
<1>1. Cardinality(Markets) \in Nat
  BY ModelAssumption, FS_CardinalityType
<1>2. store \in Seq(Markets)
  <2>1. PICK n \in Nat : n = Cardinality(Markets)
    BY <1>1
  <2>2. store \in [1..n -> Markets]
    BY <2>1
  <2> HIDE DEF Init
  <2> QED
    BY <2>2, SeqDef
<1>3. NoLocals \in Locals
  <2>1. <<>> \in Seq(Markets)
    BY EmptySeq
  <2> QED
    BY <2>1 DEF NoLocals, Locals, Bettors, Sides
<1>4. stats \in [Agents -> StatsRecord]
  BY DEF NewStats, StatsRecord
<1>5. bets \in [Markets -> Seq(BetRecord)]
  BY EmptySeq
<1>6. closes \in [Markets -> Nat]
  BY ModelAssumption
<1>7. TypeOK
  BY <1>2, <1>3, <1>4, <1>5, <1>6 DEF TypeOK, Labels
<1>8. LocalsOK
  BY DEF LocalsOK, ThreadOK, NoLocals
<1> QED
  BY <1>7, <1>8 DEF TypeInv

\* Writing one local variable leaves the others alone.
LEMMA SetIndex ==
    ASSUME NEW l \in Locals, NEW k \in Nat
    PROVE  /\ [l EXCEPT !.n = k] \in Locals
           /\ [l EXCEPT !.n = k].n = k /\ [l EXCEPT !.n = k].m = l.m
  BY DEF Locals

LEMMA NoLocalsOK == NoLocals \in Locals /\ \A b : ThreadOK("idle", NoLocals, b)
<1>1. <<>> \in Seq(Markets)
  BY EmptySeq
<1> QED
  BY <1>1 DEF NoLocals, Locals, Bettors, Sides, ThreadOK

\* What is known of a thread's locals survives the growth of the list it works on.
LEMMA ThreadOKGrows ==
    ASSUME NEW p, NEW l, NEW b, NEW c, l.n \in Nat, l.i \in Nat,
           l.m \in Markets => /\ Len(b[l.m]) \in Nat /\ Len(c[l.m]) \in Nat
                              /\ Len(b[l.m]) <= Len(c[l.m]),
           ThreadOK(p, l, b)
    PROVE  ThreadOK(p, l, c)
<1>1. CASE p \in {"idle", "due_next"}
  BY <1>1 DEF ThreadOK
<1>2. CASE p \notin {"idle", "due_next"}
  <2> DEFINE x == Len(b[l.m])
             y == Len(c[l.m])
  <2>1. x \in Nat /\ y \in Nat /\ x <= y
    BY <1>2 DEF ThreadOK
  <2>2. /\ p \in {"bet_pool", "bet_agent", "bet_volume"} => l.n \in 1..x
        /\ p = "res_settle" => l.i <= x + 1
        /\ p = "res_payout" => l.i <= x
        /\ p \in {"res_record", "res_stats"} => l.n <= x
    BY DEF ThreadOK
  <2> HIDE DEF x, y
  <2>3. /\ p \in {"bet_pool", "bet_agent", "bet_volume"} => l.n \in 1..y
        /\ p = "res_settle" => l.i <= y + 1
        /\ p = "res_payout" => l.i <= y
        /\ p \in {"res_record", "res_stats"} => l.n <= y
    BY <2>1, <2>2
  <2> QED
    BY <2>3 DEF ThreadOK, y
<1> QED
  BY <1>1, <1>2

\* A step of thread t that leaves t well placed and shortens no list of bets
\* keeps every thread well placed.
LEMMA GotoKeepsLocals ==
    ASSUME TypeInv, NEW t \in Procs, NEW p \in Labels, NEW r \in Locals,
           Goto(t, p, r), ThreadOK(p, r, bets'),
           ListsGrow
    PROVE  /\ pc' \in [Procs -> Labels] /\ loc' \in [Procs -> Locals]
           /\ LocalsOK'
<1> USE DEF TypeInv, TypeOK, Goto
<1>1. pc' \in [Procs -> Labels] /\ loc' \in [Procs -> Locals]
  OBVIOUS
<1>2. ASSUME NEW u \in Procs PROVE ThreadOK(pc'[u], loc'[u], bets')
  <2>1. CASE u = t
    <3>1. pc'[u] = p /\ loc'[u] = r
      BY <2>1
    <3> QED
      BY <3>1
  <2>2. CASE u # t
    <3>1. pc'[u] = pc[u] /\ loc'[u] = loc[u]
      BY <2>2
    <3>2. ThreadOK(pc[u], loc[u], bets)
      BY DEF LocalsOK
    <3>3. loc[u].n \in Nat /\ loc[u].i \in Nat
      BY DEF Locals
    <3> HIDE DEF TypeInv, TypeOK, Goto
    <3>4. ThreadOK(pc[u], loc[u], bets')
      BY <3>2, <3>3, ThreadOKGrows DEF ListsGrow
    <3> QED
      BY <3>1, <3>4
  <2> QED
    BY <2>1, <2>2
<1> QED
  BY <1>1, <1>2 DEF LocalsOK

LEMMA SameLists == TypeOK /\ bets' = bets => ListsGrow
  BY LenProperties DEF TypeOK, ListsGrow

\* place_bet
LEMMA PlaceBetType ==
    ASSUME TypeInv, NEW t \in Procs, PlaceBet(t)
    PROVE  TypeInv'
<1> USE DEF TypeInv
<1>0. loc[t] \in Locals /\ ThreadOK(pc[t], loc[t], bets)
  BY DEF TypeOK, LocalsOK
<1>1. CASE PlaceBetCheck(t)
  <2>1. PICK m \in Markets, b \in Bettors, s \in Sides, amount \in Amounts :
          Goto(t, "bet_lock", [NoLocals EXCEPT !.m = m, !.bettor = b,
                                               !.side = s, !.amount = amount])
    BY <1>1 DEF PlaceBetCheck
  <2> DEFINE r == [NoLocals EXCEPT !.m = m, !.bettor = b, !.side = s, !.amount = amount]
  <2>2. UNCHANGED <<store, closes, ledger, registered, tracked, stats, now>>
    BY <1>1 DEF PlaceBetCheck
  <2>3. r \in Locals /\ r.m = m
    BY NoLocalsOK, ModelAssumption DEF NoLocals, Locals
  <2>4. ThreadOK("bet_lock", r, bets')
    BY <2>3 DEF ThreadOK
  <2> HIDE DEF r
  <2>5. /\ pc' \in [Procs -> Labels] /\ loc' \in [Procs -> Locals]
        /\ LocalsOK'
    BY <2>1, <2>2, <2>3, <2>4, SameLists, GotoKeepsLocals DEF Labels, ledger, r
  <2> QED
    BY <2>2, <2>5 DEF TypeOK, ledger
<1>2. CASE PlaceBetAppend(t)
  <2> DEFINE l == loc[t]
             bet == [bettor |-> l.bettor, side |-> l.side, amount |-> l.amount,
                     status |-> "locked", payout |-> 0, hist |-> "absent"]
             r == [l EXCEPT !.n = Len(bets[l.m]) + 1]
  <2>1. /\ bets' = [bets EXCEPT ![l.m] = Append(bets[l.m], bet)]
        /\ Goto(t, "bet_pool", r)
        /\ UNCHANGED <<store, closes, outcome, status, pool, volume, summary,
                       registered, tracked, stats, now>>
    BY <1>2 DEF PlaceBetAppend
  <2>2. l.m \in Markets
    BY <1>0, <1>2 DEF PlaceBetAppend, ThreadOK
  <2>3. bet \in BetRecord
    BY <1>0 DEF BetRecord, Locals
  <2>4. bets[l.m] \in Seq(BetRecord) /\ Len(bets[l.m]) \in Nat
    BY <2>2, LenProperties DEF TypeOK
  <2>5. r \in Locals /\ r.m = l.m /\ r.n = Len(bets[l.m]) + 1
    <3>1. Len(bets[l.m]) + 1 \in Nat
      BY <2>4
    <3> QED
      BY <1>0, <3>1, SetIndex
  <2> HIDE DEF bet, r
  <2>6. /\ Append(bets[l.m], bet) \in Seq(BetRecord)
        /\ Len(Append(bets[l.m], bet)) = Len(bets[l.m]) + 1
    BY <2>3, <2>4, AppendProperties
  <2>7. bets' \in [Markets -> Seq(BetRecord)] /\ bets'[l.m] = Append(bets[l.m], bet)
    BY <2>1, <2>2, <2>6 DEF TypeOK
  <2>8. ListsGrow
    <3> SUFFICES ASSUME NEW m \in Markets
                 PROVE  /\ Len(bets[m]) \in Nat /\ Len(bets'[m]) \in Nat
                        /\ Len(bets[m]) <= Len(bets'[m])
      BY DEF ListsGrow
    <3>1. bets[m] \in Seq(BetRecord) /\ Len(bets[m]) \in Nat
      BY LenProperties DEF TypeOK
    <3>2. CASE m = l.m
      BY <2>4, <2>6, <2>7, <3>2
    <3>3. CASE m # l.m
      <4>1. bets'[m] = bets[m]
        BY <2>1, <3>3 DEF TypeOK
      <4> QED
        BY <3>1, <4>1
    <3> QED
      BY <3>2, <3>3
  <2>9. ThreadOK("bet_pool", r, bets')
    BY <2>2, <2>4, <2>5, <2>6, <2>7 DEF ThreadOK
  <2>10. /\ pc' \in [Procs -> Labels] /\ loc' \in [Procs -> Locals]
         /\ LocalsOK'
    BY <2>1, <2>5, <2>8, <2>9, GotoKeepsLocals DEF Labels
  <2> QED
    BY <2>1, <2>7, <2>10 DEF TypeOK
<1>3. CASE PlaceBetPool(t)
  <2> DEFINE l == loc[t]
  <2>1. /\ pool' = [pool EXCEPT ![l.m] = [pool[l.m] EXCEPT ![l.side] = pool[l.m][l.side] + l.amount]]
        /\ volume' = [volume EXCEPT ![l.m] = volume[l.m] + l.amount]
        /\ UNCHANGED <<store, closes, outcome, status, bets, summary,
                       registered, tracked, stats, now>>
        /\ IF l.bettor = Human THEN Return(t) ELSE Goto(t, "bet_agent", l)
        /\ pc[t] = "bet_pool"
    BY <1>3 DEF PlaceBetPool
  <2>2. /\ l.m \in Markets /\ l.side \in Sides /\ l.amount \in Nat /\ l.bettor \in Bettors
        /\ l.n \in 1..Len(bets[l.m])
    BY <1>0, <2>1 DEF ThreadOK, Locals
  <2>3. pool' \in [Markets -> [Sides -> Nat]] /\ volume' \in [Markets -> Nat]
    BY SMTT(30), <2>1, <2>2 DEF TypeOK
  <2>4. ListsGrow
    BY <2>1, SameLists
  <2>5. CASE l.bettor = Human
    <3>1. Goto(t, "idle", NoLocals)
      BY <2>1, <2>5 DEF Return
    <3>2. /\ pc' \in [Procs -> Labels] /\ loc' \in [Procs -> Locals]
          /\ LocalsOK'
      BY <3>1, <2>4, NoLocalsOK, GotoKeepsLocals DEF Labels
    <3> QED
      BY <2>1, <2>3, <3>2 DEF TypeOK
  <2>6. CASE l.bettor # Human
    <3>1. Goto(t, "bet_agent", l)
      BY <2>1, <2>6
    <3>2. ThreadOK("bet_agent", l, bets')
      BY <2>1, <2>2, <2>6 DEF ThreadOK, Bettors
    <3>3. /\ pc' \in [Procs -> Labels] /\ loc' \in [Procs -> Locals]
          /\ LocalsOK'
      BY <1>0, <2>4, <3>1, <3>2, GotoKeepsLocals DEF Labels
    <3> QED
      BY <2>1, <2>3, <3>3 DEF TypeOK
  <2> QED
    BY <2>5, <2>6
<1>4. CASE RecordAgentBetCount(t)
  <2> DEFINE l == loc[t]
             r == [l EXCEPT !.vol = stats[l.bettor].volume]
  <2>1. /\ UNCHANGED <<store, closes, ledger, registered, tracked, now>>
        /\ pc[t] = "bet_agent"
    BY <1>4 DEF RecordAgentBetCount
  <2>2. /\ l.m \in Markets /\ l.bettor \in Agents /\ l.n \in 1..Len(bets[l.m])
    BY <1>0, <2>1 DEF ThreadOK
  <2>3. ListsGrow
    BY <2>1, SameLists DEF ledger
  <2>4. CASE l.bettor \in registered \cap tracked
    <3>1. /\ stats' = [stats EXCEPT ![l.bettor] =
                         [stats[l.bettor] EXCEPT !.total_bets = stats[l.bettor].total_bets + 1]]
          /\ Goto(t, "bet_volume", r)
      BY <1>4, <2>4 DEF RecordAgentBetCount
    <3>2. stats[l.bettor] \in StatsRecord
      BY <2>2 DEF TypeOK
    <3>3. stats' \in [Agents -> StatsRecord]
      <4>1. [stats[l.bettor] EXCEPT !.total_bets = stats[l.bettor].total_bets + 1] \in StatsRecord
        BY <3>2 DEF StatsRecord
      <4> QED
        BY <2>2, <3>1, <4>1 DEF TypeOK
    <3>4. r \in Locals /\ r.m = l.m /\ r.n = l.n /\ r.bettor = l.bettor
      BY <1>0, <3>2 DEF Locals, StatsRecord
    <3> HIDE DEF r
    <3>5. ThreadOK("bet_volume", r, bets')
      BY <2>1, <2>2, <3>4 DEF ThreadOK, ledger
    <3>6. /\ pc' \in [Procs -> Labels] /\ loc' \in [Procs -> Locals]
          /\ LocalsOK'
      BY <2>3, <3>1, <3>4, <3>5, GotoKeepsLocals DEF Labels
    <3> QED
      BY <2>1, <3>3, <3>6 DEF TypeOK, ledger
  <2>5. CASE l.bettor \notin registered \cap tracked
    <3>1. Goto(t, "idle", NoLocals) /\ UNCHANGED stats
      BY <1>4, <2>5 DEF RecordAgentBetCount, Return
    <3>2. /\ pc' \in [Procs -> Labels] /\ loc' \in [Procs -> Locals]
          /\ LocalsOK'
      BY <3>1, <2>3, NoLocalsOK, GotoKeepsLocals DEF Labels
    <3> QED
      BY <2>1, <3>1, <3>2 DEF TypeOK, ledger
  <2> QED
    BY <2>4, <2>5
<1>5. CASE RecordAgentBetVolume(t)
  <2> DEFINE l == loc[t]
             bet == [bets[l.m][l.n] EXCEPT !.hist = "open"]
  <2>1. /\ stats' = [stats EXCEPT ![l.bettor] = [stats[l.bettor] EXCEPT !.volume = l.vol + l.amount]]
        /\ bets' = [bets EXCEPT ![l.m] = [bets[l.m] EXCEPT ![l.n] = bet]]
        /\ Goto(t, "idle", NoLocals)
        /\ UNCHANGED <<store, closes, outcome, status, pool, volume, summary,
                       registered, tracked, now>>
        /\ pc[t] = "bet_volume"
    BY <1>5 DEF RecordAgentBetVolume, Return
  <2>2. /\ l.m \in Markets /\ l.bettor \in Agents /\ l.n \in 1..Len(bets[l.m])
        /\ l.vol \in Nat /\ l.amount \in Nat
    BY <1>0, <2>1 DEF ThreadOK, Locals
  <2>3. bets[l.m] \in Seq(BetRecord) /\ bets[l.m][l.n] \in BetRecord
    BY <2>2, ElementOfSeq DEF TypeOK
  <2>4. bet \in BetRecord
    BY <2>3 DEF BetRecord
  <2>5. stats' \in [Agents -> StatsRecord]
    <3>1. stats[l.bettor] \in StatsRecord
      BY <2>2 DEF TypeOK
    <3>2. PICK v \in Nat : v = l.vol + l.amount
      BY <2>2
    <3>3. [stats[l.bettor] EXCEPT !.volume = v] \in StatsRecord
      BY <3>1 DEF StatsRecord
    <3> QED
      BY <2>1, <2>2, <3>2, <3>3 DEF TypeOK
  <2> HIDE DEF bet
  <2>6. /\ bets' \in [Markets -> Seq(BetRecord)]
        /\ \A x \in Markets : Len(bets'[x]) = Len(bets[x])
    BY <2>1, <2>2, <2>4, ReplaceBet DEF TypeOK
  <2>7. ListsGrow
    BY <2>6, LenProperties DEF ListsGrow, TypeOK
  <2>8. /\ pc' \in [Procs -> Labels] /\ loc' \in [Procs -> Locals]
        /\ LocalsOK'
    BY <2>1, <2>7, NoLocalsOK, GotoKeepsLocals DEF Labels
  <2> QED
    BY <2>1, <2>5, <2>6, <2>8 DEF TypeOK
<1> QED
  BY <1>1, <1>2, <1>3, <1>4, <1>5 DEF PlaceBet

\* resolve_market and resolve_due_markets
LEMMA ResolveType ==
    ASSUME TypeInv, NEW t \in Procs,
           ResolveCheck(t) \/ ResolveDueStart(t) \/ ResolveSteps(t)
    PROVE  TypeInv'
<1> USE DEF TypeInv
<1>0. loc[t] \in Locals /\ ThreadOK(pc[t], loc[t], bets)
  BY DEF TypeOK, LocalsOK
<1> DEFINE l == loc[t]
<1>1. CASE ResolveCheck(t)
  <2>1. PICK m \in Markets, o \in Overrides \cup {None} :
          /\ m \in SportsMarkets => o \in Overrides
          /\ Goto(t, "res_price", [NoLocals EXCEPT !.m = m, !.outcome = o])
    BY <1>1 DEF ResolveCheck
  <2> DEFINE r == [NoLocals EXCEPT !.m = m, !.outcome = o]
  <2>2. UNCHANGED <<store, closes, ledger, registered, tracked, stats, now>>
    BY <1>1 DEF ResolveCheck
  <2>3. r \in Locals /\ r.m = m /\ r.outcome = o
    BY NoLocalsOK DEF NoLocals, Locals
  <2> HIDE DEF r
  <2>4. ThreadOK("res_price", r, bets')
    BY <2>1, <2>3 DEF ThreadOK
  <2>5. /\ pc' \in [Procs -> Labels] /\ loc' \in [Procs -> Locals]
        /\ LocalsOK'
    BY <2>1, <2>2, <2>3, <2>4, SameLists, GotoKeepsLocals DEF Labels, ledger, r
  <2> QED
    BY <2>2, <2>5 DEF TypeOK, ledger
<1>2. CASE ResolveDueStart(t)
  <2> DEFINE r == [NoLocals EXCEPT !.todo = store, !.at = now]
  <2>1. /\ Goto(t, "due_next", r)
        /\ UNCHANGED <<store, closes, ledger, registered, tracked, stats, now>>
        /\ store # <<>>
    BY <1>2 DEF ResolveDueStart
  <2>2. r \in Locals /\ r.todo = store
    BY NoLocalsOK DEF NoLocals, Locals, TypeOK
  <2> HIDE DEF r
  <2>3. ThreadOK("due_next", r, bets')
    BY <2>1, <2>2 DEF ThreadOK
  <2>4. /\ pc' \in [Procs -> Labels] /\ loc' \in [Procs -> Locals]
        /\ LocalsOK'
    BY <2>1, <2>2, <2>3, SameLists, GotoKeepsLocals DEF Labels, ledger
  <2> QED
    BY <2>1, <2>4 DEF TypeOK, ledger
<1>3. CASE ResolvePublish(t)
  <2>1. /\ UNCHANGED <<store, closes, pool, volume, bets, summary, registered, tracked, stats, now>>
        /\ status' = [status EXCEPT ![l.m] = "resolved"]
        /\ pc[t] = "res_price"
    BY <1>3 DEF ResolvePublish
  <2>2. l.m \in Markets /\ (l.m \in SportsMarkets => l.outcome \in Overrides)
    BY <1>0, <2>1 DEF ThreadOK
  <2>3. PICK o \in Overrides :
          /\ outcome' = [outcome EXCEPT ![l.m] = o]
          /\ Goto(t, "res_settle",
                  [l EXCEPT !.outcome = o, !.win = WinningPool(l.m, o),
                            !.lose = LosingPool(l.m, o), !.i = 1])
    BY <1>3, <2>2, ModelAssumption DEF ResolvePublish
  <2>4. PICK w \in Nat, v \in Nat : w = WinningPool(l.m, o) /\ v = LosingPool(l.m, o)
    BY <2>2 DEF TypeOK, WinningPool, LosingPool, Sides
  <2> DEFINE r == [l EXCEPT !.outcome = o, !.win = w, !.lose = v, !.i = 1]
  <2>5. Goto(t, "res_settle", r)
    BY <2>3, <2>4
  <2>6. r \in Locals /\ r.m = l.m /\ r.outcome = o /\ r.i = 1
    BY <1>0 DEF Locals
  <2> HIDE DEF r
  <2>7. ThreadOK("res_settle", r, bets')
    BY <2>2, <2>6 DEF ThreadOK
  <2>8. /\ pc' \in [Procs -> Labels] /\ loc' \in [Procs -> Locals]
        /\ LocalsOK'
    BY <2>1, <2>5, <2>6, <2>7, SameLists, GotoKeepsLocals DEF Labels
  <2> QED
    BY <2>1, <2>2, <2>3, <2>8 DEF TypeOK
<1>4. CASE ResolvePriceFails(t)
  <2>1. Goto(t, "idle", NoLocals) /\ UNCHANGED <<store, closes, ledger, registered, tracked, stats, now>>
    BY <1>4 DEF ResolvePriceFails, Return
  <2>2. /\ pc' \in [Procs -> Labels] /\ loc' \in [Procs -> Locals]
        /\ LocalsOK'
    BY <2>1, NoLocalsOK, SameLists, GotoKeepsLocals DEF Labels, ledger
  <2> QED
    BY <2>1, <2>2 DEF TypeOK, ledger
<1>5. CASE CalculatePayout(t)
  <2> DEFINE won == bets[l.m][l.i].side = l.outcome
             bet == Settled(bets[l.m][l.i], l.outcome)
  <2>1. /\ pc[t] = "res_settle" /\ l.i <= Len(bets[l.m])
        /\ UNCHANGED <<store, closes, outcome, status, pool, volume, summary,
                       registered, tracked, stats, now>>
        /\ IF won THEN Goto(t, "res_payout", l)
           ELSE Goto(t, "res_settle", [l EXCEPT !.i = l.i + 1])
    BY <1>5 DEF CalculatePayout
  <2>2. /\ l.m \in Markets /\ l.outcome \in Overrides /\ l.i >= 1 /\ l.i \in Nat
    BY <1>0, <2>1 DEF ThreadOK, Locals
  <2>3. bets[l.m] \in Seq(BetRecord) /\ Len(bets[l.m]) \in Nat
    BY <2>2, LenProperties DEF TypeOK
  <2>4. l.i \in 1..Len(bets[l.m]) /\ bets[l.m][l.i] \in BetRecord
    BY <2>1, <2>2, <2>3, ElementOfSeq
  <2>5. bets' = [bets EXCEPT ![l.m] = [bets[l.m] EXCEPT ![l.i] = bet]]
    BY <1>5, <2>2, <2>3, <2>4 DEF CalculatePayout, TypeOK
  <2>6. bet \in BetRecord
    BY <2>4 DEF BetRecord, Settled
  <2> HIDE DEF bet
  <2>7. /\ bets' \in [Markets -> Seq(BetRecord)]
        /\ \A x \in Markets : Len(bets'[x]) = Len(bets[x])
    BY <2>2, <2>4, <2>5, <2>6, ReplaceBet DEF TypeOK
  <2>8. ListsGrow
    BY <2>7, LenProperties DEF ListsGrow, TypeOK
  <2>9. CASE won
    <3>1. ThreadOK("res_payout", l, bets')
      BY <2>1, <2>2, <2>7 DEF ThreadOK
    <3>2. /\ pc' \in [Procs -> Labels] /\ loc' \in [Procs -> Locals]
          /\ LocalsOK'
      BY <1>0, <2>1, <2>8, <2>9, <3>1, GotoKeepsLocals DEF Labels
    <3> QED
      BY <2>1, <2>7, <3>2 DEF TypeOK
  <2>10. CASE ~won
    <3>1. PICK j \in Nat : j = l.i + 1
      BY <2>2
    <3> DEFINE r == [l EXCEPT !.i = j]
    <3>2. r \in Locals /\ r.m = l.m /\ r.i = l.i + 1 /\ r.outcome = l.outcome
      BY <1>0, <3>1 DEF Locals
    <3>3. Goto(t, "res_settle", r)
      BY <2>1, <2>10, <3>1
    <3> HIDE DEF r
    <3>4. ThreadOK("res_settle", r, bets')
      BY <2>1, <2>2, <2>3, <2>7, <3>2 DEF ThreadOK
    <3>5. /\ pc' \in [Procs -> Labels] /\ loc' \in [Procs -> Locals]
          /\ LocalsOK'
      BY <2>8, <3>2, <3>3, <3>4, GotoKeepsLocals DEF Labels
    <3> QED
      BY <2>1, <2>7, <3>5 DEF TypeOK
  <2> QED
    BY <2>9, <2>10
<1>11. CASE WritePayout(t)
  <2> DEFINE pay == Payout(bets[l.m][l.i].amount, l.win, l.lose)
             bet == [bets[l.m][l.i] EXCEPT !.payout = pay]
  <2>1. /\ pc[t] = "res_payout"
        /\ UNCHANGED <<store, closes, outcome, status, pool, volume, summary,
                       registered, tracked, stats, now>>
        /\ Goto(t, "res_settle", [l EXCEPT !.i = l.i + 1])
    BY <1>11 DEF WritePayout
  <2>2. /\ l.m \in Markets /\ l.outcome \in Overrides /\ l.i >= 1 /\ l.i \in Nat
        /\ l.win \in Nat /\ l.lose \in Nat /\ l.i <= Len(bets[l.m])
    BY <1>0, <2>1 DEF ThreadOK, Locals
  <2>3. bets[l.m] \in Seq(BetRecord) /\ Len(bets[l.m]) \in Nat
    BY <2>2, LenProperties DEF TypeOK
  <2>4. l.i \in 1..Len(bets[l.m]) /\ bets[l.m][l.i] \in BetRecord
    BY <2>2, <2>3, ElementOfSeq
  <2>5. pay \in Nat
    BY <2>2, <2>4, PayoutAtLeastStake DEF BetRecord
  <2>6. bets' = [bets EXCEPT ![l.m] = [bets[l.m] EXCEPT ![l.i] = bet]]
    BY <1>11, <2>2, <2>3, <2>4 DEF WritePayout, TypeOK
  <2> HIDE DEF pay
  <2>7. bet \in BetRecord
    BY <2>4, <2>5 DEF BetRecord
  <2> HIDE DEF bet
  <2>8. /\ bets' \in [Markets -> Seq(BetRecord)]
        /\ \A x \in Markets : Len(bets'[x]) = Len(bets[x])
    BY <2>2, <2>4, <2>6, <2>7, ReplaceBet DEF TypeOK
  <2>9. ListsGrow
    BY <2>8, LenProperties DEF ListsGrow, TypeOK
  <2>10. PICK j \in Nat : j = l.i + 1
    BY <2>2
  <2> DEFINE r == [l EXCEPT !.i = j]
  <2>11. r \in Locals /\ r.m = l.m /\ r.i = l.i + 1 /\ r.outcome = l.outcome
    BY <1>0, <2>10 DEF Locals
  <2>12. Goto(t, "res_settle", r)
    BY <2>1, <2>10
  <2> HIDE DEF r
  <2>13. ThreadOK("res_settle", r, bets')
    BY <2>2, <2>3, <2>8, <2>11 DEF ThreadOK
  <2>14. /\ pc' \in [Procs -> Labels] /\ loc' \in [Procs -> Locals]
         /\ LocalsOK'
    BY <2>9, <2>11, <2>12, <2>13, GotoKeepsLocals DEF Labels
  <2> QED
    BY <2>1, <2>8, <2>14 DEF TypeOK
<1>6. CASE SettlementDone(t)
  <2>1. /\ Goto(t, "res_record", [l EXCEPT !.n = l.i - 1, !.i = 1])
        /\ UNCHANGED <<store, closes, ledger, registered, tracked, stats, now>>
        /\ pc[t] = "res_settle"
    BY <1>6 DEF SettlementDone
  <2>2. /\ l.m \in Markets /\ l.outcome \in Overrides /\ l.i >= 1 /\ l.i \in Nat
        /\ l.i <= Len(bets[l.m]) + 1 /\ Len(bets[l.m]) \in Nat
    BY <1>0, <2>1, LenProperties DEF ThreadOK, Locals, TypeOK
  <2>3. PICK k \in Nat : k = l.i - 1
    BY <2>2
  <2> DEFINE r == [l EXCEPT !.n = k, !.i = 1]
  <2>4. r \in Locals /\ r.m = l.m /\ r.n = k /\ r.i = 1 /\ r.outcome = l.outcome
    BY <1>0 DEF Locals
  <2>5. Goto(t, "res_record", r)
    BY <2>1, <2>3
  <2> HIDE DEF r
  <2>6. ThreadOK("res_record", r, bets')
    BY <2>1, <2>2, <2>3, <2>4 DEF ThreadOK, ledger
  <2>7. /\ pc' \in [Procs -> Labels] /\ loc' \in [Procs -> Locals]
        /\ LocalsOK'
    BY <2>1, <2>4, <2>5, <2>6, SameLists, GotoKeepsLocals DEF Labels, ledger
  <2> QED
    BY <2>1, <2>7 DEF TypeOK, ledger
<1>12. CASE RecordNext(t)
  <2> DEFINE bet == bets[l.m][l.i]
  <2>1. /\ pc[t] = "res_record" /\ l.i <= l.n
        /\ UNCHANGED <<store, closes, ledger, registered, tracked, stats, now>>
        /\ IF bet.bettor = Human THEN Goto(t, "res_record", [l EXCEPT !.i = l.i + 1])
           ELSE Goto(t, "res_stats", [l EXCEPT !.pay = bet.payout])
    BY <1>12 DEF RecordNext
  <2>2. /\ l.m \in Markets /\ l.outcome \in Overrides /\ l.i >= 1 /\ l.i \in Nat
        /\ l.n \in Nat /\ l.n <= Len(bets[l.m])
    BY <1>0, <2>1 DEF ThreadOK, Locals
  <2>3. bets[l.m] \in Seq(BetRecord) /\ Len(bets[l.m]) \in Nat
    BY <2>2, LenProperties DEF TypeOK
  <2>4. l.i \in 1..Len(bets[l.m]) /\ bet \in BetRecord
    BY <2>1, <2>2, <2>3, ElementOfSeq
  <2>5. ListsGrow
    BY <2>1, SameLists DEF ledger
  <2>6. CASE bet.bettor = Human
    <3>1. PICK j \in Nat : j = l.i + 1
      BY <2>2
    <3> DEFINE r == [l EXCEPT !.i = j]
    <3>2. r \in Locals /\ r.m = l.m /\ r.i = l.i + 1 /\ r.outcome = l.outcome /\ r.n = l.n
      BY <1>0, <3>1 DEF Locals
    <3>3. Goto(t, "res_record", r)
      BY <2>1, <2>6, <3>1
    <3> HIDE DEF r
    <3>4. ThreadOK("res_record", r, bets')
      BY <2>1, <2>2, <3>2 DEF ThreadOK, ledger
    <3>5. /\ pc' \in [Procs -> Labels] /\ loc' \in [Procs -> Locals]
          /\ LocalsOK'
      BY <2>5, <3>2, <3>3, <3>4, GotoKeepsLocals DEF Labels
    <3> QED
      BY <2>1, <3>5 DEF TypeOK, ledger
  <2>7. CASE bet.bettor # Human
    <3> DEFINE r == [l EXCEPT !.pay = bet.payout]
    <3>1. /\ r \in Locals /\ r.m = l.m /\ r.i = l.i /\ r.outcome = l.outcome /\ r.n = l.n
      BY <1>0, <2>4 DEF Locals, BetRecord
    <3>2. Goto(t, "res_stats", r)
      BY <2>1, <2>7
    <3> HIDE DEF r
    <3>3. ThreadOK("res_stats", r, bets')
      BY <2>1, <2>2, <3>1 DEF ThreadOK, ledger
    <3>4. /\ pc' \in [Procs -> Labels] /\ loc' \in [Procs -> Locals]
          /\ LocalsOK'
      BY <2>5, <3>1, <3>2, <3>3, GotoKeepsLocals DEF Labels
    <3> QED
      BY <2>1, <3>4 DEF TypeOK, ledger
  <2> QED
    BY <2>6, <2>7
<1>13. CASE RecordFails(t)
  <2>1. Goto(t, "idle", NoLocals) /\ UNCHANGED <<store, closes, ledger, registered, tracked, stats, now>>
    BY <1>13 DEF RecordFails, Return
  <2>2. /\ pc' \in [Procs -> Labels] /\ loc' \in [Procs -> Locals]
        /\ LocalsOK'
    BY <2>1, NoLocalsOK, SameLists, GotoKeepsLocals DEF Labels, ledger
  <2> QED
    BY <2>1, <2>2 DEF TypeOK, ledger
<1>7. CASE RecordAgentSettlement(t)
  <2> DEFINE bet == bets[l.m][l.i]
             won == bet.side = l.outcome
  <2>1. /\ pc[t] = "res_stats"
        /\ UNCHANGED <<store, closes, outcome, status, pool, volume, summary,
                       registered, tracked, now>>
        /\ Goto(t, "res_record", [l EXCEPT !.i = l.i + 1])
    BY <1>7 DEF RecordAgentSettlement
  <2>2. /\ l.m \in Markets /\ l.outcome \in Overrides /\ l.i >= 1 /\ l.i \in Nat
        /\ l.n \in Nat /\ l.n <= Len(bets[l.m]) /\ l.i <= l.n /\ l.pay \in Nat
    BY <1>0, <2>1 DEF ThreadOK, Locals
  <2>3. bets[l.m] \in Seq(BetRecord) /\ Len(bets[l.m]) \in Nat
    BY <2>2, LenProperties DEF TypeOK
  <2>4. l.i \in 1..Len(bets[l.m]) /\ bet \in BetRecord
    BY <2>1, <2>2, <2>3, ElementOfSeq
  <2>5. /\ bets' \in [Markets -> Seq(BetRecord)]
        /\ \A x \in Markets : Len(bets'[x]) = Len(bets[x])
    <3>1. CASE bets' = bets
      BY <3>1 DEF TypeOK
    <3>2. CASE bets' # bets
      <4>1. bets' = [bets EXCEPT ![l.m] = [bets[l.m] EXCEPT ![l.i] = [bet EXCEPT !.hist = "resolved"]]]
        BY <1>7, <3>2 DEF RecordAgentSettlement
      <4>2. [bet EXCEPT !.hist = "resolved"] \in BetRecord
        BY <2>4 DEF BetRecord
      <4> QED
        BY <2>2, <2>4, <4>1, <4>2, ReplaceBet DEF TypeOK
    <3> QED
      BY <3>1, <3>2
  <2>6. stats' \in [Agents -> StatsRecord]
    <3>1. CASE bet.bettor \in registered
      <4> DEFINE a == bet.bettor
                 st == stats[a]
                 nst == [st EXCEPT !.wins = IF won THEN st.wins + 1 ELSE st.wins,
                                   !.losses = IF won THEN st.losses ELSE st.losses + 1,
                                   !.profit = st.profit + Net(l.pay, bet.amount)]
      <4>1. a \in Agents /\ st \in StatsRecord
        BY <3>1 DEF TypeOK
      <4>2. stats' = [stats EXCEPT ![a] = nst]
        BY <1>7, <3>1, <4>1 DEF RecordAgentSettlement, WithResult, TypeOK
      <4> DEFINE w == IF won THEN st.wins + 1 ELSE st.wins
                 x == IF won THEN st.losses ELSE st.losses + 1
                 p == st.profit + Net(l.pay, bet.amount)
      <4>3. /\ st.wins \in Nat /\ st.losses \in Nat /\ st.profit \in Int
            /\ Net(l.pay, bet.amount) \in Int
        BY <2>2, <2>4, <4>1, NetInt DEF StatsRecord, BetRecord
      <4> HIDE DEF bet, st
      <4>4. w \in Nat /\ x \in Nat /\ p \in Int
        BY <4>3
      <4>5. nst = [st EXCEPT !.wins = w, !.losses = x, !.profit = p]
        OBVIOUS
      <4> HIDE DEF w, x, p, nst
      <4>6. nst \in StatsRecord
        BY <4>1, <4>4, <4>5 DEF StatsRecord
      <4> QED
        BY <4>1, <4>2, <4>6 DEF TypeOK
    <3>2. CASE bet.bettor \notin registered
      BY <1>7, <3>2 DEF RecordAgentSettlement, TypeOK
    <3> QED
      BY <3>1, <3>2
  <2>9. ListsGrow
    BY <2>5, LenProperties DEF ListsGrow, TypeOK
  <2>10. PICK j \in Nat : j = l.i + 1
    BY <2>2
  <2> DEFINE r == [l EXCEPT !.i = j]
  <2>11. r \in Locals /\ r.m = l.m /\ r.i = l.i + 1 /\ r.outcome = l.outcome /\ r.n = l.n
    BY <1>0, <2>10 DEF Locals
  <2>12. Goto(t, "res_record", r)
    BY <2>1, <2>10
  <2> HIDE DEF r
  <2>13. ThreadOK("res_record", r, bets')
    BY <2>1, <2>2, <2>3, <2>5, <2>11 DEF ThreadOK
  <2>14. /\ pc' \in [Procs -> Labels] /\ loc' \in [Procs -> Locals]
         /\ LocalsOK'
    BY <2>9, <2>11, <2>12, <2>13, GotoKeepsLocals DEF Labels
  <2> QED
    BY <2>1, <2>5, <2>6, <2>14 DEF TypeOK
<1>8. CASE ResolveFinish(t)
  <2>1. /\ pc[t] = "res_record"
        /\ UNCHANGED <<store, closes, outcome, status, pool, volume, bets,
                       registered, tracked, stats, now>>
        /\ summary' = [summary EXCEPT ![l.m] =
              [win |-> Rounded(WinningPool(l.m, l.outcome), 1),
               lose |-> Rounded(LosingPool(l.m, l.outcome), 1)]]
        /\ ReturnFromResolve(t)
    BY <1>8 DEF ResolveFinish
  <2>2. l.m \in Markets
    BY <1>0, <2>1 DEF ThreadOK
  <2>3. summary' \in [Markets -> Summaries \cup {None}]
    <3>1. WinningPool(l.m, l.outcome) \in Nat /\ LosingPool(l.m, l.outcome) \in Nat
      BY <2>2 DEF TypeOK, WinningPool, LosingPool, Sides
    <3>2. /\ Rounded(WinningPool(l.m, l.outcome), 1) \in Nat
          /\ Rounded(LosingPool(l.m, l.outcome), 1) \in Nat
      BY <3>1, RoundedNat
    <3> QED
      BY <2>1, <3>2 DEF TypeOK, Summaries
  <2>4. CASE l.todo = <<>>
    <3>1. Goto(t, "idle", NoLocals)
      BY <2>1, <2>4 DEF ReturnFromResolve, Return
    <3>2. /\ pc' \in [Procs -> Labels] /\ loc' \in [Procs -> Locals]
          /\ LocalsOK'
      BY <2>1, <3>1, NoLocalsOK, SameLists, GotoKeepsLocals DEF Labels
    <3> QED
      BY <2>1, <2>3, <3>2 DEF TypeOK
  <2>5. CASE l.todo # <<>>
    <3> DEFINE r == [NoLocals EXCEPT !.todo = l.todo, !.at = l.at]
    <3>1. Goto(t, "due_next", r)
      BY <2>1, <2>5 DEF ReturnFromResolve
    <3>2. r \in Locals /\ r.todo = l.todo
      BY <1>0, NoLocalsOK DEF NoLocals, Locals
    <3> HIDE DEF r
    <3>3. ThreadOK("due_next", r, bets')
      BY <2>5, <3>2 DEF ThreadOK
    <3>4. /\ pc' \in [Procs -> Labels] /\ loc' \in [Procs -> Locals]
          /\ LocalsOK'
      BY <2>1, <3>1, <3>2, <3>3, SameLists, GotoKeepsLocals DEF Labels
    <3> QED
      BY <2>1, <2>3, <3>4 DEF TypeOK
  <2> QED
    BY <2>4, <2>5
<1>9. CASE ResolveDueSkip(t)
  <2>1. /\ pc[t] = "due_next"
        /\ UNCHANGED <<store, closes, ledger, registered, tracked, stats, now>>
        /\ IF Tail(l.todo) = <<>> THEN Return(t)
           ELSE Goto(t, "due_next", [l EXCEPT !.todo = Tail(l.todo)])
    BY <1>9 DEF ResolveDueSkip
  <2>2. CASE Tail(l.todo) = <<>>
    <3>1. Goto(t, "idle", NoLocals)
      BY <2>1, <2>2 DEF Return
    <3>2. /\ pc' \in [Procs -> Labels] /\ loc' \in [Procs -> Locals]
          /\ LocalsOK'
      BY <2>1, <3>1, NoLocalsOK, SameLists, GotoKeepsLocals DEF Labels, ledger
    <3> QED
      BY <2>1, <3>2 DEF TypeOK, ledger
  <2>3. CASE Tail(l.todo) # <<>>
    <3> DEFINE r == [l EXCEPT !.todo = Tail(l.todo)]
    <3>1. Goto(t, "due_next", r)
      BY <2>1, <2>3
    <3>2. l.todo \in Seq(Markets) /\ l.todo # <<>>
      BY <1>0, <2>1 DEF ThreadOK, Locals
    <3>3. Tail(l.todo) \in Seq(Markets)
      BY <3>2, HeadTailProperties
    <3>4. r \in Locals /\ r.todo = Tail(l.todo)
      BY <1>0, <3>3 DEF Locals
    <3> HIDE DEF r
    <3>5. ThreadOK("due_next", r, bets')
      BY <2>3, <3>4 DEF ThreadOK
    <3>6. /\ pc' \in [Procs -> Labels] /\ loc' \in [Procs -> Locals]
          /\ LocalsOK'
      BY <2>1, <3>1, <3>4, <3>5, SameLists, GotoKeepsLocals DEF Labels, ledger
    <3> QED
      BY <2>1, <3>6 DEF TypeOK, ledger
  <2> QED
    BY <2>2, <2>3
<1>10. CASE ResolveDueCall(t)
  <2> DEFINE r == [l EXCEPT !.m = Head(l.todo), !.todo = Tail(l.todo)]
  <2>1. /\ pc[t] = "due_next" /\ Due(Head(l.todo), l.at)
        /\ UNCHANGED <<store, closes, ledger, registered, tracked, stats, now>>
        /\ Goto(t, "res_price", r)
    BY <1>10 DEF ResolveDueCall
  <2>2. l.todo \in Seq(Markets) /\ l.todo # <<>>
    BY <1>0, <2>1 DEF ThreadOK, Locals
  <2>3. Tail(l.todo) \in Seq(Markets) /\ Head(l.todo) \in Markets
    BY <2>2, HeadTailProperties
  <2>4. r \in Locals /\ r.m = Head(l.todo)
    BY <1>0, <2>3 DEF Locals
  <2> HIDE DEF r
  <2>5. ThreadOK("res_price", r, bets')
    BY <2>1, <2>3, <2>4 DEF ThreadOK, Due
  <2>6. /\ pc' \in [Procs -> Labels] /\ loc' \in [Procs -> Locals]
        /\ LocalsOK'
    BY <2>1, <2>4, <2>5, SameLists, GotoKeepsLocals DEF Labels, ledger
  <2> QED
    BY <2>1, <2>6 DEF TypeOK, ledger
<1> QED
  BY <1>1, <1>2, <1>3, <1>4, <1>5, <1>6, <1>7, <1>8, <1>9, <1>10, <1>11, <1>12, <1>13
     DEF ResolveSteps

LEMMA NextType == TypeInv /\ [Next]_vars => TypeInv'
<1> SUFFICES ASSUME TypeInv, [Next]_vars PROVE TypeInv'
  OBVIOUS
<1>1. ASSUME NEW a \in Agents, RegisterAgent(a) \/ EnsureAgentStats(a) PROVE TypeInv'
  BY <1>1 DEF RegisterAgent, EnsureAgentStats, TypeInv, TypeOK, LocalsOK, ledger
<1>2. CASE Tick
  BY <1>2 DEF Tick, TypeInv, TypeOK, LocalsOK, ledger
<1>3. CASE UNCHANGED vars
  BY <1>3 DEF vars, TypeInv, TypeOK, LocalsOK, ledger
<1> QED
  BY <1>1, <1>2, <1>3, PlaceBetType, ResolveType DEF Next

\* Every state has its type: in particular every payout is a whole, nonnegative
\* number of units, whatever pools the racing handlers settled it with.
THEOREM TypeCorrect == Spec => []TypeOK
<1>1. Spec => []TypeInv
  BY InitType, NextType, PTL DEF Spec
<1> QED
  BY <1>1, PTL DEF TypeInv

----------------------------------------------------------------------------
(* Settlement, whoever resolves *)

\* The strengthening of the settlement properties: a resolver past the
\* publication works on a resolved market and has left no locked bet behind.
Settles == {"res_settle", "res_payout", "res_record", "res_stats"}

Behind(p, l) == CASE p = "res_settle" -> l.i - 1
                  [] p = "res_payout" -> l.i
                  [] OTHER -> l.n

SettlerOK(p, l, b, st) ==
    p \in Settles =>
        /\ st[l.m] = "resolved"
        /\ \A j \in 1..Behind(p, l) : b[l.m][j].status # "locked"

SettleInv == /\ SettledOnlyIfResolved
             /\ SettledPrefix
             /\ WinnersKeepTheirStake
             /\ \A t \in Procs : SettlerOK(pc[t], loc[t], bets, status)

\* A step that settles nothing: same bets with the same status, stake and payout.
StatusesKept ==
    \A m \in Markets :
        /\ Len(bets'[m]) = Len(bets[m])
        /\ \A k \in 1..Len(bets[m]) :
              /\ bets'[m][k].status = bets[m][k].status
              /\ bets'[m][k].payout = bets[m][k].payout
              /\ bets'[m][k].amount = bets[m][k].amount
              /\ bets'[m][k].side = bets[m][k].side
              /\ bets'[m][k].bettor = bets[m][k].bettor

\* No step reopens a market.
StaysResolved == \A m \in Markets : status[m] = "resolved" => status'[m] = "resolved"

\* A step moves one thread at most.
OnlyMoves(t) == \A u \in Procs \ {t} : pc'[u] = pc[u] /\ loc'[u] = loc[u]

LEMMA GotoMoves ==
    ASSUME TypeOK, NEW t \in Procs, NEW p, NEW r, Goto(t, p, r)
    PROVE  OnlyMoves(t) /\ pc'[t] = p /\ loc'[t] = r
  BY DEF TypeOK, Goto, OnlyMoves

LEMMA DomainIsInterval ==
    ASSUME TypeOK, NEW m \in Markets
    PROVE  DOMAIN bets[m] = 1..Len(bets[m]) /\ Len(bets[m]) \in Nat
           /\ \A k \in 1..Len(bets[m]) : bets[m][k] \in BetRecord
  BY LenProperties, ElementOfSeq DEF TypeOK

LEMMA BehindInList ==
    ASSUME TypeInv, NEW u \in Procs, pc[u] \in Settles
    PROVE  /\ loc[u].m \in Markets
           /\ \A j \in 1..Behind(pc[u], loc[u]) : j \in 1..Len(bets[loc[u].m])
<1>1. ThreadOK(pc[u], loc[u], bets) /\ loc[u].i \in Nat /\ loc[u].n \in Nat
  BY DEF TypeInv, LocalsOK, TypeOK, Locals
<1>2. loc[u].m \in Markets
  BY <1>1 DEF ThreadOK, Settles
<1>3. Len(bets[loc[u].m]) \in Nat
  BY <1>2, DomainIsInterval DEF TypeInv
<1>4. CASE pc[u] = "res_settle"
  BY <1>1, <1>2, <1>3, <1>4 DEF ThreadOK, Behind
<1>5. CASE pc[u] = "res_payout"
  BY <1>1, <1>2, <1>3, <1>5 DEF ThreadOK, Behind
<1>6. CASE pc[u] \in {"res_record", "res_stats"}
  BY <1>1, <1>2, <1>3, <1>6 DEF ThreadOK, Behind
<1> QED
  BY <1>2, <1>4, <1>5, <1>6 DEF Settles

\* Whoever is about to write a payout is so after the step of another thread.
LEMMA PayingStays ==
    ASSUME NEW t \in Procs, OnlyMoves(t), NEW m, NEW k,
           pc[t] = "res_payout" => ~(loc[t].m = m /\ loc[t].i = k),
           Paying(m, k)' = {}
    PROVE  Paying(m, k) = {}
<1> SUFFICES ASSUME NEW u \in Paying(m, k) PROVE FALSE
  OBVIOUS
<1>1. u \in Procs /\ pc[u] = "res_payout" /\ loc[u].m = m /\ loc[u].i = k
  BY DEF Paying
<1>2. u # t
  BY <1>1
<1>3. u \in Paying(m, k)'
  BY <1>1, <1>2 DEF OnlyMoves, Paying
<1> QED
  BY <1>3

LEMMA QuietStep ==
    ASSUME TypeInv, TypeInv', SettleInv, NEW t \in Procs, pc[t] # "res_payout",
           StatusesKept, StaysResolved, OnlyMoves(t),
           SettlerOK(pc'[t], loc'[t], bets', status')
    PROVE  SettleInv'
<1> USE DEF TypeInv
<1>1. \A m \in Markets : /\ DOMAIN bets[m] = 1..Len(bets[m]) /\ Len(bets[m]) \in Nat
                         /\ DOMAIN bets'[m] = 1..Len(bets[m])
  <2> TAKE m \in Markets
  <2>1. /\ DOMAIN bets[m] = 1..Len(bets[m]) /\ Len(bets[m]) \in Nat
        /\ DOMAIN bets'[m] = 1..Len(bets'[m])
    BY LenProperties DEF TypeOK
  <2> QED
    BY <2>1 DEF StatusesKept
<1>2. SettledOnlyIfResolved'
  BY <1>1 DEF SettleInv, SettledOnlyIfResolved, StatusesKept, StaysResolved
<1>3. SettledPrefix'
  <2> SUFFICES ASSUME NEW m \in Markets, NEW k \in DOMAIN bets'[m], NEW j \in 1..k,
                      bets'[m][k].status # "locked"
               PROVE  bets'[m][j].status # "locked"
    BY DEF SettledPrefix
  <2>1. k \in 1..Len(bets[m]) /\ j \in 1..Len(bets[m]) /\ k \in DOMAIN bets[m]
    BY <1>1
  <2>2. bets[m][j].status # "locked"
    BY <2>1 DEF SettleInv, SettledPrefix, StatusesKept
  <2> QED
    BY <2>1, <2>2 DEF StatusesKept
<1>4. WinnersKeepTheirStake'
  <2> SUFFICES ASSUME NEW m \in Markets, NEW k \in DOMAIN bets'[m]
               PROVE  /\ bets'[m][k].status = "won" /\ Paying(m, k)' = {} =>
                            bets'[m][k].payout >= Rounded(bets'[m][k].amount, 1)
                      /\ bets'[m][k].status = "locked" => bets'[m][k].payout = 0
    BY DEF WinnersKeepTheirStake
  <2>1. k \in DOMAIN bets[m] /\ k \in 1..Len(bets[m])
    BY <1>1
  <2>2. Paying(m, k)' = {} => Paying(m, k) = {}
    BY PayingStays
  <2> QED
    BY <2>1, <2>2 DEF SettleInv, WinnersKeepTheirStake, StatusesKept
<1>5. ASSUME NEW u \in Procs PROVE SettlerOK(pc'[u], loc'[u], bets', status')
  <2>1. CASE u # t
    <3>1. SettlerOK(pc[u], loc[u], bets, status) /\ pc'[u] = pc[u] /\ loc'[u] = loc[u]
      BY <2>1 DEF OnlyMoves, SettleInv
    <3>2. SUFFICES ASSUME pc[u] \in Settles
                   PROVE  SettlerOK(pc'[u], loc'[u], bets', status')
      BY <3>1 DEF SettlerOK
    <3> QED
      BY <3>1, <3>2, BehindInList DEF SettlerOK, StatusesKept, StaysResolved
  <2> QED
    BY <2>1
<1> QED
  BY <1>2, <1>3, <1>4, <1>5 DEF SettleInv

LEMMA SameBets == bets' = bets => StatusesKept
  BY DEF StatusesKept

LEMMA ReplaceBetStep ==
    ASSUME TypeOK, NEW m \in Markets, NEW i \in 1..Len(bets[m]), NEW r \in BetRecord,
           bets' = [bets EXCEPT ![m] = [bets[m] EXCEPT ![i] = r]]
    PROVE  /\ \A x \in Markets : Len(bets'[x]) = Len(bets[x])
           /\ \A x \in Markets : \A k \in 1..Len(bets[x]) :
                 bets'[x][k] = IF x = m /\ k = i THEN r ELSE bets[x][k]
<1> DEFINE c == [bets EXCEPT ![m] = [bets[m] EXCEPT ![i] = r]]
<1>1. bets \in [Markets -> Seq(BetRecord)]
  BY DEF TypeOK
<1>2. /\ \A x \in Markets : Len(c[x]) = Len(bets[x])
      /\ \A x \in Markets : \A k \in 1..Len(bets[x]) :
            c[x][k] = IF x = m /\ k = i THEN r ELSE bets[x][k]
  BY <1>1, ReplaceBet
<1> HIDE DEF c
<1> QED
  BY <1>2 DEF c

\* Rewriting one bet's hist settles nothing.
LEMMA HistoryKeepsStatuses ==
    ASSUME TypeOK, NEW m \in Markets, NEW i \in 1..Len(bets[m]),
           NEW r \in BetRecord, NEW h, r = [bets[m][i] EXCEPT !.hist = h],
           bets' = [bets EXCEPT ![m] = [bets[m] EXCEPT ![i] = r]]
    PROVE  StatusesKept
<1>1. bets[m][i] \in BetRecord
  BY DomainIsInterval
<1>2. /\ r.status = bets[m][i].status /\ r.payout = bets[m][i].payout
      /\ r.amount = bets[m][i].amount /\ r.side = bets[m][i].side /\ r.bettor = bets[m][i].bettor
  BY <1>1 DEF BetRecord
<1>3. /\ \A x \in Markets : Len(bets'[x]) = Len(bets[x])
      /\ \A x \in Markets : \A k \in 1..Len(bets[x]) :
            bets'[x][k] = IF x = m /\ k = i THEN r ELSE bets[x][k]
  BY ReplaceBetStep
<1> QED
  BY <1>2, <1>3 DEF StatusesKept

\* A step that keeps bets and status and takes its thread out of settlement.
LEMMA BystanderStep ==
    ASSUME TypeInv, TypeInv', SettleInv, NEW t \in Procs, NEW p, NEW r, Goto(t, p, r),
           bets' = bets, status' = status, pc[t] # "res_payout", p \notin Settles
    PROVE  SettleInv'
<1>1. OnlyMoves(t) /\ pc'[t] = p /\ loc'[t] = r
  BY GotoMoves DEF TypeInv
<1>2. SettlerOK(pc'[t], loc'[t], bets', status')
  BY <1>1 DEF SettlerOK
<1> QED
  BY <1>1, <1>2, SameBets, QuietStep DEF StaysResolved

LEMMA AppendStep ==
    ASSUME TypeInv, TypeInv', SettleInv, NEW t \in Procs, PlaceBetAppend(t)
    PROVE  SettleInv'
<1> USE DEF TypeInv
<1> DEFINE l == loc[t]
           bet == [bettor |-> l.bettor, side |-> l.side, amount |-> l.amount,
                   status |-> "locked", payout |-> 0, hist |-> "absent"]
<1>1. /\ bets' = [bets EXCEPT ![l.m] = Append(bets[l.m], bet)]
      /\ Goto(t, "bet_pool", [l EXCEPT !.n = Len(bets[l.m]) + 1])
      /\ status' = status
      /\ l.m \in Markets
  BY DEF PlaceBetAppend, LocalsOK, ThreadOK
<1>2. bet.status = "locked" /\ bet.payout = 0 /\ bet \in BetRecord
  BY DEF TypeOK, Locals, BetRecord
<1> HIDE DEF bet
<1>3. bets[l.m] \in Seq(BetRecord) /\ Len(bets[l.m]) \in Nat
  BY <1>1, LenProperties DEF TypeOK
<1>4. /\ Len(bets'[l.m]) = Len(bets[l.m]) + 1
      /\ \A k \in 1..Len(bets[l.m]) : bets'[l.m][k] = bets[l.m][k]
      /\ bets'[l.m][Len(bets[l.m]) + 1] = bet
  <2>1. bets'[l.m] = Append(bets[l.m], bet)
    BY <1>1 DEF TypeOK
  <2> QED
    BY <1>2, <1>3, <2>1, AppendProperties
<1>5. \A m \in Markets : m # l.m => bets'[m] = bets[m]
  BY <1>1 DEF TypeOK
<1>6. \A m \in Markets : /\ DOMAIN bets[m] = 1..Len(bets[m]) /\ Len(bets[m]) \in Nat
                         /\ DOMAIN bets'[m] = 1..Len(bets'[m])
  BY LenProperties DEF TypeOK
<1>7. \A m \in Markets : \A k \in DOMAIN bets'[m] :
         \/ k \in DOMAIN bets[m] /\ bets'[m][k] = bets[m][k]
         \/ m = l.m /\ k = Len(bets[m]) + 1 /\ bets'[m][k] = bet
  <2> TAKE m \in Markets
  <2>1. CASE m = l.m
    <3>1. DOMAIN bets'[m] = 1..(Len(bets[m]) + 1) /\ DOMAIN bets[m] = 1..Len(bets[m])
      BY <1>4, <1>6, <2>1
    <3> QED
      BY SMTT(30), <1>3, <1>4, <2>1, <3>1
  <2>2. CASE m # l.m
    BY <1>5, <2>2
  <2> QED
    BY <2>1, <2>2
<1>8. SettledOnlyIfResolved'
  BY <1>1, <1>2, <1>7 DEF SettleInv, SettledOnlyIfResolved
<1>9. SettledPrefix'
  <2> SUFFICES ASSUME NEW m \in Markets, NEW k \in DOMAIN bets'[m], NEW j \in 1..k,
                      bets'[m][k].status # "locked"
               PROVE  bets'[m][j].status # "locked"
    BY DEF SettledPrefix
  <2>1. k \in DOMAIN bets[m] /\ bets'[m][k] = bets[m][k]
    BY <1>2, <1>7
  <2>2. j \in DOMAIN bets[m] /\ j \in DOMAIN bets'[m]
    BY <1>6, <2>1
  <2>3. bets'[m][j] = bets[m][j]
    BY <1>4, <1>5, <1>6, <2>2
  <2> QED
    BY <2>1, <2>3 DEF SettleInv, SettledPrefix
<1>10. WinnersKeepTheirStake'
  <2> SUFFICES ASSUME NEW m \in Markets, NEW k \in DOMAIN bets'[m]
               PROVE  /\ bets'[m][k].status = "won" /\ Paying(m, k)' = {} =>
                            bets'[m][k].payout >= Rounded(bets'[m][k].amount, 1)
                      /\ bets'[m][k].status = "locked" => bets'[m][k].payout = 0
    BY DEF WinnersKeepTheirStake
  <2>1. OnlyMoves(t) /\ pc[t] # "res_payout"
    BY <1>1, GotoMoves DEF PlaceBetAppend
  <2>2. Paying(m, k)' = {} => Paying(m, k) = {}
    BY <2>1, PayingStays
  <2> QED
    BY <1>2, <1>7, <2>2 DEF SettleInv, WinnersKeepTheirStake
<1>11. ASSUME NEW u \in Procs PROVE SettlerOK(pc'[u], loc'[u], bets', status')
  <2>1. CASE u = t
    BY <1>1, <2>1, GotoMoves DEF SettlerOK, Settles
  <2>2. CASE u # t
    <3>1. SettlerOK(pc[u], loc[u], bets, status) /\ pc'[u] = pc[u] /\ loc'[u] = loc[u]
      BY <1>1, <2>2, GotoMoves DEF OnlyMoves, SettleInv
    <3>2. SUFFICES ASSUME pc[u] \in Settles
                   PROVE  SettlerOK(pc'[u], loc'[u], bets', status')
      BY <3>1 DEF SettlerOK
    <3>3. \A j \in 1..Behind(pc[u], loc[u]) : bets'[loc[u].m][j] = bets[loc[u].m][j]
      <4>1. CASE loc[u].m = l.m
        BY <1>4, <3>2, <4>1, BehindInList
      <4>2. CASE loc[u].m # l.m
        BY <1>5, <3>2, <4>2, BehindInList
      <4> QED
        BY <4>1, <4>2
    <3> QED
      BY <1>1, <3>1, <3>2, <3>3 DEF SettlerOK
  <2> QED
    BY <2>1, <2>2
<1> QED
  BY <1>8, <1>9, <1>10, <1>11 DEF SettleInv

\* A resolver writes a result or a payout into the bet its loop stands at.
LEMMA SettleBetStep ==
    ASSUME TypeInv, TypeInv', SettleInv, NEW t \in Procs,
           NEW m \in Markets, NEW i \in 1..Len(bets[m]), NEW bet \in BetRecord,
           bets' = [bets EXCEPT ![m] = [bets[m] EXCEPT ![i] = bet]], status' = status,
           pc[t] \in {"res_settle", "res_payout"}, loc[t].m = m, loc[t].i = i,
           NEW p \in {"res_settle", "res_payout"}, NEW r, Goto(t, p, r),
           r.m = m, Behind(p, r) = i, p = "res_payout" => r.i = i,
           bet.status # "locked",
           bet.status = "won" /\ p # "res_payout" => bet.payout >= Rounded(bet.amount, 1)
    PROVE  SettleInv'
<1> USE DEF TypeInv
<1>1. OnlyMoves(t) /\ pc'[t] = p /\ loc'[t] = r
  BY GotoMoves
<1>2. i \in Nat /\ i >= 1 /\ i <= Len(bets[m]) /\ Len(bets[m]) \in Nat
  BY DomainIsInterval
<1>6. /\ \A x \in Markets : Len(bets'[x]) = Len(bets[x])
      /\ \A x \in Markets : \A k \in 1..Len(bets[x]) :
            bets'[x][k] = IF x = m /\ k = i THEN bet ELSE bets[x][k]
  BY ReplaceBetStep
<1>7. \A x \in Markets : /\ DOMAIN bets[x] = 1..Len(bets[x]) /\ Len(bets[x]) \in Nat
                         /\ DOMAIN bets'[x] = 1..Len(bets[x])
  <2> TAKE x \in Markets
  <2>1. /\ DOMAIN bets[x] = 1..Len(bets[x]) /\ Len(bets[x]) \in Nat
        /\ DOMAIN bets'[x] = 1..Len(bets'[x])
    BY LenProperties DEF TypeOK
  <2> QED
    BY <1>6, <2>1
<1>8. status[m] = "resolved" /\ \A j \in 1..(i - 1) : bets[m][j].status # "locked"
  <2>1. SettlerOK(pc[t], loc[t], bets, status) /\ pc[t] \in Settles
    BY DEF SettleInv, Settles
  <2>2. Behind(pc[t], loc[t]) \in {i - 1, i}
    BY DEF Behind
  <2>3. \A j \in 1..(i - 1) : j \in 1..Behind(pc[t], loc[t])
    BY <1>2, <2>2
  <2> QED
    BY <2>1, <2>3 DEF SettlerOK
<1>9. SettledOnlyIfResolved'
  BY <1>6, <1>7, <1>8 DEF SettleInv, SettledOnlyIfResolved
<1>10. SettledPrefix'
  <2> SUFFICES ASSUME NEW x \in Markets, NEW k \in DOMAIN bets'[x], NEW j \in 1..k,
                      bets'[x][k].status # "locked"
               PROVE  bets'[x][j].status # "locked"
    BY DEF SettledPrefix
  <2>1. k \in 1..Len(bets[x]) /\ j \in 1..Len(bets[x]) /\ k \in DOMAIN bets[x]
    BY <1>7
  <2>2. CASE x = m /\ j = i
    BY <1>6, <2>1, <2>2
  <2>3. CASE ~(x = m /\ j = i) /\ x = m /\ k = i
    <3>1. j \in 1..(i - 1)
      BY <1>2, <2>3
    <3> QED
      BY <1>6, <1>8, <2>1, <2>3, <3>1
  <2>4. CASE ~(x = m /\ j = i) /\ ~(x = m /\ k = i)
    BY <1>6, <2>1, <2>4 DEF SettleInv, SettledPrefix
  <2> QED
    BY <2>2, <2>3, <2>4
<1>11. WinnersKeepTheirStake'
  <2> SUFFICES ASSUME NEW x \in Markets, NEW k \in DOMAIN bets'[x]
               PROVE  /\ bets'[x][k].status = "won" /\ Paying(x, k)' = {} =>
                            bets'[x][k].payout >= Rounded(bets'[x][k].amount, 1)
                      /\ bets'[x][k].status = "locked" => bets'[x][k].payout = 0
    BY DEF WinnersKeepTheirStake
  <2>1. k \in DOMAIN bets[x] /\ k \in 1..Len(bets[x])
    BY <1>7
  <2>2. CASE x = m /\ k = i
    <3>1. bets'[x][k] = bet
      BY <1>6, <2>1, <2>2
    <3>2. p = "res_payout" => t \in Paying(x, k)'
      BY <1>1, <2>2 DEF Paying
    <3> QED
      BY <3>1, <3>2
  <2>3. CASE ~(x = m /\ k = i)
    <3>1. bets'[x][k] = bets[x][k]
      BY <1>6, <2>1, <2>3
    <3>2. Paying(x, k)' = {} => Paying(x, k) = {}
      BY <1>1, <2>3, PayingStays
    <3> QED
      BY <2>1, <3>1, <3>2 DEF SettleInv, WinnersKeepTheirStake
  <2> QED
    BY <2>2, <2>3
<1>12. ASSUME NEW u \in Procs PROVE SettlerOK(pc'[u], loc'[u], bets', status')
  <2>2. CASE u = t
    <3>3. ASSUME NEW j \in 1..i PROVE bets'[m][j].status # "locked"
      <4>1. j \in 1..Len(bets[m])
        BY <1>2
      <4>2. CASE j = i
        BY <1>6, <4>1, <4>2
      <4>3. CASE j # i
        <5>1. j \in 1..(i - 1)
          BY <1>2, <4>3
        <5> QED
          BY <1>6, <1>8, <4>1, <4>3, <5>1
      <4> QED
        BY <4>2, <4>3
    <3> QED
      BY <1>1, <1>8, <2>2, <3>3 DEF SettlerOK
  <2>3. CASE u # t
    <3>1. SettlerOK(pc[u], loc[u], bets, status) /\ pc'[u] = pc[u] /\ loc'[u] = loc[u]
      BY <1>1, <2>3 DEF OnlyMoves, SettleInv
    <3>2. SUFFICES ASSUME pc[u] \in Settles
                   PROVE  SettlerOK(pc'[u], loc'[u], bets', status')
      BY <3>1 DEF SettlerOK
    <3> QED
      BY <1>6, <3>1, <3>2, BehindInList DEF SettlerOK
  <2> QED
    BY <2>2, <2>3
<1> QED
  BY <1>9, <1>10, <1>11, <1>12 DEF SettleInv

\* Where a loop of _calculate_payouts stands.
LEMMA LoopPlace ==
    ASSUME TypeInv, NEW t \in Procs,
           CalculatePayout(t) \/ WritePayout(t)
    PROVE  /\ loc[t] \in Locals /\ loc[t].m \in Markets
           /\ loc[t].i \in 1..Len(bets[loc[t].m]) /\ Len(bets[loc[t].m]) \in Nat
           /\ loc[t].i \in Nat /\ loc[t].win \in Nat /\ loc[t].lose \in Nat
           /\ bets[loc[t].m][loc[t].i] \in BetRecord
           /\ pc[t] \in {"res_settle", "res_payout"}
<1>1. loc[t] \in Locals /\ ThreadOK(pc[t], loc[t], bets)
  BY DEF TypeInv, TypeOK, LocalsOK
<1>2. loc[t].m \in Markets /\ loc[t].i \in Nat /\ loc[t].i >= 1 /\ loc[t].i <= Len(bets[loc[t].m])
  BY <1>1 DEF CalculatePayout, WritePayout, ThreadOK, Locals
<1>3. /\ Len(bets[loc[t].m]) \in Nat /\ DOMAIN bets[loc[t].m] = 1..Len(bets[loc[t].m])
      /\ \A k \in DOMAIN bets[loc[t].m] : bets[loc[t].m][k] \in BetRecord
  BY <1>2, DomainIsInterval DEF TypeInv
<1>4. loc[t].win \in Nat /\ loc[t].lose \in Nat
  BY <1>1 DEF Locals
<1>5. pc[t] \in {"res_settle", "res_payout"}
  BY DEF CalculatePayout, WritePayout
<1>6. loc[t].i \in 1..Len(bets[loc[t].m])
  BY <1>2, <1>3
<1> QED
  BY <1>1, <1>2, <1>3, <1>4, <1>5, <1>6

LEMMA CalculateStep ==
    ASSUME TypeInv, TypeInv', SettleInv, NEW t \in Procs, CalculatePayout(t)
    PROVE  SettleInv'
<1> DEFINE l == loc[t]
           old == bets[l.m][l.i]
           won == old.side = l.outcome
           bet == Settled(old, l.outcome)
           p == IF won THEN "res_payout" ELSE "res_settle"
           r == IF won THEN l ELSE [l EXCEPT !.i = l.i + 1]
<1>1. /\ l \in Locals /\ l.m \in Markets /\ l.i \in 1..Len(bets[l.m]) /\ l.i \in Nat
      /\ old \in BetRecord /\ pc[t] = "res_settle"
  BY LoopPlace DEF CalculatePayout
<1>2. /\ bets' = [bets EXCEPT ![l.m] = [bets[l.m] EXCEPT ![l.i] = bet]]
      /\ Goto(t, p, r) /\ status' = status
  BY DEF CalculatePayout
<1>3. bet \in BetRecord /\ bet.status = IF won THEN "won" ELSE "lost"
  BY <1>1 DEF Settled, BetRecord
<1>4. r.m = l.m /\ Behind(p, r) = l.i /\ (p = "res_payout" => r.i = l.i)
  BY <1>1 DEF Behind, Locals
<1>5. p \in {"res_settle", "res_payout"} /\ (bet.status = "won" => p = "res_payout")
  BY <1>3
<1>6. bet.status # "locked"
  BY <1>3
<1> HIDE DEF l, old, bet, p, r
<1>7. loc[t] = l
  BY DEF l
<1> QED
  BY <1>1, <1>2, <1>3, <1>4, <1>5, <1>6, <1>7, SettleBetStep

LEMMA PayoutStep ==
    ASSUME TypeInv, TypeInv', SettleInv, NEW t \in Procs, WritePayout(t)
    PROVE  SettleInv'
<1> DEFINE l == loc[t]
           old == bets[l.m][l.i]
           bet == [old EXCEPT !.payout = Payout(old.amount, l.win, l.lose)]
           r == [l EXCEPT !.i = l.i + 1]
<1>1. /\ l \in Locals /\ l.m \in Markets /\ l.i \in 1..Len(bets[l.m]) /\ l.i \in Nat
      /\ old \in BetRecord /\ pc[t] = "res_payout" /\ l.win \in Nat /\ l.lose \in Nat
  BY LoopPlace DEF WritePayout
<1>2. /\ bets' = [bets EXCEPT ![l.m] = [bets[l.m] EXCEPT ![l.i] = bet]]
      /\ Goto(t, "res_settle", r) /\ status' = status
  BY DEF WritePayout
<1>3. /\ Payout(old.amount, l.win, l.lose) \in Nat
      /\ Payout(old.amount, l.win, l.lose) >= Rounded(old.amount, 1)
  BY <1>1, PayoutAtLeastStake DEF BetRecord
<1>4. /\ bet \in BetRecord /\ bet.status = old.status
      /\ bet.payout >= Rounded(bet.amount, 1)
  BY <1>1, <1>3 DEF BetRecord
<1>5. r.m = l.m /\ Behind("res_settle", r) = l.i
  BY <1>1 DEF Behind, Locals
<1>6. bet.status # "locked"
  <2>1. SettlerOK(pc[t], l, bets, status) /\ l.i \in 1..Behind(pc[t], l)
    BY <1>1 DEF SettleInv, Behind
  <2> QED
    BY <1>1, <1>4, <2>1 DEF SettlerOK, Settles
<1> HIDE DEF l, old, bet, r
<1>7. loc[t] = l
  BY DEF l
<1> QED
  BY <1>1, <1>2, <1>4, <1>5, <1>6, <1>7, SettleBetStep

LEMMA BetStepKeepsSettlement ==
    ASSUME TypeInv, TypeInv', SettleInv, NEW t \in Procs, PlaceBet(t)
    PROVE  SettleInv'
<1> DEFINE l == loc[t]
<1>1. CASE PlaceBetCheck(t)
  BY <1>1, BystanderStep DEF PlaceBetCheck, ledger, Settles
<1>2. CASE PlaceBetAppend(t)
  BY <1>2, AppendStep
<1>3. CASE PlaceBetPool(t)
  BY <1>3, BystanderStep DEF PlaceBetPool, Return, Settles
<1>4. CASE RecordAgentBetCount(t)
  BY <1>4, BystanderStep DEF RecordAgentBetCount, Return, ledger, Settles
<1>5. CASE RecordAgentBetVolume(t)
  <2> DEFINE bet == [bets[l.m][l.n] EXCEPT !.hist = "open"]
  <2>1. /\ bets' = [bets EXCEPT ![l.m] = [bets[l.m] EXCEPT ![l.n] = bet]]
        /\ Goto(t, "idle", NoLocals) /\ status' = status
        /\ l.m \in Markets /\ l.n \in 1..Len(bets[l.m]) /\ pc[t] = "bet_volume"
    BY <1>5 DEF RecordAgentBetVolume, Return, TypeInv, LocalsOK, ThreadOK
  <2>2. bets[l.m][l.n] \in BetRecord
    BY <2>1, DomainIsInterval DEF TypeInv
  <2>3. bet \in BetRecord
    BY <2>2 DEF BetRecord
  <2>4. StatusesKept
    <3> DEFINE m == l.m
               n == l.n
    <3> HIDE DEF l
    <3> QED
      BY <2>1, <2>3, HistoryKeepsStatuses DEF TypeInv
  <2>5. OnlyMoves(t) /\ pc'[t] = "idle"
    BY <2>1, GotoMoves DEF TypeInv
  <2> QED
    BY <2>1, <2>4, <2>5, QuietStep DEF StaysResolved, SettlerOK, Settles
<1> QED
  BY <1>1, <1>2, <1>3, <1>4, <1>5 DEF PlaceBet

LEMMA ResolveStepKeepsSettlement ==
    ASSUME TypeInv, TypeInv', SettleInv, NEW t \in Procs,
           ResolveCheck(t) \/ ResolveDueStart(t) \/ ResolveSteps(t)
    PROVE  SettleInv'
<1> DEFINE l == loc[t]
<1>0. l \in Locals /\ ThreadOK(pc[t], l, bets) /\ SettlerOK(pc[t], l, bets, status)
  BY DEF TypeInv, TypeOK, LocalsOK, SettleInv
<1>1. CASE ResolveCheck(t)
  <2>1. /\ \E r : Goto(t, "res_price", r)
        /\ bets' = bets /\ status' = status
    BY <1>1 DEF ResolveCheck, ledger
  <2> QED
    BY <1>1, <2>1, BystanderStep DEF ResolveCheck, Settles
<1>2. CASE ResolveDueStart(t)
  BY <1>2, BystanderStep DEF ResolveDueStart, ledger, Settles
<1>3. CASE ResolvePublish(t)
  <2>1. PICK o : Goto(t, "res_settle",
                      [l EXCEPT !.outcome = o, !.win = WinningPool(l.m, o),
                                !.lose = LosingPool(l.m, o), !.i = 1])
    BY <1>3 DEF ResolvePublish
  <2>2. bets' = bets /\ status' = [status EXCEPT ![l.m] = "resolved"] /\ l.m \in Markets
    BY <1>0, <1>3 DEF ResolvePublish, ThreadOK
  <2> DEFINE r == [l EXCEPT !.outcome = o, !.win = WinningPool(l.m, o),
                            !.lose = LosingPool(l.m, o), !.i = 1]
  <2>6. r.m = l.m /\ r.i = 1
    BY <1>0 DEF Locals
  <2> HIDE DEF r
  <2>7. Goto(t, "res_settle", r)
    BY <2>1 DEF r
  <2>3. OnlyMoves(t) /\ pc'[t] = "res_settle" /\ loc'[t].m = l.m /\ loc'[t].i = 1
    BY <2>6, <2>7, GotoMoves DEF TypeInv
  <2>4. StaysResolved /\ status'[l.m] = "resolved"
    BY <2>2 DEF StaysResolved, TypeInv, TypeOK
  <2>5. SettlerOK(pc'[t], loc'[t], bets', status')
    BY <2>3, <2>4 DEF SettlerOK, Behind
  <2>8. pc[t] = "res_price"
    BY <1>3 DEF ResolvePublish
  <2> QED
    BY <2>2, <2>3, <2>4, <2>5, <2>8, SameBets, QuietStep
<1>4. CASE ResolvePriceFails(t)
  BY <1>4, BystanderStep DEF ResolvePriceFails, Return, ledger, Settles
<1>5. CASE CalculatePayout(t)
  BY <1>5, CalculateStep
<1>11. CASE WritePayout(t)
  BY <1>11, PayoutStep
<1>6. CASE SettlementDone(t)
  <2>1. /\ Goto(t, "res_record", [l EXCEPT !.n = l.i - 1, !.i = 1])
        /\ bets' = bets /\ status' = status /\ pc[t] = "res_settle"
    BY <1>6 DEF SettlementDone, ledger
  <2> DEFINE r == [l EXCEPT !.n = l.i - 1, !.i = 1]
  <2>4. r.m = l.m /\ r.n = l.i - 1
    BY <1>0 DEF Locals
  <2> HIDE DEF r
  <2>5. Goto(t, "res_record", r)
    BY <2>1 DEF r
  <2>2. OnlyMoves(t) /\ pc'[t] = "res_record" /\ loc'[t].m = l.m /\ loc'[t].n = l.i - 1
    BY <2>4, <2>5, GotoMoves DEF TypeInv
  <2>3. SettlerOK(pc'[t], loc'[t], bets', status')
    BY <1>0, <2>1, <2>2 DEF SettlerOK, Behind, Settles
  <2> QED
    BY <2>1, <2>2, <2>3, SameBets, QuietStep DEF StaysResolved
<1>12. CASE RecordNext(t)
  <2>1. /\ pc[t] = "res_record" /\ bets' = bets /\ status' = status
        /\ \/ Goto(t, "res_record", [l EXCEPT !.i = l.i + 1])
           \/ Goto(t, "res_stats", [l EXCEPT !.pay = bets[l.m][l.i].payout])
    BY <1>12 DEF RecordNext, ledger
  <2>2. OnlyMoves(t) /\ pc'[t] \in {"res_record", "res_stats"}
    BY <2>1, GotoMoves DEF TypeInv
  <2>4. loc'[t].m = l.m /\ loc'[t].n = l.n
    <3>1. CASE Goto(t, "res_record", [l EXCEPT !.i = l.i + 1])
      BY <1>0, <3>1, GotoMoves DEF TypeInv, Locals
    <3>2. CASE Goto(t, "res_stats", [l EXCEPT !.pay = bets[l.m][l.i].payout])
      BY <1>0, <3>2, GotoMoves DEF TypeInv, Locals
    <3> QED
      BY <2>1, <3>1, <3>2
  <2>3. SettlerOK(pc'[t], loc'[t], bets', status')
    BY <1>0, <2>1, <2>2, <2>4 DEF SettlerOK, Behind, Settles
  <2> QED
    BY <2>1, <2>2, <2>3, <2>4, SameBets, QuietStep DEF StaysResolved
<1>13. CASE RecordFails(t)
  BY <1>13, BystanderStep DEF RecordFails, Return, ledger, Settles
<1>7. CASE RecordAgentSettlement(t)
  <2> DEFINE bet == [bets[l.m][l.i] EXCEPT !.hist = "resolved"]
  <2>1. /\ pc[t] = "res_stats" /\ status' = status
        /\ Goto(t, "res_record", [l EXCEPT !.i = l.i + 1])
        /\ bets' = bets \/ bets' = [bets EXCEPT ![l.m] = [bets[l.m] EXCEPT ![l.i] = bet]]
    BY <1>7 DEF RecordAgentSettlement
  <2>2. l.m \in Markets /\ l.i \in 1..Len(bets[l.m])
    <3>1. /\ l.m \in Markets /\ l.i \in Nat /\ l.n \in Nat /\ l.i >= 1 /\ l.n <= Len(bets[l.m])
          /\ l.i <= l.n
      BY <1>0, <2>1 DEF ThreadOK, Locals
    <3> QED
      BY <2>1, <3>1, DomainIsInterval DEF TypeInv
  <2>3. bets[l.m][l.i] \in BetRecord
    BY <2>2, DomainIsInterval DEF TypeInv
  <2>4. bet \in BetRecord
    BY <2>3 DEF BetRecord
  <2>5. OnlyMoves(t) /\ pc'[t] = "res_record" /\ loc'[t].m = l.m /\ loc'[t].n = l.n
    BY <1>0, <2>1, GotoMoves DEF TypeInv, Locals
  <2>7. StatusesKept
    <3> HIDE DEF l
    <3>1. CASE bets' = bets
      BY <3>1, SameBets
    <3>2. CASE bets' # bets
      BY <2>1, <2>2, <2>4, <3>2, HistoryKeepsStatuses DEF TypeInv
    <3> QED
      BY <3>1, <3>2
  <2>6. SettlerOK(pc'[t], loc'[t], bets', status')
    <3>1. \A j \in 1..l.n : j \in 1..Len(bets[l.m])
      BY <2>1, BehindInList DEF Behind, Settles
    <3> QED
      BY <1>0, <2>1, <2>2, <2>5, <2>7, <3>1 DEF SettlerOK, Behind, StatusesKept, Settles
  <2> QED
    BY <2>1, <2>5, <2>6, <2>7, QuietStep DEF StaysResolved
<1>8. CASE ResolveFinish(t)
  BY <1>8, BystanderStep DEF ResolveFinish, ReturnFromResolve, Return, Settles
<1>9. CASE ResolveDueSkip(t)
  BY <1>9, BystanderStep DEF ResolveDueSkip, Return, ledger, Settles
<1>10. CASE ResolveDueCall(t)
  BY <1>10, BystanderStep DEF ResolveDueCall, ledger, Settles
<1> QED
  BY <1>1, <1>2, <1>3, <1>4, <1>5, <1>6, <1>7, <1>8, <1>9, <1>10, <1>11, <1>12, <1>13
     DEF ResolveSteps

LEMMA NextSettle == TypeInv /\ SettleInv /\ [Next]_vars => SettleInv'
<1> SUFFICES ASSUME TypeInv, SettleInv, [Next]_vars PROVE SettleInv'
  OBVIOUS
<1>0. TypeInv'
  BY NextType
<1>1. CASE UNCHANGED <<status, bets, pc, loc>>
  BY <1>1 DEF SettleInv, SettledOnlyIfResolved, SettledPrefix, WinnersKeepTheirStake, Paying
<1>2. ASSUME NEW a \in Agents, RegisterAgent(a) \/ EnsureAgentStats(a) PROVE SettleInv'
  BY <1>1, <1>2 DEF RegisterAgent, EnsureAgentStats, ledger
<1>3. CASE Tick
  BY <1>1, <1>3 DEF Tick, ledger
<1>4. CASE UNCHANGED vars
  BY <1>1, <1>4 DEF vars, ledger
<1> QED
  BY <1>0, <1>2, <1>3, <1>4, BetStepKeepsSettlement, ResolveStepKeepsSettlement DEF Next

LEMMA InitSettle == Init => SettleInv
  BY DEF Init, SettleInv, SettledOnlyIfResolved, SettledPrefix, WinnersKeepTheirStake, SettlerOK,
         Settles

\* However many resolvers race, and whenever bets arrive: no bet is settled in a
\* market that still takes bets, the settled bets are the front of the list, and
\* a bet that won is paid its stake at least, rounded as payouts are, from the moment
\* nobody is about to write its payout.
THEOREM SettlementSafe ==
    Spec => [](SettledOnlyIfResolved /\ SettledPrefix /\ WinnersKeepTheirStake)
<1>1. Spec => [](TypeInv /\ SettleInv)
  BY InitType, NextType, InitSettle, NextSettle, PTL DEF Spec
<1>2. SettleInv => SettledOnlyIfResolved /\ SettledPrefix /\ WinnersKeepTheirStake
  BY DEF SettleInv
<1> QED
  BY <1>1, <1>2, PTL

\* No bet is won or lost while its market takes bets, even when two resolvers settle it.
THEOREM OnlyResolvedMarketsSettle == Spec => []SettledOnlyIfResolved
  BY SettlementSafe, PTL

\* A winner gets its stake (to six decimals) at least, although its stake may still be
\* missing from the pool it is paid from (place_bet appends first and adds to the pool
\* afterwards), and although another resolver may mark and pay the same bet; it is without
\* only between the writes of its status and of its payout.
THEOREM WinnersAreMadeWhole == Spec => []WinnersKeepTheirStake
  BY SettlementSafe, PTL

----------------------------------------------------------------------------
(* One resolver: nobody calls /resolve or /resolve-due, so only the          *)
(* scheduler's job, of which APScheduler runs one instance, settles markets. *)

Resolving == {"due_next", "res_price"} \cup Settles

\* The bet a resolver is at: marked as won before its payout is written, settled before its
\* result is recorded, with the payout it holds.
AtBet(p, l, b) ==
    LET bet == b[l.m][l.i]
    IN  /\ p \in {"res_payout", "res_stats"} => l.i \in DOMAIN b[l.m]
        /\ p = "res_payout" => bet.status = "won"
        /\ p = "res_stats" => bet.status # "locked" /\ l.pay = bet.payout

OneResolver ==
    /\ \A t \in HttpThreads : pc[t] \notin Resolving
    /\ \A m \in Markets : status[m] = "open" <=> outcome[m] = None
    /\ pc[Scheduler] = "res_price" => /\ status[loc[Scheduler].m] = "open"
                                      /\ loc[Scheduler].m \notin SportsMarkets
    /\ pc[Scheduler] \in Settles => outcome[loc[Scheduler].m] = loc[Scheduler].outcome
    /\ AtBet(pc[Scheduler], loc[Scheduler], bets)
    /\ ResultMatchesOutcome

\* The same bets are settled after the step as before it, with the same result.
SettledKept ==
    \A m \in Markets : \A k :
        LET was == k \in DOMAIN bets[m] /\ bets[m][k].status # "locked"
            is == k \in DOMAIN bets'[m] /\ bets'[m][k].status # "locked"
        IN  /\ was <=> is
            /\ was => /\ bets'[m][k].status = bets[m][k].status
                      /\ bets'[m][k].side = bets[m][k].side
                      /\ bets'[m][k].bettor = bets[m][k].bettor
                      /\ bets'[m][k].payout = bets[m][k].payout
                      /\ bets'[m][k].amount = bets[m][k].amount

LEMMA QuietKeepsSettled ==
    ASSUME TypeOK, TypeOK', StatusesKept
    PROVE  SettledKept
<1>1. \A m \in Markets : DOMAIN bets[m] = 1..Len(bets[m]) /\ DOMAIN bets'[m] = 1..Len(bets'[m])
  BY LenProperties DEF TypeOK
<1> QED
  BY <1>1 DEF StatusesKept, SettledKept

\* place_bet settles nothing.
LEMMA BetKeepsSettled ==
    ASSUME TypeInv, TypeInv', NEW t \in Procs, PlaceBet(t)
    PROVE  SettledKept /\ UNCHANGED <<status, outcome>>
<1> USE DEF TypeInv
<1> DEFINE l == loc[t]
<1>1. CASE bets' = bets /\ UNCHANGED <<status, outcome>>
  BY <1>1, SameBets, QuietKeepsSettled
<1>2. CASE PlaceBetAppend(t)
  <2> DEFINE bet == [bettor |-> l.bettor, side |-> l.side, amount |-> l.amount,
                     status |-> "locked", payout |-> 0, hist |-> "absent"]
  <2>1. /\ bets' = [bets EXCEPT ![l.m] = Append(bets[l.m], bet)]
        /\ l.m \in Markets /\ UNCHANGED <<status, outcome>>
    BY <1>2 DEF PlaceBetAppend, LocalsOK, ThreadOK
  <2>2. bet.status = "locked" /\ bet \in BetRecord
    BY DEF TypeOK, Locals, BetRecord
  <2> HIDE DEF bet
  <2>3. bets[l.m] \in Seq(BetRecord) /\ Len(bets[l.m]) \in Nat
    BY <2>1, LenProperties DEF TypeOK
  <2>4. bets'[l.m] = Append(bets[l.m], bet)
    BY <2>1 DEF TypeOK
  <2>5. /\ Len(bets'[l.m]) = Len(bets[l.m]) + 1
        /\ \A k \in 1..Len(bets[l.m]) : bets'[l.m][k] = bets[l.m][k]
        /\ bets'[l.m][Len(bets[l.m]) + 1] = bet
    BY <2>2, <2>3, <2>4, AppendProperties
  <2>6. DOMAIN bets[l.m] = 1..Len(bets[l.m]) /\ DOMAIN bets'[l.m] = 1..(Len(bets[l.m]) + 1)
    <3>1. bets'[l.m] \in Seq(BetRecord)
      BY <2>2, <2>3, <2>4, AppendProperties
    <3> QED
      BY <2>3, <2>5, <3>1, LenProperties
  <2>7. ASSUME NEW m \in Markets, m # l.m PROVE bets'[m] = bets[m]
    BY <2>1, <2>7 DEF TypeOK
  <2>8. ASSUME NEW k PROVE /\ k \in DOMAIN bets[l.m] => k \in DOMAIN bets'[l.m] /\ bets'[l.m][k] = bets[l.m][k]
                           /\ k \in DOMAIN bets'[l.m] /\ k \notin DOMAIN bets[l.m] => bets'[l.m][k] = bet
    BY <2>3, <2>5, <2>6, SMTT(30)
  <2>9. ASSUME NEW m \in Markets, NEW k
        PROVE  /\ k \in DOMAIN bets[m] => k \in DOMAIN bets'[m] /\ bets'[m][k] = bets[m][k]
               /\ k \in DOMAIN bets'[m] /\ k \notin DOMAIN bets[m] => bets'[m][k].status = "locked"
    <3>1. CASE m = l.m
      BY <2>2, <2>8, <3>1
    <3>2. CASE m # l.m
      BY <2>7, <3>2
    <3> QED
      BY <3>1, <3>2
  <2> HIDE DEF l
  <2> QED
    BY <2>1, <2>9 DEF SettledKept
<1>3. CASE RecordAgentBetVolume(t)
  <2> DEFINE bet == [bets[l.m][l.n] EXCEPT !.hist = "open"]
  <2>1. /\ bets' = [bets EXCEPT ![l.m] = [bets[l.m] EXCEPT ![l.n] = bet]]
        /\ UNCHANGED <<status, outcome>>
        /\ l.m \in Markets /\ l.n \in 1..Len(bets[l.m])
    BY <1>3 DEF RecordAgentBetVolume, Return, LocalsOK, ThreadOK
  <2>2. bets[l.m][l.n] \in BetRecord
    BY <2>1, DomainIsInterval
  <2>3. bet \in BetRecord
    BY <2>2 DEF BetRecord
  <2> HIDE DEF l
  <2> QED
    BY <2>1, <2>3, HistoryKeepsStatuses, QuietKeepsSettled
<1> QED
  BY <1>1, <1>2, <1>3 DEF PlaceBet, PlaceBetCheck, PlaceBetPool, RecordAgentBetCount, ledger

\* One bet of one list is another one after the step.
OnlyBet(m, i) ==
    /\ m \in Markets /\ i \in DOMAIN bets[m]
    /\ \A x \in Markets : DOMAIN bets'[x] = DOMAIN bets[x]
    /\ \A x \in Markets : \A k \in DOMAIN bets[x] :
          ~(x = m /\ k = i) => bets'[x][k] = bets[x][k]
    /\ bets'[m][i].bettor = bets[m][i].bettor
    /\ bets'[m][i].side = bets[m][i].side
    /\ bets'[m][i].amount = bets[m][i].amount

LEMMA OnlyBetChanges ==
    ASSUME TypeInv, NEW m \in Markets, NEW i \in 1..Len(bets[m]), NEW bet,
           bets' = [bets EXCEPT ![m] = [bets[m] EXCEPT ![i] = bet]],
           bet.bettor = bets[m][i].bettor, bet.side = bets[m][i].side,
           bet.amount = bets[m][i].amount
    PROVE  OnlyBet(m, i) /\ bets'[m][i] = bet
<1>1. /\ \A x \in Markets : DOMAIN bets'[x] = DOMAIN bets[x]
      /\ \A x \in Markets : \A k \in DOMAIN bets[x] :
            bets'[x][k] = IF x = m /\ k = i THEN bet ELSE bets[x][k]
  BY DEF TypeInv, TypeOK
<1>2. i \in DOMAIN bets[m]
  BY DomainIsInterval DEF TypeInv
<1>3. bets'[m][i] = bet
  BY <1>1, <1>2
<1> QED
  BY <1>1, <1>2, <1>3 DEF OnlyBet

\* The turn of _calculate_payouts settles one bet, by the resolver's own outcome.
LEMMA CalculateEffect ==
    ASSUME TypeInv, NEW t \in Procs, CalculatePayout(t)
    PROVE  LET l == loc[t]
               bet == bets'[l.m][l.i]
           IN  /\ OnlyBet(l.m, l.i)
               /\ bet.status # "locked"
               /\ bet.status = "won" <=> bet.side = l.outcome
               /\ bet.payout > 0 => bet.status = "won"
               /\ UNCHANGED <<status, outcome, stats>>
               /\ IF bet.status = "won" THEN Goto(t, "res_payout", l)
                  ELSE Goto(t, "res_settle", [l EXCEPT !.i = l.i + 1])
<1> DEFINE l == loc[t]
           old == bets[l.m][l.i]
           won == old.side = l.outcome
           bet == Settled(old, l.outcome)
<1>1. l.m \in Markets /\ l.i \in 1..Len(bets[l.m]) /\ old \in BetRecord
  BY LoopPlace
<1>2. /\ bets' = [bets EXCEPT ![l.m] = [bets[l.m] EXCEPT ![l.i] = bet]]
      /\ IF won THEN Goto(t, "res_payout", l)
         ELSE Goto(t, "res_settle", [l EXCEPT !.i = l.i + 1])
      /\ UNCHANGED <<status, outcome, stats>>
  BY DEF CalculatePayout
<1>3. /\ bet.bettor = old.bettor /\ bet.side = old.side /\ bet.amount = old.amount
      /\ bet.status = IF won THEN "won" ELSE "lost"
      /\ ~won => bet.payout = 0
  BY <1>1 DEF Settled, BetRecord
<1> HIDE DEF bet
<1>4. OnlyBet(l.m, l.i) /\ bets'[l.m][l.i] = bet
  <2> HIDE DEF l
  <2> QED
    BY <1>1, <1>2, <1>3, OnlyBetChanges
<1>5. /\ bet.status # "locked" /\ (bet.status = "won" <=> bet.side = l.outcome)
      /\ (bet.payout > 0 => bet.status = "won") /\ (bet.status = "won" <=> won)
  BY <1>3
<1> HIDE DEF old, won
<1> QED
  BY <1>2, <1>4, <1>5

\* ... and then writes one payout.
LEMMA PayoutEffect ==
    ASSUME TypeInv, NEW t \in Procs, WritePayout(t)
    PROVE  LET l == loc[t]
           IN  /\ OnlyBet(l.m, l.i)
               /\ bets'[l.m][l.i].status = bets[l.m][l.i].status
               /\ UNCHANGED <<status, outcome, stats>>
               /\ Goto(t, "res_settle", [l EXCEPT !.i = l.i + 1])
<1> DEFINE l == loc[t]
           old == bets[l.m][l.i]
           bet == [old EXCEPT !.payout = Payout(old.amount, l.win, l.lose)]
<1>1. l.m \in Markets /\ l.i \in 1..Len(bets[l.m]) /\ old \in BetRecord
  BY LoopPlace
<1>2. /\ bets' = [bets EXCEPT ![l.m] = [bets[l.m] EXCEPT ![l.i] = bet]]
      /\ Goto(t, "res_settle", [l EXCEPT !.i = l.i + 1])
      /\ UNCHANGED <<status, outcome, stats>>
  BY DEF WritePayout
<1>3. /\ bet.bettor = old.bettor /\ bet.side = old.side /\ bet.amount = old.amount
      /\ bet.status = old.status
  BY <1>1 DEF BetRecord
<1> HIDE DEF bet
<1>4. OnlyBet(l.m, l.i) /\ bets'[l.m][l.i] = bet
  <2> HIDE DEF l
  <2> QED
    BY <1>1, <1>2, <1>3, OnlyBetChanges
<1> QED
  BY <1>2, <1>3, <1>4

\* A thread other than the scheduler that is not resolving cannot disturb OneResolver.
LEMMA OneResolverStays ==
    ASSUME TypeInv, OneResolver, SettleInv', NEW t \in Procs, OnlyMoves(t), SettledKept,
           UNCHANGED <<status, outcome>>, TypeInv',
           t # Scheduler => pc'[t] \notin Resolving,
           t = Scheduler =>
              /\ pc'[t] = "res_price" => /\ status[loc'[t].m] = "open"
                                         /\ loc'[t].m \notin SportsMarkets
              /\ pc'[t] \in Settles => outcome[loc'[t].m] = loc'[t].outcome
              /\ AtBet(pc'[t], loc'[t], bets')
    PROVE  OneResolver'
<1>1. Scheduler \in Procs /\ Scheduler \notin HttpThreads /\ HttpThreads \subseteq Procs
  BY ModelAssumption DEF Procs
<1>2. \A u \in HttpThreads : pc'[u] \notin Resolving
  BY <1>1 DEF OneResolver, OnlyMoves
<1>3. /\ pc'[Scheduler] = "res_price" => /\ status[loc'[Scheduler].m] = "open"
                                         /\ loc'[Scheduler].m \notin SportsMarkets
      /\ pc'[Scheduler] \in Settles => outcome[loc'[Scheduler].m] = loc'[Scheduler].outcome
      /\ AtBet(pc'[Scheduler], loc'[Scheduler], bets')
  <2>1. CASE t = Scheduler
    BY <2>1
  <2>2. CASE t # Scheduler
    <3>1. pc'[Scheduler] = pc[Scheduler] /\ loc'[Scheduler] = loc[Scheduler]
      BY <1>1, <2>2 DEF OnlyMoves
    <3>2. ASSUME pc[Scheduler] \in {"res_payout", "res_stats"}
          PROVE  AtBet(pc[Scheduler], loc[Scheduler], bets')
      <4>1. loc[Scheduler].m \in Markets
        BY <1>1, <3>2 DEF TypeInv, LocalsOK, ThreadOK
      <4>2. AtBet(pc[Scheduler], loc[Scheduler], bets)
        BY DEF OneResolver
      <4> QED
        BY <3>2, <4>1, <4>2 DEF AtBet, SettledKept
    <3>3. AtBet(pc[Scheduler], loc[Scheduler], bets')
      BY <3>2 DEF AtBet
    <3> QED
      BY <3>1, <3>3 DEF OneResolver
  <2> QED
    BY <2>1, <2>2
<1>4. ResultMatchesOutcome'
  <2> SUFFICES ASSUME NEW m \in Markets, NEW k \in DOMAIN bets'[m]
               PROVE  /\ bets'[m][k].status # "locked" =>
                            (bets'[m][k].status = "won" <=> bets'[m][k].side = outcome'[m])
                      /\ bets'[m][k].payout > 0 => bets'[m][k].status = "won"
    BY DEF ResultMatchesOutcome
  <2>1. CASE bets'[m][k].status = "locked"
    <3>1. bets'[m][k].payout = 0
      BY <2>1 DEF SettleInv, WinnersKeepTheirStake
    <3> QED
      BY <2>1, <3>1
  <2>2. CASE bets'[m][k].status # "locked"
    BY <2>2 DEF OneResolver, ResultMatchesOutcome, SettledKept
  <2> QED
    BY <2>1, <2>2
<1> QED
  BY <1>2, <1>3, <1>4 DEF OneResolver

\* A step of place_bet leaves its thread outside the resolving handlers.
LEMMA BetStaysAside ==
    ASSUME TypeInv, NEW t \in Procs, PlaceBet(t)
    PROVE  OnlyMoves(t) /\ pc'[t] \notin Resolving
<1>1. \E p : p \notin Resolving /\ \E r : Goto(t, p, r)
  <2>1. \/ \E r : Goto(t, "idle", r)
        \/ \E r : Goto(t, "bet_lock", r)
        \/ \E r : Goto(t, "bet_pool", r)
        \/ \E r : Goto(t, "bet_agent", r)
        \/ \E r : Goto(t, "bet_volume", r)
    <3>1. CASE PlaceBetCheck(t)
      BY <3>1 DEF PlaceBetCheck
    <3>2. CASE PlaceBetAppend(t)
      BY <3>2 DEF PlaceBetAppend
    <3>3. CASE PlaceBetPool(t)
      BY <3>3 DEF PlaceBetPool, Return
    <3>4. CASE RecordAgentBetCount(t)
      BY <3>4 DEF RecordAgentBetCount, Return
    <3>5. CASE RecordAgentBetVolume(t)
      BY <3>5 DEF RecordAgentBetVolume, Return
    <3> QED
      BY <3>1, <3>2, <3>3, <3>4, <3>5 DEF PlaceBet
  <2> QED
    BY <2>1 DEF Resolving, Settles
<1> QED
  BY <1>1, GotoMoves DEF TypeInv

LEMMA BetKeepsOneResolver ==
    ASSUME TypeInv, TypeInv', SettleInv, OneResolver, NEW t \in Procs, PlaceBet(t)
    PROVE  OneResolver'
<1>1. SettleInv'
  BY BetStepKeepsSettlement
<1>2. AtBet(pc'[t], loc'[t], bets') /\ pc'[t] # "res_price" /\ pc'[t] \notin Settles
  BY BetStaysAside DEF Resolving, Settles, AtBet
<1> QED
  BY <1>1, <1>2, BetKeepsSettled, BetStaysAside, OneResolverStays

\* The scheduler publishes the outcome of a market that is open, so it has none yet.
LEMMA SchedulerPublishes ==
    ASSUME TypeInv, TypeInv', SettleInv, OneResolver, ResolvePublish(Scheduler)
    PROVE  OneResolver'
<1> DEFINE t == Scheduler
           l == loc[t]
<1>0. t \in Procs /\ t \notin HttpThreads /\ HttpThreads \subseteq Procs
  BY ModelAssumption DEF Procs
<1>1. l \in Locals /\ ThreadOK(pc[t], l, bets)
  BY <1>0 DEF TypeInv, TypeOK, LocalsOK
<1>2. l.m \in Markets /\ status[l.m] = "open" /\ l.m \notin SportsMarkets
  BY <1>1 DEF ResolvePublish, ThreadOK, OneResolver
<1>3. PICK o \in Sides :
        /\ outcome' = [outcome EXCEPT ![l.m] = o]
        /\ Goto(t, "res_settle",
                [l EXCEPT !.outcome = o, !.win = WinningPool(l.m, o),
                          !.lose = LosingPool(l.m, o), !.i = 1])
  BY <1>2 DEF ResolvePublish
<1>4. bets' = bets /\ status' = [status EXCEPT ![l.m] = "resolved"]
  BY DEF ResolvePublish
<1> DEFINE r == [l EXCEPT !.outcome = o, !.win = WinningPool(l.m, o),
                          !.lose = LosingPool(l.m, o), !.i = 1]
<1>5. r.m = l.m /\ r.outcome = o
  BY <1>1 DEF Locals
<1> HIDE DEF r
<1>6. Goto(t, "res_settle", r)
  BY <1>3 DEF r
<1>7. OnlyMoves(t) /\ pc'[t] = "res_settle" /\ loc'[t].m = l.m /\ loc'[t].outcome = o
  BY <1>0, <1>5, <1>6, GotoMoves DEF TypeInv
<1>8. o # None /\ outcome'[l.m] = o /\ status'[l.m] = "resolved"
  BY <1>2, <1>3, <1>4, ModelAssumption DEF TypeInv, TypeOK
<1>9. \A m \in Markets : m # l.m => outcome'[m] = outcome[m] /\ status'[m] = status[m]
  BY <1>3, <1>4 DEF TypeInv, TypeOK
<1>10. ResultMatchesOutcome'
  <2>1. \A k \in DOMAIN bets[l.m] : bets[l.m][k].status = "locked"
    BY <1>2 DEF SettleInv, SettledOnlyIfResolved
  <2> QED
    BY <1>4, <1>9, <2>1 DEF OneResolver, ResultMatchesOutcome
<1>11. \A u \in HttpThreads : pc'[u] \notin Resolving
  BY <1>0, <1>7 DEF OneResolver, OnlyMoves
<1>12. \A m \in Markets : status'[m] = "open" <=> outcome'[m] = None
  BY <1>8, <1>9 DEF OneResolver
<1>13. AtBet(pc'[t], loc'[t], bets')
  BY <1>7 DEF AtBet
<1> QED
  BY <1>7, <1>8, <1>10, <1>11, <1>12, <1>13 DEF OneResolver

\* The scheduler's turn of _calculate_payouts settles by the published outcome.
LEMMA SchedulerPays ==
    ASSUME TypeInv, TypeInv', OneResolver,
           CalculatePayout(Scheduler) \/ WritePayout(Scheduler)
    PROVE  OneResolver'
<1> DEFINE t == Scheduler
           l == loc[t]
           r == [l EXCEPT !.i = l.i + 1]
           bet == bets'[l.m][l.i]
<1>0. t \in Procs /\ t \notin HttpThreads /\ HttpThreads \subseteq Procs
  BY ModelAssumption DEF Procs
<1>1. l \in Locals
  BY <1>0 DEF TypeInv, TypeOK
<1>2. r.m = l.m /\ r.outcome = l.outcome
  BY <1>1 DEF Locals
<1>3. pc[t] \in {"res_settle", "res_payout"} /\ outcome[l.m] = l.outcome
  BY DEF CalculatePayout, WritePayout, OneResolver, Settles
<1>4. OnlyBet(l.m, l.i) /\ UNCHANGED <<status, outcome>>
  BY <1>0, CalculateEffect, PayoutEffect
<1> HIDE DEF r
<1>5. /\ bet.status # "locked" => (bet.status = "won" <=> bet.side = l.outcome)
      /\ bet.payout > 0 => bet.status = "won"
  <2>1. CASE CalculatePayout(t)
    BY <1>0, <2>1, CalculateEffect
  <2>2. CASE WritePayout(t)
    <3>1. bet.status = "won" /\ bets[l.m][l.i].status = "won"
      BY <1>0, <2>2, PayoutEffect DEF OneResolver, AtBet, WritePayout
    <3>2. bets[l.m][l.i].side = outcome[l.m] /\ bet.side = bets[l.m][l.i].side
      BY <1>4, <3>1 DEF OneResolver, ResultMatchesOutcome, OnlyBet
    <3> QED
      BY <1>3, <3>1, <3>2
  <2> QED
    BY <2>1, <2>2
<1>6. \/ Goto(t, "res_settle", r)
      \/ Goto(t, "res_payout", l) /\ bet.status = "won"
  BY <1>0, CalculateEffect, PayoutEffect DEF r
<1>7. /\ OnlyMoves(t) /\ loc'[t].m = l.m /\ loc'[t].outcome = l.outcome
      /\ pc'[t] \in {"res_settle", "res_payout"}
      /\ pc'[t] = "res_payout" => loc'[t] = l /\ bet.status = "won"
  BY <1>0, <1>2, <1>6, GotoMoves DEF TypeInv
<1>8. AtBet(pc'[t], loc'[t], bets')
  BY <1>4, <1>7 DEF AtBet, OnlyBet
<1>9. ResultMatchesOutcome'
  <2> SUFFICES ASSUME NEW m \in Markets, NEW k \in DOMAIN bets'[m]
               PROVE  /\ bets'[m][k].status # "locked" =>
                            (bets'[m][k].status = "won" <=> bets'[m][k].side = outcome'[m])
                      /\ bets'[m][k].payout > 0 => bets'[m][k].status = "won"
    BY DEF ResultMatchesOutcome
  <2>1. CASE m = l.m /\ k = l.i
    BY <1>3, <1>4, <1>5, <2>1
  <2>2. CASE ~(m = l.m /\ k = l.i)
    BY <1>4, <2>2 DEF OneResolver, ResultMatchesOutcome, OnlyBet
  <2> QED
    BY <2>1, <2>2
<1>10. \A u \in HttpThreads : pc'[u] \notin Resolving
  BY <1>0, <1>7 DEF OneResolver, OnlyMoves
<1>11. pc'[t] # "res_price" /\ outcome'[loc'[t].m] = loc'[t].outcome
  BY <1>3, <1>4, <1>7
<1> QED
  BY <1>4, <1>8, <1>9, <1>10, <1>11 DEF OneResolver

\* Nobody but the scheduler takes a step of a resolving handler.
LEMMA OnlySchedulerResolves ==
    ASSUME ManualResolvers = {}, OneResolver,
           NEW t \in Procs, ResolveCheck(t) \/ ResolveDueStart(t) \/ ResolveSteps(t)
    PROVE  t = Scheduler
<1>1. CASE t \in HttpThreads
  <2>1. pc[t] \notin Resolving
    BY <1>1 DEF OneResolver
  <2>2. ~ResolveCheck(t) /\ ~ResolveDueStart(t)
    BY <1>1, ModelAssumption DEF ResolveCheck, ResolveDueStart
  <2> QED
    BY <2>1, <2>2 DEF Resolving, Settles, ResolveSteps, ResolvePublish, ResolvePriceFails,
           CalculatePayout, WritePayout, SettlementDone, RecordNext, RecordAgentSettlement,
           RecordFails, ResolveFinish, ResolveDueSkip, ResolveDueCall
<1> QED
  BY <1>1 DEF Procs

\* With nobody but the scheduler resolving, its steps keep OneResolver.
LEMMA ResolveKeepsOneResolver ==
    ASSUME ManualResolvers = {}, TypeInv, TypeInv', SettleInv, OneResolver,
           NEW t \in Procs, ResolveCheck(t) \/ ResolveDueStart(t) \/ ResolveSteps(t)
    PROVE  OneResolver'
<1> DEFINE l == loc[t]
<1>0. t = Scheduler
  BY OnlySchedulerResolves
<1>1. l \in Locals /\ ThreadOK(pc[t], l, bets)
  BY DEF TypeInv, TypeOK, LocalsOK
<1>14. SettleInv'
  BY ResolveStepKeepsSettlement
<1>2. ASSUME bets' = bets, UNCHANGED <<status, outcome>>,
             (\E r : Goto(t, "idle", r)) \/ (\E r : Goto(t, "due_next", r))
      PROVE  OneResolver'
  <2>1. OnlyMoves(t) /\ pc'[t] \in {"idle", "due_next"}
    BY <1>2, GotoMoves DEF TypeInv
  <2>2. SettledKept
    BY <1>2, SameBets, QuietKeepsSettled DEF TypeInv
  <2> QED
    BY <1>0, <1>2, <1>14, <2>1, <2>2, OneResolverStays DEF AtBet, Settles
<1>3. CASE ResolveCheck(t)
  BY <1>0, <1>3, ModelAssumption DEF ResolveCheck
<1>4. CASE ResolveDueStart(t)
  BY <1>2, <1>4 DEF ResolveDueStart, ledger
<1>5. CASE ResolvePublish(t)
  BY <1>0, <1>5, SchedulerPublishes
<1>6. CASE ResolvePriceFails(t)
  BY <1>2, <1>6 DEF ResolvePriceFails, Return, ledger
<1>7. CASE CalculatePayout(t)
  BY <1>0, <1>7, SchedulerPays
<1>15. CASE WritePayout(t)
  BY <1>0, <1>15, SchedulerPays
<1>16. CASE RecordFails(t)
  BY <1>2, <1>16 DEF RecordFails, Return, ledger
<1>8. CASE SettlementDone(t)
  <2>1. /\ Goto(t, "res_record", [l EXCEPT !.n = l.i - 1, !.i = 1])
        /\ bets' = bets /\ UNCHANGED <<status, outcome>> /\ pc[t] = "res_settle"
    BY <1>8 DEF SettlementDone, ledger
  <2> DEFINE r == [l EXCEPT !.n = l.i - 1, !.i = 1]
  <2>2. r.m = l.m /\ r.outcome = l.outcome
    BY <1>1 DEF Locals
  <2> HIDE DEF r
  <2>3. Goto(t, "res_record", r)
    BY <2>1 DEF r
  <2>4. OnlyMoves(t) /\ pc'[t] = "res_record" /\ loc'[t].m = l.m /\ loc'[t].outcome = l.outcome
    BY <2>2, <2>3, GotoMoves DEF TypeInv
  <2>5. SettledKept
    BY <2>1, SameBets, QuietKeepsSettled DEF TypeInv
  <2>6. outcome[l.m] = l.outcome
    BY <1>0, <2>1 DEF OneResolver, Settles
  <2> QED
    BY <1>0, <1>14, <2>1, <2>4, <2>5, <2>6, OneResolverStays DEF AtBet, Settles
<1>17. CASE RecordNext(t)
  <2> DEFINE bet == bets[l.m][l.i]
             q == [l EXCEPT !.pay = bet.payout]
             r == [l EXCEPT !.i = l.i + 1]
  <2>1. /\ pc[t] = "res_record" /\ bets' = bets /\ UNCHANGED <<status, outcome>>
        /\ Goto(t, "res_record", r) \/ Goto(t, "res_stats", q)
        /\ l.i <= l.n
    BY <1>17 DEF RecordNext, ledger
  <2>2. /\ q.m = l.m /\ q.outcome = l.outcome /\ q.i = l.i /\ q.pay = bet.payout
        /\ r.m = l.m /\ r.outcome = l.outcome
    BY <1>1 DEF Locals
  <2> HIDE DEF q, r
  <2>3. /\ OnlyMoves(t) /\ loc'[t].m = l.m /\ loc'[t].outcome = l.outcome
        /\ pc'[t] \in {"res_record", "res_stats"}
        /\ pc'[t] = "res_stats" => loc'[t].i = l.i /\ loc'[t].pay = bet.payout
    BY <2>1, <2>2, GotoMoves DEF TypeInv
  <2>4. l.m \in Markets /\ l.i \in Nat /\ l.n \in Nat /\ l.i >= 1 /\ l.n <= Len(bets[l.m])
    BY <1>1, <2>1 DEF ThreadOK, Locals
  <2>5. l.i \in DOMAIN bets[l.m] /\ l.i \in 1..l.n
    BY <2>1, <2>4, DomainIsInterval DEF TypeInv
  <2>6. bet.status # "locked"
    BY <1>1, <2>1, <2>5 DEF SettleInv, SettlerOK, Behind, Settles
  <2>7. AtBet(pc'[t], loc'[t], bets')
    BY <2>1, <2>3, <2>5, <2>6 DEF AtBet
  <2>8. SettledKept
    BY <2>1, SameBets, QuietKeepsSettled DEF TypeInv
  <2>9. outcome[l.m] = l.outcome
    BY <1>0, <2>1 DEF OneResolver, Settles
  <2> QED
    BY <1>0, <1>14, <2>1, <2>3, <2>7, <2>8, <2>9, OneResolverStays
<1>9. CASE RecordAgentSettlement(t)
  <2> DEFINE bet == [bets[l.m][l.i] EXCEPT !.hist = "resolved"]
             r == [l EXCEPT !.i = l.i + 1]
  <2>1. /\ pc[t] = "res_stats" /\ UNCHANGED <<status, outcome>>
        /\ Goto(t, "res_record", r)
        /\ bets' = bets \/ bets' = [bets EXCEPT ![l.m] = [bets[l.m] EXCEPT ![l.i] = bet]]
    BY <1>9 DEF RecordAgentSettlement
  <2>2. l.m \in Markets /\ l.i \in 1..Len(bets[l.m])
    <3>1. /\ l.m \in Markets /\ l.i \in Nat /\ l.n \in Nat /\ l.i >= 1 /\ l.n <= Len(bets[l.m])
          /\ l.i <= l.n
      BY <1>1, <2>1 DEF ThreadOK, Locals
    <3> QED
      BY <2>1, <3>1, DomainIsInterval DEF TypeInv
  <2>3. bets[l.m][l.i] \in BetRecord
    BY <2>2, DomainIsInterval DEF TypeInv
  <2>4. bet \in BetRecord
    BY <2>3 DEF BetRecord
  <2>5. r.m = l.m /\ r.outcome = l.outcome
    BY <1>1 DEF Locals
  <2>6. OnlyMoves(t) /\ pc'[t] = "res_record" /\ loc'[t].m = l.m /\ loc'[t].outcome = l.outcome
    <3> HIDE DEF r
    <3> QED
      BY <2>1, <2>5, GotoMoves DEF TypeInv
  <2>7. SettledKept
    <3> HIDE DEF l
    <3>1. StatusesKept
      <4>1. CASE bets' = bets
        BY <4>1, SameBets
      <4>2. CASE bets' # bets
        BY <2>1, <2>2, <2>4, <4>2, HistoryKeepsStatuses DEF TypeInv
      <4> QED
        BY <4>1, <4>2
    <3> QED
      BY <3>1, QuietKeepsSettled DEF TypeInv
  <2>8. outcome[l.m] = l.outcome
    BY <1>0, <2>1 DEF OneResolver, Settles
  <2> QED
    BY <1>0, <1>14, <2>1, <2>6, <2>7, <2>8, OneResolverStays DEF AtBet, Settles
<1>10. CASE ResolveFinish(t)
  BY <1>2, <1>10 DEF ResolveFinish, ReturnFromResolve, Return
<1>11. CASE ResolveDueSkip(t)
  BY <1>2, <1>11 DEF ResolveDueSkip, Return, ledger
<1>12. CASE ResolveDueCall(t)
  <2> DEFINE r == [l EXCEPT !.m = Head(l.todo), !.todo = Tail(l.todo)]
  <2>1. /\ Goto(t, "res_price", r) /\ Due(Head(l.todo), l.at)
        /\ bets' = bets /\ UNCHANGED <<status, outcome>>
    BY <1>12 DEF ResolveDueCall, ledger
  <2>2. r.m = Head(l.todo)
    BY <1>1 DEF Locals
  <2> HIDE DEF r
  <2>3. OnlyMoves(t) /\ pc'[t] = "res_price" /\ loc'[t].m = Head(l.todo)
    BY <2>1, <2>2, GotoMoves DEF TypeInv
  <2>4. SettledKept
    BY <2>1, SameBets, QuietKeepsSettled DEF TypeInv
  <2> QED
    BY <1>0, <1>14, <2>1, <2>3, <2>4, OneResolverStays DEF Due, AtBet, Settles
<1> QED
  BY <1>3, <1>4, <1>5, <1>6, <1>7, <1>8, <1>9, <1>10, <1>11, <1>12,
     <1>15, <1>16, <1>17 DEF ResolveSteps

LEMMA InitOneResolver == Init => OneResolver
  BY ModelAssumption DEF Init, OneResolver, Resolving, Settles, AtBet, ResultMatchesOutcome, Procs

LEMMA NextOneResolver ==
    ASSUME ManualResolvers = {}
    PROVE  TypeInv /\ SettleInv /\ OneResolver /\ [Next]_vars => OneResolver'
<1> SUFFICES ASSUME TypeInv, SettleInv, OneResolver, [Next]_vars PROVE OneResolver'
  OBVIOUS
<1>0. TypeInv'
  BY NextType
<1>1. CASE UNCHANGED <<status, outcome, bets, pc, loc>>
  BY <1>1 DEF OneResolver, ResultMatchesOutcome, AtBet
<1>2. ASSUME NEW a \in Agents, RegisterAgent(a) \/ EnsureAgentStats(a) PROVE OneResolver'
  BY <1>1, <1>2 DEF RegisterAgent, EnsureAgentStats, ledger
<1>3. CASE Tick
  BY <1>1, <1>3 DEF Tick, ledger
<1>4. CASE UNCHANGED vars
  BY <1>1, <1>4 DEF vars, ledger
<1> QED
  BY <1>0, <1>2, <1>3, <1>4, BetKeepsOneResolver, ResolveKeepsOneResolver DEF Next

\* When only the scheduler resolves, whatever the interleaving with the bets: a
\* settled bet has the result its market's outcome gives it, and nobody but a winner is paid.
THEOREM OneResolverSettlesByOutcome ==
    ASSUME ManualResolvers = {}
    PROVE  Spec => []ResultMatchesOutcome
<1>1. Spec => [](TypeInv /\ SettleInv /\ OneResolver)
  BY InitType, NextType, InitSettle, NextSettle, InitOneResolver, NextOneResolver,
     PTL DEF Spec
<1>2. OneResolver => ResultMatchesOutcome
  BY DEF OneResolver
<1> QED
  BY <1>1, <1>2, PTL

\* Only ResolvePublish writes an outcome or a status.
LEMMA OnlyPublishDecides ==
    ASSUME [Next]_vars
    PROVE  \/ UNCHANGED <<outcome, status>>
           \/ \E t \in Procs : ResolvePublish(t)
<1>1. ASSUME NEW t \in Procs, PlaceBet(t) PROVE UNCHANGED <<outcome, status>>
  BY <1>1 DEF PlaceBet, PlaceBetCheck, PlaceBetAppend, PlaceBetPool, RecordAgentBetCount,
         RecordAgentBetVolume, ledger
<1>2. ASSUME NEW t \in Procs, ResolveCheck(t) \/ ResolveDueStart(t)
      PROVE  UNCHANGED <<outcome, status>>
  BY <1>2 DEF ResolveCheck, ResolveDueStart, ledger
<1>3. ASSUME NEW t \in Procs, ResolveSteps(t)
      PROVE  UNCHANGED <<outcome, status>> \/ ResolvePublish(t)
  BY <1>3 DEF ResolveSteps, ResolvePriceFails, CalculatePayout, WritePayout, SettlementDone,
         RecordNext, RecordAgentSettlement, RecordFails, ResolveFinish, ResolveDueSkip,
         ResolveDueCall, ledger
<1>4. ASSUME NEW a \in Agents, RegisterAgent(a) \/ EnsureAgentStats(a)
      PROVE  UNCHANGED <<outcome, status>>
  BY <1>4 DEF RegisterAgent, EnsureAgentStats, ledger
<1>5. CASE Tick \/ UNCHANGED vars
  BY <1>5 DEF Tick, ledger, vars
<1> QED
  BY <1>1, <1>2, <1>3, <1>4, <1>5 DEF Next

\* When only the scheduler resolves, a market's outcome is decided once.
THEOREM OneResolverDecidesOnce ==
    ASSUME ManualResolvers = {}
    PROVE  Spec => OutcomeFinal
<1> DEFINE Kept == \A m \in Markets : outcome[m] # None => /\ outcome'[m] = outcome[m]
                                                           /\ status'[m] = "resolved"
<1>1. TypeInv /\ OneResolver /\ [Next]_vars => [Kept]_vars
  <2> SUFFICES ASSUME TypeInv, OneResolver, [Next]_vars PROVE Kept
    OBVIOUS
  <2>1. ASSUME NEW m \in Markets, outcome[m] # None PROVE status[m] = "resolved"
    BY <2>1 DEF OneResolver, TypeInv, TypeOK
  <2>2. CASE UNCHANGED <<outcome, status>>
    BY <2>1, <2>2
  <2>3. ASSUME NEW t \in Procs, ResolvePublish(t) PROVE Kept
    <3>1. t = Scheduler
      BY <2>3 DEF ResolvePublish, OneResolver, Procs, Resolving
    <3>2. loc[t].m \in Markets
      BY <2>3 DEF ResolvePublish, TypeInv, LocalsOK, ThreadOK
    <3>3. outcome[loc[t].m] = None
      BY <2>3, <3>1, <3>2 DEF ResolvePublish, OneResolver
    <3>4. \A m \in Markets : m # loc[t].m => outcome'[m] = outcome[m] /\ status'[m] = status[m]
      BY <2>3 DEF ResolvePublish, TypeInv, TypeOK
    <3> QED
      BY <2>1, <3>3, <3>4
  <2> QED
    BY <2>2, <2>3, OnlyPublishDecides
<1>2. Spec => [](TypeInv /\ SettleInv /\ OneResolver)
  BY InitType, NextType, InitSettle, NextSettle, InitOneResolver, NextOneResolver,
     PTL DEF Spec
<1> QED
  BY <1>1, <1>2, PTL DEF Spec, OutcomeFinal

----------------------------------------------------------------------------
(* With one resolver every result is counted once, and counted right.        *)

\* A settled bet whose result the scheduler has still to record: all those of the market
\* it settles, then those from the index of its loop on.
Awaits(key) ==
    LET l == loc[Scheduler]
    IN  /\ key[1] = l.m
        /\ \/ pc[Scheduler] \in {"res_settle", "res_payout"}
           \/ pc[Scheduler] \in {"res_record", "res_stats"} /\ key[2] \in l.i..l.n

Counted(a) == {key \in SettledBets(a) : ~Awaits(key)}

\* The wins, losses and profit of the bets of K.
Won(K) == {key \in K : BetAt(key).status = "won"}
Lost(K) == K \ Won(K)
Gain == [key \in BetKeys |-> Net(BetAt(key).payout, BetAt(key).amount)]

Tallied(a, K) == /\ stats[a].wins = Cardinality(Won(K))
                 /\ stats[a].losses = Cardinality(Lost(K))
                 /\ stats[a].profit = SumFunctionOnSet(Gain, K)

\* The strengthening of ResultsCountedOnce and BookBalances: an agent's record is that of
\* some of its settled bets that do not wait (those recorded while it was registered).
CountInv ==
    \A a \in Agents : /\ IsFiniteSet(SettledBets(a))
                      /\ \E K \in SUBSET Counted(a) : Tallied(a, K)

\* Nobody's record changes.
ResultsKept ==
    \A a \in Agents : /\ stats'[a].wins = stats[a].wins
                      /\ stats'[a].losses = stats[a].losses
                      /\ stats'[a].profit = stats[a].profit

LEMMA SettledMember ==
    ASSUME NEW a, NEW key
    PROVE  key \in SettledBets(a) <=>
             \E m \in Markets : \E k \in DOMAIN bets[m] :
               /\ key = <<m, k>>
               /\ bets[m][k].bettor = a /\ bets[m][k].status # "locked"
  BY DEF SettledBets, BetKeys, BetAt

LEMMA SettledMemberNext ==
    ASSUME NEW a, NEW key
    PROVE  key \in SettledBets(a)' <=>
             \E m \in Markets : \E k \in DOMAIN bets'[m] :
               /\ key = <<m, k>>
               /\ bets'[m][k].bettor = a /\ bets'[m][k].status # "locked"
  BY DEF SettledBets, BetKeys, BetAt

LEMMA SettledKeptSet ==
    ASSUME SettledKept, NEW a
    PROVE  SettledBets(a)' = SettledBets(a)
<1>1. \A key : key \in SettledBets(a)' => key \in SettledBets(a)
  BY SettledMember, SettledMemberNext DEF SettledKept
<1>2. \A key : key \in SettledBets(a) => key \in SettledBets(a)'
  BY SettledMember, SettledMemberNext DEF SettledKept
<1> QED
  BY <1>1, <1>2

\* The bets of K are on the book after the step, with the same result and payout.
BetsStay(K) ==
    \A key \in K : /\ key \in BetKeys /\ key \in BetKeys'
                   /\ BetAt(key)'.status = BetAt(key).status
                   /\ BetAt(key)'.payout = BetAt(key).payout
                   /\ BetAt(key)'.amount = BetAt(key).amount

LEMMA SettledStay ==
    ASSUME SettledKept, NEW a, NEW K \in SUBSET SettledBets(a)
    PROVE  BetsStay(K)
<1> SUFFICES ASSUME NEW key \in SettledBets(a)
             PROVE  /\ key \in BetKeys /\ key \in BetKeys'
                    /\ BetAt(key)'.status = BetAt(key).status
                    /\ BetAt(key)'.payout = BetAt(key).payout
                    /\ BetAt(key)'.amount = BetAt(key).amount
  BY DEF BetsStay
<1>1. PICK m \in Markets : \E k \in DOMAIN bets[m] :
          key = <<m, k>> /\ bets[m][k].status # "locked"
  BY SettledMember
<1>2. PICK k \in DOMAIN bets[m] : key = <<m, k>> /\ bets[m][k].status # "locked"
  BY <1>1
<1>3. /\ k \in DOMAIN bets'[m]
      /\ bets'[m][k].status = bets[m][k].status
      /\ bets'[m][k].payout = bets[m][k].payout
      /\ bets'[m][k].amount = bets[m][k].amount
  BY <1>2 DEF SettledKept
<1> QED
  BY <1>2, <1>3 DEF BetKeys, BetAt

\* What the bets of K tally to is not changed by what happens to other bets.
LEMMA TallyStays ==
    ASSUME NEW K, IsFiniteSet(K), BetsStay(K)
    PROVE  /\ Won(K)' = Won(K) /\ Lost(K)' = Lost(K)
           /\ SumFunctionOnSet(Gain, K)' = SumFunctionOnSet(Gain, K)
<1>1. Won(K)' = Won(K) /\ Lost(K)' = Lost(K)
  BY DEF Won, Lost, BetsStay
<1>2. \A key \in K : Gain'[key] = Gain[key]
  BY DEF Gain, BetsStay
<1>3. SumFunctionOnSet(Gain', K) = SumFunctionOnSet(Gain, K)
  BY <1>2, SumSame
<1> QED
  BY <1>1, <1>3

\* A step that disturbs no bet that is counted, counts nothing and lets no more bets wait.
LEMMA CountStays ==
    ASSUME CountInv, ResultsKept, NEW a \in Agents, BetsStay(Counted(a)),
           Counted(a) \subseteq Counted(a)'
    PROVE  \E K \in SUBSET (Counted(a)') : Tallied(a, K)'
<1>1. PICK K \in SUBSET Counted(a) : Tallied(a, K)
  BY DEF CountInv
<1>2. IsFiniteSet(K)
  BY FS_Subset DEF CountInv, Counted
<1>3. /\ Won(K)' = Won(K) /\ Lost(K)' = Lost(K)
      /\ SumFunctionOnSet(Gain, K)' = SumFunctionOnSet(Gain, K)
  BY <1>2, TallyStays DEF BetsStay
<1>4. Tallied(a, K)'
  BY <1>1, <1>3 DEF Tallied, ResultsKept
<1> QED
  BY <1>4

\* A step that settles nothing, counts nothing and lets the same bets wait.
LEMMA QuietKeepsCount ==
    ASSUME CountInv, SettledKept, ResultsKept,
           \A a \in Agents : \A key \in SettledBets(a) : Awaits(key)' <=> Awaits(key)
    PROVE  CountInv'
<1> SUFFICES ASSUME NEW a \in Agents
             PROVE  /\ IsFiniteSet(SettledBets(a)')
                    /\ \E K \in SUBSET (Counted(a)') : Tallied(a, K)'
  BY DEF CountInv
<1>1. SettledBets(a)' = SettledBets(a)
  BY SettledKeptSet
<1>2. Counted(a)' = Counted(a) /\ Counted(a) \subseteq SettledBets(a)
  BY <1>1 DEF Counted
<1>3. BetsStay(Counted(a))
  BY <1>2, SettledStay
<1> QED
  BY <1>1, <1>2, <1>3, CountStays DEF CountInv

\* place_bet neither resolves nor counts a result.
LEMMA BetKeepsCount ==
    ASSUME TypeInv, TypeInv', CountInv, NEW t \in Procs, PlaceBet(t)
    PROVE  CountInv'
<1> USE DEF TypeInv
<1>1. SettledKept
  BY BetKeepsSettled
<1>2. OnlyMoves(t) /\ pc'[t] \notin Resolving
  BY BetStaysAside
<1>3. pc[t] \notin Resolving
  BY DEF PlaceBet, PlaceBetCheck, PlaceBetAppend, PlaceBetPool, RecordAgentBetCount,
         RecordAgentBetVolume, Resolving, Settles
<1>4. ResultsKept
  <2>1. CASE PlaceBetCheck(t) \/ PlaceBetAppend(t) \/ PlaceBetPool(t)
    <3>1. stats' = stats
      BY <2>1 DEF PlaceBetCheck, PlaceBetAppend, PlaceBetPool
    <3> QED
      BY <3>1 DEF ResultsKept
  <2>2. \A a \in Agents : stats[a] \in StatsRecord
    BY DEF TypeOK
  <2>3. ASSUME NEW b, NEW x, stats' = [stats EXCEPT ![b] = [stats[b] EXCEPT !.total_bets = x]]
        PROVE  ResultsKept
    BY <2>2, <2>3 DEF ResultsKept, TypeOK, StatsRecord
  <2>4. ASSUME NEW b, NEW x, stats' = [stats EXCEPT ![b] = [stats[b] EXCEPT !.volume = x]]
        PROVE  ResultsKept
    BY <2>2, <2>4 DEF ResultsKept, TypeOK, StatsRecord
  <2>5. CASE RecordAgentBetCount(t)
    <3>1. CASE stats' = stats
      BY <3>1 DEF ResultsKept
    <3> QED
      BY <2>3, <2>5, <3>1 DEF RecordAgentBetCount
  <2>6. CASE RecordAgentBetVolume(t)
    BY <2>4, <2>6 DEF RecordAgentBetVolume
  <2> QED
    BY <2>1, <2>5, <2>6 DEF PlaceBet
<1>5. ASSUME NEW key PROVE Awaits(key)' <=> Awaits(key)
  <2>1. CASE t = Scheduler
    BY <1>2, <1>3, <2>1 DEF Awaits, Resolving, Settles
  <2>2. CASE t # Scheduler
    BY <1>2, <2>2 DEF Awaits, OnlyMoves, Procs
  <2> QED
    BY <2>1, <2>2
<1> QED
  BY <1>1, <1>4, <1>5, QuietKeepsCount

\* The scheduler's steps outside the settlement of a market let no bet wait.
LEMMA OutsideKeepsCount ==
    ASSUME TypeInv, TypeInv', CountInv, bets' = bets, stats' = stats,
           \A key : ~Awaits(key), \A key : ~Awaits(key)'
    PROVE  CountInv'
<1>1. SettledKept
  BY SameBets, QuietKeepsSettled DEF TypeInv
<1> QED
  BY <1>1, QuietKeepsCount DEF ResultsKept

\* When the outcome is published none of the market's bets has been settled.
LEMMA PublishKeepsCount ==
    ASSUME TypeInv, TypeInv', SettleInv, OneResolver, CountInv, ResolvePublish(Scheduler)
    PROVE  CountInv'
<1> DEFINE t == Scheduler
           l == loc[t]
<1>0. t \in Procs
  BY DEF Procs
<1>1. l \in Locals /\ ThreadOK(pc[t], l, bets) /\ pc[t] = "res_price"
  BY <1>0 DEF TypeInv, TypeOK, LocalsOK, ResolvePublish
<1>2. status[l.m] = "open"
  BY <1>1 DEF OneResolver
<1>3. bets' = bets /\ stats' = stats
  BY DEF ResolvePublish
<1>4. \E r : Goto(t, "res_settle", r) /\ r.m = l.m
  <2>1. PICK o, w, x : Goto(t, "res_settle", [l EXCEPT !.outcome = o, !.win = w, !.lose = x, !.i = 1])
    BY DEF ResolvePublish
  <2>2. [l EXCEPT !.outcome = o, !.win = w, !.lose = x, !.i = 1].m = l.m
    BY <1>1 DEF Locals
  <2> QED
    BY <2>1, <2>2
<1>5. pc'[t] = "res_settle" /\ loc'[t].m = l.m
  BY <1>0, <1>4, GotoMoves DEF TypeInv
<1>6. ASSUME NEW a \in Agents, NEW key \in SettledBets(a) PROVE Awaits(key)' <=> Awaits(key)
  <2>1. PICK m \in Markets : \E k \in DOMAIN bets[m] :
          key = <<m, k>> /\ bets[m][k].bettor = a /\ bets[m][k].status # "locked"
    BY <1>6, SettledMember
  <2>2. status[m] = "resolved"
    BY <2>1 DEF SettleInv, SettledOnlyIfResolved
  <2>3. key[1] # l.m
    BY <1>2, <2>1, <2>2
  <2> QED
    BY <1>5, <2>3 DEF Awaits
<1>7. SettledKept
  BY <1>3, SameBets, QuietKeepsSettled DEF TypeInv
<1> QED
  BY <1>3, <1>6, <1>7, QuietKeepsCount DEF ResultsKept

\* A bet that _calculate_payouts settles or pays is one of those that wait.
LEMMA PayoutKeepsCount ==
    ASSUME TypeInv, CountInv, CalculatePayout(Scheduler) \/ WritePayout(Scheduler)
    PROVE  CountInv'
<1> DEFINE t == Scheduler
           l == loc[t]
<1>0. t \in Procs
  BY DEF Procs
<1>1. l \in Locals /\ pc[t] \in {"res_settle", "res_payout"}
  BY <1>0, LoopPlace
<1>2. /\ OnlyBet(l.m, l.i) /\ stats' = stats
      /\ \/ Goto(t, "res_settle", [l EXCEPT !.i = l.i + 1])
         \/ Goto(t, "res_payout", l)
  BY <1>0, CalculateEffect, PayoutEffect
<1>3. pc'[t] \in {"res_settle", "res_payout"} /\ loc'[t].m = l.m
  <2> DEFINE r == [l EXCEPT !.i = l.i + 1]
  <2>1. r.m = l.m
    BY <1>1 DEF Locals
  <2> HIDE DEF r
  <2>2. Goto(t, "res_settle", r) \/ Goto(t, "res_payout", l)
    BY <1>2 DEF r
  <2> QED
    BY <1>0, <2>1, <2>2, GotoMoves DEF TypeInv
<1>4. \A key : /\ Awaits(key) <=> key[1] = l.m
               /\ Awaits(key)' <=> key[1] = l.m
  BY <1>1, <1>3 DEF Awaits
<1> SUFFICES ASSUME NEW a \in Agents
             PROVE  /\ IsFiniteSet(SettledBets(a)')
                    /\ \E K \in SUBSET (Counted(a)') : Tallied(a, K)'
  BY DEF CountInv
<1>5. ASSUME NEW key, key # <<l.m, l.i>> PROVE key \in SettledBets(a)' <=> key \in SettledBets(a)
  BY <1>2, <1>5, SettledMember, SettledMemberNext DEF OnlyBet
<1>6. IsFiniteSet(SettledBets(a)')
  <2>1. IsFiniteSet(SettledBets(a) \cup {<<l.m, l.i>>})
    BY FS_AddElement DEF CountInv
  <2>2. SettledBets(a)' \subseteq SettledBets(a) \cup {<<l.m, l.i>>}
    BY <1>5
  <2> QED
    BY <2>1, <2>2, FS_Subset
<1>7. Counted(a)' = Counted(a)
  <2>1. <<l.m, l.i>>[1] = l.m
    OBVIOUS
  <2>2. \A key : key \in Counted(a)' <=> key \in SettledBets(a)' /\ key[1] # l.m
    BY <1>4 DEF Counted
  <2>3. \A key : key \in Counted(a) <=> key \in SettledBets(a) /\ key[1] # l.m
    BY <1>4 DEF Counted
  <2> QED
    BY <1>5, <2>1, <2>2, <2>3
<1>8. BetsStay(Counted(a))
  <2> SUFFICES ASSUME NEW key \in Counted(a)
               PROVE  key \in BetKeys /\ key \in BetKeys' /\ BetAt(key)' = BetAt(key)
    BY DEF BetsStay
  <2>1. key \in SettledBets(a) /\ key[1] # l.m
    BY <1>4 DEF Counted
  <2>2. PICK m \in Markets : \E k \in DOMAIN bets[m] : key = <<m, k>>
    BY <2>1, SettledMember
  <2>3. PICK k \in DOMAIN bets[m] : key = <<m, k>>
    BY <2>2
  <2>4. m # l.m
    BY <2>1, <2>3
  <2>5. k \in DOMAIN bets'[m] /\ bets'[m][k] = bets[m][k]
    BY <1>2, <2>2, <2>3, <2>4 DEF OnlyBet
  <2> QED
    BY <2>3, <2>5 DEF BetKeys, BetAt
<1> QED
  BY <1>2, <1>6, <1>7, <1>8, CountStays DEF ResultsKept

\* The settlement holds every bet of the list.
LEMMA DoneKeepsCount ==
    ASSUME TypeInv, TypeInv', CountInv, SettlementDone(Scheduler)
    PROVE  CountInv'
<1> DEFINE t == Scheduler
           l == loc[t]
           r == [l EXCEPT !.n = l.i - 1, !.i = 1]
<1>0. t \in Procs
  BY DEF Procs
<1>1. l \in Locals /\ ThreadOK(pc[t], l, bets) /\ pc[t] = "res_settle" /\ l.i > Len(bets[l.m])
  BY <1>0 DEF TypeInv, TypeOK, LocalsOK, SettlementDone
<1>2. bets' = bets /\ stats' = stats /\ Goto(t, "res_record", r)
  BY DEF SettlementDone, ledger
<1>3. r.m = l.m /\ r.i = 1 /\ r.n = l.i - 1
  BY <1>1 DEF Locals
<1> HIDE DEF r
<1>4. pc'[t] = "res_record" /\ loc'[t] = r
  BY <1>0, <1>2, GotoMoves DEF TypeInv
<1>5. l.m \in Markets /\ Len(bets[l.m]) \in Nat /\ l.i = Len(bets[l.m]) + 1
  <2>1. l.m \in Markets /\ l.i \in Nat /\ l.i <= Len(bets[l.m]) + 1
    BY <1>1 DEF ThreadOK, Locals
  <2>2. Len(bets[l.m]) \in Nat
    BY <2>1, DomainIsInterval DEF TypeInv
  <2> QED
    BY <1>1, <2>1, <2>2
<1>6. ASSUME NEW a \in Agents, NEW key \in SettledBets(a) PROVE Awaits(key)' <=> Awaits(key)
  <2>1. PICK m \in Markets : \E k \in DOMAIN bets[m] : key = <<m, k>>
    BY <1>6, SettledMember
  <2>2. PICK k \in DOMAIN bets[m] : key = <<m, k>>
    BY <2>1
  <2>3. m = l.m => 1 <= k /\ k <= l.i - 1
    BY <1>5, <2>2, DomainIsInterval DEF TypeInv
  <2>4. key[1] = m /\ key[2] = k
    BY <2>2
  <2> QED
    BY <1>1, <1>3, <1>4, <2>3, <2>4 DEF Awaits
<1>7. SettledKept
  BY <1>2, SameBets, QuietKeepsSettled DEF TypeInv
<1> QED
  BY <1>2, <1>6, <1>7, QuietKeepsCount DEF ResultsKept

\* One more bet in the tally.
LEMMA TallyAdds ==
    ASSUME TypeOK, NEW a, NEW K \in SUBSET SettledBets(a), IsFiniteSet(K),
           NEW key \in SettledBets(a), key \notin K,
           NEW L, L = K \cup {key}
    PROVE  /\ BetAt(key).status = "won" =>
                 /\ Cardinality(Won(L)) = Cardinality(Won(K)) + 1
                 /\ Cardinality(Lost(L)) = Cardinality(Lost(K))
           /\ BetAt(key).status # "won" =>
                 /\ Cardinality(Won(L)) = Cardinality(Won(K))
                 /\ Cardinality(Lost(L)) = Cardinality(Lost(K)) + 1
           /\ SumFunctionOnSet(Gain, L)
                = SumFunctionOnSet(Gain, K) + Net(BetAt(key).payout, BetAt(key).amount)
<1>1. /\ IsFiniteSet(Won(K)) /\ IsFiniteSet(Lost(K))
      /\ Cardinality(Won(K)) \in Nat /\ Cardinality(Lost(K)) \in Nat
  <2>1. IsFiniteSet(Won(K)) /\ IsFiniteSet(Lost(K))
    BY FS_Subset DEF Won, Lost
  <2> QED
    BY <2>1, FS_CardinalityType
<1>2. ASSUME NEW x \in SettledBets(a) PROVE x \in BetKeys /\ BetAt(x) \in BetRecord
  <2>1. PICK m \in Markets : \E k \in DOMAIN bets[m] : x = <<m, k>>
    BY SettledMember
  <2>2. PICK k \in DOMAIN bets[m] : x = <<m, k>>
    BY <2>1
  <2>3. bets[m][k] \in BetRecord
    BY <2>2, DomainIsInterval
  <2> QED
    BY <2>2, <2>3 DEF BetKeys, BetAt
<1>3. \A x \in SettledBets(a) : /\ Gain[x] = Net(BetAt(x).payout, BetAt(x).amount)
                               /\ Gain[x] \in Int
  <2>1. \A x \in SettledBets(a) : Gain[x] = Net(BetAt(x).payout, BetAt(x).amount)
    BY <1>2 DEF Gain
  <2>2. \A x \in SettledBets(a) : BetAt(x).payout \in Nat /\ BetAt(x).amount \in Nat
    BY <1>2 DEF BetRecord
  <2> QED
    BY <2>1, <2>2, NetInt
<1>4. SumFunctionOnSet(Gain, L) = SumFunctionOnSet(Gain, K) + Gain[key]
  BY <1>3, SumAdd
<1>6. SumFunctionOnSet(Gain, L)
        = SumFunctionOnSet(Gain, K) + Net(BetAt(key).payout, BetAt(key).amount)
  BY <1>3, <1>4
<1>7. CASE BetAt(key).status = "won"
  <2>1. Won(L) = Won(K) \cup {key} /\ Lost(L) = Lost(K) /\ key \notin Won(K)
    BY <1>7 DEF Won, Lost
  <2>2. Cardinality(Won(K) \cup {key}) = Cardinality(Won(K)) + 1
    BY <1>1, <2>1, FS_AddElement
  <2>3. /\ Cardinality(Won(L)) = Cardinality(Won(K)) + 1
        /\ Cardinality(Lost(L)) = Cardinality(Lost(K))
    BY <2>1, <2>2, Zenon
  <2> QED
    BY <1>1, <1>6, <1>7, <2>3
<1>8. CASE BetAt(key).status # "won"
  <2>1. Won(L) = Won(K) /\ Lost(L) = Lost(K) \cup {key} /\ key \notin Lost(K)
    BY <1>8 DEF Won, Lost
  <2>2. Cardinality(Lost(K) \cup {key}) = Cardinality(Lost(K)) + 1
    BY <1>1, <2>1, FS_AddElement
  <2>3. /\ Cardinality(Won(L)) = Cardinality(Won(K))
        /\ Cardinality(Lost(L)) = Cardinality(Lost(K)) + 1
    BY <2>1, <2>2, Zenon
  <2> QED
    BY <1>1, <1>6, <1>8, <2>3
<1> QED
  BY <1>7, <1>8

\* The loop passes over a human's bet, which nobody's record counts, or calls
\* record_agent_settlement, which counts the bet afterwards.
LEMMA NextBetKeepsCount ==
    ASSUME TypeInv, TypeInv', CountInv, RecordNext(Scheduler)
    PROVE  CountInv'
<1> DEFINE t == Scheduler
           l == loc[t]
           q == [l EXCEPT !.pay = bets[l.m][l.i].payout]
           r == [l EXCEPT !.i = l.i + 1]
<1>0. t \in Procs
  BY DEF Procs
<1>1. /\ l \in Locals /\ pc[t] = "res_record" /\ l.i \in Nat /\ l.n \in Nat
  BY <1>0 DEF TypeInv, TypeOK, RecordNext, Locals
<1>2. /\ bets' = bets /\ stats' = stats
      /\ \/ Goto(t, "res_record", r) /\ bets[l.m][l.i].bettor = Human
         \/ Goto(t, "res_stats", q)
  BY DEF RecordNext, ledger
<1>3. /\ r.m = l.m /\ r.i = l.i + 1 /\ r.n = l.n
      /\ q.m = l.m /\ q.i = l.i /\ q.n = l.n
  BY <1>1 DEF Locals
<1> HIDE DEF q, r
<1>4. \/ pc'[t] = "res_record" /\ loc'[t] = r /\ bets[l.m][l.i].bettor = Human
      \/ pc'[t] = "res_stats" /\ loc'[t] = q
  BY <1>0, <1>2, GotoMoves DEF TypeInv
<1>5. ASSUME NEW a \in Agents, NEW key \in SettledBets(a) PROVE Awaits(key)' <=> Awaits(key)
  <2>1. PICK m \in Markets : \E k \in DOMAIN bets[m] : key = <<m, k>> /\ bets[m][k].bettor = a
    BY <1>5, SettledMember
  <2>2. PICK k \in DOMAIN bets[m] : key = <<m, k>> /\ bets[m][k].bettor = a
    BY <2>1
  <2>3. k \in Nat /\ key[1] = m /\ key[2] = k
    BY <2>2, DomainIsInterval DEF TypeInv
  <2>4. CASE pc'[t] = "res_stats" /\ loc'[t] = q
    BY <1>1, <1>3, <2>4 DEF Awaits
  <2>5. CASE pc'[t] = "res_record" /\ loc'[t] = r /\ bets[l.m][l.i].bettor = Human
    <3>1. ~(m = l.m /\ k = l.i)
      BY <2>2, <2>5, ModelAssumption
    <3> QED
      BY <1>1, <1>3, <2>3, <2>5, <3>1 DEF Awaits
  <2> QED
    BY <1>4, <2>4, <2>5
<1>6. SettledKept
  BY <1>2, SameBets, QuietKeepsSettled DEF TypeInv
<1> QED
  BY <1>2, <1>5, <1>6, QuietKeepsCount DEF ResultsKept

\* A settlement that fails counts nothing any more.
LEMMA FailureKeepsCount ==
    ASSUME TypeInv, TypeInv', CountInv, RecordFails(Scheduler)
    PROVE  CountInv'
<1>1. bets' = bets /\ stats' = stats /\ Goto(Scheduler, "idle", NoLocals)
  BY DEF RecordFails, Return, ledger
<1>2. \A key : ~Awaits(key)'
  BY <1>1, GotoMoves DEF Awaits, TypeInv, Procs
<1>3. SettledKept
  BY <1>1, SameBets, QuietKeepsSettled DEF TypeInv
<1> SUFFICES ASSUME NEW a \in Agents
             PROVE  /\ IsFiniteSet(SettledBets(a)')
                    /\ \E K \in SUBSET (Counted(a)') : Tallied(a, K)'
  BY DEF CountInv
<1>4. SettledBets(a)' = SettledBets(a)
  BY <1>3, SettledKeptSet
<1>5. Counted(a) \subseteq Counted(a)' /\ Counted(a) \subseteq SettledBets(a)
  BY <1>2, <1>4 DEF Counted
<1>6. BetsStay(Counted(a))
  BY <1>3, <1>5, SettledStay
<1> QED
  BY <1>1, <1>4, <1>5, <1>6, CountStays DEF CountInv, ResultsKept

\* record_agent_settlement: the bet at the loop's index stops waiting, and its result is
\* counted for an agent that is registered.
LEMMA RecordKeepsCount ==
    ASSUME TypeInv, TypeInv', SettleInv, OneResolver, CountInv, RecordAgentSettlement(Scheduler)
    PROVE  CountInv'
<1> DEFINE t == Scheduler
           l == loc[t]
           r == [l EXCEPT !.i = l.i + 1]
           bet == bets[l.m][l.i]
           winner == bet.bettor
           won == bet.status = "won"
<1>0. t \in Procs
  BY DEF Procs
<1>1. /\ l \in Locals /\ ThreadOK(pc[t], l, bets) /\ pc[t] = "res_stats"
      /\ l.i \in Nat /\ l.n \in Nat /\ l.i <= l.n /\ l.m \in Markets
      /\ l.i >= 1 /\ l.n <= Len(bets[l.m])
  BY <1>0 DEF TypeInv, TypeOK, LocalsOK, RecordAgentSettlement, Locals, ThreadOK
<1>2. l.i \in DOMAIN bets[l.m] /\ l.i \in 1..Len(bets[l.m])
  BY <1>1, DomainIsInterval DEF TypeInv
<1>3. r.m = l.m /\ r.i = l.i + 1 /\ r.n = l.n
  BY <1>1 DEF Locals
<1>4. /\ Goto(t, "res_record", r)
      /\ IF winner \in registered
         THEN stats' = [stats EXCEPT ![winner] =
                          WithResult(stats[winner], bet, l.pay, bet.side = l.outcome)]
         ELSE stats' = stats
      /\ bets' = bets \/ bets' = [bets EXCEPT ![l.m] = [bets[l.m] EXCEPT
                                       ![l.i] = [bets[l.m][l.i] EXCEPT !.hist = "resolved"]]]
  BY DEF RecordAgentSettlement
<1> HIDE DEF r
<1>5. pc'[t] = "res_record" /\ loc'[t] = r
  BY <1>0, <1>4, GotoMoves DEF TypeInv
<1>6. SettledKept
  <2> DEFINE closed == [bet EXCEPT !.hist = "resolved"]
  <2>1. bet \in BetRecord
    BY <1>1, <1>2, DomainIsInterval DEF TypeInv
  <2>2. closed \in BetRecord
    BY <2>1 DEF BetRecord
  <2>3. CASE bets' = bets
    BY <2>3, SameBets, QuietKeepsSettled DEF TypeInv
  <2>4. CASE bets' = [bets EXCEPT ![l.m] = [bets[l.m] EXCEPT ![l.i] = closed]]
    <3> HIDE DEF l
    <3> QED
      BY <1>1, <1>2, <2>2, <2>4, HistoryKeepsStatuses, QuietKeepsSettled DEF TypeInv
  <2> QED
    BY <1>4, <2>3, <2>4
<1>7. bet.status # "locked"
  <2>1. l.i \in 1..l.n
    BY <1>1
  <2> QED
    BY <1>0, <1>1, <2>1 DEF SettleInv, SettlerOK, Behind, Settles
<1> PICK now_counted : now_counted = <<l.m, l.i>>
  OBVIOUS
<1>8. ASSUME NEW a \in Agents
      PROVE  /\ a = winner => Counted(a)' = Counted(a) \cup {now_counted}
             /\ a # winner => Counted(a)' = Counted(a)
             /\ now_counted \notin Counted(a)
  <2>1. SettledBets(a)' = SettledBets(a)
    BY <1>6, SettledKeptSet
  <2>2. Awaits(now_counted) /\ ~Awaits(now_counted)'
    <3>1. now_counted[1] = l.m /\ now_counted[2] = l.i
      OBVIOUS
    <3> QED
      BY <1>1, <1>3, <1>5, <3>1 DEF Awaits
  <2>3. now_counted \in SettledBets(a) <=> a = winner
    BY <1>1, <1>2, <1>7, SettledMember
  <2>4. ASSUME NEW key \in SettledBets(a), key # now_counted PROVE Awaits(key)' <=> Awaits(key)
    <3>0. PICK m \in Markets : \E k \in DOMAIN bets[m] : key = <<m, k>>
      BY <2>4, SettledMember
    <3>1. PICK k \in DOMAIN bets[m] : key = <<m, k>>
      BY <3>0
    <3>2. k \in Nat /\ key[1] = m /\ key[2] = k
      BY <3>1, DomainIsInterval DEF TypeInv
    <3>3. m = l.m => k # l.i
      BY <2>4, <3>1
    <3> QED
      BY <1>1, <1>3, <1>5, <3>2, <3>3 DEF Awaits
  <2> HIDE DEF winner
  <2>5. \A key : key \in Counted(a) <=> key \in SettledBets(a) /\ ~Awaits(key)
    BY DEF Counted
  <2>6. \A key : key \in Counted(a)' <=> key \in SettledBets(a) /\ ~Awaits(key)'
    BY <2>1 DEF Counted
  <2> QED
    BY <2>2, <2>3, <2>4, <2>5, <2>6
<1> SUFFICES ASSUME NEW a \in Agents
             PROVE  /\ IsFiniteSet(SettledBets(a)')
                    /\ \E K \in SUBSET (Counted(a)') : Tallied(a, K)'
  BY DEF CountInv
<1>9. IsFiniteSet(SettledBets(a)')
  BY <1>6, SettledKeptSet DEF CountInv
<1>10. PICK K \in SUBSET Counted(a) : Tallied(a, K)
  BY DEF CountInv
<1>11. IsFiniteSet(K) /\ K \subseteq SettledBets(a)
  BY FS_Subset DEF Counted, CountInv
<1>12. CASE a = winner /\ winner \in registered
  <2> PICK L : L = K \cup {now_counted}
    OBVIOUS
  <2>1. now_counted \in SettledBets(a) /\ now_counted \notin K
    <3>1. now_counted \in SettledBets(a)
      BY <1>1, <1>2, <1>7, <1>12, SettledMember
    <3>2. now_counted \notin Counted(a)
      BY <1>8
    <3> QED
      BY <3>1, <3>2
  <2>2. L \subseteq Counted(a)' /\ L \subseteq SettledBets(a) /\ IsFiniteSet(L)
    <3>1. Counted(a)' = Counted(a) \cup {now_counted}
      BY <1>8, <1>12
    <3>2. IsFiniteSet(L)
      BY <1>11, FS_AddElement
    <3> QED
      BY <1>11, <2>1, <3>1, <3>2
  <2>3. BetAt(now_counted) = bet
    BY DEF BetAt
  <2>4. bet \in BetRecord /\ stats[a] \in StatsRecord
    BY <1>1, <1>2, DomainIsInterval DEF TypeInv, TypeOK
  <2>5. won <=> bet.side = l.outcome
    <3>1. outcome[l.m] = l.outcome
      BY <1>1 DEF OneResolver, Settles
    <3> QED
      BY <1>1, <1>2, <1>7, <3>1 DEF OneResolver, ResultMatchesOutcome
  <2>6. stats'[a] = WithResult(stats[a], bet, bet.payout, bet.side = l.outcome)
    <3>1. l.pay = bet.payout
      BY <1>1 DEF OneResolver, AtBet
    <3>2. PICK x : x = WithResult(stats[a], bet, l.pay, bet.side = l.outcome)
      OBVIOUS
    <3>3. stats' = [stats EXCEPT ![a] = x]
      BY <1>4, <1>12, <3>2
    <3>4. stats'[a] = x
      BY <3>3 DEF TypeInv, TypeOK
    <3> QED
      BY <3>1, <3>2, <3>4
  <2> HIDE DEF bet, l, winner
  <2>7. /\ stats'[a].wins = stats[a].wins + (IF won THEN 1 ELSE 0)
        /\ stats'[a].losses = stats[a].losses + (IF won THEN 0 ELSE 1)
        /\ stats'[a].profit = stats[a].profit + Net(bet.payout, bet.amount)
    BY <2>4, <2>5, <2>6 DEF WithResult, StatsRecord
  <2>8. /\ won => /\ Cardinality(Won(L)) = Cardinality(Won(K)) + 1
                  /\ Cardinality(Lost(L)) = Cardinality(Lost(K))
        /\ ~won => /\ Cardinality(Won(L)) = Cardinality(Won(K))
                   /\ Cardinality(Lost(L)) = Cardinality(Lost(K)) + 1
        /\ SumFunctionOnSet(Gain, L) = SumFunctionOnSet(Gain, K) + Net(bet.payout, bet.amount)
    <3>1. TypeOK /\ K \in SUBSET SettledBets(a)
      BY <1>11 DEF TypeInv
    <3>2. K \in SUBSET SettledBets(a) /\ IsFiniteSet(K)
      BY <1>11, <3>1
    <3>3. now_counted \in SettledBets(a) /\ now_counted \notin K
      BY <2>1
    <3>4. /\ bet.status = "won" => /\ Cardinality(Won(L)) = Cardinality(Won(K)) + 1
                                   /\ Cardinality(Lost(L)) = Cardinality(Lost(K))
          /\ bet.status # "won" => /\ Cardinality(Won(L)) = Cardinality(Won(K))
                                   /\ Cardinality(Lost(L)) = Cardinality(Lost(K)) + 1
      BY <2>3, <3>1, <3>2, <3>3, TallyAdds
    <3>5. SumFunctionOnSet(Gain, L) = SumFunctionOnSet(Gain, K) + Net(bet.payout, bet.amount)
      BY <2>3, <3>1, <3>2, <3>3, TallyAdds
    <3> QED
      BY <3>4, <3>5
  <2>9. /\ Won(L)' = Won(L) /\ Lost(L)' = Lost(L)
        /\ SumFunctionOnSet(Gain, L)' = SumFunctionOnSet(Gain, L)
    BY <1>6, <2>2, SettledStay, TallyStays
  <2>10. Tallied(a, L)'
    <3>1. /\ stats[a].wins = Cardinality(Won(K)) /\ stats[a].losses = Cardinality(Lost(K))
          /\ stats[a].profit = SumFunctionOnSet(Gain, K)
      BY <1>10 DEF Tallied
    <3>2. /\ stats[a].wins \in Int /\ stats[a].losses \in Int /\ stats[a].profit \in Int
      BY <2>4 DEF StatsRecord
    <3>3. /\ stats'[a].wins = Cardinality(Won(L)) /\ stats'[a].losses = Cardinality(Lost(L))
          /\ stats'[a].profit = SumFunctionOnSet(Gain, L)
      BY <2>7, <2>8, <3>1, <3>2
    <3>4. /\ Cardinality(Won(L)') = Cardinality(Won(L))
          /\ Cardinality(Lost(L)') = Cardinality(Lost(L))
      BY <2>9, Zenon
    <3> QED
      BY <2>9, <3>3, <3>4 DEF Tallied
  <2> QED
    BY <1>9, <2>2, <2>10
<1>13. CASE ~(a = winner /\ winner \in registered)
  <2>1. stats'[a] = stats[a]
    BY <1>4, <1>13 DEF TypeInv, TypeOK
  <2>2. K \subseteq Counted(a)'
    BY <1>8
  <2>3. /\ Won(K)' = Won(K) /\ Lost(K)' = Lost(K)
        /\ SumFunctionOnSet(Gain, K)' = SumFunctionOnSet(Gain, K)
    BY <1>6, <1>11, SettledStay, TallyStays
  <2>4. Tallied(a, K)'
    BY <1>10, <2>1, <2>3 DEF Tallied
  <2> QED
    BY <1>9, <2>2, <2>4
<1> QED
  BY <1>12, <1>13

LEMMA ResolveKeepsCount ==
    ASSUME ManualResolvers = {}, TypeInv, TypeInv', SettleInv, OneResolver, CountInv,
           NEW t \in Procs, ResolveCheck(t) \/ ResolveDueStart(t) \/ ResolveSteps(t)
    PROVE  CountInv'
<1>0. t = Scheduler
  BY OnlySchedulerResolves
<1>1. ASSUME bets' = bets, stats' = stats, \A key : ~Awaits(key),
             (\E r : Goto(t, "idle", r)) \/ (\E r : Goto(t, "due_next", r))
                \/ (\E r : Goto(t, "res_price", r))
      PROVE  CountInv'
  <2>1. pc'[Scheduler] \in {"idle", "due_next", "res_price"}
    BY <1>0, <1>1, GotoMoves DEF TypeInv
  <2>2. \A key : ~Awaits(key)'
    BY <2>1 DEF Awaits
  <2> QED
    BY <1>1, <2>2, OutsideKeepsCount
<1>2. CASE ResolveCheck(t)
  BY <1>0, <1>2, ModelAssumption DEF ResolveCheck
<1>3. CASE ResolveDueStart(t)
  BY <1>0, <1>1, <1>3 DEF ResolveDueStart, ledger, Awaits
<1>4. CASE ResolvePublish(t)
  BY <1>0, <1>4, PublishKeepsCount
<1>5. CASE ResolvePriceFails(t)
  BY <1>0, <1>1, <1>5 DEF ResolvePriceFails, Return, ledger, Awaits
<1>6. CASE CalculatePayout(t) \/ WritePayout(t)
  BY <1>0, <1>6, PayoutKeepsCount
<1>12. CASE RecordNext(t)
  BY <1>0, <1>12, NextBetKeepsCount
<1>13. CASE RecordFails(t)
  BY <1>0, <1>13, FailureKeepsCount
<1>7. CASE SettlementDone(t)
  BY <1>0, <1>7, DoneKeepsCount
<1>8. CASE RecordAgentSettlement(t)
  BY <1>0, <1>8, RecordKeepsCount
<1>9. CASE ResolveFinish(t)
  <2>1. ASSUME NEW key PROVE ~Awaits(key)
    <3>1. loc[Scheduler].i \in Nat /\ loc[Scheduler].n \in Nat
      BY <1>0 DEF TypeInv, TypeOK, Locals
    <3> QED
      BY <1>0, <1>9, <3>1 DEF ResolveFinish, Awaits
  <2> QED
    BY <1>0, <1>1, <1>9, <2>1 DEF ResolveFinish, ReturnFromResolve, Return
<1>10. CASE ResolveDueSkip(t)
  BY <1>0, <1>1, <1>10 DEF ResolveDueSkip, Return, ledger, Awaits
<1>11. CASE ResolveDueCall(t)
  BY <1>0, <1>1, <1>11 DEF ResolveDueCall, ledger, Awaits
<1> QED
  BY <1>2, <1>3, <1>4, <1>5, <1>6, <1>7, <1>8, <1>9, <1>10, <1>11, <1>12, <1>13
     DEF ResolveSteps

LEMMA InitCount == Init => CountInv
<1> SUFFICES ASSUME Init, NEW a \in Agents
             PROVE  IsFiniteSet(SettledBets(a)) /\ Tallied(a, {})
  BY DEF CountInv
<1>1. SettledBets(a) = {}
  BY SettledMember DEF Init
<1>2. Won({}) = {} /\ Lost({}) = {} /\ SumFunctionOnSet(Gain, {}) = 0
  BY SumEmpty DEF Won, Lost
<1>3. stats[a].wins = 0 /\ stats[a].losses = 0 /\ stats[a].profit = 0
  BY DEF Init, NewStats
<1> QED
  BY <1>1, <1>2, <1>3, FS_EmptySet DEF Tallied

LEMMA NextCount ==
    ASSUME ManualResolvers = {}
    PROVE  TypeInv /\ SettleInv /\ OneResolver /\ CountInv /\ [Next]_vars => CountInv'
<1> SUFFICES ASSUME TypeInv, SettleInv, OneResolver, CountInv, [Next]_vars PROVE CountInv'
  OBVIOUS
<1>0. TypeInv'
  BY NextType
<1>1. CASE UNCHANGED <<bets, stats, pc, loc>>
  BY <1>0, <1>1, SameBets, QuietKeepsSettled, QuietKeepsCount DEF ResultsKept, Awaits, TypeInv
<1>2. ASSUME NEW a \in Agents, RegisterAgent(a) \/ EnsureAgentStats(a) PROVE CountInv'
  BY <1>1, <1>2 DEF RegisterAgent, EnsureAgentStats, ledger
<1>3. CASE Tick
  BY <1>1, <1>3 DEF Tick, ledger
<1>4. CASE UNCHANGED vars
  BY <1>1, <1>4 DEF vars, ledger
<1> QED
  BY <1>0, <1>2, <1>3, <1>4, BetKeepsCount, ResolveKeepsCount DEF Next

LEMMA CountAlways ==
    ASSUME ManualResolvers = {}
    PROVE  Spec => []CountInv
<1>1. Spec => [](TypeInv /\ SettleInv /\ OneResolver /\ CountInv)
  BY InitType, NextType, InitSettle, NextSettle, InitOneResolver, NextOneResolver,
     InitCount, NextCount, PTL DEF Spec
<1> QED
  BY <1>1, PTL

LEMMA TallyCardinality ==
    ASSUME CountInv, NEW a \in Agents, NEW K \in SUBSET Counted(a), Tallied(a, K)
    PROVE  /\ IsFiniteSet(SettledBets(a)) /\ K \subseteq SettledBets(a)
           /\ stats[a].wins + stats[a].losses = Cardinality(K)
<1>1. IsFiniteSet(SettledBets(a)) /\ K \subseteq SettledBets(a)
  BY DEF CountInv, Counted
<1>2. IsFiniteSet(K) /\ Won(K) \subseteq K
  BY <1>1, FS_Subset DEF Won
<1>3. Cardinality(Lost(K)) = Cardinality(K) - Cardinality(Won(K))
  <2>1. K \cap Won(K) = Won(K)
    BY <1>2
  <2>2. Cardinality(K \ Won(K)) = Cardinality(K) - Cardinality(K \cap Won(K))
    BY <1>2, FS_Difference
  <2> QED
    BY <2>1, <2>2, Zenon DEF Lost
<1>4. Cardinality(K) \in Nat /\ Cardinality(Won(K)) \in Nat
  BY <1>2, FS_Subset, FS_CardinalityType
<1> QED
  BY <1>1, <1>3, <1>4 DEF Tallied

\* When only the scheduler resolves, an agent's wins and losses never count a bet twice,
\* whenever it registers and however its bets interleave with the settlement.
THEOREM OneResolverCountsOnce ==
    ASSUME ManualResolvers = {}
    PROVE  Spec => []ResultsCountedOnce
<1>1. CountInv => ResultsCountedOnce
  <2> SUFFICES ASSUME CountInv, NEW a \in Agents
               PROVE  stats[a].wins + stats[a].losses <= Cardinality(SettledBets(a))
    BY DEF ResultsCountedOnce
  <2>1. PICK K \in SUBSET Counted(a) : Tallied(a, K)
    BY DEF CountInv
  <2> QED
    BY <2>1, TallyCardinality, FS_Subset
<1> QED
  BY <1>1, CountAlways, PTL

\* When only the scheduler resolves, an agent whose every settled bet has been counted has
\* the wins and the profit of its bets, to the last decimal.
THEOREM OneResolverBalancesTheBook ==
    ASSUME ManualResolvers = {}
    PROVE  Spec => []BookBalances
<1>1. CountInv => BookBalances
  <2> SUFFICES ASSUME CountInv, NEW a \in Agents,
                      stats[a].wins + stats[a].losses = Cardinality(SettledBets(a))
               PROVE  /\ stats[a].wins = Cardinality(Won(SettledBets(a)))
                      /\ stats[a].profit = SumFunctionOnSet(Gain, SettledBets(a))
    BY DEF BookBalances, Won, Gain
  <2>1. PICK K \in SUBSET Counted(a) : Tallied(a, K)
    BY DEF CountInv
  <2>2. K = SettledBets(a)
    BY <2>1, TallyCardinality, FS_Subset
  <2> QED
    BY <2>1, <2>2 DEF Tallied
<1> QED
  BY <1>1, CountAlways, PTL
----------------------------------------------------------------------------
(* The pools and the list of bets.                                           *)

\* The same bets are listed, on the same sides, with the same stakes.
StakesKept ==
    \A m \in Markets :
        /\ DOMAIN bets'[m] = DOMAIN bets[m]
        /\ \A k \in DOMAIN bets[m] : /\ bets'[m][k].amount = bets[m][k].amount
                                     /\ bets'[m][k].side = bets[m][k].side
                                     /\ bets'[m][k].bettor = bets[m][k].bettor

LEMMA StatusesKeepStakes ==
    ASSUME TypeOK, TypeOK', StatusesKept
    PROVE  StakesKept
<1>1. \A m \in Markets : DOMAIN bets[m] = 1..Len(bets[m]) /\ DOMAIN bets'[m] = 1..Len(bets'[m])
  BY LenProperties DEF TypeOK
<1> QED
  BY <1>1 DEF StatusesKept, StakesKept

\* The turn of _calculate_payouts writes a bet's status and payout only.
LEMMA PayoutKeepsStakes ==
    ASSUME TypeInv, NEW t \in Procs, CalculatePayout(t) \/ WritePayout(t)
    PROVE  StakesKept
<1> DEFINE m == loc[t].m
           i == loc[t].i
<1>1. OnlyBet(m, i)
  BY CalculateEffect, PayoutEffect
<1> HIDE DEF m, i
<1>2. ASSUME NEW x \in Markets, NEW k \in DOMAIN bets[x]
      PROVE  /\ bets'[x][k].amount = bets[x][k].amount
             /\ bets'[x][k].side = bets[x][k].side
             /\ bets'[x][k].bettor = bets[x][k].bettor
  BY <1>1 DEF OnlyBet
<1> QED
  BY <1>1, <1>2 DEF OnlyBet, StakesKept

\* Only place_bet's append changes what is staked.
LEMMA BetKeepsStakes ==
    ASSUME TypeInv, TypeInv', NEW t \in Procs, PlaceBet(t), ~PlaceBetAppend(t)
    PROVE  StakesKept
<1> USE DEF TypeInv
<1>1. CASE bets' = bets
  BY <1>1 DEF StakesKept
<1>2. CASE RecordAgentBetVolume(t)
  <2> DEFINE l == loc[t]
             bet == [bets[l.m][l.n] EXCEPT !.hist = "open"]
  <2>1. /\ bets' = [bets EXCEPT ![l.m] = [bets[l.m] EXCEPT ![l.n] = bet]]
        /\ l.m \in Markets /\ l.n \in 1..Len(bets[l.m])
    BY <1>2 DEF RecordAgentBetVolume, LocalsOK, ThreadOK
  <2>2. bets[l.m][l.n] \in BetRecord
    BY <2>1, DomainIsInterval
  <2>3. bet \in BetRecord
    BY <2>2 DEF BetRecord
  <2> HIDE DEF l
  <2> QED
    BY <2>1, <2>3, HistoryKeepsStatuses, StatusesKeepStakes
<1> QED
  BY <1>1, <1>2 DEF PlaceBet, PlaceBetCheck, PlaceBetPool, RecordAgentBetCount, ledger

LEMMA ResolveKeepsStakes ==
    ASSUME TypeInv, TypeInv', NEW t \in Procs,
           ResolveCheck(t) \/ ResolveDueStart(t) \/ ResolveSteps(t)
    PROVE  StakesKept
<1> USE DEF TypeInv
<1>1. CASE bets' = bets
  BY <1>1 DEF StakesKept
<1>2. CASE RecordAgentSettlement(t)
  <2> DEFINE l == loc[t]
             bet == [bets[l.m][l.i] EXCEPT !.hist = "resolved"]
  <2>1. bets' = bets \/ bets' = [bets EXCEPT ![l.m] = [bets[l.m] EXCEPT ![l.i] = bet]]
    BY <1>2 DEF RecordAgentSettlement
  <2>2. l.m \in Markets /\ l.i \in 1..Len(bets[l.m])
    <3>1. /\ l.m \in Markets /\ l.i \in Nat /\ l.n \in Nat /\ l.i >= 1 /\ l.n <= Len(bets[l.m])
          /\ l.i <= l.n
      BY <1>2 DEF RecordAgentSettlement, LocalsOK, TypeOK, ThreadOK, Locals
    <3> QED
      BY <3>1, DomainIsInterval
  <2>3. bets[l.m][l.i] \in BetRecord
    BY <2>2, DomainIsInterval
  <2>4. bet \in BetRecord
    BY <2>3 DEF BetRecord
  <2>5. CASE bets' # bets
    <3> HIDE DEF l
    <3> QED
      BY <2>1, <2>2, <2>4, <2>5, HistoryKeepsStatuses, StatusesKeepStakes
  <2> QED
    BY <1>1, <2>5
<1> QED
  BY <1>1, <1>2, PayoutKeepsStakes
     DEF ResolveCheck, ResolveDueStart, ResolveSteps, ResolvePublish, ResolvePriceFails,
         SettlementDone, RecordNext, RecordFails, ResolveFinish, ResolveDueSkip,
         ResolveDueCall, ledger

Betting == {"bet_lock", "bet_pool", "bet_agent", "bet_volume"}

\* A step of a resolving handler leaves its thread outside place_bet.
LEMMA ResolverStaysAside ==
    ASSUME TypeInv, NEW t \in Procs, ResolveCheck(t) \/ ResolveDueStart(t) \/ ResolveSteps(t)
    PROVE  OnlyMoves(t) /\ pc[t] \notin Betting /\ pc'[t] \notin Betting
<1>1. pc[t] \notin Betting
  BY DEF ResolveCheck, ResolveDueStart, ResolveSteps, ResolvePublish, ResolvePriceFails,
         CalculatePayout, WritePayout, SettlementDone, RecordNext, RecordAgentSettlement,
         RecordFails, ResolveFinish, ResolveDueSkip, ResolveDueCall, Betting
<1>2. \/ \E r : Goto(t, "idle", r)
      \/ \E r : Goto(t, "due_next", r)
      \/ \E r : Goto(t, "res_price", r)
      \/ \E r : Goto(t, "res_settle", r)
      \/ \E r : Goto(t, "res_payout", r)
      \/ \E r : Goto(t, "res_record", r)
      \/ \E r : Goto(t, "res_stats", r)
  <2>1. CASE ResolveCheck(t) \/ ResolveDueStart(t)
    BY <2>1 DEF ResolveCheck, ResolveDueStart
  <2>2. CASE ResolvePublish(t)
    BY <2>2 DEF ResolvePublish
  <2>3. CASE ResolvePriceFails(t) \/ ResolveDueSkip(t) \/ ResolveDueCall(t) \/ RecordFails(t)
    BY <2>3 DEF ResolvePriceFails, ResolveDueSkip, ResolveDueCall, RecordFails, Return
  <2>4. CASE CalculatePayout(t) \/ WritePayout(t) \/ SettlementDone(t)
    BY <2>4 DEF CalculatePayout, WritePayout, SettlementDone
  <2>5. CASE RecordNext(t) \/ RecordAgentSettlement(t)
    BY <2>5 DEF RecordNext, RecordAgentSettlement
  <2>6. CASE ResolveFinish(t)
    BY <2>6 DEF ResolveFinish, ReturnFromResolve, Return
  <2> QED
    BY <2>1, <2>2, <2>3, <2>4, <2>5, <2>6 DEF ResolveSteps
<1>3. OnlyMoves(t) /\ pc'[t] \notin Betting
  BY <1>2, GotoMoves DEF TypeInv, Betting
<1> QED
  BY <1>1, <1>3

\* The appended bet is the last of its list; every other bet is where it was.
LEMMA AppendEffect ==
    ASSUME TypeInv, TypeInv', NEW t \in Procs, PlaceBetAppend(t)
    PROVE  LET l == loc[t]
               n == Len(bets[l.m]) + 1
           IN  /\ l.m \in Markets /\ n \notin DOMAIN bets[l.m]
               /\ DOMAIN bets'[l.m] = DOMAIN bets[l.m] \cup {n}
               /\ \A k \in DOMAIN bets[l.m] : bets'[l.m][k] = bets[l.m][k]
               /\ \A m \in Markets : m # l.m => bets'[m] = bets[m]
               /\ bets'[l.m][n].bettor = l.bettor
               /\ bets'[l.m][n].side = l.side
               /\ bets'[l.m][n].amount = l.amount
               /\ bets'[l.m][n].status = "locked"
               /\ OnlyMoves(t) /\ pc'[t] = "bet_pool" /\ loc'[t] = [l EXCEPT !.n = n]
<1> USE DEF TypeInv
<1> DEFINE l == loc[t]
           n == Len(bets[l.m]) + 1
           bet == [bettor |-> l.bettor, side |-> l.side, amount |-> l.amount,
                   status |-> "locked", payout |-> 0, hist |-> "absent"]
<1>1. /\ bets' = [bets EXCEPT ![l.m] = Append(bets[l.m], bet)]
      /\ l.m \in Markets
      /\ Goto(t, "bet_pool", [l EXCEPT !.n = n])
  BY DEF PlaceBetAppend, LocalsOK, ThreadOK
<1>2. /\ bet.bettor = l.bettor /\ bet.side = l.side /\ bet.amount = l.amount
      /\ bet.status = "locked" /\ bet \in BetRecord
  BY DEF TypeOK, Locals, BetRecord
<1> HIDE DEF bet
<1>3. bets[l.m] \in Seq(BetRecord) /\ Len(bets[l.m]) \in Nat /\ DOMAIN bets[l.m] = 1..Len(bets[l.m])
  BY <1>1, LenProperties DEF TypeOK
<1>4. bets'[l.m] = Append(bets[l.m], bet)
  BY <1>1 DEF TypeOK
<1>5. /\ Len(bets'[l.m]) = Len(bets[l.m]) + 1
      /\ \A k \in 1..Len(bets[l.m]) : bets'[l.m][k] = bets[l.m][k]
      /\ bets'[l.m][Len(bets[l.m]) + 1] = bet
      /\ bets'[l.m] \in Seq(BetRecord)
  BY <1>2, <1>3, <1>4, AppendProperties
<1>6. DOMAIN bets'[l.m] = 1..n
  BY <1>5, LenProperties
<1>7. \A m \in Markets : m # l.m => bets'[m] = bets[m]
  BY <1>1 DEF TypeOK
<1>8. OnlyMoves(t) /\ pc'[t] = "bet_pool" /\ loc'[t] = [l EXCEPT !.n = n]
  BY <1>1, GotoMoves
<1>9. n \notin DOMAIN bets[l.m] /\ DOMAIN bets'[l.m] = DOMAIN bets[l.m] \cup {n}
  BY <1>3, <1>6, SMTT(30)
<1>10. bets'[l.m][n] = bet
  BY <1>5
<1>11. \A k \in DOMAIN bets[l.m] : bets'[l.m][k] = bets[l.m][k]
  BY <1>3, <1>5
<1>12. /\ bets'[l.m][n].bettor = l.bettor /\ bets'[l.m][n].side = l.side
       /\ bets'[l.m][n].amount = l.amount /\ bets'[l.m][n].status = "locked"
  BY <1>2, <1>10
<1> QED
  BY <1>1, <1>7, <1>8, <1>9, <1>11, <1>12

\* The handlers that have appended their bet and not yet added it to the pool.
Pending(m, s) == {t \in Procs : pc[t] = "bet_pool" /\ loc[t].m = m /\ loc[t].side = s}
OnSide(m, s) == {k \in DOMAIN bets[m] : bets[m][k].side = s}
Stake == [t \in Procs |-> loc[t].amount]
Listed(m) == [k \in DOMAIN bets[m] |-> bets[m][k].amount]

\* The strengthening of PoolsCountBets: its sums are over finite sets.
PoolInv ==
    \A m \in Markets : \A s \in Sides :
        /\ IsFiniteSet(Pending(m, s))
        /\ pool[m][s] + SumFunctionOnSet(Stake, Pending(m, s))
             = SumFunctionOnSet(Listed(m), OnSide(m, s))

LEMMA PoolTerms ==
    ASSUME TypeOK, NEW m \in Markets, NEW s \in Sides
    PROVE  /\ IsFiniteSet(OnSide(m, s))
           /\ \A k \in OnSide(m, s) : Listed(m)[k] \in Int
           /\ SumFunctionOnSet(Listed(m), OnSide(m, s)) \in Int
           /\ \A t \in Procs : Stake[t] \in Int
           /\ IsFiniteSet(Pending(m, s)) =>
                 SumFunctionOnSet(Stake, Pending(m, s)) \in Int
           /\ pool[m][s] \in Int
<1>1. IsFiniteSet(OnSide(m, s))
  <2>1. IsFiniteSet(1..Len(bets[m]))
    BY DomainIsInterval, FS_Interval
  <2>2. OnSide(m, s) \subseteq 1..Len(bets[m])
    BY DomainIsInterval DEF OnSide
  <2> QED
    BY <2>1, <2>2, FS_Subset
<1>2. \A k \in OnSide(m, s) : Listed(m)[k] \in Int
  BY DomainIsInterval DEF OnSide, Listed, BetRecord
<1>3. \A t \in Procs : Stake[t] \in Int
  BY DEF TypeOK, Locals, Stake
<1>4. ASSUME IsFiniteSet(Pending(m, s)) PROVE SumFunctionOnSet(Stake, Pending(m, s)) \in Int
  <2>1. \A t \in Pending(m, s) : Stake[t] \in Int
    BY <1>3 DEF Pending
  <2> QED
    BY <1>4, <2>1, SumInt
<1>5. SumFunctionOnSet(Listed(m), OnSide(m, s)) \in Int
  BY <1>1, <1>2, SumInt
<1>6. pool[m][s] \in Int
  BY DEF TypeOK
<1> QED
  BY <1>1, <1>2, <1>3, <1>4, <1>5, <1>6

LEMMA ListedKept ==
    ASSUME TypeOK, StakesKept, NEW m \in Markets, NEW s \in Sides
    PROVE  SumFunctionOnSet(Listed(m), OnSide(m, s))' = SumFunctionOnSet(Listed(m), OnSide(m, s))
<1>1. OnSide(m, s)' = OnSide(m, s)
  BY DEF StakesKept, OnSide
<1>2. \A k \in OnSide(m, s) : Listed(m)'[k] = Listed(m)[k]
  BY DEF StakesKept, OnSide, Listed
<1> QED
  BY <1>1, <1>2, PoolTerms, SumSame

\* A thread that is not among the pending ones before or after its step.
LEMMA PendingKept ==
    ASSUME NEW t \in Procs, OnlyMoves(t), NEW m, NEW s, IsFiniteSet(Pending(m, s)),
           t \notin Pending(m, s), t \notin Pending(m, s)'
    PROVE  /\ Pending(m, s)' = Pending(m, s)
           /\ SumFunctionOnSet(Stake, Pending(m, s))' = SumFunctionOnSet(Stake, Pending(m, s))
<1>1. Pending(m, s)' = Pending(m, s)
  BY DEF OnlyMoves, Pending
<1>2. \A u \in Pending(m, s) : Stake'[u] = Stake[u]
  BY DEF OnlyMoves, Pending, Stake
<1> QED
  BY <1>1, <1>2, SumSame

\* Steps that touch neither the stakes nor the pools, of a thread that is not pending.
LEMMA QuietKeepsPools ==
    ASSUME TypeInv, PoolInv, StakesKept, pool' = pool, NEW t \in Procs, OnlyMoves(t),
           pc[t] # "bet_pool", pc'[t] # "bet_pool"
    PROVE  PoolInv'
<1> SUFFICES ASSUME NEW m \in Markets, NEW s \in Sides
             PROVE  /\ IsFiniteSet(Pending(m, s)')
                    /\ pool[m][s] + SumFunctionOnSet(Stake, Pending(m, s))'
                         = SumFunctionOnSet(Listed(m), OnSide(m, s))'
  BY DEF PoolInv
<1>1. t \notin Pending(m, s) /\ t \notin Pending(m, s)'
  BY DEF Pending
<1> QED
  BY <1>1, ListedKept, PendingKept DEF PoolInv, TypeInv

\* bets.append: the stake is missing from the pool while its handler is pending.
LEMMA AppendKeepsPools ==
    ASSUME TypeInv, TypeInv', PoolInv, NEW t \in Procs, PlaceBetAppend(t)
    PROVE  PoolInv'
<1> USE DEF TypeInv
<1> DEFINE l == loc[t]
           n == Len(bets[l.m]) + 1
<1>1. /\ l.m \in Markets /\ n \notin DOMAIN bets[l.m]
      /\ DOMAIN bets'[l.m] = DOMAIN bets[l.m] \cup {n}
      /\ \A k \in DOMAIN bets[l.m] : bets'[l.m][k] = bets[l.m][k]
      /\ \A m \in Markets : m # l.m => bets'[m] = bets[m]
      /\ bets'[l.m][n].side = l.side /\ bets'[l.m][n].amount = l.amount
      /\ OnlyMoves(t) /\ pc'[t] = "bet_pool" /\ loc'[t] = [l EXCEPT !.n = n]
  BY AppendEffect
<1>2. l \in Locals /\ l.amount \in Int
  BY DEF TypeOK, Locals
<1>3. loc'[t].m = l.m /\ loc'[t].side = l.side /\ loc'[t].amount = l.amount
  BY <1>1, <1>2 DEF Locals
<1>4. pc[t] = "bet_lock" /\ pool' = pool
  BY DEF PlaceBetAppend
<1> HIDE DEF l, n
<1> SUFFICES ASSUME NEW m \in Markets, NEW s \in Sides
             PROVE  /\ IsFiniteSet(Pending(m, s)')
                    /\ pool[m][s] + SumFunctionOnSet(Stake, Pending(m, s))'
                         = SumFunctionOnSet(Listed(m), OnSide(m, s))'
  BY <1>4 DEF PoolInv
<1>5. t \notin Pending(m, s)
  BY <1>4 DEF Pending
<1>6. CASE m = l.m /\ s = l.side
  <2>1. Pending(m, s)' = Pending(m, s) \cup {t}
    BY <1>1, <1>3, <1>6 DEF Pending, OnlyMoves
  <2>2. IsFiniteSet(Pending(m, s)) /\ IsFiniteSet(Pending(m, s)')
    BY <2>1, FS_AddElement DEF PoolInv
  <2>3. SumFunctionOnSet(Stake, Pending(m, s))'
          = SumFunctionOnSet(Stake, Pending(m, s)) + l.amount
    <3>1. \A u \in Pending(m, s) : Stake'[u] = Stake[u] /\ Stake'[u] \in Int
      BY <1>1, <1>5, PoolTerms DEF Pending, OnlyMoves, Stake
    <3>2. Stake'[t] = l.amount
      BY <1>3 DEF Stake
    <3>3. SumFunctionOnSet(Stake', Pending(m, s)) = SumFunctionOnSet(Stake, Pending(m, s))
      BY <2>2, <3>1, SumSame
    <3> QED
      BY <1>2, <1>5, <2>1, <2>2, <3>1, <3>2, <3>3, SumAdd
  <2>4. SumFunctionOnSet(Listed(m), OnSide(m, s))'
          = SumFunctionOnSet(Listed(m), OnSide(m, s)) + l.amount
    <3>1. OnSide(m, s)' = OnSide(m, s) \cup {n} /\ n \notin OnSide(m, s)
      BY <1>1, <1>6 DEF OnSide
    <3>2. \A k \in OnSide(m, s) : Listed(m)'[k] = Listed(m)[k] /\ Listed(m)'[k] \in Int
      <4>1. \A k \in OnSide(m, s) : Listed(m)'[k] = Listed(m)[k]
        BY <1>1, <1>6 DEF OnSide, Listed
      <4> QED
        BY <4>1, PoolTerms
    <3>3. Listed(m)'[n] = l.amount
      BY <1>1, <1>6 DEF Listed
    <3>4. SumFunctionOnSet(Listed(m)', OnSide(m, s)) = SumFunctionOnSet(Listed(m), OnSide(m, s))
      BY <3>2, PoolTerms, SumSame
    <3> QED
      BY <1>2, <3>1, <3>2, <3>3, <3>4, PoolTerms, SumAdd
  <2> QED
    BY <1>2, <2>2, <2>3, <2>4, PoolTerms DEF PoolInv
<1>7. CASE ~(m = l.m /\ s = l.side)
  <2>1. t \notin Pending(m, s)'
    BY <1>3, <1>7 DEF Pending
  <2>2. OnSide(m, s)' = OnSide(m, s) /\ \A k \in OnSide(m, s) : Listed(m)'[k] = Listed(m)[k]
    BY <1>1, <1>7 DEF OnSide, Listed
  <2>3. SumFunctionOnSet(Listed(m), OnSide(m, s))' = SumFunctionOnSet(Listed(m), OnSide(m, s))
    BY <2>2, PoolTerms, SumSame
  <2> QED
    BY <1>1, <1>5, <2>1, <2>3, PendingKept DEF PoolInv
<1> QED
  BY <1>6, <1>7

\* The stake leaves the pending ones and joins the pool of its own market and side.
LEMMA PoolStepKeepsPools ==
    ASSUME TypeInv, PoolInv, NEW t \in Procs, PlaceBetPool(t)
    PROVE  PoolInv'
<1> USE DEF TypeInv
<1> DEFINE l == loc[t]
<1>1. /\ pc[t] = "bet_pool"
      /\ pool' = [pool EXCEPT ![l.m] = [pool[l.m] EXCEPT ![l.side] = pool[l.m][l.side] + l.amount]]
      /\ bets' = bets
      /\ \E p : p # "bet_pool" /\ \E r : Goto(t, p, r)
  BY DEF PlaceBetPool, Return
<1>2. l.m \in Markets /\ l.side \in Sides /\ l.amount \in Int
  <2>1. l \in Locals /\ ThreadOK("bet_pool", l, bets)
    BY <1>1 DEF LocalsOK, TypeOK
  <2> HIDE DEF l
  <2> QED
    BY <2>1 DEF ThreadOK, Locals
<1>3. OnlyMoves(t) /\ pc'[t] # "bet_pool"
  BY <1>1, GotoMoves
<1>4. StakesKept
  BY <1>1 DEF StakesKept
<1> HIDE DEF l
<1>5. /\ pool'[l.m][l.side] = pool[l.m][l.side] + l.amount
      /\ \A m \in Markets, s \in Sides : ~(m = l.m /\ s = l.side) => pool'[m][s] = pool[m][s]
  BY <1>1, <1>2 DEF TypeOK
<1> SUFFICES ASSUME NEW m \in Markets, NEW s \in Sides
             PROVE  /\ IsFiniteSet(Pending(m, s)')
                    /\ pool'[m][s] + SumFunctionOnSet(Stake, Pending(m, s))'
                         = SumFunctionOnSet(Listed(m), OnSide(m, s))
  BY <1>4, ListedKept DEF PoolInv
<1>6. t \notin Pending(m, s)'
  BY <1>3 DEF Pending
<1>7. CASE m = l.m /\ s = l.side
  <2>1. t \in Pending(m, s) /\ Pending(m, s)' = Pending(m, s) \ {t}
    BY <1>1, <1>3, <1>7 DEF Pending, OnlyMoves, l
  <2>2. IsFiniteSet(Pending(m, s)) /\ IsFiniteSet(Pending(m, s)')
    BY <2>1, FS_RemoveElement DEF PoolInv
  <2>3. SumFunctionOnSet(Stake, Pending(m, s)')
          = SumFunctionOnSet(Stake, Pending(m, s)) - l.amount
    <3>1. \A u \in Pending(m, s) : Stake[u] \in Int
      BY PoolTerms DEF Pending
    <3>2. Stake[t] = l.amount
      BY DEF Stake, l
    <3>3. SumFunctionOnSet(Stake, Pending(m, s))
            = l.amount + SumFunctionOnSet(Stake, Pending(m, s)')
      BY <2>1, <2>2, <3>1, <3>2, SumRemove
    <3>4. SumFunctionOnSet(Stake, Pending(m, s)') \in Int
      BY <2>1, <2>2, <3>1, SumInt
    <3> QED
      BY <1>2, <3>3, <3>4
  <2>4. SumFunctionOnSet(Stake', Pending(m, s)') = SumFunctionOnSet(Stake, Pending(m, s)')
    <3>1. \A u \in Pending(m, s)' : Stake'[u] = Stake[u]
      BY <1>3, <1>6 DEF Pending, OnlyMoves, Stake
    <3> QED
      BY <2>2, <3>1, SumSame
  <2> QED
    BY <1>2, <1>5, <1>7, <2>2, <2>3, <2>4, PoolTerms DEF PoolInv
<1>8. CASE ~(m = l.m /\ s = l.side)
  <2>1. t \notin Pending(m, s)
    BY <1>8 DEF Pending, l
  <2> QED
    BY <1>3, <1>5, <1>6, <1>8, <2>1, PendingKept DEF PoolInv
<1> QED
  BY <1>7, <1>8

LEMMA InitPools == Init => PoolInv
<1> SUFFICES ASSUME Init, NEW m \in Markets, NEW s \in Sides
             PROVE  /\ IsFiniteSet(Pending(m, s))
                    /\ pool[m][s] + SumFunctionOnSet(Stake, Pending(m, s))
                         = SumFunctionOnSet(Listed(m), OnSide(m, s))
  BY DEF PoolInv
<1>1. Pending(m, s) = {}
  BY DEF Init, Pending
<1>2. OnSide(m, s) = {}
  BY DEF Init, OnSide
<1>3. pool[m][s] = 0
  BY DEF Init
<1> QED
  BY <1>1, <1>2, <1>3, SumEmpty, FS_EmptySet

LEMMA NextPools == TypeInv /\ PoolInv /\ [Next]_vars => PoolInv'
<1> SUFFICES ASSUME TypeInv, PoolInv, [Next]_vars PROVE PoolInv'
  OBVIOUS
<1>0. TypeInv'
  BY NextType
<1>1. ASSUME NEW t \in Procs, PlaceBet(t) PROVE PoolInv'
  <2>1. CASE PlaceBetAppend(t)
    BY <1>0, <2>1, AppendKeepsPools
  <2>2. CASE PlaceBetPool(t)
    BY <2>2, PoolStepKeepsPools
  <2>3. CASE PlaceBetCheck(t) \/ RecordAgentBetCount(t) \/ RecordAgentBetVolume(t)
    <3>1. pool' = pool /\ pc[t] \in {"idle", "bet_agent", "bet_volume"}
      BY <2>3 DEF PlaceBetCheck, RecordAgentBetCount, RecordAgentBetVolume, ledger
    <3>2. StakesKept
      BY <1>0, <1>1, <3>1, BetKeepsStakes DEF PlaceBetAppend
    <3>3. \E p : p # "bet_pool" /\ \E r : Goto(t, p, r)
      BY <2>3 DEF PlaceBetCheck, RecordAgentBetCount, RecordAgentBetVolume, Return
    <3>4. OnlyMoves(t) /\ pc'[t] # "bet_pool"
      BY <3>3, GotoMoves DEF TypeInv
    <3> QED
      BY <3>1, <3>2, <3>4, QuietKeepsPools
  <2> QED
    BY <1>1, <2>1, <2>2, <2>3 DEF PlaceBet
<1>2. ASSUME NEW t \in Procs, ResolveCheck(t) \/ ResolveDueStart(t) \/ ResolveSteps(t)
      PROVE  PoolInv'
  <2>1. pool' = pool
    BY <1>2 DEF ResolveCheck, ResolveDueStart, ResolveSteps, ResolvePublish, ResolvePriceFails,
           CalculatePayout, WritePayout, SettlementDone, RecordNext, RecordAgentSettlement,
           RecordFails, ResolveFinish, ResolveDueSkip, ResolveDueCall, ledger
  <2> QED
    BY <1>0, <1>2, <2>1, ResolveKeepsStakes, ResolverStaysAside, QuietKeepsPools DEF Betting
<1>3. CASE UNCHANGED <<pool, bets, pc, loc>>
  BY <1>3 DEF PoolInv, Pending, OnSide, Stake, Listed
<1>4. ASSUME NEW a \in Agents, RegisterAgent(a) \/ EnsureAgentStats(a) PROVE PoolInv'
  BY <1>3, <1>4 DEF RegisterAgent, EnsureAgentStats, ledger
<1>5. CASE Tick \/ UNCHANGED vars
  BY <1>3, <1>5 DEF Tick, vars, ledger
<1> QED
  BY <1>1, <1>2, <1>4, <1>5 DEF Next

\* However bets and resolvers interleave, a side's pool is the sum of its listed stakes but
\* for those of the handlers between the append and the pool's update.
THEOREM PoolsFollowTheList == Spec => []PoolsCountBets
<1>1. Spec => [](TypeInv /\ PoolInv)
  BY InitType, NextType, InitPools, NextPools, PTL DEF Spec
<1>2. PoolInv => PoolsCountBets
  BY DEF PoolInv, PoolsCountBets, Pending, OnSide, Stake, Listed
<1> QED
  BY <1>1, <1>2, PTL
----------------------------------------------------------------------------
(* An agent's volume.                                                        *)

\* The handlers that have appended their bet and not yet recorded it, and that bet's key.
Recording == {"bet_pool", "bet_agent", "bet_volume"}
Own(t) == <<loc[t].m, loc[t].n>>

\* An agent's bets but for those whose handlers have still to record them.
Entered(a) == {key \in BetKeys : /\ BetAt(key).bettor = a
                                 /\ \A t \in Procs : pc[t] \in Recording => key # Own(t)}
StakeOf == [key \in BetKeys |-> BetAt(key).amount]
EnteredVolume(a) == SumFunctionOnSet(StakeOf, Entered(a))

Owns(t) == /\ BetAt(Own(t)).bettor = loc[t].bettor
           /\ BetAt(Own(t)).amount = loc[t].amount

\* The strengthening of VolumeNotInflated: each handler owns a bet of its own, and what it
\* has read of the volume comes from bets whose handlers are done.
VolumeInv ==
    /\ \A t \in Procs : pc[t] \in Recording => Owns(t)
    /\ \A t, u \in Procs : t # u /\ pc[t] \in Recording /\ pc[u] \in Recording => Own(t) # Own(u)
    /\ \A t \in Procs : pc[t] = "bet_volume" => loc[t].vol <= EnteredVolume(loc[t].bettor)
    /\ \A a \in Agents : stats[a].volume <= EnteredVolume(a)

\* The keys of a book are finitely many, and each names a bet.
LEMMA BookOf ==
    ASSUME NEW b \in [Markets -> Seq(BetRecord)],
           NEW K, K = UNION {{<<m, k>> : k \in DOMAIN b[m]} : m \in Markets}
    PROVE  IsFiniteSet(K) /\ \A key \in K : b[key[1]][key[2]] \in BetRecord
<1>1. ASSUME NEW m \in Markets
      PROVE  IsFiniteSet({<<m, k>> : k \in DOMAIN b[m]})
  <2>1. DOMAIN b[m] = 1..Len(b[m]) /\ Len(b[m]) \in Nat
    BY LenProperties
  <2>2. IsFiniteSet(DOMAIN b[m])
    BY <2>1, FS_Interval
  <2> DEFINE f == [k \in DOMAIN b[m] |-> <<m, k>>]
  <2>3. f \in Surjection(DOMAIN b[m], {<<m, k>> : k \in DOMAIN b[m]})
    BY DEF Surjection
  <2> HIDE DEF f
  <2> QED
    BY <2>2, <2>3, FS_Surjection
<1>2. IsFiniteSet({{<<m, k>> : k \in DOMAIN b[m]} : m \in Markets})
  <2> DEFINE T == {{<<m, k>> : k \in DOMAIN b[m]} : m \in Markets}
             f == [m \in Markets |-> {<<m, k>> : k \in DOMAIN b[m]}]
  <2>1. f \in Surjection(Markets, T)
    <3>1. f \in [Markets -> T]
      OBVIOUS
    <3>2. ASSUME NEW x \in T PROVE \E m \in Markets : f[m] = x
      <4>1. PICK m \in Markets : x = {<<m, k>> : k \in DOMAIN b[m]}
        BY Zenon
      <4> QED
        BY <4>1
    <3> HIDE DEF f, T
    <3> QED
      BY <3>1, <3>2 DEF Surjection
  <2> HIDE DEF f, T
  <2>2. IsFiniteSet(T)
    BY <2>1, ModelAssumption, FS_Surjection
  <2> QED
    BY <2>2 DEF T
<1>3. IsFiniteSet(K)
  BY <1>1, <1>2, FS_UNION
<1>4. ASSUME NEW key \in K PROVE b[key[1]][key[2]] \in BetRecord
  <2>0. PICK m \in Markets : \E k \in DOMAIN b[m] : key = <<m, k>>
    OBVIOUS
  <2>1. PICK k \in DOMAIN b[m] : key = <<m, k>>
    BY <2>0
  <2>2. b[m] \in Seq(BetRecord) /\ k \in 1..Len(b[m])
    BY LenProperties
  <2> QED
    BY <2>1, <2>2, ElementOfSeq
<1> QED
  BY <1>3, <1>4

LEMMA EnteredTerms ==
    ASSUME TypeOK, NEW a
    PROVE  /\ IsFiniteSet(BetKeys) /\ IsFiniteSet(Entered(a))
           /\ \A key \in BetKeys : StakeOf[key] \in Nat
           /\ EnteredVolume(a) \in Int
<1>1. IsFiniteSet(BetKeys) /\ \A key \in BetKeys : BetAt(key) \in BetRecord
  BY BookOf DEF TypeOK, BetKeys, BetAt
<1>2. IsFiniteSet(Entered(a))
  BY <1>1, FS_Subset DEF Entered
<1>3. \A key \in BetKeys : StakeOf[key] \in Nat
  BY <1>1 DEF StakeOf, BetRecord
<1> QED
  BY <1>1, <1>2, <1>3, SumInt DEF EnteredVolume, Entered

LEMMA EnteredTermsNext ==
    ASSUME TypeOK', NEW a
    PROVE  /\ IsFiniteSet(BetKeys') /\ IsFiniteSet(Entered(a)')
           /\ \A key \in BetKeys' : StakeOf'[key] \in Nat
           /\ EnteredVolume(a)' \in Int
<1>1. IsFiniteSet(BetKeys') /\ \A key \in BetKeys' : BetAt(key)' \in BetRecord
  BY BookOf DEF TypeOK, BetKeys, BetAt
<1>2. IsFiniteSet(Entered(a)')
  BY <1>1, FS_Subset DEF Entered
<1>3. \A key \in BetKeys' : StakeOf'[key] \in Nat
  BY <1>1 DEF StakeOf, BetRecord
<1> QED
  BY <1>1, <1>2, <1>3, SumInt DEF EnteredVolume, Entered

\* No bet is taken off the book, and none changes its bettor or its stake.
BookGrows ==
    /\ BetKeys \subseteq BetKeys'
    /\ \A key \in BetKeys : /\ BetAt(key)'.bettor = BetAt(key).bettor
                            /\ BetAt(key)'.amount = BetAt(key).amount

\* After the step a thread that is recording owns the bet it owned, or one that is new.
OwnsAsBefore(t) ==
    pc'[t] \in Recording =>
      \/ /\ pc[t] \in Recording /\ Own(t)' = Own(t)
         /\ loc'[t].bettor = loc[t].bettor /\ loc'[t].amount = loc[t].amount
      \/ Own(t)' \notin BetKeys /\ Owns(t)'

LEMMA StakesKeptGrows == StakesKept => BookGrows /\ BetKeys' = BetKeys
<1> SUFFICES ASSUME StakesKept PROVE BookGrows /\ BetKeys' = BetKeys
  OBVIOUS
<1>1. \A m \in Markets : {<<m, k>> : k \in DOMAIN bets'[m]} = {<<m, k>> : k \in DOMAIN bets[m]}
  BY DEF StakesKept
<1>2. BetKeys' = BetKeys
  BY <1>1 DEF BetKeys
<1>3. ASSUME NEW key \in BetKeys
      PROVE  BetAt(key)'.bettor = BetAt(key).bettor /\ BetAt(key)'.amount = BetAt(key).amount
  <2>0. PICK m \in Markets : \E k \in DOMAIN bets[m] : key = <<m, k>>
    BY DEF BetKeys
  <2>1. PICK k \in DOMAIN bets[m] : key = <<m, k>>
    BY <2>0
  <2> QED
    BY <2>1 DEF BetAt, StakesKept
<1> QED
  BY <1>2, <1>3 DEF BookGrows

\* What is entered stays so, and a volume that was covered stays covered.
LEMMA EnteredGrows ==
    ASSUME TypeOK, TypeOK', NEW t \in Procs, OnlyMoves(t), BookGrows, OwnsAsBefore(t), NEW a
    PROVE  Entered(a) \subseteq Entered(a)' /\ EnteredVolume(a) <= EnteredVolume(a)'
<1>1. Entered(a) \subseteq Entered(a)'
  <2> SUFFICES ASSUME NEW key \in Entered(a), NEW u \in Procs, pc'[u] \in Recording
               PROVE  key # Own(u)'
    BY DEF Entered, BookGrows
  <2>1. key \in BetKeys /\ (pc[u] \in Recording => key # Own(u))
    BY DEF Entered
  <2>2. CASE u # t
    BY <2>1, <2>2 DEF OnlyMoves, Own
  <2>3. CASE u = t
    BY <2>1, <2>3 DEF OwnsAsBefore
  <2> QED
    BY <2>2, <2>3
<1>2. \A key \in Entered(a) : StakeOf'[key] = StakeOf[key]
  BY DEF BookGrows, Entered, StakeOf
<1>3. SumFunctionOnSet(StakeOf, Entered(a)) = SumFunctionOnSet(StakeOf', Entered(a))
  BY <1>2, EnteredTerms, SumSame
<1>4. SumFunctionOnSet(StakeOf', Entered(a)) <= SumFunctionOnSet(StakeOf', Entered(a)')
  <2>1. \A key \in Entered(a)' : StakeOf'[key] \in Nat
    BY EnteredTermsNext DEF Entered
  <2> QED
    BY <1>1, <2>1, EnteredTermsNext, SumSubset
<1> QED
  BY <1>1, <1>3, <1>4 DEF EnteredVolume

LEMMA VolumeStep ==
    ASSUME TypeInv, TypeInv', VolumeInv, NEW t \in Procs, OnlyMoves(t), BookGrows, OwnsAsBefore(t),
           pc'[t] = "bet_volume" => loc'[t].vol <= EnteredVolume(loc'[t].bettor),
           \A a \in Agents : stats'[a].volume <= EnteredVolume(a)'
    PROVE  VolumeInv'
<1> USE DEF TypeInv
<1>1. ASSUME NEW u \in Procs, pc[u] \in Recording PROVE Own(u) \in BetKeys
  <2>1. loc[u].m \in Markets /\ loc[u].n \in 1..Len(bets[loc[u].m])
    BY <1>1 DEF LocalsOK, ThreadOK, Recording
  <2>2. loc[u].n \in DOMAIN bets[loc[u].m]
    BY <2>1, DomainIsInterval
  <2> QED
    BY <2>1, <2>2 DEF Own, BetKeys
<1>2. \A u \in Procs \ {t} : /\ pc'[u] = pc[u] /\ loc'[u] = loc[u] /\ Own(u)' = Own(u)
  BY DEF OnlyMoves, Own
<1>3. ASSUME NEW u \in Procs, pc'[u] \in Recording PROVE Owns(u)'
  <2>1. CASE pc[u] \in Recording /\ Own(u)' = Own(u)
             /\ loc'[u].bettor = loc[u].bettor /\ loc'[u].amount = loc[u].amount
    <3>1. BetAt(Own(u))' = bets'[Own(u)[1]][Own(u)[2]]
      BY <2>1 DEF BetAt, Own
    <3> QED
      BY <1>1, <2>1, <3>1 DEF Owns, BookGrows, VolumeInv, BetAt
  <2> QED
    BY <1>2, <1>3, <2>1 DEF OwnsAsBefore
<1>4. ASSUME NEW u \in Procs, NEW v \in Procs, u # v, pc'[u] \in Recording, pc'[v] \in Recording
      PROVE  Own(u)' # Own(v)'
  BY <1>1, <1>2, <1>4 DEF OwnsAsBefore, VolumeInv
<1>5. ASSUME NEW u \in Procs, pc'[u] = "bet_volume", NEW a, a = loc'[u].bettor
      PROVE  loc'[u].vol <= EnteredVolume(a)'
  <2>1. loc'[u].vol <= EnteredVolume(a)
    BY <1>2, <1>5 DEF VolumeInv
  <2>2. EnteredVolume(a) <= EnteredVolume(a)' /\ EnteredVolume(a)' \in Int /\ EnteredVolume(a) \in Int
    BY EnteredGrows, EnteredTerms, EnteredTermsNext
  <2>3. loc'[u].vol \in Int
    BY DEF TypeOK, Locals
  <2> QED
    BY <2>1, <2>2, <2>3
<1>6. \A u \in Procs : pc'[u] = "bet_volume" => (loc[u].vol <= EnteredVolume(loc[u].bettor))'
  BY <1>5
<1> QED
  BY <1>3, <1>4, <1>6 DEF VolumeInv

VolumesKept == \A a \in Agents : stats'[a].volume = stats[a].volume

LEMMA QuietKeepsVolume ==
    ASSUME TypeInv, TypeInv', VolumeInv, NEW t \in Procs, OnlyMoves(t), BookGrows, OwnsAsBefore(t),
           pc'[t] = "bet_volume" => loc'[t].vol <= EnteredVolume(loc'[t].bettor),
           VolumesKept
    PROVE  VolumeInv'
<1> USE DEF TypeInv
<1>1. ASSUME NEW a \in Agents PROVE stats'[a].volume <= EnteredVolume(a)'
  <2>1. stats'[a].volume <= EnteredVolume(a) /\ stats'[a].volume \in Int
    BY DEF VolumeInv, VolumesKept, TypeOK, StatsRecord
  <2>2. EnteredVolume(a) <= EnteredVolume(a)' /\ EnteredVolume(a)' \in Int /\ EnteredVolume(a) \in Int
    BY EnteredGrows, EnteredTerms, EnteredTermsNext
  <2> QED
    BY <2>1, <2>2
<1> QED
  BY <1>1, VolumeStep

\* The new bet is owned by the handler that appended it.
LEMMA AppendKeepsVolume ==
    ASSUME TypeInv, TypeInv', VolumeInv, NEW t \in Procs, PlaceBetAppend(t)
    PROVE  VolumeInv'
<1> USE DEF TypeInv
<1> DEFINE l == loc[t]
           n == Len(bets[l.m]) + 1
<1>1. /\ l.m \in Markets /\ n \notin DOMAIN bets[l.m]
      /\ DOMAIN bets'[l.m] = DOMAIN bets[l.m] \cup {n}
      /\ \A k \in DOMAIN bets[l.m] : bets'[l.m][k] = bets[l.m][k]
      /\ \A m \in Markets : m # l.m => bets'[m] = bets[m]
      /\ bets'[l.m][n].bettor = l.bettor /\ bets'[l.m][n].amount = l.amount
      /\ OnlyMoves(t) /\ pc'[t] = "bet_pool" /\ loc'[t] = [l EXCEPT !.n = n]
  BY AppendEffect
<1>2. l \in Locals /\ n \in Nat
  BY <1>1, DomainIsInterval DEF TypeOK
<1>3. /\ loc'[t].m = l.m /\ loc'[t].n = n
      /\ loc'[t].bettor = l.bettor /\ loc'[t].amount = l.amount
  BY <1>1, <1>2 DEF Locals
<1>4. stats' = stats
  BY DEF PlaceBetAppend
<1> HIDE DEF l, n
<1>5. BookGrows
  <2> SUFFICES ASSUME NEW key \in BetKeys
               PROVE  /\ key \in BetKeys'
                      /\ BetAt(key)'.bettor = BetAt(key).bettor
                      /\ BetAt(key)'.amount = BetAt(key).amount
    BY DEF BookGrows
  <2>1. PICK m \in Markets : \E k \in DOMAIN bets[m] : key = <<m, k>>
    BY DEF BetKeys
  <2>2. PICK k \in DOMAIN bets[m] : key = <<m, k>>
    BY <2>1
  <2>3. k \in DOMAIN bets'[m] /\ bets'[m][k] = bets[m][k]
    BY <1>1
  <2> QED
    BY <2>2, <2>3 DEF BetKeys, BetAt
<1>6. OwnsAsBefore(t)
  <2>1. Own(t)' = <<l.m, n>>
    BY <1>3 DEF Own
  <2>2. <<l.m, n>> \notin BetKeys
    BY <1>1 DEF BetKeys
  <2>3. BetAt(Own(t))' = bets'[l.m][n]
    BY <2>1 DEF BetAt
  <2> QED
    BY <1>1, <1>3, <2>1, <2>2, <2>3 DEF OwnsAsBefore, Owns
<1> QED
  BY <1>1, <1>4, <1>5, <1>6, QuietKeepsVolume DEF VolumesKept

\* The volume read before is covered by other bets than the one that is now entered.
LEMMA RecordKeepsVolume ==
    ASSUME TypeInv, TypeInv', VolumeInv, NEW t \in Procs, RecordAgentBetVolume(t)
    PROVE  VolumeInv'
<1> USE DEF TypeInv
<1> DEFINE l == loc[t]
<1>1. /\ stats' = [stats EXCEPT ![l.bettor] = [stats[l.bettor] EXCEPT !.volume = l.vol + l.amount]]
      /\ Goto(t, "idle", NoLocals) /\ pc[t] = "bet_volume" /\ ~PlaceBetAppend(t)
  BY DEF RecordAgentBetVolume, Return, PlaceBetAppend
<1>2. OnlyMoves(t) /\ pc'[t] = "idle"
  BY <1>1, GotoMoves
<1>3. StakesKept
  BY <1>1, BetKeepsStakes DEF PlaceBet
<1>4. BookGrows /\ BetKeys' = BetKeys
  BY <1>3, StakesKeptGrows
<1>5. /\ l.bettor \in Agents /\ l.vol \in Nat /\ l.amount \in Nat
      /\ l.m \in Markets /\ l.n \in DOMAIN bets[l.m]
  <2>1. l \in Locals /\ ThreadOK("bet_volume", l, bets)
    BY <1>1 DEF LocalsOK, TypeOK
  <2>2. l.m \in Markets /\ l.n \in 1..Len(bets[l.m])
    BY <2>1 DEF ThreadOK
  <2> HIDE DEF l
  <2> QED
    BY <2>1, <2>2, DomainIsInterval DEF ThreadOK, Locals
<1>6. Own(t) \in BetKeys /\ BetAt(Own(t)).bettor = l.bettor /\ BetAt(Own(t)).amount = l.amount
  <2>1. Own(t) \in BetKeys
    BY <1>5 DEF Own, BetKeys
  <2> QED
    BY <1>1, <2>1 DEF VolumeInv, Recording, Owns
<1>7. OwnsAsBefore(t)
  BY <1>2 DEF OwnsAsBefore, Recording
<1>8. ASSUME NEW a \in Agents, a # l.bettor PROVE stats'[a].volume <= EnteredVolume(a)'
  <2>1. stats'[a] = stats[a]
    BY <1>1, <1>8 DEF TypeOK
  <2>2. stats'[a].volume <= EnteredVolume(a) /\ stats'[a].volume \in Int
    BY <2>1 DEF VolumeInv, TypeOK, StatsRecord
  <2>3. EnteredVolume(a) <= EnteredVolume(a)' /\ EnteredVolume(a)' \in Int /\ EnteredVolume(a) \in Int
    BY <1>2, <1>4, <1>7, EnteredGrows, EnteredTerms, EnteredTermsNext
  <2> QED
    BY <2>2, <2>3
<1>9. ASSUME NEW a \in Agents, a = l.bettor PROVE stats'[a].volume <= EnteredVolume(a)'
  <2> DEFINE S == Entered(a) \cup {Own(t)}
  <2>1. Own(t) \notin Entered(a)
    BY <1>1 DEF Entered, Recording
  <2>2. S \subseteq Entered(a)'
    <3>1. Own(t) \in BetKeys' /\ BetAt(Own(t)) = bets[Own(t)[1]][Own(t)[2]]
      BY <1>4, <1>6 DEF BetAt
    <3>2. \A u \in Procs : pc'[u] \in Recording => Own(t) # Own(u)'
      BY <1>1, <1>2 DEF VolumeInv, OnlyMoves, Own, Recording
    <3>3. ASSUME NEW key, key = Own(t) PROVE key \in Entered(a)'
      <4>1. BetAt(key)'.bettor = a
        BY <1>4, <1>6, <1>9, <3>3 DEF BookGrows
      <4> QED
        BY <3>1, <3>2, <3>3, <4>1 DEF Entered
    <3>4. Entered(a) \subseteq Entered(a)'
      BY <1>2, <1>4, <1>7, EnteredGrows
    <3> QED
      BY <3>3, <3>4
  <2>3. \A key \in Entered(a) : StakeOf'[key] = StakeOf[key] /\ StakeOf'[key] \in Nat
    <3>1. \A key \in Entered(a) : StakeOf'[key] = StakeOf[key]
      BY <1>4 DEF BookGrows, Entered, StakeOf
    <3> QED
      BY <3>1, EnteredTerms DEF Entered
  <2>4. StakeOf'[Own(t)] = l.amount
    <3>1. ASSUME NEW key, key = Own(t) PROVE StakeOf'[key] = l.amount
      BY <1>4, <1>6, <3>1 DEF BookGrows, StakeOf
    <3> QED
      BY <3>1
  <2>5. SumFunctionOnSet(StakeOf', Entered(a)) = EnteredVolume(a)
    BY <2>3, EnteredTerms, SumSame DEF EnteredVolume
  <2>6. SumFunctionOnSet(StakeOf', S) = EnteredVolume(a) + l.amount
    BY <1>5, <2>1, <2>3, <2>4, <2>5, EnteredTerms, SumAdd
  <2>7. SumFunctionOnSet(StakeOf', S) <= EnteredVolume(a)'
    <3>1. \A key \in Entered(a)' : StakeOf'[key] \in Nat
      BY EnteredTermsNext DEF Entered
    <3> HIDE DEF S
    <3> QED
      BY <2>2, <3>1, EnteredTermsNext, SumSubset DEF EnteredVolume
  <2>8. stats'[a].volume = l.vol + l.amount
    <3>1. stats[a] \in StatsRecord
      BY DEF TypeOK
    <3>2. stats'[a] = [stats[a] EXCEPT !.volume = l.vol + l.amount]
      BY <1>1, <1>9 DEF TypeOK
    <3> QED
      BY <3>1, <3>2 DEF StatsRecord
  <2>9. l.vol <= EnteredVolume(a)
    BY <1>1, <1>9 DEF VolumeInv
  <2> HIDE DEF l
  <2> QED
    BY <1>5, <2>6, <2>7, <2>8, <2>9, EnteredTerms, EnteredTermsNext
<1> QED
  BY <1>2, <1>4, <1>7, <1>8, <1>9, VolumeStep

LEMMA BetKeepsVolume ==
    ASSUME TypeInv, TypeInv', VolumeInv, NEW t \in Procs, PlaceBet(t)
    PROVE  VolumeInv'
<1> USE DEF TypeInv
<1> DEFINE l == loc[t]
<1>0. ASSUME NEW p, NEW r, Goto(t, p, r), ~PlaceBetAppend(t), VolumesKept,
             p \in Recording => /\ pc[t] \in Recording /\ r.m = l.m /\ r.n = l.n
                                /\ r.bettor = l.bettor /\ r.amount = l.amount,
             p = "bet_volume" => r.vol <= EnteredVolume(r.bettor)
      PROVE  VolumeInv'
  <2>1. OnlyMoves(t) /\ pc'[t] = p /\ loc'[t] = r
    BY <1>0, GotoMoves
  <2>2. BookGrows
    BY <1>0, BetKeepsStakes, StakesKeptGrows
  <2>3. OwnsAsBefore(t)
    BY <1>0, <2>1 DEF OwnsAsBefore, Own
  <2> QED
    BY <1>0, <2>1, <2>2, <2>3, QuietKeepsVolume
<1>1. CASE PlaceBetCheck(t)
  <2>1. /\ \E r : Goto(t, "bet_lock", r)
        /\ stats' = stats /\ ~PlaceBetAppend(t)
    BY <1>1 DEF PlaceBetCheck, PlaceBetAppend
  <2> QED
    BY <1>0, <2>1 DEF VolumesKept, Recording
<1>2. CASE PlaceBetAppend(t)
  BY <1>2, AppendKeepsVolume
<1>3. CASE PlaceBetPool(t)
  <2>1. /\ Goto(t, "idle", NoLocals) \/ Goto(t, "bet_agent", l)
        /\ stats' = stats /\ pc[t] = "bet_pool" /\ ~PlaceBetAppend(t)
    BY <1>3 DEF PlaceBetPool, PlaceBetAppend, Return
  <2> QED
    BY <1>0, <2>1 DEF VolumesKept, Recording
<1>4. CASE RecordAgentBetCount(t)
  <2>1. pc[t] = "bet_agent" /\ ~PlaceBetAppend(t)
    BY <1>4 DEF RecordAgentBetCount, PlaceBetAppend
  <2>2. l \in Locals /\ l.bettor \in Agents
    BY <2>1 DEF TypeOK, LocalsOK, ThreadOK
  <2>3. CASE l.bettor \in registered \cap tracked
    <3> DEFINE r == [l EXCEPT !.vol = stats[l.bettor].volume]
    <3>1. /\ stats' = [stats EXCEPT ![l.bettor] =
                         [stats[l.bettor] EXCEPT !.total_bets = stats[l.bettor].total_bets + 1]]
          /\ Goto(t, "bet_volume", r)
      BY <1>4, <2>3 DEF RecordAgentBetCount
    <3>2. VolumesKept
      <4>1. \A a \in Agents : stats[a] \in StatsRecord
        BY DEF TypeOK
      <4> QED
        BY <3>1, <4>1 DEF VolumesKept, TypeOK, StatsRecord
    <3>3. /\ r.m = l.m /\ r.n = l.n /\ r.bettor = l.bettor /\ r.amount = l.amount
          /\ r.vol = stats[l.bettor].volume
      BY <2>2 DEF Locals
    <3>4. r.vol <= EnteredVolume(r.bettor)
      BY <2>2, <3>3 DEF VolumeInv
    <3> HIDE DEF r, l
    <3> QED
      BY <1>0, <2>1, <3>1, <3>2, <3>3, <3>4 DEF Recording, l
  <2>4. CASE l.bettor \notin registered \cap tracked
    <3>1. Goto(t, "idle", NoLocals) /\ stats' = stats
      BY <1>4, <2>4 DEF RecordAgentBetCount, Return
    <3> QED
      BY <1>0, <2>1, <3>1 DEF VolumesKept, Recording
  <2> QED
    BY <2>3, <2>4
<1>5. CASE RecordAgentBetVolume(t)
  BY <1>5, RecordKeepsVolume
<1> QED
  BY <1>1, <1>2, <1>3, <1>4, <1>5 DEF PlaceBet

LEMMA ResolveKeepsVolume ==
    ASSUME TypeInv, TypeInv', VolumeInv, NEW t \in Procs,
           ResolveCheck(t) \/ ResolveDueStart(t) \/ ResolveSteps(t)
    PROVE  VolumeInv'
<1> USE DEF TypeInv
<1>1. OnlyMoves(t) /\ pc[t] \notin Betting /\ pc'[t] \notin Betting
  BY ResolverStaysAside
<1>2. BookGrows
  BY ResolveKeepsStakes, StakesKeptGrows
<1>3. OwnsAsBefore(t)
  BY <1>1 DEF OwnsAsBefore, Betting, Recording
<1>4. VolumesKept
  <2>1. CASE stats' = stats
    BY <2>1 DEF VolumesKept
  <2>2. CASE RecordAgentSettlement(t) /\ stats' # stats
    <3> DEFINE bet == bets[loc[t].m][loc[t].i]
               w == bet.bettor
    <3>1. PICK won \in BOOLEAN :
            stats' = [stats EXCEPT ![w] = WithResult(stats[w], bet, loc[t].pay, won)]
      BY <2>2 DEF RecordAgentSettlement
    <3>2. \A a \in Agents : stats[a] \in StatsRecord
      BY DEF TypeOK
    <3>3. \A a \in Agents : WithResult(stats[a], bet, loc[t].pay, won).volume = stats[a].volume
      BY <3>2 DEF WithResult, StatsRecord
    <3> QED
      BY <3>1, <3>3 DEF VolumesKept, TypeOK
  <2> QED
    BY <2>1, <2>2 DEF ResolveCheck, ResolveDueStart, ResolveSteps, ResolvePublish,
       ResolvePriceFails, CalculatePayout, WritePayout, SettlementDone, RecordNext,
       RecordFails, ResolveFinish, ResolveDueSkip, ResolveDueCall
<1> QED
  BY <1>1, <1>2, <1>3, <1>4, QuietKeepsVolume DEF Betting

LEMMA InitVolume == Init => VolumeInv
<1> SUFFICES ASSUME Init PROVE VolumeInv
  OBVIOUS
<1>1. \A t \in Procs : pc[t] = "idle"
  BY DEF Init
<1>2. ASSUME NEW a \in Agents PROVE stats[a].volume <= EnteredVolume(a)
  <2>1. BetKeys = {}
    BY DEF Init, BetKeys
  <2>2. Entered(a) = {}
    BY <2>1 DEF Entered
  <2>3. EnteredVolume(a) = 0
    BY <2>2, SumEmpty DEF EnteredVolume
  <2> QED
    BY <2>3 DEF Init, NewStats
<1> QED
  BY <1>1, <1>2 DEF VolumeInv, Recording

LEMMA NextVolume == TypeInv /\ VolumeInv /\ [Next]_vars => VolumeInv'
<1> SUFFICES ASSUME TypeInv, VolumeInv, [Next]_vars PROVE VolumeInv'
  OBVIOUS
<1>0. TypeInv'
  BY NextType
<1>1. CASE UNCHANGED <<bets, stats, pc, loc>>
  <2>1. BetKeys' = BetKeys /\ \A key : BetAt(key)' = BetAt(key)
    BY <1>1 DEF BetKeys, BetAt
  <2>2. \A t : Own(t)' = Own(t) /\ Owns(t)' = Owns(t)
    BY <1>1, <2>1 DEF Own, Owns, BetAt
  <2>3. StakeOf' = StakeOf
    BY <2>1 DEF StakeOf
  <2>4. \A a : Entered(a)' = Entered(a)
    BY <1>1, <2>1, <2>2 DEF Entered
  <2>5. \A a : EnteredVolume(a)' = EnteredVolume(a)
    BY <2>3, <2>4 DEF EnteredVolume
  <2> QED
    BY <1>1, <2>2, <2>5 DEF VolumeInv
<1>2. ASSUME NEW a \in Agents, RegisterAgent(a) \/ EnsureAgentStats(a) PROVE VolumeInv'
  BY <1>1, <1>2 DEF RegisterAgent, EnsureAgentStats, ledger
<1>3. CASE Tick \/ UNCHANGED vars
  BY <1>1, <1>3 DEF Tick, vars, ledger
<1> QED
  BY <1>0, <1>2, <1>3, BetKeepsVolume, ResolveKeepsVolume DEF Next

\* Two bets of an agent may overwrite each other's addition to its volume, but no volume is
\* ever more than the stakes of the agent's bets.
THEOREM VolumeIsCovered == Spec => []VolumeNotInflated
<1>1. Spec => [](TypeInv /\ VolumeInv)
  BY InitType, NextType, InitVolume, NextVolume, PTL DEF Spec
<1>2. TypeInv /\ VolumeInv => VolumeNotInflated
  <2> SUFFICES ASSUME TypeInv, VolumeInv, NEW a \in Agents
               PROVE  stats[a].volume <= SumFunctionOnSet(StakeOf, {key \in BetKeys : BetAt(key).bettor = a})
    BY DEF VolumeNotInflated, StakeOf
  <2> DEFINE S == {key \in BetKeys : BetAt(key).bettor = a}
  <2>1. IsFiniteSet(S) /\ \A key \in S : StakeOf[key] \in Nat
    BY EnteredTerms, FS_Subset DEF TypeInv
  <2>2. Entered(a) \subseteq S
    BY DEF Entered
  <2> HIDE DEF S
  <2>3. EnteredVolume(a) <= SumFunctionOnSet(StakeOf, S) /\ SumFunctionOnSet(StakeOf, S) \in Int
    BY <2>1, <2>2, SumSubset, SumInt DEF EnteredVolume
  <2>4. stats[a].volume \in Int /\ EnteredVolume(a) \in Int
    BY EnteredTerms, SMTT(30) DEF TypeInv, TypeOK, StatsRecord
  <2> QED
    <3>1. stats[a].volume <= EnteredVolume(a)
      BY DEF VolumeInv
    <3>2. stats[a].volume <= SumFunctionOnSet(StakeOf, S)
      BY <2>3, <2>4, <3>1
    <3> QED
      BY <3>2 DEF S
<1> QED
  BY <1>1, <1>2, PTL
=============================================================================
