-------------------------- MODULE MarketPoolProofs --------------------------
(* What holds of MarketPool for every value of its constants. *)
EXTENDS MarketPool, SumProofs

----------------------------------------------------------------------------
(* The arithmetic of PoolMath, for every amount *)

\* op.sqrt has a value: the predecessor of the least root that is too large.
LEMMA IsqrtCorrect ==
    ASSUME NEW n \in Nat
    PROVE  /\ Isqrt(n) \in 0..n
           /\ Isqrt(n) * Isqrt(n) <= n
           /\ n < (Isqrt(n) + 1) * (Isqrt(n) + 1)
<1> DEFINE S == {r \in Nat : n < (r + 1) * (r + 1)}
<1>1. n < (n + 1) * (n + 1)
  <2>1. (n + 1) * (n + 1) = n * n + 2 * n + 1 /\ n * n >= 0
    BY SMT
  <2> QED
    BY <2>1
<1>2. PICK r \in S : \A y \in S : r <= y
  <2>1. S \in SUBSET Nat /\ S # {}
    BY <1>1
  <2> QED
    BY <2>1, LeastNatural
<1>3. r * r <= n
  <2>1. CASE r = 0
    BY <2>1
  <2>2. CASE r # 0
    <3>1. r - 1 \in Nat /\ r - 1 \notin S
      BY <1>2, <2>2
    <3>2. ~(n < r * r)
      <4>1. (r - 1) + 1 = r
        BY <1>2
      <4> QED
        BY <3>1, <4>1
    <3> QED
      BY <1>2, <3>2
  <2> QED
    BY <2>1, <2>2
<1>4. r \in 0..n
  <2>1. CASE r = 0
    BY <2>1
  <2>2. CASE r >= 1
    <3>1. r * r >= r
      BY <1>2, <2>2, SMT
    <3> QED
      BY <1>2, <1>3, <3>1
  <2> QED
    BY <1>2, <2>1, <2>2
<1>5. \E x \in 0..n : x * x <= n /\ n < (x + 1) * (x + 1)
  BY <1>2, <1>3, <1>4
<1> QED
  BY <1>5 DEF Isqrt

LEMMA IsqrtMonotone ==
    ASSUME NEW a \in Nat, NEW b \in Nat, a <= b
    PROVE  Isqrt(a) <= Isqrt(b)
<1> DEFINE x == Isqrt(a)
           y == Isqrt(b)
<1>1. x \in Nat /\ y \in Nat /\ x * x <= a /\ b < (y + 1) * (y + 1)
  BY IsqrtCorrect
<1> HIDE DEF x, y
<1>2. SUFFICES ASSUME x >= y + 1 PROVE FALSE
  BY <1>1 DEF x, y
<1>3. x * x >= (y + 1) * (y + 1)
  BY <1>1, <1>2, SMT
<1> QED
  BY <1>1, <1>3

LEMMA ProductNat ==
    ASSUME NEW x \in Nat, NEW y \in Nat
    PROVE  x * y \in Nat
  BY SMT

LEMMA ProductMonotone ==
    ASSUME NEW x \in Nat, NEW y \in Nat, NEW z \in Nat, x <= y
    PROVE  z * x <= z * y
  BY SMT

\* Rounding a quotient down: at most q, when the dividend is at most q divisors.
LEMMA QuotientBound ==
    ASSUME NEW n \in Nat, NEW d \in Nat \ {0}, NEW q \in Nat, n <= q * d
    PROVE  n \div d \in Nat /\ n \div d <= q
<1> DEFINE k == n \div d
<1>1. k \in Int /\ n = d * k + (n % d) /\ n % d \in 0..(d - 1)
  BY SMT
<1> HIDE DEF k
<1>2. k >= 0
  <2>1. SUFFICES ASSUME k <= -1 PROVE FALSE
    BY <1>1
  <2>2. d * k <= -d
    BY <1>1, <2>1, SMT
  <2> QED
    BY <1>1, <2>2
<1>3. k <= q
  <2>1. SUFFICES ASSUME k >= q + 1 PROVE FALSE
    BY <1>1
  <2>2. d * k >= d * (q + 1) /\ d * (q + 1) = q * d + d
    BY <1>1, <2>1, SMT
  <2> QED
    BY <1>1, <2>2
<1> QED
  BY <1>1, <1>2, <1>3 DEF k

\* The divisor of _calc_shares is never zero for a bet that adds something.
LEMMA DivisorPositive ==
    ASSUME NEW total \in Nat \ {0}
    PROVE  total * SqrtScale \in Nat \ {0} /\ Isqrt(total * SqrtScale) \in Nat \ {0}
<1>1. total * SqrtScale \in Nat /\ total * SqrtScale >= 1
  BY PoolMathAssumption, SMT
<1>2. Isqrt(total * SqrtScale) # 0
  <2>1. SUFFICES ASSUME Isqrt(total * SqrtScale) = 0 PROVE FALSE
    OBVIOUS
  <2>2. total * SqrtScale < (0 + 1) * (0 + 1)
    BY <1>1, <2>1, IsqrtCorrect
  <2> QED
    BY <1>1, <2>2
<1>3. Isqrt(total * SqrtScale) \in Nat
  BY <1>1, IsqrtCorrect
<1> QED
  BY <1>1, <1>2, <1>3

LEMMA SharesNat ==
    ASSUME NEW amount \in Nat \ {0}, NEW own \in Nat, NEW other \in Nat
    PROVE  CalcShares(amount, own, other) \in Nat
<1> DEFINE n == amount * Isqrt(other * SqrtScale)
           d == Isqrt((own + amount) * SqrtScale)
<1>1. own + amount \in Nat \ {0} /\ other * SqrtScale \in Nat
  BY PoolMathAssumption, ProductNat
<1>2. d \in Nat \ {0}
  BY <1>1, DivisorPositive
<1>3. n \in Nat
  <2>1. Isqrt(other * SqrtScale) \in Nat
    BY <1>1, IsqrtCorrect
  <2> QED
    BY <2>1, ProductNat
<1>4. CalcShares(amount, own, other) = n \div d
  BY DEF CalcShares
<1> HIDE DEF n, d
<1>5. n <= n * d
  BY <1>2, <1>3, SMT
<1> QED
  BY <1>2, <1>3, <1>4, <1>5, QuotientBound

\* A bet that leaves its side the larger one buys no more shares than its amount:
\* shares are worth more than the stake only on the side that stays behind.
THEOREM FavouriteBuysNoMoreThanItsStake ==
    ASSUME NEW amount \in Nat \ {0}, NEW own \in Nat, NEW other \in Nat,
           other <= own + amount
    PROVE  CalcShares(amount, own, other) <= amount
<1> DEFINE x == Isqrt(other * SqrtScale)
           d == Isqrt((own + amount) * SqrtScale)
<1>1. own + amount \in Nat \ {0} /\ other * SqrtScale \in Nat
  BY PoolMathAssumption, ProductNat
<1>2. d \in Nat \ {0} /\ (own + amount) * SqrtScale \in Nat
  BY <1>1, DivisorPositive
<1>3. other * SqrtScale <= (own + amount) * SqrtScale
  <2>1. own + amount \in Nat /\ SqrtScale \in Nat
    BY <1>1, PoolMathAssumption
  <2>2. SqrtScale * other <= SqrtScale * (own + amount)
    BY <2>1, ProductMonotone
  <2> QED
    BY <2>1, <2>2, SMT
<1>4. x <= d
  BY <1>1, <1>2, <1>3, IsqrtMonotone
<1>5. x \in Nat
  BY <1>1, IsqrtCorrect
<1>6. CalcShares(amount, own, other) = (amount * x) \div d
  BY DEF CalcShares
<1> HIDE DEF x, d
<1>7. amount * x \in Nat /\ amount * x <= amount * d
  BY <1>2, <1>4, <1>5, ProductNat, ProductMonotone
<1> QED
  BY <1>2, <1>6, <1>7, QuotientBound

\* The fee is part of the pool.
LEMMA FeeWithinPool ==
    ASSUME NEW total \in Nat
    PROVE  Fee(total) \in Nat /\ Fee(total) <= total
<1>1. FeeBps \in Nat /\ BpsBase \in Nat \ {0} /\ FeeBps <= BpsBase
  BY PoolMathAssumption
<1>2. total * FeeBps \in Nat /\ total * FeeBps <= total * BpsBase
  BY <1>1, ProductNat, ProductMonotone
<1> QED
  BY <1>1, <1>2, QuotientBound DEF Fee

\* A claim is worth a natural number, and nothing without shares of the winning side.
LEMMA ClaimNat ==
    ASSUME NEW won \in Nat, NEW winning \in Nat \ {0}, NEW losing \in Nat
    PROVE  /\ ClaimPayout(won, winning, losing) \in Nat
           /\ ClaimPayout(won, winning, losing) > 0 => won > 0
<1>1. CASE won = 0
  BY <1>1 DEF ClaimPayout
<1>2. CASE won > 0
  <2> DEFINE total == winning + losing
             n == won * (total - Fee(total))
  <2>1. total \in Nat
    OBVIOUS
  <2>2. total - Fee(total) \in Nat
    BY <2>1, FeeWithinPool
  <2>3. n \in Nat
    BY <2>2, ProductNat
  <2>4. ClaimPayout(won, winning, losing) = n \div winning
    BY <1>2 DEF ClaimPayout
  <2> HIDE DEF n
  <2>5. n <= n * winning
    BY <2>3, SMT
  <2> QED
    BY <1>2, <2>3, <2>4, <2>5, QuotientBound
<1> QED
  BY <1>1, <1>2

----------------------------------------------------------------------------
(* What the proofs keep *)

\* One account's part of the contract's story.  Who is out holds nothing; before
\* the resolution nobody is paid; who was paid has claimed, or has left and cannot
\* get shares again.
AccountOK(b) ==
    /\ b \notin opted => shares[b] = NoShares /\ ~claimed[b]
    /\ ~resolved => paid[b] = 0 /\ ~claimed[b]
    /\ paid[b] # 0 => claimed[b] \/ shares[b] = NoShares

AccountsOK == \A b \in Bettors : AccountOK(b)

\* What the proofs about payments need of the terms: the claims already made.
PaidInv == TypeOK /\ AccountsOK /\ SameTermsForAll

----------------------------------------------------------------------------
(* What an action does to the amounts *)

\* The amounts of a claim are natural numbers, and only winning shares are paid.
LEMMA ClaimAmounts ==
    ASSUME TypeOK, NEW b \in Bettors
    PROVE  /\ shares[b][outcome] \in Nat
           /\ Fee(pool[outcome] + pool[~outcome]) \in Nat
           /\ ClaimPayout(shares[b][outcome], pool[outcome], pool[~outcome]) \in Nat
           /\ ClaimPayout(shares[b][outcome], pool[outcome], pool[~outcome]) # 0
                => shares[b][outcome] > 0
<1> DEFINE won == shares[b][outcome]
           win == pool[outcome]
           lose == pool[~outcome]
<1>1. outcome \in Sides /\ (~outcome) \in Sides
  BY DEF TypeOK, Sides
<1>2. won \in UInt64 /\ win \in SeedPool..MaxUInt64 /\ lose \in SeedPool..MaxUInt64
  BY <1>1 DEF TypeOK
<1>3. SeedPool \in Nat \ {0}
  BY PoolAssumption DEF UInt64
<1> HIDE DEF won, win, lose
<1>4. won \in Nat /\ win \in Nat \ {0} /\ lose \in Nat
  BY <1>2, <1>3 DEF UInt64
<1>5. win + lose \in Nat
  BY <1>4
<1>6. Fee(win + lose) \in Nat
  BY <1>5, FeeWithinPool
<1>7. ClaimPayout(won, win, lose) \in Nat /\ (ClaimPayout(won, win, lose) > 0 => won > 0)
  BY <1>4, ClaimNat
<1> QED
  BY <1>4, <1>6, <1>7 DEF won, win, lose

\* The shares a bet buys are a natural number.
LEMMA BoughtNat ==
    ASSUME TypeOK, NEW side \in Sides, NEW amount \in Nat, amount >= MinBet
    PROVE  CalcShares(amount, pool[side], pool[~side]) \in Nat
<1>1. (~side) \in Sides
  BY DEF Sides
<1>2. pool[side] \in Nat /\ pool[~side] \in Nat
  <2>1. pool[side] \in SeedPool..MaxUInt64 /\ pool[~side] \in SeedPool..MaxUInt64
    BY <1>1 DEF TypeOK
  <2> QED
    BY <2>1, PoolAssumption DEF UInt64
<1>3. amount \in Nat \ {0}
  BY PoolAssumption
<1> QED
  BY <1>2, <1>3, SharesNat

----------------------------------------------------------------------------
(* Type correctness *)

LEMMA InitType == Init => TypeOK
<1> SUFFICES ASSUME Init PROVE TypeOK
  OBVIOUS
<1>1. 0 \in UInt64 /\ SeedPool \in SeedPool..MaxUInt64
  BY PoolAssumption, PoolMathAssumption DEF UInt64
<1> QED
  BY <1>1, PoolAssumption DEF Init, TypeOK, NoShares, Sides

\* No call takes a quantity out of its range; the account in particular never pays
\* more than it has.
LEMMA NextType == TypeOK /\ [Next]_vars => TypeOK'
<1> SUFFICES ASSUME TypeOK, [Next]_vars PROVE TypeOK'
  OBVIOUS
<1>0. 0 \in UInt64 /\ NoShares \in [Sides -> UInt64]
  BY PoolMathAssumption DEF UInt64, NoShares
<1>1. ASSUME NEW b \in Bettors, OptIn(b) PROVE TypeOK'
  BY <1>0, <1>1 DEF OptIn, TypeOK
<1>2. ASSUME NEW b \in Bettors, ClearState(b) PROVE TypeOK'
  BY <1>0, <1>2 DEF ClearState, TypeOK
<1>3. ASSUME NEW b \in Bettors, ClaimWinnings(b) PROVE TypeOK'
  <2> DEFINE fee == Fee(pool[outcome] + pool[~outcome])
             payout == ClaimPayout(shares[b][outcome], pool[outcome], pool[~outcome])
  <2>1. fee \in Nat /\ payout \in Nat
    BY ClaimAmounts
  <2>2. /\ Covered(fee + payout)
        /\ claimed' = [claimed EXCEPT ![b] = TRUE]
        /\ balance' = balance - fee - payout
        /\ appId["fee_vault"] # None
        /\ fees' = [fees EXCEPT ![appId["fee_vault"]] = @ + fee]
        /\ paid' = [paid EXCEPT ![b] = @ + payout]
        /\ UNCHANGED <<pool, total_bets, resolved, outcome, opted, shares, appId, now>>
    BY <1>3 DEF ClaimWinnings
  <2> HIDE DEF fee, payout
  <2>3. balance' \in Nat
    BY <2>1, <2>2, PoolAssumption DEF Covered, TypeOK
  <2>4. appId["fee_vault"] \in AppIds
    BY <2>2 DEF TypeOK, Roles
  <2>5. fees' \in [AppIds -> Nat] /\ paid' \in [Bettors -> Nat]
    BY <2>1, <2>2, <2>4 DEF TypeOK
  <2> QED
    BY <2>2, <2>3, <2>5 DEF TypeOK
<1>4. ASSUME NEW b \in Bettors, NEW side \in Sides, NEW amount \in Amounts,
             PlaceBet(b, side, amount)
      PROVE  TypeOK'
  <2> DEFINE bought == CalcShares(amount, pool[side], pool[~side])
  <2>1. /\ pool[side] + amount \in UInt64
        /\ shares[b][side] + bought \in UInt64
        /\ pool' = [pool EXCEPT ![side] = @ + amount]
        /\ shares' = [shares EXCEPT ![b][side] = @ + bought]
        /\ total_bets' = total_bets + 1
        /\ balance' = balance + amount
        /\ UNCHANGED <<resolved, outcome, opted, claimed, appId, fees, paid, now>>
    BY <1>4 DEF PlaceBet
  <2> HIDE DEF bought
  <2>2. amount \in Nat /\ SeedPool \in Nat
    BY PoolAssumption DEF UInt64
  <2>3. pool' \in [Sides -> SeedPool..MaxUInt64] /\ shares' \in [Bettors -> [Sides -> UInt64]]
    BY <2>1, <2>2 DEF TypeOK, UInt64
  <2> QED
    BY <2>1, <2>2, <2>3 DEF TypeOK
<1>5. ASSUME NEW price \in FinalPrices, NEW oracle \in AppIds, Settle(price, oracle)
      PROVE  TypeOK'
  <2>1. (price >= ResolutionPrice) \in BOOLEAN
    OBVIOUS
  <2> QED
    BY <1>5, <2>1 DEF Settle, TypeOK
<1>6. ASSUME NEW role \in Roles, NEW app \in AppIds, RegisterContract(role, app)
      PROVE  TypeOK'
  BY <1>6 DEF RegisterContract, TypeOK
<1>7. CASE Tick
  BY <1>7 DEF Tick, TypeOK
<1>8. CASE UNCHANGED vars
  BY <1>8 DEF vars, TypeOK
<1> QED
  BY <1>1, <1>2, <1>3, <1>4, <1>5, <1>6, <1>7, <1>8 DEF Next

\* Every amount of the pool stays an unsigned 64-bit number, and the account's
\* balance never goes below zero.
THEOREM PoolTypeCorrect == Spec => []TypeOK
  BY InitType, NextType, PTL DEF Spec

----------------------------------------------------------------------------
(* Payments *)

LEMMA InitPaidInv == Init => PaidInv
<1> SUFFICES ASSUME Init PROVE PaidInv
  OBVIOUS
<1>1. TypeOK
  BY InitType
<1>2. AccountsOK /\ SameTermsForAll
  BY DEF Init, AccountsOK, AccountOK, SameTermsForAll
<1> QED
  BY <1>1, <1>2 DEF PaidInv

\* An account that claims was never paid before, so what it has then is the payout
\* of this claim and nothing else.
LEMMA ClaimPays ==
    ASSUME PaidInv, NEW b \in Bettors, ClaimWinnings(b)
    PROVE  /\ paid[b] = 0
           /\ ~claimed[b] /\ resolved /\ b \in opted
           /\ claimed' = [claimed EXCEPT ![b] = TRUE]
           /\ paid' = [paid EXCEPT ![b] =
                 ClaimPayout(shares[b][outcome], pool[outcome], pool[~outcome])]
           /\ UNCHANGED <<pool, resolved, outcome, opted, shares>>
<1> DEFINE payout == ClaimPayout(shares[b][outcome], pool[outcome], pool[~outcome])
<1>1. payout \in Nat
  BY ClaimAmounts DEF PaidInv
<1>2. /\ b \in opted /\ resolved /\ ~claimed[b]
      /\ shares[b][outcome] > 0 \/ shares[b][~outcome] > 0
      /\ claimed' = [claimed EXCEPT ![b] = TRUE]
      /\ paid' = [paid EXCEPT ![b] = @ + payout]
      /\ UNCHANGED <<pool, resolved, outcome, opted, shares>>
  BY DEF ClaimWinnings
<1> HIDE DEF payout
<1>3. shares[b] # NoShares
  <2>1. outcome \in Sides /\ (~outcome) \in Sides
    BY DEF PaidInv, TypeOK, Sides
  <2> QED
    BY <1>2, <2>1 DEF NoShares
<1>4. paid[b] = 0
  BY <1>2, <1>3 DEF PaidInv, AccountsOK, AccountOK
<1>5. paid' = [paid EXCEPT ![b] = payout]
  BY <1>1, <1>2, <1>4 DEF PaidInv, TypeOK
<1> QED
  BY <1>2, <1>4, <1>5 DEF payout

\* The terms of a claim are those of the pools and the shares; a step that moves
\* neither of them, nor what was paid, keeps the claims already made.
LEMMA NextPaidInv == PaidInv /\ [Next]_vars => PaidInv'
<1> SUFFICES ASSUME PaidInv, [Next]_vars PROVE AccountsOK' /\ SameTermsForAll'
  BY NextType DEF PaidInv
<1> USE DEF PaidInv, AccountsOK, AccountOK, SameTermsForAll
<1>0. /\ shares \in [Bettors -> [Sides -> UInt64]]
      /\ claimed \in [Bettors -> BOOLEAN]
      /\ paid \in [Bettors -> Nat]
  BY DEF TypeOK
<1>1. ASSUME NEW b \in Bettors, OptIn(b) PROVE AccountsOK' /\ SameTermsForAll'
  BY <1>0, <1>1 DEF OptIn
<1>2. ASSUME NEW b \in Bettors, ClearState(b) PROVE AccountsOK' /\ SameTermsForAll'
  BY <1>0, <1>2 DEF ClearState
<1>3. ASSUME NEW b \in Bettors, ClaimWinnings(b) PROVE AccountsOK' /\ SameTermsForAll'
  <2> DEFINE worth(a) == ClaimPayout(shares[a][outcome], pool[outcome], pool[~outcome])
  <2>1. /\ paid[b] = 0
        /\ ~claimed[b] /\ resolved /\ b \in opted
        /\ claimed' = [claimed EXCEPT ![b] = TRUE]
        /\ paid' = [paid EXCEPT ![b] = worth(b)]
        /\ UNCHANGED <<pool, resolved, outcome, opted, shares>>
    BY <1>3, ClaimPays
  <2>2. \A a \in Bettors : claimed[a] => paid[a] = worth(a)
    BY DEF SameTermsForAll
  <2>3. SameTermsForAll' <=> \A a \in Bettors : claimed'[a] => paid'[a] = worth(a)
    BY <2>1 DEF SameTermsForAll
  <2> HIDE DEF worth
  <2>4. \A a \in Bettors : claimed'[a] => paid'[a] = worth(a)
    BY <1>0, <2>1, <2>2
  <2>5. AccountsOK'
    BY <1>0, <2>1
  <2> QED
    BY <2>3, <2>4, <2>5
<1>4. ASSUME NEW b \in Bettors, NEW side \in Sides, NEW amount \in Amounts,
             PlaceBet(b, side, amount)
      PROVE  AccountsOK' /\ SameTermsForAll'
  <2>1. ~resolved /\ b \in opted
    BY <1>4 DEF PlaceBet
  <2>2. \A a \in Bettors : paid[a] = 0 /\ ~claimed[a]
    BY <2>1
  <2>3. UNCHANGED <<resolved, opted, claimed, paid>>
    BY <1>4 DEF PlaceBet
  <2>4. \A a \in Bettors : a \notin opted => shares'[a] = shares[a]
    BY <1>0, <1>4, <2>1 DEF PlaceBet
  <2> QED
    BY <2>2, <2>3, <2>4
<1>5. ASSUME NEW price \in FinalPrices, NEW oracle \in AppIds, Settle(price, oracle)
      PROVE  AccountsOK' /\ SameTermsForAll'
  <2>1. ~resolved
    BY <1>5 DEF Settle
  <2>2. \A a \in Bettors : paid[a] = 0 /\ ~claimed[a]
    BY <2>1
  <2> QED
    BY <1>5, <2>2 DEF Settle
<1>6. ASSUME NEW role \in Roles, NEW app \in AppIds, RegisterContract(role, app)
      PROVE  AccountsOK' /\ SameTermsForAll'
  BY <1>6 DEF RegisterContract
<1>7. CASE Tick
  BY <1>7 DEF Tick
<1>8. CASE UNCHANGED vars
  BY <1>8 DEF vars
<1> QED
  BY <1>1, <1>2, <1>3, <1>4, <1>5, <1>6, <1>7, <1>8 DEF Next

LEMMA PaidInvAlways == Spec => []PaidInv
  BY InitPaidInv, NextPaidInv, PTL DEF Spec

\* A claim is paid by the shares and the pools of the settlement, in whatever order
\* and however late the bettors claim.
THEOREM TermsAreTheSameForAll == Spec => []SameTermsForAll
<1>1. PaidInv => SameTermsForAll
  BY DEF PaidInv
<1> QED
  BY <1>1, PaidInvAlways, PTL

\* claim_winnings pays an account once, also when it clears its local state and
\* opts in again.
THEOREM NobodyIsPaidTwice == Spec => PaidOnce
<1> DEFINE Once == \A b \in Bettors : paid'[b] # paid[b] => paid[b] = 0
<1>1. PaidInv /\ [Next]_vars => [Once]_vars
  <2> SUFFICES ASSUME PaidInv, Next PROVE Once
    BY DEF vars
  <2>0. paid \in [Bettors -> Nat]
    BY DEF PaidInv, TypeOK
  <2>1. ASSUME NEW b \in Bettors, ClaimWinnings(b) PROVE Once
    <3>1. /\ paid[b] = 0
          /\ \A a \in Bettors : a # b => paid'[a] = paid[a]
      BY <2>0, <2>1, ClaimPays
    <3> QED
      BY <3>1
  <2>2. ASSUME NEW b \in Bettors, OptIn(b) \/ ClearState(b) PROVE Once
    BY <2>2 DEF OptIn, ClearState
  <2>3. ASSUME NEW b \in Bettors, NEW side \in Sides, NEW amount \in Amounts,
               PlaceBet(b, side, amount)
        PROVE  Once
    BY <2>3 DEF PlaceBet
  <2>4. ASSUME NEW price \in FinalPrices, NEW oracle \in AppIds, Settle(price, oracle)
        PROVE  Once
    BY <2>4 DEF Settle
  <2>5. ASSUME NEW role \in Roles, NEW app \in AppIds, RegisterContract(role, app)
        PROVE  Once
    BY <2>5 DEF RegisterContract
  <2>6. CASE Tick
    BY <2>6 DEF Tick
  <2> QED
    BY <2>1, <2>2, <2>3, <2>4, <2>5, <2>6 DEF Next
<1> QED
  BY <1>1, PaidInvAlways, PTL DEF Spec, PaidOnce

----------------------------------------------------------------------------
(* MarketPool implements BettingMarket *)

\* The abstract state, under the names the steps below use.
ResultBar == IF resolved THEN outcome ELSE None
HeldBar == {p \in Bettors \X Sides : shares[p[1]][p[2]] > 0}

LEMMA InitRefines == Init => Market!Init
<1> SUFFICES ASSUME Init PROVE Market!Init
  OBVIOUS
<1>1. HeldBar = {}
  BY DEF Init, HeldBar, NoShares
<1>2. ResultBar = None
  BY DEF Init, ResultBar
<1> QED
  BY <1>1, <1>2 DEF Init, Market!Init, HeldBar, ResultBar

\* The result the market has is a side, never the value that stands for none.
LEMMA ResultIsNotNone ==
    ASSUME TypeOK
    PROVE  (ResultBar = None) <=> ~resolved
  BY PoolAssumption DEF TypeOK, ResultBar

\* Every step of the contract is a step of the market or leaves it as it is.
LEMMA NextRefines ==
    ASSUME PaidInv, [Next]_vars
    PROVE  [Market!Next]_(Market!marketVars)
<1> DEFINE Stays == UNCHANGED <<ResultBar, HeldBar, paid>>
<1>0. /\ shares \in [Bettors -> [Sides -> UInt64]]
      /\ paid \in [Bettors -> Nat]
      /\ outcome \in Sides
  BY DEF PaidInv, TypeOK, Sides
<1>a. Stays => UNCHANGED Market!marketVars
  BY DEF Market!marketVars, ResultBar, HeldBar
<1>b. ASSUME NEW b \in Bettors, shares' = [shares EXCEPT ![b] = NoShares],
             UNCHANGED <<resolved, outcome, paid>>
      PROVE  Market!Leave(b)
  <2>1. HeldBar' = {p \in HeldBar : p[1] # b}
    BY <1>0, <1>b DEF HeldBar, NoShares
  <2>2. UNCHANGED <<ResultBar, paid>>
    BY <1>b DEF ResultBar
  <2> QED
    BY <2>1, <2>2 DEF Market!Leave, ResultBar, HeldBar
<1>1. ASSUME NEW b \in Bettors, OptIn(b) \/ ClearState(b) PROVE Market!Next
  BY <1>1, <1>b DEF OptIn, ClearState, Market!Next
<1>2. ASSUME NEW b \in Bettors, ClaimWinnings(b) PROVE Stays \/ Market!Next
  <2> DEFINE payout == ClaimPayout(shares[b][outcome], pool[outcome], pool[~outcome])
  <2>1. payout \in Nat /\ (payout # 0 => shares[b][outcome] > 0)
    BY ClaimAmounts DEF PaidInv
  <2>2. /\ paid[b] = 0 /\ resolved
        /\ paid' = [paid EXCEPT ![b] = payout]
        /\ UNCHANGED <<resolved, outcome, shares>>
    BY <1>2, ClaimPays
  <2> HIDE DEF payout
  <2>3. UNCHANGED <<ResultBar, HeldBar>>
    BY <2>2 DEF ResultBar, HeldBar
  <2>4. CASE payout = 0
    <3>1. paid' = paid
      BY <1>0, <2>2, <2>4
    <3> QED
      BY <2>3, <3>1
  <2>5. CASE payout # 0
    <3>1. paid'[b] \in Nat \ {0} /\ paid' = [paid EXCEPT ![b] = paid'[b]]
      BY <1>0, <2>1, <2>2, <2>5
    <3>2. ResultBar # None /\ ResultBar = outcome
      BY <2>2, ResultIsNotNone DEF PaidInv, ResultBar
    <3>3. <<b, ResultBar>> \in HeldBar
      BY <1>0, <2>1, <2>5, <3>2 DEF HeldBar
    <3>4. Market!Pay(b)
      BY <2>2, <2>3, <3>1, <3>2, <3>3 DEF Market!Pay, ResultBar, HeldBar
    <3> QED
      BY <3>4 DEF Market!Next
  <2> QED
    BY <2>4, <2>5
<1>3. ASSUME NEW b \in Bettors, NEW side \in Sides, NEW amount \in Amounts,
             PlaceBet(b, side, amount)
      PROVE  Stays \/ Market!Next
  <2> DEFINE bought == CalcShares(amount, pool[side], pool[~side])
  <2>1. bought \in Nat
    <3>1. amount \in Nat /\ amount >= MinBet
      BY <1>3, PoolAssumption DEF PlaceBet
    <3> QED
      BY <3>1, BoughtNat DEF PaidInv
  <2>2. /\ ~resolved
        /\ shares' = [shares EXCEPT ![b][side] = @ + bought]
        /\ UNCHANGED <<resolved, outcome, paid>>
    BY <1>3 DEF PlaceBet
  <2> HIDE DEF bought
  <2>3. UNCHANGED <<ResultBar, paid>>
    BY <2>2 DEF ResultBar
  <2>4. shares[b][side] \in Nat
    BY <1>0 DEF UInt64
  <2>5. CASE bought = 0
    <3>1. shares' = shares
      BY <1>0, <2>2, <2>4, <2>5
    <3> QED
      BY <2>3, <3>1 DEF HeldBar
  <2>6. CASE bought # 0
    <3>1. shares'[b][side] > 0
      BY <1>0, <2>1, <2>2, <2>4, <2>6
    <3>2. \A p \in Bettors \X Sides :
             p # <<b, side>> => shares'[p[1]][p[2]] = shares[p[1]][p[2]]
      BY <1>0, <2>2
    <3>3. HeldBar' = HeldBar \cup {<<b, side>>}
      BY <3>1, <3>2 DEF HeldBar
    <3>4. ResultBar = None
      BY <2>2 DEF ResultBar
    <3>5. Market!Bet(b, side)
      BY <2>3, <3>3, <3>4 DEF Market!Bet, ResultBar, HeldBar
    <3> QED
      BY <3>5 DEF Market!Next
  <2> QED
    BY <2>5, <2>6
<1>4. ASSUME NEW price \in FinalPrices, NEW oracle \in AppIds, Settle(price, oracle)
      PROVE  Market!Next
  <2>1. /\ ~resolved /\ resolved'
        /\ outcome' = (price >= ResolutionPrice)
        /\ UNCHANGED <<shares, paid>>
    BY <1>4 DEF Settle
  <2>2. outcome' \in Sides
    BY <2>1 DEF Sides
  <2>3. ResultBar = None /\ ResultBar' = outcome'
    BY <2>1 DEF ResultBar
  <2>4. UNCHANGED <<HeldBar, paid>>
    BY <2>1 DEF HeldBar
  <2>5. Market!Decide(outcome')
    BY <2>3, <2>4 DEF Market!Decide, ResultBar, HeldBar
  <2> QED
    BY <2>2, <2>5 DEF Market!Next
<1>5. ASSUME NEW role \in Roles, NEW app \in AppIds, RegisterContract(role, app)
      PROVE  Stays
  BY <1>5 DEF RegisterContract, ResultBar, HeldBar
<1>6. ASSUME Tick PROVE Stays
  BY <1>6 DEF Tick, ResultBar, HeldBar
<1>7. ASSUME UNCHANGED vars PROVE Stays
  BY <1>7 DEF vars, ResultBar, HeldBar
<1>8. Stays \/ Market!Next
  BY <1>1, <1>2, <1>3, <1>4, <1>5, <1>6, <1>7 DEF Next
<1> QED
  BY <1>8, <1>a

\* The pool contract implements BettingMarket: positions only before the decision,
\* one decision, and at most one payment to each bettor, to one with a position on the side
\* that won.
THEOREM PoolImplementsBettingMarket == Spec => ImplementsBettingMarket
<1>1. Init => Market!Init
  BY InitRefines
<1>2. PaidInv /\ [Next]_vars => [Market!Next]_(Market!marketVars)
  BY NextRefines
<1> QED
  BY <1>1, <1>2, PaidInvAlways, PTL DEF Spec, ImplementsBettingMarket, Market!Spec
=============================================================================
