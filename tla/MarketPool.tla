----------------------------- MODULE MarketPool -----------------------------
(***************************************************************************)
(* SmartContracts/smart_contracts/market_pool/contract.py: one market's    *)
(* pool on Algorand.  A call is one transaction group and takes effect as  *)
(* a whole or, when an assertion fails, an integer overflows or an inner   *)
(* payment is not covered, not at all; so every method is one action whose *)
(* guard holds all of that.                                                *)
(***************************************************************************)
EXTENDS Integers, FiniteSets, PoolMath

CONSTANTS
    Bettors,          \* the accounts that may call the pool
    AppIds,           \* the applications the registry may name
    None,             \* a role the registry has no box for; no outcome yet
    SeedPool,         \* 500_000, what create writes in each pool
    MinBet,           \* 1_000_000
    MinBalance,       \* what the application's account must keep
    Funding,          \* what the account holds before the first bet
    Amounts,          \* the payments that come with place_bet
    ResolutionPrice,  \* resolution_price
    FinalPrices,      \* what settle may be called with
    ExpiryTs,         \* expiry_ts
    MaxBets,          \* bound: total_bets
    MaxTime           \* bound: the clock

\* TRUE is the yes side, as in the contract's outcome.
Sides == BOOLEAN
Roles == {"oracle", "fee_vault"}

ASSUME PoolAssumption ==
    /\ IsFiniteSet(Bettors)
    /\ IsFiniteSet(AppIds)
    /\ None \notin AppIds \cup BOOLEAN
    /\ SeedPool \in UInt64 \ {0}
    /\ MinBet \in Nat \ {0}
    /\ MinBalance \in Nat
    /\ Funding \in Nat
    /\ Amounts \subseteq Nat
    /\ ResolutionPrice \in Nat
    /\ FinalPrices \subseteq Nat
    /\ ExpiryTs \in Nat
    /\ MaxBets \in Nat
    /\ MaxTime \in Nat

VARIABLES
    pool,       \* pool[side]: yes_pool and no_pool
    total_bets,
    resolved,
    outcome,    \* meaningless before resolved, as in the contract
    opted,      \* the accounts with local state
    shares,     \* shares[b][side]: yes_shares and no_shares of b
    claimed,    \* claimed[b]
    balance,    \* of the application's account
    appId,      \* appId[role]: what get_app_id of the platform registry answers
    fees,       \* fees[app]: what the pool has paid to that application
    paid,       \* paid[b]: what the pool has paid to b
    now         \* Global.latest_timestamp

vars == <<pool, total_bets, resolved, outcome, opted, shares, claimed, balance,
          appId, fees, paid, now>>

NoShares == [s \in Sides |-> 0]

\* An inner payment goes through only if the account keeps its minimum balance; the ledger
\* sees to that.
Covered(amount) == amount = 0 \/ balance - amount >= MinBalance

\* create
Init ==
    /\ pool = [s \in Sides |-> SeedPool]
    /\ total_bets = 0
    /\ resolved = FALSE
    /\ outcome = FALSE
    /\ opted = {}
    /\ shares = [b \in Bettors |-> NoShares]
    /\ claimed = [b \in Bettors |-> FALSE]
    /\ balance = Funding
    /\ appId \in [Roles -> AppIds \cup {None}]
    /\ fees = [a \in AppIds |-> 0]
    /\ paid = [b \in Bettors |-> 0]
    /\ now = 0

\* opt_in: the local state starts from nothing.
OptIn(b) ==
    /\ b \notin opted
    /\ opted' = opted \cup {b}
    /\ shares' = [shares EXCEPT ![b] = NoShares]
    /\ claimed' = [claimed EXCEPT ![b] = FALSE]
    /\ UNCHANGED <<pool, total_bets, resolved, outcome, balance, appId, fees, paid, now>>

\* An account may clear its local state at any time, and its shares are gone.
ClearState(b) ==
    /\ b \in opted
    /\ opted' = opted \ {b}
    /\ shares' = [shares EXCEPT ![b] = NoShares]
    /\ claimed' = [claimed EXCEPT ![b] = FALSE]
    /\ UNCHANGED <<pool, total_bets, resolved, outcome, balance, appId, fees, paid, now>>

\* Mutant: the expiry and the resolution are not looked at.
PlaceBetAnyTime(b, side, amount) ==
    LET bought == CalcShares(amount, pool[side], pool[~side])
    IN  /\ b \in opted
        /\ amount >= MinBet
        /\ CalcSharesFits(amount, pool[side], pool[~side])
        /\ pool[side] + amount \in UInt64
        /\ shares[b][side] + bought \in UInt64
        /\ total_bets < MaxBets
        /\ pool' = [pool EXCEPT ![side] = @ + amount]
        /\ shares' = [shares EXCEPT ![b][side] = @ + bought]
        /\ total_bets' = total_bets + 1
        /\ balance' = balance + amount
        /\ UNCHANGED <<resolved, outcome, opted, claimed, appId, fees, paid, now>>

\* place_bet, with the payment of the same group; a direction that is not "yes"
\* is a bet on no.
PlaceBet(b, side, amount) ==
    LET bought == CalcShares(amount, pool[side], pool[~side])
    IN  /\ b \in opted
        /\ ~resolved
        /\ now < ExpiryTs
        /\ amount >= MinBet
        /\ CalcSharesFits(amount, pool[side], pool[~side])
        /\ pool[side] + amount \in UInt64
        /\ shares[b][side] + bought \in UInt64
        /\ total_bets < MaxBets
        /\ pool' = [pool EXCEPT ![side] = @ + amount]
        /\ shares' = [shares EXCEPT ![b][side] = @ + bought]
        /\ total_bets' = total_bets + 1
        /\ balance' = balance + amount
        /\ UNCHANGED <<resolved, outcome, opted, claimed, appId, fees, paid, now>>

\* settle: the caller's price, if it names the oracle the registry has.
Settle(price, oracle) ==
    /\ oracle = appId["oracle"]
    /\ now >= ExpiryTs
    /\ ~resolved
    /\ resolved' = TRUE
    /\ outcome' = (price >= ResolutionPrice)
    /\ UNCHANGED <<pool, total_bets, opted, shares, claimed, balance, appId, fees, paid, now>>

\* Mutant: claimed is not set.
ClaimNotMarked(b) ==
    LET won == shares[b][outcome]
        fee == Fee(pool[outcome] + pool[~outcome])
        payout == ClaimPayout(won, pool[outcome], pool[~outcome])
    IN  /\ b \in opted
        /\ resolved
        /\ won > 0 \/ shares[b][~outcome] > 0
        /\ ClaimFits(won, pool[outcome], pool[~outcome])
        /\ appId["fee_vault"] # None
        /\ Covered(fee + payout)
        /\ balance' = balance - fee - payout
        /\ fees' = [fees EXCEPT ![appId["fee_vault"]] = @ + fee]
        /\ paid' = [paid EXCEPT ![b] = @ + payout]
        /\ UNCHANGED <<pool, total_bets, resolved, outcome, opted, shares, claimed, appId, now>>

\* Mutant: a payout is taken out of the pool whose shares it redeems.
ClaimTakenFromPool(b) ==
    LET won == shares[b][outcome]
        fee == Fee(pool[outcome] + pool[~outcome])
        payout == ClaimPayout(won, pool[outcome], pool[~outcome])
    IN  /\ b \in opted
        /\ resolved
        /\ ~claimed[b]
        /\ won > 0 \/ shares[b][~outcome] > 0
        /\ ClaimFits(won, pool[outcome], pool[~outcome])
        /\ appId["fee_vault"] # None
        /\ Covered(fee + payout)
        /\ payout <= pool[outcome]
        /\ pool' = [pool EXCEPT ![outcome] = @ - payout]
        /\ claimed' = [claimed EXCEPT ![b] = TRUE]
        /\ balance' = balance - fee - payout
        /\ fees' = [fees EXCEPT ![appId["fee_vault"]] = @ + fee]
        /\ paid' = [paid EXCEPT ![b] = @ + payout]
        /\ UNCHANGED <<total_bets, resolved, outcome, opted, shares, appId, now>>

\* claim_winnings: the fee on the whole pool goes to the vault with every claim, a
\* loser's claim too, then the payout to the caller.
ClaimWinnings(b) ==
    LET won == shares[b][outcome]
        fee == Fee(pool[outcome] + pool[~outcome])
        payout == ClaimPayout(won, pool[outcome], pool[~outcome])
    IN  /\ b \in opted
        /\ resolved
        /\ ~claimed[b]
        /\ won > 0 \/ shares[b][~outcome] > 0
        /\ ClaimFits(won, pool[outcome], pool[~outcome])
        /\ appId["fee_vault"] # None
        /\ Covered(fee + payout)
        /\ claimed' = [claimed EXCEPT ![b] = TRUE]
        /\ balance' = balance - fee - payout
        /\ fees' = [fees EXCEPT ![appId["fee_vault"]] = @ + fee]
        /\ paid' = [paid EXCEPT ![b] = @ + payout]
        /\ UNCHANGED <<pool, total_bets, resolved, outcome, opted, shares, appId, now>>

\* The registry's admin names another application for a role.
RegisterContract(role, app) ==
    /\ appId' = [appId EXCEPT ![role] = app]
    /\ UNCHANGED <<pool, total_bets, resolved, outcome, opted, shares, claimed,
                   balance, fees, paid, now>>

Tick ==
    /\ now < MaxTime
    /\ now' = now + 1
    /\ UNCHANGED <<pool, total_bets, resolved, outcome, opted, shares, claimed,
                   balance, appId, fees, paid>>

Next ==
    \/ \E b \in Bettors : OptIn(b) \/ ClearState(b) \/ ClaimWinnings(b)
    \/ \E b \in Bettors, side \in Sides, amount \in Amounts : PlaceBet(b, side, amount)
    \/ \E price \in FinalPrices, oracle \in AppIds : Settle(price, oracle)
    \/ \E role \in Roles, app \in AppIds : RegisterContract(role, app)
    \/ Tick

Spec == Init /\ [][Next]_vars

----------------------------------------------------------------------------
(* Properties *)

\* The variables have their types; a pool never falls below its seed, so that no claim and no
\* quotient of place_bet divides by zero.
TypeOK ==
    /\ pool \in [Sides -> SeedPool..MaxUInt64]
    /\ total_bets \in Nat
    /\ resolved \in BOOLEAN
    /\ outcome \in BOOLEAN
    /\ opted \subseteq Bettors
    /\ shares \in [Bettors -> [Sides -> UInt64]]
    /\ claimed \in [Bettors -> BOOLEAN]
    /\ balance \in Nat
    /\ appId \in [Roles -> AppIds \cup {None}]
    /\ fees \in [AppIds -> Nat]
    /\ paid \in [Bettors -> Nat]
    /\ now \in Nat

\* A claim is worth what the shares and the pools say now, however long ago it was
\* made: after settle nothing moves the terms on which the others are still to claim.
SameTermsForAll ==
    \A b \in Bettors : claimed[b] =>
        paid[b] = ClaimPayout(shares[b][outcome], pool[outcome], pool[~outcome])

\* Leaving and opting in again does not get a bettor paid a second time.
PaidOnce == [][\A b \in Bettors : paid'[b] # paid[b] => paid[b] = 0]_vars

\* A position is a bettor's shares on a side; the market is decided by settle.
Market == INSTANCE BettingMarket
          WITH Undecided <- None,
               result <- IF resolved THEN outcome ELSE None,
               held <- {p \in Bettors \X Sides : shares[p[1]][p[2]] > 0},
               received <- paid

\* The pool keeps what BettingMarket promises: positions before the decision only, one
\* decision, and at most one payment to a bettor, to one with shares on the side that won.
ImplementsBettingMarket == Market!Spec
=============================================================================
