------------------------------ MODULE PoolMath ------------------------------
(***************************************************************************)
(* The arithmetic of SmartContracts/smart_contracts/market_pool: the       *)
(* shares a bet buys and what a claim is worth.  Amounts are in microAlgo  *)
(* on chain; every quantity is a parameter so that TLC can use small ones. *)
(***************************************************************************)
EXTENDS Integers

CONSTANTS
    SqrtScale,  \* 1_000_000, what a pool is multiplied with before op.sqrt
    FeeBps,     \* 200
    BpsBase,    \* 10_000
    MaxUInt64   \* 2^64 - 1: an AVM operation with a larger result panics

ASSUME PoolMathAssumption ==
    /\ SqrtScale \in Nat \ {0}
    /\ BpsBase \in Nat \ {0}
    /\ FeeBps \in 0..BpsBase
    /\ MaxUInt64 \in Nat

UInt64 == 0..MaxUInt64

\* op.sqrt: the integer part of the square root.
Isqrt(n) == CHOOSE r \in 0..n : r * r <= n /\ n < (r + 1) * (r + 1)

\* _calc_shares: amount * sqrt(other) / sqrt(own + amount), rounded down.
CalcShares(amount, own, other) ==
    (amount * Isqrt(other * SqrtScale)) \div Isqrt((own + amount) * SqrtScale)

\* ... and the intermediate results that have to fit in 64 bits.
CalcSharesFits(amount, own, other) ==
    /\ other * SqrtScale \in UInt64
    /\ (own + amount) * SqrtScale \in UInt64
    /\ amount * Isqrt(other * SqrtScale) \in UInt64

\* The platform's fee on a pool of this size.
Fee(total) == (total * FeeBps) \div BpsBase

\* What the shares of the winning side are worth: their part of the pools less the fee.
ClaimPayout(won, winning, losing) ==
    LET total == winning + losing
    IN  IF won = 0 THEN 0 ELSE (won * (total - Fee(total))) \div winning

ClaimFits(won, winning, losing) ==
    LET total == winning + losing
    IN  /\ total * FeeBps \in UInt64
        /\ won * (total - Fee(total)) \in UInt64
=============================================================================
