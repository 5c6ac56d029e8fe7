------------------------------ MODULE Payouts ------------------------------
(***************************************************************************)
(* The pari-mutuel arithmetic of backend/controllers/market_controller.py: *)
(* what a winning bet is paid.  A stake is whatever number the request     *)
(* carries, a payout is rounded to six decimals: so amounts are counted in *)
(* units finer than that, of which Grain make up the last decimal of a     *)
(* payout.  The fee is taken from the profit only.                         *)
(***************************************************************************)
EXTENDS Integers

CONSTANTS FeeBps,   \* PLATFORM_FEE_BPS
          BpsBase,  \* 10000, the divisor of a rate in basis points
          Grain     \* units of a stake in 0.000001, the last decimal of a payout

ASSUME FeeAssumption ==
    /\ BpsBase \in Nat \ {0}
    /\ FeeBps \in 0..BpsBase
    /\ Grain \in Nat \ {0}

\* Python's round(): the nearest integer to n/d, a tie going to the even one.
RoundHalfEven(n, d) ==
    LET q == n \div d
        r == n % d
    IN  IF 2 * r > d \/ (2 * r = d /\ q % 2 = 1) THEN q + 1 ELSE q

\* round(n/d, 6): to a whole number of grains.
Rounded(n, d) == Grain * RoundHalfEven(n, d * Grain)

\* Mutant: the fee is taken from everything the winner gets.
PayoutAfterFee(amount, win, lose) ==
    IF win = 0 THEN Rounded(amount * (BpsBase - FeeBps), BpsBase)
    ELSE Rounded((amount * win + lose * amount) * (BpsBase - FeeBps), win * BpsBase)

\* A bet on the winning side gets its stake back and, after the fee, its share of the
\* losing pool; with nothing recorded in the winning pool its share is 0.
Payout(amount, win, lose) ==
    IF win = 0 THEN Rounded(amount, 1)
    ELSE Rounded(amount * win * BpsBase + lose * amount * (BpsBase - FeeBps), win * BpsBase)

\* What an agent's profit changes by: a payout less the stake, rounded like a payout.
Net(payout, amount) ==
    IF payout >= amount THEN Rounded(payout - amount, 1) ELSE -Rounded(amount - payout, 1)
=============================================================================
