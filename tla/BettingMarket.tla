--------------------------- MODULE BettingMarket ---------------------------
(***************************************************************************)
(* What a market promises its bettors, whatever the arithmetic: positions  *)
(* are taken while it is undecided, it is decided once, and afterwards a   *)
(* position on the side that won is paid once and never again.  MarketPool *)
(* implements it.                                                          *)
(***************************************************************************)
EXTENDS Naturals

CONSTANTS Bettors,   \* who may take a position
          Sides,     \* what a position may be on
          Undecided  \* the result of a market that has none yet

VARIABLES result,  \* the side that won, or Undecided
          held,    \* the positions: pairs of a bettor and a side
          received \* received[b]: what b was paid, over all the market's time

marketVars == <<result, held, received>>

Init == result = Undecided /\ held = {} /\ received = [b \in Bettors |-> 0]

Bet(b, s) ==
    /\ result = Undecided
    /\ held' = held \cup {<<b, s>>}
    /\ UNCHANGED <<result, received>>

Decide(s) ==
    /\ result = Undecided
    /\ result' = s
    /\ UNCHANGED <<held, received>>

\* Whoever was paid before is not paid again, whatever positions it holds by then.
Pay(b) ==
    /\ result # Undecided
    /\ <<b, result>> \in held
    /\ received[b] = 0
    /\ received'[b] \in Nat \ {0}
    /\ received' = [received EXCEPT ![b] = received'[b]]
    /\ UNCHANGED <<result, held>>

\* A bettor may walk away from its positions at any time.
Leave(b) ==
    /\ held' = {p \in held : p[1] # b}
    /\ UNCHANGED <<result, received>>

Next == \/ \E b \in Bettors, s \in Sides : Bet(b, s)
        \/ \E s \in Sides : Decide(s)
        \/ \E b \in Bettors : Pay(b) \/ Leave(b)

Spec == Init /\ [][Next]_marketVars
=============================================================================
