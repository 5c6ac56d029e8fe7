------------------------ MODULE MCMarketController ------------------------
(* Small instances of MarketController for TLC. *)
EXTENDS MarketController, TLC

CONSTANTS m1, m2, a1, t1, t2

\* The request threads are interchangeable as long as none of them resolves.
ThreadSymmetry == Permutations({t1, t2})
=============================================================================
