---------------------------- MODULE MCMarketPool ----------------------------
(* Small instances of MarketPool for TLC: one unit is a hundredth of an Algo. *)
EXTENDS MarketPool

CONSTANTS b1, b2, app1, app2
=============================================================================
