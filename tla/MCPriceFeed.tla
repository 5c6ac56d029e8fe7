---------------------------- MODULE MCPriceFeed ----------------------------
(* A small instance of PriceFeed for TLC. *)
EXTENDS PriceFeed

CONSTANTS t1, t2, coin, stock
=============================================================================
