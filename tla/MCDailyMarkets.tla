--------------------------- MODULE MCDailyMarkets ---------------------------
(* Small instances of DailyMarkets for TLC. *)
EXTENDS DailyMarkets

CONSTANTS btc, cup, a1, web1

\* A market with a price feed, which may fail, and a sports market behind it.
TwoAssets == <<btc, cup>>

\* An agent for every market type; one that may also register as inactive.
BothAssets == {{btc, cup}}
BothOrNone == {{}, {btc, cup}}
=============================================================================
