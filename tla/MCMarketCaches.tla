--------------------------- MODULE MCMarketCaches ---------------------------
(* A small instance of MarketCaches for TLC.                                *)
EXTENDS MarketCaches, TLC

\* No action and no property tells the callers apart.
CallersAlike == Permutations(Callers)
=============================================================================
