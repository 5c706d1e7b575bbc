---------------------------- MODULE MCLiveTrading ----------------------------
(* A small instance of LiveTrading for TLC.                                 *)
EXTENDS LiveTrading

CONSTANTS c1, s1

\* A buy at the market, and a sale.
TwoRequests == {
  [symbol |-> s1, action |-> a, quantity |-> 1, priceAtDecision |-> 2,
   orderType |-> "market", limitPrice |-> NoPrice] : a \in {"buy", "sell"}}
=============================================================================
