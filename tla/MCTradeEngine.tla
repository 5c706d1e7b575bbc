---------------------------- MODULE MCTradeEngine ----------------------------
(* Small instances of TradeEngine for TLC.                                  *)
EXTENDS TradeEngine

CONSTANTS c1, c2, s1, s2, s3

Request(symbol, action, quantity, price, orderType, limitPrice) ==
  [symbol |-> symbol, action |-> action, quantity |-> quantity,
   priceAtDecision |-> price, orderType |-> orderType, limitPrice |-> limitPrice]

\* Buys on three symbols, one at a stale price and one too large; sales with and
\* without a price of their own; an order that lacks its price; a hold.
MixedRequests == {
  Request(s1, "buy", 2, 1, "market", NoPrice),
  Request(s2, "buy", 1, 2, "limit", 1),
  Request(s3, "buy", 1, 2, "market", 1),
  Request(s1, "sell", 1, 2, "market", NoPrice),
  Request(s1, "sell", 1, 2, "stop", NoPrice),
  Request(s1, "buy", 2, 2, "limit", NoPrice),
  Request(s2, "hold", 1, 2, "market", NoPrice)}
=============================================================================
