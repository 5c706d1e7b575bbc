----------------------------- MODULE LiveTrading -----------------------------
(****************************************************************************)
(* TradeEngine with the live executor that createExecutor builds in live    *)
(* mode, AlpacaExecutor (src/executor/alpaca.ts): orders go to the broker,  *)
(* whose account is not modelled: it may answer anything.  The tables of    *)
(* the simulated exchange stay as they are.                                 *)
(****************************************************************************)
EXTENDS TradeEngine

CONSTANT Equities      \* what the broker may answer for the account's equity, in Nat

(* getPositions: any symbols may be held.                                   *)
BrokerPositions(c, open) ==
  /\ at[c] = "positions"
  /\ Check(c, "maxOpenPositions", HasRoom(order[c].symbol, open))
  /\ Go(c, "size")
  /\ UNCHANGED <<account, trades, order, seen, result, history, bounds>>

BrokerSize(c, equity) ==
  /\ at[c] = "size"
  /\ Check(c, "maxPositionSize", IsSmallEnough(order[c], equity))
  /\ Go(c, "count")
  /\ UNCHANGED <<account, trades, order, seen, result, history, bounds>>

(* The peak this getBalance reports is the equity: no drawdown is ever seen. *)
BrokerDrawdown(c) ==
  /\ at[c] = "drawdown"
  /\ Go(c, IF failed[c] = {} THEN "place" ELSE "reject")
  /\ UNCHANGED <<account, trades, locals, history, bounds>>

(* submitOrder: filled, or accepted to be filled later; no fee and no P&L    *)
(* are reported.                                                            *)
SubmitOrder(c) ==
  /\ at[c] = "place"
  /\ order[c].orderType = "limit" => order[c].limitPrice # NoPrice
  /\ result' = [result EXCEPT ![c].placed = TRUE]
  /\ placedToday' = placedToday + 1
  /\ Go(c, "log")
  /\ UNCHANGED <<account, trades, order, failed, seen, unlogged, bounds>>

(* The order lacks its price, or the broker refuses it or cannot be reached. *)
RefuseOrder(c) ==
  /\ at[c] = "place"
  /\ Go(c, "log")
  /\ UNCHANGED <<account, trades, locals, history, bounds>>

(* logTrade fails on the CHECK of the executor column; the request is       *)
(* answered 500.                                                            *)
LogFails(c) ==
  /\ at[c] \in {"log", "reject"}
  /\ ~IsStorable
  /\ Answer(c)
  /\ UNCHANGED <<account, trades, history, bounds>>

ExecuteLive(c) ==
  \/ \E quote \in Quotes \cup {NoPrice} : Quote(c, quote)
  \/ \E open \in SUBSET Symbols : BrokerPositions(c, open)
  \/ \E equity \in Equities : BrokerSize(c, equity)
  \/ CheckDailyTradeLimit(c)
  \/ BrokerDrawdown(c)
  \/ SubmitOrder(c)
  \/ RefuseOrder(c)
  \/ LogTrade(c)
  \/ LogFails(c)

LiveNext ==
  \/ \E c \in Callers : ExecuteLive(c) \/ \E r \in Requests : Post(c, r)
  \/ NextDay
  \/ Restart

LiveSpec == Init /\ [][LiveNext]_vars
=============================================================================
