----------------------------- MODULE TradeEngine -----------------------------
(****************************************************************************)
(* TradeEngine.executeDecision on the main account: the risk checks, the    *)
(* order and the trades row (src/engine/trade-engine.ts), behind            *)
(* POST /api/trade, with the simulated executor as createExecutor builds it *)
(* (src/server.ts): its getCurrentPrice answers null, so a position counts  *)
(* at its entry price and a limit order always crosses its own limit.       *)
(*                                                                          *)
(* Each await of executeDecision is an action, with the synchronous code    *)
(* after it; getBalance is two.  placeOrder is one action, as in            *)
(* CongressFollower and for the same reason.                                *)
(****************************************************************************)
EXTENDS FillRules, FiniteSets, Functions

CONSTANTS
  Callers,             \* the POST /api/trade requests that may be in flight
  Symbols,
  Quotes,              \* the prices the price provider can answer
  Requests,            \* the decisions that are executed, and how
  ExecutorName,        \* executor.name
  InitialCash,
  MaxOpenPositions,
  MaxPositionSizePct,
  DailyTradeLimit,
  MaxDrawdownPct,
  Overlap,             \* may two requests be in flight?
  MaxPosts,            \* bound: requests in a behaviour
  MaxDays,             \* bound: days in a behaviour
  MaxRestarts          \* bound: restarts of the process in a behaviour

NoPrice == 0           \* limitPrice not given, or no quote

(* A stored decision (symbol, action, quantity, priceAtDecision) with the   *)
(* orderType and limitPrice of the request.  A stop order carries its       *)
(* stopPrice, which no executor here looks at.                              *)
RequestRecords ==
  [symbol : Symbols, action : {"buy", "sell", "hold"}, quantity : Nat \ {0},
   priceAtDecision : Nat \ {0}, orderType : {"market", "limit", "stop"},
   limitPrice : Nat]

ASSUME TradeEngineAssumption ==
  /\ Requests \subseteq RequestRecords
  /\ Quotes \subseteq Nat \ {0}
  /\ IsFiniteSet(Callers) /\ IsFiniteSet(Symbols)
  /\ InitialCash \in Nat
  /\ MaxOpenPositions \in 1..50
  /\ MaxPositionSizePct \in 1..100
  /\ DailyTradeLimit \in 1..100
  /\ MaxDrawdownPct \in 1..50
  /\ Overlap \in BOOLEAN
  /\ MaxPosts \in Nat /\ MaxDays \in Nat \ {0} /\ MaxRestarts \in Nat

VARIABLES
  cash,        \* sim_balance.cash
  peak,        \* sim_balance.peak_equity
  pos,         \* sim_positions
  priceCache,  \* SimulatedExchange.priceCache
  trades,      \* the trades table: the rows that count today, and sums over all
  at,          \* the step each request is at
  order,       \* what it executes, with the price it found
  failed,      \* the risk checks that did not pass
  seen,        \* the balance row getBalance read
  result,      \* the OrderResult
  placedToday, \* history: orders the executor took today
  unlogged,    \* history: of all it took, those a crash left without a row
  posted, day, restarts  \* history

account == <<cash, peak, pos, priceCache>>
locals == <<order, failed, seen, result>>
history == <<placedToday, unlogged>>
bounds == <<posted, day, restarts>>
vars == <<account, trades, at, locals, history, bounds>>

Checks == {"maxOpenPositions", "maxPositionSize", "dailyTradeLimit", "maxDrawdown"}
Steps == {"quote", "positions", "size", "sizeRows", "count", "drawdown",
          "drawdownRows", "reject", "place", "log"}

Nothing == [symbol |-> "", action |-> "hold", quantity |-> 1,
            priceAtDecision |-> 1, orderType |-> "market", limitPrice |-> NoPrice]
NoRow == [cash |-> 0, peak |-> 0]
NoResult == [placed |-> FALSE, realizedPnl |-> 0, buyFee |-> 0]
NoRows == [s \in Symbols |-> NoPosition]

TypeOK ==
  /\ cash \in Nat
  /\ peak \in Nat
  /\ pos \in [Symbols -> Positions]
  /\ priceCache \in [Symbols -> Nat]
  /\ trades \in [today : Nat, realizedPnl : Int, buyFees : Nat]
  /\ at \in [Callers -> Steps \cup {"idle"}]
  /\ order \in [Callers -> RequestRecords \cup {Nothing}]
  /\ failed \in [Callers -> SUBSET Checks]
  /\ seen \in [Callers -> [cash : Nat, peak : Nat]]
  /\ result \in [Callers -> [placed : BOOLEAN, realizedPnl : Int, buyFee : Nat]]
  /\ placedToday \in Nat
  /\ unlogged \in Nat
  /\ posted \in 0..MaxPosts
  /\ day \in 1..MaxDays
  /\ restarts \in 0..MaxRestarts

Init ==
  /\ cash = InitialCash
  /\ peak = InitialCash
  /\ pos = NoRows
  /\ priceCache = [s \in Symbols |-> NoPrice]
  /\ trades = [today |-> 0, realizedPnl |-> 0, buyFees |-> 0]
  /\ at = [c \in Callers |-> "idle"]
  /\ order = [c \in Callers |-> Nothing]
  /\ failed = [c \in Callers |-> {}]
  /\ seen = [c \in Callers |-> NoRow]
  /\ result = [c \in Callers |-> NoResult]
  /\ placedToday = 0
  /\ unlogged = 0
  /\ posted = 0
  /\ day = 1
  /\ restarts = 0
-----------------------------------------------------------------------------
Go(c, step) == at' = [at EXCEPT ![c] = step]

(* A request is answered: 200, 202, 422, or 500 for what it threw.          *)
Answer(c) ==
  /\ Go(c, "idle")
  /\ order' = [order EXCEPT ![c] = Nothing]
  /\ failed' = [failed EXCEPT ![c] = {}]
  /\ seen' = [seen EXCEPT ![c] = NoRow]
  /\ result' = [result EXCEPT ![c] = NoResult]

(* POST /api/trade: any decision, however often it was executed before.     *)
Post(c, r) ==
  /\ posted < MaxPosts
  /\ at[c] = "idle"
  /\ Overlap \/ \A d \in Callers : at[d] = "idle"
  /\ order' = [order EXCEPT ![c] = r]
  /\ Go(c, "quote")
  /\ posted' = posted + 1
  /\ UNCHANGED <<account, trades, failed, seen, result, history, day, restarts>>

(* A market order without a price asks for one; if the provider has none,   *)
(* the price of the decision stands in.                                     *)
PriceFound(r, quote) ==
  IF r.orderType = "market" /\ r.limitPrice = NoPrice
    THEN IF quote # NoPrice THEN quote ELSE r.priceAtDecision
    ELSE r.limitPrice

Quote(c, quote) ==
  /\ at[c] = "quote"
  /\ IF order[c].action = "hold"
       THEN Answer(c)
       ELSE /\ order' = [order EXCEPT ![c].limitPrice = PriceFound(order[c], quote)]
            /\ Go(c, IF order[c].action = "buy" THEN "positions" ELSE "count")
            /\ UNCHANGED <<failed, seen, result>>
  /\ UNCHANGED <<account, trades, history, bounds>>
-----------------------------------------------------------------------------
(* The risk checks, one after the other; all are made, failed or not.       *)
Check(c, name, passed) ==
  failed' = IF passed THEN failed ELSE [failed EXCEPT ![c] = @ \cup {name}]

Open(table) == {s \in Symbols : table[s].qty > 0}
Exposure(table) == SumFunction([s \in Symbols |-> table[s].cost])

\* Fault: one position more than the limit.
HasRoomForOneMore(symbol, open) ==
  symbol \in open \/ Cardinality(open) <= MaxOpenPositions

HasRoom(symbol, open) ==
  symbol \in open \/ Cardinality(open) < MaxOpenPositions

CheckMaxOpenPositions(c) ==
  /\ at[c] = "positions"
  /\ Check(c, "maxOpenPositions", HasRoom(order[c].symbol, Open(pos)))
  /\ Go(c, "size")
  /\ UNCHANGED <<account, trades, order, seen, result, history, bounds>>

(* getBalance reads the balance row and then the positions.                 *)
ReadBalanceRow(c) ==
  /\ at[c] \in {"size", "drawdown"}
  /\ seen' = [seen EXCEPT ![c] = [cash |-> cash, peak |-> peak]]
  /\ Go(c, IF at[c] = "size" THEN "sizeRows" ELSE "drawdownRows")
  /\ UNCHANGED <<account, trades, order, failed, result, history, bounds>>

Equity(row) == row.cash + Exposure(pos)

(* The size of a buy is judged by the price of the decision.                *)
IsSmallEnough(r, equity) ==
  100 * Notional(r.priceAtDecision, r.quantity) <= equity * MaxPositionSizePct

CheckMaxPositionSize(c) ==
  /\ at[c] = "sizeRows"
  /\ Check(c, "maxPositionSize", IsSmallEnough(order[c], Equity(seen[c])))
  /\ Go(c, "count")
  /\ UNCHANGED <<account, trades, order, seen, result, history, bounds>>

\* Fault: the order that reaches the limit is not the last.
IsUnderLimitInclusive(count) == count <= DailyTradeLimit
IsUnderLimit(count) == count < DailyTradeLimit

CheckDailyTradeLimit(c) ==
  /\ at[c] = "count"
  /\ Check(c, "dailyTradeLimit", IsUnderLimit(trades.today))
  /\ Go(c, "drawdown")
  /\ UNCHANGED <<account, trades, order, seen, result, history, bounds>>

Larger(x, y) == IF x > y THEN x ELSE y

(* The peak getBalance reports is at least the equity it reports.           *)
IsDrawnDown(row) ==
  LET top == Larger(row.peak, Equity(row)) IN
  top > 0 /\ 100 * (top - Equity(row)) >= MaxDrawdownPct * top

\* Fault: a sale is always let through.
CheckDrawdownOfBuys(c) ==
  LET passed == order[c].action = "sell" \/ ~IsDrawnDown(seen[c]) IN
  /\ at[c] = "drawdownRows"
  /\ Check(c, "maxDrawdown", passed)
  /\ Go(c, IF passed /\ failed[c] = {} THEN "place" ELSE "reject")
  /\ UNCHANGED <<account, trades, order, seen, result, history, bounds>>

CheckMaxDrawdown(c) ==
  LET passed == ~IsDrawnDown(seen[c]) IN
  /\ at[c] = "drawdownRows"
  /\ Check(c, "maxDrawdown", passed)
  /\ Go(c, IF passed /\ failed[c] = {} THEN "place" ELSE "reject")
  /\ UNCHANGED <<account, trades, order, seen, result, history, bounds>>
-----------------------------------------------------------------------------
(* executor.placeOrder.  A limit order needs its price; a stop order takes  *)
(* the limit price if it has one, else the last fill of the symbol.         *)
FillPrice(r) ==
  IF r.orderType = "limit" \/ r.limitPrice # NoPrice THEN r.limitPrice
                                                      ELSE priceCache[r.symbol]

(* A stop order on a symbol that was never traded has no price at all:      *)
(* resolvePrice throws, and nothing is logged.                              *)
FindNoPrice(c) ==
  /\ at[c] = "place"
  /\ order[c].orderType # "limit"
  /\ FillPrice(order[c]) = NoPrice
  /\ Answer(c)
  /\ UNCHANGED <<account, trades, history, bounds>>

Accepted(r) ==
  /\ FillPrice(r) # NoPrice
  /\ CanFill(r.action, FillPrice(r), r.quantity, cash, pos[r.symbol])

PlaceOrder(c) ==
  LET r == order[c]  price == FillPrice(r)  old == pos[r.symbol]  q == r.quantity IN
  /\ at[c] = "place"
  /\ Accepted(r)
  /\ cash' = NewCash(r.action, price, q, cash)
  /\ pos' = [pos EXCEPT ![r.symbol] = NewPosition(r.action, price, q, old)]
  /\ peak' = Larger(peak, cash' + Exposure(pos'))
  /\ priceCache' = [priceCache EXCEPT ![r.symbol] = price]
  /\ result' = [result EXCEPT ![c] =
       [placed |-> TRUE, realizedPnl |-> RealizedPnl(r.action, price, q, old),
        buyFee |-> IF r.action = "buy" THEN CalculateFee(price, q) ELSE 0]]
  /\ placedToday' = placedToday + 1
  /\ Go(c, "log")
  /\ UNCHANGED <<trades, order, failed, seen, unlogged, bounds>>

(* The executor rejects the order: the result says so, and is logged.       *)
RejectOrder(c) ==
  /\ at[c] = "place"
  /\ order[c].orderType = "limit" \/ FillPrice(order[c]) # NoPrice
  /\ ~Accepted(order[c])
  /\ Go(c, "log")
  /\ UNCHANGED <<account, trades, locals, history, bounds>>
-----------------------------------------------------------------------------
(* logTrade: CHECK (executor IN ('simulated', 'alpaca', 'ccxt')).           *)
IsStorable == ExecutorName \in {"simulated", "alpaca", "ccxt"}

Row(c) ==
  LET r == result[c] IN
  [today |-> IF r.placed THEN trades.today + 1 ELSE trades.today,
   realizedPnl |-> trades.realizedPnl + r.realizedPnl,
   buyFees |-> trades.buyFees + r.buyFee]

\* Fault: the order is logged without its P&L.
LogWithoutPnl(c) ==
  /\ at[c] \in {"log", "reject"}
  /\ IsStorable
  /\ trades' = [Row(c) EXCEPT !.realizedPnl = trades.realizedPnl]
  /\ Answer(c)
  /\ UNCHANGED <<account, history, bounds>>

\* Fault: every row is a rejected one.
LogAsRejected(c) ==
  /\ at[c] \in {"log", "reject"}
  /\ IsStorable
  /\ trades' = [Row(c) EXCEPT !.today = trades.today]
  /\ Answer(c)
  /\ UNCHANGED <<account, history, bounds>>

(* An order's result, or a request the checks refused: a row that does not  *)
(* count towards the limit.                                                 *)
LogTrade(c) ==
  /\ at[c] \in {"log", "reject"}
  /\ IsStorable
  /\ trades' = Row(c)
  /\ Answer(c)
  /\ UNCHANGED <<account, history, bounds>>
-----------------------------------------------------------------------------
(* Midnight, UTC.                                                           *)
NextDay ==
  /\ day < MaxDays
  /\ day' = day + 1
  /\ trades' = [today |-> 0, realizedPnl |-> trades.realizedPnl, buyFees |-> trades.buyFees]
  /\ placedToday' = 0
  /\ UNCHANGED <<account, at, locals, unlogged, posted, restarts>>

Logging == {c \in Callers : at[c] = "log" /\ result[c].placed}

(* The process dies and comes back: requests and the price cache go.        *)
Restart ==
  /\ restarts < MaxRestarts
  /\ restarts' = restarts + 1
  /\ unlogged' = unlogged + Cardinality(Logging)
  /\ priceCache' = [s \in Symbols |-> NoPrice]
  /\ at' = [c \in Callers |-> "idle"]
  /\ order' = [c \in Callers |-> Nothing]
  /\ failed' = [c \in Callers |-> {}]
  /\ seen' = [c \in Callers |-> NoRow]
  /\ result' = [c \in Callers |-> NoResult]
  /\ UNCHANGED <<cash, peak, pos, trades, placedToday, posted, day>>

Execute(c) ==
  \/ \E quote \in Quotes \cup {NoPrice} : Quote(c, quote)
  \/ CheckMaxOpenPositions(c)
  \/ ReadBalanceRow(c)
  \/ CheckMaxPositionSize(c)
  \/ CheckDailyTradeLimit(c)
  \/ CheckMaxDrawdown(c)
  \/ FindNoPrice(c)
  \/ PlaceOrder(c)
  \/ RejectOrder(c)
  \/ LogTrade(c)

Next ==
  \/ \E c \in Callers : Execute(c) \/ \E r \in Requests : Post(c, r)
  \/ NextDay
  \/ Restart

Spec == Init /\ [][Next]_vars
-----------------------------------------------------------------------------
(* What calls that overlap may add to a limit: each of the others may have  *)
(* passed the check before any of them was logged.                          *)
Slack == IF Overlap THEN Cardinality(Callers) - 1 ELSE 0

(* The orders of a day stay within dailyTradeLimit, but for one more from   *)
(* each overlapping call and each order whose row a crash prevented.        *)
DailyLimitKept == placedToday <= DailyTradeLimit + Slack + unlogged

(* The number of open positions stays within maxOpenPositions, but for one  *)
(* more from each overlapping call.                                         *)
PositionsKept == TypeOK /\ Cardinality(Open(pos)) <= MaxOpenPositions + Slack

(* The trades table explains the account: apart from orders not logged yet, *)
(* cash and positions at cost are the initial cash and the P&L of the rows, *)
(* less the fees of the buys (which realized_pnl leaves out).               *)
TradesExplainAccount ==
  unlogged = 0 /\ Logging = {} =>
    cash + Exposure(pos) = InitialCash + trades.realizedPnl - trades.buyFees

(* The account is at its drawdown limit, and no call that read it before is *)
(* still about to pass the check.                                           *)
Halted ==
  /\ IsDrawnDown([cash |-> cash, peak |-> peak])
  /\ \A c \in Callers :
       /\ at[c] # "place"
       /\ at[c] = "drawdownRows" => seen[c] = [cash |-> cash, peak |-> peak]

(* maxDrawdown "blocks new trades": from then on no order is placed, not    *)
(* even a sale, until somebody changes the limit.                           *)
HaltIsFinal == [][Halted => Halted' /\ UNCHANGED <<cash, pos>>]_vars

(* Every order the executor took is in the trades table, on its way there,  *)
(* or was lost by a crash ("Log trade to trades table").                    *)
OrdersLogged ==
  day = 1 => placedToday = trades.today + Cardinality(Logging) + unlogged
=============================================================================
