------------------------- MODULE SimulatedExecutors -------------------------
(****************************************************************************)
(* The other two simulated accounts, statement by statement: the main       *)
(* account (src/executor/simulated.ts), whose limit orders may wait, and    *)
(* the sub-account of a theme (src/themes/theme-sub-account.ts).  They are  *)
(* two classes with one shape and differ in when the price is found, in     *)
(* which order its sources are asked, and in the orders that wait.          *)
(*                                                                          *)
(* Orders are placed, and pending ones swept, by one handler at a time;     *)
(* cancelOrder may come between any two statements of it, the end of the    *)
(* process too.                                                             *)
(****************************************************************************)
EXTENDS FillRules, FiniteSets, FiniteSetsExt, Functions, Sequences

CONSTANTS
  Callers,             \* the handlers that use the account
  Symbols,
  Prices,
  Quantities,          \* the quantities an order can ask for, 0 included
  InitialCash,         \* initialCash, or the theme's starting balance
  MaxCalls,            \* bound: calls of the executor in a behaviour
  MaxRestarts          \* bound: restarts in a behaviour

NoPrice == 0           \* no quote, no limitPrice, nothing cached

ASSUME SimulatedExecutorsAssumption ==
  /\ IsFiniteSet(Symbols)
  /\ Prices \subseteq Nat \ {0}
  /\ Quantities \subseteq Nat
  /\ InitialCash \in Nat
  /\ MaxCalls \in Nat /\ MaxRestarts \in Nat

(* A stop order that carries its stopPrice is filled as a market order.     *)
Requests == [symbol : Symbols, side : {"buy", "sell"}, kind : {"market", "limit"},
             qty : Quantities, limit : Prices \cup {NoPrice}]

VARIABLES
  executor,            \* which of the two classes this is
  opened,              \* is there a balance row?
  balance,             \* its cash and its peak
  pos,                 \* sim_positions, or sim_sub_positions of the theme
  orders,              \* sim_orders, or sim_sub_orders of the theme
  instance,            \* how far initBalance, or initialize, has come
  priceCache,
  at,                  \* the statement each caller executes next
  todo,                \* the pending orders a sweep has yet to look at
  order,               \* what a caller is placing or cancelling
  seen,                \* the balance row it read
  next,                \* what it is going to write
  torn,                \* history: the length of orders when a fill was cut short
  calls, restarts      \* history

tables == <<opened, balance, pos, orders>>
memory == <<instance, priceCache>>
locals == <<at, todo, order, seen, next>>
history == <<torn, calls, restarts>>
vars == <<executor, tables, memory, locals, history>>

NoRow == [cash |-> 0, peak |-> 0]
NoResult == [cash |-> 0, pos |-> NoPosition, peak |-> 0]
NoOrder == [id |-> 0]
Whole == -1            \* no fill was cut short

Filling == {"balance", "position", "upsert", "equity", "update", "record"}
Steps == Filling \cup {"idle", "cancel", "sweep", "again"}

(* price is what the order was filled at (limit_price keeps the limit       *)
(* only), of the order it was first placed as: clientOrderId.               *)
OrderRows == [symbol : Symbols, side : {"buy", "sell"}, qty : Nat, price : Nat,
              status : {"pending", "filled", "cancelled"}, of : Nat]

TypeOK ==
  /\ executor \in {"simulated", "theme-sub-account"}
  /\ opened \in BOOLEAN
  /\ balance \in [cash : Nat, peak : Int]
  /\ pos \in [Symbols -> Positions]
  /\ \A i \in DOMAIN orders : orders[i] \in OrderRows /\ orders[i].of \in 1..i
  /\ instance \in {"constructed", "absent", "ready"}
  /\ priceCache \in [Symbols -> Prices \cup {NoPrice}]
  /\ at \in [Callers -> Steps]
  /\ \A c \in Callers : todo[c] \subseteq DOMAIN orders
  /\ seen \in [Callers -> [cash : Nat, peak : Int]]
  /\ next \in [Callers -> [cash : Nat, pos : Positions, peak : Int]]
  /\ torn \in Nat \cup {Whole}

Init ==
  /\ executor \in {"simulated", "theme-sub-account"}
  /\ opened = FALSE
  /\ balance = NoRow
  /\ pos = [s \in Symbols |-> NoPosition]
  /\ orders = <<>>
  /\ instance = "constructed"
  /\ priceCache = [s \in Symbols |-> NoPrice]
  /\ at = [c \in Callers |-> "idle"]
  /\ todo = [c \in Callers |-> {}]
  /\ order = [c \in Callers |-> NoOrder]
  /\ seen = [c \in Callers |-> NoRow]
  /\ next = [c \in Callers |-> NoResult]
  /\ torn = Whole
  /\ calls = 0
  /\ restarts = 0
-----------------------------------------------------------------------------
Go(c, step) == at' = [at EXCEPT ![c] = step]

LookForBalance ==
  /\ instance = "constructed"
  /\ instance' = IF opened THEN "ready" ELSE "absent"
  /\ UNCHANGED <<executor, tables, priceCache, locals, history>>

InsertBalance ==
  /\ instance = "absent"
  /\ opened' = TRUE
  /\ balance' = [cash |-> InitialCash, peak |-> InitialCash]
  /\ instance' = "ready"
  /\ UNCHANGED <<executor, pos, orders, priceCache, locals, history>>
-----------------------------------------------------------------------------
(* The main account waits for initBalance; a sub-account without a row      *)
(* throws, which leaves no trace.                                           *)
IsOpen == instance = "ready"

TakesTurn(c) ==
  /\ calls < MaxCalls
  /\ IsOpen
  /\ at[c] = "idle"
  /\ \A d \in Callers : at[d] \in {"idle", "cancel"}
  /\ calls' = calls + 1

(* The caller is done with its order; a sweep goes on with the next.        *)
Return(c) ==
  /\ Go(c, IF todo[c] = {} THEN "idle" ELSE "sweep")
  /\ order' = [order EXCEPT ![c] = NoOrder]
  /\ seen' = [seen EXCEPT ![c] = NoRow]
  /\ next' = [next EXCEPT ![c] = NoResult]

First(prices) == LET found == {i \in DOMAIN prices : prices[i] # NoPrice} IN
                 IF found = {} THEN NoPrice ELSE prices[Min(found)]

(* resolvePrice: the main account prefers the price it is given to the one  *)
(* it remembers, the sub-account the other way round.                       *)
ResolvePrice(s, quote, limit) ==
  IF executor = "simulated" THEN First(<<quote, limit, priceCache[s]>>)
                            ELSE First(<<quote, priceCache[s], limit>>)

(* A limit order is filled at its limit, whatever the market.  Only the     *)
(* main account insists that it has one.                                    *)
FillPrice(r, quote) ==
  IF r.kind = "limit" /\ r.limit # NoPrice THEN r.limit
  ELSE ResolvePrice(r.symbol, quote, r.limit)

Refused(r) ==
  \/ r.qty <= 0
  \/ executor = "simulated" /\ r.kind = "limit" /\ r.limit = NoPrice

(* Compared with the market, where there is one.                            *)
Crosses(r, quote) ==
  LET market == ResolvePrice(r.symbol, quote, r.limit) IN
  IF r.side = "buy" THEN r.limit >= market ELSE r.limit <= market

MustWait(r, quote) == executor = "simulated" /\ r.kind = "limit" /\ ~Crosses(r, quote)

(* An order that is refused, or has no price: no row.                       *)
RefuseOrder(c, r, quote) ==
  /\ TakesTurn(c)
  /\ Refused(r) \/ FillPrice(r, quote) = NoPrice
  /\ UNCHANGED <<executor, tables, memory, locals, torn, restarts>>

(* The row of an order that waits.                                          *)
StoreOrder(c, r, of, quote) ==
  /\ MustWait(r, quote)
  /\ orders' = Append(orders, [symbol |-> r.symbol, side |-> r.side, qty |-> r.qty,
                               price |-> r.limit, status |-> "pending",
                               of |-> IF of = 0 THEN Len(orders) + 1 ELSE of])
  /\ Return(c)
  /\ UNCHANGED <<opened, balance, pos>>

(* The order as it is carried through the fill.  The sub-account finds its  *)
(* price after it read its rows; what it may be told then it may be told    *)
(* now, and its cache is nobody else's.                                     *)
StartFill(c, r, of, quote) ==
  /\ ~MustWait(r, quote)
  /\ FillPrice(r, quote) # NoPrice
  /\ order' = [order EXCEPT ![c] =
       [id |-> 0, symbol |-> r.symbol, side |-> r.side, qty |-> r.qty,
        price |-> FillPrice(r, quote), of |-> of]]
  /\ Go(c, "balance")
  /\ UNCHANGED <<tables, seen, next>>

PlaceOrder(c, r, quote) ==
  /\ TakesTurn(c)
  /\ ~Refused(r)
  /\ StoreOrder(c, r, 0, quote) \/ StartFill(c, r, 0, quote)
  /\ UNCHANGED <<executor, memory, todo, torn, restarts>>
-----------------------------------------------------------------------------
(* fillOrder; in the sub-account, the second half of placeOrder.            *)
ReadBalance(c) ==
  /\ at[c] = "balance"
  /\ seen' = [seen EXCEPT ![c] = balance]
  /\ Go(c, "position")
  /\ UNCHANGED <<executor, tables, memory, todo, order, next, history>>

\* Fault: the cash for an order that waited is not checked again.
AcceptsTriggered(c) ==
  LET o == order[c] IN
  (o.of # 0 /\ o.side = "buy") \/ CanFill(o.side, o.price, o.qty, seen[c].cash, pos[o.symbol])

Accepts(c) ==
  LET o == order[c] IN CanFill(o.side, o.price, o.qty, seen[c].cash, pos[o.symbol])

RejectOrder(c) ==
  /\ at[c] = "position"
  /\ ~Accepts(c)
  /\ Return(c)
  /\ UNCHANGED <<executor, tables, memory, todo, history>>

ReadPosition(c) ==
  /\ at[c] = "position"
  /\ Accepts(c)
  /\ LET o == order[c] IN
       next' = [next EXCEPT ![c] =
         [cash |-> NewCash(o.side, o.price, o.qty, seen[c].cash),
          pos  |-> NewPosition(o.side, o.price, o.qty, pos[o.symbol]),
          peak |-> seen[c].peak]]
  /\ Go(c, "upsert")
  /\ UNCHANGED <<executor, tables, memory, todo, order, seen, history>>

UpsertPosition(c) ==
  /\ at[c] = "upsert"
  /\ pos' = [pos EXCEPT ![order[c].symbol] = next[c].pos]
  /\ Go(c, "equity")
  /\ UNCHANGED <<executor, opened, balance, orders, memory, todo, order, seen, next, history>>

(* Without a quote, the main account counts a position at its entry price,  *)
(* the sub-account at the last price it filled the symbol at.               *)
RowValue(s, quote) ==
  LET price == IF executor = "simulated" THEN quote ELSE First(<<quote, priceCache[s]>>) IN
  IF price = NoPrice THEN pos[s].cost ELSE Notional(price, pos[s].qty)

CalculateEquity(c, quotes) ==
  LET equity == next[c].cash + SumFunction([s \in Symbols |-> RowValue(s, quotes[s])]) IN
  /\ at[c] = "equity"
  /\ next' = [next EXCEPT ![c].peak = IF equity > seen[c].peak THEN equity ELSE seen[c].peak]
  /\ Go(c, "update")
  /\ UNCHANGED <<executor, tables, memory, todo, order, seen, history>>

\* Fault: the balance row keeps its cash.
UpdatePeakOnly(c) ==
  /\ at[c] = "update"
  /\ balance' = [balance EXCEPT !.peak = next[c].peak]
  /\ priceCache' = [priceCache EXCEPT ![order[c].symbol] = order[c].price]
  /\ Go(c, "record")
  /\ UNCHANGED <<executor, opened, pos, orders, instance, todo, order, seen, next, history>>

UpdateBalance(c) ==
  /\ at[c] = "update"
  /\ balance' = [cash |-> next[c].cash, peak |-> next[c].peak]
  /\ priceCache' = [priceCache EXCEPT ![order[c].symbol] = order[c].price]
  /\ Go(c, "record")
  /\ UNCHANGED <<executor, opened, pos, orders, instance, todo, order, seen, next, history>>

RecordOrder(c) ==
  LET o == order[c] IN
  /\ at[c] = "record"
  /\ orders' = Append(orders, [symbol |-> o.symbol, side |-> o.side, qty |-> o.qty,
                               price |-> o.price, status |-> "filled",
                               of |-> IF o.of = 0 THEN Len(orders) + 1 ELSE o.of])
  /\ Return(c)
  /\ UNCHANGED <<executor, opened, balance, pos, memory, todo, history>>
-----------------------------------------------------------------------------
(* cancelOrder: is it pending? then mark it.  A sub-account has nothing to  *)
(* cancel.                                                                  *)
Pending == {i \in DOMAIN orders : orders[i].status = "pending"}
Cancelled(i) == [orders EXCEPT ![i].status = "cancelled"]

CancelOrder(c, i) ==
  /\ at[c] = "idle"
  /\ calls < MaxCalls
  /\ calls' = calls + 1
  /\ i \in Pending
  /\ order' = [order EXCEPT ![c] = [id |-> i]]
  /\ Go(c, "cancel")
  /\ UNCHANGED <<executor, tables, memory, todo, seen, next, torn, restarts>>

MarkCancelled(c) ==
  /\ at[c] = "cancel"
  /\ orders' = Cancelled(order[c].id)
  /\ Return(c)
  /\ UNCHANGED <<executor, opened, balance, pos, memory, todo, history>>

(* checkPendingOrders: one SELECT, then each order of it in turn.           *)
CheckPendingOrders(c) ==
  /\ TakesTurn(c)
  /\ Pending # {}
  /\ todo' = [todo EXCEPT ![c] = Pending]
  /\ Go(c, "sweep")
  /\ UNCHANGED <<executor, tables, memory, order, seen, next, torn, restarts>>

(* A row as the order that is placed again.                                 *)
AsRequest(i) == [symbol |-> orders[i].symbol, side |-> orders[i].side, kind |-> "limit",
                 qty |-> orders[i].qty, limit |-> orders[i].price]

LeavePending(c, i, quote) ==
  /\ at[c] = "sweep"
  /\ i \in todo[c]
  /\ ~Crosses(AsRequest(i), quote)
  /\ todo' = [todo EXCEPT ![c] = @ \ {i}]
  /\ Go(c, IF todo'[c] = {} THEN "idle" ELSE "sweep")
  /\ UNCHANGED <<executor, tables, memory, order, seen, next, history>>

\* Fault: the order is placed again and its first row stays pending.
TriggerUnmarked(c, i, quote) ==
  /\ at[c] = "sweep"
  /\ i \in todo[c]
  /\ Crosses(AsRequest(i), quote)
  /\ todo' = [todo EXCEPT ![c] = @ \ {i}]
  /\ order' = [order EXCEPT ![c] = [id |-> i, of |-> orders[i].of]]
  /\ Go(c, "again")
  /\ UNCHANGED <<executor, tables, memory, seen, next, history>>

(* It is marked cancelled, whatever it has become since the SELECT ...      *)
TriggerOrder(c, i, quote) ==
  /\ at[c] = "sweep"
  /\ i \in todo[c]
  /\ Crosses(AsRequest(i), quote)
  /\ orders' = Cancelled(i)
  /\ todo' = [todo EXCEPT ![c] = @ \ {i}]
  /\ order' = [order EXCEPT ![c] = [id |-> i, of |-> orders[i].of]]
  /\ Go(c, "again")
  /\ UNCHANGED <<executor, opened, balance, pos, memory, seen, next, history>>

(* ... and placed as a new order, at what the market is by then.            *)
PlaceAgain(c, quote) ==
  LET r == AsRequest(order[c].id) IN
  /\ at[c] = "again"
  /\ StoreOrder(c, r, order[c].of, quote) \/ StartFill(c, r, order[c].of, quote)
  /\ UNCHANGED <<executor, memory, todo, history>>
-----------------------------------------------------------------------------
Writing(c) == at[c] \in {"equity", "update", "record"}

Restart ==
  /\ restarts < MaxRestarts
  /\ restarts' = restarts + 1
  /\ torn' = IF torn = Whole /\ \E c \in Callers : Writing(c) THEN Len(orders) ELSE torn
  /\ instance' = "constructed"
  /\ priceCache' = [s \in Symbols |-> NoPrice]
  /\ at' = [c \in Callers |-> "idle"]
  /\ todo' = [c \in Callers |-> {}]
  /\ order' = [c \in Callers |-> NoOrder]
  /\ seen' = [c \in Callers |-> NoRow]
  /\ next' = [c \in Callers |-> NoResult]
  /\ UNCHANGED <<executor, tables, calls>>

Fill(c) ==
  \/ ReadBalance(c)
  \/ RejectOrder(c)
  \/ ReadPosition(c)
  \/ UpsertPosition(c)
  \/ \E quotes \in [Symbols -> Prices \cup {NoPrice}] : CalculateEquity(c, quotes)
  \/ UpdateBalance(c)
  \/ RecordOrder(c)

Sweep(c) ==
  \/ CheckPendingOrders(c)
  \/ \E quote \in Prices \cup {NoPrice} :
       \/ \E i \in DOMAIN orders : LeavePending(c, i, quote) \/ TriggerOrder(c, i, quote)
       \/ PlaceAgain(c, quote)

Place(c) ==
  \E r \in Requests, quote \in Prices \cup {NoPrice} :
    RefuseOrder(c, r, quote) \/ PlaceOrder(c, r, quote)

Next ==
  \/ LookForBalance
  \/ InsertBalance
  \/ \E c \in Callers :
       \/ Place(c)
       \/ Fill(c)
       \/ \E i \in DOMAIN orders : CancelOrder(c, i)
       \/ MarkCancelled(c)
       \/ Sweep(c)
  \/ Restart

Spec == Init /\ [][Next]_vars
-----------------------------------------------------------------------------
(* The filled rows that tell the whole story: all, or those before the fill *)
(* that was cut short.                                                      *)
Told == {i \in DOMAIN orders :
           orders[i].status = "filled" /\ (torn = Whole \/ i <= torn)}

CashMoved(o) == IF o.side = "buy" THEN 0 - BuyCost(o.price, o.qty)
                                  ELSE SellProceeds(o.price, o.qty)
UnitsMoved(o) == IF o.side = "buy" THEN o.qty ELSE 0 - o.qty

CashTold ==
  InitialCash + SumFunctionOnSet([i \in DOMAIN orders |-> CashMoved(orders[i])], Told)
UnitsTold(s) ==
  SumFunctionOnSet([i \in DOMAIN orders |-> UnitsMoved(orders[i])],
                   {i \in Told : orders[i].symbol = s})

(* Outside a fill the balance row and the positions are what the filled     *)
(* orders add up to; an order that waits, is cancelled or is triggered and  *)
(* rejected moves nothing (fillOrder, checkPendingOrders).                  *)
OrdersExplainAccount ==
  /\ TypeOK
  /\ opened /\ torn = Whole /\ (\A c \in Callers : ~Writing(c)) =>
       /\ balance.cash = CashTold
       /\ \A s \in Symbols : pos[s].qty = UnitsTold(s)

(* However often an order is swept, cancelled, stored again under another   *)
(* id, or left by a process that died, it is pending once, or being filled, *)
(* or filled once, or none of it any more: checkPendingOrders marks the old *)
(* row before it places the new order.                                      *)
Lives(i) ==
  Cardinality({j \in DOMAIN orders :
                 orders[j].of = i /\ orders[j].status \in {"pending", "filled"}})
  + Cardinality({c \in Callers :
                 at[c] \in Filling \cup {"again"} /\ order[c].of = i})

OneLife == \A i \in DOMAIN orders : Lives(i) <= 1

Account == INSTANCE Ledger WITH
  Accounts <- {"account"},
  StartingCash <- InitialCash,
  cash <- [a \in {"account"} |-> CashTold],
  held <- [a \in {"account"} |-> [s \in Symbols |-> UnitsTold(s)]]

(* Each filled order was paid for by the cash the earlier ones left, or     *)
(* covered by the units they bought: both classes implement the ledger that *)
(* AgentExchange implements.                                                *)
ImplementsLedger == Account!LedgerSpec
=============================================================================
