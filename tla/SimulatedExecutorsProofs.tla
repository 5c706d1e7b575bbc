---------------------- MODULE SimulatedExecutorsProofs -----------------------
(****************************************************************************)
(* What SimulatedExecutors keeps for any number of callers, symbols,        *)
(* prices, quantities, calls and restarts.                                  *)
(****************************************************************************)
EXTENDS SimulatedExecutors, FillRulesProofs

(* The rows as they really are: nothing is ordered for 0 units, or priced   *)
(* at 0.                                                                    *)
Rows == [symbol : Symbols, side : {"buy", "sell"}, qty : Quantities \ {0}, price : Prices,
         status : {"pending", "filled", "cancelled"}, of : Nat]
FillOrders == [id : {0}, symbol : Symbols, side : {"buy", "sell"}, qty : Quantities \ {0},
               price : Prices, of : Nat]
Orders == {NoOrder} \cup [id : Nat] \cup [id : Nat, of : Nat] \cup FillOrders
Balances == [cash : Nat, peak : Int]
Results == [cash : Nat, pos : Positions, peak : Int]

Typed ==
  /\ executor \in {"simulated", "theme-sub-account"}
  /\ opened \in BOOLEAN
  /\ balance \in Balances
  /\ pos \in [Symbols -> Positions]
  /\ orders \in Seq(Rows)
  /\ \A i \in 1..Len(orders) : orders[i].of \in 1..i
  /\ instance \in {"constructed", "absent", "ready"}
  /\ priceCache \in [Symbols -> Prices \cup {NoPrice}]
  /\ at \in [Callers -> Steps]
  /\ todo \in [Callers -> SUBSET (1..Len(orders))]
  /\ order \in [Callers -> Orders]
  /\ seen \in [Callers -> Balances]
  /\ next \in [Callers -> Results]
  /\ torn \in Nat \cup {Whole}

Working(c) == at[c] \notin {"idle", "cancel"}

(* One order is carried through at a time, on an account that is open.      *)
Turns ==
  /\ \A c, d \in Callers : Working(c) /\ Working(d) => c = d
  /\ \A c \in Callers : Working(c) => instance = "ready"
  /\ instance = "ready" => opened
  /\ instance = "absent" => ~opened
  /\ ~opened => /\ balance = NoRow /\ orders = <<>>
                /\ pos = [s \in Symbols |-> NoPosition]

(* What a caller carries.                                                   *)
Carries(c) ==
  /\ at[c] \in Filling =>
       order[c] \in FillOrders /\ order[c].of \in 0..Len(orders)
  /\ at[c] = "again" =>
       /\ order[c].id \in 1..Len(orders) /\ orders[order[c].id].status = "cancelled"
       /\ order[c].of = orders[order[c].id].of
  /\ at[c] = "cancel" =>
       order[c].id \in 1..Len(orders) /\ orders[order[c].id].status # "filled"
  /\ \A i \in todo[c] : orders[i].status # "filled"
  /\ todo[c] # {} => Working(c)

AccountInv == Typed /\ Turns /\ \A c \in Callers : Carries(c)

Alive(i) == orders[i].status \in {"pending", "filled"}
Placing(c) == at[c] \in Filling \cup {"again"}

(* Of all the rows and callers that stand for one order, one is alive.  The *)
(* rows that a sweep has before it count, whatever became of them: it will  *)
(* place them again.                                                        *)
Lineage ==
  /\ \A i, j \in 1..Len(orders) :
       Alive(i) /\ Alive(j) /\ orders[i].of = orders[j].of => i = j
  /\ \A c \in Callers, j \in 1..Len(orders) :
       Placing(c) /\ Alive(j) => orders[j].of # order[c].of
  /\ \A c \in Callers, i \in 1..Len(orders), j \in 1..Len(orders) :
       i \in todo[c] /\ (Alive(j) \/ j \in todo[c]) /\ orders[i].of = orders[j].of => i = j
  /\ \A c \in Callers, i \in 1..Len(orders) :
       i \in todo[c] /\ Placing(c) => orders[i].of # order[c].of

(* What the caller that fills read is still so, and what it computed.       *)
Fresh(c) ==
  LET o == order[c] IN
  /\ at[c] \in {"position", "upsert", "equity", "update"} => seen[c] = balance
  /\ at[c] \in {"upsert", "equity", "update"} =>
       next[c].cash = NewCash(o.side, o.price, o.qty, balance.cash)
  /\ at[c] = "upsert" =>
       /\ CanFill(o.side, o.price, o.qty, balance.cash, pos[o.symbol])
       /\ next[c].pos = NewPosition(o.side, o.price, o.qty, pos[o.symbol])

(* The rows explain the account but for the fill that is being written.     *)
Explained ==
  torn = Whole /\ opened =>
    /\ (\A c \in Callers : at[c] # "record") => balance.cash = CashTold
    /\ \A c \in Callers : at[c] = "record" => balance.cash = CashTold + CashMoved(order[c])
    /\ (\A c \in Callers : ~Writing(c)) => \A s \in Symbols : pos[s].qty = UnitsTold(s)
    /\ \A c \in Callers, s \in Symbols : Writing(c) =>
         pos[s].qty = UnitsTold(s) + (IF s = order[c].symbol THEN UnitsMoved(order[c]) ELSE 0)

(* A history of rows that were told ends where rows end.                    *)
TornThere == torn # Whole => torn <= Len(orders)

BooksInv == Explained /\ TornThere /\ \A c \in Callers : Fresh(c)
-----------------------------------------------------------------------------
(* The first price that is known is a price, or none is known.              *)
LEMMA FirstOfThree ==
  ASSUME NEW a \in Prices \cup {NoPrice}, NEW b \in Prices \cup {NoPrice},
         NEW d \in Prices \cup {NoPrice}
  PROVE  First(<<a, b, d>>) \in Prices \cup {NoPrice}
<1> DEFINE p == <<a, b, d>>
           found == {i \in DOMAIN p : p[i] # NoPrice}
<1>1. found \subseteq Nat /\ found \subseteq {1, 2, 3} /\ \A i \in {1, 2, 3} : p[i] \in Prices \cup {NoPrice}
  OBVIOUS
<1>2. CASE found = {}
  BY <1>2 DEF First
<1>3. CASE found # {}
  <2> HIDE DEF found
  <2>1. \E x \in found : \A y \in found : x <= y
    BY <1>1, <1>3, HasLeast
  <2>2. Min(found) \in found
    BY <2>1 DEF Min
  <2> QED
    BY <1>1, <1>3, <2>2 DEF First, found
<1> QED
  BY <1>2, <1>3

(* The same for two sources.                                                *)
LEMMA FirstOfTwo ==
  ASSUME NEW a \in Prices \cup {NoPrice}, NEW b \in Prices \cup {NoPrice}
  PROVE  First(<<a, b>>) \in Prices \cup {NoPrice}
<1> DEFINE p == <<a, b>>
           found == {i \in DOMAIN p : p[i] # NoPrice}
<1>1. found \subseteq Nat /\ found \subseteq {1, 2} /\ \A i \in {1, 2} : p[i] \in Prices \cup {NoPrice}
  OBVIOUS
<1>2. CASE found = {}
  BY <1>2 DEF First
<1>3. CASE found # {}
  <2> HIDE DEF found
  <2>1. \E x \in found : \A y \in found : x <= y
    BY <1>1, <1>3, HasLeast
  <2>2. Min(found) \in found
    BY <2>1 DEF Min
  <2> QED
    BY <1>1, <1>3, <2>2 DEF First, found
<1> QED
  BY <1>2, <1>3

(* The price an order is filled at.                                         *)
LEMMA FillPriceTyped ==
  ASSUME Typed, NEW r \in Requests, NEW quote \in Prices \cup {NoPrice},
         FillPrice(r, quote) # NoPrice
  PROVE  FillPrice(r, quote) \in Prices
<1>1. r.symbol \in Symbols /\ r.limit \in Prices \cup {NoPrice}
  BY DEF Requests
<1>2. priceCache[r.symbol] \in Prices \cup {NoPrice}
  BY <1>1 DEF Typed
<1>3. ResolvePrice(r.symbol, quote, r.limit) \in Prices \cup {NoPrice}
  BY <1>1, <1>2, FirstOfThree DEF ResolvePrice
<1> QED
  BY <1>1, <1>3 DEF FillPrice

(* What a position counts for.                                              *)
LEMMA RowValueTyped ==
  ASSUME Typed, NEW s \in Symbols, NEW quote \in Prices \cup {NoPrice}
  PROVE  RowValue(s, quote) \in Int
<1> DEFINE price == IF executor = "simulated" THEN quote ELSE First(<<quote, priceCache[s]>>)
<1>1. priceCache[s] \in Prices \cup {NoPrice}
  BY DEF Typed
<1>2. price \in Prices \cup {NoPrice}
  BY <1>1, FirstOfTwo
<1>3. price \in Nat
  <2> HIDE DEF price
  <2> QED
    BY <1>2, SimulatedExecutorsAssumption DEF NoPrice
<1>4. pos[s].cost \in Nat /\ pos[s].qty \in Nat
  BY DEF Typed, Positions
<1>5. Notional(price, pos[s].qty) \in Nat
  BY <1>3, <1>4, AmountsNat
<1>6. RowValue(s, quote) = IF price = NoPrice THEN pos[s].cost ELSE Notional(price, pos[s].qty)
  BY DEF RowValue
<1> HIDE DEF price
<1> QED
  BY <1>4, <1>5, <1>6

(* The equity is an integer.                                                *)
LEMMA EquityTyped ==
  ASSUME Typed, NEW quotes \in [Symbols -> Prices \cup {NoPrice}]
  PROVE  SumFunction([s \in Symbols |-> RowValue(s, quotes[s])]) \in Int
<1> DEFINE f == [s \in Symbols |-> RowValue(s, quotes[s])]
<1>1. \A s \in Symbols : f[s] \in Int
  BY RowValueTyped
<1>2. DOMAIN f = Symbols
  OBVIOUS
<1> HIDE DEF f
<1>3. SumFunctionOnSet(f, Symbols) \in Int
  BY <1>1, SumInt, SimulatedExecutorsAssumption
<1> QED
  BY <1>2, <1>3 DEF SumFunction, f

(* A fill that was accepted leaves cash and a position.                     *)
LEMMA CarriedFillTyped ==
  ASSUME Typed, NEW c \in Callers, order[c] \in FillOrders, Accepts(c)
  PROVE  /\ NewCash(order[c].side, order[c].price, order[c].qty, seen[c].cash) \in Nat
         /\ NewPosition(order[c].side, order[c].price, order[c].qty, pos[order[c].symbol]) \in Positions
<1>1. /\ order[c].side \in {"buy", "sell"} /\ order[c].price \in Nat
      /\ order[c].qty \in Nat \ {0} /\ order[c].symbol \in Symbols
  BY SimulatedExecutorsAssumption DEF FillOrders
<1>2. seen[c].cash \in Nat /\ pos[order[c].symbol] \in Positions
  BY <1>1 DEF Typed, Balances
<1> QED
  BY <1>1, <1>2, FillIsTyped DEF Accepts

(* The blanks are of their types.                                           *)
LEMMA Blanks ==
  /\ NoRow \in Balances /\ NoResult \in Results /\ NoOrder \in Orders
  /\ NoPosition \in Positions
<1>1. NoPosition \in Positions
  BY DEF NoPosition, Positions
<1>2. NoRow \in Balances
  BY DEF NoRow, Balances
<1>3. NoResult \in Results
  BY <1>1 DEF NoResult, Results
<1> QED
  BY <1>1, <1>2, <1>3 DEF Orders

(* What is changed by marking a row cancelled.                              *)
LEMMA CancelledRows ==
  ASSUME orders \in Seq(Rows), NEW i \in 1..Len(orders)
  PROVE  /\ Cancelled(i) \in Seq(Rows) /\ Len(Cancelled(i)) = Len(orders)
         /\ \A j \in 1..Len(orders) :
              /\ Cancelled(i)[j].of = orders[j].of
              /\ Cancelled(i)[j].status = IF j = i THEN "cancelled" ELSE orders[j].status
              /\ j # i => Cancelled(i)[j] = orders[j]
<1> DEFINE x == [orders[i] EXCEPT !.status = "cancelled"]
<1>1. orders[i] \in Rows
  OBVIOUS
<1>2. x \in Rows /\ x.of = orders[i].of /\ x.status = "cancelled"
  BY <1>1 DEF Rows
<1>3. Cancelled(i) = [orders EXCEPT ![i] = x]
  BY DEF Cancelled
<1> HIDE DEF x
<1> QED
  BY <1>2, <1>3

(* The same for a step that marks one.                                      *)
LEMMA CancelledStep ==
  ASSUME Typed, NEW i \in 1..Len(orders), orders' = Cancelled(i)
  PROVE  /\ orders' \in Seq(Rows) /\ Len(orders') = Len(orders)
         /\ \A j \in 1..Len(orders) :
              /\ orders'[j].of \in 1..j /\ orders'[j].of = orders[j].of
              /\ orders'[j].status = IF j = i THEN "cancelled" ELSE orders[j].status
<1>1. orders \in Seq(Rows) /\ \A j \in 1..Len(orders) : orders[j].of \in 1..j
  BY DEF Typed
<1> QED
  BY <1>1, CancelledRows

(* The account is in order when initBalance looks for the row.              *)
LEMMA LookForBalanceAccount ==
  ASSUME AccountInv, LookForBalance
  PROVE  AccountInv'
<1> USE DEF AccountInv, LookForBalance, tables, memory, locals, history
<1>1. Typed'
  BY DEF Typed
<1>2. Turns'
  BY DEF Typed, Turns, Working, Filling
<1>3. ASSUME NEW d \in Callers PROVE Carries(d)'
  BY <1>1 DEF Typed, Turns, Carries, Working, Steps, Filling
<1> QED
  BY <1>1, <1>2, <1>3

(* The account is in order when the account is opened.                      *)
LEMMA InsertBalanceAccount ==
  ASSUME AccountInv, InsertBalance
  PROVE  AccountInv'
<1> USE DEF AccountInv, InsertBalance, tables, memory, locals, history
<1>1. Typed'
  <2>1. [cash |-> InitialCash, peak |-> InitialCash] \in Balances
    BY SimulatedExecutorsAssumption DEF Balances
  <2> QED
    BY <2>1 DEF Typed
<1>2. Turns'
  BY DEF Typed, Turns, Working, Filling
<1>3. ASSUME NEW d \in Callers PROVE Carries(d)'
  BY <1>1 DEF Typed, Turns, Carries, Working, Steps, Filling
<1> QED
  BY <1>1, <1>2, <1>3

(* The account is in order when an order is refused.                        *)
LEMMA RefuseOrderAccount ==
  ASSUME NEW c \in Callers, NEW r \in Requests, NEW quote \in Prices \cup {NoPrice},
         AccountInv, RefuseOrder(c, r, quote)
  PROVE  AccountInv'
<1> USE DEF AccountInv, RefuseOrder, TakesTurn, IsOpen, tables, memory, locals, history
<1>1. Typed'
  BY DEF Typed
<1>2. Turns'
  BY DEF Typed, Turns, Working, Filling
<1>3. ASSUME NEW d \in Callers PROVE Carries(d)'
  BY <1>1 DEF Typed, Turns, Carries, Working, Steps, Filling
<1> QED
  BY <1>1, <1>2, <1>3

(* The account is in order when the balance is read.                        *)
LEMMA ReadBalanceAccount ==
  ASSUME NEW c \in Callers, AccountInv, ReadBalance(c)
  PROVE  AccountInv'
<1> USE DEF AccountInv, ReadBalance, Go, tables, memory, locals, history
<1>1. Typed'
  BY DEF Typed, Steps, Filling
<1>2. Turns'
  BY DEF Typed, Turns, Working, Filling
<1>3. ASSUME NEW d \in Callers PROVE Carries(d)'
  BY <1>1 DEF Typed, Turns, Carries, Working, Steps, Filling
<1> QED
  BY <1>1, <1>2, <1>3

(* The account is in order when an order is rejected.                       *)
LEMMA RejectOrderAccount ==
  ASSUME NEW c \in Callers, AccountInv, RejectOrder(c)
  PROVE  AccountInv'
<1> USE DEF AccountInv, RejectOrder, Go, Return, tables, memory, locals, history
<1>1. Typed'
  BY Blanks DEF Typed, Steps
<1>2. Turns'
  BY DEF Typed, Turns, Working, Filling
<1>3. ASSUME NEW d \in Callers PROVE Carries(d)'
  BY <1>1 DEF Typed, Turns, Carries, Working, Steps, Filling
<1> QED
  BY <1>1, <1>2, <1>3

(* The account is in order when the fill is computed.                       *)
LEMMA ReadPositionAccount ==
  ASSUME NEW c \in Callers, AccountInv, ReadPosition(c)
  PROVE  AccountInv'
<1> USE DEF AccountInv, ReadPosition, Go, tables, memory, locals, history
<1>1. Typed'
  <2> DEFINE o == order[c]
             x == [cash |-> NewCash(o.side, o.price, o.qty, seen[c].cash),
                   pos  |-> NewPosition(o.side, o.price, o.qty, pos[o.symbol]),
                   peak |-> seen[c].peak]
  <2>1. o \in FillOrders /\ seen[c].peak \in Int
    BY DEF Carries, Filling, Typed, Balances
  <2>2. x \in Results
    BY <2>1, CarriedFillTyped DEF Results
  <2>3. next' = [next EXCEPT ![c] = x]
    OBVIOUS
  <2> HIDE DEF x
  <2> QED
    BY <2>2, <2>3 DEF Typed, Steps, Filling
<1>2. Turns'
  BY DEF Typed, Turns, Working, Filling
<1>3. ASSUME NEW d \in Callers PROVE Carries(d)'
  BY <1>1 DEF Typed, Turns, Carries, Working, Steps, Filling
<1> QED
  BY <1>1, <1>2, <1>3

(* The account is in order when the position is written.                    *)
LEMMA UpsertPositionAccount ==
  ASSUME NEW c \in Callers, AccountInv, UpsertPosition(c)
  PROVE  AccountInv'
<1> USE DEF AccountInv, UpsertPosition, Go, tables, memory, locals, history
<1>1. Typed'
  BY DEF Typed, Steps, Filling, Results
<1>2. Turns'
  BY DEF Typed, Turns, Working, Filling
<1>3. ASSUME NEW d \in Callers PROVE Carries(d)'
  BY <1>1 DEF Typed, Turns, Carries, Working, Steps, Filling
<1> QED
  BY <1>1, <1>2, <1>3

(* The account is in order when the equity is computed.                     *)
LEMMA CalculateEquityAccount ==
  ASSUME NEW c \in Callers, NEW quotes \in [Symbols -> Prices \cup {NoPrice}], AccountInv,
         CalculateEquity(c, quotes)
  PROVE  AccountInv'
<1> USE DEF AccountInv, CalculateEquity, Go, tables, memory, locals, history
<1>1. Typed'
  <2> DEFINE total == SumFunction([s \in Symbols |-> RowValue(s, quotes[s])])
             equity == next[c].cash + total
             p == IF equity > seen[c].peak THEN equity ELSE seen[c].peak
             x == [next[c] EXCEPT !.peak = p]
  <2>1. total \in Int
    BY EquityTyped
  <2>2. next' = [next EXCEPT ![c] = x]
    OBVIOUS
  <2> HIDE DEF total
  <2>3. p \in Int
    BY <2>1 DEF Typed, Results, Balances
  <2> HIDE DEF p
  <2>4. x \in Results
    BY <2>3 DEF Typed, Results
  <2> HIDE DEF x
  <2> QED
    BY <2>2, <2>4 DEF Typed, Steps, Filling
<1>2. Turns'
  BY DEF Typed, Turns, Working, Filling
<1>3. ASSUME NEW d \in Callers PROVE Carries(d)'
  BY <1>1 DEF Typed, Turns, Carries, Working, Steps, Filling
<1> QED
  BY <1>1, <1>2, <1>3

(* The account is in order when the balance is written.                     *)
LEMMA UpdateBalanceAccount ==
  ASSUME NEW c \in Callers, AccountInv, UpdateBalance(c)
  PROVE  AccountInv'
<1> USE DEF AccountInv, UpdateBalance, Go, tables, memory, locals, history
<1>1. Typed'
  <2>1. [cash |-> next[c].cash, peak |-> next[c].peak] \in Balances
    BY DEF Typed, Results, Balances
  <2>2. order[c].price \in Prices
    BY DEF Carries, Filling, FillOrders
  <2> QED
    BY <2>1, <2>2 DEF Typed, Steps, Filling
<1>2. Turns'
  BY DEF Typed, Turns, Working, Filling
<1>3. ASSUME NEW d \in Callers PROVE Carries(d)'
  BY <1>1 DEF Typed, Turns, Carries, Working, Steps, Filling
<1> QED
  BY <1>1, <1>2, <1>3

(* The account is in order when the row of a filled order is added.         *)
LEMMA RecordOrderAccount ==
  ASSUME NEW c \in Callers, AccountInv, RecordOrder(c)
  PROVE  AccountInv'
<1> USE DEF AccountInv, RecordOrder, Go, Return, tables, memory, locals, history
<1>1. Typed'
  <2> DEFINE o == order[c]
             f == IF o.of = 0 THEN Len(orders) + 1 ELSE o.of
             x == [symbol |-> o.symbol, side |-> o.side, qty |-> o.qty,
                   price |-> o.price, status |-> "filled", of |-> f]
  <2>1. o \in FillOrders /\ o.of \in 0..Len(orders)
    BY DEF Carries, Filling
  <2>2. f \in 1..Len(orders) + 1 /\ x.of = f
    BY <2>1 DEF Typed
  <2> HIDE DEF f
  <2>3. x \in Rows
    BY <2>1, <2>2 DEF FillOrders, Rows, Typed
  <2>4. orders' = Append(orders, x)
    BY DEF f
  <2> HIDE DEF x
  <2>5. orders' \in Seq(Rows) /\ Len(orders') = Len(orders) + 1
        /\ \A i \in 1..Len(orders') : orders'[i].of \in 1..i
    BY <2>2, <2>3, <2>4 DEF Typed
  <2> QED
    BY <2>5, Blanks DEF Typed, Steps
<1>2. Turns'
  BY DEF Typed, Turns, Working, Filling
<1>3. ASSUME NEW d \in Callers PROVE Carries(d)'
  BY <1>1 DEF Typed, Turns, Carries, Working, Steps, Filling
<1> QED
  BY <1>1, <1>2, <1>3

(* The account is in order when cancelOrder finds a pending order.          *)
LEMMA CancelOrderAccount ==
  ASSUME NEW c \in Callers, NEW i \in DOMAIN orders, AccountInv, CancelOrder(c, i)
  PROVE  AccountInv'
<1> USE DEF AccountInv, CancelOrder, Go, Pending, tables, memory, locals, history
<1>1. Typed'
  BY DEF Typed, Steps, Orders, NoOrder
<1>2. Turns'
  BY DEF Typed, Turns, Working, Filling
<1>3. ASSUME NEW d \in Callers PROVE Carries(d)'
  BY <1>1 DEF Typed, Turns, Carries, Working, Steps, Filling
<1> QED
  BY <1>1, <1>2, <1>3

(* The account is in order when cancelOrder marks it.                       *)
LEMMA MarkCancelledAccount ==
  ASSUME NEW c \in Callers, AccountInv, MarkCancelled(c)
  PROVE  AccountInv'
<1> USE DEF AccountInv, MarkCancelled, Go, Return, tables, memory, locals, history
<1>0. /\ order[c].id \in 1..Len(orders) /\ orders[order[c].id].status # "filled"
      /\ at[c] = "cancel"
  BY DEF Carries
<1>1. Typed'
  <2>1. /\ orders' \in Seq(Rows) /\ Len(orders') = Len(orders)
        /\ \A j \in 1..Len(orders) : orders'[j].of \in 1..j
    BY <1>0, CancelledStep
  <2>2. at' \in [Callers -> Steps] /\ order' \in [Callers -> Orders]
    BY Blanks DEF Typed, Steps
  <2>3. seen' \in [Callers -> Balances] /\ next' \in [Callers -> Results]
    BY Blanks DEF Typed
  <2> QED
    BY <2>1, <2>2, <2>3 DEF Typed
<1>2. Turns'
  <2>1. opened /\ todo[c] = {}
    BY <1>0 DEF Turns, Typed, Carries, Working
  <2> QED
    BY <2>1 DEF Typed, Turns, Working
<1>3. ASSUME NEW d \in Callers PROVE Carries(d)'
  BY SMTT(30), <1>0, <1>1, CancelledRows DEF Typed, Turns, Carries, Working, Filling
<1> QED
  BY <1>1, <1>2, <1>3

(* The account is in order when a sweep begins.                             *)
LEMMA CheckPendingOrdersAccount ==
  ASSUME NEW c \in Callers, AccountInv, CheckPendingOrders(c)
  PROVE  AccountInv'
<1> USE DEF AccountInv, CheckPendingOrders, Go, Pending, TakesTurn, IsOpen, tables, memory, locals, history
<1>1. Typed'
  BY DEF Typed, Steps, NoOrder
<1>2. Turns'
  BY DEF Typed, Turns, Working, Filling
<1>3. ASSUME NEW d \in Callers PROVE Carries(d)'
  BY <1>1 DEF Typed, Turns, Carries, Working, Steps, Filling
<1> QED
  BY <1>1, <1>2, <1>3

(* The account is in order when a sweep passes an order.                    *)
LEMMA LeavePendingAccount ==
  ASSUME NEW c \in Callers, NEW i \in DOMAIN orders, NEW quote \in Prices \cup {NoPrice},
         AccountInv, LeavePending(c, i, quote)
  PROVE  AccountInv'
<1> USE DEF AccountInv, LeavePending, Go, tables, memory, locals, history
<1>1. Typed'
  BY DEF Typed, Steps
<1>2. Turns'
  BY DEF Typed, Turns, Working, Filling
<1>3. ASSUME NEW d \in Callers PROVE Carries(d)'
  BY <1>1 DEF Typed, Turns, Carries, Working, Steps, Filling
<1> QED
  BY <1>1, <1>2, <1>3

(* The account is in order when a sweep marks an order that it will place   *)
(* again.                                                                   *)
LEMMA TriggerOrderAccount ==
  ASSUME NEW c \in Callers, NEW i \in DOMAIN orders, NEW quote \in Prices \cup {NoPrice},
         AccountInv, TriggerOrder(c, i, quote)
  PROVE  AccountInv'
<1> USE DEF AccountInv, TriggerOrder, Go, tables, memory, locals, history
<1>1. Typed'
  <2> DEFINE x == [id |-> i, of |-> orders[i].of]
  <2>1. i \in 1..Len(orders) /\ orders[i].of \in Nat
    BY DEF Typed
  <2>2. x \in Orders
    BY <2>1 DEF Orders
  <2>3. /\ orders' \in Seq(Rows) /\ Len(orders') = Len(orders)
        /\ \A j \in 1..Len(orders') : orders'[j].of \in 1..j
    <3>1. orders' = Cancelled(i) /\ orders \in Seq(Rows)
      BY DEF Typed
    <3> QED
      BY <2>1, <3>1, CancelledRows DEF Typed
  <2> HIDE DEF x
  <2> QED
    BY <2>2, <2>3 DEF Typed, Steps, x
<1>2. Turns'
  BY DEF Typed, Turns, Working, Filling
<1>3. ASSUME NEW d \in Callers PROVE Carries(d)'
  <2>1. /\ i \in 1..Len(orders) /\ Len(orders') = Len(orders)
        /\ \A j \in 1..Len(orders) :
             /\ orders'[j].of = orders[j].of
             /\ orders'[j].status = IF j = i THEN "cancelled" ELSE orders[j].status
    <3>1. i \in 1..Len(orders)
      BY DEF Typed
    <3> QED
      BY <3>1, CancelledStep
  <2>2. /\ todo'[d] \subseteq todo[d] /\ todo[d] \subseteq 1..Len(orders)
        /\ d # c => at'[d] = at[d] /\ order'[d] = order[d]
    BY DEF Typed
  <2>3. Carries(d)
    OBVIOUS
  <2>4. CASE d = c
    <3>1. at'[c] = "again" /\ order'[c].id = i /\ order'[c].of = orders[i].of
      BY DEF Typed
    <3> QED
      BY <2>1, <2>2, <2>3, <2>4, <3>1 DEF Carries, Working, Filling
  <2>5. CASE d # c
    BY <2>1, <2>2, <2>3, <2>5 DEF Carries, Working, Filling
  <2> QED
    BY <2>4, <2>5
<1> QED
  BY <1>1, <1>2, <1>3

(* The account is in order when the process ends.                           *)
LEMMA RestartAccount ==
  ASSUME AccountInv, Restart
  PROVE  AccountInv'
<1> USE DEF AccountInv, Restart, NoOrder, tables, memory, locals, history
<1>1. Typed'
  BY Blanks DEF Typed, Steps
<1>2. Turns'
  BY DEF Typed, Turns, Working, Filling
<1>3. ASSUME NEW d \in Callers PROVE Carries(d)'
  BY <1>1 DEF Typed, Turns, Carries, Working, Steps, Filling
<1> QED
  BY <1>1, <1>2, <1>3

(* An order of which another order may be the first, about to be placed.    *)
MayPlace(c, r, of) ==
  /\ r.qty # 0
  /\ r.kind = "limit" /\ executor = "simulated" => r.limit \in Prices
  /\ of \in 0..Len(orders)
  /\ instance = "ready"
  /\ \A d \in Callers : Working(d) => d = c

(* The account is in order when an order is stored to wait.                 *)
LEMMA StoreOrderAccount ==
  ASSUME NEW c \in Callers, NEW r \in Requests, NEW of, NEW quote \in Prices \cup {NoPrice},
         AccountInv, MayPlace(c, r, of), at[c] # "cancel",
         StoreOrder(c, r, of, quote), UNCHANGED <<executor, memory, todo, torn>>
  PROVE  AccountInv'
<1> USE DEF AccountInv, memory
<1> DEFINE f == IF of = 0 THEN Len(orders) + 1 ELSE of
           x == [symbol |-> r.symbol, side |-> r.side, qty |-> r.qty,
                 price |-> r.limit, status |-> "pending", of |-> f]
<1>1. f \in 1..Len(orders) + 1 /\ x.of = f
  BY DEF Typed, MayPlace
<1> HIDE DEF f
<1>2. x \in Rows
  BY <1>1 DEF Requests, Rows, Typed, MayPlace, StoreOrder, MustWait
<1>3. orders' = Append(orders, x)
  BY DEF StoreOrder, f
<1> HIDE DEF x
<1>4. /\ orders' \in Seq(Rows) /\ Len(orders') = Len(orders) + 1
      /\ \A i \in 1..Len(orders') : orders'[i].of \in 1..i
      /\ \A i \in 1..Len(orders) : orders'[i] = orders[i]
  BY <1>1, <1>2, <1>3 DEF Typed
<1>5. Typed'
  BY <1>4, Blanks DEF Typed, Steps, StoreOrder, Return, Go
<1>6. Turns'
  BY DEF Turns, Working, StoreOrder, Return, Go, MayPlace
<1>7. ASSUME NEW d \in Callers PROVE Carries(d)'
  <2>1. at'[c] \in {"idle", "sweep"} /\ (todo[c] # {} => at'[c] = "sweep")
    BY DEF Typed, StoreOrder, Return, Go
  <2>2. d # c => at'[d] = at[d] /\ order'[d] = order[d]
    BY DEF Typed, StoreOrder, Return, Go
  <2>3. todo[d] \subseteq 1..Len(orders) /\ Len(orders) \in Nat
    BY DEF Typed
  <2> QED
    BY <1>4, <2>1, <2>2, <2>3 DEF Carries, Working, Filling
<1> QED
  BY <1>5, <1>6, <1>7

(* The account is in order when the fill of an order begins.                *)
LEMMA StartFillAccount ==
  ASSUME NEW c \in Callers, NEW r \in Requests, NEW of, NEW quote \in Prices \cup {NoPrice},
         AccountInv, MayPlace(c, r, of), StartFill(c, r, of, quote),
         UNCHANGED <<executor, memory, todo, torn>>
  PROVE  AccountInv'
<1> USE DEF AccountInv, memory, tables
<1> DEFINE x == [id |-> 0, symbol |-> r.symbol, side |-> r.side, qty |-> r.qty,
                 price |-> FillPrice(r, quote), of |-> of]
<1>1. FillPrice(r, quote) \in Prices
  BY FillPriceTyped DEF StartFill
<1>2. x \in FillOrders /\ x.of \in 0..Len(orders)
  BY <1>1 DEF Requests, FillOrders, MayPlace, Typed
<1>3. order' = [order EXCEPT ![c] = x] /\ at' = [at EXCEPT ![c] = "balance"]
  BY DEF StartFill, Go
<1> HIDE DEF x
<1>4. Typed'
  BY <1>2, <1>3 DEF Typed, Steps, Filling, Orders, StartFill
<1>5. Turns'
  BY <1>3 DEF Typed, Turns, Working, StartFill, MayPlace
<1>6. ASSUME NEW d \in Callers PROVE Carries(d)'
  BY <1>2, <1>3 DEF Typed, Carries, Working, StartFill, Filling
<1> QED
  BY <1>4, <1>5, <1>6

(* Who places an order may.                                                 *)
LEMMA PlaceMay ==
  ASSUME NEW c \in Callers, NEW r \in Requests, NEW quote \in Prices \cup {NoPrice},
         AccountInv, PlaceOrder(c, r, quote)
  PROVE  MayPlace(c, r, 0) /\ at[c] # "cancel" /\ todo[c] = {}
BY SimulatedExecutorsAssumption
   DEF AccountInv, Typed, PlaceOrder, TakesTurn, IsOpen, Refused, Requests, MayPlace, Working,
       NoPrice, Carries

(* A triggered row is an order that may be placed again.                    *)
LEMMA AgainMay ==
  ASSUME NEW c \in Callers, NEW quote \in Prices \cup {NoPrice}, AccountInv,
         PlaceAgain(c, quote)
  PROVE  /\ AsRequest(order[c].id) \in Requests
         /\ MayPlace(c, AsRequest(order[c].id), order[c].of)
<1>1. order[c].id \in 1..Len(orders) /\ order[c].of = orders[order[c].id].of
  BY DEF AccountInv, Carries, PlaceAgain
<1>2. orders[order[c].id] \in Rows /\ order[c].of \in 1..order[c].id
  BY <1>1 DEF AccountInv, Typed
<1>3. AsRequest(order[c].id) \in Requests
  BY <1>2 DEF AsRequest, Rows, Requests
<1>4. Working(c)
  BY DEF PlaceAgain, Working
<1> QED
  BY <1>1, <1>2, <1>3, <1>4 DEF AsRequest, Rows, MayPlace, AccountInv, Turns, Typed

(* The account is in order when an order is placed.                         *)
LEMMA PlaceOrderAccount ==
  ASSUME NEW c \in Callers, NEW r \in Requests, NEW quote \in Prices \cup {NoPrice},
         AccountInv, PlaceOrder(c, r, quote)
  PROVE  AccountInv'
BY PlaceMay, StoreOrderAccount, StartFillAccount DEF PlaceOrder

(* The account is in order when a triggered order is placed again.          *)
LEMMA PlaceAgainAccount ==
  ASSUME NEW c \in Callers, NEW quote \in Prices \cup {NoPrice}, AccountInv,
         PlaceAgain(c, quote)
  PROVE  AccountInv'
<1>1. at[c] # "cancel"
  BY DEF PlaceAgain
<1> QED
  BY <1>1, AgainMay, StoreOrderAccount, StartFillAccount DEF PlaceAgain, history
-----------------------------------------------------------------------------
(* Steps that leave the rows alone and take up no order.                    *)
LEMMA LineageFrame ==
  ASSUME Lineage, UNCHANGED orders,
         \A c \in Callers : /\ todo'[c] \subseteq todo[c]
                            /\ Placing(c)' => Placing(c) /\ order'[c].of = order[c].of
  PROVE  Lineage'
BY DEF Lineage, Alive

(* One life for each order when a sweep begins.                             *)
LEMMA CheckPendingOrdersLineage ==
  ASSUME NEW c \in Callers, AccountInv, Lineage, CheckPendingOrders(c)
  PROVE  Lineage'
<1>1. /\ UNCHANGED <<orders, order>> /\ ~Placing(c)'
      /\ \A i \in todo'[c] : i \in 1..Len(orders) /\ Alive(i)
      /\ \A d \in Callers : d # c => todo'[d] = todo[d] /\ at'[d] = at[d]
  BY DEF AccountInv, Typed, CheckPendingOrders, tables, Go, Placing, Filling, Pending, Alive
<1> QED
  BY <1>1 DEF Lineage, Alive, Placing

(* A row is added that continues an order of which no other row is alive.   *)
LEMMA AppendLineage ==
  ASSUME NEW c \in Callers, AccountInv, Lineage, NEW x \in Rows,
         orders' = Append(orders, x), UNCHANGED todo, ~Placing(c)',
         \A d \in Callers : d # c => todo[d] = {} /\ ~Placing(d)',
         \A j \in 1..Len(orders) : Alive(j) => orders[j].of # x.of,
         \A i \in todo[c] : orders[i].of # x.of
  PROVE  Lineage'
<1>1. /\ Len(orders') = Len(orders) + 1 /\ Len(orders) \in Nat
      /\ orders'[Len(orders) + 1] = x
      /\ \A j \in 1..Len(orders) : orders'[j] = orders[j]
      /\ \A d \in Callers : todo[d] \subseteq 1..Len(orders)
  BY DEF AccountInv, Typed
<1> DEFINE n == Len(orders) + 1
<1>2. \A j \in 1..Len(orders') : j = n \/ j \in 1..Len(orders)
  BY <1>1
<1>3. \A i, j \in 1..Len(orders') : Alive(i)' /\ Alive(j)' /\ orders'[i].of = orders'[j].of => i = j
  BY <1>1, <1>2 DEF Lineage, Alive
<1>4. \A d \in Callers, i \in 1..Len(orders'), j \in 1..Len(orders') :
        i \in todo'[d] /\ (Alive(j)' \/ j \in todo'[d]) /\ orders'[i].of = orders'[j].of => i = j
  BY <1>1, <1>2 DEF Lineage, Alive
<1> QED
  BY <1>3, <1>4 DEF Lineage

(* A number no row has yet.                                                 *)
LEMMA NewNumber ==
  ASSUME AccountInv
  PROVE  \A j \in 1..Len(orders) : orders[j].of # Len(orders) + 1 /\ orders[j].of # 0
BY DEF AccountInv, Typed

(* While one caller works, the others carry nothing.                        *)
LEMMA NobodyElse ==
  ASSUME AccountInv, NEW c \in Callers, \A d \in Callers : Working(d) => d = c
  PROVE  \A d \in Callers : d # c => todo[d] = {} /\ ~Placing(d)
BY DEF AccountInv, Carries, Placing, Working, Filling

(* A row that waits takes over from the caller that stored it.              *)
LEMMA StoreOrderLineage ==
  ASSUME NEW c \in Callers, NEW r \in Requests, NEW of, NEW quote \in Prices \cup {NoPrice},
         AccountInv, AccountInv', Lineage, MayPlace(c, r, of), UNCHANGED todo,
         of = 0 => todo[c] = {},
         of # 0 => Placing(c) /\ of = order[c].of,
         StoreOrder(c, r, of, quote)
  PROVE  Lineage'
<1> DEFINE f == IF of = 0 THEN Len(orders) + 1 ELSE of
           x == [symbol |-> r.symbol, side |-> r.side, qty |-> r.qty,
                 price |-> r.limit, status |-> "pending", of |-> f]
<1>1. orders' = Append(orders, x) /\ x.of = f
  BY DEF StoreOrder
<1>2. x \in Rows
  <2>1. f \in Nat
    BY DEF MayPlace, AccountInv, Typed
  <2> HIDE DEF f
  <2> QED
    BY <2>1 DEF Requests, Rows, MayPlace, StoreOrder, MustWait
<1>3. \A j \in 1..Len(orders) : Alive(j) => orders[j].of # f
  BY NewNumber DEF Lineage
<1>4. \A i \in todo[c] : orders[i].of # f
  BY DEF Lineage, AccountInv, Typed
<1>5. ~Placing(c)' /\ \A d \in Callers : d # c => todo[d] = {} /\ ~Placing(d)'
  BY NobodyElse DEF StoreOrder, Return, Go, Placing, Filling, AccountInv, Typed, MayPlace
<1> HIDE DEF f, x
<1> QED
  BY <1>1, <1>2, <1>3, <1>4, <1>5, AppendLineage

(* A caller that starts a fill takes over the order.                        *)
LEMMA StartFillLineage ==
  ASSUME NEW c \in Callers, NEW r \in Requests, NEW of, NEW quote \in Prices \cup {NoPrice},
         AccountInv, Lineage, MayPlace(c, r, of), UNCHANGED todo,
         of = 0 => todo[c] = {},
         of # 0 => Placing(c) /\ of = order[c].of,
         StartFill(c, r, of, quote)
  PROVE  Lineage'
<1>1. /\ order'[c].of = of /\ UNCHANGED orders
      /\ \A d \in Callers : d # c => todo[d] = {} /\ ~Placing(d)'
  BY NobodyElse DEF StartFill, Go, Placing, AccountInv, Typed, MayPlace, tables
<1>2. \A j \in 1..Len(orders) : Alive(j) => orders[j].of # of
  BY NewNumber DEF Lineage
<1>3. \A i \in todo[c] : orders[i].of # of
  BY DEF Lineage, AccountInv, Typed
<1> QED
  BY <1>1, <1>2, <1>3 DEF Lineage, Alive, AccountInv, Typed

(* One life for each order when an order is placed.                         *)
LEMMA PlaceOrderLineage ==
  ASSUME NEW c \in Callers, NEW r \in Requests, NEW quote \in Prices \cup {NoPrice},
         AccountInv, AccountInv', Lineage, PlaceOrder(c, r, quote)
  PROVE  Lineage'
BY PlaceMay, StoreOrderLineage, StartFillLineage DEF PlaceOrder

(* One life for each order when a triggered order is placed again.          *)
LEMMA PlaceAgainLineage ==
  ASSUME NEW c \in Callers, NEW quote \in Prices \cup {NoPrice},
         AccountInv, AccountInv', Lineage, PlaceAgain(c, quote)
  PROVE  Lineage'
<1>1. Placing(c) /\ order[c].of # 0
  BY NewNumber DEF PlaceAgain, Placing, AccountInv, Carries
<1> QED
  BY <1>1, AgainMay, StoreOrderLineage, StartFillLineage DEF PlaceAgain

(* One life for each order when the row of a filled order is added.         *)
LEMMA RecordOrderLineage ==
  ASSUME NEW c \in Callers, AccountInv, Lineage, RecordOrder(c)
  PROVE  Lineage'
<1> DEFINE o == order[c]
           f == IF o.of = 0 THEN Len(orders) + 1 ELSE o.of
           x == [symbol |-> o.symbol, side |-> o.side, qty |-> o.qty,
                 price |-> o.price, status |-> "filled", of |-> f]
<1>1. orders' = Append(orders, x) /\ x.of = f /\ UNCHANGED todo
  BY DEF RecordOrder
<1>2. o \in FillOrders /\ Placing(c) /\ Working(c)
  BY DEF RecordOrder, AccountInv, Carries, Filling, Placing, Working
<1>3. x \in Rows
  <2>1. f \in Nat
    BY <1>2 DEF FillOrders, AccountInv, Typed
  <2> HIDE DEF f
  <2> QED
    BY <1>2, <2>1 DEF FillOrders, Rows
<1>4. \A j \in 1..Len(orders) : Alive(j) => orders[j].of # f
  BY <1>2, NewNumber DEF Lineage
<1>5. \A i \in todo[c] : orders[i].of # f
  BY <1>2, NewNumber DEF Lineage, AccountInv, Typed
<1>6. \A d \in Callers : Working(d) => d = c
  BY <1>2 DEF AccountInv, Turns
<1>7. ~Placing(c)' /\ \A d \in Callers : d # c => todo[d] = {} /\ ~Placing(d)'
  BY <1>6, NobodyElse DEF RecordOrder, Return, Go, Placing, Filling, AccountInv, Typed
<1> HIDE DEF f, x
<1> QED
  BY <1>1, <1>3, <1>4, <1>5, <1>7, AppendLineage

(* One life for each order when cancelOrder marks it.                       *)
LEMMA MarkCancelledLineage ==
  ASSUME NEW c \in Callers, AccountInv, Lineage, MarkCancelled(c)
  PROVE  Lineage'
<1>1. order[c].id \in 1..Len(orders) /\ orders' = Cancelled(order[c].id) /\ orders \in Seq(Rows)
  BY DEF AccountInv, Typed, Carries, MarkCancelled
<1>2. /\ Len(orders') = Len(orders)
      /\ \A j \in 1..Len(orders) : orders'[j].of = orders[j].of /\ (Alive(j)' => Alive(j))
  BY <1>1, CancelledRows DEF Alive
<1>3. UNCHANGED todo /\ \A d \in Callers : Placing(d)' => Placing(d) /\ order'[d].of = order[d].of
  BY DEF MarkCancelled, Return, Go, Placing, Filling
<1> QED
  BY <1>2, <1>3 DEF Lineage

(* One life for each order when a sweep marks an order that it will place   *)
(* again.                                                                   *)
LEMMA TriggerOrderLineage ==
  ASSUME NEW c \in Callers, NEW i \in 1..Len(orders), NEW quote \in Prices \cup {NoPrice},
         AccountInv, Lineage, TriggerOrder(c, i, quote)
  PROVE  Lineage'
<1>1. orders' = Cancelled(i) /\ orders \in Seq(Rows)
  BY DEF AccountInv, Typed, TriggerOrder
<1>2. /\ Len(orders') = Len(orders)
      /\ \A j \in 1..Len(orders) :
           orders'[j].of = orders[j].of /\ (Alive(j)' => Alive(j) /\ j # i)
  BY <1>1, CancelledRows DEF Alive
<1>3. /\ i \in todo[c] /\ todo'[c] = todo[c] \ {i} /\ order'[c].of = orders[i].of /\ Working(c)
  BY DEF AccountInv, Typed, TriggerOrder, Working
<1>4. \A d \in Callers : d # c => todo'[d] = {} /\ ~Placing(d)'
  <2>1. \A d \in Callers : Working(d) => d = c
    BY <1>3 DEF AccountInv, Turns
  <2> QED
    BY <2>1, NobodyElse DEF AccountInv, Typed, TriggerOrder, Go, Placing
<1> QED
  BY SMTT(30), <1>2, <1>3, <1>4 DEF Lineage

(* Lineage says what OneLife counts.                                        *)
LEMMA LineageExplainsLives ==
  ASSUME AccountInv, Lineage
  PROVE  OneLife
<1> SUFFICES ASSUME NEW i \in DOMAIN orders PROVE Lives(i) <= 1
  BY DEF OneLife
<1> DEFINE R == {j \in DOMAIN orders :
                   orders[j].of = i /\ orders[j].status \in {"pending", "filled"}}
           C == {c \in Callers : at[c] \in Filling \cup {"again"} /\ order[c].of = i}
<1>1. DOMAIN orders = 1..Len(orders)
  BY DEF AccountInv, Typed
<1>2. \A j, k \in R : j = k
  BY <1>1 DEF Lineage, Alive
<1>3. \A c, d \in C : c = d
  BY DEF AccountInv, Turns, Working, Filling
<1>4. R = {} \/ C = {}
  BY <1>1 DEF Lineage, Alive, Placing
<1> HIDE DEF R, C
<1>5. ASSUME NEW S, \A x, y \in S : x = y
      PROVE  Cardinality(S) = IF S = {} THEN 0 ELSE 1
  <2>1. CASE S = {}
    BY <2>1, FS_EmptySet
  <2>2. CASE S # {}
    <3>1. PICK x \in S : TRUE
      BY <2>2
    <3>2. S = {x}
      BY <1>5, <3>1
    <3> QED
      BY <2>2, <3>2, FS_Singleton
  <2> QED
    BY <2>1, <2>2
<1>6. Cardinality(R) + Cardinality(C) <= 1
  BY <1>2, <1>3, <1>4, <1>5
<1> QED
  BY <1>6 DEF Lives, R, C
-----------------------------------------------------------------------------
(* What an order moves is an integer.                                       *)
LEMMA MovedTyped ==
  ASSUME NEW o, o.price \in Nat, o.qty \in Nat
  PROVE  CashMoved(o) \in Int /\ UnitsMoved(o) \in Int
<1>1. BuyCost(o.price, o.qty) \in Nat /\ SellProceeds(o.price, o.qty) \in Nat
  BY AmountsNat
<1> QED
  BY <1>1 DEF CashMoved, UnitsMoved

(* The rows that count are finitely many, and their terms integers.         *)
LEMMA TermsTyped ==
  ASSUME Typed
  PROVE  /\ Told \subseteq 1..Len(orders) /\ IsFiniteSet(Told)
         /\ DOMAIN orders = 1..Len(orders) /\ Len(orders) \in Nat
         /\ \A i \in 1..Len(orders) :
              CashMoved(orders[i]) \in Int /\ UnitsMoved(orders[i]) \in Int
<1>1. DOMAIN orders = 1..Len(orders) /\ Len(orders) \in Nat
  BY DEF Typed
<1>2. Told \subseteq 1..Len(orders) /\ IsFiniteSet(Told)
  BY <1>1, FS_Interval, FS_Subset DEF Told
<1>3. ASSUME NEW i \in 1..Len(orders)
      PROVE  CashMoved(orders[i]) \in Int /\ UnitsMoved(orders[i]) \in Int
  <2>1. orders[i] \in Rows
    BY DEF Typed
  <2>2. orders[i].price \in Nat /\ orders[i].qty \in Nat
    BY <2>1, SimulatedExecutorsAssumption DEF Rows
  <2> QED
    BY <2>2, MovedTyped
<1> QED
  BY <1>1, <1>2, <1>3

(* So the sums are integers.                                                *)
LEMMA ToldTyped ==
  ASSUME Typed
  PROVE  CashTold \in Int /\ \A s \in Symbols : UnitsTold(s) \in Int
<1> DEFINE f == [i \in DOMAIN orders |-> CashMoved(orders[i])]
           g == [i \in DOMAIN orders |-> UnitsMoved(orders[i])]
<1>1. /\ IsFiniteSet(Told) /\ \A s \in Symbols : IsFiniteSet({i \in Told : orders[i].symbol = s})
      /\ \A i \in Told : f[i] \in Int /\ g[i] \in Int
  BY TermsTyped, FS_Subset
<1> HIDE DEF f, g
<1>2. SumFunctionOnSet(f, Told) \in Int
  BY <1>1, SumInt
<1>3. \A s \in Symbols : SumFunctionOnSet(g, {i \in Told : orders[i].symbol = s}) \in Int
  BY <1>1, SumInt
<1> QED
  BY <1>2, <1>3, SimulatedExecutorsAssumption DEF CashTold, UnitsTold, f, g

(* The rows that tell the story stay what they are.                         *)
StillTold == Told' = Told /\ \A i \in Told : orders'[i] = orders[i]

(* The same rows, the same sums.                                            *)
LEMMA ToldSame ==
  ASSUME Typed, Typed', StillTold
  PROVE  CashTold' = CashTold /\ \A s \in Symbols : UnitsTold(s)' = UnitsTold(s)
<1> DEFINE f == [i \in DOMAIN orders |-> CashMoved(orders[i])]
           g == [i \in DOMAIN orders |-> UnitsMoved(orders[i])]
           fp == [i \in DOMAIN orders' |-> CashMoved(orders'[i])]
           gp == [i \in DOMAIN orders' |-> UnitsMoved(orders'[i])]
           of(s) == {i \in Told : orders[i].symbol = s}
           ofp(s) == {i \in Told' : orders'[i].symbol = s}
<1>1. IsFiniteSet(Told) /\ \A s \in Symbols : IsFiniteSet(of(s)) /\ ofp(s) = of(s)
  BY TermsTyped, FS_Subset DEF StillTold
<1>2. Told' = Told /\ Told \subseteq DOMAIN orders /\ Told \subseteq DOMAIN orders'
  BY DEF StillTold, Told
<1>3. \A i \in Told : f[i] = fp[i] /\ g[i] = gp[i]
  BY <1>2 DEF StillTold, CashMoved, UnitsMoved
<1>4. CashTold = InitialCash + SumFunctionOnSet(f, Told) /\ CashTold' = InitialCash + SumFunctionOnSet(fp, Told')
  BY DEF CashTold, CashMoved
<1>5. \A s \in Symbols : /\ UnitsTold(s) = SumFunctionOnSet(g, of(s))
                         /\ UnitsTold(s)' = SumFunctionOnSet(gp, ofp(s))
  BY DEF UnitsTold, UnitsMoved
<1> HIDE DEF f, g, fp, gp
<1>6. SumFunctionOnSet(f, Told) = SumFunctionOnSet(fp, Told)
  BY <1>1, <1>3, SumSame
<1>7. \A s \in Symbols : SumFunctionOnSet(g, of(s)) = SumFunctionOnSet(gp, of(s))
  BY <1>1, <1>3, SumSame
<1> QED
  BY <1>1, <1>2, <1>4, <1>5, <1>6, <1>7

(* A filled row more, a term more.                                          *)
LEMMA ToldMore ==
  ASSUME Typed, Typed', NEW x \in Rows, x.status = "filled", orders' = Append(orders, x),
         torn = Whole, torn' = Whole
  PROVE  /\ CashTold' = CashTold + CashMoved(x)
         /\ \A s \in Symbols :
              UnitsTold(s)' = UnitsTold(s) + (IF s = x.symbol THEN UnitsMoved(x) ELSE 0)
<1> DEFINE n == Len(orders) + 1
           f == [i \in DOMAIN orders |-> CashMoved(orders[i])]
           g == [i \in DOMAIN orders |-> UnitsMoved(orders[i])]
           fp == [i \in DOMAIN orders' |-> CashMoved(orders'[i])]
           gp == [i \in DOMAIN orders' |-> UnitsMoved(orders'[i])]
           of(s) == {i \in Told : orders[i].symbol = s}
           ofp(s) == {i \in Told' : orders'[i].symbol = s}
<1>1. /\ DOMAIN orders = 1..Len(orders) /\ DOMAIN orders' = 1..n /\ Len(orders) \in Nat
      /\ orders'[n] = x /\ \A i \in 1..Len(orders) : orders'[i] = orders[i]
      /\ \A i \in 1..n : i = n \/ i \in 1..Len(orders)
      /\ n \notin 1..Len(orders) /\ n \in 1..n /\ \A i \in 1..Len(orders) : i \in 1..n
  BY DEF Typed
<1>2. Told' = Told \cup {n} /\ n \notin Told
  <2> HIDE DEF n
  <2> QED
    BY <1>1 DEF Told
<1>3. \A s \in Symbols : ofp(s) = IF s = x.symbol THEN of(s) \cup {n} ELSE of(s)
  <2>1. \A i \in Told : orders'[i] = orders[i]
    BY <1>1 DEF Told
  <2> HIDE DEF n
  <2> QED
    BY <1>1, <1>2, <2>1
<1>4. /\ IsFiniteSet(Told) /\ Told \subseteq 1..Len(orders)
      /\ \A s \in Symbols : IsFiniteSet(of(s)) /\ of(s) \subseteq 1..Len(orders) /\ n \notin of(s)
  BY <1>2, TermsTyped, FS_Subset
<1>5. /\ \A i \in Told : f[i] = fp[i] /\ g[i] = gp[i]
      /\ fp[n] = CashMoved(x) /\ gp[n] = UnitsMoved(x)
      /\ \A i \in 1..n : fp[i] \in Int /\ gp[i] \in Int
  <2>1. \A i \in 1..n : CashMoved(orders'[i]) \in Int /\ UnitsMoved(orders'[i]) \in Int
    <3>1. \A i \in 1..n : orders'[i] \in Rows
      BY <1>1 DEF Typed
    <3>2. \A y \in Rows : y.price \in Nat /\ y.qty \in Nat
      BY SimulatedExecutorsAssumption DEF Rows
    <3> QED
      BY <3>1, <3>2, MovedTyped
  <2> HIDE DEF n
  <2> QED
    BY <1>1, <1>4, <2>1
<1>6. CashTold = InitialCash + SumFunctionOnSet(f, Told) /\ CashTold' = InitialCash + SumFunctionOnSet(fp, Told')
  BY DEF CashTold, CashMoved
<1>7. \A s \in Symbols : /\ UnitsTold(s) = SumFunctionOnSet(g, of(s))
                         /\ UnitsTold(s)' = SumFunctionOnSet(gp, ofp(s))
  BY DEF UnitsTold, UnitsMoved
<1>8. \A i \in Told : i \in 1..n /\ n \in 1..n
  BY <1>1, <1>4
<1> HIDE DEF f, g, fp, gp
<1>9. /\ SumFunctionOnSet(fp, Told \cup {n}) = fp[n] + SumFunctionOnSet(fp, Told)
      /\ SumFunctionOnSet(f, Told) = SumFunctionOnSet(fp, Told)
      /\ SumFunctionOnSet(f, Told) \in Int /\ fp[n] \in Int
  <2>1. n \in 1..n /\ \A i \in Told : fp[i] \in Int /\ f[i] \in Int
    BY <1>1, <1>5, <1>8
  <2> HIDE DEF n
  <2> QED
    BY <1>2, <1>4, <1>5, <2>1, SumWith, SumSame, SumInt
<1>10. \A s \in Symbols :
         /\ SumFunctionOnSet(gp, of(s) \cup {n}) = gp[n] + SumFunctionOnSet(gp, of(s))
         /\ SumFunctionOnSet(g, of(s)) = SumFunctionOnSet(gp, of(s))
         /\ SumFunctionOnSet(g, of(s)) \in Int /\ gp[n] \in Int
  <2>1. n \in 1..n /\ \A i \in Told : gp[i] \in Int /\ g[i] \in Int
    BY <1>1, <1>5, <1>8
  <2>2. \A s \in Symbols : of(s) \subseteq Told
    OBVIOUS
  <2> HIDE DEF n, of
  <2> QED
    BY <1>4, <1>5, <2>1, <2>2, SumWith, SumSame, SumInt
<1>11. CashTold' = CashTold + CashMoved(x)
  <2> HIDE DEF n
  <2> QED
    BY <1>2, <1>5, <1>6, <1>9, SimulatedExecutorsAssumption
<1>12. ASSUME NEW s \in Symbols
       PROVE  UnitsTold(s)' = UnitsTold(s) + (IF s = x.symbol THEN UnitsMoved(x) ELSE 0)
  <2> HIDE DEF n, of, ofp
  <2>1. UnitsTold(s) = SumFunctionOnSet(g, of(s)) /\ UnitsTold(s)' = SumFunctionOnSet(gp, ofp(s))
    BY <1>7
  <2>2. SumFunctionOnSet(g, of(s)) \in Int /\ gp[n] \in Int /\ gp[n] = UnitsMoved(x)
    BY <1>5, <1>10
  <2>3. CASE s = x.symbol
    <3>1. ofp(s) = of(s) \cup {n}
      BY <1>3, <2>3
    <3>2. SumFunctionOnSet(gp, ofp(s)) = gp[n] + SumFunctionOnSet(g, of(s))
      BY <1>10, <3>1
    <3> QED
      BY <2>1, <2>2, <2>3, <3>2
  <2>4. CASE s # x.symbol
    <3>1. SumFunctionOnSet(gp, ofp(s)) = SumFunctionOnSet(g, of(s))
      BY <1>3, <1>10, <2>4
    <3> QED
      BY <2>1, <2>2, <2>4, <3>1
  <2> QED
    BY <2>3, <2>4
<1> QED
  BY <1>11, <1>12
-----------------------------------------------------------------------------
(* The rows that count, the account and the fill in hand are what they were. *)
LEMMA ExplainedFrame ==
  ASSUME Typed, Typed', Explained, TornThere, StillTold,
         UNCHANGED <<opened, balance, pos, torn>>, Len(orders') >= Len(orders),
         \A c \in Callers : /\ at'[c] = "record" <=> at[c] = "record"
                            /\ Writing(c)' <=> Writing(c)
                            /\ Writing(c) => order'[c] = order[c]
  PROVE  Explained' /\ TornThere'
<1>1. CashTold' = CashTold /\ \A s \in Symbols : UnitsTold(s)' = UnitsTold(s)
  BY ToldSame
<1>2. Explained'
  <2> SUFFICES ASSUME torn = Whole, opened PROVE Explained'
    BY DEF Explained
  <2>1. (\A c \in Callers : at'[c] # "record") => balance'.cash = CashTold'
    BY <1>1 DEF Explained
  <2>2. \A c \in Callers : at'[c] = "record" => balance'.cash = CashTold' + CashMoved(order'[c])
    BY <1>1 DEF Explained, Writing
  <2>3. (\A c \in Callers : ~Writing(c)') => \A s \in Symbols : pos'[s].qty = UnitsTold(s)'
    BY <1>1 DEF Explained
  <2>4. \A c \in Callers, s \in Symbols : Writing(c)' =>
          pos'[s].qty = UnitsTold(s)' + (IF s = order'[c].symbol THEN UnitsMoved(order'[c]) ELSE 0)
    BY <1>1 DEF Explained
  <2> QED
    BY <2>1, <2>2, <2>3, <2>4 DEF Explained, CashMoved, UnitsMoved
<1>3. TornThere'
  <2>1. Len(orders) \in Nat /\ Len(orders') \in Nat /\ torn \in Nat \cup {Whole}
    BY DEF Typed
  <2> QED
    BY <2>1 DEF TornThere, Whole
<1> QED
  BY <1>2, <1>3

(* Steps that leave the rows alone.                                         *)
LEMMA StillToldFrame ==
  ASSUME Typed, UNCHANGED <<orders, torn>>
  PROVE  StillTold /\ Len(orders') >= Len(orders)
<1>1. Len(orders) \in Nat
  BY DEF Typed
<1> QED
  BY <1>1 DEF StillTold, Told

(* A row that was not filled is marked.                                     *)
LEMMA StillToldCancelled ==
  ASSUME Typed, NEW i \in 1..Len(orders), orders[i].status # "filled", UNCHANGED torn,
         orders' = Cancelled(i)
  PROVE  StillTold /\ Len(orders') >= Len(orders)
<1>1. /\ Len(orders') = Len(orders) /\ Len(orders) \in Nat
      /\ DOMAIN orders = 1..Len(orders) /\ DOMAIN orders' = 1..Len(orders)
      /\ \A j \in 1..Len(orders) :
           /\ orders'[j].status = "filled" <=> orders[j].status = "filled"
           /\ j # i => orders'[j] = orders[j]
  BY CancelledRows DEF Typed
<1> QED
  BY <1>1 DEF StillTold, Told

(* A row that waits is added.                                               *)
LEMMA StillToldPending ==
  ASSUME Typed, NEW x \in Rows, x.status = "pending", UNCHANGED torn,
         orders' = Append(orders, x)
  PROVE  StillTold /\ Len(orders') >= Len(orders)
<1>1. /\ Len(orders') = Len(orders) + 1 /\ Len(orders) \in Nat
      /\ DOMAIN orders = 1..Len(orders) /\ DOMAIN orders' = 1..Len(orders) + 1
      /\ orders'[Len(orders) + 1] = x
      /\ \A j \in 1..Len(orders) : orders'[j] = orders[j]
      /\ \A j \in 1..Len(orders) + 1 : j \in 1..Len(orders) \/ j = Len(orders) + 1
      /\ \A j \in 1..Len(orders) : j \in 1..Len(orders) + 1
  BY DEF Typed
<1> QED
  BY <1>1 DEF StillTold, Told

(* A caller that waits for nothing but its turn has read nothing yet.       *)
LEMMA NothingRead ==
  ASSUME NEW c, at[c] \notin {"position", "upsert", "equity", "update"}
  PROVE  Fresh(c)
BY DEF Fresh

(* Looking changes nothing in the books.                                    *)
LEMMA LookForBalanceBooks ==
  ASSUME AccountInv, AccountInv', BooksInv, LookForBalance
  PROVE  BooksInv'
<1>1. StillTold /\ Len(orders') >= Len(orders)
  BY StillToldFrame DEF AccountInv, LookForBalance, tables, memory, locals, history
<1>2. /\ UNCHANGED <<opened, balance, pos, torn>>
      /\ \A d \in Callers : /\ at'[d] = "record" <=> at[d] = "record"
                            /\ Writing(d)' <=> Writing(d)
                            /\ Writing(d) => order'[d] = order[d]
  BY DEF LookForBalance, Writing, tables, locals, history
<1>3. Explained' /\ TornThere'
  BY <1>1, <1>2, ExplainedFrame DEF AccountInv, BooksInv
<1>4. ASSUME NEW d \in Callers PROVE Fresh(d)'
  <2>1. Fresh(d)
    BY DEF BooksInv
  <2> QED
    BY <2>1 DEF Fresh, AccountInv, Turns, Working, LookForBalance, locals
<1> QED
  BY <1>3, <1>4 DEF BooksInv

(* A refused order leaves no trace.                                         *)
LEMMA RefuseOrderBooks ==
  ASSUME NEW c \in Callers, NEW r \in Requests, NEW quote \in Prices \cup {NoPrice},
         AccountInv, AccountInv', BooksInv, RefuseOrder(c, r, quote)
  PROVE  BooksInv'
<1>1. StillTold /\ Len(orders') >= Len(orders)
  BY StillToldFrame DEF AccountInv, RefuseOrder, tables, memory, locals, history
<1>2. /\ UNCHANGED <<opened, balance, pos, torn>>
      /\ \A d \in Callers : /\ at'[d] = "record" <=> at[d] = "record"
                            /\ Writing(d)' <=> Writing(d)
                            /\ Writing(d) => order'[d] = order[d]
  BY DEF RefuseOrder, Writing, tables, locals
<1>3. Explained' /\ TornThere'
  BY <1>1, <1>2, ExplainedFrame DEF AccountInv, BooksInv
<1>4. ASSUME NEW d \in Callers PROVE Fresh(d)'
  <2>1. Fresh(d)
    BY DEF BooksInv
  <2> QED
    BY <2>1 DEF Fresh, RefuseOrder, TakesTurn, locals
<1> QED
  BY <1>3, <1>4 DEF BooksInv

(* What is read is still so.                                                *)
LEMMA ReadBalanceBooks ==
  ASSUME NEW c \in Callers, AccountInv, AccountInv', BooksInv, ReadBalance(c)
  PROVE  BooksInv'
<1>1. StillTold /\ Len(orders') >= Len(orders)
  BY StillToldFrame DEF AccountInv, ReadBalance, tables, memory, locals, history
<1>2. /\ UNCHANGED <<opened, balance, pos, torn>>
      /\ \A d \in Callers : /\ at'[d] = "record" <=> at[d] = "record"
                            /\ Writing(d)' <=> Writing(d)
                            /\ Writing(d) => order'[d] = order[d]
  BY DEF ReadBalance, Writing, Go, tables, history
<1>3. Explained' /\ TornThere'
  BY <1>1, <1>2, ExplainedFrame DEF AccountInv, BooksInv
<1>4. ASSUME NEW d \in Callers PROVE Fresh(d)'
  <2>1. Fresh(d)
    BY DEF BooksInv
  <2> QED
    BY <2>1 DEF Fresh, AccountInv, ReadBalance, Typed, Go, tables
<1> QED
  BY <1>3, <1>4 DEF BooksInv

(* A rejected order leaves no trace.                                        *)
LEMMA RejectOrderBooks ==
  ASSUME NEW c \in Callers, AccountInv, AccountInv', BooksInv, RejectOrder(c)
  PROVE  BooksInv'
<1>1. StillTold /\ Len(orders') >= Len(orders)
  BY StillToldFrame DEF AccountInv, RejectOrder, tables, history
<1>2. /\ UNCHANGED <<opened, balance, pos, torn>>
      /\ \A d \in Callers : /\ at'[d] = "record" <=> at[d] = "record"
                            /\ Writing(d)' <=> Writing(d)
                            /\ Writing(d) => order'[d] = order[d]
  BY DEF RejectOrder, Writing, Go, Return, tables, history
<1>3. Explained' /\ TornThere'
  BY <1>1, <1>2, ExplainedFrame DEF AccountInv, BooksInv
<1>4. ASSUME NEW d \in Callers PROVE Fresh(d)'
  <2>1. Fresh(d)
    BY DEF BooksInv
  <2> QED
    BY <2>1 DEF Fresh, AccountInv, Turns, Working, RejectOrder, Typed, Go, Return
<1> QED
  BY <1>3, <1>4 DEF BooksInv

(* What is computed follows from what is still so.                          *)
LEMMA ReadPositionBooks ==
  ASSUME NEW c \in Callers, AccountInv, AccountInv', BooksInv, ReadPosition(c)
  PROVE  BooksInv'
<1>1. StillTold /\ Len(orders') >= Len(orders)
  BY StillToldFrame DEF AccountInv, ReadPosition, tables, memory, locals, history
<1>2. /\ UNCHANGED <<opened, balance, pos, torn>>
      /\ \A d \in Callers : /\ at'[d] = "record" <=> at[d] = "record"
                            /\ Writing(d)' <=> Writing(d)
                            /\ Writing(d) => order'[d] = order[d]
  BY DEF ReadPosition, Writing, Go, tables, history
<1>3. Explained' /\ TornThere'
  BY <1>1, <1>2, ExplainedFrame DEF AccountInv, BooksInv
<1>4. ASSUME NEW d \in Callers PROVE Fresh(d)'
  <2>1. Fresh(d)
    BY DEF BooksInv
  <2> QED
    BY <2>1 DEF Fresh, AccountInv, ReadPosition, Accepts, Typed, Go, tables
<1> QED
  BY <1>3, <1>4 DEF BooksInv

(* The equity is no part of the books.                                      *)
LEMMA CalculateEquityBooks ==
  ASSUME NEW c \in Callers, NEW quotes \in [Symbols -> Prices \cup {NoPrice}], AccountInv,
         AccountInv', BooksInv, CalculateEquity(c, quotes)
  PROVE  BooksInv'
<1>1. StillTold /\ Len(orders') >= Len(orders)
  BY StillToldFrame DEF AccountInv, CalculateEquity, tables, memory, locals, history
<1>2. /\ UNCHANGED <<opened, balance, pos, torn>>
      /\ \A d \in Callers : /\ at'[d] = "record" <=> at[d] = "record"
                            /\ Writing(d)' <=> Writing(d)
                            /\ Writing(d) => order'[d] = order[d]
  BY DEF CalculateEquity, Writing, Go, tables, history
<1>3. Explained' /\ TornThere'
  BY <1>1, <1>2, ExplainedFrame DEF AccountInv, BooksInv
<1>4. ASSUME NEW d \in Callers PROVE Fresh(d)'
  <2>1. Fresh(d)
    BY DEF BooksInv
  <2> QED
    BY <2>1 DEF Fresh, CalculateEquity, Go, tables
<1> QED
  BY <1>3, <1>4 DEF BooksInv

(* Finding an order changes nothing in the books.                           *)
LEMMA CancelOrderBooks ==
  ASSUME NEW c \in Callers, NEW i \in DOMAIN orders, AccountInv, AccountInv', BooksInv,
         CancelOrder(c, i)
  PROVE  BooksInv'
<1>1. StillTold /\ Len(orders') >= Len(orders)
  BY StillToldFrame DEF AccountInv, CancelOrder, tables, memory, locals, history
<1>2. /\ UNCHANGED <<opened, balance, pos, torn>>
      /\ \A d \in Callers : /\ at'[d] = "record" <=> at[d] = "record"
                            /\ Writing(d)' <=> Writing(d)
                            /\ Writing(d) => order'[d] = order[d]
  BY DEF CancelOrder, Writing, Go, tables
<1>3. Explained' /\ TornThere'
  BY <1>1, <1>2, ExplainedFrame DEF AccountInv, BooksInv
<1>4. ASSUME NEW d \in Callers PROVE Fresh(d)'
  <2>1. Fresh(d)
    BY DEF BooksInv
  <2> QED
    BY <2>1 DEF Fresh, CancelOrder, Go, tables
<1> QED
  BY <1>3, <1>4 DEF BooksInv

(* A sweep begins without a trace in the books.                             *)
LEMMA CheckPendingOrdersBooks ==
  ASSUME NEW c \in Callers, AccountInv, AccountInv', BooksInv, CheckPendingOrders(c)
  PROVE  BooksInv'
<1>1. StillTold /\ Len(orders') >= Len(orders)
  BY StillToldFrame DEF AccountInv, CheckPendingOrders, tables, memory, locals, history
<1>2. /\ UNCHANGED <<opened, balance, pos, torn>>
      /\ \A d \in Callers : /\ at'[d] = "record" <=> at[d] = "record"
                            /\ Writing(d)' <=> Writing(d)
                            /\ Writing(d) => order'[d] = order[d]
  BY DEF CheckPendingOrders, TakesTurn, Writing, Go, tables
<1>3. Explained' /\ TornThere'
  BY <1>1, <1>2, ExplainedFrame DEF AccountInv, BooksInv
<1>4. ASSUME NEW d \in Callers PROVE Fresh(d)'
  <2>1. Fresh(d)
    BY DEF BooksInv
  <2> QED
    BY <2>1 DEF Fresh, CheckPendingOrders, TakesTurn, Go
<1> QED
  BY <1>3, <1>4 DEF BooksInv

(* An order that is passed changes nothing.                                 *)
LEMMA LeavePendingBooks ==
  ASSUME NEW c \in Callers, NEW i \in DOMAIN orders, NEW quote \in Prices \cup {NoPrice},
         AccountInv, AccountInv', BooksInv, LeavePending(c, i, quote)
  PROVE  BooksInv'
<1>1. StillTold /\ Len(orders') >= Len(orders)
  BY StillToldFrame DEF AccountInv, LeavePending, tables, memory, locals, history
<1>2. /\ UNCHANGED <<opened, balance, pos, torn>>
      /\ \A d \in Callers : /\ at'[d] = "record" <=> at[d] = "record"
                            /\ Writing(d)' <=> Writing(d)
                            /\ Writing(d) => order'[d] = order[d]
  BY DEF LeavePending, Writing, Go, tables, history
<1>3. Explained' /\ TornThere'
  BY <1>1, <1>2, ExplainedFrame DEF AccountInv, BooksInv
<1>4. ASSUME NEW d \in Callers PROVE Fresh(d)'
  <2>1. Fresh(d)
    BY DEF BooksInv
  <2> QED
    BY <2>1 DEF Fresh, AccountInv, Turns, Working, LeavePending, Go
<1> QED
  BY <1>3, <1>4 DEF BooksInv

(* An order that is cancelled was not filled.                               *)
LEMMA MarkCancelledBooks ==
  ASSUME NEW c \in Callers, AccountInv, AccountInv', BooksInv, MarkCancelled(c)
  PROVE  BooksInv'
<1>1. StillTold /\ Len(orders') >= Len(orders)
  <2>1. order[c].id \in 1..Len(orders) /\ orders[order[c].id].status # "filled"
    BY DEF AccountInv, Carries, MarkCancelled
  <2> QED
    BY <2>1, StillToldCancelled DEF AccountInv, MarkCancelled, history
<1>2. /\ UNCHANGED <<opened, balance, pos, torn>>
      /\ \A d \in Callers : /\ at'[d] = "record" <=> at[d] = "record"
                            /\ Writing(d)' <=> Writing(d)
                            /\ Writing(d) => order'[d] = order[d]
  BY DEF MarkCancelled, Writing, Go, Return, history
<1>3. Explained' /\ TornThere'
  BY <1>1, <1>2, ExplainedFrame DEF AccountInv, BooksInv
<1>4. ASSUME NEW d \in Callers PROVE Fresh(d)'
  <2>1. Fresh(d)
    BY DEF BooksInv
  <2> QED
    BY <2>1 DEF Fresh, MarkCancelled, Go, Return
<1> QED
  BY <1>3, <1>4 DEF BooksInv

(* An order that is triggered was not filled.                               *)
LEMMA TriggerOrderBooks ==
  ASSUME NEW c \in Callers, NEW i \in DOMAIN orders, NEW quote \in Prices \cup {NoPrice},
         AccountInv, AccountInv', BooksInv, TriggerOrder(c, i, quote)
  PROVE  BooksInv'
<1>1. StillTold /\ Len(orders') >= Len(orders)
  <2>1. i \in 1..Len(orders) /\ orders[i].status # "filled"
    BY DEF AccountInv, Carries, Typed, TriggerOrder
  <2> QED
    BY <2>1, StillToldCancelled DEF AccountInv, TriggerOrder, history
<1>2. /\ UNCHANGED <<opened, balance, pos, torn>>
      /\ \A d \in Callers : /\ at'[d] = "record" <=> at[d] = "record"
                            /\ Writing(d)' <=> Writing(d)
                            /\ Writing(d) => order'[d] = order[d]
  BY DEF TriggerOrder, Writing, Go, history
<1>3. Explained' /\ TornThere'
  BY <1>1, <1>2, ExplainedFrame DEF AccountInv, BooksInv
<1>4. ASSUME NEW d \in Callers PROVE Fresh(d)'
  <2>1. Fresh(d)
    BY DEF BooksInv
  <2> QED
    BY <2>1 DEF Fresh, TriggerOrder, Go
<1> QED
  BY <1>3, <1>4 DEF BooksInv

(* A new account has its starting balance and no orders.                    *)
LEMMA InsertBalanceBooks ==
  ASSUME AccountInv, AccountInv', BooksInv, InsertBalance
  PROVE  BooksInv'
<1>1. /\ ~opened /\ orders = <<>> /\ UNCHANGED <<orders, pos, at, torn>>
      /\ pos = [s \in Symbols |-> NoPosition] /\ balance'.cash = InitialCash
      /\ \A c \in Callers : ~Working(c)
  BY DEF AccountInv, Turns, InsertBalance, locals, history
<1>2. Told' = {} /\ CashTold' = InitialCash /\ \A s \in Symbols : UnitsTold(s)' = 0
  <2>1. DOMAIN orders' = {} /\ Told' = {}
    BY <1>1 DEF Told
  <2>2. \A s \in Symbols : {i \in Told' : orders'[i].symbol = s} = {}
    BY <2>1
  <2> QED
    BY <2>1, <2>2, SumEmpty, SimulatedExecutorsAssumption DEF CashTold, UnitsTold
<1>3. \A c \in Callers : at'[c] \notin Filling
  BY <1>1 DEF Working, Filling
<1>4. Explained'
  BY <1>1, <1>2, <1>3 DEF Explained, Writing, Filling, NoPosition
<1>5. TornThere'
  BY <1>1 DEF BooksInv, TornThere
<1>6. \A c \in Callers : Fresh(c)'
  BY <1>3 DEF Fresh, Filling
<1> QED
  BY <1>4, <1>5, <1>6 DEF BooksInv

(* An order that is stored to wait is no part of the story.                 *)
LEMMA StoreOrderStill ==
  ASSUME NEW c \in Callers, NEW r \in Requests, NEW of, NEW quote \in Prices \cup {NoPrice},
         AccountInv, MayPlace(c, r, of), StoreOrder(c, r, of, quote), UNCHANGED torn
  PROVE  StillTold /\ Len(orders') >= Len(orders)
<1> DEFINE f == IF of = 0 THEN Len(orders) + 1 ELSE of
           x == [symbol |-> r.symbol, side |-> r.side, qty |-> r.qty,
                 price |-> r.limit, status |-> "pending", of |-> f]
<1>1. orders' = Append(orders, x) /\ x.status = "pending"
  BY DEF StoreOrder
<1>2. x \in Rows
  <2>1. f \in Nat
    BY DEF MayPlace, AccountInv, Typed
  <2> HIDE DEF f
  <2> QED
    BY <2>1 DEF Requests, Rows, MayPlace, StoreOrder, MustWait
<1> HIDE DEF x
<1> QED
  BY <1>1, <1>2, StillToldPending DEF AccountInv

(* Storing an order or beginning its fill changes nothing in the books.     *)
LEMMA StorePlacesBooks ==
  ASSUME NEW c \in Callers, NEW r \in Requests, NEW of, NEW quote \in Prices \cup {NoPrice},
         AccountInv, AccountInv', BooksInv, MayPlace(c, r, of),
         at[c] \notin Filling, UNCHANGED torn,
         StoreOrder(c, r, of, quote) \/ StartFill(c, r, of, quote)
  PROVE  BooksInv'
<1>1. StillTold /\ Len(orders') >= Len(orders)
  BY StoreOrderStill, StillToldFrame DEF AccountInv, StartFill, tables
<1>2. /\ UNCHANGED <<opened, balance, pos, torn>>
      /\ \A d \in Callers : /\ at'[d] = "record" <=> at[d] = "record"
                            /\ Writing(d)' <=> Writing(d)
                            /\ Writing(d) => order'[d] = order[d]
  BY DEF AccountInv, StoreOrder, StartFill, Typed, Filling, Writing, Go, Return, tables
<1>3. Explained' /\ TornThere'
  BY <1>1, <1>2, ExplainedFrame DEF AccountInv, BooksInv
<1>4. \A d \in Callers : at'[d] \notin {"position", "upsert", "equity", "update"}
  BY DEF AccountInv, Typed, MayPlace, Working, StoreOrder, StartFill, Go, Return
<1> QED
  BY <1>3, <1>4 DEF BooksInv, Fresh

(* A new order is filled by later statements.                               *)
LEMMA PlaceOrderBooks ==
  ASSUME NEW c \in Callers, NEW r \in Requests, NEW quote \in Prices \cup {NoPrice},
         AccountInv, AccountInv', BooksInv, PlaceOrder(c, r, quote)
  PROVE  BooksInv'
<1>1. at[c] \notin Filling
  BY DEF PlaceOrder, TakesTurn, Filling
<1> QED
  BY <1>1, PlaceMay, StorePlacesBooks DEF PlaceOrder

(* So is one that is placed again.                                          *)
LEMMA PlaceAgainBooks ==
  ASSUME NEW c \in Callers, NEW quote \in Prices \cup {NoPrice},
         AccountInv, AccountInv', BooksInv, PlaceAgain(c, quote)
  PROVE  BooksInv'
<1>1. at[c] \notin Filling
  BY DEF PlaceAgain, Filling
<1> QED
  BY <1>1, AgainMay, StorePlacesBooks DEF PlaceAgain, history

(* The position is now ahead of the rows by the order in hand.              *)
LEMMA UpsertPositionBooks ==
  ASSUME NEW c \in Callers, AccountInv, AccountInv', BooksInv, UpsertPosition(c)
  PROVE  BooksInv'
<1> DEFINE o == order[c]
<1>1. /\ UNCHANGED <<opened, balance, orders, order, torn, seen, next>> /\ Working(c)
      /\ at[c] = "upsert" /\ at' = [at EXCEPT ![c] = "equity"]
      /\ pos' = [pos EXCEPT ![o.symbol] = next[c].pos]
  BY DEF UpsertPosition, Go, memory, history, Working
<1>2. o \in FillOrders /\ at'[c] = "equity" /\ \A d \in Callers : d # c => at'[d] = at[d]
  BY <1>1 DEF AccountInv, Typed, Carries, Filling
<1>3. \A d \in Callers : d # c => at[d] \notin Filling
  BY <1>1 DEF AccountInv, Turns, Working, Filling
<1>4. CashTold' = CashTold /\ \A s \in Symbols : UnitsTold(s)' = UnitsTold(s)
  BY <1>1, StillToldFrame, ToldSame DEF AccountInv
<1>5. next[c].pos.qty = pos[o.symbol].qty + UnitsMoved(o)
  <2>1. next[c].pos = NewPosition(o.side, o.price, o.qty, pos[o.symbol])
    BY <1>1 DEF BooksInv, Fresh
  <2>2. o.qty \in Nat /\ o.symbol \in Symbols /\ pos[o.symbol].qty \in Nat
    BY <1>2, SimulatedExecutorsAssumption DEF FillOrders, AccountInv, Typed, Positions
  <2> QED
    BY <2>1, <2>2 DEF NewPosition, UnitsMoved
<1>6. Explained'
  <2> SUFFICES ASSUME torn = Whole, opened PROVE Explained'
    BY <1>1 DEF Explained
  <2>1. \A d \in Callers : at[d] # "record" /\ at'[d] # "record" /\ ~Writing(d)
    BY <1>1, <1>2, <1>3 DEF Filling, Writing
  <2>2. balance'.cash = CashTold'
    BY <1>1, <1>4, <2>1 DEF BooksInv, Explained
  <2>3. Writing(c)' /\ \A d \in Callers : Writing(d)' => d = c
    BY <1>2, <2>1 DEF Writing
  <2>4. ASSUME NEW s \in Symbols
        PROVE  pos'[s].qty = UnitsTold(s)' + (IF s = o.symbol THEN UnitsMoved(o) ELSE 0)
    <3>1. pos[s].qty = UnitsTold(s) /\ UnitsTold(s) \in Int
      BY <2>1, ToldTyped DEF BooksInv, Explained, AccountInv
    <3>2. CASE s = o.symbol
      <4>1. pos'[s] = next[c].pos
        BY <1>1, <3>2 DEF AccountInv, Typed
      <4> HIDE DEF o
      <4> QED
        BY <1>4, <1>5, <3>1, <3>2, <4>1
    <3>3. CASE s # o.symbol
      <4>1. pos'[s] = pos[s]
        BY <1>1, <3>3 DEF AccountInv, Typed
      <4> HIDE DEF o
      <4> QED
        BY <1>4, <3>1, <3>3, <4>1
    <3> QED
      BY <3>2, <3>3
  <2>5. \A d \in Callers, s \in Symbols : Writing(d)' =>
          pos'[s].qty = UnitsTold(s)' + (IF s = order'[d].symbol THEN UnitsMoved(order'[d]) ELSE 0)
    BY <1>1, <2>3, <2>4 DEF UnitsMoved
  <2> QED
    BY <2>1, <2>2, <2>3, <2>5 DEF Explained
<1>7. TornThere'
  BY <1>1 DEF BooksInv, TornThere
<1>8. \A d \in Callers : Fresh(d)'
  BY <1>1, <1>2, <1>3 DEF BooksInv, Fresh, Filling
<1> QED
  BY <1>6, <1>7, <1>8 DEF BooksInv

(* So is the cash.                                                          *)
LEMMA UpdateBalanceBooks ==
  ASSUME NEW c \in Callers, AccountInv, AccountInv', BooksInv, UpdateBalance(c)
  PROVE  BooksInv'
<1> DEFINE o == order[c]
<1>1. /\ UNCHANGED <<opened, pos, orders, order, torn, seen, next>> /\ Working(c)
      /\ at[c] = "update" /\ at' = [at EXCEPT ![c] = "record"]
      /\ balance'.cash = next[c].cash
  BY DEF UpdateBalance, Go, history, Working
<1>2. o \in FillOrders /\ at'[c] = "record" /\ \A d \in Callers : d # c => at'[d] = at[d]
  BY <1>1 DEF AccountInv, Typed, Carries, Filling
<1>3. \A d \in Callers : d # c => at[d] \notin Filling
  BY <1>1 DEF AccountInv, Turns, Working, Filling
<1>4. CashTold' = CashTold /\ \A s \in Symbols : UnitsTold(s)' = UnitsTold(s)
  BY <1>1, StillToldFrame, ToldSame DEF AccountInv
<1>5. next[c].cash = balance.cash + CashMoved(o)
  <2>1. next[c].cash = NewCash(o.side, o.price, o.qty, balance.cash)
    BY <1>1 DEF BooksInv, Fresh
  <2>2. o.qty \in Nat /\ o.price \in Nat /\ balance.cash \in Nat
    BY <1>2, SimulatedExecutorsAssumption DEF FillOrders, AccountInv, Typed, Balances
  <2>3. BuyCost(o.price, o.qty) \in Nat /\ SellProceeds(o.price, o.qty) \in Nat
    BY <2>2, AmountsNat
  <2> QED
    BY <2>1, <2>2, <2>3 DEF NewCash, CashMoved
<1>6. Explained'
  <2> SUFFICES ASSUME torn = Whole, opened PROVE Explained'
    BY <1>1 DEF Explained
  <2>1. balance.cash = CashTold
    BY <1>1, <1>3 DEF BooksInv, Explained, Filling
  <2>2. \A d \in Callers : at'[d] = "record" <=> d = c
    BY <1>2, <1>3 DEF Filling
  <2>3. \A d \in Callers : Writing(d)' <=> Writing(d)
    BY <1>1, <1>2 DEF Writing
  <2>4. \A d \in Callers, s \in Symbols : Writing(d)' =>
          pos'[s].qty = UnitsTold(s)' + (IF s = order'[d].symbol THEN UnitsMoved(order'[d]) ELSE 0)
    BY <1>1, <1>4, <2>3 DEF BooksInv, Explained, UnitsMoved
  <2>5. balance'.cash = CashTold' + CashMoved(order'[c])
    BY <1>1, <1>4, <1>5, <2>1 DEF CashMoved
  <2>6. Writing(c)'
    BY <1>2 DEF Writing
  <2> QED
    BY <2>2, <2>4, <2>5, <2>6 DEF Explained, CashMoved
<1>7. TornThere'
  BY <1>1 DEF BooksInv, TornThere
<1>8. \A d \in Callers : Fresh(d)'
  BY <1>2, <1>3 DEF Fresh, Filling
<1> QED
  BY <1>6, <1>7, <1>8 DEF BooksInv

(* The row that RecordOrder adds.                                           *)
Filled(c) ==
  LET o == order[c] IN
  [symbol |-> o.symbol, side |-> o.side, qty |-> o.qty, price |-> o.price, status |-> "filled",
   of |-> IF o.of = 0 THEN Len(orders) + 1 ELSE o.of]

(* That row, and what it moves.                                             *)
LEMMA FilledRow ==
  ASSUME NEW c \in Callers, AccountInv, RecordOrder(c)
  PROVE  /\ orders' = Append(orders, Filled(c)) /\ Filled(c) \in Rows
         /\ Filled(c).status = "filled" /\ Filled(c).symbol = order[c].symbol
         /\ CashMoved(Filled(c)) = CashMoved(order[c])
         /\ UnitsMoved(Filled(c)) = UnitsMoved(order[c])
<1>1. orders' = Append(orders, Filled(c))
  BY DEF RecordOrder, Filled
<1>2. order[c] \in FillOrders
  BY DEF RecordOrder, AccountInv, Carries, Filling
<1> DEFINE f == IF order[c].of = 0 THEN Len(orders) + 1 ELSE order[c].of
<1>3. f \in Nat
  BY <1>2 DEF FillOrders, AccountInv, Typed
<1>4. Filled(c) = [symbol |-> order[c].symbol, side |-> order[c].side, qty |-> order[c].qty,
                   price |-> order[c].price, status |-> "filled", of |-> f]
  BY DEF Filled
<1> HIDE DEF f
<1>5. Filled(c) \in Rows
  BY <1>2, <1>3, <1>4 DEF FillOrders, Rows
<1> QED
  BY <1>1, <1>4, <1>5 DEF CashMoved, UnitsMoved

(* The row of the order catches up with both.                               *)
LEMMA RecordOrderBooks ==
  ASSUME NEW c \in Callers, AccountInv, AccountInv', BooksInv, RecordOrder(c)
  PROVE  BooksInv'
<1>1. /\ UNCHANGED <<opened, balance, pos, torn>> /\ Working(c) /\ at[c] = "record"
      /\ Len(orders') = Len(orders) + 1 /\ Len(orders) \in Nat
  BY DEF RecordOrder, AccountInv, Typed, Working, history
<1>2. \A d \in Callers : at'[d] \notin Filling
  BY <1>1 DEF AccountInv, Turns, Typed, Working, Filling, RecordOrder, Return, Go
<1>3. TornThere'
  BY <1>1 DEF BooksInv, TornThere, Whole, AccountInv, Typed
<1>4. Explained'
  <2> SUFFICES ASSUME torn = Whole, opened PROVE Explained'
    BY <1>1 DEF Explained
  <2>1. /\ CashTold' = CashTold + CashMoved(order[c])
        /\ \A s \in Symbols :
             UnitsTold(s)' = UnitsTold(s) + (IF s = order[c].symbol THEN UnitsMoved(order[c]) ELSE 0)
    BY <1>1, FilledRow, ToldMore DEF AccountInv
  <2>2. balance.cash = CashTold + CashMoved(order[c])
    BY <1>1 DEF BooksInv, Explained
  <2>3. \A s \in Symbols :
          pos[s].qty = UnitsTold(s) + (IF s = order[c].symbol THEN UnitsMoved(order[c]) ELSE 0)
    BY <1>1 DEF BooksInv, Explained, Writing
  <2> QED
    BY <1>1, <1>2, <2>1, <2>2, <2>3 DEF Explained, Writing, Filling
<1>5. \A d \in Callers : Fresh(d)'
  BY <1>2 DEF Fresh, Filling
<1> QED
  BY <1>3, <1>4, <1>5 DEF BooksInv

(* A restart between fills changes nothing in the books; one within a fill  *)
(* is where the story ends.                                                 *)
LEMMA RestartBooks ==
  ASSUME AccountInv, AccountInv', BooksInv, Restart
  PROVE  BooksInv'
<1>1. /\ UNCHANGED <<opened, balance, pos, orders>> /\ Len(orders) \in Nat
      /\ \A d \in Callers : at'[d] = "idle"
  BY DEF Restart, tables, AccountInv, Typed
<1>2. TornThere'
  BY <1>1 DEF BooksInv, TornThere, Restart
<1>3. Explained'
  <2> SUFFICES ASSUME torn' = Whole, opened PROVE Explained'
    BY <1>1 DEF Explained
  <2>1. torn = Whole /\ \A d \in Callers : ~Writing(d)
    BY <1>1 DEF Restart, Whole
  <2>2. CashTold' = CashTold /\ \A s \in Symbols : UnitsTold(s)' = UnitsTold(s)
    BY <1>1, <2>1, StillToldFrame, ToldSame DEF AccountInv
  <2>3. balance.cash = CashTold /\ \A s \in Symbols : pos[s].qty = UnitsTold(s)
    BY <2>1 DEF BooksInv, Explained, Writing
  <2> QED
    BY <1>1, <2>2, <2>3 DEF Explained, Writing
<1>4. \A d \in Callers : Fresh(d)'
  BY <1>1 DEF Fresh
<1> QED
  BY <1>2, <1>3, <1>4 DEF BooksInv
-----------------------------------------------------------------------------
AllInv == AccountInv /\ Lineage /\ BooksInv

(* The first state.                                                         *)
LEMMA InitAllInv == ASSUME Init PROVE AllInv
<1>1. Typed
  <2>1. /\ orders \in Seq(Rows) /\ \A i \in 1..Len(orders) : orders[i].of \in 1..i
        /\ todo \in [Callers -> SUBSET (1..Len(orders))]
    BY DEF Init
  <2> QED
    BY <2>1, Blanks DEF Init, Typed, Steps
<1>2. AccountInv
  BY <1>1 DEF Init, AccountInv, Turns, Working, Carries, Filling
<1>3. Lineage
  BY DEF Init, Lineage
<1>4. BooksInv
  BY DEF Init, BooksInv, Explained, TornThere, Fresh
<1> QED
  BY <1>2, <1>3, <1>4 DEF AllInv

(* Every step keeps the three invariants.                                   *)
LEMMA NextAllInv == ASSUME AllInv, [Next]_vars PROVE AllInv'
<1> USE DEF AllInv
<1>1. ASSUME LookForBalance PROVE AllInv'
  <2>1. UNCHANGED orders /\ \A d \in Callers :
          /\ todo'[d] \subseteq todo[d]
          /\ Placing(d)' => Placing(d) /\ order'[d].of = order[d].of
    BY <1>1 DEF LookForBalance, Placing, tables, locals
  <2>2. AccountInv' /\ Lineage'
    BY <1>1, <2>1, LookForBalanceAccount, LineageFrame
  <2> QED
    BY <1>1, <2>2, LookForBalanceBooks
<1>2. ASSUME InsertBalance PROVE AllInv'
  <2>1. UNCHANGED orders /\ \A d \in Callers :
          /\ todo'[d] \subseteq todo[d]
          /\ Placing(d)' => Placing(d) /\ order'[d].of = order[d].of
    BY <1>2 DEF InsertBalance, Placing, locals
  <2>2. AccountInv' /\ Lineage'
    BY <1>2, <2>1, InsertBalanceAccount, LineageFrame
  <2> QED
    BY <1>2, <2>2, InsertBalanceBooks
<1>3. ASSUME NEW c \in Callers, NEW r \in Requests, NEW quote \in Prices \cup {NoPrice},
             RefuseOrder(c, r, quote)
      PROVE  AllInv'
  <2>1. UNCHANGED orders /\ \A d \in Callers :
          /\ todo'[d] \subseteq todo[d]
          /\ Placing(d)' => Placing(d) /\ order'[d].of = order[d].of
    BY <1>3 DEF RefuseOrder, Placing, tables, locals
  <2>2. AccountInv' /\ Lineage'
    BY <1>3, <2>1, RefuseOrderAccount, LineageFrame
  <2> QED
    BY <1>3, <2>2, RefuseOrderBooks
<1>4. ASSUME NEW c \in Callers, NEW r \in Requests, NEW quote \in Prices \cup {NoPrice},
             PlaceOrder(c, r, quote)
      PROVE  AllInv'
  <2>1. AccountInv'
    BY <1>4, PlaceOrderAccount
  <2> QED
    BY <1>4, <2>1, PlaceOrderLineage, PlaceOrderBooks
<1>5. ASSUME NEW c \in Callers, ReadBalance(c) PROVE AllInv'
  <2>1. UNCHANGED orders /\ \A d \in Callers :
          /\ todo'[d] \subseteq todo[d]
          /\ Placing(d)' => Placing(d) /\ order'[d].of = order[d].of
    BY <1>5 DEF AccountInv, ReadBalance, Typed, Steps, Placing, Go, tables
  <2>2. AccountInv' /\ Lineage'
    BY <1>5, <2>1, ReadBalanceAccount, LineageFrame
  <2> QED
    BY <1>5, <2>2, ReadBalanceBooks
<1>6. ASSUME NEW c \in Callers, RejectOrder(c) PROVE AllInv'
  <2>1. UNCHANGED orders /\ \A d \in Callers :
          /\ todo'[d] \subseteq todo[d]
          /\ Placing(d)' => Placing(d) /\ order'[d].of = order[d].of
    BY <1>6 DEF AccountInv, RejectOrder, Typed, Filling, Placing, Return, Go, tables
  <2>2. AccountInv' /\ Lineage'
    BY <1>6, <2>1, RejectOrderAccount, LineageFrame
  <2> QED
    BY <1>6, <2>2, RejectOrderBooks
<1>7. ASSUME NEW c \in Callers, ReadPosition(c) PROVE AllInv'
  <2>1. UNCHANGED orders /\ \A d \in Callers :
          /\ todo'[d] \subseteq todo[d]
          /\ Placing(d)' => Placing(d) /\ order'[d].of = order[d].of
    BY <1>7 DEF AccountInv, ReadPosition, Typed, Steps, Placing, Go, tables
  <2>2. AccountInv' /\ Lineage'
    BY <1>7, <2>1, ReadPositionAccount, LineageFrame
  <2> QED
    BY <1>7, <2>2, ReadPositionBooks
<1>8. ASSUME NEW c \in Callers, UpsertPosition(c) PROVE AllInv'
  <2>1. UNCHANGED orders /\ \A d \in Callers :
          /\ todo'[d] \subseteq todo[d]
          /\ Placing(d)' => Placing(d) /\ order'[d].of = order[d].of
    BY <1>8 DEF AccountInv, UpsertPosition, Typed, Steps, Placing, Go
  <2>2. AccountInv' /\ Lineage'
    BY <1>8, <2>1, UpsertPositionAccount, LineageFrame
  <2> QED
    BY <1>8, <2>2, UpsertPositionBooks
<1>9. ASSUME NEW c \in Callers, NEW quotes \in [Symbols -> Prices \cup {NoPrice}],
             CalculateEquity(c, quotes)
      PROVE  AllInv'
  <2>1. UNCHANGED orders /\ \A d \in Callers :
          /\ todo'[d] \subseteq todo[d]
          /\ Placing(d)' => Placing(d) /\ order'[d].of = order[d].of
    BY <1>9 DEF AccountInv, CalculateEquity, Typed, Steps, Placing, Go, tables
  <2>2. AccountInv' /\ Lineage'
    BY <1>9, <2>1, CalculateEquityAccount, LineageFrame
  <2> QED
    BY <1>9, <2>2, CalculateEquityBooks
<1>10. ASSUME NEW c \in Callers, UpdateBalance(c) PROVE AllInv'
  <2>1. UNCHANGED orders /\ \A d \in Callers :
          /\ todo'[d] \subseteq todo[d]
          /\ Placing(d)' => Placing(d) /\ order'[d].of = order[d].of
    BY <1>10 DEF AccountInv, UpdateBalance, Typed, Steps, Placing, Go
  <2>2. AccountInv' /\ Lineage'
    BY <1>10, <2>1, UpdateBalanceAccount, LineageFrame
  <2> QED
    BY <1>10, <2>2, UpdateBalanceBooks
<1>11. ASSUME NEW c \in Callers, RecordOrder(c) PROVE AllInv'
  <2>1. AccountInv' /\ Lineage'
    BY <1>11, RecordOrderAccount, RecordOrderLineage
  <2> QED
    BY <1>11, <2>1, RecordOrderBooks
<1>12. ASSUME NEW c \in Callers, NEW i \in DOMAIN orders, CancelOrder(c, i) PROVE AllInv'
  <2>1. UNCHANGED orders /\ \A d \in Callers :
          /\ todo'[d] \subseteq todo[d]
          /\ Placing(d)' => Placing(d) /\ order'[d].of = order[d].of
    BY <1>12 DEF CancelOrder, Filling, Placing, Go, tables
  <2>2. AccountInv' /\ Lineage'
    BY <1>12, <2>1, CancelOrderAccount, LineageFrame
  <2> QED
    BY <1>12, <2>2, CancelOrderBooks
<1>13. ASSUME NEW c \in Callers, MarkCancelled(c) PROVE AllInv'
  <2>1. AccountInv' /\ Lineage'
    BY <1>13, MarkCancelledAccount, MarkCancelledLineage
  <2> QED
    BY <1>13, <2>1, MarkCancelledBooks
<1>14. ASSUME NEW c \in Callers, CheckPendingOrders(c) PROVE AllInv'
  <2>1. AccountInv' /\ Lineage'
    BY <1>14, CheckPendingOrdersAccount, CheckPendingOrdersLineage
  <2> QED
    BY <1>14, <2>1, CheckPendingOrdersBooks
<1>15. ASSUME NEW c \in Callers, NEW i \in DOMAIN orders,
              NEW quote \in Prices \cup {NoPrice}, LeavePending(c, i, quote)
       PROVE  AllInv'
  <2>1. UNCHANGED orders /\ \A d \in Callers :
          /\ todo'[d] \subseteq todo[d]
          /\ Placing(d)' => Placing(d) /\ order'[d].of = order[d].of
    BY <1>15 DEF LeavePending, Filling, Placing, Go, tables
  <2>2. AccountInv' /\ Lineage'
    BY <1>15, <2>1, LeavePendingAccount, LineageFrame
  <2> QED
    BY <1>15, <2>2, LeavePendingBooks
<1>16. ASSUME NEW c \in Callers, NEW i \in DOMAIN orders,
              NEW quote \in Prices \cup {NoPrice}, TriggerOrder(c, i, quote)
       PROVE  AllInv'
  <2>0. i \in 1..Len(orders)
    BY <1>16 DEF AccountInv, Typed
  <2>1. AccountInv' /\ Lineage'
    BY <1>16, <2>0, TriggerOrderAccount, TriggerOrderLineage
  <2> QED
    BY <1>16, <2>1, TriggerOrderBooks
<1>17. ASSUME NEW c \in Callers, NEW quote \in Prices \cup {NoPrice}, PlaceAgain(c, quote)
       PROVE  AllInv'
  <2>1. AccountInv'
    BY <1>17, PlaceAgainAccount
  <2> QED
    BY <1>17, <2>1, PlaceAgainLineage, PlaceAgainBooks
<1>18. ASSUME Restart PROVE AllInv'
  <2>1. UNCHANGED orders /\ \A d \in Callers :
          /\ todo'[d] \subseteq todo[d]
          /\ Placing(d)' => Placing(d) /\ order'[d].of = order[d].of
    BY <1>18 DEF Restart, Filling, Placing, tables
  <2>2. AccountInv' /\ Lineage'
    BY <1>18, <2>1, RestartAccount, LineageFrame
  <2> QED
    BY <1>18, <2>2, RestartBooks
<1>19. CASE UNCHANGED vars
  <2> USE DEF vars, tables, memory, locals, history
  <2>1. Typed'
    BY <1>19 DEF AccountInv, Typed
  <2>2. AccountInv'
    BY <1>19, <2>1 DEF AccountInv, Turns, Working, Carries, Filling
  <2>3. Lineage'
    BY <1>19 DEF Lineage, Alive, Placing
  <2>4. StillTold /\ Len(orders') >= Len(orders)
    BY <1>19, StillToldFrame DEF AccountInv
  <2>5. Explained' /\ TornThere'
    BY <1>19, <2>1, <2>4, ExplainedFrame DEF AccountInv, BooksInv, Writing
  <2>6. \A c \in Callers : Fresh(c)'
    BY <1>19 DEF BooksInv, Fresh
  <2> QED
    BY <2>2, <2>3, <2>5, <2>6 DEF BooksInv
<1>20. CASE \E c \in Callers : Fill(c)
  BY <1>20, <1>5, <1>6, <1>7, <1>8, <1>9, <1>10, <1>11 DEF Fill
<1>21. CASE \E c \in Callers : Sweep(c)
  BY <1>21, <1>14, <1>15, <1>16, <1>17 DEF Sweep
<1>22. CASE \E c \in Callers : Place(c)
  BY <1>22, <1>3, <1>4 DEF Place
<1> QED
  BY <1>1, <1>2, <1>12, <1>13, <1>18, <1>19, <1>20, <1>21, <1>22 DEF Next

(* AccountInv, Lineage and BooksInv hold of every state.                    *)
THEOREM BooksInvariant == Spec => []AllInv
  BY InitAllInv, NextAllInv, PTL DEF Spec

(* The invariants give OrdersExplainAccount.                                *)
LEMMA AllInvExplains == ASSUME AllInv PROVE OrdersExplainAccount
<1>1. \A i \in DOMAIN orders : orders[i] \in OrderRows /\ orders[i].of \in 1..i
  <2>1. DOMAIN orders = 1..Len(orders)
    BY DEF AllInv, AccountInv, Typed
  <2>2. Rows \subseteq OrderRows
    BY SimulatedExecutorsAssumption DEF Rows, OrderRows
  <2> QED
    BY <2>1, <2>2 DEF AllInv, AccountInv, Typed
<1>2. TypeOK
  BY <1>1 DEF AllInv, AccountInv, Typed, TypeOK, Balances, Results
<1> QED
  BY <1>2 DEF AllInv, BooksInv, Explained, Writing, OrdersExplainAccount

(* Outside a fill, the cash and the positions of either class are what its  *)
(* filled orders add up to, however its orders waited, were cancelled or    *)
(* triggered.                                                               *)
THEOREM FilledOrdersExplainAccount == Spec => []OrdersExplainAccount
  BY BooksInvariant, AllInvExplains, PTL

(* However often an order is swept, cancelled and stored again, it is       *)
(* pending, being filled or filled once at most.                            *)
THEOREM OneLifePerOrder == Spec => []OneLife
<1>1. AllInv => OneLife
  BY LineageExplainsLives DEF AllInv
<1> QED
  BY <1>1, BooksInvariant, PTL
-----------------------------------------------------------------------------
(* A restart adds nothing to the story.                                     *)
LEMMA RestartStill ==
  ASSUME AllInv, Restart
  PROVE  StillTold
<1>1. UNCHANGED orders /\ DOMAIN orders = 1..Len(orders) /\ Len(orders) \in Nat
  BY DEF AllInv, AccountInv, Typed, Restart, tables
<1>2. torn' = torn \/ (torn = Whole /\ torn' = Len(orders))
  BY DEF Restart
<1>3. CASE torn' = torn
  BY <1>1, <1>3 DEF StillTold, Told
<1>4. CASE torn = Whole /\ torn' = Len(orders)
  <2>1. \A i \in DOMAIN orders : i <= torn'
    BY <1>1, <1>4
  <2> QED
    BY <1>1, <1>4, <2>1 DEF StillTold, Told
<1> QED
  BY <1>2, <1>3, <1>4

(* A fill after one that was cut short is not told.                         *)
LEMMA TornRecordStill ==
  ASSUME NEW c \in Callers, AllInv, RecordOrder(c), torn # Whole
  PROVE  StillTold
<1>1. /\ orders' = Append(orders, Filled(c)) /\ torn' = torn /\ torn \in Nat
      /\ torn <= Len(orders) /\ orders \in Seq(Rows)
  BY FilledRow DEF AllInv, AccountInv, Typed, BooksInv, TornThere, RecordOrder, history
<1>2. /\ DOMAIN orders = 1..Len(orders) /\ DOMAIN orders' = 1..Len(orders) + 1
      /\ \A i \in 1..Len(orders) : orders'[i] = orders[i] /\ i \in 1..Len(orders) + 1
      /\ \A i \in 1..Len(orders) + 1 : i <= torn => i \in 1..Len(orders)
  BY <1>1
<1> QED
  BY <1>1, <1>2 DEF StillTold, Told

(* Only a filled row of an account that is whole is a step of the ledger.   *)
LEMMA OtherStepsStill ==
  ASSUME AllInv, [Next]_vars, ~\E c \in Callers : RecordOrder(c) /\ torn = Whole
  PROVE  StillTold
<1> USE DEF AllInv
<1>1. CASE Restart
  BY <1>1, RestartStill
<1>2. ASSUME NEW c \in Callers, RecordOrder(c) PROVE StillTold
  BY <1>2, TornRecordStill
<1>3. ASSUME NEW c \in Callers, MarkCancelled(c) PROVE StillTold
  <2>1. order[c].id \in 1..Len(orders) /\ orders[order[c].id].status # "filled"
    BY <1>3 DEF AccountInv, Carries, MarkCancelled
  <2> QED
    BY <1>3, <2>1, StillToldCancelled DEF AccountInv, MarkCancelled, history
<1>4. ASSUME NEW c \in Callers, NEW i \in DOMAIN orders, NEW quote \in Prices \cup {NoPrice},
             TriggerOrder(c, i, quote)
      PROVE  StillTold
  <2>1. i \in 1..Len(orders) /\ orders[i].status # "filled"
    BY <1>4 DEF AccountInv, Carries, Typed, TriggerOrder
  <2> QED
    BY <1>4, <2>1, StillToldCancelled DEF AccountInv, TriggerOrder, history
<1>5. ASSUME NEW c \in Callers, NEW r \in Requests, NEW quote \in Prices \cup {NoPrice},
             PlaceOrder(c, r, quote)
      PROVE  StillTold
  BY <1>5, PlaceMay, StoreOrderStill, StillToldFrame DEF AccountInv, PlaceOrder,
     StartFill, tables
<1>6. ASSUME NEW c \in Callers, NEW quote \in Prices \cup {NoPrice}, PlaceAgain(c, quote)
      PROVE  StillTold
  BY <1>6, AgainMay, StoreOrderStill, StillToldFrame
     DEF AccountInv, PlaceAgain, StartFill, tables, history
<1>7. CASE UNCHANGED <<orders, torn>>
  BY <1>7, StillToldFrame DEF AccountInv
<1>8. ASSUME NEW c \in Callers, Fill(c) PROVE StillTold
  BY <1>2, <1>7, <1>8 DEF Fill, ReadBalance, RejectOrder, ReadPosition, UpsertPosition,
     CalculateEquity, UpdateBalance, tables, history
<1>9. ASSUME NEW c \in Callers, Sweep(c) PROVE StillTold
  BY <1>4, <1>6, <1>7, <1>9 DEF Sweep, CheckPendingOrders, LeavePending, tables, history
<1>10. ASSUME NEW c \in Callers, Place(c) PROVE StillTold
  BY <1>5, <1>7, <1>10 DEF Place, RefuseOrder, tables
<1> QED
  BY <1>1, <1>3, <1>7, <1>8, <1>9, <1>10
     DEF Next, LookForBalance, InsertBalance, CancelOrder, vars, tables, history

(* And it is one: a purchase that was paid for, or a sale that was covered. *)
LEMMA RecordIsLedgerStep ==
  ASSUME NEW c \in Callers, AllInv, AllInv', RecordOrder(c), torn = Whole
  PROVE  Account!LedgerNext
<1> DEFINE o == order[c]
<1>1. o \in FillOrders /\ Working(c) /\ at[c] = "record" /\ opened
  BY DEF AllInv, AccountInv, Carries, Turns, RecordOrder, Filling, Working
<1>2. PICK s \in Symbols : s = o.symbol
  BY <1>1 DEF FillOrders
<1>3. PICK price \in Prices : price = o.price
  BY <1>1 DEF FillOrders
<1>4. PICK qty \in Quantities : qty = o.qty
  BY <1>1 DEF FillOrders
<1>5. o.side \in {"buy", "sell"} /\ price \in Nat /\ qty \in Nat
  BY <1>1, SimulatedExecutorsAssumption DEF FillOrders
<1>6. BuyCost(price, qty) \in Nat /\ SellProceeds(price, qty) \in Nat
  BY <1>5, AmountsNat
<1>7. /\ CashTold' = CashTold + CashMoved(o)
      /\ \A t \in Symbols : UnitsTold(t)' = UnitsTold(t) + (IF t = s THEN UnitsMoved(o) ELSE 0)
  BY <1>2, FilledRow, ToldMore DEF AllInv, AccountInv, RecordOrder, history
<1>8. /\ balance.cash = CashTold + CashMoved(o)
      /\ pos[s].qty = UnitsTold(s) + UnitsMoved(o)
  BY <1>1, <1>2 DEF AllInv, BooksInv, Explained, Writing
<1>9. /\ CashTold \in Int /\ \A t \in Symbols : UnitsTold(t) \in Int
      /\ balance.cash \in Nat /\ pos[s].qty \in Nat
  BY ToldTyped DEF AllInv, AccountInv, Typed, Balances, Positions
<1> DEFINE cash == [a \in {"account"} |-> CashTold]
           held == [a \in {"account"} |-> [t \in Symbols |-> UnitsTold(t)]]
<1>10. CASE o.side = "buy"
  <2>1. CashMoved(o) = 0 - BuyCost(price, qty) /\ UnitsMoved(o) = qty
    BY <1>3, <1>4, <1>10 DEF CashMoved, UnitsMoved
  <2>2. CashTold >= BuyCost(price, qty)
    BY <1>6, <1>8, <1>9, <2>1
  <2>3. [a \in {"account"} |-> CashTold']
          = [cash EXCEPT !["account"] = @ - BuyCost(price, qty)]
    BY <1>6, <1>7, <1>9, <2>1
  <2>4. \A t \in Symbols : UnitsTold(t)' = IF t = s THEN UnitsTold(t) + qty ELSE UnitsTold(t)
    BY <1>7, <1>9, <2>1
  <2>5. [a \in {"account"} |-> [t \in Symbols |-> UnitsTold(t)']]
          = [held EXCEPT !["account"][s] = @ + qty]
    BY <2>4
  <2>6. Account!Buy("account", s, price, qty)
    BY <2>2, <2>3, <2>5 DEF Account!Buy, Account!BuyCost, Account!Notional,
       Account!CalculateFee, BuyCost, Notional, CalculateFee
  <2> QED
    BY <2>6 DEF Account!LedgerNext
<1>11. CASE o.side = "sell"
  <2>1. CashMoved(o) = SellProceeds(price, qty) /\ UnitsMoved(o) = 0 - qty
    BY <1>3, <1>4, <1>11 DEF CashMoved, UnitsMoved
  <2>2. UnitsTold(s) >= qty
    BY <1>5, <1>8, <1>9, <2>1
  <2>3. [a \in {"account"} |-> CashTold']
          = [cash EXCEPT !["account"] = @ + SellProceeds(price, qty)]
    BY <1>6, <1>7, <1>9, <2>1
  <2>4. \A t \in Symbols : UnitsTold(t)' = IF t = s THEN UnitsTold(t) - qty ELSE UnitsTold(t)
    BY <1>5, <1>7, <1>9, <2>1
  <2>5. [a \in {"account"} |-> [t \in Symbols |-> UnitsTold(t)']]
          = [held EXCEPT !["account"][s] = @ - qty]
    BY <2>4
  <2>6. Account!Sell("account", s, price, qty)
    BY <2>2, <2>3, <2>5 DEF Account!Sell, Account!SellProceeds, Account!Notional,
       Account!CalculateFee, SellProceeds, Notional, CalculateFee
  <2> QED
    BY <2>6 DEF Account!LedgerNext
<1> QED
  BY <1>5, <1>10, <1>11

(* The filled rows of either class are a run of the atomic ledger, up to    *)
(* the first fill that a restart cuts short.                                *)
THEOREM RefinesLedger == Spec => ImplementsLedger
<1>1. Init => Account!LedgerInit
  <2> SUFFICES ASSUME Init PROVE Account!LedgerInit
    OBVIOUS
  <2>1. Told = {} /\ \A s \in Symbols : {i \in Told : orders[i].symbol = s} = {}
    BY DEF Init, Told
  <2>2. CashTold = InitialCash /\ \A s \in Symbols : UnitsTold(s) = 0
    BY <2>1, SumEmpty, SimulatedExecutorsAssumption DEF CashTold, UnitsTold
  <2> QED
    BY <2>2 DEF Account!LedgerInit
<1>2. AllInv /\ AllInv' /\ [Next]_vars => [Account!LedgerNext]_(Account!ledgerVars)
  <2> SUFFICES ASSUME AllInv, AllInv', [Next]_vars
               PROVE  [Account!LedgerNext]_(Account!ledgerVars)
    OBVIOUS
  <2>1. CASE \E c \in Callers : RecordOrder(c) /\ torn = Whole
    BY <2>1, RecordIsLedgerStep
  <2>2. CASE ~\E c \in Callers : RecordOrder(c) /\ torn = Whole
    <3>1. CashTold' = CashTold /\ \A s \in Symbols : UnitsTold(s)' = UnitsTold(s)
      BY <2>2, OtherStepsStill, ToldSame DEF AllInv, AccountInv
    <3>2. /\ [a \in {"account"} |-> CashTold'] = [a \in {"account"} |-> CashTold]
          /\ [a \in {"account"} |-> [s \in Symbols |-> UnitsTold(s)']]
               = [a \in {"account"} |-> [s \in Symbols |-> UnitsTold(s)]]
      BY <3>1
    <3> QED
      BY <3>2 DEF Account!ledgerVars
  <2> QED
    BY <2>1, <2>2
<1> QED
  BY <1>1, <1>2, BooksInvariant, PTL DEF Spec, ImplementsLedger, Account!LedgerSpec
=============================================================================
