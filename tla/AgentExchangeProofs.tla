------------------------- MODULE AgentExchangeProofs -------------------------
(****************************************************************************)
(* Theorems about AgentExchange, and about AdminReset on top of it, for     *)
(* every set of agents, callers, symbols, prices and quantities, every fee  *)
(* rate and every number of orders, restarts and resets.                    *)
(****************************************************************************)
EXTENDS AdminReset, FillRulesProofs

(* A caller inside placeOrder carries a well-formed order.                  *)
BusyHasOrder == \A c \in Callers : at[c] # "idle" => order[c] \in Orders

TypeInv == TypeOK /\ BusyHasOrder

-----------------------------------------------------------------------------
(* What a fill computes from the rows it read is a row again.               *)
LEMMA FillTyped ==
  ASSUME NEW o \in Orders, NEW cash \in Nat, NEW pos \in Positions,
         CanFill(o.side, o.price, o.qty, cash, pos)
  PROVE  /\ NewCash(o.side, o.price, o.qty, cash) \in Nat
         /\ NewPosition(o.side, o.price, o.qty, pos) \in Positions
         /\ RealizedPnl(o.side, o.price, o.qty, pos) \in Int
<1>1. /\ o.price \in Nat
      /\ o.qty \in Nat \ {0}
      /\ o.side \in {"buy", "sell"}
      /\ pos.qty \in Nat
      /\ pos.cost \in Nat
  BY AgentExchangeAssumption DEF Orders, Sides, Positions
<1>2. /\ Notional(o.price, o.qty) \in Nat
      /\ BuyCost(o.price, o.qty) \in Nat
      /\ SellProceeds(o.price, o.qty) \in Nat
  BY <1>1, AmountsNat
<1>3. CASE o.side = "buy"
  BY <1>1, <1>2, <1>3
     DEF CanFill, NewCash, NewPosition, RealizedPnl, Positions
<1>4. CASE o.side = "sell"
  <2>1. pos.qty >= o.qty
    BY <1>4 DEF CanFill
  <2>2. CostShare(pos, o.qty) \in 0..pos.cost
    BY <1>1, <2>1, CostShareBounded
  <2>. QED
    BY <1>1, <1>2, <1>4, <2>1, <2>2
       DEF NewCash, NewPosition, RealizedPnl, Positions
<1>. QED
  BY <1>1, <1>3, <1>4

(* What an order moves is an amount of money.                               *)
LEMMA CashMovedInt ==
  ASSUME NEW o \in Orders
  PROVE  CashMoved(o) \in Int
<1>1. o.price \in Nat /\ o.qty \in Nat
  BY AgentExchangeAssumption DEF Orders
<1>2. BuyCost(o.price, o.qty) \in Nat /\ SellProceeds(o.price, o.qty) \in Nat
  BY <1>1, AmountsNat
<1>. QED
  BY <1>2 DEF CashMoved

(* The price an order fills at is one of the prices.                        *)
LEMMA BasePriceTyped ==
  ASSUME TypeOK, NEW r \in OrderRequests, NEW quote \in Prices \cup {NoPrice},
         BasePrice(r, quote) # NoPrice
  PROVE  BasePrice(r, quote) \in Prices
BY DEF TypeOK, OrderRequests, BasePrice, ResolvePrice, NoPrice

(* The positions of an account have a value, whatever is quoted.            *)
LEMMA ValueInt ==
  ASSUME TypeOK, NEW a \in Agents, NEW quotes \in [Symbols -> Prices \cup {NoPrice}]
  PROVE  PositionsValue(a, quotes) \in Int
<1> DEFINE f == [s \in Symbols |-> RowValue(positions[a][s], quotes[s])]
<1>1. ASSUME NEW s \in Symbols PROVE f[s] \in Int
  <2>0. quotes[s] \in Prices \cup {NoPrice}
    OBVIOUS
  <2>1. quotes[s] \in Nat
    <3>1. \A q \in Prices \cup {NoPrice} : q \in Nat
      BY AgentExchangeAssumption DEF NoPrice
    <3>. QED
      BY <2>0, <3>1
  <2>2. /\ positions[a][s].qty \in Nat /\ positions[a][s].cost \in Nat
        /\ Scale \in Nat
    BY FillAssumption DEF TypeOK, Positions
  <2>3. Scale * quotes[s] * positions[a][s].qty \in Nat
    BY <2>1, <2>2, AmountsNat DEF Notional
  <2>. QED
    BY <2>2, <2>3 DEF RowValue
<1>2. SumFunctionOnSet(f, Symbols) \in Int
  BY <1>1, SumInt, AgentExchangeAssumption
<1>. QED
  BY <1>2 DEF PositionsValue, SumFunction

-----------------------------------------------------------------------------
(* The accounts start out well-typed.                                      *)
LEMMA InitTypeInv == Init => TypeInv
<1> SUFFICES ASSUME Init PROVE TypeInv
  OBVIOUS
<1>1. NoPosition \in Positions /\ NoRow \in Rows /\ EmptyBook \in Books
      /\ NoResult \in Results
  BY DEF NoPosition, Positions, NoRow, Rows, EmptyBook, Books, NoResult, Results
<1>. QED
  BY <1>1, AgentExchangeAssumption DEF Init, TypeInv, TypeOK, BusyHasOrder

(* Every statement of a fill writes values of the type of its column.       *)
LEMMA NextTypeInv == TypeInv /\ [Next]_vars => TypeInv'
<1> SUFFICES ASSUME TypeInv, [Next]_vars PROVE TypeInv'
  OBVIOUS
<1> USE DEF TypeInv, BusyHasOrder
<1>0. NoRow \in Rows /\ NoResult \in Results
  BY DEF NoRow, Rows, NoResult, Results, NoPosition, Positions
<1>1. ASSUME NEW a \in Agents, LookForBalance(a) PROVE TypeInv'
  BY <1>1 DEF LookForBalance, TypeOK, tables, locals, history
<1>2. ASSUME NEW a \in Agents, InsertBalance(a) PROVE TypeInv'
  <2>1. [cash |-> StartingBalance, peak |-> StartingBalance] \in Rows
    BY AgentExchangeAssumption DEF Rows
  <2>. QED
    BY <1>2, <2>1 DEF InsertBalance, TypeOK, locals, history
<1>3. ASSUME NEW c \in Callers, NEW r \in OrderRequests,
             NEW quote \in Prices \cup {NoPrice}, RefuseOrder(c, r, quote)
      PROVE TypeInv'
  <2>1. calls' \in 0..MaxOrders
    BY <1>3, AgentExchangeAssumption DEF RefuseOrder, Enter, TypeOK
  <2>. QED
    BY <1>3, <2>1 DEF RefuseOrder, Enter, TypeOK, tables, memory, locals
<1>4. ASSUME NEW c \in Callers, NEW r \in OrderRequests,
             NEW quote \in Prices \cup {NoPrice}, PlaceOrder(c, r, quote)
      PROVE TypeInv'
  <2>1. calls' \in 0..MaxOrders
    BY <1>4, AgentExchangeAssumption DEF PlaceOrder, Enter, TypeOK
  <2>2. order'[c] \in Orders
    BY <1>4, BasePriceTyped, AgentExchangeAssumption
       DEF PlaceOrder, Refused, TypeOK, OrderRequests, Orders
  <2>. QED
    BY <1>4, <2>1, <2>2 DEF PlaceOrder, TypeOK, Steps, tables, memory
<1>5. ASSUME NEW c \in Callers, ReadBalance(c) PROVE TypeInv'
  <2>1. seen'[c] \in Rows
    BY <1>5 DEF ReadBalance, TypeOK, Orders, Steps
  <2>. QED
    BY <1>5, <2>1 DEF ReadBalance, TypeOK, Steps, tables, memory, history
<1>6. ASSUME NEW c \in Callers, RejectOrder(c) PROVE TypeInv'
  BY <1>6, <1>0 DEF RejectOrder, Return, TypeOK, tables, memory, history
<1>7. ASSUME NEW c \in Callers, ReadPosition(c) PROVE TypeInv'
  <2>1. order[c] \in Orders /\ Held(c) \in Positions
    BY <1>7 DEF ReadPosition, TypeOK, Orders, Held
  <2>2. next'[c] \in Results
    BY <1>7, <2>1, FillTyped DEF ReadPosition, Accepts, TypeOK, Rows, Results
  <2>. QED
    BY <1>7, <2>2 DEF ReadPosition, TypeOK, Steps, tables, memory, history
<1>8. ASSUME NEW c \in Callers, UpsertPosition(c) PROVE TypeInv'
  <2>1. next[c].pos \in Positions
    BY DEF TypeOK, Results
  <2>. QED
    BY <1>8, <2>1 DEF UpsertPosition, TypeOK, Steps, memory, history
<1>9. ASSUME NEW c \in Callers, NEW quotes \in [Symbols -> Prices \cup {NoPrice}],
             CalculateEquity(c, quotes)
      PROVE TypeInv'
  <2>0. PositionsValue(order[c].agent, quotes) \in Int
    BY <1>9, ValueInt DEF CalculateEquity, TypeOK, Orders
  <2>1. PeakOf(seen[c].peak, next[c].cash + PositionsValue(order[c].agent, quotes)) \in Int
    BY <2>0 DEF TypeOK, Results, Rows, PeakOf
  <2>2. next'[c] \in Results
    BY <1>9, <2>1 DEF CalculateEquity, TypeOK, Results
  <2>. QED
    BY <1>9, <2>2 DEF CalculateEquity, TypeOK, Steps, tables, memory, history
<1>10. ASSUME NEW c \in Callers, UpdateBalance(c) PROVE TypeInv'
  <2>1. [cash |-> next[c].cash, peak |-> next[c].peak] \in Rows
    BY DEF TypeOK, Results, Rows
  <2>2. priceCache' \in [Agents -> [Symbols -> Prices \cup {NoPrice}]]
    <3>1. order[c] \in Orders
      BY <1>10 DEF UpdateBalance, TypeOK
    <3>. QED
      BY <1>10, <3>1 DEF UpdateBalance, TypeOK, Orders
  <2>. QED
    BY <1>10, <2>1, <2>2 DEF UpdateBalance, TypeOK, Steps, history
<1>11. ASSUME NEW c \in Callers, RecordOrder(c) PROVE TypeInv'
  <2>1. order[c] \in Orders /\ order[c].price \in Nat /\ order[c].qty \in Nat
    BY <1>11, AgentExchangeAssumption DEF RecordOrder, TypeOK, Orders
  <2>2. /\ Notional(order[c].price, order[c].qty) \in Nat
        /\ CalculateFee(order[c].price, order[c].qty) \in Nat
        /\ BuyCost(order[c].price, order[c].qty) \in Nat
        /\ SellProceeds(order[c].price, order[c].qty) \in Nat
    BY <2>1, AmountsNat
  <2>3. CashMoved(order[c]) \in Int
    BY <2>2 DEF CashMoved
  <2>4. \A b \in Books : Booked(b, order[c], next[c].pnl) \in Books
    BY <2>1, <2>2 DEF Booked, Books, TypeOK, Results
  <2>5. flow' \in [Agents -> Int]
    BY <1>11, <2>1, <2>3 DEF RecordOrder, TypeOK, Orders
  <2>6. book' \in [Agents -> [Symbols -> Books]]
    BY <1>11, <2>1, <2>4 DEF RecordOrder, TypeOK, Orders
  <2>. QED
    BY <1>11, <1>0, <2>5, <2>6
       DEF RecordOrder, Return, TypeOK, Steps, memory, history
<1>12. ASSUME Restart PROVE TypeInv'
  <2>1. torn' \subseteq Agents
    BY <1>12 DEF Restart, TypeOK, Writing, Orders
  <2>2. restarts' \in 0..MaxRestarts
    BY <1>12, AgentExchangeAssumption DEF Restart, TypeOK
  <2>. QED
    BY <1>12, <1>0, <2>1, <2>2 DEF Restart, TypeOK, tables
<1>13. ASSUME UNCHANGED vars PROVE TypeInv'
  BY <1>13 DEF vars, tables, memory, locals, history, TypeOK
<1>. QED
  BY <1>1, <1>2, <1>3, <1>4, <1>5, <1>6, <1>7, <1>8, <1>9, <1>10, <1>11, <1>12, <1>13
     DEF Next, Place, Fill

(* The tables, the process memory and the local state of every caller keep  *)
(* their types; in particular no balance, position or cost is ever negative *)
(* whatever fills overlap, and whenever the process restarts.               *)
THEOREM TypeCorrect == Spec => []TypeOK
<1>1. TypeInv => TypeOK
  BY DEF TypeInv
<1>. QED
  BY <1>1, InitTypeInv, NextTypeInv, PTL DEF Spec

-----------------------------------------------------------------------------
(* Booking a fill of a position that agrees with its order rows keeps them  *)
(* in agreement, and the cash moves by what the order row says.             *)
LEMMA FillAgrees ==
  ASSUME NEW o \in Orders, NEW cash \in Nat, NEW pos \in Positions,
         NEW row \in Books, Agree(row, pos),
         CanFill(o.side, o.price, o.qty, cash, pos)
  PROVE  /\ Agree(Booked(row, o, RealizedPnl(o.side, o.price, o.qty, pos)),
                  NewPosition(o.side, o.price, o.qty, pos))
         /\ NewCash(o.side, o.price, o.qty, cash) = cash + CashMoved(o)
<1>1. /\ o.price \in Nat
      /\ o.qty \in Nat \ {0}
      /\ o.side \in {"buy", "sell"}
      /\ pos.qty \in Nat
      /\ pos.cost \in Nat
  BY AgentExchangeAssumption DEF Orders, Sides, Positions
<1>2. /\ Notional(o.price, o.qty) \in Nat
      /\ CalculateFee(o.price, o.qty) \in Nat
      /\ BuyCost(o.price, o.qty) \in Nat
      /\ SellProceeds(o.price, o.qty) \in Nat
  BY <1>1, AmountsNat
<1>3. row.net \in Int /\ row.fees \in Int /\ row.pnl \in Int /\ row.traded \in Int
  BY DEF Books
<1>4. CASE o.side = "buy"
  BY <1>1, <1>2, <1>3, <1>4
     DEF Agree, Booked, NewCash, NewPosition, RealizedPnl, CashMoved
<1>5. CASE o.side = "sell"
  <2>1. CostShare(pos, o.qty) \in 0..pos.cost
    BY <1>1, <1>5, CostShareBounded DEF CanFill
  <2>. QED
    BY <1>1, <1>2, <1>3, <1>5, <2>1
       DEF Agree, Booked, NewCash, NewPosition, RealizedPnl, CashMoved, SellProceeds
<1>. QED
  BY <1>1, <1>4, <1>5

-----------------------------------------------------------------------------
(* No account starts out with anything to explain.                          *)
LEMMA InitConsistent == Init => \A a \in Agents : Consistent(a)
<1> SUFFICES ASSUME Init, NEW a \in Agents PROVE Consistent(a)
  OBVIOUS
<1>1. Agree(EmptyBook, NoPosition)
  BY DEF Agree, EmptyBook, NoPosition
<1>2. Reconciled(a)
  BY <1>1 DEF Init, Reconciled
<1>. QED
  BY <1>2 DEF Init, Consistent

(* c did something, and no other caller's local state changed.              *)
OthersWait(c) ==
  \A d \in Callers \ {c} :
    at'[d] = at[d] /\ order'[d] = order[d] /\ seen'[d] = seen[d] /\ next'[d] = next[d]

(* No row of a changed.                                                     *)
RowsStay(a) ==
  /\ a \in opened' <=> a \in opened
  /\ a \in torn' <=> a \in torn
  /\ balance'[a] = balance[a] /\ positions'[a] = positions[a]
  /\ book'[a] = book[a] /\ flow'[a] = flow[a]

(* c is inside placeOrder for a.                                            *)
On(c, a) == at[c] # "idle" /\ order[c].agent = a

(* A step that changes no row of a keeps its tables and callers consistent  *)
(* when every caller on a either stood still or reads rows as they are.     *)
LEMMA UnwrittenKeeps ==
  ASSUME NEW a \in Agents, Consistent(a), RowsStay(a),
         \A c \in Callers : On(c, a)' =>
           \/ /\ On(c, a)
              /\ at'[c] = at[c] /\ order'[c] = order[c]
              /\ seen'[c] = seen[c] /\ next'[c] = next[c]
           \/ Fresh(c)' /\ ~Writing(c)' /\ (at'[c] # "balance" => a \in opened),
         \A c \in Callers : Writing(c) /\ order[c].agent = a =>
           at'[c] = at[c] /\ order'[c] = order[c]
  PROVE  Consistent(a)'
<1> USE DEF RowsStay, On
<1>1. ASSUME NEW c \in Callers, at'[c] # "idle", order'[c].agent = a
      PROVE  Fresh(c)' /\ Half(c)' /\ (at'[c] # "balance" => a \in opened')
  <2>1. CASE /\ On(c, a)
             /\ at'[c] = at[c] /\ order'[c] = order[c]
             /\ seen'[c] = seen[c] /\ next'[c] = next[c]
    <3>1. Fresh(c) /\ Half(c) /\ (at[c] # "balance" => a \in opened)
      BY <2>1 DEF Consistent
    <3>2. Fresh(c)'
      BY <2>1, <3>1 DEF Fresh, Accepts, Held
    <3>3. Half(c)'
      BY <2>1, <3>1 DEF Half, Awaited, Writing
    <3>. QED
      BY <2>1, <3>1, <3>2, <3>3
  <2>2. CASE Fresh(c)' /\ ~Writing(c)' /\ (at'[c] # "balance" => a \in opened)
    BY <2>2 DEF Half
  <2>. QED
    BY <1>1, <2>1, <2>2
<1>2. Settled(a)' => Settled(a)
  BY DEF Settled, Writing
<1>3. Reconciled(a)'
  BY <1>2 DEF Consistent, Reconciled
<1>. QED
  BY <1>1, <1>3 DEF Consistent

(* A step of c on its own account a, which no other caller is on, keeps     *)
(* them consistent when it keeps what c knows of a, and when the tables     *)
(* agree at its end.                                                        *)
LEMMA WrittenKeeps ==
  ASSUME NEW a \in Agents, NEW c \in Callers, Alone, On(c, a), a \in opened, OthersWait(c),
         opened' = opened, torn' = torn,
         Fresh(c)', Half(c)',
         a \notin torn /\ Settled(a)' =>
           /\ balance'[a].cash = StartingBalance + flow'[a]
           /\ \A s \in Symbols : Agree(book'[a][s], positions'[a][s])
  PROVE  Consistent(a)'
<1>1. \A d \in Callers : On(d, a)' => d = c
  BY DEF Alone, On, OthersWait
<1>2. Reconciled(a)'
  BY DEF Reconciled
<1>. QED
  BY <1>1, <1>2 DEF Consistent, On

(* A step of a fill is of nobody else: the other callers wait, rows are     *)
(* neither opened nor torn, and its order stays until it returns.           *)
LEMMA Bystanders ==
  ASSUME TypeInv, NEW c \in Callers, FillOfTables(c)
  PROVE  /\ at[c] # "idle" /\ OthersWait(c)
         /\ at'[c] = "idle" \/ order'[c] = order[c]
         /\ UNCHANGED <<opened, instance, torn>>
<1> DEFINE Goal == /\ at[c] # "idle" /\ OthersWait(c)
                   /\ at'[c] = "idle" \/ order'[c] = order[c]
                   /\ UNCHANGED <<opened, instance, torn>>
<1>1. ASSUME ReadNoBalance(c) \/ RejectOrder(c) PROVE Goal
  BY <1>1 DEF TypeInv, ReadNoBalance, RejectOrder, Return, OthersWait, TypeOK, tables,
     memory, history
<1>2. ASSUME UpdateNoBalance(c) PROVE Goal
  BY <1>2 DEF TypeInv, UpdateNoBalance, OthersWait, TypeOK, tables, memory, history
<1>3. ASSUME ReadBalance(c) \/ ReadPosition(c) PROVE Goal
  BY <1>3 DEF TypeInv, ReadBalance, ReadPosition, OthersWait, TypeOK, tables, memory,
     history
<1>4. ASSUME UpdateBalance(c) \/ UpsertPosition(c) PROVE Goal
  BY <1>4 DEF TypeInv, UpdateBalance, UpsertPosition, OthersWait, TypeOK, memory, history
<1>5. ASSUME NEW quotes \in [Symbols -> Prices \cup {NoPrice}], CalculateEquity(c, quotes)
      PROVE Goal
  BY <1>5 DEF TypeInv, CalculateEquity, OthersWait, TypeOK, tables, memory, history
<1>6. ASSUME RecordOrder(c) PROVE Goal
  BY <1>6 DEF TypeInv, RecordOrder, Return, OthersWait, TypeOK, memory, history
<1>. QED
  BY <1>1, <1>2, <1>3, <1>4, <1>5, <1>6 DEF FillOfTables

(* As long as accounts are open, a fill finds its rows.                     *)
LEMMA FillOnOpenTables ==
  ASSUME OpenFirst, NEW c \in Callers, Fill(c)
  PROVE  FillOfTables(c)
BY DEF OpenFirst, Fill, FillOfTables, ReadBalance, UpdateBalance

(* A step of one account's caller keeps every other account consistent.     *)
LEMMA OthersKeep ==
  ASSUME TypeInv, NEW c \in Callers, FillOfTables(c),
         NEW a \in Agents, order[c].agent # a, Consistent(a)
  PROVE  Consistent(a)'
<1> USE DEF TypeInv
<1>1. /\ at[c] # "idle" /\ OthersWait(c) /\ (at'[c] = "idle" \/ order'[c] = order[c])
      /\ torn' = torn /\ opened' = opened
  BY Bystanders
<1>2. order[c] \in Orders /\ order[c].agent \in Agents /\ order[c].symbol \in Symbols
  BY <1>1 DEF BusyHasOrder, Orders
<1>3. RowsStay(a)
  <2>1. ASSUME UNCHANGED tables PROVE RowsStay(a)
    BY <1>1, <2>1 DEF RowsStay, tables
  <2>2. ASSUME UpdateBalance(c) \/ UpsertPosition(c) \/ RecordOrder(c) PROVE RowsStay(a)
    BY <1>1, <1>2, <2>2 DEF RowsStay, TypeOK, UpdateBalance, UpsertPosition, RecordOrder
  <2>. QED
    BY <2>1, <2>2 DEF FillOfTables, ReadNoBalance, UpdateNoBalance, ReadBalance,
       RejectOrder,
                      ReadPosition, CalculateEquity
<1>. QED
  BY <1>1, <1>3, UnwrittenKeeps DEF On, OthersWait, Writing

(* A step of a caller keeps its own account consistent.                     *)
LEMMA OwnKeeps ==
  ASSUME TypeInv, Alone, NEW c \in Callers, FillOfTables(c),
         NEW a \in Agents, order[c].agent = a, Consistent(a)
  PROVE  Consistent(a)'
<1> USE DEF TypeInv
<1> DEFINE o == order[c]
<1>1. at[c] # "idle"
  BY DEF FillOfTables, ReadNoBalance, UpdateNoBalance, ReadBalance, UpdateBalance,
     RejectOrder,
         ReadPosition, UpsertPosition, CalculateEquity, RecordOrder
<1>2. /\ o \in Orders /\ o.symbol \in Symbols
      /\ On(c, a) /\ \A d \in Callers : On(d, a) => d = c
  BY <1>1 DEF BusyHasOrder, Orders, On, Alone
<1>3. Fresh(c) /\ Half(c) /\ (at[c] # "balance" => a \in opened) /\ Reconciled(a)
  BY <1>1 DEF Consistent
<1>4. ASSUME ReadNoBalance(c) \/ RejectOrder(c) PROVE Consistent(a)'
  <2>1. /\ RowsStay(a) /\ OthersWait(c) /\ at'[c] = "idle" /\ ~Writing(c)
    BY <1>4 DEF ReadNoBalance, RejectOrder, Return, RowsStay, OthersWait, TypeOK, Writing,
                tables, history
  <2>. QED
    BY <2>1, UnwrittenKeeps DEF On, OthersWait, Writing
<1>5. ASSUME a \in opened, ReadBalance(c) PROVE Consistent(a)'
  <2>1. RowsStay(a) /\ OthersWait(c) /\ ~Writing(c) /\ ~Writing(c)' /\ at'[c] = "position"
    BY <1>5 DEF ReadBalance, RowsStay, OthersWait, TypeOK, Writing, tables, history
  <2>2. Fresh(c)'
    BY <1>5, <2>1 DEF ReadBalance, Fresh, TypeOK, tables
  <2>. QED
    BY <1>5, <2>1, <2>2, UnwrittenKeeps DEF On, OthersWait, Writing
<1>6. ASSUME ReadPosition(c) PROVE Consistent(a)'
  <2>1. /\ RowsStay(a) /\ OthersWait(c) /\ ~Writing(c) /\ ~Writing(c)'
        /\ at[c] = "position" /\ at'[c] = "upsert"
    BY <1>6 DEF ReadPosition, RowsStay, OthersWait, TypeOK, Writing, tables, history
  <2>2. Fresh(c)'
    <3>1. seen'[c] = balance'[order'[c].agent] /\ order'[c] = order[c] /\ Held(c)' = Held(c)
      BY <1>3, <1>6, <2>1 DEF ReadPosition, Fresh, tables, Held
    <3>2. next'[c] = [cash |-> NewCash(o.side, o.price, o.qty, seen[c].cash),
                      pos  |-> NewPosition(o.side, o.price, o.qty, Held(c)),
                      peak |-> seen[c].peak,
                      pnl  |-> RealizedPnl(o.side, o.price, o.qty, Held(c))]
      BY <1>6 DEF ReadPosition, TypeOK
    <3>3. seen' = seen /\ Accepts(c)
      BY <1>6 DEF ReadPosition
    <3>. QED
      BY <2>1, <3>1, <3>2, <3>3 DEF Fresh, Accepts
  <2>. QED
    BY <1>3, <2>1, <2>2, UnwrittenKeeps DEF On, OthersWait, Writing
<1>7. ASSUME UpsertPosition(c) PROVE Consistent(a)'
  <2>1. /\ at[c] = "upsert" /\ at'[c] = "equity" /\ OthersWait(c)
        /\ order' = order /\ seen' = seen /\ next' = next
        /\ UNCHANGED <<opened, balance, book, flow, torn>>
    BY <1>7 DEF UpsertPosition, OthersWait, TypeOK, history
  <2>2. /\ positions'[a][o.symbol] = next[c].pos
        /\ \A s \in Symbols \ {o.symbol} : positions'[a][s] = positions[a][s]
    BY <1>2, <1>7 DEF UpsertPosition, TypeOK
  <2>3. Fresh(c)'
    BY <1>3, <2>1 DEF Fresh
  <2>4. Settled(a)
    BY <1>2, <2>1 DEF Settled, On, Writing
  <2>5. Half(c)'
    <3> SUFFICES ASSUME a \notin torn
                 PROVE  /\ Agree(Awaited(c)', next[c].pos)
                        /\ \A s \in Symbols \ {o.symbol} : Agree(book[a][s], positions[a][s])
                        /\ next[c].cash = StartingBalance + flow[a] + CashMoved(o)
      BY <2>1, <2>2 DEF Half
    <3>1. /\ balance[a].cash = StartingBalance + flow[a]
          /\ \A s \in Symbols : Agree(book[a][s], positions[a][s])
      BY <1>3, <2>1, <2>4 DEF Reconciled
    <3>2. /\ seen[c].cash \in Nat /\ Held(c) \in Positions
          /\ book[a][o.symbol] \in Books
      BY <1>2 DEF TypeOK, Rows, Held
    <3>3. /\ seen[c] = balance[a]
          /\ CanFill(o.side, o.price, o.qty, seen[c].cash, Held(c))
          /\ next[c].pos = NewPosition(o.side, o.price, o.qty, Held(c))
          /\ next[c].pnl = RealizedPnl(o.side, o.price, o.qty, Held(c))
          /\ next[c].cash = NewCash(o.side, o.price, o.qty, seen[c].cash)
      BY <1>3, <2>1 DEF Fresh, Accepts
    <3>4. Agree(book[a][o.symbol], Held(c))
      BY <1>2, <3>1 DEF Held
    <3>5. /\ Agree(Booked(book[a][o.symbol], o, next[c].pnl), next[c].pos)
          /\ next[c].cash = seen[c].cash + CashMoved(o)
      BY <1>2, <3>2, <3>3, <3>4, FillAgrees
    <3>. QED
      BY <2>1, <3>1, <3>3, <3>5 DEF Awaited
  <2>6. ~Settled(a)'
    BY <2>1 DEF Settled, Writing
  <2>. QED
    BY <1>2, <1>3, <2>1, <2>3, <2>5, <2>6, WrittenKeeps
<1>8. ASSUME NEW quotes \in [Symbols -> Prices \cup {NoPrice}], CalculateEquity(c, quotes)
      PROVE  Consistent(a)'
  <2>1. /\ at[c] = "equity" /\ at'[c] = "update" /\ OthersWait(c)
        /\ order' = order /\ seen' = seen
        /\ UNCHANGED <<tables, torn>>
    BY <1>8 DEF CalculateEquity, OthersWait, TypeOK, history
  <2>2. next'[c].cash = next[c].cash /\ next'[c].pnl = next[c].pnl
    BY <1>8 DEF CalculateEquity, TypeOK, Results
  <2>3. next'[c].peak >= seen[c].peak
    <3>1. PositionsValue(a, quotes) \in Int
      BY <1>8, ValueInt
    <3>. QED
      BY <1>8, <3>1 DEF CalculateEquity, TypeOK, Results, Rows, PeakOf
  <2>4. Fresh(c)'
    BY <1>3, <2>1, <2>2, <2>3 DEF Fresh, tables
  <2>5. Half(c)'
    BY <1>3, <2>1, <2>2 DEF Half, Awaited, Writing, tables
  <2>6. ~Settled(a)'
    BY <2>1 DEF Settled, Writing
  <2>. QED
    BY <1>2, <1>3, <2>1, <2>4, <2>5, <2>6, WrittenKeeps DEF tables
<1>9. ASSUME UpdateBalance(c) PROVE Consistent(a)'
  <2>1. /\ at[c] = "update" /\ at'[c] = "record" /\ OthersWait(c)
        /\ order' = order /\ seen' = seen /\ next' = next
        /\ UNCHANGED <<opened, positions, book, flow, torn>>
    BY <1>9 DEF UpdateBalance, OthersWait, TypeOK, history
  <2>2. balance'[a].cash = next[c].cash
    BY <1>9 DEF UpdateBalance, TypeOK
  <2>3. Fresh(c)'
    BY <1>3, <2>1, <2>2 DEF Fresh
  <2>4. Half(c)'
    BY <1>3, <2>1 DEF Half, Awaited, Writing
  <2>5. ~Settled(a)'
    BY <2>1 DEF Settled, Writing
  <2>. QED
    BY <1>2, <1>3, <2>1, <2>3, <2>4, <2>5, WrittenKeeps
<1>10. ASSUME RecordOrder(c) PROVE Consistent(a)'
  <2>1. /\ at[c] = "record" /\ at'[c] = "idle" /\ OthersWait(c)
        /\ UNCHANGED <<opened, balance, positions, torn>>
    BY <1>10 DEF RecordOrder, Return, OthersWait, TypeOK, history
  <2>2. /\ book'[a][o.symbol] = Awaited(c)
        /\ \A s \in Symbols \ {o.symbol} : book'[a][s] = book[a][s]
        /\ flow'[a] = flow[a] + CashMoved(o)
    BY <1>2, <1>10 DEF RecordOrder, TypeOK, Awaited
  <2>3. Fresh(c)' /\ Half(c)'
    BY <2>1 DEF Fresh, Half, Writing
  <2>4. ASSUME a \notin torn
        PROVE  /\ balance'[a].cash = StartingBalance + flow'[a]
               /\ \A s \in Symbols : Agree(book'[a][s], positions'[a][s])
    <3>1. Half(c) /\ Writing(c) /\ balance[a].cash = next[c].cash
      BY <1>3, <2>1 DEF Fresh, Writing
    <3>2. CashMoved(o) \in Int /\ flow[a] \in Int
      BY <1>2, CashMovedInt DEF TypeOK
    <3>. QED
      BY <2>1, <2>2, <2>4, <3>1, <3>2, AgentExchangeAssumption DEF Half
  <2>. QED
    BY <1>2, <1>3, <2>1, <2>3, <2>4, WrittenKeeps
<1>11. ~UpdateNoBalance(c)
  BY <1>3 DEF UpdateNoBalance
<1>. QED
  BY <1>4, <1>5, <1>6, <1>7, <1>8, <1>9, <1>10, <1>11 DEF FillOfTables

(* What happens around the fills: an account is opened, an order comes in,  *)
(* the process restarts.                                                    *)
Around ==
  \/ \E a \in Agents : LookForBalance(a) \/ InsertBalance(a)
  \/ \E c \in Callers : Place(c)
  \/ Restart
  \/ UNCHANGED vars

(* It keeps an account consistent.                                          *)
LEMMA AroundKeeps ==
  ASSUME TypeInv, OneRow, Around, NEW a \in Agents, Consistent(a)
  PROVE  Consistent(a)'
<1> USE DEF TypeInv
<1>1. ASSUME UNCHANGED <<tables, locals, torn>> PROVE Consistent(a)'
  BY <1>1, UnwrittenKeeps DEF RowsStay, On, Writing, tables, locals
<1>2. ASSUME NEW b \in Agents, InsertBalance(b) PROVE Consistent(a)'
  <2>1. b \notin opened
    BY <1>2 DEF InsertBalance, OneRow
  <2>2. CASE a # b
    <3>1. RowsStay(a) /\ UNCHANGED locals
      BY <1>2, <2>2 DEF InsertBalance, RowsStay, TypeOK, history
    <3>. QED
      BY <3>1, UnwrittenKeeps DEF On, Writing, locals
  <2>3. CASE a = b
    <3>1. \A c \in Callers : On(c, a) => at[c] = "balance"
      BY <2>1, <2>3 DEF Consistent, On
    <3>2. /\ UNCHANGED <<positions, book, flow, torn, locals>>
          /\ a \in opened' /\ balance'[a].cash = StartingBalance
      BY <1>2, <2>3 DEF InsertBalance, TypeOK, history
    <3>3. Settled(a)
      BY <3>1 DEF Settled, On, Writing
    <3>4. Reconciled(a)'
      BY <2>1, <2>3, <3>2, <3>3, AgentExchangeAssumption DEF Consistent, Reconciled
    <3>5. ASSUME NEW c \in Callers, On(c, a)' PROVE Fresh(c)' /\ Half(c)'
      BY <3>1, <3>2, <3>5 DEF On, Fresh, Half, Writing, locals
    <3>. QED
      BY <3>2, <3>4, <3>5 DEF Consistent, On
  <2>. QED
    BY <2>2, <2>3
<1>3. ASSUME NEW c \in Callers, NEW r \in OrderRequests,
             NEW quote \in Prices \cup {NoPrice}, PlaceOrder(c, r, quote)
      PROVE  Consistent(a)'
  <2>1. /\ RowsStay(a) /\ OthersWait(c)
        /\ at[c] = "idle" /\ at'[c] = "balance" /\ ~Writing(c) /\ ~Writing(c)'
    BY <1>3 DEF PlaceOrder, RowsStay, OthersWait, TypeOK, Writing, tables
  <2>2. Fresh(c)'
    BY <2>1 DEF Fresh
  <2>. QED
    BY <2>1, <2>2, UnwrittenKeeps DEF On, OthersWait, Writing
<1>4. ASSUME Restart PROVE Consistent(a)'
  <2>1. \A c \in Callers : at'[c] = "idle"
    BY <1>4 DEF Restart
  <2>2. a \notin torn' => a \notin torn /\ Settled(a)
    BY <1>4 DEF Restart, Settled
  <2>3. Reconciled(a)'
    BY <1>4, <2>2 DEF Consistent, Reconciled, Restart, tables
  <2>. QED
    BY <2>1, <2>3 DEF Consistent
<1>5. ASSUME NEW b \in Agents, LookForBalance(b) PROVE Consistent(a)'
  BY <1>1, <1>5 DEF LookForBalance, history
<1>6. ASSUME NEW c \in Callers, NEW r \in OrderRequests,
             NEW quote \in Prices \cup {NoPrice}, RefuseOrder(c, r, quote)
      PROVE  Consistent(a)'
  BY <1>1, <1>6 DEF RefuseOrder
<1>7. ASSUME UNCHANGED vars PROVE Consistent(a)'
  BY <1>1, <1>7 DEF vars, history
<1>. QED
  BY <1>2, <1>3, <1>4, <1>5, <1>6, <1>7 DEF Around, Place

(* Callers go on taking turns, when nobody enters an account that is busy.  *)
LEMMA AloneKept ==
  ASSUME ~Overlap, TypeInv, Alone, Around \/ \E c \in Callers : FillOfTables(c)
  PROVE  Alone'
<1> USE DEF TypeInv, Alone
<1>1. ASSUME NEW c \in Callers, NEW r \in OrderRequests,
             NEW quote \in Prices \cup {NoPrice}, PlaceOrder(c, r, quote)
      PROVE  Alone'
  <2>1. r.agent \in Agents /\ ~Busy(r.agent)
    BY <1>1 DEF PlaceOrder, Enter, OrderRequests
  <2>2. order'[c].agent = r.agent
    BY <1>1 DEF PlaceOrder, TypeOK
  <2>3. \A d \in Callers \ {c} : at'[d] = at[d] /\ order'[d] = order[d]
    BY <1>1 DEF PlaceOrder, TypeOK
  <2>. QED
    BY <2>1, <2>2, <2>3 DEF Busy
<1>2. ASSUME NEW c \in Callers, FillOfTables(c) PROVE Alone'
  BY <1>2, Bystanders DEF OthersWait
<1>3. ASSUME Restart PROVE Alone'
  BY <1>3 DEF Restart
<1>4. ASSUME UNCHANGED locals PROVE Alone'
  BY <1>4 DEF locals
<1>5. ASSUME NEW c \in Callers, NEW r \in OrderRequests,
             NEW quote \in Prices \cup {NoPrice}, RefuseOrder(c, r, quote)
      PROVE  Alone'
  BY <1>4, <1>5 DEF RefuseOrder
<1>6. ASSUME NEW a \in Agents, LookForBalance(a) \/ InsertBalance(a) PROVE Alone'
  BY <1>4, <1>6 DEF LookForBalance, InsertBalance
<1>7. ASSUME UNCHANGED vars PROVE Alone'
  BY <1>4, <1>7 DEF vars
<1>. QED
  BY <1>1, <1>2, <1>3, <1>5, <1>6, <1>7 DEF Around, Place

(* initBalance inserts only where there is no row.                          *)
LEMMA OneRowKept ==
  ASSUME TypeInv, OneRow, Around \/ \E c \in Callers : FillOfTables(c)
  PROVE  OneRow'
<1> USE DEF TypeInv, OneRow
<1>1. ASSUME NEW a \in Agents, LookForBalance(a) PROVE OneRow'
  BY <1>1 DEF LookForBalance, TypeOK, tables
<1>2. ASSUME NEW a \in Agents, InsertBalance(a) PROVE OneRow'
  BY <1>2 DEF InsertBalance, TypeOK
<1>3. ASSUME NEW c \in Callers, Place(c) PROVE OneRow'
  BY <1>3 DEF Place, RefuseOrder, PlaceOrder, tables, memory
<1>4. ASSUME NEW c \in Callers, FillOfTables(c) PROVE OneRow'
  BY <1>4, Bystanders
<1>5. ASSUME Restart PROVE OneRow'
  BY <1>5 DEF Restart
<1>6. ASSUME UNCHANGED vars PROVE OneRow'
  BY <1>6 DEF vars, tables, memory
<1>. QED
  BY <1>1, <1>2, <1>3, <1>4, <1>5, <1>6 DEF Around

(* Callers use an account only once it is open.                             *)
LEMMA OpenFirstKept ==
  ASSUME TypeInv, OpenFirst, [Next]_vars
  PROVE  OpenFirst'
<1> USE DEF TypeInv, OpenFirst
<1>1. ASSUME NEW a \in Agents, LookForBalance(a) PROVE OpenFirst'
  BY <1>1 DEF LookForBalance, TypeOK, tables, locals
<1>2. ASSUME NEW a \in Agents, InsertBalance(a) PROVE OpenFirst'
  BY <1>2 DEF InsertBalance, TypeOK, locals
<1>3. ASSUME NEW c \in Callers, NEW r \in OrderRequests,
             NEW quote \in Prices \cup {NoPrice}, RefuseOrder(c, r, quote)
      PROVE OpenFirst'
  BY <1>3 DEF RefuseOrder, tables, memory, locals
<1>4. ASSUME NEW c \in Callers, NEW r \in OrderRequests,
             NEW quote \in Prices \cup {NoPrice}, PlaceOrder(c, r, quote)
      PROVE OpenFirst'
  <2>1. r.agent \in Agents /\ instance[r.agent] = "ready"
    BY <1>4 DEF PlaceOrder, Enter, OrderRequests
  <2>2. order'[c].agent = r.agent
    BY <1>4 DEF PlaceOrder, TypeOK
  <2>3. \A d \in Callers \ {c} : at'[d] = at[d] /\ order'[d] = order[d]
    BY <1>4 DEF PlaceOrder, TypeOK
  <2>. QED
    BY <1>4, <2>1, <2>2, <2>3 DEF PlaceOrder, tables, memory
<1>5. ASSUME NEW c \in Callers, Fill(c) PROVE OpenFirst'
  <2>1. FillOfTables(c)
    BY <1>5, FillOnOpenTables
  <2>. QED
    BY <2>1, Bystanders DEF OthersWait
<1>6. ASSUME Restart PROVE OpenFirst'
  BY <1>6 DEF Restart
<1>7. ASSUME UNCHANGED vars PROVE OpenFirst'
  BY <1>7 DEF vars, tables, memory, locals
<1>. QED
  BY <1>1, <1>2, <1>3, <1>4, <1>5, <1>6, <1>7 DEF Next, Place

(* When callers take turns on an account, LedgerInv holds throughout.       *)
THEOREM LedgerInvariant ==
  ASSUME ~Overlap
  PROVE  Spec => []LedgerInv
<1>1. Init => TypeInv /\ LedgerInv
  <2>1. Init => Alone /\ OneRow /\ OpenFirst
    BY DEF Init, Alone, OneRow, OpenFirst
  <2>. QED
    BY <2>1, InitTypeInv, InitConsistent DEF LedgerInv
<1>2. TypeInv /\ LedgerInv /\ [Next]_vars => (TypeInv /\ LedgerInv)'
  <2> SUFFICES ASSUME TypeInv, LedgerInv, [Next]_vars PROVE (TypeInv /\ LedgerInv)'
    OBVIOUS
  <2>1. Around \/ \E c \in Callers : FillOfTables(c)
    BY FillOnOpenTables DEF LedgerInv, Next, Around
  <2>2. Alone' /\ OneRow' /\ OpenFirst'
    BY <2>1, AloneKept, OneRowKept, OpenFirstKept DEF LedgerInv
  <2>3. ASSUME NEW a \in Agents PROVE Consistent(a)'
    BY <2>1, AroundKeeps, OwnKeeps, OthersKeep DEF LedgerInv
  <2>. QED
    BY <2>2, <2>3, NextTypeInv DEF LedgerInv
<1>. QED
  BY <1>1, <1>2, PTL DEF Spec

(* Then the balance row, the position rows and the order rows of an account *)
(* agree outside its fills, whatever the other accounts do, unless a        *)
(* restart cut a fill of that account short.                                *)
THEOREM AccountsConserved ==
  ASSUME ~Overlap
  PROVE  Spec => []Conserved
<1>1. TypeOK /\ LedgerInv => Conserved
  BY DEF TypeOK, LedgerInv, Consistent, Reconciled, Conserved, Agree
<1>. QED
  BY <1>1, LedgerInvariant, TypeCorrect, PTL

(* And the realized P&L of the order rows is the one their prices, fees and *)
(* the cost of the units still held account for.                            *)
THEOREM PnlExplained ==
  ASSUME ~Overlap
  PROVE  Spec => []RealizedExplained
<1>1. TypeOK /\ LedgerInv => RealizedExplained
  BY DEF TypeOK, LedgerInv, Consistent, Reconciled, RealizedExplained, Agree
<1>. QED
  BY <1>1, LedgerInvariant, TypeCorrect, PTL

(* No account is sold short.                                                *)
THEOREM NeverShort ==
  ASSUME ~Overlap
  PROVE  Spec => []LongOnly
<1>1. TypeOK /\ LedgerInv => LongOnly
  BY DEF TypeOK, LedgerInv, Consistent, Reconciled, LongOnly, Agree, Positions
<1>. QED
  BY <1>1, LedgerInvariant, TypeCorrect, PTL

(* The peak the drawdown check measures from is never written back lower.   *)
THEOREM PeakMonotone ==
  ASSUME ~Overlap
  PROVE  Spec => PeakNeverFalls
<1>1. TypeInv /\ LedgerInv /\ [Next]_vars =>
        [\A a \in opened : balance'[a].peak >= balance[a].peak]_vars
  <2> SUFFICES ASSUME TypeInv, LedgerInv, [Next]_vars, NEW a \in opened
               PROVE  balance'[a].peak >= balance[a].peak
    OBVIOUS
  <2>0. a \in Agents /\ balance[a].peak \in Int
    BY DEF TypeInv, TypeOK, Rows
  <2>1. ASSUME balance'[a] = balance[a] PROVE balance'[a].peak >= balance[a].peak
    BY <2>0, <2>1
  <2>2. ASSUME NEW b \in Agents, InsertBalance(b) PROVE balance'[a] = balance[a]
    BY <2>0, <2>2 DEF InsertBalance, LedgerInv, OneRow, TypeInv, TypeOK
  <2>3. ASSUME NEW c \in Callers, UpdateBalance(c)
        PROVE  balance'[a].peak >= balance[a].peak
    <3>1. CASE order[c].agent = a
      <4>1. balance'[a].peak = next[c].peak
        BY <2>0, <2>3, <3>1 DEF UpdateBalance, TypeInv, TypeOK
      <4>2. next[c].peak >= seen[c].peak /\ seen[c] = balance[a]
        BY <2>0, <2>3, <3>1 DEF UpdateBalance, LedgerInv, Consistent, Fresh
      <4>. QED
        BY <4>1, <4>2
    <3>2. CASE order[c].agent # a
      BY <2>0, <2>1, <2>3, <3>2 DEF UpdateBalance, TypeInv, TypeOK
    <3>. QED
      BY <3>1, <3>2
  <2>4. ASSUME \/ \E b \in Agents : LookForBalance(b)
               \/ \E c \in Callers : Place(c) \/ ReadBalance(c) \/ RejectOrder(c)
                    \/ ReadPosition(c) \/ UpsertPosition(c) \/ RecordOrder(c)
               \/ \E c \in Callers, quotes \in [Symbols -> Prices \cup {NoPrice}] :
                    CalculateEquity(c, quotes)
               \/ Restart
               \/ UNCHANGED vars
        PROVE  balance' = balance
    BY <2>4 DEF LookForBalance, Place, RefuseOrder, PlaceOrder, ReadBalance, RejectOrder,
                ReadPosition, UpsertPosition, RecordOrder, CalculateEquity, Restart,
                vars, tables
  <2>. QED
    BY <2>1, <2>2, <2>3, <2>4 DEF Next, Fill
<1>2. Spec => [](TypeInv /\ LedgerInv)
  <2>1. Spec => []TypeInv
    BY InitTypeInv, NextTypeInv, PTL DEF Spec
  <2>. QED
    BY <2>1, LedgerInvariant, PTL
<1>. QED
  BY <1>1, <1>2, PTL DEF Spec, PeakNeverFalls

-----------------------------------------------------------------------------
(* A fill that is recorded is a step of the ledger, on an account that no   *)
(* restart has torn; every other step leaves the ledger alone.              *)
LEMMA FillIsLedgerStep ==
  ASSUME TypeInv, LedgerInv, NEW c \in Callers, order[c].agent \notin torn, RecordOrder(c)
  PROVE  Account!LedgerNext
<1>0. /\ order[c] \in Orders
      /\ order[c].agent \in Agents /\ order[c].symbol \in Symbols
  BY DEF RecordOrder, TypeInv, BusyHasOrder, Orders
<1>. PICK o \in Orders : o = order[c]
  BY <1>0
<1>. PICK a \in Agents : a = o.agent
  BY <1>0
<1>. PICK s \in Symbols : s = o.symbol
  BY <1>0
<1>. PICK price \in Prices : price = o.price
  BY DEF Orders
<1>. PICK qty \in Quantities : qty = o.qty
  BY DEF Orders
<1>1. /\ o \in Orders /\ a \in Agents /\ s \in Symbols
      /\ o.price \in Prices /\ o.qty \in Quantities /\ o.side \in {"buy", "sell"}
      /\ o.price \in Nat /\ o.qty \in Nat
  BY AgentExchangeAssumption DEF RecordOrder, TypeInv, BusyHasOrder, Orders, Sides
<1>2. /\ BuyCost(o.price, o.qty) \in Nat
      /\ SellProceeds(o.price, o.qty) \in Nat
  BY <1>1, AmountsNat
<1>3. /\ flow[a] \in Int /\ StartingBalance \in Int
      /\ next[c].cash \in Nat
      /\ positions[a][s] \in Positions
      /\ book[a][s] \in Books
  BY <1>1, AgentExchangeAssumption DEF TypeInv, TypeOK, Results
<1>4. /\ Agree(Booked(book[a][s], o, next[c].pnl), positions[a][s])
      /\ next[c].cash = StartingBalance + flow[a] + CashMoved(o)
  BY <1>1 DEF LedgerInv, Consistent, Half, Writing, Awaited, RecordOrder
<1>5. /\ flow' = [flow EXCEPT ![a] = flow[a] + CashMoved(o)]
      /\ book' = [book EXCEPT ![a][s] = Booked(book[a][s], o, next[c].pnl)]
  BY <1>1 DEF RecordOrder
<1>6. /\ flow \in [Agents -> Int]
      /\ book \in [Agents -> [Symbols -> Books]]
  BY DEF TypeInv, TypeOK
<1>7. CASE o.side = "buy"
  <2>1. CashMoved(o) = 0 - BuyCost(price, qty)
    BY <1>7 DEF CashMoved
  <2>2. Booked(book[a][s], o, next[c].pnl).net = book[a][s].net + qty
    BY <1>7 DEF Booked
  <2>3. StartingBalance + flow[a] >= BuyCost(price, qty)
    BY <1>2, <1>3, <1>4, <2>1
  <2>4. [x \in Agents |-> StartingBalance + flow'[x]]
          = [[x \in Agents |-> StartingBalance + flow[x]] EXCEPT
               ![a] = @ - BuyCost(price, qty)]
    BY <1>1, <1>2, <1>3, <1>5, <1>6, <2>1
  <2>5. [x \in Agents |-> [t \in Symbols |-> book'[x][t].net]]
          = [[x \in Agents |-> [t \in Symbols |-> book[x][t].net]] EXCEPT
               ![a][s] = @ + qty]
    BY <1>1, <1>5, <1>6, <2>2
  <2>6. Account!Buy(a, s, price, qty)
    BY <1>1, <2>3, <2>4, <2>5 DEF Account!Buy, Account!BuyCost, Account!Notional,
       Account!CalculateFee, BuyCost, Notional, CalculateFee
  <2>. QED
    BY <2>6 DEF Account!LedgerNext
<1>8. CASE o.side = "sell"
  <2>1. CashMoved(o) = SellProceeds(price, qty)
    BY <1>8 DEF CashMoved
  <2>2. Booked(book[a][s], o, next[c].pnl).net = book[a][s].net - qty
    BY <1>8 DEF Booked
  <2>3. book[a][s].net >= qty
    BY <1>1, <1>3, <1>4, <2>2 DEF Agree, Positions, Books
  <2>4. [x \in Agents |-> StartingBalance + flow'[x]]
          = [[x \in Agents |-> StartingBalance + flow[x]] EXCEPT
               ![a] = @ + SellProceeds(price, qty)]
    BY <1>1, <1>2, <1>3, <1>5, <1>6, <2>1
  <2>5. [x \in Agents |-> [t \in Symbols |-> book'[x][t].net]]
          = [[x \in Agents |-> [t \in Symbols |-> book[x][t].net]] EXCEPT
               ![a][s] = @ - qty]
    BY <1>1, <1>5, <1>6, <2>2
  <2>6. Account!Sell(a, s, price, qty)
    BY <1>1, <2>3, <2>4, <2>5 DEF Account!Sell, Account!SellProceeds, Account!Notional,
       Account!CalculateFee, SellProceeds, Notional, CalculateFee
  <2>. QED
    BY <2>6 DEF Account!LedgerNext
<1>. QED
  BY <1>1, <1>7, <1>8

(* While callers take turns, the order rows of every account are a run of   *)
(* the atomic ledger, restarts included, up to the first fill of it that    *)
(* one cuts short.                                                          *)
THEOREM RefinesLedger ==
  ASSUME ~Overlap
  PROVE  Spec => ImplementsLedger
<1>1. Init => Account!LedgerInit
  BY AgentExchangeAssumption DEF Init, Account!LedgerInit, EmptyBook
<1>2. TypeInv /\ LedgerInv /\ [Next]_vars
        => [Account!LedgerNext \/ RecordsTorn]_(Account!ledgerVars)
  <2> SUFFICES ASSUME TypeInv, LedgerInv, [Next]_vars
               PROVE  [Account!LedgerNext \/ RecordsTorn]_(Account!ledgerVars)
    OBVIOUS
  <2>1. CASE \E c \in Callers : RecordOrder(c)
    <3>1. PICK c \in Callers : RecordOrder(c)
      BY <2>1
    <3>2. CASE order[c].agent \in torn
      BY <3>1, <3>2 DEF RecordsTorn, RecordOrder
    <3>3. CASE order[c].agent \notin torn
      BY <3>1, <3>3, FillIsLedgerStep
    <3>. QED
      BY <3>2, <3>3
  <2>2. CASE ~\E c \in Callers : RecordOrder(c)
    <3>1. UNCHANGED <<flow, book>>
      BY <2>2 DEF Next, LookForBalance, InsertBalance, Place, RefuseOrder, PlaceOrder,
         Fill, ReadBalance, RejectOrder, ReadPosition, UpsertPosition, CalculateEquity,
         UpdateBalance, Restart, vars, tables
    <3>. QED
      BY <3>1 DEF Account!ledgerVars
  <2>. QED
    BY <2>1, <2>2
<1>3. Spec => []TypeInv
  BY InitTypeInv, NextTypeInv, PTL DEF Spec
<1>. QED
  BY <1>1, <1>2, <1>3, LedgerInvariant, PTL DEF Spec, ImplementsLedger

-----------------------------------------------------------------------------
(* The admin reset.  Of its steps, those of a fill that finds no row write  *)
(* nothing, and those of the wipe write empty tables.                       *)
Wiping == DeleteOrders \/ DeletePositions \/ DeleteBalances \/ ResetFails

(* What a step of AdminReset is to the accounts.                            *)
LEMMA ResetSteps ==
  ASSUME [ResetNext]_allVars
  PROVE  Wiping \/ Around \/ \E c \in Callers : FillOfTables(c)
BY DEF ResetNext, Wiping, Trading, RestartAndForget, Around, allVars

(* The accounts keep their types through a reset.                           *)
LEMMA ResetTypeInv == TypeInv /\ [ResetNext]_allVars => TypeInv'
<1> SUFFICES ASSUME TypeInv, [ResetNext]_allVars PROVE TypeInv'
  OBVIOUS
<1>1. NoRow \in Rows /\ NoResult \in Results /\ NoPosition \in Positions /\ EmptyBook \in Books
  BY DEF NoRow, Rows, NoResult, Results, NoPosition, Positions, EmptyBook, Books
<1>2. CASE Wiping
  BY <1>1, <1>2 DEF Wiping, DeleteOrders, DeletePositions, DeleteBalances, ResetFails,
     TypeInv, TypeOK, BusyHasOrder, vars, tables, memory, locals, history
<1>3. CASE Around
  BY <1>3, NextTypeInv DEF Around, Next
<1>4. ASSUME NEW c \in Callers, ReadNoBalance(c) PROVE TypeInv'
  BY <1>1, <1>4 DEF ReadNoBalance, Return, TypeInv, TypeOK, BusyHasOrder, tables,
     memory, history
<1>5. ASSUME NEW c \in Callers, UpdateNoBalance(c) PROVE TypeInv'
  <2>1. order[c] \in Orders
    BY <1>5 DEF UpdateNoBalance, TypeInv, BusyHasOrder
  <2>2. priceCache' \in [Agents -> [Symbols -> Prices \cup {NoPrice}]]
    BY <1>5, <2>1 DEF UpdateNoBalance, TypeInv, TypeOK, Orders
  <2>. QED
    BY <1>5, <2>2 DEF UpdateNoBalance, TypeInv, TypeOK, BusyHasOrder, Steps, tables, history
<1>6. ASSUME NEW c \in Callers, FillOfTables(c), ~ReadNoBalance(c), ~UpdateNoBalance(c)
      PROVE  TypeInv'
  BY <1>6, NextTypeInv DEF FillOfTables, Fill, Next
<1>. QED
  BY <1>2, <1>3, <1>4, <1>5, <1>6, ResetSteps

(* Cash, positions and costs are never negative, whatever a reset empties   *)
(* under the fills that are under way.                                      *)
THEOREM ResetTypeCorrect == ResetSpec => []TypeOK
<1>1. ResetInit => TypeInv
  BY InitTypeInv DEF ResetInit
<1>2. TypeInv => TypeOK
  BY DEF TypeInv
<1>. QED
  BY <1>1, <1>2, ResetTypeInv, PTL DEF ResetSpec

-----------------------------------------------------------------------------
(* A row is inserted only where there is none, through a reset too.         *)
LEMMA ResetOneRow == TypeInv /\ OneRow /\ [ResetNext]_allVars => OneRow'
<1> SUFFICES ASSUME TypeInv, OneRow, [ResetNext]_allVars PROVE OneRow'
  OBVIOUS
<1>1. CASE Wiping
  BY <1>1 DEF Wiping, DeleteOrders, DeletePositions, DeleteBalances, ResetFails, OneRow,
     vars, tables, memory
<1>. QED
  BY <1>1, OneRowKept, ResetSteps

(* Whatever is under way, restarted or reset: the cash and the peak of an   *)
(* open account change by the last write of a fill of that account, and in  *)
(* no other step.                                                           *)
THEOREM OnlyFillsWrite == ResetSpec => OnlyFillsMoveCash
<1> DEFINE Written(a) == \E c \in Callers : at[c] = "update" /\ order[c].agent = a
<1>1. TypeInv /\ OneRow /\ [ResetNext]_allVars
        => [\A a \in opened : balance'[a] # balance[a] => Written(a)]_vars
  <2> SUFFICES ASSUME TypeInv, OneRow, [ResetNext]_allVars, NEW a \in opened,
                      balance'[a] # balance[a]
               PROVE  Written(a)
    OBVIOUS
  <2>0. a \in Agents
    BY DEF TypeInv, TypeOK
  <2>1. ASSUME NEW b \in Agents, InsertBalance(b) PROVE FALSE
    BY <2>0, <2>1 DEF InsertBalance, OneRow, TypeInv, TypeOK
  <2>2. ASSUME NEW c \in Callers, UpdateBalance(c) PROVE Written(a)
    BY <2>0, <2>2 DEF UpdateBalance, TypeInv, TypeOK
  <2>3. ASSUME Wiping PROVE FALSE
    BY <2>3 DEF Wiping, DeleteOrders, DeletePositions, DeleteBalances, ResetFails, vars,
       tables
  <2>4. ASSUME Around, \A b \in Agents : ~InsertBalance(b) PROVE FALSE
    BY <2>4 DEF Around, LookForBalance, Place, RefuseOrder, PlaceOrder, Restart, vars,
       tables
  <2>5. ASSUME NEW c \in Callers, FillOfTables(c), ~UpdateBalance(c) PROVE FALSE
    BY <2>5 DEF FillOfTables, ReadNoBalance, UpdateNoBalance, ReadBalance, RejectOrder,
       ReadPosition, UpsertPosition, CalculateEquity, RecordOrder, tables
  <2>. QED
    BY <2>1, <2>2, <2>3, <2>4, <2>5, ResetSteps
<1>2. ResetInit => TypeInv /\ OneRow
  BY InitTypeInv DEF ResetInit, Init, OneRow
<1>. QED
  BY <1>1, <1>2, ResetTypeInv, ResetOneRow, PTL DEF ResetSpec, OnlyFillsMoveCash

-----------------------------------------------------------------------------
(* The wipe of an account no order of which it meets.                       *)
LEMMA WipeEmpties ==
  ASSUME ResetInv, Wiping, NEW a \in Agents \ met'
  PROVE  IF wipe' = "idle" THEN Consistent(a)' ELSE Emptied(a)'
<1>1. a \in Agents \ met
  BY DEF Wiping, DeleteOrders, DeletePositions, DeleteBalances, ResetFails, ResetInv
<1>2. CASE DeleteOrders
  BY <1>2 DEF DeleteOrders, Emptied
<1>3. CASE DeletePositions
  BY <1>1, <1>3 DEF DeletePositions, Emptied, ResetInv
<1>4. CASE DeleteBalances
  <2>1. Emptied(a) /\ wipe = "balance" /\ a \notin InFlight
    BY <1>1, <1>4 DEF DeleteBalances, ResetInv
  <2>2. /\ opened' = {} /\ wipe' = "idle"
        /\ UNCHANGED <<positions, book, flow, at, order>>
    BY <1>4 DEF DeleteBalances, locals
  <2>3. Agree(EmptyBook, NoPosition)
    BY DEF Agree, EmptyBook, NoPosition
  <2>4. Reconciled(a)'
    BY <2>1, <2>2, <2>3 DEF Reconciled, Emptied
  <2>5. \A c \in Callers : ~(at'[c] # "idle" /\ order'[c].agent = a)
    BY <2>1, <2>2 DEF InFlight
  <2>. QED
    BY <2>2, <2>4, <2>5 DEF Consistent
<1>5. CASE ResetFails
  BY <1>5 DEF ResetFails
<1>. QED
  BY <1>2, <1>3, <1>4, <1>5 DEF Wiping

(* What is emptied stays empty while the wipe goes on: whoever could write  *)
(* to it is met.                                                            *)
LEMMA EmptiedKept ==
  ASSUME TypeInv, ResetInv, Trading, wipe # "idle", NEW a \in Agents \ met'
  PROVE  Emptied(a)'
<1>1. a \notin met /\ wipe' = wipe
  BY DEF Trading
<1>2. Emptied(a) /\ a \notin InFlight
  BY <1>1 DEF ResetInv
<1> DEFINE Same == positions'[a] = positions[a] /\ book'[a] = book[a] /\ flow'[a] = flow[a]
<1>3. Same
  <2>1. ASSUME NEW c \in Callers, UpsertPosition(c) \/ RecordOrder(c)
        PROVE  Same
    <3>1. order[c].agent # a
      BY <1>2, <2>1 DEF UpsertPosition, RecordOrder, InFlight
    <3>. QED
      BY <2>1, <3>1 DEF UpsertPosition, RecordOrder, TypeInv, TypeOK
  <2>2. ASSUME UNCHANGED <<positions, book, flow>> PROVE Same
    BY <2>2
  <2>. QED
    BY <2>1, <2>2 DEF Trading, LookForBalance, InsertBalance, Place, RefuseOrder,
       PlaceOrder,
       FillOfTables, ReadNoBalance, UpdateNoBalance, ReadBalance, UpdateBalance, RejectOrder,
       ReadPosition, CalculateEquity, tables
<1>. QED
  BY <1>1, <1>2, <1>3 DEF Emptied

(* No order is left out of met while the wipe goes on.                      *)
LEMMA MetKept ==
  ASSUME TypeInv, TypeInv', ResetInv, [ResetNext]_allVars
  PROVE  /\ wipe' \in {"idle", "positions", "balance"} /\ met' \subseteq Agents
         /\ wipe' # "idle" => InFlight' \subseteq met'
<1> USE DEF ResetInv
<1>1. InFlight \subseteq Agents /\ InFlight' \subseteq Agents
  BY DEF InFlight, TypeInv, BusyHasOrder, Orders
<1>2. CASE Wiping
  BY <1>1, <1>2 DEF Wiping, DeleteOrders, DeletePositions, DeleteBalances, ResetFails,
     InFlight,
     vars, locals
<1>3. CASE Trading
  BY <1>1, <1>3 DEF Trading
<1>4. CASE RestartAndForget
  BY <1>4 DEF RestartAndForget
<1>5. CASE UNCHANGED allVars
  BY <1>5 DEF allVars, resetVars, vars, locals, InFlight
<1>. QED
  BY <1>2, <1>3, <1>4, <1>5 DEF ResetNext, Wiping

(* Through resets, ResetInv holds when callers take turns.                  *)
THEOREM ResetInvariant ==
  ASSUME ~Overlap
  PROVE  ResetSpec => []ResetInv
<1>1. ResetInit => TypeInv /\ ResetInv
  BY InitTypeInv, InitConsistent DEF ResetInit, ResetInv, Init, Alone, OneRow
<1>2. TypeInv /\ ResetInv /\ [ResetNext]_allVars => (TypeInv /\ ResetInv)'
  <2> SUFFICES ASSUME TypeInv, ResetInv, [ResetNext]_allVars PROVE (TypeInv /\ ResetInv)'
    OBVIOUS
  <2>1. TypeInv' /\ OneRow'
    BY ResetTypeInv, ResetOneRow DEF ResetInv
  <2>2. Alone'
    <3>1. CASE Wiping
      BY <3>1 DEF Wiping, DeleteOrders, DeletePositions, DeleteBalances, ResetFails,
         ResetInv,
         Alone, vars, locals
    <3>. QED
      BY <3>1, AloneKept, ResetSteps DEF ResetInv
  <2>3. ASSUME NEW a \in Agents \ met'
        PROVE  IF wipe' = "idle" THEN Consistent(a)' ELSE Emptied(a)'
    <3>1. CASE Wiping
      BY <3>1, <2>3, WipeEmpties
    <3>2. CASE Trading
      <4>1. CASE wipe = "idle"
        <5>1. wipe' = "idle" /\ a \in Agents \ met
          BY <2>3, <3>2, <4>1 DEF Trading
        <5>2. Consistent(a)
          BY <4>1, <5>1 DEF ResetInv
        <5>3. Around \/ \E c \in Callers : FillOfTables(c)
          BY <3>2 DEF Trading, Around
        <5>. QED
          BY <5>1, <5>2, <5>3, AroundKeeps, OwnKeeps, OthersKeep DEF ResetInv
      <4>2. CASE wipe # "idle"
        BY <2>3, <3>2, <4>2, EmptiedKept DEF Trading
      <4>. QED
        BY <4>1, <4>2
    <3>3. CASE RestartAndForget
      <4>1. wipe' = "idle" /\ wipe = "idle" /\ a \in Agents \ met /\ Around
        BY <2>3, <3>3 DEF RestartAndForget, Around
      <4>. QED
        BY <4>1, AroundKeeps DEF ResetInv
    <3>4. CASE UNCHANGED allVars
      <4>1. wipe' = wipe /\ a \in Agents \ met /\ Around
        BY <2>3, <3>4 DEF allVars, resetVars, Around
      <4>2. Emptied(a) => Emptied(a)'
        BY <3>4 DEF allVars, resetVars, vars, tables, Emptied
      <4>. QED
        BY <4>1, <4>2, AroundKeeps DEF ResetInv
    <3>. QED
      BY <3>1, <3>2, <3>3, <3>4 DEF ResetNext, Wiping
  <2>. QED
    BY <2>1, <2>2, <2>3, MetKept DEF ResetInv
<1>. QED
  BY <1>1, <1>2, PTL DEF ResetSpec

(* After a reset an account that no order of it was met by starts over: it  *)
(* is empty until it is opened, and consistent from then on.                *)
THEOREM AccountsStartAgain ==
  ASSUME ~Overlap
  PROVE  ResetSpec => []AccountsStartOver
<1>1. ResetInv => AccountsStartOver
  BY DEF ResetInv, Consistent, Reconciled, AccountsStartOver
<1>. QED
  BY <1>1, ResetInvariant, PTL
=============================================================================
