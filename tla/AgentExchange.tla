---------------------------- MODULE AgentExchange ----------------------------
(****************************************************************************)
(* The per-agent exchange, src/executor/agent-exchange.ts, statement by     *)
(* statement.                                                               *)
(*                                                                          *)
(* A fill is not a transaction.  fillOrder reads the balance row, reads the *)
(* position row, writes the position row, reads the positions for the       *)
(* equity, writes the balance row and inserts the order row, with an await  *)
(* before each of them.  On Postgres each await is a round trip, at which   *)
(* any other handler of the process may run: an action below is one         *)
(* statement together with the synchronous code that follows it.            *)
(****************************************************************************)
EXTENDS FillRules, FiniteSets, Functions

CONSTANTS
  Agents,            \* the agents, each with an account of its own
  Callers,           \* the handlers that may be inside placeOrder at a time
  Symbols,           \* what can be traded
  Prices,            \* the prices a quote or a limit can have
  Quantities,        \* the quantities an order can ask for, 0 included
  StartingBalance,   \* defaultStartingBalance, in money
  MaxOrders,         \* bound: calls of placeOrder in a behaviour
  MaxRestarts,       \* bound: restarts of the process in a behaviour
  Overlap            \* may two callers be inside placeOrder for one agent?

NoPrice == 0         \* getCurrentPrice found nothing, or no limitPrice given

ASSUME AgentExchangeAssumption ==
  /\ IsFiniteSet(Symbols)
  /\ Prices \subseteq Nat \ {0}
  /\ Quantities \subseteq Nat
  /\ StartingBalance \in Nat
  /\ MaxOrders \in Nat
  /\ MaxRestarts \in Nat
  /\ Overlap \in BOOLEAN

Sides == {"buy", "sell"}

(* What placeOrder is called with.  A "stop" order takes the same path as a *)
(* market order here, so it has no kind of its own.                         *)
OrderRequests == [agent : Agents, symbol : Symbols, side : Sides,
                  kind : {"market", "limit"}, qty : Quantities,
                  limit : Prices \cup {NoPrice}]

(* An order whose price has been resolved, on its way through fillOrder.    *)
Orders == [agent : Agents, symbol : Symbols, side : Sides,
           qty : Quantities \ {0}, price : Prices]
NoOrder == [agent |-> "none"]

(* The statement of fillOrder a caller executes next.                       *)
Steps == {"balance", "position", "upsert", "equity", "update", "record"}

VARIABLES
  opened,            \* the agents that have an agent_balance row
  balance,           \* agent_balance: cash and peak_equity
  positions,         \* agent_positions
  book,              \* agent_orders, summed up by agent and symbol
  flow,              \* agent_orders, the cash its rows moved, by agent
  instance,          \* AgentExchange.initialized, by agent
  priceCache,        \* AgentExchange.priceCache, by agent
  at,                \* the step each caller is at, "idle" outside placeOrder
  order,             \* the order each caller is filling
  seen,              \* the balance row it read
  next,              \* the cash, position and P&L it is going to write
  torn,              \* history: the agents a restart cut a fill short for
  calls,             \* history: calls of placeOrder so far
  restarts           \* history: restarts so far

tables == <<opened, balance, positions, book, flow>>
memory == <<instance, priceCache>>
locals == <<at, order, seen, next>>
history == <<torn, calls, restarts>>
vars == <<tables, memory, locals, history>>

Rows == [cash : Nat, peak : Int]
NoRow == [cash |-> 0, peak |-> 0]
Results == [cash : Nat, pos : Positions, peak : Int, pnl : Int]
NoResult == [cash |-> 0, pos |-> NoPosition, peak |-> 0, pnl |-> 0]
Books == [net : Int, fees : Int, pnl : Int, traded : Int]
EmptyBook == [net |-> 0, fees |-> 0, pnl |-> 0, traded |-> 0]

TypeOK ==
  /\ opened \subseteq Agents
  /\ balance \in [Agents -> Rows]
  /\ positions \in [Agents -> [Symbols -> Positions]]
  /\ book \in [Agents -> [Symbols -> Books]]
  /\ flow \in [Agents -> Int]
  /\ instance \in [Agents -> {"constructed", "absent", "ready"}]
  /\ priceCache \in [Agents -> [Symbols -> Prices \cup {NoPrice}]]
  /\ at \in [Callers -> Steps \cup {"idle"}]
  /\ order \in [Callers -> Orders \cup {NoOrder}]
  /\ seen \in [Callers -> Rows]
  /\ next \in [Callers -> Results]
  /\ torn \subseteq Agents
  /\ calls \in 0..MaxOrders
  /\ restarts \in 0..MaxRestarts

Init ==
  /\ opened = {}
  /\ balance = [a \in Agents |-> NoRow]
  /\ positions = [a \in Agents |-> [s \in Symbols |-> NoPosition]]
  /\ book = [a \in Agents |-> [s \in Symbols |-> EmptyBook]]
  /\ flow = [a \in Agents |-> 0]
  /\ instance = [a \in Agents |-> "constructed"]
  /\ priceCache = [a \in Agents |-> [s \in Symbols |-> NoPrice]]
  /\ at = [c \in Callers |-> "idle"]
  /\ order = [c \in Callers |-> NoOrder]
  /\ seen = [c \in Callers |-> NoRow]
  /\ next = [c \in Callers |-> NoResult]
  /\ torn = {}
  /\ calls = 0
  /\ restarts = 0
-----------------------------------------------------------------------------
(* initBalance, which the constructor starts: look for the row, and insert  *)
(* it only when there is none.  getExchange keeps one instance per agent,   *)
(* so the two statements of one agent meet no other initBalance of it.      *)

\* Fault: the row is inserted without a look.
LookPastBalance(a) ==
  /\ instance[a] = "constructed"
  /\ instance' = [instance EXCEPT ![a] = "absent"]
  /\ UNCHANGED <<tables, priceCache, locals, history>>

LookForBalance(a) ==
  /\ instance[a] = "constructed"
  /\ instance' = [instance EXCEPT ![a] = IF a \in opened THEN "ready" ELSE "absent"]
  /\ UNCHANGED <<tables, priceCache, locals, history>>

InsertBalance(a) ==
  /\ instance[a] = "absent"
  /\ opened' = opened \cup {a}
  /\ balance' = [balance EXCEPT ![a] = [cash |-> StartingBalance, peak |-> StartingBalance]]
  /\ instance' = [instance EXCEPT ![a] = "ready"]
  /\ UNCHANGED <<positions, book, flow, priceCache, locals, history>>
-----------------------------------------------------------------------------
Busy(a) == \E c \in Callers : at[c] # "idle" /\ order[c].agent = a

Refused(r) ==
  \/ r.qty <= 0
  \/ r.kind = "limit" /\ r.limit = NoPrice

(* resolvePrice: the provider's quote, then the limit, then the last fill   *)
(* price, then NoPrice for the exception.                                   *)
ResolvePrice(a, s, quote, limit) ==
  IF quote # NoPrice THEN quote
  ELSE IF limit # NoPrice THEN limit
  ELSE priceCache[a][s]

(* fillOrder fills a limit order at its limit, whatever the market.         *)
BasePrice(r, quote) ==
  IF r.kind = "limit" THEN r.limit
  ELSE ResolvePrice(r.agent, r.symbol, quote, r.limit)

Enter(r) ==
  /\ calls < MaxOrders
  /\ instance[r.agent] = "ready"
  /\ Overlap \/ ~Busy(r.agent)
  /\ calls' = calls + 1

(* A refused order, and one without any price, leave no trace.              *)
RefuseOrder(c, r, quote) ==
  /\ at[c] = "idle"
  /\ Enter(r)
  /\ Refused(r) \/ BasePrice(r, quote) = NoPrice
  /\ UNCHANGED <<tables, memory, locals, torn, restarts>>

PlaceOrder(c, r, quote) ==
  /\ at[c] = "idle"
  /\ Enter(r)
  /\ ~Refused(r)
  /\ BasePrice(r, quote) # NoPrice
  /\ at' = [at EXCEPT ![c] = "balance"]
  /\ order' = [order EXCEPT ![c] =
       [agent |-> r.agent, symbol |-> r.symbol, side |-> r.side,
        qty |-> r.qty, price |-> BasePrice(r, quote)]]
  /\ UNCHANGED <<tables, memory, seen, next, torn, restarts>>

ReadBalance(c) ==
  /\ at[c] = "balance"
  /\ seen' = [seen EXCEPT ![c] = balance[order[c].agent]]
  /\ at' = [at EXCEPT ![c] = "position"]
  /\ UNCHANGED <<tables, memory, order, next, history>>

(* The caller is done: placeOrder returns.                                  *)
Return(c) ==
  /\ at' = [at EXCEPT ![c] = "idle"]
  /\ order' = [order EXCEPT ![c] = NoOrder]
  /\ seen' = [seen EXCEPT ![c] = NoRow]
  /\ next' = [next EXCEPT ![c] = NoResult]

Held(c) == positions[order[c].agent][order[c].symbol]

Accepts(c) ==
  LET o == order[c] IN CanFill(o.side, o.price, o.qty, seen[c].cash, Held(c))

\* Fault: the rejection is never returned.
RejectSilently(c) ==
  /\ at[c] = "position"
  /\ ~Accepts(c)
  /\ UNCHANGED vars

(* Insufficient cash, or an insufficient position.                          *)
RejectOrder(c) ==
  /\ at[c] = "position"
  /\ ~Accepts(c)
  /\ Return(c)
  /\ UNCHANGED <<tables, memory, history>>

(* Every value that is written later is computed here, from the two rows.   *)
ReadPosition(c) ==
  /\ at[c] = "position"
  /\ Accepts(c)
  /\ LET o == order[c] IN
       next' = [next EXCEPT ![c] =
         [cash |-> NewCash(o.side, o.price, o.qty, seen[c].cash),
          pos  |-> NewPosition(o.side, o.price, o.qty, Held(c)),
          peak |-> seen[c].peak,
          pnl  |-> RealizedPnl(o.side, o.price, o.qty, Held(c))]]
  /\ at' = [at EXCEPT ![c] = "upsert"]
  /\ UNCHANGED <<tables, memory, order, seen, history>>

\* Fault: a sale that empties a position leaves its row.
UpsertNonEmpty(c) ==
  /\ at[c] = "upsert"
  /\ positions' = [positions EXCEPT ![order[c].agent][order[c].symbol] =
                     IF next[c].pos.qty = 0 THEN @ ELSE next[c].pos]
  /\ at' = [at EXCEPT ![c] = "equity"]
  /\ UNCHANGED <<opened, balance, book, flow, memory, order, seen, next, history>>

(* An absolute write: what was read is overwritten, not incremented.        *)
UpsertPosition(c) ==
  /\ at[c] = "upsert"
  /\ positions' = [positions EXCEPT ![order[c].agent][order[c].symbol] = next[c].pos]
  /\ at' = [at EXCEPT ![c] = "equity"]
  /\ UNCHANGED <<opened, balance, book, flow, memory, order, seen, next, history>>

(* The market value of a row; without a quote it counts at its entry price. *)
RowValue(pos, quote) ==
  IF quote # NoPrice THEN Scale * quote * pos.qty ELSE pos.cost

PositionsValue(a, quotes) ==
  SumFunction([s \in Symbols |-> RowValue(positions[a][s], quotes[s])])

\* Fault: the peak is the latest equity.
PeakOfLatest(peak, equity) == equity

PeakOf(peak, equity) == IF equity > peak THEN equity ELSE peak

(* quotes is what the price provider answers at this moment.                *)
CalculateEquity(c, quotes) ==
  LET value == PositionsValue(order[c].agent, quotes) IN
  /\ at[c] = "equity"
  /\ next' = [next EXCEPT ![c].peak = PeakOf(seen[c].peak, next[c].cash + value)]
  /\ at' = [at EXCEPT ![c] = "update"]
  /\ UNCHANGED <<tables, memory, order, seen, history>>

(* The same for the balance row; the statement's continuation remembers the *)
(* fill price.                                                              *)
UpdateBalance(c) ==
  /\ at[c] = "update"
  /\ priceCache' = [priceCache EXCEPT ![order[c].agent][order[c].symbol] = order[c].price]
  /\ balance' = [balance EXCEPT ![order[c].agent] =
                   [cash |-> next[c].cash, peak |-> next[c].peak]]
  /\ at' = [at EXCEPT ![c] = "record"]
  /\ UNCHANGED <<opened, positions, book, flow, instance, order, seen, next, history>>

(* The row an order adds to agent_orders, as the sums see it.  traded is    *)
(* the money for the units alone, without the fees.                         *)
Booked(b, o, pnl) ==
  LET fee == CalculateFee(o.price, o.qty)
      paid == Notional(o.price, o.qty) IN
  IF o.side = "buy"
    THEN [net |-> b.net + o.qty, fees |-> b.fees, pnl |-> b.pnl + pnl,
          traded |-> b.traded - paid]
    ELSE [net |-> b.net - o.qty, fees |-> b.fees + fee, pnl |-> b.pnl + pnl,
          traded |-> b.traded + paid]

CashMoved(o) ==
  IF o.side = "buy" THEN 0 - BuyCost(o.price, o.qty) ELSE SellProceeds(o.price, o.qty)

RecordOrder(c) ==
  LET o == order[c] IN
  /\ at[c] = "record"
  /\ book' = [book EXCEPT ![o.agent][o.symbol] = Booked(@, o, next[c].pnl)]
  /\ flow' = [flow EXCEPT ![o.agent] = @ + CashMoved(o)]
  /\ Return(c)
  /\ UNCHANGED <<opened, balance, positions, memory, history>>
-----------------------------------------------------------------------------
(* The process dies and is started again: rows stay, memory goes.  A fill   *)
(* between its first and its last write is cut short.                       *)
Writing(c) == at[c] \in {"equity", "update", "record"}

Restart ==
  /\ restarts < MaxRestarts
  /\ restarts' = restarts + 1
  /\ torn' = torn \cup {order[c].agent : c \in {d \in Callers : Writing(d)}}
  /\ instance' = [a \in Agents |-> "constructed"]
  /\ priceCache' = [a \in Agents |-> [s \in Symbols |-> NoPrice]]
  /\ at' = [c \in Callers |-> "idle"]
  /\ order' = [c \in Callers |-> NoOrder]
  /\ seen' = [c \in Callers |-> NoRow]
  /\ next' = [c \in Callers |-> NoResult]
  /\ UNCHANGED <<tables, calls>>

Place(c) ==
  \E r \in OrderRequests, quote \in Prices \cup {NoPrice} :
    RefuseOrder(c, r, quote) \/ PlaceOrder(c, r, quote)

Fill(c) ==
  \/ ReadBalance(c)
  \/ RejectOrder(c)
  \/ ReadPosition(c)
  \/ UpsertPosition(c)
  \/ \E quotes \in [Symbols -> Prices \cup {NoPrice}] : CalculateEquity(c, quotes)
  \/ UpdateBalance(c)
  \/ RecordOrder(c)

Next ==
  \/ \E a \in Agents : LookForBalance(a) \/ InsertBalance(a)
  \/ \E c \in Callers : Place(c) \/ Fill(c)
  \/ Restart

Spec == Init /\ [][Next]_vars

(* An event loop that runs, and a database that answers: a started          *)
(* initBalance and a started fill go on.  Nobody has to place an order.     *)
FairSpec ==
  /\ Spec
  /\ \A a \in Agents : WF_vars(LookForBalance(a) \/ InsertBalance(a))
  /\ \A c \in Callers : WF_vars(Fill(c))
-----------------------------------------------------------------------------
(* No fill of a's account is between its first and its last write.          *)
Settled(a) == \A c \in Callers : Writing(c) => order[c].agent # a

(* The three tables tell one story: outside a fill, the cash an account has *)
(* and the units it holds are those its order rows add up to.  Three awaits *)
(* separate the writes that have to agree (fillOrder, upsertPosition,       *)
(* updateBalance).                                                          *)
Conserved ==
  \A a \in opened \ torn : Settled(a) =>
    /\ balance[a].cash = StartingBalance + flow[a]
    /\ \A s \in Symbols : positions[a][s].qty = book[a][s].net

(* The realized P&L the order rows report is the money made on what was     *)
(* traded: what sales brought, less their fees, less the entry cost of the  *)
(* units sold (fillOrder's weighted average entry price, kept over partial  *)
(* sales).                                                                  *)
RealizedExplained ==
  \A a \in opened \ torn : Settled(a) =>
    \A s \in Symbols :
      book[a][s].pnl = book[a][s].traded - book[a][s].fees + positions[a][s].cost

(* Long positions only: once its fills are done, an agent's order rows have *)
(* not sold more units of a symbol than they bought ("Insufficient          *)
(* position" in fillOrder).                                                 *)
LongOnly ==
  \A a \in Agents \ torn :
    Settled(a) => \A s \in Symbols : book[a][s].net >= 0

(* peak_equity only rises: the drawdown check measures from it, and a peak  *)
(* that is written back lower disarms the check (fillOrder, updateBalance). *)
PeakNeverFalls ==
  [][\A a \in opened : balance'[a].peak >= balance[a].peak]_vars

(* A restart finds the account where it was: an existing balance row is     *)
(* changed by a fill and by nothing else (initBalance).                     *)
OnlyFillsMoveCash ==
  [][\A a \in opened :
       balance'[a] # balance[a] =>
         \E c \in Callers : at[c] = "update" /\ order[c].agent = a]_vars

(* What a fill is about to write still follows from the rows it read: no    *)
(* other caller wrote them between its reads and its writes.                *)
Fresh(c) ==
  LET o == order[c] IN
  /\ at[c] \in {"position", "upsert", "equity", "update"} => seen[c] = balance[o.agent]
  /\ at[c] \in {"upsert", "equity", "update", "record"} =>
       next[c].cash = NewCash(o.side, o.price, o.qty, seen[c].cash)
  /\ at[c] = "upsert" =>
       /\ Accepts(c)
       /\ next[c].pos = NewPosition(o.side, o.price, o.qty, Held(c))
       /\ next[c].pnl = RealizedPnl(o.side, o.price, o.qty, Held(c))
  /\ at[c] = "update" => next[c].peak >= seen[c].peak
  /\ at[c] = "record" => balance[o.agent].cash = next[c].cash

(* A position row and the order rows of its symbol agree, in units and in   *)
(* money.                                                                   *)
Agree(row, pos) ==
  /\ pos.qty = row.net
  /\ row.pnl = row.traded - row.fees + pos.cost

(* The order row caller c is going to insert, already in the sums.          *)
Awaited(c) == Booked(book[order[c].agent][order[c].symbol], order[c], next[c].pnl)

(* While a fill writes, the tables differ by exactly its own order row.     *)
Half(c) ==
  LET a == order[c].agent IN
  Writing(c) /\ a \notin torn =>
    /\ Agree(Awaited(c), positions[a][order[c].symbol])
    /\ \A s \in Symbols \ {order[c].symbol} : Agree(book[a][s], positions[a][s])
    /\ next[c].cash = StartingBalance + flow[a] + CashMoved(order[c])

(* Outside a fill they do not differ at all.                                *)
Reconciled(a) ==
  Settled(a) /\ a \notin torn =>
    /\ a \in opened => balance[a].cash = StartingBalance + flow[a]
    /\ a \notin opened => flow[a] = 0 /\ \A s \in Symbols : positions[a][s] = NoPosition
    /\ \A s \in Symbols : Agree(book[a][s], positions[a][s])

(* The tables of a and the callers under way on it fit together.            *)
Consistent(a) ==
  /\ \A c \in Callers : at[c] # "idle" /\ order[c].agent = a =>
       Fresh(c) /\ Half(c) /\ (at[c] # "balance" => a \in opened)
  /\ Reconciled(a)

(* Callers take turns on an account.                                        *)
Alone ==
  \A c, d \in Callers :
    at[c] # "idle" /\ at[d] # "idle" /\ order[c].agent = order[d].agent => c = d

(* A second balance row is never inserted.                                  *)
OneRow == \A a \in Agents : instance[a] = "absent" => a \notin opened

(* Callers use an account only once it is open.                             *)
OpenFirst ==
  /\ \A c \in Callers : at[c] # "idle" => order[c].agent \in opened
  /\ \A a \in Agents : instance[a] = "ready" => a \in opened

(* The inductive invariant behind Conserved, RealizedExplained, LongOnly,   *)
(* PeakNeverFalls and ImplementsLedger when callers take turns.             *)
LedgerInv == Alone /\ OneRow /\ OpenFirst /\ \A a \in Agents : Consistent(a)

(* The order rows of an agent are a history of atomic fills.                *)
Account == INSTANCE Ledger WITH
  Accounts <- Agents,
  StartingCash <- StartingBalance,
  cash <- [a \in Agents |-> StartingBalance + flow[a]],
  held <- [a \in Agents |-> [s \in Symbols |-> book[a][s].net]]

(* Every order row was affordable, and every sale covered, by the rows      *)
(* before it: fillOrder implements the atomic ledger, through restarts too, *)
(* but for the rows of an account for which one cut a fill short.           *)
RecordsTorn == \E c \in Callers : at[c] = "record" /\ order[c].agent \in torn

ImplementsLedger ==
  /\ Account!LedgerInit
  /\ [][Account!LedgerNext \/ RecordsTorn]_(Account!ledgerVars)

(* A caller gets an answer: no await of fillOrder waits on another caller.  *)
Answered == \A c \in Callers : at[c] # "idle" ~> at[c] = "idle"
=============================================================================
