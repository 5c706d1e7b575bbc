--------------------------- MODULE CongressFollower ---------------------------
(****************************************************************************)
(* CongressFollowerStrategy.evaluate for one theme (or one agent's row in   *)
(* themes), src/themes/strategies/congress-follower.ts, with the dedup      *)
(* table theme_signals of ThemeStore.                                       *)
(*                                                                          *)
(* Each database statement is an action, with the synchronous code after    *)
(* it: two evaluations of one theme (a timer tick while the last one still  *)
(* runs, a manual POST /themes/:id/evaluate, POST /agents/:id/evaluate)     *)
(* interleave there, and the process may die there.  placeOrder is one      *)
(* action: AgentExchange shows that its statements amount to an atomic fill *)
(* when no other call overlaps them, and a fill that overlaps another can   *)
(* only add to what goes wrong here.                                        *)
(****************************************************************************)
EXTENDS FillRules, FiniteSets, Functions, SequencesExt

CONSTANTS
  Evaluators,            \* the evaluations of the theme that may be in flight
  Symbols,
  Quotes,                \* the prices the price provider can answer
  Feed,                  \* the disclosures, oldest first
  FetchLimit,            \* how many of the newest the API returns
  StartingCash,
  MaxPositions,          \* ThemeConfig.maxPositions
  MaxAllocationPct,      \* ThemeConfig.maxAllocationPct
  MaxTotalAllocationPct, \* ThemeConfig.maxTotalAllocationPct
  MaxRestarts,           \* bound: restarts of the process in a behaviour
  Overlap                \* may two evaluations of the theme be in flight?

NoPrice == 0             \* priceAtSignal missing, or no quote

(* What fetchSignals makes of a disclosure.  hash is what hashSignal makes   *)
(* of it: two disclosures of one member, symbol, date and action share it.  *)
Disclosures == [hash : STRING, symbol : Symbols, action : {"buy", "sell"},
                price : Nat]

ASSUME CongressFollowerAssumption ==
  /\ IsFiniteSet(Symbols)
  /\ Feed \in Seq(Disclosures)
  /\ Quotes \subseteq Nat \ {0}
  /\ FetchLimit \in Nat \ {0}
  /\ StartingCash \in Nat
  /\ MaxPositions \in Nat
  /\ MaxAllocationPct \in 0..100
  /\ MaxTotalAllocationPct \in 0..100
  /\ MaxRestarts \in Nat
  /\ Overlap \in BOOLEAN

Hashes == {Feed[i].hash : i \in DOMAIN Feed}

VARIABLES
  published,   \* how much of Feed has been disclosed
  expired,     \* how much of it is older than maxSignalAgeDays
  processed,   \* theme_signals: the hashes recorded for this theme
  cash,        \* the account's cash
  pos,         \* the account's positions, by symbol
  at,          \* the step each evaluation is at, "idle" when it is not running
  todo,        \* the fetched disclosures it has not filtered yet
  fresh,       \* newSignals, less the ones it is done with
  known,       \* seenHashes
  fetched,     \* the hashes its last complete fetch returned
  equity,      \* the equity it sizes with
  funds,       \* the cash it sizes with
  rows,        \* the positions it checks against
  mirrored,    \* history: orders filled for each hash
  restarts     \* history: restarts so far

world == <<published, expired>>
account == <<cash, pos>>
batch == <<todo, fresh, known, fetched>>
sizing == <<equity, funds, rows>>
history == <<mirrored, restarts>>
vars == <<world, processed, account, at, batch, sizing, history>>

Steps == {"filter", "expire", "row", "value", "positions", "funds", "decide",
          "refreshPositions", "refreshRow", "refreshValue", "record"}

NoRows == [s \in Symbols |-> NoPosition]

TypeOK ==
  /\ published \in 0..Len(Feed)
  /\ expired \in 0..published
  /\ processed \subseteq Hashes
  /\ cash \in Nat
  /\ pos \in [Symbols -> Positions]
  /\ at \in [Evaluators -> Steps \cup {"idle"}]
  /\ todo \in [Evaluators -> Seq(Nat)]
  /\ fresh \in [Evaluators -> Seq(Nat)]
  /\ known \in [Evaluators -> SUBSET Hashes]
  /\ fetched \in [Evaluators -> SUBSET Hashes]
  /\ equity \in [Evaluators -> Nat]
  /\ funds \in [Evaluators -> Nat]
  /\ rows \in [Evaluators -> [Symbols -> Positions]]
  /\ mirrored \in [Hashes -> Nat]
  /\ restarts \in 0..MaxRestarts

Init ==
  /\ published = 0
  /\ expired = 0
  /\ processed = {}
  /\ cash = StartingCash
  /\ pos = NoRows
  /\ at = [e \in Evaluators |-> "idle"]
  /\ todo = [e \in Evaluators |-> <<>>]
  /\ fresh = [e \in Evaluators |-> <<>>]
  /\ known = [e \in Evaluators |-> {}]
  /\ fetched = [e \in Evaluators |-> {}]
  /\ equity = [e \in Evaluators |-> 0]
  /\ funds = [e \in Evaluators |-> 0]
  /\ rows = [e \in Evaluators |-> NoRows]
  /\ mirrored = [h \in Hashes |-> 0]
  /\ restarts = 0
-----------------------------------------------------------------------------
(* Disclosures appear, and grow older than maxSignalAgeDays in that order.  *)
Disclose ==
  /\ published < Len(Feed)
  /\ published' = published + 1
  /\ UNCHANGED <<expired, processed, account, at, batch, sizing, history>>

GrowOld ==
  /\ expired < published
  /\ expired' = expired + 1
  /\ UNCHANGED <<published, processed, account, at, batch, sizing, history>>
-----------------------------------------------------------------------------
Go(e, step) == at' = [at EXCEPT ![e] = step]

(* An evaluation ends: its locals go.                                       *)
Leave(e) ==
  /\ todo' = [todo EXCEPT ![e] = <<>>]
  /\ fresh' = [fresh EXCEPT ![e] = <<>>]
  /\ known' = [known EXCEPT ![e] = {}]
  /\ equity' = [equity EXCEPT ![e] = 0]
  /\ funds' = [funds EXCEPT ![e] = 0]
  /\ rows' = [rows EXCEPT ![e] = NoRows]
  /\ Go(e, "idle")

(* A statement of it fails: evaluate throws, and evaluateOnce or            *)
(* runAgentCycle turns that into an error of the result.                    *)
Abort(e) ==
  /\ Leave(e)
  /\ fetched' = [fetched EXCEPT ![e] = {}]

(* The newest disclosures, newest first, by their place in Feed.            *)
Newest ==
  LET oldest == IF published > FetchLimit THEN published - FetchLimit + 1 ELSE 1
  IN  Reverse([i \in 1..(published - oldest + 1) |-> oldest + i - 1])

(* fetchSignals.  A fetch that fails ends the evaluation with nothing done. *)
Fetch(e) ==
  /\ at[e] = "idle"
  /\ Overlap \/ \A d \in Evaluators : at[d] = "idle"
  /\ published > 0
  /\ todo' = [todo EXCEPT ![e] = Newest]
  /\ fetched' = [fetched EXCEPT ![e] = {Feed[i].hash : i \in ToSet(Newest)}]
  /\ Go(e, "filter")
  /\ UNCHANGED <<world, processed, account, fresh, known, sizing, history>>

First(e) == Feed[Head(todo[e])]

\* Faults: the table alone, or the cycle alone, is asked.
IsNewInTable(e) == First(e).hash \notin processed
IsNewInCycle(e) == First(e).hash \notin known[e]

(* The filter loop.  A hash met before in this cycle, or already in the     *)
(* table, is passed over; otherwise it is the evaluation's to decide.       *)
IsNew(e) == First(e).hash \notin known[e] /\ First(e).hash \notin processed

PassOver(e) ==
  /\ at[e] = "filter"
  /\ todo[e] # <<>>
  /\ ~IsNew(e)
  /\ todo' = [todo EXCEPT ![e] = Tail(@)]
  /\ UNCHANGED <<world, processed, account, at, fresh, known, fetched, sizing, history>>

TakeUp(e) ==
  /\ at[e] = "filter"
  /\ todo[e] # <<>>
  /\ IsNew(e)
  /\ known' = [known EXCEPT ![e] = @ \cup {First(e).hash}]
  /\ IF Head(todo[e]) <= expired
       THEN Go(e, "expire") /\ UNCHANGED <<todo, fresh>>
       ELSE /\ fresh' = [fresh EXCEPT ![e] = Append(@, Head(todo[e]))]
            /\ todo' = [todo EXCEPT ![e] = Tail(@)]
            /\ UNCHANGED at
  /\ UNCHANGED <<world, processed, account, fetched, sizing, history>>

(* recordSignal: an INSERT that UNIQUE (theme_id, signal_hash) may refuse.  *)
Refuses(hash) == hash \in processed

RecordExpired(e) ==
  /\ at[e] = "expire"
  /\ ~Refuses(First(e).hash)
  /\ processed' = processed \cup {First(e).hash}
  /\ todo' = [todo EXCEPT ![e] = Tail(@)]
  /\ Go(e, "filter")
  /\ UNCHANGED <<world, account, fresh, known, fetched, sizing, history>>

Filtered(e) ==
  /\ at[e] = "filter"
  /\ todo[e] = <<>>
  /\ IF fresh[e] = <<>>
       THEN Leave(e) /\ UNCHANGED fetched
       ELSE Go(e, "row") /\ UNCHANGED <<batch, sizing>>
  /\ UNCHANGED <<world, processed, account, history>>
-----------------------------------------------------------------------------
(* The market value of a position; without a quote it counts at cost.       *)
RowValue(row, quote) == IF quote # NoPrice THEN Scale * quote * row.qty ELSE row.cost

Value(quotes) == SumFunction([s \in Symbols |-> RowValue(pos[s], quotes[s])])

(* getBalance is two statements: the balance row, then the positions.       *)
ReadRow(e) ==
  /\ at[e] = "row"
  /\ equity' = [equity EXCEPT ![e] = cash]
  /\ Go(e, "value")
  /\ UNCHANGED <<world, processed, account, batch, funds, rows, history>>

ReadValue(e, quotes) ==
  /\ at[e] = "value"
  /\ equity' = [equity EXCEPT ![e] = @ + Value(quotes)]
  /\ Go(e, "positions")
  /\ UNCHANGED <<world, processed, account, batch, funds, rows, history>>

ReadPositions(e) ==
  /\ at[e] = "positions"
  /\ rows' = [rows EXCEPT ![e] = pos]
  /\ Go(e, "funds")
  /\ UNCHANGED <<world, processed, account, batch, equity, funds, history>>

ReadFunds(e) ==
  /\ at[e] = "funds"
  /\ funds' = [funds EXCEPT ![e] = cash]
  /\ Go(e, "decide")
  /\ UNCHANGED <<world, processed, account, batch, equity, rows, history>>
-----------------------------------------------------------------------------
Signal(e) == Feed[Head(fresh[e])]

Open(table) == {s \in Symbols : table[s].qty > 0}
Exposure(table) == SumFunction([s \in Symbols |-> table[s].cost])

Smaller(x, y) == IF x < y THEN x ELSE y

\* Fault: all the cash is spent on units.
BuyQuantityOfAllCash(e) ==
  Smaller((equity[e] * MaxAllocationPct) \div 100, funds[e]) \div (Scale * Signal(e).price)

(* executeBuy sizes with a share of equity, and leaves 0.5% of the cash for *)
(* the fee.                                                                 *)
BuyQuantity(e) ==
  Smaller((equity[e] * MaxAllocationPct) \div 100, (funds[e] * 995) \div 1000)
    \div (Scale * Signal(e).price)

\* Fault: the buy itself is not counted.
IsWithinLimitBefore(table, total, buyValue) ==
  /\ total > 0
  /\ 100 * buyValue <= total * MaxAllocationPct
  /\ 100 * Exposure(table) <= total * MaxTotalAllocationPct

(* isWithinAllocationLimit; its cent of tolerance is for rounding, which    *)
(* exact money does not need.                                               *)
IsWithinAllocationLimit(table, total, buyValue) ==
  /\ total > 0
  /\ 100 * buyValue <= total * MaxAllocationPct
  /\ 100 * (Exposure(table) + buyValue) <= total * MaxTotalAllocationPct

WantsBuy(e) ==
  LET s == Signal(e) IN
  /\ s.action = "buy"
  /\ s.price # NoPrice
  /\ BuyQuantity(e) > 0
  /\ s.symbol \in Open(rows[e]) \/ Cardinality(Open(rows[e])) < MaxPositions
  /\ IsWithinAllocationLimit(rows[e], equity[e], Notional(s.price, BuyQuantity(e)))

WantsSell(e) ==
  LET s == Signal(e) IN
  /\ s.action = "sell"
  /\ s.price # NoPrice
  /\ s.symbol \in Open(rows[e])

Quantity(e) ==
  IF Signal(e).action = "buy" THEN BuyQuantity(e) ELSE rows[e][Signal(e).symbol].qty

(* No price, no room, or nothing to sell.  (toSignals makes no "hold".)      *)
SkipSignal(e) ==
  /\ at[e] = "decide"
  /\ ~WantsBuy(e) /\ ~WantsSell(e)
  /\ Go(e, "record")
  /\ UNCHANGED <<world, processed, account, batch, sizing, history>>

(* placeOrder with a limit at the disclosure's price, filled there.         *)
Accepted(e) ==
  LET s == Signal(e) IN CanFill(s.action, s.price, Quantity(e), cash, pos[s.symbol])

FillSignal(e) ==
  LET s == Signal(e)  q == Quantity(e) IN
  /\ at[e] = "decide"
  /\ WantsBuy(e) \/ WantsSell(e)
  /\ Accepted(e)
  /\ cash' = NewCash(s.action, s.price, q, cash)
  /\ pos' = [pos EXCEPT ![s.symbol] = NewPosition(s.action, s.price, q, @)]
  /\ mirrored' = [mirrored EXCEPT ![s.hash] = @ + 1]
  /\ Go(e, "refreshPositions")
  /\ UNCHANGED <<world, processed, batch, sizing, restarts>>

FailSignal(e) ==
  /\ at[e] = "decide"
  /\ WantsBuy(e) \/ WantsSell(e)
  /\ ~Accepted(e)
  /\ Go(e, "record")
  /\ UNCHANGED <<world, processed, account, batch, sizing, history>>

\* Fault: the snapshot is the one the cycle started with.
KeepPositions(e) ==
  /\ at[e] = "refreshPositions"
  /\ Go(e, "refreshRow")
  /\ UNCHANGED <<world, processed, account, batch, sizing, history>>

RefreshPositions(e) ==
  /\ at[e] = "refreshPositions"
  /\ rows' = [rows EXCEPT ![e] = pos]
  /\ Go(e, "refreshRow")
  /\ UNCHANGED <<world, processed, account, batch, equity, funds, history>>

RefreshRow(e) ==
  /\ at[e] = "refreshRow"
  /\ equity' = [equity EXCEPT ![e] = cash]
  /\ funds' = [funds EXCEPT ![e] = cash]
  /\ Go(e, "refreshValue")
  /\ UNCHANGED <<world, processed, account, batch, rows, history>>

RefreshValue(e, quotes) ==
  /\ at[e] = "refreshValue"
  /\ equity' = [equity EXCEPT ![e] = @ + Value(quotes)]
  /\ Go(e, "record")
  /\ UNCHANGED <<world, processed, account, batch, funds, rows, history>>

NextSignal(e) ==
  IF Len(fresh[e]) = 1
    THEN Leave(e) /\ UNCHANGED fetched
    ELSE /\ fresh' = [fresh EXCEPT ![e] = Tail(@)]
         /\ Go(e, "decide")
         /\ UNCHANGED <<todo, known, fetched, sizing>>

\* Fault: the hash is recorded on a fill only.
ForgetProcessed(e) ==
  /\ at[e] = "record"
  /\ ~Refuses(Signal(e).hash)
  /\ processed' = IF mirrored[Signal(e).hash] > 0
                    THEN processed \cup {Signal(e).hash} ELSE processed
  /\ NextSignal(e)
  /\ UNCHANGED <<world, account, history>>

RecordProcessed(e) ==
  /\ at[e] = "record"
  /\ ~Refuses(Signal(e).hash)
  /\ processed' = processed \cup {Signal(e).hash}
  /\ NextSignal(e)
  /\ UNCHANGED <<world, account, history>>

(* The other evaluation recorded the hash first.                            *)
LoseRecord(e) ==
  /\ \/ at[e] = "expire" /\ Refuses(First(e).hash)
     \/ at[e] = "record" /\ Refuses(Signal(e).hash)
  /\ Abort(e)
  /\ UNCHANGED <<world, processed, account, history>>
-----------------------------------------------------------------------------
(* The process dies and comes back: evaluations are forgotten.              *)
Restart ==
  /\ restarts < MaxRestarts
  /\ restarts' = restarts + 1
  /\ at' = [e \in Evaluators |-> "idle"]
  /\ todo' = [e \in Evaluators |-> <<>>]
  /\ fresh' = [e \in Evaluators |-> <<>>]
  /\ known' = [e \in Evaluators |-> {}]
  /\ fetched' = [e \in Evaluators |-> {}]
  /\ equity' = [e \in Evaluators |-> 0]
  /\ funds' = [e \in Evaluators |-> 0]
  /\ rows' = [e \in Evaluators |-> NoRows]
  /\ UNCHANGED <<world, processed, account, mirrored>>

AllQuotes == [Symbols -> Quotes \cup {NoPrice}]

Continue(e) ==
  \/ PassOver(e)
  \/ TakeUp(e)
  \/ RecordExpired(e)
  \/ Filtered(e)
  \/ ReadRow(e)
  \/ \E quotes \in AllQuotes : ReadValue(e, quotes) \/ RefreshValue(e, quotes)
  \/ ReadPositions(e)
  \/ ReadFunds(e)
  \/ SkipSignal(e)
  \/ FillSignal(e)
  \/ FailSignal(e)
  \/ RefreshPositions(e)
  \/ RefreshRow(e)
  \/ RecordProcessed(e)
  \/ LoseRecord(e)

Next ==
  \/ Disclose
  \/ GrowOld
  \/ \E e \in Evaluators : Fetch(e) \/ Continue(e)
  \/ Restart

Spec == Init /\ [][Next]_vars

(* The interval timer keeps ticking and the API answers again and again; a  *)
(* started evaluation goes on.                                              *)
FairSpec ==
  /\ Spec
  /\ \A e \in Evaluators : WF_vars(Continue(e)) /\ SF_vars(Fetch(e))
-----------------------------------------------------------------------------
(* A process that dies between an order and its record repeats that order   *)
(* once: never more often than it died.                                     *)
RepeatsBounded == \A h \in Hashes : mirrored[h] <= 1 + restarts

(* Once a disclosure is recorded as processed, whether it was traded or     *)
(* skipped, no order is placed for it any more (recordProcessed).           *)
ProcessedIsFinal ==
  [][\A h \in processed : mirrored'[h] = mirrored[h]]_vars

(* An evaluation that runs to its end has decided every disclosure it       *)
(* fetched: none stays behind to be evaluated again in each cycle.          *)
NothingForgotten == \A e \in Evaluators : at[e] = "idle" => fetched[e] \subseteq processed

(* The number of open positions stays within maxPositions, though each buy  *)
(* is checked against a snapshot.                                           *)
PositionsCapped == TypeOK /\ Cardinality(Open(pos)) <= MaxPositions

(* A buy never takes the cost of all that is held past its share of equity: *)
(* the positions it is checked against are the ones there are.              *)
ExposureCapped ==
  [][\A e \in Evaluators :
       FillSignal(e) /\ Signal(e).action = "buy" =>
         100 * Exposure(pos') <= equity[e] * MaxTotalAllocationPct]_vars

(* The cash set aside leaves room for the fee: a buy sized by the cash on   *)
(* hand is not refused for want of cash.                                    *)
RoomForFee ==
  \A e \in Evaluators :
    at[e] = "decide" /\ funds[e] = cash /\ WantsBuy(e) => Accepted(e)

(* Every disclosure is decided in the end, whatever overlaps or dies.       *)
EveryDisclosureDecided ==
  \A i \in DOMAIN Feed : published >= i ~> Feed[i].hash \in processed
=============================================================================
