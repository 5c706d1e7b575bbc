-------------------------- MODULE MomentumRotation --------------------------
(****************************************************************************)
(* One theme's momentum rotation (src/themes/strategies/                    *)
(* momentum-rotation.ts): screen the universe, sell what dropped out of the *)
(* top N, buy what is in it in equal parts, and record every trade under a  *)
(* hash that names the day.                                                 *)
(*                                                                          *)
(* Evaluations of the theme take turns; the process may end, and midnight   *)
(* may pass, between any two steps.  Reads that nobody can come between are *)
(* one step: the rows are this theme's own.  placeOrder is one step, as in  *)
(* CongressFollower.  Positions count at their entry price, as they do on a *)
(* theme's sub-account, which is built for one evaluation.                  *)
(****************************************************************************)
EXTENDS FillRules, Indicators, FiniteSets, SequencesExt

CONSTANTS
  Symbols,
  Universe,            \* params.universe: the symbols, in order
  Prices,              \* closes and quotes
  Configs,             \* the params and limits a theme may be configured with
  InitialBars,         \* the bars there are at first: series for each symbol
  MaxBars,             \* the bars the range of a request covers
  InitialCash,
  MaxDays, MaxCycles, MaxCrashes    \* bounds of a behaviour

NoPrice == 0           \* neither getQuote has an answer

ASSUME MomentumRotationAssumption ==
  /\ IsFiniteSet(Symbols)
  /\ Prices \subseteq Nat \ {0}
  /\ InitialBars \subseteq [Symbols -> Seq(Prices)] /\ MaxBars \in Nat
  /\ Universe \in Seq(Symbols)
  /\ \A c \in Configs :
       /\ c.topN \in Nat /\ c.maxPositions \in Nat \ {0}
       /\ c.maxAllocationPct \in 1..100 /\ c.maxTotalAllocationPct \in 1..100
       /\ c.fast \in Nat \ {0} /\ c.slow \in Nat \ {0} /\ c.crossWindow \in Nat
  /\ InitialCash \in Nat
  /\ MaxDays \in Nat \ {0} /\ MaxCycles \in Nat /\ MaxCrashes \in Nat

VARIABLES
  settings,            \* the theme's row, with its params
  bars,                \* what getBars answers
  cash, pos,           \* the sub-account
  processed,           \* theme_signals: <<symbol, side, day>>
  step,                \* the step of the evaluation
  remaining,           \* what the current loop has left: symbols, rows or signals
  selected,            \* the top N, each with its price
  equity,
  rows,                \* the positions as they were read
  order,               \* the order being placed, with the day of its hash
  clean, since,        \* history: no failure since the day the cycle began
  fills,               \* history: how often each hash was traded
  lost,                \* history: trades the process died before recording
  day, cycles, crashes

rotationVars == <<settings, bars, cash, pos, processed, step, remaining, selected,
                  equity, rows, order, clean, since, fills, lost, day, cycles, crashes>>
account == <<cash, pos>>
world == <<settings, bars, day, cycles, crashes>>
screened == <<selected, equity, rows>>
cycleHistory == <<clean, since, fills, lost>>

Steps == {"idle", "screen", "exits", "sell", "recordSale",
          "entries", "buy", "recordBuy"}
Sides == {"buy", "sell"}
NoOrder == [symbol |-> "", price |-> NoPrice, qty |-> 0, day |-> 0]
Hashes == Symbols \X Sides \X (1..MaxDays)

RotationTypeOK ==
  /\ settings \in Configs
  /\ bars \in [Symbols -> Seq(Prices)]
  /\ cash \in Nat
  /\ pos \in [Symbols -> Positions]
  /\ processed \subseteq Hashes
  /\ step \in Steps
  /\ \A i \in DOMAIN selected : selected[i].symbol \in Symbols
  /\ fills \in [Hashes -> Nat]
  /\ lost \in Nat

Idle ==
  /\ step' = "idle"
  /\ remaining' = <<>>
  /\ selected' = <<>>
  /\ equity' = 0
  /\ rows' = [s \in Symbols |-> NoPosition]
  /\ order' = NoOrder

RotationInit ==
  /\ settings \in Configs
  /\ bars \in InitialBars
  /\ cash = InitialCash
  /\ pos = [s \in Symbols |-> NoPosition]
  /\ processed = {}
  /\ step = "idle"
  /\ remaining = <<>>
  /\ selected = <<>>
  /\ equity = 0
  /\ rows = [s \in Symbols |-> NoPosition]
  /\ order = NoOrder
  /\ clean = TRUE
  /\ since = 1
  /\ fills = [h \in Hashes |-> 0]
  /\ lost = 0
  /\ day = 1
  /\ cycles = 0
  /\ crashes = 0
-----------------------------------------------------------------------------
EvaluateRotation ==
  /\ step = "idle"
  /\ cycles < MaxCycles
  /\ cycles' = cycles + 1
  /\ step' = "screen"
  /\ remaining' = Universe
  /\ clean' = TRUE
  /\ since' = day
  /\ UNCHANGED <<settings, bars, account, processed, screened, order, fills, lost,
                 day, crashes>>

(* screenUniverse, a request for bars at a time.  Of the signals only those *)
(* to buy decide anything, and of these the first topN.                     *)
ScreenSymbol ==
  LET s == Head(remaining)
      wanted == RotationSignal(settings, bars[s]) = "buy" /\ Len(selected) < settings.topN
  IN
  /\ step = "screen" /\ remaining # <<>>
  /\ remaining' = Tail(remaining)
  /\ selected' = IF ~wanted THEN selected
                 ELSE Append(selected, [symbol |-> s, price |-> bars[s][Len(bars[s])]])
  /\ UNCHANGED <<world, account, processed, step, equity, rows, order, cycleHistory>>

(* A symbol whose bars cannot be fetched is left out, like a neutral one.   *)
ScreenFails ==
  /\ step = "screen" /\ remaining # <<>>
  /\ remaining' = Tail(remaining)
  /\ clean' = FALSE
  /\ UNCHANGED <<world, account, processed, step, screened, order, since, fills, lost>>

Open(table) == {s \in Symbols : table[s].qty > 0}
Exposure(table) == SumFunction([s \in Symbols |-> table[s].cost])

SelectedSymbols == {selected[i].symbol : i \in DOMAIN selected}

DroppedOut == Open(pos) \ SelectedSymbols

(* The rows come in any order.                                              *)
ReadBook ==
  /\ step = "screen" /\ remaining = <<>>
  /\ equity' = cash + Exposure(pos)
  /\ rows' = pos
  /\ remaining' \in SetToSeqs(DroppedOut)
  /\ step' = "exits"
  /\ UNCHANGED <<world, account, processed, selected, order, cycleHistory>>
-----------------------------------------------------------------------------
\* Fault: the hash does not name the side.
HashOfSymbol(symbol, side) == <<symbol, "buy", day>>

Hash(symbol, side) == <<symbol, side, day>>

(* No price to sell at, or sold today already.                              *)
SkipSale(quote) ==
  /\ step = "exits" /\ remaining # <<>>
  /\ quote = NoPrice \/ Hash(Head(remaining), "sell") \in processed
  /\ clean' = (clean /\ quote # NoPrice)
  /\ remaining' = Tail(remaining)
  /\ UNCHANGED <<world, account, processed, step, screened, order, since, fills, lost>>

DecideSale(quote) ==
  LET s == Head(remaining) IN
  /\ step = "exits" /\ remaining # <<>>
  /\ quote # NoPrice /\ Hash(s, "sell") \notin processed
  /\ order' = [symbol |-> s, price |-> quote, qty |-> rows[s].qty, day |-> day]
  /\ remaining' = Tail(remaining)
  /\ step' = "sell"
  /\ UNCHANGED <<world, account, processed, screened, cycleHistory>>

Fill(side) ==
  /\ cash' = NewCash(side, order.price, order.qty, cash)
  /\ pos' = [pos EXCEPT ![order.symbol] = NewPosition(side, order.price, order.qty, @)]
  /\ fills' = [fills EXCEPT ![<<order.symbol, side, order.day>>] = @ + 1]

(* The rows of a theme are its own: what was read is still held.            *)
PlaceSale ==
  /\ step = "sell"
  /\ CanFill("sell", order.price, order.qty, cash, pos[order.symbol])
  /\ Fill("sell")
  /\ step' = "recordSale"
  /\ UNCHANGED <<world, processed, remaining, screened, order, clean, since, lost>>

RecordSale ==
  /\ step = "recordSale"
  /\ processed' = processed \cup {<<order.symbol, "sell", order.day>>}
  /\ order' = NoOrder
  /\ step' = "exits"
  /\ UNCHANGED <<world, account, remaining, screened, cycleHistory>>
-----------------------------------------------------------------------------
Budget ==
  LET equal == equity \div Len(selected)
      largest == (equity * settings.maxAllocationPct) \div 100
  IN IF equal < largest THEN equal ELSE largest

EndExits ==
  /\ step = "exits" /\ remaining = <<>>
  /\ step' = "entries"
  /\ remaining' = IF equity > 0 THEN selected ELSE <<>>
  /\ UNCHANGED <<world, account, processed, screened, order, cycleHistory>>

(* Whole units, where the code divides doubles.                             *)
BuyQuantity(signal) == Budget \div Notional(signal.price, 1)

IsWithinAllocationLimit(buyValue) ==
  /\ 100 * buyValue <= equity * settings.maxAllocationPct
  /\ 100 * (Exposure(pos) + buyValue) <= equity * settings.maxTotalAllocationPct

\* Fault: the count and the exposure are those the cycle began with.
WantsBuyOfSnapshot(signal) ==
  /\ rows[signal.symbol].qty = 0
  /\ Cardinality(Open(rows)) < settings.maxPositions
  /\ BuyQuantity(signal) > 0
  /\ 100 * (Exposure(rows) + Notional(signal.price, BuyQuantity(signal)))
       <= equity * settings.maxTotalAllocationPct
  /\ Hash(signal.symbol, "buy") \notin processed

(* Whether the symbol is held, the snapshot says; how many are held and     *)
(* what they cost is read again.                                            *)
WantsBuy(signal) ==
  /\ rows[signal.symbol].qty = 0
  /\ Cardinality(Open(pos)) < settings.maxPositions
  /\ BuyQuantity(signal) > 0
  /\ IsWithinAllocationLimit(Notional(signal.price, BuyQuantity(signal)))
  /\ Hash(signal.symbol, "buy") \notin processed

SkipEntry ==
  /\ step = "entries" /\ remaining # <<>>
  /\ ~WantsBuy(Head(remaining))
  /\ remaining' = Tail(remaining)
  /\ UNCHANGED <<world, account, processed, step, screened, order, cycleHistory>>

DecideEntry ==
  LET signal == Head(remaining) IN
  /\ step = "entries" /\ remaining # <<>>
  /\ WantsBuy(signal)
  /\ order' = [symbol |-> signal.symbol, price |-> signal.price,
               qty |-> BuyQuantity(signal), day |-> day]
  /\ remaining' = Tail(remaining)
  /\ step' = "buy"
  /\ UNCHANGED <<world, account, processed, screened, cycleHistory>>

PlaceBuy ==
  /\ step = "buy"
  /\ CanFill("buy", order.price, order.qty, cash, pos[order.symbol])
  /\ Fill("buy")
  /\ step' = "recordBuy"
  /\ UNCHANGED <<world, processed, remaining, screened, order, clean, since, lost>>

(* The budget leaves nothing for the fee: the order is rejected.            *)
BuyRejected ==
  /\ step = "buy"
  /\ ~CanFill("buy", order.price, order.qty, cash, pos[order.symbol])
  /\ order' = NoOrder
  /\ step' = "entries"
  /\ UNCHANGED <<world, account, processed, remaining, screened, cycleHistory>>

RecordBuy ==
  /\ step = "recordBuy"
  /\ processed' = processed \cup {<<order.symbol, "buy", order.day>>}
  /\ order' = NoOrder
  /\ step' = "entries"
  /\ UNCHANGED <<world, account, remaining, screened, cycleHistory>>

EndCycle ==
  /\ step = "entries" /\ remaining = <<>>
  /\ Idle
  /\ UNCHANGED <<world, account, processed, cycleHistory>>
-----------------------------------------------------------------------------
(* Midnight, UTC, with a new bar for each symbol.                           *)
NextDay(closes) ==
  /\ day < MaxDays
  /\ day' = day + 1
  /\ bars' = [s \in Symbols |->
       LET all == Append(bars[s], closes[s]) IN
       SubSeq(all, IF Len(all) > MaxBars THEN Len(all) - MaxBars + 1 ELSE 1, Len(all))]
  /\ UNCHANGED <<settings, account, processed, step, remaining, screened, order,
                 cycleHistory, cycles, crashes>>

Crash ==
  /\ crashes < MaxCrashes
  /\ step # "idle"
  /\ crashes' = crashes + 1
  /\ lost' = IF step \in {"recordSale", "recordBuy"} THEN lost + 1 ELSE lost
  /\ Idle
  /\ UNCHANGED <<settings, bars, account, processed, clean, since, fills, day, cycles>>

Rotate ==
  \/ EvaluateRotation
  \/ ScreenSymbol
  \/ ScreenFails
  \/ ReadBook
  \/ \E quote \in Prices \cup {NoPrice} : SkipSale(quote) \/ DecideSale(quote)
  \/ PlaceSale
  \/ RecordSale
  \/ EndExits
  \/ SkipEntry
  \/ DecideEntry
  \/ PlaceBuy
  \/ BuyRejected
  \/ RecordBuy
  \/ EndCycle

RotationNext ==
  \/ Rotate
  \/ \E closes \in [Symbols -> Prices] : NextDay(closes)
  \/ Crash

RotationSpec == RotationInit /\ [][RotationNext]_rotationVars
-----------------------------------------------------------------------------
(* The count of positions, the exposure after each buy (against the equity  *)
(* the cycle began with) and one trade for each symbol, side and day but    *)
(* for those a crash kept from being recorded.                              *)
WithinLimits ==
  /\ RotationTypeOK
  /\ Cardinality(Open(pos)) <= settings.maxPositions
  /\ step = "recordBuy" => 100 * Exposure(pos) <= equity * settings.maxTotalAllocationPct
  /\ \A h \in Hashes : fills[h] <= 1 + lost

(* When the exits are done and nothing failed, what is held is in the top N *)
(* or was sold before since the day the cycle began, and bought again: the  *)
(* hash of a sale is not in the way of the next day's.                      *)
BookFollowsScreen ==
  step \in {"entries", "buy", "recordBuy"} /\ clean =>
    \A s \in Open(pos) \ SelectedSymbols :
      \E d \in since..day : <<s, "sell", d>> \in processed

(* On the bars a cycle is about to screen, every indicator is what its name *)
(* stands for.                                                              *)
IndicatorsAreRight ==
  step = "screen" /\ remaining = Universe =>
    \A s \in Symbols : \A period \in 1..3 : SeriesAreRight(bars[s], period)

(* There too, a combined signal is backed by the trend, however long ago    *)
(* the cross was, and both copies of the screen want the same trades.       *)
SignalsAreBacked ==
  step = "screen" /\ remaining = Universe =>
    \A s \in Symbols :
      SignalIsBacked(bars[s], settings) /\ ScreensAgree(settings, bars[s])
=============================================================================
