----------------------------- MODULE Indicators -----------------------------
(****************************************************************************)
(* The technical indicators (src/research/indicators.ts) and the two        *)
(* screens that are built on them: MomentumScreenSource, and the copy of it *)
(* in MomentumRotationStrategy.                                             *)
(*                                                                          *)
(* A series is a sequence of closing prices, oldest first; prices are       *)
(* integers and averages are exact fractions, where the code has doubles.   *)
(****************************************************************************)
EXTENDS Integers, Sequences, FiniteSetsExt

(* A number: num / den.  Null is the code's null: not enough data.          *)
Q(n, d) == [num |-> n, den |-> d]
Null == Q(0, 0)
AtMost(a, b) == a.num * b.den <= b.num * a.den
Below(a, b) == a.num * b.den < b.num * a.den
Same(a, b) == IF Null \in {a, b} THEN a = b ELSE a.num * b.den = b.num * a.den

SumOf(values, from, to) == SumFunctionOnSet(values, from..to)
Prefix(values, n) == SubSeq(values, 1, n)

Sma(values, period) ==
  LET n == Len(values) IN
  IF n < period THEN Null ELSE Q(SumOf(values, n - period + 1, n), period)

\* Fault: the value that leaves the window is subtracted a bar late.
SmaSeriesLate(values, period) ==
  LET n == Len(values)
      running[i \in 0..n] ==
        IF i = 0 THEN 0
        ELSE running[i-1] + values[i]
               - (IF i > period + 1 THEN values[i - period - 1] ELSE 0)
  IN [i \in 1..n |-> IF i < period THEN Null ELSE Q(running[i], period)]

(* A running sum: a value enters, and the one that leaves is subtracted.    *)
SmaSeries(values, period) ==
  LET n == Len(values)
      running[i \in 0..n] ==
        IF i = 0 THEN 0
        ELSE running[i-1] + values[i] - (IF i > period THEN values[i - period] ELSE 0)
  IN [i \in 1..n |-> IF i < period THEN Null ELSE Q(running[i], period)]

(* One step of an exponential average with k = 2 / (period + 1).            *)
EmaStep(prev, value, period) ==
  Q(2 * value * prev.den + (period - 1) * prev.num, (period + 1) * prev.den)

Ema(values, period) ==
  LET n == Len(values)
      walk[i \in period..n] ==
        IF i = period THEN Q(SumOf(values, 1, period), period)
                      ELSE EmaStep(walk[i-1], values[i], period)
  IN IF n < period THEN Null ELSE walk[n]

EmaSeries(values, period) ==
  LET n == Len(values)
      series[i \in 0..n] ==
        IF i < period THEN Null
        ELSE IF series[i-1] = Null THEN Q(SumOf(values, i - period + 1, i), period)
        ELSE EmaStep(series[i-1], values[i], period)
  IN [i \in 1..n |-> series[i]]

Gains(values) ==
  [i \in 1..(Len(values) - 1) |-> IF values[i+1] > values[i] THEN values[i+1] - values[i] ELSE 0]
Losses(values) ==
  [i \in 1..(Len(values) - 1) |-> IF values[i+1] < values[i] THEN values[i] - values[i+1] ELSE 0]

(* Wilder's smoothing: both averages over one denominator.                  *)
Rsi(values, period) ==
  LET changes == Len(values) - 1
      first == [gain |-> SumOf(Gains(values), 1, period),
                loss |-> SumOf(Losses(values), 1, period),
                den  |-> period]
      walk[i \in period..changes] ==
        IF i = period THEN first
        ELSE LET prev == walk[i-1] IN
             [gain |-> prev.gain * (period - 1) + Gains(values)[i] * prev.den,
              loss |-> prev.loss * (period - 1) + Losses(values)[i] * prev.den,
              den  |-> prev.den * period]
      avg == walk[changes]
  IN IF changes < period THEN Null
     ELSE IF avg.loss = 0 THEN Q(100, 1)
     ELSE Q(100 * avg.gain, avg.gain + avg.loss)

RsiSeries(values, period) ==
  [i \in 1..Len(values) |-> IF i <= period THEN Null ELSE Rsi(Prefix(values, i), period)]
-----------------------------------------------------------------------------
SmaCrossover(values, fast, slow) ==
  LET before == Prefix(values, Len(values) - 1) IN
  IF Len(values) < slow + 1 \/ Null \in {Sma(before, fast), Sma(before, slow)} THEN "neutral"
  ELSE IF AtMost(Sma(before, fast), Sma(before, slow)) /\ Below(Sma(values, slow), Sma(values, fast))
    THEN "buy"
  ELSE IF AtMost(Sma(before, slow), Sma(before, fast)) /\ Below(Sma(values, fast), Sma(values, slow))
    THEN "sell"
  ELSE "neutral"

RsiSignal(values, period, oversold, overbought) ==
  LET r == Rsi(values, period) IN
  IF r = Null THEN "neutral"
  ELSE IF Below(r, Q(oversold, 1)) THEN "buy"
  ELSE IF Below(Q(overbought, 1), r) THEN "sell"
  ELSE "neutral"

\* Fault: the bars are searched from the oldest.
CombinedOfOldestCross(values, p) ==
  LET n == Len(values)
      crossAt(lag) == SmaCrossover(Prefix(values, n - lag), p.fast, p.slow)
      lags == {lag \in 0..(n - p.slow - 1) : lag <= p.crossWindow /\ crossAt(lag) # "neutral"}
  IN IF n < p.slow + 1 \/ n < p.rsiPeriod + 1 \/ lags = {} THEN "neutral"
     ELSE crossAt(Max(lags))

(* The latest cross of the last crossWindow + 1 bars, unless the RSI vetoes *)
(* it.                                                                      *)
CombinedSignal(values, p) ==
  LET n == Len(values)
      crossAt(lag) == SmaCrossover(Prefix(values, n - lag), p.fast, p.slow)
      lags == {lag \in 0..(n - p.slow - 1) : lag <= p.crossWindow /\ crossAt(lag) # "neutral"}
      cross == crossAt(Min(lags))
      r == Rsi(values, p.rsiPeriod)
  IN IF n < p.slow + 1 \/ n < p.rsiPeriod + 1 \/ lags = {} THEN "neutral"
     ELSE IF cross = "buy" /\ Below(r, Q(p.overbought, 1)) THEN "buy"
     ELSE IF cross = "sell" /\ Below(Q(p.oversold, 1), r) THEN "sell"
     ELSE "neutral"

(* An indicator's config; a type looks at its own parameters only.          *)
ConfiguredSignal(ind, closes) ==
  CASE ind.type = "sma-crossover" -> SmaCrossover(closes, ind.fast, ind.slow)
    [] ind.type = "rsi" -> RsiSignal(closes, ind.rsiPeriod, ind.oversold, ind.overbought)
    [] OTHER -> CombinedSignal(closes, ind)

(* screenUniverse of the strategy: what is not listed is "omitted".         *)
RotationSignal(ind, closes) ==
  LET signal == ConfiguredSignal(ind, closes) IN
  IF closes = <<>> \/ signal = "neutral" THEN "omitted" ELSE signal

(* computeSignal of the source: a combined signal is listed as a hold.      *)
ScreenSignal(ind, closes) ==
  LET signal == ConfiguredSignal(ind, closes) IN
  IF closes = <<>> THEN "omitted"
  ELSE IF signal # "neutral" THEN signal
  ELSE IF ind.type = "combined" THEN "hold" ELSE "omitted"
-----------------------------------------------------------------------------
(* The references: what the names stand for, without a loop.                *)
Pow(b, e) ==
  LET power[i \in 0..e] == IF i = 0 THEN 1 ELSE b * power[i-1]
  IN power[e]

(* The values after the seed in an exponential average, with their weights. *)
EmaTerms(values, n, period) ==
  [i \in (period + 1)..n |->
     values[i] * Pow(period - 1, n - i) * Pow(period + 1, i - period - 1)]

EmaReference(values, n, period) ==
  LET m == n - period IN
  IF m < 0 THEN Null
  ELSE Q(SumOf(values, 1, period) * Pow(period - 1, m)
           + 2 * period * SumFunction(EmaTerms(values, n, period)),
         period * Pow(period + 1, m))

(* The moves in Wilder's average of them, with their weights.               *)
SmoothedTerms(moves, changes, period) ==
  [i \in 1..changes |->
     moves[i] * (IF i <= period THEN Pow(period - 1, changes - period)
                 ELSE Pow(period - 1, changes - i) * Pow(period, i - period))]
Smoothed(moves, changes, period) == SumFunction(SmoothedTerms(moves, changes, period))

RsiReference(values, n, period) ==
  LET gain == Smoothed(Gains(values), n - 1, period)
      loss == Smoothed(Losses(values), n - 1, period)
  IN IF n <= period THEN Null
     ELSE IF loss = 0 THEN Q(100, 1)
     ELSE Q(100 * gain, gain + loss)

(* Every exponential average is its closed form, at every point of the      *)
(* series; the series functions and the single-value functions, which are   *)
(* written apart, agree (ema, emaSeries, rsi, rsiSeries).                   *)
SmoothingIsRight(values, period) ==
  \A n \in 1..Len(values) :
    LET prefix == Prefix(values, n) IN
    /\ Same(EmaSeries(values, period)[n], EmaReference(values, n, period))
    /\ Same(Ema(prefix, period), EmaReference(values, n, period))
    /\ Same(RsiSeries(values, period)[n], RsiReference(values, n, period))
    /\ Same(Rsi(prefix, period), RsiReference(values, n, period))

(* So do smaSeries and sma.                                                 *)
SeriesAreRight(values, period) ==
  /\ \A n \in 1..Len(values) :
       Same(SmaSeries(values, period)[n], Sma(Prefix(values, n), period))
  /\ SmoothingIsRight(values, period)

(* A combined signal, found up to crossWindow bars ago, is still backed by  *)
(* the trend: no later bar has taken the averages apart the other way.      *)
SignalIsBacked(values, p) ==
  /\ CombinedSignal(values, p) = "buy" => AtMost(Sma(values, p.slow), Sma(values, p.fast))
  /\ CombinedSignal(values, p) = "sell" => AtMost(Sma(values, p.fast), Sma(values, p.slow))

(* Strategy and source, two copies of one screen, want the same trades.     *)
ScreensAgree(ind, closes) ==
  \A side \in {"buy", "sell"} :
    RotationSignal(ind, closes) = side <=> ScreenSignal(ind, closes) = side
=============================================================================
