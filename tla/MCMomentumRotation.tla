------------------------- MODULE MCMomentumRotation -------------------------
(* A small instance of MomentumRotation for TLC.                            *)
EXTENDS MomentumRotation

CONSTANTS s1, s2

Configured(type, topN, maxPositions, maxAllocation, maxTotal) ==
  [type |-> type, fast |-> 1, slow |-> 2, rsiPeriod |-> 1, crossWindow |-> 1,
   oversold |-> 30, overbought |-> 101, topN |-> topN, maxPositions |-> maxPositions,
   maxAllocationPct |-> maxAllocation, maxTotalAllocationPct |-> maxTotal]

\* Each indicator, and each limit that may be the one that binds.
AllTypes == {
  Configured("combined", 1, 1, 95, 95),
  Configured("sma-crossover", 2, 2, 60, 70),
  Configured("rsi", 2, 1, 50, 100)}

BothSymbols == <<s1, s2>>

\* Any three bars of s1, and three of s2 that can turn either way.
ThreeBars == {[s \in Symbols |-> IF s = s1 THEN b ELSE <<2, 1, 1>>] : b \in [1..3 -> Prices]}

\* Beyond the bars of the run: every series of up to five closes of three prices.
\* (ThemeProofs has it for every series: SmoothingIsTheClosedForm.)
ShortSeries == UNION {[1..n -> 1..3] : n \in 1..5}
ASSUME ShortSeriesAssumption ==
  \A values \in ShortSeries, period \in 1..3 : SmoothingIsRight(values, period)
=============================================================================
