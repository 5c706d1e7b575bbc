------------------------------ MODULE FillRules ------------------------------
(****************************************************************************)
(* The arithmetic of a fill, shared by every simulated exchange of the      *)
(* program (SimulatedExchange, AgentExchange, ThemeSubAccount).             *)
(*                                                                          *)
(* Prices and quantities are integers.  Money is an integer count of        *)
(* 1/Scale of a price unit, so that a fee rate of FeeRate/Scale is exact:   *)
(* the code's doubles are abstracted to exact arithmetic.  No caller sets   *)
(* slippageRate (AgentManager.getExchange, createExecutor and ThemeRunner   *)
(* leave it at 0), and applySlippage returns the price unchanged at rate 0. *)
(****************************************************************************)
EXTENDS Integers

CONSTANTS
  Scale,     \* money per price unit: the fee rate is FeeRate / Scale
  FeeRate    \* AgentExchangeConfig.feeRate, in 1/Scale

ASSUME FillAssumption ==
  /\ Scale \in Nat \ {0}
  /\ FeeRate \in 0..Scale     \* the settings API admits 0 to 1 percent

(* A position row; quantity 0 stands for "no row", as upsertPosition deletes *)
(* the row at 0.  cost is avg_entry_price * quantity: the entry average is   *)
(* kept as the money it stands for.                                          *)
Positions == [qty : Nat, cost : Nat]
NoPosition == [qty |-> 0, cost |-> 0]

Notional(price, qty) == Scale * price * qty

CalculateFee(price, qty) == FeeRate * price * qty

\* What a buy takes from cash, and what a sale brings.
BuyCost(price, qty) == Notional(price, qty) + CalculateFee(price, qty)
SellProceeds(price, qty) == Notional(price, qty) - CalculateFee(price, qty)

(* The part of a position's cost that q of its units carry: avg_entry_price  *)
(* times q, rounded down where the code divides doubles.                     *)
CostShare(pos, q) == (pos.cost * q) \div pos.qty

\* Faults: a buy checked against the notional alone, a sale against any holding.
CanFillWithoutFee(side, price, q, cash, pos) ==
  IF side = "buy" THEN cash >= Notional(price, q) ELSE pos.qty >= q
CanFillAnyHolding(side, price, q, cash, pos) ==
  IF side = "buy" THEN cash >= BuyCost(price, q) ELSE pos.qty > 0

(* The checks that reject an order.                                          *)
CanFill(side, price, q, cash, pos) ==
  IF side = "buy" THEN cash >= BuyCost(price, q) ELSE pos.qty >= q

\* Fault: a sale brings its notional, the fee is not taken.
NewCashFeeFree(side, price, q, cash) ==
  IF side = "buy" THEN cash - BuyCost(price, q) ELSE cash + Notional(price, q)

(* The account after a fill of q units at price, from the cash and the       *)
(* position that were read: the values the later statements write.           *)
NewCash(side, price, q, cash) ==
  IF side = "buy" THEN cash - BuyCost(price, q) ELSE cash + SellProceeds(price, q)

NewPosition(side, price, q, pos) ==
  IF side = "buy"
    THEN [qty |-> pos.qty + q, cost |-> pos.cost + Notional(price, q)]
    ELSE [qty |-> pos.qty - q, cost |-> pos.cost - CostShare(pos, q)]

\* Fault: the fee is left out of the P&L.
RealizedPnlBeforeFee(side, price, q, pos) ==
  IF side = "buy" THEN 0 ELSE Notional(price, q) - CostShare(pos, q)

(* realizedPnl: a sale's proceeds less the entry cost of what was sold.      *)
RealizedPnl(side, price, q, pos) ==
  IF side = "buy" THEN 0 ELSE SellProceeds(price, q) - CostShare(pos, q)
=============================================================================
