------------------------------- MODULE Ledger -------------------------------
(****************************************************************************)
(* What an account of the program promises, whatever statements it is made  *)
(* of: a list of fills, each of them atomic, paid for by the cash the       *)
(* earlier fills left and, for a sale, covered by the units they bought.    *)
(* AgentExchange is shown to implement it by reading the account off the    *)
(* rows of agent_orders.                                                    *)
(****************************************************************************)
EXTENDS FillRules

CONSTANTS
  Accounts,          \* the accounts: one per agent
  Symbols,           \* what can be traded
  Prices,            \* the prices an order can fill at
  Quantities,        \* the quantities an order can carry
  StartingCash       \* what an account is opened with

VARIABLES
  cash,              \* [Accounts -> money]
  held               \* [Accounts -> [Symbols -> units]]

ledgerVars == <<cash, held>>

LedgerInit ==
  /\ cash = [a \in Accounts |-> StartingCash]
  /\ held = [a \in Accounts |-> [s \in Symbols |-> 0]]

(* A buy is paid for in full, or does not happen.                           *)
Buy(a, s, p, q) ==
  /\ cash[a] >= BuyCost(p, q)
  /\ cash' = [cash EXCEPT ![a] = @ - BuyCost(p, q)]
  /\ held' = [held EXCEPT ![a][s] = @ + q]

(* Long positions only: a sale closes units that are held.                  *)
Sell(a, s, p, q) ==
  /\ held[a][s] >= q
  /\ cash' = [cash EXCEPT ![a] = @ + SellProceeds(p, q)]
  /\ held' = [held EXCEPT ![a][s] = @ - q]

LedgerNext ==
  \E a \in Accounts, s \in Symbols, p \in Prices, q \in Quantities :
    Buy(a, s, p, q) \/ Sell(a, s, p, q)

LedgerSpec == LedgerInit /\ [][LedgerNext]_ledgerVars
=============================================================================
