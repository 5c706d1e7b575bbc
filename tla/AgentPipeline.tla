---------------------------- MODULE AgentPipeline ----------------------------
(****************************************************************************)
(* The agents, their routes and their trading cycles:                       *)
(* src/agent/agent-manager.ts, src/agent/trading-pipeline.ts,               *)
(* src/api/routes/agents.ts, and the strategy that asks an agent what to    *)
(* trade, src/themes/strategies/agent-driven.ts.                            *)
(*                                                                          *)
(* A runner is a call of runAgentCycle that may be under way: the one of    *)
(* the pipeline (runCycle or the evaluate route) and the one of the A2A     *)
(* coordinator.  An action is one await with what follows it; placeOrder,   *)
(* whose statements AgentExchange models, is one action here.               *)
(****************************************************************************)
EXTENDS FillRules, FiniteSets, Functions, SequencesExt

CONSTANTS
  Agents, Symbols,
  Prices, Quantities,      \* of orders
  Quotes,                  \* what the price cache may know when an account is valued
  Seeds,                   \* DEFAULT_AGENTS: the agents every boot registers
  Runners, Pipeline,       \* the runners, and which of them is the pipeline's
  StartingBalance,         \* config.simStartingBalance
  MaxAllocationPct,        \* AGENT_MAX_ALLOCATION_PCT
  MaxTotalAllocationPct,   \* AGENT_MAX_TOTAL_ALLOCATION_PCT
  MaxPositions,
  MaxSignals,              \* bound: signals a cycle of each runner records
  MaxRuns, MaxRequests, MaxRestarts   \* bounds of a behaviour

NoPrice == 0               \* no quote
Absent == 0                \* no suggestedQuantity
None == "none"             \* no agent, no strategy

ASSUME AgentPipelineAssumption ==
  /\ IsFiniteSet(Agents) /\ IsFiniteSet(Symbols)
  /\ Quotes \subseteq [Symbols -> Nat]
  /\ Prices \subseteq Nat \ {0} /\ Quantities \subseteq Nat \ {0}
  /\ Seeds \subseteq Agents /\ None \notin Agents
  /\ Pipeline \in Runners
  /\ StartingBalance \in Nat
  /\ MaxAllocationPct \in 1..100 /\ MaxTotalAllocationPct \in 1..100
  /\ MaxPositions \in Nat /\ MaxSignals \in [Runners -> Nat]
  /\ MaxRuns \in Nat /\ MaxRequests \in Nat /\ MaxRestarts \in Nat

VARIABLES
  agents,                  \* the table of agents
  themeRows,               \* the agents that have a row in themes
  cash, pos, orders,       \* the accounts, with the filled rows of agent_orders
  run,                     \* where each runner is
  queue,                   \* the agents runCycle has still to run
  extra,                   \* history: buys the limits could not see
  runs, requests, restarts

accounts == <<cash, pos, orders>>
tables == <<agents, themeRows, accounts>>
counters == <<runs, requests, restarts>>
pipelineVars == <<tables, run, queue, extra, counters>>

Sides == {"buy", "sell"}
Strategies == {"agent-driven", "unregistered"}
Steps == {"idle", "theme", "insert", "equity", "ask", "next", "record", "place",
          "threw"}
Orders == [symbol : Symbols, side : Sides, qty : Nat \ {0}, price : Prices]
NoOrder == [symbol |-> None]
NoRun == [at |-> "idle", agent |-> None, equity |-> 0, done |-> {},
          fills |-> 0, bought |-> FALSE, order |-> NoOrder]

TypeOK ==
  /\ agents \in [Agents -> [registered : BOOLEAN, active : BOOLEAN,
                            strategy : Strategies \cup {None}]]
  /\ themeRows \subseteq Agents
  /\ cash \in [Agents -> Nat]
  /\ pos \in [Agents -> [Symbols -> Positions]]
  /\ \A a \in Agents : \A i \in DOMAIN orders[a] : orders[a][i] \in Orders
  /\ \A r \in Runners :
       /\ run[r].at \in Steps
       /\ run[r].agent \in Agents \cup {None}
       /\ run[r].order \in Orders \cup {NoOrder}
  /\ extra \in [Agents -> Nat]

(* seedDefaults.  The agents it registers run momentum-rotation and         *)
(* congress-follower until PATCH sets another strategy; these have been set *)
(* to the one modelled here, and the rows that are there are kept.          *)
Seeded(table) ==
  [a \in Agents |-> IF a \in Seeds /\ ~table[a].registered
                      THEN [registered |-> TRUE, active |-> TRUE, strategy |-> "agent-driven"]
                      ELSE table[a]]

Unregistered == [registered |-> FALSE, active |-> FALSE, strategy |-> None]

(* getExchange opens an account with the default balance, whatever          *)
(* starting_balance the agent was registered with.                          *)
PipelineInit ==
  /\ agents = Seeded([a \in Agents |-> Unregistered])
  /\ themeRows = {}
  /\ cash = [a \in Agents |-> StartingBalance]
  /\ pos = [a \in Agents |-> [s \in Symbols |-> NoPosition]]
  /\ orders = [a \in Agents |-> <<>>]
  /\ run = [r \in Runners |-> NoRun]
  /\ queue = <<>>
  /\ extra = [a \in Agents |-> 0]
  /\ runs = 0 /\ requests = 0 /\ restarts = 0
-----------------------------------------------------------------------------
Open(a) == {s \in Symbols : pos[a][s].qty > 0}
Exposure(a) == SumFunction([s \in Symbols |-> pos[a][s].cost])

(* getBalance: what a symbol without a quote is worth is what it cost.      *)
Equity(a, quotes) ==
  cash[a] + SumFunction([s \in Symbols |->
    IF quotes[s] = NoPrice THEN pos[a][s].cost ELSE Notional(quotes[s], pos[a][s].qty)])

Fills(a, o) == CanFill(o.side, o.price, o.qty, cash[a], pos[a][o.symbol])

(* placeOrder: a filled order, or a rejection that leaves no row.           *)
PlaceOrder(a, o) ==
  IF Fills(a, o)
    THEN /\ cash' = [cash EXCEPT ![a] = NewCash(o.side, o.price, o.qty, @)]
         /\ pos' = [pos EXCEPT ![a][o.symbol] = NewPosition(o.side, o.price, o.qty, @)]
         /\ orders' = [orders EXCEPT ![a] = Append(@, o)]
    ELSE UNCHANGED accounts

\* One more buy that the limits of a cycle do not know of.
Unseen(a, o, hidden) ==
  extra' = [extra EXCEPT ![a] = @ + (IF o.side = "buy" /\ hidden /\ Fills(a, o) THEN 1 ELSE 0)]
-----------------------------------------------------------------------------
(* The routes.  POST /agents: a name is registered once.                    *)
Register(a, strategy) ==
  /\ requests < MaxRequests
  /\ ~agents[a].registered
  /\ agents' = [agents EXCEPT ![a] = [registered |-> TRUE, active |-> TRUE, strategy |-> strategy]]
  /\ requests' = requests + 1
  /\ UNCHANGED <<themeRows, accounts, run, queue, extra, runs, restarts>>

(* PATCH /agents/:id, one UPDATE for each field, with an await before each. *)
SetStrategy(a, strategy) ==
  /\ requests < MaxRequests
  /\ agents[a].registered /\ agents[a].strategy # strategy
  /\ agents' = [agents EXCEPT ![a].strategy = strategy]
  /\ requests' = requests + 1
  /\ UNCHANGED <<themeRows, accounts, run, queue, extra, runs, restarts>>

(* DELETE does no more than this.                                           *)
SetActive(a, active) ==
  /\ requests < MaxRequests
  /\ agents[a].registered /\ agents[a].active # active
  /\ agents' = [agents EXCEPT ![a].active = active]
  /\ requests' = requests + 1
  /\ UNCHANGED <<themeRows, accounts, run, queue, extra, runs, restarts>>

(* POST /agents/:id/trade goes straight to the exchange, no limit is looked *)
(* at, and an inactive agent trades too.                                    *)
Trade(a, o) ==
  /\ requests < MaxRequests
  /\ agents[a].registered
  /\ requests' = requests + 1
  /\ PlaceOrder(a, o)
  /\ Unseen(a, o, TRUE)
  /\ UNCHANGED <<agents, themeRows, run, queue, runs, restarts>>
-----------------------------------------------------------------------------
Go(r, step) == run' = [run EXCEPT ![r].at = step]

(* runAgentCycle begins, or returns at once for a strategy it does not know.*)
Begin(r, a, strategy) ==
  run' = [run EXCEPT ![r] =
    IF strategy = "agent-driven" THEN [NoRun EXCEPT !.at = "theme", !.agent = a] ELSE NoRun]

Resting(r) == run[r].at \in {"idle", "threw"}

Runnable == {a \in Agents : agents[a].registered /\ agents[a].active /\ agents[a].strategy # None}

Job(a) == [agent |-> a, strategy |-> agents[a].strategy]

(* runCycle lists the agents once, in the order they were created (any);    *)
(* the evaluate route is a list of one.                                     *)
StartPipeline ==
  /\ queue = <<>> /\ Resting(Pipeline)
  /\ runs < MaxRuns
  /\ runs' = runs + 1
  /\ \/ \E list \in SetToSeqs(Runnable) : queue' = [i \in DOMAIN list |-> Job(list[i])]
     \/ \E a \in Runnable : queue' = <<Job(a)>>
  /\ queue' # <<>>
  /\ run' = [run EXCEPT ![Pipeline] = NoRun]
  /\ UNCHANGED <<tables, extra, requests, restarts>>

(* An exception is caught, and the next agent is run.                       *)
RunNext ==
  /\ queue # <<>> /\ Resting(Pipeline)
  /\ Begin(Pipeline, Head(queue).agent, Head(queue).strategy)
  /\ queue' = Tail(queue)
  /\ UNCHANGED <<tables, extra, counters>>

LookForTheme(r) ==
  /\ run[r].at = "theme"
  /\ Go(r, IF run[r].agent \in themeRows THEN "equity" ELSE "insert")
  /\ UNCHANGED <<tables, queue, extra, counters>>

InsertTheme(r) ==
  /\ run[r].at = "insert"
  /\ IF run[r].agent \in themeRows
       THEN run' = [run EXCEPT ![r] = [NoRun EXCEPT !.at = "threw"]]
       ELSE Go(r, "equity")
  /\ themeRows' = themeRows \cup {run[r].agent}
  /\ UNCHANGED <<agents, accounts, queue, extra, counters>>

ReadEquity(r, quotes) ==
  /\ run[r].at = "equity"
  /\ run' = [run EXCEPT ![r].at = "ask", ![r].equity = Equity(run[r].agent, quotes)]
  /\ UNCHANGED <<tables, queue, extra, counters>>

(* fetchSignals: the agent answers with signals, each of which is looked at *)
(* when its turn comes, or with none, or not at all.                        *)
AgentAnswers(r) ==
  /\ run[r].at = "ask"
  /\ Go(r, "next")
  /\ UNCHANGED <<tables, queue, extra, counters>>

(* The cycle returns.  Before it does it writes a row of portfolio history, *)
(* which none of this reads.                                                *)
AgentFails(r) ==
  /\ run[r].at = "ask"
  /\ run' = [run EXCEPT ![r] = NoRun]
  /\ UNCHANGED <<tables, queue, extra, counters>>
-----------------------------------------------------------------------------
Signals == [symbol : Symbols, action : Sides \cup {"hold"}, qty : Quantities \cup {Absent}]

\* In whole units, where the code divides doubles.
SignalQuantity(r, signal, price) ==
  IF signal.qty # Absent THEN signal.qty
  ELSE (run[r].equity * MaxAllocationPct) \div (100 * Notional(price, 1))

IsWithinAllocationLimit(a, equity, buyValue) ==
  /\ equity > 0
  /\ 100 * buyValue <= equity * MaxAllocationPct
  /\ 100 * (Exposure(a) + buyValue) <= equity * MaxTotalAllocationPct

\* Fault: the exposure there is already is left out.
BuyAllowedAlone(r, symbol, qty, price) ==
  LET a == run[r].agent IN
  /\ symbol \in Open(a) \/ Cardinality(Open(a)) < MaxPositions
  /\ 100 * Notional(price, qty) <= run[r].equity * MaxAllocationPct

BuyAllowed(r, symbol, qty, price) ==
  LET a == run[r].agent IN
  /\ symbol \in Open(a) \/ Cardinality(Open(a)) < MaxPositions
  /\ IsWithinAllocationLimit(a, run[r].equity, Notional(price, qty))

Wanted(r, signal, price) ==
  /\ signal.action # "hold"
  /\ price # NoPrice
  /\ SignalQuantity(r, signal, price) > 0
  /\ signal.action = "buy" =>
       BuyAllowed(r, signal.symbol, SignalQuantity(r, signal, price), price)

(* A signal that is skipped changes nothing.                                *)
DecideSignal(r, signal, price) ==
  /\ run[r].at = "next"
  /\ Cardinality(run[r].done \cup {<<signal.symbol, signal.action>>}) <= MaxSignals[r]
  /\ Wanted(r, signal, price)
  /\ run' = [run EXCEPT ![r].at = "record", ![r].bought = FALSE,
       ![r].order = [symbol |-> signal.symbol, side |-> signal.action,
                     qty |-> SignalQuantity(r, signal, price), price |-> price]]
  /\ UNCHANGED <<tables, queue, extra, counters>>

(* The hash names the symbol, the action and the time of the cycle: a       *)
(* second signal of the kind throws, which ends the cycle where it is.      *)
RecordSignal(r) ==
  LET key == <<run[r].order.symbol, run[r].order.side>> IN
  /\ run[r].at = "record"
  /\ IF key \in run[r].done
       THEN run' = [run EXCEPT ![r] = NoRun]
       ELSE run' = [run EXCEPT ![r].at = "place", ![r].done = @ \cup {key}]
  /\ UNCHANGED <<agents, themeRows, accounts, queue, extra, counters>>

(* A limit order fills at its limit.                                        *)
PlaceSignal(r) ==
  LET a == run[r].agent
      o == run[r].order
      filled == Fills(a, o)
  IN
  /\ run[r].at = "place"
  /\ PlaceOrder(a, o)
  /\ Unseen(a, o, \E other \in Runners \ {r} : run[other].agent = a)
  /\ run' = [run EXCEPT ![r].at = "next", ![r].order = NoOrder,
                           ![r].bought = filled /\ o.side = "buy",
                           ![r].fills = @ + (IF filled THEN 1 ELSE 0)]
  /\ UNCHANGED <<agents, themeRows, queue, counters>>

EndSignals(r) ==
  /\ run[r].at = "next"
  /\ run' = [run EXCEPT ![r] = NoRun]
  /\ UNCHANGED <<tables, queue, extra, counters>>
-----------------------------------------------------------------------------
Cycle(r) ==
  \/ LookForTheme(r)
  \/ InsertTheme(r)
  \/ \E quotes \in Quotes : ReadEquity(r, quotes)
  \/ AgentAnswers(r)
  \/ AgentFails(r)
  \/ \E signal \in Signals, price \in Prices \cup {NoPrice} : DecideSignal(r, signal, price)
  \/ RecordSignal(r)
  \/ PlaceSignal(r)
  \/ EndSignals(r)

Requests ==
  \E a \in Agents :
    \/ \E strategy \in Strategies \cup {None} : Register(a, strategy)
    \/ \E strategy \in Strategies : SetStrategy(a, strategy)
    \/ \E active \in BOOLEAN : SetActive(a, active)
    \/ \E o \in [symbol : Symbols, side : Sides, qty : Quantities, price : Prices] : Trade(a, o)

PipelineNext ==
  \/ StartPipeline
  \/ RunNext
  \/ \E r \in Runners : Cycle(r)
  \/ Requests

(* The process ends and boots again, and seedDefaults finds who is missing. *)
RestartPipeline ==
  /\ restarts < MaxRestarts
  /\ restarts' = restarts + 1
  /\ run' = [r \in Runners |-> NoRun]
  /\ queue' = <<>>
  /\ agents' = Seeded(agents)
  /\ UNCHANGED <<themeRows, accounts, extra, runs, requests>>
-----------------------------------------------------------------------------
(* Whoever else trades an agent's account, and wherever the process ends:   *)
(* an agent holds more than maxPositions symbols only by buys its cycle     *)
(* could not see (a direct trade, a copied one, another cycle of it at the  *)
(* time), without them a buy of its strategy leaves it within the share of  *)
(* its equity.  A cycle trades no more than the signals it recorded.        *)
StrategyKeepsLimits ==
  /\ TypeOK
  /\ \A a \in Agents :
       Cardinality(Open(a)) <= MaxPositions + extra[a]
  /\ \A r \in Runners :
       /\ run[r].fills <= Cardinality(run[r].done)
       /\ run[r].at = "next" /\ run[r].bought /\ extra[run[r].agent] = 0 =>
            100 * Exposure(run[r].agent) <= run[r].equity * MaxTotalAllocationPct
=============================================================================
