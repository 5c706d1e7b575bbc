--------------------------- MODULE A2ACoordinator ---------------------------
(****************************************************************************)
(* src/integration/a2a-trading-coordinator.ts: a researcher runs its cycle, *)
(* a validator reviews trades of the researcher, and an executor copies     *)
(* those that were approved and runs a cycle of its own; all of it next to  *)
(* the pipeline, which may be running the same agents.                      *)
(****************************************************************************)
EXTENDS AgentPipeline

CONSTANTS
  Coordinator,                         \* the coordinator's runner
  Researcher, Validator, Executor,     \* the agents that have the roles
  TradesLimit,                         \* how many rows getTrades returns
  RecentTrades,                        \* how many of them become signals
  MaxA2ACycles                         \* bound of a behaviour

ASSUME A2ACoordinatorAssumption ==
  /\ Runners = {Pipeline, Coordinator}
  /\ {Researcher, Validator, Executor} \subseteq Agents
  /\ TradesLimit \in Nat /\ RecentTrades \in 1..TradesLimit
  /\ MaxA2ACycles \in Nat

VARIABLES
  stage,           \* where the cycle is
  signals,         \* the researcher's trades that are reviewed, then those to copy
  reviewer,        \* history: who reviewed them
  means,           \* history: the equity of the validator as it was read
  strategy,        \* the executor's, as it was read
  cycles

a2aVars == <<stage, signals, reviewer, means, strategy, cycles>>
vars == <<pipelineVars, a2aVars>>

Stages == {"idle", "research", "validate", "find", "copy", "execute"}

A2ATypeOK ==
  /\ stage \in Stages
  /\ \A i \in DOMAIN signals : signals[i] \in Orders
  /\ reviewer \in {"none", "validator", "nobody"}
  /\ means \in Nat
  /\ strategy \in Strategies \cup {None}

EndCycle ==
  /\ stage' = "idle"
  /\ signals' = <<>>
  /\ reviewer' = "none"
  /\ means' = 0
  /\ strategy' = None

Init ==
  /\ PipelineInit
  /\ stage = "idle" /\ signals = <<>> /\ reviewer = "none" /\ means = 0
  /\ strategy = None /\ cycles = 0

HasStrategy(a) == agents[a].registered /\ agents[a].strategy # None
-----------------------------------------------------------------------------
(* Without a researcher that has a strategy nothing is done.  Whether it is *)
(* active nobody asks.                                                      *)
StartCycle ==
  /\ stage = "idle"
  /\ cycles < MaxA2ACycles
  /\ HasStrategy(Researcher)
  /\ Begin(Coordinator, Researcher, agents[Researcher].strategy)
  /\ stage' = "research"
  /\ cycles' = cycles + 1
  /\ UNCHANGED <<signals, reviewer, means, strategy, tables, queue, extra, counters>>

LastOf(list, n) == SubSeq(list, IF Len(list) > n THEN Len(list) - n + 1 ELSE 1, Len(list))

(* extractSignals.  getTrades lists the newest first, and slice(-5) takes   *)
(* its end: the oldest of what it lists.  (Positions without any trade,     *)
(* which would be held, there are none.)                                    *)
ExtractSignals == LastOf(Reverse(LastOf(orders[Researcher], TradesLimit)), RecentTrades)

(* A cycle that threw leaves no signals.                                    *)
Research ==
  /\ stage = "research" /\ Resting(Coordinator)
  /\ IF run[Coordinator].at = "threw" \/ ExtractSignals = <<>>
       THEN EndCycle
       ELSE /\ stage' = "validate"
            /\ signals' = ExtractSignals
            /\ UNCHANGED <<reviewer, means, strategy>>
  /\ run' = [run EXCEPT ![Coordinator] = NoRun]
  /\ UNCHANGED <<cycles, tables, queue, extra, counters>>

Cost(signal) == Notional(signal.price, signal.qty)

\* Fault: any buy the equity is sufficient for.
ApprovesWithinEquity(signal, equity) ==
  signal.side = "buy" => Cost(signal) <= equity

(* validateSignals: a sale always, a buy of up to a fifth of the equity.    *)
Approves(signal, equity) ==
  signal.side = "buy" => 5 * Cost(signal) <= equity

(* Signals and validations are joined by their index: those of the approved *)
(* ones, in order.                                                          *)
Approved(equity) ==
  LET kept == {i \in DOMAIN signals : Approves(signals[i], equity)} IN
  {list \in SetToSeqs(kept) : \A j, k \in DOMAIN list : j < k => list[j] < list[k]}

Validate(quotes) ==
  LET equity == Equity(Validator, quotes) IN
  /\ stage = "validate"
  /\ agents[Validator].registered
  /\ stage' = "find"
  /\ \E list \in Approved(equity) : signals' = [k \in DOMAIN list |-> signals[list[k]]]
  /\ reviewer' = "validator"
  /\ means' = equity
  /\ UNCHANGED <<strategy, cycles, pipelineVars>>

(* There is no validator: everything is approved.                           *)
ApproveUnseen ==
  /\ stage = "validate"
  /\ ~agents[Validator].registered
  /\ stage' = "find"
  /\ reviewer' = "nobody"
  /\ UNCHANGED <<signals, means, strategy, cycles, pipelineVars>>

(* The review fails: nothing is approved.                                   *)
ValidationFails ==
  /\ stage = "validate"
  /\ EndCycle
  /\ UNCHANGED <<cycles, pipelineVars>>

FindExecutor ==
  /\ stage = "find"
  /\ IF signals # <<>> /\ HasStrategy(Executor)
       THEN /\ stage' = "copy"
            /\ strategy' = agents[Executor].strategy
            /\ UNCHANGED <<signals, reviewer, means>>
       ELSE EndCycle
  /\ UNCHANGED <<cycles, pipelineVars>>

(* executeApprovedTrades: a market order; without a price it throws, and    *)
(* the next one is placed.                                                  *)
CopyTrade(quote) ==
  LET o == [Head(signals) EXCEPT !.price = quote] IN
  /\ stage = "copy" /\ signals # <<>>
  /\ IF quote = NoPrice THEN UNCHANGED <<accounts, extra>>
     ELSE PlaceOrder(Executor, o) /\ Unseen(Executor, o, TRUE)
  /\ signals' = Tail(signals)
  /\ UNCHANGED <<stage, reviewer, means, strategy, cycles, agents, themeRows,
                 run, queue, counters>>

(* A cycle of its own, with the strategy that was read.                     *)
RunExecutor ==
  /\ stage = "copy" /\ signals = <<>>
  /\ Begin(Coordinator, Executor, strategy)
  /\ stage' = "execute"
  /\ UNCHANGED <<signals, reviewer, means, strategy, cycles, tables, queue, extra, counters>>

ExecutorDone ==
  /\ stage = "execute" /\ Resting(Coordinator)
  /\ EndCycle
  /\ run' = [run EXCEPT ![Coordinator] = NoRun]
  /\ UNCHANGED <<cycles, tables, queue, extra, counters>>
-----------------------------------------------------------------------------
CoordinatorNext ==
  \/ StartCycle
  \/ Research
  \/ \E quotes \in Quotes : Validate(quotes)
  \/ ApproveUnseen
  \/ ValidationFails
  \/ FindExecutor
  \/ \E quote \in Prices \cup {NoPrice} : CopyTrade(quote)
  \/ RunExecutor
  \/ ExecutorDone

(* With nothing under way, a restart changes nothing.                       *)
Restart ==
  /\ stage # "idle" \/ queue # <<>> \/ \E r \in Runners : run[r] # NoRun
  /\ RestartPipeline
  /\ EndCycle
  /\ UNCHANGED cycles

Next ==
  \/ PipelineNext /\ UNCHANGED a2aVars
  \/ CoordinatorNext
  \/ Restart

Spec == Init /\ [][Next]_vars
-----------------------------------------------------------------------------
(* What the executor is about to copy is a trade the researcher made, and,  *)
(* unless there is no validator at all, a buy of no more than a fifth of    *)
(* the equity the validator had: however the review went, and whatever the  *)
(* pipeline and the routes did to the three accounts in between.            *)
CopiesAreVetted ==
  /\ A2ATypeOK
  /\ stage \in {"find", "copy"} =>
       \A i \in DOMAIN signals :
         /\ \E k \in DOMAIN orders[Researcher] : orders[Researcher][k] = signals[i]
         /\ reviewer # "none"
         /\ reviewer = "validator" /\ signals[i].side = "buy" => 5 * Cost(signals[i]) <= means
=============================================================================
