------------------------ MODULE A2ACoordinatorProofs ------------------------
(****************************************************************************)
(* Theorems about the agents' cycles, the routes and the A2A coordinator on *)
(* the same accounts, for every set of agents, symbols, prices and limits   *)
(* and any number of runners' signals, requests and restarts.               *)
(****************************************************************************)
EXTENDS A2ACoordinator, FillRulesProofs, SequenceTheorems

Runs == [at : Steps, agent : Agents \cup {None}, equity : Nat,
         done : SUBSET (Symbols \X Sides), fills : Nat, bought : BOOLEAN,
         order : Orders \cup {NoOrder}]
Jobs == [agent : Agents, strategy : Strategies]

AgentRows == [registered : BOOLEAN, active : BOOLEAN, strategy : Strategies \cup {None}]

AccountsTyped ==
  /\ cash \in [Agents -> Nat]
  /\ pos \in [Agents -> [Symbols -> Positions]]
  /\ orders \in [Agents -> Seq(Orders)]
  /\ extra \in [Agents -> Nat]

(* A runner at work has an agent, and an order when it is about to place it.*)
RunsTyped ==
  /\ run \in [Runners -> Runs]
  /\ \A r \in Runners :
       /\ run[r].at \notin {"idle", "threw"} => run[r].agent \in Agents
       /\ run[r].at \in {"record", "place"} => run[r].order \in Orders
       /\ run[r].bought => run[r].at = "next"

TablesTyped ==
  /\ agents \in [Agents -> AgentRows]
  /\ themeRows \subseteq Agents
  /\ queue \in Seq(Jobs)

StageTyped ==
  /\ stage \in Stages
  /\ signals \in Seq(Orders)
  /\ reviewer \in {"none", "validator", "nobody"}
  /\ means \in Nat
  /\ strategy \in Strategies \cup {None}

Typed == AccountsTyped /\ RunsTyped /\ TablesTyped /\ StageTyped

-----------------------------------------------------------------------------
(* An agent holds no more symbols than it may, and the buys its cycle could *)
(* not see.                                                                 *)
Room(a) == Cardinality(Open(a)) <= MaxPositions + extra[a]

(* What a runner decided to buy still fits where it was decided, but for    *)
(* buys that went by it since.                                              *)
Fits(r) ==
  LET a == run[r].agent
      o == run[r].order
  IN run[r].at \in {"record", "place"} /\ o.side = "buy" =>
       /\ Cardinality(Open(a) \cup {o.symbol}) <= MaxPositions + extra[a]
       /\ extra[a] = 0 =>
            100 * (Exposure(a) + Notional(o.price, o.qty)) <= run[r].equity * MaxTotalAllocationPct

(* What it has just bought leaves the agent within its share.               *)
Bought(r) ==
  run[r].at = "next" /\ run[r].bought /\ extra[run[r].agent] = 0 =>
    100 * Exposure(run[r].agent) <= run[r].equity * MaxTotalAllocationPct

(* A fill follows the row of its signal.                                    *)
Counted(r) ==
  /\ run[r].fills <= Cardinality(run[r].done)
  /\ run[r].at = "place" => run[r].fills < Cardinality(run[r].done)

(* What is under review, or was, is what the researcher traded.             *)
Vetted ==
  /\ stage \in {"validate", "find", "copy"} =>
       \A i \in DOMAIN signals :
         \E k \in DOMAIN orders[Researcher] : orders[Researcher][k] = signals[i]
  /\ stage \in {"find", "copy"} =>
       /\ reviewer # "none"
       /\ reviewer = "validator" => \A i \in DOMAIN signals : Approves(signals[i], means)

LimitsInv ==
  /\ \A a \in Agents : Room(a)
  /\ \A r \in Runners : Fits(r) /\ Bought(r) /\ Counted(r)

A2AInv == Typed /\ LimitsInv /\ Vetted

-----------------------------------------------------------------------------
(* Sets of symbols are finite.                                              *)
LEMMA SymbolSets ==
  ASSUME NEW S \in SUBSET Symbols
  PROVE  IsFiniteSet(S) /\ Cardinality(S) \in Nat
BY AgentPipelineAssumption, FS_Subset, FS_CardinalityType

(* Part of a set of symbols is no larger.                                   *)
LEMMA Smaller ==
  ASSUME NEW S \in SUBSET Symbols, NEW T \in SUBSET S
  PROVE  Cardinality(T) <= Cardinality(S)
BY SymbolSets, FS_Subset

(* One symbol more, at most one more member.                                *)
LEMMA AddOne ==
  ASSUME NEW S \in SUBSET Symbols, NEW s \in Symbols
  PROVE  Cardinality(S \cup {s}) <= Cardinality(S) + 1
BY SymbolSets, FS_AddElement

(* What the positions of an account cost.                                   *)
CostOf(row) == SumFunction([s \in Symbols |-> row[s].cost])

(* It is an amount of money.                                                *)
LEMMA CostNat ==
  ASSUME NEW row \in [Symbols -> Positions]
  PROVE  CostOf(row) \in Nat
<1> DEFINE f == [s \in Symbols |-> row[s].cost]
<1>1. \A s \in Symbols : f[s] \in Nat
  BY DEF Positions
<1>2. SumFunctionOnSet(f, Symbols) \in Nat
  BY <1>1, SumNat, AgentPipelineAssumption
<1>. QED
  BY <1>2 DEF CostOf, SumFunction

(* It changes by what the changed position does.                            *)
LEMMA CostChange ==
  ASSUME NEW row \in [Symbols -> Positions], NEW s \in Symbols, NEW p \in Positions
  PROVE  CostOf([row EXCEPT ![s] = p]) = CostOf(row) - row[s].cost + p.cost
<1> DEFINE new == [row EXCEPT ![s] = p]
           f == [t \in Symbols |-> row[t].cost]
           h == [t \in Symbols |-> new[t].cost]
<1>1. \A t \in Symbols : f[t] \in Int /\ h[t] \in Int
  BY DEF Positions
<1>2. \A t \in Symbols \ {s} : f[t] = h[t]
  OBVIOUS
<1>3. f[s] = row[s].cost /\ h[s] = p.cost
  OBVIOUS
<1> HIDE DEF f, h
<1>4. SumFunctionOnSet(h, Symbols) = SumFunctionOnSet(f, Symbols) - f[s] + h[s]
  BY <1>1, <1>2, SumChange, AgentPipelineAssumption
<1>5. CostOf(row) = SumFunctionOnSet(f, Symbols) /\ CostOf(new) = SumFunctionOnSet(h, Symbols)
  BY DEF CostOf, SumFunction, f, h
<1>. QED
  BY <1>3, <1>4, <1>5

(* The exposure of an account is what its positions cost.                   *)
LEMMA ExposureIsCost ==
  ASSUME NEW a
  PROVE  Exposure(a) = CostOf(pos[a])
BY DEF Exposure, CostOf

-----------------------------------------------------------------------------
(* What placeOrder does to an account, in the words of the limits.          *)
LEMMA OrderEffect ==
  ASSUME AccountsTyped, NEW a \in Agents, NEW o \in Orders, PlaceOrder(a, o)
  PROVE  /\ cash' \in [Agents -> Nat]
         /\ pos' \in [Agents -> [Symbols -> Positions]]
         /\ orders' \in [Agents -> Seq(Orders)]
         /\ \A b \in Agents \ {a} : pos'[b] = pos[b]
         /\ ~Fills(a, o) => pos' = pos
         /\ o.side = "sell" => Open(a)' \subseteq Open(a) /\ Exposure(a)' <= Exposure(a)
         /\ Open(a)' \subseteq Open(a) \cup {o.symbol}
         /\ o.side = "buy" /\ Fills(a, o) =>
              Exposure(a)' = Exposure(a) + Notional(o.price, o.qty)
         /\ \A b \in Agents : \A k \in DOMAIN orders[b] :
              k \in DOMAIN orders'[b] /\ orders'[b][k] = orders[b][k]
<1> USE DEF AccountsTyped
<1>1. /\ o.symbol \in Symbols /\ o.side \in {"buy", "sell"}
      /\ o.price \in Nat /\ o.qty \in Nat \ {0}
  BY AgentPipelineAssumption DEF Orders, Sides
<1>2. /\ pos[a] \in [Symbols -> Positions] /\ pos[a][o.symbol] \in Positions
      /\ pos[a][o.symbol].qty \in Nat /\ pos[a][o.symbol].cost \in Nat
      /\ Notional(o.price, o.qty) \in Nat
  BY <1>1, AmountsNat DEF Positions
<1>3. Exposure(a) \in Nat /\ Exposure(a) = CostOf(pos[a]) /\ Exposure(a)' = CostOf(pos'[a])
  BY <1>2, CostNat, ExposureIsCost DEF Exposure, CostOf
<1>4. CASE ~Fills(a, o)
  BY <1>2, <1>3, <1>4 DEF PlaceOrder, accounts, Open
<1>5. CASE Fills(a, o)
  <2> DEFINE new == NewPosition(o.side, o.price, o.qty, pos[a][o.symbol])
  <2>1. NewCash(o.side, o.price, o.qty, cash[a]) \in Nat /\ new \in Positions
    BY <1>1, <1>2, <1>5, FillIsTyped DEF Fills
  <2>2. /\ cash' = [cash EXCEPT ![a] = NewCash(o.side, o.price, o.qty, cash[a])]
        /\ pos' = [pos EXCEPT ![a][o.symbol] = new]
        /\ orders' = [orders EXCEPT ![a] = Append(orders[a], o)]
    BY <1>5 DEF PlaceOrder
  <2>3. /\ cash' \in [Agents -> Nat]
        /\ pos' \in [Agents -> [Symbols -> Positions]]
        /\ orders' \in [Agents -> Seq(Orders)]
    <3> HIDE DEF new
    <3>. QED
      BY <1>1, <2>1, <2>2
  <2>4. pos'[a] = [pos[a] EXCEPT ![o.symbol] = new] /\ \A b \in Agents \ {a} : pos'[b] = pos[b]
    BY <1>1, <2>2
  <2>5. Exposure(a)' = Exposure(a) - pos[a][o.symbol].cost + new.cost
    <3> HIDE DEF new
    <3>1. CostOf([pos[a] EXCEPT ![o.symbol] = new]) = CostOf(pos[a]) - pos[a][o.symbol].cost + new.cost
      BY <1>1, <1>2, <2>1, CostChange
    <3>. QED
      BY <1>3, <2>4, <3>1
  <2>6. \A s \in Symbols \ {o.symbol} : pos'[a][s] = pos[a][s]
    BY <1>1, <1>2, <2>4
  <2>7. Open(a)' \subseteq Open(a) \cup {o.symbol}
    BY <2>6 DEF Open
  <2>8. CASE o.side = "buy"
    <3>1. new.cost = pos[a][o.symbol].cost + Notional(o.price, o.qty)
      BY <2>8 DEF NewPosition
    <3>2. Exposure(a)' = Exposure(a) + Notional(o.price, o.qty)
      <4> HIDE DEF new
      <4>. QED
        BY <1>2, <1>3, <2>5, <3>1
    <3>3. \A b \in Agents : \A k \in DOMAIN orders[b] :
            k \in DOMAIN orders'[b] /\ orders'[b][k] = orders[b][k]
      BY <2>2
    <3>. QED
      BY <1>5, <2>3, <2>4, <2>7, <2>8, <3>2, <3>3
  <2>9. CASE o.side = "sell"
    <3>1. pos[a][o.symbol].qty >= o.qty
      BY <1>5, <2>9 DEF Fills, CanFill
    <3>2. CostShare(pos[a][o.symbol], o.qty) \in 0..pos[a][o.symbol].cost
      BY <1>1, <1>2, <3>1, CostShareBounded
    <3>3. new.cost = pos[a][o.symbol].cost - CostShare(pos[a][o.symbol], o.qty)
      BY <2>9 DEF NewPosition
    <3>4. Exposure(a)' <= Exposure(a)
      <4> HIDE DEF new
      <4>. QED
        BY <1>2, <1>3, <2>5, <3>2, <3>3
    <3>5. o.symbol \in Open(a)
      BY <1>1, <1>2, <3>1 DEF Open
    <3>6. \A b \in Agents : \A k \in DOMAIN orders[b] :
            k \in DOMAIN orders'[b] /\ orders'[b][k] = orders[b][k]
      BY <2>2
    <3>. QED
      BY <1>5, <2>3, <2>4, <2>7, <2>9, <3>4, <3>5, <3>6
  <2>. QED
    BY <1>1, <2>8, <2>9
<1>. QED
  BY <1>4, <1>5

-----------------------------------------------------------------------------
(* A runner whose state did not change, beside accounts that did not.       *)
LEMMA StillKeeps ==
  ASSUME NEW r \in Runners, run'[r] = run[r], UNCHANGED <<accounts, extra>>,
         Fits(r), Bought(r), Counted(r)
  PROVE  Fits(r)' /\ Bought(r)' /\ Counted(r)'
BY DEF Fits, Bought, Counted, Open, Exposure, accounts

(* A runner that is neither about to place an order nor has just bought.    *)
LEMMA CalmKeeps ==
  ASSUME NEW r \in Runners, Counted(r),
         run'[r].at \notin {"record", "place"}, ~run'[r].bought,
         \/ run'[r].fills = run[r].fills /\ run'[r].done = run[r].done
         \/ run'[r].fills = 0 /\ run'[r].done = {}
  PROVE  Fits(r)' /\ Bought(r)' /\ Counted(r)'
<1>1. Cardinality({}) = 0
  BY FS_EmptySet
<1>2. Fits(r)'
  BY DEF Fits
<1>3. Bought(r)'
  BY DEF Bought
<1>4. run'[r].fills <= Cardinality(run'[r].done)
  BY <1>1 DEF Counted
<1>5. Counted(r)'
  BY <1>4 DEF Counted
<1>. QED
  BY <1>2, <1>3, <1>5

(* A runner that does no more than go on, or stop.                          *)
LEMMA CalmStep ==
  ASSUME RunsTyped, LimitsInv, UNCHANGED <<accounts, extra>>,
         NEW r \in Runners, NEW x \in Runs, run' = [run EXCEPT ![r] = x],
         x.at \notin {"record", "place"}, ~x.bought,
         x.at \notin {"idle", "threw"} => x.agent \in Agents,
         \/ x.fills = run[r].fills /\ x.done = run[r].done
         \/ x.fills = 0 /\ x.done = {}
  PROVE  RunsTyped' /\ LimitsInv'
<1>1. /\ run' \in [Runners -> Runs] /\ run'[r] = x
      /\ \A other \in Runners \ {r} : run'[other] = run[other]
  BY DEF RunsTyped
<1>2. RunsTyped'
  BY <1>1 DEF RunsTyped
<1>3. \A other \in Runners : Fits(other)' /\ Bought(other)' /\ Counted(other)'
  <2> SUFFICES ASSUME NEW other \in Runners
               PROVE  Fits(other)' /\ Bought(other)' /\ Counted(other)'
    OBVIOUS
  <2>1. Fits(other) /\ Bought(other) /\ Counted(other)
    BY DEF LimitsInv
  <2>2. CASE other = r
    BY <1>1, <2>1, <2>2, CalmKeeps
  <2>3. CASE other # r
    BY <1>1, <2>1, <2>3, StillKeeps
  <2>. QED
    BY <2>2, <2>3
<1>4. \A a \in Agents : Room(a)'
  BY DEF LimitsInv, Room, Open, accounts
<1>. QED
  BY <1>2, <1>3, <1>4 DEF LimitsInv

(* What is bought past a runner is counted; then what it decided, and what  *)
(* it has bought, is no further from the limits than the count says.        *)
LEMMA PassedKeeps ==
  ASSUME AccountsTyped, RunsTyped, NEW a \in Agents, NEW o \in Orders, PlaceOrder(a, o),
         extra' \in [Agents -> Nat], \A b \in Agents : extra'[b] >= extra[b],
         NEW r \in Runners, run'[r] = run[r], Fits(r), Bought(r), Counted(r),
         run[r].agent = a /\ o.side = "buy" /\ Fills(a, o) => extra'[a] = extra[a] + 1
  PROVE  Fits(r)' /\ Bought(r)' /\ Counted(r)'
<1>1. /\ o.symbol \in Symbols /\ o.side \in {"buy", "sell"}
      /\ pos' \in [Agents -> [Symbols -> Positions]]
      /\ \A b \in Agents \ {a} : pos'[b] = pos[b]
      /\ ~Fills(a, o) => pos' = pos
      /\ o.side = "sell" => Open(a)' \subseteq Open(a) /\ Exposure(a)' <= Exposure(a)
      /\ Open(a)' \subseteq Open(a) \cup {o.symbol}
  BY OrderEffect DEF Orders, Sides
<1>2. Counted(r)'
  BY DEF Counted
<1>3. CASE run[r].at \notin {"record", "place", "next"}
  BY <1>2, <1>3 DEF Fits, Bought
<1>4. CASE run[r].at \in {"record", "place", "next"}
  <2>. PICK b \in Agents : b = run[r].agent
    BY <1>4 DEF RunsTyped
  <2>1. run'[r].agent = b /\ extra[b] \in Nat /\ extra'[b] \in Nat /\ extra'[b] >= extra[b]
    BY DEF AccountsTyped
  <2>2. CASE b # a \/ ~Fills(a, o)
    <3>1. pos'[b] = pos[b]
      BY <1>1, <2>2
    <3>2. Open(b)' = Open(b) /\ Exposure(b)' = Exposure(b)
      BY <3>1 DEF Open, Exposure
    <3>3. Bought(r)'
      BY <2>1, <3>2 DEF Bought
    <3>4. Fits(r)'
      <4> SUFFICES ASSUME run[r].at \in {"record", "place"}, run[r].order.side = "buy"
                   PROVE  /\ Cardinality(Open(b) \cup {run[r].order.symbol}) <= MaxPositions + extra'[b]
                          /\ extra'[b] = 0 =>
                               100 * (Exposure(b) + Notional(run[r].order.price, run[r].order.qty))
                                 <= run[r].equity * MaxTotalAllocationPct
        BY <2>1, <3>2 DEF Fits
      <4>1. run[r].order.symbol \in Symbols
        BY DEF RunsTyped, Orders
      <4>2. Cardinality(Open(b) \cup {run[r].order.symbol}) \in Nat
        BY <4>1, SymbolSets DEF Open
      <4>3. /\ Cardinality(Open(b) \cup {run[r].order.symbol}) <= MaxPositions + extra[b]
            /\ extra[b] = 0 =>
                 100 * (Exposure(b) + Notional(run[r].order.price, run[r].order.qty))
                   <= run[r].equity * MaxTotalAllocationPct
        BY DEF Fits
      <4>. QED
        BY <2>1, <4>2, <4>3, AgentPipelineAssumption
    <3>. QED
      BY <1>2, <3>3, <3>4
  <2>3. CASE b = a /\ Fills(a, o)
    <3>1. /\ Open(a) \in SUBSET Symbols /\ Open(a)' \in SUBSET Symbols
          /\ Exposure(a) \in Nat /\ Exposure(a)' \in Nat
      BY <1>1, CostNat DEF Open, Exposure, CostOf, AccountsTyped
    <3>2. CASE o.side = "buy"
      <4>1. extra'[a] = extra[a] + 1
        BY <2>3, <3>2
      <4>2. Bought(r)'
        BY <2>1, <2>3, <4>1 DEF Bought
      <4>3. Fits(r)'
        <5> SUFFICES ASSUME run[r].at \in {"record", "place"}, run[r].order.side = "buy"
                     PROVE  Cardinality(Open(a)' \cup {run[r].order.symbol})
                              <= MaxPositions + extra'[a]
          BY <2>1, <2>3, <4>1 DEF Fits
        <5>. PICK s \in Symbols : s = run[r].order.symbol
          BY DEF RunsTyped, Orders
        <5>1. Cardinality(Open(a) \cup {s}) <= MaxPositions + extra[a]
          BY <2>3 DEF Fits
        <5>2. Open(a) \cup {s} \in SUBSET Symbols /\ (Open(a) \cup {s}) \cup {o.symbol} \in SUBSET Symbols
          BY <1>1, <3>1
        <5>3. Cardinality((Open(a) \cup {s}) \cup {o.symbol}) <= Cardinality(Open(a) \cup {s}) + 1
          BY <1>1, <5>2, AddOne
        <5>4. Open(a)' \cup {s} \in SUBSET ((Open(a) \cup {s}) \cup {o.symbol})
          BY <1>1
        <5>5. Cardinality(Open(a)' \cup {s}) <= Cardinality((Open(a) \cup {s}) \cup {o.symbol})
          BY <5>2, <5>4, Smaller
        <5>6. /\ Cardinality(Open(a)' \cup {s}) \in Nat
              /\ Cardinality((Open(a) \cup {s}) \cup {o.symbol}) \in Nat
              /\ Cardinality(Open(a) \cup {s}) \in Nat
          BY <3>1, <5>2, SymbolSets
        <5>. QED
          BY <2>1, <2>3, <4>1, <5>1, <5>3, <5>5, <5>6, AgentPipelineAssumption
      <4>. QED
        BY <1>2, <4>2, <4>3
    <3>3. CASE o.side = "sell"
      <4>1. Open(a)' \in SUBSET Open(a) /\ Exposure(a)' <= Exposure(a)
        BY <1>1, <3>3
      <4>2. Bought(r)'
        <5> SUFFICES ASSUME run[r].at = "next", run[r].bought, extra'[a] = 0
                     PROVE  100 * Exposure(a)' <= run[r].equity * MaxTotalAllocationPct
          BY <2>1, <2>3 DEF Bought
        <5>1. 100 * Exposure(a) <= run[r].equity * MaxTotalAllocationPct
          BY <2>1, <2>3 DEF Bought
        <5>2. run[r].equity * MaxTotalAllocationPct \in Nat
          BY AgentPipelineAssumption DEF RunsTyped, Runs
        <5>. QED
          BY <3>1, <4>1, <5>1, <5>2
      <4>3. Fits(r)'
        <5> SUFFICES ASSUME run[r].at \in {"record", "place"}, run[r].order.side = "buy"
                     PROVE  /\ Cardinality(Open(a)' \cup {run[r].order.symbol})
                                 <= MaxPositions + extra'[a]
                            /\ extra'[a] = 0 =>
                                 100 * (Exposure(a)' + Notional(run[r].order.price, run[r].order.qty))
                                   <= run[r].equity * MaxTotalAllocationPct
          BY <2>1, <2>3 DEF Fits
        <5>. PICK s \in Symbols : s = run[r].order.symbol
          BY DEF RunsTyped, Orders
        <5>. PICK n \in Nat : n = Notional(run[r].order.price, run[r].order.qty)
          BY AmountsNat, AgentPipelineAssumption DEF RunsTyped, Orders
        <5>. PICK m \in Nat : m = run[r].equity * MaxTotalAllocationPct
          BY AgentPipelineAssumption DEF RunsTyped, Runs
        <5>1. /\ Cardinality(Open(a) \cup {s}) <= MaxPositions + extra[a]
              /\ extra[a] = 0 => 100 * (Exposure(a) + n) <= m
          BY <2>3 DEF Fits
        <5>2. Open(a) \cup {s} \in SUBSET Symbols /\ Open(a)' \cup {s} \in SUBSET (Open(a) \cup {s})
          BY <3>1, <4>1
        <5>3. Cardinality(Open(a)' \cup {s}) <= Cardinality(Open(a) \cup {s})
          BY <5>2, Smaller
        <5>4. Cardinality(Open(a)' \cup {s}) \in Nat /\ Cardinality(Open(a) \cup {s}) \in Nat
          BY <3>1, <5>2, SymbolSets
        <5>5. Cardinality(Open(a)' \cup {s}) <= MaxPositions + extra'[a]
          BY <2>1, <2>3, <5>1, <5>3, <5>4, AgentPipelineAssumption
        <5>6. extra'[a] = 0 => 100 * (Exposure(a)' + n) <= m
          BY <2>1, <2>3, <3>1, <4>1, <5>1
        <5>. QED
          BY <5>5, <5>6
      <4>. QED
        BY <1>2, <4>2, <4>3
    <3>. QED
      BY <1>1, <3>2, <3>3
  <2>. QED
    BY <2>2, <2>3
<1>. QED
  BY <1>3, <1>4

(* A buy that is counted, and any sale, leaves room.                        *)
LEMMA RoomKept ==
  ASSUME AccountsTyped, NEW a \in Agents, NEW o \in Orders, PlaceOrder(a, o),
         extra' \in [Agents -> Nat], \A b \in Agents : extra'[b] >= extra[b],
         \A b \in Agents : Room(b),
         \/ o.side = "buy" /\ Fills(a, o) => extra'[a] = extra[a] + 1
         \/ Cardinality(Open(a) \cup {o.symbol}) <= MaxPositions + extra[a]
  PROVE  \A b \in Agents : Room(b)'
<1>1. /\ o.symbol \in Symbols /\ o.side \in {"buy", "sell"}
      /\ pos' \in [Agents -> [Symbols -> Positions]]
      /\ \A b \in Agents \ {a} : pos'[b] = pos[b]
      /\ ~Fills(a, o) => pos' = pos
      /\ o.side = "sell" => Open(a)' \subseteq Open(a)
      /\ Open(a)' \subseteq Open(a) \cup {o.symbol}
  BY OrderEffect DEF Orders, Sides
<1>2. ASSUME NEW b \in Agents PROVE Room(b)'
  <2>1. /\ Open(b) \in SUBSET Symbols /\ Open(b)' \in SUBSET Symbols
        /\ Cardinality(Open(b)) \in Nat /\ Cardinality(Open(b)') \in Nat
        /\ extra[b] \in Nat /\ extra'[b] \in Nat /\ extra'[b] >= extra[b]
        /\ Cardinality(Open(b)) <= MaxPositions + extra[b]
    <3>1. Open(b) \in SUBSET Symbols /\ Open(b)' \in SUBSET Symbols
      BY DEF Open
    <3>. QED
      BY <3>1, SymbolSets DEF AccountsTyped, Room
  <2>2. CASE b # a \/ ~Fills(a, o)
    <3>1. pos'[b] = pos[b]
      BY <1>1, <2>2
    <3>2. Open(b)' = Open(b)
      BY <3>1 DEF Open
    <3>3. Cardinality(Open(b)') <= MaxPositions + extra'[b]
      BY <2>1, <3>2, AgentPipelineAssumption
    <3>. QED
      BY <3>3 DEF Room
  <2>3. CASE b = a /\ Fills(a, o)
    <3>1. (Open(a) \cup {o.symbol}) \in SUBSET Symbols
      BY <1>1, <2>1, <2>3
    <3>2. Cardinality(Open(a) \cup {o.symbol}) \in Nat
      BY <3>1, SymbolSets
    <3>3. Cardinality(Open(a)') <= Cardinality(Open(a) \cup {o.symbol})
      BY <1>1, <3>1, Smaller
    <3>4. Cardinality(Open(a) \cup {o.symbol}) <= Cardinality(Open(a)) + 1
      BY <1>1, <2>1, <2>3, AddOne
    <3>5. CASE o.side = "sell"
      <4>1. Cardinality(Open(a)') <= Cardinality(Open(a))
        BY <1>1, <2>1, <2>3, <3>5, Smaller
      <4>2. Cardinality(Open(a)') <= MaxPositions + extra'[a]
        BY <2>1, <2>3, <4>1, AgentPipelineAssumption
      <4>. QED
        BY <2>3, <4>2 DEF Room
    <3>6. CASE o.side = "buy"
      <4>1. Cardinality(Open(a)') <= MaxPositions + extra'[a]
        BY <2>1, <2>3, <3>2, <3>3, <3>4, <3>6, AgentPipelineAssumption
      <4>. QED
        BY <2>3, <4>1 DEF Room
    <3>. QED
      BY <1>1, <3>5, <3>6
  <2>. QED
    BY <2>2, <2>3
<1>. QED
  BY <1>2

-----------------------------------------------------------------------------
(* What an account is worth.                                                *)
LEMMA EquityNat ==
  ASSUME AccountsTyped, NEW a \in Agents, NEW quotes \in Quotes
  PROVE  Equity(a, quotes) \in Nat
<1> DEFINE f == [s \in Symbols |->
             IF quotes[s] = NoPrice THEN pos[a][s].cost ELSE Notional(quotes[s], pos[a][s].qty)]
<1>1. \A s \in Symbols : f[s] \in Nat
  <2> SUFFICES ASSUME NEW s \in Symbols PROVE f[s] \in Nat
    OBVIOUS
  <2>1. quotes[s] \in Nat /\ pos[a][s].cost \in Nat /\ pos[a][s].qty \in Nat
    BY AgentPipelineAssumption DEF AccountsTyped, Positions
  <2>2. Notional(quotes[s], pos[a][s].qty) \in Nat
    BY <2>1, AmountsNat
  <2>. QED
    BY <2>1, <2>2
<1>2. SumFunctionOnSet(f, Symbols) \in Nat
  <2> HIDE DEF f
  <2>. QED
    BY <1>1, SumNat, AgentPipelineAssumption
<1>3. Equity(a, quotes) = cash[a] + SumFunctionOnSet(f, Symbols)
  BY DEF Equity, SumFunction
<1>. QED
  BY <1>2, <1>3 DEF AccountsTyped

(* What a signal asks for, or the equity allows.                            *)
LEMMA QuantityNat ==
  ASSUME RunsTyped, NEW r \in Runners, NEW signal \in Signals, NEW price \in Prices
  PROVE  SignalQuantity(r, signal, price) \in Nat
<1>1. CASE signal.qty # Absent
  BY <1>1, AgentPipelineAssumption DEF SignalQuantity, Signals
<1>2. CASE signal.qty = Absent
  <2>. PICK m \in Nat : m = run[r].equity * MaxAllocationPct
    BY AgentPipelineAssumption DEF RunsTyped, Runs
  <2>1. price \in Nat \ {0}
    BY AgentPipelineAssumption
  <2>2. Scale * price \in Nat \ {0}
    BY <2>1, FillAssumption
  <2>. PICK d \in Nat \ {0} : d = 100 * Notional(price, 1)
    BY <2>1, <2>2 DEF Notional
  <2>3. m \div d \in Nat
    OBVIOUS
  <2>. QED
    BY <1>2, <2>3 DEF SignalQuantity
<1>. QED
  BY <1>1, <1>2

(* A cycle of which nobody bought, until it decides on an order.            *)
LEMMA CalmCycle ==
  ASSUME AccountsTyped, RunsTyped, LimitsInv, NEW r \in Runners,
         \/ LookForTheme(r) \/ InsertTheme(r) \/ (\E quotes \in Quotes : ReadEquity(r, quotes))
         \/ AgentAnswers(r) \/ AgentFails(r) \/ EndSignals(r)
  PROVE  RunsTyped' /\ LimitsInv' /\ UNCHANGED <<accounts, extra>>
<1>1. /\ run \in [Runners -> Runs] /\ run[r] \in Runs
      /\ run[r].at \notin {"idle", "threw"} => run[r].agent \in Agents
      /\ run[r].at # "next" => ~run[r].bought
  BY DEF RunsTyped
<1>2. NoRun \in Runs /\ [NoRun EXCEPT !.at = "threw"] \in Runs
  BY DEF NoRun, Runs, Steps
<1>3. UNCHANGED <<accounts, extra>>
  BY DEF LookForTheme, InsertTheme, ReadEquity, AgentAnswers, AgentFails, EndSignals, tables
<1>4. ASSUME NEW step \in {"insert", "equity", "next"}, run[r].at \in {"theme", "insert", "ask"},
             Go(r, step)
      PROVE  RunsTyped' /\ LimitsInv'
  <2>. PICK x : x = [run[r] EXCEPT !.at = step]
    OBVIOUS
  <2>1. /\ x \in Runs /\ x.at = step /\ x.agent = run[r].agent /\ x.bought = run[r].bought
        /\ x.fills = run[r].fills /\ x.done = run[r].done
    BY <1>1, <1>4 DEF Runs, Steps
  <2>2. run' = [run EXCEPT ![r] = x]
    BY <1>1, <1>4 DEF Go
  <2>. QED
    BY <1>1, <1>3, <1>4, <2>1, <2>2, CalmStep
<1>5. ASSUME run' = [run EXCEPT ![r] = NoRun] PROVE RunsTyped' /\ LimitsInv'
  BY <1>2, <1>3, <1>5, CalmStep DEF NoRun
<1>6. CASE LookForTheme(r)
  <2>1. run[r].at = "theme" /\ (Go(r, "equity") \/ Go(r, "insert"))
    BY <1>6 DEF LookForTheme
  <2>. QED
    BY <1>3, <1>4, <2>1
<1>7. CASE InsertTheme(r)
  <2>1. CASE run[r].agent \in themeRows
    <3>1. run' = [run EXCEPT ![r] = [NoRun EXCEPT !.at = "threw"]]
      BY <1>7, <2>1 DEF InsertTheme
    <3>. QED
      BY <1>2, <1>3, <3>1, CalmStep DEF NoRun
  <2>2. CASE run[r].agent \notin themeRows
    BY <1>3, <1>4, <1>7, <2>2 DEF InsertTheme
  <2>. QED
    BY <2>1, <2>2
<1>8. CASE \E quotes \in Quotes : ReadEquity(r, quotes)
  <2>. PICK quotes \in Quotes : ReadEquity(r, quotes)
    BY <1>8
  <2>. PICK a \in Agents : a = run[r].agent
    BY <1>1 DEF ReadEquity
  <2>. PICK e \in Nat : e = Equity(a, quotes)
    BY EquityNat
  <2>. PICK x : x = [run[r] EXCEPT !.at = "ask", !.equity = e]
    OBVIOUS
  <2>1. /\ x \in Runs /\ x.at = "ask" /\ x.agent = run[r].agent /\ x.bought = run[r].bought
        /\ x.fills = run[r].fills /\ x.done = run[r].done
    BY <1>1 DEF Runs, Steps
  <2>2. run' = [run EXCEPT ![r] = x]
    BY <1>1 DEF ReadEquity
  <2>3. run[r].at = "equity"
    BY DEF ReadEquity
  <2>. QED
    BY <1>1, <1>3, <2>1, <2>2, <2>3, CalmStep
<1>9. CASE AgentAnswers(r)
  BY <1>3, <1>4, <1>9 DEF AgentAnswers
<1>10. CASE AgentFails(r) \/ EndSignals(r)
  BY <1>3, <1>5, <1>10 DEF AgentFails, EndSignals
<1>. QED
  BY <1>3, <1>6, <1>7, <1>8, <1>9, <1>10

(* A buy is decided on where it fits.                                       *)
LEMMA DecisionFits ==
  ASSUME AccountsTyped, RunsTyped, LimitsInv, NEW r \in Runners, NEW signal \in Signals,
         NEW price \in Prices \cup {NoPrice}, DecideSignal(r, signal, price)
  PROVE  RunsTyped' /\ LimitsInv' /\ UNCHANGED <<accounts, extra>>
<1> DEFINE q == SignalQuantity(r, signal, price)
<1>1. /\ run[r] \in Runs /\ run[r].at = "next" /\ run[r].agent \in Agents
      /\ run \in [Runners -> Runs]
  BY DEF RunsTyped, DecideSignal
<1>2. UNCHANGED <<accounts, extra>>
  BY DEF DecideSignal, tables
<1>3. /\ signal.action \in Sides /\ signal.symbol \in Symbols /\ price \in Prices
      /\ q \in Nat \ {0}
      /\ signal.action = "buy" => BuyAllowed(r, signal.symbol, q, price)
  <2>1. Wanted(r, signal, price) /\ signal \in Signals
    BY DEF DecideSignal
  <2>2. price \in Prices
    BY <2>1 DEF Wanted
  <2>3. SignalQuantity(r, signal, price) \in Nat
    BY <2>2, QuantityNat
  <2>. QED
    BY <2>1, <2>2, <2>3 DEF Wanted, Signals
<1> DEFINE o == [symbol |-> signal.symbol, side |-> signal.action, qty |-> q, price |-> price]
           x == [run[r] EXCEPT !.at = "record", !.bought = FALSE, !.order = o]
<1>4. o \in Orders
  BY <1>3 DEF Orders
<1>5. /\ x \in Runs /\ x.at = "record" /\ x.agent = run[r].agent /\ ~x.bought /\ x.order = o
      /\ x.fills = run[r].fills /\ x.done = run[r].done /\ x.equity = run[r].equity
  <2> HIDE DEF o
  <2>. QED
    BY <1>1, <1>4 DEF Runs, Steps
<1>6. run' = [run EXCEPT ![r] = x]
  <2> HIDE DEF q
  <2>1. run' = [run EXCEPT ![r].at = "record", ![r].bought = FALSE, ![r].order = o]
    BY DEF DecideSignal, q
  <2> HIDE DEF o
  <2>. QED
    BY <1>1, <2>1
<1> HIDE DEF x
<1>7. /\ run' \in [Runners -> Runs] /\ run'[r] = x
      /\ \A other \in Runners \ {r} : run'[other] = run[other]
  BY <1>1, <1>5, <1>6
<1>8. RunsTyped'
  <2> HIDE DEF o
  <2>. QED
    BY <1>1, <1>4, <1>5, <1>7 DEF RunsTyped
<1>9. \A other \in Runners \ {r} : Fits(other)' /\ Bought(other)' /\ Counted(other)'
  BY <1>2, <1>7, StillKeeps DEF LimitsInv
<1>10. Counted(r)'
  <2>1. run'[r].at = "record" /\ run'[r].fills = run[r].fills /\ run'[r].done = run[r].done
    BY <1>5, <1>7
  <2>. QED
    BY <2>1 DEF LimitsInv, Counted
<1>11. Bought(r)'
  BY <1>5, <1>7 DEF Bought
<1>12. Fits(r)'
  <2>. PICK a \in Agents : a = run[r].agent
    BY <1>1
  <2> SUFFICES ASSUME signal.action = "buy"
               PROVE  /\ Cardinality(Open(a) \cup {signal.symbol}) <= MaxPositions + extra[a]
                      /\ extra[a] = 0 =>
                           100 * (Exposure(a) + Notional(price, q))
                             <= run[r].equity * MaxTotalAllocationPct
    <3>1. /\ run'[r].agent = a /\ run'[r].order.symbol = signal.symbol
          /\ run'[r].order.side = signal.action /\ run'[r].order.qty = q
          /\ run'[r].order.price = price /\ run'[r].equity = run[r].equity
      BY <1>5, <1>7
    <3>2. /\ extra' = extra /\ Open(a)' = Open(a) /\ Exposure(a)' = Exposure(a)
      BY <1>2 DEF accounts, Open, Exposure
    <3> HIDE DEF q, o
    <3>. QED
      BY <3>1, <3>2 DEF Fits
  <2>1. BuyAllowed(r, signal.symbol, q, price)
    BY <1>3
  <2>2. 100 * (Exposure(a) + Notional(price, q)) <= run[r].equity * MaxTotalAllocationPct
    BY <2>1 DEF BuyAllowed, IsWithinAllocationLimit
  <2>3. extra[a] \in Nat /\ Cardinality(Open(a)) <= MaxPositions + extra[a]
    BY DEF AccountsTyped, LimitsInv, Room
  <2>4. Open(a) \in SUBSET Symbols
    BY DEF Open
  <2>5. CASE signal.symbol \in Open(a)
    <3>1. Open(a) \cup {signal.symbol} = Open(a)
      BY <2>5
    <3>. QED
      BY <2>2, <2>3, <3>1
  <2>6. CASE Cardinality(Open(a)) < MaxPositions
    <3>1. Cardinality(Open(a) \cup {signal.symbol}) <= Cardinality(Open(a)) + 1
      BY <1>3, <2>4, AddOne
    <3>2. Open(a) \cup {signal.symbol} \in SUBSET Symbols
      BY <1>3, <2>4
    <3>3. /\ Cardinality(Open(a)) \in Nat
          /\ Cardinality(Open(a) \cup {signal.symbol}) \in Nat
      BY <2>4, <3>2, SymbolSets
    <3>4. Cardinality(Open(a) \cup {signal.symbol}) <= MaxPositions + extra[a]
      BY <2>3, <2>6, <3>1, <3>3, AgentPipelineAssumption
    <3>. QED
      BY <2>2, <3>4
  <2>. QED
    BY <2>1, <2>5, <2>6 DEF BuyAllowed
<1>13. \A a \in Agents : Room(a)'
  BY <1>2 DEF LimitsInv, Room, Open, accounts
<1>. QED
  BY <1>2, <1>8, <1>9, <1>10, <1>11, <1>12, <1>13 DEF LimitsInv

(* Keys of signals: there are finitely many.                                *)
LEMMA KeysFinite ==
  ASSUME NEW D \in SUBSET (Symbols \X Sides)
  PROVE  /\ IsFiniteSet(D) /\ Cardinality(D) \in Nat
         /\ \A key : key \notin D => Cardinality(D \cup {key}) = Cardinality(D) + 1
<1>1. IsFiniteSet(Sides)
  <2>1. IsFiniteSet({"buy"} \cup {"sell"})
    BY FS_Singleton, FS_AddElement
  <2>2. Sides = {"buy"} \cup {"sell"}
    BY DEF Sides
  <2>. QED
    BY <2>1, <2>2
<1>2. IsFiniteSet(Symbols \X Sides)
  BY <1>1, FS_Product, AgentPipelineAssumption
<1>3. IsFiniteSet(D)
  BY <1>2, FS_Subset
<1>. QED
  BY <1>3, FS_CardinalityType, FS_AddElement

(* The row of a signal is written, or the cycle ends.                       *)
LEMMA RecordKeeps ==
  ASSUME AccountsTyped, RunsTyped, LimitsInv, NEW r \in Runners, RecordSignal(r)
  PROVE  RunsTyped' /\ LimitsInv' /\ UNCHANGED <<accounts, extra>>
<1>1. /\ run[r] \in Runs /\ run[r].at = "record" /\ run[r].agent \in Agents
      /\ run \in [Runners -> Runs] /\ run[r].order \in Orders /\ ~run[r].bought
  BY DEF RunsTyped, RecordSignal
<1>2. UNCHANGED <<accounts, extra>>
  BY DEF RecordSignal
<1>. PICK key : key = <<run[r].order.symbol, run[r].order.side>>
  OBVIOUS
<1>3. key \in Symbols \X Sides
  BY <1>1 DEF Orders
<1>4. CASE key \in run[r].done
  <2>1. run' = [run EXCEPT ![r] = NoRun] /\ NoRun \in Runs
    BY <1>4 DEF RecordSignal, NoRun, Runs, Steps
  <2>. QED
    BY <1>2, <2>1, CalmStep DEF NoRun
<1>5. CASE key \notin run[r].done
  <2>. PICK x : x = [run[r] EXCEPT !.at = "place", !.done = run[r].done \cup {key}]
    OBVIOUS
  <2>1. /\ x \in Runs /\ x.at = "place" /\ x.agent = run[r].agent /\ ~x.bought
        /\ x.order = run[r].order /\ x.equity = run[r].equity
        /\ x.fills = run[r].fills /\ x.done = run[r].done \cup {key}
    BY <1>1, <1>3 DEF Runs, Steps
  <2>2. run' = [run EXCEPT ![r] = x]
    <3>1. run' = [run EXCEPT ![r].at = "place", ![r].done = @ \cup {key}]
      BY <1>5 DEF RecordSignal
    <3>. QED
      BY <1>1, <3>1
  <2>3. /\ run' \in [Runners -> Runs] /\ run'[r] = x
        /\ \A other \in Runners \ {r} : run'[other] = run[other]
    BY <1>1, <2>1, <2>2
  <2>4. RunsTyped'
    BY ZenonT(60), <1>1, <2>1, <2>3 DEF RunsTyped
  <2>5. \A other \in Runners \ {r} : Fits(other)' /\ Bought(other)' /\ Counted(other)'
    BY <1>2, <2>3, StillKeeps DEF LimitsInv
  <2>6. Counted(r)'
    <3>1. run[r].fills <= Cardinality(run[r].done)
      BY DEF LimitsInv, Counted
    <3>2. /\ Cardinality(run[r].done) \in Nat /\ run[r].fills \in Nat
          /\ Cardinality(run[r].done \cup {key}) = Cardinality(run[r].done) + 1
      BY <1>1, <1>5, KeysFinite DEF Runs
    <3>. QED
      BY <2>1, <2>3, <3>1, <3>2 DEF Counted
  <2>7. Bought(r)'
    BY <2>1, <2>3 DEF Bought
  <2>8. Fits(r)'
    BY ZenonT(60), <1>1, <1>2, <2>1, <2>3 DEF LimitsInv, Fits, accounts, Open, Exposure
  <2>9. \A a \in Agents : Room(a)'
    BY <1>2 DEF LimitsInv, Room, Open, accounts
  <2>. QED
    BY <1>2, <2>4, <2>5, <2>6, <2>7, <2>8, <2>9 DEF LimitsInv
<1>. QED
  BY <1>4, <1>5

-----------------------------------------------------------------------------
(* Every order stays in the list it was appended to.                        *)
OrdersStay ==
  \A b \in Agents : \A k \in DOMAIN orders[b] : k \in DOMAIN orders'[b] /\ orders'[b][k] = orders[b][k]

(* The count of the buys nobody could see only goes up, and by such a buy.  *)
LEMMA UnseenEffect ==
  ASSUME AccountsTyped, NEW a \in Agents, NEW o \in Orders, NEW hidden \in BOOLEAN,
         Unseen(a, o, hidden)
  PROVE  /\ extra' \in [Agents -> Nat]
         /\ \A b \in Agents : extra'[b] >= extra[b]
         /\ o.side = "buy" /\ hidden /\ Fills(a, o) => extra'[a] = extra[a] + 1
<1>. PICK n \in {0, 1} : /\ n = (IF o.side = "buy" /\ hidden /\ Fills(a, o) THEN 1 ELSE 0)
                         /\ extra' = [extra EXCEPT ![a] = @ + n]
  BY DEF Unseen
<1>. QED
  BY DEF AccountsTyped

(* A trade past every runner: the routes', and the coordinator's copy.      *)
LEMMA DirectKeeps ==
  ASSUME AccountsTyped, RunsTyped, LimitsInv, NEW a \in Agents, NEW o \in Orders,
         PlaceOrder(a, o), Unseen(a, o, TRUE), run' = run
  PROVE  AccountsTyped' /\ RunsTyped' /\ LimitsInv' /\ OrdersStay
<1>1. /\ extra' \in [Agents -> Nat] /\ \A b \in Agents : extra'[b] >= extra[b]
      /\ o.side = "buy" /\ Fills(a, o) => extra'[a] = extra[a] + 1
  BY UnseenEffect
<1>2. /\ cash' \in [Agents -> Nat] /\ pos' \in [Agents -> [Symbols -> Positions]]
      /\ orders' \in [Agents -> Seq(Orders)] /\ OrdersStay
  BY OrderEffect DEF OrdersStay
<1>3. \A b \in Agents : Room(b)'
  BY <1>1, RoomKept DEF LimitsInv
<1>4. \A r \in Runners : Fits(r)' /\ Bought(r)' /\ Counted(r)'
  BY <1>1, PassedKeeps DEF LimitsInv
<1>5. RunsTyped'
  BY DEF RunsTyped
<1>. QED
  BY <1>1, <1>2, <1>3, <1>4, <1>5 DEF AccountsTyped, LimitsInv

(* A runner's own trade.                                                    *)
LEMMA PlaceKeeps ==
  ASSUME AccountsTyped, RunsTyped, LimitsInv, NEW r \in Runners, PlaceSignal(r)
  PROVE  AccountsTyped' /\ RunsTyped' /\ LimitsInv' /\ OrdersStay
<1>1. /\ run[r] \in Runs /\ run[r].at = "place" /\ run[r].agent \in Agents
      /\ run \in [Runners -> Runs] /\ run[r].order \in Orders
  BY DEF RunsTyped, PlaceSignal
<1>. PICK a \in Agents, o \in Orders : a = run[r].agent /\ o = run[r].order
  BY <1>1
<1>. PICK hidden \in BOOLEAN : hidden = (\E other \in Runners \ {r} : run[other].agent = a)
  OBVIOUS
<1>. PICK filled \in BOOLEAN : filled <=> Fills(a, o)
  OBVIOUS
<1>2. PlaceOrder(a, o) /\ Unseen(a, o, hidden)
  BY DEF PlaceSignal
<1>3. /\ extra' \in [Agents -> Nat] /\ \A b \in Agents : extra'[b] >= extra[b]
      /\ o.side = "buy" /\ hidden /\ Fills(a, o) => extra'[a] = extra[a] + 1
  BY <1>2, UnseenEffect
<1>4. /\ cash' \in [Agents -> Nat] /\ pos' \in [Agents -> [Symbols -> Positions]]
      /\ orders' \in [Agents -> Seq(Orders)] /\ OrdersStay
      /\ o.side = "buy" /\ Fills(a, o) => Exposure(a)' = Exposure(a) + Notional(o.price, o.qty)
  BY <1>2, OrderEffect DEF OrdersStay
<1>. PICK n \in {0, 1} : n = (IF filled THEN 1 ELSE 0)
  OBVIOUS
<1>. PICK bought \in BOOLEAN : bought <=> filled /\ o.side = "buy"
  OBVIOUS
<1>. PICK m \in Nat : m = run[r].fills + n
  BY <1>1 DEF Runs
<1>. PICK x : x = [run[r] EXCEPT !.at = "next", !.order = NoOrder, !.bought = bought, !.fills = m]
  OBVIOUS
<1>5. /\ x \in Runs /\ x.at = "next" /\ x.agent = a /\ x.bought = bought
      /\ x.equity = run[r].equity /\ x.fills = m /\ x.done = run[r].done
  BY <1>1 DEF Runs, Steps
<1>6. run' = [run EXCEPT ![r] = x]
  <2>1. run' = [run EXCEPT ![r].at = "next", ![r].order = NoOrder,
                           ![r].bought = filled /\ o.side = "buy",
                           ![r].fills = @ + (IF filled THEN 1 ELSE 0)]
    <3>1. /\ (Fills(a, o) /\ o.side = "buy") = (filled /\ o.side = "buy")
          /\ (IF Fills(a, o) THEN 1 ELSE 0) = (IF filled THEN 1 ELSE 0)
      OBVIOUS
    <3>. QED
      BY <3>1 DEF PlaceSignal
  <2>2. (filled /\ o.side = "buy") = bought
    OBVIOUS
  <2>3. run' = [run EXCEPT ![r].at = "next", ![r].order = NoOrder,
                           ![r].bought = bought, ![r].fills = m]
    BY <1>1, <2>1, <2>2
  <2>. QED
    BY <1>1, <2>3
<1>7. /\ run' \in [Runners -> Runs] /\ run'[r] = x
      /\ \A other \in Runners \ {r} : run'[other] = run[other]
  BY <1>1, <1>5, <1>6
<1>8. RunsTyped'
  <2>1. /\ run'[r].at = "next" /\ run'[r].agent \in Agents
    BY <1>5, <1>7
  <2>2. \A other \in Runners \ {r} :
          /\ run'[other].at \notin {"idle", "threw"} => run'[other].agent \in Agents
          /\ run'[other].at \in {"record", "place"} => run'[other].order \in Orders
          /\ run'[other].bought => run'[other].at = "next"
    BY <1>7 DEF RunsTyped
  <2>. QED
    BY <1>7, <2>1, <2>2 DEF RunsTyped
<1>9. ASSUME NEW other \in Runners \ {r} PROVE Fits(other)' /\ Bought(other)' /\ Counted(other)'
  <2>1. run[other].agent = a => hidden
    OBVIOUS
  <2>2. run[other].agent = a /\ o.side = "buy" /\ Fills(a, o) => extra'[a] = extra[a] + 1
    BY <1>3, <2>1
  <2>. QED
    BY <1>2, <1>3, <1>7, <2>2, PassedKeeps DEF LimitsInv
<1>10. Fits(r) /\ Counted(r)
  BY DEF LimitsInv
<1>11. Counted(r)'
  <2>1. run[r].fills < Cardinality(run[r].done)
    BY <1>1, <1>10 DEF Counted
  <2>2. run[r].fills \in Nat /\ Cardinality(run[r].done) \in Nat
    BY <1>1, KeysFinite DEF Runs
  <2>. QED
    BY <1>5, <1>7, <2>1, <2>2 DEF Counted
<1>12. Fits(r)'
  BY <1>5, <1>7 DEF Fits
<1>13. Bought(r)'
  <2> SUFFICES ASSUME bought, extra'[a] = 0
               PROVE  100 * Exposure(a)' <= run[r].equity * MaxTotalAllocationPct
    BY <1>5, <1>7 DEF Bought
  <2>1. extra[a] = 0
    BY <1>3 DEF AccountsTyped
  <2>2. 100 * (Exposure(a) + Notional(o.price, o.qty)) <= run[r].equity * MaxTotalAllocationPct
    BY <1>1, <1>10, <2>1 DEF Fits
  <2>. QED
    BY <1>4, <2>2
<1>14. \A b \in Agents : Room(b)'
  <2>1. CASE o.side = "buy"
    <3>1. Cardinality(Open(a) \cup {o.symbol}) <= MaxPositions + extra[a]
      BY <1>1, <1>10, <2>1 DEF Fits
    <3>. QED
      BY <1>2, <1>3, <3>1, RoomKept DEF LimitsInv
  <2>2. CASE o.side # "buy"
    BY <1>2, <1>3, <2>2, RoomKept DEF LimitsInv
  <2>. QED
    BY <2>1, <2>2
<1>15. \A other \in Runners : Fits(other)' /\ Bought(other)' /\ Counted(other)'
  BY <1>9, <1>11, <1>12, <1>13
<1>. QED
  BY <1>3, <1>4, <1>8, <1>14, <1>15 DEF AccountsTyped, LimitsInv

-----------------------------------------------------------------------------
(* Runners and accounts that nothing happens to.                            *)
LEMMA NothingMoves ==
  ASSUME AccountsTyped, RunsTyped, LimitsInv, UNCHANGED <<accounts, extra, run>>
  PROVE  AccountsTyped' /\ RunsTyped' /\ LimitsInv' /\ OrdersStay
<1>1. AccountsTyped' /\ RunsTyped' /\ OrdersStay
  BY DEF AccountsTyped, RunsTyped, OrdersStay, accounts
<1>2. \A r \in Runners : Fits(r)' /\ Bought(r)' /\ Counted(r)'
  BY StillKeeps DEF LimitsInv
<1>3. \A a \in Agents : Room(a)'
  BY DEF LimitsInv, Room, Open, accounts
<1>. QED
  BY <1>1, <1>2, <1>3 DEF LimitsInv

(* The accounts keep their type when only runners move.                     *)
LEMMA OnlyRunners ==
  ASSUME AccountsTyped, UNCHANGED <<accounts, extra>>
  PROVE  AccountsTyped' /\ OrdersStay
BY DEF AccountsTyped, OrdersStay, accounts

(* A cycle that begins.                                                     *)
LEMMA BeginKeeps ==
  ASSUME RunsTyped, LimitsInv, UNCHANGED <<accounts, extra>>,
         NEW r \in Runners, NEW a \in Agents, NEW name, Begin(r, a, name)
  PROVE  RunsTyped' /\ LimitsInv'
<1>. PICK x : x = IF name = "agent-driven" THEN [NoRun EXCEPT !.at = "theme", !.agent = a]
                                           ELSE NoRun
  OBVIOUS
<1>1. /\ x \in Runs /\ x.at \in {"theme", "idle"} /\ ~x.bought
      /\ x.at # "idle" => x.agent = a
      /\ x.fills = 0 /\ x.done = {}
  BY DEF NoRun, Runs, Steps
<1>2. run' = [run EXCEPT ![r] = x]
  BY DEF Begin
<1>. QED
  BY <1>1, <1>2, CalmStep

(* A cycle that is over.                                                    *)
LEMMA EndKeeps ==
  ASSUME RunsTyped, LimitsInv, UNCHANGED <<accounts, extra>>,
         NEW r \in Runners, run' = [run EXCEPT ![r] = NoRun]
  PROVE  RunsTyped' /\ LimitsInv'
<1>1. NoRun \in Runs
  BY DEF NoRun, Runs, Steps
<1>. QED
  BY <1>1, CalmStep DEF NoRun

(* A step of a runner.                                                      *)
LEMMA CycleKeeps ==
  ASSUME AccountsTyped, RunsTyped, TablesTyped, LimitsInv, NEW r \in Runners, Cycle(r)
  PROVE  AccountsTyped' /\ RunsTyped' /\ TablesTyped' /\ LimitsInv' /\ OrdersStay
<1>1. CASE \/ LookForTheme(r) \/ InsertTheme(r) \/ (\E quotes \in Quotes : ReadEquity(r, quotes))
           \/ AgentAnswers(r) \/ AgentFails(r) \/ EndSignals(r)
  <2>1. RunsTyped' /\ LimitsInv' /\ UNCHANGED <<accounts, extra>>
    BY <1>1, CalmCycle
  <2>2. agents' = agents /\ queue' = queue
    BY <1>1 DEF LookForTheme, InsertTheme, ReadEquity, AgentAnswers, AgentFails,
       EndSignals, tables
  <2>3. themeRows' \subseteq Agents
    <3>1. CASE InsertTheme(r)
      BY <3>1 DEF InsertTheme, TablesTyped, RunsTyped
    <3>2. CASE ~InsertTheme(r)
      BY <1>1, <3>2 DEF LookForTheme, ReadEquity, AgentAnswers, AgentFails, EndSignals,
         tables,
                        TablesTyped
    <3>. QED
      BY <3>1, <3>2
  <2>. QED
    BY <2>1, <2>2, <2>3, OnlyRunners DEF TablesTyped
<1>2. CASE \E signal \in Signals, price \in Prices \cup {NoPrice} : DecideSignal(r, signal, price)
  <2>1. RunsTyped' /\ LimitsInv' /\ UNCHANGED <<accounts, extra>>
    BY <1>2, DecisionFits
  <2>2. UNCHANGED <<agents, themeRows, queue>>
    BY <1>2 DEF DecideSignal, tables
  <2>. QED
    BY <2>1, <2>2, OnlyRunners DEF TablesTyped
<1>3. CASE RecordSignal(r)
  <2>1. RunsTyped' /\ LimitsInv' /\ UNCHANGED <<accounts, extra>>
    BY <1>3, RecordKeeps
  <2>2. UNCHANGED <<agents, themeRows, queue>>
    BY <1>3 DEF RecordSignal
  <2>. QED
    BY <2>1, <2>2, OnlyRunners DEF TablesTyped
<1>4. CASE PlaceSignal(r)
  <2>1. UNCHANGED <<agents, themeRows, queue>>
    BY <1>4 DEF PlaceSignal
  <2>. QED
    BY <1>4, <2>1, PlaceKeeps DEF TablesTyped
<1>. QED
  BY <1>1, <1>2, <1>3, <1>4 DEF Cycle

(* A request to a route.                                                    *)
LEMMA RequestKeeps ==
  ASSUME AccountsTyped, RunsTyped, TablesTyped, LimitsInv, Requests
  PROVE  AccountsTyped' /\ RunsTyped' /\ TablesTyped' /\ LimitsInv' /\ OrdersStay
<1>. PICK a \in Agents :
       \/ \E name \in Strategies \cup {None} : Register(a, name)
       \/ \E name \in Strategies : SetStrategy(a, name)
       \/ \E active \in BOOLEAN : SetActive(a, active)
       \/ \E o \in [symbol : Symbols, side : Sides, qty : Quantities, price : Prices] : Trade(a, o)
  BY DEF Requests
<1>1. CASE \/ \E name \in Strategies \cup {None} : Register(a, name)
           \/ \E name \in Strategies : SetStrategy(a, name)
           \/ \E active \in BOOLEAN : SetActive(a, active)
  <2>1. UNCHANGED <<themeRows, queue, accounts, extra, run>>
    BY <1>1 DEF Register, SetStrategy, SetActive
  <2>2. agents' \in [Agents -> AgentRows]
    <3>1. agents \in [Agents -> AgentRows] /\ agents[a] \in AgentRows
      BY DEF TablesTyped
    <3>2. CASE \E name \in Strategies \cup {None} : Register(a, name)
      BY <3>1, <3>2 DEF Register, AgentRows
    <3>3. CASE \E name \in Strategies : SetStrategy(a, name)
      <4>. PICK name \in Strategies : agents' = [agents EXCEPT ![a].strategy = name]
        BY <3>3 DEF SetStrategy
      <4>. QED
        BY <3>1 DEF AgentRows
    <3>4. CASE \E active \in BOOLEAN : SetActive(a, active)
      <4>. PICK active \in BOOLEAN : agents' = [agents EXCEPT ![a].active = active]
        BY <3>4 DEF SetActive
      <4>. QED
        BY <3>1 DEF AgentRows
    <3>. QED
      BY <1>1, <3>2, <3>3, <3>4
  <2>. QED
    BY <2>1, <2>2, NothingMoves DEF TablesTyped
<1>2. CASE \E o \in [symbol : Symbols, side : Sides, qty : Quantities, price : Prices] : Trade(a, o)
  <2>. PICK o \in [symbol : Symbols, side : Sides, qty : Quantities, price : Prices] : Trade(a, o)
    BY <1>2
  <2>1. o \in Orders
    BY AgentPipelineAssumption DEF Orders
  <2>2. PlaceOrder(a, o) /\ Unseen(a, o, TRUE) /\ UNCHANGED <<run, agents, themeRows, queue>>
    BY DEF Trade
  <2>. QED
    BY <2>1, <2>2, DirectKeeps DEF TablesTyped
<1>. QED
  BY <1>1, <1>2

(* The agents that are run are listed once.                                 *)
LEMMA ListTyped ==
  ASSUME TablesTyped, NEW list \in SetToSeqs(Runnable)
  PROVE  [i \in DOMAIN list |-> Job(list[i])] \in Seq(Jobs)
<1>1. Runnable \in SUBSET Agents /\ \A a \in Runnable : Job(a) \in Jobs
  BY DEF Runnable, Job, Jobs, TablesTyped, AgentRows
<1>2. Cardinality(Runnable) \in Nat
  BY <1>1, FS_Subset, FS_CardinalityType, AgentPipelineAssumption
<1>3. list \in [1..Cardinality(Runnable) -> Runnable]
  BY DEF SetToSeqs
<1>4. [i \in DOMAIN list |-> Job(list[i])] \in [1..Cardinality(Runnable) -> Jobs]
  BY <1>1, <1>3
<1>. QED
  BY <1>2, <1>4, SeqDef

(* A step of the pipeline.                                                  *)
LEMMA PipelineKeeps ==
  ASSUME AccountsTyped, RunsTyped, TablesTyped, LimitsInv, PipelineNext
  PROVE  AccountsTyped' /\ RunsTyped' /\ TablesTyped' /\ LimitsInv' /\ OrdersStay
<1>0. Pipeline \in Runners
  BY AgentPipelineAssumption
<1>1. CASE StartPipeline
  <2>1. /\ UNCHANGED <<agents, themeRows, accounts, extra>>
        /\ run' = [run EXCEPT ![Pipeline] = NoRun]
    BY <1>1 DEF StartPipeline, tables
  <2>2. queue' \in Seq(Jobs)
    <3>1. CASE \E list \in SetToSeqs(Runnable) : queue' = [i \in DOMAIN list |-> Job(list[i])]
      BY <3>1, ListTyped
    <3>2. CASE \E a \in Runnable : queue' = <<Job(a)>>
      BY <3>2 DEF Runnable, Job, Jobs, TablesTyped, AgentRows
    <3>. QED
      BY <1>1, <3>1, <3>2 DEF StartPipeline
  <2>. QED
    BY <1>0, <2>1, <2>2, EndKeeps, OnlyRunners DEF TablesTyped
<1>2. CASE RunNext
  <2>1. queue \in Seq(Jobs) /\ queue # <<>>
    BY <1>2 DEF RunNext, TablesTyped
  <2>2. Head(queue) \in Jobs /\ Tail(queue) \in Seq(Jobs)
    BY <2>1, HeadTailProperties
  <2>. PICK a \in Agents, name \in Strategies : a = Head(queue).agent /\ name = Head(queue).strategy
    BY <2>2 DEF Jobs
  <2>3. Begin(Pipeline, a, name) /\ queue' = Tail(queue)
    BY <1>2 DEF RunNext, Begin
  <2>4. UNCHANGED <<agents, themeRows, accounts, extra>>
    BY <1>2 DEF RunNext, tables
  <2>. QED
    BY <1>0, <2>2, <2>3, <2>4, BeginKeeps, OnlyRunners DEF TablesTyped
<1>3. CASE \E r \in Runners : Cycle(r)
  BY <1>3, CycleKeeps
<1>4. CASE Requests
  BY <1>4, RequestKeeps
<1>. QED
  BY <1>1, <1>2, <1>3, <1>4 DEF PipelineNext

-----------------------------------------------------------------------------
(* The end of a list, and the list backwards, are made of its members.      *)
LEMMA LastOfTyped ==
  ASSUME NEW S, NEW list \in Seq(S), NEW n \in Nat
  PROVE  /\ LastOf(list, n) \in Seq(S)
         /\ \A i \in DOMAIN LastOf(list, n) : \E k \in DOMAIN list : LastOf(list, n)[i] = list[k]
<1> DEFINE m == IF Len(list) > n THEN Len(list) - n + 1 ELSE 1
<1>0. Len(list) \in Nat /\ DOMAIN list = 1..Len(list)
  OBVIOUS
<1>1. m \in Int /\ m >= 1
  BY <1>0
<1>4. LastOf(list, n) = SubSeq(list, m, Len(list))
  BY DEF LastOf
<1> HIDE DEF m
<1>2. \A i \in m..Len(list) : list[i] \in S
  BY <1>0, <1>1
<1>3. /\ SubSeq(list, m, Len(list)) \in Seq(S)
      /\ Len(SubSeq(list, m, Len(list))) = IF m <= Len(list) THEN Len(list) - m + 1 ELSE 0
      /\ \A i \in 1..Len(list) - m + 1 : SubSeq(list, m, Len(list))[i] = list[m + i - 1]
  BY <1>0, <1>1, <1>2, SubSeqProperties
<1>5. ASSUME NEW i \in DOMAIN LastOf(list, n)
      PROVE  \E k \in DOMAIN list : LastOf(list, n)[i] = list[k]
  <2>1. i \in 1..Len(list) - m + 1
    BY <1>0, <1>1, <1>3, <1>4, <1>5
  <2>2. m + i - 1 \in DOMAIN list
    BY <1>0, <1>1, <2>1
  <2>. QED
    BY <1>3, <1>4, <2>1, <2>2
<1>. QED
  BY <1>3, <1>4, <1>5

(* The same of the list backwards.                                          *)
LEMMA ReverseTyped ==
  ASSUME NEW S, NEW list \in Seq(S)
  PROVE  /\ Reverse(list) \in Seq(S)
         /\ \A i \in DOMAIN Reverse(list) : \E k \in DOMAIN list : Reverse(list)[i] = list[k]
<1>1. Len(list) \in Nat /\ DOMAIN Reverse(list) = 1..Len(list)
  BY DEF Reverse
<1>2. ASSUME NEW i \in 1..Len(list)
      PROVE  Len(list) - i + 1 \in DOMAIN list /\ Reverse(list)[i] = list[(Len(list) - i) + 1]
  BY <1>1 DEF Reverse
<1>3. Reverse(list) \in [1..Len(list) -> S]
  BY <1>1, <1>2 DEF Reverse
<1>. QED
  BY <1>1, <1>2, <1>3, SeqDef

\* Every member of the list is a trade of the researcher.
Traded(list) ==
  \A i \in DOMAIN list : \E k \in DOMAIN orders[Researcher] : orders[Researcher][k] = list[i]

(* The signals that are extracted are.                                      *)
LEMMA ExtractedTraded ==
  ASSUME AccountsTyped
  PROVE  ExtractSignals \in Seq(Orders) /\ Traded(ExtractSignals)
<1>. PICK list \in Seq(Orders) : list = orders[Researcher]
  BY A2ACoordinatorAssumption DEF AccountsTyped
<1>. PICK n \in Nat, m \in Nat : n = TradesLimit /\ m = RecentTrades
  BY A2ACoordinatorAssumption
<1> DEFINE newest == LastOf(list, n)
           back == Reverse(newest)
           end == LastOf(back, m)
<1>2. /\ newest \in Seq(Orders)
      /\ \A i \in DOMAIN newest : \E k \in DOMAIN list : newest[i] = list[k]
  <2>1. newest \in Seq(Orders)
    BY LastOfTyped
  <2>2. \A i \in DOMAIN newest : \E k \in DOMAIN list : newest[i] = list[k]
    BY LastOfTyped
  <2>. QED
    BY <2>1, <2>2
<1> HIDE DEF newest
<1>3. /\ back \in Seq(Orders)
      /\ \A i \in DOMAIN back : \E k \in DOMAIN newest : back[i] = newest[k]
  BY <1>2, ReverseTyped
<1> HIDE DEF back
<1>4. /\ end \in Seq(Orders)
      /\ \A i \in DOMAIN end : \E k \in DOMAIN back : end[i] = back[k]
  <2>1. end \in Seq(Orders)
    BY <1>3, LastOfTyped
  <2>2. \A i \in DOMAIN end : \E k \in DOMAIN back : end[i] = back[k]
    BY <1>3, LastOfTyped
  <2>. QED
    BY <2>1, <2>2
<1>5. ExtractSignals = end
  BY DEF ExtractSignals, newest, back
<1> HIDE DEF end
<1>6. \A i \in DOMAIN end : \E k \in DOMAIN list : list[k] = end[i]
  BY <1>2, <1>3, <1>4
<1>. QED
  BY <1>4, <1>5, <1>6 DEF Traded

(* What is approved is part of what was reviewed, and within the means.     *)
LEMMA ApprovedPart ==
  ASSUME StageTyped, NEW equity \in Nat, NEW list \in Approved(equity)
  PROVE  /\ [k \in DOMAIN list |-> signals[list[k]]] \in Seq(Orders)
         /\ \A k \in DOMAIN list : list[k] \in DOMAIN signals /\ Approves(signals[list[k]], equity)
<1> DEFINE kept == {i \in DOMAIN signals : Approves(signals[i], equity)}
<1>1. signals \in Seq(Orders)
  BY DEF StageTyped
<1>2. Cardinality(kept) \in Nat
  <2>1. DOMAIN signals = 1..Len(signals) /\ Len(signals) \in Nat
    BY <1>1
  <2>2. IsFiniteSet(DOMAIN signals)
    BY <2>1, FS_Interval
  <2>. QED
    BY <2>2, FS_Subset, FS_CardinalityType
<1>3. list \in [1..Cardinality(kept) -> kept]
  BY DEF Approved, SetToSeqs
<1>4. \A i \in kept : i \in DOMAIN signals /\ signals[i] \in Orders /\ Approves(signals[i], equity)
  BY <1>1
<1> HIDE DEF kept
<1>5. [k \in DOMAIN list |-> signals[list[k]]] \in [1..Cardinality(kept) -> Orders]
  BY <1>3, <1>4
<1>. QED
  BY <1>2, <1>3, <1>4, <1>5, SeqDef

-----------------------------------------------------------------------------
(* The coordinator is where it was, and orders are only added.              *)
LEMMA VettedStays ==
  ASSUME Vetted, OrdersStay, UNCHANGED <<stage, signals, reviewer, means>>
  PROVE  Vetted'
<1>1. Researcher \in Agents
  BY A2ACoordinatorAssumption
<1>. QED
  BY <1>1 DEF Vetted, OrdersStay, Approves, Cost

(* A cycle of the coordinator that ends.                                    *)
LEMMA EndVetted ==
  ASSUME EndCycle
  PROVE  StageTyped' /\ Vetted'
BY DEF EndCycle, StageTyped, Vetted, Stages

(* A step of the coordinator keeps what it has in hand reviewed.            *)
LEMMA CoordinatorKeeps ==
  ASSUME A2AInv, CoordinatorNext
  PROVE  A2AInv'
<1> USE DEF A2AInv, Typed
<1>0. /\ Researcher \in Agents /\ Validator \in Agents /\ Executor \in Agents
      /\ Coordinator \in Runners
  BY A2ACoordinatorAssumption
<1>1. CASE StartCycle
  <2>. PICK name : name = agents[Researcher].strategy
    OBVIOUS
  <2>1. /\ UNCHANGED <<agents, themeRows, queue, accounts, extra>>
        /\ Begin(Coordinator, Researcher, name)
    BY <1>1 DEF StartCycle, tables
  <2>2. StageTyped' /\ Vetted'
    BY <1>1 DEF StartCycle, StageTyped, Vetted, Stages
  <2>. QED
    BY <1>0, <2>1, <2>2, BeginKeeps, OnlyRunners DEF TablesTyped
<1>2. CASE Research
  <2>1. /\ UNCHANGED <<agents, themeRows, queue, accounts, extra>>
        /\ run' = [run EXCEPT ![Coordinator] = NoRun]
    BY <1>2 DEF Research, tables
  <2>2. StageTyped' /\ Vetted'
    <3>1. CASE EndCycle
      BY <3>1, EndVetted
    <3>2. CASE /\ stage' = "validate" /\ signals' = ExtractSignals
               /\ UNCHANGED <<reviewer, means, strategy>>
      <4>1. signals' \in Seq(Orders) /\ Traded(signals') /\ orders' = orders
        BY <2>1, <3>2, ExtractedTraded DEF accounts
      <4>2. StageTyped'
        BY <3>2, <4>1 DEF StageTyped, Stages
      <4>. QED
        BY <3>2, <4>1, <4>2 DEF Vetted, Traded
    <3>. QED
      BY <1>2, <3>1, <3>2 DEF Research
  <2>. QED
    BY <1>0, <2>1, <2>2, EndKeeps, OnlyRunners DEF TablesTyped
<1>3. CASE \E quotes \in Quotes : Validate(quotes)
  <2>. PICK quotes \in Quotes : Validate(quotes)
    BY <1>3
  <2>. PICK equity \in Nat : equity = Equity(Validator, quotes)
    BY <1>0, EquityNat
  <2>1. /\ stage = "validate" /\ stage' = "find" /\ reviewer' = "validator" /\ means' = equity
        /\ UNCHANGED <<strategy, pipelineVars>>
    BY DEF Validate
  <2>. PICK list \in Approved(equity) : signals' = [k \in DOMAIN list |-> signals[list[k]]]
    BY DEF Validate
  <2>2. /\ signals' \in Seq(Orders)
        /\ \A k \in DOMAIN list : list[k] \in DOMAIN signals /\ Approves(signals[list[k]], equity)
    BY ApprovedPart
  <2>3. \A k \in DOMAIN signals' :
          list[k] \in DOMAIN signals /\ signals'[k] = signals[list[k]] /\ Approves(signals'[k], equity)
    BY <2>2
  <2>4. Vetted'
    <3>1. orders' = orders
      BY <2>1 DEF pipelineVars, tables, accounts
    <3>2. \A k \in DOMAIN signals' :
            \E j \in DOMAIN orders[Researcher] : orders[Researcher][j] = signals'[k]
      BY <2>1, <2>3 DEF Vetted
    <3>. QED
      BY <2>1, <2>3, <3>1, <3>2 DEF Vetted, Approves, Cost
  <2>5. StageTyped'
    BY <2>1, <2>2 DEF StageTyped, Stages
  <2>6. UNCHANGED <<accounts, extra, run, agents, themeRows, queue>>
    BY <2>1 DEF pipelineVars, tables
  <2>. QED
    BY <2>4, <2>5, <2>6, NothingMoves DEF TablesTyped
<1>4. CASE ApproveUnseen \/ ValidationFails \/ FindExecutor
  <2>1. UNCHANGED <<accounts, extra, run, agents, themeRows, queue>>
    BY <1>4 DEF ApproveUnseen, ValidationFails, FindExecutor, pipelineVars, tables
  <2>2. CASE EndCycle
    BY <2>1, <2>2, EndVetted, NothingMoves DEF TablesTyped
  <2>3. CASE ApproveUnseen
    <3>1. Vetted' /\ StageTyped'
      BY <2>1, <2>3 DEF ApproveUnseen, Vetted, StageTyped, Stages, accounts
    <3>. QED
      BY <2>1, <3>1, NothingMoves DEF TablesTyped
  <2>4. CASE FindExecutor /\ ~EndCycle
    <3>1. /\ stage = "find" /\ stage' = "copy" /\ HasStrategy(Executor)
          /\ strategy' = agents[Executor].strategy /\ UNCHANGED <<signals, reviewer, means>>
      BY <2>4 DEF FindExecutor
    <3>2. StageTyped'
      BY <1>0, <3>1 DEF StageTyped, Stages, TablesTyped, AgentRows
    <3>3. Vetted'
      BY <2>1, <3>1 DEF Vetted, accounts, Approves, Cost
    <3>. QED
      BY <2>1, <3>2, <3>3, NothingMoves DEF TablesTyped
  <2>. QED
    BY <1>4, <2>2, <2>3, <2>4 DEF ValidationFails
<1>5. CASE \E quote \in Prices \cup {NoPrice} : CopyTrade(quote)
  <2>. PICK quote \in Prices \cup {NoPrice} : CopyTrade(quote)
    BY <1>5
  <2>1. /\ stage = "copy" /\ signals # <<>> /\ signals \in Seq(Orders) /\ signals' = Tail(signals)
        /\ UNCHANGED <<stage, reviewer, means, strategy, run, agents, themeRows, queue>>
    BY DEF CopyTrade, StageTyped
  <2>2. /\ Head(signals) \in Orders /\ Tail(signals) \in Seq(Orders)
        /\ Len(Tail(signals)) = Len(signals) - 1
        /\ \A i \in 1..Len(Tail(signals)) : Tail(signals)[i] = signals[i + 1]
    BY <2>1, HeadTailProperties
  <2>3. \A i \in DOMAIN signals' : i + 1 \in DOMAIN signals /\ signals'[i] = signals[i + 1]
    BY <2>1, <2>2
  <2>4. AccountsTyped' /\ RunsTyped' /\ LimitsInv' /\ OrdersStay
    <3>1. CASE quote = NoPrice
      <4>1. UNCHANGED <<accounts, extra, run>>
        BY <3>1 DEF CopyTrade
      <4>. QED
        BY <4>1, NothingMoves
    <3>2. CASE quote # NoPrice
      <4>. PICK o \in Orders : o = [Head(signals) EXCEPT !.price = quote]
        BY <2>2, <3>2 DEF Orders
      <4>1. PlaceOrder(Executor, o) /\ Unseen(Executor, o, TRUE) /\ run' = run
        BY <3>2 DEF CopyTrade
      <4>. QED
        BY <1>0, <4>1, DirectKeeps
    <3>. QED
      BY <3>1, <3>2
  <2>5. StageTyped'
    BY <2>1, <2>2 DEF StageTyped
  <2>6. Vetted'
    <3>1. \A i \in DOMAIN signals' :
            \E k \in DOMAIN orders'[Researcher] : orders'[Researcher][k] = signals'[i]
      BY <1>0, <2>1, <2>3, <2>4 DEF Vetted, OrdersStay
    <3>2. reviewer # "none" /\ (reviewer = "validator" =>
            \A i \in DOMAIN signals' : Approves(signals'[i], means))
      BY <2>1, <2>3 DEF Vetted
    <3>. QED
      BY <2>1, <3>1, <3>2 DEF Vetted, Approves, Cost
  <2>. QED
    BY <2>1, <2>4, <2>5, <2>6 DEF TablesTyped
<1>6. CASE RunExecutor
  <2>. PICK name : name = strategy
    OBVIOUS
  <2>1. /\ UNCHANGED <<agents, themeRows, queue, accounts, extra>>
        /\ Begin(Coordinator, Executor, name)
    BY <1>6 DEF RunExecutor, tables
  <2>2. StageTyped' /\ Vetted'
    BY <1>6 DEF RunExecutor, StageTyped, Vetted, Stages
  <2>. QED
    BY <1>0, <2>1, <2>2, BeginKeeps, OnlyRunners DEF TablesTyped
<1>7. CASE ExecutorDone
  <2>1. /\ UNCHANGED <<agents, themeRows, queue, accounts, extra>>
        /\ run' = [run EXCEPT ![Coordinator] = NoRun] /\ EndCycle
    BY <1>7 DEF ExecutorDone, tables
  <2>. QED
    BY <1>0, <2>1, EndVetted, EndKeeps, OnlyRunners DEF TablesTyped
<1>. QED
  BY <1>1, <1>2, <1>3, <1>4, <1>5, <1>6, <1>7 DEF CoordinatorNext

(* A restart drops what was under way.                                      *)
LEMMA RestartKeeps ==
  ASSUME A2AInv, Restart
  PROVE  A2AInv'
<1> USE DEF A2AInv, Typed
<1>1. /\ UNCHANGED <<themeRows, accounts, extra>> /\ run' = [r \in Runners |-> NoRun]
      /\ queue' = <<>> /\ agents' = Seeded(agents) /\ EndCycle
  BY DEF Restart, RestartPipeline
<1>2. TablesTyped'
  BY <1>1 DEF TablesTyped, Seeded, AgentRows, Strategies
<1>3. RunsTyped'
  BY <1>1 DEF RunsTyped, NoRun, Runs, Steps
<1>4. \A r \in Runners : Fits(r)' /\ Bought(r)' /\ Counted(r)'
  BY <1>1, CalmKeeps DEF LimitsInv, NoRun
<1>5. \A a \in Agents : Room(a)'
  BY <1>1 DEF LimitsInv, Room, Open, accounts
<1>. QED
  BY <1>1, <1>2, <1>3, <1>4, <1>5, EndVetted, OnlyRunners DEF LimitsInv

(* Nothing is held at first, and nobody at work.                            *)
LEMMA InitA2AInv == Init => A2AInv
<1> SUFFICES ASSUME Init PROVE A2AInv
  OBVIOUS
<1> USE DEF Init, PipelineInit
<1>1. AccountsTyped
  BY AgentPipelineAssumption DEF AccountsTyped, NoPosition, Positions
<1>2. RunsTyped
  BY DEF RunsTyped, NoRun, Runs, Steps
<1>3. TablesTyped
  BY DEF TablesTyped, Seeded, Unregistered, AgentRows, Strategies
<1>4. StageTyped /\ Vetted
  BY DEF StageTyped, Stages, Vetted
<1>5. ASSUME NEW a \in Agents PROVE Room(a)
  <2>1. Open(a) = {}
    BY DEF Open, NoPosition
  <2>2. Cardinality({}) = 0
    BY FS_EmptySet
  <2>. QED
    BY <2>1, <2>2, AgentPipelineAssumption DEF Room
<1>6. ASSUME NEW r \in Runners PROVE Fits(r) /\ Bought(r) /\ Counted(r)
  <2>1. Cardinality({}) = 0
    BY FS_EmptySet
  <2>2. run[r].at = "idle" /\ run[r].fills = 0 /\ run[r].done = {}
    BY DEF NoRun
  <2> HIDE DEF Init, PipelineInit
  <2>. QED
    BY <2>1, <2>2 DEF Fits, Bought, Counted
<1>. QED
  BY <1>1, <1>2, <1>3, <1>4, <1>5, <1>6 DEF A2AInv, Typed, LimitsInv

(* The inductive invariant of the agents, their cycles and the coordinator: *)
(* what a runner decided on fits the limits of its agent but for the buys   *)
(* it could not see, and what the coordinator has in hand is reviewed.      *)
THEOREM A2AInvariant == Spec => []A2AInv
<1>1. A2AInv /\ [Next]_vars => A2AInv'
  <2> SUFFICES ASSUME A2AInv, [Next]_vars PROVE A2AInv'
    OBVIOUS
  <2>1. CASE PipelineNext /\ UNCHANGED a2aVars
    <3>1. AccountsTyped' /\ RunsTyped' /\ TablesTyped' /\ LimitsInv' /\ OrdersStay
      BY <2>1, PipelineKeeps DEF A2AInv, Typed
    <3>2. Vetted'
      BY <2>1, <3>1, VettedStays DEF A2AInv, a2aVars
    <3>3. StageTyped'
      BY <2>1 DEF A2AInv, Typed, StageTyped, a2aVars
    <3>. QED
      BY <3>1, <3>2, <3>3 DEF A2AInv, Typed
  <2>2. CASE CoordinatorNext
    BY <2>2, CoordinatorKeeps
  <2>3. CASE Restart
    BY <2>3, RestartKeeps
  <2>4. CASE UNCHANGED vars
    <3>1. UNCHANGED <<agents, themeRows, queue, accounts, extra, run>> /\ UNCHANGED a2aVars
      BY <2>4 DEF vars, pipelineVars, tables
    <3>2. AccountsTyped' /\ RunsTyped' /\ LimitsInv' /\ OrdersStay
      BY <3>1, NothingMoves DEF A2AInv, Typed
    <3>3. Vetted'
      BY <3>1, <3>2, VettedStays DEF A2AInv, a2aVars
    <3>4. TablesTyped' /\ StageTyped'
      BY <3>1 DEF A2AInv, Typed, TablesTyped, StageTyped, a2aVars
    <3>. QED
      BY <3>2, <3>3, <3>4 DEF A2AInv, Typed
  <2>. QED
    BY <2>1, <2>2, <2>3, <2>4 DEF Next
<1>. QED
  BY <1>1, InitA2AInv, PTL DEF Spec

(* Whoever else trades an agent's account: it holds more symbols than it    *)
(* may, or more of its equity than it may, only by buys its cycle could not *)
(* see, and a cycle fills no more orders than it recorded signals.          *)
THEOREM LimitsAreKept == Spec => []StrategyKeepsLimits
<1>1. A2AInv => StrategyKeepsLimits
  <2> SUFFICES ASSUME A2AInv PROVE StrategyKeepsLimits
    OBVIOUS
  <2>1. TypeOK
    BY DEF A2AInv, Typed, AccountsTyped, RunsTyped, TablesTyped, TypeOK, AgentRows, Runs
  <2>2. \A a \in Agents : Cardinality(Open(a)) <= MaxPositions + extra[a]
    BY DEF A2AInv, LimitsInv, Room
  <2>3. \A r \in Runners : run[r].fills <= Cardinality(run[r].done)
    BY DEF A2AInv, LimitsInv, Counted
  <2>4. \A r \in Runners :
          run[r].at = "next" /\ run[r].bought /\ extra[run[r].agent] = 0 =>
            100 * Exposure(run[r].agent) <= run[r].equity * MaxTotalAllocationPct
    BY DEF A2AInv, LimitsInv, Bought
  <2>. QED
    BY <2>1, <2>2, <2>3, <2>4 DEF StrategyKeepsLimits
<1>. QED
  BY <1>1, A2AInvariant, PTL

(* What the executor copies is a trade the researcher made, and a buy that  *)
(* a validator reviewed is no more than a fifth of the validator's equity.  *)
THEOREM CopiesAreReviewed == Spec => []CopiesAreVetted
<1>1. A2AInv => CopiesAreVetted
  <2> SUFFICES ASSUME A2AInv PROVE CopiesAreVetted
    OBVIOUS
  <2>1. A2ATypeOK
    BY DEF A2AInv, Typed, StageTyped, A2ATypeOK
  <2>. QED
    BY <2>1 DEF A2AInv, Vetted, CopiesAreVetted, Approves
<1>. QED
  BY <1>1, A2AInvariant, PTL
=============================================================================
