-------------------------- MODULE TradeEngineProofs --------------------------
(****************************************************************************)
(* Theorems about TradeEngine, for all its constants, overlapping calls and *)
(* crashes included: the daily limit, the halt, the log, the money and the  *)
(* open positions.                                                          *)
(****************************************************************************)
EXTENDS TradeEngine, FillRulesProofs

(* What the steps of a request are kept in.                                 *)
Shape ==
  /\ at \in [Callers -> Steps \cup {"idle"}]
  /\ seen = [c \in Callers |-> seen[c]]

(* A new server has nothing in flight.                                      *)
LEMMA ShapeInit == Init => Shape
  BY DEF Init, Shape

(* Every step keeps the shape of the requests.                              *)
LEMMA ShapeStep == Shape /\ [Next]_vars => Shape'
<1> SUFFICES ASSUME Shape, [Next]_vars PROVE Shape'
    OBVIOUS
<1> USE DEF Shape, Steps
<1>1. ASSUME NEW c \in Callers, Answer(c) PROVE Shape'
      BY <1>1 DEF Answer, Go
<1>3. CASE \E c \in Callers : \E r \in Requests : Post(c, r)
      BY <1>3 DEF Post, Go
<1>4. CASE \E c \in Callers : Execute(c)
  <2> PICK c \in Callers : Execute(c)
      BY <1>4
  <2>1. CASE \E quote \in Quotes \cup {NoPrice} : Quote(c, quote)
        BY <2>1, <1>1 DEF Quote, Go
  <2>2. CASE CheckMaxOpenPositions(c)
        BY <2>2 DEF CheckMaxOpenPositions, Go
  <2>3. CASE ReadBalanceRow(c)
        BY <2>3 DEF ReadBalanceRow, Go
  <2>4. CASE CheckMaxPositionSize(c)
        BY <2>4 DEF CheckMaxPositionSize, Go
  <2>5. CASE CheckDailyTradeLimit(c)
        BY <2>5 DEF CheckDailyTradeLimit, Go
  <2>6. CASE CheckMaxDrawdown(c)
        BY <2>6 DEF CheckMaxDrawdown, Go
  <2>7. CASE FindNoPrice(c)
        BY <2>7, <1>1 DEF FindNoPrice
  <2>8. CASE PlaceOrder(c)
        BY <2>8 DEF PlaceOrder, Go
  <2>9. CASE RejectOrder(c)
        BY <2>9 DEF RejectOrder, Go, locals
  <2>10. CASE LogTrade(c)
        BY <2>10, <1>1 DEF LogTrade
  <2> QED
      BY <2>1, <2>2, <2>3, <2>4, <2>5, <2>6, <2>7, <2>8, <2>9, <2>10 DEF Execute
<1>5. CASE NextDay
      BY <1>5 DEF NextDay, locals
<1>6. CASE Restart
      BY <1>6 DEF Restart
<1>7. CASE UNCHANGED vars
      BY <1>7 DEF vars, locals
<1> QED
    BY <1>3, <1>4, <1>5, <1>6, <1>7 DEF Next

(* The steps of the requests, and what they read of the balance, keep their *)
(* shape.                                                                   *)
THEOREM ShapeInvariant == Spec => []Shape
  BY ShapeInit, ShapeStep, PTL DEF Spec
-----------------------------------------------------------------------------
(* The steps of a halted engine, one by one.                                *)
StaysHalted == Halted' /\ UNCHANGED <<cash, pos>>

(* A request that takes a step other than the drawdown check, and leaves    *)
(* the account alone, does not end the halt.                                *)
LEMMA HarmlessStep ==
  ASSUME Shape, Halted, NEW c \in Callers, NEW s \in Steps \cup {"idle"},
         s # "place", s # "drawdownRows", Go(c, s),
         UNCHANGED <<cash, peak, pos>>,
         \A d \in Callers \ {c} : seen'[d] = seen[d]
  PROVE  StaysHalted
<1>1. IsDrawnDown([cash |-> cash, peak |-> peak])'
      BY DEF Halted, IsDrawnDown, Equity
<1>2. ASSUME NEW d \in Callers
      PROVE  at'[d] # "place" /\ (at'[d] = "drawdownRows" => seen'[d] = [cash |-> cash', peak |-> peak'])
      BY <1>2 DEF Halted, Shape, Go
<1> QED
    BY <1>1, <1>2 DEF StaysHalted, Halted

(* A request that is answered does not end the halt.                        *)
LEMMA AnswerKeepsHalt ==
  ASSUME Shape, Halted, NEW c \in Callers, Answer(c), UNCHANGED <<cash, peak, pos>>
  PROVE  StaysHalted
<1>1. Go(c, "idle") /\ \A d \in Callers \ {c} : seen'[d] = seen[d]
      BY DEF Answer, Shape
<1> QED
    BY <1>1, HarmlessStep

(* Whatever the engine does, it stays halted.                               *)
LEMMA HaltStep == Shape /\ Halted /\ [Next]_vars => StaysHalted
<1> SUFFICES ASSUME Shape, Halted, [Next]_vars PROVE StaysHalted
    OBVIOUS
<1>1. ASSUME NEW c \in Callers, NEW r \in Requests, Post(c, r) PROVE StaysHalted
  <2>1. Go(c, "quote") /\ UNCHANGED <<cash, peak, pos, seen>>
        BY <1>1 DEF Post, account
  <2> QED
      BY <2>1, HarmlessStep DEF Steps
<1>2. ASSUME NEW c \in Callers, Execute(c) PROVE StaysHalted
  <2>1. ASSUME NEW quote \in Quotes \cup {NoPrice}, Quote(c, quote) PROVE StaysHalted
    <3>1. UNCHANGED <<cash, peak, pos>>
          BY <2>1 DEF Quote, account
    <3>2. CASE Answer(c)
          BY <3>1, <3>2, AnswerKeepsHalt
    <3>3. CASE ~Answer(c)
      <4>1. UNCHANGED seen /\ (Go(c, "positions") \/ Go(c, "count"))
            BY <2>1, <3>3 DEF Quote
      <4> QED
          BY <4>1, <3>1, HarmlessStep DEF Steps
    <3> QED
        BY <3>2, <3>3
  <2>2. CASE CheckMaxOpenPositions(c)
    <3>1. Go(c, "size") /\ UNCHANGED <<cash, peak, pos, seen>>
          BY <2>2 DEF CheckMaxOpenPositions, account
    <3> QED
        BY <3>1, HarmlessStep DEF Steps
  <2>3. CASE ReadBalanceRow(c)
    <3>1. IsDrawnDown([cash |-> cash, peak |-> peak])' /\ UNCHANGED <<cash, peak, pos>>
          BY <2>3 DEF ReadBalanceRow, account, Halted, IsDrawnDown, Equity
    <3>2. ASSUME NEW d \in Callers
          PROVE  at'[d] # "place" /\ (at'[d] = "drawdownRows" => seen'[d] = [cash |-> cash', peak |-> peak'])
          BY <2>3, <3>1, <3>2 DEF ReadBalanceRow, Halted, Shape, Go
    <3> QED
        BY <3>1, <3>2 DEF StaysHalted, Halted
  <2>4. CASE CheckMaxPositionSize(c)
    <3>1. Go(c, "count") /\ UNCHANGED <<cash, peak, pos, seen>>
          BY <2>4 DEF CheckMaxPositionSize, account
    <3> QED
        BY <3>1, HarmlessStep DEF Steps
  <2>5. CASE CheckDailyTradeLimit(c)
    <3>1. Go(c, "drawdown") /\ UNCHANGED <<cash, peak, pos, seen>>
          BY <2>5 DEF CheckDailyTradeLimit, account
    <3> QED
        BY <3>1, HarmlessStep DEF Steps
  <2>6. CASE CheckMaxDrawdown(c)
    <3>1. IsDrawnDown(seen[c])
          BY <2>6 DEF CheckMaxDrawdown, Halted
    <3>2. Go(c, "reject") /\ UNCHANGED <<cash, peak, pos, seen>>
          BY <2>6, <3>1 DEF CheckMaxDrawdown, account
    <3> QED
        BY <3>2, HarmlessStep DEF Steps
  <2>7. CASE LogTrade(c)
        BY <2>7, AnswerKeepsHalt DEF LogTrade, account
  <2>8. at[c] # "place"
        BY DEF Halted
  <2> QED
      BY <1>2, <2>1, <2>2, <2>3, <2>4, <2>5, <2>6, <2>7, <2>8
      DEF Execute, FindNoPrice, PlaceOrder, RejectOrder
<1>3. ASSUME UNCHANGED <<cash, peak, pos, at, seen>> PROVE StaysHalted
      BY <1>3 DEF StaysHalted, Halted, IsDrawnDown, Equity
<1>4. CASE NextDay
      BY <1>4, <1>3 DEF NextDay, account, locals
<1>5. CASE Restart
  <2>1. IsDrawnDown([cash |-> cash, peak |-> peak])' /\ UNCHANGED <<cash, peak, pos>>
        BY <1>5 DEF Restart, Halted, IsDrawnDown, Equity
  <2>2. \A d \in Callers : at'[d] = "idle"
        BY <1>5 DEF Restart
  <2> QED
      BY <2>1, <2>2 DEF StaysHalted, Halted
<1>6. CASE UNCHANGED vars
      BY <1>6, <1>3 DEF vars, account, locals
<1> QED
    BY <1>1, <1>2, <1>4, <1>5, <1>6 DEF Next

(* Once the account is at its drawdown limit and no call is past the check, *)
(* no order is ever placed again: executeDecision checks sales as well, and *)
(* without a fill neither cash nor positions nor peak move.                 *)
THEOREM HaltForGood == Spec => HaltIsFinal
<1>1. Shape /\ [Next]_vars => [Halted => Halted' /\ UNCHANGED <<cash, pos>>]_vars
      BY HaltStep DEF StaysHalted
<1> QED
    BY <1>1, ShapeInvariant, PTL DEF Spec, HaltIsFinal
-----------------------------------------------------------------------------
(* The daily limit.  A request counts against it from the moment its check  *)
(* passed, not only when its row is written.                                *)
Passed(c) ==
  \/ at[c] \in {"drawdown", "drawdownRows"} /\ "dailyTradeLimit" \notin failed[c]
  \/ at[c] = "place"
  \/ at[c] = "log" /\ result[c].placed

Pending == {c \in Callers : Passed(c)}

DailyShape ==
  /\ at \in [Callers -> Steps \cup {"idle"}]
  /\ failed = [c \in Callers |-> failed[c]]
  /\ result = [c \in Callers |-> result[c]]
  /\ trades.today \in Nat /\ placedToday \in Nat /\ unlogged \in Nat

(* Without overlap one request at most is in flight.                        *)
Turns == Overlap \/ \A c, d \in Callers : at[c] # "idle" /\ at[d] # "idle" => c = d

PlacedAtLog == \A c \in Callers : result[c].placed \in BOOLEAN /\ (result[c].placed => at[c] = "log")

(* The rows of today and the requests that passed stay within the limit.    *)
Budget == trades.today + Cardinality(Pending) <= DailyTradeLimit + Slack

(* What was placed today has its row, is being logged, or was lost.         *)
Accounted == placedToday <= trades.today + Cardinality(Logging) + unlogged

DailyInv == DailyShape /\ Turns /\ PlacedAtLog /\ Budget /\ Accounted

(* What the assumption says of callers and of the limit.                    *)
LEMMA CallersFinite ==
  /\ IsFiniteSet(Callers)
  /\ DailyTradeLimit \in Nat /\ DailyTradeLimit >= 1
  /\ Overlap \in BOOLEAN
  /\ Cardinality(Callers) \in Nat
  /\ Slack \in Int
<1>1. IsFiniteSet(Callers) /\ DailyTradeLimit \in 1..100 /\ Overlap \in BOOLEAN
      BY TradeEngineAssumption
<1>2. Cardinality(Callers) \in Nat
      BY <1>1, FS_CardinalityType
<1> QED
    BY <1>1, <1>2 DEF Slack

(* Sets of requests are finite.                                             *)
LEMMA SubsetCount ==
  ASSUME NEW S, NEW R, S \subseteq R, R \subseteq Callers
  PROVE  /\ IsFiniteSet(S) /\ IsFiniteSet(R)
         /\ Cardinality(S) \in Nat /\ Cardinality(R) \in Nat
         /\ Cardinality(S) <= Cardinality(R)
<1>1. IsFiniteSet(R)
      BY CallersFinite, FS_Subset
<1>2. IsFiniteSet(S) /\ Cardinality(S) <= Cardinality(R)
      BY <1>1, FS_Subset
<1> QED
    BY <1>1, <1>2, FS_CardinalityType

(* As many requests have passed as may overlap.                             *)
LEMMA PendingBound == DailyShape /\ Turns => Cardinality(Pending) <= Slack + 1
<1> SUFFICES ASSUME DailyShape, Turns PROVE Cardinality(Pending) <= Slack + 1
    OBVIOUS
<1> Pending \subseteq Callers
    BY DEF Pending
<1>1. CASE Overlap
  <2>1. Cardinality(Pending) <= Cardinality(Callers) /\ Cardinality(Pending) \in Nat
        BY SubsetCount
  <2> QED
      BY <1>1, <2>1, CallersFinite DEF Slack
<1>2. CASE ~Overlap /\ Pending = {}
      BY <1>2, FS_EmptySet DEF Slack
<1>3. CASE ~Overlap /\ Pending # {}
  <2> PICK c \in Pending : TRUE
      BY <1>3
  <2>1. \A d \in Pending : d = c
        BY <1>3 DEF Turns, Pending, Passed
  <2>2. Pending = {c}
        BY <2>1
  <2> QED
      BY <1>3, <2>2, FS_Singleton DEF Slack
<1> QED
    BY <1>1, <1>2, <1>3

(* A request moves on, and neither it nor another one newly counts.         *)
LEMMA UncountedStep ==
  ASSUME DailyInv, DailyShape', Turns', PlacedAtLog',
         Pending' \subseteq Pending, Logging' = Logging,
         trades.today' = trades.today, UNCHANGED <<placedToday, unlogged>>
  PROVE  DailyInv'
<1>1. Pending \subseteq Callers
      BY DEF Pending
<1>2. Cardinality(Pending') <= Cardinality(Pending)
      /\ Cardinality(Pending') \in Nat /\ Cardinality(Pending) \in Nat
      BY <1>1, SubsetCount
<1>3. Slack' = Slack
      BY DEF Slack
<1>4. Budget'
      BY <1>2, <1>3, CallersFinite DEF DailyInv, DailyShape, Budget
<1>5. Accounted'
      BY DEF DailyInv, Accounted
<1> QED
    BY <1>4, <1>5 DEF DailyInv

(* A request that moves on does not begin a second one.                     *)
LEMMA TurnsGo ==
  ASSUME DailyShape, Turns, NEW c \in Callers, NEW s, Go(c, s), at[c] # "idle"
  PROVE  Turns'
BY DEF DailyShape, Turns, Go

(* A request is answered before it placed anything.                         *)
LEMMA AnswerUnplaced ==
  ASSUME DailyInv, NEW c \in Callers, Answer(c), at[c] # "idle", ~result[c].placed,
         UNCHANGED <<placedToday, unlogged>>, trades'.today = trades.today
  PROVE  DailyInv'
<1> USE DEF Answer, Go, NoResult, Steps
<1>1. DailyShape'
      BY DEF DailyInv, DailyShape
<1>2. Turns'
      BY TurnsGo DEF DailyInv
<1>3. PlacedAtLog'
      BY DEF DailyInv, DailyShape, PlacedAtLog
<1>4. Pending' \subseteq Pending
      BY DEF DailyInv, DailyShape, Pending, Passed
<1>5. Logging' = Logging
      BY DEF DailyInv, DailyShape, PlacedAtLog, Logging
<1> QED
    BY <1>1, <1>2, <1>3, <1>4, <1>5, UncountedStep

(* A request goes from one step to another, and does not come to count.     *)
LEMMA MoveOn ==
  ASSUME DailyInv, NEW c \in Callers, NEW s \in Steps, Go(c, s), at[c] # "idle",
         at[c] # "log" \/ ~result[c].placed,
         UNCHANGED <<result, placedToday, unlogged, trades>>,
         failed' = [d \in Callers |-> failed'[d]],
         \A d \in Callers \ {c} : failed'[d] = failed[d],
         Passed(c)' => Passed(c)
  PROVE  DailyInv'
<1> USE DEF Go, Steps
<1>1. DailyShape'
      BY DEF DailyInv, DailyShape
<1>2. Turns'
      BY TurnsGo DEF DailyInv
<1>3. PlacedAtLog'
      BY DEF DailyInv, DailyShape, PlacedAtLog
<1>4. Pending' \subseteq Pending
  <2>1. \A d \in Callers \ {c} : Passed(d)' => Passed(d)
        BY DEF DailyInv, DailyShape, Passed
  <2> QED
      BY <2>1 DEF Pending
<1>5. Logging' = Logging
      BY DEF DailyInv, DailyShape, PlacedAtLog, Logging
<1> QED
    BY <1>1, <1>2, <1>3, <1>4, <1>5, UncountedStep

(* A new server has placed nothing.                                         *)
LEMMA DailyInit == Init => DailyInv
<1> SUFFICES ASSUME Init PROVE DailyInv
    OBVIOUS
<1> USE DEF Init
<1>1. DailyShape /\ Turns /\ PlacedAtLog
      BY DEF DailyShape, Turns, PlacedAtLog, NoResult
<1>2. Pending = {} /\ Logging = {}
      BY DEF Pending, Passed, Logging
<1>3. DailyTradeLimit + Slack >= 0
      BY CallersFinite DEF Slack
<1> QED
    BY <1>1, <1>2, <1>3, FS_EmptySet, CallersFinite DEF DailyInv, Budget, Accounted

(* A request that arrives does not count yet.                               *)
LEMMA DailyPost ==
  ASSUME DailyInv, NEW c \in Callers, NEW r \in Requests, Post(c, r)
  PROVE  DailyInv'
<1> USE DEF Post, Go, history, Steps
<1>1. DailyShape'
      BY DEF DailyInv, DailyShape
<1>2. Turns'
      BY DEF DailyInv, DailyShape, Turns
<1>3. PlacedAtLog'
      BY DEF DailyInv, DailyShape, PlacedAtLog
<1>4. Pending' \subseteq Pending /\ Logging' = Logging
      BY DEF DailyInv, DailyShape, Pending, Passed, Logging
<1> QED
    BY <1>1, <1>2, <1>3, <1>4, UncountedStep

(* The check that passes takes the last place there is.                     *)
LEMMA DailyCheck ==
  ASSUME DailyInv, NEW c \in Callers, CheckDailyTradeLimit(c)
  PROVE  DailyInv'
<1> USE DEF CheckDailyTradeLimit, Check, Go, history, Steps
<1>1. DailyShape'
      BY DEF DailyInv, DailyShape
<1>2. Turns'
      BY TurnsGo DEF DailyInv
<1>3. PlacedAtLog'
      BY DEF DailyInv, DailyShape, PlacedAtLog
<1>4. Logging' = Logging
      BY DEF DailyInv, DailyShape, Logging
<1>5. Slack' = Slack
      BY DEF Slack
<1>6. CASE trades.today < DailyTradeLimit
  <2> (DailyShape /\ Turns => Cardinality(Pending) <= Slack + 1)'
      BY PendingBound, PTL
  <2>1. Cardinality(Pending') <= Slack + 1
        BY <1>1, <1>2, <1>5
  <2>2. Cardinality(Pending') \in Nat
        BY SubsetCount DEF Pending
  <2>3. Budget'
        BY <1>5, <1>6, <2>1, <2>2, CallersFinite DEF DailyInv, DailyShape, Budget
  <2> QED
      BY <1>1, <1>2, <1>3, <1>4, <2>3 DEF DailyInv, Accounted
<1>7. CASE ~(trades.today < DailyTradeLimit)
  <2>1. "dailyTradeLimit" \in failed'[c] /\ at'[c] = "drawdown"
        BY <1>7 DEF DailyInv, DailyShape, IsUnderLimit
  <2>2. Pending' \subseteq Pending
        BY <2>1 DEF DailyInv, DailyShape, Pending, Passed
  <2> QED
      BY <1>1, <1>2, <1>3, <1>4, <2>2, UncountedStep
<1> QED
    BY <1>6, <1>7

(* Placing makes an order of a request that counted.                        *)
LEMMA DailyPlace ==
  ASSUME DailyInv, NEW c \in Callers, PlaceOrder(c)
  PROVE  DailyInv'
<1> USE DEF PlaceOrder, Go, Steps
<1>1. DailyShape'
  <2>1. at' \in [Callers -> Steps \cup {"idle"}] /\ failed' = [d \in Callers |-> failed'[d]]
        BY DEF DailyInv, DailyShape
  <2>2. result' = [d \in Callers |-> result'[d]]
        BY DEF DailyInv, DailyShape
  <2>3. trades'.today \in Nat /\ placedToday' \in Nat /\ unlogged' \in Nat
        BY DEF DailyInv, DailyShape
  <2> QED
      BY <2>1, <2>2, <2>3 DEF DailyShape
<1>2. Turns'
      BY TurnsGo DEF DailyInv
<1>3. PlacedAtLog'
      BY DEF DailyInv, DailyShape, PlacedAtLog
<1>4. Pending' = Pending
      BY DEF DailyInv, DailyShape, Pending, Passed
<1>5. Logging' = Logging \cup {c} /\ c \notin Logging
      BY DEF DailyInv, DailyShape, Logging
<1>6. Cardinality(Logging') = Cardinality(Logging) + 1 /\ Cardinality(Logging) \in Nat
      BY <1>5, SubsetCount, FS_AddElement DEF Logging
<1>7. Budget'
      BY <1>4 DEF DailyInv, Budget, Slack
<1>8. Accounted'
      BY <1>6 DEF DailyInv, DailyShape, Accounted
<1> QED
    BY <1>1, <1>2, <1>3, <1>7, <1>8 DEF DailyInv

(* A row replaces the request that counted.                                 *)
LEMMA DailyLog ==
  ASSUME DailyInv, NEW c \in Callers, LogTrade(c)
  PROVE  DailyInv'
<1> USE DEF LogTrade, Row, history
<1>1. CASE ~result[c].placed
      BY <1>1, AnswerUnplaced
<1>2. CASE result[c].placed
  <2> USE <1>2 DEF Answer, Go, NoResult, Steps
  <2>1. DailyShape'
    <3>1. at' \in [Callers -> Steps \cup {"idle"}] /\ failed' = [d \in Callers |-> failed'[d]]
          BY DEF DailyInv, DailyShape
    <3>2. result' = [d \in Callers |-> result'[d]]
          BY DEF DailyInv, DailyShape
    <3>3. trades'.today \in Nat /\ placedToday' \in Nat /\ unlogged' \in Nat
          BY DEF DailyInv, DailyShape
    <3> QED
        BY <3>1, <3>2, <3>3 DEF DailyShape
  <2>2. Turns'
        BY TurnsGo DEF DailyInv
  <2>3. PlacedAtLog'
        BY DEF DailyInv, DailyShape, PlacedAtLog
  <2>4. c \in Logging /\ c \in Pending
        BY DEF DailyInv, PlacedAtLog, Logging, Pending, Passed
  <2>5. Pending' = Pending \ {c} /\ Logging' = Logging \ {c}
        BY DEF DailyInv, DailyShape, Pending, Passed, Logging
  <2>6. Cardinality(Pending') = Cardinality(Pending) - 1 /\ Cardinality(Pending) \in Nat
        BY <2>4, <2>5, SubsetCount, FS_RemoveElement DEF Pending
  <2>7. Cardinality(Logging') = Cardinality(Logging) - 1 /\ Cardinality(Logging) \in Nat
        BY ZenonT(60), <2>4, <2>5, SubsetCount, FS_RemoveElement DEF Logging
  <2>8. trades'.today = trades.today + 1
        OBVIOUS
  <2>9. Budget'
        BY <2>6, <2>8, CallersFinite DEF DailyInv, DailyShape, Budget, Slack
  <2>10. Accounted'
        BY <2>7, <2>8 DEF DailyInv, DailyShape, Accounted
  <2> QED
      BY <2>1, <2>2, <2>3, <2>9, <2>10 DEF DailyInv
<1> QED
    BY <1>1, <1>2

(* At midnight the rows no longer count; the requests in flight still do.   *)
LEMMA DailyMidnight == DailyInv /\ NextDay => DailyInv'
<1> SUFFICES ASSUME DailyInv, NextDay PROVE DailyInv'
    OBVIOUS
<1> USE DEF NextDay, locals
<1>1. DailyShape' /\ Turns' /\ PlacedAtLog'
      BY DEF DailyInv, DailyShape, Turns, PlacedAtLog
<1>2. Pending' = Pending /\ Logging' = Logging
      BY DEF Pending, Passed, Logging
<1>3. Cardinality(Pending) <= Slack + 1 /\ Cardinality(Pending) \in Nat
      BY PendingBound, SubsetCount DEF DailyInv, Pending
<1>4. Cardinality(Logging) \in Nat
      BY SubsetCount DEF Logging
<1>5. Budget'
      BY <1>2, <1>3, CallersFinite DEF Budget, Slack
<1>6. Accounted'
      BY <1>2, <1>4 DEF DailyInv, DailyShape, Accounted
<1> QED
    BY <1>1, <1>5, <1>6 DEF DailyInv

(* A crash turns what was being logged into what is lost.                   *)
LEMMA DailyRestart == DailyInv /\ Restart => DailyInv'
<1> SUFFICES ASSUME DailyInv, Restart PROVE DailyInv'
    OBVIOUS
<1> USE DEF Restart, NoResult
<1>1. Cardinality(Logging) \in Nat /\ Cardinality(Pending) \in Nat
      BY SubsetCount DEF Logging, Pending
<1>2. DailyShape' /\ Turns' /\ PlacedAtLog'
  <2>1. DailyShape'
        BY <1>1 DEF DailyInv, DailyShape
  <2>2. Turns'
        BY DEF Turns
  <2>3. PlacedAtLog'
        BY DEF PlacedAtLog
  <2> QED
      BY <2>1, <2>2, <2>3
<1>3. Pending' = {} /\ Logging' = {}
      BY DEF Pending, Passed, Logging
<1>4. Cardinality(Pending') = 0 /\ Cardinality(Logging') = 0
      BY <1>3, FS_EmptySet
<1>5. Budget'
      BY <1>1, <1>4, CallersFinite DEF DailyInv, DailyShape, Budget, Slack
<1>6. Accounted'
      BY <1>1, <1>4 DEF DailyInv, DailyShape, Accounted
<1> QED
    BY <1>2, <1>5, <1>6 DEF DailyInv

(* The statements of executeDecision, one by one.                           *)
LEMMA DailyExecute ==
  ASSUME DailyInv, NEW c \in Callers, Execute(c)
  PROVE  DailyInv'
<1> USE DEF history
<1>0. failed = [d \in Callers |-> failed[d]] /\ (result[c].placed => at[c] = "log")
      BY DEF DailyInv, DailyShape, PlacedAtLog
<1>1. ASSUME NEW quote \in Quotes \cup {NoPrice}, Quote(c, quote) PROVE DailyInv'
  <2>1. at[c] = "quote" /\ UNCHANGED <<trades, placedToday, unlogged>>
        BY <1>1 DEF Quote
  <2>2. CASE Answer(c)
        BY <1>0, <2>1, <2>2, AnswerUnplaced
  <2>3. CASE ~Answer(c)
    <3>1. UNCHANGED <<failed, result>> /\ (Go(c, "positions") \/ Go(c, "count"))
          BY <1>1, <2>3 DEF Quote
    <3>2. ~Passed(c)'
          BY <2>1, <3>1 DEF DailyInv, DailyShape, Passed, Go
    <3> QED
        BY <1>0, <2>1, <3>1, <3>2, MoveOn DEF Steps
  <2> QED
      BY <2>2, <2>3
<1>2. CASE CheckMaxOpenPositions(c)
  <2>1. Go(c, "size") /\ at[c] = "positions"
        /\ UNCHANGED <<result, placedToday, unlogged, trades>>
        BY <1>2 DEF CheckMaxOpenPositions
  <2>2. failed' = [d \in Callers |-> failed'[d]] /\ \A d \in Callers \ {c} : failed'[d] = failed[d]
        BY <1>0, <1>2 DEF CheckMaxOpenPositions, Check
  <2>3. ~Passed(c)'
        BY <2>1 DEF DailyInv, DailyShape, Passed, Go
  <2> QED
      BY <2>1, <2>2, <2>3, MoveOn DEF Steps
<1>3. CASE ReadBalanceRow(c)
  <2>1. UNCHANGED <<failed, result, placedToday, unlogged, trades>> /\ at[c] \in {"size", "drawdown"}
        BY <1>3 DEF ReadBalanceRow
  <2>2. CASE at[c] = "size"
    <3>1. Go(c, "sizeRows") /\ ~Passed(c)'
          BY <1>3, <2>2 DEF ReadBalanceRow, DailyInv, DailyShape, Passed, Go
    <3> QED
        BY <1>0, <2>1, <3>1, MoveOn DEF Steps
  <2>3. CASE at[c] = "drawdown"
    <3>1. Go(c, "drawdownRows") /\ (Passed(c)' => Passed(c))
          BY <1>3, <2>1, <2>3 DEF ReadBalanceRow, DailyInv, DailyShape, Passed, Go
    <3> QED
        BY <1>0, <2>1, <3>1, MoveOn DEF Steps
  <2> QED
      BY <2>1, <2>2, <2>3
<1>4. CASE CheckMaxPositionSize(c)
  <2>1. Go(c, "count") /\ at[c] = "sizeRows"
        /\ UNCHANGED <<result, placedToday, unlogged, trades>>
        BY <1>4 DEF CheckMaxPositionSize
  <2>2. failed' = [d \in Callers |-> failed'[d]] /\ \A d \in Callers \ {c} : failed'[d] = failed[d]
        BY <1>0, <1>4 DEF CheckMaxPositionSize, Check
  <2>3. ~Passed(c)'
        BY <2>1 DEF DailyInv, DailyShape, Passed, Go
  <2> QED
      BY <2>1, <2>2, <2>3, MoveOn DEF Steps
<1>5. CASE CheckMaxDrawdown(c)
  <2>1. at[c] = "drawdownRows" /\ UNCHANGED <<result, placedToday, unlogged, trades>>
        BY <1>5 DEF CheckMaxDrawdown
  <2>2. failed' = [d \in Callers |-> failed'[d]] /\ \A d \in Callers \ {c} : failed'[d] = failed[d]
        BY <1>0, <1>5 DEF CheckMaxDrawdown, Check
  <2>3. CASE Go(c, "place") /\ failed[c] = {}
    <3>1. Passed(c)
          BY <2>1, <2>3 DEF Passed
    <3> QED
        BY <2>1, <2>2, <2>3, <3>1, MoveOn DEF Steps
  <2>4. CASE Go(c, "reject")
    <3>1. ~Passed(c)'
          BY <2>1, <2>4 DEF DailyInv, DailyShape, Passed, Go
    <3> QED
        BY <2>1, <2>2, <2>4, <3>1, MoveOn DEF Steps
  <2> QED
      BY <1>5, <2>3, <2>4 DEF CheckMaxDrawdown
<1>6. CASE FindNoPrice(c)
      BY <1>0, <1>6, AnswerUnplaced DEF FindNoPrice
<1>7. CASE RejectOrder(c)
  <2>1. Go(c, "log") /\ at[c] = "place" /\ ~result[c].placed
        /\ UNCHANGED <<failed, result, placedToday, unlogged, trades>>
        BY <1>0, <1>7 DEF RejectOrder, locals
  <2> QED
      BY <1>0, <2>1, MoveOn DEF Steps, Passed
<1> QED
    BY <1>1, <1>2, <1>3, <1>4, <1>5, <1>6, <1>7, DailyCheck, DailyPlace, DailyLog DEF
       Execute

(* Every step keeps what counts within the limit.                           *)
LEMMA DailyStep == DailyInv /\ [Next]_vars => DailyInv'
<1> SUFFICES ASSUME DailyInv, [Next]_vars PROVE DailyInv'
    OBVIOUS
<1>1. CASE UNCHANGED vars
  <2>0. UNCHANGED <<at, failed, result, trades, placedToday, unlogged>>
        BY <1>1 DEF vars, locals, history
  <2>1. DailyShape'
        BY <2>0 DEF DailyInv, DailyShape
  <2>2. Turns' /\ PlacedAtLog'
        BY <2>0 DEF DailyInv, Turns, PlacedAtLog
  <2>3. Pending' = Pending /\ Logging' = Logging
        BY <2>0 DEF Pending, Passed, Logging
  <2> QED
      BY <2>0, <2>1, <2>2, <2>3, UncountedStep
<1> QED
    BY <1>1, DailyPost, DailyExecute, DailyMidnight, DailyRestart DEF Next

(* However the requests overlap and whenever the process dies, the orders   *)
(* placed in a day exceed dailyTradeLimit by no more than the requests that *)
(* overlapped, less one, and the orders whose row a crash prevented.        *)
THEOREM DailyLimit == Spec => []DailyLimitKept
<1>1. DailyInv => DailyLimitKept
  <2> SUFFICES ASSUME DailyInv PROVE DailyLimitKept
      OBVIOUS
  <2>1. Logging \subseteq Pending /\ Pending \subseteq Callers
        BY DEF Logging, Pending, Passed
  <2>2. Cardinality(Logging) <= Cardinality(Pending)
        /\ Cardinality(Logging) \in Nat /\ Cardinality(Pending) \in Nat
        BY <2>1, SubsetCount
  <2> QED
      BY <2>2, CallersFinite DEF DailyInv, DailyShape, Budget, Accounted, DailyLimitKept
<1> QED
    BY <1>1, DailyInit, DailyStep, PTL DEF Spec
-----------------------------------------------------------------------------
(* What TypeOK leaves out: a request is being executed with an order of its *)
(* own, what reached the executor passed its checks, and only the result of *)
(* an order that was placed says anything.                                  *)
Executing ==
  \A c \in Callers :
    /\ at[c] # "idle" => order[c] \in RequestRecords
    /\ at[c] \notin {"idle", "quote"} => order[c].action # "hold"
    /\ at[c] = "place" => failed[c] = {}
    /\ result[c].placed => at[c] = "log"
    /\ ~result[c].placed => result[c] = NoResult

Typed == TypeOK /\ Executing

(* The results of orders.                                                   *)
Results == [placed : BOOLEAN, realizedPnl : Int, buyFee : Nat]

(* A new server has an account, and nothing in flight.                      *)
LEMMA InitTyped == Init => Typed
<1> SUFFICES ASSUME Init PROVE Typed
  OBVIOUS
<1> USE TradeEngineAssumption DEF Init
<1>1. pos \in [Symbols -> Positions]
  BY DEF NoRows, NoPosition, Positions
<1>2. order \in [Callers -> RequestRecords \cup {Nothing}] /\ failed \in [Callers -> SUBSET Checks]
  OBVIOUS
<1>3. seen \in [Callers -> [cash : Nat, peak : Nat]] /\ result \in [Callers -> Results]
  BY DEF NoRow, NoResult, Results
<1>4. trades \in [today : Nat, realizedPnl : Int, buyFees : Nat]
  OBVIOUS
<1>5. priceCache \in [Symbols -> Nat] /\ at \in [Callers -> Steps \cup {"idle"}]
  BY DEF NoPrice
<1>6. Executing
  BY DEF Executing, NoResult
<1>7. cash \in Nat /\ peak \in Nat /\ placedToday \in Nat /\ unlogged \in Nat
      /\ posted \in 0..MaxPosts /\ day \in 1..MaxDays /\ restarts \in 0..MaxRestarts
  OBVIOUS
<1> QED
  BY <1>1, <1>2, <1>3, <1>4, <1>5, <1>6, <1>7 DEF Typed, TypeOK, Results

(* A request that is answered leaves nothing behind.                        *)
LEMMA AnswerTyped ==
  ASSUME Typed, NEW c \in Callers, Answer(c),
         trades' \in [today : Nat, realizedPnl : Int, buyFees : Nat],
         UNCHANGED <<account, history, bounds>>
  PROVE  Typed'
<1> USE DEF Typed, Answer, Go
<1>1. order' \in [Callers -> RequestRecords \cup {Nothing}] /\ failed' \in [Callers -> SUBSET Checks]
  BY DEF TypeOK
<1>2. seen' \in [Callers -> [cash : Nat, peak : Nat]]
  BY DEF TypeOK, NoRow
<1>3. result' \in [Callers -> Results]
  BY DEF TypeOK, NoResult, Results
<1>4. at' \in [Callers -> Steps \cup {"idle"}]
  BY DEF TypeOK
<1>5. Executing'
  BY DEF Executing, TypeOK, NoResult
<1> QED
  BY <1>1, <1>2, <1>3, <1>4, <1>5 DEF TypeOK, Results, account, history, bounds

(* A request that goes on to another step, with the tables as they are.     *)
LEMMA GoTyped ==
  ASSUME Typed, NEW c \in Callers, NEW s \in Steps, Go(c, s), at[c] # "idle",
         UNCHANGED <<account, trades, result, history, bounds>>,
         order' \in [Callers -> RequestRecords \cup {Nothing}],
         failed' \in [Callers -> SUBSET Checks],
         seen' \in [Callers -> [cash : Nat, peak : Nat]],
         \A d \in Callers \ {c} : order'[d] = order[d] /\ failed'[d] = failed[d],
         order'[c] \in RequestRecords, s # "quote" => order'[c].action # "hold",
         s = "place" => failed'[c] = {}, at[c] # "log"
  PROVE  Typed'
<1> USE DEF Typed, Go
<1>1. at' \in [Callers -> Steps \cup {"idle"}]
  BY DEF TypeOK
<1>2. Executing'
  BY DEF Executing, TypeOK, Steps
<1> QED
  BY <1>1, <1>2 DEF TypeOK, account, history, bounds

(* What an order that the executor takes makes of the account.              *)
LEMMA PlacedTypes ==
  ASSUME Typed, NEW c \in Callers, PlaceOrder(c)
  PROVE  /\ order[c] \in RequestRecords /\ order[c].action \in {"buy", "sell"}
         /\ FillPrice(order[c]) \in Nat /\ order[c].quantity \in Nat \ {0}
         /\ order[c].symbol \in Symbols /\ pos[order[c].symbol] \in Positions
         /\ CanFill(order[c].action, FillPrice(order[c]), order[c].quantity, cash, pos[order[c].symbol])
         /\ order[c].action = "sell" => pos[order[c].symbol].qty >= order[c].quantity
<1>1. order[c] \in RequestRecords /\ order[c].action # "hold"
  BY DEF PlaceOrder, Typed, Executing
<1>2. order[c].action \in {"buy", "sell"} /\ order[c].quantity \in Nat \ {0}
      /\ order[c].symbol \in Symbols /\ order[c].limitPrice \in Nat
  BY <1>1 DEF RequestRecords
<1>3. FillPrice(order[c]) \in Nat
  BY <1>2 DEF FillPrice, Typed, TypeOK
<1>4. pos[order[c].symbol] \in Positions
  BY <1>2 DEF Typed, TypeOK
<1>5. CanFill(order[c].action, FillPrice(order[c]), order[c].quantity, cash, pos[order[c].symbol])
  BY DEF PlaceOrder, Accepted
<1> QED
  BY <1>1, <1>2, <1>3, <1>4, <1>5 DEF CanFill

(* The exposure is an amount of money.                                      *)
LEMMA ExposureNat ==
  ASSUME NEW table \in [Symbols -> Positions]
  PROVE  Exposure(table) \in Nat
<1> DEFINE f == [s \in Symbols |-> table[s].cost]
<1>1. IsFiniteSet(Symbols) /\ \A s \in Symbols : f[s] \in Nat
  BY TradeEngineAssumption DEF Positions
<1>2. Exposure(table) = SumFunctionOnSet(f, Symbols)
  BY DEF Exposure, SumFunction
<1> HIDE DEF f
<1> QED
  BY <1>1, <1>2, SumNat

(* A fill: the account, the peak and the result.                            *)
LEMMA PlaceTyped ==
  ASSUME Typed, NEW c \in Callers, PlaceOrder(c)
  PROVE  Typed'
<1> DEFINE r == order[c]  price == FillPrice(order[c])  old == pos[order[c].symbol]
           q == order[c].quantity
<1>0. TypeOK /\ Executing
  BY DEF Typed
<1>1. /\ r.action \in {"buy", "sell"} /\ price \in Nat /\ q \in Nat \ {0}
      /\ r.symbol \in Symbols /\ old \in Positions /\ CanFill(r.action, price, q, cash, old)
      /\ r.action = "sell" => old.qty >= q
  BY PlacedTypes
<1>2. NewCash(r.action, price, q, cash) \in Nat /\ NewPosition(r.action, price, q, old) \in Positions
  BY <1>0, <1>1, FillIsTyped DEF TypeOK
<1>3. CalculateFee(price, q) \in Nat /\ SellProceeds(price, q) \in Nat
  BY <1>1, AmountsNat
<1>4. r.action = "sell" => CostShare(old, q) \in Int
  BY <1>1, CostShareBounded
<1>5. RealizedPnl(r.action, price, q, old) \in Int
  BY <1>1, <1>3, <1>4 DEF RealizedPnl
<1> HIDE DEF r, price, old, q
<1> USE <1>0
<1>6. cash' \in Nat /\ pos' \in [Symbols -> Positions] /\ priceCache' \in [Symbols -> Nat]
  BY <1>1, <1>2 DEF PlaceOrder, TypeOK, r, price, old, q
<1>7. peak' \in Nat
  <2>1. Exposure(pos') \in Nat
    BY <1>6, ExposureNat
  <2> QED
    BY <1>6, <2>1 DEF PlaceOrder, Larger, TypeOK
<1>8. result' \in [Callers -> Results]
  <2>1. [placed |-> TRUE, realizedPnl |-> RealizedPnl(r.action, price, q, old),
         buyFee |-> IF r.action = "buy" THEN CalculateFee(price, q) ELSE 0] \in Results
    BY <1>3, <1>5 DEF Results
  <2>2. result' = [result EXCEPT ![c] =
         [placed |-> TRUE, realizedPnl |-> RealizedPnl(r.action, price, q, old),
          buyFee |-> IF r.action = "buy" THEN CalculateFee(price, q) ELSE 0]]
    BY DEF PlaceOrder, r, price, old, q
  <2> QED
    BY <2>1, <2>2 DEF TypeOK, Results
<1>9. at' \in [Callers -> Steps \cup {"idle"}]
  BY DEF PlaceOrder, Go, TypeOK, Steps
<1>10. Executing'
  <2>1. result'[c].placed /\ \A d \in Callers \ {c} : result'[d] = result[d] /\ at'[d] = at[d]
    BY DEF PlaceOrder, TypeOK, Go
  <2>2. at'[c] = "log" /\ UNCHANGED <<order, failed>> /\ order[c] \in RequestRecords
        /\ order[c].action # "hold"
    BY PlacedTypes DEF PlaceOrder, TypeOK, Go, Executing
  <2> QED
    BY <2>1, <2>2 DEF Executing
<1>11. placedToday' \in Nat
  BY DEF PlaceOrder, TypeOK
<1> QED
  BY <1>6, <1>7, <1>8, <1>9, <1>10, <1>11 DEF Typed, TypeOK, Results, PlaceOrder, bounds

(* The row adds integers to the sums of the table.                          *)
LEMMA LogTyped ==
  ASSUME Typed, NEW c \in Callers, LogTrade(c)
  PROVE  Typed'
<1>1. result[c] \in Results
  BY DEF Typed, TypeOK, Results
<1>2. trades' \in [today : Nat, realizedPnl : Int, buyFees : Nat]
  BY <1>1 DEF Typed, TypeOK, LogTrade, Row, Results
<1> QED
  BY <1>2, AnswerTyped DEF LogTrade

(* The price: given, quoted, or that of the decision.                       *)
LEMMA QuoteTyped ==
  ASSUME Typed, NEW c \in Callers, NEW quote \in Quotes \cup {NoPrice}, Quote(c, quote)
  PROVE  Typed'
<1>1. CASE order[c].action = "hold"
  BY <1>1, AnswerTyped DEF Quote, Typed, TypeOK
<1>2. CASE order[c].action # "hold"
  <2> DEFINE r == order[c]  p == PriceFound(order[c], quote)
  <2>1. r \in RequestRecords /\ at[c] = "quote"
    BY DEF Quote, Typed, Executing
  <2>2. p \in Nat
    BY <2>1, TradeEngineAssumption DEF PriceFound, RequestRecords, NoPrice
  <2>3. [r EXCEPT !.limitPrice = p] \in RequestRecords /\ [r EXCEPT !.limitPrice = p].action # "hold"
    BY <1>2, <2>1, <2>2 DEF RequestRecords
  <2> HIDE DEF p
  <2>4. order' = [order EXCEPT ![c] = [r EXCEPT !.limitPrice = p]]
    BY <1>2 DEF Quote, p
  <2>5. UNCHANGED <<account, trades, failed, seen, result, history, bounds>>
    BY <1>2 DEF Quote
  <2>6. PICK s \in {"positions", "count"} : Go(c, s)
    BY <1>2 DEF Quote
  <2> HIDE DEF r
  <2>7. /\ order' \in [Callers -> RequestRecords \cup {Nothing}] /\ order'[c] \in RequestRecords
        /\ order'[c].action # "hold" /\ \A d \in Callers \ {c} : order'[d] = order[d]
    BY <2>3, <2>4 DEF Typed, TypeOK
  <2> QED
    BY <2>1, <2>5, <2>6, <2>7, GoTyped DEF Typed, TypeOK, Steps
<1> QED
  BY <1>1, <1>2

(* A risk check: the request goes on, with the failure on its list or not.  *)
LEMMA CheckTyped ==
  ASSUME Typed, NEW c \in Callers, NEW name \in Checks, NEW passed,
         Check(c, name, passed), NEW s \in Steps \ {"quote"}, Go(c, s), at[c] \notin {"idle", "quote", "log"},
         s = "place" => passed /\ failed[c] = {},
         UNCHANGED <<account, trades, order, seen, result, history, bounds>>
  PROVE  Typed'
<1>1. failed \in [Callers -> SUBSET Checks] /\ order[c] \in RequestRecords /\ order[c].action # "hold"
  BY DEF Typed, TypeOK, Executing
<1>2. failed' = failed \/ failed' = [failed EXCEPT ![c] = failed[c] \cup {name}]
  BY <1>1 DEF Check
<1>3. failed' \in [Callers -> SUBSET Checks] /\ \A d \in Callers \ {c} : failed'[d] = failed[d]
  BY <1>1, <1>2
<1>4. s = "place" => failed'[c] = {}
  BY DEF Check
<1> QED
  BY <1>1, <1>3, <1>4, GoTyped DEF Typed, TypeOK

(* The statements of executeDecision, one by one.                           *)
LEMMA ExecuteTyped ==
  ASSUME Typed, NEW c \in Callers, Execute(c)
  PROVE  Typed'
<1> USE DEF Typed, TypeOK, Executing
<1>0. at[c] # "idle" => order[c] \in RequestRecords
  OBVIOUS
<1>2. CASE CheckMaxOpenPositions(c)
  BY SMTT(30), <1>2, CheckTyped DEF CheckMaxOpenPositions, Checks, Steps
<1>3. CASE ReadBalanceRow(c)
  <2>1. seen' \in [Callers -> [cash : Nat, peak : Nat]]
    BY <1>3 DEF ReadBalanceRow
  <2>2. PICK s \in {"sizeRows", "drawdownRows"} : Go(c, s)
    BY <1>3 DEF ReadBalanceRow
  <2> QED
    BY <1>0, <1>3, <2>1, <2>2, GoTyped DEF ReadBalanceRow, Steps
<1>4. CASE CheckMaxPositionSize(c)
  BY SMTT(30), <1>4, CheckTyped DEF CheckMaxPositionSize, Checks, Steps
<1>5. CASE CheckDailyTradeLimit(c)
  <2> DEFINE passed == IsUnderLimit(trades.today)
  <2>1. Check(c, "dailyTradeLimit", passed) /\ Go(c, "drawdown") /\ at[c] = "count"
        /\ UNCHANGED <<account, trades, order, seen, result, history, bounds>>
    BY <1>5 DEF CheckDailyTradeLimit
  <2>2. "drawdown" \in Steps \ {"quote"} /\ "dailyTradeLimit" \in Checks
    BY DEF Steps, Checks
  <2> HIDE DEF passed
  <2> QED
    BY <2>1, <2>2, CheckTyped
<1>6. CASE CheckMaxDrawdown(c)
  <2> DEFINE passed == ~IsDrawnDown(seen[c])
             s == IF passed /\ failed[c] = {} THEN "place" ELSE "reject"
  <2>1. Check(c, "maxDrawdown", passed) /\ Go(c, s) /\ at[c] = "drawdownRows"
        /\ UNCHANGED <<account, trades, order, seen, result, history, bounds>>
    BY <1>6 DEF CheckMaxDrawdown
  <2>2. s \in Steps \ {"quote"} /\ (s = "place" => passed /\ failed[c] = {})
    BY DEF Steps
  <2> HIDE DEF passed, s
  <2> QED
    BY <2>1, <2>2, CheckTyped DEF Checks
<1>7. CASE FindNoPrice(c)
  BY <1>7, AnswerTyped DEF FindNoPrice
<1>8. CASE RejectOrder(c)
  BY <1>0, <1>8, GoTyped DEF RejectOrder, locals, Steps
<1> QED
  BY <1>2, <1>3, <1>4, <1>5, <1>6, <1>7, <1>8, QuoteTyped, PlaceTyped, LogTyped DEF Execute

(* Every step keeps the types.                                              *)
LEMMA TypedStep == Typed /\ [Next]_vars => Typed'
<1> SUFFICES ASSUME Typed, [Next]_vars PROVE Typed'
  OBVIOUS
<1>1. ASSUME NEW c \in Callers, NEW r \in Requests, Post(c, r) PROVE Typed'
  <2>1. r \in RequestRecords
    BY TradeEngineAssumption
  <2>2. order' \in [Callers -> RequestRecords \cup {Nothing}] /\ at' \in [Callers -> Steps \cup {"idle"}]
    BY <1>1, <2>1 DEF Post, Go, Typed, TypeOK, Steps
  <2>3. Executing'
    BY <1>1, <2>1 DEF Post, Go, Typed, TypeOK, Executing
  <2>4. posted' \in 0..MaxPosts
    BY <1>1, TradeEngineAssumption DEF Post, Typed, TypeOK
  <2> QED
    BY <1>1, <2>2, <2>3, <2>4 DEF Post, Typed, TypeOK, account, history
<1>2. CASE NextDay
  <2>1. Executing'
    BY <1>2 DEF NextDay, Typed, Executing, locals
  <2>2. trades' \in [today : Nat, realizedPnl : Int, buyFees : Nat] /\ day' \in 1..MaxDays
    BY <1>2, TradeEngineAssumption DEF NextDay, Typed, TypeOK
  <2> QED
    BY <1>2, <2>1, <2>2 DEF NextDay, Typed, TypeOK, account, locals
<1>3. CASE Restart
  <2>1. /\ order' \in [Callers -> RequestRecords \cup {Nothing}]
        /\ failed' \in [Callers -> SUBSET Checks]
        /\ seen' \in [Callers -> [cash : Nat, peak : Nat]]
        /\ result' \in [Callers -> Results]
        /\ priceCache' \in [Symbols -> Nat]
        /\ at' \in [Callers -> Steps \cup {"idle"}]
    BY <1>3 DEF Restart, NoRow, NoResult, Results, NoPrice
  <2>2. Executing'
    BY <1>3 DEF Restart, Executing, NoResult
  <2>3. Cardinality(Logging) \in Nat
    BY SubsetCount DEF Logging
  <2>4. restarts' \in 0..MaxRestarts /\ unlogged' \in Nat
    BY <1>3, <2>3, TradeEngineAssumption DEF Restart, Typed, TypeOK
  <2> QED
    BY <1>3, <2>1, <2>2, <2>4 DEF Restart, Typed, TypeOK, Results
<1>4. CASE UNCHANGED vars
  BY <1>4 DEF Typed, TypeOK, Executing, vars, account, locals, history, bounds
<1> QED
  BY <1>1, <1>2, <1>3, <1>4, ExecuteTyped DEF Next

(* The variables keep their types: neither cash nor a position goes         *)
(* negative, however requests overlap.                                      *)
THEOREM TypeCorrect == Spec => []TypeOK
<1>1. Typed => TypeOK
  BY DEF Typed
<1> QED
  BY <1>1, InitTyped, TypedStep, PTL DEF Spec
-----------------------------------------------------------------------------
(* Until the first midnight nothing is lost sight of.                       *)
Counted == day = 1 => placedToday = trades.today + Cardinality(Logging) + unlogged

(* Every step of the first day adds to both sides, or to neither.           *)
LEMMA CountedStep ==
  ASSUME Typed, Typed', Counted, [Next]_vars
  PROVE  Counted'
<1> USE DEF Typed, TypeOK
<1>0. Cardinality(Logging) \in Nat /\ IsFiniteSet(Logging)
  BY SubsetCount DEF Logging
<1>1. ASSUME Logging' = Logging, trades'.today = trades.today,
             UNCHANGED <<placedToday, unlogged, day>>
      PROVE  Counted'
  BY <1>1 DEF Counted
<1>2. ASSUME NEW c \in Callers, NEW r \in Requests, Post(c, r) PROVE Counted'
  <2>1. Logging' = Logging
    BY <1>2 DEF Logging, Post, Go, Executing
  <2> QED
    BY <1>1, <1>2, <2>1 DEF Post, history
<1>3. ASSUME NEW c \in Callers, Execute(c), ~PlaceOrder(c), ~LogTrade(c) PROVE Counted'
  <2>1. UNCHANGED <<placedToday, unlogged, day, trades>>
    BY <1>3 DEF Execute, Quote, CheckMaxOpenPositions, ReadBalanceRow, CheckMaxPositionSize,
       CheckDailyTradeLimit, CheckMaxDrawdown, FindNoPrice, RejectOrder, history, bounds
  <2>2. ~result[c].placed /\ \A d \in Callers \ {c} : at'[d] = at[d]
    BY <1>3 DEF Execute, Quote, CheckMaxOpenPositions, ReadBalanceRow, CheckMaxPositionSize,
       CheckDailyTradeLimit, CheckMaxDrawdown, FindNoPrice, RejectOrder, Answer, Go, Executing
  <2>3. UNCHANGED result \/ result' = [result EXCEPT ![c] = NoResult]
    BY <1>3 DEF Execute, Quote, CheckMaxOpenPositions, ReadBalanceRow, CheckMaxPositionSize,
       CheckDailyTradeLimit, CheckMaxDrawdown, FindNoPrice, RejectOrder, Answer, locals
  <2>4. Logging' = Logging
    BY <2>2, <2>3 DEF Logging, NoResult
  <2> QED
    BY <1>1, <2>1, <2>4
<1>4. ASSUME NEW c \in Callers, PlaceOrder(c) PROVE Counted'
  <2>1. Logging' = Logging \cup {c} /\ c \notin Logging
    BY <1>4 DEF PlaceOrder, Go, Logging
  <2>2. Cardinality(Logging') = Cardinality(Logging) + 1
    BY <1>0, <2>1, FS_AddElement
  <2> QED
    BY <1>0, <1>4, <2>2 DEF PlaceOrder, Counted, bounds
<1>5. ASSUME NEW c \in Callers, LogTrade(c) PROVE Counted'
  <2>1. UNCHANGED <<placedToday, unlogged, day>>
    BY <1>5 DEF LogTrade, history, bounds
  <2>2. CASE ~result[c].placed
    <3>1. Logging' = Logging
      BY <1>5, <2>2 DEF LogTrade, Answer, Go, Logging, NoResult
    <3> QED
      BY <1>1, <1>5, <2>1, <2>2, <3>1 DEF LogTrade, Row
  <2>3. CASE result[c].placed
    <3>1. Logging' = Logging \ {c} /\ c \in Logging
      BY <1>5, <2>3 DEF LogTrade, Answer, Go, Logging, NoResult, Executing
    <3>2. Cardinality(Logging') = Cardinality(Logging) - 1
      BY <1>0, <3>1, FS_RemoveElement
    <3>3. trades'.today = trades.today + 1
      BY <1>5, <2>3 DEF LogTrade, Row
    <3> QED
      BY <1>0, <2>1, <3>2, <3>3 DEF Counted
  <2> QED
    BY <2>2, <2>3
<1>6. CASE NextDay
  BY <1>6 DEF NextDay, Counted
<1>7. CASE Restart
  <2>1. Logging' = {}
    BY <1>7 DEF Restart, Logging
  <2>2. Cardinality(Logging') = 0
    BY <2>1, FS_EmptySet
  <2> QED
    BY <1>0, <1>7, <2>2 DEF Restart, Counted
<1>8. CASE UNCHANGED vars
  BY <1>1, <1>8 DEF vars, locals, history, bounds, Logging
<1> QED
  BY <1>2, <1>3, <1>4, <1>5, <1>6, <1>7, <1>8 DEF Next

(* On the first day every order the executor took has its row, is on its    *)
(* way to it, or was lost by a crash.                                       *)
THEOREM OrdersAreLogged == Spec => []OrdersLogged
<1>1. Init => Typed /\ Counted
  <2> SUFFICES ASSUME Init PROVE Counted
    BY InitTyped
  <2>1. Logging = {}
    BY DEF Init, Logging
  <2> QED
    BY <2>1, FS_EmptySet DEF Init, Counted
<1>2. (Typed /\ Counted) /\ [Next]_vars => (Typed /\ Counted)'
  BY TypedStep, CountedStep
<1>3. Typed /\ Counted => OrdersLogged
  BY DEF Counted, OrdersLogged
<1> QED
  BY <1>1, <1>2, <1>3, PTL DEF Spec
-----------------------------------------------------------------------------
(* What the rows say the money is, with the orders still to be logged.      *)
Told == [c \in Callers |-> result[c].realizedPnl - result[c].buyFee]
Explained ==
  unlogged = 0 =>
    cash + Exposure(pos) =
      InitialCash + trades.realizedPnl - trades.buyFees + SumFunctionOnSet(Told, Callers)

(* The sums are integers.                                                   *)
LEMMA ToldInts ==
  ASSUME Typed
  PROVE  /\ \A c \in Callers : Told[c] \in Int
         /\ SumFunctionOnSet(Told, Callers) \in Int
         /\ trades.realizedPnl \in Int /\ trades.buyFees \in Int /\ trades.today \in Nat
         /\ Exposure(pos) \in Nat /\ cash \in Nat /\ InitialCash \in Nat
<1>1. \A c \in Callers : result[c] \in Results
  BY DEF Typed, TypeOK, Results
<1>2. \A c \in Callers : Told[c] \in Int
  BY <1>1 DEF Told, Results
<1>3. SumFunctionOnSet(Told, Callers) \in Int
  BY <1>2, SumInt, TradeEngineAssumption
<1>4. Exposure(pos) \in Nat
  BY ExposureNat DEF Typed, TypeOK
<1> QED
  BY <1>2, <1>3, <1>4, TradeEngineAssumption DEF Typed, TypeOK

(* No result has anything to say.                                           *)
LEMMA NothingTold ==
  ASSUME NEW f, \A c \in Callers : f[c] = 0
  PROVE  SumFunctionOnSet(f, Callers) = 0
  BY SumZero, TradeEngineAssumption

(* A new account has its initial cash and no rows.                          *)
LEMMA ExplainedInit == Init => Explained
<1> SUFFICES ASSUME Init PROVE Explained
  OBVIOUS
<1>1. \A c \in Callers : Told[c] = 0
  BY DEF Init, Told, NoResult
<1>2. Exposure(pos) = 0
  <2> DEFINE f == [s \in Symbols |-> pos[s].cost]
  <2>1. \A s \in Symbols : f[s] = 0
    BY DEF Init, NoRows, NoPosition
  <2>2. Exposure(pos) = SumFunctionOnSet(f, Symbols)
    BY DEF Exposure, SumFunction
  <2> HIDE DEF f
  <2> QED
    BY <2>1, <2>2, SumZero, TradeEngineAssumption
<1> QED
  BY <1>1, <1>2, NothingTold, TradeEngineAssumption DEF Init, Explained

(* A step that keeps the account and what is told.                          *)
LEMMA ExplainedFrame ==
  ASSUME Explained, UNCHANGED <<cash, pos, unlogged>>,
         trades'.realizedPnl = trades.realizedPnl, trades'.buyFees = trades.buyFees,
         \A c \in Callers : Told'[c] = Told[c]
  PROVE  Explained'
<1>1. SumFunctionOnSet(Told', Callers) = SumFunctionOnSet(Told, Callers)
  BY SumSame, TradeEngineAssumption
<1>2. Exposure(pos') = Exposure(pos)
  OBVIOUS
<1> QED
  BY <1>1, <1>2 DEF Explained

(* The cost that a position carries less or more is the exposure's change.  *)
LEMMA ExposureChange ==
  ASSUME NEW old \in [Symbols -> Positions], NEW s \in Symbols, NEW p \in Positions
  PROVE  Exposure([old EXCEPT ![s] = p]) = Exposure(old) - old[s].cost + p.cost
<1> DEFINE new == [old EXCEPT ![s] = p]
           f == [x \in Symbols |-> old[x].cost]
           h == [x \in Symbols |-> new[x].cost]
<1>1. \A x \in Symbols : f[x] \in Int /\ h[x] \in Int
  BY DEF Positions
<1>2. \A x \in Symbols \ {s} : f[x] = h[x]
  OBVIOUS
<1>3. f[s] = old[s].cost /\ h[s] = p.cost
  OBVIOUS
<1>4. Exposure(old) = SumFunctionOnSet(f, Symbols) /\ Exposure(new) = SumFunctionOnSet(h, Symbols)
  BY DEF Exposure, SumFunction
<1> HIDE DEF f, h, new
<1>5. Exposure(new) = Exposure(old) - old[s].cost + p.cost
  BY <1>1, <1>2, <1>3, <1>4, SumChange, TradeEngineAssumption
<1> QED
  BY <1>5 DEF new

(* A fill moves money between cash and positions: what gets lost is the fee *)
(* of a buy, what is gained the P&L of a sale.                              *)
LEMMA ExplainedPlace ==
  ASSUME Typed, Typed', Explained, NEW c \in Callers, PlaceOrder(c)
  PROVE  Explained'
<1> DEFINE r == order[c]  price == FillPrice(order[c])  old == pos[order[c].symbol]
           q == order[c].quantity
           new == NewPosition(r.action, price, q, old)
           pnl == RealizedPnl(r.action, price, q, old)
           fee == IF r.action = "buy" THEN CalculateFee(price, q) ELSE 0
<1>1. /\ r.action \in {"buy", "sell"} /\ price \in Nat /\ q \in Nat \ {0}
      /\ r.symbol \in Symbols /\ old \in Positions /\ CanFill(r.action, price, q, cash, old)
      /\ r.action = "sell" => old.qty >= q
  BY PlacedTypes
<1>2. /\ Notional(price, q) \in Nat /\ CalculateFee(price, q) \in Nat
      /\ SellProceeds(price, q) \in Nat
  BY <1>1, AmountsNat
<1>3. r.action = "sell" => CostShare(old, q) \in Int
  BY <1>1, CostShareBounded
<1>4. cash \in Nat /\ pos \in [Symbols -> Positions] /\ old.cost \in Nat /\ unlogged' = unlogged
  BY <1>1 DEF Typed, TypeOK, Positions, PlaceOrder
<1>5. new \in Positions
  BY <1>1, <1>4, FillIsTyped
<1>6. NewCash(r.action, price, q, cash) + new.cost - old.cost = cash + pnl - fee
      /\ pnl \in Int /\ fee \in Int /\ new.cost \in Int /\ NewCash(r.action, price, q, cash) \in Int
  BY <1>1, <1>2, <1>3, <1>4 DEF NewCash, NewPosition, RealizedPnl, BuyCost
<1> HIDE DEF r, price, old, q, new, pnl, fee
<1>7. cash' = NewCash(r.action, price, q, cash) /\ pos' = [pos EXCEPT ![r.symbol] = new]
      /\ result' = [result EXCEPT ![c] = [placed |-> TRUE, realizedPnl |-> pnl, buyFee |-> fee]]
      /\ trades' = trades
  BY DEF PlaceOrder, r, price, old, q, new, pnl, fee
<1>8. Exposure(pos') = Exposure(pos) - old.cost + new.cost
  BY <1>1, <1>4, <1>5, <1>7, ExposureChange DEF old, r
<1>9. /\ Told[c] = 0 /\ Told'[c] = pnl - fee
      /\ \A d \in Callers \ {c} : Told[d] = Told'[d]
  <2>1. result[c] = NoResult
    BY DEF PlaceOrder, Typed, Executing
  <2>2. result'[c] = [placed |-> TRUE, realizedPnl |-> pnl, buyFee |-> fee]
        /\ \A d \in Callers \ {c} : result'[d] = result[d]
    BY <1>7 DEF Typed, TypeOK
  <2> QED
    BY <2>1, <2>2 DEF Told, NoResult
<1>10. /\ \A d \in Callers : Told[d] \in Int /\ Told'[d] \in Int
       /\ SumFunctionOnSet(Told, Callers) \in Int
       /\ trades.realizedPnl \in Int /\ trades.buyFees \in Int
       /\ Exposure(pos) \in Nat /\ InitialCash \in Nat
  <2>1. \A d \in Callers : Told'[d] \in Int
    <3>1. \A d \in Callers : result'[d] \in Results
      BY DEF Typed, TypeOK, Results
    <3> QED
      BY <3>1 DEF Told, Results
  <2> QED
    BY <2>1, ToldInts
<1>11. SumFunctionOnSet(Told', Callers) = SumFunctionOnSet(Told, Callers) + (pnl - fee)
  <2>1. SumFunctionOnSet(Told', Callers) = SumFunctionOnSet(Told, Callers) - Told[c] + Told'[c]
    BY <1>9, <1>10, SumChange, TradeEngineAssumption
  <2> QED
    BY <1>6, <1>9, <1>10, <2>1
<1> QED
  BY <1>4, <1>5, <1>6, <1>7, <1>8, <1>10, <1>11 DEF Explained

(* The row takes over what the result told.                                 *)
LEMMA ExplainedLog ==
  ASSUME Typed, Typed', Explained, NEW c \in Callers, LogTrade(c)
  PROVE  Explained'
<1>1. result[c] \in Results /\ Told[c] = result[c].realizedPnl - result[c].buyFee
  BY DEF Typed, TypeOK, Results, Told
<1>2. /\ trades'.realizedPnl = trades.realizedPnl + result[c].realizedPnl
      /\ trades'.buyFees = trades.buyFees + result[c].buyFee
      /\ UNCHANGED <<cash, pos, unlogged>>
      /\ result' = [result EXCEPT ![c] = NoResult]
  BY DEF LogTrade, Row, account, history, Answer
<1>3. Told'[c] = 0 /\ \A d \in Callers \ {c} : Told[d] = Told'[d]
  BY <1>2 DEF Told, NoResult, Typed, TypeOK
<1>4. \A d \in Callers : Told[d] \in Int /\ Told'[d] \in Int
  BY <1>3, ToldInts
<1>5. SumFunctionOnSet(Told', Callers) = SumFunctionOnSet(Told, Callers) - Told[c]
  <2>1. SumFunctionOnSet(Told', Callers) = SumFunctionOnSet(Told, Callers) - Told[c] + Told'[c]
    BY <1>3, <1>4, SumChange, TradeEngineAssumption
  <2> QED
    BY <1>3, <1>4, <2>1, ToldInts
<1>6. Exposure(pos') = Exposure(pos)
  BY <1>2
<1> QED
  BY <1>1, <1>2, <1>5, <1>6, ToldInts DEF Explained, Results

(* Every step keeps the account explained.                                  *)
LEMMA ExplainedStep ==
  ASSUME Typed, Typed', Explained, [Next]_vars
  PROVE  Explained'
<1> USE DEF Typed, TypeOK
<1>1. CASE \E c \in Callers : \E r \in Requests : Post(c, r)
  BY <1>1, ExplainedFrame DEF Post, account, history, Told
<1>2. ASSUME NEW c \in Callers, Execute(c), ~PlaceOrder(c), ~LogTrade(c) PROVE Explained'
  <2>1. UNCHANGED <<cash, pos, unlogged, trades>>
    BY <1>2 DEF Execute, Quote, CheckMaxOpenPositions, ReadBalanceRow, CheckMaxPositionSize,
       CheckDailyTradeLimit, CheckMaxDrawdown, FindNoPrice, RejectOrder, history, account
  <2>2. UNCHANGED result \/ result' = [result EXCEPT ![c] = NoResult]
    BY <1>2 DEF Execute, Quote, CheckMaxOpenPositions, ReadBalanceRow, CheckMaxPositionSize,
       CheckDailyTradeLimit, CheckMaxDrawdown, FindNoPrice, RejectOrder, Answer, locals
  <2>3. result[c] = NoResult
    <3>1. at[c] # "log"
      BY <1>2 DEF Execute, Quote, CheckMaxOpenPositions, ReadBalanceRow,
         CheckMaxPositionSize,
         CheckDailyTradeLimit, CheckMaxDrawdown, FindNoPrice, RejectOrder
    <3> QED
      BY <3>1 DEF Executing
  <2>4. result' = result
    BY <2>2, <2>3
  <2> QED
    BY <2>1, <2>4, ExplainedFrame DEF Told
<1>3. CASE NextDay
  BY <1>3, ExplainedFrame DEF NextDay, account, locals, Told
<1>4. CASE Restart
  <2>1. Cardinality(Logging) \in Nat /\ IsFiniteSet(Logging)
    BY SubsetCount DEF Logging
  <2>2. CASE unlogged' # 0
    BY <2>2 DEF Explained
  <2>3. CASE unlogged' = 0
    <3>1. unlogged = 0 /\ Logging = {}
      BY <1>4, <2>1, <2>3, FS_EmptySet DEF Restart
    <3>2. \A c \in Callers : Told[c] = 0 /\ Told'[c] = 0
      BY <1>4, <3>1 DEF Restart, Executing, Logging, Told, NoResult
    <3> QED
      BY <1>4, <2>3, <3>1, <3>2, ExplainedFrame DEF Restart
  <2> QED
    BY <2>2, <2>3
<1>5. CASE UNCHANGED vars
  BY <1>5, ExplainedFrame DEF vars, account, locals, history, Told
<1> QED
  BY <1>1, <1>2, <1>3, <1>4, <1>5, ExplainedPlace, ExplainedLog DEF Next

(* Money does not appear or vanish beside the trades table: until a crash   *)
(* loses a row, cash and positions at cost are what its P&L and fees say.   *)
THEOREM TradesExplain == Spec => []TradesExplainAccount
<1>1. (Typed /\ Explained) /\ [Next]_vars => (Typed /\ Explained)'
  BY TypedStep, ExplainedStep
<1>2. Typed /\ Explained => TradesExplainAccount
  <2> SUFFICES ASSUME Typed, Explained, unlogged = 0, Logging = {}
               PROVE  cash + Exposure(pos) = InitialCash + trades.realizedPnl - trades.buyFees
    BY DEF TradesExplainAccount
  <2>1. \A c \in Callers : Told[c] = 0
    BY DEF Typed, Executing, Logging, Told, NoResult
  <2> QED
    BY <2>1, NothingTold, ToldInts DEF Explained
<1> QED
  BY <1>1, <1>2, InitTyped, ExplainedInit, PTL DEF Spec
-----------------------------------------------------------------------------
(* The buys that passed the check of the open positions, and the symbols    *)
(* they may open one on.                                                    *)
Buyers ==
  {c \in Callers :
     /\ at[c] \in {"size", "sizeRows", "count", "drawdown", "drawdownRows", "place"}
     /\ order[c].action = "buy"
     /\ "maxOpenPositions" \notin failed[c]}
Wanted == {order[c].symbol : c \in Buyers}

(* The positions there are and those that may come fit in the limit and the *)
(* slack.  A position that is sold while another request wants to add to it *)
(* is counted still.                                                        *)
Roomy == Cardinality(Open(pos) \cup Wanted) <= MaxOpenPositions + Slack

PositionsInv == Typed /\ Turns /\ Roomy

(* What is open or wanted are symbols, as many as one likes but finitely.   *)
LEMMA SymbolsCount ==
  ASSUME NEW S, NEW R, S \subseteq R, R \subseteq Symbols
  PROVE  /\ IsFiniteSet(S) /\ IsFiniteSet(R)
         /\ Cardinality(S) \in Nat /\ Cardinality(R) \in Nat
         /\ Cardinality(S) <= Cardinality(R)
<1>1. IsFiniteSet(R)
  BY TradeEngineAssumption, FS_Subset
<1>2. IsFiniteSet(S) /\ Cardinality(S) <= Cardinality(R)
  BY <1>1, FS_Subset
<1> QED
  BY <1>1, <1>2, FS_CardinalityType

(* What is open or wanted is a symbol.                                      *)
LEMMA WantedSymbols == Typed => Open(pos) \cup Wanted \subseteq Symbols
<1> SUFFICES ASSUME Typed PROVE Open(pos) \cup Wanted \subseteq Symbols
  OBVIOUS
<1>1. ASSUME NEW c \in Buyers PROVE order[c].symbol \in Symbols
  BY DEF Buyers, Typed, Executing, RequestRecords
<1> QED
  BY <1>1 DEF Wanted, Open

(* Fewer are open or wanted.                                                *)
LEMMA FewerWanted ==
  ASSUME Typed, Roomy, Open(pos') \cup Wanted' \subseteq Open(pos) \cup Wanted
  PROVE  Roomy'
<1>1. /\ Cardinality(Open(pos') \cup Wanted') <= Cardinality(Open(pos) \cup Wanted)
      /\ Cardinality(Open(pos') \cup Wanted') \in Nat /\ Cardinality(Open(pos) \cup Wanted) \in Nat
  BY WantedSymbols, SymbolsCount
<1>2. Slack' = Slack
  BY DEF Slack
<1> QED
  BY <1>1, <1>2, CallersFinite, TradeEngineAssumption DEF Roomy

(* A request that was not a buyer does not become one, another one stays as *)
(* it is.                                                                   *)
LEMMA NoNewBuyer ==
  ASSUME Typed, Typed', Roomy, pos' = pos, Buyers' \subseteq Buyers,
         \A d \in Buyers' : order'[d].symbol = order[d].symbol
  PROVE  Roomy'
<1>1. Wanted' \subseteq Wanted
  BY DEF Wanted
<1> QED
  BY <1>1, FewerWanted

(* As many buyers as requests may overlap.                                  *)
LEMMA BuyersBound == Typed /\ Turns => Cardinality(Wanted) <= Slack + 1
<1> SUFFICES ASSUME Typed, Turns PROVE Cardinality(Wanted) <= Slack + 1
  OBVIOUS
<1>1. Buyers \subseteq Callers /\ IsFiniteSet(Buyers) /\ Cardinality(Buyers) \in Nat
      /\ Cardinality(Buyers) <= Cardinality(Callers)
  BY SubsetCount DEF Buyers
<1>2. Cardinality(Wanted) <= Cardinality(Buyers)
  <2> DEFINE f == [c \in Buyers |-> order[c].symbol]
  <2>1. f \in Surjection(Buyers, Wanted)
    BY DEF Surjection, Wanted
  <2> QED
    BY <1>1, <2>1, FS_Surjection
<1>3. Cardinality(Wanted) \in Nat
  BY WantedSymbols, SymbolsCount
<1>4. CASE Overlap
  BY <1>1, <1>2, <1>3, <1>4, CallersFinite DEF Slack
<1>5. CASE ~Overlap
  <2>1. \A c, d \in Buyers : c = d
    BY <1>5 DEF Turns, Buyers
  <2>2. Buyers = {} \/ \E c \in Buyers : Buyers = {c}
    BY <2>1
  <2>3. Cardinality(Buyers) <= 1
    <3>1. CASE Buyers = {}
      BY <3>1, FS_EmptySet
    <3>2. ASSUME NEW c \in Buyers, Buyers = {c} PROVE Cardinality(Buyers) <= 1
      BY <3>2, FS_Singleton
    <3> QED
      BY <2>2, <3>1, <3>2
  <2> QED
    BY <1>1, <1>2, <1>3, <1>5, <2>3 DEF Slack
<1> QED
  BY <1>4, <1>5

(* The check that passes: a symbol that is open or wanted adds nothing, and *)
(* for a new one there are fewer positions than the limit.                  *)
LEMMA RoomyCheck ==
  ASSUME Typed, Typed', Turns', Roomy, NEW c \in Callers, CheckMaxOpenPositions(c)
  PROVE  Roomy'
<1> DEFINE passed == HasRoom(order[c].symbol, Open(pos))
<1>1. /\ at[c] = "positions" /\ at' = [at EXCEPT ![c] = "size"] /\ UNCHANGED <<order, pos>>
      /\ failed' = IF passed THEN failed ELSE [failed EXCEPT ![c] = @ \cup {"maxOpenPositions"}]
  BY DEF CheckMaxOpenPositions, Check, Go, account
<1>2. Buyers' \subseteq Buyers \cup {c} /\ (~passed => c \notin Buyers')
  BY <1>1 DEF Buyers, Typed, TypeOK
<1> HIDE DEF passed
<1>3. CASE c \notin Buyers'
  <2>1. Buyers' \subseteq Buyers
    BY <1>2, <1>3
  <2> QED
    BY <1>1, <2>1, NoNewBuyer
<1>4. CASE c \in Buyers' /\ order[c].symbol \in Open(pos)
  <2>1. Wanted' \subseteq Wanted \cup Open(pos)
    BY <1>1, <1>2, <1>4 DEF Wanted
  <2> QED
    BY <1>1, <2>1, FewerWanted
<1>5. CASE c \in Buyers' /\ order[c].symbol \notin Open(pos)
  <2>1. Cardinality(Open(pos)) < MaxOpenPositions
    BY <1>2, <1>5 DEF passed, HasRoom
  <2>2. Cardinality(Wanted') <= Slack + 1
    <3> (Typed /\ Turns => Cardinality(Wanted) <= Slack + 1)'
      BY BuyersBound, PTL
    <3> QED
      BY DEF Slack
  <2>3. (Typed => Open(pos) \cup Wanted \subseteq Symbols)'
    BY WantedSymbols, PTL
  <2>4. Open(pos') \subseteq Symbols /\ Wanted' \subseteq Symbols
    BY <2>3
  <2>5. /\ IsFiniteSet(Open(pos')) /\ IsFiniteSet(Wanted')
        /\ Cardinality(Open(pos')) \in Nat /\ Cardinality(Wanted') \in Nat
    BY <2>4, SymbolsCount
  <2>6. Cardinality(Open(pos') \cup Wanted') <= Cardinality(Open(pos')) + Cardinality(Wanted')
        /\ Cardinality(Open(pos') \cup Wanted') \in Nat
    <3>1. Cardinality(Open(pos') \cup Wanted') =
            Cardinality(Open(pos')) + Cardinality(Wanted') - Cardinality(Open(pos') \cap Wanted')
      BY <2>5, FS_Union
    <3>2. Cardinality(Open(pos') \cap Wanted') \in Nat /\ Cardinality(Open(pos') \cup Wanted') \in Nat
      BY <2>4, SymbolsCount
    <3> QED
      BY <2>5, <3>1, <3>2
  <2>7. Slack' = Slack
    BY DEF Slack
  <2> QED
    BY <1>1, <2>1, <2>2, <2>5, <2>6, <2>7, CallersFinite, TradeEngineAssumption DEF Roomy
<1> QED
  BY <1>3, <1>4, <1>5

(* A buy opens what it wanted, a sale opens nothing.                        *)
LEMMA RoomyPlace ==
  ASSUME Typed, Typed', Roomy, NEW c \in Callers, PlaceOrder(c)
  PROVE  Roomy'
<1> DEFINE r == order[c]  new == NewPosition(r.action, FillPrice(r), r.quantity, pos[r.symbol])
<1>1. /\ r.action \in {"buy", "sell"} /\ r.quantity \in Nat \ {0} /\ r.symbol \in Symbols
      /\ pos[r.symbol] \in Positions /\ (r.action = "sell" => pos[r.symbol].qty >= r.quantity)
  BY PlacedTypes
<1>2. /\ at[c] = "place" /\ at' = [at EXCEPT ![c] = "log"] /\ UNCHANGED <<order, failed>>
      /\ pos' = [pos EXCEPT ![r.symbol] = new]
  BY DEF PlaceOrder, Go
<1>3. Buyers' \subseteq Buyers
  BY <1>2 DEF Buyers, Typed, TypeOK
<1>4. Wanted' \subseteq Wanted
  BY <1>2, <1>3 DEF Wanted
<1>5. r.action = "buy" => r.symbol \in Wanted
  <2>1. failed[c] = {}
    BY <1>2 DEF Typed, Executing
  <2> QED
    BY <1>2, <2>1 DEF Wanted, Buyers
<1>6. r.action = "sell" => (new.qty > 0 => pos[r.symbol].qty > 0)
  BY <1>1 DEF NewPosition, Positions
<1>7. Open(pos') \subseteq Open(pos) \cup Wanted
  <2>1. \A s \in Symbols \ {r.symbol} : pos'[s] = pos[s]
    BY <1>2 DEF Typed, TypeOK
  <2>2. pos'[r.symbol] = new
    BY <1>1, <1>2 DEF Typed, TypeOK
  <2> QED
    BY <1>1, <1>5, <1>6, <2>1, <2>2 DEF Open
<1> QED
  BY <1>4, <1>7, FewerWanted

(* The statements of executeDecision, one by one.                           *)
LEMMA RoomyExecute ==
  ASSUME Typed, Typed', Turns', Roomy, NEW c \in Callers, Execute(c)
  PROVE  Roomy'
<1>1. ASSUME pos' = pos, \A d \in Callers \ {c} : at'[d] = at[d] /\ failed'[d] = failed[d]
                                                    /\ order'[d] = order[d],
             c \in Buyers' => c \in Buyers /\ order'[c] = order[c]
      PROVE  Roomy'
  <2>1. Buyers' \subseteq Buyers
    BY <1>1 DEF Buyers
  <2>2. \A d \in Buyers' : order'[d] = order[d]
    BY <1>1, <2>1 DEF Buyers
  <2> QED
    BY <1>1, <2>1, <2>2, NoNewBuyer
<1> USE DEF Typed, TypeOK
<1>2. ASSUME Answer(c), pos' = pos PROVE Roomy'
  <2>1. c \notin Buyers'
    BY <1>2 DEF Answer, Go, Buyers
  <2> QED
    BY <1>1, <1>2, <2>1 DEF Answer, Go
<1>3. CASE \E quote \in Quotes \cup {NoPrice} : Quote(c, quote)
  <2> PICK quote \in Quotes \cup {NoPrice} : Quote(c, quote)
    BY <1>3
  <2>1. CASE order[c].action = "hold"
    BY <1>2, <2>1 DEF Quote, account
  <2>2. CASE order[c].action # "hold" /\ order[c].action = "buy"
    <3>1. c \notin Buyers'
      BY <2>2 DEF Quote, Go, Buyers
    <3> QED
      BY <1>1, <2>2, <3>1 DEF Quote, Go, account
  <2>3. CASE order[c].action \notin {"hold", "buy"}
    <3>1. order'[c].action = order[c].action
      <4> DEFINE p == PriceFound(order[c], quote)
      <4>1. order' = [order EXCEPT ![c] = [order[c] EXCEPT !.limitPrice = p]]
        BY <2>3 DEF Quote
      <4> HIDE DEF p
      <4>2. order'[c] = [order[c] EXCEPT !.limitPrice = p]
        BY <4>1
      <4> QED
        BY <2>3, <4>2 DEF Executing, RequestRecords, Quote
    <3>2. c \notin Buyers'
      BY <2>3, <3>1 DEF Buyers
    <3> QED
      BY <1>1, <2>3, <3>2 DEF Quote, Go, account
  <2> QED
    BY <2>1, <2>2, <2>3
<1>4. CASE ReadBalanceRow(c)
  <2>1. c \in Buyers' => c \in Buyers
    BY <1>4 DEF ReadBalanceRow, Go, Buyers
  <2> QED
    BY <1>1, <1>4, <2>1 DEF ReadBalanceRow, Go, account
<1>5. ASSUME Check(c, "maxPositionSize", FALSE) \/ Check(c, "maxPositionSize", TRUE) \/
             Check(c, "dailyTradeLimit", FALSE) \/ Check(c, "dailyTradeLimit", TRUE) \/
             Check(c, "maxDrawdown", FALSE) \/ Check(c, "maxDrawdown", TRUE)
      PROVE  /\ \A d \in Callers \ {c} : failed'[d] = failed[d]
             /\ "maxOpenPositions" \in failed[c] => "maxOpenPositions" \in failed'[c]
  BY <1>5 DEF Check
<1>6. CASE CheckMaxPositionSize(c)
  <2>1. \E p \in BOOLEAN : Check(c, "maxPositionSize", p)
    BY <1>6 DEF CheckMaxPositionSize, Check
  <2>2. c \in Buyers' => c \in Buyers
    BY <1>5, <1>6, <2>1 DEF CheckMaxPositionSize, Go, Buyers
  <2> QED
    BY <1>1, <1>5, <1>6, <2>1, <2>2 DEF CheckMaxPositionSize, Go, account
<1>7. CASE CheckDailyTradeLimit(c)
  <2>1. \E p \in BOOLEAN : Check(c, "dailyTradeLimit", p)
    BY <1>7 DEF CheckDailyTradeLimit, Check
  <2>2. c \in Buyers' => c \in Buyers
    BY <1>5, <1>7, <2>1 DEF CheckDailyTradeLimit, Go, Buyers
  <2> QED
    BY <1>1, <1>5, <1>7, <2>1, <2>2 DEF CheckDailyTradeLimit, Go, account
<1>8. CASE CheckMaxDrawdown(c)
  <2>1. \E p \in BOOLEAN : Check(c, "maxDrawdown", p)
    BY <1>8 DEF CheckMaxDrawdown, Check
  <2>2. at[c] = "drawdownRows" /\ \A d \in Callers \ {c} : at'[d] = at[d]
    BY <1>8 DEF CheckMaxDrawdown, Go
  <2>3. c \in Buyers' => c \in Buyers
    BY <1>5, <1>8, <2>1, <2>2 DEF CheckMaxDrawdown, Buyers
  <2> QED
    BY <1>1, <1>5, <1>8, <2>1, <2>2, <2>3 DEF CheckMaxDrawdown, account
<1>9. CASE FindNoPrice(c)
  BY <1>2, <1>9 DEF FindNoPrice, account
<1>10. CASE RejectOrder(c)
  <2>1. c \notin Buyers'
    BY <1>10 DEF RejectOrder, Go, Buyers
  <2> QED
    BY <1>1, <1>10, <2>1 DEF RejectOrder, Go, account, locals
<1>11. CASE LogTrade(c)
  BY <1>2, <1>11 DEF LogTrade, account
<1> QED
  BY <1>3, <1>4, <1>6, <1>7, <1>8, <1>9, <1>10, <1>11, RoomyCheck, RoomyPlace DEF Execute

(* Without overlap, requests keep taking turns.                             *)
LEMMA TurnsStep == Typed /\ Turns /\ [Next]_vars => Turns'
<1> SUFFICES ASSUME Typed, Turns, [Next]_vars PROVE Turns'
  OBVIOUS
<1> USE DEF Typed, TypeOK
<1>1. ASSUME NEW c \in Callers, at[c] # "idle", \A d \in Callers \ {c} : at'[d] = at[d]
      PROVE  Turns'
  BY <1>1 DEF Turns
<1>2. ASSUME NEW c \in Callers, Execute(c) PROVE Turns'
  <2>1. at[c] # "idle" /\ \A d \in Callers \ {c} : at'[d] = at[d]
    BY <1>2 DEF Execute, Quote, CheckMaxOpenPositions, ReadBalanceRow, CheckMaxPositionSize,
       CheckDailyTradeLimit, CheckMaxDrawdown, FindNoPrice, PlaceOrder, RejectOrder, LogTrade,
       Answer, Go
  <2> QED
    BY <1>1, <2>1
<1>3. CASE \E c \in Callers : \E r \in Requests : Post(c, r)
  BY <1>3 DEF Post, Go, Turns
<1>4. CASE Restart \/ NextDay \/ UNCHANGED vars
  BY <1>4 DEF Restart, NextDay, vars, Turns
<1> QED
  BY <1>2, <1>3, <1>4 DEF Next

(* Every step keeps the open and the wanted positions within the limit.     *)
LEMMA PositionsStep == PositionsInv /\ [Next]_vars => PositionsInv'
<1> SUFFICES ASSUME PositionsInv, [Next]_vars PROVE PositionsInv'
  OBVIOUS
<1>1. Typed /\ Turns /\ Roomy /\ Typed' /\ Turns'
  BY TypedStep, TurnsStep DEF PositionsInv
<1>2. ASSUME NEW c \in Callers, NEW r \in Requests, Post(c, r) PROVE Roomy'
  <2>1. /\ Buyers' \subseteq Buyers /\ pos' = pos
        /\ \A d \in Buyers' : order'[d].symbol = order[d].symbol
    BY <1>1, <1>2 DEF Post, Go, Buyers, Typed, TypeOK, account
  <2> QED
    BY <1>1, <2>1, NoNewBuyer DEF PositionsInv
<1>3. CASE Restart
  <2>1. Buyers' = {} /\ pos' = pos
    BY <1>3 DEF Restart, Buyers
  <2>2. Buyers' \subseteq Buyers /\ \A d \in Buyers' : order'[d].symbol = order[d].symbol
    BY <2>1
  <2> QED
    BY <1>1, <2>1, <2>2, NoNewBuyer DEF PositionsInv
<1>4. CASE NextDay \/ UNCHANGED vars
  <2>1. UNCHANGED <<at, order, failed, pos>>
    BY <1>4 DEF NextDay, vars, locals, account
  <2>2. Open(pos') \cup Wanted' = Open(pos) \cup Wanted
    BY <2>1 DEF Wanted, Buyers
  <2> QED
    BY <1>1, <2>2, FewerWanted DEF PositionsInv
<1> QED
  BY <1>1, <1>2, <1>3, <1>4, RoomyExecute DEF PositionsInv, Next

(* However requests overlap, the open positions exceed maxOpenPositions by  *)
(* no more than the requests that overlap, less one.                        *)
THEOREM PositionLimit == Spec => []PositionsKept
<1>1. Init => PositionsInv
  <2> SUFFICES ASSUME Init PROVE Turns /\ Roomy
    BY InitTyped DEF PositionsInv
  <2>1. Open(pos) \cup Wanted = {}
    BY DEF Init, NoRows, NoPosition, Open, Wanted, Buyers
  <2>2. Cardinality(Open(pos) \cup Wanted) = 0
    BY <2>1, FS_EmptySet
  <2>3. MaxOpenPositions + Slack >= 0
    BY CallersFinite, TradeEngineAssumption DEF Slack
  <2> QED
    BY <2>2, <2>3 DEF Init, Turns, Roomy
<1>2. PositionsInv => PositionsKept
  <2> SUFFICES ASSUME PositionsInv PROVE Cardinality(Open(pos)) <= MaxOpenPositions + Slack
    BY DEF PositionsInv, Typed, PositionsKept
  <2>1. Cardinality(Open(pos)) <= Cardinality(Open(pos) \cup Wanted)
        /\ Cardinality(Open(pos)) \in Nat /\ Cardinality(Open(pos) \cup Wanted) \in Nat
    BY WantedSymbols, SymbolsCount DEF PositionsInv
  <2> QED
    BY <2>1, CallersFinite, TradeEngineAssumption DEF PositionsInv, Roomy
<1> QED
  BY <1>1, <1>2, PositionsStep, PTL DEF Spec
=============================================================================
