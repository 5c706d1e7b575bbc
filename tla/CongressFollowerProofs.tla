------------------------ MODULE CongressFollowerProofs ------------------------
(****************************************************************************)
(* Theorems about CongressFollower, for every feed, limit and number of     *)
(* restarts.  Those that need the evaluations of a theme not to overlap say *)
(* so.                                                                      *)
(****************************************************************************)
EXTENDS CongressFollower, FillRulesProofs

(* The steps after the filter, and those between an order and its record.   *)
Deciding == {"row", "value", "positions", "funds", "decide",
             "refreshPositions", "refreshRow", "refreshValue", "record"}
Recording == {"refreshPositions", "refreshRow", "refreshValue", "record"}

(* The hashes of the disclosures in a queue.                                *)
HashesIn(q) == {Feed[q[i]].hash : i \in DOMAIN q}

(* The queues of an evaluation hold disclosures of the feed, and an         *)
(* evaluation that looks at the first of one has one to look at.            *)
Queues ==
  /\ todo \in [Evaluators -> Seq(DOMAIN Feed)]
  /\ fresh \in [Evaluators -> Seq(DOMAIN Feed)]
  /\ \A e \in Evaluators :
       /\ at[e] = "expire" => todo[e] # <<>>
       /\ at[e] \in Deciding => todo[e] = <<>> /\ fresh[e] # <<>>
       /\ at[e] = "idle" => todo[e] = <<>> /\ fresh[e] = <<>> /\ known[e] = {}

(* The strengthened type invariant.                                         *)
Typed == TypeOK /\ Queues

(* What an evaluation has seen is decided, or still in one of its queues.   *)
AccountedFor(e) ==
  /\ known[e] \subseteq processed \cup HashesIn(fresh[e])
                        \cup (IF at[e] = "expire" THEN {First(e).hash} ELSE {})
  /\ fetched[e] \subseteq processed \cup HashesIn(fresh[e]) \cup HashesIn(todo[e])

Accounted == \A e \in Evaluators : AccountedFor(e)

(* The evaluations are not running, but for one at most.                    *)
Alone == \A d, e \in Evaluators : at[d] # "idle" /\ at[e] # "idle" => d = e

(* No two disclosures of a queue have one hash.                             *)
Distinct(q) == \A i, j \in DOMAIN q : i # j => Feed[q[i]].hash # Feed[q[j]].hash

(* What is left to decide is new, each of it once.                          *)
StillNewFor(e) ==
  /\ HashesIn(fresh[e]) \subseteq known[e] \ processed
  /\ Distinct(fresh[e])
  /\ at[e] = "expire" => First(e).hash \notin processed \cup HashesIn(fresh[e])

StillNew == \A e \in Evaluators : StillNewFor(e)

(* A hash that is not recorded has been traded once for each restart at     *)
(* most, and once more while its record is on the way.                      *)
Repeated(h) ==
  \/ h \in processed /\ mirrored[h] <= 1 + restarts
  \/ mirrored[h] <= restarts
  \/ /\ mirrored[h] <= 1 + restarts
     /\ \E e \in Evaluators : at[e] \in Recording /\ Signal(e).hash = h

Repeats == \A h \in Hashes : Repeated(h)

(* An evaluation that decides, decides by the account as it is.             *)
SnapshotFor(e) ==
  /\ at[e] \in {"funds", "decide", "refreshRow", "refreshValue", "record"} => rows[e] = pos
  /\ at[e] \in {"decide", "refreshValue", "record"} => funds[e] = cash

SnapshotsFresh == \A e \in Evaluators : SnapshotFor(e)

(* PositionsCapped without its typing.                                      *)
Capped == Cardinality(Open(pos)) <= MaxPositions

(* The inductive invariant of evaluations that do not overlap.              *)
SoloInv == Typed /\ Alone /\ StillNew /\ Repeats /\ SnapshotsFresh /\ Capped
-----------------------------------------------------------------------------
(* The queues as sequences of places in the feed.                           *)
LEMMA FeedRecord ==
  ASSUME NEW i \in DOMAIN Feed
  PROVE  /\ Feed[i] \in Disclosures
         /\ Feed[i].symbol \in Symbols /\ Feed[i].price \in Nat
         /\ Feed[i].action \in {"buy", "sell"}
         /\ Feed[i].hash \in Hashes
<1>1. Feed[i] \in Disclosures
  BY CongressFollowerAssumption
<1>. QED
  BY <1>1 DEF Disclosures, Hashes

(* The first of a queue, and the rest.                                      *)
LEMMA FirstOf ==
  ASSUME NEW q \in Seq(DOMAIN Feed), q # <<>>
  PROVE  /\ Head(q) \in DOMAIN Feed /\ Tail(q) \in Seq(DOMAIN Feed)
         /\ HashesIn(q) = {Feed[Head(q)].hash} \cup HashesIn(Tail(q))
<1>1. Len(q) \in Nat \ {0} /\ Head(q) = q[1] /\ 1 \in DOMAIN q /\ Tail(q) \in Seq(DOMAIN Feed)
  OBVIOUS
<1>2. DOMAIN Tail(q) = 1 .. (Len(q) - 1) /\ \A i \in DOMAIN Tail(q) : Tail(q)[i] = q[i + 1]
  BY <1>1
<1>3. \A i \in DOMAIN q : i = 1 \/ (i - 1 \in DOMAIN Tail(q) /\ Tail(q)[i - 1] = q[i])
  BY <1>1, <1>2
<1>4. \A i \in DOMAIN Tail(q) : i + 1 \in DOMAIN q
  BY <1>1, <1>2
<1>5. HashesIn(q) \subseteq {Feed[Head(q)].hash} \cup HashesIn(Tail(q))
  <2>1. ASSUME NEW i \in DOMAIN q
        PROVE  Feed[q[i]].hash \in {Feed[Head(q)].hash} \cup HashesIn(Tail(q))
    <3>1. CASE i = 1
      BY <1>1, <3>1
    <3>2. CASE i - 1 \in DOMAIN Tail(q) /\ Tail(q)[i - 1] = q[i]
      BY <3>2 DEF HashesIn
    <3>. QED
      BY <1>3, <3>1, <3>2
  <2>. QED
    BY <2>1 DEF HashesIn
<1>6. {Feed[Head(q)].hash} \cup HashesIn(Tail(q)) \subseteq HashesIn(q)
  BY <1>1, <1>2, <1>4 DEF HashesIn
<1>. QED
  BY <1>1, <1>5, <1>6

(* A queue is empty when its length is 0.                                   *)
LEMMA EmptyQueue ==
  ASSUME NEW S, NEW q \in Seq(S)
  PROVE  q = <<>> <=> Len(q) = 0
  OBVIOUS

(* Taking the only one of a queue leaves it empty.                          *)
LEMMA MoreThanOne ==
  ASSUME NEW S, NEW q \in Seq(S), q # <<>>
  PROVE  Tail(q) = <<>> <=> Len(q) = 1
<1>1. Len(q) \in Nat /\ Len(q) # 0 /\ Len(Tail(q)) = Len(q) - 1 /\ Tail(q) \in Seq(S)
  OBVIOUS
<1>2. Tail(q) = <<>> <=> Len(Tail(q)) = 0
  BY <1>1, EmptyQueue
<1>3. Len(Tail(q)) = 0 <=> Len(q) = 1
  BY <1>1
<1>. QED
  BY <1>2, <1>3

(* The first of a queue of distinct hashes is not met again in the rest.    *)
LEMMA RestIsDistinct ==
  ASSUME NEW q \in Seq(DOMAIN Feed), q # <<>>, Distinct(q)
  PROVE  Distinct(Tail(q)) /\ Feed[Head(q)].hash \notin HashesIn(Tail(q))
<1>1. Len(q) \in Nat \ {0} /\ Head(q) = q[1] /\ 1 \in DOMAIN q
  OBVIOUS
<1>2. \A i \in DOMAIN Tail(q) : i \in Nat \ {0} /\ i + 1 \in DOMAIN q /\ Tail(q)[i] = q[i + 1]
  BY <1>1
<1>3. \A i, j \in DOMAIN Tail(q) : i # j => Feed[Tail(q)[i]].hash # Feed[Tail(q)[j]].hash
  BY <1>2 DEF Distinct
<1>4. \A i \in DOMAIN Tail(q) : Feed[q[1]].hash # Feed[Tail(q)[i]].hash
  BY <1>1, <1>2 DEF Distinct
<1>. QED
  BY <1>1, <1>3, <1>4 DEF Distinct, HashesIn

(* Appending to a queue adds a hash; if it is new, they stay distinct.      *)
LEMMA AppendedTo ==
  ASSUME NEW q \in Seq(DOMAIN Feed), NEW i \in DOMAIN Feed
  PROVE  /\ Append(q, i) \in Seq(DOMAIN Feed) /\ Append(q, i) # <<>>
         /\ HashesIn(Append(q, i)) = HashesIn(q) \cup {Feed[i].hash}
         /\ Distinct(q) /\ Feed[i].hash \notin HashesIn(q) => Distinct(Append(q, i))
<1> DEFINE r == Append(q, i)
<1>1. /\ r \in Seq(DOMAIN Feed) /\ r # <<>> /\ Len(q) \in Nat /\ Len(r) = Len(q) + 1
      /\ DOMAIN q = 1 .. Len(q) /\ DOMAIN r = 1 .. (Len(q) + 1)
      /\ r[Len(q) + 1] = i /\ \A k \in DOMAIN q : r[k] = q[k]
  OBVIOUS
<1> HIDE DEF r
<1>2. \A k \in DOMAIN r : k \in DOMAIN q \/ k = Len(q) + 1
  BY <1>1
<1>3. \A k \in DOMAIN q : k \in DOMAIN r /\ k # Len(q) + 1
  BY <1>1
<1>4. HashesIn(r) = HashesIn(q) \cup {Feed[i].hash}
  BY <1>1, <1>2, <1>3 DEF HashesIn
<1>5. ASSUME Distinct(q), Feed[i].hash \notin HashesIn(q) PROVE Distinct(r)
  BY <1>1, <1>2, <1>5 DEF Distinct, HashesIn
<1>. QED
  BY <1>1, <1>4, <1>5 DEF r

(* The empty queue.                                                         *)
LEMMA NothingIn == HashesIn(<<>>) = {} /\ Distinct(<<>>) /\ <<>> \in Seq(DOMAIN Feed)
  BY DEF HashesIn, Distinct

(* A queue turned round holds the same kind of thing.                       *)
LEMMA ReversedIn ==
  ASSUME NEW S, NEW q \in Seq(S)
  PROVE  Reverse(q) \in Seq(S)
<1>1. Len(q) \in Nat /\ DOMAIN q = 1 .. Len(q) /\ \A i \in 1 .. Len(q) : q[i] \in S
  OBVIOUS
<1>2. \A i \in 1 .. Len(q) : (Len(q) - i) + 1 \in 1 .. Len(q)
  BY <1>1
<1>3. \A i \in 1 .. Len(q) : q[(Len(q) - i) + 1] \in S
  BY <1>1, <1>2
<1>4. Reverse(q) \in [1 .. Len(q) -> S]
  BY <1>3 DEF Reverse
<1>. QED
  BY <1>1, <1>4

(* A fetch returns places of the feed.                                      *)
LEMMA NewestInFeed ==
  ASSUME TypeOK
  PROVE  /\ Newest \in Seq(DOMAIN Feed)
         /\ {Feed[i].hash : i \in ToSet(Newest)} = HashesIn(Newest)
         /\ HashesIn(Newest) \subseteq Hashes
<1> DEFINE oldest == IF published > FetchLimit THEN published - FetchLimit + 1 ELSE 1
           n == published - oldest + 1
           q == [i \in 1 .. n |-> oldest + i - 1]
<1>1. /\ Len(Feed) \in Nat /\ DOMAIN Feed = 1 .. Len(Feed)
      /\ published \in 0 .. Len(Feed) /\ FetchLimit \in Nat \ {0}
  BY CongressFollowerAssumption DEF TypeOK
<1>2. oldest \in Nat \ {0} /\ n \in Nat /\ oldest + n - 1 = published
  BY <1>1
<1>3. q \in Seq(DOMAIN Feed)
  BY <1>1, <1>2
<1>4. Reverse(q) \in Seq(DOMAIN Feed)
  <2> HIDE DEF q
  <2>. QED
    BY <1>3, ReversedIn
<1>5. Newest \in Seq(DOMAIN Feed)
  BY <1>4 DEF Newest
<1>6. {Feed[i].hash : i \in ToSet(Newest)} = HashesIn(Newest)
  BY DEF ToSet, HashesIn
<1>7. HashesIn(Newest) \subseteq Hashes
  BY <1>5, FeedRecord DEF HashesIn
<1>. QED
  BY <1>5, <1>6, <1>7
-----------------------------------------------------------------------------
(* Amounts.                                                                 *)
LEMMA ValueNat ==
  ASSUME TypeOK, NEW quotes \in AllQuotes
  PROVE  Value(quotes) \in Nat
<1> DEFINE f == [s \in Symbols |-> RowValue(pos[s], quotes[s])]
<1>1. ASSUME NEW s \in Symbols PROVE f[s] \in Nat
  <2>1. quotes[s] \in Nat /\ pos[s].qty \in Nat /\ pos[s].cost \in Nat
    <3>1. quotes[s] \in Nat
      <4>1. quotes[s] \in Quotes \cup {0}
        BY DEF AllQuotes, NoPrice
      <4>2. \A x \in Quotes \cup {0} : x \in Nat
        BY CongressFollowerAssumption
      <4>. QED
        BY <4>1, <4>2
    <3>2. pos[s] \in Positions
      BY DEF TypeOK
    <3>. QED
      BY <3>1, <3>2 DEF Positions
  <2>2. quotes[s] * pos[s].qty \in Nat /\ Scale \in Nat
    BY <2>1, FillAssumption
  <2>3. Scale * quotes[s] * pos[s].qty \in Nat
    BY <2>1, <2>2
  <2>. QED
    BY <2>1, <2>3 DEF RowValue
<1>2. SumFunctionOnSet(f, Symbols) \in Nat
  <2> HIDE DEF f
  <2>. QED
    BY <1>1, CongressFollowerAssumption, SumNat
<1>. QED
  BY <1>2 DEF Value, SumFunction

(* The cost of what is held is an amount.                                   *)
LEMMA ExposureNat ==
  ASSUME NEW table \in [Symbols -> Positions]
  PROVE  Exposure(table) \in Nat
<1> DEFINE f == [s \in Symbols |-> table[s].cost]
<1>1. \A s \in Symbols : f[s] \in Nat
  BY DEF Positions
<1>2. SumFunctionOnSet(f, Symbols) \in Nat
  <2> HIDE DEF f
  <2>. QED
    BY <1>1, CongressFollowerAssumption, SumNat
<1>. QED
  BY <1>2 DEF Exposure, SumFunction

(* Whole units that an amount of money buys.                                *)
LEMMA UnitsNat ==
  ASSUME NEW money \in Nat, NEW price \in Nat \ {0}
  PROVE  /\ Scale * price \in Nat \ {0}
         /\ money \div (Scale * price) \in Nat
         /\ Notional(price, money \div (Scale * price)) <= money
<1> DEFINE unit == Scale * price
           q == money \div unit
<1>1. unit \in Nat \ {0}
  BY FillAssumption
<1> HIDE DEF unit
<1>2. q \in Nat /\ unit * q <= money
  BY <1>1
<1>3. Notional(price, q) = unit * q
  BY <1>2, FillAssumption DEF Notional, unit
<1>. QED
  BY <1>1, <1>2, <1>3 DEF unit

(* The smaller of two amounts is at most each of them.                      *)
LEMMA SmallerNat ==
  ASSUME NEW x \in Nat, NEW y \in Nat
  PROVE  Smaller(x, y) \in Nat /\ Smaller(x, y) <= y /\ Smaller(x, y) <= x
  BY DEF Smaller

(* A share of an amount is an amount.                                       *)
LEMMA ShareNat ==
  ASSUME NEW m \in Nat, NEW n \in Nat
  PROVE  (m * n) \div 100 \in Nat /\ (m * 995) \div 1000 \in Nat
<1>1. m * n \in Nat /\ m * 995 \in Nat
  OBVIOUS
<1>. QED
  BY <1>1

(* What an evaluation that decides looks at.                                *)
LEMMA SignalOf ==
  ASSUME Typed, NEW e \in Evaluators, at[e] \in Deciding
  PROVE  /\ Head(fresh[e]) \in DOMAIN Feed
         /\ Tail(fresh[e]) \in Seq(DOMAIN Feed)
         /\ HashesIn(fresh[e]) = {Signal(e).hash} \cup HashesIn(Tail(fresh[e]))
         /\ Signal(e).symbol \in Symbols /\ Signal(e).price \in Nat
         /\ Signal(e).action \in {"buy", "sell"}
         /\ Signal(e).hash \in Hashes
<1>1. fresh[e] \in Seq(DOMAIN Feed) /\ fresh[e] # <<>>
  BY DEF Typed, Queues
<1>. QED
  BY <1>1, FirstOf, FeedRecord DEF Signal

(* What an evaluation that filters looks at.                                *)
LEMMA FirstToFilter ==
  ASSUME Typed, NEW e \in Evaluators, todo[e] # <<>>
  PROVE  /\ Head(todo[e]) \in DOMAIN Feed
         /\ Tail(todo[e]) \in Seq(DOMAIN Feed)
         /\ HashesIn(todo[e]) = {First(e).hash} \cup HashesIn(Tail(todo[e]))
         /\ First(e).hash \in Hashes
<1>1. todo[e] \in Seq(DOMAIN Feed)
  BY DEF Typed, Queues
<1>. QED
  BY <1>1, FirstOf, FeedRecord DEF First

(* A decision to trade is for some units.                                   *)
LEMMA QuantityNat ==
  ASSUME Typed, NEW e \in Evaluators, at[e] = "decide", WantsBuy(e) \/ WantsSell(e)
  PROVE  Quantity(e) \in Nat \ {0}
<1>1. /\ Signal(e).symbol \in Symbols /\ Signal(e).price \in Nat
      /\ Signal(e).action \in {"buy", "sell"}
  BY SignalOf DEF Deciding
<1>2. CASE Signal(e).action = "buy"
  <2>1. Signal(e).price \in Nat \ {0} /\ BuyQuantity(e) > 0
    BY <1>1, <1>2 DEF WantsBuy, WantsSell, NoPrice
  <2>2. equity[e] \in Nat /\ funds[e] \in Nat /\ MaxAllocationPct \in Nat
    BY CongressFollowerAssumption DEF Typed, TypeOK
  <2>5. (equity[e] * MaxAllocationPct) \div 100 \in Nat /\ (funds[e] * 995) \div 1000 \in Nat
    BY <2>2, ShareNat
  <2>3. Smaller((equity[e] * MaxAllocationPct) \div 100, (funds[e] * 995) \div 1000) \in Nat
    BY <2>5, SmallerNat
  <2>4. BuyQuantity(e) \in Nat
    BY <2>1, <2>3, UnitsNat DEF BuyQuantity
  <2>. QED
    BY <1>2, <2>1, <2>4 DEF Quantity
<1>3. CASE Signal(e).action = "sell"
  BY <1>1, <1>3 DEF Quantity, WantsBuy, WantsSell, Open, Typed, TypeOK, Positions
<1>. QED
  BY <1>1, <1>2, <1>3
-----------------------------------------------------------------------------
(* The strengthened type invariant holds at first,                          *)
LEMMA TypedInit == Init => Typed
<1> SUFFICES ASSUME Init PROVE Typed
  OBVIOUS
<1>1. NoRows \in [Symbols -> Positions]
  BY DEF NoRows, Positions, NoPosition
<1>2. Len(Feed) \in Nat
  BY CongressFollowerAssumption
<1>3. TypeOK
  BY <1>1, <1>2, CongressFollowerAssumption DEF Init, TypeOK
<1>4. Queues
  BY DEF Init, Queues, Deciding
<1>. QED
  BY <1>3, <1>4 DEF Typed

(* and every action keeps it.                                               *)
LEMMA TypedStep == Typed /\ [Next]_vars => Typed'
<1> SUFFICES ASSUME Typed, [Next]_vars PROVE Typed'
  OBVIOUS
<1> USE DEF Typed, world, account, batch, sizing, history
<1>0. /\ Len(Feed) \in Nat /\ MaxRestarts \in Nat
      /\ NoRows \in [Symbols -> Positions]
      /\ <<>> \in Seq(DOMAIN Feed) /\ <<>> \in Seq(Nat)
      /\ \A q \in Seq(DOMAIN Feed) : q \in Seq(Nat)
  BY CongressFollowerAssumption DEF NoRows, Positions, NoPosition
<1>1. CASE Disclose
  BY <1>0, <1>1 DEF Disclose, TypeOK, Queues
<1>2. CASE GrowOld
  BY <1>0, <1>2 DEF GrowOld, TypeOK, Queues
<1>3. ASSUME NEW e \in Evaluators, Fetch(e) PROVE Typed'
  <2>1. Newest \in Seq(DOMAIN Feed) /\ {Feed[i].hash : i \in ToSet(Newest)} \subseteq Hashes
    BY NewestInFeed
  <2>2. TypeOK'
    BY <1>0, <1>3, <2>1 DEF Fetch, Go, Steps, TypeOK
  <2>3. Queues'
    BY <1>3, <2>1 DEF Fetch, Go, TypeOK, Queues, Deciding
  <2>. QED
    BY <2>2, <2>3
<1>4. ASSUME NEW e \in Evaluators, Leave(e),
             UNCHANGED <<world, account, history>>,
             fetched' \in [Evaluators -> SUBSET Hashes], processed' \subseteq Hashes
      PROVE  Typed'
  <2>1. TypeOK'
    BY <1>0, <1>4 DEF Leave, Go, TypeOK
  <2>2. Queues'
    BY <1>0, <1>4 DEF Leave, Go, TypeOK, Queues, Deciding
  <2>. QED
    BY <2>1, <2>2
<1>5. ASSUME NEW e \in Evaluators, Continue(e) PROVE Typed'
  <2>1. CASE PassOver(e)
    <3>1. Tail(todo[e]) \in Seq(DOMAIN Feed)
      BY <2>1, FirstToFilter DEF PassOver
    <3>2. TypeOK'
      BY <1>0, <2>1, <3>1 DEF PassOver, TypeOK
    <3>3. Queues'
      BY <2>1, <3>1 DEF PassOver, TypeOK, Queues, Deciding
    <3>. QED
      BY <3>2, <3>3
  <2>2. CASE TakeUp(e)
    <3>1. /\ Tail(todo[e]) \in Seq(DOMAIN Feed) /\ First(e).hash \in Hashes
          /\ Append(fresh[e], Head(todo[e])) \in Seq(DOMAIN Feed)
      BY <2>2, FirstToFilter, AppendedTo DEF TakeUp, Queues
    <3>2. CASE Head(todo[e]) <= expired
      <4>1. TypeOK'
        BY <2>2, <3>1, <3>2 DEF TakeUp, Go, TypeOK, Steps
      <4>2. Queues'
        BY <2>2, <3>1, <3>2 DEF TakeUp, Go, TypeOK, Queues, Deciding
      <4>. QED
        BY <4>1, <4>2
    <3>3. CASE ~(Head(todo[e]) <= expired)
      <4>1. TypeOK'
        BY <1>0, <2>2, <3>1, <3>3 DEF TakeUp, TypeOK
      <4>2. Queues'
        BY ZenonT(60), <2>2, <3>1, <3>3 DEF TakeUp, TypeOK, Queues, Deciding
      <4>. QED
        BY <4>1, <4>2
    <3>. QED
      BY <3>2, <3>3
  <2>3. CASE RecordExpired(e)
    <3>1. Tail(todo[e]) \in Seq(DOMAIN Feed) /\ First(e).hash \in Hashes
      BY <2>3, FirstToFilter DEF RecordExpired, Queues
    <3>2. TypeOK'
      BY <1>0, <2>3, <3>1 DEF RecordExpired, Go, TypeOK, Steps
    <3>3. Queues'
      BY <2>3, <3>1 DEF RecordExpired, Go, TypeOK, Queues, Deciding
    <3>. QED
      BY <3>2, <3>3
  <2>4. CASE Filtered(e)
    <3>1. CASE fresh[e] = <<>>
      BY <1>4, <2>4, <3>1 DEF Filtered, TypeOK
    <3>2. CASE fresh[e] # <<>>
      <4>1. TypeOK'
        BY <2>4, <3>2 DEF Filtered, Go, TypeOK, Steps
      <4>2. Queues'
        BY <2>4, <3>2 DEF Filtered, Go, TypeOK, Queues, Deciding
      <4>. QED
        BY <4>1, <4>2
    <3>. QED
      BY <3>1, <3>2
  <2>5. CASE ReadRow(e)
    <3>1. TypeOK'
      BY <2>5 DEF ReadRow, Go, TypeOK, Steps
    <3>2. Queues'
      BY <2>5 DEF ReadRow, Go, TypeOK, Queues, Deciding
    <3>. QED
      BY <3>1, <3>2
  <2>6. ASSUME NEW quotes \in AllQuotes, ReadValue(e, quotes) PROVE Typed'
    <3>1. equity[e] + Value(quotes) \in Nat
      BY ValueNat DEF TypeOK
    <3>2. TypeOK'
      BY <2>6, <3>1 DEF ReadValue, Go, TypeOK, Steps
    <3>3. Queues'
      BY <2>6 DEF ReadValue, Go, TypeOK, Queues, Deciding
    <3>. QED
      BY <3>2, <3>3
  <2>7. ASSUME NEW quotes \in AllQuotes, RefreshValue(e, quotes) PROVE Typed'
    <3>1. equity[e] + Value(quotes) \in Nat
      BY ValueNat DEF TypeOK
    <3>2. TypeOK'
      BY <2>7, <3>1 DEF RefreshValue, Go, TypeOK, Steps
    <3>3. Queues'
      BY <2>7 DEF RefreshValue, Go, TypeOK, Queues, Deciding
    <3>. QED
      BY <3>2, <3>3
  <2>8. CASE ReadPositions(e)
    <3>1. TypeOK'
      BY <2>8 DEF ReadPositions, Go, TypeOK, Steps
    <3>2. Queues'
      BY <2>8 DEF ReadPositions, Go, TypeOK, Queues, Deciding
    <3>. QED
      BY <3>1, <3>2
  <2>9. CASE ReadFunds(e)
    <3>1. TypeOK'
      BY <2>9 DEF ReadFunds, Go, TypeOK, Steps
    <3>2. Queues'
      BY <2>9 DEF ReadFunds, Go, TypeOK, Queues, Deciding
    <3>. QED
      BY <3>1, <3>2
  <2>10. CASE SkipSignal(e) \/ FailSignal(e)
    <3>1. TypeOK'
      BY <2>10 DEF SkipSignal, FailSignal, Go, TypeOK, Steps
    <3>2. Queues'
      BY <2>10 DEF SkipSignal, FailSignal, Go, TypeOK, Queues, Deciding
    <3>. QED
      BY <3>1, <3>2
  <2>11. CASE FillSignal(e)
    <3> DEFINE s == Signal(e)
               q == Quantity(e)
    <3>1. s.symbol \in Symbols /\ s.price \in Nat /\ s.action \in {"buy", "sell"} /\ s.hash \in Hashes
      BY <2>11, SignalOf DEF FillSignal, Deciding
    <3>2. q \in Nat \ {0}
      BY <2>11, QuantityNat DEF FillSignal
    <3>3. CanFill(s.action, s.price, q, cash, pos[s.symbol])
      BY <2>11 DEF FillSignal, Accepted
    <3>4. /\ NewCash(s.action, s.price, q, cash) \in Nat
          /\ NewPosition(s.action, s.price, q, pos[s.symbol]) \in Positions
      BY <3>1, <3>2, <3>3, FillIsTyped DEF TypeOK
    <3> HIDE DEF s, q
    <3>7. cash' \in Nat /\ pos' \in [Symbols -> Positions]
      BY <2>11, <3>1, <3>4 DEF FillSignal, TypeOK, s, q
    <3>8. mirrored' \in [Hashes -> Nat]
      BY <2>11, <3>1 DEF FillSignal, TypeOK, s
    <3>9. at' \in [Evaluators -> Steps \cup {"idle"}]
      BY <2>11 DEF FillSignal, Go, TypeOK, Steps
    <3>5. TypeOK'
      BY <2>11, <3>7, <3>8, <3>9 DEF FillSignal, TypeOK
    <3>6. Queues'
      BY <2>11 DEF FillSignal, Go, TypeOK, Queues, Deciding
    <3>. QED
      BY <3>5, <3>6
  <2>12. CASE RefreshPositions(e)
    <3>1. TypeOK'
      BY <2>12 DEF RefreshPositions, Go, TypeOK, Steps
    <3>2. Queues'
      BY <2>12 DEF RefreshPositions, Go, TypeOK, Queues, Deciding
    <3>. QED
      BY <3>1, <3>2
  <2>13. CASE RefreshRow(e)
    <3>1. TypeOK'
      BY <2>13 DEF RefreshRow, Go, TypeOK, Steps
    <3>2. Queues'
      BY <2>13 DEF RefreshRow, Go, TypeOK, Queues, Deciding
    <3>. QED
      BY <3>1, <3>2
  <2>14. CASE RecordProcessed(e)
    <3>1. Signal(e).hash \in Hashes /\ Tail(fresh[e]) \in Seq(DOMAIN Feed)
      BY <2>14, SignalOf DEF RecordProcessed, Deciding
    <3>2. CASE Len(fresh[e]) = 1
      BY <1>4, <2>14, <3>1, <3>2 DEF RecordProcessed, NextSignal, TypeOK
    <3>3. CASE Len(fresh[e]) # 1
      <4>1. Tail(fresh[e]) # <<>> /\ Tail(fresh[e]) \in Seq(DOMAIN Feed)
        BY <2>14, <3>1, <3>3, MoreThanOne DEF RecordProcessed, Queues, Deciding
      <4>2. TypeOK'
        BY <1>0, <2>14, <3>1, <3>3 DEF RecordProcessed, NextSignal, Go, TypeOK, Steps
      <4>3. Queues'
        BY <2>14, <3>3, <4>1 DEF RecordProcessed, NextSignal, Go, TypeOK, Queues, Deciding
      <4>. QED
        BY <4>2, <4>3
    <3>. QED
      BY <3>2, <3>3
  <2>15. CASE LoseRecord(e)
    BY <1>4, <2>15 DEF LoseRecord, Abort, TypeOK
  <2>. QED
    BY <1>5, <2>1, <2>2, <2>3, <2>4, <2>5, <2>6, <2>7, <2>8, <2>9, <2>10, <2>11, <2>12,
       <2>13, <2>14, <2>15 DEF Continue
<1>6. CASE Restart
  <2>1. TypeOK'
    BY <1>0, <1>6 DEF Restart, TypeOK
  <2>2. Queues'
    BY <1>0, <1>6 DEF Restart, Queues, Deciding
  <2>. QED
    BY <2>1, <2>2
<1>7. CASE UNCHANGED vars
  BY <1>7 DEF vars, TypeOK, Queues
<1>. QED
  BY <1>1, <1>2, <1>3, <1>5, <1>6, <1>7 DEF Next
-----------------------------------------------------------------------------
(* A step of an evaluation leaves the others where they are.                *)
OthersWait(e) ==
  \A d \in Evaluators \ {e} :
    /\ at'[d] = at[d] /\ todo'[d] = todo[d] /\ fresh'[d] = fresh[d]
    /\ known'[d] = known[d] /\ fetched'[d] = fetched[d]
    /\ equity'[d] = equity[d] /\ funds'[d] = funds[d] /\ rows'[d] = rows[d]

(* Each action of an evaluation changes its own locals only, and takes no   *)
(* hash from the table.                                                     *)
LEMMA StepsAreLocal ==
  ASSUME TypeOK, NEW e \in Evaluators, Fetch(e) \/ Continue(e)
  PROVE  OthersWait(e) /\ processed \subseteq processed' /\ published' = published
<1> USE DEF OthersWait, TypeOK, Go, world, account, batch, sizing, history
<1>1. CASE Fetch(e)
  BY <1>1 DEF Fetch
<1>2. CASE PassOver(e) \/ TakeUp(e) \/ RecordExpired(e)
  BY <1>2 DEF PassOver, TakeUp, RecordExpired
<1>3. CASE Filtered(e)
  BY <1>3 DEF Filtered, Leave
<1>4. CASE ReadRow(e) \/ ReadPositions(e) \/ ReadFunds(e)
  BY <1>4 DEF ReadRow, ReadPositions, ReadFunds
<1>5. CASE \E quotes \in AllQuotes : ReadValue(e, quotes) \/ RefreshValue(e, quotes)
  BY <1>5 DEF ReadValue, RefreshValue
<1>6. CASE SkipSignal(e) \/ FillSignal(e) \/ FailSignal(e)
  BY <1>6 DEF SkipSignal, FillSignal, FailSignal
<1>7. CASE RefreshPositions(e) \/ RefreshRow(e)
  BY <1>7 DEF RefreshPositions, RefreshRow
<1>8. CASE RecordProcessed(e)
  BY <1>8 DEF RecordProcessed, NextSignal, Leave
<1>9. CASE LoseRecord(e)
  BY <1>9 DEF LoseRecord, Abort, Leave
<1>. QED
  BY <1>1, <1>2, <1>3, <1>4, <1>5, <1>6, <1>7, <1>8, <1>9 DEF Continue

(* At first nothing has been fetched.                                       *)
LEMMA AccountedInit == Init => Accounted
  BY NothingIn DEF Init, Accounted, AccountedFor

(* An evaluation that did not step still accounts for what it has seen: the *)
(* table has only grown.                                                    *)
LEMMA OthersAccounted ==
  ASSUME NEW e \in Evaluators, Accounted, OthersWait(e), processed \subseteq processed',
         AccountedFor(e)'
  PROVE  Accounted'
<1> SUFFICES ASSUME NEW d \in Evaluators, d # e PROVE AccountedFor(d)'
  BY DEF Accounted
<1>1. AccountedFor(d)
  BY DEF Accounted
<1>2. /\ at'[d] = at[d] /\ todo'[d] = todo[d] /\ fresh'[d] = fresh[d]
      /\ known'[d] = known[d] /\ fetched'[d] = fetched[d]
  BY DEF OthersWait
<1>. QED
  BY <1>1, <1>2 DEF AccountedFor, First

(* The steps that do not touch the queues of an evaluation nor the table.   *)
LEMMA QueuesKept ==
  ASSUME NEW e \in Evaluators, AccountedFor(e), at[e] # "expire",
         UNCHANGED <<processed, todo, fresh, known, fetched>>
  PROVE  AccountedFor(e)'
  BY DEF AccountedFor, First

(* No action loses a disclosure that was fetched.                           *)
LEMMA AccountedStep == Typed /\ Accounted /\ [Next]_vars => Accounted'
<1> SUFFICES ASSUME Typed, Accounted, [Next]_vars PROVE Accounted'
  OBVIOUS
<1> USE DEF world, account, batch, sizing, history
<1>1. CASE Disclose \/ GrowOld \/ UNCHANGED vars
  BY <1>1 DEF Disclose, GrowOld, vars, Accounted, AccountedFor, First
<1>2. ASSUME NEW e \in Evaluators, Fetch(e) \/ Continue(e) PROVE AccountedFor(e)'
  <2> USE DEF Go
  <2>0. /\ AccountedFor(e) /\ TypeOK /\ Queues
        /\ todo[e] \in Seq(DOMAIN Feed) /\ fresh[e] \in Seq(DOMAIN Feed)
    BY DEF Accounted, Typed, Queues
  <2>1. CASE Fetch(e)
    <3>1. /\ todo'[e] = Newest /\ fetched'[e] = HashesIn(Newest) /\ at'[e] = "filter"
          /\ fresh'[e] = fresh[e] /\ known'[e] = {}
      BY <2>0, <2>1, NewestInFeed DEF Fetch, TypeOK, Queues
    <3>. QED
      BY <3>1 DEF AccountedFor
  <2>2. CASE PassOver(e)
    <3>1. HashesIn(todo[e]) = {First(e).hash} \cup HashesIn(Tail(todo[e]))
      BY <2>2, FirstToFilter DEF PassOver
    <3>2. First(e).hash \in known[e] \/ First(e).hash \in processed
      BY <2>2 DEF PassOver, IsNew
    <3>3. /\ todo'[e] = Tail(todo[e]) /\ at'[e] = "filter" /\ at[e] = "filter"
          /\ UNCHANGED <<processed, fresh, known, fetched>>
      BY <2>0, <2>2 DEF PassOver, TypeOK
    <3>. QED
      BY <2>0, <3>1, <3>2, <3>3 DEF AccountedFor
  <2>3. CASE TakeUp(e)
    <3>1. /\ HashesIn(todo[e]) = {First(e).hash} \cup HashesIn(Tail(todo[e]))
          /\ Head(todo[e]) \in DOMAIN Feed
      BY <2>3, FirstToFilter DEF TakeUp
    <3>2. HashesIn(Append(fresh[e], Head(todo[e]))) = HashesIn(fresh[e]) \cup {First(e).hash}
      BY <2>0, <3>1, AppendedTo DEF First
    <3>3. /\ known'[e] = known[e] \cup {First(e).hash} /\ at[e] = "filter"
          /\ UNCHANGED <<processed, fetched>>
      BY <2>0, <2>3 DEF TakeUp, TypeOK
    <3>4. CASE Head(todo[e]) <= expired
      <4>1. UNCHANGED <<todo, fresh>> /\ at'[e] = "expire"
        BY <2>0, <2>3, <3>4 DEF TakeUp, TypeOK
      <4>. QED
        BY <2>0, <3>3, <4>1 DEF AccountedFor, First
    <3>5. CASE ~(Head(todo[e]) <= expired)
      <4>1. /\ todo'[e] = Tail(todo[e]) /\ at'[e] = "filter"
            /\ fresh'[e] = Append(fresh[e], Head(todo[e]))
        BY <2>0, <2>3, <3>5 DEF TakeUp, TypeOK
      <4>. QED
        BY <2>0, <3>1, <3>2, <3>3, <4>1 DEF AccountedFor
    <3>. QED
      BY <3>4, <3>5
  <2>4. CASE RecordExpired(e)
    <3>1. HashesIn(todo[e]) = {First(e).hash} \cup HashesIn(Tail(todo[e]))
      BY <2>0, <2>4, FirstToFilter DEF RecordExpired, Queues
    <3>2. /\ todo'[e] = Tail(todo[e]) /\ at'[e] = "filter" /\ at[e] = "expire"
          /\ processed' = processed \cup {First(e).hash}
          /\ UNCHANGED <<fresh, known, fetched>>
      BY <2>0, <2>4 DEF RecordExpired, TypeOK
    <3>. QED
      BY <2>0, <3>1, <3>2 DEF AccountedFor
  <2>5. CASE Filtered(e)
    <3>1. CASE fresh[e] = <<>>
      <4>1. /\ todo[e] = <<>> /\ todo'[e] = <<>> /\ fresh'[e] = <<>> /\ known'[e] = {}
            /\ at'[e] = "idle" /\ UNCHANGED <<processed, fetched>>
        BY <2>0, <2>5, <3>1 DEF Filtered, Leave, TypeOK
      <4>. QED
        BY <2>0, <3>1, <4>1 DEF AccountedFor
    <3>2. CASE fresh[e] # <<>>
      <4>1. at'[e] = "row" /\ at[e] = "filter" /\ UNCHANGED <<processed, batch>>
        BY <2>0, <2>5, <3>2 DEF Filtered, TypeOK
      <4>. QED
        BY <2>0, <4>1, QueuesKept
    <3>. QED
      BY <3>1, <3>2
  <2>6. CASE \/ ReadRow(e) \/ ReadPositions(e) \/ ReadFunds(e)
             \/ \E quotes \in AllQuotes : ReadValue(e, quotes) \/ RefreshValue(e, quotes)
             \/ SkipSignal(e) \/ FillSignal(e) \/ FailSignal(e)
             \/ RefreshPositions(e) \/ RefreshRow(e)
    <3>1. at[e] # "expire" /\ UNCHANGED <<processed, todo, fresh, known, fetched>>
      BY <2>6 DEF ReadRow, ReadPositions, ReadFunds, ReadValue, RefreshValue, SkipSignal,
                  FillSignal, FailSignal, RefreshPositions, RefreshRow
    <3>2. at'[e] # "expire"
      BY <2>0, <2>6 DEF TypeOK, ReadRow, ReadPositions, ReadFunds, ReadValue, RefreshValue,
                  SkipSignal, FillSignal, FailSignal, RefreshPositions, RefreshRow
    <3>. QED
      BY <2>0, <3>1, <3>2 DEF AccountedFor
  <2>7. CASE RecordProcessed(e)
    <3>1. /\ HashesIn(fresh[e]) = {Signal(e).hash} \cup HashesIn(Tail(fresh[e]))
          /\ fresh[e] # <<>> /\ todo[e] = <<>> /\ at[e] = "record"
          /\ processed' = processed \cup {Signal(e).hash}
      BY <2>0, <2>7, SignalOf DEF RecordProcessed, Deciding, Queues
    <3>2. CASE Len(fresh[e]) = 1
      <4>1. Tail(fresh[e]) = <<>>
        BY <2>0, <3>1, <3>2, MoreThanOne
      <4>2. /\ todo'[e] = <<>> /\ fresh'[e] = <<>> /\ known'[e] = {}
            /\ at'[e] = "idle" /\ UNCHANGED fetched
        BY <2>0, <2>7, <3>2 DEF RecordProcessed, NextSignal, Leave, TypeOK
      <4>. QED
        BY <2>0, <3>1, <4>1, <4>2, NothingIn DEF AccountedFor
    <3>3. CASE Len(fresh[e]) # 1
      <4>1. /\ fresh'[e] = Tail(fresh[e]) /\ at'[e] = "decide"
            /\ UNCHANGED <<todo, known, fetched>>
        BY <2>0, <2>7, <3>3 DEF RecordProcessed, NextSignal, TypeOK
      <4>. QED
        BY <2>0, <3>1, <4>1 DEF AccountedFor
    <3>. QED
      BY <3>2, <3>3
  <2>8. CASE LoseRecord(e)
    <3>1. known'[e] = {} /\ fetched'[e] = {}
      BY <2>0, <2>8 DEF LoseRecord, Abort, Leave, TypeOK
    <3>. QED
      BY <3>1 DEF AccountedFor
  <2>. QED
    BY <1>2, <2>1, <2>2, <2>3, <2>4, <2>5, <2>6, <2>7, <2>8 DEF Continue
<1>3. CASE Restart
  BY <1>3 DEF Restart, Accounted, AccountedFor
<1>4. ASSUME NEW e \in Evaluators, Fetch(e) \/ Continue(e) PROVE Accounted'
  BY <1>2, <1>4, StepsAreLocal, OthersAccounted DEF Typed
<1>. QED
  BY <1>1, <1>3, <1>4 DEF Next

(* The strengthened type invariant holds always.                            *)
LEMMA TypedAlways == Spec => []Typed
  BY TypedInit, TypedStep, PTL DEF Spec

(* What was fetched is decided or waiting, always.                          *)
LEMMA AccountedAlways == Spec => []Accounted
<1>1. Init => Accounted
  BY AccountedInit
<1>2. Typed /\ Accounted /\ [Next]_vars => Accounted'
  BY AccountedStep
<1>. QED
  BY <1>1, <1>2, TypedAlways, PTL DEF Spec

(* The variables keep their types, whatever overlaps or dies.               *)
THEOREM TypeCorrect == Spec => []TypeOK
<1>1. Typed => TypeOK
  BY DEF Typed
<1>. QED
  BY <1>1, TypedAlways, PTL

(* An evaluation that is idle has decided all it fetched, whatever overlaps *)
(* or dies.                                                                 *)
THEOREM NothingIsForgotten == Spec => []NothingForgotten
<1>1. Typed /\ Accounted => NothingForgotten
  BY NothingIn DEF Typed, Queues, Accounted, AccountedFor, NothingForgotten
<1>. QED
  BY <1>1, TypedAlways, AccountedAlways, PTL
-----------------------------------------------------------------------------
(* One evaluation at a time.                                                *)
LEMMA SoloInit == Init => SoloInv
<1> SUFFICES ASSUME Init PROVE SoloInv
  OBVIOUS
<1>1. Typed
  BY TypedInit
<1>2. Alone /\ StillNew /\ Repeats /\ SnapshotsFresh
  BY NothingIn DEF Init, Alone, StillNew, StillNewFor, Repeats, Repeated, SnapshotsFresh,
                   SnapshotFor
<1>3. Open(pos) = {}
  BY DEF Init, NoRows, NoPosition, Open
<1>4. Capped
  BY <1>3, FS_EmptySet, CongressFollowerAssumption DEF Capped
<1>. QED
  BY <1>1, <1>2, <1>4 DEF SoloInv

(* When evaluations do not overlap, the others are idle while one steps.    *)
LEMMA OthersIdle ==
  ASSUME ~Overlap, TypeOK, Alone, NEW e \in Evaluators, Fetch(e) \/ Continue(e)
  PROVE  /\ \A d \in Evaluators \ {e} : at[d] = "idle" /\ at'[d] = "idle"
         /\ Continue(e) => at[e] # "idle"
         /\ Alone'
<1>1. Continue(e) => at[e] # "idle"
  BY DEF Continue, PassOver, TakeUp, RecordExpired, Filtered, ReadRow, ReadPositions,
         ReadFunds, ReadValue, RefreshValue, SkipSignal, FillSignal, FailSignal,
         RefreshPositions, RefreshRow, RecordProcessed, LoseRecord
<1>2. \A d \in Evaluators \ {e} : at[d] = "idle"
  BY <1>1 DEF Fetch, Alone
<1>3. \A d \in Evaluators \ {e} : at'[d] = "idle"
  BY <1>2, StepsAreLocal DEF OthersWait
<1>. QED
  BY <1>1, <1>2, <1>3 DEF Alone

(* A fill that a decision makes by the account as it is.                    *)
LEMMA FillKeepsCap ==
  ASSUME SoloInv, NEW e \in Evaluators, FillSignal(e)
  PROVE  Capped'
<1> DEFINE s == Signal(e).symbol
<1>1. /\ s \in Symbols /\ Signal(e).action \in {"buy", "sell"} /\ Quantity(e) \in Nat \ {0}
      /\ pos \in [Symbols -> Positions] /\ rows[e] = pos
  BY SignalOf, QuantityNat
     DEF FillSignal, SoloInv, Deciding, Typed, TypeOK, SnapshotsFresh, SnapshotFor
<1>2. IsFiniteSet(Open(pos)) /\ Cardinality(Open(pos)) \in Nat /\ MaxPositions \in Nat
  BY FS_Subset, FS_CardinalityType, CongressFollowerAssumption DEF Open
<1>3. pos' = [pos EXCEPT ![s] = NewPosition(Signal(e).action, Signal(e).price, Quantity(e), @)]
  BY DEF FillSignal
<1>4. \A r \in Symbols \ {s} : pos'[r] = pos[r]
  BY <1>1, <1>3
<1>5. CASE Signal(e).action = "buy"
  <2>1. Open(pos)' \subseteq Open(pos) \cup {s}
    BY <1>4 DEF Open
  <2>3. s \in Open(pos) \/ Cardinality(Open(pos)) < MaxPositions
    BY <1>1, <1>5 DEF FillSignal, WantsBuy, WantsSell
  <2>4. Cardinality(Open(pos)) <= MaxPositions
    BY DEF SoloInv, Capped
  <2> DEFINE held == Open(pos)
  <2>5. Cardinality(held \cup {s}) = IF s \in held THEN Cardinality(held) ELSE Cardinality(held) + 1
    BY <1>2, FS_AddElement
  <2> HIDE DEF held
  <2>2. Cardinality(held \cup {s}) <= MaxPositions
    BY <1>2, <2>3, <2>4, <2>5 DEF held
  <2>6. IsFiniteSet(held \cup {s}) /\ Cardinality(held \cup {s}) \in Nat
    BY <1>2, FS_AddElement, FS_CardinalityType DEF held
  <2>. QED
    BY <1>2, <2>1, <2>2, <2>6, FS_Subset, FS_CardinalityType DEF Capped, held
<1>6. CASE Signal(e).action = "sell"
  <2>1. s \in Open(pos)
    BY <1>1, <1>6 DEF FillSignal, WantsBuy, WantsSell
  <2>2. Open(pos)' \subseteq Open(pos)
    BY <1>4, <2>1 DEF Open
  <2>. QED
    BY <1>2, <2>2, FS_Subset, FS_CardinalityType DEF Capped, SoloInv
<1>. QED
  BY <1>1, <1>5, <1>6

(* No action opens a position beyond the limit.                             *)
LEMMA CapStep ==
  ASSUME SoloInv, [Next]_vars
  PROVE  Capped'
<1> USE DEF world, account, batch, sizing, history
<1>1. ASSUME UNCHANGED pos PROVE Capped'
  BY <1>1 DEF SoloInv, Capped, Open
<1>2. CASE Disclose \/ GrowOld \/ Restart \/ UNCHANGED vars
  BY <1>1, <1>2 DEF Disclose, GrowOld, Restart, vars
<1>3. ASSUME NEW e \in Evaluators, Fetch(e) \/ Continue(e) PROVE Capped'
  <2>1. FillSignal(e) \/ UNCHANGED pos
    BY <1>3 DEF Fetch, Continue, PassOver, TakeUp, RecordExpired, Filtered, ReadRow, ReadPositions,
         ReadFunds, ReadValue, RefreshValue, SkipSignal, FailSignal,
         RefreshPositions, RefreshRow, RecordProcessed, LoseRecord
  <2>. QED
    BY <1>1, <2>1, FillKeepsCap
<1>. QED
  BY <1>2, <1>3 DEF Next

(* What a decision is made by stays up to date.                             *)
LEMMA SnapshotStep ==
  ASSUME ~Overlap, SoloInv, [Next]_vars
  PROVE  SnapshotsFresh'
<1> USE DEF world, account, batch, sizing, history, SnapshotsFresh, SnapshotFor, SoloInv, Typed
<1>1. CASE Disclose \/ GrowOld \/ Restart \/ UNCHANGED vars
  BY <1>1 DEF Disclose, GrowOld, Restart, vars
<1>2. ASSUME NEW e \in Evaluators, Fetch(e) \/ Continue(e) PROVE SnapshotsFresh'
  <2>1. \A d \in Evaluators \ {e} : at'[d] = "idle"
    BY <1>2, OthersIdle
  <2>2. SnapshotFor(e)'
    <3> USE DEF Go, TypeOK
    <3>1. CASE Fetch(e) \/ PassOver(e) \/ TakeUp(e) \/ RecordExpired(e)
      BY <3>1 DEF Fetch, PassOver, TakeUp, RecordExpired
    <3>2. CASE Filtered(e) \/ LoseRecord(e)
      BY <3>2 DEF Filtered, LoseRecord, Abort, Leave
    <3>3. CASE ReadRow(e) \/ ReadPositions(e) \/ ReadFunds(e)
      BY <3>3 DEF ReadRow, ReadPositions, ReadFunds
    <3>4. CASE \E quotes \in AllQuotes : ReadValue(e, quotes) \/ RefreshValue(e, quotes)
      BY <3>4 DEF ReadValue, RefreshValue
    <3>5. CASE SkipSignal(e) \/ FailSignal(e)
      BY <3>5 DEF SkipSignal, FailSignal
    <3>6. CASE FillSignal(e)
      BY <3>6 DEF FillSignal
    <3>7. CASE RefreshPositions(e) \/ RefreshRow(e)
      BY <3>7 DEF RefreshPositions, RefreshRow
    <3>8. CASE RecordProcessed(e)
      BY <3>8 DEF RecordProcessed, NextSignal, Leave
    <3>. QED
      BY <1>2, <3>1, <3>2, <3>3, <3>4, <3>5, <3>6, <3>7, <3>8 DEF Continue
  <2>. QED
    BY <2>1, <2>2
<1>. QED
  BY <1>1, <1>2 DEF Next

(* No action but a fill adds to the orders of a hash, and a fill is         *)
(* followed by its record unless the process dies.                          *)
LEMMA RepeatsStep ==
  ASSUME ~Overlap, SoloInv, [Next]_vars
  PROVE  Repeats'
<1> USE DEF world, account, batch, sizing, history, Go
<1>0. TypeOK /\ Typed /\ Alone /\ StillNew /\ (\A h \in Hashes : Repeated(h))
  BY DEF SoloInv, Typed, Repeats
<1>1. CASE Disclose \/ GrowOld \/ UNCHANGED vars
  BY <1>0, <1>1 DEF Disclose, GrowOld, vars, Repeats, Repeated, Signal
<1>2. CASE Restart
  <2> SUFFICES ASSUME NEW h \in Hashes PROVE Repeated(h)'
    BY DEF Repeats, Hashes
  <2>1. mirrored[h] \in Nat /\ restarts \in Nat /\ mirrored[h] <= 1 + restarts
    BY <1>0 DEF Repeated, TypeOK
  <2>2. restarts' = restarts + 1 /\ UNCHANGED <<mirrored, processed>>
    BY <1>2 DEF Restart
  <2>. QED
    BY <2>1, <2>2 DEF Repeated
<1>3. ASSUME NEW e \in Evaluators, Fetch(e) \/ Continue(e) PROVE Repeats'
  <2> SUFFICES ASSUME NEW h \in Hashes PROVE Repeated(h)'
    BY DEF Repeats, Hashes
  <2>1. \A d \in Evaluators \ {e} : at[d] = "idle"
    BY <1>0, <1>3, OthersIdle
  <2>0. Repeated(h) /\ mirrored[h] \in Nat /\ restarts \in Nat
    BY <1>0 DEF TypeOK
  <2>00. ASSUME at[e] \notin Recording \/ Signal(e).hash # h
         PROVE  (h \in processed /\ mirrored[h] <= 1 + restarts) \/ mirrored[h] <= restarts
    BY <2>0, <2>1, <2>00 DEF Repeated, Recording
  <2>2. /\ Repeated(h) /\ mirrored[h] \in Nat /\ restarts \in Nat
        /\ (at[e] \notin Recording \/ Signal(e).hash # h)
             => ((h \in processed /\ mirrored[h] <= 1 + restarts) \/ mirrored[h] <= restarts)
    BY <2>0, <2>00
  <2>3. processed \subseteq processed'
    BY <1>0, <1>3, StepsAreLocal
  <2>4. ASSUME UNCHANGED <<mirrored, restarts, fresh>>, at'[e] \in Recording PROVE Repeated(h)'
    BY <2>1, <2>2, <2>3, <2>4 DEF Repeated, Signal, Recording
  <2>5. ASSUME UNCHANGED <<mirrored, restarts>>, at[e] \notin Recording PROVE Repeated(h)'
    BY <2>2, <2>3, <2>5 DEF Repeated
  <2>6. CASE Fetch(e) \/ PassOver(e) \/ TakeUp(e) \/ RecordExpired(e) \/ Filtered(e)
    BY <1>0, <2>5, <2>6
       DEF Fetch, PassOver, TakeUp, RecordExpired, Filtered, Recording
  <2>7. CASE \/ ReadRow(e) \/ ReadPositions(e) \/ ReadFunds(e) \/ SkipSignal(e) \/ FailSignal(e)
             \/ \E quotes \in AllQuotes : ReadValue(e, quotes)
    BY <2>5, <2>7
       DEF ReadRow, ReadPositions, ReadFunds, SkipSignal, FailSignal, ReadValue, Recording
  <2>8. CASE \/ RefreshPositions(e) \/ RefreshRow(e)
             \/ \E quotes \in AllQuotes : RefreshValue(e, quotes)
    <3>1. UNCHANGED <<mirrored, restarts, fresh>> /\ at'[e] \in Recording
      BY <1>0, <2>8 DEF RefreshPositions, RefreshRow, RefreshValue, Recording, TypeOK
    <3>. QED
      BY <2>4, <3>1
  <2>9. CASE FillSignal(e)
    <3>1. Signal(e).hash \in HashesIn(fresh[e])
      BY <1>0, <2>9, SignalOf DEF FillSignal, Deciding
    <3>2. Signal(e).hash \notin processed
      BY <1>0, <3>1 DEF StillNew, StillNewFor
    <3>3. /\ at[e] = "decide" /\ at'[e] = "refreshPositions" /\ UNCHANGED <<restarts, fresh>>
          /\ mirrored' = [mirrored EXCEPT ![Signal(e).hash] = @ + 1]
      BY <1>0, <2>9 DEF FillSignal, TypeOK
    <3>4. CASE h = Signal(e).hash
      <4>1. mirrored[h] <= restarts
        BY <2>2, <3>2, <3>3, <3>4 DEF Recording
      <4>2. mirrored'[h] = mirrored[h] + 1
        BY <1>0, <3>3, <3>4 DEF TypeOK
      <4>3. Signal(e)'.hash = h
        BY <3>3, <3>4 DEF Signal
      <4>. QED
        BY <2>2, <3>3, <4>1, <4>2, <4>3 DEF Repeated, Recording
    <3>5. CASE h # Signal(e).hash
      <4>1. mirrored'[h] = mirrored[h]
        BY <1>0, <3>3, <3>5 DEF TypeOK
      <4>. QED
        BY <2>2, <2>3, <3>3, <3>5, <4>1 DEF Repeated
    <3>. QED
      BY <3>4, <3>5
  <2>10. CASE RecordProcessed(e)
    <3>1. processed' = processed \cup {Signal(e).hash} /\ UNCHANGED <<mirrored, restarts>>
      BY <2>10 DEF RecordProcessed
    <3>2. mirrored[h] <= restarts \/ (h \in processed' /\ mirrored[h] <= 1 + restarts)
      BY <2>1, <2>2, <3>1 DEF Repeated, Recording
    <3>. QED
      BY <3>1, <3>2 DEF Repeated
  <2>11. CASE LoseRecord(e)
    <3>1. CASE at[e] = "expire"
      BY <2>5, <2>11, <3>1 DEF LoseRecord, Recording
    <3>2. CASE at[e] = "record"
      <4>1. Signal(e).hash \in HashesIn(fresh[e])
        BY <1>0, <3>2, SignalOf DEF Deciding
      <4>2. Signal(e).hash \notin processed
        BY <1>0, <4>1 DEF StillNew, StillNewFor
      <4>. QED
        BY <2>11, <3>2, <4>2 DEF LoseRecord, Refuses
    <3>. QED
      BY <2>11, <3>1, <3>2 DEF LoseRecord
  <2>. QED
    BY <1>3, <2>6, <2>7, <2>8, <2>9, <2>10, <2>11 DEF Continue
<1>. QED
  BY <1>1, <1>2, <1>3 DEF Next

(* What waits to be decided stays new.                                      *)
LEMMA StillNewStep ==
  ASSUME ~Overlap, SoloInv, [Next]_vars
  PROVE  StillNew'
<1> USE DEF world, account, batch, sizing, history, Go
<1>0. TypeOK /\ Queues /\ Typed /\ Alone /\ StillNew
  BY DEF SoloInv, Typed
<1>1. CASE Disclose \/ GrowOld \/ UNCHANGED vars
  BY <1>0, <1>1 DEF Disclose, GrowOld, vars, StillNew, StillNewFor, First
<1>2. CASE Restart
  BY <1>2, NothingIn DEF Restart, StillNew, StillNewFor
<1>3. ASSUME NEW e \in Evaluators, Fetch(e) \/ Continue(e) PROVE StillNew'
  <2>1. ASSUME NEW d \in Evaluators, d # e PROVE StillNewFor(d)'
    <3>1. at[d] = "idle" /\ at'[d] = "idle" /\ fresh[d] = <<>> /\ fresh'[d] = fresh[d]
      BY <1>0, <1>3, <2>1, OthersIdle, StepsAreLocal DEF OthersWait, Queues
    <3>. QED
      BY <3>1, NothingIn DEF StillNewFor
  <2> SUFFICES StillNewFor(e)'
    BY <2>1 DEF StillNew
  <2>2. /\ HashesIn(fresh[e]) \subseteq known[e] \ processed /\ Distinct(fresh[e])
        /\ at[e] = "expire" => First(e).hash \notin processed \cup HashesIn(fresh[e])
        /\ todo[e] \in Seq(DOMAIN Feed) /\ fresh[e] \in Seq(DOMAIN Feed)
    BY <1>0 DEF StillNew, StillNewFor, Queues
  <2>3. ASSUME fresh'[e] = <<>>, at'[e] # "expire" PROVE StillNewFor(e)'
    BY <2>3, NothingIn DEF StillNewFor
  <2>4. ASSUME UNCHANGED <<processed, fresh, known>>, at'[e] # "expire" PROVE StillNewFor(e)'
    BY <2>2, <2>4 DEF StillNewFor
  <2>5. CASE Fetch(e)
    <3>1. fresh'[e] = <<>> /\ at'[e] = "filter"
      BY <1>0, <2>5 DEF Fetch, Queues, TypeOK
    <3>. QED
      BY <2>3, <3>1
  <2>6. CASE PassOver(e)
    <3>1. UNCHANGED <<processed, fresh, known>> /\ at'[e] # "expire"
      BY <2>6 DEF PassOver
    <3>. QED
      BY <2>4, <3>1
  <2>7. CASE TakeUp(e)
    <3>1. /\ Head(todo[e]) \in DOMAIN Feed
          /\ known'[e] = known[e] \cup {First(e).hash} /\ UNCHANGED processed
          /\ First(e).hash \notin known[e] /\ First(e).hash \notin processed
      BY <1>0, <2>7, FirstToFilter DEF TakeUp, IsNew, TypeOK
    <3>2. /\ HashesIn(Append(fresh[e], Head(todo[e]))) = HashesIn(fresh[e]) \cup {First(e).hash}
          /\ Distinct(Append(fresh[e], Head(todo[e])))
      BY <2>2, <3>1, AppendedTo DEF First
    <3>3. CASE Head(todo[e]) <= expired
      <4>1. UNCHANGED <<todo, fresh>>
        BY <2>7, <3>3 DEF TakeUp
      <4>. QED
        BY <2>2, <3>1, <4>1 DEF StillNewFor, First
    <3>4. CASE ~(Head(todo[e]) <= expired)
      <4>1. fresh'[e] = Append(fresh[e], Head(todo[e])) /\ at'[e] = "filter"
        BY <1>0, <2>7, <3>4 DEF TakeUp, TypeOK
      <4>. QED
        BY <2>2, <3>1, <3>2, <4>1 DEF StillNewFor
    <3>. QED
      BY <3>3, <3>4
  <2>8. CASE RecordExpired(e)
    <3>1. /\ at[e] = "expire" /\ at'[e] = "filter" /\ UNCHANGED <<fresh, known>>
          /\ processed' = processed \cup {First(e).hash}
      BY <1>0, <2>8 DEF RecordExpired, TypeOK
    <3>. QED
      BY <2>2, <3>1 DEF StillNewFor
  <2>9. CASE Filtered(e)
    <3>1. CASE fresh[e] = <<>>
      <4>1. fresh'[e] = <<>> /\ at'[e] = "idle"
        BY <1>0, <2>9, <3>1 DEF Filtered, Leave, TypeOK
      <4>. QED
        BY <2>3, <4>1
    <3>2. CASE fresh[e] # <<>>
      <4>1. at'[e] = "row" /\ UNCHANGED <<processed, fresh, known>>
        BY <1>0, <2>9, <3>2 DEF Filtered, TypeOK
      <4>. QED
        BY <2>4, <4>1
    <3>. QED
      BY <3>1, <3>2
  <2>10. CASE \/ ReadRow(e) \/ ReadPositions(e) \/ ReadFunds(e)
              \/ \E quotes \in AllQuotes : ReadValue(e, quotes) \/ RefreshValue(e, quotes)
              \/ SkipSignal(e) \/ FillSignal(e) \/ FailSignal(e)
              \/ RefreshPositions(e) \/ RefreshRow(e)
    <3>1. UNCHANGED <<processed, fresh, known>>
      BY <2>10 DEF ReadRow, ReadPositions, ReadFunds, ReadValue, RefreshValue, SkipSignal,
                   FillSignal, FailSignal, RefreshPositions, RefreshRow
    <3>2. at'[e] # "expire"
      BY <1>0, <2>10 DEF TypeOK, ReadRow, ReadPositions, ReadFunds, ReadValue, RefreshValue,
                   SkipSignal, FillSignal, FailSignal, RefreshPositions, RefreshRow
    <3>. QED
      BY <2>4, <3>1, <3>2
  <2>11. CASE RecordProcessed(e)
    <3>1. /\ HashesIn(fresh[e]) = {Signal(e).hash} \cup HashesIn(Tail(fresh[e]))
          /\ fresh[e] # <<>> /\ processed' = processed \cup {Signal(e).hash}
      BY <1>0, <2>11, SignalOf DEF RecordProcessed, Deciding, Queues
    <3>2. CASE Len(fresh[e]) = 1
      <4>1. fresh'[e] = <<>> /\ at'[e] = "idle"
        BY <1>0, <2>11, <3>2 DEF RecordProcessed, NextSignal, Leave, TypeOK
      <4>. QED
        BY <2>3, <4>1
    <3>3. CASE Len(fresh[e]) # 1
      <4>1. fresh'[e] = Tail(fresh[e]) /\ at'[e] = "decide" /\ UNCHANGED known
        BY <1>0, <2>11, <3>3 DEF RecordProcessed, NextSignal, TypeOK
      <4>2. Distinct(Tail(fresh[e])) /\ Signal(e).hash \notin HashesIn(Tail(fresh[e]))
        BY <2>2, <3>1, RestIsDistinct DEF Signal
      <4>. QED
        BY <2>2, <3>1, <4>1, <4>2 DEF StillNewFor
    <3>. QED
      BY <3>2, <3>3
  <2>12. CASE LoseRecord(e)
    <3>1. fresh'[e] = <<>> /\ at'[e] = "idle"
      BY <1>0, <2>12 DEF LoseRecord, Abort, Leave, TypeOK
    <3>. QED
      BY <2>3, <3>1
  <2>. QED
    BY <1>3, <2>5, <2>6, <2>7, <2>8, <2>9, <2>10, <2>11, <2>12 DEF Continue
<1>. QED
  BY <1>1, <1>2, <1>3 DEF Next
-----------------------------------------------------------------------------
(* The inductive invariant of evaluations that do not overlap is kept,      *)
LEMMA SoloStep == ~Overlap /\ SoloInv /\ [Next]_vars => SoloInv'
<1> SUFFICES ASSUME ~Overlap, SoloInv, [Next]_vars PROVE SoloInv'
  OBVIOUS
<1>1. Typed'
  BY TypedStep DEF SoloInv
<1>2. Alone'
  <2>1. CASE Disclose \/ GrowOld \/ UNCHANGED vars
    BY <2>1 DEF Disclose, GrowOld, vars, SoloInv, Alone
  <2>2. CASE Restart
    BY <2>2 DEF Restart, Alone
  <2>3. ASSUME NEW e \in Evaluators, Fetch(e) \/ Continue(e) PROVE Alone'
    BY <2>3, OthersIdle DEF SoloInv, Typed
  <2>. QED
    BY <2>1, <2>2, <2>3 DEF Next
<1>. QED
  BY <1>1, <1>2, StillNewStep, RepeatsStep, SnapshotStep, CapStep DEF SoloInv

(* and so holds always.                                                     *)
LEMMA SoloAlways ==
  ASSUME ~Overlap
  PROVE  Spec => []SoloInv
<1>1. Init => SoloInv
  BY SoloInit
<1>2. SoloInv /\ [Next]_vars => SoloInv'
  BY SoloStep
<1>. QED
  BY <1>1, <1>2, PTL DEF Spec

(* A disclosure is mirrored once, and once more for each restart at most.   *)
THEOREM RepeatsAreBounded ==
  ASSUME ~Overlap
  PROVE  Spec => []RepeatsBounded
<1>1. SoloInv => RepeatsBounded
  <2> SUFFICES ASSUME SoloInv, NEW h \in Hashes PROVE mirrored[h] <= 1 + restarts
    BY DEF RepeatsBounded
  <2>1. mirrored[h] \in Nat /\ restarts \in Nat /\ Repeated(h)
    BY DEF SoloInv, Typed, TypeOK, Repeats
  <2>. QED
    BY <2>1 DEF Repeated
<1>. QED
  BY <1>1, SoloAlways, PTL

(* The positions stay within maxPositions.                                  *)
THEOREM PositionsStayCapped ==
  ASSUME ~Overlap
  PROVE  Spec => []PositionsCapped
<1>1. SoloInv => PositionsCapped
  BY DEF SoloInv, Typed, Capped, PositionsCapped
<1>. QED
  BY <1>1, SoloAlways, PTL

(* No order is placed for a disclosure that is recorded as processed.       *)
THEOREM ProcessedStaysFinal ==
  ASSUME ~Overlap
  PROVE  Spec => ProcessedIsFinal
<1> USE DEF world, account, batch, sizing, history
<1>1. ASSUME SoloInv, [Next]_vars, NEW h \in processed PROVE mirrored'[h] = mirrored[h]
  <2>1. CASE Disclose \/ GrowOld \/ Restart \/ UNCHANGED vars
    BY <2>1 DEF Disclose, GrowOld, Restart, vars
  <2>2. ASSUME NEW e \in Evaluators, Fetch(e) \/ Continue(e), ~FillSignal(e)
        PROVE  mirrored' = mirrored
    BY <2>2 DEF Fetch, Continue, PassOver, TakeUp, RecordExpired, Filtered, ReadRow, ReadPositions,
         ReadFunds, ReadValue, RefreshValue, SkipSignal, FailSignal,
         RefreshPositions, RefreshRow, RecordProcessed, LoseRecord
  <2>3. ASSUME NEW e \in Evaluators, FillSignal(e) PROVE mirrored'[h] = mirrored[h]
    <3>1. Signal(e).hash \in HashesIn(fresh[e]) /\ Typed
      BY <1>1, <2>3, SignalOf DEF FillSignal, Deciding, SoloInv
    <3>2. Signal(e).hash # h
      BY <1>1, <3>1 DEF SoloInv, StillNew, StillNewFor
    <3>. QED
      BY <1>1, <2>3, <3>1, <3>2 DEF FillSignal, Typed, TypeOK
  <2>. QED
    BY <1>1, <2>1, <2>2, <2>3 DEF Next
<1>2. SoloInv /\ [Next]_vars => [\A h \in processed : mirrored'[h] = mirrored[h]]_vars
  BY <1>1
<1>. QED
  BY <1>2, SoloAlways, PTL DEF Spec, ProcessedIsFinal

(* The cost of what is held changes by the notional of a buy.               *)
LEMMA ExposureOfBuy ==
  ASSUME TypeOK, NEW s \in Symbols, NEW price \in Nat, NEW q \in Nat,
         pos' = [pos EXCEPT ![s] = NewPosition("buy", price, q, @)]
  PROVE  Exposure(pos') = Exposure(pos) + Notional(price, q)
<1> DEFINE f == [r \in Symbols |-> pos[r].cost]
           h == [r \in Symbols |-> pos'[r].cost]
<1>1. Notional(price, q) \in Nat
  BY AmountsNat
<1>2. /\ \A r \in Symbols : f[r] \in Int
      /\ h[s] = f[s] + Notional(price, q)
      /\ \A r \in Symbols \ {s} : f[r] = h[r]
  BY DEF TypeOK, Positions, NewPosition
<1>3. \A r \in Symbols : f[r] \in Int /\ h[r] \in Int
  BY <1>1, <1>2
<1>4. SumFunctionOnSet(f, Symbols) \in Int
  <2> HIDE DEF f
  <2>. QED
    BY <1>2, CongressFollowerAssumption, SumInt
<1>5. SumFunctionOnSet(h, Symbols) = SumFunctionOnSet(f, Symbols) - f[s] + h[s]
  <2> HIDE DEF f, h
  <2>. QED
    BY <1>2, <1>3, CongressFollowerAssumption, SumChange
<1>6. Exposure(pos) = SumFunctionOnSet(f, Symbols) /\ Exposure(pos') = SumFunctionOnSet(h, Symbols)
  BY DEF Exposure, SumFunction
<1> HIDE DEF f, h
<1>. QED
  BY <1>1, <1>2, <1>4, <1>5, <1>6

(* A buy leaves the cost of all positions within its share of the equity.   *)
THEOREM ExposureStaysCapped ==
  ASSUME ~Overlap
  PROVE  Spec => ExposureCapped
<1>1. ASSUME SoloInv, NEW e \in Evaluators, FillSignal(e), Signal(e).action = "buy"
      PROVE  100 * Exposure(pos') <= equity[e] * MaxTotalAllocationPct
  <2> DEFINE s == Signal(e)
  <2>1. /\ s.symbol \in Symbols /\ s.price \in Nat /\ Quantity(e) \in Nat /\ rows[e] = pos
        /\ TypeOK
    BY <1>1, SignalOf, QuantityNat
       DEF FillSignal, SoloInv, Deciding, Typed, SnapshotsFresh, SnapshotFor
  <2>2. Quantity(e) = BuyQuantity(e) /\ WantsBuy(e)
    BY <1>1 DEF Quantity, FillSignal, WantsSell
  <2>3. 100 * (Exposure(pos) + Notional(s.price, Quantity(e))) <= equity[e] * MaxTotalAllocationPct
    BY <2>1, <2>2 DEF WantsBuy, IsWithinAllocationLimit
  <2>4. pos' = [pos EXCEPT ![s.symbol] = NewPosition("buy", s.price, Quantity(e), @)]
    BY <1>1 DEF FillSignal
  <2>5. Exposure(pos') = Exposure(pos) + Notional(s.price, Quantity(e))
    BY <2>1, <2>4, ExposureOfBuy
  <2>. QED
    BY <2>3, <2>5
<1>2. SoloInv /\ [Next]_vars =>
        [\A e \in Evaluators :
           FillSignal(e) /\ Signal(e).action = "buy" =>
             100 * Exposure(pos') <= equity[e] * MaxTotalAllocationPct]_vars
  BY <1>1
<1>. QED
  BY <1>2, SoloAlways, PTL DEF Spec, ExposureCapped

(* The half percent that is set aside pays the fee of a buy, as long as the *)
(* fee rate is at most 5/995.                                               *)
THEOREM FeeHasRoom ==
  ASSUME 995 * FeeRate <= 5 * Scale
  PROVE  Spec => []RoomForFee
<1>1. ASSUME Typed, NEW e \in Evaluators, at[e] = "decide", funds[e] = cash, WantsBuy(e)
      PROVE  Accepted(e)
  <2> DEFINE price == Signal(e).price
             q == BuyQuantity(e)
             n == price * q
             money == (cash * 995) \div 1000
  <2>1. price \in Nat \ {0} /\ Signal(e).action = "buy" /\ Quantity(e) = q
    BY <1>1, SignalOf DEF Deciding, WantsBuy, NoPrice, Quantity
  <2>2. equity[e] \in Nat /\ cash \in Nat /\ MaxAllocationPct \in Nat
    BY <1>1, CongressFollowerAssumption DEF Typed, TypeOK
  <2>3. (equity[e] * MaxAllocationPct) \div 100 \in Nat /\ money \in Nat
    BY <2>2, ShareNat
  <2> DEFINE spent == Smaller((equity[e] * MaxAllocationPct) \div 100, money)
  <2>4. spent \in Nat /\ spent <= money
    BY <2>3, SmallerNat
  <2>5. q = spent \div (Scale * price)
    BY <1>1 DEF BuyQuantity
  <2> HIDE DEF spent, q, price
  <2>6. q \in Nat /\ Notional(price, q) <= spent /\ Notional(price, q) \in Nat
    BY <2>1, <2>4, <2>5, UnitsNat, AmountsNat
  <2>7. 1000 * money <= 995 * cash
    BY <2>2
  <2> HIDE DEF money
  <2>8. n \in Nat /\ Notional(price, q) = Scale * n /\ CalculateFee(price, q) = FeeRate * n
    BY <2>1, <2>6, FillAssumption DEF Notional, CalculateFee
  <2> HIDE DEF n
  <2>9. 995 * (FeeRate * n) <= 5 * (Scale * n)
    BY <2>8, FillAssumption
  <2>10. BuyCost(price, q) <= cash
    <3>1. FeeRate * n \in Nat /\ Scale * n \in Nat
      BY <2>8, FillAssumption
    <3>2. BuyCost(price, q) = Scale * n + FeeRate * n
      BY <2>8 DEF BuyCost
    <3>. QED
      BY <2>2, <2>3, <2>4, <2>6, <2>7, <2>8, <2>9, <3>1, <3>2
  <2>. QED
    BY <2>1, <2>2, <2>10 DEF Accepted, CanFill, price
<1>2. Typed => RoomForFee
  BY <1>1 DEF RoomForFee
<1>. QED
  BY <1>2, TypedAlways, PTL
=============================================================================
