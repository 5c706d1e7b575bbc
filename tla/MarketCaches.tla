---------------------------- MODULE MarketCaches ----------------------------
(****************************************************************************)
(* The memories between the program and the outside: the response cache and *)
(* quota block of src/themes/sources/congress-trades.ts, the memo cache of  *)
(* src/api/routes/dashboard.ts, and src/market/stock-price-cache.ts.  They  *)
(* share nothing but the clock, so a behaviour follows one of them.         *)
(*                                                                          *)
(* What is outside is a version that grows; a request that was sent at some *)
(* version is answered with that version or a later one.                    *)
(****************************************************************************)
EXTENDS Integers, FiniteSets

CONSTANTS
  Subjects,          \* the memories to follow: "bargo", "dashboard", "prices"
  Callers,           \* handlers and timers that may be waiting at a time
  Symbols, Watched,  \* symbols, and watchSymbols
  Ttl,               \* how long an entry is fresh, in ticks
  Quota, Floor,      \* requests the API allows a day (30), QUOTA_FLOOR (3)
  DayLength,         \* ticks from midnight to midnight
  MaxTime, MaxVersion, MaxSpent, MaxRestarts   \* bounds of a behaviour

ASSUME MarketCachesAssumption ==
  /\ Subjects \subseteq {"bargo", "dashboard", "prices"}
  /\ Watched \subseteq Symbols
  /\ Ttl \in Nat \ {0} /\ DayLength \in Nat \ {0}
  /\ Quota \in Nat /\ Floor \in Nat /\ Floor < Quota
  /\ MaxTime \in Nat /\ MaxVersion \in Nat /\ MaxSpent \in Nat /\ MaxRestarts \in Nat

VARIABLES
  subject,
  now,               \* Date.now()
  version,           \* what is outside
  began,             \* history: the version each tick began with
  waiting,           \* the requests of each caller
  entry,             \* the cached response
  blockedUntil,      \* quotaBlockedUntil
  spent,             \* the API's count of today's requests
  excused,           \* history: today's requests nothing could have kept back
  misled,            \* history: a reply of today told nothing of today's quota
  served,            \* history: what was returned last in this tick, to a call of which time
  refreshing,
  price,             \* PriceCache.prices
  held,              \* agent_positions: the symbols held
  restarts

clock == <<subject, now, version, began>>
cacheVars == <<waiting, entry, blockedUntil, spent, excused, misled, served>>
priceVars == <<refreshing, price, held>>
vars == <<clock, cacheVars, priceVars, restarts>>

None == -1
NotWaiting == [asked |-> None, from |-> None, ordinal |-> 0, symbols |-> {}]
NoEntry == [data |-> None, writtenAt |-> None]
NoAnswer == [data |-> None, asked |-> None, stale |-> TRUE]

TypeOK ==
  /\ now \in 0..MaxTime /\ version \in 0..MaxVersion
  /\ \A c \in Callers :
       /\ waiting[c].asked \in {None} \cup 0..now
       /\ waiting[c].from \in {None} \cup 0..version
       /\ waiting[c].symbols \subseteq Symbols
  /\ entry.data \in {None} \cup 0..version
  /\ spent \in Nat /\ excused \in Nat
  /\ price \in [Symbols -> {None} \cup 0..version]
  /\ held \subseteq Symbols

Forget ==
  /\ waiting' = [c \in Callers |-> NotWaiting]
  /\ entry' = NoEntry
  /\ blockedUntil' = 0
  /\ refreshing' = FALSE
  /\ price' = [s \in Symbols |-> None]

Init ==
  /\ subject \in Subjects
  /\ now = 0 /\ version = 0
  /\ began = [t \in 0..MaxTime |-> 0]
  /\ waiting = [c \in Callers |-> NotWaiting]
  /\ entry = NoEntry
  /\ blockedUntil = 0
  /\ spent = 0 /\ excused = 0 /\ misled = FALSE
  /\ served = NoAnswer
  /\ refreshing = FALSE
  /\ price = [s \in Symbols |-> None]
  /\ held = {}
  /\ restarts = 0
-----------------------------------------------------------------------------
Midnight(t) == t % DayLength = 0
NextMidnight == (now \div DayLength + 1) * DayLength

Caching == subject \in {"bargo", "dashboard"}

(* No price looks at the clock.                                             *)
Tick ==
  /\ now < MaxTime
  /\ Caching
  /\ now' = now + 1
  /\ began' = [began EXCEPT ![now + 1] = version]
  /\ IF Midnight(now + 1)
       THEN spent' = 0 /\ excused' = 0 /\ misled' = FALSE
       ELSE UNCHANGED <<spent, excused, misled>>
  /\ served' = NoAnswer
  /\ UNCHANGED <<subject, version, waiting, entry, blockedUntil, priceVars, restarts>>

Publish ==
  /\ version < MaxVersion
  /\ version' = version + 1
  /\ UNCHANGED <<subject, now, began, cacheVars, priceVars, restarts>>

Idle(c) == waiting[c] = NotWaiting
Busy == {c \in Callers : ~Idle(c)}
-----------------------------------------------------------------------------
(* fetchSignals, and get of the dashboard's memo cache, which knows no      *)
(* block: an entry that is fresh is returned at once.                       *)
Blocked == subject = "bargo" /\ now < blockedUntil
Fresh == entry # NoEntry /\ now - entry.writtenAt < Ttl

Return(data, asked, stale) == served' = [data |-> data, asked |-> asked, stale |-> stale]

(* Blocked without an entry, the call throws, which changes nothing.        *)
Hit(c) ==
  /\ Caching
  /\ Idle(c)
  /\ entry # NoEntry
  /\ Blocked \/ Fresh
  /\ Return(entry.data, now, Blocked)
  /\ UNCHANGED <<clock, waiting, entry, blockedUntil, spent, excused, misled, priceVars, restarts>>

Request(ordinal, symbols) ==
  [asked |-> now, from |-> version, ordinal |-> ordinal, symbols |-> symbols]

(* A request that is sent while another is under way cannot know what the   *)
(* other will be told of the quota.                                         *)
Miss(c) ==
  /\ Caching
  /\ Idle(c)
  /\ ~Blocked /\ ~Fresh
  /\ waiting' = [waiting EXCEPT ![c] = Request(spent + 1, {})]
  /\ IF subject = "bargo"
       THEN /\ spent < MaxSpent
            /\ spent' = spent + 1
            /\ excused' = excused + (IF Busy # {} THEN 1 ELSE 0)
       ELSE UNCHANGED <<spent, excused>>
  /\ UNCHANGED <<clock, entry, blockedUntil, misled, served, priceVars, restarts>>

Sent(c) == Caching /\ ~Idle(c)
Done(c) == waiting' = [waiting EXCEPT ![c] = NotWaiting]

Crossed(c) == waiting[c].asked \div DayLength # now \div DayLength

\* Fault: the entry is as old as its arrival.
WrittenOnArrival(c, data) == [data |-> data, writtenAt |-> now]

(* The time was taken before the request.                                   *)
Written(c, data) == [data |-> data, writtenAt |-> waiting[c].asked]

\* Fault: the floor itself is still spent.
SparesAboveFloor(remaining) == remaining < Floor

Spares(remaining) == remaining <= Floor

(* A good response says how many requests are left.  Where the header is    *)
(* missing the code reads 0.                                                *)
Response(c, data, header) ==
  LET remaining == IF header THEN Quota - waiting[c].ordinal ELSE 0
      blocks == subject = "bargo" /\ Spares(remaining)
  IN
  /\ Sent(c)
  /\ data >= waiting[c].from
  /\ subject = "bargo" => waiting[c].ordinal <= Quota
  /\ entry' = Written(c, data)
  /\ Return(data, waiting[c].asked, FALSE)
  /\ blockedUntil' = IF blocks THEN NextMidnight ELSE blockedUntil
  /\ misled' = (misled \/ (blocks /\ (~header \/ Crossed(c))))
  /\ Done(c)
  /\ UNCHANGED <<clock, spent, excused, priceVars, restarts>>

(* 429: what is cached is returned whatever its age, or the call throws.    *)
TooMany(c) ==
  /\ Sent(c)
  /\ subject = "bargo"
  /\ waiting[c].ordinal > Quota
  /\ blockedUntil' = NextMidnight
  /\ misled' = (misled \/ Crossed(c))
  /\ IF entry = NoEntry THEN UNCHANGED served
     ELSE Return(entry.data, waiting[c].asked, TRUE)
  /\ Done(c)
  /\ UNCHANGED <<clock, entry, spent, excused, priceVars, restarts>>

(* Another status, no connection, the timeout, or a load that throws.       *)
NoResponse(c) ==
  /\ Sent(c)
  /\ excused' = IF subject = "bargo" THEN excused + 1 ELSE excused
  /\ Done(c)
  /\ UNCHANGED <<clock, entry, blockedUntil, spent, misled, served, priceVars, restarts>>
-----------------------------------------------------------------------------
(* The price cache: a caller is a tick of its timer.                        *)
Pricing == subject = "prices"

\* Fault: the flag is not looked at.
MayRefreshAlways == TRUE

MayRefresh == ~refreshing

(* symbolsToRefresh, and a request for each symbol; when the positions      *)
(* cannot be read, the watched symbols only.                                *)
Refresh(c, known) ==
  LET symbols == Watched \cup known IN
  /\ Pricing
  /\ Idle(c)
  /\ MayRefresh
  /\ known \in {held, {}}
  /\ refreshing' = (symbols # {})
  /\ waiting' = [waiting EXCEPT ![c] =
       IF symbols = {} THEN NotWaiting ELSE Request(0, symbols)]
  /\ UNCHANGED <<clock, entry, blockedUntil, spent, excused, misled, served, price, held, restarts>>

(* The refresh ends with the last of its answers.                           *)
Answered(c, s) ==
  LET left == waiting[c].symbols \ {s} IN
  /\ waiting' = [waiting EXCEPT ![c] =
       IF left = {} THEN NotWaiting ELSE [@ EXCEPT !.symbols = left]]
  /\ refreshing' = (left # {})
  /\ UNCHANGED <<clock, entry, blockedUntil, spent, excused, misled, served, held, restarts>>

Quote(c, s, data) ==
  /\ Pricing
  /\ s \in waiting[c].symbols
  /\ data >= waiting[c].from
  /\ price' = [price EXCEPT ![s] = data]
  /\ Answered(c, s)

(* The last known price is kept.                                            *)
NoQuote(c, s) ==
  /\ Pricing
  /\ s \in waiting[c].symbols
  /\ Answered(c, s)
  /\ UNCHANGED price

(* An agent opens or closes its position in a symbol.                       *)
Trade(s) ==
  /\ Pricing
  /\ held' = IF s \in held THEN held \ {s} ELSE held \cup {s}
  /\ UNCHANGED <<clock, cacheVars, refreshing, price, restarts>>
-----------------------------------------------------------------------------
(* Everything here is in memory; the API's count is not.                    *)
Restart ==
  /\ restarts < MaxRestarts
  /\ restarts' = restarts + 1
  /\ Forget
  /\ excused' = IF subject = "bargo" THEN excused + 1 ELSE excused
  /\ UNCHANGED <<clock, spent, misled, served, held>>

Next ==
  \/ Tick
  \/ Publish
  \/ \E c \in Callers :
       \/ Hit(c)
       \/ Miss(c)
       \/ \E data \in 0..version, header \in BOOLEAN : Response(c, data, header)
       \/ TooMany(c)
       \/ NoResponse(c)
       \/ \E known \in {held, {}} : Refresh(c, known)
       \/ \E s \in Symbols : NoQuote(c, s) \/ \E data \in 0..version : Quote(c, s, data)
  \/ \E s \in Symbols : Trade(s)
  \/ Restart

Spec == Init /\ [][Next]_vars
-----------------------------------------------------------------------------
(* What fetchSignals and the dashboard return, unless a block made it stale *)
(* on purpose, was outside no longer ago than the time to live when the     *)
(* call was made: through slow loads, and loads that overtake each other.   *)
ServedWithinTtl ==
  /\ TypeOK
  /\ ~served.stale =>
       \A t \in 0..MaxTime : t <= served.asked - Ttl + 1 => served.data >= began[t]

(* The last Floor requests of a day are left to the operator, less those    *)
(* that were sent into an answer under way, that failed, or that followed a *)
(* restart; and the API is not given up before it has come to that, unless  *)
(* a reply spoke of the day before or not of the quota at all.              *)
QuotaIsSpared ==
  /\ subject = "bargo" => spent <= Quota - Floor + excused
  /\ now < blockedUntil /\ ~misled => spent >= Quota - Floor

(* As long as the process lives, no price is replaced by an older one, nor  *)
(* forgotten.                                                               *)
PricesMoveForward ==
  [][restarts' = restarts => \A s \in Symbols : price'[s] >= price[s]]_vars
=============================================================================
