------------------------------ MODULE AdminReset ------------------------------
(****************************************************************************)
(* POST /api/admin/reset (src/api/routes/health.ts) next to the accounts of *)
(* AgentExchange: a list of tables is emptied one statement after the       *)
(* other, while orders may be under way and the exchanges in memory go on   *)
(* believing that they have a balance row.                                  *)
(****************************************************************************)
EXTENDS AgentExchange

CONSTANT MaxResets       \* bound of a behaviour

ASSUME AdminResetAssumption == MaxResets \in Nat

VARIABLES
  wipe,                  \* the table the handler empties next, of the agents'
  met,                   \* history: agents with an order a wipe met, or broken off
  resets

resetVars == <<wipe, met, resets>>
allVars == <<vars, resetVars>>

ResetInit ==
  /\ Init
  /\ wipe = "idle" /\ met = {} /\ resets = 0

InFlight == {order[c].agent : c \in {d \in Callers : at[d] # "idle"}}

(* Of the fifteen tables three are an agent's account, in this order.       *)
DeleteOrders ==
  /\ wipe = "idle"
  /\ resets < MaxResets
  /\ book' = [a \in Agents |-> [s \in Symbols |-> EmptyBook]]
  /\ flow' = [a \in Agents |-> 0]
  /\ wipe' = "positions"
  /\ met' = met \cup InFlight
  /\ resets' = resets + 1
  /\ UNCHANGED <<opened, balance, positions, memory, locals, history>>

\* Fault: the table is not in the list.
DeleteNoPositions ==
  /\ wipe = "positions"
  /\ wipe' = "balance"
  /\ UNCHANGED <<vars, met, resets>>

DeletePositions ==
  /\ wipe = "positions"
  /\ positions' = [a \in Agents |-> [s \in Symbols |-> NoPosition]]
  /\ wipe' = "balance"
  /\ UNCHANGED <<opened, balance, book, flow, memory, locals, history, met, resets>>

DeleteBalances ==
  /\ wipe = "balance"
  /\ opened' = {}
  /\ wipe' = "idle"
  /\ UNCHANGED <<balance, positions, book, flow, memory, locals, history, met, resets>>

(* 500: what was emptied stays empty, the rest is as it was.                *)
ResetFails ==
  /\ wipe # "idle"
  /\ wipe' = "idle"
  /\ met' = Agents
  /\ UNCHANGED <<vars, resets>>

(* getBalanceRow throws without the row, and so does placeOrder.            *)
ReadNoBalance(c) ==
  /\ at[c] = "balance"
  /\ order[c].agent \notin opened
  /\ Return(c)
  /\ UNCHANGED <<tables, memory, history>>

(* An UPDATE of no row.                                                     *)
UpdateNoBalance(c) ==
  /\ at[c] = "update"
  /\ order[c].agent \notin opened
  /\ priceCache' = [priceCache EXCEPT ![order[c].agent][order[c].symbol] = order[c].price]
  /\ at' = [at EXCEPT ![c] = "record"]
  /\ UNCHANGED <<tables, instance, order, seen, next, history>>

(* The steps of a fill, on a table that may have been emptied.              *)
FillOfTables(c) ==
  \/ ReadNoBalance(c)
  \/ UpdateNoBalance(c)
  \/ order[c].agent \in opened /\ (ReadBalance(c) \/ UpdateBalance(c))
  \/ RejectOrder(c)
  \/ ReadPosition(c)
  \/ UpsertPosition(c)
  \/ \E quotes \in [Symbols -> Prices \cup {NoPrice}] : CalculateEquity(c, quotes)
  \/ RecordOrder(c)

Trading ==
  /\ \/ \E a \in Agents : LookForBalance(a) \/ InsertBalance(a)
     \/ \E c \in Callers : Place(c) \/ FillOfTables(c)
  /\ met' = IF wipe = "idle" THEN met ELSE met \cup InFlight'
  /\ UNCHANGED <<wipe, resets>>

RestartAndForget ==
  /\ Restart
  /\ wipe' = "idle"
  /\ met' = IF wipe = "idle" THEN met ELSE Agents
  /\ UNCHANGED resets

ResetNext ==
  \/ DeleteOrders \/ DeletePositions \/ DeleteBalances \/ ResetFails
  \/ Trading
  \/ RestartAndForget

ResetSpec ==
  /\ ResetInit /\ [][ResetNext]_allVars
  /\ \A a \in Agents : WF_allVars((LookForBalance(a) \/ InsertBalance(a)) /\ Trading)
  /\ \A c \in Callers : WF_allVars(FillOfTables(c) /\ Trading)
-----------------------------------------------------------------------------
(* An account starts over after a reset: as long as no order of it was met  *)
(* by the wipe, and the wipe ran to its end, nothing of it is left, nothing *)
(* is traded on it before a restart opens it again, and then its tables     *)
(* tell one story from the starting balance on.  (A fill that is met writes *)
(* rows back that were emptied already.)                                    *)
AccountsStartOver ==
  /\ met \subseteq Agents
  /\ wipe = "idle" =>
       \A a \in Agents \ (torn \cup met) : Settled(a) =>
         /\ a \in opened => balance[a].cash = StartingBalance + flow[a]
         /\ a \notin opened => flow[a] = 0 /\ \A s \in Symbols : positions[a][s] = NoPosition
         /\ \A s \in Symbols : Agree(book[a][s], positions[a][s])

(* What the wipe has emptied so far, of an account no order of which it met.*)
Emptied(a) ==
  /\ flow[a] = 0
  /\ \A s \in Symbols :
       book[a][s] = EmptyBook /\ (wipe = "balance" => positions[a][s] = NoPosition)

(* The inductive invariant behind AccountsStartOver when callers take turns.*)
ResetInv ==
  /\ Alone /\ OneRow
  /\ wipe \in {"idle", "positions", "balance"} /\ met \subseteq Agents
  /\ wipe # "idle" => InFlight \subseteq met
  /\ \A a \in Agents \ met : IF wipe = "idle" THEN Consistent(a) ELSE Emptied(a)
=============================================================================
