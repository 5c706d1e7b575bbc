---------------------------- MODULE BootSettings ----------------------------
(****************************************************************************)
(* How a server comes up and what it keeps: the migrations of               *)
(* src/db/database.ts, on either backend, and the risk limits, which        *)
(* src/server.ts loads and PUT /management/risk-limits                      *)
(* (src/api/routes/management.ts, src/db/settings-store.ts) changes.        *)
(*                                                                          *)
(* SQLite is one process's memory, read from a file at boot and written to  *)
(* it at SIGTERM.  A Postgres database may have two servers: a deployment   *)
(* starts the next one before the one that serves is stopped.               *)
(****************************************************************************)
EXTENDS Naturals, Sequences, FiniteSets, FiniteSetsExt

CONSTANTS
  Servers,
  Versions,            \* the versions of MIGRATIONS, from 1
  Duplicates,          \* those that add what an earlier one may have added
  Limits, Env, Unset,   \* risk limits, those of the environment, no row
  Puts,                \* PUT requests
  MaxBoots             \* bound of a behaviour

ASSUME BootSettingsAssumption ==
  /\ IsFiniteSet(Versions) /\ Versions = 1..Cardinality(Versions)
  /\ Duplicates \subseteq Versions
  /\ Env \notin Limits /\ Unset \notin Limits \cup {Env}
  /\ MaxBoots \in Nat

VARIABLES
  backend,
  redundant,           \* the Duplicates that add nothing to this database
  stored,              \* what Postgres has committed, or the file has
  memory,              \* what sql.js has
  phase, at,           \* where each server is, and its runMigrations
  applied,             \* appliedVersions
  tx,                  \* what its transaction has done
  config,              \* its limits
  put,                 \* the requests
  written,             \* of each server: PUTs the database has, config not yet
  writer, acked,       \* history: who wrote last; the limits, if he was told so
  crossed, misread,    \* history: another server wrote since; the load failed
  boots

disk == <<backend, redundant, stored, memory>>
booting == <<phase, at, applied, tx, boots>>
serving == <<config, put, written>>
history == <<writer, acked, crossed, misread>>
bootVars == <<disk, booting, serving, history>>

Nothing == [built |-> {}, recorded |-> {}]
NoPut == [at |-> "new", server |-> Unset, value |-> Unset, exists |-> FALSE]

Contents == [built : SUBSET Versions, recorded : SUBSET Versions, limits : Limits \cup {Unset}]

BootTypeOK ==
  /\ backend \in {"sqlite", "postgres"} /\ redundant \subseteq Duplicates
  /\ stored \in Contents /\ memory \in Contents
  /\ phase \in [Servers -> {"down", "read", "migrate", "settings", "up"}]
  /\ at \in [Servers -> {"begin", "record", "commit", "tolerate"}]
  /\ applied \in [Servers -> SUBSET Versions]
  /\ tx \in [Servers -> [built : SUBSET Versions, recorded : SUBSET Versions]]
  /\ config \in [Servers -> Limits \cup {Env}]
  /\ \A s \in Servers : \A i \in DOMAIN written[s] : written[s][i] \in Puts
  /\ acked \in Limits \cup {Unset}

Visible ==
  IF backend = "sqlite" /\ \E s \in Servers : phase[s] # "down" THEN memory ELSE stored

(* A statement outside a transaction, or its COMMIT.                        *)
Write(contents) ==
  IF backend = "sqlite"
    THEN memory' = contents /\ UNCHANGED <<backend, redundant, stored>>
    ELSE stored' = contents /\ UNCHANGED <<backend, redundant, memory>>

(* Any release may have left the database.                                  *)
BootInit ==
  /\ backend \in {"sqlite", "postgres"}
  /\ redundant \in SUBSET Duplicates
  /\ \E n \in {0} \cup Versions :
       stored = [built |-> 1..n \ redundant, recorded |-> 1..n, limits |-> Unset]
  /\ memory = stored
  /\ phase = [s \in Servers |-> "down"]
  /\ at = [s \in Servers |-> "begin"]
  /\ applied = [s \in Servers |-> {}]
  /\ tx = [s \in Servers |-> Nothing]
  /\ config = [s \in Servers |-> Env]
  /\ put = [r \in Puts |-> NoPut]
  /\ written = [s \in Servers |-> <<>>]
  /\ writer = Unset /\ acked = Unset
  /\ crossed = [s \in Servers |-> FALSE]
  /\ misread = [s \in Servers |-> FALSE]
  /\ boots = 0
-----------------------------------------------------------------------------
(* openDatabase: a file has one server.                                     *)
Boot(s) ==
  /\ phase[s] = "down" /\ boots < MaxBoots
  /\ backend = "sqlite" => \A t \in Servers : phase[t] = "down"
  /\ phase' = [phase EXCEPT ![s] = "read"]
  /\ memory' = stored
  /\ config' = [config EXCEPT ![s] = Env]
  /\ boots' = boots + 1
  /\ UNCHANGED <<backend, redundant, stored, at, applied, tx, put, written, history>>

ReadApplied(s) ==
  /\ phase[s] = "read"
  /\ phase' = [phase EXCEPT ![s] = "migrate"]
  /\ applied' = [applied EXCEPT ![s] = Visible.recorded]
  /\ UNCHANGED <<disk, at, tx, boots, serving, history>>

Pending(s) == Versions \ applied[s]
Current(s) == Min(Pending(s))

\* Fault: BEGIN comes after the SQL.
ExecOutsideTransaction(s) ==
  LET v == Current(s) IN
  /\ phase[s] = "migrate" /\ at[s] = "begin" /\ Pending(s) # {}
  /\ IF backend = "sqlite" /\ v \in redundant
       THEN at' = [at EXCEPT ![s] = "tolerate"] /\ UNCHANGED disk
       ELSE /\ at' = [at EXCEPT ![s] = "record"]
            /\ Write([Visible EXCEPT !.built = @ \cup ({v} \ redundant)])
  /\ UNCHANGED <<phase, applied, tx, boots, serving, history>>

(* BEGIN, and the SQL.  Postgres makes it wait for a transaction that is    *)
(* doing the same, and finds what is there already; SQLite throws           *)
(* "duplicate column name", and ROLLBACK follows.                           *)
Exec(s) ==
  LET v == Current(s) IN
  /\ phase[s] = "migrate" /\ at[s] = "begin" /\ Pending(s) # {}
  /\ \A t \in Servers : v \notin tx[t].built
  /\ IF backend = "sqlite" /\ v \in redundant
       THEN at' = [at EXCEPT ![s] = "tolerate"] /\ UNCHANGED tx
       ELSE /\ at' = [at EXCEPT ![s] = "record"]
            /\ tx' = [tx EXCEPT ![s].built = {v} \ (Visible.built \cup redundant)]
  /\ UNCHANGED <<disk, phase, applied, boots, serving, history>>

Down(s) ==
  /\ phase' = [phase EXCEPT ![s] = "down"]
  /\ at' = [at EXCEPT ![s] = "begin"]
  /\ applied' = [applied EXCEPT ![s] = {}]
  /\ tx' = [tx EXCEPT ![s] = Nothing]
  /\ UNCHANGED boots

(* INSERT INTO _migrations.  A version another server has recorded in the   *)
(* meantime breaks the key: ROLLBACK, and the process ends.                 *)
Record(s) ==
  LET v == Current(s) IN
  /\ phase[s] = "migrate" /\ at[s] = "record"
  /\ \A t \in Servers : v \notin tx[t].recorded
  /\ IF v \in Visible.recorded
       THEN Down(s)
       ELSE /\ at' = [at EXCEPT ![s] = "commit"]
            /\ tx' = [tx EXCEPT ![s].recorded = {v}]
            /\ UNCHANGED <<phase, applied, boots>>
  /\ UNCHANGED <<disk, serving, history>>

Commit(s) ==
  /\ phase[s] = "migrate" /\ at[s] = "commit"
  /\ Write([built |-> Visible.built \cup tx[s].built,
            recorded |-> Visible.recorded \cup tx[s].recorded,
            limits |-> Visible.limits])
  /\ at' = [at EXCEPT ![s] = "begin"]
  /\ applied' = [applied EXCEPT ![s] = @ \cup {Current(s)}]
  /\ tx' = [tx EXCEPT ![s] = Nothing]
  /\ UNCHANGED <<phase, boots, serving, history>>

Tolerate(s) ==
  /\ phase[s] = "migrate" /\ at[s] = "tolerate"
  /\ Write([Visible EXCEPT !.recorded = @ \cup {Current(s)}])
  /\ at' = [at EXCEPT ![s] = "begin"]
  /\ applied' = [applied EXCEPT ![s] = @ \cup {Current(s)}]
  /\ UNCHANGED <<phase, tx, boots, serving, history>>

EndMigrations(s) ==
  /\ phase[s] = "migrate" /\ at[s] = "begin" /\ Pending(s) = {}
  /\ phase' = [phase EXCEPT ![s] = "settings"]
  /\ UNCHANGED <<disk, at, applied, tx, boots, serving, history>>

OrEnv(limits) == IF limits = Unset THEN Env ELSE limits

(* getSetting gives null for a row it cannot read as for none.              *)
LoadSettings(s) ==
  /\ phase[s] = "settings"
  /\ phase' = [phase EXCEPT ![s] = "up"]
  /\ \/ /\ config' = [config EXCEPT ![s] = OrEnv(Visible.limits)]
        /\ misread' = [misread EXCEPT ![s] = FALSE]
     \/ /\ UNCHANGED config
        /\ misread' = [misread EXCEPT ![s] = TRUE]
  /\ crossed' = [crossed EXCEPT ![s] = FALSE]
  /\ UNCHANGED <<disk, at, applied, tx, boots, put, written, writer, acked>>
-----------------------------------------------------------------------------
(* PUT /management/risk-limits.  setSetting looks for the row.              *)
PutLook(r, s, limits) ==
  /\ phase[s] = "up" /\ put[r].at = "new"
  /\ put' = [put EXCEPT ![r] = [at |-> "looked", server |-> s, value |-> limits,
                                exists |-> Visible.limits # Unset]]
  /\ UNCHANGED <<disk, booting, config, written, history>>

(* UPDATE, or INSERT, which fails when the row is there by now.             *)
PutWrite(r) ==
  LET s == put[r].server IN
  /\ put[r].at = "looked"
  /\ put[r].exists \/ Visible.limits = Unset
  /\ Write([Visible EXCEPT !.limits = put[r].value])
  /\ put' = [put EXCEPT ![r].at = "written"]
  /\ written' = [written EXCEPT ![s] = Append(@, r)]
  /\ writer' = r /\ acked' = Unset
  /\ crossed' = [t \in Servers |-> crossed[t] \/ (t # s /\ phase[t] = "up")]
  /\ UNCHANGED <<booting, config, misread>>

\* Fault: the handler goes on when the row could not be written.
PutGoesOn(r) ==
  LET s == put[r].server IN
  /\ put[r].at = "looked"
  /\ put' = [put EXCEPT ![r].at = "written"]
  /\ written' = [written EXCEPT ![s] = Append(@, r)]
  /\ UNCHANGED <<disk, booting, config, history>>

(* 500: nothing has changed.                                                *)
PutFails(r) ==
  /\ put[r].at = "looked"
  /\ put' = [put EXCEPT ![r].at = "done"]
  /\ UNCHANGED <<disk, booting, config, written, history>>

(* The connection answers in the order it was asked.                        *)
PutApply(s) ==
  LET r == Head(written[s]) IN
  /\ written[s] # <<>>
  /\ config' = [config EXCEPT ![s] = put[r].value]
  /\ written' = [written EXCEPT ![s] = Tail(@)]
  /\ put' = [put EXCEPT ![r].at = "done"]
  /\ acked' = IF writer = r THEN put[r].value ELSE acked
  /\ UNCHANGED <<disk, booting, writer, crossed, misread>>
-----------------------------------------------------------------------------
Hangup(s) ==
  /\ put' = [r \in Puts |-> IF put[r].server = s THEN [put[r] EXCEPT !.at = "done"] ELSE put[r]]
  /\ written' = [written EXCEPT ![s] = <<>>]

(* The process ends anywhere, a statement that threw in boot among the      *)
(* causes: Postgres rolls back, SQLite's memory is gone.                    *)
Crash(s) ==
  /\ phase[s] # "down"
  /\ Down(s)
  /\ Hangup(s)
  /\ memory' = stored
  /\ acked' = IF Visible.limits = stored.limits THEN acked ELSE Unset
  /\ UNCHANGED <<backend, redundant, stored, config, writer, crossed, misread>>

(* SIGINT and SIGTERM have a handler once the server listens.               *)
Stop(s) ==
  /\ phase[s] = "up"
  /\ Down(s)
  /\ Hangup(s)
  /\ stored' = Visible
  /\ UNCHANGED <<backend, redundant, memory, config, history>>
-----------------------------------------------------------------------------
BootNext ==
  \/ \E s \in Servers :
       \/ Boot(s) \/ ReadApplied(s)
       \/ Exec(s) \/ Record(s) \/ Commit(s) \/ Tolerate(s)
       \/ EndMigrations(s) \/ LoadSettings(s)
       \/ PutApply(s)
       \/ Crash(s) \/ Stop(s)
       \/ \E r \in Puts, limits \in Limits : PutLook(r, s, limits)
  \/ \E r \in Puts : PutWrite(r) \/ PutFails(r)

BootSpec == BootInit /\ [][BootNext]_bootVars
-----------------------------------------------------------------------------
(* However often and however close together servers boot, and wherever one  *)
(* of them ends: what is on disk has each migration whole, done and         *)
(* recorded, or not at all, none before those it builds on, and a server    *)
(* that is up has them all.                                                 *)
MigratedOnce ==
  /\ BootTypeOK
  /\ \A db \in {stored, Visible} :
       /\ db.built = db.recorded \ redundant
       /\ \A v \in db.recorded : 1..v \subseteq db.recorded
  /\ \A s \in Servers : phase[s] = "up" => Visible.recorded = Versions

(* Limits that were acknowledged are kept, through any restart SQLite was   *)
(* asked for and any at all of Postgres; and a server that has no PUT       *)
(* half done trades by the limits that are kept, unless another server of   *)
(* the database has taken a PUT since, or its own load failed.  PUTs may    *)
(* overlap.                                                                 *)
LimitsSurvive ==
  /\ acked # Unset => Visible.limits = acked
  /\ \A s \in Servers :
       phase[s] = "up" /\ written[s] = <<>> /\ ~crossed[s] /\ ~misread[s] =>
         config[s] = OrEnv(Visible.limits)
=============================================================================
