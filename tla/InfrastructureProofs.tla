------------------------ MODULE InfrastructureProofs ------------------------
(****************************************************************************)
(* Theorems about what every component stands on.                           *)
(*                                                                          *)
(* First BootSettings, for any number of servers, migrations, limits and    *)
(* requests, on either backend.  MigratedOnce speaks of what is on disk; it *)
(* is inductive together with what a server in the middle of its migrations *)
(* knows: appliedVersions is a stale reading of a table that only grows.    *)
(* LimitsSurvive speaks of servers without a PUT half done; it is inductive *)
(* together with the queue of those that have one.                          *)
(*                                                                          *)
(* Then MarketCaches, for any number of callers and symbols, any time to    *)
(* live, quota and length of a day.                                         *)
(****************************************************************************)
EXTENDS BootSettings, MarketCaches, WellFoundedInduction, FiniteSetTheorems, TLAPS

(* The database the servers work on: Visible, without looking at who is up. *)
Db == IF backend = "sqlite" THEN memory ELSE stored

PutRequests ==
  [at : {"new", "looked", "written", "done"}, server : Servers \cup {Unset},
   value : Limits \cup {Unset}, exists : BOOLEAN]

BootTyped ==
  /\ BootTypeOK
  /\ put \in [Puts -> PutRequests]
  /\ written \in [Servers -> Seq(Puts)]
  /\ crossed \in [Servers -> BOOLEAN]
  /\ misread \in [Servers -> BOOLEAN]

(* A file has one server, and what its memory held is in the file when it   *)
(* is gone, or lost; nobody else records a migration.                       *)
OneServer ==
  backend = "sqlite" =>
    /\ \A s, t \in Servers : phase[s] # "down" /\ phase[t] # "down" => s = t
    /\ (\A s \in Servers : phase[s] = "down") => memory = stored
    /\ \A s \in Servers : phase[s] = "migrate" => applied[s] = memory.recorded

Whole(db) ==
  /\ db.built = db.recorded \ redundant
  /\ \A v \in db.recorded : 1..v \subseteq db.recorded

(* What a server knows in the middle of its migrations: the versions it     *)
(* takes for applied are, with all below them, and what its transaction     *)
(* and the database have built make up the version it is at.                *)
Migrating(s) ==
  /\ phase[s] # "migrate" => at[s] = "begin"
  /\ at[s] \in {"begin", "tolerate"} => tx[s] = Nothing
  /\ phase[s] = "migrate" =>
       /\ applied[s] \subseteq Db.recorded
       /\ \A v \in applied[s] : 1..v \subseteq applied[s]
  /\ at[s] # "begin" => Pending(s) # {}
  /\ at[s] \in {"record", "commit"} =>
       /\ tx[s].built \subseteq {Current(s)} \ redundant
       /\ {Current(s)} \ redundant \subseteq Db.built \cup tx[s].built
  /\ at[s] = "record" => tx[s].recorded = {}
  /\ at[s] = "commit" => tx[s].recorded = {Current(s)}
  /\ at[s] = "tolerate" => Current(s) \in redundant
  /\ phase[s] \in {"settings", "up"} => Db.recorded = Versions

MigrationInv ==
  /\ BootTyped
  /\ OneServer
  /\ Whole(stored) /\ Whole(Db)
  /\ \A s \in Servers : Migrating(s)

(* A request under way is at a server that is up; those whose row is        *)
(* written wait there in the order of their writes, each once.              *)
Waiting ==
  /\ \A r \in Puts : put[r].at \in {"looked", "written"} =>
       /\ put[r].server \in Servers
       /\ phase[put[r].server] = "up"
       /\ put[r].value \in Limits
  /\ \A s \in Servers :
       /\ phase[s] # "up" => written[s] = <<>>
       /\ \A i \in 1..Len(written[s]) :
            /\ put[written[s][i]].at = "written"
            /\ put[written[s][i]].server = s
       /\ \A i, j \in 1..Len(written[s]) : written[s][i] = written[s][j] => i = j

(* The limits of a server that nothing came between are those of the        *)
(* database, or will be when it has applied what waits.                     *)
InStep(s) ==
  IF written[s] = <<>>
    THEN config[s] = OrEnv(Db.limits)
    ELSE Db.limits = put[written[s][Len(written[s])]].value

Kept ==
  /\ acked # Unset => Db.limits = acked
  /\ writer \in Puts /\ put[writer].at = "written" => Db.limits = put[writer].value
  /\ \A s \in Servers : phase[s] = "up" /\ ~crossed[s] /\ ~misread[s] => InStep(s)

LimitsInv == MigrationInv /\ Waiting /\ Kept
-----------------------------------------------------------------------------
(* Min of a set of natural numbers, which are well-founded, is its least    *)
(* member.                                                                  *)
LEMMA LeastMember ==
  ASSUME NEW S, S \subseteq Nat, S # {}
  PROVE  Min(S) \in S /\ \A y \in S : Min(S) <= y
<1> DEFINE R == OpToRel(<, Nat)
<1>1. IsWellFoundedOn(R, Nat)
  BY NatLessThanWellFounded
<1>2. \A i, j \in Nat : i < j => <<i, j>> \in R
  BY DEF OpToRel
<1> HIDE DEF R
<1>3. \E x \in S : \A y \in S : <<y, x>> \notin R
  BY <1>1, WFMin
<1>4. PICK x \in S : \A y \in S : <<y, x>> \notin R
  BY <1>3
<1>5. \A y \in S : x <= y
  <2> SUFFICES ASSUME NEW y \in S PROVE x <= y
    OBVIOUS
  <2>1. x \in Nat /\ y \in Nat /\ ~(y < x)
    BY <1>2, <1>4
  <2> QED
    BY <2>1
<1> QED
  BY <1>5 DEF Min

(* The versions are numbered from 1 without a gap.                          *)
LEMMA VersionNumbers == Versions \subseteq Nat \ {0} /\ \A v \in Versions : 1..v \subseteq Versions
<1>1. Cardinality(Versions) \in Nat
  BY BootSettingsAssumption, FS_CardinalityType
<1>2. Versions = 1..Cardinality(Versions)
  BY BootSettingsAssumption
<1> QED
  BY <1>1, <1>2

(* The migration a server is at has not been applied yet, and all below it  *)
(* have.                                                                    *)
LEMMA NextVersion ==
  ASSUME NEW s \in Servers, applied[s] \subseteq Versions, Pending(s) # {}
  PROVE  /\ Current(s) \in Versions \ applied[s]
         /\ 1..Current(s) \subseteq applied[s] \cup {Current(s)}
<1>1. Pending(s) \subseteq Nat
  BY VersionNumbers DEF Pending
<1>2. Current(s) \in Pending(s) /\ \A y \in Pending(s) : Current(s) <= y
  BY <1>1, LeastMember DEF Current
<1> HIDE DEF Current
<1>3. ASSUME NEW w \in 1..Current(s), w # Current(s)
      PROVE  w \in applied[s]
  <2>1. Current(s) \in Versions /\ w \in Versions /\ Current(s) \in Nat /\ w \in Nat
    BY <1>2, VersionNumbers DEF Pending
  <2>2. CASE w \in Pending(s)
    <3>1. Current(s) <= w
      BY <1>2, <2>2
    <3> QED
      BY <1>3, <2>1, <3>1
  <2> QED
    BY <2>1, <2>2 DEF Pending
<1> QED
  BY <1>2, <1>3 DEF Pending

(* What a statement sees does not depend on who is up.                      *)
LEMMA VisibleIsDb ==
  ASSUME OneServer
  PROVE  Visible = Db
BY DEF OneServer, Visible, Db

(* What the other servers know of their migrations stays true as the        *)
(* database gains versions.                                                 *)
LEMMA OthersMigrating ==
  ASSUME BootTyped, NEW t \in Servers, Migrating(t),
         UNCHANGED <<phase[t], at[t], tx[t], applied[t], redundant>>,
         phase[t] # "down" => /\ Db.recorded \subseteq Db'.recorded
                              /\ Db.built \subseteq Db'.built
                              /\ Db'.recorded \subseteq Versions
  PROVE  Migrating(t)'
<1>1. Pending(t)' = Pending(t)
  BY DEF Pending
<1>2. Current(t)' = Current(t)
  BY <1>1 DEF Current
<1> HIDE DEF Current, Pending
<1> QED
  BY <1>1, <1>2 DEF BootTyped, BootTypeOK, Migrating, Nothing
-----------------------------------------------------------------------------
(* A write reaches the database, and the file only by way of it.            *)
LEMMA WriteDb ==
  ASSUME BootTyped, NEW c \in Contents, Write(c)
  PROVE  /\ Db' = c /\ UNCHANGED <<backend, redundant>>
         /\ stored' \in Contents /\ memory' \in Contents
         /\ stored' \in {stored, c}
         /\ backend = "sqlite" => stored' = stored
BY DEF Write, Db, BootTyped, BootTypeOK

(* The database holds versions and limits.                                  *)
LEMMA DbTyped ==
  ASSUME BootTyped
  PROVE  /\ Db \in Contents
         /\ Db.built \subseteq Versions /\ Db.recorded \subseteq Versions
         /\ Db.limits \in Limits \cup {Unset}
<1>1. Db \in Contents
  BY DEF BootTyped, BootTypeOK, Db
<1> QED
  BY <1>1 DEF Contents

(* Contents with one field changed, spelt out.                              *)
LEMMA ChangedContents ==
  ASSUME NEW d \in Contents, NEW x
  PROVE  /\ [d EXCEPT !.recorded = x] = [built |-> d.built, recorded |-> x, limits |-> d.limits]
         /\ [d EXCEPT !.limits = x] = [built |-> d.built, recorded |-> d.recorded, limits |-> x]
<1>1. PICK b, r, l : d = [built |-> b, recorded |-> r, limits |-> l]
  <2>1. d = [built |-> d.built, recorded |-> d.recorded, limits |-> d.limits]
    BY DEF Contents
  <2> QED
    BY <2>1
<1>2. [d EXCEPT !.recorded = x] = [built |-> d.built, recorded |-> x, limits |-> d.limits]
  BY <1>1
<1>3. [d EXCEPT !.limits = x] = [built |-> d.built, recorded |-> d.recorded, limits |-> x]
  BY <1>1
<1> QED
  BY <1>2, <1>3

(* Requests that are cut off are done.                                      *)
LEMMA HangupTyped ==
  ASSUME NEW s \in Servers, BootTyped, Hangup(s)
  PROVE  /\ put' \in [Puts -> PutRequests]
         /\ written' \in [Servers -> Seq(Puts)]
         /\ \A t \in Servers : \A i \in DOMAIN written'[t] : written'[t][i] \in Puts
<1>1. ASSUME NEW r \in Puts
      PROVE  [put[r] EXCEPT !.at = "done"] \in PutRequests
  BY DEF BootTyped, PutRequests
<1>2. put' \in [Puts -> PutRequests]
  BY <1>1 DEF Hangup, BootTyped
<1>3. written' \in [Servers -> Seq(Puts)]
  BY DEF Hangup, BootTyped
<1> QED
  BY <1>2, <1>3

(* A server comes up: a file is read when nobody else is up.                *)
LEMMA BootMigration ==
  ASSUME NEW s \in Servers, MigrationInv, Boot(s)
  PROVE  MigrationInv'
<1> USE DEF MigrationInv, Boot, serving, history
<1>1. BootTyped'
  BY DEF BootTyped, BootTypeOK, PutRequests
<1>2. OneServer'
  BY DEF BootTyped, BootTypeOK, OneServer
<1>3. Db' = Db
  BY DEF OneServer, Db
<1>4. Whole(stored)' /\ Whole(Db)'
  BY <1>3 DEF Whole
<1>5. ASSUME NEW t \in Servers PROVE Migrating(t)'
  <2>1. CASE t = s
    BY <2>1 DEF BootTyped, BootTypeOK, Migrating
  <2>2. CASE t # s
    BY <1>3, <2>2, OthersMigrating, DbTyped DEF BootTyped, BootTypeOK
  <2> QED
    BY <2>1, <2>2
<1> QED
  BY <1>1, <1>2, <1>4, <1>5

(* appliedVersions starts as what is recorded, which is closed below.       *)
LEMMA ReadAppliedMigration ==
  ASSUME NEW s \in Servers, MigrationInv, ReadApplied(s)
  PROVE  MigrationInv'
<1> USE DEF MigrationInv, ReadApplied, disk, serving, history
<1>1. BootTyped'
  BY VisibleIsDb, DbTyped DEF BootTyped, BootTypeOK, PutRequests
<1>2. OneServer'
  BY VisibleIsDb DEF BootTyped, BootTypeOK, OneServer, Db
<1>3. Db' = Db
  BY DEF Db
<1>4. Whole(stored)' /\ Whole(Db)'
  BY <1>3 DEF Whole
<1>5. ASSUME NEW t \in Servers PROVE Migrating(t)'
  <2>1. CASE t = s
    BY <1>3, <2>1, VisibleIsDb DEF BootTyped, BootTypeOK, Migrating, Whole
  <2>2. CASE t # s
    BY <1>3, <2>2, OthersMigrating, DbTyped DEF BootTyped, BootTypeOK
  <2> QED
    BY <2>1, <2>2
<1> QED
  BY <1>1, <1>2, <1>4, <1>5

(* BEGIN and the SQL: what the transaction adds, with what is there, makes  *)
(* up the version.                                                          *)
LEMMA ExecMigration ==
  ASSUME NEW s \in Servers, MigrationInv, Exec(s)
  PROVE  MigrationInv'
<1> DEFINE v == Current(s)
           b == {v} \ (Db.built \cup redundant)
<1>1. /\ phase[s] = "migrate" /\ at[s] = "begin" /\ Pending(s) # {}
      /\ UNCHANGED <<disk, phase, applied, boots, serving, history>>
      /\ applied[s] \subseteq Versions
  BY DbTyped DEF Exec, Migrating, MigrationInv
<1>2. v \in Versions /\ b \in SUBSET Versions
  BY <1>1, NextVersion
<1>3. tx[s] = Nothing
  BY <1>1 DEF Migrating, MigrationInv
<1>4. \/ backend = "sqlite" /\ v \in redundant /\ at' = [at EXCEPT ![s] = "tolerate"] /\ tx' = tx
      \/ at' = [at EXCEPT ![s] = "record"] /\ tx' = [tx EXCEPT ![s].built = b]
  BY VisibleIsDb DEF Exec, MigrationInv
<1>5. v' = v /\ Pending(s)' = Pending(s)
  BY <1>1 DEF Current, Pending
<1>6. b \subseteq {v} \ redundant /\ {v} \ redundant \subseteq Db.built \cup b
  OBVIOUS
<1> HIDE DEF v, b
<1>7. \/ /\ v \in redundant
         /\ at' = [at EXCEPT ![s] = "tolerate"]
         /\ tx' = [tx EXCEPT ![s] = Nothing]
      \/ /\ at' = [at EXCEPT ![s] = "record"]
         /\ tx' = [tx EXCEPT ![s] = [built |-> b, recorded |-> {}]]
  <2>1. [tx[s] EXCEPT !.built = b] = [built |-> b, recorded |-> {}]
    BY <1>3 DEF Nothing
  <2>2. tx = [tx EXCEPT ![s] = Nothing]
    BY <1>3 DEF MigrationInv, BootTyped, BootTypeOK
  <2> QED
    BY <1>4, <2>1, <2>2
<1>8. tx' \in [Servers -> [built : SUBSET Versions, recorded : SUBSET Versions]]
  <2> DEFINE T == [built : SUBSET Versions, recorded : SUBSET Versions]
  <2>1. Nothing \in T /\ [built |-> b, recorded |-> {}] \in T
    BY <1>2 DEF Nothing
  <2>2. tx \in [Servers -> T]
    BY DEF MigrationInv, BootTyped, BootTypeOK
  <2> HIDE DEF T
  <2>3. tx' \in [Servers -> T]
    BY <1>7, <2>1, <2>2
  <2> QED
    BY <2>3 DEF T
<1>9. BootTyped'
  BY <1>1, <1>7, <1>8 DEF BootTyped, BootTypeOK, MigrationInv, disk, serving, history
<1>10. Db' = Db
  BY <1>1 DEF Db, disk
<1>11. OneServer' /\ Whole(stored)' /\ Whole(Db)'
  BY <1>1, <1>10 DEF OneServer, Whole, MigrationInv, disk
<1>12. ASSUME NEW t \in Servers PROVE Migrating(t)'
  <2>1. CASE t = s
    <3>1. /\ phase'[s] = "migrate" /\ Pending(s)' # {} /\ Current(s)' = v /\ redundant' = redundant
          /\ applied'[s] \subseteq Db'.recorded /\ \A w \in applied'[s] : 1..w \subseteq applied'[s]
      BY <1>1, <1>5, <1>10 DEF Migrating, MigrationInv, v, disk
    <3>2. \/ at'[s] = "tolerate" /\ tx'[s] = Nothing /\ v \in redundant
          \/ at'[s] = "record" /\ tx'[s] = [built |-> b, recorded |-> {}]
      BY <1>7 DEF MigrationInv, BootTyped, BootTypeOK
    <3> HIDE DEF Current, Pending
    <3> QED
      BY <1>6, <1>10, <2>1, <3>1, <3>2 DEF Migrating
  <2>2. CASE t # s
    BY <1>1, <1>7, <1>10, <2>2, OthersMigrating, DbTyped DEF MigrationInv, BootTyped,
       BootTypeOK, disk
  <2> QED
    BY <2>1, <2>2
<1> QED
  BY <1>9, <1>11, <1>12 DEF MigrationInv

(* A server goes down: its transaction is gone, and of a file there is only *)
(* what was exported.                                                       *)
LEMMA DownMigration ==
  ASSUME NEW s \in Servers, MigrationInv, Down(s), phase[s] # "down",
         UNCHANGED <<backend, redundant>>, BootTyped',
         backend = "postgres" => UNCHANGED stored,
         Whole(stored)',
         backend = "sqlite" => memory' = stored'
  PROVE  MigrationInv'
<1> USE DEF MigrationInv
<1>1. OneServer'
  BY DEF Down, BootTyped, BootTypeOK, OneServer
<1>2. Whole(Db)'
  BY DEF Db, BootTyped, BootTypeOK
<1>3. ASSUME NEW t \in Servers PROVE Migrating(t)'
  <2>1. CASE t = s
    BY <2>1 DEF Down, BootTyped, BootTypeOK, Migrating
  <2>2. CASE t # s
    <3>1. phase[t] # "down" => backend = "postgres"
      BY <2>2 DEF OneServer, BootTyped, BootTypeOK
    <3>2. phase[t] # "down" => Db' = Db
      BY <3>1 DEF Db
    <3> QED
      BY ZenonT(60), <2>2, <3>2, OthersMigrating, DbTyped DEF Down, BootTyped, BootTypeOK
  <2> QED
    BY <2>1, <2>2
<1> QED
  BY <1>1, <1>2, <1>3
(* The INSERT: a version another server has recorded ends this one; in a    *)
(* file there is no other.                                                  *)
LEMMA RecordMigration ==
  ASSUME NEW s \in Servers, MigrationInv, Record(s)
  PROVE  MigrationInv'
<1> DEFINE v == Current(s)
<1>1. /\ phase[s] = "migrate" /\ at[s] = "record" /\ Pending(s) # {}
      /\ UNCHANGED <<disk, serving, history>>
      /\ applied[s] \subseteq Versions
  BY DbTyped DEF Record, Migrating, MigrationInv
<1>2. v \in Versions \ applied[s]
  BY <1>1, NextVersion
<1>3. CASE v \in Visible.recorded
  <2>1. Down(s)
    BY <1>3 DEF Record
  <2>2. backend = "postgres"
    BY <1>1, <1>2, <1>3, VisibleIsDb DEF MigrationInv, OneServer, Db, BootTyped, BootTypeOK
  <2>3. BootTyped'
    BY <1>1, <2>1 DEF Down, Nothing, MigrationInv, BootTyped, BootTypeOK, disk, serving,
       history
  <2>4. Whole(stored)'
    BY <1>1 DEF Whole, MigrationInv, disk
  <2> QED
    BY <1>1, <2>1, <2>2, <2>3, <2>4, DownMigration DEF disk
<1>4. CASE v \notin Visible.recorded
  <2>1. /\ at' = [at EXCEPT ![s] = "commit"]
        /\ tx' = [tx EXCEPT ![s].recorded = {v}]
        /\ UNCHANGED <<phase, applied, boots>>
    BY <1>4 DEF Record
  <2>2. v' = v /\ Pending(s)' = Pending(s)
    BY <2>1 DEF Current, Pending
  <2> HIDE DEF v
  <2>3. {v} \in SUBSET Versions
    BY <1>2
  <2>4. tx' \in [Servers -> [built : SUBSET Versions, recorded : SUBSET Versions]]
    BY ZenonT(60), <2>1, <2>3 DEF MigrationInv, BootTyped, BootTypeOK
  <2>5. BootTyped'
    BY <1>1, <2>1, <2>4 DEF BootTyped, BootTypeOK, MigrationInv, disk, serving, history
  <2>6. Db' = Db
    BY <1>1 DEF Db, disk
  <2>7. OneServer' /\ Whole(stored)' /\ Whole(Db)'
    BY <1>1, <2>1, <2>6 DEF OneServer, Whole, MigrationInv, disk
  <2>8. ASSUME NEW t \in Servers PROVE Migrating(t)'
    <3>1. CASE t = s
      <4>1. tx'[s].built = tx[s].built /\ tx'[s].recorded = {v} /\ at'[s] = "commit"
        BY <2>1 DEF MigrationInv, BootTyped, BootTypeOK
      <4>2. Current(s)' = v /\ Current(s) = v
        BY <2>2 DEF v
      <4> HIDE DEF Current, Pending
      <4> QED
        BY <1>1, <2>1, <2>2, <2>6, <3>1, <4>1, <4>2 DEF Migrating, MigrationInv, disk
    <3>2. CASE t # s
      BY <1>1, <2>1, <2>6, <3>2, OthersMigrating, DbTyped DEF MigrationInv, BootTyped,
         BootTypeOK, disk
    <3> QED
      BY <3>1, <3>2
  <2> QED
    BY <2>5, <2>7, <2>8 DEF MigrationInv
<1> QED
  BY <1>3, <1>4

(* What Commit and Tolerate have in common: one more version is recorded,   *)
(* and with it whatever of it was not built yet.                            *)
LEMMA RecordedMigration ==
  ASSUME NEW s \in Servers, MigrationInv, NEW b \in SUBSET Versions,
         phase[s] = "migrate", at[s] # "begin",
         b \subseteq {Current(s)} \ redundant,
         {Current(s)} \ redundant \subseteq Db.built \cup b,
         Write([built |-> Db.built \cup b, recorded |-> Db.recorded \cup {Current(s)},
                limits |-> Db.limits]),
         at' = [at EXCEPT ![s] = "begin"],
         applied' = [applied EXCEPT ![s] = @ \cup {Current(s)}],
         tx' = [tx EXCEPT ![s] = Nothing],
         UNCHANGED <<phase, boots, serving, history>>
  PROVE  MigrationInv'
<1> DEFINE v == Current(s)
           c == [built |-> Db.built \cup b, recorded |-> Db.recorded \cup {v},
                 limits |-> Db.limits]
<1>1. /\ Pending(s) # {} /\ applied[s] \subseteq Versions /\ applied[s] \subseteq Db.recorded
      /\ \A w \in applied[s] : 1..w \subseteq applied[s]
  BY DbTyped DEF Migrating, MigrationInv
<1>2. v \in Versions \ applied[s] /\ 1..v \subseteq applied[s] \cup {v}
  BY <1>1, NextVersion
<1> HIDE DEF v
<1>3. c \in Contents
  BY <1>2, DbTyped DEF MigrationInv, Contents
<1>4. /\ Db' = c /\ UNCHANGED <<backend, redundant>>
      /\ stored' \in Contents /\ memory' \in Contents
      /\ stored' \in {stored, c}
      /\ backend = "sqlite" => stored' = stored
  <2>1. Write(c)
    BY DEF v
  <2> HIDE DEF c
  <2> QED
    BY <1>3, <2>1, WriteDb DEF MigrationInv
<1>5. Whole(c)
  BY <1>1, <1>2 DEF Whole, MigrationInv, v
<1>6. Whole(stored)' /\ Whole(Db)'
  BY <1>4, <1>5 DEF Whole, MigrationInv
<1>7. c.recorded = Db.recorded \cup {v} /\ Db.built \subseteq c.built
  OBVIOUS
<1> HIDE DEF c
<1>8. applied' \in [Servers -> SUBSET Versions]
  BY <1>2 DEF v, MigrationInv, BootTyped, BootTypeOK
<1>9. BootTyped'
  BY <1>4, <1>8 DEF BootTyped, BootTypeOK, Nothing, MigrationInv, serving, history
<1>10. OneServer'
  BY <1>4, <1>7 DEF OneServer, MigrationInv, BootTyped, BootTypeOK, Db, v
<1>11. ASSUME NEW t \in Servers PROVE Migrating(t)'
  <2>1. CASE t = s
    <3>1. at'[s] = "begin" /\ tx'[s] = Nothing /\ applied'[s] = applied[s] \cup {v} /\ phase'[s] = "migrate"
      BY DEF MigrationInv, BootTyped, BootTypeOK, v
    <3>2. applied'[s] \subseteq Db'.recorded /\ \A w \in applied'[s] : 1..w \subseteq applied'[s]
      BY <1>1, <1>2, <1>4, <1>7, <3>1
    <3> QED
      BY <2>1, <3>1, <3>2 DEF Migrating
  <2>2. CASE t # s
    <3>1. Db'.recorded \subseteq Versions
      BY <1>3, <1>4 DEF Contents
    <3> QED
      BY <1>4, <1>7, <2>2, <3>1, OthersMigrating DEF MigrationInv, BootTyped, BootTypeOK
  <2> QED
    BY <2>1, <2>2
<1> QED
  BY <1>6, <1>9, <1>10, <1>11 DEF MigrationInv
(* COMMIT records the version with what of it was not built yet.            *)
LEMMA CommitMigration ==
  ASSUME NEW s \in Servers, MigrationInv, Commit(s)
  PROVE  MigrationInv'
<1> DEFINE v == Current(s)
           b == tx[s].built
<1>1. /\ phase[s] = "migrate" /\ at[s] = "commit" /\ at[s] # "begin"
      /\ at' = [at EXCEPT ![s] = "begin"]
      /\ applied' = [applied EXCEPT ![s] = @ \cup {v}]
      /\ tx' = [tx EXCEPT ![s] = Nothing]
      /\ UNCHANGED <<phase, boots, serving, history>>
      /\ Write([built |-> Db.built \cup b, recorded |-> Db.recorded \cup tx[s].recorded,
                limits |-> Db.limits])
  BY VisibleIsDb DEF Commit, MigrationInv
<1>2. /\ b \subseteq {v} \ redundant /\ {v} \ redundant \subseteq Db.built \cup b
      /\ tx[s].recorded = {v}
  BY <1>1 DEF Migrating, MigrationInv
<1>3. b \in SUBSET Versions
  BY DEF MigrationInv, BootTyped, BootTypeOK
<1>4. Write([built |-> Db.built \cup b, recorded |-> Db.recorded \cup {v}, limits |-> Db.limits])
  BY <1>1, <1>2
<1> QED
  BY <1>1, <1>2, <1>3, <1>4, RecordedMigration

(* The duplicate column is tolerated: a redundant version is recorded and   *)
(* builds nothing.                                                          *)
LEMMA TolerateMigration ==
  ASSUME NEW s \in Servers, MigrationInv, Tolerate(s)
  PROVE  MigrationInv'
<1> DEFINE v == Current(s)
<1>1. /\ phase[s] = "migrate" /\ at[s] = "tolerate"
      /\ at' = [at EXCEPT ![s] = "begin"]
      /\ applied' = [applied EXCEPT ![s] = @ \cup {v}]
      /\ UNCHANGED <<tx, phase, boots, serving, history>>
      /\ Write([Db EXCEPT !.recorded = @ \cup {v}])
  BY VisibleIsDb DEF Tolerate, MigrationInv
<1>2. v \in redundant /\ tx[s] = Nothing
  BY <1>1 DEF Migrating, MigrationInv
<1>3. tx' = [tx EXCEPT ![s] = Nothing]
  BY <1>1, <1>2 DEF MigrationInv, BootTyped, BootTypeOK
<1>4. [Db EXCEPT !.recorded = @ \cup {v}]
        = [built |-> Db.built \cup {}, recorded |-> Db.recorded \cup {v}, limits |-> Db.limits]
  <2> DEFINE y == Db.recorded \cup {v}
  <2>1. Db \in Contents /\ Db.built \cup {} = Db.built
    BY DbTyped DEF MigrationInv
  <2> HIDE DEF y
  <2>2. [Db EXCEPT !.recorded = y] = [built |-> Db.built, recorded |-> y, limits |-> Db.limits]
    BY <2>1, ChangedContents
  <2> QED
    BY <2>1, <2>2 DEF y
<1>5. Write([built |-> Db.built \cup {}, recorded |-> Db.recorded \cup {v}, limits |-> Db.limits])
  BY <1>1, <1>4
<1>6. {} \subseteq {v} \ redundant /\ {v} \ redundant \subseteq Db.built \cup {}
  BY <1>2
<1>7. at[s] # "begin" /\ {} \in SUBSET Versions
  BY <1>1
<1> QED
  BY <1>1, <1>3, <1>5, <1>6, <1>7, RecordedMigration

(* Nothing is pending: all versions are recorded.                           *)
LEMMA EndMigrationsMigration ==
  ASSUME NEW s \in Servers, MigrationInv, EndMigrations(s)
  PROVE  MigrationInv'
<1> USE DEF MigrationInv, EndMigrations, disk, serving, history
<1>1. BootTyped'
  BY DEF BootTyped, BootTypeOK
<1>2. OneServer'
  BY DEF OneServer, BootTyped, BootTypeOK
<1>3. Db' = Db
  BY DEF Db
<1>4. Whole(stored)' /\ Whole(Db)'
  BY <1>3 DEF Whole
<1>5. ASSUME NEW t \in Servers PROVE Migrating(t)'
  <2>1. CASE t = s
    <3>1. Versions \subseteq Db.recorded
      BY DEF Pending, Migrating
    <3>2. Db.recorded = Versions
      BY <3>1, DbTyped
    <3> QED
      BY <1>3, <2>1, <3>2 DEF Migrating, BootTyped, BootTypeOK
  <2>2. CASE t # s
    BY <1>3, <2>2, OthersMigrating, DbTyped DEF BootTyped, BootTypeOK
  <2> QED
    BY <2>1, <2>2
<1> QED
  BY <1>1, <1>2, <1>4, <1>5

(* Loading the limits leaves the migrations alone.                          *)
LEMMA LoadSettingsMigration ==
  ASSUME NEW s \in Servers, MigrationInv, LoadSettings(s)
  PROVE  MigrationInv'
<1> USE DEF MigrationInv, LoadSettings, disk
<1>1. BootTyped'
  BY VisibleIsDb, DbTyped DEF BootTyped, BootTypeOK, OrEnv
<1>2. OneServer'
  BY DEF OneServer, BootTyped, BootTypeOK
<1>3. Db' = Db
  BY DEF Db
<1>4. Whole(stored)' /\ Whole(Db)'
  BY <1>3 DEF Whole
<1>5. ASSUME NEW t \in Servers PROVE Migrating(t)'
  <2>1. CASE t = s
    BY <1>3, <2>1 DEF Migrating, BootTyped, BootTypeOK
  <2>2. CASE t # s
    BY <1>3, <2>2, OthersMigrating, DbTyped DEF BootTyped, BootTypeOK
  <2> QED
    BY <2>1, <2>2
<1> QED
  BY <1>1, <1>2, <1>4, <1>5

(* A request leaves the migrations alone.                                   *)
LEMMA RequestMigration ==
  ASSUME MigrationInv, BootTyped', OneServer',
         UNCHANGED <<backend, redundant, phase, at, tx, applied>>,
         stored'.built = stored.built, stored'.recorded = stored.recorded,
         memory'.built = memory.built, memory'.recorded = memory.recorded
  PROVE  MigrationInv'
<1>1. Db'.built = Db.built /\ Db'.recorded = Db.recorded
  BY DEF Db
<1>2. Whole(stored)' /\ Whole(Db)'
  BY <1>1 DEF Whole, MigrationInv
<1>3. ASSUME NEW t \in Servers PROVE Migrating(t)'
  BY <1>1, OthersMigrating, DbTyped DEF MigrationInv, BootTyped, BootTypeOK
<1> QED
  BY <1>2, <1>3 DEF MigrationInv

(* A crash, on either backend.                                              *)
LEMMA CrashMigration ==
  ASSUME NEW s \in Servers, MigrationInv, Crash(s)
  PROVE  MigrationInv'
<1> USE DEF MigrationInv, Crash, Hangup
<1>1. BootTyped'
  BY HangupTyped DEF BootTyped, BootTypeOK, Down, Nothing
<1>2. Whole(stored)'
  BY DEF Whole
<1> QED
  BY <1>1, <1>2, DownMigration

(* An orderly stop exports the memory.                                      *)
LEMMA StopMigration ==
  ASSUME NEW s \in Servers, MigrationInv, Stop(s)
  PROVE  MigrationInv'
<1> USE DEF MigrationInv, Stop, Hangup, history
<1>1. stored' = Db
  BY VisibleIsDb
<1>2. BootTyped'
  BY <1>1, DbTyped, HangupTyped DEF BootTyped, BootTypeOK, Down, Nothing
<1>3. Whole(stored)'
  BY <1>1 DEF Whole
<1>4. (backend = "postgres" => UNCHANGED stored) /\ (backend = "sqlite" => memory' = stored')
  BY <1>1 DEF Db
<1> QED
  BY <1>2, <1>3, <1>4, DownMigration
-----------------------------------------------------------------------------
(* A server that is up, and that nothing came between, is in step with the  *)
(* database.                                                                *)
LEMMA UpInStep ==
  ASSUME NEW s \in Servers, LimitsInv, phase[s] = "up", ~crossed[s], ~misread[s]
  PROVE  InStep(s)
BY DEF LimitsInv, Kept

(* No boot and no migration touches the limits, or a server that is up.     *)
LEMMA BootLimits ==
  ASSUME LimitsInv, UNCHANGED <<put, written, history>>, Db'.limits = Db.limits,
         \A t \in Servers : /\ phase'[t] = "up" <=> phase[t] = "up"
                            /\ phase[t] = "up" => config'[t] = config[t]
  PROVE  Waiting' /\ Kept'
<1> USE DEF history
<1>1. Waiting'
  BY DEF LimitsInv, Waiting
<1>2. ASSUME NEW s \in Servers, phase'[s] = "up", ~crossed'[s], ~misread'[s]
      PROVE  InStep(s)'
  <2>1. InStep(s)
    BY <1>2, UpInStep
  <2> QED
    BY <1>2, <2>1 DEF InStep, OrEnv
<1>3. Kept'
  BY <1>2 DEF LimitsInv, Kept
<1> QED
  BY <1>1, <1>3

(* A server that loads its limits is in step with the database, unless the  *)
(* load failed.                                                             *)
LEMMA LoadSettingsLimits ==
  ASSUME NEW s \in Servers, LimitsInv, LoadSettings(s)
  PROVE  LimitsInv'
<1>1. MigrationInv'
  BY LoadSettingsMigration DEF LimitsInv
<1> USE DEF LimitsInv, MigrationInv, LoadSettings, disk
<1>2. Db' = Db
  BY DEF Db
<1>3. Waiting'
  BY DEF Waiting, BootTyped, BootTypeOK
<1>4. ASSUME NEW t \in Servers, phase'[t] = "up", ~crossed'[t], ~misread'[t]
      PROVE  InStep(t)'
  <2>1. CASE t = s
    BY <1>2, <1>4, <2>1, VisibleIsDb DEF BootTyped, BootTypeOK, InStep, Waiting, OrEnv
  <2>2. CASE t # s
    <3>1. InStep(t)
      BY <1>4, <2>2, UpInStep DEF BootTyped, BootTypeOK
    <3> QED
      BY <1>2, <2>2, <3>1 DEF BootTyped, BootTypeOK, InStep, OrEnv
  <2> QED
    BY <2>1, <2>2
<1>5. Kept'
  BY <1>2, <1>4 DEF Kept
<1> QED
  BY <1>1, <1>3, <1>5

(* A request that nothing is written for yet, before the step and after.    *)
LEMMA UnwrittenRequest ==
  ASSUME NEW r \in Puts, LimitsInv, put[r].at # "written", put' \in [Puts -> PutRequests],
         \A p \in Puts : p # r => put'[p] = put[p],
         put'[r].at # "written",
         put'[r].at = "looked" =>
           put'[r].server \in Servers /\ phase[put'[r].server] = "up" /\ put'[r].value \in Limits,
         UNCHANGED <<disk, booting, config, written, history>>
  PROVE  LimitsInv'
<1> USE DEF LimitsInv, MigrationInv, disk, booting, history
<1>1. BootTyped' /\ OneServer' /\ Db' = Db
  BY DEF BootTyped, BootTypeOK, OneServer, Db
<1>2. MigrationInv'
  BY <1>1, RequestMigration
<1>3. \A s \in Servers : \A i \in 1..Len(written[s]) :
        written[s][i] \in Puts /\ written[s][i] # r
  BY DEF Waiting, BootTyped
<1>4. Waiting'
  BY <1>3 DEF Waiting
<1>5. ASSUME NEW s \in Servers, phase'[s] = "up", ~crossed'[s], ~misread'[s]
      PROVE  InStep(s)'
  <2>1. InStep(s) /\ written'[s] = written[s] /\ config'[s] = config[s]
    BY <1>5, UpInStep
  <2>2. CASE written[s] = <<>>
    BY <1>1, <2>1, <2>2 DEF InStep, OrEnv
  <2>3. CASE written[s] # <<>>
    <3>1. Len(written[s]) \in 1..Len(written[s])
      BY <2>3 DEF BootTyped
    <3>2. put'[written[s][Len(written[s])]] = put[written[s][Len(written[s])]]
      BY <1>3, <3>1
    <3> QED
      BY <1>1, <2>1, <2>3, <3>2 DEF InStep
  <2> QED
    BY <2>2, <2>3
<1>6. Kept'
  BY <1>1, <1>5 DEF Kept
<1> QED
  BY <1>2, <1>4, <1>6

(* A request that looks for the row changes nothing.                        *)
LEMMA PutLookLimits ==
  ASSUME NEW r \in Puts, NEW s \in Servers, NEW limits \in Limits, LimitsInv, PutLook(r, s, limits)
  PROVE  LimitsInv'
<1> DEFINE p == [at |-> "looked", server |-> s, value |-> limits, exists |-> Visible.limits # Unset]
<1>1. p \in PutRequests
  BY DEF PutRequests
<1>2. phase[s] = "up" /\ put[r].at = "new" /\ p.at = "looked" /\ p.server = s /\ p.value = limits
      /\ put' = [put EXCEPT ![r] = p] /\ UNCHANGED <<disk, booting, config, written, history>>
  BY DEF PutLook
<1> HIDE DEF p
<1> QED
  BY <1>1, <1>2, UnwrittenRequest DEF LimitsInv, MigrationInv, BootTyped

(* A request whose write failed changed nothing.                            *)
LEMMA PutFailsLimits ==
  ASSUME NEW r \in Puts, LimitsInv, PutFails(r)
  PROVE  LimitsInv'
<1>1. put' \in [Puts -> PutRequests] /\ put'[r].at = "done" /\ \A p \in Puts : p # r => put'[p] = put[p]
  BY DEF PutFails, LimitsInv, MigrationInv, BootTyped, PutRequests
<1> QED
  BY <1>1, UnwrittenRequest DEF PutFails
(* The write: the last of the waiting requests has the limits of the        *)
(* database; the other servers are crossed.                                 *)
LEMMA PutWriteLimits ==
  ASSUME NEW r \in Puts, LimitsInv, PutWrite(r)
  PROVE  LimitsInv'
<1> DEFINE s == put[r].server
           l == put[r].value
           q == written[s]
           c == [Db EXCEPT !.limits = l]
<1>1. /\ s \in Servers /\ phase[s] = "up" /\ l \in Limits /\ put[r].at = "looked"
  BY DEF PutWrite, LimitsInv, Waiting
<1>2. /\ put' = [put EXCEPT ![r].at = "written"]
      /\ written' = [written EXCEPT ![s] = Append(q, r)]
      /\ writer' = r /\ acked' = Unset
      /\ crossed' = [t \in Servers |-> crossed[t] \/ (t # s /\ phase[t] = "up")]
      /\ UNCHANGED <<booting, config, misread>>
      /\ Write(c)
  BY VisibleIsDb DEF PutWrite, LimitsInv, MigrationInv
<1>3. c = [built |-> Db.built, recorded |-> Db.recorded, limits |-> l]
  BY DbTyped, ChangedContents DEF LimitsInv, MigrationInv
<1>4. c \in Contents /\ c.built = Db.built /\ c.recorded = Db.recorded /\ c.limits = l
  BY <1>1, <1>3, DbTyped DEF LimitsInv, MigrationInv, Contents
<1>5. q \in Seq(Puts)
  BY <1>1 DEF LimitsInv, MigrationInv, BootTyped
<1> HIDE DEF s, l, q, c
<1>6. /\ Db' = c /\ UNCHANGED <<backend, redundant>>
      /\ stored' \in Contents /\ memory' \in Contents
      /\ backend = "sqlite" => stored' = stored /\ memory' = c
      /\ backend # "sqlite" => stored' = c /\ memory' = memory
  BY <1>2, <1>4, WriteDb DEF LimitsInv, MigrationInv, Write
<1>7. BootTyped'
  <2>1. put' \in [Puts -> PutRequests]
    BY <1>2 DEF LimitsInv, MigrationInv, BootTyped, PutRequests
  <2>2. written' \in [Servers -> Seq(Puts)]
    <3>1. Append(q, r) \in Seq(Puts)
      BY <1>5
    <3> QED
      BY <1>2, <3>1 DEF LimitsInv, MigrationInv, BootTyped
  <2>3. crossed' \in [Servers -> BOOLEAN]
    BY <1>2 DEF LimitsInv, MigrationInv, BootTyped
  <2> QED
    BY <1>2, <1>6, <2>1, <2>2, <2>3 DEF LimitsInv, MigrationInv, BootTyped, BootTypeOK,
       booting
<1>8. OneServer'
  BY <1>1, <1>2, <1>4, <1>6 DEF LimitsInv, MigrationInv, OneServer, Db, booting
<1>9. MigrationInv'
  <2>1. stored'.built = stored.built /\ stored'.recorded = stored.recorded
    BY <1>4, <1>6 DEF Db
  <2>2. memory'.built = memory.built /\ memory'.recorded = memory.recorded
    BY <1>4, <1>6 DEF Db
  <2> QED
    BY <1>2, <1>6, <1>7, <1>8, <2>1, <2>2, RequestMigration DEF LimitsInv, booting
<1>10. /\ written'[s] = Append(q, r) /\ Len(Append(q, r)) = Len(q) + 1
       /\ Append(q, r)[Len(q) + 1] = r /\ Append(q, r) # <<>>
       /\ \A i \in 1..Len(q) : Append(q, r)[i] = q[i] /\ q[i] \in Puts /\ q[i] # r
       /\ \A t \in Servers : t # s => written'[t] = written[t]
       /\ Len(q) \in Nat
  BY <1>1, <1>2, <1>5 DEF LimitsInv, MigrationInv, BootTyped, Waiting, q
<1>11. /\ put'[r].at = "written" /\ put'[r].server = s /\ put'[r].value = l
       /\ \A p \in Puts : p # r => put'[p] = put[p]
  BY <1>2 DEF LimitsInv, MigrationInv, BootTyped, PutRequests, s, l
<1>12. Waiting'
  <2>1. \A p \in Puts : put'[p].at \in {"looked", "written"} =>
          put'[p].server \in Servers /\ phase'[put'[p].server] = "up" /\ put'[p].value \in Limits
    BY <1>1, <1>2, <1>11 DEF LimitsInv, Waiting, booting
  <2>2. ASSUME NEW t \in Servers
        PROVE  /\ phase'[t] # "up" => written'[t] = <<>>
               /\ \A i \in 1..Len(written'[t]) :
                    put'[written'[t][i]].at = "written" /\ put'[written'[t][i]].server = t
               /\ \A i, j \in 1..Len(written'[t]) : written'[t][i] = written'[t][j] => i = j
    <3>1. CASE t = s
      <4>1. \A i \in 1..Len(q) : put[q[i]].at = "written" /\ put[q[i]].server = s
        BY <1>1 DEF LimitsInv, Waiting, q
      <4>2. \A i, j \in 1..Len(q) : q[i] = q[j] => i = j
        BY <1>1 DEF LimitsInv, Waiting, q
      <4> QED
        BY <1>1, <1>2, <1>10, <1>11, <3>1, <4>1, <4>2 DEF booting
    <3>2. CASE t # s
      <4>1. \A i \in 1..Len(written[t]) : written[t][i] \in Puts /\ written[t][i] # r
        BY <1>1 DEF LimitsInv, MigrationInv, BootTyped, Waiting
      <4> QED
        BY <1>2, <1>10, <1>11, <3>2, <4>1 DEF LimitsInv, Waiting, booting
    <3> QED
      BY <3>1, <3>2
  <2> QED
    BY <2>1, <2>2 DEF Waiting
<1>13. ASSUME NEW t \in Servers, phase'[t] = "up", ~crossed'[t]
       PROVE  InStep(t)'
  <2>1. t = s
    BY <1>2, <1>13 DEF booting
  <2> QED
    BY <1>4, <1>6, <1>10, <1>11, <2>1 DEF InStep
<1>14. Kept'
  BY <1>2, <1>4, <1>6, <1>11, <1>13 DEF Kept
<1> QED
  BY <1>9, <1>12, <1>14 DEF LimitsInv

(* The answer: the server is in step when the last of its waiting requests  *)
(* is applied.                                                              *)
LEMMA PutApplyLimits ==
  ASSUME NEW s \in Servers, LimitsInv, PutApply(s)
  PROVE  LimitsInv'
<1> DEFINE q == written[s]
           r == Head(q)
           l == put[r].value
           n == Len(q)
<1>1. /\ q # <<>>
      /\ config' = [config EXCEPT ![s] = l]
      /\ written' = [written EXCEPT ![s] = Tail(q)]
      /\ put' = [put EXCEPT ![r].at = "done"]
      /\ acked' = IF writer = r THEN l ELSE acked
      /\ UNCHANGED <<disk, booting, writer, crossed, misread>>
  BY DEF PutApply
<1>2. q \in Seq(Puts) /\ n \in Nat \ {0} /\ r = q[1] /\ r \in Puts
  BY <1>1 DEF LimitsInv, MigrationInv, BootTyped
<1>3. /\ \A i \in 1..n : q[i] \in Puts /\ put[q[i]].at = "written" /\ put[q[i]].server = s
      /\ \A i, j \in 1..n : q[i] = q[j] => i = j
  BY <1>2 DEF LimitsInv, Waiting
<1>4. l \in Limits
  BY <1>2, <1>3 DEF LimitsInv, Waiting
<1>5. /\ Tail(q) \in Seq(Puts) /\ Len(Tail(q)) = n - 1
      /\ \A i \in 1..n - 1 : Tail(q)[i] = q[i + 1]
  BY <1>1, <1>2
<1> HIDE DEF q, r, l, n
<1>6. /\ put'[r].at = "done" /\ put' \in [Puts -> PutRequests]
      /\ \A p \in Puts : p # r => put'[p] = put[p]
  <2>1. [put[r] EXCEPT !.at = "done"] \in PutRequests /\ [put[r] EXCEPT !.at = "done"].at = "done"
    BY ZenonT(60), <1>2 DEF LimitsInv, MigrationInv, BootTyped, PutRequests
  <2>2. put' = [put EXCEPT ![r] = [put[r] EXCEPT !.at = "done"]]
    BY <1>1
  <2> DEFINE x == [put[r] EXCEPT !.at = "done"]
  <2> HIDE DEF x
  <2>3. put' = [put EXCEPT ![r] = x] /\ x \in PutRequests /\ x.at = "done"
    BY <2>1, <2>2 DEF x
  <2> QED
    BY <1>2, <2>3 DEF LimitsInv, MigrationInv, BootTyped
<1>6a. \A t \in Servers : t # s => \A i \in 1..Len(written[t]) : written[t][i] \in Puts /\ written[t][i] # r
  <2>1. put[r].server = s
    BY <1>2, <1>3
  <2>2. ASSUME NEW t \in Servers, t # s, NEW i \in 1..Len(written[t])
        PROVE  written[t][i] \in Puts /\ put[written[t][i]].server = t
    BY <2>2 DEF LimitsInv, MigrationInv, BootTyped, Waiting
  <2> QED
    BY <2>1, <2>2
<1>7. Db' = Db
  BY <1>1 DEF Db, disk
<1>8. BootTyped' /\ OneServer'
  <2>1. written' \in [Servers -> Seq(Puts)] /\ config' \in [Servers -> Limits \cup {Env}]
    BY <1>1, <1>4, <1>5 DEF LimitsInv, MigrationInv, BootTyped, BootTypeOK
  <2> QED
    BY <1>1, <1>4, <1>6, <2>1 DEF LimitsInv, MigrationInv, BootTyped, BootTypeOK,
       OneServer, disk, booting
<1>9. MigrationInv'
  BY <1>1, <1>8, RequestMigration DEF LimitsInv, disk, booting
<1>10. Waiting'
  <2>1. \A p \in Puts : put'[p].at \in {"looked", "written"} =>
          put'[p].server \in Servers /\ phase'[put'[p].server] = "up" /\ put'[p].value \in Limits
    BY <1>1, <1>6 DEF LimitsInv, Waiting, booting
  <2>2. ASSUME NEW t \in Servers
        PROVE  /\ phase'[t] # "up" => written'[t] = <<>>
               /\ \A i \in 1..Len(written'[t]) :
                    put'[written'[t][i]].at = "written" /\ put'[written'[t][i]].server = t
               /\ \A i, j \in 1..Len(written'[t]) : written'[t][i] = written'[t][j] => i = j
    <3>1. CASE t = s
      <4>1. written'[s] = Tail(q)
        BY <1>1 DEF LimitsInv, MigrationInv, BootTyped
      <4>2. \A i \in 1..n - 1 : i + 1 \in 1..n /\ q[i + 1] # r
        BY <1>2, <1>3
      <4>3. phase[s] = "up" /\ phase' = phase
        BY <1>1 DEF LimitsInv, Waiting, q, booting
      <4> QED
        BY <1>2, <1>3, <1>5, <1>6, <3>1, <4>1, <4>2, <4>3
    <3>2. CASE t # s
      <4>1. \A i \in 1..Len(written[t]) : written[t][i] \in Puts /\ written[t][i] # r
        BY <1>6a, <3>2
      <4>2. written'[t] = written[t] /\ phase' = phase
        BY <1>1, <3>2 DEF LimitsInv, MigrationInv, BootTyped, booting
      <4> QED
        BY <1>6, <4>1, <4>2 DEF LimitsInv, Waiting
    <3> QED
      BY <3>1, <3>2
  <2> QED
    BY <2>1, <2>2 DEF Waiting
<1>11. ASSUME NEW t \in Servers, phase'[t] = "up", ~crossed'[t], ~misread'[t]
       PROVE  InStep(t)'
  <2>1. InStep(t)
    BY <1>1, <1>11, UpInStep DEF booting
  <2>2. CASE t = s
    <3>1. written'[s] = Tail(q) /\ config'[s] = l
      BY <1>1 DEF LimitsInv, MigrationInv, BootTyped, BootTypeOK
    <3>2. Db.limits = put[q[n]].value
      BY <1>1, <2>1, <2>2 DEF InStep, q, n
    <3>3. CASE n = 1
      BY <1>2, <1>4, <1>5, <1>7, <2>2, <3>1, <3>2, <3>3, BootSettingsAssumption DEF
         InStep, OrEnv, l
    <3>4. CASE n # 1
      <4>1. n \in 1..n /\ 1 \in 1..n /\ n - 1 \in 1..n - 1 /\ Tail(q)[n - 1] = q[n] /\ Tail(q) # <<>>
        BY <1>2, <1>5, <3>4
      <4>2. put'[q[n]] = put[q[n]]
        BY <1>2, <1>3, <1>6, <3>4, <4>1
      <4> QED
        BY <1>5, <1>7, <2>2, <3>1, <3>2, <4>1, <4>2 DEF InStep
    <3> QED
      BY <3>3, <3>4
  <2>3. CASE t # s
    <3>1. written'[t] = written[t] /\ config'[t] = config[t]
      BY <1>1, <2>3 DEF LimitsInv, MigrationInv, BootTyped, BootTypeOK
    <3>2. CASE written[t] = <<>>
      BY <1>7, <2>1, <3>1, <3>2 DEF InStep, OrEnv
    <3>3. CASE written[t] # <<>>
      <4>1. Len(written[t]) \in 1..Len(written[t])
        BY <3>3 DEF LimitsInv, MigrationInv, BootTyped
      <4>2. put'[written[t][Len(written[t])]] = put[written[t][Len(written[t])]]
        BY <1>6, <1>6a, <2>3, <4>1
      <4> QED
        BY <1>7, <2>1, <3>1, <3>3, <4>2 DEF InStep
    <3> QED
      BY <3>2, <3>3
  <2> QED
    BY <2>2, <2>3
<1>12. Kept'
  <2>1. acked' # Unset => Db'.limits = acked'
    BY <1>1, <1>2, <1>3, <1>7 DEF LimitsInv, Kept, l
  <2>2. writer' \in Puts /\ put'[writer'].at = "written" => Db'.limits = put'[writer'].value
    BY <1>1, <1>6, <1>7 DEF LimitsInv, Kept
  <2> QED
    BY <1>11, <2>1, <2>2 DEF Kept
<1> QED
  BY <1>9, <1>10, <1>12 DEF LimitsInv
(* Crash and Stop: what the server had not answered is gone.                *)
LEMMA EndLimits ==
  ASSUME NEW s \in Servers, LimitsInv, MigrationInv', phase[s] # "down", Down(s), Hangup(s),
         UNCHANGED <<config, writer, crossed, misread>>,
         acked' # Unset => acked' = acked /\ Db'.limits = Db.limits,
         backend = "postgres" => Db' = Db
  PROVE  LimitsInv'
<1>1. \A t \in Servers : phase'[t] = "up" <=> phase[t] = "up" /\ t # s
  BY DEF Down, LimitsInv, MigrationInv, BootTyped, BootTypeOK
<1>2. \A t \in Servers : phase[t] = "up" /\ t # s => Db' = Db
  BY DEF LimitsInv, MigrationInv, OneServer, BootTyped, BootTypeOK
<1>3. \A r \in Puts : /\ put[r].server # s => put'[r] = put[r]
                      /\ put[r].server = s => put'[r].at = "done"
  <2>1. \A r \in Puts : [put[r] EXCEPT !.at = "done"].at = "done"
    BY DEF LimitsInv, MigrationInv, BootTyped, PutRequests
  <2> QED
    BY <2>1 DEF Hangup
<1>4. \A t \in Servers : written'[t] = IF t = s THEN <<>> ELSE written[t]
  BY DEF Hangup, LimitsInv, MigrationInv, BootTyped
<1>5. Waiting'
  <2>1. \A r \in Puts : put'[r].at \in {"looked", "written"} =>
          put'[r].server \in Servers /\ phase'[put'[r].server] = "up" /\ put'[r].value \in Limits
    BY <1>1, <1>3 DEF LimitsInv, Waiting
  <2>2. ASSUME NEW t \in Servers
        PROVE  /\ phase'[t] # "up" => written'[t] = <<>>
               /\ \A i \in 1..Len(written'[t]) :
                    put'[written'[t][i]].at = "written" /\ put'[written'[t][i]].server = t
               /\ \A i, j \in 1..Len(written'[t]) : written'[t][i] = written'[t][j] => i = j
    <3>1. CASE t = s
      BY <1>4, <3>1
    <3>2. CASE t # s
      <4>1. \A i \in 1..Len(written[t]) : written[t][i] \in Puts /\ put[written[t][i]].server = t
        BY DEF LimitsInv, MigrationInv, BootTyped, Waiting
      <4> QED
        BY <1>1, <1>3, <1>4, <3>2, <4>1 DEF LimitsInv, Waiting
    <3> QED
      BY <3>1, <3>2
  <2> QED
    BY <2>1, <2>2 DEF Waiting
<1>6. ASSUME NEW t \in Servers, phase'[t] = "up", ~crossed'[t], ~misread'[t]
      PROVE  InStep(t)'
  <2>1. t # s /\ Db' = Db /\ InStep(t) /\ written'[t] = written[t]
    BY <1>1, <1>2, <1>4, <1>6, UpInStep
  <2>2. CASE written[t] = <<>>
    BY <2>1, <2>2 DEF InStep, OrEnv
  <2>3. CASE written[t] # <<>>
    <3>1. Len(written[t]) \in 1..Len(written[t])
      BY <2>3 DEF LimitsInv, MigrationInv, BootTyped
    <3>2. put'[written[t][Len(written[t])]] = put[written[t][Len(written[t])]]
      BY <1>3, <2>1, <3>1 DEF LimitsInv, MigrationInv, BootTyped, Waiting
    <3> QED
      BY <2>1, <2>3, <3>2 DEF InStep
  <2> QED
    BY <2>2, <2>3
<1>7. writer' \in Puts /\ put'[writer'].at = "written" => Db'.limits = put'[writer'].value
  BY <1>2, <1>3 DEF LimitsInv, Waiting, Kept
<1>8. acked' # Unset => Db'.limits = acked'
  BY DEF LimitsInv, Kept
<1> QED
  BY <1>5, <1>6, <1>7, <1>8 DEF Kept, LimitsInv

(* A crash loses limits only of a file that was not exported, which nobody  *)
(* counts on.                                                               *)
LEMMA CrashLimits ==
  ASSUME NEW s \in Servers, LimitsInv, Crash(s)
  PROVE  LimitsInv'
<1>1. MigrationInv'
  BY CrashMigration DEF LimitsInv
<1>2. Visible = Db
  BY VisibleIsDb DEF LimitsInv, MigrationInv
<1>3. Db' = stored /\ (backend = "postgres" => Db' = Db)
  BY DEF Crash, Db
<1>4. acked' # Unset => acked' = acked /\ Db'.limits = Db.limits
  BY <1>2, <1>3 DEF Crash
<1> QED
  BY <1>1, <1>3, <1>4, EndLimits DEF Crash

(* A stop loses none.                                                       *)
LEMMA StopLimits ==
  ASSUME NEW s \in Servers, LimitsInv, Stop(s)
  PROVE  LimitsInv'
<1>1. MigrationInv'
  BY StopMigration DEF LimitsInv
<1>2. Visible = Db
  BY VisibleIsDb DEF LimitsInv, MigrationInv
<1>3. Db' = Db
  BY <1>2 DEF Stop, Db
<1> QED
  BY <1>1, <1>3, EndLimits DEF Stop, history
-----------------------------------------------------------------------------
(* Any release may have left the database.                                  *)
LEMMA InitLimits ==
  ASSUME BootInit
  PROVE  LimitsInv
<1>1. PICK n \in {0} \cup Versions :
        stored = [built |-> 1..n \ redundant, recorded |-> 1..n, limits |-> Unset]
  BY DEF BootInit
<1>2. 1..n \subseteq Versions /\ n \in Nat
  BY VersionNumbers
<1>3. stored \in Contents
  BY <1>1, <1>2 DEF Contents
<1>4. memory = stored /\ Db = stored
  BY DEF BootInit, Db
<1>5. Whole(stored)
  BY <1>1, <1>2 DEF Whole
<1>6. NoPut \in PutRequests
  BY DEF NoPut, PutRequests
<1>7. BootTyped
  BY <1>3, <1>4, <1>6 DEF BootInit, BootTyped, BootTypeOK, Nothing
<1>8. OneServer /\ \A s \in Servers : Migrating(s)
  BY <1>4 DEF BootInit, OneServer, Migrating
<1>9. Waiting /\ Kept
  BY DEF BootInit, NoPut, Waiting, Kept
<1> QED
  BY <1>4, <1>5, <1>7, <1>8, <1>9 DEF LimitsInv, MigrationInv

(* A step of a server that boots or migrates.                               *)
LEMMA BootingKeepsInv ==
  ASSUME NEW s \in Servers, LimitsInv,
         Boot(s) \/ ReadApplied(s) \/ Exec(s) \/ Record(s) \/ Commit(s) \/ Tolerate(s)
           \/ EndMigrations(s)
  PROVE  LimitsInv'
<1>1. MigrationInv'
  BY BootMigration, ReadAppliedMigration, ExecMigration, RecordMigration, CommitMigration,
     TolerateMigration, EndMigrationsMigration DEF LimitsInv
<1>2. UNCHANGED <<put, written, history>>
  BY DEF Boot, ReadApplied, Exec, Record, Commit, Tolerate, EndMigrations, serving
<1>3. Visible = Db
  BY VisibleIsDb DEF LimitsInv, MigrationInv
<1>4. Db'.limits = Db.limits
  <2>1. CASE Boot(s)
    BY <2>1 DEF Boot, Db, LimitsInv, MigrationInv, OneServer
  <2>2. CASE ReadApplied(s) \/ Exec(s) \/ Record(s) \/ EndMigrations(s)
    BY <2>2 DEF ReadApplied, Exec, Record, EndMigrations, Db, disk
  <2>3. CASE Commit(s)
    <3> DEFINE c == [built |-> Db.built \cup tx[s].built,
                     recorded |-> Db.recorded \cup tx[s].recorded, limits |-> Db.limits]
    <3>1. Write(c) /\ c.limits = Db.limits
      BY <1>3, <2>3 DEF Commit
    <3> HIDE DEF c
    <3> QED
      BY <3>1 DEF Write, Db, LimitsInv, MigrationInv, BootTyped, BootTypeOK
  <2>4. CASE Tolerate(s)
    <3> DEFINE x == Db.recorded \cup {Current(s)}
               c == [Db EXCEPT !.recorded = x]
    <3>1. Write(c)
      BY <1>3, <2>4 DEF Tolerate
    <3> HIDE DEF x
    <3>2. c.limits = Db.limits
      BY ChangedContents, DbTyped DEF LimitsInv, MigrationInv
    <3> HIDE DEF c
    <3> QED
      BY <3>1, <3>2 DEF Write, Db, LimitsInv, MigrationInv, BootTyped, BootTypeOK
  <2> QED
    BY <2>1, <2>2, <2>3, <2>4
<1>5. ASSUME NEW t \in Servers
      PROVE  /\ phase'[t] = "up" <=> phase[t] = "up"
             /\ phase[t] = "up" => config'[t] = config[t]
  BY DEF Boot, ReadApplied, Exec, Record, Down, Commit, Tolerate, EndMigrations, serving,
         LimitsInv, MigrationInv, BootTyped, BootTypeOK
<1>6. Waiting' /\ Kept'
  BY <1>2, <1>4, <1>5, BootLimits
<1> QED
  BY <1>1, <1>6 DEF LimitsInv

(* A step that changes nothing.                                             *)
LEMMA StutterKeepsInv ==
  ASSUME LimitsInv, UNCHANGED bootVars
  PROVE  LimitsInv'
<1> USE DEF bootVars, disk, booting, serving, history
<1>1. BootTyped' /\ OneServer' /\ Db' = Db
  BY DEF LimitsInv, MigrationInv, BootTyped, BootTypeOK, OneServer, Db
<1>2. MigrationInv'
  BY <1>1, RequestMigration DEF LimitsInv
<1>3. Waiting' /\ Kept'
  BY <1>1, BootLimits
<1> QED
  BY <1>2, <1>3 DEF LimitsInv

(* Every step keeps the invariant.                                          *)
LEMMA NextKeepsInv ==
  ASSUME LimitsInv, [BootNext]_bootVars
  PROVE  LimitsInv'
<1>1. ASSUME NEW s \in Servers,
             \/ Boot(s) \/ ReadApplied(s) \/ Exec(s) \/ Record(s) \/ Commit(s) \/ Tolerate(s)
             \/ EndMigrations(s)
      PROVE  LimitsInv'
  BY <1>1, BootingKeepsInv
<1>2. ASSUME NEW s \in Servers, LoadSettings(s) \/ PutApply(s) \/ Crash(s) \/ Stop(s)
      PROVE  LimitsInv'
  BY <1>2, LoadSettingsLimits, PutApplyLimits, CrashLimits, StopLimits
<1>3. ASSUME NEW s \in Servers, NEW r \in Puts, NEW limits \in Limits, PutLook(r, s, limits)
      PROVE  LimitsInv'
  BY <1>3, PutLookLimits
<1>4. ASSUME NEW r \in Puts, PutWrite(r) \/ PutFails(r)
      PROVE  LimitsInv'
  BY <1>4, PutWriteLimits, PutFailsLimits
<1>5. CASE UNCHANGED bootVars
  BY <1>5, StutterKeepsInv
<1> QED
  BY <1>1, <1>2, <1>3, <1>4, <1>5 DEF BootNext

(* The invariant of BootSettings, from which both properties of its run     *)
(* follow.                                                                  *)
THEOREM BootInvariant == BootSpec => []LimitsInv
<1> QED
  BY InitLimits, NextKeepsInv, PTL DEF BootSpec

(* However many servers boot, in whatever order their statements run and    *)
(* wherever they end, each migration is on disk whole and recorded once, or *)
(* not at all.                                                              *)
THEOREM EveryMigrationOnce == BootSpec => []MigratedOnce
<1>1. LimitsInv => MigratedOnce
  <2> SUFFICES ASSUME LimitsInv PROVE MigratedOnce
    OBVIOUS
  <2>1. Visible = Db /\ Whole(stored) /\ Whole(Db)
    BY VisibleIsDb DEF LimitsInv, MigrationInv
  <2>2. \A s \in Servers : phase[s] = "up" => Db.recorded = Versions
    BY DEF LimitsInv, MigrationInv, Migrating
  <2> QED
    BY <2>1, <2>2 DEF MigratedOnce, Whole, LimitsInv, MigrationInv, BootTyped
<1> QED
  BY <1>1, BootInvariant, PTL

(* Limits that were acknowledged are what the database keeps and what an    *)
(* undisturbed server trades by.                                            *)
THEOREM AcknowledgedLimitsSurvive == BootSpec => []LimitsSurvive
<1>1. LimitsInv => LimitsSurvive
  <2> SUFFICES ASSUME LimitsInv PROVE LimitsSurvive
    OBVIOUS
  <2>1. Visible = Db
    BY VisibleIsDb DEF LimitsInv, MigrationInv
  <2> QED
    BY <2>1 DEF LimitsSurvive, LimitsInv, Kept, InStep, OrEnv
<1> QED
  BY <1>1, BootInvariant, PTL

-----------------------------------------------------------------------------
(* The caches.                                                              *)
Requests == [asked : {None} \cup Nat, from : {None} \cup Nat, ordinal : Nat,
             symbols : SUBSET Symbols]
Entries == [data : {None} \cup Nat, writtenAt : {None} \cup Nat]

Typed ==
  /\ subject \in {"bargo", "dashboard", "prices"}
  /\ now \in 0..MaxTime /\ version \in 0..MaxVersion
  /\ began \in [0..MaxTime -> Nat]
  /\ waiting \in [Callers -> Requests]
  /\ entry \in Entries
  /\ blockedUntil \in Nat /\ spent \in Nat /\ excused \in Nat
  /\ price \in [Symbols -> {None} \cup Nat]
  /\ held \subseteq Symbols
  /\ refreshing \in BOOLEAN /\ misled \in BOOLEAN /\ restarts \in Nat

(* A request was sent before now; only the price cache asks for symbols.    *)
Asked(c) ==
  ~Idle(c) => /\ waiting[c].asked \in 0..now /\ waiting[c].from \in 0..version
              /\ Caching <=> waiting[c].symbols = {}

CallsInv == Typed /\ \A c \in Callers : Asked(c)

(* One refresh at a time, and no price is newer than the refresh that is to *)
(* replace it.                                                              *)
Quoted ==
  /\ \A s \in Symbols : price[s] <= version
  /\ Pricing => \A c \in Callers : ~Idle(c) =>
       /\ refreshing
       /\ \A d \in Callers : ~Idle(d) => d = c
       /\ \A s \in waiting[c].symbols : price[s] <= waiting[c].from

(* data is no older than what was outside when tick t began.                *)
AsNewAs(b, data, t) == \A u \in 0..MaxTime : u <= t => b[u] <= data

(* What is remembered, and what is waited for, is at least as new as the    *)
(* time that it is counted from.                                            *)
Aged ==
  /\ AsNewAs(began, version, now)
  /\ \A c \in Callers : ~Idle(c) => AsNewAs(began, waiting[c].from, waiting[c].asked)
  /\ entry # NoEntry => /\ entry.writtenAt \in 0..now /\ entry.data \in 0..version
                        /\ AsNewAs(began, entry.data, entry.writtenAt)
  /\ ~served.stale => AsNewAs(began, served.data, served.asked - Ttl + 1)

(* The requests of today that were sent after c's, c's own not counted,     *)
(* were all sent into it.                                                   *)
Before(c) == IF Crossed(c) THEN 0 ELSE waiting[c].ordinal

(* A block ends at a midnight, the next one at the latest.  Without a block *)
(* and without an answer under way, a request more can be afforded.         *)
Spared ==
  /\ Midnight(blockedUntil) /\ blockedUntil <= NextMidnight
  /\ now < blockedUntil /\ ~misled => spent >= Quota - Floor
  /\ subject = "bargo" =>
       /\ spent <= Quota - Floor + excused
       /\ Busy = {} /\ ~Blocked => spent < Quota - Floor + excused
       /\ \A c \in Busy : Before(c) <= spent /\ spent <= Before(c) + excused
  /\ subject # "bargo" => blockedUntil = 0

CachesInv == CallsInv /\ Quoted /\ Aged /\ Spared
-----------------------------------------------------------------------------
(* Days, which begin at midnight.                                           *)
LEMMA Division ==
  ASSUME NEW n \in Nat, NEW D \in Nat \ {0}
  PROVE  /\ n \div D \in Nat
         /\ (n \div D) * D <= n /\ n < (n \div D + 1) * D
         /\ (n \div D + 1) * D \in Nat
         /\ n % D = 0 <=> n = (n \div D) * D
<1>1. n \div D \in Int /\ n % D \in 0..D - 1 /\ n = D * (n \div D) + (n % D)
  OBVIOUS
<1>2. n \div D >= 0
  BY <1>1
<1> QED
  BY <1>1, <1>2

(* Multiples of a day that are in order come from quotients that are.       *)
LEMMA OneQuotient ==
  ASSUME NEW D \in Nat \ {0}, NEW q \in Int, NEW r \in Int, q * D < (r + 1) * D
  PROVE  q <= r
<1>1. ASSUME q >= r + 1 PROVE FALSE
  <2>1. (q - (r + 1)) * D >= 0
    BY <1>1
  <2>2. (q - (r + 1)) * D = q * D - (r + 1) * D
    OBVIOUS
  <2> QED
    BY <2>1, <2>2
<1> QED
  BY <1>1

(* A tick that does not reach midnight stays in the day.                    *)
LEMMA SameDay ==
  ASSUME NEW n \in Nat, NEW D \in Nat \ {0}, (n + 1) % D # 0
  PROVE  (n + 1) \div D = n \div D
<1> DEFINE a == n \div D
           b == (n + 1) \div D
<1>1. /\ a \in Nat /\ a * D <= n /\ n < (a + 1) * D
      /\ b \in Nat /\ b * D <= n + 1 /\ n + 1 < (b + 1) * D /\ n + 1 # b * D
  BY Division
<1> HIDE DEF a, b
<1>2. a * D \in Int /\ b * D \in Int /\ (a + 1) * D \in Int /\ (b + 1) * D \in Int
  BY <1>1
<1>3. b * D < (a + 1) * D /\ a * D < (b + 1) * D
  BY <1>1, <1>2
<1>4. b <= a /\ a <= b
  BY <1>1, <1>3, OneQuotient
<1> QED
  BY <1>1, <1>4 DEF a, b

(* A tick that reaches midnight begins the day after, and none before it    *)
(* was in that day.                                                         *)
LEMMA NewDay ==
  ASSUME NEW n \in Nat, NEW D \in Nat \ {0}, (n + 1) % D = 0
  PROVE  /\ n + 1 = (n \div D + 1) * D
         /\ \A m \in 0..n : m \div D # (n + 1) \div D
<1> DEFINE a == n \div D
           b == (n + 1) \div D
<1>1. /\ a \in Nat /\ a * D <= n /\ n < (a + 1) * D
      /\ b \in Nat /\ n + 1 = b * D
  BY Division
<1> HIDE DEF a, b
<1>2. a * D \in Int /\ b * D \in Int /\ (a + 1) * D \in Int /\ (b + 1) * D \in Int
  BY <1>1
<1>3. \A m \in 0..n : m \div D # b
  <2> SUFFICES ASSUME NEW m \in 0..n, m \div D = b PROVE FALSE
    OBVIOUS
  <2>1. b * D <= m
    BY Division
  <2> QED
    BY <1>1, <1>2, <2>1
<1>4. b = a + 1
  <2>1. n + 1 <= (a + 1) * D /\ (a + 1) * D \in Int /\ ((a + 1) + 1) * D = (a + 1) * D + D
    BY <1>1, <1>2
  <2>2. b * D < ((a + 1) + 1) * D
    BY <1>1, <1>2, <2>1
  <2>3. b <= a + 1
    BY <1>1, <2>2, OneQuotient
  <2>4. a * D < b * D
    BY <1>1, <1>2
  <2>5. b # a /\ a * D < ((b - 1) + 1) * D
    BY <1>1, <1>2, <2>4
  <2>6. a <= b - 1
    BY <1>1, <2>5, OneQuotient
  <2> QED
    BY <1>1, <2>3, <2>6
<1> QED
  BY <1>1, <1>3, <1>4 DEF a, b

(* A midnight that has not come and is not after the next is the next.      *)
LEMMA OneMidnight ==
  ASSUME NEW n \in Nat, NEW D \in Nat \ {0}, NEW b \in Nat, b % D = 0, n < b,
         b <= (n \div D + 1) * D
  PROVE  b = (n \div D + 1) * D
<1> DEFINE a == n \div D
           q == b \div D
<1>1. a \in Nat /\ a * D <= n /\ n < (a + 1) * D /\ q \in Nat /\ b = q * D
  BY Division
<1> HIDE DEF q
<1>2. a * D \in Int /\ q * D \in Int
  BY <1>1
<1>3. a * D < ((q - 1) + 1) * D
  <2>1. (q - 1) + 1 = q
    BY <1>1
  <2> QED
    BY <1>1, <1>2, <2>1
<1>4. a <= q - 1
  BY <1>1, <1>3, OneQuotient
<1>5. (q - (a + 1)) * D >= 0 /\ (q - (a + 1)) * D = q * D - (a + 1) * D
  BY <1>1, <1>4
<1>6. b >= (a + 1) * D /\ (a + 1) * D \in Int
  BY <1>1, <1>2, <1>5
<1> QED
  BY <1>6
-----------------------------------------------------------------------------
(* The blanks are of their types.                                           *)
LEMMA Blank == NotWaiting \in Requests /\ NoEntry \in Entries /\ NotWaiting.symbols = {}
BY DEF NotWaiting, NoEntry, Requests, Entries, None

(* The request that is sent now.                                            *)
LEMMA SentTyped ==
  ASSUME Typed, NEW n \in Nat, NEW symbols \in SUBSET Symbols
  PROVE  /\ Request(n, symbols) \in Requests /\ Request(n, symbols) # NotWaiting
         /\ Request(n, symbols).asked = now /\ Request(n, symbols).from = version
         /\ Request(n, symbols).ordinal = n /\ Request(n, symbols).symbols = symbols
BY MarketCachesAssumption DEF Typed, Request, Requests, NotWaiting, None

(* The symbols still to be answered.                                        *)
LEMMA LeftTyped ==
  ASSUME NEW w \in Requests, NEW left \in SUBSET Symbols
  PROVE  /\ [w EXCEPT !.symbols = left] \in Requests
         /\ [w EXCEPT !.symbols = left].symbols = left
         /\ [w EXCEPT !.symbols = left].asked = w.asked
         /\ [w EXCEPT !.symbols = left].from = w.from
BY DEF Requests

(* The next midnight is a midnight, still to come.                          *)
LEMMA MidnightAfter ==
  ASSUME NEW n \in Nat
  PROVE  LET m == (n \div DayLength + 1) * DayLength IN
         m \in Nat /\ n < m /\ m % DayLength = 0
<1> DEFINE q == n \div DayLength + 1
<1>1. DayLength \in Nat \ {0}
  BY MarketCachesAssumption
<1>2. q \in Nat /\ q * DayLength \in Nat /\ n < q * DayLength
  BY <1>1, Division
<1> HIDE DEF q
<1>3. (q * DayLength) % DayLength = 0
  BY <1>1, <1>2
<1> QED
  BY <1>2, <1>3 DEF q

(* The next midnight after now.                                             *)
LEMMA MidnightComes ==
  ASSUME Typed
  PROVE  NextMidnight \in Nat /\ now < NextMidnight /\ Midnight(NextMidnight)
<1>1. now \in Nat
  BY DEF Typed
<1> QED
  BY <1>1, MidnightAfter DEF NextMidnight, Midnight

(* A tick of the clock.                                                     *)
LEMMA TickCalls ==
  ASSUME CallsInv, Tick
  PROVE  CallsInv'
<1>3. Typed'
  <2>1. now' \in 0..MaxTime /\ began' \in [0..MaxTime -> Nat]
    BY MarketCachesAssumption DEF CallsInv, Typed, Tick
  <2>2. spent' \in Nat /\ excused' \in Nat /\ misled' \in BOOLEAN
    <3>1. CASE Midnight(now + 1)
      <4>1. spent' = 0 /\ excused' = 0 /\ misled' = FALSE
        BY <3>1 DEF Tick
      <4> QED
        BY <4>1
    <3>2. CASE ~Midnight(now + 1)
      BY <3>2 DEF CallsInv, Typed, Tick
    <3> QED
      BY <3>1, <3>2
  <2> QED
    BY <2>1, <2>2 DEF CallsInv, Typed, Tick, priceVars
<1>4. ASSUME NEW d \in Callers PROVE Asked(d)'
  BY Blank DEF CallsInv, Typed, Asked, Idle, Caching, Tick, clock, cacheVars, priceVars
<1> QED
  BY <1>3, <1>4 DEF CallsInv

(* Something new outside.                                                   *)
LEMMA PublishCalls ==
  ASSUME CallsInv, Publish
  PROVE  CallsInv'
<1>3. Typed'
  BY Blank, MarketCachesAssumption DEF CallsInv, Typed, Publish, clock, cacheVars, priceVars
<1>4. ASSUME NEW d \in Callers PROVE Asked(d)'
  BY Blank DEF CallsInv, Typed, Asked, Idle, Caching, Publish, clock, cacheVars, priceVars
<1> QED
  BY <1>3, <1>4 DEF CallsInv

(* An entry that is returned leaves the requests as they are.               *)
LEMMA HitCalls ==
  ASSUME NEW c \in Callers, CallsInv, Hit(c)
  PROVE  CallsInv'
<1>3. Typed'
  BY Blank, MarketCachesAssumption DEF CallsInv, Typed, Hit, Return, clock, cacheVars,
     priceVars
<1>4. ASSUME NEW d \in Callers PROVE Asked(d)'
  BY Blank DEF CallsInv, Typed, Asked, Idle, Caching, Hit, Return, clock, cacheVars,
     priceVars
<1> QED
  BY <1>3, <1>4 DEF CallsInv

(* A request is sent.                                                       *)
LEMMA MissCalls ==
  ASSUME NEW c \in Callers, CallsInv, Miss(c)
  PROVE  CallsInv'
<1>3. Typed'
  BY SentTyped, Blank, MarketCachesAssumption DEF CallsInv, Typed, Miss, clock,
     cacheVars, priceVars
<1>4. ASSUME NEW d \in Callers PROVE Asked(d)'
  BY SentTyped, Blank DEF CallsInv, Typed, Asked, Idle, Caching, Miss, clock, cacheVars,
     priceVars
<1> QED
  BY <1>3, <1>4 DEF CallsInv

(* A good response.                                                         *)
LEMMA ResponseCalls ==
  ASSUME NEW c \in Callers, NEW data \in 0..version, NEW header \in BOOLEAN,
         CallsInv, Response(c, data, header)
  PROVE  CallsInv'
<1>3. Typed'
  <2>1. NextMidnight \in Nat
    BY MidnightComes DEF CallsInv
  <2>2. Written(c, data) \in Entries
    BY DEF CallsInv, Typed, Requests, Entries, Written
  <2>3. blockedUntil' \in Nat
    BY <2>1 DEF CallsInv, Typed, Response
  <2> QED
    BY <2>2, <2>3, Blank DEF CallsInv, Typed, Response, Done, clock, priceVars
<1>4. ASSUME NEW d \in Callers PROVE Asked(d)'
  BY Blank DEF CallsInv, Typed, Asked, Idle, Caching, Response, Sent, Done, Return,
     Written, clock, cacheVars, priceVars
<1> QED
  BY <1>3, <1>4 DEF CallsInv

(* A 429.                                                                   *)
LEMMA TooManyCalls ==
  ASSUME NEW c \in Callers, CallsInv, TooMany(c)
  PROVE  CallsInv'
<1>3. Typed'
  <2>1. NextMidnight \in Nat
    BY MidnightComes DEF CallsInv
  <2> HIDE DEF NextMidnight
  <2> QED
    BY <2>1, Blank DEF CallsInv, Typed, TooMany, Done, clock, priceVars
<1>4. ASSUME NEW d \in Callers PROVE Asked(d)'
  BY Blank DEF CallsInv, Typed, Asked, Idle, Caching, TooMany, Sent, Done, Return,
     clock, cacheVars, priceVars
<1> QED
  BY <1>3, <1>4 DEF CallsInv

(* No response.                                                             *)
LEMMA NoResponseCalls ==
  ASSUME NEW c \in Callers, CallsInv, NoResponse(c)
  PROVE  CallsInv'
<1>3. Typed'
  BY SMTT(30), Blank, MarketCachesAssumption DEF CallsInv, Typed, NoResponse, Sent, Done, clock,
     cacheVars, priceVars
<1>4. ASSUME NEW d \in Callers PROVE Asked(d)'
  BY Blank DEF CallsInv, Typed, Asked, Idle, Caching, NoResponse, Sent, Done, clock,
     cacheVars, priceVars
<1> QED
  BY <1>3, <1>4 DEF CallsInv

(* A refresh begins.                                                        *)
LEMMA RefreshCalls ==
  ASSUME NEW c \in Callers, NEW known \in {held, {}}, CallsInv, Refresh(c, known)
  PROVE  CallsInv'
<1>3. Typed'
  <2> DEFINE symbols == Watched \cup known
             w == IF symbols = {} THEN NotWaiting ELSE Request(0, symbols)
  <2>1. symbols \in SUBSET Symbols
    BY MarketCachesAssumption DEF CallsInv, Typed
  <2>2. w \in Requests
    BY <2>1, Blank, SentTyped DEF CallsInv
  <2>3. waiting' = [waiting EXCEPT ![c] = w] /\ refreshing' \in BOOLEAN
    BY DEF Refresh
  <2> HIDE DEF w
  <2> QED
    BY <2>2, <2>3 DEF CallsInv, Typed, Refresh, clock
<1>4. ASSUME NEW d \in Callers PROVE Asked(d)'
  <2> DEFINE symbols == Watched \cup known
             w == IF symbols = {} THEN NotWaiting ELSE Request(0, symbols)
  <2>0. symbols \in SUBSET Symbols
    BY MarketCachesAssumption DEF CallsInv, Typed
  <2>1. waiting' = [waiting EXCEPT ![c] = w] /\ UNCHANGED <<subject, now, version>> /\ Pricing
    BY DEF Refresh, clock
  <2>2. w # NotWaiting => /\ w.asked = now /\ w.from = version /\ w.symbols # {}
    BY <2>0, SentTyped DEF CallsInv
  <2> HIDE DEF w
  <2> QED
    BY <2>1, <2>2 DEF CallsInv, Typed, Asked, Idle, Caching, Pricing
<1> QED
  BY <1>3, <1>4 DEF CallsInv

(* A symbol without a quote.                                                *)
LEMMA NoQuoteCalls ==
  ASSUME NEW c \in Callers, NEW s \in Symbols, CallsInv, NoQuote(c, s)
  PROVE  CallsInv'
<1> DEFINE left == waiting[c].symbols \ {s}
           w == IF left = {} THEN NotWaiting ELSE [waiting[c] EXCEPT !.symbols = left]
<1>0. waiting' = [waiting EXCEPT ![c] = w]
  BY DEF NoQuote, Answered
<1>1. /\ left \in SUBSET Symbols /\ waiting[c] \in Requests /\ ~Idle(c)
      /\ Pricing /\ ~Caching
  BY Blank DEF CallsInv, Typed, Requests, NoQuote, Idle, Pricing, Caching
<1>2. /\ w \in Requests
      /\ w # NotWaiting => /\ w.asked = waiting[c].asked /\ w.from = waiting[c].from
                           /\ w.symbols # {}
  BY <1>1, Blank, LeftTyped
<1> HIDE DEF w, left
<1>3. Typed'
  BY <1>0, <1>1, <1>2, Blank, MarketCachesAssumption DEF CallsInv, Typed, NoQuote,
     Answered, clock, cacheVars, priceVars
<1>4. ASSUME NEW d \in Callers PROVE Asked(d)'
  BY <1>0, <1>1, <1>2, Blank DEF CallsInv, Typed, Asked, Idle, Caching, NoQuote,
     Answered, clock, cacheVars, priceVars
<1> QED
  BY <1>3, <1>4 DEF CallsInv

(* A quote.                                                                 *)
LEMMA QuoteCalls ==
  ASSUME NEW c \in Callers, NEW s \in Symbols, NEW data \in 0..version, CallsInv, Quote(c, s, data)
  PROVE  CallsInv'
<1> DEFINE left == waiting[c].symbols \ {s}
           w == IF left = {} THEN NotWaiting ELSE [waiting[c] EXCEPT !.symbols = left]
<1>0. waiting' = [waiting EXCEPT ![c] = w]
  BY DEF Quote, Answered
<1>1. /\ left \in SUBSET Symbols /\ waiting[c] \in Requests /\ ~Idle(c)
      /\ Pricing /\ ~Caching
  BY Blank DEF CallsInv, Typed, Requests, Quote, Idle, Pricing, Caching
<1>2. /\ w \in Requests
      /\ w # NotWaiting => /\ w.asked = waiting[c].asked /\ w.from = waiting[c].from
                           /\ w.symbols # {}
  BY <1>1, Blank, LeftTyped
<1> HIDE DEF w, left
<1>3. Typed'
  <2>1. data \in Nat
    BY DEF CallsInv, Typed
  <2>2. price' \in [Symbols -> {None} \cup Nat]
    BY <2>1 DEF CallsInv, Typed, Quote
  <2> QED
    BY <1>0, <1>2, <2>2 DEF CallsInv, Typed, Quote, Answered, clock
<1>4. ASSUME NEW d \in Callers PROVE Asked(d)'
  BY <1>0, <1>1, <1>2, Blank DEF CallsInv, Typed, Asked, Idle, Caching, Quote, Answered,
     clock, cacheVars, priceVars
<1> QED
  BY <1>3, <1>4 DEF CallsInv

(* A position opens or closes.                                              *)
LEMMA TradeCalls ==
  ASSUME NEW s \in Symbols, CallsInv, Trade(s)
  PROVE  CallsInv'
<1>3. Typed'
  BY Blank, MarketCachesAssumption DEF CallsInv, Typed, Trade, clock, cacheVars, priceVars
<1>4. ASSUME NEW d \in Callers PROVE Asked(d)'
  BY Blank DEF CallsInv, Typed, Asked, Idle, Caching, Trade, clock, cacheVars, priceVars
<1> QED
  BY <1>3, <1>4 DEF CallsInv

(* A restart forgets all requests.                                          *)
LEMMA RestartCalls ==
  ASSUME CallsInv, Restart
  PROVE  CallsInv'
<1>3. Typed'
  <2>1. /\ waiting' \in [Callers -> Requests] /\ entry' \in Entries
        /\ price' \in [Symbols -> {None} \cup Nat]
    BY Blank DEF Restart, Forget
  <2>2. blockedUntil' = 0 /\ refreshing' = FALSE
    BY DEF Restart, Forget
  <2>3. UNCHANGED <<subject, now, version, began, spent, misled, held>>
    BY DEF Restart, clock
  <2>4. excused' \in Nat /\ restarts' \in Nat
    BY DEF CallsInv, Typed, Restart
  <2> QED
    BY <2>1, <2>2, <2>3, <2>4 DEF CallsInv, Typed
<1>4. ASSUME NEW d \in Callers PROVE Asked(d)'
  BY Blank DEF CallsInv, Typed, Asked, Idle, Caching, Restart, Forget, clock, cacheVars,
     priceVars
<1> QED
  BY <1>3, <1>4 DEF CallsInv
-----------------------------------------------------------------------------
(* Steps that touch neither prices nor refreshes.                           *)
LEMMA QuotedFrame ==
  ASSUME CallsInv, CallsInv', Quoted, UNCHANGED <<subject, price>>, version' >= version,
         Pricing => UNCHANGED <<refreshing, waiting>>
  PROVE  Quoted'
<1>1. version \in Nat /\ version' \in Nat /\ \A s \in Symbols : price[s] \in {None} \cup Nat
  BY DEF CallsInv, Typed
<1>2. \A s \in Symbols : price'[s] <= version'
  BY <1>1 DEF Quoted, None
<1> QED
  BY <1>2 DEF Quoted, Pricing, Idle

(* A refresh begins when none is under way, so every price is older than    *)
(* it.                                                                      *)
LEMMA RefreshQuoted ==
  ASSUME NEW c \in Callers, NEW known \in {held, {}}, CallsInv, CallsInv', Quoted,
         Refresh(c, known)
  PROVE  Quoted'
<1> DEFINE symbols == Watched \cup known
           w == IF symbols = {} THEN NotWaiting ELSE Request(0, symbols)
<1>1. /\ waiting' = [waiting EXCEPT ![c] = w] /\ refreshing' = (symbols # {})
      /\ UNCHANGED <<subject, version, price>> /\ Pricing /\ ~refreshing
  BY DEF Refresh, MayRefresh, clock
<1>2. symbols \in SUBSET Symbols
  BY MarketCachesAssumption DEF CallsInv, Typed
<1>3. w # NotWaiting => symbols # {} /\ w.from = version
  BY <1>2, SentTyped DEF CallsInv
<1> HIDE DEF w
<1>4. \A d \in Callers : Idle(d)
  BY <1>1 DEF Quoted
<1>5. \A d \in Callers : ~Idle(d)' => d = c /\ w # NotWaiting /\ waiting'[d] = w
  BY <1>1, <1>4 DEF CallsInv, Typed, Idle
<1>6. \A d \in Callers : \A s \in waiting'[d].symbols : s \in Symbols
  BY DEF CallsInv, Typed, Requests
<1> QED
  BY <1>1, <1>3, <1>5, <1>6 DEF Quoted, Pricing

(* The price of a symbol without a quote is kept.                           *)
LEMMA NoQuoteQuoted ==
  ASSUME NEW c \in Callers, NEW s \in Symbols, CallsInv, CallsInv', Quoted, NoQuote(c, s)
  PROVE  Quoted'
<1> DEFINE left == waiting[c].symbols \ {s}
           w == IF left = {} THEN NotWaiting ELSE [waiting[c] EXCEPT !.symbols = left]
<1>1. /\ waiting' = [waiting EXCEPT ![c] = w] /\ refreshing' = (left # {})
      /\ UNCHANGED <<subject, version, price>> /\ Pricing
      /\ waiting[c] \in Requests /\ s \in waiting[c].symbols
  BY DEF NoQuote, Answered, clock, CallsInv, Typed
<1>2. ~Idle(c)
  BY <1>1, Blank DEF Idle
<1>3. \A d \in Callers : ~Idle(d) => d = c
  BY <1>1, <1>2 DEF Quoted
<1>4. left \in SUBSET Symbols
  BY <1>1 DEF Requests
<1>5. w # NotWaiting => left # {} /\ w.from = waiting[c].from /\ w.symbols = left
  BY <1>1, <1>4, LeftTyped
<1> HIDE DEF w
<1>6. \A d \in Callers : ~Idle(d)' => d = c /\ w # NotWaiting /\ waiting'[d] = w
  BY <1>1, <1>3 DEF CallsInv, Typed, Idle
<1> QED
  BY <1>1, <1>2, <1>4, <1>5, <1>6 DEF Quoted, Pricing

(* A quote is at least as new as its refresh, and so as the price that it   *)
(* replaces.                                                                *)
LEMMA QuoteQuoted ==
  ASSUME NEW c \in Callers, NEW s \in Symbols, NEW data \in 0..version,
         CallsInv, CallsInv', Quoted, Quote(c, s, data)
  PROVE  Quoted' /\ \A t \in Symbols : price'[t] >= price[t]
<1> DEFINE left == waiting[c].symbols \ {s}
           w == IF left = {} THEN NotWaiting ELSE [waiting[c] EXCEPT !.symbols = left]
<1>1. /\ waiting' = [waiting EXCEPT ![c] = w] /\ refreshing' = (left # {})
      /\ UNCHANGED <<subject, version>> /\ Pricing /\ price' = [price EXCEPT ![s] = data]
      /\ waiting[c] \in Requests /\ s \in waiting[c].symbols /\ data >= waiting[c].from
  BY DEF Quote, Answered, clock, CallsInv, Typed
<1>2. ~Idle(c)
  BY <1>1, Blank DEF Idle
<1>3. \A d \in Callers : ~Idle(d) => d = c
  BY <1>1, <1>2 DEF Quoted
<1>4. left \in SUBSET Symbols /\ s \notin left
  BY <1>1 DEF Requests
<1>5. w # NotWaiting => left # {} /\ w.from = waiting[c].from /\ w.symbols = left
  BY <1>1, <1>4, LeftTyped
<1> HIDE DEF w
<1>6. \A d \in Callers : ~Idle(d)' => d = c /\ w # NotWaiting /\ waiting'[d] = w
  BY <1>1, <1>3 DEF CallsInv, Typed, Idle
<1>7. /\ price \in [Symbols -> {None} \cup Nat] /\ version \in Nat /\ data \in Nat
      /\ data <= version /\ waiting[c].from \in Nat
  BY <1>2 DEF CallsInv, Typed, Asked
<1>8. \A t \in Symbols : price'[t] = IF t = s THEN data ELSE price[t]
  BY <1>1, <1>7
<1>9. \A t \in left : price'[t] <= waiting[c].from
  BY <1>1, <1>2, <1>4, <1>8 DEF Quoted
<1>10. \A t \in Symbols : price'[t] <= version'
  BY <1>1, <1>7, <1>8 DEF Quoted
<1>11. price[s] <= waiting[c].from /\ price[s] \in Int /\ \A t \in Symbols : price[t] \in Int
  BY <1>1, <1>2, <1>7 DEF Quoted, None
<1>12. \A t \in Symbols : price'[t] >= price[t]
  BY <1>1, <1>7, <1>8, <1>11
<1> QED
  BY <1>1, <1>5, <1>6, <1>9, <1>10, <1>12 DEF Quoted, Pricing

(* A restart forgets the prices.                                            *)
LEMMA RestartQuoted ==
  ASSUME CallsInv, Restart
  PROVE  Quoted'
<1>1. /\ \A c \in Callers : Idle(c)'
      /\ version' = version /\ version \in Nat /\ \A s \in Symbols : price'[s] = None
  BY DEF Restart, Forget, Idle, clock, CallsInv, Typed
<1> QED
  BY <1>1 DEF Quoted, None
-----------------------------------------------------------------------------
(* Steps that leave the entry, what was served and the times of the         *)
(* requests alone.                                                          *)
LEMMA AgedFrame ==
  ASSUME Aged, UNCHANGED <<began, version, now, entry, served>>,
         \A c \in Callers : ~Idle(c)' =>
           ~Idle(c) /\ waiting'[c].asked = waiting[c].asked /\ waiting'[c].from = waiting[c].from
  PROVE  Aged'
BY DEF Aged, AsNewAs

(* What a request will be answered with is at least as new as the time it   *)
(* was sent.                                                                *)
LEMMA SentAged ==
  ASSUME CallsInv, Aged, NEW c \in Callers, NEW n \in Nat, NEW symbols \in SUBSET Symbols,
         UNCHANGED <<began, version, now, entry, served>>,
         NEW w, w = NotWaiting \/ w = Request(n, symbols), waiting' = [waiting EXCEPT ![c] = w]
  PROVE  Aged'
<1>1. w # NotWaiting => w.asked = now /\ w.from = version
  BY SentTyped DEF CallsInv
<1>2. \A d \in Callers : ~Idle(d)' =>
        AsNewAs(began', waiting'[d].from, waiting'[d].asked)
  BY <1>1 DEF CallsInv, Typed, Aged, Idle, AsNewAs
<1> QED
  BY <1>2 DEF Aged, AsNewAs

(* A tick begins with what is outside.                                      *)
LEMMA TickAged ==
  ASSUME CallsInv, CallsInv', Aged, Tick
  PROVE  Aged'
<1>1. /\ UNCHANGED <<waiting, version, entry>> /\ now' = now + 1 /\ served' = NoAnswer
      /\ now \in Nat /\ now + 1 \in 0..MaxTime /\ began \in [0..MaxTime -> Nat]
      /\ began' = [began EXCEPT ![now + 1] = version] /\ version \in Nat
  BY MarketCachesAssumption DEF Tick, CallsInv, Typed
<1>2. \A u \in 0..MaxTime : began'[u] = IF u = now + 1 THEN version ELSE began[u]
  BY <1>1
<1>3. \A data, t : t \in 0..now /\ AsNewAs(began, data, t) => AsNewAs(began', data, t)
  BY <1>1, <1>2, MarketCachesAssumption DEF AsNewAs
<1>4. AsNewAs(began', version', now')
  BY <1>1, <1>2, MarketCachesAssumption DEF Aged, AsNewAs
<1>5. \A c \in Callers : ~Idle(c)' => AsNewAs(began', waiting[c].from, waiting[c].asked)
  BY <1>1, <1>3 DEF Aged, Idle, CallsInv, Asked
<1>6. entry # NoEntry => AsNewAs(began', entry.data, entry.writtenAt)
  BY <1>3 DEF Aged
<1>7. entry # NoEntry => entry.writtenAt \in 0..now'
  BY <1>1 DEF Aged
<1> QED
  BY <1>1, <1>4, <1>5, <1>6, <1>7 DEF Aged, AsNewAs, NoAnswer

(* What is outside only gets newer.                                         *)
LEMMA PublishAged ==
  ASSUME CallsInv, CallsInv', Aged, Publish
  PROVE  Aged'
<1>1. /\ UNCHANGED <<waiting, now, entry, served, began>> /\ version' = version + 1
      /\ version \in Nat /\ began \in [0..MaxTime -> Nat] /\ now \in Nat
  BY DEF Publish, CallsInv, Typed, cacheVars
<1>2. AsNewAs(began', version', now')
  BY <1>1, MarketCachesAssumption DEF Aged, AsNewAs
<1>3. entry # NoEntry => entry.data \in 0..version'
  BY <1>1 DEF Aged
<1> QED
  BY <1>1, <1>2, <1>3 DEF Aged, AsNewAs, Idle

(* A fresh entry was written less than a time to live ago.                  *)
LEMMA HitAged ==
  ASSUME NEW c \in Callers, CallsInv, Aged, Hit(c)
  PROVE  Aged'
<1>1. /\ UNCHANGED <<waiting, now, entry, began, version>> /\ entry # NoEntry
      /\ served' = [data |-> entry.data, asked |-> now, stale |-> Blocked]
      /\ Blocked \/ Fresh
  BY DEF Hit, Return, clock
<1>2. ASSUME ~Blocked PROVE AsNewAs(began, entry.data, now - Ttl + 1)
  <2>1. now - entry.writtenAt < Ttl /\ entry.writtenAt \in Nat /\ now \in Nat
    BY <1>1, <1>2 DEF Fresh, Aged, CallsInv, Typed
  <2>2. \A u \in 0..MaxTime : u <= now - Ttl + 1 => u <= entry.writtenAt
    BY <2>1, MarketCachesAssumption
  <2> QED
    BY <1>1, <2>2 DEF Aged, AsNewAs
<1>3. ~served'.stale => AsNewAs(began', served'.data, served'.asked - Ttl + 1)
  BY <1>1, <1>2 DEF AsNewAs
<1> QED
  BY <1>1, <1>3 DEF Aged, AsNewAs, Idle

(* The entry counts from the time that its request was sent.                *)
LEMMA ResponseAged ==
  ASSUME NEW c \in Callers, NEW data \in 0..version, NEW header \in BOOLEAN,
         CallsInv, CallsInv', Aged, Response(c, data, header)
  PROVE  Aged'
<1> DEFINE asked == waiting[c].asked
<1>1. /\ UNCHANGED <<now, began, version>> /\ ~Idle(c) /\ data >= waiting[c].from
      /\ entry' = [data |-> data, writtenAt |-> asked]
      /\ served' = [data |-> data, asked |-> asked, stale |-> FALSE]
      /\ waiting' = [waiting EXCEPT ![c] = NotWaiting]
  BY DEF Response, Sent, Done, Return, Written, clock
<1>2. /\ asked \in 0..now /\ waiting[c].from \in 0..version /\ data \in Nat /\ asked \in Nat
      /\ began \in [0..MaxTime -> Nat]
  BY <1>1 DEF CallsInv, Typed, Asked
<1>3. AsNewAs(began, waiting[c].from, asked)
  BY <1>1 DEF Aged
<1> HIDE DEF asked
<1>4. AsNewAs(began', data, asked)
  BY <1>1, <1>2, <1>3 DEF AsNewAs
<1>5. AsNewAs(began', data, asked - Ttl + 1)
  <2>1. \A u \in 0..MaxTime : u <= asked - Ttl + 1 => u <= asked
    BY <1>2, MarketCachesAssumption
  <2> QED
    BY <1>4, <2>1 DEF AsNewAs
<1>6. \A d \in Callers : ~Idle(d)' => ~Idle(d) /\ waiting'[d] = waiting[d]
  BY <1>1 DEF CallsInv, Typed, Idle
<1>7. data \in 0..version /\ asked \in 0..now
  BY <1>2
<1> QED
  BY <1>1, <1>4, <1>5, <1>6, <1>7 DEF Aged, AsNewAs

(* A 429 returns the entry as stale.                                        *)
LEMMA TooManyAged ==
  ASSUME NEW c \in Callers, CallsInv, Aged, TooMany(c)
  PROVE  Aged'
<1>1. /\ UNCHANGED <<now, began, version, entry>>
      /\ served' = served \/ served'.stale
      /\ waiting' = [waiting EXCEPT ![c] = NotWaiting]
  BY DEF TooMany, Done, Return, clock
<1>2. \A d \in Callers : ~Idle(d)' => ~Idle(d) /\ waiting'[d] = waiting[d]
  BY <1>1 DEF CallsInv, Typed, Idle
<1> QED
  BY <1>1, <1>2 DEF Aged, AsNewAs

(* A restart forgets the entry.                                             *)
LEMMA RestartAged ==
  ASSUME CallsInv, Aged, Restart
  PROVE  Aged'
<1>1. /\ UNCHANGED <<now, began, version, served>> /\ entry' = NoEntry
      /\ \A c \in Callers : Idle(c)'
  BY DEF Restart, Forget, Idle, clock
<1> QED
  BY <1>1 DEF Aged, AsNewAs
-----------------------------------------------------------------------------
(* Steps that leave the quota and the requests alone.                       *)
LEMMA SparedFrame ==
  ASSUME Spared, UNCHANGED <<subject, now, blockedUntil, misled, spent, excused, waiting>>
  PROVE  Spared'
BY DEF Spared, Midnight, NextMidnight, Busy, Idle, Blocked, Before, Crossed

(* Where there is no quota there is no block.                               *)
LEMMA SparedElse ==
  ASSUME CallsInv', subject' # "bargo", blockedUntil' = 0
  PROVE  Spared'
<1>1. now' \in Nat /\ DayLength \in Nat \ {0}
  BY MarketCachesAssumption DEF CallsInv, Typed
<1>3. NextMidnight' \in Nat
  BY <1>1, MidnightAfter DEF NextMidnight
<1>2. 0 % DayLength = 0
  BY <1>1
<1> QED
  BY <1>1, <1>2, <1>3 DEF Spared, Midnight

(* At midnight the count starts over and the block ends; before it, neither *)
(* changes.                                                                 *)
LEMMA TickSpared ==
  ASSUME CallsInv, CallsInv', Spared, Tick
  PROVE  Spared'
<1>1. /\ UNCHANGED <<subject, waiting, blockedUntil>> /\ now' = now + 1
      /\ now \in Nat /\ blockedUntil \in Nat /\ DayLength \in Nat \ {0}
      /\ Quota - Floor \in Nat \ {0} /\ spent \in Nat /\ excused \in Nat
  BY MarketCachesAssumption DEF Tick, CallsInv, Typed
<1>2. CASE subject # "bargo"
  BY <1>1, <1>2, SparedElse DEF Spared
<1>3. CASE subject = "bargo" /\ Midnight(now + 1)
  <2>1. spent' = 0 /\ excused' = 0 /\ ~misled' = TRUE
    BY <1>3 DEF Tick
  <2>2. now + 1 = NextMidnight /\ \A m \in 0..now : m \div DayLength # (now + 1) \div DayLength
    BY <1>1, <1>3, NewDay DEF Midnight, NextMidnight
  <2>3. blockedUntil <= now'
    BY <1>1, <2>2 DEF Spared
  <2>4. now' < NextMidnight' /\ NextMidnight' \in Nat
    BY <1>1, MidnightAfter DEF NextMidnight
  <2>5. Midnight(blockedUntil)' /\ blockedUntil' <= NextMidnight'
    BY <1>1, <2>3, <2>4 DEF Spared, Midnight
  <2>6. \A c \in Busy' : Before(c)' = 0
    <3>1. \A c \in Busy' : waiting[c].asked \in 0..now
      BY <1>1 DEF Busy, Idle, CallsInv, Asked
    <3> QED
      BY <1>1, <2>2, <3>1 DEF Before, Crossed
  <2> QED
    BY <1>1, <1>3, <2>1, <2>3, <2>5, <2>6 DEF Spared
<1>4. CASE subject = "bargo" /\ ~Midnight(now + 1)
  <2>1. UNCHANGED <<spent, excused, misled>>
    BY <1>4 DEF Tick
  <2>2. (now + 1) \div DayLength = now \div DayLength
    BY <1>1, <1>4, SameDay DEF Midnight
  <2>3. NextMidnight' = NextMidnight
    BY <1>1, <2>2 DEF NextMidnight
  <2>4. now' < blockedUntil <=> now < blockedUntil
    <3>1. now + 1 # blockedUntil
      BY <1>4 DEF Spared
    <3> QED
      BY <1>1, <3>1
  <2>5. \A c \in Callers : Before(c)' = Before(c)
    BY <1>1, <2>2 DEF Before, Crossed
  <2>6. Blocked' <=> Blocked
    BY <1>1, <2>4 DEF Blocked
  <2>7. Busy' = Busy /\ Busy \subseteq Callers
    BY <1>1 DEF Busy, Idle
  <2> QED
    BY <1>1, <2>1, <2>3, <2>4, <2>5, <2>6, <2>7 DEF Spared, Midnight
<1> QED
  BY <1>2, <1>3, <1>4

(* A request costs one, and is counted as sent into another if there is     *)
(* one.                                                                     *)
LEMMA MissSpared ==
  ASSUME NEW c \in Callers, CallsInv, CallsInv', Spared, Miss(c)
  PROVE  Spared'
<1>1. /\ UNCHANGED <<subject, now, blockedUntil, misled>>
      /\ waiting' = [waiting EXCEPT ![c] = Request(spent + 1, {})] /\ Idle(c) /\ ~Blocked
      /\ spent \in Nat /\ excused \in Nat /\ Quota - Floor \in Nat
  BY MarketCachesAssumption DEF Miss, clock, CallsInv, Typed
<1>2. CASE subject # "bargo"
  BY <1>1, <1>2, SparedElse DEF Spared
<1>3. CASE subject = "bargo"
  <2>1. spent' = spent + 1 /\ excused' = excused + (IF Busy # {} THEN 1 ELSE 0)
    BY <1>3 DEF Miss
  <2>2. waiting'[c].asked = now /\ waiting'[c].ordinal = spent + 1
    BY <1>1, SentTyped DEF CallsInv, Typed
  <2>3. Before(c)' = spent + 1
    BY <1>1, <2>2 DEF Before, Crossed
  <2>4. \A d \in Callers : d # c => waiting'[d] = waiting[d]
    BY <1>1 DEF CallsInv, Typed
  <2>5. \A d \in Busy' : d \in Callers /\ (d # c => d \in Busy /\ Before(d)' = Before(d))
    BY <1>1, <2>4 DEF Busy, Idle, Before, Crossed
  <2>6. c \in Busy'
    BY <1>1, SentTyped DEF CallsInv, Typed, Busy, Idle
  <2>7. \A d \in Callers : Before(d) \in Nat
    BY DEF CallsInv, Typed, Requests, Before
  <2>8. \A d \in Busy' : Before(d)' <= spent' /\ spent' <= Before(d)' + excused'
    BY <1>1, <1>3, <2>1, <2>3, <2>5, <2>7 DEF Spared
  <2>9. spent' <= Quota - Floor + excused'
    BY <1>1, <1>3, <2>1 DEF Spared
  <2>10. now' < blockedUntil' /\ ~misled' => spent' >= Quota - Floor
    BY <1>1, <2>1 DEF Spared
  <2> QED
    BY <1>1, <1>3, <2>6, <2>8, <2>9, <2>10 DEF Spared, Midnight, NextMidnight
<1> QED
  BY <1>2, <1>3

(* The other callers wait on when c is done.                                *)
LEMMA OthersWait ==
  ASSUME NEW c \in Callers, CallsInv, Done(c), UNCHANGED now
  PROVE  Busy' = Busy \ {c} /\ \A d \in Busy' : Before(d)' = Before(d)
BY DEF CallsInv, Typed, Done, Busy, Idle, Before, Crossed

(* The last response of those under way speaks for all but the requests     *)
(* that were sent into it: either it blocks, or a request more can be       *)
(* afforded.                                                                *)
LEMMA ResponseSpared ==
  ASSUME NEW c \in Callers, NEW data \in 0..version, NEW header \in BOOLEAN,
         CallsInv, CallsInv', Spared, Response(c, data, header)
  PROVE  Spared'
<1>1. /\ UNCHANGED <<subject, now, spent, excused>> /\ Done(c) /\ c \in Busy
      /\ spent \in Nat /\ excused \in Nat /\ Quota \in Nat /\ Floor \in Nat /\ Floor < Quota
      /\ waiting[c].ordinal \in Nat /\ misled \in BOOLEAN
  BY MarketCachesAssumption DEF Response, clock, CallsInv, Typed, Requests, Sent, Busy
<1>2. CASE subject # "bargo"
  <2>1. blockedUntil' = blockedUntil
    BY <1>2 DEF Response
  <2> QED
    BY <1>1, <1>2, <2>1, SparedElse DEF Spared
<1>3. CASE subject = "bargo"
  <2> DEFINE remaining == IF header THEN Quota - waiting[c].ordinal ELSE 0
  <2>1. Busy' = Busy \ {c} /\ \A d \in Busy' : Before(d)' = Before(d)
    BY <1>1, OthersWait
  <2>2. /\ \A d \in Busy' : Before(d)' <= spent' /\ spent' <= Before(d)' + excused'
        /\ spent' <= Quota - Floor + excused'
    BY <1>1, <1>3, <2>1 DEF Spared
  <2>3. Before(c) <= spent /\ spent <= Before(c) + excused
    BY <1>1, <1>3 DEF Spared
  <2>4. NextMidnight' = NextMidnight /\ NextMidnight \in Nat /\ now < NextMidnight
        /\ Midnight(NextMidnight)
    BY <1>1, MidnightComes DEF CallsInv, NextMidnight
  <2>5. CASE remaining <= Floor
    <3>1. blockedUntil' = NextMidnight /\ misled' = (misled \/ ~header \/ Crossed(c))
      BY <1>3, <2>5 DEF Response, Spares
    <3>2. ~misled' => spent >= Quota - Floor
      <4>1. ~misled' => header /\ ~Crossed(c)
        BY <3>1
      <4>2. header /\ ~Crossed(c) => Quota - waiting[c].ordinal <= Floor
                                     /\ waiting[c].ordinal <= spent
        BY <2>3, <2>5 DEF Before
      <4>3. Quota - waiting[c].ordinal <= Floor /\ waiting[c].ordinal <= spent
              => spent >= Quota - Floor
        BY <1>1
      <4> QED
        BY <4>1, <4>2, <4>3
    <3>3. Blocked'
      BY <1>1, <1>3, <2>4, <3>1 DEF Blocked
    <3> QED
      BY <1>1, <1>3, <2>2, <2>4, <3>1, <3>2, <3>3 DEF Spared, Midnight
  <2>6. CASE ~(remaining <= Floor)
    <3>1. blockedUntil' = blockedUntil /\ misled' = misled
      <4>1. ~Spares(remaining)
        BY <2>6 DEF Spares
      <4>2. /\ blockedUntil' = IF subject = "bargo" /\ Spares(remaining) THEN NextMidnight
                              ELSE blockedUntil
            /\ misled' = (misled \/ (subject = "bargo" /\ Spares(remaining)
                                     /\ (~header \/ Crossed(c))))
        BY DEF Response
      <4> HIDE DEF remaining
      <4>3. blockedUntil' = blockedUntil /\ misled' = (misled \/ FALSE)
        BY <4>1, <4>2
      <4> QED
        BY <1>1, <4>3
    <3>2. Before(c) < Quota - Floor
      BY <1>1, <2>6 DEF Before
    <3>3. spent' < Quota - Floor + excused'
      <4>1. Before(c) \in Nat
        BY <1>1 DEF Before
      <4> QED
        BY <1>1, <2>3, <3>2, <4>1
    <3> QED
      BY <1>1, <1>3, <2>2, <2>4, <3>1, <3>3 DEF Spared, Midnight
  <2> QED
    BY <2>5, <2>6
<1> QED
  BY <1>2, <1>3

(* A 429 comes when more than the quota was spent.                          *)
LEMMA TooManySpared ==
  ASSUME NEW c \in Callers, CallsInv, CallsInv', Spared, TooMany(c)
  PROVE  Spared'
<1>1. /\ UNCHANGED <<subject, now, spent, excused>> /\ Done(c) /\ c \in Busy
      /\ subject = "bargo" /\ waiting[c].ordinal > Quota
      /\ blockedUntil' = NextMidnight /\ misled' = (misled \/ Crossed(c))
      /\ spent \in Nat /\ excused \in Nat /\ Quota \in Nat /\ Floor \in Nat /\ Floor < Quota
      /\ waiting[c].ordinal \in Nat /\ misled \in BOOLEAN
  BY MarketCachesAssumption DEF TooMany, clock, CallsInv, Typed, Requests, Sent, Busy
<1>2. Busy' = Busy \ {c} /\ \A d \in Busy' : Before(d)' = Before(d)
  BY <1>1, OthersWait
<1>3. /\ \A d \in Busy' : Before(d)' <= spent' /\ spent' <= Before(d)' + excused'
      /\ spent' <= Quota - Floor + excused'
  BY <1>1, <1>2 DEF Spared
<1>4. /\ NextMidnight' = NextMidnight /\ NextMidnight \in Nat /\ now < NextMidnight
      /\ Midnight(NextMidnight)
  BY <1>1, MidnightComes DEF CallsInv, NextMidnight
<1>5. ~misled' => spent >= Quota - Floor
  <2>1. ~misled' => ~Crossed(c)
    BY <1>1
  <2>2. ~Crossed(c) => waiting[c].ordinal <= spent
    BY <1>1 DEF Spared, Before
  <2>3. waiting[c].ordinal <= spent => spent >= Quota - Floor
    BY <1>1
  <2> QED
    BY <2>1, <2>2, <2>3
<1>6. Blocked'
  BY <1>1, <1>4 DEF Blocked
<1> QED
  BY <1>1, <1>3, <1>4, <1>5, <1>6 DEF Spared, Midnight

(* A request that failed is excused.                                        *)
LEMMA NoResponseSpared ==
  ASSUME NEW c \in Callers, CallsInv, CallsInv', Spared, NoResponse(c)
  PROVE  Spared'
<1>1. /\ UNCHANGED <<subject, now, spent, blockedUntil, misled>> /\ Done(c)
      /\ spent \in Nat /\ excused \in Nat /\ Quota - Floor \in Nat
  BY MarketCachesAssumption DEF NoResponse, clock, CallsInv, Typed
<1>2. CASE subject # "bargo"
  BY <1>1, <1>2, SparedElse DEF Spared
<1>3. CASE subject = "bargo"
  <2>1. excused' = excused + 1
    BY <1>3 DEF NoResponse
  <2>2. Busy' = Busy \ {c} /\ \A d \in Busy' : Before(d)' = Before(d) /\ Before(d) \in Nat
    BY <1>1, OthersWait DEF Busy, CallsInv, Typed, Requests, Before
  <2> QED
    BY <1>1, <1>3, <2>1, <2>2 DEF Spared, Midnight, NextMidnight
<1> QED
  BY <1>2, <1>3

(* A restart forgets the block, which is excused once.                      *)
LEMMA RestartSpared ==
  ASSUME CallsInv, CallsInv', Spared, Restart
  PROVE  Spared'
<1>1. /\ UNCHANGED <<subject, now, spent, misled>> /\ blockedUntil' = 0 /\ Busy' = {}
      /\ spent \in Nat /\ excused \in Nat /\ Quota - Floor \in Nat
  BY MarketCachesAssumption DEF Restart, Forget, clock, CallsInv, Typed, Busy, Idle
<1>2. CASE subject # "bargo"
  BY <1>1, <1>2, SparedElse
<1>3. CASE subject = "bargo"
  <2>1. excused' = excused + 1
    BY <1>3 DEF Restart
  <2>2. now' \in Nat /\ DayLength \in Nat \ {0}
    BY MarketCachesAssumption DEF CallsInv, Typed
  <2>4. NextMidnight' \in Nat
    BY <2>2, MidnightAfter DEF NextMidnight
  <2>3. 0 % DayLength = 0
    BY <2>2
  <2> QED
    BY <1>1, <1>3, <2>1, <2>2, <2>3, <2>4 DEF Spared, Midnight
<1> QED
  BY <1>2, <1>3
-----------------------------------------------------------------------------
(* The first state.                                                         *)
LEMMA InitCachesInv == ASSUME Init PROVE CachesInv
<1>1. /\ MaxTime \in Nat /\ MaxVersion \in Nat /\ DayLength \in Nat \ {0} /\ 0 % DayLength = 0
      /\ Quota - Floor \in Nat \ {0} /\ subject \in {"bargo", "dashboard", "prices"}
  BY MarketCachesAssumption DEF Init
<1>2. Typed
  <2>1. /\ now \in 0..MaxTime /\ version \in 0..MaxVersion /\ began \in [0..MaxTime -> Nat]
        /\ price \in [Symbols -> {None} \cup Nat] /\ held \subseteq Symbols
    BY <1>1 DEF Init
  <2>2. /\ blockedUntil \in Nat /\ spent \in Nat /\ excused \in Nat /\ restarts \in Nat
    BY DEF Init
  <2>3. misled = FALSE /\ refreshing = FALSE
    BY DEF Init
  <2>4. waiting \in [Callers -> Requests] /\ entry \in Entries
    BY Blank DEF Init
  <2> QED
    BY <1>1, <2>1, <2>2, <2>3, <2>4 DEF Typed
<1>3. CallsInv
  BY <1>2 DEF Init, CallsInv, Asked, Idle
<1>4. Quoted
  BY DEF Init, Quoted, Idle, None
<1>5. Aged
  BY <1>1 DEF Init, Aged, AsNewAs, Idle, NoAnswer
<1>6. Spared
  <2>1. NextMidnight \in Nat
    BY <1>2, MidnightComes
  <2>2. Busy = {}
    BY DEF Init, Busy, Idle
  <2> QED
    BY <1>1, <2>1, <2>2 DEF Init, Spared, Midnight
<1> QED
  BY <1>3, <1>4, <1>5, <1>6 DEF CachesInv

(* Every step keeps the invariant.                                          *)
LEMMA NextCachesInv == ASSUME CachesInv, [Next]_vars PROVE CachesInv'
<1> USE DEF CachesInv
<1>1. ASSUME Tick PROVE CachesInv'
  <2>1. CallsInv'
    BY <1>1, TickCalls
  <2>2. Quoted'
    <3>1. /\ UNCHANGED <<subject, price>> /\ version' >= version
          /\ Pricing => UNCHANGED <<refreshing, waiting>>
      BY <1>1 DEF CallsInv, Typed, Tick, Caching, Pricing, clock, cacheVars, priceVars
    <3> QED
      BY <2>1, <3>1, QuotedFrame
  <2>3. Aged'
    BY <1>1, <2>1, TickAged
  <2>4. Spared'
    BY <1>1, <2>1, TickSpared
  <2> QED
    BY <2>1, <2>2, <2>3, <2>4
<1>2. ASSUME Publish PROVE CachesInv'
  <2>1. CallsInv'
    BY <1>2, PublishCalls
  <2>2. Quoted'
    <3>1. /\ UNCHANGED <<subject, price>> /\ version' >= version
          /\ Pricing => UNCHANGED <<refreshing, waiting>>
      BY <1>2 DEF CallsInv, Typed, Publish, Caching, Pricing, clock, cacheVars, priceVars
    <3> QED
      BY <2>1, <3>1, QuotedFrame
  <2>3. Aged'
    BY <1>2, <2>1, PublishAged
  <2>4. Spared'
    <3>1. UNCHANGED <<subject, now, blockedUntil, misled, spent, excused, waiting>>
      BY <1>2 DEF Publish, clock, cacheVars
    <3> QED
      BY <3>1, SparedFrame
  <2> QED
    BY <2>1, <2>2, <2>3, <2>4
<1>3. ASSUME NEW c \in Callers, Hit(c) PROVE CachesInv'
  <2>1. CallsInv'
    BY <1>3, HitCalls
  <2>2. Quoted'
    <3>1. /\ UNCHANGED <<subject, price>> /\ version' >= version
          /\ Pricing => UNCHANGED <<refreshing, waiting>>
      BY <1>3 DEF CallsInv, Typed, Hit, Caching, Pricing, clock, cacheVars, priceVars
    <3> QED
      BY <2>1, <3>1, QuotedFrame
  <2>3. Aged'
    BY <1>3, <2>1, HitAged
  <2>4. Spared'
    <3>1. UNCHANGED <<subject, now, blockedUntil, misled, spent, excused, waiting>>
      BY <1>3 DEF Hit, clock, cacheVars
    <3> QED
      BY <3>1, SparedFrame
  <2> QED
    BY <2>1, <2>2, <2>3, <2>4
<1>4. ASSUME NEW c \in Callers, Miss(c) PROVE CachesInv'
  <2>1. CallsInv'
    BY <1>4, MissCalls
  <2>2. Quoted'
    <3>1. /\ UNCHANGED <<subject, price>> /\ version' >= version
          /\ Pricing => UNCHANGED <<refreshing, waiting>>
      BY <1>4 DEF CallsInv, Typed, Miss, Caching, Pricing, clock, cacheVars, priceVars
    <3> QED
      BY <2>1, <3>1, QuotedFrame
  <2>3. Aged'
    <3>1. /\ UNCHANGED <<began, version, now, entry, served>> /\ spent + 1 \in Nat
          /\ waiting' = [waiting EXCEPT ![c] = Request(spent + 1, {})]
      BY <1>4 DEF CallsInv, Typed, Miss, clock
    <3> QED
      BY <3>1, SentAged
  <2>4. Spared'
    BY <1>4, <2>1, MissSpared
  <2> QED
    BY <2>1, <2>2, <2>3, <2>4
<1>5. ASSUME NEW c \in Callers, NEW data \in 0..version, NEW header \in BOOLEAN,
             Response(c, data, header)
      PROVE  CachesInv'
  <2>1. CallsInv'
    BY <1>5, ResponseCalls
  <2>2. Quoted'
    <3>1. /\ UNCHANGED <<subject, price>> /\ version' >= version
          /\ Pricing => UNCHANGED <<refreshing, waiting>>
      BY <1>5 DEF CallsInv, Typed, Response, Sent, Caching, Pricing, clock, cacheVars,
         priceVars
    <3> QED
      BY <2>1, <3>1, QuotedFrame
  <2>3. Aged'
    BY <1>5, <2>1, ResponseAged
  <2>4. Spared'
    BY <1>5, <2>1, ResponseSpared
  <2> QED
    BY <2>1, <2>2, <2>3, <2>4
<1>6. ASSUME NEW c \in Callers, TooMany(c) PROVE CachesInv'
  <2>1. CallsInv'
    BY <1>6, TooManyCalls
  <2>2. Quoted'
    <3>1. /\ UNCHANGED <<subject, price>> /\ version' >= version
          /\ Pricing => UNCHANGED <<refreshing, waiting>>
      BY <1>6 DEF CallsInv, Typed, TooMany, Sent, Caching, Pricing, clock, cacheVars,
         priceVars
    <3> QED
      BY <2>1, <3>1, QuotedFrame
  <2>3. Aged'
    BY <1>6, <2>1, TooManyAged
  <2>4. Spared'
    BY <1>6, <2>1, TooManySpared
  <2> QED
    BY <2>1, <2>2, <2>3, <2>4
<1>7. ASSUME NEW c \in Callers, NoResponse(c) PROVE CachesInv'
  <2>1. CallsInv'
    BY <1>7, NoResponseCalls
  <2>2. Quoted'
    <3>1. /\ UNCHANGED <<subject, price>> /\ version' >= version
          /\ Pricing => UNCHANGED <<refreshing, waiting>>
      BY <1>7 DEF CallsInv, Typed, NoResponse, Sent, Caching, Pricing, clock, cacheVars,
         priceVars
    <3> QED
      BY <2>1, <3>1, QuotedFrame
  <2>3. Aged'
    <3>1. /\ UNCHANGED <<began, version, now, entry, served>>
          /\ \A d \in Callers : ~Idle(d)' => ~Idle(d) /\ waiting'[d] = waiting[d]
      BY <1>7 DEF CallsInv, Typed, Idle, NoResponse, Done, clock, cacheVars
    <3> QED
      BY <3>1, AgedFrame
  <2>4. Spared'
    BY <1>7, <2>1, NoResponseSpared
  <2> QED
    BY <2>1, <2>2, <2>3, <2>4
<1>8. ASSUME NEW c \in Callers, NEW known \in {held, {}}, Refresh(c, known) PROVE CachesInv'
  <2>1. CallsInv'
    BY <1>8, RefreshCalls
  <2>2. Quoted'
    BY <1>8, <2>1, RefreshQuoted
  <2>3. Aged'
    <3> DEFINE symbols == Watched \cup known
               w == IF symbols = {} THEN NotWaiting ELSE Request(0, symbols)
    <3>1. /\ UNCHANGED <<began, version, now, entry, served>> /\ symbols \in SUBSET Symbols
          /\ waiting' = [waiting EXCEPT ![c] = w]
      BY <1>8, MarketCachesAssumption DEF CallsInv, Typed, Refresh, clock
    <3>2. w = NotWaiting \/ w = Request(0, symbols)
      OBVIOUS
    <3> HIDE DEF w, symbols
    <3> QED
      BY <3>1, <3>2, SentAged
  <2>4. Spared'
    <3>1. UNCHANGED <<subject, blockedUntil>> /\ subject # "bargo"
      BY <1>8 DEF Refresh, Answered, Pricing, clock
    <3> QED
      BY <2>1, <3>1, SparedElse DEF Spared
  <2> QED
    BY <2>1, <2>2, <2>3, <2>4
<1>9. ASSUME NEW c \in Callers, NEW s \in Symbols, NoQuote(c, s) PROVE CachesInv'
  <2>1. CallsInv'
    BY <1>9, NoQuoteCalls
  <2>2. Quoted'
    BY <1>9, <2>1, NoQuoteQuoted
  <2>3. Aged'
    <3>1. UNCHANGED <<began, version, now, entry, served>>
      BY <1>9 DEF NoQuote, Answered, clock
    <3>2. \A d \in Callers : ~Idle(d)' => /\ ~Idle(d) /\ waiting'[d].asked = waiting[d].asked
                                          /\ waiting'[d].from = waiting[d].from
      <4> DEFINE left == waiting[c].symbols \ {s}
                 w == IF left = {} THEN NotWaiting ELSE [waiting[c] EXCEPT !.symbols = left]
      <4>1. /\ waiting' = [waiting EXCEPT ![c] = w] /\ waiting \in [Callers -> Requests]
            /\ s \in waiting[c].symbols
        BY <1>9 DEF NoQuote, Answered, CallsInv, Typed
      <4>2. ~Idle(c) /\ left \in SUBSET Symbols
        BY <4>1, Blank DEF Idle, Requests
      <4>3. w # NotWaiting => w.asked = waiting[c].asked /\ w.from = waiting[c].from
        BY <4>1, <4>2, LeftTyped
      <4> HIDE DEF w
      <4> QED
        BY <4>1, <4>2, <4>3 DEF Idle
    <3> QED
      BY <3>1, <3>2, AgedFrame
  <2>4. Spared'
    <3>1. UNCHANGED <<subject, blockedUntil>> /\ subject # "bargo"
      BY <1>9 DEF NoQuote, Answered, Pricing, clock
    <3> QED
      BY <2>1, <3>1, SparedElse DEF Spared
  <2> QED
    BY <2>1, <2>2, <2>3, <2>4
<1>10. ASSUME NEW c \in Callers, NEW s \in Symbols, NEW data \in 0..version, Quote(c, s, data)
       PROVE  CachesInv'
  <2>1. CallsInv'
    BY <1>10, QuoteCalls
  <2>2. Quoted'
    BY <1>10, <2>1, QuoteQuoted
  <2>3. Aged'
    <3>1. UNCHANGED <<began, version, now, entry, served>>
      BY <1>10 DEF Quote, Answered, clock
    <3>2. \A d \in Callers : ~Idle(d)' => /\ ~Idle(d) /\ waiting'[d].asked = waiting[d].asked
                                          /\ waiting'[d].from = waiting[d].from
      <4> DEFINE left == waiting[c].symbols \ {s}
                 w == IF left = {} THEN NotWaiting ELSE [waiting[c] EXCEPT !.symbols = left]
      <4>1. /\ waiting' = [waiting EXCEPT ![c] = w] /\ waiting \in [Callers -> Requests]
            /\ s \in waiting[c].symbols
        BY <1>10 DEF Quote, Answered, CallsInv, Typed
      <4>2. ~Idle(c) /\ left \in SUBSET Symbols
        BY <4>1, Blank DEF Idle, Requests
      <4>3. w # NotWaiting => w.asked = waiting[c].asked /\ w.from = waiting[c].from
        BY <4>1, <4>2, LeftTyped
      <4> HIDE DEF w
      <4> QED
        BY <4>1, <4>2, <4>3 DEF Idle
    <3> QED
      BY <3>1, <3>2, AgedFrame
  <2>4. Spared'
    <3>1. UNCHANGED <<subject, blockedUntil>> /\ subject # "bargo"
      BY <1>10 DEF Quote, Answered, Pricing, clock
    <3> QED
      BY <2>1, <3>1, SparedElse DEF Spared
  <2> QED
    BY <2>1, <2>2, <2>3, <2>4
<1>11. ASSUME NEW s \in Symbols, Trade(s) PROVE CachesInv'
  <2>1. CallsInv'
    BY <1>11, TradeCalls
  <2>2. Quoted'
    <3>1. /\ UNCHANGED <<subject, price>> /\ version' >= version
          /\ Pricing => UNCHANGED <<refreshing, waiting>>
      BY <1>11 DEF CallsInv, Typed, Trade, Caching, Pricing, clock, cacheVars, priceVars
    <3> QED
      BY <2>1, <3>1, QuotedFrame
  <2>3. Aged'
    <3>1. /\ UNCHANGED <<began, version, now, entry, served>>
          /\ \A d \in Callers : ~Idle(d)' => ~Idle(d) /\ waiting'[d] = waiting[d]
      BY <1>11 DEF CallsInv, Typed, Idle, Trade, clock, cacheVars
    <3> QED
      BY <3>1, AgedFrame
  <2>4. Spared'
    <3>1. UNCHANGED <<subject, now, blockedUntil, misled, spent, excused, waiting>>
      BY <1>11 DEF Trade, clock, cacheVars
    <3> QED
      BY <3>1, SparedFrame
  <2> QED
    BY <2>1, <2>2, <2>3, <2>4
<1>12. ASSUME Restart PROVE CachesInv'
  <2>1. CallsInv'
    BY <1>12, RestartCalls
  <2>2. Quoted'
    BY <1>12, <2>1, RestartQuoted
  <2>3. Aged'
    BY <1>12, <2>1, RestartAged
  <2>4. Spared'
    BY <1>12, <2>1, RestartSpared
  <2> QED
    BY <2>1, <2>2, <2>3, <2>4
<1>13. CASE UNCHANGED vars
  <2>1. UNCHANGED <<clock, cacheVars, priceVars, restarts>>
    BY <1>13 DEF vars
  <2>2. Typed'
    BY <2>1 DEF CallsInv, Typed, clock, cacheVars, priceVars
  <2>3. CallsInv'
    BY <2>1, <2>2 DEF CallsInv, Asked, Idle, Caching, clock, cacheVars
  <2>4. Quoted'
    BY <2>1 DEF Quoted, Idle, Pricing, clock, cacheVars, priceVars
  <2>5. Aged'
    BY <2>1, AgedFrame DEF clock, cacheVars, Idle
  <2>6. Spared'
    BY <2>1, SparedFrame DEF clock, cacheVars
  <2> QED
    BY <2>3, <2>4, <2>5, <2>6
<1> QED
  BY <1>1, <1>2, <1>3, <1>4, <1>5, <1>6, <1>7, <1>8, <1>9, <1>10, <1>11, <1>12, <1>13
     DEF Next

(* CachesInv holds of every state.                                          *)
THEOREM CachesInvariant == Spec => []CachesInv
  BY InitCachesInv, NextCachesInv, PTL DEF Spec

(* The invariant gives ServedWithinTtl.                                     *)
LEMMA CachesInvServes == ASSUME CachesInv PROVE ServedWithinTtl
<1>1. TypeOK
  <2>1. \A c \in Callers : /\ waiting[c].asked \in {None} \cup 0..now
                           /\ waiting[c].from \in {None} \cup 0..version
                           /\ waiting[c].symbols \subseteq Symbols
    BY DEF CachesInv, CallsInv, Typed, Asked, Idle, NotWaiting, Requests
  <2>2. entry.data \in {None} \cup 0..version
    BY DEF CachesInv, Aged, NoEntry
  <2>3. price \in [Symbols -> {None} \cup 0..version]
    BY DEF CachesInv, CallsInv, Typed, Quoted
  <2> QED
    BY <2>1, <2>2, <2>3 DEF CachesInv, CallsInv, Typed, TypeOK
<1>2. ~served.stale =>
        \A t \in 0..MaxTime : t <= served.asked - Ttl + 1 => served.data >= began[t]
  BY DEF CachesInv, Aged, AsNewAs
<1> QED
  BY <1>1, <1>2 DEF ServedWithinTtl

(* Whatever loads overtake each other: what is returned, and not marked     *)
(* stale, was outside no longer ago than the time to live when the call was *)
(* made.                                                                    *)
THEOREM AnswersAreYoung == Spec => []ServedWithinTtl
  BY CachesInvariant, CachesInvServes, PTL

(* The last Floor requests of a day are left to the operator, but for those *)
(* that nothing could have kept back; and the API is not given up before.   *)
THEOREM FloorIsLeft == Spec => []QuotaIsSpared
<1>1. CachesInv => QuotaIsSpared
  BY DEF CachesInv, Spared, QuotaIsSpared
<1> QED
  BY <1>1, CachesInvariant, PTL

(* Only a quote changes a price while the process lives.                    *)
LEMMA StepsMoveForward ==
  ASSUME CachesInv, CachesInv', Next, restarts' = restarts, NEW s \in Symbols
  PROVE  price'[s] >= price[s]
<1>1. price[s] \in Int /\ restarts \in Nat
  BY DEF CachesInv, CallsInv, Typed, None
<1>2. ASSUME NEW c \in Callers, NEW t \in Symbols, NEW data \in 0..version, Quote(c, t, data)
      PROVE  price'[s] >= price[s]
  BY <1>2, QuoteQuoted DEF CachesInv
<1>3. CASE UNCHANGED price
  BY <1>1, <1>3
<1>4. ~Restart
  BY <1>1 DEF Restart
<1> QED
  BY <1>2, <1>3, <1>4 DEF Next, Tick, Publish, Hit, Miss, Response, TooMany, NoResponse,
     Refresh,
     NoQuote, Trade, priceVars

(* While the process lives, no price is replaced by an older one.           *)
THEOREM PricesOnlyMoveForward == Spec => PricesMoveForward
<1>1. CachesInv /\ CachesInv' /\ [Next]_vars =>
        [restarts' = restarts => \A s \in Symbols : price'[s] >= price[s]]_vars
  BY StepsMoveForward
<1> QED
  BY <1>1, CachesInvariant, PTL DEF Spec, PricesMoveForward
=============================================================================
