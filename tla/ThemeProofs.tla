----------------------------- MODULE ThemeProofs -----------------------------
(****************************************************************************)
(* What the theme runner keeps for any number of themes, requests,          *)
(* evaluations and restarts, with or without foreign keys; and what the     *)
(* momentum rotation, a strategy it runs, keeps for any universe of         *)
(* symbols, prices, settings, days and restarts.                            *)
(*                                                                          *)
(* The runner's invariants speak of a theme that no request is busy with.   *)
(* What makes them inductive is what they do not say: what a request that   *)
(* is on its way knows of its theme, and what startAll still owes.          *)
(****************************************************************************)
EXTENDS ThemeRunner, MomentumRotation, FillRulesProofs, SequenceTheorems

Running(h) == at[h] # "idle"
Starting(h) == at[h] \in {"readBack", "load", "readAccount", "insertAccount"}
Ready(h) == at[h] \in {"readAccount", "insertAccount"}
Timed(t) == Listed(t) /\ row[t].timed

(* A request is served by a process that is up.  Its theme was handed out,  *)
(* and does not tick while the request is under way.  One that starts a     *)
(* theme finds it as it was created, as long as nobody PATCHes it.          *)
Requests ==
  \A h \in Handlers : Running(h) =>
    /\ phase = "up"
    /\ theme[h] \in Themes
    /\ theme[h] \notin timers
    /\ row[theme[h]] # Unborn
    /\ Starting(h) => Exists(theme[h])
    /\ Ready(h) => config[h] \in Rows
    /\ Starting(h) /\ at[h] # "readBack" /\ theme[h] \notin patched => Timed(theme[h])
    /\ Ready(h) /\ theme[h] \notin patched => config[h] = row[theme[h]]

(* No two requests are busy with one theme.                                 *)
Sole ==
  \A g, h \in Handlers : Running(g) /\ Running(h) /\ theme[g] = theme[h] => g = h

(* What startAll has started and what it has still to start are the themes  *)
(* that were listed.                                                        *)
Owed ==
  /\ phase # "up" => patched = {}
  /\ phase = "list" => timers = {}
  /\ phase # "boot" => todo = {}
  /\ phase = "boot" =>
       \A t \in Themes :
         /\ t \in todo => Listed(t) /\ t \notin timers
         /\ Timed(t) <=> t \in timers \/ (t \in todo /\ row[t].timed)

(* Only a theme that exists ticks.                                          *)
TimersExist == \A t \in timers : Exists(t)

(* An evaluation under way has a theme.                                     *)
Subjects == \A e \in Evaluators : stage[e] # "idle" => subject[e] \in Themes

LifeInv ==
  /\ TypeOK
  /\ Subjects
  /\ OneTimer
  /\ TimersExist
  /\ Requests
  /\ Sole
  /\ Owed
  /\ EnabledRuns
  /\ FundedBeforeTicking
-----------------------------------------------------------------------------
(* startAll lists the enabled themes of the table: what it owes is what     *)
(* they ask for.                                                            *)
LEMMA ListEnabledStep ==
  ASSUME LifeInv, ListEnabled
  PROVE  LifeInv'
<1> USE DEF LifeInv, ListEnabled, database, runner, boot, requests, evaluations, history
<1>1. TypeOK'
  BY ThemeRunnerAssumption DEF TypeOK, Rows, Listed, Exists
<1>2. Subjects'
  BY DEF TypeOK, Subjects
<1>3. OneTimer'
  BY DEF TypeOK, OneTimer, Requests, Owed, Running, Starting, Ready, Timed, Listed, Exists
<1>4. TimersExist'
  BY ThemeRunnerAssumption DEF TypeOK, Rows, TimersExist, Requests, Owed, Running,
     Starting, Ready, Timed, Listed, Exists
<1>5. Requests'
  BY ThemeRunnerAssumption DEF TypeOK, Rows, TimersExist, Requests, Sole, Busy, Running,
     Starting, Ready, Timed, Listed, Exists
<1>6. Sole'
  BY ThemeRunnerAssumption DEF TypeOK, Sole, Requests, Busy, Running
<1>7. Owed'
  BY DEF TypeOK, Owed, Requests, Running, Starting, Ready, Timed, Listed, Exists
<1>8. EnabledRuns'
  BY <1>1, ThemeRunnerAssumption DEF TypeOK, Rows, EnabledRuns, Requests, Sole,
     TimersExist, Owed, Busy, Running, Starting, Ready, Timed, Listed, Exists
<1>9. FundedBeforeTicking'
  BY ThemeRunnerAssumption DEF TypeOK, FundedBeforeTicking, Requests, Owed, Running,
     Starting, Ready, Timed, Listed, Exists
<1> QED
  BY <1>1, <1>2, <1>3, <1>4, <1>5, <1>6, <1>7, <1>8, <1>9

(* A listed theme is paid off: its account is there before its timer, and   *)
(* it did not tick before.                                                  *)
LEMMA StartListedStep ==
  ASSUME NEW t \in Themes, LifeInv, StartListed(t)
  PROVE  LifeInv'
<1> USE DEF LifeInv, StartListed, Schedule, database, runner, boot, requests, evaluations, history
<1>1. TypeOK'
  BY ThemeRunnerAssumption DEF TypeOK, Rows, Listed, Exists
<1>2. Subjects'
  BY DEF TypeOK, Subjects
<1>3. OneTimer'
  BY DEF TypeOK, OneTimer, Requests, Owed, Running, Starting, Ready, Timed, Listed, Exists
<1>4. TimersExist'
  BY ThemeRunnerAssumption DEF TypeOK, Rows, TimersExist, Requests, Owed, Running,
     Starting, Ready, Timed, Listed, Exists
<1>5. Requests'
  BY ThemeRunnerAssumption DEF TypeOK, Rows, TimersExist, Requests, Sole, Busy, Running,
     Starting, Ready, Timed, Listed, Exists
<1>6. Sole'
  BY ThemeRunnerAssumption DEF TypeOK, Sole, Requests, Busy, Running
<1>7. Owed'
  BY DEF TypeOK, Owed, Requests, Running, Starting, Ready, Timed, Listed, Exists
<1>8. EnabledRuns'
  BY <1>1, ThemeRunnerAssumption DEF TypeOK, Rows, EnabledRuns, Requests, Sole,
     TimersExist, Owed, Busy, Running, Starting, Ready, Timed, Listed, Exists
<1>9. FundedBeforeTicking'
  BY ThemeRunnerAssumption DEF TypeOK, FundedBeforeTicking, Requests, Owed, Running,
     Starting, Ready, Timed, Listed, Exists
<1> QED
  BY <1>1, <1>2, <1>3, <1>4, <1>5, <1>6, <1>7, <1>8, <1>9

(* When nothing is owed any more, the timers are those the rows ask for,    *)
(* and requests may come.                                                   *)
LEMMA ListenStep ==
  ASSUME LifeInv, Listen
  PROVE  LifeInv'
<1> USE DEF LifeInv, Listen, database, runner, boot, requests, evaluations, history
<1>1. TypeOK'
  BY ThemeRunnerAssumption DEF TypeOK, Rows, Listed, Exists
<1>2. Subjects'
  BY DEF TypeOK, Subjects
<1>3. OneTimer'
  BY DEF TypeOK, OneTimer, Requests, Owed, Running, Starting, Ready, Timed, Listed, Exists
<1>4. TimersExist'
  BY ThemeRunnerAssumption DEF TypeOK, Rows, TimersExist, Requests, Owed, Running,
     Starting, Ready, Timed, Listed, Exists
<1>5. Requests'
  BY ThemeRunnerAssumption DEF TypeOK, Rows, TimersExist, Requests, Sole, Busy, Running,
     Starting, Ready, Timed, Listed, Exists
<1>6. Sole'
  BY ThemeRunnerAssumption DEF TypeOK, Sole, Requests, Busy, Running
<1>7. Owed'
  BY DEF TypeOK, Owed, Requests, Running, Starting, Ready, Timed, Listed, Exists
<1>8. EnabledRuns'
  BY <1>1, ThemeRunnerAssumption DEF TypeOK, Rows, EnabledRuns, Requests, Sole,
     TimersExist, Owed, Busy, Running, Starting, Ready, Timed, Listed, Exists
<1>9. FundedBeforeTicking'
  BY ThemeRunnerAssumption DEF TypeOK, FundedBeforeTicking, Requests, Owed, Running,
     Starting, Ready, Timed, Listed, Exists
<1> QED
  BY <1>1, <1>2, <1>3, <1>4, <1>5, <1>6, <1>7, <1>8, <1>9

(* A process that ends loses its timers and its requests, and with them     *)
(* everything the invariant says of them.                                   *)
LEMMA RestartStep ==
  ASSUME LifeInv, Restart
  PROVE  LifeInv'
<1> USE DEF LifeInv, Restart, database, runner, boot, requests, evaluations, history
<1>1. TypeOK'
  BY ThemeRunnerAssumption DEF TypeOK, Rows, Listed, Exists
<1>2. Subjects'
  BY DEF TypeOK, Subjects
<1>3. OneTimer'
  BY DEF TypeOK, OneTimer, Requests, Owed, Running, Starting, Ready, Timed, Listed, Exists
<1>4. TimersExist'
  BY ThemeRunnerAssumption DEF TypeOK, Rows, TimersExist, Requests, Owed, Running,
     Starting, Ready, Timed, Listed, Exists
<1>5. Requests'
  BY ThemeRunnerAssumption DEF TypeOK, Rows, TimersExist, Requests, Sole, Busy, Running,
     Starting, Ready, Timed, Listed, Exists
<1>6. Sole'
  BY ThemeRunnerAssumption DEF TypeOK, Sole, Requests, Busy, Running
<1>7. Owed'
  BY DEF TypeOK, Owed, Requests, Running, Starting, Ready, Timed, Listed, Exists
<1>8. EnabledRuns'
  BY <1>1, ThemeRunnerAssumption DEF TypeOK, Rows, EnabledRuns, Requests, Sole,
     TimersExist, Owed, Busy, Running, Starting, Ready, Timed, Listed, Exists
<1>9. FundedBeforeTicking'
  BY ThemeRunnerAssumption DEF TypeOK, FundedBeforeTicking, Requests, Owed, Running,
     Starting, Ready, Timed, Listed, Exists
<1> QED
  BY <1>1, <1>2, <1>3, <1>4, <1>5, <1>6, <1>7, <1>8, <1>9

(* POST takes an id that was not handed out: no other request is busy with  *)
(* it, and it does not tick.                                                *)
LEMMA CreateStep ==
  ASSUME NEW h \in Handlers, NEW t \in Themes, NEW c \in Rows, LifeInv, Create(h, t, c)
  PROVE  LifeInv'
<1> USE DEF LifeInv, Create, Begin, Serving, Go, database, runner, boot, requests, evaluations, history
<1>1. TypeOK'
  BY ThemeRunnerAssumption DEF TypeOK, Rows, Listed, Exists
<1>2. Subjects'
  BY DEF TypeOK, Subjects
<1>3. OneTimer'
  BY DEF TypeOK, OneTimer, Requests, Owed, Running, Starting, Ready, Timed, Listed, Exists
<1>4. TimersExist'
  BY ThemeRunnerAssumption DEF TypeOK, Rows, TimersExist, Requests, Owed, Running,
     Starting, Ready, Timed, Listed, Exists
<1>5. Requests'
  BY ThemeRunnerAssumption DEF TypeOK, Rows, TimersExist, Requests, Sole, Busy, Running,
     Starting, Ready, Timed, Listed, Exists
<1>6. Sole'
  BY ThemeRunnerAssumption DEF TypeOK, Sole, Requests, Busy, Running
<1>7. Owed'
  BY DEF TypeOK, Owed, Requests, Running, Starting, Ready, Timed, Listed, Exists
<1>8. EnabledRuns'
  BY <1>1, ThemeRunnerAssumption DEF TypeOK, Rows, EnabledRuns, Requests, Sole,
     TimersExist, Owed, Busy, Running, Starting, Ready, Timed, Listed, Exists
<1>9. FundedBeforeTicking'
  BY ThemeRunnerAssumption DEF TypeOK, TimersExist, Rows, FundedBeforeTicking, Requests,
     Owed, Running, Starting, Ready, Timed, Listed, Exists
<1> QED
  BY <1>1, <1>2, <1>3, <1>4, <1>5, <1>6, <1>7, <1>8, <1>9

(* The POST goes on to start a theme that is enabled and timed, and is done *)
(* with any other.                                                          *)
LEMMA ReadBackStep ==
  ASSUME NEW h \in Handlers, LifeInv, ReadBack(h)
  PROVE  LifeInv'
<1> USE DEF LifeInv, ReadBack, Go, Answer, database, runner, boot, requests, evaluations, history
<1>1. TypeOK'
  BY ThemeRunnerAssumption DEF TypeOK, Rows, Listed, Exists
<1>2. Subjects'
  BY DEF TypeOK, Subjects
<1>3. OneTimer'
  BY DEF TypeOK, OneTimer, Requests, Owed, Running, Starting, Ready, Timed, Listed, Exists
<1>4. TimersExist'
  BY ThemeRunnerAssumption DEF TypeOK, Rows, TimersExist, Requests, Owed, Running,
     Starting, Ready, Timed, Listed, Exists
<1>5. Requests'
  BY ThemeRunnerAssumption DEF TypeOK, Rows, TimersExist, Requests, Sole, Busy, Running,
     Starting, Ready, Timed, Listed, Exists
<1>6. Sole'
  BY ThemeRunnerAssumption DEF TypeOK, Sole, Requests, Busy, Running
<1>7. Owed'
  BY DEF TypeOK, Owed, Requests, Running, Starting, Ready, Timed, Listed, Exists
<1>8. EnabledRuns'
  BY <1>1, ThemeRunnerAssumption DEF TypeOK, Rows, EnabledRuns, Requests, Sole,
     TimersExist, Owed, Busy, Running, Starting, Ready, Timed, Listed, Exists
<1>9. FundedBeforeTicking'
  BY ThemeRunnerAssumption DEF TypeOK, FundedBeforeTicking, Requests, Owed, Running,
     Starting, Ready, Timed, Listed, Exists
<1> QED
  BY <1>1, <1>2, <1>3, <1>4, <1>5, <1>6, <1>7, <1>8, <1>9

(* start reads the row again; a theme without capital ticks from here.      *)
LEMMA LoadStep ==
  ASSUME NEW h \in Handlers, LifeInv, Load(h)
  PROVE  LifeInv'
<1> USE DEF LifeInv, Load, Go, Answer, Schedule, database, runner, boot, requests, evaluations, history
<1>1. TypeOK'
  BY ThemeRunnerAssumption DEF TypeOK, Requests, Running, Ready, Rows, Listed, Exists
<1>2. Subjects'
  BY DEF TypeOK, Subjects
<1>3. OneTimer'
  BY DEF TypeOK, OneTimer, Requests, Owed, Running, Starting, Ready, Timed, Listed, Exists
<1>4. TimersExist'
  BY ThemeRunnerAssumption DEF TypeOK, Rows, TimersExist, Requests, Owed, Running,
     Starting, Ready, Timed, Listed, Exists
<1>5. Requests'
  BY ThemeRunnerAssumption DEF TypeOK, Rows, TimersExist, Requests, Sole, Busy, Running,
     Starting, Ready, Timed, Listed, Exists
<1>6. Sole'
  BY ThemeRunnerAssumption DEF TypeOK, Sole, Requests, Busy, Running
<1>7. Owed'
  BY DEF TypeOK, Owed, Requests, Running, Starting, Ready, Timed, Listed, Exists
<1>8. EnabledRuns'
  BY <1>1, ThemeRunnerAssumption DEF TypeOK, Rows, EnabledRuns, Requests, Sole,
     TimersExist, Owed, Busy, Running, Starting, Ready, Timed, Listed, Exists
<1>9. FundedBeforeTicking'
  BY ThemeRunnerAssumption DEF TypeOK, FundedBeforeTicking, Requests, Owed, Running,
     Starting, Ready, Timed, Listed, Exists
<1> QED
  BY <1>1, <1>2, <1>3, <1>4, <1>5, <1>6, <1>7, <1>8, <1>9

(* A theme that has its account ticks from here, by the row that was read.  *)
LEMMA ReadAccountStep ==
  ASSUME NEW h \in Handlers, LifeInv, ReadAccount(h)
  PROVE  LifeInv'
<1> USE DEF LifeInv, ReadAccount, Go, Answer, Schedule, database, runner, boot, requests, evaluations, history
<1>1. TypeOK'
  BY ThemeRunnerAssumption DEF TypeOK, Rows, Listed, Exists
<1>2. Subjects'
  BY DEF TypeOK, Subjects
<1>3. OneTimer'
  BY DEF TypeOK, OneTimer, Requests, Owed, Running, Starting, Ready, Timed, Listed, Exists
<1>4. TimersExist'
  BY ThemeRunnerAssumption DEF TypeOK, Rows, TimersExist, Requests, Owed, Running,
     Starting, Ready, Timed, Listed, Exists
<1>5. Requests'
  BY ThemeRunnerAssumption DEF TypeOK, Rows, TimersExist, Requests, Sole, Busy, Running,
     Starting, Ready, Timed, Listed, Exists
<1>6. Sole'
  BY ThemeRunnerAssumption DEF TypeOK, Sole, Requests, Busy, Running
<1>7. Owed'
  BY DEF TypeOK, Owed, Requests, Running, Starting, Ready, Timed, Listed, Exists
<1>8. EnabledRuns'
  BY <1>1, ThemeRunnerAssumption DEF TypeOK, Rows, EnabledRuns, Requests, Sole,
     TimersExist, Owed, Busy, Running, Starting, Ready, Timed, Listed, Exists
<1>9. FundedBeforeTicking'
  BY ThemeRunnerAssumption DEF TypeOK, FundedBeforeTicking, Requests, Owed, Running,
     Starting, Ready, Timed, Listed, Exists
<1> QED
  BY <1>1, <1>2, <1>3, <1>4, <1>5, <1>6, <1>7, <1>8, <1>9

(* The account is inserted, then the theme ticks; if the insert fails it    *)
(* does not.                                                                *)
LEMMA InsertAccountStep ==
  ASSUME NEW h \in Handlers, LifeInv, InsertAccount(h)
  PROVE  LifeInv'
<1> USE DEF LifeInv, InsertAccount, Go, Answer, Schedule, Dangling, database, runner, boot, requests, evaluations, history
<1>1. TypeOK'
  BY ThemeRunnerAssumption DEF TypeOK, Requests, Running, Ready, Rows, Listed, Exists
<1>2. Subjects'
  BY DEF TypeOK, Subjects
<1>3. OneTimer'
  BY DEF TypeOK, OneTimer, Requests, Owed, Running, Starting, Ready, Timed, Listed, Exists
<1>4. TimersExist'
  BY ThemeRunnerAssumption DEF TypeOK, Rows, TimersExist, Requests, Owed, Running,
     Starting, Ready, Timed, Listed, Exists
<1>5. Requests'
  BY ThemeRunnerAssumption DEF TypeOK, Rows, TimersExist, Requests, Sole, Busy, Running,
     Starting, Ready, Timed, Listed, Exists
<1>6. Sole'
  BY ThemeRunnerAssumption DEF TypeOK, Sole, Requests, Busy, Running
<1>7. Owed'
  BY DEF TypeOK, Owed, Requests, Running, Starting, Ready, Timed, Listed, Exists
<1>8. EnabledRuns'
  BY <1>1, ThemeRunnerAssumption DEF TypeOK, Rows, EnabledRuns, Requests, Sole,
     TimersExist, Owed, Busy, Running, Starting, Ready, Timed, Listed, Exists
<1>9. FundedBeforeTicking'
  BY ThemeRunnerAssumption DEF TypeOK, FundedBeforeTicking, Requests, Owed, Running,
     Starting, Ready, Timed, Listed, Exists
<1> QED
  BY <1>1, <1>2, <1>3, <1>4, <1>5, <1>6, <1>7, <1>8, <1>9

(* PATCH changes a row under a request that starts the theme: what that     *)
(* request knows is excused from here.                                      *)
LEMMA PatchStep ==
  ASSUME NEW t \in Themes, NEW c \in Rows, LifeInv, Patch(t, c)
  PROVE  LifeInv'
<1> USE DEF LifeInv, Patch, Serving, database, runner, boot, requests, evaluations, history
<1>1. TypeOK'
  BY ThemeRunnerAssumption DEF TypeOK, Rows, Listed, Exists
<1>2. Subjects'
  BY DEF TypeOK, Subjects
<1>3. OneTimer'
  BY DEF TypeOK, OneTimer, Requests, Owed, Running, Starting, Ready, Timed, Listed, Exists
<1>4. TimersExist'
  BY ThemeRunnerAssumption DEF TypeOK, Rows, TimersExist, Requests, Owed, Running,
     Starting, Ready, Timed, Listed, Exists
<1>5. Requests'
  BY ThemeRunnerAssumption DEF TypeOK, Rows, TimersExist, Requests, Sole, Busy, Running,
     Starting, Ready, Timed, Listed, Exists
<1>6. Sole'
  BY ThemeRunnerAssumption DEF TypeOK, Sole, Requests, Busy, Running
<1>7. Owed'
  BY DEF TypeOK, Owed, Requests, Running, Starting, Ready, Timed, Listed, Exists
<1>8. EnabledRuns'
  BY <1>1, ThemeRunnerAssumption DEF TypeOK, Rows, EnabledRuns, Requests, Sole,
     TimersExist, Owed, Busy, Running, Starting, Ready, Timed, Listed, Exists
<1>9. FundedBeforeTicking'
  BY ThemeRunnerAssumption DEF TypeOK, FundedBeforeTicking, Requests, Owed, Running,
     Starting, Ready, Timed, Listed, Exists
<1> QED
  BY <1>1, <1>2, <1>3, <1>4, <1>5, <1>6, <1>7, <1>8, <1>9

(* DELETE clears the interval the map holds, which is the only one, and no  *)
(* request is busy with the theme.                                          *)
LEMMA StopStep ==
  ASSUME ~Overlap, NEW h \in Handlers, NEW t \in Themes, LifeInv, Stop(h, t)
  PROVE  LifeInv'
<1> USE DEF LifeInv, Stop, Begin, Serving, Go, database, runner, boot, requests, evaluations, history
<1>1. TypeOK'
  BY ThemeRunnerAssumption DEF TypeOK, OneTimer, Rows, Listed, Exists
<1>2. Subjects'
  BY DEF TypeOK, Subjects
<1>3. OneTimer'
  BY DEF TypeOK, OneTimer, Requests, Owed, Running, Starting, Ready, Timed, Listed, Exists
<1>4. TimersExist'
  BY ThemeRunnerAssumption DEF TypeOK, Rows, TimersExist, Requests, Owed, Running,
     Starting, Ready, Timed, Listed, Exists
<1>5. Requests'
  BY ThemeRunnerAssumption DEF TypeOK, Rows, TimersExist, Requests, Sole, Busy, Running,
     Starting, Ready, Timed, Listed, Exists
<1>6. Sole'
  BY ThemeRunnerAssumption DEF TypeOK, Sole, Requests, Busy, Running
<1>7. Owed'
  BY DEF TypeOK, Owed, Requests, Running, Starting, Ready, Timed, Listed, Exists
<1>8. EnabledRuns'
  BY <1>1, ThemeRunnerAssumption DEF TypeOK, Rows, EnabledRuns, Requests, Sole,
     TimersExist, Owed, Busy, Running, Starting, Ready, Timed, Listed, Exists
<1>9. FundedBeforeTicking'
  BY ThemeRunnerAssumption DEF TypeOK, FundedBeforeTicking, Requests, Owed, Running,
     Starting, Ready, Timed, Listed, Exists
<1> QED
  BY <1>1, <1>2, <1>3, <1>4, <1>5, <1>6, <1>7, <1>8, <1>9

(* The row is disabled under no other request.                              *)
LEMMA DisableStep ==
  ASSUME NEW h \in Handlers, LifeInv, Disable(h)
  PROVE  LifeInv'
<1> USE DEF LifeInv, Disable, Go, database, runner, boot, requests, evaluations, history
<1>1. TypeOK'
  BY ThemeRunnerAssumption DEF TypeOK, Rows, Listed, Exists
<1>2. Subjects'
  BY DEF TypeOK, Subjects
<1>3. OneTimer'
  BY DEF TypeOK, OneTimer, Requests, Owed, Running, Starting, Ready, Timed, Listed, Exists
<1>4. TimersExist'
  BY ThemeRunnerAssumption DEF TypeOK, Rows, TimersExist, Requests, Owed, Running,
     Starting, Ready, Timed, Listed, Exists
<1>5. Requests'
  <2> DEFINE t == theme[h]
  <2>1. /\ t \in Themes /\ t \notin timers /\ row[t] # Unborn /\ phase = "up"
        /\ at[h] = "disable" /\ at' = [at EXCEPT ![h] = "check"]
        /\ UNCHANGED <<timers, phase, theme, config, patched>>
    BY DEF Requests, Running
  <2>2. /\ row'[t] # Unborn
        /\ \A u \in Themes : u # t => row'[u] = row[u]
    BY <2>1, ThemeRunnerAssumption DEF TypeOK, Rows, Exists
  <2>3. \A g \in Handlers : g # h /\ Running(g) => theme[g] # t
    BY <2>1 DEF Sole, Running
  <2> HIDE DEF t
  <2> QED
    BY <2>1, <2>2, <2>3 DEF TypeOK, Requests, Running, Starting, Ready, Timed, Listed,
       Exists, t
<1>6. Sole'
  BY ThemeRunnerAssumption DEF TypeOK, Sole, Requests, Busy, Running
<1>7. Owed'
  BY DEF TypeOK, Owed, Requests, Running, Starting, Ready, Timed, Listed, Exists
<1>8. EnabledRuns'
  BY <1>1, ThemeRunnerAssumption DEF TypeOK, Rows, EnabledRuns, Requests, Sole,
     TimersExist, Owed, Busy, Running, Starting, Ready, Timed, Listed, Exists
<1>9. FundedBeforeTicking'
  BY ThemeRunnerAssumption DEF TypeOK, FundedBeforeTicking, Requests, Owed, Running,
     Starting, Ready, Timed, Listed, Exists
<1> QED
  BY <1>1, <1>2, <1>3, <1>4, <1>5, <1>6, <1>7, <1>8, <1>9

(* A row that is still there is removed next; one that is gone asks for no  *)
(* timer.                                                                   *)
LEMMA CheckStep ==
  ASSUME NEW h \in Handlers, LifeInv, Check(h)
  PROVE  LifeInv'
<1> USE DEF LifeInv, Check, Go, Answer, database, runner, boot, requests, evaluations, history
<1>1. TypeOK'
  BY ThemeRunnerAssumption DEF TypeOK, Rows, Listed, Exists
<1>2. Subjects'
  BY DEF TypeOK, Subjects
<1>3. OneTimer'
  BY DEF TypeOK, OneTimer, Requests, Owed, Running, Starting, Ready, Timed, Listed, Exists
<1>4. TimersExist'
  BY ThemeRunnerAssumption DEF TypeOK, Rows, TimersExist, Requests, Owed, Running,
     Starting, Ready, Timed, Listed, Exists
<1>5. Requests'
  BY ThemeRunnerAssumption DEF TypeOK, Rows, TimersExist, Requests, Sole, Busy, Running,
     Starting, Ready, Timed, Listed, Exists
<1>6. Sole'
  BY ThemeRunnerAssumption DEF TypeOK, Sole, Requests, Busy, Running
<1>7. Owed'
  BY DEF TypeOK, Owed, Requests, Running, Starting, Ready, Timed, Listed, Exists
<1>8. EnabledRuns'
  BY <1>1, ThemeRunnerAssumption DEF TypeOK, Rows, EnabledRuns, Requests, Sole,
     TimersExist, Owed, Busy, Running, Starting, Ready, Timed, Listed, Exists
<1>9. FundedBeforeTicking'
  BY ThemeRunnerAssumption DEF TypeOK, FundedBeforeTicking, Requests, Owed, Running,
     Starting, Ready, Timed, Listed, Exists
<1> QED
  BY <1>1, <1>2, <1>3, <1>4, <1>5, <1>6, <1>7, <1>8, <1>9

(* The row goes when its timer has gone.                                    *)
LEMMA RemoveStep ==
  ASSUME NEW h \in Handlers, LifeInv, RemoveTheme(h)
  PROVE  LifeInv'
<1> USE DEF LifeInv, RemoveTheme, Go, Answer, database, runner, boot, requests, evaluations, history
<1>1. TypeOK'
  BY ThemeRunnerAssumption DEF TypeOK, Rows, Listed, Exists
<1>2. Subjects'
  BY DEF TypeOK, Subjects
<1>3. OneTimer'
  BY DEF TypeOK, OneTimer, Requests, Owed, Running, Starting, Ready, Timed, Listed, Exists
<1>4. TimersExist'
  BY ThemeRunnerAssumption DEF TypeOK, Rows, TimersExist, Requests, Owed, Running,
     Starting, Ready, Timed, Listed, Exists
<1>5. Requests'
  BY ThemeRunnerAssumption DEF TypeOK, Rows, TimersExist, Requests, Sole, Busy, Running,
     Starting, Ready, Timed, Listed, Exists
<1>6. Sole'
  BY ThemeRunnerAssumption DEF TypeOK, Sole, Requests, Busy, Running
<1>7. Owed'
  BY DEF TypeOK, Owed, Requests, Running, Starting, Ready, Timed, Listed, Exists
<1>8. EnabledRuns'
  BY <1>1, ThemeRunnerAssumption DEF TypeOK, Rows, EnabledRuns, Requests, Sole,
     TimersExist, Owed, Busy, Running, Starting, Ready, Timed, Listed, Exists
<1>9. FundedBeforeTicking'
  BY ThemeRunnerAssumption DEF TypeOK, FundedBeforeTicking, Requests, Owed, Running,
     Starting, Ready, Timed, Listed, Exists
<1> QED
  BY <1>1, <1>2, <1>3, <1>4, <1>5, <1>6, <1>7, <1>8, <1>9

(* An evaluation reads of a theme only whether it exists, and writes what   *)
(* no request reads.                                                        *)
Evaluating(e) == Advance(e) \/ \E t \in Themes : Evaluate(e, t)

(* No evaluation disturbs the life of a theme.                              *)
LEMMA EvaluationStep ==
  ASSUME NEW e \in Evaluators, LifeInv, Evaluating(e)
  PROVE  LifeInv'
<1> USE DEF LifeInv
<1>1. /\ UNCHANGED <<row, accounts, runner, boot, requests, history>>
      /\ TypeOK' /\ Subjects'
  <2>1. CASE \E t \in Themes : Evaluate(e, t)
    BY <2>1 DEF TypeOK, Subjects, Evaluate, database, runner, boot, requests, history
  <2>2. CASE LoadTheme(e)
    BY <2>2 DEF TypeOK, Subjects, LoadTheme, Finish, Exists, database, runner, boot,
       requests, history
  <2>3. CASE RunStrategy(e)
    BY <2>3 DEF TypeOK, Subjects, RunStrategy, runner, boot, requests, history
  <2>4. CASE RecordEvaluation(e)
    BY <2>4 DEF TypeOK, Subjects, RecordEvaluation, Finish, runner, boot, requests, history
  <2> QED
    BY <2>1, <2>2, <2>3, <2>4 DEF Evaluating, Advance
<1>2. OneTimer' /\ TimersExist' /\ Requests' /\ Sole' /\ Owed'
  BY <1>1 DEF OneTimer, TimersExist, Requests, Sole, Owed, Running, Starting, Ready,
     Timed, Listed, Exists, runner, boot, requests, history
<1>3. EnabledRuns' /\ FundedBeforeTicking'
  BY <1>1 DEF EnabledRuns, FundedBeforeTicking, Busy, Listed, Exists, runner, boot,
     requests, history
<1> QED
  BY <1>1, <1>2, <1>3

(* Nor does a step that changes nothing.                                    *)
LEMMA StutterStep ==
  ASSUME LifeInv, UNCHANGED vars
  PROVE  LifeInv'
BY DEF LifeInv, TypeOK, Subjects, OneTimer, TimersExist, Requests, Sole, Owed,
   EnabledRuns, FundedBeforeTicking,
       Running, Starting, Ready, Timed, Listed, Exists, Busy,
       vars, database, runner, boot, requests, evaluations, history

(* An empty table satisfies the invariant.                                  *)
LEMMA InitLifeInv ==
  ASSUME Init
  PROVE  LifeInv
<1>1. TypeOK
  BY ThemeRunnerAssumption DEF Init, TypeOK
<1> QED
  BY <1>1, ThemeRunnerAssumption DEF Init, LifeInv, Subjects, OneTimer, TimersExist,
     Requests, Sole, Owed,
     EnabledRuns, FundedBeforeTicking, Running, Rows

(* Every step keeps the invariant, when no DELETE overlaps another request  *)
(* on its theme.                                                            *)
LEMMA LifeInvKept ==
  ASSUME ~Overlap, LifeInv, [Next]_vars
  PROVE  LifeInv'
<1>1. CASE Boot
  BY <1>1, ListEnabledStep, StartListedStep, ListenStep DEF Boot
<1>2. CASE Restart
  BY <1>2, RestartStep
<1>3. ASSUME NEW t \in Themes, NEW c \in Rows,
             Patch(t, c) \/ \E h \in Handlers : Create(h, t, c)
      PROVE  LifeInv'
  BY <1>3, PatchStep, CreateStep
<1>4. ASSUME NEW t \in Themes, NEW h \in Handlers, Stop(h, t)
      PROVE  LifeInv'
  BY <1>4, StopStep
<1>5. ASSUME NEW h \in Handlers, Continue(h)
      PROVE  LifeInv'
  <2>1. CASE ReadBack(h) \/ Load(h) \/ ReadAccount(h) \/ InsertAccount(h)
    BY <2>1, ReadBackStep, LoadStep, ReadAccountStep, InsertAccountStep
  <2>2. CASE Disable(h) \/ Check(h) \/ RemoveTheme(h)
    BY <2>2, DisableStep, CheckStep, RemoveStep
  <2>3. CASE RemoveFails(h)
    BY <2>3, RestartStep DEF RemoveFails
  <2> QED
    BY <1>5, <2>1, <2>2, <2>3 DEF Continue
<1>6. ASSUME NEW e \in Evaluators, Evaluating(e)
      PROVE  LifeInv'
  BY <1>6, EvaluationStep
<1>7. CASE UNCHANGED vars
  BY <1>7, StutterStep
<1> QED
  BY <1>1, <1>2, <1>3, <1>4, <1>5, <1>6, <1>7 DEF Next, Evaluating

(* The invariant of ThemeRunner, from which the three properties of its run *)
(* follow.                                                                  *)
THEOREM LifeInvariant ==
  ASSUME ~Overlap
  PROVE  Spec => []LifeInv
<1>1. LifeInv /\ [Next]_vars => LifeInv'
  BY LifeInvKept
<1> QED
  BY <1>1, InitLifeInv, PTL DEF Spec

(* An interval that ticks is the one stop would clear, and there is never   *)
(* a second.                                                                *)
THEOREM NoIntervalIsLost ==
  ASSUME ~Overlap
  PROVE  Spec => []OneTimer
<1>1. LifeInv => OneTimer
  BY DEF LifeInv
<1> QED
  BY <1>1, LifeInvariant, PTL

(* Whatever crashed, once the server is up and the theme is left alone it   *)
(* ticks exactly if its row says so.                                        *)
THEOREM TimersFollowRows ==
  ASSUME ~Overlap
  PROVE  Spec => []EnabledRuns
<1>1. LifeInv => EnabledRuns
  BY DEF LifeInv
<1> QED
  BY <1>1, LifeInvariant, PTL

(* No interval runs a strategy with capital and no account to spend from.   *)
THEOREM TickingIsFunded ==
  ASSUME ~Overlap
  PROVE  Spec => []FundedBeforeTicking
<1>1. LifeInv => FundedBeforeTicking
  BY DEF LifeInv
<1> QED
  BY <1>1, LifeInvariant, PTL
-----------------------------------------------------------------------------
(* The rotation decides a trade in one statement and records it in another. *)
(* What makes its limits inductive is what each of its steps knows of the   *)
(* step before: the order that is on its way, and the exits still to come.  *)

(* The steps of the exits and of the entries, and those that carry an order. *)
Exiting == {"exits", "sell", "recordSale"}
Entering == {"entries", "buy", "recordBuy"}
Ordering == {"sell", "recordSale", "buy", "recordBuy"}

Signals == [symbol : Symbols, price : Prices]
RotationOrders ==
  [symbol : Symbols, price : Prices, qty : Nat \ {0}, day : 1..MaxDays]

(* What the current loop has left is of its own kind, and an order is there *)
(* when there is something to place or to record.                           *)
RotationTyped ==
  /\ RotationTypeOK
  /\ day \in 1..MaxDays /\ since \in 1..day /\ clean \in BOOLEAN
  /\ equity \in Nat
  /\ rows \in [Symbols -> Positions]
  /\ selected \in Seq(Signals)
  /\ step = "screen" => remaining \in Seq(Symbols)
  /\ step \in Exiting =>
       remaining \in Seq(Symbols) /\ \A s \in Range(remaining) : rows[s].qty > 0
  /\ step \in Entering =>
       remaining \in Seq(Signals) /\ \A signal \in Range(remaining) : signal \in Range(selected)
  /\ step \in Ordering => order \in RotationOrders /\ order.day \in since..day

(* A buy that was decided still fits, and one that was placed did.          *)
BuysFit ==
  /\ Cardinality(Open(pos)) <= settings.maxPositions
  /\ step = "buy" =>
       /\ Cardinality(Open(pos)) < settings.maxPositions
       /\ 100 * (Exposure(pos) + Notional(order.price, order.qty))
            <= equity * settings.maxTotalAllocationPct
  /\ step = "recordBuy" => 100 * Exposure(pos) <= equity * settings.maxTotalAllocationPct

(* The hash of the order being placed is new; it was traded when the order  *)
(* is about to be recorded.                                                 *)
OrderHash ==
  <<order.symbol, IF step \in Exiting THEN "sell" ELSE "buy", order.day>>
Known == processed \cup IF step \in {"recordSale", "recordBuy"} THEN {OrderHash} ELSE {}
TradedOnce ==
  /\ step \in {"sell", "buy"} => OrderHash \notin processed
  /\ \A h \in Hashes : fills[h] <= IF h \in Known THEN 1 + lost ELSE lost

(* What dropped out of the screen is in the list of the exits, is being     *)
(* sold, or was sold since the cycle began.                                 *)
SoldSince(s) == \E d \in since..day : <<s, "sell", d>> \in processed
Leaving ==
  /\ step \in Exiting /\ clean =>
       \A s \in Open(pos) \ SelectedSymbols :
         s \in Range(remaining) \/ (step # "exits" /\ s = order.symbol) \/ SoldSince(s)
  /\ step = "buy" => order.symbol \in SelectedSymbols
  /\ BookFollowsScreen

(* The exits sell what is held: each symbol once, and all of it.            *)
Whole ==
  /\ step \in Exiting =>
       /\ \A i, j \in DOMAIN remaining : remaining[i] = remaining[j] => i = j
       /\ \A s \in Range(remaining) : rows[s] = pos[s]
  /\ step = "sell" =>
       order.symbol \notin Range(remaining) /\ order.qty = pos[order.symbol].qty

RotationInv == RotationTyped /\ BuysFit /\ TradedOnce /\ Leaving /\ Whole

(* A sale that was decided is one the account can fill.                     *)
SalesFill ==
  step = "sell" => CanFill("sell", order.price, order.qty, cash, pos[order.symbol])

-----------------------------------------------------------------------------
(* What a loop takes from its list, and what is left of it.                 *)
LEMMA TakeFirst ==
  ASSUME NEW S, NEW q \in Seq(S), q # <<>>
  PROVE  /\ Head(q) \in S /\ Head(q) \in Range(q)
         /\ Tail(q) \in Seq(S)
         /\ Range(Tail(q)) \subseteq Range(q)
         /\ \A x \in Range(q) : x = Head(q) \/ x \in Range(Tail(q))
         /\ (\A i, j \in DOMAIN q : q[i] = q[j] => i = j) =>
              /\ Head(q) \notin Range(Tail(q))
              /\ \A i, j \in DOMAIN Tail(q) : Tail(q)[i] = Tail(q)[j] => i = j
<1>1. /\ Tail(q) \in Seq(S) /\ Head(q) \in S
      /\ Len(Tail(q)) = Len(q) - 1
      /\ \A i \in 1..Len(Tail(q)) : Tail(q)[i] = q[i + 1]
  BY HeadTailProperties
<1>2. Head(q) = q[1] /\ DOMAIN q = 1..Len(q) /\ Len(q) \in Nat \ {0}
  BY EmptySeq
<1>3. DOMAIN Tail(q) = 1..(Len(q) - 1)
  BY <1>1, <1>2
<1>4. \A i \in DOMAIN Tail(q) : i + 1 \in DOMAIN q /\ Tail(q)[i] = q[i + 1]
  BY <1>1, <1>2, <1>3
<1>5. \A i \in DOMAIN q : i = 1 \/ (i - 1 \in DOMAIN Tail(q) /\ Tail(q)[i - 1] = q[i])
  BY <1>1, <1>2, <1>3
<1>6. 1 \in DOMAIN q
  BY <1>2
<1>7. Range(Tail(q)) \subseteq Range(q) /\ Head(q) \in Range(q)
  BY <1>2, <1>4, <1>6 DEF Range
<1>8. ASSUME NEW x \in Range(q)
      PROVE  x = Head(q) \/ x \in Range(Tail(q))
  <2>1. PICK i \in DOMAIN q : x = q[i]
    BY DEF Range
  <2>2. CASE i = 1
    BY <1>2, <2>1, <2>2
  <2>3. CASE i - 1 \in DOMAIN Tail(q) /\ Tail(q)[i - 1] = q[i]
    BY <2>1, <2>3 DEF Range
  <2>. QED
    BY <1>5, <2>2, <2>3
<1>9. ASSUME \A i, j \in DOMAIN q : q[i] = q[j] => i = j
      PROVE  /\ Head(q) \notin Range(Tail(q))
             /\ \A i, j \in DOMAIN Tail(q) : Tail(q)[i] = Tail(q)[j] => i = j
  <2>1. \A i \in DOMAIN Tail(q) : i + 1 # 1 /\ i \in Int
    BY <1>3
  <2>2. \A i \in DOMAIN Tail(q) : Tail(q)[i] # q[1]
    BY <1>4, <1>6, <1>9, <2>1
  <2>3. \A i, j \in DOMAIN Tail(q) : Tail(q)[i] = Tail(q)[j] => i = j
    BY <1>4, <1>9, <2>1
  <2>. QED
    BY <1>2, <2>2, <2>3 DEF Range
<1>. QED
  BY <1>1, <1>7, <1>8, <1>9

(* The exposure is a sum of costs.                                          *)
LEMMA ExposureNat ==
  ASSUME NEW table \in [Symbols -> Positions]
  PROVE  Exposure(table) \in Nat
<1>1. \A s \in Symbols : [x \in Symbols |-> table[x].cost][s] \in Nat
  BY DEF Positions
<1>2. SumFunctionOnSet([x \in Symbols |-> table[x].cost], Symbols) \in Nat
  BY <1>1, SumNat, MomentumRotationAssumption
<1>. QED
  BY <1>2 DEF Exposure, SumFunction

(* One position changes, and the exposure by as much as it.                 *)
LEMMA ExposureOfOneMore ==
  ASSUME NEW table \in [Symbols -> Positions], NEW new \in [Symbols -> Positions],
         NEW s \in Symbols, NEW n \in Nat, new[s].cost = table[s].cost + n,
         \A x \in Symbols \ {s} : new[x] = table[x]
  PROVE  Exposure(new) = Exposure(table) + n
<1> DEFINE f == [x \in Symbols |-> table[x].cost]
           h == [x \in Symbols |-> new[x].cost]
<1>0. IsFiniteSet(Symbols)
  BY MomentumRotationAssumption
<1>1. \A x \in Symbols : f[x] \in Int /\ h[x] \in Int
  BY DEF Positions
<1>2. \A x \in Symbols \ {s} : f[x] = h[x]
  OBVIOUS
<1>3. h[s] = f[s] + n
  OBVIOUS
<1>4. DOMAIN f = Symbols /\ DOMAIN h = Symbols
  OBVIOUS
<1>5. SumFunctionOnSet(h, Symbols) = SumFunctionOnSet(f, Symbols) + n
  <2> HIDE DEF f, h
  <2>1. SumFunctionOnSet(h, Symbols) = SumFunctionOnSet(f, Symbols) - f[s] + h[s]
    BY <1>1, <1>2, <1>0, SumChange
  <2>2. SumFunctionOnSet(f, Symbols) \in Int /\ f[s] \in Int
    BY <1>1, <1>0, SumInt
  <2>. QED
    BY <1>3, <2>1, <2>2
<1>. QED
  BY <1>4, <1>5 DEF Exposure, SumFunction

(* The budget of a cycle that selected something is an amount of money.     *)
LEMMA BuyQuantityNat ==
  ASSUME RotationTyped, NEW signal \in Signals, signal \in Range(selected)
  PROVE  BuyQuantity(signal) \in Nat
<1>1. Len(selected) \in Nat \ {0}
  <2>1. selected \in Seq(Signals) /\ selected # <<>>
    BY DEF RotationTyped, Range
  <2>. QED
    BY <2>1, EmptySeq
<1>2. equity \in Nat /\ settings.maxAllocationPct \in Nat
  <2>1. equity \in Nat /\ settings \in Configs
    BY DEF RotationTyped, RotationTypeOK
  <2>2. settings.maxAllocationPct \in 1..100
    BY <2>1, MomentumRotationAssumption
  <2>. QED
    BY <2>1, <2>2
<1>3. equity \div Len(selected) \in Nat
  BY <1>1, <1>2
<1>4. (equity * settings.maxAllocationPct) \div 100 \in Nat
  <2>1. equity * settings.maxAllocationPct \in Nat
    BY <1>2
  <2>. QED
    BY <2>1
<1>5. Budget \in Nat
  BY <1>3, <1>4 DEF Budget
<1>6. Notional(signal.price, 1) \in Nat \ {0}
  <2>1. signal.price \in Nat \ {0} /\ Scale \in Nat \ {0}
    BY MomentumRotationAssumption, FillAssumption DEF Signals
  <2>2. Scale * signal.price \in Nat \ {0}
    BY <2>1
  <2>. QED
    BY <2>2 DEF Notional
<1>. QED
  BY <1>5, <1>6 DEF BuyQuantity

-----------------------------------------------------------------------------
(* A theme that was never evaluated.                                        *)
LEMMA RotationStarts ==
  ASSUME RotationInit
  PROVE  RotationInv
<1>1. Open(pos) = {}
  BY DEF RotationInit, Open, NoPosition
<1>2. Cardinality(Open(pos)) = 0 /\ settings.maxPositions \in Nat
  BY <1>1, FS_EmptySet, MomentumRotationAssumption DEF RotationInit
<1>3. selected \in Seq(Signals) /\ rows \in [Symbols -> Positions] /\ pos \in [Symbols -> Positions]
  BY EmptySeq DEF RotationInit, NoPosition, Positions
<1>4. RotationTyped
  BY <1>3, MomentumRotationAssumption
  DEF RotationInit, RotationTyped, RotationTypeOK, Steps, Exiting, Entering, Ordering
<1>5. BuysFit
  BY <1>2 DEF RotationInit, BuysFit
<1>6. TradedOnce
  BY DEF RotationInit, TradedOnce, Known
<1>7. Leaving /\ Whole
  BY DEF RotationInit, Leaving, Whole, BookFollowsScreen, Exiting
<1>. QED
  BY <1>4, <1>5, <1>6, <1>7 DEF RotationInv

(* A new bar for each symbol.                                               *)
LEMMA BarsTyped ==
  ASSUME RotationTyped, NEW closes \in [Symbols -> Prices], NextDay(closes)
  PROVE  bars' \in [Symbols -> Seq(Prices)]
<1> DEFINE all(s) == Append(bars[s], closes[s])
           from(s) == IF Len(all(s)) > MaxBars THEN Len(all(s)) - MaxBars + 1 ELSE 1
<1>1. ASSUME NEW s \in Symbols
      PROVE  SubSeq(all(s), from(s), Len(all(s))) \in Seq(Prices)
  <2>1. bars[s] \in Seq(Prices) /\ closes[s] \in Prices
    BY DEF RotationTyped, RotationTypeOK
  <2>2. all(s) \in Seq(Prices)
    BY <2>1
  <2>3. Len(all(s)) \in Nat /\ MaxBars \in Nat
    BY <2>2, MomentumRotationAssumption
  <2>4. from(s) \in 1..Len(all(s)) + 1
    BY <2>3
  <2>5. \A i \in from(s)..Len(all(s)) : all(s)[i] \in Prices
    <3>1. \A i \in from(s)..Len(all(s)) : i \in 1..Len(all(s))
      BY <2>3, <2>4
    <3>. QED
      BY <2>2, <3>1
  <2>. HIDE DEF all, from
  <2>. QED
    BY <2>3, <2>4, <2>5, SubSeqProperties
<1>. QED
  BY <1>1 DEF NextDay

(* A filled order leaves an account.                                        *)
LEMMA FillKeepsTypes ==
  ASSUME RotationTyped, NEW side \in Sides, step \in {"sell", "buy"}, Fill(side),
         CanFill(side, order.price, order.qty, cash, pos[order.symbol])
  PROVE  /\ cash' \in Nat /\ pos' \in [Symbols -> Positions]
         /\ fills' \in [Hashes -> Nat]
         /\ NewPosition(side, order.price, order.qty, pos[order.symbol]) \in Positions
<1>1. order \in RotationOrders
  BY DEF RotationTyped, Ordering
<1>2. /\ order.symbol \in Symbols /\ order.price \in Nat /\ order.qty \in Nat \ {0}
      /\ order.day \in 1..MaxDays
  BY <1>1, MomentumRotationAssumption DEF RotationOrders
<1>3. pos \in [Symbols -> Positions] /\ cash \in Nat /\ fills \in [Hashes -> Nat]
  BY DEF RotationTyped, RotationTypeOK
<1>4. /\ NewCash(side, order.price, order.qty, cash) \in Nat
      /\ NewPosition(side, order.price, order.qty, pos[order.symbol]) \in Positions
  BY <1>2, <1>3, FillIsTyped DEF Sides
<1>. QED
  BY <1>2, <1>3, <1>4 DEF Fill, Hashes

(* The types, a step at a time.                                             *)
LEMMA TypesKept ==
  ASSUME RotationTyped, RotationNext \/ UNCHANGED rotationVars
  PROVE  RotationTyped'
<1> USE DEF RotationTyped, RotationTypeOK, Exiting, Entering, Ordering, Steps,
            account, world, screened, cycleHistory
<1>1. CASE EvaluateRotation
  BY <1>1, MomentumRotationAssumption DEF EvaluateRotation
<1>2. CASE ScreenSymbol
  <2>1. remaining \in Seq(Symbols) /\ remaining # <<>>
    BY <1>2 DEF ScreenSymbol
  <2>2. Head(remaining) \in Symbols /\ Tail(remaining) \in Seq(Symbols)
    BY <2>1, TakeFirst
  <2>3. selected' \in Seq(Signals)
    <3>1. CASE RotationSignal(settings, bars[Head(remaining)]) = "buy"
      <4> DEFINE b == bars[Head(remaining)]
      <4>1. b # <<>>
        BY <3>1 DEF RotationSignal
      <4>2. b \in Seq(Prices)
        BY <2>2
      <4>3. b[Len(b)] \in Prices
        BY <4>1, <4>2, EmptySeq
      <4>4. [symbol |-> Head(remaining), price |-> b[Len(b)]] \in Signals
        BY <2>2, <4>3 DEF Signals
      <4>. QED
        BY <1>2, <4>4, AppendProperties DEF ScreenSymbol
    <3>2. CASE RotationSignal(settings, bars[Head(remaining)]) # "buy"
      BY <1>2, <3>2 DEF ScreenSymbol
    <3>. QED
      BY <3>1, <3>2
  <2>. QED
    BY <1>2, <2>2, <2>3 DEF ScreenSymbol
<1>3. CASE ScreenFails
  BY <1>3, TakeFirst DEF ScreenFails
<1>4. CASE ReadBook
  <2>1. DroppedOut \subseteq Symbols /\ \A s \in DroppedOut : pos[s].qty > 0
    BY DEF DroppedOut, Open
  <2>2. remaining' \in Seq(DroppedOut)
    <3>1. IsFiniteSet(DroppedOut)
      BY <2>1, FS_Subset, MomentumRotationAssumption
    <3>2. Cardinality(DroppedOut) \in Nat
      BY <3>1, FS_CardinalityType
    <3>3. remaining' \in [1..Cardinality(DroppedOut) -> DroppedOut]
      BY <1>4 DEF ReadBook, SetToSeqs
    <3>. QED
      BY <3>2, <3>3, SeqDef, SMTT(30)
  <2>3. remaining' \in Seq(Symbols) /\ \A s \in Range(remaining') : pos[s].qty > 0
    BY <2>1, <2>2 DEF Range
  <2>4. cash + Exposure(pos) \in Nat
    <3>1. pos \in [Symbols -> Positions] /\ cash \in Nat
      OBVIOUS
    <3>2. Exposure(pos) \in Nat
      BY <3>1, ExposureNat
    <3>. QED
      BY <3>1, <3>2
  <2>. QED
    BY <1>4, <2>3, <2>4 DEF ReadBook
<1>5. CASE \E quote \in Prices \cup {NoPrice} : SkipSale(quote) \/ DecideSale(quote)
  <2>1. /\ remaining \in Seq(Symbols) /\ remaining # <<>> /\ step = "exits"
        /\ remaining' = Tail(remaining)
    BY <1>5 DEF SkipSale, DecideSale
  <2>2. /\ Head(remaining) \in Symbols /\ rows[Head(remaining)].qty > 0
        /\ Tail(remaining) \in Seq(Symbols)
        /\ \A s \in Range(Tail(remaining)) : rows[s].qty > 0
    BY <2>1, TakeFirst
  <2>3. rows[Head(remaining)].qty \in Nat \ {0}
    BY <2>2, SMTT(30) DEF Positions
  <2>4. ASSUME NEW quote \in Prices \cup {NoPrice}, DecideSale(quote)
        PROVE  order' \in RotationOrders /\ order'.day \in since..day
    BY <2>2, <2>3, <2>4 DEF DecideSale, RotationOrders
  <2>. QED
    BY <1>5, <2>1, <2>2, <2>4 DEF SkipSale, DecideSale
<1>6. CASE PlaceSale
  BY <1>6, FillKeepsTypes DEF PlaceSale, Fill, Sides
<1>7. CASE RecordSale \/ RecordBuy
  <2>1. order.symbol \in Symbols /\ order.day \in 1..MaxDays
    BY <1>7 DEF RecordSale, RecordBuy, RotationOrders
  <2>2. processed' \subseteq Hashes
    BY <1>7, <2>1 DEF RecordSale, RecordBuy, Hashes, Sides
  <2>. QED
    BY <1>7, <2>2 DEF RecordSale, RecordBuy
<1>8. CASE EndExits
  BY <1>8, EmptySeq DEF EndExits, Range
<1>9. CASE SkipEntry
  BY <1>9, TakeFirst DEF SkipEntry
<1>10. CASE DecideEntry
  <2>1. remaining \in Seq(Signals) /\ remaining # <<>>
    BY <1>10 DEF DecideEntry
  <2>2. Head(remaining) \in Signals /\ Head(remaining) \in Range(selected)
    BY <1>10, <2>1, TakeFirst DEF DecideEntry
  <2>3. BuyQuantity(Head(remaining)) \in Nat \ {0}
    BY <1>10, <2>2, BuyQuantityNat DEF DecideEntry, WantsBuy
  <2>4. order' \in RotationOrders /\ order'.day \in since..day
    BY <1>10, <2>2, <2>3 DEF DecideEntry, RotationOrders, Signals
  <2>. QED
    BY <1>10, <2>1, <2>4, TakeFirst DEF DecideEntry
<1>11. CASE PlaceBuy
  BY <1>11, FillKeepsTypes DEF PlaceBuy, Fill, Sides
<1>12. CASE BuyRejected
  BY <1>12 DEF BuyRejected
<1>13. CASE EndCycle \/ Crash
  <2>0. Idle
    BY <1>13 DEF EndCycle, Crash
  <2>1. rows' \in [Symbols -> Positions]
    BY <2>0 DEF Idle, NoPosition, Positions
  <2>. QED
    BY <1>13, <2>0, <2>1, EmptySeq DEF EndCycle, Crash, Idle
<1>14. CASE \E closes \in [Symbols -> Prices] : NextDay(closes)
  <2>1. bars' \in [Symbols -> Seq(Prices)]
    BY <1>14, BarsTyped
  <2>2. day' \in 1..MaxDays /\ day' = day + 1
    BY <1>14, MomentumRotationAssumption DEF NextDay
  <2>3. UNCHANGED <<settings, account, processed, step, remaining, screened, order, cycleHistory>>
    BY <1>14 DEF NextDay
  <2>4. \A d \in since..day : d \in since..day'
    BY <2>2, MomentumRotationAssumption
  <2>5. since' \in 1..day'
    BY <2>2, <2>3, MomentumRotationAssumption
  <2>6. step' \in Ordering => order' \in RotationOrders /\ order'.day \in since'..day'
    BY <2>3, <2>4
  <2>. QED
    BY <2>1, <2>2, <2>3, <2>5, <2>6
<1>15. CASE UNCHANGED rotationVars
  BY <1>15 DEF rotationVars
<1>. QED
  BY <1>1, <1>2, <1>3, <1>4, <1>5, <1>6, <1>7, <1>8, <1>9, <1>10, <1>11, <1>12, <1>13,
     <1>14, <1>15 DEF RotationNext, Rotate

-----------------------------------------------------------------------------
(* A limit's check, and the fill that follows it.                           *)
LEMMA BuysFitKept ==
  ASSUME RotationTyped, BuysFit, RotationNext \/ UNCHANGED rotationVars
  PROVE  BuysFit'
<1> USE DEF account, world, screened, cycleHistory
<1>0. /\ pos \in [Symbols -> Positions]
      /\ settings.maxPositions \in Nat
      /\ Open(pos) \subseteq Symbols
      /\ Cardinality(Open(pos)) \in Nat
  <2>1. settings \in Configs /\ pos \in [Symbols -> Positions] /\ Open(pos) \subseteq Symbols
    BY DEF RotationTyped, RotationTypeOK, Open
  <2>. QED
    BY <2>1, FS_Subset, FS_CardinalityType, MomentumRotationAssumption
<1>1. CASE UNCHANGED <<settings, pos>> /\ step' \notin {"buy", "recordBuy"}
  BY <1>1 DEF BuysFit, Open
<1>2. CASE UNCHANGED <<settings, pos, order, equity, step>>
  BY <1>2 DEF BuysFit, Open, Exposure
<1>3. CASE PlaceSale
  <2>1. order.symbol \in Symbols /\ order.qty \in Nat
    BY <1>3 DEF PlaceSale, RotationTyped, Ordering, RotationOrders
  <2>2. Open(pos)' \subseteq Open(pos)
    BY <1>0, <1>3, <2>1 DEF PlaceSale, Fill, Open, NewPosition, Positions
  <2>3. Cardinality(Open(pos)') <= Cardinality(Open(pos)) /\ Cardinality(Open(pos)') \in Nat
    BY <1>0, <2>2, FS_Subset, FS_CardinalityType, MomentumRotationAssumption
  <2>4. settings' = settings /\ step' = "recordSale"
    BY <1>3 DEF PlaceSale
  <2>. QED
    BY <1>0, <2>3, <2>4 DEF BuysFit
<1>4. CASE DecideEntry
  <2>1. /\ Cardinality(Open(pos)) < settings.maxPositions
        /\ 100 * (Exposure(pos) + Notional(order'.price, order'.qty))
             <= equity * settings.maxTotalAllocationPct
        /\ UNCHANGED <<settings, pos, equity>>
        /\ step' = "buy"
    BY <1>4 DEF DecideEntry, WantsBuy, IsWithinAllocationLimit
  <2>. QED
    BY <2>1 DEF BuysFit, Open, Exposure
<1>5. CASE PlaceBuy
  <2>1. /\ order.symbol \in Symbols /\ order.price \in Nat /\ order.qty \in Nat
        /\ Notional(order.price, order.qty) \in Nat
    <3>1. order \in RotationOrders
      BY <1>5 DEF PlaceBuy, RotationTyped, Ordering
    <3>. QED
      BY <3>1, AmountsNat, MomentumRotationAssumption DEF RotationOrders
  <2>2. /\ pos' = [pos EXCEPT ![order.symbol] = NewPosition("buy", order.price, order.qty, @)]
        /\ UNCHANGED <<settings, equity, order>> /\ step = "buy" /\ step' = "recordBuy"
    BY <1>5 DEF PlaceBuy, Fill
  <2>3. Open(pos)' \subseteq Open(pos) \cup {order.symbol}
    BY <1>0, <2>1, <2>2 DEF Open
  <2>4. IsFiniteSet(Open(pos)) /\ Cardinality(Open(pos)) < settings.maxPositions
    BY <1>0, <2>2, FS_Subset, MomentumRotationAssumption DEF BuysFit
  <2>5. /\ IsFiniteSet(Open(pos) \cup {order.symbol})
        /\ Cardinality(Open(pos) \cup {order.symbol}) <= Cardinality(Open(pos)) + 1
    BY <1>0, <2>4, FS_AddElement, SMTT(30)
  <2>6. Cardinality(Open(pos)') <= Cardinality(Open(pos)) + 1 /\ Cardinality(Open(pos)') \in Nat
    BY <1>0, <2>3, <2>5, FS_Subset, FS_CardinalityType
  <2>7. NewPosition("buy", order.price, order.qty, pos[order.symbol]) \in Positions
    BY <1>5, FillKeepsTypes DEF PlaceBuy, Sides
  <2>8. Exposure(pos)' = Exposure(pos) + Notional(order.price, order.qty)
    <3>1. /\ pos' \in [Symbols -> Positions]
          /\ pos'[order.symbol].cost = pos[order.symbol].cost + Notional(order.price, order.qty)
          /\ \A x \in Symbols \ {order.symbol} : pos'[x] = pos[x]
      BY <1>0, <2>1, <2>2, <2>7 DEF NewPosition
    <3>2. Exposure(pos') = Exposure(pos) + Notional(order.price, order.qty)
      BY <1>0, <2>1, <3>1, ExposureOfOneMore
    <3>. QED
      BY <3>2 DEF Exposure
  <2>. QED
    BY <1>0, <2>2, <2>4, <2>6, <2>8 DEF BuysFit
<1>6. CASE EvaluateRotation
  BY <1>1, <1>6 DEF EvaluateRotation
<1>7. CASE ScreenSymbol \/ ScreenFails \/ ReadBook
  BY <1>1, <1>2, <1>7 DEF ScreenSymbol, ScreenFails, ReadBook
<1>8. CASE \E quote \in Prices \cup {NoPrice} : SkipSale(quote) \/ DecideSale(quote)
  BY <1>1, <1>8 DEF SkipSale, DecideSale
<1>9. CASE RecordSale \/ EndExits \/ RecordBuy \/ BuyRejected
  BY <1>1, <1>9 DEF RecordSale, EndExits, RecordBuy, BuyRejected
<1>10. CASE SkipEntry
  BY <1>2, <1>10 DEF SkipEntry
<1>11. CASE EndCycle \/ Crash
  BY <1>1, <1>11 DEF EndCycle, Crash, Idle
<1>12. CASE \E closes \in [Symbols -> Prices] : NextDay(closes)
  BY <1>2, <1>12 DEF NextDay
<1>13. CASE UNCHANGED rotationVars
  BY <1>2, <1>13 DEF rotationVars
<1>. QED
  BY <1>3, <1>4, <1>5, <1>6, <1>7, <1>8, <1>9, <1>10, <1>11, <1>12, <1>13 DEF
     RotationNext, Rotate

(* A hash is new when its order is decided, traded when it is filled, and   *)
(* recorded next, unless the process dies in between.                       *)
LEMMA TradedOnceKept ==
  ASSUME RotationTyped, TradedOnce, RotationNext \/ UNCHANGED rotationVars
  PROVE  TradedOnce'
<1> USE DEF account, world, screened, cycleHistory, Exiting
<1>0. /\ fills \in [Hashes -> Nat] /\ lost \in Nat /\ processed \subseteq Hashes
      /\ step \in Ordering => OrderHash \in Hashes
  <2>1. step \in Ordering => order \in RotationOrders
    BY DEF RotationTyped
  <2>2. step \in Ordering => OrderHash \in Hashes
    BY <2>1 DEF OrderHash, Hashes, Sides, RotationOrders
  <2>. QED
    BY <2>2 DEF RotationTyped, RotationTypeOK
<1>1. CASE /\ UNCHANGED <<processed, fills, lost>>
           /\ step \notin {"recordSale", "recordBuy"} /\ step' \notin Ordering
  BY <1>1 DEF TradedOnce, Known, Ordering
<1>2. CASE UNCHANGED <<processed, fills, lost, step, order>>
  BY <1>2 DEF TradedOnce, Known, OrderHash
<1>3. CASE PlaceSale \/ PlaceBuy
  <2>1. /\ UNCHANGED <<processed, lost, order>>
        /\ step \in {"sell", "buy"} /\ step' \in {"recordSale", "recordBuy"}
        /\ OrderHash' = OrderHash
    BY <1>3 DEF PlaceSale, PlaceBuy, OrderHash
  <2>2. fills' = [fills EXCEPT ![OrderHash] = @ + 1]
    BY <1>3 DEF PlaceSale, PlaceBuy, Fill, OrderHash
  <2>3. Known = processed /\ Known' = processed \cup {OrderHash} /\ OrderHash \notin processed
    BY <2>1 DEF Known, TradedOnce
  <2>4. OrderHash \in Hashes
    BY <1>0, <2>1 DEF Ordering
  <2>5. ASSUME NEW h \in Hashes
        PROVE  fills'[h] <= IF h \in Known' THEN 1 + lost ELSE lost
    <3>1. fills[h] <= (IF h \in Known THEN 1 + lost ELSE lost) /\ fills[h] \in Nat
      BY <1>0 DEF TradedOnce
    <3>2. CASE h = OrderHash
      BY <1>0, <2>2, <2>3, <2>4, <3>1, <3>2
    <3>3. CASE h # OrderHash
      BY <1>0, <2>2, <2>3, <3>1, <3>3
    <3>. QED
      BY <3>2, <3>3
  <2>. QED
    BY <2>1, <2>5 DEF TradedOnce
<1>4. CASE RecordSale \/ RecordBuy
  <2>1. /\ UNCHANGED <<fills, lost>> /\ processed' = processed \cup {OrderHash}
        /\ step \in {"recordSale", "recordBuy"} /\ step' \in {"exits", "entries"}
    BY <1>4 DEF RecordSale, RecordBuy, OrderHash
  <2>2. Known' = Known
    BY <2>1 DEF Known
  <2>. QED
    BY <2>1, <2>2 DEF TradedOnce
<1>5. CASE \E quote \in Prices \cup {NoPrice} : DecideSale(quote)
  <2>1. /\ UNCHANGED <<processed, fills, lost>> /\ step = "exits" /\ step' = "sell"
        /\ OrderHash' \notin processed
    BY <1>5 DEF DecideSale, OrderHash, Hash
  <2>2. Known' = Known
    BY <2>1 DEF Known
  <2>. QED
    BY <2>1, <2>2 DEF TradedOnce
<1>6. CASE DecideEntry
  <2>1. /\ UNCHANGED <<processed, fills, lost>> /\ step = "entries" /\ step' = "buy"
        /\ OrderHash' \notin processed
    BY <1>6 DEF DecideEntry, WantsBuy, OrderHash, Hash
  <2>2. Known' = Known
    BY <2>1 DEF Known
  <2>. QED
    BY <2>1, <2>2 DEF TradedOnce
<1>7. CASE Crash
  <2>1. UNCHANGED <<processed, fills>> /\ step' = "idle" /\ Known' = processed
    BY <1>7 DEF Crash, Idle, Known
  <2>2. lost' = IF step \in {"recordSale", "recordBuy"} THEN lost + 1 ELSE lost
    BY <1>7 DEF Crash
  <2>3. ASSUME NEW h \in Hashes
        PROVE  fills[h] <= IF h \in processed THEN 1 + lost' ELSE lost'
    <3>1. fills[h] <= (IF h \in Known THEN 1 + lost ELSE lost) /\ fills[h] \in Nat
      BY <1>0 DEF TradedOnce
    <3>2. h \in Known => h \in processed \/ step \in {"recordSale", "recordBuy"}
      BY DEF Known
    <3>. QED
      BY <1>0, <2>2, <3>1, <3>2
  <2>. QED
    BY <2>1, <2>3 DEF TradedOnce
<1>8. CASE EvaluateRotation
  BY <1>1, <1>8 DEF EvaluateRotation, Ordering
<1>9. CASE ScreenSymbol \/ ScreenFails \/ ReadBook
  BY <1>1, <1>9 DEF ScreenSymbol, ScreenFails, ReadBook, Ordering
<1>10. CASE \E quote \in Prices \cup {NoPrice} : SkipSale(quote)
  BY <1>1, <1>10 DEF SkipSale, Ordering
<1>11. CASE EndExits \/ SkipEntry \/ BuyRejected \/ EndCycle
  BY <1>1, <1>11 DEF EndExits, SkipEntry, BuyRejected, EndCycle, Idle, Ordering
<1>12. CASE \E closes \in [Symbols -> Prices] : NextDay(closes)
  BY <1>2, <1>12 DEF NextDay
<1>13. CASE UNCHANGED rotationVars
  BY <1>2, <1>13 DEF rotationVars
<1>. QED
  BY <1>3, <1>4, <1>5, <1>6, <1>7, <1>8, <1>9, <1>10, <1>11, <1>12, <1>13 DEF
     RotationNext, Rotate

-----------------------------------------------------------------------------
(* A set put in some order has each element once, and nothing else.         *)
LEMMA InSomeOrder ==
  ASSUME NEW S, IsFiniteSet(S), NEW q \in SetToSeqs(S)
  PROVE  /\ q \in Seq(S) /\ Range(q) = S
         /\ \A i, j \in DOMAIN q : q[i] = q[j] => i = j
<1>1. Cardinality(S) \in Nat
  BY FS_CardinalityType
<1>2. /\ q \in [1..Cardinality(S) -> S]
      /\ \A i, j \in 1..Cardinality(S) : i # j => q[i] # q[j]
  BY DEF SetToSeqs
<1>3. q \in Injection(1..Cardinality(S), S)
  BY <1>2 DEF Injection, IsInjective
<1>4. Cardinality(1..Cardinality(S)) = Cardinality(S)
  BY <1>1, FS_Interval
<1>5. q \in Surjection(1..Cardinality(S), S)
  BY <1>3, <1>4, FS_Injection
<1>6. Range(q) = S
  BY <1>2, <1>5 DEF Surjection, Range
<1>. QED
  BY <1>1, <1>2, <1>6, SeqDef

(* The exits leave nothing that dropped out, and the entries bring nothing  *)
(* that is not in the screen.                                               *)
LEMMA LeavingKept ==
  ASSUME RotationTyped, Leaving, RotationNext \/ UNCHANGED rotationVars
  PROVE  Leaving'
<1> USE DEF account, world, screened, cycleHistory, Exiting
<1>0. pos \in [Symbols -> Positions] /\ day \in Nat /\ since \in 1..day
  BY DEF RotationTyped, RotationTypeOK
<1>1. CASE step' \notin {"exits", "sell", "recordSale", "entries", "buy", "recordBuy"}
  BY <1>1 DEF Leaving, BookFollowsScreen
<1>2. CASE UNCHANGED <<pos, processed, selected, order, step, remaining, clean, since>> /\ day' \in Nat /\ day <= day'
  <2>1. \A d \in since..day : d \in since..day'
    BY <1>0, <1>2
  <2>2. \A s : SoldSince(s) => SoldSince(s)'
    BY <1>2, <2>1 DEF SoldSince
  <2>3. UNCHANGED <<Open(pos), SelectedSymbols>>
    BY <1>2 DEF Open, SelectedSymbols
  <2>. QED
    BY <1>2, <2>2, <2>3 DEF Leaving, BookFollowsScreen, SoldSince
<1>3. CASE EvaluateRotation \/ ScreenSymbol \/ ScreenFails \/ EndCycle \/ Crash
  BY <1>1, <1>3 DEF EvaluateRotation, ScreenSymbol, ScreenFails, EndCycle, Crash, Idle
<1>4. CASE ReadBook
  <2>1. IsFiniteSet(DroppedOut)
    BY FS_Subset, MomentumRotationAssumption DEF DroppedOut, Open
  <2>2. Range(remaining') = DroppedOut
    BY <1>4, <2>1, InSomeOrder DEF ReadBook
  <2>3. UNCHANGED <<Open(pos), SelectedSymbols>> /\ step' = "exits"
    BY <1>4 DEF ReadBook, Open, SelectedSymbols
  <2>. QED
    BY <2>2, <2>3 DEF Leaving, BookFollowsScreen, DroppedOut
<1>5. ASSUME NEW quote \in Prices \cup {NoPrice}, SkipSale(quote) \/ DecideSale(quote)
      PROVE  Leaving'
  <2>1. /\ remaining \in Seq(Symbols) /\ remaining # <<>> /\ remaining' = Tail(remaining)
        /\ step = "exits" /\ step' \in {"exits", "sell"}
        /\ UNCHANGED <<pos, processed, selected, since, day>>
        /\ clean' => clean
    BY <1>5 DEF SkipSale, DecideSale, RotationTyped
  <2>2. \A x \in Range(remaining) : x = Head(remaining) \/ x \in Range(remaining')
    BY <2>1, TakeFirst
  <2>3. clean' => \/ step' = "sell" /\ order'.symbol = Head(remaining)
                  \/ SoldSince(Head(remaining))
    <3>1. CASE SkipSale(quote)
      <4>1. quote # NoPrice => <<Head(remaining), "sell", day>> \in processed
        BY <3>1 DEF SkipSale, Hash
      <4>2. clean' => quote # NoPrice
        BY <3>1 DEF SkipSale
      <4>3. day \in since..day
        BY <1>0
      <4>. QED
        BY <4>1, <4>2, <4>3 DEF SoldSince
    <3>2. CASE DecideSale(quote)
      BY <3>2 DEF DecideSale
    <3>. QED
      BY <1>5, <3>1, <3>2
  <2>4. UNCHANGED <<Open(pos), SelectedSymbols>> /\ \A s : SoldSince(s)' = SoldSince(s)
    BY <2>1 DEF Open, SelectedSymbols, SoldSince
  <2>5. step' = "sell" \/ UNCHANGED order
    BY <1>5 DEF SkipSale, DecideSale
  <2>. QED
    BY <2>1, <2>2, <2>3, <2>4 DEF Leaving, BookFollowsScreen
<1>6. CASE PlaceSale
  <2>1. order.symbol \in Symbols /\ order.qty \in Nat
    BY <1>6 DEF PlaceSale, RotationTyped, Ordering, RotationOrders
  <2>2. Open(pos)' \subseteq Open(pos)
    BY <1>0, <1>6, <2>1 DEF PlaceSale, Fill, Open, NewPosition, Positions
  <2>3. /\ step = "sell" /\ step' = "recordSale"
        /\ UNCHANGED <<processed, selected, since, day, clean, order, remaining>>
    BY <1>6 DEF PlaceSale
  <2>4. UNCHANGED SelectedSymbols /\ \A s : SoldSince(s)' = SoldSince(s)
    BY <2>3 DEF SelectedSymbols, SoldSince
  <2>. QED
    BY <2>2, <2>3, <2>4 DEF Leaving, BookFollowsScreen
<1>7. CASE RecordSale
  <2>1. /\ step = "recordSale" /\ step' = "exits"
        /\ UNCHANGED <<pos, selected, since, day, clean, remaining>>
        /\ processed' = processed \cup {<<order.symbol, "sell", order.day>>}
    BY <1>7 DEF RecordSale
  <2>2. order.day \in since..day
    BY <2>1 DEF RotationTyped, Ordering
  <2>3. \A s : s = order.symbol \/ SoldSince(s) => SoldSince(s)'
    BY <2>1, <2>2 DEF SoldSince
  <2>4. UNCHANGED <<Open(pos), SelectedSymbols>>
    BY <2>1 DEF Open, SelectedSymbols
  <2>. QED
    BY <2>1, <2>3, <2>4 DEF Leaving, BookFollowsScreen
<1>8. CASE EndExits
  <2>1. /\ step = "exits" /\ step' = "entries" /\ remaining = <<>>
        /\ UNCHANGED <<pos, processed, selected, since, day, clean>>
    BY <1>8 DEF EndExits
  <2>2. Range(remaining) = {}
    BY <2>1 DEF Range
  <2>3. UNCHANGED <<Open(pos), SelectedSymbols>>
    BY <2>1 DEF Open, SelectedSymbols
  <2>. QED
    BY <2>1, <2>2, <2>3 DEF Leaving, BookFollowsScreen, SoldSince
<1>9. CASE SkipEntry \/ DecideEntry \/ BuyRejected \/ RecordBuy
  <2>1. /\ step \in {"entries", "buy", "recordBuy"} /\ step' \in {"entries", "buy"}
        /\ UNCHANGED <<pos, selected, since, day, clean>>
        /\ processed \subseteq processed'
    BY <1>9 DEF SkipEntry, DecideEntry, BuyRejected, RecordBuy
  <2>2. UNCHANGED <<Open(pos), SelectedSymbols>>
    BY <2>1 DEF Open, SelectedSymbols
  <2>3. step' = "buy" => order'.symbol \in SelectedSymbols
    <3>1. CASE DecideEntry
      <4>1. remaining \in Seq(Signals) /\ remaining # <<>> /\ order'.symbol = Head(remaining).symbol
        BY <3>1 DEF DecideEntry, RotationTyped, Entering
      <4>2. Head(remaining) \in Range(selected)
        BY <3>1, <4>1, TakeFirst DEF DecideEntry, RotationTyped, Entering
      <4>. QED
        BY <4>1, <4>2 DEF SelectedSymbols, Range
    <3>2. CASE ~DecideEntry
      BY <1>9, <3>2 DEF SkipEntry, BuyRejected, RecordBuy
    <3>. QED
      BY <3>1, <3>2
  <2>. QED
    BY <2>1, <2>2, <2>3 DEF Leaving, BookFollowsScreen
<1>10. CASE PlaceBuy
  <2>1. /\ step = "buy" /\ step' = "recordBuy"
        /\ UNCHANGED <<processed, selected, since, day, clean>>
        /\ \A s \in Symbols \ {order.symbol} : pos'[s] = pos[s]
    BY <1>0, <1>10 DEF PlaceBuy, Fill
  <2>2. Open(pos)' \subseteq Open(pos) \cup {order.symbol}
    BY <2>1 DEF Open
  <2>3. order.symbol \in SelectedSymbols /\ UNCHANGED SelectedSymbols
    BY <2>1 DEF Leaving, SelectedSymbols
  <2>. QED
    BY <2>1, <2>2, <2>3 DEF Leaving, BookFollowsScreen
<1>11. CASE \E closes \in [Symbols -> Prices] : NextDay(closes)
  BY <1>0, <1>2, <1>11 DEF NextDay
<1>12. CASE UNCHANGED rotationVars
  BY <1>0, <1>2, <1>12 DEF rotationVars
<1>. QED
  BY <1>3, <1>4, <1>5, <1>6, <1>7, <1>8, <1>9, <1>10, <1>11, <1>12 DEF RotationNext, Rotate

(* What the exits were going to sell is there to be sold.                   *)
LEMMA WholeKept ==
  ASSUME RotationTyped, Whole, RotationNext \/ UNCHANGED rotationVars
  PROVE  Whole'
<1> USE DEF account, world, screened, cycleHistory, Exiting
<1>0. pos \in [Symbols -> Positions] /\ rows \in [Symbols -> Positions]
  BY DEF RotationTyped, RotationTypeOK
<1>1. CASE step' \notin {"exits", "sell", "recordSale"}
  BY <1>1 DEF Whole
<1>2. CASE UNCHANGED <<pos, rows, remaining>> /\ (step' = step /\ order' = order)
  BY <1>2 DEF Whole
<1>3. CASE EvaluateRotation \/ ScreenSymbol \/ ScreenFails
  BY <1>1, <1>3 DEF EvaluateRotation, ScreenSymbol, ScreenFails
<1>4. CASE ReadBook
  <2>1. IsFiniteSet(DroppedOut)
    BY FS_Subset, MomentumRotationAssumption DEF DroppedOut, Open
  <2>2. \A i, j \in DOMAIN remaining' : remaining'[i] = remaining'[j] => i = j
    BY <1>4, <2>1, InSomeOrder DEF ReadBook
  <2>3. rows' = pos' /\ step' = "exits"
    BY <1>4 DEF ReadBook
  <2>. QED
    BY <2>2, <2>3 DEF Whole
<1>5. ASSUME NEW quote \in Prices \cup {NoPrice}, SkipSale(quote) \/ DecideSale(quote)
      PROVE  Whole'
  <2>1. /\ remaining \in Seq(Symbols) /\ remaining # <<>> /\ remaining' = Tail(remaining)
        /\ step = "exits" /\ UNCHANGED <<pos, rows>>
    BY <1>5 DEF SkipSale, DecideSale, RotationTyped
  <2>2. /\ Head(remaining) \in Range(remaining)
        /\ Range(remaining') \subseteq Range(remaining)
        /\ Head(remaining) \notin Range(remaining')
        /\ \A i, j \in DOMAIN remaining' : remaining'[i] = remaining'[j] => i = j
    BY <2>1, TakeFirst DEF Whole
  <2>3. rows[Head(remaining)] = pos[Head(remaining)]
    BY <2>1, <2>2 DEF Whole
  <2>4. step' = "sell" =>
          order'.symbol = Head(remaining) /\ order'.qty = rows[Head(remaining)].qty
    BY <1>5, <2>1 DEF SkipSale, DecideSale
  <2>. QED
    BY <2>1, <2>2, <2>3, <2>4 DEF Whole
<1>6. CASE PlaceSale
  <2>1. /\ step = "sell" /\ step' = "recordSale" /\ UNCHANGED <<rows, remaining>>
        /\ \A s \in Symbols \ {order.symbol} : pos'[s] = pos[s]
    BY <1>0, <1>6 DEF PlaceSale, Fill
  <2>2. Range(remaining) \subseteq Symbols \ {order.symbol}
    BY <2>1 DEF Whole, RotationTyped, Range
  <2>. QED
    BY <2>1, <2>2 DEF Whole
<1>7. CASE RecordSale
  BY <1>7 DEF RecordSale, Whole
<1>8. CASE EndExits \/ SkipEntry \/ DecideEntry \/ PlaceBuy \/ BuyRejected \/ RecordBuy
  BY <1>1, <1>8 DEF EndExits, SkipEntry, DecideEntry, PlaceBuy, BuyRejected, RecordBuy
<1>9. CASE EndCycle \/ Crash
  BY <1>1, <1>9 DEF EndCycle, Crash, Idle
<1>10. CASE \E closes \in [Symbols -> Prices] : NextDay(closes)
  BY <1>2, <1>10 DEF NextDay
<1>11. CASE UNCHANGED rotationVars
  BY <1>2, <1>11 DEF rotationVars
<1>. QED
  BY <1>3, <1>4, <1>5, <1>6, <1>7, <1>8, <1>9, <1>10, <1>11 DEF RotationNext, Rotate

-----------------------------------------------------------------------------
(* A moving average of integers is a fraction of integers, null too.        *)
LEMMA SmaInts ==
  ASSUME NEW values \in Seq(Int), NEW period \in Nat
  PROVE  Sma(values, period).num \in Int /\ Sma(values, period).den \in Int
<1>1. CASE Len(values) < period
  BY <1>1 DEF Sma, Null, Q
<1>2. CASE ~(Len(values) < period)
  <2> DEFINE from == Len(values) - period + 1
  <2>1. Len(values) \in Nat /\ from \in Nat \ {0}
    BY <1>2
  <2>2. \A i \in from..Len(values) : values[i] \in Int
    BY <2>1
  <2> HIDE DEF from
  <2>4. IsFiniteSet(from..Len(values))
    BY <2>1, FS_Interval
  <2>3. SumFunctionOnSet(values, from..Len(values)) \in Int
    BY <2>2, <2>4, SumInt
  <2>. QED
    BY <1>2, <2>3 DEF Sma, SumOf, Q, from
<1>. QED
  BY <1>1, <1>2

(* It is null exactly if there are not as many values.                      *)
LEMMA SmaNull ==
  ASSUME NEW values, NEW period \in Nat \ {0}
  PROVE  Sma(values, period) = Null <=> Len(values) < period
  BY DEF Sma, Null, Q

(* The average over f is not under the one over s, lag bars ago.            *)
Ahead(values, f, s, lag) ==
  LET past == Prefix(values, Len(values) - lag) IN AtMost(Sma(past, s), Sma(past, f))

(* What SmaCrossover says of the series without its last lag bars is about  *)
(* the averages there and a bar before.                                     *)
LEMMA PrefixOfPrefix ==
  ASSUME NEW values \in Seq(Int), NEW n \in 1..Len(values)
  PROVE  /\ Prefix(values, n) \in Seq(Int) /\ Len(Prefix(values, n)) = n
         /\ Prefix(Prefix(values, n), n - 1) = Prefix(values, n - 1)
<1>1. n \in Nat /\ n - 1 \in Nat /\ \A i \in 1..n : values[i] \in Int
  OBVIOUS
<1>2. /\ Prefix(values, n) \in Seq(Int) /\ Len(Prefix(values, n)) = n
      /\ \A i \in 1..n : Prefix(values, n)[i] = values[i]
  BY <1>1, SubSeqProperties DEF Prefix
<1>3. /\ Prefix(values, n - 1) \in Seq(Int) /\ Len(Prefix(values, n - 1)) = n - 1
      /\ \A i \in 1..(n - 1) : Prefix(values, n - 1)[i] = values[i]
  BY <1>1, SubSeqProperties DEF Prefix
<1> DEFINE p == Prefix(values, n)
<1> HIDE DEF p
<1>4. /\ Prefix(p, n - 1) \in Seq(Int) /\ Len(Prefix(p, n - 1)) = n - 1
      /\ \A i \in 1..(n - 1) : Prefix(p, n - 1)[i] = p[i]
  <2>1. \A i \in 1..(n - 1) : p[i] \in Int
    BY <1>1, <1>2 DEF p
  <2>. QED
    BY <1>1, <2>1, SubSeqProperties DEF Prefix
<1>5. \A i \in 1..(n - 1) : p[i] = values[i]
  BY <1>1, <1>2 DEF p
<1>6. Prefix(p, n - 1) = Prefix(values, n - 1)
  BY <1>3, <1>4, <1>5, SeqEqual
<1>. QED
  BY <1>2, <1>6 DEF p

(* Of two fractions of integers one is at most the other.                   *)
LEMMA NotBelow ==
  ASSUME NEW a, NEW b, a.num \in Int, a.den \in Int, b.num \in Int, b.den \in Int,
         ~Below(a, b)
  PROVE  AtMost(b, a)
<1>1. a.num * b.den \in Int /\ b.num * a.den \in Int
  OBVIOUS
<1>. QED
  BY <1>1 DEF Below, AtMost

(* No bar after a cross takes the averages apart the other way, unless it   *)
(* is a cross itself: from the cross on, the one that rose stays ahead.     *)
LEMMA StaysAhead ==
  ASSUME NEW values \in Seq(Int), NEW f \in Nat, NEW s \in Nat, NEW m \in Nat,
         m < Len(values),
         Ahead(values, f, s, m),
         \A lag \in 0..m - 1 :
           LET past == Prefix(values, Len(values) - lag)
               before == Prefix(past, Len(past) - 1)
           IN ~(/\ AtMost(Sma(before, s), Sma(before, f))
                /\ Below(Sma(past, f), Sma(past, s)))
  PROVE  Ahead(values, f, s, 0)
<1> DEFINE n == Len(values)
           T == {j \in Nat : j <= m => Ahead(values, f, s, m - j)}
<1>1. n \in Nat /\ m + 1 <= n
  OBVIOUS
<1>2. 0 \in T
  OBVIOUS
<1>3. ASSUME NEW j \in Nat, j \in T
      PROVE  j + 1 \in T
  <2> SUFFICES ASSUME j + 1 <= m PROVE Ahead(values, f, s, m - (j + 1))
    OBVIOUS
  <2> DEFINE lag == m - (j + 1)
             past == Prefix(values, n - lag)
             before == Prefix(past, Len(past) - 1)
  <2>1. lag \in 0..m - 1 /\ m - j = lag + 1 /\ n - lag \in 1..n /\ n - (m - j) = n - lag - 1
    BY <1>1
  <2>2. past \in Seq(Int) /\ Len(past) = n - lag /\ before = Prefix(values, n - lag - 1)
    BY <2>1, PrefixOfPrefix
  <2>3. AtMost(Sma(before, s), Sma(before, f))
    BY <1>3, <2>1, <2>2 DEF Ahead
  <2>4. ~Below(Sma(past, f), Sma(past, s))
    BY <2>1, <2>3
  <2>5. AtMost(Sma(past, s), Sma(past, f))
    <3> HIDE DEF past
    <3>. QED
      BY <2>2, <2>4, SmaInts, NotBelow
  <2>. QED
    BY <2>5 DEF Ahead
<1>4. Nat \subseteq T
  <2> HIDE DEF T
  <2>. QED
    BY <1>2, <1>3, NatSetInduction
<1>5. m \in T
  BY <1>4
<1>. QED
  BY <1>5

(* The lag combinedSignal stops at is the one of the latest cross.          *)
LEMMA LatestCross ==
  ASSUME NEW S, S \subseteq Nat, S # {}
  PROVE  Min(S) \in S /\ \A x \in S : Min(S) <= x
  BY HasLeast DEF Min

(* Every combined signal, for every series and every window: an order to    *)
(* buy is never given against averages that have crossed back since.        *)
LEMMA CombinedIsBacked ==
  ASSUME NEW values \in Seq(Int), NEW p,
         p.fast \in Nat \ {0}, p.slow \in Nat \ {0}, p.crossWindow \in Nat
  PROVE  SignalIsBacked(values, p)
<1> DEFINE n == Len(values)
           crossAt(lag) == SmaCrossover(Prefix(values, n - lag), p.fast, p.slow)
           lags == {lag \in 0..(n - p.slow - 1) : lag <= p.crossWindow /\ crossAt(lag) # "neutral"}
           m == Min(lags)
<1> SUFFICES ASSUME CombinedSignal(values, p) \in {"buy", "sell"}
             PROVE  SignalIsBacked(values, p)
  BY DEF SignalIsBacked
<1>1. lags # {} /\ crossAt(m) = CombinedSignal(values, p)
  BY DEF CombinedSignal
<1>2. m \in lags /\ \A x \in lags : m <= x
  <2>1. lags \subseteq Nat
    BY DEF lags
  <2> HIDE DEF lags
  <2>. QED
    BY <1>1, <2>1, LatestCross
<1>3. m \in 0..(n - p.slow - 1) /\ m <= p.crossWindow /\ n \in Nat /\ m \in Nat
  <2> HIDE DEF m
  <2>. QED
    BY <1>2
<1>4. ASSUME NEW lag \in 0..m - 1
      PROVE  crossAt(lag) = "neutral"
  <2> HIDE DEF m, crossAt
  <2>1. lag \in 0..(n - p.slow - 1) /\ lag <= p.crossWindow /\ ~(m <= lag)
    BY <1>3
  <2>. QED
    BY <1>2, <2>1
<1>5. Prefix(values, n - 0) = values
  BY DEF Prefix
<1> DEFINE past(lag) == Prefix(values, n - lag)
           before(lag) == Prefix(past(lag), Len(past(lag)) - 1)
<1> HIDE DEF m, lags
<1>6. ASSUME NEW lag \in 0..m
      PROVE  /\ past(lag) \in Seq(Int) /\ Len(past(lag)) = n - lag
             /\ before(lag) = Prefix(values, n - lag - 1)
             /\ before(lag) \in Seq(Int) /\ Len(before(lag)) = n - lag - 1
             /\ ~(Len(past(lag)) < p.slow + 1)
  <2>1. n - lag \in 1..n /\ n - lag >= p.slow + 1 /\ n - lag - 1 \in Nat
    BY <1>3
  <2>2. past(lag) \in Seq(Int) /\ Len(past(lag)) = n - lag /\ before(lag) = Prefix(values, n - lag - 1)
    BY <2>1, PrefixOfPrefix
  <2>3. before(lag) \in Seq(Int) /\ Len(before(lag)) = n - lag - 1
    <3>1. \A i \in 1..(n - lag - 1) : values[i] \in Int
      BY <2>1
    <3>2. /\ Prefix(values, n - lag - 1) \in Seq(Int)
          /\ Len(Prefix(values, n - lag - 1)) = n - lag - 1
      BY <2>1, <3>1, SubSeqProperties DEF Prefix
    <3>. QED
      BY <2>2, <3>2
  <2>4. \A k \in Nat : k >= p.slow + 1 => ~(k < p.slow + 1)
    OBVIOUS
  <2>5. ~(Len(past(lag)) < p.slow + 1)
    <3>1. n - lag \in Nat
      BY <2>1
    <3> HIDE DEF past, before
    <3>. QED
      BY <2>1, <2>2, <2>4, <3>1
  <2>. QED
    BY <2>2, <2>3, <2>5
<1>7. /\ Sma(before(m), p.fast) # Null /\ Sma(before(m), p.slow) # Null
      /\ crossAt(m) = "buy" => Below(Sma(past(m), p.slow), Sma(past(m), p.fast))
      /\ crossAt(m) = "sell" => Below(Sma(past(m), p.fast), Sma(past(m), p.slow))
  BY <1>1 DEF SmaCrossover
<1>8. ASSUME NEW lag \in 0..m - 1
      PROVE  /\ ~(/\ AtMost(Sma(before(lag), p.slow), Sma(before(lag), p.fast))
                  /\ Below(Sma(past(lag), p.fast), Sma(past(lag), p.slow)))
             /\ ~(/\ AtMost(Sma(before(lag), p.fast), Sma(before(lag), p.slow))
                  /\ Below(Sma(past(lag), p.slow), Sma(past(lag), p.fast)))
  <2>1. lag \in 0..m /\ m \in 0..m
    BY <1>3
  <2>2. ~(n - m - 1 < p.fast) /\ ~(n - m - 1 < p.slow)
    <3> HIDE DEF before
    <3>. QED
      BY <1>6, <1>7, <2>1, SmaNull
  <2>3. Sma(before(lag), p.fast) # Null /\ Sma(before(lag), p.slow) # Null
    <3>1. ~(n - lag - 1 < p.fast) /\ ~(n - lag - 1 < p.slow)
      BY <1>3, <2>1, <2>2
    <3> HIDE DEF before
    <3>. QED
      BY <1>6, <2>1, <3>1, SmaNull
  <2>4. SmaCrossover(past(lag), p.fast, p.slow) = "neutral" /\ ~(Len(past(lag)) < p.slow + 1)
    BY <1>4, <1>6, <2>1
  <2>. QED
    <3> HIDE DEF past
    <3>. QED
      BY <2>3, <2>4 DEF SmaCrossover
<1>9. ASSUME NEW f \in Nat, NEW s \in Nat,
             Below(Sma(past(m), s), Sma(past(m), f)),
             \A lag \in 0..m - 1 :
               ~(/\ AtMost(Sma(before(lag), s), Sma(before(lag), f))
                 /\ Below(Sma(past(lag), f), Sma(past(lag), s)))
      PROVE  AtMost(Sma(values, s), Sma(values, f))
  <2>1. past(m) \in Seq(Int) /\ m < n
    BY <1>3, <1>6
  <2>2. AtMost(Sma(past(m), s), Sma(past(m), f))
    <3> HIDE DEF past
    <3>. QED
      BY <1>9, <2>1, SmaInts, SMTT(30) DEF Below, AtMost
  <2>3. Ahead(values, f, s, m)
    BY <2>2 DEF Ahead
  <2>4. Ahead(values, f, s, 0)
    BY <1>3, <1>9, <2>1, <2>3, StaysAhead
  <2>. QED
    BY <1>5, <2>4 DEF Ahead
<1>10. CASE crossAt(m) = "buy"
  <2>1. AtMost(Sma(values, p.slow), Sma(values, p.fast))
    BY <1>7, <1>8, <1>9, <1>10
  <2>. QED
    BY <1>1, <1>10, <2>1 DEF SignalIsBacked
<1>11. CASE crossAt(m) = "sell"
  <2>1. AtMost(Sma(values, p.fast), Sma(values, p.slow))
    BY <1>7, <1>8, <1>9, <1>11
  <2>. QED
    BY <1>1, <1>11, <2>1 DEF SignalIsBacked
<1>. QED
  BY <1>1, <1>10, <1>11

(* The inductive invariant of a rotation: what is left to do is of its own  *)
(* kind, what was decided still fits, and what dropped out is on its way.   *)
THEOREM RotationInvariant == RotationSpec => []RotationInv
<1>1. RotationInv /\ [RotationNext]_rotationVars => RotationInv'
  BY TypesKept, BuysFitKept, TradedOnceKept, LeavingKept, WholeKept DEF RotationInv
<1>. QED
  BY <1>1, RotationStarts, PTL DEF RotationSpec

(* Whatever is screened, however the closes move and wherever midnights and *)
(* crashes fall: the book never has more positions than maxPositions, a buy *)
(* leaves it within its share of the equity the cycle began with, and a     *)
(* hash is traded again only if a crash lost its record.                    *)
THEOREM RotationWithinLimits == RotationSpec => []WithinLimits
<1>1. RotationInv => WithinLimits
  <2>1. ASSUME RotationInv, NEW h \in Hashes
        PROVE  fills[h] <= 1 + lost
    <3>1. fills[h] \in Nat /\ lost \in Nat
      BY <2>1 DEF RotationInv, RotationTyped, RotationTypeOK
    <3>2. fills[h] <= IF h \in Known THEN 1 + lost ELSE lost
      BY <2>1 DEF RotationInv, TradedOnce
    <3>. QED
      BY <3>1, <3>2
  <2>. QED
    BY <2>1 DEF RotationInv, RotationTyped, BuysFit, WithinLimits
<1>. QED
  BY <1>1, RotationInvariant, PTL

(* After the exits of a cycle in which nothing failed, what is held is in   *)
(* the screen, or was sold since the cycle began and bought again.          *)
THEOREM BookIsTheScreen == RotationSpec => []BookFollowsScreen
<1>1. RotationInv => BookFollowsScreen
  BY DEF RotationInv, Leaving
<1>. QED
  BY <1>1, RotationInvariant, PTL

(* A sale the exits decided is never rejected for want of units: the        *)
(* strategy has no branch for it.                                           *)
THEOREM SalesAreCovered == RotationSpec => []SalesFill
<1>1. RotationInv => SalesFill
  <2>1. ASSUME RotationInv, step = "sell"
        PROVE  pos[order.symbol].qty >= order.qty
    <3>1. order.qty = pos[order.symbol].qty /\ order.qty \in Nat
      BY <2>1 DEF RotationInv, Whole, RotationTyped, Ordering, RotationOrders
    <3>. QED
      BY <3>1
  <2>. QED
    BY <2>1 DEF SalesFill, CanFill
<1>. QED
  BY <1>1, RotationInvariant, PTL

(* Bars are integers: the lemmas about indicators are about them.           *)
LEMMA BarsAreIntegers ==
  ASSUME RotationTyped, NEW s \in Symbols
  PROVE  bars[s] \in Seq(Int)
<1>1. bars[s] \in Seq(Prices)
  BY DEF RotationTyped, RotationTypeOK
<1>2. Prices \subseteq Int
  BY MomentumRotationAssumption
<1>3. bars[s] \in [1..Len(bars[s]) -> Prices] /\ Len(bars[s]) \in Nat
  BY <1>1, LenProperties
<1>4. bars[s] \in [1..Len(bars[s]) -> Int]
  BY <1>2, <1>3
<1>. QED
  BY <1>3, <1>4, SeqDef

(* On whatever bars there are, of whatever length, the combined signal the  *)
(* rotation trades by is backed by the averages as they are, and the source *)
(* that shows the screen wants the same trades.                             *)
THEOREM SignalsFollowTrend == RotationSpec => []SignalsAreBacked
<1>1. ASSUME RotationTyped, NEW s \in Symbols
      PROVE  SignalIsBacked(bars[s], settings)
  <2>1. settings \in Configs
    BY <1>1 DEF RotationTyped, RotationTypeOK
  <2>2. bars[s] \in Seq(Int)
    BY <1>1, BarsAreIntegers
  <2>3. /\ settings.fast \in Nat \ {0} /\ settings.slow \in Nat \ {0}
        /\ settings.crossWindow \in Nat
    BY <2>1, MomentumRotationAssumption
  <2>. QED
    BY <2>2, <2>3, CombinedIsBacked
<1>2. ASSUME NEW s \in Symbols
      PROVE  ScreensAgree(settings, bars[s])
  BY DEF ScreensAgree, RotationSignal, ScreenSignal
<1>3. RotationInv => SignalsAreBacked
  BY <1>1, <1>2 DEF RotationInv, SignalsAreBacked
<1>. QED
  BY <1>3, RotationInvariant, PTL
-----------------------------------------------------------------------------
(* The window the running sum stands for: the last period values up to i.   *)
First(i, period) == IF i > period THEN i - period + 1 ELSE 1
WindowSum(values, period, i) == SumFunctionOnSet(values, First(i, period)..i)

(* A value enters the window, and the one that leaves it is subtracted.     *)
LEMMA WindowMoves ==
  ASSUME NEW values \in Seq(Int), NEW period \in Nat \ {0}, NEW i \in 1..Len(values)
  PROVE  WindowSum(values, period, i) =
           WindowSum(values, period, i - 1) + values[i]
             - (IF i > period THEN values[i - period] ELSE 0)
<1> DEFINE old == First(i - 1, period)..(i - 1)
           kept == First(i, period)..(i - 1)
<1>1. i \in Nat /\ values[i] \in Int /\ i <= Len(values) /\ i >= 1
  OBVIOUS
<1>2. First(i, period) \in 1..i /\ First(i - 1, period) \in Nat \ {0}
  BY <1>1 DEF First
<1>3. First(i, period)..i = kept \cup {i} /\ i \notin kept
  BY <1>1, <1>2
<1>4. /\ IsFiniteSet(kept) /\ IsFiniteSet(old)
      /\ \A j \in kept \cup {i} : values[j] \in Int
      /\ \A j \in old : values[j] \in Int
  <2>1. IsFiniteSet(kept) /\ IsFiniteSet(old)
    BY <1>1, <1>2, FS_Interval
  <2>2. \A j \in kept \cup old \cup {i} : j \in 1..Len(values)
    BY <1>1, <1>2
  <2>. QED
    BY <2>1, <2>2
<1>5. WindowSum(values, period, i) = values[i] + SumFunctionOnSet(values, kept)
  <2> HIDE DEF kept
  <2>. QED
    BY <1>3, <1>4, SumWith DEF WindowSum
<1>6. CASE i > period
  <2>1. First(i - 1, period) = i - period /\ First(i, period) = i - period + 1
    BY <1>1, <1>6 DEF First
  <2>2. i - period \in old /\ kept = old \ {i - period}
    BY <1>1, <1>6, <2>1, SMTT(30)
  <2>3. SumFunctionOnSet(values, old) = values[i - period] + SumFunctionOnSet(values, kept)
    <3> HIDE DEF old, kept
    <3>. QED
      BY <1>4, <2>2, SumWithout
  <2>4. SumFunctionOnSet(values, kept) \in Int /\ values[i - period] \in Int
    <3> HIDE DEF old, kept
    <3>. QED
      BY <1>4, <2>2, SumInt
  <2>. QED
    BY <1>1, <1>5, <1>6, <2>3, <2>4 DEF WindowSum
<1>7. CASE ~(i > period)
  <2>1. kept = old
    BY <1>1, <1>7 DEF First
  <2>2. SumFunctionOnSet(values, kept) \in Int
    <3> HIDE DEF kept
    <3>. QED
      BY <1>4, SumInt
  <2>. QED
    BY <1>1, <1>5, <1>7, <2>1, <2>2 DEF WindowSum
<1>. QED
  BY <1>6, <1>7

(* The running sum is the sum of its window, at every bar.                  *)
LEMMA RunningSum ==
  ASSUME NEW values \in Seq(Int), NEW period \in Nat \ {0}, NEW run,
         run = [i \in 0..Len(values) |->
                  IF i = 0 THEN 0
                  ELSE run[i - 1] + values[i]
                         - (IF i > period THEN values[i - period] ELSE 0)]
  PROVE  \A i \in 0..Len(values) : run[i] = WindowSum(values, period, i)
<1> DEFINE T == {i \in Nat : i <= Len(values) => run[i] = WindowSum(values, period, i)}
<1>1. 0 \in T
  <2>1. First(0, period)..0 = {}
    BY DEF First
  <2>2. WindowSum(values, period, 0) = 0
    BY <2>1, SumEmpty DEF WindowSum
  <2>3. run[0] = 0
    OBVIOUS
  <2>. QED
    BY <2>2, <2>3
<1>2. ASSUME NEW i \in Nat, i \in T
      PROVE  i + 1 \in T
  <2> SUFFICES ASSUME i + 1 <= Len(values)
               PROVE  run[i + 1] = WindowSum(values, period, i + 1)
    OBVIOUS
  <2>1. i + 1 \in 1..Len(values) /\ (i + 1) - 1 = i /\ i <= Len(values)
    OBVIOUS
  <2>2. run[i] = WindowSum(values, period, i)
    BY <1>2, <2>1
  <2>3. run[i + 1] = run[i] + values[i + 1]
                       - (IF i + 1 > period THEN values[i + 1 - period] ELSE 0)
    BY <2>1
  <2>. QED
    BY <2>1, <2>2, <2>3, WindowMoves
<1>3. Nat \subseteq T
  <2> HIDE DEF T
  <2>. QED
    BY <1>1, <1>2, NatSetInduction
<1>. QED
  BY <1>3

(* There is one running sum, although it is defined by itself.              *)
LEMMA RunningSumExists ==
  ASSUME NEW values \in Seq(Int), NEW period \in Nat \ {0}
  PROVE  LET sums == [i \in 0..Len(values) |-> WindowSum(values, period, i)]
         IN sums = [i \in 0..Len(values) |->
                      IF i = 0 THEN 0
                      ELSE sums[i - 1] + values[i]
                             - (IF i > period THEN values[i - period] ELSE 0)]
<1> DEFINE sums == [i \in 0..Len(values) |-> WindowSum(values, period, i)]
<1>1. sums[0] = 0
  <2>1. First(0, period)..0 = {}
    BY DEF First
  <2>. QED
    BY <2>1, SumEmpty DEF WindowSum
<1>2. ASSUME NEW i \in 0..Len(values), i # 0
      PROVE  sums[i] = sums[i - 1] + values[i]
                         - (IF i > period THEN values[i - period] ELSE 0)
  <2>1. i \in 1..Len(values) /\ i - 1 \in 0..Len(values)
    BY <1>2
  <2>. QED
    BY <2>1, WindowMoves
<1>. QED
  BY <1>1, <1>2

(* smaSeries, which keeps a running sum, and sma, which adds up the last    *)
(* values, agree at every bar of every series.                              *)
THEOREM SeriesIsTheAverage ==
  ASSUME NEW values \in Seq(Int), NEW period \in Nat \ {0}, NEW n \in 1..Len(values)
  PROVE  SmaSeries(values, period)[n] = Sma(Prefix(values, n), period)
<1> DEFINE Def(run) == [i \in 0..Len(values) |->
                         IF i = 0 THEN 0
                         ELSE run[i - 1] + values[i]
                                - (IF i > period THEN values[i - period] ELSE 0)]
           run == CHOOSE r : r = Def(r)
<1>1. \E r : r = Def(r)
  <2> DEFINE sums == [i \in 0..Len(values) |-> WindowSum(values, period, i)]
  <2>1. sums = Def(sums)
    BY RunningSumExists
  <2>. QED
    <3> HIDE DEF Def, sums
    <3>. QED
      BY <2>1
<1>2. run = Def(run)
  <2> HIDE DEF Def
  <2>. QED
    BY <1>1
<1>3. run[n] = WindowSum(values, period, n)
  <2>1. run = [i \in 0..Len(values) |->
                 IF i = 0 THEN 0
                 ELSE run[i - 1] + values[i]
                        - (IF i > period THEN values[i - period] ELSE 0)]
    <3> HIDE DEF run
    <3>. QED
      BY <1>2
  <2>2. n \in 0..Len(values)
    OBVIOUS
  <2> HIDE DEF run
  <2>. QED
    BY <2>1, <2>2, RunningSum
<1>4. SmaSeries(values, period)[n] = IF n < period THEN Null ELSE Q(run[n], period)
  BY DEF SmaSeries
<1>5. /\ Len(Prefix(values, n)) = n
      /\ \A i \in 1..n : Prefix(values, n)[i] = values[i]
  <2>1. \A i \in 1..n : values[i] \in Int
    OBVIOUS
  <2>. QED
    BY <2>1, SubSeqProperties DEF Prefix
<1>6. CASE n < period
  BY <1>4, <1>5, <1>6 DEF Sma
<1>7. CASE ~(n < period)
  <2> DEFINE from == n - period + 1
  <2>1. First(n, period) = from /\ from \in 1..n
    BY <1>7 DEF First
  <2>2. /\ IsFiniteSet(from..n)
        /\ \A i \in from..n : Prefix(values, n)[i] = values[i]
    BY <1>5, <2>1, FS_Interval, SMTT(30)
  <2>3. SumFunctionOnSet(Prefix(values, n), from..n) = SumFunctionOnSet(values, from..n)
    <3> HIDE DEF from
    <3>. QED
      BY <2>2, SumSame
  <2>4. Sma(Prefix(values, n), period) = Q(SumFunctionOnSet(values, from..n), period)
    BY <1>5, <1>7, <2>3 DEF Sma, SumOf
  <2>5. run[n] = SumFunctionOnSet(values, from..n)
    BY <1>3, <2>1 DEF WindowSum
  <2>. QED
    BY <1>4, <1>7, <2>4, <2>5
<1>. QED
  BY <1>6, <1>7
-----------------------------------------------------------------------------
(* A power is what its recursion says, at every exponent.                   *)
Powers(b, e, p) == p = [i \in 0..e |-> IF i = 0 THEN 1 ELSE b * p[i - 1]]

(* There is such a function, by induction on the exponent.                  *)
LEMMA PowersExist ==
  ASSUME NEW b, NEW e \in Nat
  PROVE  \E p : Powers(b, e, p)
<1> DEFINE T == {n \in Nat : \E p : Powers(b, n, p)}
<1>1. 0 \in T
  <2> DEFINE p == [i \in 0..0 |-> 1]
  <2>1. Powers(b, 0, p)
    BY DEF Powers
  <2> HIDE DEF p
  <2>. QED
    BY <2>1
<1>2. ASSUME NEW n \in Nat, n \in T PROVE n + 1 \in T
  <2>1. PICK p : Powers(b, n, p)
    BY <1>2
  <2> DEFINE q == [i \in 0..(n + 1) |-> IF i = 0 THEN 1 ELSE b * p[i - 1]]
  <2>2. ASSUME NEW i \in 0..n PROVE q[i] = p[i]
    BY <2>1 DEF Powers
  <2>3. Powers(b, n + 1, q)
    <3>1. ASSUME NEW i \in 0..(n + 1)
          PROVE  (IF i = 0 THEN 1 ELSE b * p[i - 1]) = IF i = 0 THEN 1 ELSE b * q[i - 1]
      <4>1. CASE i # 0
        <5>1. i - 1 \in 0..n
          BY <4>1
        <5>. QED
          BY <2>2, <4>1, <5>1
      <4>. QED
        BY <4>1
    <3>. QED
      BY <3>1 DEF Powers
  <2> HIDE DEF q
  <2>. QED
    BY <2>3
<1>3. Nat \subseteq T
  <2> HIDE DEF T
  <2>. QED
    BY <1>1, <1>2, NatSetInduction
<1>. QED
  BY <1>3

(* And two of them agree where both are defined.                            *)
LEMMA PowersAgree ==
  ASSUME NEW b, NEW e \in Nat, NEW d \in Nat, e <= d,
         NEW p, Powers(b, e, p), NEW q, Powers(b, d, q)
  PROVE  \A i \in 0..e : p[i] = q[i]
<1> DEFINE T == {n \in Nat : n <= e => p[n] = q[n]}
<1>0. /\ p[0] = 1 /\ q[0] = 1
      /\ \A n \in Nat : n + 1 <= e => p[n + 1] = b * p[n] /\ q[n + 1] = b * q[n]
  <2>1. ASSUME NEW n \in Nat, n + 1 <= e
        PROVE  n + 1 \in 0..e /\ n + 1 \in 0..d /\ n + 1 # 0 /\ (n + 1) - 1 = n
    BY <2>1
  <2>. QED
    BY <2>1 DEF Powers
<1>1. 0 \in T
  BY <1>0
<1>2. ASSUME NEW n \in Nat, n \in T PROVE n + 1 \in T
  BY <1>0, <1>2
<1>3. Nat \subseteq T
  <2> HIDE DEF T
  <2>. QED
    BY <1>1, <1>2, NatSetInduction
<1>. QED
  BY <1>3

(* So Pow is the value of any of them.                                      *)
LEMMA PowIsPower ==
  ASSUME NEW b, NEW e \in Nat, NEW p, Powers(b, e, p)
  PROVE  Pow(b, e) = p[e]
<1> DEFINE power == CHOOSE q : Powers(b, e, q)
<1>1. Powers(b, e, power)
  BY PowersExist
<1>2. Pow(b, e) = power[e]
  BY DEF Pow, Powers
<1> HIDE DEF power
<1>. QED
  BY <1>1, <1>2, PowersAgree

(* The two equations of a power.                                            *)
LEMMA PowZero == ASSUME NEW b PROVE Pow(b, 0) = 1
<1>1. PICK p : Powers(b, 0, p)
  BY PowersExist
<1>2. p[0] = 1
  BY <1>1 DEF Powers
<1>. QED
  BY <1>1, <1>2, PowIsPower

(* One more factor.                                                         *)
LEMMA PowNext ==
  ASSUME NEW b, NEW e \in Nat
  PROVE  Pow(b, e + 1) = b * Pow(b, e)
<1>1. PICK p : Powers(b, e + 1, p)
  BY PowersExist
<1>2. PICK q : Powers(b, e, q)
  BY PowersExist
<1>3. Pow(b, e + 1) = p[e + 1] /\ Pow(b, e) = q[e] /\ q[e] = p[e]
  BY <1>1, <1>2, PowIsPower, PowersAgree
<1>4. p[e + 1] = b * p[e]
  <2>1. e + 1 \in 0..(e + 1) /\ e + 1 # 0 /\ (e + 1) - 1 = e
    OBVIOUS
  <2>. QED
    BY <1>1, <2>1 DEF Powers
<1>. QED
  BY <1>3, <1>4

(* Powers of natural numbers are natural, and not zero if the base is not.  *)
LEMMA PowNat ==
  ASSUME NEW b \in Nat
  PROVE  \A e \in Nat : Pow(b, e) \in Nat /\ (b > 0 => Pow(b, e) > 0)
<1> DEFINE T == {e \in Nat : Pow(b, e) \in Nat /\ (b > 0 => Pow(b, e) > 0)}
<1>1. 0 \in T
  BY PowZero
<1>2. ASSUME NEW e \in Nat, e \in T PROVE e + 1 \in T
  <2>1. ASSUME NEW x \in Nat
        PROVE  b * x \in Nat /\ (b > 0 /\ x > 0 => b * x > 0)
    OBVIOUS
  <2>. QED
    BY <1>2, <2>1, PowNext
<1>3. Nat \subseteq T
  <2> HIDE DEF T
  <2>. QED
    BY <1>1, <1>2, NatSetInduction
<1>. QED
  BY <1>3

(* A factor that all terms have is one of their sum.                        *)
LEMMA SumScaled ==
  ASSUME NEW S, IsFiniteSet(S), NEW f, NEW h, NEW c \in Int,
         \A x \in S : f[x] \in Int /\ h[x] = c * f[x]
  PROVE  SumFunctionOnSet(h, S) = c * SumFunctionOnSet(f, S)
<1> DEFINE Scaled(s) == SumFunctionOnSet(h, s) = c * SumFunctionOnSet(f, s)
           T == {n \in Nat : \A s \in Within(S, n) : Scaled(s)}
<1>1. 0 \in T
  <2>1. \A s \in Within(S, 0) : s = {}
    BY FS_Subset, FS_EmptySet, FS_CardinalityType DEF Within
  <2>2. Scaled({})
    BY SumEmpty
  <2>. QED
    BY <2>1, <2>2
<1>2. ASSUME NEW n \in Nat, n \in T PROVE n + 1 \in T
  <2> SUFFICES ASSUME NEW s \in Within(S, n + 1)
               PROVE  Scaled(s)
    OBVIOUS
  <2>1. CASE s = {}
    BY <2>1, SumEmpty
  <2>2. CASE s # {}
    <3>1. PICK x \in s : TRUE
      BY <2>2
    <3>2. s \in SUBSET S
      BY DEF Within
    <3>3. /\ IsFiniteSet(s) /\ s \ {x} \in SUBSET S
          /\ Cardinality(s) \in Nat /\ Cardinality(s \ {x}) = Cardinality(s) - 1
      BY <2>2, <3>1, <3>2, WithoutPick
    <3>4. s \ {x} \in Within(S, n)
      BY <3>3 DEF Within
    <3>5. Scaled(s \ {x})
      BY <1>2, <3>4
    <3>6. \A y \in s : f[y] \in Int /\ h[y] \in Int
      BY <3>2
    <3>7. /\ SumFunctionOnSet(f, s) = f[x] + SumFunctionOnSet(f, s \ {x})
          /\ SumFunctionOnSet(h, s) = h[x] + SumFunctionOnSet(h, s \ {x})
      BY <3>1, <3>3, <3>6, SumWithout
    <3>8. SumFunctionOnSet(f, s \ {x}) \in Int
      BY <3>3, <3>6, SumInt, FS_Subset
    <3>9. h[x] = c * f[x] /\ f[x] \in Int
      BY <3>1, <3>2
    <3>. QED
      BY <3>5, <3>7, <3>8, <3>9
  <2>. QED
    BY <2>1, <2>2
<1>3. Cardinality(S) \in T /\ Cardinality(S) \in Nat
  <2> HIDE DEF T
  <2>. QED
    BY <1>1, <1>2, NatSetInduction, FS_CardinalityType
<1>4. S \in Within(S, Cardinality(S))
  BY <1>3 DEF Within
<1>. QED
  BY <1>3, <1>4
-----------------------------------------------------------------------------
(* The arithmetic of a step.                                                *)
LEMMA EmaArithmetic ==
  ASSUME NEW a \in Int, NEW q \in Int, NEW r \in Int, NEW s \in Int, NEW v \in Int,
         NEW p \in Int
  PROVE  /\ a * ((p - 1) * q) + 2 * p * (v * r + (p - 1) * s)
              = 2 * v * (p * r) + (p - 1) * (a * q + 2 * p * s)
         /\ p * ((p + 1) * r) = (p + 1) * (p * r)
  OBVIOUS

(* One factor more in a weight is one factor more in the term.              *)
LEMMA TermArithmetic ==
  ASSUME NEW v \in Int, NEW k \in Int, NEW q \in Int, NEW r \in Int
  PROVE  v * (k * q) * r = k * (v * q * r)
  OBVIOUS

(* The powers that the averages are made of.                                *)
LEMMA Weights ==
  ASSUME NEW period \in Nat \ {0}, NEW k \in Nat
  PROVE  /\ Pow(period - 1, k) \in Int
         /\ Pow(period, k) \in Int
         /\ Pow(period + 1, k) \in Int /\ Pow(period + 1, k) > 0
         /\ Pow(period - 1, k + 1) = (period - 1) * Pow(period - 1, k)
         /\ Pow(period, k + 1) = period * Pow(period, k)
         /\ Pow(period + 1, k + 1) = (period + 1) * Pow(period + 1, k)
<1>1. ASSUME NEW b \in Nat
      PROVE  /\ Pow(b, k) \in Int /\ (b > 0 => Pow(b, k) > 0)
             /\ Pow(b, k + 1) = b * Pow(b, k)
  BY PowNat, PowNext
<1>2. period - 1 \in Nat /\ period \in Nat /\ period + 1 \in Nat /\ period + 1 > 0
  OBVIOUS
<1>3. /\ Pow(period - 1, k) \in Int
      /\ Pow(period - 1, k + 1) = (period - 1) * Pow(period - 1, k)
  <2> DEFINE b == period - 1
  <2>1. b \in Nat
    BY <1>2
  <2> HIDE DEF b
  <2>2. Pow(b, k) \in Int /\ Pow(b, k + 1) = b * Pow(b, k)
    BY <1>1, <2>1
  <2>. QED
    BY <2>2 DEF b
<1>4. /\ Pow(period + 1, k) \in Int /\ Pow(period + 1, k) > 0
      /\ Pow(period + 1, k + 1) = (period + 1) * Pow(period + 1, k)
  <2> DEFINE b == period + 1
  <2>1. b \in Nat /\ b > 0
    BY <1>2
  <2> HIDE DEF b
  <2>2. Pow(b, k) \in Int /\ Pow(b, k) > 0 /\ Pow(b, k + 1) = b * Pow(b, k)
    BY <1>1, <2>1
  <2>. QED
    BY <2>2 DEF b
<1>. QED
  BY <1>1, <1>2, <1>3, <1>4

(* The closed form of the exponential average follows its recursion.        *)
LEMMA EmaStarts ==
  ASSUME NEW values, NEW period \in Nat \ {0}, SumOf(values, 1, period) \in Int
  PROVE  EmaReference(values, period, period) = Q(SumOf(values, 1, period), period)
<1>1. (period + 1)..period = {} /\ period - period = 0
  OBVIOUS
<1>2. SumFunction(EmaTerms(values, period, period)) = 0
  <2>1. DOMAIN EmaTerms(values, period, period) = {}
    BY <1>1 DEF EmaTerms
  <2>. QED
    BY <2>1, SumEmpty DEF SumFunction
<1>3. Pow(period - 1, 0) = 1 /\ Pow(period + 1, 0) = 1
  BY PowZero
<1>4. EmaReference(values, period, period)
        = Q(SumOf(values, 1, period) * 1 + 2 * period * 0, period * 1)
  BY <1>1, <1>2, <1>3 DEF EmaReference
<1>. QED
  BY <1>4

(* The terms of a series of integers are integers.                          *)
LEMMA EmaTermsInt ==
  ASSUME NEW values \in Seq(Int), NEW period \in Nat \ {0}, NEW n \in period..Len(values)
  PROVE  /\ IsFiniteSet((period + 1)..n)
         /\ \A i \in (period + 1)..n :
              /\ i \in 1..Len(values) /\ values[i] \in Int
              /\ n - i \in Nat /\ i - period - 1 \in Nat
              /\ Pow(period - 1, n - i) \in Int /\ Pow(period + 1, i - period - 1) \in Int
              /\ EmaTerms(values, n, period)[i] \in Int
<1>1. IsFiniteSet((period + 1)..n)
  BY FS_Interval
<1>2. period - 1 \in Nat /\ period + 1 \in Nat
  OBVIOUS
<1>3. ASSUME NEW i \in (period + 1)..n
      PROVE  /\ i \in 1..Len(values) /\ values[i] \in Int
             /\ n - i \in Nat /\ i - period - 1 \in Nat
             /\ Pow(period - 1, n - i) \in Int /\ Pow(period + 1, i - period - 1) \in Int
             /\ EmaTerms(values, n, period)[i] \in Int
  <2>1. i \in 1..Len(values) /\ n - i \in Nat /\ i - period - 1 \in Nat
    OBVIOUS
  <2>2. values[i] \in Int
    BY <2>1
  <2>3. Pow(period - 1, n - i) \in Int /\ Pow(period + 1, i - period - 1) \in Int
    <3> DEFINE k == n - i
               l == i - period - 1
    <3>1. k \in Nat /\ l \in Nat
      BY <2>1
    <3> HIDE DEF k, l
    <3>2. Pow(period - 1, k) \in Int /\ Pow(period + 1, l) \in Int
      BY <3>1, Weights
    <3>. QED
      BY <3>2 DEF k, l
  <2>4. EmaTerms(values, n, period)[i]
          = values[i] * Pow(period - 1, n - i) * Pow(period + 1, i - period - 1)
    BY DEF EmaTerms
  <2>5. EmaTerms(values, n, period)[i] \in Int
    <3> DEFINE v == values[i]
               q == Pow(period - 1, n - i)
               w == Pow(period + 1, i - period - 1)
    <3>1. v \in Int /\ q \in Int /\ w \in Int
      BY <2>2, <2>3
    <3> HIDE DEF v, q, w
    <3>2. v * q * w \in Int
      BY <3>1
    <3>. QED
      BY <2>4, <3>2 DEF v, q, w
  <2>. QED
    BY <2>1, <2>2, <2>3, <2>5
<1>. QED
  BY <1>1, <1>3

(* One more value: it enters with its own weight, and the others shrink.    *)
LEMMA EmaTermsNext ==
  ASSUME NEW values \in Seq(Int), NEW period \in Nat \ {0},
         NEW n \in period..Len(values), n + 1 <= Len(values)
  PROVE  /\ SumFunction(EmaTerms(values, n, period)) \in Int
         /\ SumFunction(EmaTerms(values, n + 1, period))
              = values[n + 1] * Pow(period + 1, n - period)
                  + (period - 1) * SumFunction(EmaTerms(values, n, period))
<1> DEFINE S == (period + 1)..n
           old == EmaTerms(values, n, period)
           new == EmaTerms(values, n + 1, period)
<1>1. /\ IsFiniteSet(S)
      /\ \A i \in S : /\ values[i] \in Int /\ n - i \in Nat /\ i - period - 1 \in Nat
                      /\ Pow(period - 1, n - i) \in Int
                      /\ Pow(period + 1, i - period - 1) \in Int
                      /\ old[i] \in Int
  BY EmaTermsInt
<1>2. n + 1 \in period..Len(values) /\ n + 1 \in Nat
  OBVIOUS
<1>3. \A i \in (period + 1)..(n + 1) : new[i] \in Int
  <2> HIDE DEF new
  <2>. QED
    BY <1>2, EmaTermsInt DEF new
<1>4. (period + 1)..(n + 1) = S \cup {n + 1} /\ n + 1 \notin S
  OBVIOUS
<1>5. DOMAIN old = S /\ DOMAIN new = S \cup {n + 1}
  BY <1>4 DEF EmaTerms
<1>6. ASSUME NEW i \in S
      PROVE  new[i] = (period - 1) * old[i]
  <2>1. i \in (period + 1)..(n + 1) /\ (n + 1) - i = (n - i) + 1
    OBVIOUS
  <2>2. new[i] = values[i] * Pow(period - 1, (n - i) + 1) * Pow(period + 1, i - period - 1)
    BY <2>1 DEF EmaTerms
  <2>3. Pow(period - 1, (n - i) + 1) = (period - 1) * Pow(period - 1, n - i)
    BY <1>1, Weights
  <2>4. old[i] = values[i] * Pow(period - 1, n - i) * Pow(period + 1, i - period - 1)
    BY DEF EmaTerms
  <2>5. /\ values[i] \in Int /\ Pow(period - 1, n - i) \in Int
        /\ Pow(period + 1, i - period - 1) \in Int
    <3> HIDE DEF S, old, new
    <3>. QED
      BY <1>1
  <2>6. values[i] * ((period - 1) * Pow(period - 1, n - i)) * Pow(period + 1, i - period - 1)
          = (period - 1) * (values[i] * Pow(period - 1, n - i) * Pow(period + 1, i - period - 1))
    <3> DEFINE v == values[i]
               c == period - 1
               q == Pow(period - 1, n - i)
               w == Pow(period + 1, i - period - 1)
    <3>1. v \in Int /\ c \in Int /\ q \in Int /\ w \in Int
      BY <2>5
    <3> HIDE DEF v, c, q, w
    <3>2. v * (c * q) * w = c * (v * q * w)
      BY <3>1, TermArithmetic
    <3>. QED
      BY <3>2 DEF v, c, q, w
  <2>. QED
    BY <2>2, <2>3, <2>4, <2>6
<1>7. new[n + 1] = values[n + 1] * Pow(period + 1, n - period)
  <2>1. /\ n + 1 \in (period + 1)..(n + 1) /\ (n + 1) - (n + 1) = 0
        /\ (n + 1) - period - 1 = n - period /\ n - period \in Nat /\ period + 1 \in Nat
    OBVIOUS
  <2>2. new[n + 1] = values[n + 1] * Pow(period - 1, 0) * Pow(period + 1, n - period)
    BY <2>1 DEF EmaTerms
  <2>3. Pow(period - 1, 0) = 1 /\ Pow(period + 1, n - period) \in Int
    <3> DEFINE k == n - period
    <3>1. k \in Nat
      BY <2>1
    <3> HIDE DEF k
    <3>2. Pow(period + 1, k) \in Int
      BY <3>1, Weights
    <3>. QED
      BY <3>2, PowZero DEF k
  <2>4. values[n + 1] \in Int
    BY <1>2
  <2>. QED
    BY <2>2, <2>3, <2>4
<1> HIDE DEF S, old, new
<1>8. SumFunctionOnSet(new, S \cup {n + 1}) = new[n + 1] + SumFunctionOnSet(new, S)
  BY <1>1, <1>3, <1>4, SumWith DEF S
<1>9. SumFunctionOnSet(new, S) = (period - 1) * SumFunctionOnSet(old, S)
  <2> DEFINE c == period - 1
  <2>1. c \in Int /\ \A i \in S : old[i] \in Int /\ new[i] = c * old[i]
    BY <1>1, <1>6
  <2> HIDE DEF c
  <2>2. SumFunctionOnSet(new, S) = c * SumFunctionOnSet(old, S)
    BY <1>1, <2>1, SumScaled
  <2>. QED
    BY <2>2 DEF c
<1>10. SumFunctionOnSet(old, S) \in Int
  BY <1>1, SumInt
<1>. QED
  BY <1>5, <1>7, <1>8, <1>9, <1>10 DEF SumFunction, old, new

(* The sum of the first values is an integer.                               *)
LEMMA SeedInt ==
  ASSUME NEW values \in Seq(Int), NEW period \in Nat \ {0}, period <= Len(values)
  PROVE  SumOf(values, 1, period) \in Int
<1>1. IsFiniteSet(1..period)
  BY FS_Interval
<1>2. \A i \in 1..period : values[i] \in Int
  <2>1. \A i \in 1..period : i \in 1..Len(values)
    OBVIOUS
  <2>. QED
    BY <2>1
<1>. QED
  BY <1>1, <1>2, SumInt DEF SumOf

(* The closed form of one more value is a step of the exponential average.  *)
LEMMA EmaContinues ==
  ASSUME NEW values \in Seq(Int), NEW period \in Nat \ {0},
         NEW n \in period..Len(values), n + 1 <= Len(values)
  PROVE  EmaReference(values, n + 1, period)
           = EmaStep(EmaReference(values, n, period), values[n + 1], period)
<1> DEFINE a == SumOf(values, 1, period)
           q == Pow(period - 1, n - period)
           r == Pow(period + 1, n - period)
           s == SumFunction(EmaTerms(values, n, period))
           t == SumFunction(EmaTerms(values, n + 1, period))
<1>1. /\ n - period \in Nat /\ (n + 1) - period = (n - period) + 1
      /\ period - 1 \in Nat /\ period + 1 \in Nat
      /\ n + 1 \in 1..Len(values) /\ values[n + 1] \in Int /\ period <= Len(values)
      /\ ~(n - period < 0) /\ ~((n + 1) - period < 0)
  OBVIOUS
<1>2. a \in Int /\ q \in Int /\ r \in Int /\ s \in Int
  <2> DEFINE k == n - period
  <2>1. k \in Nat
    BY <1>1
  <2> HIDE DEF k
  <2>2. Pow(period - 1, k) \in Int /\ Pow(period + 1, k) \in Int
    BY <2>1, Weights
  <2>3. a \in Int /\ s \in Int
    BY <1>1, SeedInt, EmaTermsNext
  <2>. QED
    BY <2>2, <2>3 DEF k
<1>3. t = values[n + 1] * r + (period - 1) * s
  BY <1>1, EmaTermsNext
<1>4. /\ Pow(period - 1, (n + 1) - period) = (period - 1) * q
      /\ Pow(period + 1, (n + 1) - period) = (period + 1) * r
  <2> DEFINE k == n - period
  <2>1. k \in Nat /\ (n + 1) - period = k + 1
    BY <1>1
  <2> HIDE DEF k
  <2>2. /\ Pow(period - 1, k + 1) = (period - 1) * Pow(period - 1, k)
        /\ Pow(period + 1, k + 1) = (period + 1) * Pow(period + 1, k)
    BY <2>1, Weights
  <2>. QED
    BY <2>1, <2>2 DEF k
<1>5. EmaReference(values, n, period) = Q(a * q + 2 * period * s, period * r)
  BY <1>1 DEF EmaReference
<1>6. EmaReference(values, n + 1, period)
        = Q(a * ((period - 1) * q) + 2 * period * t, period * ((period + 1) * r))
  BY <1>1, <1>4 DEF EmaReference
<1> HIDE DEF a, q, r, s, t
<1>7. EmaStep(EmaReference(values, n, period), values[n + 1], period)
        = Q(2 * values[n + 1] * (period * r) + (period - 1) * (a * q + 2 * period * s),
            (period + 1) * (period * r))
  BY <1>5 DEF EmaStep, Q
<1>8. /\ a * ((period - 1) * q) + 2 * period * (values[n + 1] * r + (period - 1) * s)
           = 2 * values[n + 1] * (period * r) + (period - 1) * (a * q + 2 * period * s)
      /\ period * ((period + 1) * r) = (period + 1) * (period * r)
  <2> DEFINE v == values[n + 1]
  <2>1. v \in Int /\ period \in Int
    BY <1>1
  <2> HIDE DEF v
  <2>2. /\ a * ((period - 1) * q) + 2 * period * (v * r + (period - 1) * s)
             = 2 * v * (period * r) + (period - 1) * (a * q + 2 * period * s)
        /\ period * ((period + 1) * r) = (period + 1) * (period * r)
    BY <1>2, <2>1, EmaArithmetic
  <2>. QED
    BY <2>2 DEF v
<1>. QED
  BY <1>3, <1>6, <1>7, <1>8

(* It is null exactly if there are not as many values as the period.        *)
LEMMA EmaIsNumber ==
  ASSUME NEW values, NEW period \in Nat \ {0}, NEW n \in Nat
  PROVE  EmaReference(values, n, period) = Null <=> n < period
<1>1. CASE n < period
  BY <1>1 DEF EmaReference
<1>2. CASE ~(n < period)
  <2>1. ~(n - period < 0) /\ n - period \in Nat /\ period + 1 \in Nat /\ period + 1 > 0
    BY <1>2
  <2>2. Pow(period + 1, n - period) \in Nat /\ Pow(period + 1, n - period) > 0
    BY <2>1, PowNat
  <2>3. period * Pow(period + 1, n - period) # 0
    <3>1. ASSUME NEW x \in Nat, x > 0 PROVE period * x # 0
      BY <3>1
    <3>. QED
      BY <2>2, <3>1
  <2>4. EmaReference(values, n, period).den = period * Pow(period + 1, n - period)
    BY <2>1 DEF EmaReference, Q
  <2>5. Null.den = 0
    BY DEF Null, Q
  <2>. QED
    BY <1>2, <2>3, <2>4, <2>5
<1>. QED
  BY <1>1, <1>2

(* What a walk that starts at period and continues bar by bar comes to.     *)
EmaWalk(values, period, walk) ==
  walk = [i \in period..Len(values) |->
            IF i = period THEN Q(SumOf(values, 1, period), period)
            ELSE EmaStep(walk[i - 1], values[i], period)]

(* Such a walk goes through the closed forms.                               *)
LEMMA EmaWalkIsReference ==
  ASSUME NEW values \in Seq(Int), NEW period \in Nat \ {0}, NEW walk,
         EmaWalk(values, period, walk)
  PROVE  \A n \in period..Len(values) : walk[n] = EmaReference(values, n, period)
<1> DEFINE T == {k \in Nat : period + k <= Len(values) =>
                    walk[period + k] = EmaReference(values, period + k, period)}
<1>1. 0 \in T
  <2> SUFFICES ASSUME period <= Len(values)
               PROVE  walk[period] = EmaReference(values, period, period)
    OBVIOUS
  <2>1. walk[period] = Q(SumOf(values, 1, period), period)
    BY DEF EmaWalk
  <2>. QED
    BY <2>1, SeedInt, EmaStarts
<1>2. ASSUME NEW k \in Nat, k \in T PROVE k + 1 \in T
  <2> SUFFICES ASSUME period + (k + 1) <= Len(values)
               PROVE  walk[period + (k + 1)] = EmaReference(values, period + (k + 1), period)
    OBVIOUS
  <2> DEFINE n == period + k
  <2>1. /\ n \in period..Len(values) /\ n + 1 <= Len(values) /\ period + (k + 1) = n + 1
        /\ n + 1 \in period..Len(values) /\ n + 1 # period /\ (n + 1) - 1 = n
    OBVIOUS
  <2>2. walk[n] = EmaReference(values, n, period)
    BY <1>2, <2>1
  <2> HIDE DEF n
  <2>3. walk[n + 1] = EmaStep(walk[n], values[n + 1], period)
    BY <2>1 DEF EmaWalk
  <2>. QED
    BY <2>1, <2>2, <2>3, EmaContinues
<1>3. Nat \subseteq T
  <2> HIDE DEF T
  <2>. QED
    BY <1>1, <1>2, NatSetInduction
<1>4. ASSUME NEW n \in period..Len(values)
      PROVE  walk[n] = EmaReference(values, n, period)
  <2>1. n - period \in Nat /\ period + (n - period) = n /\ n <= Len(values)
    OBVIOUS
  <2>2. n - period \in T
    <3> HIDE DEF T
    <3>. QED
      BY <1>3, <2>1
  <2>. QED
    BY <2>1, <2>2
<1>. QED
  BY <1>4

(* There is one: the closed forms themselves.                               *)
LEMMA EmaWalkExists ==
  ASSUME NEW values \in Seq(Int), NEW period \in Nat \ {0}
  PROVE  EmaWalk(values, period,
                 [i \in period..Len(values) |-> EmaReference(values, i, period)])
<1> DEFINE walk == [i \in period..Len(values) |-> EmaReference(values, i, period)]
<1>1. ASSUME NEW i \in period..Len(values)
      PROVE  walk[i] = IF i = period THEN Q(SumOf(values, 1, period), period)
                       ELSE EmaStep(walk[i - 1], values[i], period)
  <2>1. CASE i = period
    <3>1. period <= Len(values)
      BY <2>1
    <3>. QED
      BY <2>1, <3>1, SeedInt, EmaStarts
  <2>2. CASE i # period
    <3> DEFINE n == i - 1
    <3>1. n \in period..Len(values) /\ n + 1 <= Len(values) /\ i = n + 1
      BY <2>2
    <3>2. walk[n] = EmaReference(values, n, period)
      BY <3>1
    <3> HIDE DEF n
    <3>3. EmaReference(values, n + 1, period)
            = EmaStep(EmaReference(values, n, period), values[n + 1], period)
      BY <3>1, EmaContinues
    <3>. QED
      BY <2>2, <3>1, <3>2, <3>3 DEF n
  <2>. QED
    BY <2>1, <2>2
<1>. QED
  BY <1>1 DEF EmaWalk

(* ema is the closed form.                                                  *)
LEMMA EmaIsReference ==
  ASSUME NEW values \in Seq(Int), NEW period \in Nat \ {0}
  PROVE  Ema(values, period) = EmaReference(values, Len(values), period)
<1> DEFINE walk == CHOOSE w : EmaWalk(values, period, w)
<1>1. EmaWalk(values, period, walk)
  <2> DEFINE w == [i \in period..Len(values) |-> EmaReference(values, i, period)]
  <2>1. EmaWalk(values, period, w)
    BY EmaWalkExists
  <2> HIDE DEF w
  <2>. QED
    BY <2>1
<1>2. Ema(values, period) = IF Len(values) < period THEN Null ELSE walk[Len(values)]
  BY DEF Ema, EmaWalk
<1> HIDE DEF walk
<1>3. CASE Len(values) < period
  <2>1. Len(values) \in Nat
    OBVIOUS
  <2>. QED
    BY <1>2, <1>3, <2>1, EmaIsNumber
<1>4. CASE ~(Len(values) < period)
  <2>1. Len(values) \in period..Len(values)
    BY <1>4
  <2>. QED
    BY <1>1, <1>2, <1>4, <2>1, EmaWalkIsReference
<1>. QED
  BY <1>3, <1>4

(* The series, which finds out by itself where it has to start.             *)
EmaList(values, period, series) ==
  series = [i \in 0..Len(values) |->
              IF i < period THEN Null
              ELSE IF series[i - 1] = Null THEN Q(SumOf(values, i - period + 1, i), period)
              ELSE EmaStep(series[i - 1], values[i], period)]

(* One bar of it, if the bar before is as it should be.                     *)
LEMMA EmaListStep ==
  ASSUME NEW values \in Seq(Int), NEW period \in Nat \ {0}, NEW n \in 1..Len(values),
         NEW prev, prev = EmaReference(values, n - 1, period)
  PROVE  EmaReference(values, n, period)
           = IF n < period THEN Null
             ELSE IF prev = Null THEN Q(SumOf(values, n - period + 1, n), period)
             ELSE EmaStep(prev, values[n], period)
<1>1. n \in Nat /\ n - 1 \in Nat
  OBVIOUS
<1>2. prev = Null <=> n - 1 < period
  <2> DEFINE m == n - 1
  <2>1. m \in Nat /\ prev = EmaReference(values, m, period)
    BY <1>1
  <2> HIDE DEF m
  <2>2. prev = Null <=> m < period
    BY <2>1, EmaIsNumber
  <2>. QED
    BY <2>2 DEF m
<1>3. CASE n < period
  BY <1>1, <1>3, EmaIsNumber
<1>4. CASE n = period
  <2>1. n - period + 1 = 1 /\ period <= Len(values) /\ n - 1 < period /\ ~(n < period)
    BY <1>4
  <2>2. SumOf(values, n - period + 1, n) = SumOf(values, 1, period)
    BY <1>4, <2>1
  <2>. QED
    BY <1>2, <1>4, <2>1, <2>2, SeedInt, EmaStarts
<1>5. CASE n > period
  <2> DEFINE m == n - 1
  <2>1. /\ m \in period..Len(values) /\ m + 1 <= Len(values) /\ n = m + 1
        /\ ~(n < period) /\ ~(n - 1 < period)
    BY <1>5
  <2>2. prev = EmaReference(values, m, period)
    OBVIOUS
  <2> HIDE DEF m
  <2>3. EmaReference(values, m + 1, period) = EmaStep(prev, values[m + 1], period)
    BY <2>1, <2>2, EmaContinues
  <2>. QED
    BY <1>2, <2>1, <2>3
<1>. QED
  BY <1>1, <1>3, <1>4, <1>5

(* The list of emaSeries is that of the closed forms.                       *)
LEMMA EmaListIsReference ==
  ASSUME NEW values \in Seq(Int), NEW period \in Nat \ {0}, NEW series,
         EmaList(values, period, series)
  PROVE  \A n \in 0..Len(values) : series[n] = EmaReference(values, n, period)
<1> DEFINE T == {n \in Nat : n <= Len(values) => series[n] = EmaReference(values, n, period)}
<1>1. 0 \in T
  <2>1. 0 \in 0..Len(values) /\ 0 < period
    OBVIOUS
  <2>2. series[0] = Null
    BY <2>1 DEF EmaList
  <2>3. EmaReference(values, 0, period) = Null
    BY <2>1, EmaIsNumber
  <2>. QED
    BY <2>2, <2>3
<1>2. ASSUME NEW m \in Nat, m \in T PROVE m + 1 \in T
  <2> SUFFICES ASSUME m + 1 <= Len(values)
               PROVE  series[m + 1] = EmaReference(values, m + 1, period)
    OBVIOUS
  <2> DEFINE n == m + 1
  <2>1. /\ n \in 1..Len(values) /\ n \in 0..Len(values) /\ n - 1 = m /\ m <= Len(values)
    OBVIOUS
  <2>2. series[m] = EmaReference(values, m, period)
    BY <1>2, <2>1
  <2> HIDE DEF n
  <2>3. series[n] = IF n < period THEN Null
                    ELSE IF series[n - 1] = Null
                           THEN Q(SumOf(values, n - period + 1, n), period)
                    ELSE EmaStep(series[n - 1], values[n], period)
    BY <2>1 DEF EmaList
  <2>4. series[n - 1] = EmaReference(values, n - 1, period)
    BY <2>1, <2>2
  <2>5. series[n] = EmaReference(values, n, period)
    <3> DEFINE prev == series[n - 1]
    <3>1. prev = EmaReference(values, n - 1, period)
      BY <2>4
    <3>2. series[n] = IF n < period THEN Null
                      ELSE IF prev = Null THEN Q(SumOf(values, n - period + 1, n), period)
                      ELSE EmaStep(prev, values[n], period)
      BY <2>3
    <3> HIDE DEF prev
    <3>. QED
      BY <2>1, <3>1, <3>2, EmaListStep
  <2>. QED
    BY <2>5 DEF n
<1>3. Nat \subseteq T
  <2> HIDE DEF T
  <2>. QED
    BY <1>1, <1>2, NatSetInduction
<1>. QED
  BY <1>3

(* There is one: the closed forms themselves.                               *)
LEMMA EmaListExists ==
  ASSUME NEW values \in Seq(Int), NEW period \in Nat \ {0}
  PROVE  EmaList(values, period, [i \in 0..Len(values) |-> EmaReference(values, i, period)])
<1> DEFINE list == [i \in 0..Len(values) |-> EmaReference(values, i, period)]
<1>1. ASSUME NEW i \in 0..Len(values)
      PROVE  list[i] = IF i < period THEN Null
                       ELSE IF list[i - 1] = Null
                              THEN Q(SumOf(values, i - period + 1, i), period)
                       ELSE EmaStep(list[i - 1], values[i], period)
  <2>1. CASE i = 0
    <3>1. 0 < period /\ 0 \in Nat
      OBVIOUS
    <3>. QED
      BY <2>1, <3>1, EmaIsNumber
  <2>2. CASE i # 0
    <3>1. i \in 1..Len(values) /\ i - 1 \in 0..Len(values)
      BY <2>2
    <3>2. list[i] = EmaReference(values, i, period)
          /\ list[i - 1] = EmaReference(values, i - 1, period)
      BY <3>1
    <3> HIDE DEF list
    <3>. QED
      BY <3>1, <3>2, EmaListStep
  <2>. QED
    BY <2>1, <2>2
<1>. QED
  BY <1>1 DEF EmaList

(* emaSeries is the closed form at every bar.                               *)
LEMMA EmaSeriesIsReference ==
  ASSUME NEW values \in Seq(Int), NEW period \in Nat \ {0}, NEW n \in 1..Len(values)
  PROVE  EmaSeries(values, period)[n] = EmaReference(values, n, period)
<1> DEFINE series == CHOOSE s : EmaList(values, period, s)
<1>1. EmaList(values, period, series)
  <2> DEFINE s == [i \in 0..Len(values) |-> EmaReference(values, i, period)]
  <2>1. EmaList(values, period, s)
    BY EmaListExists
  <2> HIDE DEF s
  <2>. QED
    BY <2>1
<1>2. EmaSeries(values, period) = [i \in 1..Len(values) |-> series[i]]
  BY DEF EmaSeries, EmaList
<1> HIDE DEF series
<1>3. n \in 0..Len(values)
  OBVIOUS
<1>. QED
  BY <1>1, <1>2, <1>3, EmaListIsReference

(* A prefix has the values of the series.                                   *)
LEMMA PrefixValues ==
  ASSUME NEW values \in Seq(Int), NEW n \in 1..Len(values)
  PROVE  /\ Prefix(values, n) \in Seq(Int) /\ Len(Prefix(values, n)) = n
         /\ \A i \in 1..n : Prefix(values, n)[i] = values[i]
<1>1. \A i \in 1..n : values[i] \in Int
  OBVIOUS
<1>. QED
  BY <1>1, SubSeqProperties DEF Prefix

(* The closed form at a bar is that of the series which ends there.         *)
LEMMA EmaReferenceOfPrefix ==
  ASSUME NEW values \in Seq(Int), NEW period \in Nat \ {0}, NEW n \in 1..Len(values)
  PROVE  EmaReference(Prefix(values, n), n, period) = EmaReference(values, n, period)
<1> DEFINE past == Prefix(values, n)
<1>1. \A i \in 1..n : past[i] = values[i]
  BY PrefixValues
<1> HIDE DEF past
<1>2. CASE n - period < 0
  BY <1>2 DEF EmaReference
<1>3. CASE ~(n - period < 0)
  <2>1. IsFiniteSet(1..period) /\ \A i \in 1..period : past[i] = values[i]
    <3>1. IsFiniteSet(1..period)
      BY FS_Interval
    <3>2. \A i \in 1..period : i \in 1..n
      BY <1>3
    <3>. QED
      BY <1>1, <3>1, <3>2
  <2>2. SumOf(past, 1, period) = SumOf(values, 1, period)
    BY <2>1, SumSame DEF SumOf
  <2>3. EmaTerms(past, n, period) = EmaTerms(values, n, period)
    <3>1. \A i \in (period + 1)..n : past[i] = values[i]
      <4>1. \A i \in (period + 1)..n : i \in 1..n
        OBVIOUS
      <4>. QED
        BY <1>1, <4>1
    <3>. QED
      BY <3>1 DEF EmaTerms
  <2>. QED
    BY <2>2, <2>3 DEF EmaReference, past
<1>. QED
  BY <1>2, <1>3 DEF past
-----------------------------------------------------------------------------
(* The terms of Wilder's average of integers are integers, and so is it.    *)
LEMMA SmoothedTermsInt ==
  ASSUME NEW moves, NEW period \in Nat \ {0}, NEW n \in Nat, period <= n,
         \A i \in 1..n : moves[i] \in Int
  PROVE  /\ IsFiniteSet(1..n)
         /\ \A i \in 1..n : SmoothedTerms(moves, n, period)[i] \in Int
         /\ Smoothed(moves, n, period) \in Int
<1>1. IsFiniteSet(1..n)
  BY FS_Interval
<1>2. ASSUME NEW i \in 1..n
      PROVE  SmoothedTerms(moves, n, period)[i] \in Int
  <2>1. CASE i <= period
    <3> DEFINE k == n - period
    <3>1. k \in Nat
      OBVIOUS
    <3> HIDE DEF k
    <3>2. Pow(period - 1, k) \in Int
      BY <3>1, Weights
    <3>3. SmoothedTerms(moves, n, period)[i] = moves[i] * Pow(period - 1, k)
      BY <2>1 DEF SmoothedTerms, k
    <3>. QED
      BY <3>2, <3>3
  <2>2. CASE ~(i <= period)
    <3> DEFINE k == n - i
               l == i - period
    <3>1. k \in Nat /\ l \in Nat
      BY <2>2
    <3> HIDE DEF k, l
    <3>2. Pow(period - 1, k) \in Int /\ Pow(period, l) \in Int
      BY <3>1, Weights
    <3>3. SmoothedTerms(moves, n, period)[i]
            = moves[i] * (Pow(period - 1, k) * Pow(period, l))
      BY <2>2 DEF SmoothedTerms, k, l
    <3>. QED
      BY <3>2, <3>3
  <2>. QED
    BY <2>1, <2>2
<1>3. Smoothed(moves, n, period) = SumFunctionOnSet(SmoothedTerms(moves, n, period), 1..n)
  BY DEF Smoothed, SumFunction, SmoothedTerms
<1>. QED
  BY <1>1, <1>2, <1>3, SumInt

(* At first it is the sum of the moves.                                     *)
LEMMA SmoothedStarts ==
  ASSUME NEW moves, NEW period \in Nat \ {0}, \A i \in 1..period : moves[i] \in Int
  PROVE  Smoothed(moves, period, period) = SumOf(moves, 1, period)
<1>1. Smoothed(moves, period, period)
        = SumFunctionOnSet(SmoothedTerms(moves, period, period), 1..period)
  BY DEF Smoothed, SumFunction, SmoothedTerms
<1>2. Pow(period - 1, 0) = 1 /\ period - period = 0
  BY PowZero
<1>3. ASSUME NEW i \in 1..period
      PROVE  SmoothedTerms(moves, period, period)[i] = moves[i]
  <2>1. SmoothedTerms(moves, period, period)[i] = moves[i] * Pow(period - 1, 0)
    BY <1>2 DEF SmoothedTerms
  <2>. QED
    BY <1>2, <2>1
<1>4. IsFiniteSet(1..period)
  BY FS_Interval
<1>. QED
  BY <1>1, <1>3, <1>4, SumSame DEF SumOf

(* The arithmetic of one more move.                                         *)
LEMMA MoveArithmetic ==
  ASSUME NEW v \in Int, NEW k \in Int, NEW q \in Int, NEW r \in Int
  PROVE  /\ v * (k * q) = k * (v * q)
         /\ v * ((k * q) * r) = k * (v * (q * r))
  OBVIOUS

(* One more move: the others shrink, and it enters with the denominator.    *)
LEMMA SmoothedContinues ==
  ASSUME NEW moves, NEW period \in Nat \ {0}, NEW n \in Nat, period <= n,
         \A i \in 1..(n + 1) : moves[i] \in Int
  PROVE  Smoothed(moves, n + 1, period)
           = Smoothed(moves, n, period) * (period - 1)
               + moves[n + 1] * (period * Pow(period, n - period))
<1> DEFINE old == SmoothedTerms(moves, n, period)
           new == SmoothedTerms(moves, n + 1, period)
<1>1. /\ Smoothed(moves, n, period) = SumFunctionOnSet(old, 1..n)
      /\ Smoothed(moves, n + 1, period) = SumFunctionOnSet(new, 1..(n + 1))
  BY DEF Smoothed, SumFunction, SmoothedTerms
<1>2. n + 1 \in Nat /\ period <= n + 1 /\ \A i \in 1..n : moves[i] \in Int
  OBVIOUS
<1>3. /\ IsFiniteSet(1..n) /\ \A i \in 1..n : old[i] \in Int
      /\ \A i \in 1..(n + 1) : new[i] \in Int
      /\ Smoothed(moves, n, period) \in Int
  <2> HIDE DEF old, new
  <2>. QED
    BY <1>2, SmoothedTermsInt DEF old, new
<1>4. 1..(n + 1) = 1..n \cup {n + 1} /\ n + 1 \notin 1..n
  OBVIOUS
<1>5. ASSUME NEW i \in 1..n
      PROVE  new[i] = (period - 1) * old[i]
  <2>0. moves[i] \in Int /\ i \in 1..(n + 1)
    OBVIOUS
  <2>1. CASE i <= period
    <3> DEFINE k == n - period
    <3>1. k \in Nat /\ (n + 1) - period = k + 1
      OBVIOUS
    <3>2. /\ old[i] = moves[i] * Pow(period - 1, k)
          /\ new[i] = moves[i] * Pow(period - 1, k + 1)
      BY <2>0, <2>1, <3>1 DEF SmoothedTerms
    <3> HIDE DEF k, old, new
    <3>3. /\ Pow(period - 1, k) \in Int
          /\ Pow(period - 1, k + 1) = (period - 1) * Pow(period - 1, k)
      BY <3>1, Weights
    <3> DEFINE c == period - 1
               q == Pow(c, k)
               v == moves[i]
    <3>4. c \in Int /\ q \in Int /\ v \in Int
      BY <2>0, <3>3
    <3>5. new[i] = v * (c * q) /\ old[i] = v * q
      BY <3>2, <3>3
    <3> HIDE DEF c, q, v
    <3>6. new[i] = c * old[i]
      BY <3>4, <3>5, MoveArithmetic
    <3>. QED
      BY <3>6 DEF c
  <2>2. CASE ~(i <= period)
    <3> DEFINE k == n - i
               l == i - period
    <3>1. k \in Nat /\ l \in Nat /\ (n + 1) - i = k + 1
      BY <2>2
    <3>2. /\ old[i] = moves[i] * (Pow(period - 1, k) * Pow(period, l))
          /\ new[i] = moves[i] * (Pow(period - 1, k + 1) * Pow(period, l))
      BY <2>0, <2>2, <3>1 DEF SmoothedTerms
    <3> HIDE DEF k, l, old, new
    <3>3. /\ Pow(period - 1, k) \in Int /\ Pow(period, l) \in Int
          /\ Pow(period - 1, k + 1) = (period - 1) * Pow(period - 1, k)
      BY <3>1, Weights
    <3> DEFINE c == period - 1
               q == Pow(c, k)
               w == Pow(period, l)
               v == moves[i]
    <3>4. c \in Int /\ q \in Int /\ w \in Int /\ v \in Int
      BY <2>0, <3>3
    <3>5. new[i] = v * ((c * q) * w) /\ old[i] = v * (q * w)
      BY <3>2, <3>3
    <3> HIDE DEF c, q, v, w
    <3>6. new[i] = c * old[i]
      BY <3>4, <3>5, MoveArithmetic
    <3>. QED
      BY <3>6 DEF c
  <2>. QED
    BY <2>1, <2>2
<1>6. new[n + 1] = moves[n + 1] * (period * Pow(period, n - period))
  <2>1. /\ n + 1 \in 1..(n + 1) /\ ~(n + 1 <= period) /\ (n + 1) - (n + 1) = 0
        /\ (n + 1) - period = (n - period) + 1 /\ n - period \in Nat
    OBVIOUS
  <2>2. new[n + 1] = moves[n + 1] * (Pow(period - 1, 0) * Pow(period, (n - period) + 1))
    BY <2>1 DEF SmoothedTerms
  <2> DEFINE k == n - period
  <2>3. k \in Nat
    BY <2>1
  <2> HIDE DEF k
  <2>4. Pow(period, k + 1) = period * Pow(period, k) /\ Pow(period, k) \in Int
    BY <2>3, Weights
  <2>5. Pow(period - 1, 0) * Pow(period, k + 1) = period * Pow(period, k)
    BY <2>4, PowZero
  <2>. QED
    BY <2>2, <2>5 DEF k
<1> HIDE DEF old, new
<1>7. SumFunctionOnSet(new, 1..(n + 1)) = new[n + 1] + SumFunctionOnSet(new, 1..n)
  <2> DEFINE S == 1..n
  <2>1. IsFiniteSet(S) /\ n + 1 \notin S /\ \A i \in S \cup {n + 1} : new[i] \in Int
    BY <1>3, <1>4
  <2> HIDE DEF S
  <2>2. SumFunctionOnSet(new, S \cup {n + 1}) = new[n + 1] + SumFunctionOnSet(new, S)
    BY <2>1, SumWith
  <2>. QED
    BY <1>4, <2>2 DEF S
<1>8. SumFunctionOnSet(new, 1..n) = (period - 1) * SumFunctionOnSet(old, 1..n)
  <2> DEFINE c == period - 1
             S == 1..n
  <2>1. c \in Int /\ IsFiniteSet(S) /\ \A i \in S : old[i] \in Int /\ new[i] = c * old[i]
    BY <1>3, <1>5
  <2> HIDE DEF c, S
  <2>2. SumFunctionOnSet(new, S) = c * SumFunctionOnSet(old, S)
    BY <2>1, SumScaled
  <2>. QED
    BY <2>2 DEF c, S
<1> DEFINE x == SumFunctionOnSet(old, 1..n)
           y == new[n + 1]
<1>9. x \in Int /\ y \in Int
  BY <1>1, <1>3, <1>4
<1>10. Smoothed(moves, n + 1, period) = y + (period - 1) * x /\ Smoothed(moves, n, period) = x
  BY <1>1, <1>7, <1>8
<1>11. y + (period - 1) * x = x * (period - 1) + y
  <2> HIDE DEF x, y
  <2>. QED
    BY <1>9
<1>. QED
  BY <1>6, <1>10, <1>11

(* Gains and losses of integers are integers.                               *)
LEMMA MovesInt ==
  ASSUME NEW values \in Seq(Int)
  PROVE  \A i \in 1..(Len(values) - 1) :
           Gains(values)[i] \in Int /\ Losses(values)[i] \in Int
<1>1. ASSUME NEW i \in 1..(Len(values) - 1)
      PROVE  Gains(values)[i] \in Int /\ Losses(values)[i] \in Int
  <2>1. i \in 1..Len(values) /\ i + 1 \in 1..Len(values)
    OBVIOUS
  <2>2. values[i] \in Int /\ values[i + 1] \in Int
    BY <2>1
  <2>. QED
    BY <2>2 DEF Gains, Losses
<1>. QED
  BY <1>1

(* Both averages, over their one denominator.                               *)
Averages(values, i, period) ==
  [gain |-> Smoothed(Gains(values), i, period),
   loss |-> Smoothed(Losses(values), i, period),
   den  |-> period * Pow(period, i - period)]

(* The averages of the first changes, and one more change: as rsi has them. *)
AveragesStart(values, period) ==
  [gain |-> SumOf(Gains(values), 1, period),
   loss |-> SumOf(Losses(values), 1, period),
   den  |-> period]

AveragesStep(prev, gain, loss, period) ==
  [gain |-> prev.gain * (period - 1) + gain * prev.den,
   loss |-> prev.loss * (period - 1) + loss * prev.den,
   den  |-> prev.den * period]

(* The closed forms begin as the code does.                                 *)
LEMMA AveragesStarts ==
  ASSUME NEW values \in Seq(Int), NEW period \in Nat \ {0}, period <= Len(values) - 1
  PROVE  Averages(values, period, period) = AveragesStart(values, period)
<1>1. /\ \A i \in 1..period : Gains(values)[i] \in Int
      /\ \A i \in 1..period : Losses(values)[i] \in Int
  <2>1. \A i \in 1..period : i \in 1..(Len(values) - 1)
    OBVIOUS
  <2>. QED
    BY <2>1, MovesInt
<1>2. /\ Smoothed(Gains(values), period, period) = SumOf(Gains(values), 1, period)
      /\ Smoothed(Losses(values), period, period) = SumOf(Losses(values), 1, period)
  BY <1>1, SmoothedStarts
<1>3. period - period = 0 /\ Pow(period, 0) = 1
  BY PowZero
<1>4. period * Pow(period, period - period) = period
  BY <1>3
<1>. QED
  BY <1>2, <1>4 DEF Averages, AveragesStart

(* They go on as the code does.                                             *)
LEMMA AveragesContinue ==
  ASSUME NEW values \in Seq(Int), NEW period \in Nat \ {0},
         NEW n \in Nat, period <= n, n + 1 <= Len(values) - 1
  PROVE  Averages(values, n + 1, period)
           = AveragesStep(Averages(values, n, period),
                          Gains(values)[n + 1], Losses(values)[n + 1], period)
<1>1. /\ \A i \in 1..(n + 1) : Gains(values)[i] \in Int
      /\ \A i \in 1..(n + 1) : Losses(values)[i] \in Int
  <2>1. \A i \in 1..(n + 1) : i \in 1..(Len(values) - 1)
    OBVIOUS
  <2>. QED
    BY <2>1, MovesInt
<1> DEFINE den == period * Pow(period, n - period)
<1>2. Smoothed(Gains(values), n + 1, period)
        = Smoothed(Gains(values), n, period) * (period - 1) + Gains(values)[n + 1] * den
  BY <1>1, SmoothedContinues
<1>3. Smoothed(Losses(values), n + 1, period)
        = Smoothed(Losses(values), n, period) * (period - 1) + Losses(values)[n + 1] * den
  BY <1>1, SmoothedContinues
<1>4. period * Pow(period, (n + 1) - period) = den * period
  <2> DEFINE k == n - period
             x == Pow(period, k)
  <2>1. k \in Nat /\ (n + 1) - period = k + 1
    OBVIOUS
  <2> HIDE DEF k
  <2>2. Pow(period, k + 1) = period * x /\ x \in Int
    BY <2>1, Weights
  <2> HIDE DEF x
  <2>3. period * (period * x) = (period * x) * period
    BY <2>2
  <2>. QED
    BY <2>1, <2>2, <2>3 DEF k, x
<1> HIDE DEF den
<1>5. Averages(values, n, period)
        = [gain |-> Smoothed(Gains(values), n, period),
           loss |-> Smoothed(Losses(values), n, period), den |-> den]
  BY DEF Averages, den
<1>. QED
  BY <1>2, <1>3, <1>4, <1>5 DEF Averages, AveragesStep

(* The walk of rsi over the changes.                                        *)
RsiWalk(values, period, walk) ==
  walk = [i \in period..(Len(values) - 1) |->
            IF i = period THEN AveragesStart(values, period)
            ELSE AveragesStep(walk[i - 1], Gains(values)[i], Losses(values)[i], period)]

(* The walk of the code goes through them.                                  *)
LEMMA RsiWalkIsReference ==
  ASSUME NEW values \in Seq(Int), NEW period \in Nat \ {0}, NEW walk,
         RsiWalk(values, period, walk)
  PROVE  \A n \in period..(Len(values) - 1) : walk[n] = Averages(values, n, period)
<1> DEFINE T == {k \in Nat : period + k <= Len(values) - 1 =>
                    walk[period + k] = Averages(values, period + k, period)}
<1>1. 0 \in T
  <2> SUFFICES ASSUME period <= Len(values) - 1
               PROVE  walk[period] = Averages(values, period, period)
    OBVIOUS
  <2>1. walk[period] = AveragesStart(values, period)
    BY DEF RsiWalk
  <2>. QED
    BY <2>1, AveragesStarts
<1>2. ASSUME NEW k \in Nat, k \in T PROVE k + 1 \in T
  <2> SUFFICES ASSUME period + (k + 1) <= Len(values) - 1
               PROVE  walk[period + (k + 1)] = Averages(values, period + (k + 1), period)
    OBVIOUS
  <2> DEFINE n == period + k
  <2>1. /\ n \in Nat /\ period <= n /\ n + 1 <= Len(values) - 1 /\ period + (k + 1) = n + 1
        /\ n + 1 \in period..(Len(values) - 1) /\ n + 1 # period /\ (n + 1) - 1 = n
    OBVIOUS
  <2>2. walk[n] = Averages(values, n, period)
    BY <1>2, <2>1
  <2> HIDE DEF n
  <2>3. walk[n + 1] = AveragesStep(walk[n], Gains(values)[n + 1], Losses(values)[n + 1], period)
    BY <2>1 DEF RsiWalk
  <2>. QED
    BY <2>1, <2>2, <2>3, AveragesContinue
<1>3. Nat \subseteq T
  <2> HIDE DEF T
  <2>. QED
    BY <1>1, <1>2, NatSetInduction
<1>4. ASSUME NEW n \in period..(Len(values) - 1)
      PROVE  walk[n] = Averages(values, n, period)
  <2>1. n - period \in Nat /\ period + (n - period) = n /\ n <= Len(values) - 1
    OBVIOUS
  <2>2. n - period \in T
    <3> HIDE DEF T
    <3>. QED
      BY <1>3, <2>1
  <2>. QED
    BY <2>1, <2>2
<1>. QED
  BY <1>4

(* There is one: the closed forms themselves.                               *)
LEMMA RsiWalkExists ==
  ASSUME NEW values \in Seq(Int), NEW period \in Nat \ {0}
  PROVE  RsiWalk(values, period,
                 [i \in period..(Len(values) - 1) |-> Averages(values, i, period)])
<1> DEFINE walk == [i \in period..(Len(values) - 1) |-> Averages(values, i, period)]
<1>1. ASSUME NEW i \in period..(Len(values) - 1)
      PROVE  walk[i] = IF i = period THEN AveragesStart(values, period)
                       ELSE AveragesStep(walk[i - 1], Gains(values)[i], Losses(values)[i], period)
  <2>1. CASE i = period
    <3>1. period <= Len(values) - 1
      BY <2>1
    <3>. QED
      BY <2>1, <3>1, AveragesStarts
  <2>2. CASE i # period
    <3> DEFINE n == i - 1
    <3>1. /\ n \in Nat /\ period <= n /\ n + 1 <= Len(values) - 1 /\ i = n + 1
          /\ n \in period..(Len(values) - 1)
      BY <2>2
    <3>2. walk[n] = Averages(values, n, period)
      BY <3>1
    <3> HIDE DEF n
    <3>3. Averages(values, n + 1, period)
            = AveragesStep(Averages(values, n, period),
                           Gains(values)[n + 1], Losses(values)[n + 1], period)
      BY <3>1, AveragesContinue
    <3>. QED
      BY <2>2, <3>1, <3>2, <3>3 DEF n
  <2>. QED
    BY <2>1, <2>2
<1>. QED
  BY <1>1 DEF RsiWalk

(* rsi is the quotient of the closed forms.                                 *)
LEMMA RsiIsReference ==
  ASSUME NEW values \in Seq(Int), NEW period \in Nat \ {0}
  PROVE  Rsi(values, period) = RsiReference(values, Len(values), period)
<1> DEFINE walk == CHOOSE w : RsiWalk(values, period, w)
           last == Len(values) - 1
<1>1. RsiWalk(values, period, walk)
  <2> DEFINE w == [i \in period..(Len(values) - 1) |-> Averages(values, i, period)]
  <2>1. RsiWalk(values, period, w)
    BY RsiWalkExists
  <2> HIDE DEF w
  <2>. QED
    BY <2>1
<1>2. Rsi(values, period)
        = IF last < period THEN Null
          ELSE IF walk[last].loss = 0 THEN Q(100, 1)
          ELSE Q(100 * walk[last].gain, walk[last].gain + walk[last].loss)
  BY DEF Rsi, RsiWalk, AveragesStart, AveragesStep
<1>3. RsiReference(values, Len(values), period)
        = IF Len(values) <= period THEN Null
          ELSE IF Smoothed(Losses(values), last, period) = 0 THEN Q(100, 1)
          ELSE Q(100 * Smoothed(Gains(values), last, period),
                 Smoothed(Gains(values), last, period) + Smoothed(Losses(values), last, period))
  BY DEF RsiReference
<1> HIDE DEF walk
<1>4. last < period <=> Len(values) <= period
  OBVIOUS
<1>5. CASE ~(last < period)
  <2>1. last \in period..(Len(values) - 1)
    BY <1>5
  <2>2. walk[last] = Averages(values, last, period)
    <3> HIDE DEF last
    <3>. QED
      BY <1>1, <2>1, RsiWalkIsReference
  <2>3. /\ walk[last].gain = Smoothed(Gains(values), last, period)
        /\ walk[last].loss = Smoothed(Losses(values), last, period)
    <3> HIDE DEF last
    <3>. QED
      BY <2>2 DEF Averages
  <2>. QED
    BY <1>2, <1>3, <1>4, <1>5, <2>3
<1>. QED
  BY <1>2, <1>3, <1>4, <1>5

(* At a bar it is that of the series which ends there.                      *)
LEMMA RsiReferenceOfPrefix ==
  ASSUME NEW values \in Seq(Int), NEW period \in Nat \ {0}, NEW n \in 1..Len(values)
  PROVE  RsiReference(Prefix(values, n), n, period) = RsiReference(values, n, period)
<1> DEFINE past == Prefix(values, n)
<1>1. Len(past) = n /\ \A i \in 1..n : past[i] = values[i]
  BY PrefixValues
<1> HIDE DEF past
<1>2. ASSUME NEW i \in 1..(n - 1)
      PROVE  Gains(past)[i] = Gains(values)[i] /\ Losses(past)[i] = Losses(values)[i]
  <2>1. i \in 1..n /\ i + 1 \in 1..n /\ i \in 1..(Len(values) - 1) /\ i \in 1..(Len(past) - 1)
    BY <1>1
  <2>2. past[i] = values[i] /\ past[i + 1] = values[i + 1]
    BY <1>1, <2>1
  <2>. QED
    BY <2>1, <2>2 DEF Gains, Losses
<1>3. /\ Smoothed(Gains(past), n - 1, period) = Smoothed(Gains(values), n - 1, period)
      /\ Smoothed(Losses(past), n - 1, period) = Smoothed(Losses(values), n - 1, period)
  <2>1. SmoothedTerms(Gains(past), n - 1, period) = SmoothedTerms(Gains(values), n - 1, period)
    BY <1>2 DEF SmoothedTerms
  <2>2. SmoothedTerms(Losses(past), n - 1, period)
          = SmoothedTerms(Losses(values), n - 1, period)
    BY <1>2 DEF SmoothedTerms
  <2>. QED
    BY <2>1, <2>2 DEF Smoothed
<1>4. RsiReference(past, n, period) = RsiReference(values, n, period)
  BY <1>3 DEF RsiReference
<1>. QED
  BY <1>4 DEF past

(* The closed forms are right for every series, of whatever length, and     *)
(* every period: ema, emaSeries, rsi and rsiSeries of indicators.ts.        *)
THEOREM SmoothingIsTheClosedForm ==
  ASSUME NEW values \in Seq(Int), NEW period \in Nat \ {0}
  PROVE  SmoothingIsRight(values, period)
<1>1. ASSUME NEW a PROVE Same(a, a)
  BY DEF Same
<1> SUFFICES ASSUME NEW n \in 1..Len(values)
             PROVE  LET prefix == Prefix(values, n) IN
                    /\ Same(EmaSeries(values, period)[n], EmaReference(values, n, period))
                    /\ Same(Ema(prefix, period), EmaReference(values, n, period))
                    /\ Same(RsiSeries(values, period)[n], RsiReference(values, n, period))
                    /\ Same(Rsi(prefix, period), RsiReference(values, n, period))
  BY DEF SmoothingIsRight
<1> DEFINE past == Prefix(values, n)
<1>2. past \in Seq(Int) /\ Len(past) = n
  BY PrefixValues
<1>3. EmaSeries(values, period)[n] = EmaReference(values, n, period)
  BY EmaSeriesIsReference
<1>4. Ema(past, period) = EmaReference(values, n, period)
  <2>1. EmaReference(past, n, period) = EmaReference(values, n, period)
    BY EmaReferenceOfPrefix
  <2> HIDE DEF past
  <2>. QED
    BY <1>2, <2>1, EmaIsReference
<1>5. Rsi(past, period) = RsiReference(values, n, period)
  <2>1. RsiReference(past, n, period) = RsiReference(values, n, period)
    BY RsiReferenceOfPrefix
  <2> HIDE DEF past
  <2>. QED
    BY <1>2, <2>1, RsiIsReference
<1>6. RsiSeries(values, period)[n] = RsiReference(values, n, period)
  <2>1. RsiSeries(values, period)[n] = IF n <= period THEN Null ELSE Rsi(past, period)
    BY DEF RsiSeries
  <2>2. CASE n <= period
    BY <2>1, <2>2 DEF RsiReference
  <2>3. CASE ~(n <= period)
    BY <1>5, <2>1, <2>3
  <2>. QED
    BY <2>2, <2>3
<1>. QED
  BY <1>1, <1>3, <1>4, <1>5, <1>6

(* An average of moves that are not negative is not negative.               *)
LEMMA SmoothedNat ==
  ASSUME NEW moves, NEW period \in Nat \ {0}, NEW n \in Nat, period <= n,
         \A i \in 1..n : moves[i] \in Nat
  PROVE  Smoothed(moves, n, period) \in Nat
<1>1. ASSUME NEW b \in Nat, NEW k \in Nat PROVE Pow(b, k) \in Nat
  BY PowNat
<1>2. ASSUME NEW i \in 1..n
      PROVE  SmoothedTerms(moves, n, period)[i] \in Nat
  <2> DEFINE c == period - 1
             weight == IF i <= period THEN Pow(c, n - period)
                       ELSE Pow(c, n - i) * Pow(period, i - period)
  <2>1. c \in Nat /\ period \in Nat
    OBVIOUS
  <2>2. SmoothedTerms(moves, n, period)[i] = moves[i] * weight
    BY DEF SmoothedTerms
  <2> HIDE DEF c
  <2>3. CASE i <= period
    <3> DEFINE k == n - period
    <3>1. k \in Nat
      OBVIOUS
    <3> HIDE DEF k
    <3>2. Pow(c, k) \in Nat
      BY <1>1, <2>1, <3>1
    <3>3. weight = Pow(c, k)
      BY <2>3 DEF k
    <3> HIDE DEF weight
    <3>. QED
      BY <2>2, <3>2, <3>3
  <2>4. CASE ~(i <= period)
    <3> DEFINE k == n - i
               l == i - period
    <3>1. k \in Nat /\ l \in Nat
      BY <2>4
    <3> HIDE DEF k, l
    <3>2. Pow(c, k) \in Nat /\ Pow(period, l) \in Nat
      BY <1>1, <2>1, <3>1
    <3>3. weight = Pow(c, k) * Pow(period, l)
      BY <2>4 DEF k, l
    <3> HIDE DEF weight
    <3>4. weight \in Nat
      BY <3>2, <3>3
    <3>. QED
      BY <2>2, <3>4
  <2>. QED
    BY <2>3, <2>4
<1>3. Smoothed(moves, n, period) = SumFunctionOnSet(SmoothedTerms(moves, n, period), 1..n)
  BY DEF Smoothed, SumFunction, SmoothedTerms
<1>4. IsFiniteSet(1..n)
  BY FS_Interval
<1>. QED
  BY <1>2, <1>3, <1>4, SumNat

(* The RSI of a series is no number, or a percentage: nothing is divided by *)
(* zero, and the thresholds of 0 to 100 it is compared with make sense.     *)
THEOREM RsiIsPercentage ==
  ASSUME NEW values \in Seq(Int), NEW period \in Nat \ {0}
  PROVE  LET r == Rsi(values, period) IN
         IF Len(values) <= period THEN r = Null
         ELSE r.den > 0 /\ 0 <= r.num /\ r.num <= 100 * r.den
<1> DEFINE n == Len(values) - 1
           gain == Smoothed(Gains(values), n, period)
           loss == Smoothed(Losses(values), n, period)
<1>1. Rsi(values, period) = IF Len(values) <= period THEN Null
                            ELSE IF loss = 0 THEN Q(100, 1)
                            ELSE Q(100 * gain, gain + loss)
  BY RsiIsReference DEF RsiReference
<1>2. CASE Len(values) <= period
  BY <1>1, <1>2
<1>3. CASE ~(Len(values) <= period)
  <2>1. n \in Nat /\ period <= n
    BY <1>3
  <2>2. /\ \A i \in 1..n : Gains(values)[i] \in Nat
        /\ \A i \in 1..n : Losses(values)[i] \in Nat
    <3>1. ASSUME NEW i \in 1..(Len(values) - 1)
          PROVE  Gains(values)[i] \in Nat /\ Losses(values)[i] \in Nat
      <4>1. i \in 1..Len(values) /\ i + 1 \in 1..Len(values)
        OBVIOUS
      <4>2. values[i] \in Int /\ values[i + 1] \in Int
        BY <4>1
      <4>. QED
        BY <4>2 DEF Gains, Losses
    <3>. QED
      BY <3>1
  <2>3. gain \in Nat /\ loss \in Nat
    <3> HIDE DEF n
    <3>. QED
      BY <2>1, <2>2, SmoothedNat
  <2> HIDE DEF gain, loss
  <2>4. CASE loss = 0
    BY <1>1, <1>3, <2>4 DEF Q
  <2>5. CASE loss # 0
    BY <1>1, <1>3, <2>3, <2>5 DEF Q
  <2>. QED
    BY <2>4, <2>5
<1>. QED
  BY <1>2, <1>3

(* At whatever bars a cycle screens, of whatever length, every indicator is *)
(* its definition: the two forms of each agree with one another.            *)
THEOREM IndicatorsStayRight == RotationSpec => []IndicatorsAreRight
<1>1. ASSUME RotationTyped, NEW s \in Symbols, NEW period \in 1..3
      PROVE  SeriesAreRight(bars[s], period)
  <2>1. bars[s] \in Seq(Int) /\ period \in Nat \ {0}
    BY <1>1, BarsAreIntegers
  <2>2. SmoothingIsRight(bars[s], period)
    BY <2>1, SmoothingIsTheClosedForm
  <2>3. \A n \in 1..Len(bars[s]) :
          SmaSeries(bars[s], period)[n] = Sma(Prefix(bars[s], n), period)
    BY <2>1, SeriesIsTheAverage
  <2>4. ASSUME NEW a PROVE Same(a, a)
    BY DEF Same
  <2>. QED
    BY <2>2, <2>3, <2>4 DEF SeriesAreRight
<1>2. RotationInv => IndicatorsAreRight
  BY <1>1 DEF RotationInv, IndicatorsAreRight
<1>. QED
  BY <1>2, RotationInvariant, PTL
=============================================================================
