----------------------------- MODULE ThemeRunner -----------------------------
(****************************************************************************)
(* The life of a theme: the /api/themes routes                              *)
(* (src/api/routes/themes.ts), ThemeRunner with its interval timers         *)
(* (src/themes/theme-runner.ts), the themes table and the tables that refer *)
(* to it (src/themes/theme-store.ts, src/db/migrations/005_themes.ts), and  *)
(* the boot of src/index.ts.                                                *)
(*                                                                          *)
(* Each statement of a handler is an action, with the synchronous code      *)
(* after it.  Of a theme's configuration it keeps what decides its life:    *)
(* enabled, timed (the schedule is not manual), and whether any capital is  *)
(* allocated.  What the strategy trades is CongressFollower's subject.      *)
(****************************************************************************)
EXTENDS Naturals, FiniteSets

CONSTANTS
  Themes,        \* the ids randomUUID hands out
  Handlers,      \* the POST and DELETE requests that may be in flight
  Evaluators,    \* the evaluations that may be in flight
  ForeignKeys,   \* Postgres enforces them; SQLite, as opened here, does not
  Overlap,       \* may a DELETE overlap another request on its theme?
  MaxRestarts,   \* bound: restarts of the process in a behaviour
  Unborn,        \* an id that is not handed out yet
  Gone,          \* an id whose row was deleted
  Nobody         \* no theme, no configuration

Rows == [enabled : BOOLEAN, timed : BOOLEAN, capital : BOOLEAN]

ASSUME ThemeRunnerAssumption ==
  /\ Unborn # Gone
  /\ {Unborn, Gone, Nobody} \cap (Rows \cup Themes) = {}
  /\ ForeignKeys \in BOOLEAN
  /\ Overlap \in BOOLEAN
  /\ MaxRestarts \in Nat

VARIABLES
  row,         \* themes: the row of each id
  accounts,    \* theme_subaccounts: the themes with a row
  records,     \* theme_signals and theme_evaluations: the themes with a row
  timers,      \* ThemeRunner.timers: the themes it maps to an interval
  ticking,     \* how many intervals tick for each theme
  phase,       \* "list", "boot" (in startAll), or "up" (listening)
  todo,        \* the themes startAll has still to start
  at,          \* the step each request is at
  theme,       \* the theme it is for
  config,      \* the configuration it read
  stage,       \* the step each evaluation is at
  subject,     \* the theme it evaluates
  patched,     \* history: themes PATCHed since the process started
  restarts     \* history: restarts so far

database == <<row, accounts, records>>
runner == <<timers, ticking>>
boot == <<phase, todo>>
requests == <<at, theme, config>>
evaluations == <<stage, subject>>
history == <<patched, restarts>>
vars == <<database, runner, boot, requests, evaluations, history>>

TypeOK ==
  /\ row \in [Themes -> Rows \cup {Unborn, Gone}]
  /\ accounts \subseteq Themes
  /\ records \subseteq Themes
  /\ timers \subseteq Themes
  /\ ticking \in [Themes -> Nat]
  /\ phase \in {"list", "boot", "up"}
  /\ todo \subseteq Themes
  /\ at \in [Handlers -> {"idle", "readBack", "load", "readAccount",
                          "insertAccount", "disable", "check", "remove"}]
  /\ theme \in [Handlers -> Themes \cup {Nobody}]
  /\ config \in [Handlers -> Rows \cup {Nobody}]
  /\ stage \in [Evaluators -> {"idle", "load", "strategy", "record"}]
  /\ subject \in [Evaluators -> Themes \cup {Nobody}]
  /\ patched \subseteq Themes
  /\ restarts \in 0..MaxRestarts

Init ==
  /\ row = [t \in Themes |-> Unborn]
  /\ accounts = {}
  /\ records = {}
  /\ timers = {}
  /\ ticking = [t \in Themes |-> 0]
  /\ phase = "list"
  /\ todo = {}
  /\ at = [h \in Handlers |-> "idle"]
  /\ theme = [h \in Handlers |-> Nobody]
  /\ config = [h \in Handlers |-> Nobody]
  /\ stage = [e \in Evaluators |-> "idle"]
  /\ subject = [e \in Evaluators |-> Nobody]
  /\ patched = {}
  /\ restarts = 0

Exists(t) == row[t] \in Rows
Busy(t) == \E h \in Handlers : at[h] # "idle" /\ theme[h] = t
-----------------------------------------------------------------------------
(* index.ts awaits startAll before it listens.  No request is served in     *)
(* between, so no row changes: the account and the timer of a theme are one *)
(* step.                                                                    *)

\* Fault: every theme is listed.
ListedAll(t) == Exists(t)
Listed(t) == Exists(t) /\ row[t].enabled

\* Fault: the schedules are not registered again.
ListNothing ==
  /\ phase = "list"
  /\ phase' = "boot"
  /\ todo' = {}
  /\ UNCHANGED <<database, runner, requests, evaluations, history>>

ListEnabled ==
  /\ phase = "list"
  /\ phase' = "boot"
  /\ todo' = {t \in Themes : Listed(t)}
  /\ UNCHANGED <<database, runner, requests, evaluations, history>>

Schedule(t, c) ==
  /\ timers' = IF c.timed THEN timers \cup {t} ELSE timers
  /\ ticking' = IF c.timed THEN [ticking EXCEPT ![t] = @ + 1] ELSE ticking

\* Fault: a theme is started without its account.
StartUnfunded(t) ==
  /\ phase = "boot"
  /\ t \in todo
  /\ todo' = todo \ {t}
  /\ Schedule(t, row[t])
  /\ UNCHANGED <<database, phase, requests, evaluations, history>>

StartListed(t) ==
  /\ phase = "boot"
  /\ t \in todo
  /\ todo' = todo \ {t}
  /\ accounts' = IF row[t].capital THEN accounts \cup {t} ELSE accounts
  /\ Schedule(t, row[t])
  /\ UNCHANGED <<row, records, phase, requests, evaluations, history>>

Listen ==
  /\ phase = "boot"
  /\ todo = {}
  /\ phase' = "up"
  /\ UNCHANGED <<database, runner, todo, requests, evaluations, history>>

\* Fault: the server listens while startAll runs.
ServingAtOnce == TRUE
Serving == phase = "up"

(* The process dies, or is told to stop, and comes back: what is in the     *)
(* tables stays.                                                            *)
Restart ==
  /\ restarts < MaxRestarts
  /\ restarts' = restarts + 1
  /\ timers' = {}
  /\ ticking' = [t \in Themes |-> 0]
  /\ phase' = "list"
  /\ todo' = {}
  /\ at' = [h \in Handlers |-> "idle"]
  /\ theme' = [h \in Handlers |-> Nobody]
  /\ config' = [h \in Handlers |-> Nobody]
  /\ stage' = [e \in Evaluators |-> "idle"]
  /\ subject' = [e \in Evaluators |-> Nobody]
  /\ patched' = {}
  /\ UNCHANGED database
-----------------------------------------------------------------------------
(* POST /api/themes: store.create, then ThemeRunner.start.                  *)
Go(h, step) == at' = [at EXCEPT ![h] = step]

Begin(h, t, step) ==
  /\ Serving
  /\ at[h] = "idle"
  /\ Go(h, step)
  /\ theme' = [theme EXCEPT ![h] = t]

Answer(h) ==
  /\ Go(h, "idle")
  /\ theme' = [theme EXCEPT ![h] = Nobody]
  /\ config' = [config EXCEPT ![h] = Nobody]

Create(h, t, c) ==
  /\ row[t] = Unborn
  /\ Begin(h, t, "readBack")
  /\ row' = [row EXCEPT ![t] = c]
  /\ UNCHANGED <<accounts, records, runner, boot, config, evaluations, history>>

(* A theme that is gone is answered 500; a disabled or a manual one is done. *)
ReadBack(h) ==
  /\ at[h] = "readBack"
  /\ IF Exists(theme[h]) /\ row[theme[h]].enabled /\ row[theme[h]].timed
       THEN Go(h, "load") /\ UNCHANGED <<theme, config>>
       ELSE Answer(h)
  /\ UNCHANGED <<database, runner, boot, evaluations, history>>

(* start: a theme gone or disabled meanwhile is refused.                    *)
Load(h) ==
  LET t == theme[h] IN
  /\ at[h] = "load"
  /\ \/ /\ ~Listed(t)
        /\ Answer(h)
        /\ UNCHANGED runner
     \/ /\ Listed(t) /\ row[t].capital
        /\ Go(h, "readAccount")
        /\ config' = [config EXCEPT ![h] = row[t]]
        /\ UNCHANGED <<theme, runner>>
     \/ /\ Listed(t) /\ ~row[t].capital
        /\ Schedule(t, row[t])
        /\ Answer(h)
  /\ UNCHANGED <<database, boot, evaluations, history>>

ReadAccount(h) ==
  /\ at[h] = "readAccount"
  /\ IF theme[h] \in accounts
       THEN Schedule(theme[h], config[h]) /\ Answer(h)
       ELSE Go(h, "insertAccount") /\ UNCHANGED <<runner, theme, config>>
  /\ UNCHANGED <<database, boot, evaluations, history>>

(* Does an INSERT that refers to theme t fail?                              *)
Dangling(t) == ForeignKeys /\ ~Exists(t)

InsertAccount(h) ==
  LET t == theme[h] IN
  /\ at[h] = "insertAccount"
  /\ IF Dangling(t)
       THEN UNCHANGED <<accounts, runner>>
       ELSE accounts' = accounts \cup {t} /\ Schedule(t, config[h])
  /\ Answer(h)
  /\ UNCHANGED <<row, records, boot, evaluations, history>>
-----------------------------------------------------------------------------
(* PATCH /api/themes/:id: one UPDATE.  The runner is not told.              *)
Patch(t, c) ==
  /\ Serving
  /\ Exists(t) /\ row[t] # c
  /\ row' = [row EXCEPT ![t] = c]
  /\ patched' = patched \cup {t}
  /\ UNCHANGED <<accounts, records, runner, boot, requests, evaluations, restarts>>

(* DELETE /api/themes/:id: ThemeRunner.stop clears the interval at once and *)
(* then disables the row; store.delete looks the row up, and removes it.    *)
Stop(h, t) ==
  /\ Exists(t)
  /\ Overlap \/ ~Busy(t)
  /\ Begin(h, t, "disable")
  /\ timers' = timers \ {t}
  /\ ticking' = IF t \in timers THEN [ticking EXCEPT ![t] = @ - 1] ELSE ticking
  /\ UNCHANGED <<database, boot, config, evaluations, history>>

Disable(h) ==
  /\ at[h] = "disable"
  /\ row' = IF Exists(theme[h]) THEN [row EXCEPT ![theme[h]].enabled = FALSE] ELSE row
  /\ Go(h, "check")
  /\ UNCHANGED <<accounts, records, runner, boot, theme, config, evaluations, history>>

Check(h) ==
  /\ at[h] = "check"
  /\ IF Exists(theme[h]) THEN Go(h, "remove") /\ UNCHANGED <<theme, config>>
                         ELSE Answer(h)
  /\ UNCHANGED <<database, runner, boot, evaluations, history>>

Referred(t) == t \in accounts \cup records

RemoveTheme(h) ==
  /\ at[h] = "remove"
  /\ ~(ForeignKeys /\ Referred(theme[h]))
  /\ row' = [row EXCEPT ![theme[h]] = Gone]
  /\ Answer(h)
  /\ UNCHANGED <<accounts, records, runner, boot, evaluations, history>>

(* The DELETE is refused.  The route has no catch and Express 4 awaits no   *)
(* handler: the unhandled rejection ends the process.                       *)
RemoveFails(h) ==
  /\ at[h] = "remove"
  /\ ForeignKeys /\ Referred(theme[h])
  /\ Restart
-----------------------------------------------------------------------------
(* evaluateOnce, from a timer or from POST /api/themes/:id/evaluate.        *)
Evaluate(e, t) ==
  /\ (Serving /\ row[t] # Unborn) \/ ticking[t] > 0
  /\ stage[e] = "idle"
  /\ stage' = [stage EXCEPT ![e] = "load"]
  /\ subject' = [subject EXCEPT ![e] = t]
  /\ UNCHANGED <<database, runner, boot, requests, history>>

Finish(e) ==
  /\ stage' = [stage EXCEPT ![e] = "idle"]
  /\ subject' = [subject EXCEPT ![e] = Nobody]

LoadTheme(e) ==
  /\ stage[e] = "load"
  /\ IF Exists(subject[e])
       THEN stage' = [stage EXCEPT ![e] = "strategy"] /\ UNCHANGED subject
       ELSE Finish(e)
  /\ UNCHANGED <<database, runner, boot, requests, history>>

(* The strategy records the signals it processed, if it had any.  An error  *)
(* it throws is caught.                                                     *)
RunStrategy(e) ==
  /\ stage[e] = "strategy"
  /\ \/ UNCHANGED records
     \/ ~Dangling(subject[e]) /\ records' = records \cup {subject[e]}
  /\ stage' = [stage EXCEPT ![e] = "record"]
  /\ UNCHANGED <<row, accounts, runner, boot, requests, subject, history>>

RecordEvaluation(e) ==
  /\ stage[e] = "record"
  /\ records' = IF Dangling(subject[e]) THEN records ELSE records \cup {subject[e]}
  /\ Finish(e)
  /\ UNCHANGED <<row, accounts, runner, boot, requests, history>>
-----------------------------------------------------------------------------
Boot == ListEnabled \/ Listen \/ \E t \in Themes : StartListed(t)

Continue(h) ==
  \/ ReadBack(h) \/ Load(h) \/ ReadAccount(h) \/ InsertAccount(h)
  \/ Disable(h) \/ Check(h) \/ RemoveTheme(h) \/ RemoveFails(h)

Advance(e) == LoadTheme(e) \/ RunStrategy(e) \/ RecordEvaluation(e)

Next ==
  \/ Boot
  \/ Restart
  \/ \E t \in Themes, c \in Rows : Patch(t, c) \/ \E h \in Handlers : Create(h, t, c)
  \/ \E t \in Themes, h \in Handlers : Stop(h, t)
  \/ \E t \in Themes, e \in Evaluators : Evaluate(e, t)
  \/ \E h \in Handlers : Continue(h)
  \/ \E e \in Evaluators : Advance(e)

Spec == Init /\ [][Next]_vars

Tick(t) == ticking[t] > 0 /\ \E e \in Evaluators : Evaluate(e, t)

(* What the process has begun it goes on with, and an interval ticks again  *)
(* and again, each time with a chance of a free evaluation.                 *)
FairSpec ==
  /\ Spec
  /\ WF_vars(Boot)
  /\ \A h \in Handlers : WF_vars(Continue(h))
  /\ \A e \in Evaluators : WF_vars(Advance(e))
  /\ \A t \in Themes : SF_vars(Tick(t))
-----------------------------------------------------------------------------
(* Every interval that ticks is the one the map holds: stop can clear it.   *)
(* A second start of the theme would lose the first interval.               *)
OneTimer == \A t \in Themes : ticking[t] = (IF t \in timers THEN 1 ELSE 0)

(* While the server is up and no request on a theme is in flight, the       *)
(* interval of a theme nobody PATCHed ticks exactly if its row says so,     *)
(* whatever crashed on the way; that of a deleted theme never.              *)
EnabledRuns ==
  /\ TypeOK
  /\ \A t \in Themes :
       phase = "up" /\ ~Busy(t) /\ (t \notin patched \/ row[t] = Gone) =>
         (t \in timers <=> Listed(t) /\ row[t].timed)

(* A theme with capital has its account before its interval ticks.          *)
FundedBeforeTicking ==
  \A t \in timers \ patched : Exists(t) /\ row[t].capital => t \in accounts

(* A theme whose row stays enabled and timed is evaluated for ever, however *)
(* often the process died before.                                           *)
EnabledServed ==
  \A t \in Themes :
    <>[](Listed(t) /\ row[t].timed /\ t \notin patched) =>
      []<>(\E e \in Evaluators : stage[e] = "record" /\ subject[e] = t)
=============================================================================
