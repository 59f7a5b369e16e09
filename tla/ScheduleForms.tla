---------------------------- MODULE ScheduleForms ----------------------------
(***************************************************************************)
(* The schedule of a project and the dialog it is set up in: the card and  *)
(* the dialog of the project page (ProjectSchedulesSection, ScheduleForm), *)
(* the hook behind them (useProjectSchedules) and the handlers that keep   *)
(* the row.  One behaviour follows one of the two schedules of a project,  *)
(* of generations (`kind` = "gen") or of links ("link").  The scheduler    *)
(* runs the row of the server in a process of its own.                     *)
(*                                                                         *)
(* A row is kept as the configuration it was given; the form has a field   *)
(* for each way to run, so that a row is translated when the form is       *)
(* filled and again when it is saved.  `meant` is a history variable in    *)
(* the row: how the one who saved it was shown that it would run.  Names,  *)
(* descriptions, limits, delays and time zones are left out.               *)
(***************************************************************************)
EXTENDS Naturals, SequencesExt

CONSTANTS
  NoSchedule,
  OtherSchedules,  \* what else may be stored: configurations written through the API
  ScheduleBudgets  \* bounds: clicks, changes typed, changes by others, tab changes, lost requests

VARIABLES
  kind, row,   \* which schedule, and the row of the server
  ran,         \* the rows that have run: their last_run_at is set, and nothing resets it
  tick,        \* the row that a tick of the scheduler works on, or 0
  seen,        \* the row the card shows
  form,        \* the fields of the form
  editing,     \* the row the form was filled from
  loading,     \* what disables the card's buttons and the form's
  dialog,      \* the tab and the dialogs: closed, tab, form, asking (to delete)
  requests,       \* requests under way, oldest first
  typed,       \* the user changed the form since the dialog opened
  odd,         \* history: the dialog was opened blank during a load, requests overlapped,
               \* another user changed the row, a call was lost
  steps        \* what is left of the budget

scheduleVars ==
  <<kind, row, seen, form, editing, loading, dialog, requests, typed, odd, steps, ran, tick>>
-----------------------------------------------------------------------------
(* How a configuration is read *)

Field(config, key, default) == IF key \in DOMAIN config THEN config[key] ELSE default
Has(config, keys) == keys \cap DOMAIN config # {}

DeriveScheduleStrategy(config, otherwise) ==
  IF Has(config, {"cron", "interval"}) THEN "custom"
  ELSE IF Has(config, {"weekday", "day"}) THEN "weekly"
  ELSE IF Has(config, {"time"}) THEN "daily"
  ELSE otherwise

\* How the server runs a strategy and a configuration; a time that is missing is midnight. The
\* parser refuses a cron expression of six fields, and "custom" needs one.  `lastRun` is "zero"
\* for a row that has not run yet, with this strategy or with another one.
ComputeScheduleNextRun(strategy, config, lastRun) ==
  LET time == Field(config, "time", "midnight") IN
  IF strategy = "immediate" THEN IF lastRun = "zero" THEN <<"once">> ELSE <<"never again">>
  ELSE IF Has(config, {"interval"}) THEN <<"every">>
  ELSE CASE strategy = "daily" -> <<"daily", time>>
         [] strategy = "weekly" ->
              <<"weekly", Field(config, "weekday", Field(config, "day", "none")), time>>
         [] OTHER -> IF Field(config, "cron", "no cron") \in {"six fields", "no cron"} THEN <<"never">>
                     ELSE <<"cron", config.cron>>

\* A link schedule has no strategy: the server derives it, and takes "daily" when it cannot.
ServerStrategy(r) ==
  IF kind = "gen" THEN r.strategy ELSE DeriveScheduleStrategy(r.config, "daily")
LastRun(r) == IF r.id \in ran THEN "some day" ELSE "zero"
Runs(r) == ComputeScheduleNextRun(ServerStrategy(r), r.config, LastRun(r))

\* What one who writes a row through the API may expect of it.
Expected(r) == ComputeScheduleNextRun(ServerStrategy(r), r.config, "zero")

-----------------------------------------------------------------------------
(* The form *)

CreateDefaultScheduleForm ==
  [strategy |-> "daily", dailyTime |-> "nine", weeklyTime |-> "nine", weeklyDay |-> "mon",
   customCron |-> "at nine", isActive |-> TRUE]

ApplyScheduleToForm(r) ==
  LET time == Field(r.config, "time", "nine") IN
  [strategy |-> IF kind = "gen" THEN r.strategy ELSE DeriveScheduleStrategy(r.config, "immediate"),
   dailyTime |-> time, weeklyTime |-> time, weeklyDay |-> Field(r.config, "weekday", "mon"),
   customCron |-> Field(r.config, "cron", "at nine"), isActive |-> r.active]

FillFrom(r) ==
  /\ form' = IF r = NoSchedule THEN CreateDefaultScheduleForm ELSE ApplyScheduleToForm(r)
  /\ editing' = r

ValidScheduleForm(f) == f.strategy = "custom" => f.customCron # "no cron"

\* (mistake: a weekly schedule is saved with the time of the daily one)
BuildAtDailyTime(f) ==
  CASE f.strategy = "daily" -> [time |-> f.dailyTime]
    [] f.strategy = "weekly" -> [weekday |-> f.weeklyDay, time |-> f.dailyTime]
    [] f.strategy = "custom" -> [cron |-> f.customCron]
    [] OTHER -> [mode |-> "immediate"]

BuildScheduleConfig(f) ==
  CASE f.strategy = "daily" -> [time |-> f.dailyTime]
    [] f.strategy = "weekly" -> [weekday |-> f.weeklyDay, time |-> f.weeklyTime]
    [] f.strategy = "custom" -> [cron |-> f.customCron]
    [] OTHER -> [mode |-> "immediate"]

\* What the fields on the screen say of when the schedule runs.
FormSays(f) ==
  CASE f.strategy = "daily" -> <<"daily", f.dailyTime>>
    [] f.strategy = "weekly" -> <<"weekly", f.weeklyDay, f.weeklyTime>>
    [] f.strategy = "custom" -> <<"cron", f.customCron>>
    [] OTHER -> <<"once">>

\* A user who changed nothing means the schedule to run as it did.
Meant == IF editing # NoSchedule /\ ~typed THEN editing.meant ELSE FormSays(form)

FormValues ==
  [strategy |-> {"immediate", "daily", "weekly", "custom"}, dailyTime |-> {"nine", "noon"},
   weeklyTime |-> {"nine", "noon"}, weeklyDay |-> {"mon", "tue"},
   customCron |-> {"at nine", "six fields", "no cron"}, isActive |-> BOOLEAN]

FieldsShown(f) ==
  {"strategy", "isActive"} \cup
  CASE f.strategy = "daily" -> {"dailyTime"}
    [] f.strategy = "weekly" -> {"weeklyTime", "weeklyDay"}
    [] f.strategy = "custom" -> {"customCron"}
    [] OTHER -> {}

-----------------------------------------------------------------------------
(* Requests *)

SpendStep(what) == steps[what] > 0 /\ steps' = [steps EXCEPT ![what] = @ - 1]

NoChange == [strategy |-> "none", config |-> [mode |-> "none"], active |-> FALSE]
Call(op, id, new, meant) ==
  [op |-> op, id |-> id, new |-> new, meant |-> meant, st |-> "sent", got |-> NoSchedule,
   closes |-> CASE op = "save" -> "form" [] op = "delete" -> "asking" [] OTHER -> "none"]
LoadSchedules(closes) == [Call("load", 0, NoChange, <<>>) EXCEPT !.closes = closes]

Send(call) ==
  /\ requests' = Append(requests, call)
  /\ loading' = TRUE
  /\ odd' = [odd EXCEPT !.overlap = @ \/ requests # <<>>]

\* The card's buttons are disabled while anything of this schedule is loading.
CardPressed == dialog = "tab" /\ seen # NoSchedule /\ ~loading /\ SpendStep("clicks")

EnterTab ==
  /\ dialog = "closed" /\ SpendStep("turns")
  /\ dialog' = "tab" /\ Send(LoadSchedules("none"))
  /\ UNCHANGED <<kind, row, seen, form, editing, typed>>

\* The dialogs go with the tab; the requests and the form stay with the page.
LeaveTab ==
  /\ dialog # "closed" /\ SpendStep("turns")
  /\ dialog' = "closed" /\ typed' = FALSE
  /\ requests' = [i \in DOMAIN requests |-> [requests[i] EXCEPT !.closes = "none"]]
  /\ UNCHANGED <<kind, row, seen, form, editing, loading, odd>>

\* (mistake: the button of the card is not disabled while it loads)
OpenFormAnyTime ==
  /\ dialog = "tab" /\ SpendStep("clicks")
  /\ IF seen = NoSchedule THEN UNCHANGED <<form, editing>> ELSE FillFrom(seen)
  /\ dialog' = "form" /\ typed' = FALSE
  /\ odd' = [odd EXCEPT !.blank = loading /\ seen = NoSchedule]
  /\ UNCHANGED <<kind, row, seen, loading, requests>>

\* The button of the card applies the row it shows; that of an empty card applies nothing and
\* is not disabled.
OpenForm ==
  /\ dialog = "tab" /\ SpendStep("clicks")
  /\ IF seen = NoSchedule THEN UNCHANGED <<form, editing>> ELSE ~loading /\ FillFrom(seen)
  /\ dialog' = "form" /\ typed' = FALSE
  /\ odd' = [odd EXCEPT !.blank = loading]
  /\ UNCHANGED <<kind, row, seen, loading, requests>>

Type ==
  /\ dialog = "form" /\ SpendStep("types")
  /\ \E f \in FieldsShown(form) : \E value \in FormValues[f] \ {form[f]} :
       form' = [form EXCEPT ![f] = value]
  /\ typed' = TRUE
  /\ UNCHANGED <<kind, row, seen, editing, loading, dialog, requests, odd>>

CancelForm ==
  /\ dialog = "form" /\ ~loading
  /\ dialog' = "tab" /\ typed' = FALSE
  /\ UNCHANGED <<kind, row, seen, form, editing, loading, requests, odd, steps>>

SubmitForm ==
  /\ dialog = "form" /\ ~loading /\ ValidScheduleForm(form) /\ SpendStep("clicks")
  /\ Send(Call("save", IF editing = NoSchedule THEN 0 ELSE editing.id,
               [strategy |-> IF kind = "gen" THEN form.strategy ELSE "none",
                config |-> BuildScheduleConfig(form), active |-> form.isActive], Meant))
  /\ UNCHANGED <<kind, row, seen, form, editing, dialog, typed>>

\* A schedule of generations is sent its new flag alone; one of links is saved as the card has it.
ToggleSchedule ==
  /\ CardPressed
  /\ LET new == [strategy |-> seen.strategy, config |-> seen.config, active |-> ~seen.active] IN
     Send(Call("toggle", seen.id, new, seen.meant))
  /\ UNCHANGED <<kind, row, seen, form, editing, dialog, typed>>

TriggerSchedule ==
  /\ CardPressed
  /\ Send(Call("trigger", seen.id, NoChange, <<>>))
  /\ UNCHANGED <<kind, row, seen, form, editing, dialog, typed>>

AskDelete ==
  /\ dialog = "tab" /\ seen # NoSchedule /\ ~loading
  /\ dialog' = "asking"
  /\ UNCHANGED <<kind, row, seen, form, editing, loading, requests, typed, odd, steps>>

\* The question stays until the answer, and its buttons are not disabled meanwhile.
ConfirmDelete ==
  /\ dialog = "asking" /\ seen # NoSchedule /\ SpendStep("clicks")
  /\ Send(Call("delete", seen.id, NoChange, <<>>))
  /\ UNCHANGED <<kind, row, seen, form, editing, dialog, typed>>

\* Cancelled, or confirmed here and then declined in the question the handler asks once more:
\* nothing is sent.
CancelDelete ==
  /\ dialog = "asking" /\ dialog' = "tab"
  /\ UNCHANGED <<kind, row, seen, form, editing, loading, requests, typed, odd, steps>>

-----------------------------------------------------------------------------
(* The server *)

NextId(r) == IF r = NoSchedule THEN odd.made + 1 ELSE r.id
Stored(new, meant) ==
  [id |-> NextId(row), strategy |-> new.strategy, config |-> new.config, active |-> new.active,
   meant |-> meant]
IsThere(id) == row # NoSchedule /\ (kind = "gen" => row.id = id)

\* A schedule of links is refused when its next run cannot be computed; one of generations is
\* stored as it comes.
LinkConfigAccepted(new) == Expected([new EXCEPT !.strategy = "none"]) # <<"never">>

Accepted(c) ==
  CASE kind = "link" /\ c.op \in {"save", "toggle"} -> LinkConfigAccepted(c.new)
    [] kind = "gen" /\ c.op = "save" /\ c.id = 0 -> row = NoSchedule
    [] OTHER -> c.op = "load" \/ IsThere(c.id)

RowAfter(c) ==
  CASE c.op = "save" \/ (c.op = "toggle" /\ kind = "link") -> Stored(c.new, c.meant)
    [] c.op = "toggle" /\ kind = "gen" -> [row EXCEPT !.active = c.new.active]
    [] c.op = "delete" -> NoSchedule
    [] OTHER -> row

ServeCall(i) ==
  /\ requests[i].st = "sent"
  /\ IF Accepted(requests[i])
     THEN /\ row' = RowAfter(requests[i])
          /\ requests' = [requests EXCEPT ![i].st = "done", ![i].got = row']
          /\ odd' = [odd EXCEPT !.made = IF row' # NoSchedule THEN row'.id ELSE @]
     ELSE requests' = [requests EXCEPT ![i].st = "refused"] /\ UNCHANGED <<row, odd>>
  /\ UNCHANGED <<kind, seen, form, editing, loading, dialog, typed, steps>>

\* The connection fails, before the server acted or after.
LoseCall(i) ==
  /\ requests[i].st \in {"sent", "done"} /\ SpendStep("losses")
  /\ requests' = [requests EXCEPT ![i].st = "refused"]
  /\ odd' = [odd EXCEPT !.lost = TRUE]
  /\ UNCHANGED <<kind, row, seen, form, editing, loading, dialog, typed>>

OthersSave ==
  /\ SpendStep("others")
  /\ \E new \in OtherSchedules :
       LET r == [id |-> NextId(row), strategy |-> IF kind = "gen" THEN new.strategy ELSE "none",
                 config |-> new.config, active |-> TRUE, meant |-> <<>>] IN
       row' = [r EXCEPT !.meant = Expected(r)]
  /\ odd' = [odd EXCEPT !.others = TRUE, !.made = row'.id]
  /\ UNCHANGED <<kind, seen, form, editing, loading, dialog, requests, typed>>

OthersDelete ==
  /\ row # NoSchedule /\ SpendStep("others")
  /\ row' = NoSchedule /\ odd' = [odd EXCEPT !.others = TRUE]
  /\ UNCHANGED <<kind, seen, form, editing, loading, dialog, requests, typed>>

-----------------------------------------------------------------------------
(* The scheduler *)

\* A tick has listed the active schedules, and this one is due.  There is no clock: a schedule
\* that is still to run is due at any time.  One that ran before is left out, a further run
\* changes nothing here; so is one of links, which has no strategy that looks at it.
TickTakes ==
  /\ tick = 0 /\ kind = "gen" /\ row # NoSchedule
  /\ row.active /\ row.id \notin ran /\ Runs(row) # <<"never">>
  /\ tick' = row.id
  /\ UNCHANGED <<kind, row, seen, form, editing, loading, dialog, requests, typed, odd, steps, ran>>

\* The domains are queued and the run is written to the row, whatever the row is by now.
TickRuns ==
  /\ tick # 0 /\ tick' = 0
  /\ ran' = IF row # NoSchedule /\ row.id = tick THEN ran \cup {tick} ELSE ran
  /\ UNCHANGED <<kind, row, seen, form, editing, loading, dialog, requests, typed, odd, steps>>

\* A list cannot be read, the queue cannot be written, the last write fails, or the process dies.
TickGivesUp ==
  /\ tick # 0 /\ tick' = 0
  /\ UNCHANGED <<kind, row, seen, form, editing, loading, dialog, requests, typed, odd, steps, ran>>

-----------------------------------------------------------------------------
(* The answers *)

\* The handler is over: the dialog it was called from closes.
Ends(i) ==
  /\ requests' = RemoveAt(requests, i) /\ loading' = FALSE
  /\ dialog' = IF dialog = requests[i].closes THEN "tab" ELSE dialog
  /\ typed' = (typed /\ dialog' = dialog)

\* The handler goes on to load everything again.
Reloads(i) ==
  requests' = [requests EXCEPT ![i] = LoadSchedules(requests[i].closes)] /\ loading' = TRUE

LoadAnswered(i) ==
  /\ requests[i].op = "load" /\ requests[i].st # "sent"
  /\ IF requests[i].st = "done" THEN seen' = requests[i].got /\ FillFrom(requests[i].got)
     ELSE IF kind = "link" THEN seen' = NoSchedule /\ FillFrom(NoSchedule)
     ELSE UNCHANGED <<seen, form, editing>>
  /\ Ends(i)
  /\ UNCHANGED <<kind, row, odd, steps>>

\* (mistake: nothing is loaded again after a change)
ChangeTakenAsShown(i) ==
  /\ requests[i].op \in {"save", "toggle"} /\ requests[i].st = "done"
  /\ Ends(i) /\ FillFrom(IF kind = "gen" THEN NoSchedule ELSE requests[i].got)
  /\ seen' = IF kind = "gen" THEN seen ELSE requests[i].got
  /\ UNCHANGED <<kind, row, odd, steps>>

\* Generations: the form is emptied and everything loaded again.  Links: the answer is shown.
ChangeAnswered(i) ==
  /\ requests[i].op \in {"save", "toggle"} /\ requests[i].st = "done"
  /\ IF kind = "gen"
     THEN /\ Reloads(i) /\ UNCHANGED <<seen, dialog, typed>>
          /\ IF requests[i].op = "save" THEN FillFrom(NoSchedule) ELSE UNCHANGED <<form, editing>>
     ELSE Ends(i) /\ seen' = requests[i].got /\ FillFrom(requests[i].got)
  /\ UNCHANGED <<kind, row, odd, steps>>

DeleteAnswered(i) ==
  /\ requests[i].op = "delete" /\ requests[i].st = "done" /\ Reloads(i)
  /\ IF kind = "link" THEN seen' = NoSchedule /\ FillFrom(NoSchedule)
     ELSE UNCHANGED <<seen, form, editing>>
  /\ UNCHANGED <<kind, row, dialog, typed, odd, steps>>

\* (mistake: the buttons stay disabled after a refusal)
RefusedStaysBusy(i) ==
  /\ requests[i].op # "load"
  /\ requests[i].st = "refused" \/ (requests[i].op = "trigger" /\ requests[i].st = "done")
  /\ requests' = RemoveAt(requests, i)
  /\ dialog' = IF dialog = requests[i].closes THEN "tab" ELSE dialog
  /\ typed' = (typed /\ dialog' = dialog)
  /\ UNCHANGED <<kind, row, seen, form, editing, loading, odd, steps>>

\* A refusal is shown, and the form and the card stay as they are; so they do after a trigger.
NothingToShow(i) ==
  /\ requests[i].op # "load"
  /\ requests[i].st = "refused" \/ (requests[i].op = "trigger" /\ requests[i].st = "done")
  /\ Ends(i)
  /\ UNCHANGED <<kind, row, seen, form, editing, odd, steps>>

-----------------------------------------------------------------------------
ScheduleInit ==
  /\ kind \in {"gen", "link"} /\ seen = NoSchedule /\ ran = {} /\ tick = 0
  /\ \/ row = NoSchedule
     \/ \E new \in OtherSchedules :
          LET r == [id |-> 1, strategy |-> IF kind = "gen" THEN new.strategy ELSE "none",
                    config |-> new.config, active |-> TRUE, meant |-> <<>>] IN
          row = [r EXCEPT !.meant = Expected(r)]
  /\ form = CreateDefaultScheduleForm /\ editing = NoSchedule
  /\ loading = FALSE /\ dialog = "closed" /\ requests = <<>> /\ typed = FALSE
  /\ odd = [blank |-> FALSE, overlap |-> FALSE, others |-> FALSE, lost |-> FALSE,
            made |-> IF row = NoSchedule THEN 0 ELSE 1]
  /\ steps \in ScheduleBudgets

UseSchedule ==
  \/ EnterTab \/ LeaveTab \/ OpenForm \/ Type \/ CancelForm \/ SubmitForm
  \/ ToggleSchedule \/ TriggerSchedule \/ AskDelete \/ ConfirmDelete \/ CancelDelete
  \/ OthersSave \/ OthersDelete
  \/ \E i \in DOMAIN requests :
       ServeCall(i) \/ LoseCall(i) \/ LoadAnswered(i) \/ ChangeAnswered(i) \/ DeleteAnswered(i)
       \/ NothingToShow(i)

ScheduleNext ==
  \/ UseSchedule /\ UNCHANGED <<ran, tick>>
  \/ TickTakes \/ TickRuns \/ TickGivesUp

ScheduleSpec == ScheduleInit /\ [][ScheduleNext]_scheduleVars
-----------------------------------------------------------------------------
Strategies == {"immediate", "daily", "weekly", "custom"}
FormFields ==
  [strategy : Strategies, dailyTime : {"nine", "noon"}, weeklyTime : {"nine", "noon"},
   weeklyDay : {"mon", "tue"}, customCron : {"at nine", "six fields", "no cron"},
   isActive : BOOLEAN]

\* What the fields of a configuration may be; a day is numbered.
ConfigTrue(c) ==
  /\ "time" \in DOMAIN c => c.time \in {"nine", "noon"}
  /\ "weekday" \in DOMAIN c => c.weekday \in {"mon", "tue"}
  /\ "day" \in DOMAIN c => c.day \notin {"mon", "tue"}
  /\ "cron" \in DOMAIN c => c.cron \in {"at nine", "six fields"}

Configs ==
  {new.config : new \in OtherSchedules} \cup {BuildScheduleConfig(f) : f \in FormFields}
    \cup {[mode |-> "none"]}

Meanings ==
  {ComputeScheduleNextRun(s, c, "zero") : s \in Strategies, c \in Configs}
    \cup {FormSays(f) : f \in FormFields} \cup {<<>>}

ScheduleRows ==
  [id : Nat, strategy : Strategies \cup {"none"}, config : Configs, active : BOOLEAN,
   meant : Meanings]
\* What is assumed of the constants: others store what a configuration may be, the budgets are
\* numbers, and NoSchedule is no row.
ScheduleConstants ==
  /\ \A new \in OtherSchedules : new.strategy \in Strategies /\ ConfigTrue(new.config)
  /\ ScheduleBudgets \subseteq [clicks : Nat, types : Nat, others : Nat, turns : Nat, losses : Nat]
  /\ NoSchedule \notin ScheduleRows

ASSUME ScheduleAssumption == ScheduleConstants

\* The type invariant.  Unless requests overlapped, the buttons are disabled exactly while one
\* is under way, and there is one at most.
ScheduleTypeOK ==
  /\ kind \in {"gen", "link"}
  /\ \A r \in {row, seen, editing} \ {NoSchedule} : r.id \in 1..odd.made
  /\ ran \subseteq 1..odd.made /\ tick \in 0..odd.made
  /\ \A f \in DOMAIN FormValues : form[f] \in FormValues[f]
  /\ dialog \in {"closed", "tab", "form", "asking"}
  /\ typed => dialog = "form"
  /\ ~odd.overlap => Len(requests) <= 1 /\ (loading <=> requests # <<>>)

\* The schedule runs as the one who saved it was shown that it would, through every translation
\* of row to form and back; one who changed nothing keeps how it ran.  Left out: "once" for
\* links and cron expressions of six fields, which the form offers and the server does not run,
\* and intervals, numbered days and times never given, which the form cannot show.  "Once" for
\* a row that has run is either done or never happens.
SavedAsSeen ==
  row # NoSchedule =>
    \/ Runs(row) = row.meant
    \/ row.meant = <<"once">> /\ (kind = "link" \/ row.id \in ran)
    \/ row.meant \in {<<"cron", "six fields">>, <<"never">>, <<"every">>}
    \/ row.meant[1] = "weekly" /\ row.meant[2] \notin {"mon", "tue"}
    \/ row.meant[Len(row.meant)] = "midnight"

\* When nothing is under way the card shows the schedule there is, unless another user changed
\* it, a call was lost or requests overlapped.
CardIsTrue ==
  dialog # "closed" /\ requests = <<>> /\ ~(odd.others \/ odd.lost \/ odd.overlap) => seen = row

\* What was typed into an open dialog stays there, unless the dialog is being saved, was opened
\* from an empty card during a load, or requests overlapped.
TypedIsKept ==
  [][\/ dialog # "form" \/ ~typed \/ dialog' # "form" \/ steps'.types # steps.types
     \/ odd.blank \/ odd.overlap \/ (\E i \in DOMAIN requests : requests[i].closes = "form")
     \/ form' = form]_scheduleVars

\* The card shows the schedule there is and when it runs, and the dialog what was typed into it.
FormsAreTrue == []CardIsTrue /\ []SavedAsSeen /\ TypedIsKept
==============================================================================
