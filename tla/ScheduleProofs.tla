--------------------------- MODULE ScheduleProofs ---------------------------
(***************************************************************************)
(* What the schedules of a project show and store, for any configurations  *)
(* written through the API, however requests, dialogs and other users      *)
(* interleave.                                                             *)
(*                                                                         *)
(* `Told` is the point: a configuration runs as its `meant` says, or is    *)
(* one of the exceptions SavedAsSeen names.  It is handed on from row to   *)
(* card, to form, to request and back to the row; the other invariants say *)
(* what a request under way still has to bring.                            *)
(***************************************************************************)
EXTENDS ScheduleForms, SequenceTheorems, TLAPS

Changes == [strategy : Strategies \cup {"none"}, config : Configs, active : BOOLEAN]
CallRecords ==
  [op : {"load", "save", "toggle", "trigger", "delete"}, id : Nat, new : Changes,
   meant : Meanings, st : {"sent", "done", "refused"}, got : ScheduleRows \cup {NoSchedule},
   closes : {"form", "asking", "none"}]

\* How the server runs a configuration stored as a schedule of kind k that has not run yet.
RunsAs(k, s, c) ==
  ComputeScheduleNextRun(IF k = "gen" THEN s ELSE DeriveScheduleStrategy(c, "daily"), c, "zero")

\* The exceptions of SavedAsSeen that do not depend on the scheduler.
Unshown(k, m) ==
  \/ k = "link" /\ m = <<"once">>
  \/ m \in {<<"cron", "six fields">>, <<"never">>, <<"every">>}
  \/ m[1] = "weekly" /\ m[2] \notin {"mon", "tue"}
  \/ m[Len(m)] = "midnight"

Told(k, s, c, m) ==
  /\ ConfigTrue(c) /\ (k = "gen" => s \in Strategies)
  /\ RunsAs(k, s, c) = m \/ Unshown(k, m)
-----------------------------------------------------------------------------
(* From rows to forms and back *)

LEMMA BuiltConfigs ==
  ASSUME NEW f \in FormFields
  PROVE  /\ f.strategy = "daily" => BuildScheduleConfig(f) = [time |-> f.dailyTime]
         /\ f.strategy = "weekly" =>
              BuildScheduleConfig(f) = [weekday |-> f.weeklyDay, time |-> f.weeklyTime]
         /\ f.strategy = "custom" => BuildScheduleConfig(f) = [cron |-> f.customCron]
         /\ f.strategy = "immediate" => BuildScheduleConfig(f) = [mode |-> "immediate"]
         /\ BuildScheduleConfig(f) \in Configs
BY DEF FormFields, Strategies, BuildScheduleConfig, Configs

\* How the configurations of the form run.
LEMMA BuiltRun ==
  ASSUME NEW k \in {"gen", "link"}, NEW f \in FormFields, ValidScheduleForm(f)
  PROVE  LET c == BuildScheduleConfig(f) IN
         /\ ConfigTrue(c)
         /\ f.strategy = "daily" => RunsAs(k, f.strategy, c) = <<"daily", f.dailyTime>>
         /\ f.strategy = "weekly" =>
              RunsAs(k, f.strategy, c) = <<"weekly", f.weeklyDay, f.weeklyTime>>
         /\ f.strategy = "custom" /\ f.customCron = "at nine" =>
              RunsAs(k, f.strategy, c) = <<"cron", "at nine">>
         /\ f.strategy = "immediate" /\ k = "gen" => RunsAs(k, f.strategy, c) = <<"once">>
<1>1. f.strategy \in Strategies
  BY DEF FormFields
<1>2. CASE f.strategy = "daily"
  <2>1. PICK c : c = [time |-> f.dailyTime]
    OBVIOUS
  <2>2. BuildScheduleConfig(f) = c /\ DOMAIN c = {"time"} /\ c.time = f.dailyTime
    BY <1>2, <2>1, BuiltConfigs
  <2>3. ConfigTrue(c)
    BY <2>2 DEF ConfigTrue, FormFields
  <2>4. DeriveScheduleStrategy(c, "daily") = "daily"
    BY <2>2 DEF DeriveScheduleStrategy, Has
  <2>5. RunsAs(k, "daily", c) = <<"daily", f.dailyTime>>
    BY <2>2, <2>4 DEF RunsAs, ComputeScheduleNextRun, Has, Field
  <2> QED BY <1>2, <2>2, <2>3, <2>5
<1>3. CASE f.strategy = "weekly"
  <2>1. PICK c : c = [weekday |-> f.weeklyDay, time |-> f.weeklyTime]
    OBVIOUS
  <2>2. /\ BuildScheduleConfig(f) = c /\ DOMAIN c = {"weekday", "time"}
        /\ c.weekday = f.weeklyDay /\ c.time = f.weeklyTime
    BY <1>3, <2>1, BuiltConfigs
  <2>3. ConfigTrue(c)
    BY <2>2 DEF ConfigTrue, FormFields
  <2>4. DeriveScheduleStrategy(c, "daily") = "weekly"
    BY <2>2 DEF DeriveScheduleStrategy, Has
  <2>5. RunsAs(k, "weekly", c) = <<"weekly", f.weeklyDay, f.weeklyTime>>
    BY <2>2, <2>4 DEF RunsAs, ComputeScheduleNextRun, Has, Field
  <2> QED BY <1>3, <2>2, <2>3, <2>5
<1>4. CASE f.strategy = "custom"
  <2>1. PICK c : c = [cron |-> f.customCron]
    OBVIOUS
  <2>2. BuildScheduleConfig(f) = c /\ DOMAIN c = {"cron"} /\ c.cron = f.customCron
    BY <1>4, <2>1, BuiltConfigs
  <2>3. ConfigTrue(c)
    BY <1>4, <2>2 DEF ConfigTrue, FormFields, ValidScheduleForm
  <2>4. DeriveScheduleStrategy(c, "daily") = "custom"
    BY <2>2 DEF DeriveScheduleStrategy, Has
  <2>5. f.customCron = "at nine" => RunsAs(k, "custom", c) = <<"cron", "at nine">>
    BY <2>2, <2>4 DEF RunsAs, ComputeScheduleNextRun, Has, Field
  <2> QED BY <1>4, <2>2, <2>3, <2>5
<1>5. CASE f.strategy = "immediate"
  <2>1. PICK c : c = [mode |-> "immediate"]
    OBVIOUS
  <2>2. BuildScheduleConfig(f) = c /\ DOMAIN c = {"mode"}
    BY <1>5, <2>1, BuiltConfigs
  <2>3. ConfigTrue(c)
    BY <2>2 DEF ConfigTrue
  <2>4. RunsAs("gen", "immediate", c) = <<"once">>
    BY DEF RunsAs, ComputeScheduleNextRun
  <2> QED BY <1>5, <2>2, <2>3, <2>4
<1> QED BY <1>1, <1>2, <1>3, <1>4, <1>5 DEF Strategies

\* A form that was filled in runs as it says, or is an exception.
LEMMA FormIsTold ==
  ASSUME NEW k \in {"gen", "link"}, NEW f \in FormFields, ValidScheduleForm(f)
  PROVE  Told(k, IF k = "gen" THEN f.strategy ELSE "none", BuildScheduleConfig(f), FormSays(f))
<1>1. f.strategy \in Strategies /\ f.customCron \in {"at nine", "six fields", "no cron"}
  BY DEF FormFields
<1>2. PICK c : c = BuildScheduleConfig(f)
  OBVIOUS
<1>3. /\ ConfigTrue(c)
      /\ RunsAs(k, IF k = "gen" THEN f.strategy ELSE "none", c) = RunsAs(k, f.strategy, c)
  BY <1>2, BuiltRun DEF RunsAs
<1>4. CASE f.strategy = "daily"
  BY <1>2, <1>3, <1>4, BuiltRun DEF Told, FormSays, Strategies
<1>5. CASE f.strategy = "weekly"
  BY <1>2, <1>3, <1>5, BuiltRun DEF Told, FormSays, Strategies
<1>6. CASE f.strategy = "custom"
  <2>1. f.customCron # "no cron" /\ FormSays(f) = <<"cron", f.customCron>>
    BY <1>6 DEF ValidScheduleForm, FormSays
  <2>2. RunsAs(k, f.strategy, c) = FormSays(f) \/ Unshown(k, FormSays(f))
    BY <1>1, <1>2, <1>6, <2>1, BuiltRun DEF Unshown
  <2> QED BY <1>2, <1>3, <1>6, <2>2 DEF Told, Strategies
<1>7. CASE f.strategy = "immediate"
  <2>1. FormSays(f) = <<"once">>
    BY <1>7 DEF FormSays
  <2>2. RunsAs(k, f.strategy, c) = FormSays(f) \/ Unshown(k, FormSays(f))
    BY <1>2, <1>7, <2>1, BuiltRun DEF Unshown
  <2> QED BY <1>2, <1>3, <1>7, <2>2 DEF Told, Strategies
<1> QED BY <1>1, <1>4, <1>5, <1>6, <1>7 DEF Strategies

LEMMA FormOf ==
  ASSUME NEW s \in Strategies, NEW daily \in {"nine", "noon"}, NEW weekly \in {"nine", "noon"},
         NEW day \in {"mon", "tue"}, NEW expr \in {"at nine", "six fields", "no cron"},
         NEW active \in BOOLEAN
  PROVE  [strategy |-> s, dailyTime |-> daily, weeklyTime |-> weekly, weeklyDay |-> day,
          customCron |-> expr, isActive |-> active] \in FormFields
BY DEF FormFields

\* What the form is filled with is a form, and shows what it can of the row.
LEMMA AppliedForm ==
  ASSUME kind \in {"gen", "link"}, NEW r \in ScheduleRows, ConfigTrue(r.config),
         kind = "gen" => r.strategy \in Strategies
  PROVE  /\ ApplyScheduleToForm(r) \in FormFields
         /\ kind = "gen" => ApplyScheduleToForm(r).strategy = r.strategy
         /\ kind = "link" =>
              ApplyScheduleToForm(r).strategy = DeriveScheduleStrategy(r.config, "immediate")
         /\ "time" \in DOMAIN r.config =>
              /\ ApplyScheduleToForm(r).dailyTime = r.config.time
              /\ ApplyScheduleToForm(r).weeklyTime = r.config.time
         /\ "weekday" \in DOMAIN r.config => ApplyScheduleToForm(r).weeklyDay = r.config.weekday
         /\ "cron" \in DOMAIN r.config => ApplyScheduleToForm(r).customCron = r.config.cron
<1>1. DeriveScheduleStrategy(r.config, "immediate") \in Strategies
  BY DEF DeriveScheduleStrategy, Strategies
<1>2. PICK s : s = IF kind = "gen" THEN r.strategy ELSE DeriveScheduleStrategy(r.config, "immediate")
  OBVIOUS
<1>3. PICK time : time = Field(r.config, "time", "nine")
  OBVIOUS
<1>4. PICK day : day = Field(r.config, "weekday", "mon")
  OBVIOUS
<1>5. PICK expr : expr = Field(r.config, "cron", "at nine")
  OBVIOUS
<1>10. PICK active \in BOOLEAN : active = r.active
  BY DEF ScheduleRows
<1>6. ApplyScheduleToForm(r) =
        [strategy |-> s, dailyTime |-> time, weeklyTime |-> time, weeklyDay |-> day,
         customCron |-> expr, isActive |-> active]
  BY <1>2, <1>3, <1>4, <1>5, <1>10 DEF ApplyScheduleToForm
<1>7. /\ s \in Strategies /\ time \in {"nine", "noon"} /\ day \in {"mon", "tue"}
      /\ expr \in {"at nine", "six fields", "no cron"}
  BY <1>1, <1>2, <1>3, <1>4, <1>5 DEF Field, ConfigTrue
<1>8. /\ "time" \in DOMAIN r.config => time = r.config.time
      /\ "weekday" \in DOMAIN r.config => day = r.config.weekday
      /\ "cron" \in DOMAIN r.config => expr = r.config.cron
  BY <1>3, <1>4, <1>5 DEF Field
<1>9. ApplyScheduleToForm(r) \in FormFields
  BY <1>6, <1>7, <1>10, FormOf
<1> QED BY <1>2, <1>6, <1>8, <1>9

\* What the server makes of a configuration, by strategy.
LEMMA ServerRuns ==
  ASSUME NEW s \in Strategies, NEW c, ConfigTrue(c)
  PROVE  LET m == ComputeScheduleNextRun(s, c, "zero") IN
         \/ s = "immediate" /\ m = <<"once">>
         \/ Unshown("gen", m)
         \/ s = "daily" /\ "time" \in DOMAIN c /\ m = <<"daily", c.time>>
         \/ /\ s = "weekly" /\ {"time", "weekday"} \subseteq DOMAIN c
            /\ m = <<"weekly", c.weekday, c.time>>
         \/ s = "custom" /\ "cron" \in DOMAIN c /\ c.cron = "at nine" /\ m = <<"cron", "at nine">>
<1>1. PICK m : m = ComputeScheduleNextRun(s, c, "zero")
  OBVIOUS
<1>2. CASE s = "immediate"
  BY <1>2 DEF ComputeScheduleNextRun
<1>3. CASE s # "immediate" /\ Has(c, {"interval"})
  <2>1. m = <<"every">>
    BY <1>1, <1>3 DEF ComputeScheduleNextRun
  <2> QED BY <1>1, <2>1 DEF Unshown
<1>4. CASE s = "daily" /\ ~Has(c, {"interval"})
  <2>1. m = <<"daily", Field(c, "time", "midnight")>>
    BY <1>1, <1>4 DEF ComputeScheduleNextRun
  <2>2. CASE "time" \in DOMAIN c
    BY <1>1, <1>4, <2>1, <2>2 DEF Field
  <2>3. CASE "time" \notin DOMAIN c
    <3>1. m = <<"daily", "midnight">>
      BY <2>1, <2>3 DEF Field
    <3>2. Unshown("gen", m)
      BY <3>1 DEF Unshown
    <3> QED BY <1>1, <3>2
  <2> QED BY <2>2, <2>3
<1>5. CASE s = "weekly" /\ ~Has(c, {"interval"})
  <2>1. PICK day : day = Field(c, "weekday", Field(c, "day", "none"))
    OBVIOUS
  <2>2. m = <<"weekly", day, Field(c, "time", "midnight")>>
    BY <1>1, <1>5, <2>1 DEF ComputeScheduleNextRun
  <2>3. CASE "time" \notin DOMAIN c
    <3>1. m = <<"weekly", day, "midnight">>
      BY <2>2, <2>3 DEF Field
    <3>2. Unshown("gen", m)
      BY <3>1 DEF Unshown
    <3> QED BY <1>1, <3>2
  <2>4. CASE "weekday" \notin DOMAIN c
    <3>1. day \notin {"mon", "tue"}
      BY <2>1, <2>4 DEF Field, ConfigTrue
    <3>2. Unshown("gen", m)
      BY <2>2, <3>1 DEF Unshown
    <3> QED BY <1>1, <3>2
  <2>5. CASE "time" \in DOMAIN c /\ "weekday" \in DOMAIN c
    BY <1>1, <1>5, <2>1, <2>2, <2>5 DEF Field
  <2> QED BY <2>3, <2>4, <2>5
<1>6. CASE s = "custom" /\ ~Has(c, {"interval"})
  <2>1. PICK expr : expr = Field(c, "cron", "no cron")
    OBVIOUS
  <2>2. m = IF expr \in {"six fields", "no cron"} THEN <<"never">> ELSE <<"cron", c.cron>>
    BY <1>1, <1>6, <2>1 DEF ComputeScheduleNextRun
  <2>3. CASE expr \in {"six fields", "no cron"}
    BY <1>1, <2>2, <2>3 DEF Unshown
  <2>4. CASE expr \notin {"six fields", "no cron"}
    <3>1. "cron" \in DOMAIN c /\ expr = c.cron /\ c.cron = "at nine"
      BY <2>1, <2>4 DEF Field, ConfigTrue
    <3> QED BY <1>1, <1>6, <2>2, <2>4, <3>1
  <2> QED BY <2>3, <2>4
<1> QED BY <1>2, <1>3, <1>4, <1>5, <1>6 DEF Strategies

\* A form that was filled from a row and sent as it is keeps how the row runs.
LEMMA RefilledIsTold ==
  ASSUME kind \in {"gen", "link"}, NEW r \in ScheduleRows,
         Told(kind, r.strategy, r.config, r.meant), ValidScheduleForm(ApplyScheduleToForm(r))
  PROVE  Told(kind, IF kind = "gen" THEN ApplyScheduleToForm(r).strategy ELSE "none",
              BuildScheduleConfig(ApplyScheduleToForm(r)), r.meant)
<1>1. PICK f : f = ApplyScheduleToForm(r)
  OBVIOUS
<1>2. PICK c : c = r.config
  OBVIOUS
<1>3. ConfigTrue(c) /\ (kind = "gen" => r.strategy \in Strategies)
  BY <1>2 DEF Told
<1>4. /\ f \in FormFields
      /\ kind = "gen" => f.strategy = r.strategy
      /\ kind = "link" => f.strategy = DeriveScheduleStrategy(c, "immediate")
      /\ "time" \in DOMAIN c => f.dailyTime = c.time /\ f.weeklyTime = c.time
      /\ "weekday" \in DOMAIN c => f.weeklyDay = c.weekday
      /\ "cron" \in DOMAIN c => f.customCron = c.cron
  BY <1>1, <1>2, <1>3, AppliedForm
<1>5. PICK new : new = BuildScheduleConfig(f)
  OBVIOUS
<1>6. f.strategy \in Strategies
  BY <1>4 DEF FormFields
<1>7. ConfigTrue(new) /\ RunsAs(kind, IF kind = "gen" THEN f.strategy ELSE "none", new)
                         = RunsAs(kind, f.strategy, new)
  BY <1>1, <1>4, <1>5, BuiltRun DEF RunsAs
<1>8. RunsAs(kind, f.strategy, new) = r.meant \/ Unshown(kind, r.meant)
  <2>1. CASE Unshown(kind, r.meant)
    BY <2>1
  <2>2. CASE RunsAs(kind, r.strategy, c) = r.meant
    <3>1. PICK s : s = IF kind = "gen" THEN r.strategy ELSE DeriveScheduleStrategy(c, "daily")
      OBVIOUS
    <3>2. s \in Strategies /\ r.meant = ComputeScheduleNextRun(s, c, "zero")
      BY <1>3, <2>2, <3>1 DEF RunsAs, DeriveScheduleStrategy, Strategies
    <3>3. kind = "link" /\ s # f.strategy => s = "daily" /\ "time" \notin DOMAIN c
      BY <1>4, <3>1 DEF DeriveScheduleStrategy, Has
    <3>4. kind = "link" => s # "immediate"
      BY <3>1 DEF DeriveScheduleStrategy
    <3>5. CASE Unshown("gen", r.meant)
      BY <3>5 DEF Unshown
    <3>6. CASE s = "immediate" /\ r.meant = <<"once">>
      BY <1>1, <1>4, <1>5, <3>1, <3>4, <3>6, BuiltRun
    <3>7. CASE s = "daily" /\ "time" \in DOMAIN c /\ r.meant = <<"daily", c.time>>
      BY <1>1, <1>4, <1>5, <3>1, <3>3, <3>7, BuiltRun
    <3>8. CASE s = "weekly" /\ {"time", "weekday"} \subseteq DOMAIN c
               /\ r.meant = <<"weekly", c.weekday, c.time>>
      BY <1>1, <1>4, <1>5, <3>1, <3>3, <3>8, BuiltRun
    <3>9. CASE s = "custom" /\ "cron" \in DOMAIN c /\ c.cron = "at nine"
               /\ r.meant = <<"cron", "at nine">>
      BY <1>1, <1>4, <1>5, <3>1, <3>3, <3>9, BuiltRun
    <3>10. \/ s = "immediate" /\ r.meant = <<"once">>
           \/ Unshown("gen", r.meant)
           \/ s = "daily" /\ "time" \in DOMAIN c /\ r.meant = <<"daily", c.time>>
           \/ /\ s = "weekly" /\ {"time", "weekday"} \subseteq DOMAIN c
              /\ r.meant = <<"weekly", c.weekday, c.time>>
           \/ s = "custom" /\ "cron" \in DOMAIN c /\ c.cron = "at nine" /\ r.meant = <<"cron", "at nine">>
      BY <1>3, <3>2, ServerRuns
    <3> QED BY <3>5, <3>6, <3>7, <3>8, <3>9, <3>10, Zenon
  <2>3. RunsAs(kind, r.strategy, c) = r.meant \/ Unshown(kind, r.meant)
    BY <1>2 DEF Told
  <2> QED BY <2>1, <2>2, <2>3, Zenon
<1> QED BY <1>1, <1>3, <1>4, <1>5, <1>6, <1>7, <1>8 DEF Told
-----------------------------------------------------------------------------
(* The invariants *)

FormOfRow(k, r) ==
  LET time == Field(r.config, "time", "nine") IN
  [strategy |-> IF k = "gen" THEN r.strategy ELSE DeriveScheduleStrategy(r.config, "immediate"),
   dailyTime |-> time, weeklyTime |-> time, weeklyDay |-> Field(r.config, "weekday", "mon"),
   customCron |-> Field(r.config, "cron", "at nine"), isActive |-> r.active]

SchedulesTyped ==
  /\ kind \in {"gen", "link"}
  /\ {row, seen, editing} \subseteq ScheduleRows \cup {NoSchedule}
  /\ form \in FormFields /\ loading \in BOOLEAN /\ typed \in BOOLEAN
  /\ dialog \in {"closed", "tab", "form", "asking"}
  /\ requests \in Seq(CallRecords)
  /\ odd \in [blank : BOOLEAN, overlap : BOOLEAN, others : BOOLEAN, lost : BOOLEAN, made : Nat]
  /\ steps \in [clicks : Nat, types : Nat, others : Nat, turns : Nat, losses : Nat]

\* A row, wherever it is shown or under way, was made, and runs as it is told.
SoundRow(r) == r.id \in 1..odd.made /\ Told(kind, r.strategy, r.config, r.meant)

SoundRequest(c) ==
  /\ c.got # NoSchedule => SoundRow(c.got)
  /\ c.op \in {"save", "toggle"} => Told(kind, c.new.strategy, c.new.config, c.meant)

RowsSound ==
  /\ \A r \in {row, seen, editing} \ {NoSchedule} : SoundRow(r)
  /\ row # NoSchedule => row.id = odd.made
RequestsSound == \A i \in DOMAIN requests : SoundRequest(requests[i])

\* A form nobody typed into shows the row it was filled from.
FormTrue ==
  /\ typed => dialog = "form"
  /\ seen = NoSchedule => editing = NoSchedule
  /\ dialog = "form" /\ ~typed /\ editing # NoSchedule => form = FormOfRow(kind, editing)

\* While the dialog is open no request is under way but the one that closes it.
OneCall ==
  ~odd.overlap =>
    /\ Len(requests) <= 1 /\ (loading <=> requests # <<>>)
    /\ dialog = "form" /\ ~odd.blank => \A i \in DOMAIN requests : requests[i].closes = "form"

\* Either the card shows the row, or the call that is under way will bring it.
CardCall(c) ==
  /\ c.op = "load" => c.st = "sent" \/ (c.st = "done" /\ c.got = row)
  /\ c.op = "trigger" \/ (c.op # "load" /\ c.st # "done") => seen = row
  /\ c.op \in {"save", "toggle"} /\ kind = "link" /\ c.st = "done" => c.got = row

CardKnown ==
  ~odd.others /\ ~odd.lost /\ ~odd.overlap =>
    /\ dialog # "closed" /\ requests = <<>> => seen = row
    /\ \A i \in DOMAIN requests : CardCall(requests[i])

ScheduleInv ==
  SchedulesTyped /\ RowsSound /\ RequestsSound /\ FormTrue /\ OneCall /\ CardKnown
-----------------------------------------------------------------------------
(* Requests *)

\* Every element of a is one of s.
Within(a, s) == \A j \in 1..Len(a) : \E k \in 1..Len(s) : a[j] = s[k]

LEMMA JoinedWithin ==
  ASSUME NEW S, NEW s \in Seq(S), NEW a \in Seq(S), NEW b \in Seq(S), Within(a, s), Within(b, s)
  PROVE  a \o b \in Seq(S) /\ Len(a \o b) = Len(a) + Len(b) /\ Within(a \o b, s)
<1>1. /\ a \o b \in Seq(S) /\ Len(a \o b) = Len(a) + Len(b)
      /\ \A j \in 1..(Len(a) + Len(b)) : (a \o b)[j] = IF j <= Len(a) THEN a[j] ELSE b[j - Len(a)]
  BY ConcatProperties
<1>2. Len(a) \in Nat /\ Len(b) \in Nat
  OBVIOUS
<1>3. ASSUME NEW j \in 1..(Len(a) + Len(b))
      PROVE  \E k \in 1..Len(s) : (a \o b)[j] = s[k]
  <2>1. CASE j <= Len(a)
    BY <1>1, <1>2, <2>1 DEF Within
  <2>2. CASE ~(j <= Len(a))
    <3>1. j - Len(a) \in 1..Len(b)
      BY <1>2, <2>2
    <3>2. (a \o b)[j] = b[j - Len(a)]
      BY <1>1, <2>2
    <3> QED BY <3>1, <3>2 DEF Within
  <2> QED BY <2>1, <2>2
<1> QED BY <1>1, <1>3 DEF Within

LEMMA RemoveIs ==
  ASSUME NEW S, NEW s \in Seq(S), NEW i \in DOMAIN s
  PROVE  /\ RemoveAt(s, i) \in Seq(S) /\ Len(RemoveAt(s, i)) = Len(s) - 1
         /\ Within(RemoveAt(s, i), s)
<1>1. i \in 1..Len(s) /\ Len(s) \in Nat /\ i \in Nat
  OBVIOUS
<1>2. PICK a : a = SubSeq(s, 1, i - 1)
  OBVIOUS
<1>3. PICK b : b = SubSeq(s, i + 1, Len(s))
  OBVIOUS
<1>4. a \in Seq(S) /\ Len(a) = i - 1 /\ \A j \in 1..Len(a) : a[j] = s[j]
  BY <1>1, <1>2
<1>5. b \in Seq(S) /\ Len(b) = Len(s) - i /\ \A j \in 1..Len(b) : b[j] = s[i + j]
  BY <1>1, <1>3
<1>6. Within(a, s)
  BY <1>1, <1>4 DEF Within
<1>7. ASSUME NEW j \in 1..Len(b) PROVE \E k \in 1..Len(s) : b[j] = s[k]
  <2>1. i + j \in 1..Len(s)
    BY <1>1, <1>5
  <2> QED BY <1>5, <2>1
<1>8. Within(b, s)
  BY <1>7 DEF Within
<1>9. RemoveAt(s, i) = a \o b
  BY <1>2, <1>3 DEF RemoveAt
<1>10. a \o b \in Seq(S) /\ Len(a \o b) = Len(a) + Len(b) /\ Within(a \o b, s)
  BY <1>4, <1>5, <1>6, <1>8, JoinedWithin
<1>11. Len(a) + Len(b) = Len(s) - 1
  BY <1>1, <1>4, <1>5
<1> QED BY <1>9, <1>10, <1>11

\* A new call comes last; whatever holds of it and of the others holds of all.
LEMMA Appended ==
  ASSUME requests \in Seq(CallRecords), NEW c \in CallRecords, requests' = Append(requests, c)
  PROVE  /\ requests' \in Seq(CallRecords) /\ requests' # <<>>
         /\ \A j \in DOMAIN requests' :
              requests'[j] = c \/ (j \in DOMAIN requests /\ requests'[j] = requests[j])
         /\ requests = <<>> => Len(requests') = 1
OBVIOUS

LEMMA Replaced ==
  ASSUME requests \in Seq(CallRecords), NEW c \in CallRecords, NEW i \in DOMAIN requests,
         requests' = [requests EXCEPT ![i] = c]
  PROVE  /\ requests' \in Seq(CallRecords) /\ requests' # <<>> /\ requests # <<>>
         /\ Len(requests') = Len(requests)
         /\ \A j \in DOMAIN requests' :
              requests'[j] = c \/ (j \in DOMAIN requests /\ requests'[j] = requests[j])
         /\ Len(requests) <= 1 => \A j \in DOMAIN requests' : requests'[j] = c
<1>1. DOMAIN requests = 1..Len(requests) /\ Len(requests) \in Nat
  OBVIOUS
<1>2. requests' \in Seq(CallRecords) /\ Len(requests') = Len(requests)
  BY <1>1
<1>3. DOMAIN requests' = DOMAIN requests
  BY <1>1, <1>2
<1>4. \A j \in DOMAIN requests : requests'[j] = IF j = i THEN c ELSE requests[j]
  OBVIOUS
<1> QED BY <1>1, <1>2, <1>3, <1>4

LEMMA Removed ==
  ASSUME requests \in Seq(CallRecords), NEW i \in DOMAIN requests, requests' = RemoveAt(requests, i)
  PROVE  /\ requests' \in Seq(CallRecords) /\ requests # <<>>
         /\ \A j \in DOMAIN requests' : \E k \in DOMAIN requests : requests'[j] = requests[k]
         /\ Len(requests) <= 1 => requests' = <<>> /\ Len(requests') = 0
<1>1. /\ requests' \in Seq(CallRecords) /\ Len(requests') = Len(requests) - 1
      /\ Within(requests', requests)
  BY RemoveIs
<1>2. DOMAIN requests = 1..Len(requests) /\ DOMAIN requests' = 1..Len(requests')
      /\ Len(requests) \in Nat
  BY <1>1
<1>3. Len(requests) <= 1 => Len(requests') = 0
  BY <1>1, <1>2
<1>4. Len(requests') = 0 => requests' = <<>>
  BY <1>1
<1> QED BY <1>1, <1>2, <1>3, <1>4 DEF Within

\* What was made and told stays so.
LEMMA SoundStays ==
  ASSUME kind' = kind, odd.made \in Nat, odd'.made \in Nat, odd'.made >= odd.made
  PROVE  /\ \A r : SoundRow(r) => SoundRow(r)'
         /\ \A c : SoundRequest(c) => SoundRequest(c)'
<1>1. ASSUME NEW r, SoundRow(r) PROVE SoundRow(r)'
  BY <1>1 DEF SoundRow
<1>2. ASSUME NEW c, SoundRequest(c) PROVE SoundRequest(c)'
  <2>1. c.got # NoSchedule => SoundRow(c.got)'
    BY <1>2, <1>1 DEF SoundRequest
  <2> QED BY <1>2, <2>1 DEF SoundRequest
<1> QED BY <1>1, <1>2
-----------------------------------------------------------------------------
(* Steps that several actions share *)

LEMMA SoundStrategy ==
  ASSUME NEW r, SoundRow(r)
  PROVE  ConfigTrue(r.config) /\ (kind = "gen" => r.strategy \in Strategies)
BY DEF SoundRow, Told

LEMMA DefaultForm == CreateDefaultScheduleForm \in FormFields
BY DEF CreateDefaultScheduleForm, FormFields, Strategies

\* The form is filled from a row, or emptied.
LEMMA Fills ==
  ASSUME SchedulesTyped, NEW r \in ScheduleRows \cup {NoSchedule},
         r # NoSchedule => SoundRow(r), FillFrom(r)
  PROVE  /\ form' \in FormFields /\ editing' = r
         /\ r # NoSchedule => form' = FormOfRow(kind, r)
<1>1. r # NoSchedule => ApplyScheduleToForm(r) \in FormFields
  <2> SUFFICES ASSUME r # NoSchedule PROVE ApplyScheduleToForm(r) \in FormFields
    OBVIOUS
  <2> QED BY SoundStrategy, AppliedForm DEF SchedulesTyped
<1>2. ApplyScheduleToForm(r) = FormOfRow(kind, r)
  BY DEF ApplyScheduleToForm, FormOfRow
<1> QED BY <1>1, <1>2, DefaultForm DEF FillFrom

\* A call is sent, from a dialog that is open or by opening the tab.
LEMMA Sends ==
  ASSUME ScheduleInv, NEW c \in CallRecords, c.st = "sent", c.got = NoSchedule, SoundRequest(c),
         Send(c), UNCHANGED <<kind, row, seen>>, c.op = "load" \/ dialog # "closed",
         dialog' = "form" => c.closes = "form"
  PROVE  /\ requests' \in Seq(CallRecords) /\ loading' \in BOOLEAN
         /\ odd' \in [blank : BOOLEAN, overlap : BOOLEAN, others : BOOLEAN, lost : BOOLEAN, made : Nat]
         /\ odd'.made = odd.made
         /\ RequestsSound' /\ OneCall' /\ CardKnown'
<1>1. /\ requests' \in Seq(CallRecords) /\ requests' # <<>>
      /\ \A j \in DOMAIN requests' :
           requests'[j] = c \/ (j \in DOMAIN requests /\ requests'[j] = requests[j])
      /\ requests = <<>> => Len(requests') = 1
  BY Appended DEF ScheduleInv, SchedulesTyped, Send
<1>2. PICK overlap \in BOOLEAN : overlap = (odd.overlap \/ requests # <<>>)
  BY DEF ScheduleInv, SchedulesTyped
<1>3. /\ odd' \in [blank : BOOLEAN, overlap : BOOLEAN, others : BOOLEAN, lost : BOOLEAN, made : Nat]
      /\ odd'.made = odd.made /\ odd'.overlap = overlap /\ odd'.blank = odd.blank
      /\ odd'.others = odd.others /\ odd'.lost = odd.lost /\ odd.made \in Nat
  BY <1>2 DEF Send, ScheduleInv, SchedulesTyped
<1>4. loading' = TRUE
  BY DEF Send
<1>5. RequestsSound'
  <2> SUFFICES ASSUME NEW j \in DOMAIN requests', NEW x, x = requests'[j]
               PROVE  SoundRequest(x)'
    BY DEF RequestsSound, SoundRequest, SoundRow
  <2>1. \A d : SoundRequest(d) => SoundRequest(d)'
    BY <1>3, SoundStays
  <2>2. SoundRequest(c)'
    BY <2>1
  <2>3. x = c \/ SoundRequest(x)
    BY <1>1 DEF ScheduleInv, RequestsSound
  <2>4. CASE x = c
    BY <2>2, <2>4 DEF SoundRequest, SoundRow
  <2>5. CASE SoundRequest(x)
    BY <2>1, <2>5
  <2> QED BY <2>3, <2>4, <2>5
<1>6. ~overlap => requests = <<>> /\ ~odd.overlap /\ DOMAIN requests = {}
  <2>1. requests = <<>> => DOMAIN requests = {}
    OBVIOUS
  <2> QED BY <1>2, <2>1
<1>7. OneCall'
  <2> SUFFICES ASSUME ~overlap
               PROVE  /\ Len(requests') <= 1 /\ (loading' <=> requests' # <<>>)
                      /\ dialog' = "form" => \A j \in DOMAIN requests' : requests'[j].closes = "form"
    BY <1>3 DEF OneCall
  <2>1. \A j \in DOMAIN requests' : requests'[j] = c
    BY <1>1, <1>6
  <2>2. Len(requests') <= 1
    <3>1. requests = <<>>
      BY <1>6
    <3>2. Len(requests') = 1
      BY <1>1, <3>1
    <3> QED BY <3>2
  <2>3. loading' <=> requests' # <<>>
    BY <1>1, <1>4
  <2>4. dialog' = "form" => \A j \in DOMAIN requests' : requests'[j].closes = "form"
    BY <2>1
  <2> QED BY <2>2, <2>3, <2>4
<1>8. CardKnown'
  <2> SUFFICES ASSUME ~odd'.others, ~odd'.lost, ~odd'.overlap,
                      NEW j \in DOMAIN requests', NEW x, x = requests'[j]
               PROVE  CardCall(x)'
    BY <1>1 DEF CardKnown, CardCall
  <2>1. x = c
    BY <1>1, <1>3, <1>6
  <2>2. c.op # "load" => seen = row
    BY <1>3, <1>6 DEF ScheduleInv, CardKnown
  <2>3. CardCall(c)'
    BY <2>2 DEF CardCall
  <2> QED BY <2>1, <2>3 DEF CardCall
<1> QED BY <1>1, <1>3, <1>4, <1>5, <1>7, <1>8

\* A handler is over: with one call, none is under way any more.
LEMMA HandlerEnds ==
  ASSUME ScheduleInv, NEW i \in DOMAIN requests, Ends(i), UNCHANGED <<kind, row, odd>>,
         ~odd.others /\ ~odd.lost /\ ~odd.overlap => seen' = row
  PROVE  /\ requests' \in Seq(CallRecords) /\ loading' \in BOOLEAN /\ typed' \in BOOLEAN
         /\ dialog' \in {dialog, "tab"} /\ (typed' => typed /\ dialog' = dialog)
         /\ RequestsSound' /\ OneCall' /\ CardKnown'
<1>1. /\ requests' \in Seq(CallRecords) /\ requests # <<>>
      /\ \A j \in DOMAIN requests' : \E k \in DOMAIN requests : requests'[j] = requests[k]
      /\ Len(requests) <= 1 => requests' = <<>> /\ Len(requests') = 0
  BY Removed DEF ScheduleInv, SchedulesTyped, Ends
<1>2. /\ loading' = FALSE /\ typed' = (typed /\ dialog' = dialog)
      /\ dialog' \in {dialog, "tab"}
  BY DEF Ends
<1>3. RequestsSound'
  <2> SUFFICES ASSUME NEW j \in DOMAIN requests', NEW x, x = requests'[j]
               PROVE  SoundRequest(x)'
    BY DEF RequestsSound, SoundRequest, SoundRow
  <2>1. SoundRequest(x)
    BY <1>1 DEF ScheduleInv, RequestsSound
  <2> QED BY <2>1 DEF SoundRequest, SoundRow
<1>4. ~odd.overlap => requests' = <<>> /\ Len(requests') = 0 /\ DOMAIN requests' = {}
  BY <1>1 DEF ScheduleInv, OneCall
<1>5. OneCall'
  BY <1>2, <1>4 DEF OneCall
<1>6. CardKnown'
  BY <1>4 DEF CardKnown
<1>7. typed \in BOOLEAN
  BY DEF ScheduleInv, SchedulesTyped
<1> QED BY <1>1, <1>2, <1>3, <1>5, <1>6, <1>7, Zenon

\* A call becomes another one, in its place.
LEMMA CallBecomes ==
  ASSUME ScheduleInv, NEW i \in DOMAIN requests, NEW c \in CallRecords,
         requests' = [requests EXCEPT ![i] = c], c.closes = requests[i].closes,
         loading' = loading \/ loading' = TRUE, UNCHANGED <<kind, dialog>>,
         odd'.made \in Nat, odd'.made >= odd.made, odd'.overlap = odd.overlap,
         odd'.blank = odd.blank, SoundRequest(c)',
         ~odd'.others /\ ~odd'.lost /\ ~odd'.overlap =>
           ~odd.others /\ ~odd.lost /\ ~odd.overlap /\ CardCall(c)'
  PROVE  requests' \in Seq(CallRecords) /\ RequestsSound' /\ OneCall' /\ CardKnown'
<1>1. /\ requests' \in Seq(CallRecords) /\ requests' # <<>> /\ requests # <<>>
      /\ Len(requests') = Len(requests)
      /\ \A j \in DOMAIN requests' :
           requests'[j] = c \/ (j \in DOMAIN requests /\ requests'[j] = requests[j])
      /\ Len(requests) <= 1 => \A j \in DOMAIN requests' : requests'[j] = c
  BY Replaced DEF ScheduleInv, SchedulesTyped
<1>2. odd.made \in Nat
  BY DEF ScheduleInv, SchedulesTyped
<1>3. RequestsSound'
  <2> SUFFICES ASSUME NEW j \in DOMAIN requests', NEW x, x = requests'[j]
               PROVE  SoundRequest(x)'
    BY DEF RequestsSound, SoundRequest, SoundRow
  <2>1. x = c \/ SoundRequest(x)
    BY <1>1 DEF ScheduleInv, RequestsSound
  <2>2. CASE x = c
    BY <2>2 DEF SoundRequest, SoundRow
  <2>3. CASE SoundRequest(x)
    BY <1>2, <2>3, SoundStays
  <2> QED BY <2>1, <2>2, <2>3
<1>4. ~odd.overlap => Len(requests) <= 1 /\ loading' = TRUE
  BY <1>1 DEF ScheduleInv, OneCall, SchedulesTyped
<1>5. OneCall'
  <2> SUFFICES ASSUME ~odd.overlap
               PROVE  /\ Len(requests') <= 1 /\ (loading' <=> requests' # <<>>)
                      /\ dialog = "form" /\ ~odd.blank =>
                           \A j \in DOMAIN requests' : requests'[j].closes = "form"
    BY DEF OneCall
  <2>1. dialog = "form" /\ ~odd.blank => c.closes = "form"
    BY DEF ScheduleInv, OneCall
  <2> QED BY <1>1, <1>4, <2>1
<1>6. CardKnown'
  <2> SUFFICES ASSUME ~odd'.others, ~odd'.lost, ~odd'.overlap,
                      NEW j \in DOMAIN requests', NEW x, x = requests'[j]
               PROVE  CardCall(x)'
    BY <1>1 DEF CardKnown, CardCall
  <2>1. Len(requests) <= 1
    BY <1>4
  <2>2. x = c /\ CardCall(c)'
    BY <1>1, <2>1
  <2> QED BY <2>2 DEF CardCall
<1> QED BY <1>1, <1>3, <1>5, <1>6

\* Nothing is sent or answered, and the tab is not entered.
LEMMA CallsRest ==
  ASSUME ScheduleInv, UNCHANGED <<kind, row, seen, loading, requests>>,
         odd'.made = odd.made, odd'.overlap = odd.overlap, odd'.others = odd.others,
         odd'.lost = odd.lost, dialog' # "closed" => dialog # "closed",
         dialog' = "form" /\ ~odd'.blank => (dialog = "form" /\ ~odd.blank) \/ ~loading
  PROVE  RequestsSound' /\ OneCall' /\ CardKnown'
<1>1. RequestsSound'
  BY DEF ScheduleInv, RequestsSound, SoundRequest, SoundRow
<1>2. OneCall'
  <2> SUFFICES ASSUME ~odd.overlap
               PROVE  /\ Len(requests) <= 1 /\ (loading <=> requests # <<>>)
                      /\ dialog' = "form" /\ ~odd'.blank =>
                           \A i \in DOMAIN requests : requests[i].closes = "form"
    BY DEF OneCall
  <2>1. Len(requests) <= 1 /\ (loading <=> requests # <<>>)
    BY DEF ScheduleInv, OneCall
  <2>2. CASE dialog = "form" /\ ~odd.blank
    BY <2>1, <2>2 DEF ScheduleInv, OneCall
  <2>3. CASE ~loading
    <3>1. DOMAIN requests = {}
      BY <2>1, <2>3
    <3> QED BY <2>1, <3>1
  <2> QED BY <2>1, <2>2, <2>3
<1>3. CardKnown'
  <2> SUFFICES ASSUME ~odd.others, ~odd.lost, ~odd.overlap
               PROVE  /\ dialog' # "closed" /\ requests = <<>> => seen = row
                      /\ \A i \in DOMAIN requests : CardCall(requests[i])
    BY DEF CardKnown, CardCall
  <2> QED BY DEF ScheduleInv, CardKnown
<1> QED BY <1>1, <1>2, <1>3

\* The rows stay where they are, or are handed from the card to the form.
LEMMA RowsRest ==
  ASSUME ScheduleInv, UNCHANGED <<kind, row, seen>>, odd'.made = odd.made,
         editing' \in {editing, seen, NoSchedule}
  PROVE  RowsSound' /\ editing' \in ScheduleRows \cup {NoSchedule}
BY DEF ScheduleInv, SchedulesTyped, RowsSound, SoundRow

LEMMA CallOf ==
  ASSUME NEW op \in {"load", "save", "toggle", "trigger", "delete"}, NEW id \in Nat,
         NEW new \in Changes, NEW meant \in Meanings
  PROVE  /\ Call(op, id, new, meant) \in CallRecords
         /\ Call(op, id, new, meant).op = op /\ Call(op, id, new, meant).st = "sent"
         /\ Call(op, id, new, meant).new = new /\ Call(op, id, new, meant).meant = meant
         /\ Call(op, id, new, meant).got = NoSchedule
         /\ op = "save" => Call(op, id, new, meant).closes = "form"
<1>1. PICK closes \in {"form", "asking", "none"} :
        closes = CASE op = "save" -> "form" [] op = "delete" -> "asking" [] OTHER -> "none"
  OBVIOUS
<1>2. Call(op, id, new, meant) =
        [op |-> op, id |-> id, new |-> new, meant |-> meant, st |-> "sent", got |-> NoSchedule,
         closes |-> closes]
  BY <1>1 DEF Call
<1>3. [op |-> op, id |-> id, new |-> new, meant |-> meant, st |-> "sent", got |-> NoSchedule,
       closes |-> closes] \in CallRecords
  BY <1>1 DEF CallRecords
<1> QED BY <1>1, <1>2, <1>3

LEMMA NoChangeIs == NoChange \in Changes /\ <<>> \in Meanings
BY DEF NoChange, Changes, Configs, Meanings

LEMMA LoadCall ==
  ASSUME NEW closes \in {"form", "asking", "none"}
  PROVE  /\ LoadSchedules(closes) \in CallRecords
         /\ LoadSchedules(closes).op = "load" /\ LoadSchedules(closes).st = "sent"
         /\ LoadSchedules(closes).got = NoSchedule /\ LoadSchedules(closes).closes = closes
<1>1. PICK c \in CallRecords : c = Call("load", 0, NoChange, <<>>)
  BY CallOf, NoChangeIs
<1>2. c.op = "load" /\ c.st = "sent" /\ c.got = NoSchedule
  BY <1>1, CallOf, NoChangeIs
<1>3. LoadSchedules(closes) = [c EXCEPT !.closes = closes]
  BY <1>1 DEF LoadSchedules
<1>4. /\ [c EXCEPT !.closes = closes] \in CallRecords
      /\ [c EXCEPT !.closes = closes].op = c.op /\ [c EXCEPT !.closes = closes].st = c.st
      /\ [c EXCEPT !.closes = closes].got = c.got
      /\ [c EXCEPT !.closes = closes].closes = closes
  BY <1>1 DEF CallRecords
<1> QED BY <1>2, <1>3, <1>4

LEMMA Spends ==
  ASSUME SchedulesTyped, NEW what \in {"clicks", "types", "others", "turns", "losses"}, SpendStep(what)
  PROVE  /\ steps' \in [clicks : Nat, types : Nat, others : Nat, turns : Nat, losses : Nat]
         /\ what = "types" => steps'.types # steps.types
<1>1. steps \in [clicks : Nat, types : Nat, others : Nat, turns : Nat, losses : Nat]
  BY DEF SchedulesTyped
<1>2. CASE what = "clicks"
  BY <1>1, <1>2 DEF SpendStep
<1>3. CASE what = "types"
  BY <1>1, <1>3 DEF SpendStep
<1>4. CASE what = "others"
  BY <1>1, <1>4 DEF SpendStep
<1>5. CASE what = "turns"
  BY <1>1, <1>5 DEF SpendStep
<1>6. CASE what = "losses"
  BY <1>1, <1>6 DEF SpendStep
<1> QED BY <1>2, <1>3, <1>4, <1>5, <1>6
-----------------------------------------------------------------------------
(* The user *)

LEMMA EnterTabKeeps ==
  ASSUME ScheduleInv, EnterTab
  PROVE  ScheduleInv'
<1>1. PICK c : c = LoadSchedules("none")
  OBVIOUS
<1>2. c \in CallRecords /\ c.op = "load" /\ c.st = "sent" /\ c.got = NoSchedule
  BY <1>1, LoadCall
<1>3. /\ Send(c) /\ UNCHANGED <<kind, row, seen, form, editing, typed>>
      /\ dialog = "closed" /\ dialog' = "tab" /\ SpendStep("turns")
  BY <1>1 DEF EnterTab
<1>4. SoundRequest(c)
  BY <1>2 DEF SoundRequest
<1>5. /\ requests' \in Seq(CallRecords) /\ loading' \in BOOLEAN
      /\ odd' \in [blank : BOOLEAN, overlap : BOOLEAN, others : BOOLEAN, lost : BOOLEAN, made : Nat]
      /\ odd'.made = odd.made
      /\ RequestsSound' /\ OneCall' /\ CardKnown'
  BY <1>2, <1>3, <1>4, Sends
<1>6. SchedulesTyped'
  BY <1>3, <1>5, Spends DEF ScheduleInv, SchedulesTyped
<1>7. RowsSound'
  BY <1>3, <1>5, RowsRest
<1>8. FormTrue'
  BY <1>3 DEF ScheduleInv, FormTrue
<1> QED BY <1>5, <1>6, <1>7, <1>8 DEF ScheduleInv

LEMMA LeaveTabKeeps ==
  ASSUME ScheduleInv, LeaveTab
  PROVE  ScheduleInv'
<1> DEFINE Left(c) == [c EXCEPT !.closes = "none"]
<1>1. /\ requests' = [i \in DOMAIN requests |-> Left(requests[i])]
      /\ UNCHANGED <<kind, row, seen, form, editing, loading, odd>>
      /\ dialog' = "closed" /\ typed' = FALSE /\ SpendStep("turns")
  BY DEF LeaveTab
<1>2. \A c \in CallRecords :
        /\ Left(c) \in CallRecords /\ Left(c).op = c.op /\ Left(c).st = c.st
        /\ Left(c).got = c.got /\ Left(c).new = c.new /\ Left(c).meant = c.meant
  BY DEF CallRecords
<1>3. requests \in Seq(CallRecords) /\ \A i \in DOMAIN requests : requests[i] \in CallRecords
  BY DEF ScheduleInv, SchedulesTyped
<1> HIDE DEF Left
<1>4. /\ requests' \in Seq(CallRecords) /\ Len(requests') = Len(requests)
      /\ DOMAIN requests' = DOMAIN requests
      /\ \A i \in DOMAIN requests : requests'[i] = Left(requests[i])
  <2>1. PICK n \in Nat : n = Len(requests) /\ DOMAIN requests = 1..n
    BY <1>3
  <2>2. requests' = [i \in 1..n |-> Left(requests[i])]
    BY <1>1, <2>1
  <2>3. \A i \in 1..n : Left(requests[i]) \in CallRecords
    BY <1>2, <1>3, <2>1
  <2> QED BY <2>1, <2>2, <2>3
<1>5. SchedulesTyped'
  BY <1>1, <1>4, Spends DEF ScheduleInv, SchedulesTyped
<1>6. RowsSound'
  BY <1>1, RowsRest
<1>7. RequestsSound'
  <2> SUFFICES ASSUME NEW i \in DOMAIN requests, NEW x, x = requests'[i]
               PROVE  SoundRequest(x)'
    BY <1>4 DEF RequestsSound, SoundRequest, SoundRow
  <2>1. PICK c \in CallRecords : c = requests[i] /\ SoundRequest(c)
    BY <1>3 DEF ScheduleInv, RequestsSound
  <2>2. x.got = c.got /\ x.op = c.op /\ x.new = c.new /\ x.meant = c.meant
    BY <1>2, <1>4, <2>1
  <2> QED BY <1>1, <2>1, <2>2 DEF SoundRequest, SoundRow
<1>8. FormTrue'
  BY <1>1 DEF ScheduleInv, FormTrue
<1>9. OneCall'
  <2>1. requests' = <<>> <=> requests = <<>>
    BY <1>3, <1>4
  <2> QED BY <1>1, <1>4, <2>1 DEF ScheduleInv, OneCall
<1>10. CardKnown'
  <2> SUFFICES ASSUME ~odd.others, ~odd.lost, ~odd.overlap,
                      NEW i \in DOMAIN requests, NEW x, x = requests'[i]
               PROVE  CardCall(x)'
    BY <1>1, <1>4 DEF CardKnown, CardCall
  <2>1. PICK c \in CallRecords : c = requests[i] /\ CardCall(c)
    BY <1>3 DEF ScheduleInv, CardKnown
  <2>2. x.got = c.got /\ x.op = c.op /\ x.st = c.st
    BY <1>2, <1>4, <2>1
  <2> QED BY <1>1, <2>1, <2>2 DEF CardCall
<1> QED BY <1>5, <1>6, <1>7, <1>8, <1>9, <1>10 DEF ScheduleInv

LEMMA OpenFormKeeps ==
  ASSUME ScheduleInv, OpenForm
  PROVE  ScheduleInv'
<1>1. /\ UNCHANGED <<kind, row, seen, loading, requests>> /\ dialog = "tab" /\ dialog' = "form"
      /\ typed' = FALSE /\ SpendStep("clicks") /\ odd' = [odd EXCEPT !.blank = loading]
  BY DEF OpenForm
<1>2. /\ odd' \in [blank : BOOLEAN, overlap : BOOLEAN, others : BOOLEAN, lost : BOOLEAN, made : Nat]
      /\ odd'.made = odd.made /\ odd'.overlap = odd.overlap /\ odd'.others = odd.others
      /\ odd'.lost = odd.lost /\ odd'.blank = loading
  BY <1>1 DEF ScheduleInv, SchedulesTyped
<1>3. seen \in ScheduleRows \cup {NoSchedule} /\ (seen # NoSchedule => SoundRow(seen))
  BY DEF ScheduleInv, SchedulesTyped, RowsSound
<1>4. /\ form' \in FormFields /\ editing' \in {seen, editing}
      /\ seen = NoSchedule => editing' = NoSchedule
      /\ seen # NoSchedule => editing' = seen /\ form' = FormOfRow(kind, seen)
  <2>1. CASE seen = NoSchedule
    BY <2>1 DEF OpenForm, ScheduleInv, SchedulesTyped, FormTrue
  <2>2. CASE seen # NoSchedule
    <3>1. FillFrom(seen)
      BY <2>2 DEF OpenForm
    <3> QED BY <1>3, <2>2, <3>1, Fills DEF ScheduleInv
  <2> QED BY <2>1, <2>2
<1>5. RequestsSound' /\ OneCall' /\ CardKnown'
  BY <1>1, <1>2, CallsRest
<1>6. RowsSound' /\ editing' \in ScheduleRows \cup {NoSchedule}
  BY <1>1, <1>2, <1>4, RowsRest
<1>7. SchedulesTyped'
  BY <1>1, <1>2, <1>4, <1>6, Spends DEF ScheduleInv, SchedulesTyped
<1>8. FormTrue'
  BY <1>1, <1>4 DEF FormTrue
<1> QED BY <1>5, <1>6, <1>7, <1>8 DEF ScheduleInv

\* The user types a value the form has for the field.
LEMMA TypedForm ==
  ASSUME form \in FormFields, NEW f \in FieldsShown(form), NEW value \in FormValues[f],
         form' = [form EXCEPT ![f] = value]
  PROVE  form' \in FormFields
<1>1. f \in {"strategy", "isActive", "dailyTime", "weeklyTime", "weeklyDay", "customCron"}
  BY DEF FieldsShown
<1>2. CASE f = "strategy"
  BY <1>2 DEF FormFields, FormValues, Strategies
<1>3. CASE f = "isActive"
  BY <1>3 DEF FormFields, FormValues
<1>4. CASE f = "dailyTime"
  BY <1>4 DEF FormFields, FormValues
<1>5. CASE f = "weeklyTime"
  BY <1>5 DEF FormFields, FormValues
<1>6. CASE f = "weeklyDay"
  BY <1>6 DEF FormFields, FormValues
<1>7. CASE f = "customCron"
  BY <1>7 DEF FormFields, FormValues
<1> QED BY <1>1, <1>2, <1>3, <1>4, <1>5, <1>6, <1>7

LEMMA TypeKeeps ==
  ASSUME ScheduleInv, Type
  PROVE  ScheduleInv' /\ steps'.types # steps.types
<1>1. /\ UNCHANGED <<kind, row, seen, editing, loading, dialog, requests, odd>>
      /\ dialog = "form" /\ typed' = TRUE /\ SpendStep("types")
  BY DEF Type
<1>2. form' \in FormFields
  BY TypedForm DEF Type, ScheduleInv, SchedulesTyped
<1>3. RequestsSound' /\ OneCall' /\ CardKnown'
  BY <1>1, CallsRest
<1>4. RowsSound'
  BY <1>1, RowsRest
<1>5. SchedulesTyped' /\ steps'.types # steps.types
  BY <1>1, <1>2, Spends DEF ScheduleInv, SchedulesTyped
<1>6. FormTrue'
  BY <1>1 DEF ScheduleInv, FormTrue
<1> QED BY <1>3, <1>4, <1>5, <1>6 DEF ScheduleInv

\* Dialogs that open or close, and nothing else.
LEMMA DialogKeeps ==
  ASSUME ScheduleInv, UNCHANGED <<kind, row, seen, form, editing, loading, requests, odd, steps>>,
         dialog # "closed", dialog' \in {"tab", "asking"}, typed' = typed \/ typed' = FALSE,
         dialog # "form" \/ typed' = FALSE
  PROVE  ScheduleInv'
<1>1. RequestsSound' /\ OneCall' /\ CardKnown'
  BY CallsRest
<1>2. RowsSound'
  BY RowsRest
<1>3. SchedulesTyped'
  BY DEF ScheduleInv, SchedulesTyped
<1>4. ~typed'
  BY Zenon DEF ScheduleInv, FormTrue
<1>5. FormTrue'
  BY <1>4 DEF ScheduleInv, FormTrue
<1> QED BY <1>1, <1>2, <1>3, <1>5 DEF ScheduleInv

LEMMA SubmitFormKeeps ==
  ASSUME ScheduleInv, SubmitForm
  PROVE  ScheduleInv'
<1>1. PICK f : f = form
  OBVIOUS
<1>2. PICK id : id = IF editing = NoSchedule THEN 0 ELSE editing.id
  OBVIOUS
<1>3. PICK new : new = [strategy |-> IF kind = "gen" THEN f.strategy ELSE "none",
                        config |-> BuildScheduleConfig(f), active |-> f.isActive]
  OBVIOUS
<1>4. PICK meant : meant = Meant
  OBVIOUS
<1>5. PICK c : c = Call("save", id, new, meant)
  OBVIOUS
<1>6. /\ Send(c) /\ UNCHANGED <<kind, row, seen, form, editing, dialog, typed>>
      /\ dialog = "form" /\ ValidScheduleForm(f) /\ SpendStep("clicks")
  BY <1>1, <1>2, <1>3, <1>4, <1>5 DEF SubmitForm
<1>7. f \in FormFields /\ id \in Nat
  BY <1>1, <1>2 DEF ScheduleInv, SchedulesTyped, ScheduleRows
<1>8. new \in Changes
  <2>1. PICK s \in Strategies \cup {"none"} : s = IF kind = "gen" THEN f.strategy ELSE "none"
    BY <1>7 DEF FormFields
  <2>2. PICK active \in BOOLEAN : active = f.isActive
    BY <1>7 DEF FormFields
  <2>3. PICK config \in Configs : config = BuildScheduleConfig(f)
    BY <1>7, BuiltConfigs
  <2>4. new = [strategy |-> s, config |-> config, active |-> active]
    BY <1>3, <2>1, <2>2, <2>3
  <2> QED BY <2>1, <2>2, <2>3, <2>4 DEF Changes
<1>9. meant \in Meanings /\ Told(kind, IF kind = "gen" THEN f.strategy ELSE "none",
                                 BuildScheduleConfig(f), meant)
  <2>1. CASE editing # NoSchedule /\ ~typed
    <3>1. meant = editing.meant /\ editing \in ScheduleRows /\ SoundRow(editing)
      BY <1>4, <2>1 DEF Meant, ScheduleInv, SchedulesTyped, RowsSound
    <3>2. f = ApplyScheduleToForm(editing)
      BY <1>1, <1>6, <2>1 DEF ScheduleInv, FormTrue, FormOfRow, ApplyScheduleToForm
    <3>3. meant \in Meanings
      BY <3>1 DEF ScheduleRows
    <3>4. Told(kind, editing.strategy, editing.config, editing.meant)
      BY <3>1 DEF SoundRow
    <3>5. kind \in {"gen", "link"}
      BY DEF ScheduleInv, SchedulesTyped
    <3> QED BY <1>6, <3>1, <3>2, <3>3, <3>4, <3>5, RefilledIsTold
  <2>2. CASE ~(editing # NoSchedule /\ ~typed)
    <3>1. meant = FormSays(f)
      BY <1>1, <1>4, <2>2 DEF Meant
    <3>2. meant \in Meanings
      BY <1>7, <3>1 DEF Meanings
    <3>3. kind \in {"gen", "link"}
      BY DEF ScheduleInv, SchedulesTyped
    <3> QED BY <1>6, <1>7, <3>1, <3>2, <3>3, FormIsTold
  <2> QED BY <2>1, <2>2
<1>10. /\ c \in CallRecords /\ c.op = "save" /\ c.st = "sent" /\ c.got = NoSchedule
       /\ c.new = new /\ c.meant = meant /\ c.closes = "form"
  BY <1>5, <1>7, <1>8, <1>9, CallOf
<1>11. SoundRequest(c)
  <2>1. new.config = BuildScheduleConfig(f) /\ new.strategy = IF kind = "gen" THEN f.strategy ELSE "none"
    BY <1>3
  <2> QED BY <1>9, <1>10, <2>1 DEF SoundRequest
<1>12. /\ requests' \in Seq(CallRecords) /\ loading' \in BOOLEAN
       /\ odd' \in [blank : BOOLEAN, overlap : BOOLEAN, others : BOOLEAN, lost : BOOLEAN, made : Nat]
       /\ odd'.made = odd.made
       /\ RequestsSound' /\ OneCall' /\ CardKnown'
  BY <1>6, <1>10, <1>11, Sends
<1>13. SchedulesTyped'
  BY <1>6, <1>12, Spends DEF ScheduleInv, SchedulesTyped
<1>14. RowsSound'
  BY <1>6, <1>12, RowsRest
<1>15. FormTrue'
  BY <1>6 DEF ScheduleInv, FormTrue
<1> QED BY <1>12, <1>13, <1>14, <1>15 DEF ScheduleInv

\* A call from the card or from the question, whose dialog stays.
LEMMA CardCallKeeps ==
  ASSUME ScheduleInv, NEW c \in CallRecords, c.st = "sent", c.got = NoSchedule, SoundRequest(c),
         Send(c), SpendStep("clicks"), UNCHANGED <<kind, row, seen, form, editing, dialog, typed>>,
         dialog \in {"tab", "asking"}
  PROVE  ScheduleInv'
<1>1. /\ requests' \in Seq(CallRecords) /\ loading' \in BOOLEAN
      /\ odd' \in [blank : BOOLEAN, overlap : BOOLEAN, others : BOOLEAN, lost : BOOLEAN, made : Nat]
      /\ odd'.made = odd.made
      /\ RequestsSound' /\ OneCall' /\ CardKnown'
  BY Sends
<1>2. SchedulesTyped'
  BY <1>1, Spends DEF ScheduleInv, SchedulesTyped
<1>3. RowsSound'
  BY <1>1, RowsRest
<1>4. FormTrue'
  BY DEF ScheduleInv, FormTrue
<1> QED BY <1>1, <1>2, <1>3, <1>4 DEF ScheduleInv

LEMMA ToggleScheduleKeeps ==
  ASSUME ScheduleInv, ToggleSchedule
  PROVE  ScheduleInv'
<1>1. seen \in ScheduleRows /\ SoundRow(seen)
  BY DEF ToggleSchedule, CardPressed, ScheduleInv, SchedulesTyped, RowsSound
<1>2. PICK new : new = [strategy |-> seen.strategy, config |-> seen.config, active |-> ~seen.active]
  OBVIOUS
<1>3. PICK c : c = Call("toggle", seen.id, new, seen.meant)
  OBVIOUS
<1>4. /\ Send(c) /\ SpendStep("clicks") /\ UNCHANGED <<kind, row, seen, form, editing, dialog, typed>>
      /\ dialog = "tab"
  BY <1>2, <1>3 DEF ToggleSchedule, CardPressed
<1>5. new \in Changes
  <2>1. PICK active \in BOOLEAN : active = ~seen.active
    OBVIOUS
  <2>2. new = [strategy |-> seen.strategy, config |-> seen.config, active |-> active]
    BY <1>2, <2>1
  <2> QED BY <1>1, <2>1, <2>2 DEF Changes, ScheduleRows
<1>6. seen.id \in Nat /\ seen.meant \in Meanings
  BY <1>1 DEF ScheduleRows
<1>7. /\ c \in CallRecords /\ c.op = "toggle" /\ c.st = "sent" /\ c.got = NoSchedule
      /\ c.new = new /\ c.meant = seen.meant
  BY <1>3, <1>5, <1>6, CallOf
<1>8. SoundRequest(c)
  <2>1. new.strategy = seen.strategy /\ new.config = seen.config
    BY <1>2
  <2> QED BY <1>1, <1>7, <2>1 DEF SoundRequest, SoundRow
<1> QED BY <1>4, <1>7, <1>8, CardCallKeeps

LEMMA TriggerScheduleKeeps ==
  ASSUME ScheduleInv, TriggerSchedule
  PROVE  ScheduleInv'
<1>1. PICK c : c = Call("trigger", seen.id, NoChange, <<>>)
  OBVIOUS
<1>2. /\ Send(c) /\ SpendStep("clicks") /\ UNCHANGED <<kind, row, seen, form, editing, dialog, typed>>
      /\ dialog = "tab" /\ seen # NoSchedule
  BY <1>1 DEF TriggerSchedule, CardPressed
<1>3. seen.id \in Nat
  BY <1>2 DEF ScheduleInv, SchedulesTyped, ScheduleRows
<1>4. c \in CallRecords /\ c.op = "trigger" /\ c.st = "sent" /\ c.got = NoSchedule
  BY <1>1, <1>3, CallOf, NoChangeIs
<1>5. SoundRequest(c)
  BY <1>4 DEF SoundRequest
<1> QED BY <1>2, <1>4, <1>5, CardCallKeeps

LEMMA ConfirmDeleteKeeps ==
  ASSUME ScheduleInv, ConfirmDelete
  PROVE  ScheduleInv'
<1>1. PICK c : c = Call("delete", seen.id, NoChange, <<>>)
  OBVIOUS
<1>2. /\ Send(c) /\ SpendStep("clicks") /\ UNCHANGED <<kind, row, seen, form, editing, dialog, typed>>
      /\ dialog = "asking" /\ seen # NoSchedule
  BY <1>1 DEF ConfirmDelete
<1>3. seen.id \in Nat
  BY <1>2 DEF ScheduleInv, SchedulesTyped, ScheduleRows
<1>4. c \in CallRecords /\ c.op = "delete" /\ c.st = "sent" /\ c.got = NoSchedule
  BY <1>1, <1>3, CallOf, NoChangeIs
<1>5. SoundRequest(c)
  BY <1>4 DEF SoundRequest
<1> QED BY <1>2, <1>4, <1>5, CardCallKeeps
-----------------------------------------------------------------------------
(* The server, and other users *)

Odds == [blank : BOOLEAN, overlap : BOOLEAN, others : BOOLEAN, lost : BOOLEAN, made : Nat]

LEMMA RowMoves ==
  ASSUME ScheduleInv, UNCHANGED <<kind, seen, editing>>, odd'.made \in Nat, odd'.made >= odd.made,
         NEW r \in ScheduleRows \cup {NoSchedule}, row' = r,
         r # NoSchedule => /\ r.id = odd'.made /\ r.id # 0
                           /\ Told(kind, r.strategy, r.config, r.meant)
  PROVE  RowsSound'
<1>1. odd.made \in Nat
  BY DEF ScheduleInv, SchedulesTyped
<1>2. \A x \in {seen, editing} \ {NoSchedule} : SoundRow(x)'
  BY <1>1, SoundStays DEF ScheduleInv, RowsSound
<1>3. r # NoSchedule => SoundRow(r)'
  BY DEF SoundRow
<1> QED BY <1>2, <1>3 DEF RowsSound, SoundRow

\* The id of the row that is stored is that of the last row made.
LEMMA NextIdIs ==
  ASSUME ScheduleInv
  PROVE  NextId(row) \in Nat /\ NextId(row) # 0 /\ NextId(row) >= odd.made
<1>1. odd.made \in Nat
  BY DEF ScheduleInv, SchedulesTyped
<1>2. CASE row = NoSchedule
  BY <1>1, <1>2 DEF NextId
<1>3. CASE row # NoSchedule
  BY <1>1, <1>3 DEF NextId, ScheduleInv, RowsSound, SoundRow
<1> QED BY <1>2, <1>3

\* What an accepted call makes of the row.
LEMMA RowAfterIs ==
  ASSUME ScheduleConstants, ScheduleInv, NEW c \in CallRecords, SoundRequest(c), Accepted(c)
  PROVE  /\ RowAfter(c) \in ScheduleRows \cup {NoSchedule}
         /\ RowAfter(c) # NoSchedule =>
              /\ RowAfter(c).id \in Nat /\ RowAfter(c).id # 0 /\ RowAfter(c).id >= odd.made
              /\ Told(kind, RowAfter(c).strategy, RowAfter(c).config, RowAfter(c).meant)
         /\ c.op \in {"load", "trigger"} => RowAfter(c) = row
<1>1. /\ row \in ScheduleRows \cup {NoSchedule} /\ kind \in {"gen", "link"}
      /\ row # NoSchedule => SoundRow(row) /\ row.id = odd.made
      /\ odd.made \in Nat
  BY DEF ScheduleInv, SchedulesTyped, RowsSound
<1>2. c.op \in {"load", "save", "toggle", "trigger", "delete"}
  BY DEF CallRecords
<1>3. CASE c.op = "save" \/ (c.op = "toggle" /\ kind = "link")
  <2>1. PICK id : id = NextId(row)
    OBVIOUS
  <2>2. PICK r : r = [id |-> id, strategy |-> c.new.strategy, config |-> c.new.config,
                      active |-> c.new.active, meant |-> c.meant]
    OBVIOUS
  <2>3. RowAfter(c) = r
    BY <1>3, <2>1, <2>2 DEF RowAfter, Stored
  <2>4. id \in Nat /\ id # 0 /\ id >= odd.made
    BY <2>1, NextIdIs
  <2>5. r \in ScheduleRows
    BY <2>2, <2>4 DEF CallRecords, Changes, ScheduleRows
  <2>6. Told(kind, r.strategy, r.config, r.meant)
    BY <1>3, <2>2 DEF SoundRequest
  <2> QED BY <1>3, <2>2, <2>3, <2>4, <2>5, <2>6
<1>4. CASE c.op = "toggle" /\ kind = "gen"
  <2>1. row # NoSchedule
    BY <1>4 DEF Accepted, IsThere
  <2>2. PICK active \in BOOLEAN : active = c.new.active
    BY DEF CallRecords, Changes
  <2>3. PICK r : r = [row EXCEPT !.active = active]
    OBVIOUS
  <2>4. RowAfter(c) = r
    BY <1>4, <2>2, <2>3 DEF RowAfter
  <2>5. /\ r \in ScheduleRows /\ r.id = row.id /\ r.strategy = row.strategy
        /\ r.config = row.config /\ r.meant = row.meant
    BY <1>1, <2>1, <2>3 DEF ScheduleRows
  <2> QED BY <1>1, <1>4, <2>1, <2>4, <2>5 DEF SoundRow
<1>5. CASE c.op = "delete"
  <2>1. RowAfter(c) = NoSchedule
    BY <1>5 DEF RowAfter
  <2> QED BY <1>5, <2>1
<1>6. CASE c.op \in {"load", "trigger"}
  <2>1. RowAfter(c) = row
    BY <1>6 DEF RowAfter
  <2> QED BY <1>1, <2>1 DEF SoundRow
<1> QED BY <1>1, <1>2, <1>3, <1>4, <1>5, <1>6

LEMMA ServeCallKeeps ==
  ASSUME ScheduleConstants, ScheduleInv, NEW i \in DOMAIN requests, ServeCall(i)
  PROVE  ScheduleInv'
<1>1. PICK c \in CallRecords : c = requests[i] /\ c.st = "sent" /\ SoundRequest(c)
  BY DEF ServeCall, ScheduleInv, SchedulesTyped, RequestsSound
<1>2. UNCHANGED <<kind, seen, form, editing, loading, dialog, typed, steps>>
  BY DEF ServeCall
<1>3. odd \in Odds /\ odd.made \in Nat
  BY DEF Odds, ScheduleInv, SchedulesTyped
<1>4. CASE Accepted(c)
  <2>1. PICK r \in ScheduleRows \cup {NoSchedule} :
          /\ r = RowAfter(c)
          /\ r # NoSchedule => /\ r.id \in Nat /\ r.id # 0 /\ r.id >= odd.made
                               /\ Told(kind, r.strategy, r.config, r.meant)
          /\ c.op \in {"load", "trigger"} => r = row
    BY <1>1, <1>4, RowAfterIs
  <2>2. PICK made \in Nat : made = IF r # NoSchedule THEN r.id ELSE odd.made
    BY <1>3, <2>1
  <2>3. PICK d : d = [c EXCEPT !.st = "done", !.got = r]
    OBVIOUS
  <2>4. /\ row' = r /\ odd' = [odd EXCEPT !.made = made]
        /\ requests' = [requests EXCEPT ![i] = d]
    BY <1>1, <1>4, <2>1, <2>2, <2>3 DEF ServeCall
  <2>5. /\ d \in CallRecords /\ d.op = c.op /\ d.new = c.new /\ d.meant = c.meant
        /\ d.closes = c.closes /\ d.st = "done" /\ d.got = r
    BY <2>1, <2>3 DEF CallRecords
  <2>6. /\ odd' \in Odds /\ odd'.made = made /\ odd'.made >= odd.made /\ odd'.overlap = odd.overlap
        /\ odd'.blank = odd.blank /\ odd'.others = odd.others /\ odd'.lost = odd.lost
    BY <1>3, <2>1, <2>2, <2>4 DEF Odds
  <2>7. r # NoSchedule => r.id = odd'.made /\ r.id # 0
    BY <2>1, <2>2, <2>6
  <2>8. RowsSound'
    BY <1>2, <2>1, <2>4, <2>6, <2>7, RowMoves
  <2>9. SoundRequest(d)'
    <3>1. SoundRequest(c)'
      BY <1>1, <1>2, <1>3, <2>6, SoundStays
    <3>2. r # NoSchedule => SoundRow(r)'
      BY <2>4, <2>8 DEF RowsSound
    <3> QED BY <2>5, <3>1, <3>2 DEF SoundRequest
  <2>10. ~odd'.others /\ ~odd'.lost /\ ~odd'.overlap =>
           ~odd.others /\ ~odd.lost /\ ~odd.overlap /\ CardCall(d)'
    <3> SUFFICES ASSUME ~odd.others, ~odd.lost, ~odd.overlap PROVE CardCall(d)'
      BY <2>6
    <3>1. CardCall(c)
      BY <1>1 DEF ScheduleInv, CardKnown
    <3> QED BY <1>1, <1>2, <2>1, <2>4, <2>5, <3>1 DEF CardCall
  <2>11. requests' \in Seq(CallRecords) /\ RequestsSound' /\ OneCall' /\ CardKnown'
    BY <1>1, <1>2, <2>2, <2>4, <2>5, <2>6, <2>9, <2>10, CallBecomes
  <2>12. SchedulesTyped'
    BY <1>2, <2>1, <2>4, <2>6, <2>11 DEF ScheduleInv, SchedulesTyped, Odds
  <2>13. FormTrue'
    BY <1>2 DEF ScheduleInv, FormTrue
  <2> QED BY <2>8, <2>11, <2>12, <2>13 DEF ScheduleInv
<1>5. CASE ~Accepted(c)
  <2>1. PICK d : d = [c EXCEPT !.st = "refused"]
    OBVIOUS
  <2>2. row' = row /\ odd' = odd /\ requests' = [requests EXCEPT ![i] = d]
    BY <1>1, <1>5, <2>1 DEF ServeCall
  <2>3. /\ d \in CallRecords /\ d.op = c.op /\ d.new = c.new /\ d.meant = c.meant
        /\ d.closes = c.closes /\ d.st = "refused" /\ d.got = c.got
    BY <2>1 DEF CallRecords
  <2>4. c.op # "load"
    BY <1>5 DEF Accepted
  <2>5. SoundRequest(d)'
    BY <1>1, <1>2, <2>2, <2>3 DEF SoundRequest, SoundRow
  <2>6. ~odd'.others /\ ~odd'.lost /\ ~odd'.overlap =>
          ~odd.others /\ ~odd.lost /\ ~odd.overlap /\ CardCall(d)'
    <3> SUFFICES ASSUME ~odd.others, ~odd.lost, ~odd.overlap PROVE CardCall(d)'
      BY <2>2
    <3>1. CardCall(c)
      BY <1>1 DEF ScheduleInv, CardKnown
    <3> QED BY <1>1, <1>2, <2>2, <2>3, <2>4, <3>1 DEF CardCall
  <2>11. /\ odd'.made \in Nat /\ odd'.made >= odd.made /\ odd'.overlap = odd.overlap
         /\ odd'.blank = odd.blank
    BY <1>3, <2>2
  <2>7. requests' \in Seq(CallRecords) /\ RequestsSound' /\ OneCall' /\ CardKnown'
    BY <1>1, <1>2, <2>2, <2>3, <2>5, <2>6, <2>11, CallBecomes
  <2>8. SchedulesTyped'
    BY <1>2, <2>2, <2>7 DEF ScheduleInv, SchedulesTyped
  <2>9. RowsSound'
    BY <1>2, <2>2, RowsRest
  <2>10. FormTrue'
    BY <1>2 DEF ScheduleInv, FormTrue
  <2> QED BY <2>7, <2>8, <2>9, <2>10 DEF ScheduleInv
<1> QED BY <1>4, <1>5

LEMMA LoseCallKeeps ==
  ASSUME ScheduleInv, NEW i \in DOMAIN requests, LoseCall(i)
  PROVE  ScheduleInv'
<1>1. PICK c \in CallRecords : c = requests[i] /\ SoundRequest(c)
  BY DEF ScheduleInv, SchedulesTyped, RequestsSound
<1>2. PICK d : d = [c EXCEPT !.st = "refused"]
  OBVIOUS
<1>3. /\ UNCHANGED <<kind, row, seen, form, editing, loading, dialog, typed>> /\ SpendStep("losses")
      /\ requests' = [requests EXCEPT ![i] = d] /\ odd' = [odd EXCEPT !.lost = TRUE]
  BY <1>1, <1>2 DEF LoseCall
<1>4. /\ d \in CallRecords /\ d.op = c.op /\ d.new = c.new /\ d.meant = c.meant
      /\ d.closes = c.closes /\ d.got = c.got
  BY <1>2 DEF CallRecords
<1>5. odd \in Odds /\ odd.made \in Nat
  BY DEF Odds, ScheduleInv, SchedulesTyped
<1>6. /\ odd' \in Odds /\ odd'.made = odd.made /\ odd'.overlap = odd.overlap
      /\ odd'.blank = odd.blank /\ odd'.lost
  BY <1>3, <1>5 DEF Odds
<1>7. SoundRequest(d)'
  BY <1>1, <1>3, <1>4, <1>6 DEF SoundRequest, SoundRow
<1>13. /\ odd'.made >= odd.made /\ odd'.made \in Nat
       /\ ~odd'.others /\ ~odd'.lost /\ ~odd'.overlap =>
            ~odd.others /\ ~odd.lost /\ ~odd.overlap /\ CardCall(d)'
  BY <1>5, <1>6
<1>8. requests' \in Seq(CallRecords) /\ RequestsSound' /\ OneCall' /\ CardKnown'
  BY <1>1, <1>3, <1>4, <1>6, <1>7, <1>13, CallBecomes
<1>9. SchedulesTyped'
  BY <1>3, <1>6, <1>8, Spends DEF ScheduleInv, SchedulesTyped, Odds
<1>10. RowsSound'
  BY <1>3, <1>6, RowsRest
<1>11. FormTrue'
  BY <1>3 DEF ScheduleInv, FormTrue
<1> QED BY <1>8, <1>9, <1>10, <1>11 DEF ScheduleInv

\* Another user changes the row to r.
LEMMA OthersKeep ==
  ASSUME ScheduleInv, UNCHANGED <<kind, seen, form, editing, loading, dialog, requests, typed>>,
         SpendStep("others"), NEW r \in ScheduleRows \cup {NoSchedule}, row' = r,
         odd' \in Odds, odd'.made >= odd.made, odd'.others, odd'.overlap = odd.overlap,
         odd'.blank = odd.blank,
         r # NoSchedule => /\ r.id = odd'.made /\ r.id # 0
                           /\ Told(kind, r.strategy, r.config, r.meant)
  PROVE  ScheduleInv'
<1>1. odd'.made \in Nat /\ odd.made \in Nat
  BY DEF Odds, ScheduleInv, SchedulesTyped
<1>2. RowsSound'
  BY <1>1, RowMoves
<1>3. SchedulesTyped'
  BY Spends DEF ScheduleInv, SchedulesTyped, Odds
<1>4. \A c : SoundRequest(c) => SoundRequest(c)'
  BY <1>1, SoundStays
<1>5. RequestsSound'
  <2> SUFFICES ASSUME NEW i \in DOMAIN requests, NEW c, c = requests[i] PROVE SoundRequest(c)'
    BY DEF RequestsSound, SoundRequest, SoundRow
  <2> QED BY <1>4 DEF ScheduleInv, RequestsSound
<1>6. FormTrue' /\ OneCall' /\ CardKnown'
  BY DEF ScheduleInv, FormTrue, OneCall, CardKnown
<1> QED BY <1>2, <1>3, <1>5, <1>6 DEF ScheduleInv

\* A configuration written through the API becomes a row that runs as it is told.
LEMMA RowWritten ==
  ASSUME ScheduleConstants, NEW new \in OtherSchedules, NEW id \in Nat,
         NEW written,
         LET r == [id |-> id, strategy |-> IF kind = "gen" THEN new.strategy ELSE "none",
                   config |-> new.config, active |-> TRUE, meant |-> <<>>] IN
         written = [r EXCEPT !.meant = Expected(r)]
  PROVE  /\ written \in ScheduleRows /\ written.id = id
         /\ Told(kind, written.strategy, written.config, written.meant)
<1>4. new.strategy \in Strategies /\ ConfigTrue(new.config) /\ new.config \in Configs
  BY DEF ScheduleConstants, Configs
<1>5. PICK s \in Strategies \cup {"none"} : s = IF kind = "gen" THEN new.strategy ELSE "none"
  BY <1>4
<1>6. PICK config \in Configs : config = new.config
  BY <1>4
<1>7. PICK r : r = [id |-> id, strategy |-> s, config |-> config, active |-> TRUE, meant |-> <<>>]
  OBVIOUS
<1>8. PICK meant : meant = Expected(r)
  OBVIOUS
<1>9. written = [r EXCEPT !.meant = meant]
  BY <1>5, <1>6, <1>7, <1>8
<1>10. r.strategy = s /\ r.config = config
  BY <1>7
<1>11. meant = RunsAs(kind, s, config)
  BY <1>8, <1>10 DEF Expected, ServerStrategy, RunsAs
<1>12. kind = "gen" => s \in Strategies
  BY <1>4, <1>5
<1>13. meant \in Meanings
  <2>1. PICK t \in Strategies : t = IF kind = "gen" THEN s ELSE DeriveScheduleStrategy(config, "daily")
    BY <1>12 DEF DeriveScheduleStrategy, Strategies
  <2>2. meant = ComputeScheduleNextRun(t, config, "zero")
    BY <1>11, <2>1 DEF RunsAs
  <2> QED BY <2>2 DEF Meanings
<1>14. PICK row_written \in ScheduleRows :
         /\ row_written = [r EXCEPT !.meant = meant]
         /\ row_written.id = id /\ row_written.strategy = s /\ row_written.config = config
         /\ row_written.meant = meant
  <2>1. r \in ScheduleRows /\ r.id = id
    BY <1>7, NoChangeIs DEF ScheduleRows
  <2>2. PICK x : x = [r EXCEPT !.meant = meant]
    OBVIOUS
  <2>3. /\ x \in ScheduleRows /\ x.id = r.id /\ x.strategy = r.strategy
        /\ x.config = r.config /\ x.meant = meant
    BY <1>13, <2>1, <2>2 DEF ScheduleRows
  <2> QED BY <1>10, <2>1, <2>2, <2>3
<1>15. Told(kind, row_written.strategy, row_written.config, row_written.meant)
  BY <1>4, <1>6, <1>11, <1>12, <1>14 DEF Told
<1> QED BY <1>9, <1>14, <1>15

LEMMA OthersSaveKeeps ==
  ASSUME ScheduleConstants, ScheduleInv, OthersSave
  PROVE  ScheduleInv'
<1>1. /\ UNCHANGED <<kind, seen, form, editing, loading, dialog, requests, typed>> /\ SpendStep("others")
      /\ odd' = [odd EXCEPT !.others = TRUE, !.made = row'.id]
  BY DEF OthersSave
<1>2. PICK id \in Nat : id = NextId(row) /\ id # 0 /\ id >= odd.made
  BY NextIdIs
<1>3. PICK r : r = row'
  OBVIOUS
<1>4. PICK new \in OtherSchedules :
        LET x == [id |-> id, strategy |-> IF kind = "gen" THEN new.strategy ELSE "none",
                  config |-> new.config, active |-> TRUE, meant |-> <<>>] IN
        r = [x EXCEPT !.meant = Expected(x)]
  BY <1>2, <1>3 DEF OthersSave
<1>5. r \in ScheduleRows /\ r.id = id /\ Told(kind, r.strategy, r.config, r.meant)
  BY <1>4, RowWritten
<1>6. odd \in Odds
  BY DEF ScheduleInv, SchedulesTyped, Odds
<1>7. odd' = [odd EXCEPT !.others = TRUE, !.made = id]
  BY <1>1, <1>3, <1>5
<1>8. /\ odd' \in Odds /\ odd'.made = id /\ odd'.others /\ odd'.overlap = odd.overlap
      /\ odd'.blank = odd.blank
  BY <1>6, <1>7 DEF Odds
<1> QED BY <1>1, <1>2, <1>3, <1>5, <1>8, OthersKeep

LEMMA OthersDeleteKeeps ==
  ASSUME ScheduleInv, OthersDelete
  PROVE  ScheduleInv'
<1>1. /\ UNCHANGED <<kind, seen, form, editing, loading, dialog, requests, typed>> /\ SpendStep("others")
      /\ odd' = [odd EXCEPT !.others = TRUE] /\ row' = NoSchedule
  BY DEF OthersDelete
<1>2. odd \in Odds /\ odd.made \in Nat
  BY DEF ScheduleInv, SchedulesTyped, Odds
<1>3. /\ odd' \in Odds /\ odd'.made = odd.made /\ odd'.others /\ odd'.overlap = odd.overlap
      /\ odd'.blank = odd.blank
  BY <1>1, <1>2 DEF Odds
<1>4. odd'.made >= odd.made
  BY <1>2, <1>3
<1> QED BY <1>1, <1>3, <1>4, OthersKeep
-----------------------------------------------------------------------------
(* The answers *)

\* The handler of call i is over and has filled the card and the form from r, or left them.
LEMMA AnswerShown ==
  ASSUME ScheduleInv, NEW i \in DOMAIN requests, Ends(i), UNCHANGED <<kind, row, odd, steps>>,
         \/ UNCHANGED <<seen, form, editing>>
         \/ \E r \in ScheduleRows \cup {NoSchedule} :
              seen' = r /\ FillFrom(r) /\ (r # NoSchedule => SoundRow(r)),
         ~odd.others /\ ~odd.lost /\ ~odd.overlap => seen' = row
  PROVE  ScheduleInv'
<1>1. /\ requests' \in Seq(CallRecords) /\ loading' \in BOOLEAN /\ typed' \in BOOLEAN
      /\ dialog' \in {dialog, "tab"} /\ (typed' => typed /\ dialog' = dialog)
      /\ RequestsSound' /\ OneCall' /\ CardKnown'
  BY HandlerEnds
<1>2. /\ form' \in FormFields /\ seen' \in ScheduleRows \cup {NoSchedule}
      /\ editing' \in ScheduleRows \cup {NoSchedule}
      /\ seen' # NoSchedule => SoundRow(seen')
      /\ editing' # NoSchedule => SoundRow(editing')
      /\ seen' = NoSchedule => editing' = NoSchedule
      /\ \/ UNCHANGED <<form, editing>>
         \/ editing' # NoSchedule => form' = FormOfRow(kind, editing')
  <2>1. CASE UNCHANGED <<seen, form, editing>>
    BY <2>1 DEF ScheduleInv, SchedulesTyped, RowsSound, FormTrue
  <2>2. CASE \E r \in ScheduleRows \cup {NoSchedule} :
               seen' = r /\ FillFrom(r) /\ (r # NoSchedule => SoundRow(r))
    <3>1. PICK r \in ScheduleRows \cup {NoSchedule} :
            seen' = r /\ FillFrom(r) /\ (r # NoSchedule => SoundRow(r))
      BY <2>2
    <3>2. form' \in FormFields /\ editing' = r /\ (r # NoSchedule => form' = FormOfRow(kind, r))
      BY <3>1, Fills DEF ScheduleInv
    <3> QED BY <3>1, <3>2
  <2> QED BY <2>1, <2>2
<1>3. SchedulesTyped'
  BY <1>1, <1>2 DEF ScheduleInv, SchedulesTyped
<1>4. RowsSound'
  BY <1>2 DEF ScheduleInv, RowsSound, SoundRow
<1>5. FormTrue'
  <2>1. dialog' = "form" => dialog = "form" /\ dialog' = dialog
    BY <1>1
  <2>2. typed' => dialog' = "form"
    BY <1>1 DEF ScheduleInv, FormTrue
  <2>3. dialog' = dialog => (typed' <=> typed)
    BY DEF Ends
  <2>4. dialog' = "form" /\ ~typed' /\ editing' # NoSchedule => form' = FormOfRow(kind, editing')
    BY <1>2, <2>1, <2>3 DEF ScheduleInv, FormTrue
  <2> QED BY <1>2, <2>2, <2>4 DEF FormTrue
<1> QED BY <1>1, <1>3, <1>4, <1>5 DEF ScheduleInv

LEMMA LoadAnsweredKeeps ==
  ASSUME ScheduleInv, NEW i \in DOMAIN requests, LoadAnswered(i)
  PROVE  ScheduleInv'
<1>1. PICK c \in CallRecords : c = requests[i] /\ SoundRequest(c)
  BY DEF ScheduleInv, SchedulesTyped, RequestsSound
<1>2. /\ c.op = "load" /\ c.st # "sent" /\ Ends(i) /\ UNCHANGED <<kind, row, odd, steps>>
      /\ IF c.st = "done" THEN seen' = c.got /\ FillFrom(c.got)
         ELSE IF kind = "link" THEN seen' = NoSchedule /\ FillFrom(NoSchedule)
         ELSE UNCHANGED <<seen, form, editing>>
  BY <1>1 DEF LoadAnswered
<1>3. \/ UNCHANGED <<seen, form, editing>>
      \/ \E r \in ScheduleRows \cup {NoSchedule} :
           seen' = r /\ FillFrom(r) /\ (r # NoSchedule => SoundRow(r))
  <2>1. c.got \in ScheduleRows \cup {NoSchedule} /\ (c.got # NoSchedule => SoundRow(c.got))
    BY <1>1 DEF CallRecords, SoundRequest
  <2> QED BY <1>2, <2>1
<1>4. ~odd.others /\ ~odd.lost /\ ~odd.overlap => seen' = row
  <2> SUFFICES ASSUME ~odd.others, ~odd.lost, ~odd.overlap PROVE seen' = row
    OBVIOUS
  <2>1. CardCall(c)
    BY <1>1 DEF ScheduleInv, CardKnown
  <2> QED BY <1>2, <2>1 DEF CardCall
<1> QED BY <1>2, <1>3, <1>4, AnswerShown

LEMMA NothingToShowKeeps ==
  ASSUME ScheduleInv, NEW i \in DOMAIN requests, NothingToShow(i)
  PROVE  ScheduleInv'
<1>1. PICK c \in CallRecords : c = requests[i]
  BY DEF ScheduleInv, SchedulesTyped
<1>2. /\ c.op # "load" /\ (c.st = "refused" \/ (c.op = "trigger" /\ c.st = "done"))
      /\ Ends(i) /\ UNCHANGED <<kind, row, seen, form, editing, odd, steps>>
  BY <1>1 DEF NothingToShow
<1>3. ~odd.others /\ ~odd.lost /\ ~odd.overlap => seen' = row
  <2> SUFFICES ASSUME ~odd.others, ~odd.lost, ~odd.overlap PROVE seen' = row
    OBVIOUS
  <2>1. CardCall(c)
    BY <1>1 DEF ScheduleInv, CardKnown
  <2> QED BY <1>2, <2>1 DEF CardCall
<1> QED BY <1>2, <1>3, AnswerShown

\* The handler loads everything again; the form is emptied, or stays with the card.
LEMMA ReloadKeeps ==
  ASSUME ScheduleInv, NEW i \in DOMAIN requests, Reloads(i),
         UNCHANGED <<kind, row, dialog, typed, odd, steps>>,
         \/ UNCHANGED <<seen, form, editing>>
         \/ seen' \in {seen, NoSchedule} /\ FillFrom(NoSchedule)
  PROVE  ScheduleInv'
<1>1. PICK c \in CallRecords : c = requests[i]
  BY DEF ScheduleInv, SchedulesTyped
<1>2. PICK d : d = LoadSchedules(c.closes)
  OBVIOUS
<1>3. /\ d \in CallRecords /\ d.op = "load" /\ d.st = "sent" /\ d.got = NoSchedule
      /\ d.closes = c.closes
  BY <1>1, <1>2, LoadCall DEF CallRecords
<1>4. requests' = [requests EXCEPT ![i] = d] /\ loading' = TRUE
  BY <1>1, <1>2 DEF Reloads
<1>5. SoundRequest(d)' /\ CardCall(d)'
  BY <1>3 DEF SoundRequest, CardCall
<1>6. odd.made \in Nat
  BY DEF ScheduleInv, SchedulesTyped
<1>7. requests' \in Seq(CallRecords) /\ RequestsSound' /\ OneCall' /\ CardKnown'
  <2>1. /\ odd'.made \in Nat /\ odd'.made >= odd.made /\ odd'.overlap = odd.overlap
        /\ odd'.blank = odd.blank
    BY <1>6
  <2>2. ~odd'.others /\ ~odd'.lost /\ ~odd'.overlap =>
          ~odd.others /\ ~odd.lost /\ ~odd.overlap /\ CardCall(d)'
    BY <1>5
  <2> QED BY <1>1, <1>3, <1>4, <1>5, <2>1, <2>2, CallBecomes
<1>8. /\ form' \in FormFields /\ seen' \in {seen, NoSchedule} /\ editing' \in {editing, NoSchedule}
      /\ seen' = NoSchedule => editing' = NoSchedule
      /\ editing' # NoSchedule => form' = form /\ editing' = editing
  BY DefaultForm DEF FillFrom, ScheduleInv, SchedulesTyped, FormTrue
<1>9. SchedulesTyped'
  BY <1>4, <1>7, <1>8 DEF ScheduleInv, SchedulesTyped
<1>10. RowsSound'
  BY <1>8 DEF ScheduleInv, RowsSound, SoundRow
<1>11. FormTrue'
  BY <1>8 DEF ScheduleInv, FormTrue
<1> QED BY <1>7, <1>9, <1>10, <1>11 DEF ScheduleInv

LEMMA ChangeAnsweredKeeps ==
  ASSUME ScheduleInv, NEW i \in DOMAIN requests, ChangeAnswered(i)
  PROVE  ScheduleInv'
<1>1. PICK c \in CallRecords : c = requests[i] /\ SoundRequest(c)
  BY DEF ScheduleInv, SchedulesTyped, RequestsSound
<1>2. UNCHANGED <<kind, row, odd, steps>> /\ c.op \in {"save", "toggle"} /\ c.st = "done"
  BY <1>1 DEF ChangeAnswered
<1>3. CASE kind = "gen"
  <2>1. /\ Reloads(i) /\ UNCHANGED <<seen, dialog, typed>>
        /\ FillFrom(NoSchedule) \/ UNCHANGED <<form, editing>>
    BY <1>3 DEF ChangeAnswered
  <2> QED BY <1>2, <2>1, ReloadKeeps
<1>4. CASE kind # "gen"
  <2>1. Ends(i) /\ seen' = c.got /\ FillFrom(c.got)
    BY <1>1, <1>4 DEF ChangeAnswered
  <2>2. c.got \in ScheduleRows \cup {NoSchedule} /\ (c.got # NoSchedule => SoundRow(c.got))
    BY <1>1 DEF CallRecords, SoundRequest
  <2>3. ~odd.others /\ ~odd.lost /\ ~odd.overlap => seen' = row
    <3> SUFFICES ASSUME ~odd.others, ~odd.lost, ~odd.overlap PROVE seen' = row
      OBVIOUS
    <3>1. CardCall(c) /\ kind = "link"
      BY <1>1, <1>4 DEF ScheduleInv, SchedulesTyped, CardKnown
    <3> QED BY <1>2, <2>1, <3>1 DEF CardCall
  <2>4. \E r \in ScheduleRows \cup {NoSchedule} :
          seen' = r /\ FillFrom(r) /\ (r # NoSchedule => SoundRow(r))
    BY <2>1, <2>2
  <2> QED BY <1>2, <2>1, <2>3, <2>4, AnswerShown
<1> QED BY <1>3, <1>4

LEMMA DeleteAnsweredKeeps ==
  ASSUME ScheduleInv, NEW i \in DOMAIN requests, DeleteAnswered(i)
  PROVE  ScheduleInv'
<1>1. /\ Reloads(i) /\ UNCHANGED <<kind, row, dialog, typed, odd, steps>>
      /\ \/ UNCHANGED <<seen, form, editing>>
         \/ seen' = NoSchedule /\ FillFrom(NoSchedule)
  BY DEF DeleteAnswered
<1> QED BY <1>1, ReloadKeeps
-----------------------------------------------------------------------------
(* The specification *)

LEMMA SchedulesStart ==
  ASSUME ScheduleConstants, ScheduleInit
  PROVE  ScheduleInv
<1>1. /\ kind \in {"gen", "link"} /\ seen = NoSchedule /\ editing = NoSchedule
      /\ form = CreateDefaultScheduleForm /\ loading = FALSE /\ dialog = "closed"
      /\ requests = <<>> /\ typed = FALSE /\ steps \in ScheduleBudgets
  BY DEF ScheduleInit
<1>2. PICK made \in Nat : made = IF row = NoSchedule THEN 0 ELSE 1
  OBVIOUS
<1>3. odd = [blank |-> FALSE, overlap |-> FALSE, others |-> FALSE, lost |-> FALSE, made |-> made]
  BY <1>2 DEF ScheduleInit
<1>4. row # NoSchedule =>
        row \in ScheduleRows /\ row.id = 1 /\ Told(kind, row.strategy, row.config, row.meant)
  <2> SUFFICES ASSUME row # NoSchedule
               PROVE  /\ row \in ScheduleRows /\ row.id = 1
                      /\ Told(kind, row.strategy, row.config, row.meant)
    OBVIOUS
  <2>1. PICK r : r = row
    OBVIOUS
  <2>2. PICK new \in OtherSchedules :
          LET x == [id |-> 1, strategy |-> IF kind = "gen" THEN new.strategy ELSE "none",
                    config |-> new.config, active |-> TRUE, meant |-> <<>>] IN
          r = [x EXCEPT !.meant = Expected(x)]
    BY <2>1 DEF ScheduleInit
  <2>3. r \in ScheduleRows /\ r.id = 1 /\ Told(kind, r.strategy, r.config, r.meant)
    BY <2>2, RowWritten
  <2> QED BY <2>1, <2>3
<1>5. requests \in Seq(CallRecords) /\ DOMAIN requests = {} /\ Len(requests) = 0
  BY <1>1
<1>6. SchedulesTyped
  <2>1. {row, seen, editing} \subseteq ScheduleRows \cup {NoSchedule}
    BY <1>1, <1>4
  <2>2. odd \in [blank : BOOLEAN, overlap : BOOLEAN, others : BOOLEAN, lost : BOOLEAN, made : Nat]
    BY <1>3
  <2>3. steps \in [clicks : Nat, types : Nat, others : Nat, turns : Nat, losses : Nat]
    BY <1>1 DEF ScheduleConstants
  <2>4. form \in FormFields
    BY <1>1, DefaultForm
  <2> QED BY <1>1, <1>5, <2>1, <2>2, <2>3, <2>4 DEF SchedulesTyped
<1>7. RowsSound
  <2>1. odd.made = made
    BY <1>3
  <2> QED BY <1>1, <1>2, <1>4, <2>1 DEF RowsSound, SoundRow
<1>8. RequestsSound /\ CardKnown
  BY <1>1, <1>5 DEF RequestsSound, CardKnown
<1>9. FormTrue
  BY <1>1 DEF FormTrue
<1>10. OneCall
  BY <1>1, <1>5 DEF OneCall
<1> QED BY <1>6, <1>7, <1>8, <1>9, <1>10 DEF ScheduleInv

\* A step that neither the page nor the row shows.
LEMMA NothingSeenKeeps ==
  ASSUME ScheduleInv,
         UNCHANGED <<kind, row, seen, form, editing, loading, dialog, requests, typed, odd, steps>>
  PROVE  ScheduleInv'
BY DEF ScheduleInv, SchedulesTyped, RowsSound, RequestsSound, FormTrue, OneCall, CardKnown,
       SoundRow, SoundRequest, CardCall

LEMMA ScheduleStep ==
  ASSUME ScheduleConstants, ScheduleInv, [ScheduleNext]_scheduleVars
  PROVE  ScheduleInv'
<1>1. CASE UNCHANGED scheduleVars
  BY <1>1, NothingSeenKeeps DEF scheduleVars
<1>2. CASE EnterTab
  BY <1>2, EnterTabKeeps
<1>3. CASE LeaveTab
  BY <1>3, LeaveTabKeeps
<1>4. CASE OpenForm
  BY <1>4, OpenFormKeeps
<1>5. CASE Type
  BY <1>5, TypeKeeps
<1>6. CASE CancelForm \/ AskDelete \/ CancelDelete
  <2>1. /\ UNCHANGED <<kind, row, seen, form, editing, loading, requests, odd, steps>>
        /\ dialog # "closed" /\ dialog' \in {"tab", "asking"} /\ (typed' = typed \/ typed' = FALSE)
        /\ dialog # "form" \/ typed' = FALSE
    BY <1>6 DEF CancelForm, AskDelete, CancelDelete
  <2> QED BY <2>1, DialogKeeps
<1>7. CASE SubmitForm
  BY <1>7, SubmitFormKeeps
<1>8. CASE ToggleSchedule
  BY <1>8, ToggleScheduleKeeps
<1>9. CASE TriggerSchedule
  BY <1>9, TriggerScheduleKeeps
<1>10. CASE ConfirmDelete
  BY <1>10, ConfirmDeleteKeeps
<1>11. CASE OthersSave
  BY <1>11, OthersSaveKeeps
<1>12. CASE OthersDelete
  BY <1>12, OthersDeleteKeeps
<1>13. ASSUME NEW i \in DOMAIN requests,
              ServeCall(i) \/ LoseCall(i) \/ LoadAnswered(i) \/ ChangeAnswered(i)
              \/ DeleteAnswered(i) \/ NothingToShow(i)
       PROVE  ScheduleInv'
  <2>1. CASE ServeCall(i)
    BY <2>1, ServeCallKeeps
  <2>2. CASE LoseCall(i)
    BY <2>2, LoseCallKeeps
  <2>3. CASE LoadAnswered(i)
    BY <2>3, LoadAnsweredKeeps
  <2>4. CASE ChangeAnswered(i)
    BY <2>4, ChangeAnsweredKeeps
  <2>5. CASE DeleteAnswered(i)
    BY <2>5, DeleteAnsweredKeeps
  <2>6. CASE NothingToShow(i)
    BY <2>6, NothingToShowKeeps
  <2> QED BY <1>13, <2>1, <2>2, <2>3, <2>4, <2>5, <2>6
<1>14. CASE TickTakes \/ TickRuns \/ TickGivesUp
  <2>1. UNCHANGED <<kind, row, seen, form, editing, loading, dialog, requests, typed, odd, steps>>
    BY <1>14 DEF TickTakes, TickRuns, TickGivesUp
  <2> QED BY <2>1, NothingSeenKeeps
<1> QED BY <1>1, <1>2, <1>3, <1>4, <1>5, <1>6, <1>7, <1>8, <1>9, <1>10, <1>11, <1>12, <1>13, <1>14
        DEF ScheduleNext, UseSchedule

\* What TypedIsKept says of a step.
TypedStays ==
  \/ dialog # "form" \/ ~typed \/ dialog' # "form" \/ steps'.types # steps.types
  \/ odd.blank \/ odd.overlap \/ (\E i \in DOMAIN requests : requests[i].closes = "form")
  \/ form' = form

\* While a dialog is open the only answer that comes is the one that closes it.
LEMMA AnswersCloseTheForm ==
  ASSUME ScheduleInv, NEW i \in DOMAIN requests
  PROVE  TypedStays
BY DEF ScheduleInv, OneCall, TypedStays

LEMMA TypedStep ==
  ASSUME ScheduleInv, [ScheduleNext]_scheduleVars
  PROVE  TypedStays
<1>1. CASE Type
  BY <1>1, TypeKeeps DEF TypedStays
<1>2. CASE OpenForm
  BY <1>2 DEF OpenForm, TypedStays
<1>3. CASE form' = form
  BY <1>3 DEF TypedStays
<1>4. CASE \E i \in DOMAIN requests : TRUE
  BY <1>4, AnswersCloseTheForm
<1>5. \/ Type \/ OpenForm \/ form' = form \/ \E i \in DOMAIN requests : TRUE
  BY DEF ScheduleNext, UseSchedule, TickTakes, TickRuns, TickGivesUp, scheduleVars, EnterTab, LeaveTab, CancelForm, SubmitForm, ToggleSchedule,
         TriggerSchedule, AskDelete, ConfirmDelete, CancelDelete, OthersSave, OthersDelete
<1> QED BY <1>1, <1>2, <1>3, <1>4, <1>5

\* What the scheduler knows are rows that were made.
TicksTyped == ran \subseteq 1..odd.made /\ tick \in 0..odd.made

\* Ids are not given twice.
LEMMA MadeGrows ==
  ASSUME ScheduleConstants, ScheduleInv, UseSchedule
  PROVE  odd'.made \in Nat /\ odd'.made >= odd.made
<1>1. odd \in Odds /\ odd.made \in Nat
  BY DEF ScheduleInv, SchedulesTyped, Odds
<1>2. CASE odd'.made = odd.made
  BY <1>1, <1>2
<1>3. CASE OthersSave
  <2>1. PICK id \in Nat : id = NextId(row) /\ id >= odd.made
    BY NextIdIs
  <2>2. PICK new \in OtherSchedules :
          LET x == [id |-> id, strategy |-> IF kind = "gen" THEN new.strategy ELSE "none",
                    config |-> new.config, active |-> TRUE, meant |-> <<>>] IN
          row' = [x EXCEPT !.meant = Expected(x)]
    BY <1>3, <2>1 DEF OthersSave
  <2>3. row'.id = id
    BY <2>2
  <2>4. odd' = [odd EXCEPT !.others = TRUE, !.made = row'.id]
    BY <1>3 DEF OthersSave
  <2> QED BY <1>1, <2>1, <2>3, <2>4 DEF Odds
<1>4. ASSUME NEW i \in DOMAIN requests, ServeCall(i)
      PROVE  odd'.made \in Nat /\ odd'.made >= odd.made
  <2>1. PICK c \in CallRecords : c = requests[i] /\ SoundRequest(c)
    BY DEF ScheduleInv, SchedulesTyped, RequestsSound
  <2>2. CASE Accepted(c)
    <3>1. /\ row' = RowAfter(c)
          /\ odd' = [odd EXCEPT !.made = IF row' # NoSchedule THEN row'.id ELSE @]
      BY <1>4, <2>1, <2>2 DEF ServeCall
    <3>2. row' # NoSchedule => row'.id \in Nat /\ row'.id >= odd.made
      BY <2>1, <2>2, <3>1, RowAfterIs
    <3> QED BY <1>1, <3>1, <3>2 DEF Odds
  <2>3. CASE ~Accepted(c)
    BY <1>1, <1>4, <2>1, <2>3 DEF ServeCall
  <2> QED BY <2>2, <2>3
<1>5. \/ odd'.made = odd.made \/ OthersSave \/ \E i \in DOMAIN requests : ServeCall(i)
  BY <1>1 DEF UseSchedule, Odds, EnterTab, LeaveTab, OpenForm, Type, CancelForm, SubmitForm,
              ToggleSchedule, TriggerSchedule, AskDelete, ConfirmDelete, CancelDelete, Send,
              OthersDelete, LoseCall, LoadAnswered, ChangeAnswered, DeleteAnswered, NothingToShow
<1> QED BY <1>2, <1>3, <1>4, <1>5

LEMMA TicksStep ==
  ASSUME ScheduleConstants, ScheduleInv, TicksTyped, [ScheduleNext]_scheduleVars
  PROVE  TicksTyped'
<1>1. odd.made \in Nat
  BY DEF ScheduleInv, SchedulesTyped
<1>2. CASE UseSchedule /\ UNCHANGED <<ran, tick>>
  BY <1>1, <1>2, MadeGrows DEF TicksTyped
<1>3. CASE TickTakes
  <2>1. row.id \in 1..odd.made
    BY <1>3 DEF TickTakes, ScheduleInv, RowsSound, SoundRow
  <2> QED BY <1>1, <1>3, <2>1 DEF TickTakes, TicksTyped
<1>4. CASE TickRuns
  BY <1>1, <1>4 DEF TickRuns, TicksTyped
<1>5. CASE TickGivesUp
  BY <1>1, <1>5 DEF TickGivesUp, TicksTyped
<1>6. CASE UNCHANGED scheduleVars
  BY <1>6 DEF scheduleVars, TicksTyped
<1> QED BY <1>2, <1>3, <1>4, <1>5, <1>6 DEF ScheduleNext

LEMMA ScheduleInvariant == ScheduleSpec => []ScheduleInv
<1>1. ScheduleInit => ScheduleInv
  BY ScheduleAssumption, SchedulesStart
<1>2. ScheduleInv /\ [ScheduleNext]_scheduleVars => ScheduleInv'
  BY ScheduleAssumption, ScheduleStep
<1> QED BY <1>1, <1>2, PTL DEF ScheduleSpec

LEMMA TicksInvariant == ScheduleSpec => []TicksTyped
<1>1. ScheduleInit => TicksTyped
  BY DEF ScheduleInit, TicksTyped
<1>2. ScheduleInv /\ TicksTyped /\ [ScheduleNext]_scheduleVars => TicksTyped'
  BY ScheduleAssumption, TicksStep
<1> QED BY <1>1, <1>2, ScheduleInvariant, PTL DEF ScheduleSpec

\* The fields of the form hold what the form has for them, the dialog is one there is, and unless
\* requests overlapped the buttons are disabled exactly while one is under way: however the
\* section, the hook and the handlers of a schedule interleave.
THEOREM ScheduleTypes == ScheduleSpec => []ScheduleTypeOK
<1>1. ScheduleInv /\ TicksTyped => ScheduleTypeOK
  <2> SUFFICES ASSUME ScheduleInv, TicksTyped PROVE ScheduleTypeOK
    OBVIOUS
  <2>1. /\ kind \in {"gen", "link"} /\ dialog \in {"closed", "tab", "form", "asking"}
        /\ (typed => dialog = "form")
    BY DEF ScheduleInv, SchedulesTyped, FormTrue
  <2>2. \A r \in {row, seen, editing} \ {NoSchedule} : r.id \in 1..odd.made
    BY DEF ScheduleInv, RowsSound, SoundRow
  <2>3. \A f \in DOMAIN FormValues : form[f] \in FormValues[f]
    <3>1. form \in FormFields
      BY DEF ScheduleInv, SchedulesTyped
    <3>2. /\ form.strategy \in Strategies /\ form.isActive \in BOOLEAN
          /\ form.dailyTime \in {"nine", "noon"} /\ form.weeklyTime \in {"nine", "noon"}
          /\ form.weeklyDay \in {"mon", "tue"}
          /\ form.customCron \in {"at nine", "six fields", "no cron"}
      BY <3>1 DEF FormFields
    <3>3. /\ DOMAIN FormValues = {"strategy", "dailyTime", "weeklyTime", "weeklyDay", "customCron",
                                  "isActive"}
          /\ FormValues.strategy = Strategies /\ FormValues.isActive = BOOLEAN
          /\ FormValues.dailyTime = {"nine", "noon"} /\ FormValues.weeklyTime = {"nine", "noon"}
          /\ FormValues.weeklyDay = {"mon", "tue"}
          /\ FormValues.customCron = {"at nine", "six fields", "no cron"}
      BY DEF FormValues, Strategies
    <3> QED BY <3>2, <3>3, Zenon
  <2>4. ~odd.overlap => Len(requests) <= 1 /\ (loading <=> requests # <<>>)
    BY DEF ScheduleInv, OneCall
  <2> QED BY <2>1, <2>2, <2>3, <2>4 DEF ScheduleTypeOK, TicksTyped
<1> QED BY <1>1, ScheduleInvariant, TicksInvariant, PTL

\* A schedule runs as the one who saved it was shown that it would, whatever the API stored, the
\* card shows the schedule there is when nothing is under way, and no answer takes away what was
\* typed into an open dialog: the forms, the hook and the handlers of ScheduleForms, for any
\* stored configurations and any number of requests.
THEOREM FormsStayTrue == ScheduleSpec => FormsAreTrue
<1>1. ScheduleInv => CardIsTrue
  BY DEF ScheduleInv, CardKnown, CardIsTrue
<1>2. ScheduleInv => SavedAsSeen
  <2> SUFFICES ASSUME ScheduleInv, row # NoSchedule PROVE SavedAsSeen
    BY DEF SavedAsSeen
  <2>1. Told(kind, row.strategy, row.config, row.meant)
    BY DEF ScheduleInv, RowsSound, SoundRow
  <2>2. \/ Runs(row) = RunsAs(kind, row.strategy, row.config)
        \/ row.id \in ran /\ RunsAs(kind, row.strategy, row.config) = <<"once">>
    BY DEF Runs, LastRun, ServerStrategy, RunsAs, ComputeScheduleNextRun
  <2> QED BY <2>1, <2>2 DEF Told, Unshown, SavedAsSeen
<1>3. ScheduleInv /\ [ScheduleNext]_scheduleVars => [TypedStays]_scheduleVars
  BY ScheduleAssumption, TypedStep
<1>4. ScheduleSpec => [][TypedStays]_scheduleVars
  BY <1>3, ScheduleInvariant, PTL DEF ScheduleSpec
<1>5. [][TypedStays]_scheduleVars <=> TypedIsKept
  BY DEF TypedStays, TypedIsKept
<1> QED BY <1>1, <1>2, <1>4, <1>5, ScheduleInvariant, PTL DEF FormsAreTrue
====
