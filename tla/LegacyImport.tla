---------------------------- MODULE LegacyImport ----------------------------
(***************************************************************************)
(* The import of sites that exist already: the dialog of the project page  *)
(* that chooses the domains, the job with an item and a task for each of   *)
(* them, the workers that take the tasks and count what they did, and the  *)
(* hook that polls the job until it has ended.                             *)
(***************************************************************************)
EXTENDS Naturals, FiniteSets

CONSTANTS
  Jobs,           \* the imports a behaviour may start
  Domains,        \* the domains of the project with a server
  NoJob,
  Sites,          \* what a domain may be at the outset
  Reruns,         \* how often the queue hands out a task that failed again
  MaxPolls,       \* bound: polls under way at once
  ImportBudgets   \* bound: imports, clicks in the dialog and faults of a behaviour

VARIABLES
  jobs,      \* jobs[j]: the row and what the request asked for
  items,     \* items[j][d]: status of the item
  runs,      \* runs[j][d]: the task and the worker that has it
  sites,     \* sites[d]: whether the page has a link, the link of the domain's row, its deployment
  modal,     \* the dialog
  hook,      \* useLegacyImport: importing, the timer it knows, the intervals that run, the job shown
  asks,      \* requests to start under way
  polls,     \* polls of a job under way
  progress,  \* the progress window is wanted
  ready,     \* the domains the project page knows to be served over SSH
  past,      \* history: an import was started while one was asked about; an answer overtook a later one
  left       \* what is left of an element of ImportBudgets

serverVars == <<jobs, items, runs, sites>>
tabVars == <<modal, hook, asks, polls, progress, ready, past>>
importVars == <<serverVars, tabVars, left>>
-----------------------------------------------------------------------------
Finished == {"completed", "failed"}

\* Before the link: probe, sync and decode; after it: artifacts and inventory.
Working == {"fetch", "link", "linked", "record"}

NoJobRow == [st |-> "none", doms |-> {}, todo |-> {}, force |-> FALSE, done |-> 0, failed |-> 0,
          again |-> FALSE, short |-> FALSE]
NoRun == [at |-> "none", left |-> 0, saw |-> "none", ok |-> FALSE, counted |-> FALSE,
          say |-> "none", made |-> 0, torn |-> FALSE]
Shut == [at |-> "closed", doms |-> {}, force |-> FALSE, loading |-> FALSE]

SpendOn(kind) == left[kind] > 0 /\ left' = [left EXCEPT ![kind] = @ - 1]
At(j, d, stages) == runs[j][d].at \in stages

ImportInit ==
  /\ jobs = [j \in Jobs |-> NoJobRow]
  /\ items = [j \in Jobs |-> [d \in Domains |-> "none"]]
  /\ runs = [j \in Jobs |-> [d \in Domains |-> NoRun]]
  /\ \E s \in Sites : sites = [d \in Domains |-> s]
  /\ modal = Shut
  /\ hook = [importing |-> FALSE, timer |-> NoJob, ticking |-> {}, job |-> NoJob, st |-> "none"]
  /\ asks = {} /\ polls = {} /\ progress = FALSE
  /\ ready \in SUBSET Domains \ {{}}
  /\ past = [overlapped |-> FALSE, astray |-> FALSE]
  /\ left \in ImportBudgets
-----------------------------------------------------------------------------
(* The dialog *)

Covered == progress /\ hook.job # NoJob      \* the progress window is in front

Open ==
  /\ modal.at = "closed" /\ ~Covered /\ left.starts > 0
  /\ modal' = [Shut EXCEPT !.at = "select", !.doms = ready]
  /\ UNCHANGED <<serverVars, hook, asks, polls, progress, ready, past, left>>

Close ==
  /\ SpendOn("clicks") /\ modal.at # "closed"
  /\ modal' = Shut
  /\ UNCHANGED <<serverVars, hook, asks, polls, progress, ready, past>>

\* The boxes answer while the preview loads.
Toggle ==
  /\ SpendOn("clicks") /\ modal.at = "select"
  /\ \/ \E d \in Domains :
          modal' = [modal EXCEPT !.doms = IF d \in @ THEN @ \ {d} ELSE @ \cup {d}]
     \/ modal' = [modal EXCEPT !.doms = IF @ = Domains THEN {} ELSE Domains]
  /\ UNCHANGED <<serverVars, hook, asks, polls, progress, ready, past>>

ChooseForce ==
  /\ SpendOn("clicks") /\ modal.at = "preview"
  /\ modal' = [modal EXCEPT !.force = ~@]
  /\ UNCHANGED <<serverVars, hook, asks, polls, progress, ready, past>>

Back ==
  /\ SpendOn("clicks") /\ modal.at = "preview"
  /\ modal' = [modal EXCEPT !.at = "select"]
  /\ UNCHANGED <<serverVars, hook, asks, polls, progress, ready, past>>

Preview ==
  /\ modal.at = "select" /\ ~modal.loading /\ modal.doms # {}
  /\ modal' = [modal EXCEPT !.loading = TRUE]
  /\ UNCHANGED <<serverVars, hook, asks, polls, progress, ready, past, left>>

PreviewArrives ==
  /\ modal.loading
  /\ \/ modal' = [modal EXCEPT !.at = "preview", !.loading = FALSE] /\ UNCHANGED left
     \/ modal' = [modal EXCEPT !.loading = FALSE] /\ SpendOn("faults")
  /\ UNCHANGED <<serverVars, hook, asks, polls, progress, ready, past>>

\* What is chosen now is imported.  Nothing asks whether an import is under way.
Start(j) ==
  /\ SpendOn("starts") /\ modal.at = "preview" /\ jobs[j] = NoJobRow
  /\ jobs' = [jobs EXCEPT ![j] = [NoJobRow EXCEPT !.st = "asked", !.doms = modal.doms,
                                                !.force = modal.force]]
  /\ modal' = Shut /\ progress' = TRUE /\ asks' = asks \cup {j}
  /\ hook' = [hook EXCEPT !.importing = TRUE]
  /\ past' = [past EXCEPT !.overlapped = @ \/ hook.importing \/ hook.ticking # {} \/ polls # {}]
  /\ UNCHANGED <<items, runs, sites, polls, ready>>

\* Closed once the import is over, the project is loaded again.
CloseProgress ==
  /\ Covered /\ SpendOn("clicks")
  /\ progress' = FALSE
  /\ ready' \in IF hook.importing THEN {ready} ELSE {ready, {d \in Domains : sites[d].ssh}}
  /\ UNCHANGED <<serverVars, modal, hook, asks, polls, past>>
-----------------------------------------------------------------------------
(* The server *)

\* The job, with the number of items it is to have; a request without domains is refused.
Submit(j) ==
  /\ jobs[j].st = "asked"
  /\ jobs' = [jobs EXCEPT ![j].st = IF jobs[j].doms = {} THEN "refused" ELSE "pending",
                          ![j].todo = jobs[j].doms]
  /\ UNCHANGED <<items, runs, sites, tabVars, left>>

\* The request is lost.
SubmitLost(j) ==
  /\ SpendOn("faults") /\ jobs[j].st = "asked"
  /\ jobs' = [jobs EXCEPT ![j].st = "refused"]
  /\ UNCHANGED <<items, runs, sites, tabVars>>

\* An item and its task.
AddItem(j, d) ==
  /\ d \in jobs[j].todo
  /\ jobs' = [jobs EXCEPT ![j].todo = @ \ {d}]
  /\ items' = [items EXCEPT ![j][d] = "pending"]
  /\ runs' = [runs EXCEPT ![j][d] = [NoRun EXCEPT !.at = "queued", !.left = Reruns]]
  /\ UNCHANGED <<sites, tabVars, left>>

\* The row or the task cannot be created: that is logged, and the next item has its turn.
AddFails(j, d) ==
  /\ SpendOn("faults") /\ d \in jobs[j].todo
  /\ jobs' = [jobs EXCEPT ![j].todo = @ \ {d}, ![j].short = TRUE]
  /\ \E st \in {"none", "pending"} : items' = [items EXCEPT ![j][d] = st]
  /\ UNCHANGED <<runs, sites, tabVars>>
-----------------------------------------------------------------------------
(* The workers *)

Take(j, d) ==
  /\ At(j, d, {"queued"})
  /\ runs' = [runs EXCEPT ![j][d].at = "fetch", ![j][d].saw = sites[d].link]
  /\ jobs' = [jobs EXCEPT ![j].st = IF @ = "pending" THEN "running" ELSE @]
  /\ UNCHANGED <<items, sites, tabVars, left>>

Fetch(j, d) ==
  /\ At(j, d, {"fetch"})
  /\ items' = [items EXCEPT ![j][d] = "running"]
  /\ runs' = [runs EXCEPT ![j][d].at = "link"]
  /\ UNCHANGED <<jobs, sites, tabVars, left>>

\* (mistake: a link task that waits is no reason to skip)
SkipsInserted(j, d) ==
  LET saw == runs[j][d].saw IN
  \/ ~sites[d].html /\ saw = "none"
  \/ ~jobs[j].force /\ saw \in (IF sites[d].html THEN {"same"} ELSE {"same", "other"})

\* There is no link to record, or, unless overwriting was asked for, the one the page has is
\* in place, or the one of the settings is or waits; by the domain as the task read it.
Skips(j, d) ==
  LET saw == runs[j][d].saw IN
  \/ ~sites[d].html /\ saw = "none"
  \/ ~jobs[j].force /\ saw \in (IF sites[d].html THEN {"same"} ELSE {"pending", "same", "other"})

\* The link's task is created,
Baseline(j, d) ==
  /\ At(j, d, {"link"})
  /\ IF Skips(j, d)
     THEN runs' = [runs EXCEPT ![j][d].at = "record"]
     ELSE runs' = [runs EXCEPT ![j][d].at = "linked", ![j][d].made = @ + 1]
  /\ UNCHANGED <<jobs, items, sites, tabVars, left>>

\* and in a step of its own the domain is told.
Linked(j, d) ==
  /\ At(j, d, {"linked"})
  /\ sites' = [sites EXCEPT ![d].link = IF sites[d].html THEN "same" ELSE "pending"]
  /\ runs' = [runs EXCEPT ![j][d].at = "record"]
  /\ UNCHANGED <<jobs, items, tabVars, left>>

RecordItem(j, d) ==
  /\ At(j, d, {"record"})
  /\ items' = [items EXCEPT ![j][d] = "success"]
  /\ sites' = [sites EXCEPT ![d].ssh = TRUE]
  /\ runs' = [runs EXCEPT ![j][d].at = "count", ![j][d].ok = TRUE]
  /\ UNCHANGED <<jobs, tabVars, left>>

StepFails(j, d) ==
  /\ SpendOn("faults") /\ At(j, d, Working)
  /\ items' = [items EXCEPT ![j][d] = "failed"]
  /\ runs' = [runs EXCEPT ![j][d].at = "count", ![j][d].ok = FALSE,
                          ![j][d].torn = @ \/ At(j, d, {"linked"})]
  /\ UNCHANGED <<jobs, sites, tabVars>>

Count(j, d) ==
  /\ At(j, d, {"count"})
  /\ jobs' = [jobs EXCEPT ![j].done = IF runs[j][d].ok THEN @ + 1 ELSE @,
                          ![j].failed = IF runs[j][d].ok THEN @ ELSE @ + 1]
  /\ runs' = [runs EXCEPT ![j][d].at = "look", ![j][d].counted = TRUE]
  /\ UNCHANGED <<items, sites, tabVars, left>>

Total(j) == Cardinality(jobs[j].doms)
Processed(j) == jobs[j].done + jobs[j].failed

\* (mistake: the item at hand is taken not to be counted yet)
AllButOne(j) == Processed(j) + 1 >= Total(j)

\* All items are processed, by the counters.
AllProcessed(j) == Processed(j) >= Total(j)

LookAtItems(j, d) ==
  /\ At(j, d, {"look"})
  /\ runs' = [runs EXCEPT
       ![j][d].at = IF AllProcessed(j) THEN "close" ELSE "end",
       ![j][d].say = IF jobs[j].failed > 0 /\ jobs[j].done = 0 THEN "failed" ELSE "completed"]
  /\ UNCHANGED <<jobs, items, sites, tabVars, left>>

Finish(j, d) ==
  /\ At(j, d, {"close"})
  /\ jobs' = [jobs EXCEPT ![j].st = runs[j][d].say]
  /\ runs' = [runs EXCEPT ![j][d].at = "end"]
  /\ UNCHANGED <<items, sites, tabVars, left>>

\* The queue hands the task out again while it has tries left.
Requeue(j, d) ==
  runs' = [runs EXCEPT ![j][d].at = IF runs[j][d].left > 0 THEN "queued" ELSE "none",
                       ![j][d].left = IF runs[j][d].left > 0 THEN @ - 1 ELSE 0,
                       ![j][d].torn = @ \/ At(j, d, {"linked"})]

Leave(j, d) ==
  /\ At(j, d, {"end"})
  /\ IF runs[j][d].ok THEN runs' = [runs EXCEPT ![j][d].at = "none"] /\ UNCHANGED jobs
     ELSE /\ Requeue(j, d)
          /\ jobs' = [jobs EXCEPT ![j].again = @ \/ runs[j][d].left > 0]
  /\ UNCHANGED <<items, sites, tabVars, left>>

Crash(j, d) ==
  /\ SpendOn("faults") /\ At(j, d, Working \cup {"count", "look", "close", "end"})
  /\ Requeue(j, d)
  /\ jobs' = [jobs EXCEPT ![j].again = @ \/ (runs[j][d].counted /\ runs[j][d].left > 0),
                          ![j].short = @ \/ runs[j][d].left = 0]
  /\ UNCHANGED <<items, sites, tabVars>>
-----------------------------------------------------------------------------
(* The hook *)

Poll(j, first) == [job |-> j, first |-> first, last |-> TRUE, got |-> "none"]

Started(j) ==
  /\ j \in asks /\ jobs[j].st \notin {"asked", "refused"} /\ jobs[j].todo = {}
  /\ asks' = asks \ {j}
  /\ polls' = polls \cup {Poll(j, TRUE)}
  /\ UNCHANGED <<serverVars, modal, hook, progress, ready, past, left>>

\* A refusal, or an answer that is lost.
StartFails(j) ==
  /\ j \in asks /\ (IF jobs[j].st = "refused" THEN UNCHANGED left ELSE SpendOn("faults"))
  /\ asks' = asks \ {j}
  /\ hook' = [hook EXCEPT !.importing = FALSE]
  /\ UNCHANGED <<serverVars, modal, polls, progress, ready, past>>

\* Identical requests that are not served yet count as one.
PollTicks(j) ==
  /\ j \in hook.ticking /\ Cardinality(polls) < MaxPolls
  /\ polls' = polls \cup {Poll(j, FALSE)}
  /\ UNCHANGED <<serverVars, modal, hook, asks, progress, ready, past, left>>

\* The answers read before this one are overtaken.
ReadJob(j) ==
  /\ \E p \in polls :
       /\ p.job = j /\ p.got = "none"
       /\ polls' = {[q EXCEPT !.last = q.got = "none"] : q \in polls \ {p}}
                    \cup {[p EXCEPT !.got = jobs[j].st]}
  /\ UNCHANGED <<serverVars, modal, hook, asks, progress, ready, past, left>>

\* (mistake: polling stops as soon as something ended)
StopEarly(h, st) ==
  IF st # "pending"
  THEN [h EXCEPT !.importing = FALSE, !.ticking = @ \ {h.timer}, !.timer = NoJob] ELSE h

\* (mistake: the cleared timer is not forgotten)
StopKeepsTimer(h, st) ==
  IF st \in Finished THEN [h EXCEPT !.importing = FALSE, !.ticking = @ \ {h.timer}] ELSE h

\* (mistake: only the timer is put away)
StopTimerOnly(h, st) ==
  IF st \in Finished THEN [h EXCEPT !.ticking = @ \ {h.timer}, !.timer = NoJob] ELSE h

\* The interval of the timer is cleared once the job has ended.
Stop(h, st) ==
  IF st \in Finished
  THEN [h EXCEPT !.importing = FALSE, !.ticking = @ \ {h.timer}, !.timer = NoJob] ELSE h

\* The first poll is awaited: the interval is set after it, whatever it said.
Tock(h, j, first) ==
  IF first THEN [h EXCEPT !.timer = j, !.ticking = @ \cup {j}] ELSE h

PollArrives(j) ==
  /\ \E p \in polls :
       /\ p.job = j /\ p.got # "none"
       /\ polls' = polls \ {p}
       /\ hook' = Tock(Stop([hook EXCEPT !.job = j, !.st = p.got], p.got), j, p.first)
       /\ past' = [past EXCEPT !.astray = ~p.last]
  /\ UNCHANGED <<serverVars, modal, asks, progress, ready, left>>

PollFails(j) ==
  /\ SpendOn("faults")
  /\ \E p \in polls :
       p.job = j /\ polls' = polls \ {p} /\ hook' = Tock(hook, j, p.first)
  /\ UNCHANGED <<serverVars, modal, asks, progress, ready, past>>
-----------------------------------------------------------------------------
WorkerStep(j, d) ==
  Take(j, d) \/ Fetch(j, d) \/ Baseline(j, d) \/ Linked(j, d) \/ RecordItem(j, d) \/ Count(j, d)
  \/ LookAtItems(j, d) \/ Finish(j, d) \/ Leave(j, d)

ImportNext ==
  \/ Open \/ Close \/ Toggle \/ ChooseForce \/ Back \/ Preview \/ PreviewArrives \/ CloseProgress
  \/ \E j \in Jobs :
       \/ Start(j) \/ Submit(j) \/ SubmitLost(j) \/ Started(j) \/ StartFails(j)
       \/ PollTicks(j) \/ ReadJob(j) \/ PollArrives(j) \/ PollFails(j)
       \/ \E d \in Domains :
            AddItem(j, d) \/ AddFails(j, d) \/ WorkerStep(j, d) \/ StepFails(j, d) \/ Crash(j, d)

ImportSpec == ImportInit /\ [][ImportNext]_importVars
-----------------------------------------------------------------------------
LinkStates == {"none", "set", "pending", "same", "other"}

\* What is assumed of the constants: an import names finitely many domains.
ImportConstants ==
  /\ IsFiniteSet(Domains) /\ NoJob \notin Jobs /\ Reruns \in Nat
  /\ Sites \subseteq [html : BOOLEAN, link : LinkStates, ssh : BOOLEAN]

ASSUME ImportAssumption == ImportConstants

Answers == {"none", "pending", "running"} \cup Finished

ImportTypeOK ==
  /\ jobs \in [Jobs -> [st : Answers \cup {"asked", "refused"}, doms : SUBSET Domains,
                        todo : SUBSET Domains, force : BOOLEAN, done : Nat, failed : Nat,
                        again : BOOLEAN, short : BOOLEAN]]
  /\ items \in [Jobs -> [Domains -> {"none", "pending", "running", "success", "failed"}]]
  /\ runs \in [Jobs -> [Domains ->
       [at : Working \cup {"none", "queued", "count", "look", "close", "end"}, left : 0..Reruns,
        saw : LinkStates, ok : BOOLEAN, counted : BOOLEAN, say : {"none"} \cup Finished,
        made : Nat, torn : BOOLEAN]]]
  /\ sites \in [Domains -> [html : BOOLEAN, link : LinkStates, ssh : BOOLEAN]]
  /\ modal \in [at : {"closed", "select", "preview"}, doms : SUBSET Domains, force : BOOLEAN,
                loading : BOOLEAN]
  /\ hook \in [importing : BOOLEAN, timer : Jobs \cup {NoJob}, ticking : SUBSET Jobs,
               job : Jobs \cup {NoJob}, st : Answers]
  /\ hook.timer # NoJob => hook.timer \in hook.ticking
  /\ asks \subseteq Jobs /\ progress \in BOOLEAN /\ ready \subseteq Domains
  /\ polls \subseteq [job : Jobs, first : BOOLEAN, last : BOOLEAN, got : Answers]

\* What a job says when it ends is true, as long as no task that was counted is tried
\* again: every item ended, and it failed only if all of them did.
SaysWhatWas ==
  \A j \in Jobs :
    jobs[j].st \in Finished /\ ~jobs[j].again =>
      /\ \A d \in jobs[j].doms : items[j][d] \in {"success", "failed"}
      /\ jobs[j].st = "failed" <=> \A d \in jobs[j].doms : items[j][d] = "failed"

\* A task that is tried again makes no second link task, unless the user asked to overwrite
\* or the domain could not be told of the first.
OneLinkTask ==
  \A j \in Jobs, d \in Domains :
    ~jobs[j].force /\ ~runs[j][d].torn => runs[j][d].made <= 1

\* A job that is shown as under way is followed to its end, unless a second import was
\* started meanwhile or the last answer was out of turn.
FollowedToTheEnd ==
  hook.job # NoJob /\ hook.st \notin Finished /\ ~past.overlapped /\ ~past.astray =>
    hook.job \in hook.ticking \/ \E p \in polls : p.job = hook.job

\* A job is followed to its end and says there what was done, once for each domain.
ImportSafe == SaysWhatWas /\ OneLinkTask /\ FollowedToTheEnd

\* The button "importing" comes down, unless an item got no task, a task died with its
\* last worker, or a second import was started.
ImportEnds ==
  hook.importing ~> ~hook.importing \/ past.overlapped \/ \E j \in Jobs : jobs[j].short
==============================================================================
