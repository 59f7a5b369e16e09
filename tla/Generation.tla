------------------------------ MODULE Generation ------------------------------
(***************************************************************************)
(* The life of the site generations of ONE domain: the rows of the         *)
(* `generations` table, the domain's status, the asynq task queue and the  *)
(* three kinds of process that share them without transactions:            *)
(*   - the API handlers of cmd/authserver (generate, pause, resume,        *)
(*     cancel, delete, and the stale-transition recovery of GET),          *)
(*   - the scheduler tick (queue items, retries),                          *)
(*   - the workers (processGeneration and the step pipeline).              *)
(*                                                                         *)
(* One action is the code between two points where another process can     *)
(* run: a database read with the branch taken on it, or a write with the   *)
(* writes that directly follow it.  Domains share nothing but the worker   *)
(* slots, so one domain is modelled.  A step of the pipeline is known by   *)
(* its number and by the artifact it leaves; logs, progress, prompts, the  *)
(* checkpoint column (written, never read back) and the generation type    *)
(* (every generation of the model has the same one) are abstracted.        *)
(***************************************************************************)
EXTENDS Integers, FiniteSets

CONSTANTS
    MaxGens,        \* bound: generation rows ever created for the domain
    NSteps,         \* steps of the pipeline; the last one is PublishStep
    Workers,        \* asynq worker goroutines
    Clients,        \* HTTP requests served at the same time
    MaxRequests,    \* bound: requests served in one behaviour
    MaxTasks,       \* bound: tasks alive in Redis at the same time
    MaxItems,       \* bound: rows of generation_queue the schedule ever adds
    Redeliveries,   \* asynq.MaxRetry of a generate task
    MaxRetries,     \* retry.MaxRetries
    Ops,            \* requests the clients send
    Forces,         \* force_step values they send, 0 is "no force_step"
    Faults          \* failures that happen: see FaultKinds

OpKinds == {"generate", "pause", "resume", "cancel", "view", "delete"}
FaultKinds == {"step", "transient", "publish", "setup", "enqueue",
               "worker", "scheduler", "client"}

ASSUME BoundsAssumption ==
    /\ MaxGens \in Nat /\ NSteps \in Nat \ {0}
    /\ MaxRequests \in Nat /\ MaxTasks \in Nat /\ MaxItems \in Nat
    /\ Redeliveries \in Nat /\ MaxRetries \in Nat
ASSUME ChoiceAssumption ==
    /\ Ops \subseteq OpKinds
    /\ Forces \subseteq 0..NSteps
    /\ Faults \subseteq FaultKinds

Gens == 1..MaxGens
NoGen == 0
Steps == 1..NSteps
TaskIds == 1..MaxTasks
Items == 1..MaxItems

Transit == {"pause_requested", "cancelling"}
\* isGenerationActive, activeStatuses
Active == {"pending", "processing"} \cup Transit
GenStatus == Active \cup {"paused", "cancelled", "success", "error"}
\* "none": not yet inserted; "deleted": removed.  Neither is in the table.
RowStatus == GenStatus \cup {"none", "deleted"}
DomainStatus == {"waiting", "processing", "published"}
ItemStatus == {"none", "pending", "completed", "failed"}

VARIABLES
    gst,        \* gst[g]: generations.status
    arts,       \* arts[g]: the steps whose artifact is in generations.artifacts
    retry,      \* retry[g]: retryable, with next_retry_at set
    att,        \* att[g]: generations.attempts
    dst,        \* domains.status
    site,       \* the domain has a published path and files (file_count > 0)
    lastGen,    \* domains.last_generation_id
    lastSucc,   \* domains.last_success_generation_id
    items,      \* items[q]: generation_queue.status
    tst,        \* tst[t]: "free", "queued" or "running"
    tgen,       \* tgen[t]: payload.GenerationID
    tforce,     \* tforce[t]: payload.ForceStep
    tleft,      \* tleft[t]: redeliveries asynq still has for it
    wpc, wtask, \* worker: where it is, the task it runs
    wi,         \* worker: pipeline step
    warts,      \* worker: state.Artifacts, the steps whose artifact is in memory
    wread,      \* worker: the status last read, acted upon or written back
    wcopy,      \* worker: the artifacts last read, to be written back
    watt,       \* worker: gen.Attempts + 1, to be written
    wstable,    \* worker: stableDomainStatus of its copy of the domain is published
    wstop,      \* worker: stopReason set by the watcher
    wres,       \* worker: what processGeneration will return
    cpc, cgen,  \* client request: where it is, its generation
    cforce,     \* client request: force_step
    cread,      \* client request: the status read
    ccopy,      \* client request: the artifacts read
    cstable,    \* client request: stableDomainStatusFromDomain(d) is published
    requests,   \* requests served so far
    spc, sgen,  \* scheduler: where it is, the generation it handles
    sitem,      \* scheduler: the queue item it handles
    sdue        \* scheduler: the rest of the list ListRetryDue returned

gvars == <<gst, arts, retry, att>>
dvars == <<dst, site, lastGen, lastSucc>>
tvars == <<tst, tgen, tforce, tleft>>
wvars == <<wpc, wtask, wi, warts, wread, wcopy, watt, wstable, wstop, wres>>
cvars == <<cpc, cgen, cforce, cread, ccopy, cstable, requests>>
svars == <<spc, sgen, sitem, sdue>>
vars == <<gvars, dvars, items, tvars, wvars, cvars, svars>>

NoTask == 0
NoItem == 0

WorkerPc == {"idle", "settle", "claim", "load", "top", "stop", "stopped", "stopW", "before",
             "halt", "haltW", "exec", "saveR", "saveW", "after", "progress", "canceled",
             "success", "successW", "finish", "fail", "failW", "failR", "llmR", "llmW",
             "return"}
ClientPc == {"idle", "recover", "check", "create", "insert", "enqueue", "post", "pause",
             "resume", "resumeDomain", "resumeEnqueue", "cancel", "view", "recalc"}
SchedulerPc == {"idle", "create", "domain", "enqueue", "mark", "retry", "retryEnqueue"}

TypeTables ==
    /\ gst \in [Gens -> RowStatus] /\ arts \in [Gens -> SUBSET Steps]
    /\ retry \in [Gens -> BOOLEAN] /\ att \in [Gens -> Nat]
    /\ dst \in DomainStatus /\ site \in BOOLEAN
    /\ lastGen \in Gens \cup {NoGen} /\ lastSucc \in Gens \cup {NoGen}
    /\ items \in [Items -> ItemStatus]
TypeTasks ==
    /\ tst \in [TaskIds -> {"free", "queued", "running"}]
    /\ tgen \in [TaskIds -> Gens \cup {NoGen}]
    /\ tforce \in [TaskIds -> 0..NSteps] /\ tleft \in [TaskIds -> 0..Redeliveries]
TypeWorkers ==
    /\ wpc \in [Workers -> WorkerPc] /\ wtask \in [Workers -> TaskIds \cup {NoTask}]
    /\ wi \in [Workers -> 1..NSteps + 1] /\ warts \in [Workers -> SUBSET Steps]
    /\ wread \in [Workers -> RowStatus] /\ wcopy \in [Workers -> SUBSET Steps]
    /\ watt \in [Workers -> Nat] /\ wstable \in [Workers -> BOOLEAN]
    /\ wstop \in [Workers -> Transit \cup {"none"}]
    /\ wres \in [Workers -> {"ok", "error", "retryable"}]
TypeClients ==
    /\ cpc \in [Clients -> ClientPc] /\ cgen \in [Clients -> Gens \cup {NoGen}]
    /\ cforce \in [Clients -> 0..NSteps] /\ cread \in [Clients -> RowStatus]
    /\ ccopy \in [Clients -> SUBSET Steps]
    /\ cstable \in [Clients -> BOOLEAN] /\ requests \in Nat
TypeScheduler ==
    /\ spc \in SchedulerPc /\ sgen \in Gens \cup {NoGen}
    /\ sitem \in Items \cup {NoItem} /\ sdue \subseteq Gens
TypeOK == TypeTables /\ TypeTasks /\ TypeWorkers /\ TypeClients /\ TypeScheduler

-----------------------------------------------------------------------------
(* The tables and the queue.                                               *)

\* The rows of the table; an UPDATE of any other id changes nothing.
Rows == {g \in Gens : gst[g] \in GenStatus}

\* UpdateStatus
SetStatus(g, s) == gst' = IF g \in Rows THEN [gst EXCEPT ![g] = s] ELSE gst

\* UpdateFull: status and artifacts are overwritten whatever they were
UpdateFull(g, s, a) ==
    /\ SetStatus(g, s)
    /\ arts' = IF g \in Rows THEN [arts EXCEPT ![g] = a] ELSE arts

\* stableDomainStatus of a copy of the domain
Stable(published) == IF published THEN "published" ELSE "waiting"

\* ORDER BY created_at DESC LIMIT 1: rows are inserted in the order of their numbers
Latest(S) == IF S = {} THEN NoGen ELSE CHOOSE g \in S : \A h \in S : h <= g

\* The id the next INSERT uses
NextGen == {g \in Gens : gst[g] = "none" /\ \A h \in Gens : h < g => gst[h] # "none"}

\* GenerationStore.Create
Insert(g, a) ==
    /\ gst' = [gst EXCEPT ![g] = "pending"]
    /\ arts' = [arts EXCEPT ![g] = a]
    /\ UNCHANGED <<retry, att>>

\* taskClient.Enqueue of NewGenerateTask(g, force)
Enqueue(g, force) ==
    \E t \in TaskIds :
        /\ tst[t] = "free" /\ \A u \in TaskIds : u < t => tst[u] # "free"
        /\ tst' = [tst EXCEPT ![t] = "queued"]
        /\ tgen' = [tgen EXCEPT ![t] = g]
        /\ tforce' = [tforce EXCEPT ![t] = force]
        /\ tleft' = [tleft EXCEPT ![t] = Redeliveries]

\* asynq: a task whose handler succeeded, or failed for the last time, is gone
Drop(t) ==
    /\ tst' = [tst EXCEPT ![t] = "free"]
    /\ tgen' = [tgen EXCEPT ![t] = NoGen]
    /\ tforce' = [tforce EXCEPT ![t] = 0]
    /\ tleft' = [tleft EXCEPT ![t] = 0]

\* asynq: a task whose handler failed, or whose lease expired, is delivered again
Redeliver(t) ==
    IF tleft[t] = 0 THEN Drop(t)
    ELSE /\ tst' = [tst EXCEPT ![t] = "queued"]
         /\ tleft' = [tleft EXCEPT ![t] = @ - 1]
         /\ UNCHANGED <<tgen, tforce>>

Init ==
    /\ gst = [g \in Gens |-> "none"] /\ arts = [g \in Gens |-> {}]
    /\ retry = [g \in Gens |-> FALSE] /\ att = [g \in Gens |-> 0]
    /\ site \in BOOLEAN /\ dst = Stable(site)
    /\ lastGen = NoGen /\ lastSucc = NoGen
    /\ items = [q \in Items |-> "none"]
    /\ tst = [t \in TaskIds |-> "free"] /\ tgen = [t \in TaskIds |-> NoGen]
    /\ tforce = [t \in TaskIds |-> 0] /\ tleft = [t \in TaskIds |-> 0]
    /\ wpc = [w \in Workers |-> "idle"] /\ wtask = [w \in Workers |-> NoTask]
    /\ wi = [w \in Workers |-> 1] /\ warts = [w \in Workers |-> {}]
    /\ wread = [w \in Workers |-> "none"] /\ wcopy = [w \in Workers |-> {}]
    /\ watt = [w \in Workers |-> 0] /\ wstable = [w \in Workers |-> FALSE]
    /\ wstop = [w \in Workers |-> "none"] /\ wres = [w \in Workers |-> "ok"]
    /\ cpc = [c \in Clients |-> "idle"] /\ cgen = [c \in Clients |-> NoGen]
    /\ cforce = [c \in Clients |-> 0] /\ cread = [c \in Clients |-> "none"]
    /\ ccopy = [c \in Clients |-> {}]
    /\ cstable = [c \in Clients |-> FALSE] /\ requests = 0
    /\ spc = "idle" /\ sgen = NoGen /\ sitem = NoItem /\ sdue = {}

-----------------------------------------------------------------------------
(* The workers: processGeneration and Pipeline.Run.                        *)

wGoto(w, pc) == wpc' = [wpc EXCEPT ![w] = pc]

\* The generation of the task worker w runs
Gen(w) == tgen[wtask[w]]

\* (mistake: a pause is left for somebody else to finish)
FinalOfCancelOnly(s) == IF s = "cancelling" THEN "cancelled" ELSE s

\* The status a pause or a cancel request ends in
Final(s) == IF s = "cancelling" THEN "cancelled" ELSE "paused"

\* (mistake: the row's artifacts, even when it has none)
KeptFromRow(w) == arts[Gen(w)]

\* What is left of the artifacts when the row's are preferred to the memory's
Kept(w) == IF arts[Gen(w)] = {} THEN warts[w] ELSE arts[Gen(w)]

\* The step runs although its artifact exists: ForceStep and the steps after it
Forced(w) == tforce[wtask[w]] # 0 /\ wi[w] >= tforce[wtask[w]]

\* (mistake: force_step jumps over the steps before it)
SkipsUpToForced(w) == (wi[w] \in warts[w] \/ tforce[wtask[w]] > wi[w]) /\ ~Forced(w)

\* (mistake: any artifact of this or a later run will do)
SkipsIfAny(w) == warts[w] # {} /\ ~Forced(w)

\* A step whose artifact is in memory is skipped
Skips(w) == wi[w] \in warts[w] /\ ~Forced(w)

\* (mistake: the loop ends one step too early)
NextStepPcShort(w) == IF wi[w] >= NSteps - 1 THEN "success" ELSE "top"

\* (mistake: the loop ends one step too late)
NextStepPcLong(w) == IF wi[w] > NSteps THEN "success" ELSE "top"

\* Where the loop over the steps goes after step wi
NextStepPc(w) == IF wi[w] = NSteps THEN "success" ELSE "top"

\* (mistake: the attempt that just failed is not counted)
UncountedAttempt(w) == att[Gen(w)]

\* attempts := gen.Attempts + 1
NextAttempt(w) == att[Gen(w)] + 1

\* A task is delivered; processGeneration reads the generation and the domain and
\* takes the branch of the status: settle a pending pause or cancel, skip a
\* generation that is over, claim it, or join a run that is in progress.
Start(w) ==
    /\ wpc[w] = "idle"
    /\ \E t \in TaskIds :
        /\ tst[t] = "queued"
        /\ tst' = [tst EXCEPT ![t] = "running"]
        /\ wtask' = [wtask EXCEPT ![w] = t]
        /\ wread' = [wread EXCEPT ![w] = gst[tgen[t]]]
        /\ wcopy' = [wcopy EXCEPT ![w] = arts[tgen[t]]]
        /\ warts' = [warts EXCEPT ![w] = arts[tgen[t]]]
        /\ wres' = [wres EXCEPT ![w] = IF tgen[t] \in Rows THEN "ok" ELSE "error"]
        /\ wGoto(w, CASE gst[tgen[t]] \in Transit -> "settle"
                      [] gst[tgen[t]] \in {"pending", "error"} -> "claim"
                      [] gst[tgen[t]] = "processing" -> "load"
                      [] OTHER -> "return")
    /\ wstable' = [wstable EXCEPT ![w] = site]
    /\ UNCHANGED <<gvars, dvars, items, tgen, tforce, tleft, wi, watt, wstop, cvars,
                   svars>>

\* The request found at the start is finalised with what was read
Settle(w) ==
    /\ wpc[w] = "settle"
    /\ UpdateFull(Gen(w), Final(wread[w]), wcopy[w])
    /\ dst' = Stable(wstable[w])
    /\ wGoto(w, "return")
    /\ UNCHANGED <<retry, att, site, lastGen, lastSucc, items, tvars,
                   wtask, wi, warts, wread, wcopy, watt, wstable, wstop, wres, cvars, svars>>

\* The row becomes processing, and its artifacts and logs are overwritten with NULL
Claim(w) ==
    /\ wpc[w] = "claim"
    /\ UpdateFull(Gen(w), "processing", {})
    /\ wGoto(w, "load")
    /\ UNCHANGED <<retry, att, dvars, items, tvars,
                   wtask, wi, warts, wread, wcopy, watt, wstable, wstop, wres, cvars, svars>>

\* The domain is read again and loadArtifacts, with runCtx, merges the row's artifacts
Load(w) ==
    /\ wpc[w] = "load"
    /\ wstable' = [wstable EXCEPT ![w] = site]
    /\ IF wstop[w] # "none" THEN wGoto(w, "canceled") /\ UNCHANGED <<warts, wres>>
       ELSE IF Gen(w) \in Rows
            THEN /\ warts' = [warts EXCEPT ![w] = @ \cup arts[Gen(w)]]
                 /\ wGoto(w, "top")
                 /\ UNCHANGED wres
            ELSE /\ wres' = [wres EXCEPT ![w] = "error"]
                 /\ wGoto(w, "fail")
                 /\ UNCHANGED warts
    /\ UNCHANGED <<gvars, dvars, items, tvars, wtask, wi, wread, wcopy, watt, wstop,
                   cvars, svars>>

\* The domain or its project is not found, or no API key is set: the run ends in error,
\* with the artifacts kept or dropped, before the retry columns are written; a domain that
\* cannot be read is called waiting whatever it was
SetupFails(w) ==
    /\ wpc[w] = "load" /\ "setup" \in Faults
    /\ \E a \in {arts[Gen(w)], {}} : UpdateFull(Gen(w), "error", a)
    /\ dst' \in {Stable(site), "waiting"}
    /\ wres' = [wres EXCEPT ![w] = "error"]
    /\ wGoto(w, "return")
    /\ UNCHANGED <<retry, att, site, lastGen, lastSucc, items, tvars,
                   wtask, wi, warts, wread, wcopy, watt, wstable, wstop, cvars, svars>>

\* The goroutine that polls the status and cancels runCtx
Watch(w) ==
    /\ wpc[w] \notin {"idle", "settle", "claim", "return"} /\ wstop[w] = "none"
    /\ gst[Gen(w)] \in Transit
    /\ wstop' = [wstop EXCEPT ![w] = gst[Gen(w)]]
    /\ UNCHANGED <<gvars, dvars, items, tvars,
                   wpc, wtask, wi, warts, wread, wcopy, watt, wstable, wres, cvars, svars>>

\* Run, top of the loop: CheckStatus reads with the outer context; a request stops
\* the run, an artifact that exists lets the step be skipped
Top(w) ==
    /\ wpc[w] = "top"
    /\ \/ /\ Gen(w) \notin Rows
          /\ wres' = [wres EXCEPT ![w] = "error"]
          /\ wGoto(w, "fail")
          /\ UNCHANGED <<wi, wread>>
       \/ /\ gst[Gen(w)] \in Transit
          /\ wread' = [wread EXCEPT ![w] = gst[Gen(w)]]
          /\ wGoto(w, "stop")
          /\ UNCHANGED <<wi, wres>>
       \/ /\ gst[Gen(w)] \in GenStatus \ Transit
          /\ IF Skips(w)
             THEN /\ wi' = [wi EXCEPT ![w] = @ + 1]
                  /\ wGoto(w, NextStepPc(w))
             ELSE /\ wGoto(w, "before")
                  /\ UNCHANGED wi
          /\ UNCHANGED <<wread, wres>>
    /\ UNCHANGED <<gvars, dvars, items, tvars, wtask, warts, wcopy, watt, wstable,
                   wstop, cvars, svars>>

\* Run writes the final status itself; with runCtx canceled the write fails
Stop(w) ==
    /\ wpc[w] = "stop"
    /\ IF wstop[w] = "none"
       THEN /\ SetStatus(Gen(w), Final(wread[w]))
            /\ dst' = Stable(wstable[w])
       ELSE UNCHANGED <<gst, dst>>
    /\ wGoto(w, "stopped")
    /\ UNCHANGED <<arts, retry, att, site, lastGen, lastSucc, items, tvars,
                   wtask, wi, warts, wread, wcopy, watt, wstable, wstop, wres, cvars, svars>>

\* ErrPipelinePaused, ErrPipelineCancelled: processGeneration reads the artifacts, to
\* write it once more
Stopped(w) ==
    /\ wpc[w] = "stopped"
    /\ wcopy' = [wcopy EXCEPT ![w] = arts[Gen(w)]]
    /\ wGoto(w, "stopW")
    /\ UNCHANGED <<gvars, dvars, items, tvars,
                   wtask, wi, warts, wread, watt, wstable, wstop, wres, cvars, svars>>

\* shouldContinue, read before and after a step; then is where a live run goes on
ShouldContinue(w, then) ==
    /\ IF wstop[w] # "none" THEN wGoto(w, "canceled") /\ UNCHANGED <<wread, wres>>
       ELSE \/ /\ gst[Gen(w)] \in Transit
               /\ wread' = [wread EXCEPT ![w] = gst[Gen(w)]]
               /\ wGoto(w, "halt")
               /\ UNCHANGED wres
            \/ /\ gst[Gen(w)] = "processing"
               /\ wGoto(w, then)
               /\ UNCHANGED <<wread, wres>>
            \/ /\ gst[Gen(w)] \notin Transit \cup {"processing"}
               /\ wres' = [wres EXCEPT ![w] = "error"]
               /\ wGoto(w, "fail")
               /\ UNCHANGED wread
    /\ UNCHANGED <<gvars, dvars, items, tvars, wtask, wi, warts, wcopy, watt, wstable,
                   wstop, cvars, svars>>

\* checkStatusBeforeStep, checkStatusAfterStep
Before(w) == wpc[w] = "before" /\ ShouldContinue(w, "exec")
After(w) == wpc[w] = "after" /\ ShouldContinue(w, "progress")

\* On a request they take the artifacts of the memory, or the row's if it has none ...
Halt(w) ==
    /\ wpc[w] = "halt"
    /\ wcopy' = [wcopy EXCEPT ![w] = IF warts[w] = {} THEN arts[Gen(w)] ELSE warts[w]]
    /\ wGoto(w, "haltW")
    /\ UNCHANGED <<gvars, dvars, items, tvars,
                   wtask, wi, warts, wread, watt, wstable, wstop, wres, cvars, svars>>

\* ... and write them.  The writes use runCtx and ignore errors: once the watcher has
\* canceled it nothing is written, and processGeneration takes the error's text for a
\* finished pause or cancel.
HaltWrite(w) ==
    /\ wpc[w] = "haltW"
    /\ IF wstop[w] = "none"
       THEN UpdateFull(Gen(w), Final(wread[w]), wcopy[w]) /\ dst' = Stable(wstable[w])
       ELSE UNCHANGED <<gst, arts, dst>>
    /\ wGoto(w, "llmR")
    /\ UNCHANGED <<retry, att, site, lastGen, lastSucc, items, tvars,
                   wtask, wi, warts, wread, wcopy, watt, wstable, wstop, wres, cvars, svars>>

\* Step.Execute succeeds; PublishStep deploys the site, marks the domain published
\* and refreshes the worker's copy of it
Execute(w) ==
    /\ wpc[w] = "exec"
    /\ warts' = [warts EXCEPT ![w] = @ \cup {wi[w]}]
    /\ IF wi[w] = NSteps
       THEN /\ site' = TRUE /\ dst' = "published"
            /\ wstable' = [wstable EXCEPT ![w] = TRUE]
       ELSE UNCHANGED <<site, dst, wstable>>
    /\ wGoto(w, "saveR")
    /\ UNCHANGED <<gvars, lastGen, lastSucc, items, tvars,
                   wtask, wi, wread, wcopy, watt, wstop, wres, cvars, svars>>

\* PublishStep ends after the files are deployed, before or after the domain is marked;
\* the worker's copy of the domain is not refreshed
PublishedHalfway(w) ==
    /\ wi[w] = NSteps
    /\ site' = TRUE
    /\ dst' \in {dst, "published"}

\* runCtx is canceled while a step executes, or between two statements of PublishStep
ExecuteCanceled(w) ==
    /\ wpc[w] = "exec" /\ wstop[w] # "none"
    /\ UNCHANGED <<dst, site>> \/ PublishedHalfway(w)
    /\ wGoto(w, "canceled")
    /\ UNCHANGED <<gvars, lastGen, lastSucc, items, tvars,
                   wtask, wi, warts, wread, wcopy, watt, wstable, wstop, wres, cvars, svars>>

\* Step.Execute fails, for good or (isRetryableGenerationError) for now
Failures ==
    {"error" : f \in Faults \cap {"step"}} \cup {"retryable" : f \in Faults \cap {"transient"}}

ExecuteFails(w) ==
    /\ wpc[w] = "exec"
    /\ \E r \in Failures : wres' = [wres EXCEPT ![w] = r]
    /\ wGoto(w, "fail")
    /\ UNCHANGED <<gvars, dvars, items, tvars,
                   wtask, wi, warts, wread, wcopy, watt, wstable, wstop, cvars, svars>>

\* PublishStep fails halfway, a lost connection being a failure for now
PublishFailsHalfway(w) ==
    /\ wpc[w] = "exec" /\ "publish" \in Faults
    /\ PublishedHalfway(w)
    /\ \E r \in {"error"} \cup Failures : wres' = [wres EXCEPT ![w] = r]
    /\ wGoto(w, "fail")
    /\ UNCHANGED <<gvars, lastGen, lastSucc, items, tvars,
                   wtask, wi, warts, wread, wcopy, watt, wstable, wstop, cvars, svars>>

\* saveArtifacts reads the row ...
SaveRead(w) ==
    /\ wpc[w] = "saveR"
    /\ IF wstop[w] # "none" THEN wGoto(w, "canceled") /\ UNCHANGED <<wread, wres>>
       ELSE IF Gen(w) \in Rows
            THEN /\ wread' = [wread EXCEPT ![w] = gst[Gen(w)]]
                 /\ wGoto(w, "saveW")
                 /\ UNCHANGED wres
            ELSE /\ wres' = [wres EXCEPT ![w] = "error"]
                 /\ wGoto(w, "fail")
                 /\ UNCHANGED wread
    /\ UNCHANGED <<gvars, dvars, items, tvars, wtask, wi, warts, wcopy, watt, wstable,
                   wstop, cvars, svars>>

\* (mistake: only the artifact of this step is written)
SaveStepOnly(w) ==
    /\ wpc[w] = "saveW"
    /\ IF wstop[w] # "none" THEN wGoto(w, "canceled") /\ UNCHANGED <<gst, arts>>
       ELSE UpdateFull(Gen(w), wread[w], {wi[w]}) /\ wGoto(w, "after")
    /\ UNCHANGED <<retry, att, dvars, items, tvars,
                   wtask, wi, warts, wread, wcopy, watt, wstable, wstop, wres, cvars, svars>>

\* ... and writes it back with the status it read
SaveWrite(w) ==
    /\ wpc[w] = "saveW"
    /\ IF wstop[w] # "none" THEN wGoto(w, "canceled") /\ UNCHANGED <<gst, arts>>
       ELSE UpdateFull(Gen(w), wread[w], warts[w]) /\ wGoto(w, "after")
    /\ UNCHANGED <<retry, att, dvars, items, tvars,
                   wtask, wi, warts, wread, wcopy, watt, wstable, wstop, wres, cvars, svars>>

\* Run records the progress of the step, and with it the status "processing"
Progress(w) ==
    /\ wpc[w] = "progress"
    /\ IF wstop[w] = "none" THEN SetStatus(Gen(w), "processing") ELSE UNCHANGED gst
    /\ wi' = [wi EXCEPT ![w] = @ + 1]
    /\ wGoto(w, NextStepPc(w))
    /\ UNCHANGED <<arts, retry, att, dvars, items, tvars,
                   wtask, warts, wread, wcopy, watt, wstable, wstop, wres, cvars, svars>>

\* context.Canceled: the watcher's reason decides, the row's artifacts are kept
Canceled(w) ==
    /\ wpc[w] = "canceled"
    /\ wread' = [wread EXCEPT ![w] = wstop[w]]
    /\ wcopy' = [wcopy EXCEPT ![w] = arts[Gen(w)]]
    /\ wGoto(w, "stopW")
    /\ UNCHANGED <<gvars, dvars, items, tvars,
                   wtask, wi, warts, watt, wstable, wstop, wres, cvars, svars>>

\* The write of a run that was stopped
StopWrite(w) ==
    /\ wpc[w] = "stopW"
    /\ UpdateFull(Gen(w), Final(wread[w]), wcopy[w])
    /\ dst' = Stable(wstable[w])
    /\ wGoto(w, "llmR")
    /\ UNCHANGED <<retry, att, site, lastGen, lastSucc, items, tvars,
                   wtask, wi, warts, wread, wcopy, watt, wstable, wstop, wres, cvars, svars>>

\* A run that did every step reads the row for the last time ...
Success(w) ==
    /\ wpc[w] = "success"
    /\ wcopy' = [wcopy EXCEPT ![w] = Kept(w)]
    /\ watt' = [watt EXCEPT ![w] = att[Gen(w)]]
    /\ wGoto(w, "successW")
    /\ UNCHANGED <<gvars, dvars, items, tvars,
                   wtask, wi, warts, wread, wstable, wstop, wres, cvars, svars>>

\* ... writes it with the attempts it had ...
SuccessWrite(w) ==
    /\ wpc[w] = "successW"
    /\ UpdateFull(Gen(w), "success", wcopy[w])
    /\ IF Gen(w) \in Rows
       THEN /\ retry' = [retry EXCEPT ![Gen(w)] = FALSE]
            /\ att' = [att EXCEPT ![Gen(w)] = watt[w]]
       ELSE UNCHANGED <<retry, att>>
    /\ wGoto(w, "finish")
    /\ UNCHANGED <<dvars, items, tvars,
                   wtask, wi, warts, wread, wcopy, watt, wstable, wstop, wres, cvars, svars>>

\* ... and the domain's
Finish(w) ==
    /\ wpc[w] = "finish"
    /\ lastSucc' = Gen(w)
    /\ dst' = "published"
    /\ wGoto(w, "llmR")
    /\ UNCHANGED <<gvars, site, lastGen, items, tvars,
                   wtask, wi, warts, wread, wcopy, watt, wstable, wstop, wres, cvars, svars>>

\* A failed run first looks whether the generation was paused or cancelled
\* meanwhile; if not, it reads the artifacts and the attempts once more
Fail(w) ==
    /\ wpc[w] = "fail"
    /\ IF gst[Gen(w)] \in {"paused", "cancelled"}
       THEN /\ dst' = Stable(wstable[w])
            /\ wres' = [wres EXCEPT ![w] = "ok"]
            /\ wGoto(w, "llmR")
            /\ UNCHANGED <<wcopy, watt>>
       ELSE /\ wcopy' = [wcopy EXCEPT ![w] = Kept(w)]
            /\ watt' = [watt EXCEPT ![w] = NextAttempt(w)]
            /\ wGoto(w, "failW")
            /\ UNCHANGED <<dst, wres>>
    /\ UNCHANGED <<gvars, site, lastGen, lastSucc, items, tvars,
                   wtask, wi, warts, wread, wstable, wstop, cvars, svars>>

\* (mistake: the status of the failed run is left as it was)
FailWithoutStatus(w) ==
    /\ wpc[w] = "failW"
    /\ UpdateFull(Gen(w), wread[w], wcopy[w])
    /\ wGoto(w, "failR")
    /\ UNCHANGED <<retry, att, dvars, items, tvars,
                   wtask, wi, warts, wread, wcopy, watt, wstable, wstop, wres, cvars, svars>>

\* The error is written first ...
FailWrite(w) ==
    /\ wpc[w] = "failW"
    /\ UpdateFull(Gen(w), "error", wcopy[w])
    /\ wGoto(w, "failR")
    /\ UNCHANGED <<retry, att, dvars, items, tvars,
                   wtask, wi, warts, wread, wcopy, watt, wstable, wstop, wres, cvars, svars>>

\* (mistake: the domain is forgotten)
RetryWithoutDomain(w) ==
    /\ wpc[w] = "failR"
    /\ IF Gen(w) \in Rows
       THEN /\ att' = [att EXCEPT ![Gen(w)] = watt[w]]
            /\ retry' = [retry EXCEPT ![Gen(w)] = wres[w] = "retryable" /\ watt[w] <= MaxRetries]
       ELSE UNCHANGED <<att, retry>>
    /\ wGoto(w, "llmR")
    /\ UNCHANGED <<gst, arts, dvars, items, tvars,
                   wtask, wi, warts, wread, wcopy, watt, wstable, wstop, wres, cvars, svars>>

\* ... then UpdateRetry, with the attempt counted from what was read: a transient
\* error is retried if retry.NextRetryAt finds attempts left and the 24h window open
FailRetry(w) ==
    /\ wpc[w] = "failR"
    /\ IF Gen(w) \in Rows
       THEN /\ att' = [att EXCEPT ![Gen(w)] = watt[w]]
            /\ \E inWindow \in BOOLEAN :
                 retry' = [retry EXCEPT ![Gen(w)] =
                     wres[w] = "retryable" /\ watt[w] <= MaxRetries /\ inWindow]
       ELSE UNCHANGED <<att, retry>>
    /\ dst' = Stable(wstable[w])
    /\ wGoto(w, "llmR")
    /\ UNCHANGED <<gst, arts, site, lastGen, lastSucc, items, tvars,
                   wtask, wi, warts, wread, wcopy, watt, wstable, wstop, wres, cvars, svars>>

\* The deferred save of the LLM requests, when there were any, reads the row ...
LlmRead(w) ==
    /\ wpc[w] = "llmR"
    /\ \/ wGoto(w, "return") /\ UNCHANGED <<wread, wcopy>>
       \/ /\ Gen(w) \in Rows
          /\ wread' = [wread EXCEPT ![w] = gst[Gen(w)]]
          /\ wcopy' = [wcopy EXCEPT ![w] = arts[Gen(w)]]
          /\ wGoto(w, "llmW")
    /\ UNCHANGED <<gvars, dvars, items, tvars,
                   wtask, wi, warts, watt, wstable, wstop, wres, cvars, svars>>

\* ... and writes status and artifacts back
LlmWrite(w) ==
    /\ wpc[w] = "llmW"
    /\ UpdateFull(Gen(w), wread[w], wcopy[w])
    /\ wGoto(w, "return")
    /\ UNCHANGED <<retry, att, dvars, items, tvars,
                   wtask, wi, warts, wread, wcopy, watt, wstable, wstop, wres, cvars, svars>>

Reset(w) ==
    /\ wGoto(w, "idle")
    /\ wtask' = [wtask EXCEPT ![w] = NoTask] /\ wi' = [wi EXCEPT ![w] = 1]
    /\ warts' = [warts EXCEPT ![w] = {}] /\ wread' = [wread EXCEPT ![w] = "none"]
    /\ wcopy' = [wcopy EXCEPT ![w] = {}]
    /\ watt' = [watt EXCEPT ![w] = 0] /\ wstable' = [wstable EXCEPT ![w] = FALSE]
    /\ wstop' = [wstop EXCEPT ![w] = "none"]
    /\ wres' = [wres EXCEPT ![w] = "ok"]

\* processGeneration returns; asynq redelivers the task if it returned an error
Return(w) ==
    /\ wpc[w] = "return"
    /\ IF wres[w] = "ok" THEN Drop(wtask[w]) ELSE Redeliver(wtask[w])
    /\ Reset(w)
    /\ UNCHANGED <<gvars, dvars, items, cvars, svars>>

\* The worker process dies, or the task's deadline passes and no call of the run
\* succeeds any more; asynq recovers the task
WorkerCrash(w) ==
    /\ wpc[w] # "idle" /\ "worker" \in Faults
    /\ Redeliver(wtask[w])
    /\ Reset(w)
    /\ UNCHANGED <<gvars, dvars, items, cvars, svars>>

-----------------------------------------------------------------------------
(* The API handlers.  A request reads, answers with an error if the status  *)
(* does not allow it (no step), or goes on to write what it then decides.   *)

cGoto(c, pc) == cpc' = [cpc EXCEPT ![c] = pc]

\* The request is over
Respond(c) ==
    /\ cGoto(c, "idle")
    /\ cgen' = [cgen EXCEPT ![c] = NoGen] /\ cforce' = [cforce EXCEPT ![c] = 0]
    /\ cread' = [cread EXCEPT ![c] = "none"] /\ ccopy' = [ccopy EXCEPT ![c] = {}]
    /\ cstable' = [cstable EXCEPT ![c] = FALSE]

\* A request arrives and reads the generation and the domain
Request(c, op, g, pc) ==
    /\ cpc[c] = "idle" /\ op \in Ops
    /\ IF op = "view" THEN UNCHANGED requests    \* pages poll without bound
       ELSE requests < MaxRequests /\ requests' = requests + 1
    /\ cgen' = [cgen EXCEPT ![c] = g]
    /\ cstable' = [cstable EXCEPT ![c] = site]
    /\ cGoto(c, pc)
    /\ UNCHANGED <<gvars, dvars, items, tvars, wvars, svars>>

\* handleDomainGenerate: the newest generation must not be active; one whose pause
\* or cancel request is stale is recovered first
Generate(c) ==
    LET last == Latest(Rows) IN
    /\ \/ last = NoGen /\ Request(c, "generate", NoGen, "create")
       \/ /\ last # NoGen /\ gst[last] \in Transit
          /\ Request(c, "generate", last, "recover")
       \/ /\ last # NoGen /\ gst[last] \notin Active
          /\ Request(c, "generate", last, "create")
    /\ \E f \in Forces : cforce' = [cforce EXCEPT ![c] = f]
    /\ cread' = [cread EXCEPT ![c] = IF last = NoGen THEN "none" ELSE gst[last]]
    /\ ccopy' = [ccopy EXCEPT ![c] = IF last = NoGen THEN {} ELSE arts[last]]

\* GET: a transition older than GenerationTransitionStaleAfter is recovered
View(c, g) ==
    /\ gst[g] \in Transit
    /\ Request(c, "view", g, "view")
    /\ cread' = [cread EXCEPT ![c] = gst[g]]
    /\ ccopy' = [ccopy EXCEPT ![c] = arts[g]]
    /\ UNCHANGED cforce

\* recoverStaleGenerationTransition writes the snapshot of the row with the final status
Recover(c) ==
    /\ cpc[c] \in {"recover", "view"}
    /\ UpdateFull(cgen[c], Final(cread[c]), ccopy[c])
    /\ dst' = Stable(cstable[c])
    /\ IF cpc[c] = "view" THEN Respond(c)
       ELSE cGoto(c, "check") /\ UNCHANGED <<cgen, cforce, cread, ccopy, cstable>>
    /\ UNCHANGED <<retry, att, site, lastGen, lastSucc, items, tvars, wvars, requests,
                   svars>>

\* the recovered generation is read again
Check(c) ==
    /\ cpc[c] = "check"
    /\ IF gst[cgen[c]] \in Active THEN Respond(c)
       ELSE cGoto(c, "create") /\ UNCHANGED <<cgen, cforce, cread, ccopy, cstable>>
    /\ UNCHANGED <<gvars, dvars, items, tvars, wvars, requests, svars>>

\* (mistake: the newest generation, successful or not)
LatestEnded == Latest({g \in Rows : gst[g] \notin Active})

\* The newest generation that succeeded
LatestSuccess == Latest({g \in Rows : gst[g] = "success"})

\* The artifacts a new generation inherits: with force_step the newest generation's,
\* or the newest success's when there are none; else those of an unfinished newest
BaseArtifacts(force) ==
    LET last == Latest(Rows)
        succ == LatestSuccess
    IN IF last = NoGen THEN {{}}
       ELSE IF force = 0
       THEN {IF gst[last] \in {"error", "paused", "cancelled"} THEN arts[last] ELSE {}}
       ELSE IF arts[last] # {} \/ succ = NoGen THEN {arts[last]}
       ELSE {{}, arts[succ]}    \* the newest's column is an empty object, or NULL

\* They are read ...
Inherit(c) ==
    /\ cpc[c] = "create"
    /\ \E a \in BaseArtifacts(cforce[c]) : ccopy' = [ccopy EXCEPT ![c] = a]
    /\ cGoto(c, "insert")
    /\ UNCHANGED <<gvars, dvars, items, tvars, wvars, cgen, cforce, cread, cstable, requests, svars>>

\* ... before the INSERT, which fails when the bound on the ids is reached
Create(c) ==
    /\ cpc[c] = "insert"
    /\ \/ \E g \in NextGen :
            /\ Insert(g, ccopy[c])
            /\ cgen' = [cgen EXCEPT ![c] = g]
            /\ cGoto(c, "enqueue")
            /\ UNCHANGED <<cforce, cread, ccopy, cstable>>
       \/ NextGen = {} /\ Respond(c) /\ UNCHANGED gvars
    /\ UNCHANGED <<dvars, items, tvars, wvars, requests, svars>>

\* The task is enqueued; if that fails the generation ends in error, its artifacts dropped
EnqueueNew(c) ==
    /\ cpc[c] = "enqueue"
    /\ \/ /\ Enqueue(cgen[c], cforce[c])
          /\ cGoto(c, "post")
          /\ UNCHANGED <<gst, arts, dst, cgen, cforce, cread, ccopy, cstable>>
       \/ /\ "enqueue" \in Faults
          /\ UpdateFull(cgen[c], "error", {})
          /\ dst' = Stable(cstable[c])
          /\ Respond(c)
          /\ UNCHANGED tvars
    /\ UNCHANGED <<retry, att, site, lastGen, lastSucc, items, wvars, requests, svars>>

\* Only then is the domain told
Post(c) ==
    /\ cpc[c] = "post"
    /\ lastGen' = cgen[c]
    /\ dst' = "processing"
    /\ Respond(c)
    /\ UNCHANGED <<gvars, site, lastSucc, items, tvars, wvars, requests, svars>>

\* handleGenerationAction: the statuses each action is accepted in
Accepts(op) ==
    CASE op = "pause" -> {"pending", "processing"}
      [] op = "resume" -> {"paused"}
      [] op = "cancel" -> {"pending", "processing", "pause_requested", "paused"}

Act(c, op, g) ==
    /\ gst[g] \in Accepts(op)
    /\ Request(c, op, g, op)
    /\ cread' = [cread EXCEPT ![c] = gst[g]]
    /\ UNCHANGED <<cforce, ccopy>>

Pause(c) ==
    /\ cpc[c] = "pause"
    /\ IF cread[c] = "pending"
       THEN SetStatus(cgen[c], "paused") /\ dst' = Stable(cstable[c])
       ELSE SetStatus(cgen[c], "pause_requested") /\ UNCHANGED dst
    /\ Respond(c)
    /\ UNCHANGED <<arts, retry, att, site, lastGen, lastSucc, items, tvars, wvars,
                   requests, svars>>

Cancel(c) ==
    /\ cpc[c] = "cancel"
    /\ IF cread[c] \in {"pending", "paused"}
       THEN SetStatus(cgen[c], "cancelled") /\ dst' = Stable(cstable[c])
       ELSE SetStatus(cgen[c], "cancelling") /\ UNCHANGED dst
    /\ Respond(c)
    /\ UNCHANGED <<arts, retry, att, site, lastGen, lastSucc, items, tvars, wvars,
                   requests, svars>>

Resume(c) ==
    /\ cpc[c] = "resume"
    /\ SetStatus(cgen[c], "pending")
    /\ cGoto(c, "resumeDomain")
    /\ UNCHANGED <<arts, retry, att, dvars, items, tvars, wvars,
                   cgen, cforce, cread, ccopy, cstable, requests, svars>>

\* The domain is told before there is a task
ResumeDomain(c) ==
    /\ cpc[c] = "resumeDomain"
    /\ dst' = "processing"
    /\ cGoto(c, "resumeEnqueue")
    /\ UNCHANGED <<gvars, site, lastGen, lastSucc, items, tvars, wvars,
                   cgen, cforce, cread, ccopy, cstable, requests, svars>>

\* (mistake: the task that is still queued is trusted to do it)
ResumeWithoutTask(c) ==
    /\ cpc[c] = "resumeEnqueue"
    /\ Respond(c)
    /\ UNCHANGED <<gvars, dvars, items, tvars, wvars, requests, svars>>

\* A task without force_step is enqueued, or all is taken back
ResumeEnqueue(c) ==
    /\ cpc[c] = "resumeEnqueue"
    /\ \/ /\ Enqueue(cgen[c], 0)
          /\ UNCHANGED <<gst, dst>>
       \/ /\ "enqueue" \in Faults
          /\ SetStatus(cgen[c], "paused")
          /\ dst' = Stable(cstable[c])
          /\ UNCHANGED tvars
    /\ Respond(c)
    /\ UNCHANGED <<arts, retry, att, site, lastGen, lastSucc, items, wvars, requests,
                   svars>>

\* DELETE removes the row in any status ...
Delete(c, g) ==
    /\ g \in Rows
    /\ cpc[c] = "idle" /\ "delete" \in Ops /\ requests < MaxRequests
    /\ requests' = requests + 1
    /\ gst' = [gst EXCEPT ![g] = "deleted"]
    /\ arts' = [arts EXCEPT ![g] = {}]
    /\ retry' = [retry EXCEPT ![g] = FALSE]
    /\ att' = [att EXCEPT ![g] = 0]
    /\ cGoto(c, "recalc")
    /\ UNCHANGED <<dvars, items, tvars, wvars, cgen, cforce, cread, ccopy, cstable,
                   svars>>

\* ... and then recomputes the domain's pointers
Recalculate(c) ==
    /\ cpc[c] = "recalc"
    /\ lastGen' = Latest(Rows)
    /\ lastSucc' = LatestSuccess
    /\ Respond(c)
    /\ UNCHANGED <<gvars, dst, site, items, tvars, wvars, requests, svars>>

\* The client disconnects: r.Context() ends and the remaining calls fail
Disconnect(c) ==
    /\ cpc[c] # "idle" /\ "client" \in Faults
    /\ Respond(c)
    /\ UNCHANGED <<gvars, dvars, items, tvars, wvars, requests, svars>>

-----------------------------------------------------------------------------
(* The scheduler tick: one process, its parts one after the other.         *)

\* applySchedulesAt for the domain: an item is added unless one is queued; items of
\* a domain that is not waiting are closed
ApplySchedule ==
    /\ spc = "idle"
    /\ LET queued == {q \in Items : items[q] = "pending"} IN
       IF dst = "waiting"
       THEN /\ queued = {}
            /\ \E q \in Items :
                /\ items[q] = "none" /\ \A r \in Items : r < q => items[r] # "none"
                /\ items' = [items EXCEPT ![q] = "pending"]
       ELSE /\ queued # {}
            /\ items' = [q \in Items |-> IF q \in queued THEN "completed" ELSE items[q]]
    /\ UNCHANGED <<gvars, dvars, tvars, wvars, cvars, svars>>

\* processQueueItem, the reads: the item is closed, or a generation will be created
TakeItem(q) ==
    /\ spc = "idle" /\ items[q] = "pending"
    /\ LET last == Latest(Rows)
           blocked == /\ last # NoGen
                      /\ gst[last] \in Active \/ (gst[last] = "error" /\ retry[last])
       IN
       \/ /\ dst # "waiting" \/ blocked
          /\ items' = [items EXCEPT ![q] = "completed"]
          /\ UNCHANGED <<spc, sitem>>
       \/ /\ dst = "waiting" /\ "setup" \in Faults    \* no keyword, no project
          /\ items' = [items EXCEPT ![q] = "failed"]
          /\ UNCHANGED <<spc, sitem>>
       \/ /\ dst = "waiting" /\ ~blocked
          /\ spc' = "create" /\ sitem' = q
          /\ UNCHANGED items
    /\ UNCHANGED <<gvars, dvars, tvars, wvars, cvars, sgen, sdue>>

CreateFromItem ==
    /\ spc = "create"
    /\ \/ \E g \in NextGen :
            /\ Insert(g, {}) /\ sgen' = g /\ spc' = "domain"
            /\ UNCHANGED <<items, sitem>>
       \/ /\ NextGen = {}
          /\ items' = [items EXCEPT ![sitem] = "failed"]
          /\ spc' = "idle" /\ sitem' = NoItem
          /\ UNCHANGED <<gvars, sgen>>
    /\ UNCHANGED <<dvars, tvars, wvars, cvars, sdue>>

\* The domain is told before there is a task
MarkFromItem ==
    /\ spc = "domain"
    /\ lastGen' = sgen /\ dst' = "processing"
    /\ spc' = "enqueue"
    /\ UNCHANGED <<gvars, site, lastSucc, items, tvars, wvars, cvars, sgen, sitem, sdue>>

\* The task is enqueued; if that fails all is closed
EnqueueFromItem ==
    /\ spc = "enqueue"
    /\ \/ /\ Enqueue(sgen, 0)
          /\ spc' = "mark"
          /\ UNCHANGED <<gst, dst, items, sitem>>
       \/ /\ "enqueue" \in Faults
          /\ SetStatus(sgen, "error")
          /\ dst' = "waiting"
          /\ items' = [items EXCEPT ![sitem] = "failed"]
          /\ spc' = "idle" /\ sitem' = NoItem
          /\ UNCHANGED tvars
    /\ sgen' = NoGen
    /\ UNCHANGED <<arts, retry, att, site, lastGen, lastSucc, wvars, cvars, sdue>>

MarkItem ==
    /\ spc = "mark"
    /\ items' = [items EXCEPT ![sitem] = "completed"]
    /\ spc' = "idle" /\ sitem' = NoItem
    /\ UNCHANGED <<gvars, dvars, tvars, wvars, cvars, sgen, sdue>>

\* processRetryableGenerations: ListRetryDue
ListRetryDue ==
    /\ spc = "idle"
    /\ sdue' = {g \in Rows : gst[g] = "error" /\ retry[g]}
    /\ sdue' # {}
    /\ spc' = "retry"
    /\ UNCHANGED <<gvars, dvars, items, tvars, wvars, cvars, sgen, sitem>>

\* PrepareRetry does not look at the status the row has by now
PrepareRetry(g) ==
    /\ spc = "retry" /\ g \in sdue
    /\ SetStatus(g, "pending")
    /\ sgen' = g
    /\ spc' = "retryEnqueue"
    /\ UNCHANGED <<arts, retry, att, dvars, items, tvars, wvars, cvars, sitem, sdue>>

\* A retry that cannot be enqueued is only logged
EnqueueRetry ==
    /\ spc = "retryEnqueue"
    /\ \/ Enqueue(sgen, 0)
       \/ "enqueue" \in Faults /\ UNCHANGED tvars
    /\ sdue' = sdue \ {sgen} /\ sgen' = NoGen
    /\ spc' = IF sdue' = {} THEN "idle" ELSE "retry"
    /\ UNCHANGED <<gvars, dvars, items, wvars, cvars, sitem>>

SchedulerCrash ==
    /\ spc # "idle" /\ "scheduler" \in Faults
    /\ spc' = "idle" /\ sgen' = NoGen /\ sitem' = NoItem /\ sdue' = {}
    /\ UNCHANGED <<gvars, dvars, items, tvars, wvars, cvars>>

-----------------------------------------------------------------------------
\* The steps of a delivery, from the first to the last
Run(w) ==
    \/ Settle(w) \/ Claim(w) \/ Load(w) \/ SetupFails(w)
    \/ Top(w) \/ Stop(w) \/ Stopped(w) \/ Before(w) \/ Halt(w) \/ HaltWrite(w)
    \/ Execute(w) \/ ExecuteCanceled(w) \/ ExecuteFails(w) \/ PublishFailsHalfway(w)
    \/ SaveRead(w) \/ SaveWrite(w) \/ After(w) \/ Progress(w)
    \/ Canceled(w) \/ StopWrite(w) \/ Success(w) \/ SuccessWrite(w) \/ Finish(w)
    \/ Fail(w) \/ FailWrite(w) \/ FailRetry(w)
    \/ LlmRead(w) \/ LlmWrite(w) \/ Return(w)

\* The steps of a request once it has arrived
Serve(c) ==
    \/ Recover(c) \/ Check(c) \/ Inherit(c) \/ Create(c) \/ EnqueueNew(c) \/ Post(c)
    \/ Pause(c) \/ Cancel(c) \/ Resume(c) \/ ResumeDomain(c) \/ ResumeEnqueue(c) \/ Recalculate(c)

Tick ==
    \/ \E q \in Items : TakeItem(q)
    \/ CreateFromItem \/ MarkFromItem \/ EnqueueFromItem \/ MarkItem
    \/ ListRetryDue \/ (\E g \in Gens : PrepareRetry(g)) \/ EnqueueRetry

Arrive(c) ==
    \/ Generate(c)
    \/ \E g \in Gens :
        \/ View(c, g) \/ Delete(c, g)
        \/ \E op \in {"pause", "resume", "cancel"} : Act(c, op, g)

Next ==
    \/ \E w \in Workers : Start(w) \/ Run(w) \/ Watch(w) \/ WorkerCrash(w)
    \/ \E c \in Clients : Arrive(c) \/ Serve(c) \/ Disconnect(c)
    \/ Tick \/ ApplySchedule \/ SchedulerCrash

Spec == Init /\ [][Next]_vars

\* The processes run: a delivery under way and a request under way go on, a queued
\* task is delivered, the tick comes every minute, and the open pages poll the list
\* of generations.  Nothing obliges users to act, or a step, a worker or Redis to fail.
Fairness ==
    /\ \A w \in Workers : WF_vars(Run(w)) /\ WF_vars(Start(w))
    /\ \A c \in Clients : WF_vars(Serve(c))
    /\ \A g \in Gens : WF_vars(\E c \in Clients : View(c, g))
    /\ WF_vars(Tick)
FairSpec == Spec /\ Fairness

-----------------------------------------------------------------------------
(* Properties.                                                             *)

Closed(a) == \A i \in a : \A j \in 1..i : j \in a

\* However runs of one generation overlap, are cut short, wiped, inherited or
\* restored from a snapshot, the artifacts in the table and in a worker's memory have
\* no gap, and a step executes only with the artifacts of all the steps before it:
\* the skip of Pipeline.Run may rely on them.
StepInputsReady ==
    /\ \A g \in Gens : Closed(arts[g])
    /\ \A w \in Workers : Closed(warts[w])
    /\ \A w \in Workers : wpc[w] = "exec" => 1..(wi[w] - 1) \subseteq warts[w]

\* No record says that the site is there before PublishStep deployed it: neither a
\* generation's success or publish artifact, nor the domain's status, nor its
\* last_success_generation_id.  Every one of these is written by other processes
\* too, from copies that may be stale.
NothingClaimedBeforePublish ==
    \/ site
    \/ /\ dst # "published" /\ lastSucc = NoGen
       /\ \A g \in Gens : gst[g] # "success" /\ NSteps \notin arts[g]

\* The processes that will still enqueue generation g
WillEnqueue(g) ==
    \/ \E c \in Clients : cpc[c] \in {"enqueue", "resumeDomain", "resumeEnqueue"} /\ cgen[c] = g
    \/ spc \in {"domain", "enqueue", "retryEnqueue"} /\ sgen = g

\* A pending generation is never orphaned: its task is in Redis or about to be.
\* Nothing else ever looks at a pending row again, and it blocks the domain.
PendingHasTask ==
    \A g \in Gens : gst[g] = "pending" =>
        WillEnqueue(g) \/ \E t \in TaskIds : tst[t] # "free" /\ tgen[t] = g

\* A generation that succeeded keeps the artifact of every step.
SuccessIsComplete == \A g \in Gens : gst[g] = "success" => arts[g] = Steps

\* A run that ends in error leaves in the table every artifact it had in memory, so
\* that a retry or a new generation can skip the steps that are done.
FailedRunKeepsWork ==
    [][\A w \in Workers :
          FailWrite(w) /\ Gen(w) \in Rows => warts[w] \subseteq arts'[Gen(w)]]_vars

\* Once nobody asks for anything more, no generation stays active for ever.
EventuallySettles == <>[](\A g \in Gens : gst[g] \notin Active)

\* A pause or cancel request is always decided, whatever happened to the worker.
TransitResolves == \A g \in Gens : gst[g] \in Transit ~> gst[g] \notin Transit

\* Retries come to an end: MaxRetries bounds them although a retry is due again, and
\* its attempt read, before the last one was counted.
RetriesEnd == <>[](spc # "retryEnqueue")

\* A domain whose generations all ended is not left in "processing".
DomainSettles == <>[](dst # "processing")

(* What the code's own words promise and its steps do not keep.            *)

\* "pause requested, will pause after current step completes" is the answer to the
\* request: the run does not go on as if nobody had asked.
PauseIsNotLost ==
    [][\A g \in Gens : gst[g] = "pause_requested" => gst'[g] # "processing"]_vars

\* handleDomainGenerate does not allow parallel runs for a domain.
OneActive == \A g, h \in Gens : gst[g] \in Active /\ gst[h] \in Active => g = h
===============================================================================
