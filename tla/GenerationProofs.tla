--------------------------- MODULE GenerationProofs ---------------------------
(***************************************************************************)
(* Proofs about Generation for every number of workers, clients, steps,    *)
(* generations, tasks, requests and retries, and for every choice of the   *)
(* requests and failures.                                                  *)
(*                                                                         *)
(* The safety properties are not inductive: artifacts are copied between   *)
(* the table, the memories of the workers and the snapshots of handlers,   *)
(* so that what is claimed of the table must be claimed of every copy, and *)
(* of where in its code each process holds it.  Inv is that strengthening. *)
(***************************************************************************)
EXTENDS Generation, TLAPS, WellFoundedInduction

\* A busy worker runs a task of its own, and tasks are about generations.
Owned ==
    /\ \A w \in Workers : wpc[w] # "idle" => wtask[w] \in TaskIds /\ tst[wtask[w]] = "running"
    /\ \A v, w \in Workers :
           v # w /\ wpc[v] # "idle" /\ wpc[w] # "idle" => wtask[v] # wtask[w]
    /\ \A t \in TaskIds : tst[t] # "free" => tgen[t] \in Gens

\* A request and the tick know the generation they are about to write or to enqueue.
NamedBy(pc, g) == pc \notin {"idle", "create", "insert", "recalc"} => g \in Gens
Named ==
    /\ \A c \in Clients : NamedBy(cpc[c], cgen[c])
    /\ spc \in {"domain", "enqueue", "retryEnqueue"} => sgen \in Gens

\* A set of artifacts any process may write: no gap, and the publish artifact only
\* once the site is deployed
Sound(a, deployed) == Closed(a) /\ (NSteps \in a => deployed)

Artifacts ==
    /\ \A g \in Gens : Sound(arts[g], site)
    /\ \A w \in Workers : Sound(warts[w], site) /\ Sound(wcopy[w], site)
    /\ \A c \in Clients : Sound(ccopy[c], site)

\* Where a run is in the loop over the steps, and what it has in memory by then
LoopAt(pc, i, a) ==
    /\ pc \in {"idle", "settle", "claim", "load"} => i = 1
    /\ pc \in {"top", "before", "exec", "saveR", "saveW", "after", "progress"} =>
           i \in Steps /\ 1..(i - 1) \subseteq a
    /\ pc \in {"saveR", "saveW", "after", "progress"} => i \in a
    /\ pc \in {"success", "successW", "finish"} => NSteps \in a
Loop == \A w \in Workers : LoopAt(wpc[w], wi[w], warts[w])

\* Everything from which a claim that the site exists is ever written
Claims ==
    /\ dst = "published" => site
    /\ lastSucc # NoGen => site
    /\ \A g \in Gens : gst[g] = "success" => site
    /\ \A w \in Workers : wread[w] = "success" \/ wstable[w] => site
    /\ \A c \in Clients : cstable[c] => site

Inv == TypeOK /\ Owned /\ Named /\ Artifacts /\ Loop /\ Claims

USE BoundsAssumption, ChoiceAssumption

-----------------------------------------------------------------------------
(* What the operators of the model return.                                 *)

\* The newest of some generations is one of them.
LEMMA LatestIsOne ==
  ASSUME NEW S \in SUBSET Gens, S # {}
  PROVE  Latest(S) \in S
<1> DEFINE age(g) == MaxGens - g
           Ages == {age(g) : g \in S}
<1>1. Ages \subseteq Nat
  BY BoundsAssumption DEF Gens
<1>0. Ages # {}
  OBVIOUS
<1>2. PICK n \in Ages : \A m \in Ages : ~ (<<m, n>> \in OpToRel(<, Nat))
  BY <1>0, <1>1, WFMin, NatLessThanWellFounded
<1>3. PICK g \in S : n = age(g)
  OBVIOUS
<1>4. ASSUME NEW h \in S PROVE h <= g
  <2>1. age(h) \in Ages
    OBVIOUS
  <2>2. ~ (age(h) < n)
    BY <1>1, <1>2, <2>1 DEF OpToRel
  <2> QED BY <1>3, <2>2 DEF Gens
<1> QED BY <1>3, <1>4 DEF Latest

\* UpdateStatus writes a status of the column into one row.
LEMMA SetStatusType ==
  ASSUME TypeTables, NEW g, NEW s \in RowStatus, SetStatus(g, s)
  PROVE  gst' \in [Gens -> RowStatus]
BY DEF TypeTables, SetStatus

\* UpdateFull writes a status and a set of artifacts into one row.
LEMMA UpdateFullType ==
  ASSUME TypeTables, NEW g, NEW s \in RowStatus, NEW a \in SUBSET Steps, UpdateFull(g, s, a)
  PROVE  gst' \in [Gens -> RowStatus] /\ arts' \in [Gens -> SUBSET Steps]
BY SetStatusType DEF TypeTables, UpdateFull

\* A pause or a cancel request never ends in success.
LEMMA FinalStatus == ASSUME NEW s PROVE Final(s) \in RowStatus /\ Final(s) # "success"
BY DEF Final, RowStatus, GenStatus

\* A domain is put back to one of its statuses.
LEMMA StableStatus == ASSUME NEW p PROVE Stable(p) \in DomainStatus
BY DEF Stable, DomainStatus

\* A new generation inherits artifacts that some generation has.
LEMMA BaseIsRow ==
  ASSUME NEW f, NEW a \in BaseArtifacts(f)
  PROVE  a = {} \/ \E g \in Gens : a = arts[g]
<1> DEFINE last == Latest(Rows)
           succ == LatestSuccess
<1>1. last = NoGen \/ last \in Gens
  BY LatestIsOne DEF Latest, Rows
<1>2. succ = NoGen \/ succ \in Gens
  BY LatestIsOne DEF Latest, LatestSuccess, Rows
<1> QED BY <1>1, <1>2 DEF BaseArtifacts

\* A task that leaves the queue leaves it typed ...
LEMMA DropType ==
  ASSUME TypeTasks, NEW t \in TaskIds, Drop(t)
  PROVE  TypeTasks'
BY DEF TypeTasks, Drop

\* ... and so does one that goes back into it, with one redelivery less ...
LEMMA RedeliverType ==
  ASSUME TypeTasks, NEW t \in TaskIds, Redeliver(t)
  PROVE  TypeTasks'
BY DropType DEF TypeTasks, Redeliver

\* ... and a new one.
LEMMA EnqueueType ==
  ASSUME TypeTasks, NEW g \in Gens \cup {NoGen}, NEW f \in 0..NSteps, Enqueue(g, f)
  PROVE  TypeTasks'
BY DEF TypeTasks, Enqueue

\* A busy worker's generation exists, and so do the artifacts it falls back on.
LEMMA KeptType ==
  ASSUME TypeOK, Owned, NEW w \in Workers, wpc[w] # "idle"
  PROVE  wtask[w] \in TaskIds /\ Gen(w) \in Gens /\ Kept(w) \in SUBSET Steps
BY DEF TypeOK, TypeTables, TypeTasks, TypeWorkers, Owned, Gen, Kept

\* A delivery that ends leaves its worker as it was.
LEMMA ResetType ==
  ASSUME TypeWorkers, NEW w \in Workers, Reset(w)
  PROVE  TypeWorkers'
BY DEF TypeWorkers, Reset, wGoto, WorkerPc, RowStatus, NoTask

\* The check before and after a step touches only where the run is and what it returns.
LEMMA ContinueType ==
  ASSUME TypeTables, TypeWorkers, NEW w \in Workers, NEW then \in WorkerPc,
         ShouldContinue(w, then)
  PROVE  TypeWorkers'
<1>1. UNCHANGED <<wtask, wi, warts, wcopy, watt, wstable, wstop>>
  BY DEF ShouldContinue
<1>2. wpc' \in [Workers -> WorkerPc]
  BY DEF ShouldContinue, wGoto, TypeWorkers, WorkerPc
<1>3. wread' \in [Workers -> RowStatus] /\ wres' \in [Workers -> {"ok", "error", "retryable"}]
  BY DEF ShouldContinue, TypeWorkers, RowStatus, GenStatus, Active, Transit
<1> QED BY <1>1, <1>2, <1>3 DEF TypeWorkers

\* So does a request that ends.
LEMMA RespondType ==
  ASSUME TypeClients, NEW c \in Clients, Respond(c), requests' \in Nat
  PROVE  TypeClients'
BY DEF TypeClients, Respond, cGoto, ClientPc, RowStatus, NoGen

\* What is written is "success" only if the writer says so.
LEMMA SuccessWritten ==
  ASSUME TypeTables, NEW g, NEW s, SetStatus(g, s)
  PROVE  \A h \in Gens : gst'[h] = "success" => gst[h] = "success" \/ s = "success"
BY DEF TypeTables, SetStatus

\* Artifacts stay sound when they are merged, dropped, completed or the site appears.
LEMMA SoundSets ==
  ASSUME NEW p \in BOOLEAN
  PROVE  /\ Sound({}, p)
         /\ \A a, b \in SUBSET Steps : Sound(a, p) /\ Sound(b, p) => Sound(a \cup b, p)
         /\ \A a \in SUBSET Steps : Sound(a, p) => Sound(a, TRUE)
BY DEF Sound, Closed

\* The artifact of a step can be added once those of the steps before it are there,
\* that of the last one once the site is.
LEMMA SoundStep ==
  ASSUME NEW a \in SUBSET Steps, NEW p, NEW q, NEW i \in Steps,
         Sound(a, p), p => q, 1..(i - 1) \subseteq a, i = NSteps => q
  PROVE  Sound(a \cup {i}, q)
<1>1. ASSUME NEW k \in a \cup {i}, NEW j \in 1..k PROVE j \in a \cup {i}
  <2>1. CASE k \in a
    BY <2>1 DEF Sound, Closed
  <2>2. CASE k = i
    BY <2>2 DEF Steps
  <2> QED BY <2>1, <2>2
<1>2. NSteps \in a \cup {i} => q
  BY DEF Sound
<1> QED BY <1>1, <1>2 DEF Sound, Closed

\* The artifacts of the row after an UPDATE are the ones written or the ones it had.
LEMMA UpdateSound ==
  ASSUME TypeTables, NEW g, NEW s, NEW a, NEW p, UpdateFull(g, s, a), Sound(a, p),
         \A h \in Gens : Sound(arts[h], p)
  PROVE  \A h \in Gens : Sound(arts'[h], p)
BY DEF TypeTables, UpdateFull

\* So the artifacts a busy worker falls back on are sound.
LEMMA KeptSound ==
  ASSUME TypeOK, Owned, Artifacts, NEW w \in Workers, wpc[w] # "idle"
  PROVE  Sound(Kept(w), site) /\ Sound(arts[Gen(w)], site)
BY KeptType DEF Kept, Artifacts

\* A step of one worker moves the others nowhere.
LEMMA LoopOfOne ==
  ASSUME TypeWorkers, Loop, NEW w \in Workers,
         \A v \in Workers : v # w => UNCHANGED <<wpc[v], wi[v], warts[v]>>,
         LoopAt(wpc'[w], wi'[w], warts'[w])
  PROVE  Loop'
BY DEF Loop

\* Tasks and workers after a worker moved on, a task was added or a delivery ended.
LEMMA OwnedByBusy ==
  ASSUME TypeWorkers, Owned, NEW w \in Workers, wpc[w] # "idle",
         \A v \in Workers : v # w => wpc'[v] = wpc[v],
         UNCHANGED <<wtask, tst, tgen>>
  PROVE  Owned'
BY DEF Owned

\* A task put into a free place is not one that some worker runs.
LEMMA OwnedAfterEnqueue ==
  ASSUME TypeTasks, Owned, NEW g \in Gens, NEW f, Enqueue(g, f), UNCHANGED wvars
  PROVE  Owned'
<1>1. \A t \in TaskIds : /\ tst[t] = "running" => tst'[t] = "running"
                         /\ tst'[t] # "free" => tgen'[t] \in Gens
  BY DEF Enqueue, TypeTasks, Owned
<1> QED BY <1>1 DEF Owned, wvars

\* A delivery that ends gives up the task its worker ran, and no other.
LEMMA OwnedAfterRelease ==
  ASSUME TypeTasks, TypeWorkers, Owned, NEW w \in Workers, wpc[w] # "idle", Reset(w),
         Drop(wtask[w]) \/ Redeliver(wtask[w])
  PROVE  Owned'
<1>1. \A t \in TaskIds : /\ t # wtask[w] => tst'[t] = tst[t]
                         /\ tst'[t] # "free" => tgen'[t] \in Gens
  BY DEF Drop, Redeliver, TypeTasks, Owned
<1>2. wpc'[w] = "idle" /\ \A v \in Workers : v # w => wpc'[v] = wpc[v] /\ wtask'[v] = wtask[v]
  BY DEF Reset, wGoto, TypeWorkers
<1> QED BY <1>1, <1>2 DEF Owned

\* A request that ended names nothing.
LEMMA NamedAfterRespond ==
  ASSUME TypeClients, Named, NEW c \in Clients, Respond(c), UNCHANGED <<spc, sgen>>
  PROVE  Named'
BY DEF Named, NamedBy, Respond, cGoto, TypeClients

\* A request that goes on names a generation, or nothing yet.
LEMMA NamedAfterMove ==
  ASSUME TypeClients, Named, NEW c \in Clients, UNCHANGED <<spc, sgen>>,
         \A d \in Clients : d # c => cpc'[d] = cpc[d] /\ cgen'[d] = cgen[d],
         NamedBy(cpc'[c], cgen'[c])
  PROVE  Named'
BY DEF Named

-----------------------------------------------------------------------------
(* What each process leaves alone.                                         *)

\* A worker touches neither the queue items nor the other processes.
LEMMA WorkerFrame ==
  ASSUME NEW w, Start(w) \/ Run(w) \/ Watch(w) \/ WorkerCrash(w)
  PROVE  UNCHANGED <<items, lastGen, cvars, svars>>
BY DEF Run, Start, Settle, Claim, Load, SetupFails, Watch, Top, Stop, Stopped, Before,
      Halt, HaltWrite, Execute, PublishedHalfway, ExecuteCanceled, ExecuteFails,
      PublishFailsHalfway, SaveRead, SaveWrite, After, Progress, Canceled, StopWrite, Success,
      SuccessWrite, Finish, Fail, FailWrite, FailRetry, LlmRead, LlmWrite, Return, WorkerCrash,
      ShouldContinue, dvars

\* Nor does a request, ...
LEMMA ClientFrame ==
  ASSUME NEW c, Arrive(c) \/ Serve(c) \/ Disconnect(c)
  PROVE  UNCHANGED <<items, wvars, svars>>
BY DEF Arrive, Serve, Generate, View, Recover, Check, Inherit, Create, EnqueueNew, Post, Act,
      Pause, Cancel, Resume, ResumeDomain, ResumeEnqueue, Delete, Recalculate, Disconnect, Request

\* ... nor the tick, which never touches the site.
LEMMA SchedulerFrame ==
  ASSUME Tick \/ ApplySchedule \/ SchedulerCrash
  PROVE  UNCHANGED <<site, lastSucc, wvars, cvars>>
BY DEF Tick, ApplySchedule, TakeItem, CreateFromItem, MarkFromItem, EnqueueFromItem, MarkItem,
      ListRetryDue, PrepareRetry, EnqueueRetry, SchedulerCrash, gvars, dvars, Insert

-----------------------------------------------------------------------------
(* Each part of Inv is kept by every step.                                 *)

\* The tables: every status written is one of the column's, every id names a row.
LEMMA TablesTyped ==
  ASSUME Inv, [Next]_vars
  PROVE  TypeTables'
<1> USE DEF Inv, TypeOK
<1>1. ASSUME NEW w \in Workers, Start(w) \/ Run(w) \/ Watch(w) \/ WorkerCrash(w)
     PROVE  TypeTables'
  <2>1. CASE Settle(w)
    BY <2>1, UpdateFullType, FinalStatus, StableStatus DEF Settle, TypeTables, TypeWorkers
  <2>2. CASE Claim(w)
    <3>1. gst' \in [Gens -> RowStatus] /\ arts' \in [Gens -> SUBSET Steps]
      BY <2>2, UpdateFullType DEF Claim, RowStatus, GenStatus, Active
    <3> QED BY <2>2, <3>1 DEF Claim, TypeTables, dvars
  <2>3. CASE SetupFails(w)
    <3>1. Gen(w) \in Gens
      BY <2>3, KeptType DEF SetupFails
    <3>2. gst' \in [Gens -> RowStatus] /\ arts' \in [Gens -> SUBSET Steps]
      BY <2>3, <3>1, UpdateFullType DEF SetupFails, TypeTables, RowStatus, GenStatus,
            Active
    <3>3. dst' \in DomainStatus
      BY <2>3, StableStatus DEF SetupFails, DomainStatus
    <3> QED BY <2>3, <3>2, <3>3 DEF SetupFails, TypeTables
  <2>4. CASE Stop(w)
    BY <2>4, SetStatusType, FinalStatus, StableStatus DEF Stop, TypeTables
  <2>5. CASE HaltWrite(w)
    <3>1. CASE UNCHANGED <<gst, arts, dst>>
      BY <2>5, <3>1 DEF HaltWrite, TypeTables
    <3>2. CASE UpdateFull(Gen(w), Final(wread[w]), wcopy[w]) /\ dst' = Stable(wstable[w])
      <4>1. gst' \in [Gens -> RowStatus] /\ arts' \in [Gens -> SUBSET Steps]
        BY <3>2, UpdateFullType, FinalStatus DEF TypeWorkers
      <4> QED BY <2>5, <3>2, <4>1, StableStatus DEF HaltWrite, TypeTables
    <3> QED BY <2>5, <3>1, <3>2 DEF HaltWrite
  <2>6. CASE Execute(w)
    BY <2>6 DEF Execute, TypeTables, DomainStatus, gvars
  <2>7. CASE ExecuteCanceled(w) \/ PublishFailsHalfway(w)
    BY <2>7 DEF ExecuteCanceled, PublishFailsHalfway, PublishedHalfway, TypeTables, DomainStatus,
          gvars
  <2>8. CASE SaveWrite(w)
    BY <2>8, UpdateFullType DEF SaveWrite, TypeTables, TypeWorkers, dvars
  <2>9. CASE Progress(w)
    BY <2>9, SetStatusType DEF Progress, TypeTables, RowStatus, GenStatus, Active, dvars
  <2>10. CASE StopWrite(w)
    BY <2>10, UpdateFullType, FinalStatus, StableStatus DEF StopWrite, TypeTables,
          TypeWorkers
  <2>11. CASE SuccessWrite(w)
    <3>1. gst' \in [Gens -> RowStatus] /\ arts' \in [Gens -> SUBSET Steps]
      BY <2>11, UpdateFullType DEF SuccessWrite, TypeWorkers, RowStatus, GenStatus
    <3>2. retry' \in [Gens -> BOOLEAN] /\ att' \in [Gens -> Nat]
      BY <2>11 DEF SuccessWrite, TypeTables, TypeWorkers
    <3> QED BY <2>11, <3>1, <3>2 DEF SuccessWrite, TypeTables, dvars
  <2>12. CASE Finish(w)
    <3>1. Gen(w) \in Gens
      BY <2>12, KeptType DEF Finish
    <3> QED BY <2>12, <3>1 DEF Finish, TypeTables, DomainStatus, gvars
  <2>13. CASE Fail(w)
    BY <2>13, StableStatus DEF Fail, TypeTables, gvars
  <2>14. CASE FailWrite(w)
    BY <2>14, UpdateFullType DEF FailWrite, TypeTables, TypeWorkers, RowStatus, GenStatus,
          dvars
  <2>15. CASE FailRetry(w)
    <3>1. att' \in [Gens -> Nat]
      BY <2>15 DEF FailRetry, TypeTables, TypeWorkers
    <3>2. retry' \in [Gens -> BOOLEAN]
      <4>1. CASE Gen(w) \in Rows
        <5>1. PICK inWindow \in BOOLEAN :
                retry' = [retry EXCEPT ![Gen(w)] =
                    wres[w] = "retryable" /\ watt[w] <= MaxRetries /\ inWindow]
          BY <2>15, <4>1 DEF FailRetry
        <5>2. (wres[w] = "retryable" /\ watt[w] <= MaxRetries /\ inWindow) \in BOOLEAN
          OBVIOUS
        <5> QED BY <5>1, <5>2, Zenon DEF TypeTables
      <4>2. CASE Gen(w) \notin Rows
        BY <2>15, <4>2 DEF FailRetry, TypeTables
      <4> QED BY <4>1, <4>2
    <3> QED BY <2>15, <3>1, <3>2, StableStatus DEF FailRetry, TypeTables
  <2>16. CASE LlmWrite(w)
    BY <2>16, UpdateFullType DEF LlmWrite, TypeTables, TypeWorkers, dvars
  <2>17. CASE \/ Start(w) \/ Load(w) \/ Watch(w) \/ Top(w) \/ Stopped(w) \/ Before(w)
              \/ Halt(w) \/ ExecuteFails(w) \/ SaveRead(w) \/ After(w)
              \/ Canceled(w) \/ Success(w) \/ LlmRead(w) \/ Return(w)
              \/ WorkerCrash(w)
    BY <2>17 DEF Start, Load, Watch, Top, Stopped, Before, Halt, ExecuteFails,
          SaveRead, After, Canceled, Success, LlmRead, Return,
          WorkerCrash, ShouldContinue, TypeTables, gvars, dvars
  <2> QED BY <1>1, <2>1, <2>2, <2>3, <2>4, <2>5, <2>6, <2>7, <2>8, <2>9, <2>10, <2>11,
        <2>12, <2>13, <2>14, <2>15, <2>16, <2>17 DEF Run
<1>2. ASSUME NEW c \in Clients, Arrive(c) \/ Serve(c) \/ Disconnect(c)
     PROVE  TypeTables'
  <2>1. CASE Recover(c)
    BY <2>1, UpdateFullType, FinalStatus, StableStatus DEF Recover, TypeTables, TypeClients
  <2>2. CASE Create(c)
    <3>1. CASE NextGen = {} /\ UNCHANGED gvars
      BY <2>2, <3>1 DEF Create, TypeTables, gvars, dvars
    <3>2. ASSUME NEW g \in NextGen, Insert(g, ccopy[c]) PROVE TypeTables'
      <4>1. g \in Gens /\ ccopy[c] \in SUBSET Steps
        BY DEF NextGen, TypeClients
      <4> QED BY <2>2, <3>2, <4>1 DEF Create, Insert, TypeTables, dvars, RowStatus,
            GenStatus, Active
    <3> QED BY <2>2, <3>1, <3>2 DEF Create
  <2>3. CASE EnqueueNew(c)
    <3>1. CASE UNCHANGED <<gst, arts, dst>>
      BY <2>3, <3>1 DEF EnqueueNew, TypeTables
    <3>2. CASE UpdateFull(cgen[c], "error", {}) /\ dst' = Stable(cstable[c])
      <4>1. gst' \in [Gens -> RowStatus] /\ arts' \in [Gens -> SUBSET Steps]
        BY <3>2, UpdateFullType DEF RowStatus, GenStatus
      <4> QED BY <2>3, <3>2, <4>1, StableStatus DEF EnqueueNew, TypeTables
    <3> QED BY <2>3, <3>1, <3>2 DEF EnqueueNew
  <2>4. CASE Post(c)
    BY <2>4 DEF Post, TypeTables, TypeClients, DomainStatus, gvars
  <2>5. CASE Pause(c)
    BY <2>5, SetStatusType, StableStatus DEF Pause, TypeTables, RowStatus, GenStatus,
          Active, Transit
  <2>6. CASE Cancel(c)
    BY <2>6, SetStatusType, StableStatus DEF Cancel, TypeTables, RowStatus, GenStatus,
          Active, Transit
  <2>7. CASE Resume(c)
    BY <2>7, SetStatusType DEF Resume, TypeTables, RowStatus, GenStatus, Active, dvars
  <2>8. CASE ResumeEnqueue(c)
    BY <2>8, SetStatusType, StableStatus DEF ResumeEnqueue, TypeTables, RowStatus, GenStatus
  <2>9. ASSUME NEW g \in Gens, Delete(c, g) PROVE TypeTables'
    BY <2>9 DEF Delete, TypeTables, RowStatus, dvars
  <2>10. CASE Recalculate(c)
    <3>1. lastGen' \in Gens \cup {NoGen} /\ lastSucc' \in Gens \cup {NoGen}
      BY <2>10, LatestIsOne DEF Recalculate, LatestSuccess, Latest, Rows
    <3> QED BY <2>10, <3>1 DEF Recalculate, TypeTables, gvars
  <2>11. CASE \/ Generate(c) \/ (\E g \in Gens : View(c, g)) \/ Check(c) \/ Inherit(c)
              \/ (\E g \in Gens, op \in {"pause", "resume", "cancel"} : Act(c, op, g))
              \/ ResumeDomain(c) \/ Disconnect(c)
    BY <2>11 DEF Generate, View, Check, Inherit, Act, ResumeDomain, Disconnect, Request,
          TypeTables, DomainStatus, gvars, dvars
  <2> QED BY <1>2, <2>1, <2>2, <2>3, <2>4, <2>5, <2>6, <2>7, <2>8, <2>9, <2>10, <2>11
        DEF Arrive, Serve
<1>3. CASE Tick \/ ApplySchedule \/ SchedulerCrash
  <2>1. CASE ApplySchedule
    BY <2>1 DEF ApplySchedule, TypeTables, ItemStatus, gvars, dvars
  <2>2. ASSUME NEW q \in Items, TakeItem(q) PROVE TypeTables'
    BY <2>2 DEF TakeItem, TypeTables, ItemStatus, gvars, dvars
  <2>3. CASE CreateFromItem
    BY <2>3 DEF CreateFromItem, TypeTables, ItemStatus, RowStatus, GenStatus, Active,
          NextGen, Insert, gvars, dvars
  <2>4. CASE EnqueueFromItem
    BY <2>4, SetStatusType DEF EnqueueFromItem, TypeTables, TypeScheduler, ItemStatus,
          RowStatus, GenStatus, DomainStatus
  <2>8. CASE MarkFromItem
    BY <2>8 DEF MarkFromItem, TypeTables, TypeScheduler, DomainStatus, gvars
  <2>5. CASE MarkItem
    BY <2>5 DEF MarkItem, TypeTables, ItemStatus, gvars, dvars
  <2>6. ASSUME NEW g \in Gens, PrepareRetry(g) PROVE TypeTables'
    BY <2>6, SetStatusType DEF PrepareRetry, TypeTables, RowStatus, GenStatus, Active,
          dvars
  <2>7. CASE \/ ListRetryDue \/ EnqueueRetry \/ SchedulerCrash
    BY <2>7 DEF ListRetryDue, EnqueueRetry, SchedulerCrash, TypeTables, gvars, dvars
  <2> QED BY <1>3, <2>1, <2>2, <2>3, <2>4, <2>5, <2>6, <2>7, <2>8 DEF Tick
<1>4. CASE UNCHANGED vars
  BY <1>4 DEF vars, gvars, dvars, TypeTables
<1> QED BY <1>1, <1>2, <1>3, <1>4 DEF Next

\* The queue: a task in it names a generation and has redeliveries left within the bound.
LEMMA TasksTyped ==
  ASSUME Inv, [Next]_vars
  PROVE  TypeTasks'
<1> USE DEF Inv, TypeOK
<1>1. ASSUME NEW w \in Workers, Start(w) \/ Run(w) \/ Watch(w) \/ WorkerCrash(w)
     PROVE  TypeTasks'
  <2>1. CASE Start(w)
    BY <2>1 DEF Start, TypeTasks, TypeTables, TypeWorkers, wGoto, Rows
  <2>2. CASE Return(w)
    <3>1. wtask[w] \in TaskIds
      BY <2>2, KeptType DEF Return
    <3> QED BY <2>2, <3>1, DropType, RedeliverType DEF Return
  <2>3. CASE WorkerCrash(w)
    <3>1. wtask[w] \in TaskIds
      BY <2>3, KeptType DEF WorkerCrash
    <3> QED BY <2>3, <3>1, DropType, RedeliverType DEF WorkerCrash
  <2>4. CASE \/ Settle(w) \/ Claim(w) \/ Load(w) \/ SetupFails(w) \/ Watch(w)
             \/ Top(w) \/ Stop(w) \/ Stopped(w) \/ Before(w) \/ Halt(w)
             \/ HaltWrite(w) \/ Execute(w) \/ ExecuteCanceled(w) \/ ExecuteFails(w)
             \/ PublishFailsHalfway(w) \/ SaveRead(w) \/ SaveWrite(w) \/ After(w)
             \/ Progress(w) \/ Canceled(w) \/ StopWrite(w) \/ Success(w)
             \/ SuccessWrite(w) \/ Finish(w) \/ Fail(w) \/ FailWrite(w)
             \/ FailRetry(w) \/ LlmRead(w) \/ LlmWrite(w)
    BY <2>4 DEF Settle, Claim, Load, SetupFails, Watch, Top, Stop, Stopped, Before,
          Halt, HaltWrite, Execute, ExecuteCanceled, ExecuteFails, PublishFailsHalfway,
          SaveRead, SaveWrite, After, Progress, Canceled, StopWrite, Success,
          SuccessWrite, Finish, Fail, FailWrite, FailRetry, LlmRead, LlmWrite,
          ShouldContinue, TypeTasks, tvars
  <2> QED BY <1>1, <2>1, <2>2, <2>3, <2>4 DEF Run
<1>2. ASSUME NEW c \in Clients, Arrive(c) \/ Serve(c) \/ Disconnect(c)
     PROVE  TypeTasks'
  <2>1. CASE EnqueueNew(c)
    <3>1. CASE Enqueue(cgen[c], cforce[c])
      BY <3>1, EnqueueType DEF TypeClients
    <3>2. CASE UNCHANGED tvars
      BY <3>2 DEF TypeTasks, tvars
    <3> QED BY <2>1, <3>1, <3>2 DEF EnqueueNew
  <2>2. CASE ResumeEnqueue(c)
    <3>1. CASE Enqueue(cgen[c], 0)
      BY <3>1, EnqueueType DEF TypeClients
    <3>2. CASE UNCHANGED tvars
      BY <3>2 DEF TypeTasks, tvars
    <3> QED BY <2>2, <3>1, <3>2 DEF ResumeEnqueue
  <2>3. CASE \/ Generate(c) \/ (\E g \in Gens : View(c, g)) \/ Recover(c) \/ Check(c)
             \/ Inherit(c) \/ Create(c) \/ Post(c)
             \/ (\E g \in Gens, op \in {"pause", "resume", "cancel"} : Act(c, op, g))
             \/ Pause(c) \/ Cancel(c) \/ Resume(c) \/ ResumeDomain(c) \/ (\E g \in Gens : Delete(c, g))
             \/ Recalculate(c) \/ Disconnect(c)
    BY <2>3 DEF Generate, View, Recover, Check, Inherit, Create, Post, Act, Pause, Cancel,
          Resume, ResumeDomain, Delete, Recalculate, Disconnect, Request, TypeTasks, tvars
  <2> QED BY <1>2, <2>1, <2>2, <2>3 DEF Arrive, Serve
<1>3. CASE Tick \/ ApplySchedule \/ SchedulerCrash
  <2>1. CASE EnqueueFromItem
    <3>1. CASE Enqueue(sgen, 0)
      BY <3>1, EnqueueType DEF TypeScheduler
    <3>2. CASE UNCHANGED tvars
      BY <3>2 DEF TypeTasks, tvars
    <3> QED BY <2>1, <3>1, <3>2 DEF EnqueueFromItem
  <2>2. CASE EnqueueRetry
    BY <2>2, EnqueueType DEF EnqueueRetry, TypeTasks, TypeScheduler, tvars
  <2>3. CASE \/ ApplySchedule \/ (\E q \in Items : TakeItem(q)) \/ CreateFromItem
             \/ MarkFromItem \/ MarkItem \/ ListRetryDue \/ (\E g \in Gens : PrepareRetry(g))
             \/ SchedulerCrash
    BY <2>3 DEF ApplySchedule, TakeItem, CreateFromItem, MarkFromItem, MarkItem, ListRetryDue,
          PrepareRetry, SchedulerCrash, TypeTasks, tvars
  <2> QED BY <1>3, <2>1, <2>2, <2>3 DEF Tick
<1>4. CASE UNCHANGED vars
  BY <1>4 DEF vars, tvars, TypeTasks
<1> QED BY <1>1, <1>2, <1>3, <1>4 DEF Next

\* The workers: the step a run is at stays within the pipeline.
LEMMA WorkersTyped ==
  ASSUME Inv, [Next]_vars
  PROVE  TypeWorkers'
<1> USE DEF Inv, TypeOK
<1>1. ASSUME NEW w \in Workers, Start(w) \/ Run(w) \/ Watch(w) \/ WorkerCrash(w)
     PROVE  TypeWorkers'
  <2>1. CASE Start(w)
    <3>1. PICK t \in TaskIds :
            /\ tst[t] = "queued"
            /\ wtask' = [wtask EXCEPT ![w] = t]
            /\ wread' = [wread EXCEPT ![w] = gst[tgen[t]]]
            /\ wcopy' = [wcopy EXCEPT ![w] = arts[tgen[t]]]
            /\ warts' = [warts EXCEPT ![w] = arts[tgen[t]]]
            /\ wres' = [wres EXCEPT ![w] = IF tgen[t] \in Rows THEN "ok" ELSE "error"]
            /\ wGoto(w, CASE gst[tgen[t]] \in Transit -> "settle"
                          [] gst[tgen[t]] \in {"pending", "error"} -> "claim"
                          [] gst[tgen[t]] = "processing" -> "load"
                          [] OTHER -> "return")
      BY <2>1 DEF Start
    <3>2. gst[tgen[t]] \in RowStatus /\ arts[tgen[t]] \in SUBSET Steps
      BY <3>1 DEF Owned, TypeTables
    <3>3. wpc' \in [Workers -> WorkerPc]
      BY <3>1 DEF wGoto, TypeWorkers, WorkerPc
    <3>4. wstable' \in [Workers -> BOOLEAN]
      BY <2>1 DEF Start, TypeWorkers, TypeTables
    <3> QED BY <2>1, <3>1, <3>2, <3>3, <3>4 DEF Start, TypeWorkers
  <2>2. CASE Settle(w)
    BY <2>2 DEF Settle, TypeWorkers, wGoto, WorkerPc
  <2>3. CASE Claim(w)
    BY <2>3 DEF Claim, TypeWorkers, wGoto, WorkerPc
  <2>4. CASE Load(w)
    BY <2>4 DEF Load, TypeWorkers, wGoto, TypeTables, Gen, Rows, WorkerPc
  <2>5. CASE SetupFails(w)
    BY <2>5 DEF SetupFails, TypeWorkers, wGoto, WorkerPc
  <2>6. CASE Watch(w)
    BY <2>6 DEF Watch, TypeWorkers, WorkerPc
  <2>7. CASE Top(w)
    <3>1. wi[w] \in Steps
      BY <2>7 DEF Top, Loop, LoopAt
    <3>2. wpc' \in [Workers -> WorkerPc]
      BY <2>7 DEF Top, NextStepPc, wGoto, TypeWorkers, WorkerPc
    <3>3. wi' \in [Workers -> 1..NSteps + 1]
      BY <2>7, <3>1 DEF Top, TypeWorkers, Steps
    <3>4. wread' \in [Workers -> RowStatus] /\ wres' \in [Workers -> {"ok", "error", "retryable"}]
      BY <2>7 DEF Top, TypeWorkers, RowStatus, GenStatus, Active, Transit
    <3> QED BY <2>7, <3>2, <3>3, <3>4 DEF Top, TypeWorkers
  <2>8. CASE Stop(w)
    BY <2>8 DEF Stop, TypeWorkers, wGoto, WorkerPc
  <2>9. CASE Stopped(w)
    BY <2>9, KeptType DEF Stopped, TypeWorkers, wGoto, TypeTables, WorkerPc
  <2>10. CASE Before(w)
    BY <2>10, ContinueType DEF Before, WorkerPc
  <2>11. CASE Halt(w)
    BY <2>11, KeptType DEF Halt, TypeWorkers, wGoto, TypeTables, WorkerPc
  <2>12. CASE HaltWrite(w)
    BY <2>12 DEF HaltWrite, TypeWorkers, wGoto, WorkerPc
  <2>13. CASE Execute(w)
    <3>1. wi[w] \in Steps
      BY <2>13 DEF Execute, Loop, LoopAt
    <3> QED BY <2>13, <3>1 DEF Execute, TypeWorkers, wGoto, WorkerPc
  <2>14. CASE ExecuteCanceled(w)
    BY <2>14 DEF ExecuteCanceled, TypeWorkers, wGoto, WorkerPc
  <2>15. CASE ExecuteFails(w)
    BY <2>15 DEF ExecuteFails, Failures, TypeWorkers, wGoto, WorkerPc
  <2>16. CASE PublishFailsHalfway(w)
    BY <2>16 DEF PublishFailsHalfway, Failures, TypeWorkers, wGoto, WorkerPc
  <2>17. CASE SaveRead(w)
    BY <2>17 DEF SaveRead, TypeWorkers, wGoto, Gen, Rows, TypeTables, WorkerPc
  <2>18. CASE SaveWrite(w)
    BY <2>18 DEF SaveWrite, TypeWorkers, wGoto, WorkerPc
  <2>19. CASE After(w)
    BY <2>19, ContinueType DEF After, WorkerPc
  <2>20. CASE Progress(w)
    <3>1. wi[w] \in Steps
      BY <2>20 DEF Progress, Loop, LoopAt
    <3> QED BY <2>20, <3>1 DEF Progress, TypeWorkers, NextStepPc, wGoto, WorkerPc, Steps
  <2>21. CASE Canceled(w)
    BY <2>21, KeptType DEF Canceled, TypeWorkers, wGoto, TypeTables, RowStatus, GenStatus,
          Active, Transit, WorkerPc
  <2>22. CASE StopWrite(w)
    BY <2>22 DEF StopWrite, TypeWorkers, wGoto, WorkerPc
  <2>23. CASE Success(w)
    BY <2>23, KeptType DEF Success, TypeWorkers, wGoto, TypeTables, WorkerPc
  <2>24. CASE SuccessWrite(w)
    BY <2>24 DEF SuccessWrite, TypeWorkers, wGoto, WorkerPc
  <2>25. CASE Finish(w)
    BY <2>25 DEF Finish, TypeWorkers, wGoto, WorkerPc
  <2>26. CASE Fail(w)
    BY <2>26, KeptType DEF Fail, TypeWorkers, wGoto, TypeTables, NextAttempt, WorkerPc
  <2>27. CASE FailWrite(w)
    BY <2>27 DEF FailWrite, TypeWorkers, wGoto, WorkerPc
  <2>28. CASE FailRetry(w)
    BY <2>28 DEF FailRetry, TypeWorkers, wGoto, WorkerPc
  <2>29. CASE LlmRead(w)
    BY <2>29, KeptType DEF LlmRead, TypeWorkers, wGoto, TypeTables, WorkerPc
  <2>30. CASE LlmWrite(w)
    BY <2>30 DEF LlmWrite, TypeWorkers, wGoto, WorkerPc
  <2>31. CASE Return(w)
    BY <2>31, ResetType DEF Return
  <2>32. CASE WorkerCrash(w)
    BY <2>32, ResetType DEF WorkerCrash
  <2> QED BY <1>1, <2>1, <2>2, <2>3, <2>4, <2>5, <2>6, <2>7, <2>8, <2>9, <2>10, <2>11,
        <2>12, <2>13, <2>14, <2>15, <2>16, <2>17, <2>18, <2>19, <2>20, <2>21, <2>22,
        <2>23, <2>24, <2>25, <2>26, <2>27, <2>28, <2>29, <2>30, <2>31, <2>32 DEF Run
<1>2. ASSUME NEW c \in Clients, Arrive(c) \/ Serve(c) \/ Disconnect(c)
     PROVE  TypeWorkers'
  BY <1>2, ClientFrame DEF TypeWorkers, wvars
<1>3. CASE Tick \/ ApplySchedule \/ SchedulerCrash
  BY <1>3, SchedulerFrame DEF TypeWorkers, wvars
<1>4. CASE UNCHANGED vars
  BY <1>4 DEF vars, wvars, TypeWorkers
<1> QED BY <1>1, <1>2, <1>3, <1>4 DEF Next

\* The requests: what they have read is what the tables can hold.
LEMMA ClientsTyped ==
  ASSUME Inv, [Next]_vars
  PROVE  TypeClients'
<1> USE DEF Inv, TypeOK
<1>1. ASSUME NEW w \in Workers, Start(w) \/ Run(w) \/ Watch(w) \/ WorkerCrash(w)
     PROVE  TypeClients'
  BY <1>1, WorkerFrame DEF TypeClients, cvars
<1>2. ASSUME NEW c \in Clients, Arrive(c) \/ Serve(c) \/ Disconnect(c)
     PROVE  TypeClients'
  <2>1. CASE Generate(c)
    <3> DEFINE last == Latest(Rows)
    <3>1. last = NoGen \/ last \in Gens
      BY LatestIsOne DEF Latest, Rows
    <3>3. cforce' \in [Clients -> 0..NSteps]
      BY <2>1, ChoiceAssumption DEF Generate, TypeClients
    <3>4. cread' \in [Clients -> RowStatus] /\ ccopy' \in [Clients -> SUBSET Steps]
      BY <2>1, <3>1 DEF Generate, TypeClients, TypeTables, RowStatus, NoGen, Gens
    <3>5. PICK pc \in ClientPc : Request(c, "generate", last, pc)
      BY <2>1 DEF Generate, ClientPc
    <3>6. cpc' \in [Clients -> ClientPc] /\ cgen' \in [Clients -> Gens \cup {NoGen}]
      BY <3>1, <3>5 DEF Request, cGoto, TypeClients
    <3>7. cstable' \in [Clients -> BOOLEAN] /\ requests' \in Nat
      BY <3>5 DEF Request, TypeClients, TypeTables
    <3> QED BY <3>3, <3>4, <3>6, <3>7 DEF TypeClients
  <2>2. ASSUME NEW g \in Gens, View(c, g) PROVE TypeClients'
    BY <2>2 DEF View, TypeClients, TypeTables, Request, cGoto, ClientPc
  <2>3. CASE Recover(c)
    <3>1. requests' \in Nat
      BY <2>3 DEF Recover, TypeClients
    <3>2. CASE Respond(c)
      BY <3>1, <3>2, RespondType
    <3>3. CASE ~ Respond(c)
      BY <2>3, <3>3 DEF Recover, TypeClients, cGoto, ClientPc
    <3> QED BY <3>2, <3>3
  <2>4. CASE Check(c)
    <3>1. requests' \in Nat
      BY <2>4 DEF Check, TypeClients
    <3>2. CASE Respond(c)
      BY <3>1, <3>2, RespondType
    <3>3. CASE ~ Respond(c)
      BY <2>4, <3>3 DEF Check, TypeClients, cGoto, ClientPc
    <3> QED BY <3>2, <3>3
  <2>5. CASE Create(c)
    <3>1. requests' \in Nat
      BY <2>5 DEF Create, TypeClients
    <3>2. CASE Respond(c)
      BY <3>1, <3>2, RespondType
    <3>3. CASE ~ Respond(c)
      BY <2>5, <3>3 DEF Create, TypeClients, cGoto, ClientPc, NextGen
    <3> QED BY <3>2, <3>3
  <2>6. CASE EnqueueNew(c)
    <3>1. requests' \in Nat
      BY <2>6 DEF EnqueueNew, TypeClients
    <3>2. CASE Respond(c)
      BY <3>1, <3>2, RespondType
    <3>3. CASE ~ Respond(c)
      BY <2>6, <3>3 DEF EnqueueNew, TypeClients, cGoto, ClientPc
    <3> QED BY <3>2, <3>3
  <2>7. CASE Post(c)
    <3>1. requests' \in Nat
      BY <2>7 DEF Post, TypeClients
    <3> QED BY <2>7, <3>1, RespondType DEF Post
  <2>8. ASSUME NEW g \in Gens, NEW op \in {"pause", "resume", "cancel"}, Act(c, op, g)
       PROVE  TypeClients'
    BY <2>8 DEF Act, TypeClients, TypeTables, Request, cGoto, Accepts, ClientPc
  <2>9. CASE Pause(c)
    <3>1. requests' \in Nat
      BY <2>9 DEF Pause, TypeClients
    <3> QED BY <2>9, <3>1, RespondType DEF Pause
  <2>10. CASE Cancel(c)
    <3>1. requests' \in Nat
      BY <2>10 DEF Cancel, TypeClients
    <3> QED BY <2>10, <3>1, RespondType DEF Cancel
  <2>11. CASE Resume(c)
    BY <2>11 DEF Resume, TypeClients, TypeTables, cGoto, SetStatus, Rows, ClientPc
  <2>12. CASE ResumeEnqueue(c)
    <3>1. requests' \in Nat
      BY <2>12 DEF ResumeEnqueue, TypeClients
    <3> QED BY <2>12, <3>1, RespondType DEF ResumeEnqueue
  <2>16. CASE Inherit(c)
    <3>1. PICK a \in BaseArtifacts(cforce[c]) : ccopy' = [ccopy EXCEPT ![c] = a]
      BY <2>16 DEF Inherit
    <3>2. a \in SUBSET Steps
      BY BaseIsRow DEF TypeTables
    <3> QED BY <2>16, <3>1, <3>2 DEF Inherit, TypeClients, cGoto, ClientPc
  <2>17. CASE ResumeDomain(c)
    BY <2>17 DEF ResumeDomain, TypeClients, cGoto, ClientPc
  <2>13. ASSUME NEW g \in Gens, Delete(c, g) PROVE TypeClients'
    BY <2>13 DEF Delete, TypeClients, TypeTables, cGoto, Rows, ClientPc
  <2>14. CASE Recalculate(c)
    <3>1. requests' \in Nat
      BY <2>14 DEF Recalculate, TypeClients
    <3> QED BY <2>14, <3>1, RespondType DEF Recalculate
  <2>15. CASE Disconnect(c)
    <3>1. requests' \in Nat
      BY <2>15 DEF Disconnect, TypeClients
    <3> QED BY <2>15, <3>1, RespondType DEF Disconnect
  <2> QED BY <1>2, <2>1, <2>2, <2>3, <2>4, <2>5, <2>6, <2>7, <2>8, <2>9, <2>10, <2>11,
        <2>12, <2>13, <2>14, <2>15, <2>16, <2>17 DEF Arrive, Serve
<1>3. CASE Tick \/ ApplySchedule \/ SchedulerCrash
  BY <1>3, SchedulerFrame DEF TypeClients, cvars
<1>4. CASE UNCHANGED vars
  BY <1>4 DEF vars, cvars, TypeClients
<1> QED BY <1>1, <1>2, <1>3, <1>4 DEF Next

\* The scheduler's tick.
LEMMA SchedulerTyped ==
  ASSUME Inv, [Next]_vars
  PROVE  TypeScheduler'
<1> USE DEF Inv, TypeOK
<1>1. ASSUME NEW w \in Workers, Start(w) \/ Run(w) \/ Watch(w) \/ WorkerCrash(w)
     PROVE  TypeScheduler'
  BY <1>1, WorkerFrame DEF TypeScheduler, svars
<1>2. ASSUME NEW c \in Clients, Arrive(c) \/ Serve(c) \/ Disconnect(c)
     PROVE  TypeScheduler'
  BY <1>2, ClientFrame DEF TypeScheduler, svars
<1>3. CASE Tick \/ ApplySchedule \/ SchedulerCrash
  <2>1. ASSUME NEW q \in Items, TakeItem(q) PROVE TypeScheduler'
    BY <2>1 DEF TakeItem, TypeScheduler, SchedulerPc, NoItem
  <2>2. CASE CreateFromItem
    BY <2>2 DEF CreateFromItem, TypeScheduler, SchedulerPc, NextGen, NoGen, NoItem
  <2>3. CASE EnqueueFromItem
    BY <2>3 DEF EnqueueFromItem, TypeScheduler, SchedulerPc, NoGen, NoItem
  <2>4. CASE MarkItem
    BY <2>4 DEF MarkItem, TypeScheduler, SchedulerPc, NoGen, NoItem
  <2>5. CASE ListRetryDue
    BY <2>5 DEF ListRetryDue, TypeScheduler, SchedulerPc, Rows, NoGen, NoItem
  <2>6. ASSUME NEW g \in Gens, PrepareRetry(g) PROVE TypeScheduler'
    BY <2>6 DEF PrepareRetry, TypeScheduler, SchedulerPc, NoGen, NoItem
  <2>7. CASE EnqueueRetry
    BY <2>7 DEF EnqueueRetry, TypeScheduler, SchedulerPc, NoGen, NoItem
  <2>8. CASE SchedulerCrash
    BY <2>8 DEF SchedulerCrash, TypeScheduler, SchedulerPc, NoGen, NoItem
  <2>9. CASE ApplySchedule
    BY <2>9 DEF ApplySchedule, TypeScheduler, svars
  <2>10. CASE MarkFromItem
    BY <2>10 DEF MarkFromItem, TypeScheduler, SchedulerPc
  <2> QED BY <1>3, <2>1, <2>2, <2>3, <2>4, <2>5, <2>6, <2>7, <2>8, <2>9, <2>10 DEF Tick
<1>4. CASE UNCHANGED vars
  BY <1>4 DEF vars, svars, TypeScheduler
<1> QED BY <1>1, <1>2, <1>3, <1>4 DEF Next

\* A task is only ever delivered to one worker at a time, and outlives the delivery
\* only in the queue.
LEMMA OwnedKept ==
  ASSUME Inv, [Next]_vars
  PROVE  Owned'
<1> USE DEF Inv, TypeOK
<1>1. ASSUME NEW w \in Workers, Start(w) \/ Run(w) \/ Watch(w) \/ WorkerCrash(w)
     PROVE  Owned'
  <2>1. CASE Start(w)
    <3>1. PICK t \in TaskIds :
            /\ tst[t] = "queued" /\ tst' = [tst EXCEPT ![t] = "running"]
            /\ wtask' = [wtask EXCEPT ![w] = t]
      BY <2>1 DEF Start
    <3>2. wpc[w] = "idle" /\ tgen' = tgen /\ \A v \in Workers : v # w => wpc'[v] = wpc[v]
      BY <2>1 DEF Start, wGoto, TypeWorkers
    <3>3. \A v \in Workers : v # w => wtask'[v] = wtask[v]
      BY <3>1 DEF TypeWorkers
    <3>4. wtask'[w] = t
      BY <3>1 DEF TypeWorkers
    <3>5. tst'[t] = "running" /\ \A u \in TaskIds : u # t => tst'[u] = tst[u]
      BY <3>1 DEF TypeTasks
    <3> QED BY <3>1, <3>2, <3>3, <3>4, <3>5 DEF Owned
  <2>2. CASE Settle(w)
    BY <2>2, OwnedByBusy DEF Settle, wGoto, tvars, TypeWorkers
  <2>3. CASE Claim(w)
    BY <2>3, OwnedByBusy DEF Claim, wGoto, tvars, TypeWorkers
  <2>4. CASE Load(w)
    BY <2>4, OwnedByBusy DEF Load, wGoto, tvars, TypeWorkers
  <2>5. CASE SetupFails(w)
    BY <2>5, OwnedByBusy DEF SetupFails, wGoto, tvars, TypeWorkers
  <2>6. CASE Top(w)
    BY <2>6, OwnedByBusy DEF Top, wGoto, tvars, TypeWorkers
  <2>7. CASE Stop(w)
    BY <2>7, OwnedByBusy DEF Stop, wGoto, tvars, TypeWorkers
  <2>8. CASE Stopped(w)
    BY <2>8, OwnedByBusy DEF Stopped, wGoto, tvars, TypeWorkers
  <2>9. CASE Before(w)
    BY <2>9, OwnedByBusy DEF Before, ShouldContinue, wGoto, tvars, TypeWorkers
  <2>10. CASE Halt(w)
    BY <2>10, OwnedByBusy DEF Halt, wGoto, tvars, TypeWorkers
  <2>11. CASE HaltWrite(w)
    BY <2>11, OwnedByBusy DEF HaltWrite, wGoto, tvars, TypeWorkers
  <2>12. CASE Execute(w)
    BY <2>12, OwnedByBusy DEF Execute, wGoto, tvars, TypeWorkers
  <2>13. CASE ExecuteCanceled(w)
    BY <2>13, OwnedByBusy DEF ExecuteCanceled, wGoto, tvars, TypeWorkers
  <2>14. CASE ExecuteFails(w)
    BY <2>14, OwnedByBusy DEF ExecuteFails, wGoto, tvars, TypeWorkers
  <2>15. CASE PublishFailsHalfway(w)
    BY <2>15, OwnedByBusy DEF PublishFailsHalfway, wGoto, tvars, TypeWorkers
  <2>16. CASE SaveRead(w)
    BY <2>16, OwnedByBusy DEF SaveRead, wGoto, tvars, TypeWorkers
  <2>17. CASE SaveWrite(w)
    BY <2>17, OwnedByBusy DEF SaveWrite, wGoto, tvars, TypeWorkers
  <2>18. CASE After(w)
    BY <2>18, OwnedByBusy DEF After, ShouldContinue, wGoto, tvars, TypeWorkers
  <2>19. CASE Progress(w)
    BY <2>19, OwnedByBusy DEF Progress, wGoto, tvars, TypeWorkers
  <2>20. CASE Canceled(w)
    BY <2>20, OwnedByBusy DEF Canceled, wGoto, tvars, TypeWorkers
  <2>21. CASE StopWrite(w)
    BY <2>21, OwnedByBusy DEF StopWrite, wGoto, tvars, TypeWorkers
  <2>22. CASE Success(w)
    BY <2>22, OwnedByBusy DEF Success, wGoto, tvars, TypeWorkers
  <2>23. CASE SuccessWrite(w)
    BY <2>23, OwnedByBusy DEF SuccessWrite, wGoto, tvars, TypeWorkers
  <2>24. CASE Finish(w)
    BY <2>24, OwnedByBusy DEF Finish, wGoto, tvars, TypeWorkers
  <2>25. CASE Fail(w)
    BY <2>25, OwnedByBusy DEF Fail, wGoto, tvars, TypeWorkers
  <2>26. CASE FailWrite(w)
    BY <2>26, OwnedByBusy DEF FailWrite, wGoto, tvars, TypeWorkers
  <2>27. CASE FailRetry(w)
    BY <2>27, OwnedByBusy DEF FailRetry, wGoto, tvars, TypeWorkers
  <2>28. CASE LlmRead(w)
    BY <2>28, OwnedByBusy DEF LlmRead, wGoto, tvars, TypeWorkers
  <2>29. CASE LlmWrite(w)
    BY <2>29, OwnedByBusy DEF LlmWrite, wGoto, tvars, TypeWorkers
  <2>30. CASE Return(w)
    BY <2>30, OwnedAfterRelease DEF Return
  <2>31. CASE WorkerCrash(w)
    BY <2>31, OwnedAfterRelease DEF WorkerCrash
  <2>32. CASE \/ Watch(w)
    BY <2>32 DEF Watch, Owned, tvars, wvars
  <2> QED BY <1>1, <2>1, <2>2, <2>3, <2>4, <2>5, <2>6, <2>7, <2>8, <2>9, <2>10, <2>11,
        <2>12, <2>13, <2>14, <2>15, <2>16, <2>17, <2>18, <2>19, <2>20, <2>21, <2>22,
        <2>23, <2>24, <2>25, <2>26, <2>27, <2>28, <2>29, <2>30, <2>31, <2>32 DEF Run
<1>2. ASSUME NEW c \in Clients, Arrive(c) \/ Serve(c) \/ Disconnect(c)
     PROVE  Owned'
  <2>1. CASE EnqueueNew(c)
    <3>1. cgen[c] \in Gens
      BY <2>1 DEF EnqueueNew, Named, NamedBy
    <3>2. CASE UNCHANGED tvars
      BY <2>1, <3>2 DEF EnqueueNew, Owned, tvars, wvars
    <3> QED BY <2>1, <3>1, <3>2, OwnedAfterEnqueue DEF EnqueueNew
  <2>2. CASE ResumeEnqueue(c)
    <3>1. cgen[c] \in Gens
      BY <2>2 DEF ResumeEnqueue, Named, NamedBy
    <3>2. CASE UNCHANGED tvars
      BY <2>2, <3>2 DEF ResumeEnqueue, Owned, tvars, wvars
    <3> QED BY <2>2, <3>1, <3>2, OwnedAfterEnqueue DEF ResumeEnqueue
  <2>3. CASE \/ Generate(c) \/ (\E g \in Gens : View(c, g)) \/ Recover(c) \/ Check(c)
             \/ Inherit(c) \/ Create(c) \/ Post(c)
             \/ (\E g \in Gens, op \in {"pause", "resume", "cancel"} : Act(c, op, g))
             \/ Pause(c) \/ Cancel(c) \/ Resume(c) \/ ResumeDomain(c) \/ (\E g \in Gens : Delete(c, g))
             \/ Recalculate(c) \/ Disconnect(c)
    BY <2>3 DEF Generate, View, Recover, Check, Inherit, Create, Post, Act, Pause, Cancel,
          Resume, ResumeDomain, Delete, Recalculate, Disconnect, Request, Owned, tvars, wvars
  <2> QED BY <1>2, <2>1, <2>2, <2>3 DEF Arrive, Serve
<1>3. CASE Tick \/ ApplySchedule \/ SchedulerCrash
  <2>1. CASE EnqueueFromItem
    <3>1. sgen \in Gens
      BY <2>1 DEF EnqueueFromItem, Named
    <3>2. CASE UNCHANGED tvars
      BY <2>1, <3>2 DEF EnqueueFromItem, Owned, tvars, wvars
    <3> QED BY <2>1, <3>1, <3>2, OwnedAfterEnqueue DEF EnqueueFromItem
  <2>2. CASE EnqueueRetry
    <3>1. sgen \in Gens
      BY <2>2 DEF EnqueueRetry, Named
    <3>2. CASE UNCHANGED tvars
      BY <2>2, <3>2 DEF EnqueueRetry, Owned, tvars, wvars
    <3> QED BY <2>2, <3>1, <3>2, OwnedAfterEnqueue DEF EnqueueRetry
  <2>3. CASE \/ ApplySchedule \/ (\E q \in Items : TakeItem(q)) \/ CreateFromItem
             \/ MarkFromItem \/ MarkItem \/ ListRetryDue \/ (\E g \in Gens : PrepareRetry(g))
             \/ SchedulerCrash
    BY <2>3 DEF ApplySchedule, TakeItem, CreateFromItem, MarkFromItem, MarkItem, ListRetryDue,
          PrepareRetry, SchedulerCrash, Owned, tvars, wvars
  <2> QED BY <1>3, <2>1, <2>2, <2>3 DEF Tick
<1>4. CASE UNCHANGED vars
  BY <1>4 DEF vars, tvars, wvars, Owned
<1> QED BY <1>1, <1>2, <1>3, <1>4 DEF Next

\* A request names a generation by the time it writes one.
LEMMA NamedKept ==
  ASSUME Inv, [Next]_vars
  PROVE  Named'
<1> USE DEF Inv, TypeOK
<1>1. ASSUME NEW w \in Workers, Start(w) \/ Run(w) \/ Watch(w) \/ WorkerCrash(w)
     PROVE  Named'
  BY <1>1, WorkerFrame DEF Named, cvars, svars
<1>2. ASSUME NEW c \in Clients, Arrive(c) \/ Serve(c) \/ Disconnect(c)
     PROVE  Named'
  <2>1. CASE Generate(c)
    <3> DEFINE last == Latest(Rows)
    <3>1. last # NoGen => last \in Gens
      BY LatestIsOne DEF Latest, Rows
    <3>2. PICK pc \in {"create", "recover"} :
            Request(c, "generate", last, pc) /\ (pc = "recover" => last # NoGen)
      BY <2>1 DEF Generate
    <3>3. /\ \A d \in Clients : d # c => cpc'[d] = cpc[d] /\ cgen'[d] = cgen[d]
          /\ cpc'[c] = pc /\ cgen'[c] = last /\ UNCHANGED svars
      BY <3>2 DEF Request, cGoto, TypeClients
    <3> QED BY <3>1, <3>2, <3>3, NamedAfterMove DEF NamedBy, svars
  <2>2. ASSUME NEW g \in Gens, View(c, g) PROVE Named'
    BY <2>2, NamedAfterMove DEF View, Request, cGoto, Named, NamedBy, TypeClients, svars
  <2>3. CASE Recover(c)
    <3>1. CASE Respond(c)
      BY <2>3, <3>1, NamedAfterRespond DEF Recover, svars
    <3>2. CASE ~ Respond(c)
      BY <2>3, <3>2, NamedAfterMove DEF Recover, cGoto, Named, NamedBy, TypeClients,
            svars
    <3> QED BY <3>1, <3>2
  <2>4. CASE Check(c)
    <3>1. CASE Respond(c)
      BY <2>4, <3>1, NamedAfterRespond DEF Check, svars
    <3>2. CASE ~ Respond(c)
      BY <2>4, <3>2, NamedAfterMove DEF Check, cGoto, Named, NamedBy, TypeClients, svars
    <3> QED BY <3>1, <3>2
  <2>5. CASE Create(c)
    <3>1. CASE Respond(c)
      BY <2>5, <3>1, NamedAfterRespond DEF Create, svars
    <3>2. CASE ~ Respond(c)
      BY <2>5, <3>2, NamedAfterMove DEF Create, NextGen, cGoto, Named, NamedBy,
            TypeClients, svars
    <3> QED BY <3>1, <3>2
  <2>6. CASE EnqueueNew(c)
    <3>1. CASE Respond(c)
      BY <2>6, <3>1, NamedAfterRespond DEF EnqueueNew, svars
    <3>2. CASE ~ Respond(c)
      BY <2>6, <3>2, NamedAfterMove DEF EnqueueNew, cGoto, Named, NamedBy, TypeClients,
            svars
    <3> QED BY <3>1, <3>2
  <2>7. CASE Post(c)
    BY <2>7, NamedAfterRespond DEF Post, svars
  <2>8. ASSUME NEW g \in Gens, NEW op \in {"pause", "resume", "cancel"}, Act(c, op, g)
       PROVE  Named'
    BY <2>8, NamedAfterMove DEF Act, Request, cGoto, Named, NamedBy, TypeClients, svars
  <2>9. CASE Pause(c)
    BY <2>9, NamedAfterRespond DEF Pause, svars
  <2>10. CASE Cancel(c)
    BY <2>10, NamedAfterRespond DEF Cancel, svars
  <2>11. CASE Resume(c)
    BY <2>11, NamedAfterMove DEF Resume, cGoto, Named, NamedBy, TypeClients, svars
  <2>12. CASE ResumeEnqueue(c)
    BY <2>12, NamedAfterRespond DEF ResumeEnqueue, svars
  <2>16. CASE Inherit(c)
    BY <2>16, NamedAfterMove DEF Inherit, cGoto, Named, NamedBy, TypeClients, svars
  <2>17. CASE ResumeDomain(c)
    BY <2>17, NamedAfterMove DEF ResumeDomain, cGoto, Named, NamedBy, TypeClients, svars
  <2>13. ASSUME NEW g \in Gens, Delete(c, g) PROVE Named'
    BY <2>13, NamedAfterMove DEF Delete, cGoto, Named, NamedBy, TypeClients, svars
  <2>14. CASE Recalculate(c)
    BY <2>14, NamedAfterRespond DEF Recalculate, svars
  <2>15. CASE Disconnect(c)
    BY <2>15, NamedAfterRespond DEF Disconnect, svars
  <2> QED BY <1>2, <2>1, <2>2, <2>3, <2>4, <2>5, <2>6, <2>7, <2>8, <2>9, <2>10, <2>11,
        <2>12, <2>13, <2>14, <2>15, <2>16, <2>17 DEF Arrive, Serve
<1>3. CASE Tick \/ ApplySchedule \/ SchedulerCrash
  <2>1. ASSUME NEW q \in Items, TakeItem(q) PROVE Named'
    BY <2>1 DEF TakeItem, Named, Rows, Latest, cvars
  <2>2. CASE CreateFromItem
    BY <2>2 DEF CreateFromItem, Named, NextGen, Insert, cvars
  <2>3. CASE EnqueueFromItem
    BY <2>3 DEF EnqueueFromItem, Named, SetStatus, Rows, Enqueue, cvars
  <2>4. CASE MarkItem
    BY <2>4 DEF MarkItem, Named, cvars
  <2>5. CASE ListRetryDue
    BY <2>5 DEF ListRetryDue, Named, Rows, cvars
  <2>6. ASSUME NEW g \in Gens, PrepareRetry(g) PROVE Named'
    BY <2>6 DEF PrepareRetry, Named, SetStatus, Rows, cvars
  <2>7. CASE EnqueueRetry
    BY <2>7 DEF EnqueueRetry, Named, Enqueue, cvars
  <2>8. CASE SchedulerCrash
    BY <2>8 DEF SchedulerCrash, Named, cvars
  <2>9. CASE ApplySchedule
    BY <2>9 DEF ApplySchedule, Named, cvars, svars
  <2>10. CASE MarkFromItem
    BY <2>10 DEF MarkFromItem, Named, cvars
  <2> QED BY <1>3, <2>1, <2>2, <2>3, <2>4, <2>5, <2>6, <2>7, <2>8, <2>9, <2>10 DEF Tick
<1>4. CASE UNCHANGED vars
  BY <1>4 DEF vars, cvars, svars, Named
<1> QED BY <1>1, <1>2, <1>3, <1>4 DEF Next

\* Every write to a set of artifacts takes it from sound ones: it merges, drops or
\* inherits them, or adds the step whose predecessors are all there.
LEMMA ArtifactsKept ==
  ASSUME Inv, [Next]_vars
  PROVE  Artifacts'
<1> USE DEF Inv, TypeOK
<1>1. ASSUME NEW w \in Workers, Start(w) \/ Run(w) \/ Watch(w) \/ WorkerCrash(w)
     PROVE  Artifacts'
  <2>1. CASE Start(w)
    <3>1. PICK t \in TaskIds :
            /\ tst[t] = "queued"
            /\ wcopy' = [wcopy EXCEPT ![w] = arts[tgen[t]]]
            /\ warts' = [warts EXCEPT ![w] = arts[tgen[t]]]
      BY <2>1 DEF Start
    <3>2. Sound(arts[tgen[t]], site)
      BY <3>1 DEF Owned, Artifacts
    <3> QED BY <2>1, <3>1, <3>2 DEF Start, Artifacts, TypeWorkers, gvars, dvars, cvars
  <2>2. CASE Settle(w)
    <3>8. \A g \in Gens : Sound(arts'[g], site)
      BY <2>2, UpdateSound DEF Settle, Artifacts
    <3> QED BY <2>2, <3>8 DEF Settle, Artifacts, dvars, cvars, wvars
  <2>3. CASE Claim(w)
    <3>1. Sound({}, site)
      BY SoundSets DEF TypeTables
    <3>2. \A g \in Gens : Sound(arts'[g], site)
      BY <2>3, <3>1, UpdateSound DEF Claim, Artifacts
    <3> QED BY <2>3, <3>2 DEF Claim, Artifacts, dvars, cvars
  <2>4. CASE Load(w)
    <3>1. Gen(w) \in Gens
      BY <2>4, KeptType DEF Load
    <3>2. Sound(warts[w] \cup arts[Gen(w)], site)
      BY <3>1, SoundSets DEF Artifacts, TypeTables, TypeWorkers
    <3> QED BY <2>4, <3>2 DEF Load, Artifacts, TypeWorkers, gvars, dvars, cvars
  <2>5. CASE SetupFails(w)
    <3>1. PICK a \in {arts[Gen(w)], {}} : UpdateFull(Gen(w), "error", a)
      BY <2>5 DEF SetupFails
    <3>2. Sound(a, site)
      BY <2>5, <3>1, KeptSound, SoundSets DEF SetupFails, TypeTables
    <3>3. \A g \in Gens : Sound(arts'[g], site)
      BY <3>1, <3>2, UpdateSound DEF Artifacts
    <3> QED BY <2>5, <3>3 DEF SetupFails, Artifacts, cvars
  <2>6. CASE Stopped(w)
    <3>1. Sound(arts[Gen(w)], site)
      BY <2>6, KeptSound DEF Stopped
    <3> QED BY <2>6, <3>1 DEF Stopped, Artifacts, TypeWorkers, gvars, dvars, cvars
  <2>7. CASE Halt(w)
    <3>1. Sound(IF warts[w] = {} THEN arts[Gen(w)] ELSE warts[w], site)
      BY <2>7, KeptSound DEF Halt, Artifacts
    <3> QED BY <2>7, <3>1 DEF Halt, Artifacts, TypeWorkers, gvars, dvars, cvars
  <2>8. CASE HaltWrite(w)
    <3>1. CASE UNCHANGED <<gst, arts>>
      BY <2>8, <3>1 DEF HaltWrite, Artifacts, cvars
    <3>2. CASE UpdateFull(Gen(w), Final(wread[w]), wcopy[w])
      <4>1. \A g \in Gens : Sound(arts'[g], site)
        BY <3>2, UpdateSound DEF Artifacts
      <4> QED BY <2>8, <4>1 DEF HaltWrite, Artifacts, cvars
    <3> QED BY <2>8, <3>1, <3>2 DEF HaltWrite
  <2>9. CASE Execute(w)
    <3>1. wi[w] \in Steps /\ 1..(wi[w] - 1) \subseteq warts[w] /\ site \in BOOLEAN
      BY <2>9 DEF Execute, Loop, LoopAt, TypeTables
    <3>2. site' \in BOOLEAN /\ (site => site') /\ (wi[w] = NSteps => site')
      BY <2>9, <3>1 DEF Execute
    <3>3. Sound(warts[w] \cup {wi[w]}, site')
      BY <3>1, <3>2, SoundStep DEF Artifacts, TypeWorkers
    <3>4. \A a \in SUBSET Steps : Sound(a, site) => Sound(a, site')
      BY <3>1, <3>2, SoundSets
    <3> QED BY <2>9, <3>3, <3>4 DEF Execute, Artifacts, TypeTables, TypeWorkers,
          TypeClients, gvars, cvars
  <2>10. CASE ExecuteCanceled(w) \/ PublishFailsHalfway(w)
    <3>1. \A a \in SUBSET Steps : Sound(a, site) => Sound(a, TRUE)
      BY SoundSets DEF TypeTables
    <3>2. /\ site' = site \/ site'
          /\ UNCHANGED <<arts, warts, wcopy, ccopy>>
      BY <2>10 DEF ExecuteCanceled, PublishFailsHalfway, PublishedHalfway, gvars, cvars
    <3>3. CASE site' = site
      BY <3>2, <3>3 DEF Artifacts
    <3>4. CASE site' = TRUE
      BY <3>1, <3>2, <3>4 DEF Artifacts, TypeTables, TypeWorkers, TypeClients
    <3> QED BY <2>10, <3>2, <3>3, <3>4 DEF ExecuteCanceled, PublishFailsHalfway, PublishedHalfway
  <2>11. CASE SaveWrite(w)
    <3>1. CASE UNCHANGED <<gst, arts>>
      BY <2>11, <3>1 DEF SaveWrite, Artifacts, dvars, cvars
    <3>2. CASE UpdateFull(Gen(w), wread[w], warts[w])
      <4>1. \A g \in Gens : Sound(arts'[g], site)
        BY <3>2, UpdateSound DEF Artifacts
      <4> QED BY <2>11, <4>1 DEF SaveWrite, Artifacts, dvars, cvars
    <3> QED BY <2>11, <3>1, <3>2 DEF SaveWrite
  <2>12. CASE Canceled(w)
    <3>1. Sound(arts[Gen(w)], site)
      BY <2>12, KeptSound DEF Canceled
    <3> QED BY <2>12, <3>1 DEF Canceled, Artifacts, TypeWorkers, gvars, dvars, cvars
  <2>13. CASE StopWrite(w)
    <3>8. \A g \in Gens : Sound(arts'[g], site)
      BY <2>13, UpdateSound DEF StopWrite, Artifacts
    <3> QED BY <2>13, <3>8 DEF StopWrite, Artifacts, dvars, cvars, wvars
  <2>14. CASE Success(w)
    <3>1. Sound(Kept(w), site)
      BY <2>14, KeptSound DEF Success
    <3> QED BY <2>14, <3>1 DEF Success, Artifacts, TypeWorkers, gvars, dvars, cvars
  <2>15. CASE SuccessWrite(w)
    <3>8. \A g \in Gens : Sound(arts'[g], site)
      BY <2>15, UpdateSound DEF SuccessWrite, Artifacts
    <3> QED BY <2>15, <3>8 DEF SuccessWrite, Artifacts, dvars, cvars, wvars
  <2>16. CASE Fail(w)
    <3>1. Sound(Kept(w), site)
      BY <2>16, KeptSound DEF Fail
    <3> QED BY <2>16, <3>1 DEF Fail, Artifacts, TypeWorkers, gvars, cvars
  <2>17. CASE FailWrite(w)
    <3>8. \A g \in Gens : Sound(arts'[g], site)
      BY <2>17, UpdateSound DEF FailWrite, Artifacts
    <3> QED BY <2>17, <3>8 DEF FailWrite, Artifacts, dvars, cvars, wvars
  <2>18. CASE LlmRead(w)
    <3>1. Sound(arts[Gen(w)], site)
      BY <2>18, KeptSound DEF LlmRead
    <3> QED BY <2>18, <3>1 DEF LlmRead, Artifacts, TypeWorkers, gvars, dvars, cvars
  <2>19. CASE LlmWrite(w)
    <3>8. \A g \in Gens : Sound(arts'[g], site)
      BY <2>19, UpdateSound DEF LlmWrite, Artifacts
    <3> QED BY <2>19, <3>8 DEF LlmWrite, Artifacts, dvars, cvars, wvars
  <2>20. CASE Return(w)
    BY <2>20, SoundSets DEF Return, Reset, Artifacts, TypeTables, TypeWorkers, gvars, dvars,
          cvars
  <2>21. CASE WorkerCrash(w)
    BY <2>21, SoundSets DEF WorkerCrash, Reset, Artifacts, TypeTables, TypeWorkers, gvars,
          dvars, cvars
  <2>22. CASE \/ Watch(w) \/ Top(w) \/ Stop(w) \/ Before(w) \/ ExecuteFails(w)
              \/ SaveRead(w) \/ After(w) \/ Progress(w) \/ Finish(w) \/ FailRetry(w)
    BY <2>22 DEF Watch, Top, Stop, Before, ExecuteFails, SaveRead, After, Progress, Finish,
          FailRetry, ShouldContinue, Artifacts, gvars, dvars, wvars, cvars
  <2> QED BY <1>1, <2>1, <2>2, <2>3, <2>4, <2>5, <2>6, <2>7, <2>8, <2>9, <2>10, <2>11,
        <2>12, <2>13, <2>14, <2>15, <2>16, <2>17, <2>18, <2>19, <2>20, <2>21, <2>22 DEF
        Run
<1>2. ASSUME NEW c \in Clients, Arrive(c) \/ Serve(c) \/ Disconnect(c)
     PROVE  Artifacts'
  <2>1. CASE Generate(c)
    <3> DEFINE last == Latest(Rows)
    <3>1. last = NoGen \/ last \in Gens
      BY LatestIsOne DEF Latest, Rows
    <3>2. ccopy' = [ccopy EXCEPT ![c] = IF last = NoGen THEN {} ELSE arts[last]]
      BY <2>1 DEF Generate
    <3>3. UNCHANGED <<gvars, dvars, wvars>>
      BY <2>1 DEF Generate, Request
    <3> QED BY <3>1, <3>2, <3>3, SoundSets DEF Artifacts, TypeTables, TypeClients,
          gvars, dvars, wvars
  <2>2. ASSUME NEW g \in Gens, View(c, g) PROVE Artifacts'
    BY <2>2 DEF View, Request, Artifacts, TypeClients, gvars, dvars, wvars
  <2>3. CASE Recover(c)
    <3>8. \A g \in Gens : Sound(arts'[g], site)
      BY <2>3, UpdateSound DEF Recover, Artifacts
    <3>9. \A d \in Clients : ccopy'[d] \in {ccopy[d], {}}
      BY <2>3 DEF Recover, Respond, TypeClients
    <3> QED BY <2>3, <3>8, <3>9, SoundSets DEF Recover, Artifacts, TypeTables, dvars, wvars
  <2>4. CASE Check(c)
    <3>1. \A d \in Clients : ccopy'[d] \in {ccopy[d], {}}
      BY <2>4 DEF Check, Respond, TypeClients
    <3> QED BY <2>4, <3>1, SoundSets DEF Check, Artifacts, TypeTables, gvars, dvars, wvars
  <2>15. CASE Inherit(c)
    <3>1. PICK a \in BaseArtifacts(cforce[c]) : ccopy' = [ccopy EXCEPT ![c] = a]
      BY <2>15 DEF Inherit
    <3>2. a = {} \/ \E h \in Gens : a = arts[h]
      BY BaseIsRow
    <3>3. Sound(a, site)
      BY <3>2, SoundSets DEF Artifacts, TypeTables
    <3> QED BY <2>15, <3>1, <3>3 DEF Inherit, Artifacts, TypeClients, gvars, dvars, wvars
  <2>5. CASE Create(c)
    <3>1. \A d \in Clients : ccopy'[d] \in {ccopy[d], {}}
      BY <2>5 DEF Create, Respond, TypeClients
    <3>2. \A g \in Gens : Sound(arts'[g], site)
      <4>1. CASE UNCHANGED gvars
        BY <4>1 DEF Artifacts, gvars
      <4>2. ASSUME NEW g \in NextGen, Insert(g, ccopy[c])
            PROVE  \A h \in Gens : Sound(arts'[h], site)
        BY <4>2 DEF Insert, NextGen, Artifacts, TypeTables
      <4> QED BY <2>5, <4>1, <4>2 DEF Create
    <3> QED BY <2>5, <3>1, <3>2, SoundSets DEF Create, Artifacts, TypeTables, dvars, wvars
  <2>6. CASE EnqueueNew(c)
    <3>1. \A d \in Clients : ccopy'[d] \in {ccopy[d], {}}
      BY <2>6 DEF EnqueueNew, Respond, TypeClients
    <3>2. \A g \in Gens : Sound(arts'[g], site)
      BY <2>6, UpdateSound, SoundSets DEF EnqueueNew, Artifacts, TypeTables
    <3> QED BY <2>6, <3>1, <3>2, SoundSets DEF EnqueueNew, Artifacts, TypeTables, wvars
  <2>7. CASE Post(c)
    <3>1. \A d \in Clients : ccopy'[d] \in {ccopy[d], {}}
      BY <2>7 DEF Post, Respond, TypeClients
    <3> QED BY <2>7, <3>1, SoundSets DEF Post, Artifacts, TypeTables, gvars, dvars, wvars
  <2>8. CASE Pause(c)
    <3>1. \A d \in Clients : ccopy'[d] \in {ccopy[d], {}}
      BY <2>8 DEF Pause, Respond, TypeClients
    <3> QED BY <2>8, <3>1, SoundSets DEF Pause, Artifacts, TypeTables, gvars, dvars, wvars
  <2>9. CASE Cancel(c)
    <3>1. \A d \in Clients : ccopy'[d] \in {ccopy[d], {}}
      BY <2>9 DEF Cancel, Respond, TypeClients
    <3> QED BY <2>9, <3>1, SoundSets DEF Cancel, Artifacts, TypeTables, gvars, dvars, wvars
  <2>10. CASE ResumeEnqueue(c)
    <3>1. \A d \in Clients : ccopy'[d] \in {ccopy[d], {}}
      BY <2>10 DEF ResumeEnqueue, Respond, TypeClients
    <3> QED BY <2>10, <3>1, SoundSets DEF ResumeEnqueue, Artifacts, TypeTables, gvars,
          dvars, wvars
  <2>11. ASSUME NEW g \in Gens, Delete(c, g) PROVE Artifacts'
    BY <2>11, SoundSets DEF Delete, Artifacts, TypeTables, dvars, wvars
  <2>12. CASE Recalculate(c)
    <3>1. \A d \in Clients : ccopy'[d] \in {ccopy[d], {}}
      BY <2>12 DEF Recalculate, Respond, TypeClients
    <3> QED BY <2>12, <3>1, SoundSets DEF Recalculate, Artifacts, TypeTables, gvars, dvars,
          wvars
  <2>13. CASE Disconnect(c)
    <3>1. \A d \in Clients : ccopy'[d] \in {ccopy[d], {}}
      BY <2>13 DEF Disconnect, Respond, TypeClients
    <3> QED BY <2>13, <3>1, SoundSets DEF Disconnect, Artifacts, TypeTables, gvars, dvars,
          wvars
  <2>14. CASE \/ (\E g \in Gens, op \in {"pause", "resume", "cancel"} : Act(c, op, g))
              \/ Resume(c) \/ ResumeDomain(c)
    BY <2>14 DEF Act, Resume, ResumeDomain, Request, Artifacts, gvars, dvars, wvars, cvars
  <2> QED BY <1>2, <2>1, <2>2, <2>3, <2>4, <2>5, <2>6, <2>7, <2>8, <2>9, <2>10, <2>11,
        <2>12, <2>13, <2>14, <2>15 DEF Arrive, Serve
<1>3. CASE Tick \/ ApplySchedule \/ SchedulerCrash
  <2>1. CASE CreateFromItem
    <3>1. \A g \in Gens : Sound(arts'[g], site)
      BY <2>1, SoundSets DEF CreateFromItem, NextGen, Insert, gvars, Artifacts, TypeTables
    <3> QED BY <2>1, <3>1 DEF CreateFromItem, Artifacts, dvars, wvars, cvars
  <2>2. CASE \/ ApplySchedule \/ (\E q \in Items : TakeItem(q)) \/ MarkFromItem
             \/ EnqueueFromItem \/ MarkItem \/ ListRetryDue
             \/ (\E g \in Gens : PrepareRetry(g)) \/ EnqueueRetry \/ SchedulerCrash
    BY <2>2 DEF ApplySchedule, TakeItem, MarkFromItem, EnqueueFromItem, MarkItem, ListRetryDue,
          PrepareRetry, EnqueueRetry, SchedulerCrash, Artifacts, gvars, dvars, wvars,
          cvars
  <2> QED BY <1>3, <2>1, <2>2 DEF Tick
<1>4. CASE UNCHANGED vars
  BY <1>4 DEF vars, gvars, dvars, wvars, cvars, Artifacts
<1> QED BY <1>1, <1>2, <1>3, <1>4 DEF Next

\* The loop reaches step i only with the artifacts of the steps before it: each was
\* executed or skipped because its artifact was there.
LEMMA LoopKept ==
  ASSUME Inv, [Next]_vars
  PROVE  Loop'
<1> USE DEF Inv, TypeOK
<1>1. ASSUME NEW w \in Workers, Start(w) \/ Run(w) \/ Watch(w) \/ WorkerCrash(w)
     PROVE  Loop'
  <2>1. CASE Start(w)
    <3>1. \A v \in Workers : v # w => UNCHANGED <<wpc[v], wi[v], warts[v]>>
      BY <2>1 DEF Start, wGoto, TypeWorkers
    <3>2. LoopAt(wpc'[w], wi'[w], warts'[w])
      BY <2>1 DEF Start, wGoto, TypeWorkers, Loop, LoopAt
    <3> QED BY <3>1, <3>2, LoopOfOne
  <2>2. CASE Settle(w)
    <3>1. \A v \in Workers : v # w => UNCHANGED <<wpc[v], wi[v], warts[v]>>
      BY <2>2 DEF Settle, wGoto, TypeWorkers
    <3>2. LoopAt(wpc'[w], wi'[w], warts'[w])
      BY <2>2 DEF Settle, wGoto, TypeWorkers, Loop, LoopAt
    <3> QED BY <3>1, <3>2, LoopOfOne
  <2>3. CASE Claim(w)
    <3>1. \A v \in Workers : v # w => UNCHANGED <<wpc[v], wi[v], warts[v]>>
      BY <2>3 DEF Claim, wGoto, TypeWorkers
    <3>2. LoopAt(wpc'[w], wi'[w], warts'[w])
      BY <2>3 DEF Claim, wGoto, TypeWorkers, Loop, LoopAt
    <3> QED BY <3>1, <3>2, LoopOfOne
  <2>4. CASE Load(w)
    <3>1. \A v \in Workers : v # w => UNCHANGED <<wpc[v], wi[v], warts[v]>>
      BY <2>4 DEF Load, wGoto, TypeWorkers
    <3>2. LoopAt(wpc'[w], wi'[w], warts'[w])
      BY <2>4 DEF Load, Steps, wGoto, TypeWorkers, Loop, LoopAt
    <3> QED BY <3>1, <3>2, LoopOfOne
  <2>5. CASE SetupFails(w)
    <3>1. \A v \in Workers : v # w => UNCHANGED <<wpc[v], wi[v], warts[v]>>
      BY <2>5 DEF SetupFails, wGoto, TypeWorkers
    <3>2. LoopAt(wpc'[w], wi'[w], warts'[w])
      BY <2>5 DEF SetupFails, wGoto, TypeWorkers, Loop, LoopAt
    <3> QED BY <3>1, <3>2, LoopOfOne
  <2>6. CASE Top(w)
    <3>1. \A v \in Workers : v # w => UNCHANGED <<wpc[v], wi[v], warts[v]>>
      BY <2>6 DEF Top, wGoto, TypeWorkers
    <3>2. LoopAt(wpc'[w], wi'[w], warts'[w])
      BY <2>6 DEF Top, NextStepPc, Skips, Steps, wGoto, TypeWorkers, Loop, LoopAt
    <3> QED BY <3>1, <3>2, LoopOfOne
  <2>7. CASE Stop(w)
    <3>1. \A v \in Workers : v # w => UNCHANGED <<wpc[v], wi[v], warts[v]>>
      BY <2>7 DEF Stop, wGoto, TypeWorkers
    <3>2. LoopAt(wpc'[w], wi'[w], warts'[w])
      BY <2>7 DEF Stop, wGoto, TypeWorkers, Loop, LoopAt
    <3> QED BY <3>1, <3>2, LoopOfOne
  <2>8. CASE Stopped(w)
    <3>1. \A v \in Workers : v # w => UNCHANGED <<wpc[v], wi[v], warts[v]>>
      BY <2>8 DEF Stopped, wGoto, TypeWorkers
    <3>2. LoopAt(wpc'[w], wi'[w], warts'[w])
      BY <2>8 DEF Stopped, wGoto, TypeWorkers, Loop, LoopAt
    <3> QED BY <3>1, <3>2, LoopOfOne
  <2>9. CASE Before(w)
    <3>1. \A v \in Workers : v # w => UNCHANGED <<wpc[v], wi[v], warts[v]>>
      BY <2>9 DEF Before, ShouldContinue, wGoto, TypeWorkers
    <3>2. LoopAt(wpc'[w], wi'[w], warts'[w])
      BY <2>9 DEF Before, ShouldContinue, wGoto, TypeWorkers, Loop, LoopAt
    <3> QED BY <3>1, <3>2, LoopOfOne
  <2>10. CASE Halt(w)
    <3>1. \A v \in Workers : v # w => UNCHANGED <<wpc[v], wi[v], warts[v]>>
      BY <2>10 DEF Halt, wGoto, TypeWorkers
    <3>2. LoopAt(wpc'[w], wi'[w], warts'[w])
      BY <2>10 DEF Halt, wGoto, TypeWorkers, Loop, LoopAt
    <3> QED BY <3>1, <3>2, LoopOfOne
  <2>11. CASE HaltWrite(w)
    <3>1. \A v \in Workers : v # w => UNCHANGED <<wpc[v], wi[v], warts[v]>>
      BY <2>11 DEF HaltWrite, wGoto, TypeWorkers
    <3>2. LoopAt(wpc'[w], wi'[w], warts'[w])
      BY <2>11 DEF HaltWrite, wGoto, TypeWorkers, Loop, LoopAt
    <3> QED BY <3>1, <3>2, LoopOfOne
  <2>12. CASE Execute(w)
    <3>1. \A v \in Workers : v # w => UNCHANGED <<wpc[v], wi[v], warts[v]>>
      BY <2>12 DEF Execute, wGoto, TypeWorkers
    <3>2. LoopAt(wpc'[w], wi'[w], warts'[w])
      BY <2>12 DEF Execute, wGoto, TypeWorkers, Loop, LoopAt
    <3> QED BY <3>1, <3>2, LoopOfOne
  <2>13. CASE ExecuteCanceled(w)
    <3>1. \A v \in Workers : v # w => UNCHANGED <<wpc[v], wi[v], warts[v]>>
      BY <2>13 DEF ExecuteCanceled, wGoto, TypeWorkers
    <3>2. LoopAt(wpc'[w], wi'[w], warts'[w])
      BY <2>13 DEF ExecuteCanceled, wGoto, TypeWorkers, Loop, LoopAt
    <3> QED BY <3>1, <3>2, LoopOfOne
  <2>14. CASE ExecuteFails(w)
    <3>1. \A v \in Workers : v # w => UNCHANGED <<wpc[v], wi[v], warts[v]>>
      BY <2>14 DEF ExecuteFails, wGoto, TypeWorkers
    <3>2. LoopAt(wpc'[w], wi'[w], warts'[w])
      BY <2>14 DEF ExecuteFails, wGoto, TypeWorkers, Loop, LoopAt
    <3> QED BY <3>1, <3>2, LoopOfOne
  <2>15. CASE PublishFailsHalfway(w)
    <3>1. \A v \in Workers : v # w => UNCHANGED <<wpc[v], wi[v], warts[v]>>
      BY <2>15 DEF PublishFailsHalfway, wGoto, TypeWorkers
    <3>2. LoopAt(wpc'[w], wi'[w], warts'[w])
      BY <2>15 DEF PublishFailsHalfway, wGoto, TypeWorkers, Loop, LoopAt
    <3> QED BY <3>1, <3>2, LoopOfOne
  <2>16. CASE SaveRead(w)
    <3>1. \A v \in Workers : v # w => UNCHANGED <<wpc[v], wi[v], warts[v]>>
      BY <2>16 DEF SaveRead, wGoto, TypeWorkers
    <3>2. LoopAt(wpc'[w], wi'[w], warts'[w])
      BY <2>16 DEF SaveRead, wGoto, TypeWorkers, Loop, LoopAt
    <3> QED BY <3>1, <3>2, LoopOfOne
  <2>17. CASE SaveWrite(w)
    <3>1. \A v \in Workers : v # w => UNCHANGED <<wpc[v], wi[v], warts[v]>>
      BY <2>17 DEF SaveWrite, wGoto, TypeWorkers
    <3>2. LoopAt(wpc'[w], wi'[w], warts'[w])
      BY <2>17 DEF SaveWrite, wGoto, TypeWorkers, Loop, LoopAt
    <3> QED BY <3>1, <3>2, LoopOfOne
  <2>18. CASE After(w)
    <3>1. \A v \in Workers : v # w => UNCHANGED <<wpc[v], wi[v], warts[v]>>
      BY <2>18 DEF After, ShouldContinue, wGoto, TypeWorkers
    <3>2. LoopAt(wpc'[w], wi'[w], warts'[w])
      BY <2>18 DEF After, ShouldContinue, wGoto, TypeWorkers, Loop, LoopAt
    <3> QED BY <3>1, <3>2, LoopOfOne
  <2>19. CASE Progress(w)
    <3>1. \A v \in Workers : v # w => UNCHANGED <<wpc[v], wi[v], warts[v]>>
      BY <2>19 DEF Progress, wGoto, TypeWorkers
    <3>2. LoopAt(wpc'[w], wi'[w], warts'[w])
      BY <2>19 DEF Progress, NextStepPc, Steps, wGoto, TypeWorkers, Loop, LoopAt
    <3> QED BY <3>1, <3>2, LoopOfOne
  <2>20. CASE Canceled(w)
    <3>1. \A v \in Workers : v # w => UNCHANGED <<wpc[v], wi[v], warts[v]>>
      BY <2>20 DEF Canceled, wGoto, TypeWorkers
    <3>2. LoopAt(wpc'[w], wi'[w], warts'[w])
      BY <2>20 DEF Canceled, wGoto, TypeWorkers, Loop, LoopAt
    <3> QED BY <3>1, <3>2, LoopOfOne
  <2>21. CASE StopWrite(w)
    <3>1. \A v \in Workers : v # w => UNCHANGED <<wpc[v], wi[v], warts[v]>>
      BY <2>21 DEF StopWrite, wGoto, TypeWorkers
    <3>2. LoopAt(wpc'[w], wi'[w], warts'[w])
      BY <2>21 DEF StopWrite, wGoto, TypeWorkers, Loop, LoopAt
    <3> QED BY <3>1, <3>2, LoopOfOne
  <2>22. CASE Success(w)
    <3>1. \A v \in Workers : v # w => UNCHANGED <<wpc[v], wi[v], warts[v]>>
      BY <2>22 DEF Success, wGoto, TypeWorkers
    <3>2. LoopAt(wpc'[w], wi'[w], warts'[w])
      BY <2>22 DEF Success, wGoto, TypeWorkers, Loop, LoopAt
    <3> QED BY <3>1, <3>2, LoopOfOne
  <2>23. CASE SuccessWrite(w)
    <3>1. \A v \in Workers : v # w => UNCHANGED <<wpc[v], wi[v], warts[v]>>
      BY <2>23 DEF SuccessWrite, wGoto, TypeWorkers
    <3>2. LoopAt(wpc'[w], wi'[w], warts'[w])
      BY <2>23 DEF SuccessWrite, wGoto, TypeWorkers, Loop, LoopAt
    <3> QED BY <3>1, <3>2, LoopOfOne
  <2>24. CASE Finish(w)
    <3>1. \A v \in Workers : v # w => UNCHANGED <<wpc[v], wi[v], warts[v]>>
      BY <2>24 DEF Finish, wGoto, TypeWorkers
    <3>2. LoopAt(wpc'[w], wi'[w], warts'[w])
      BY <2>24 DEF Finish, wGoto, TypeWorkers, Loop, LoopAt
    <3> QED BY <3>1, <3>2, LoopOfOne
  <2>25. CASE Fail(w)
    <3>1. \A v \in Workers : v # w => UNCHANGED <<wpc[v], wi[v], warts[v]>>
      BY <2>25 DEF Fail, wGoto, TypeWorkers
    <3>2. LoopAt(wpc'[w], wi'[w], warts'[w])
      BY <2>25 DEF Fail, wGoto, TypeWorkers, Loop, LoopAt
    <3> QED BY <3>1, <3>2, LoopOfOne
  <2>26. CASE FailWrite(w)
    <3>1. \A v \in Workers : v # w => UNCHANGED <<wpc[v], wi[v], warts[v]>>
      BY <2>26 DEF FailWrite, wGoto, TypeWorkers
    <3>2. LoopAt(wpc'[w], wi'[w], warts'[w])
      BY <2>26 DEF FailWrite, wGoto, TypeWorkers, Loop, LoopAt
    <3> QED BY <3>1, <3>2, LoopOfOne
  <2>27. CASE FailRetry(w)
    <3>1. \A v \in Workers : v # w => UNCHANGED <<wpc[v], wi[v], warts[v]>>
      BY <2>27 DEF FailRetry, wGoto, TypeWorkers
    <3>2. LoopAt(wpc'[w], wi'[w], warts'[w])
      BY <2>27 DEF FailRetry, wGoto, TypeWorkers, Loop, LoopAt
    <3> QED BY <3>1, <3>2, LoopOfOne
  <2>28. CASE LlmRead(w)
    <3>1. \A v \in Workers : v # w => UNCHANGED <<wpc[v], wi[v], warts[v]>>
      BY <2>28 DEF LlmRead, wGoto, TypeWorkers
    <3>2. LoopAt(wpc'[w], wi'[w], warts'[w])
      BY <2>28 DEF LlmRead, wGoto, TypeWorkers, Loop, LoopAt
    <3> QED BY <3>1, <3>2, LoopOfOne
  <2>29. CASE LlmWrite(w)
    <3>1. \A v \in Workers : v # w => UNCHANGED <<wpc[v], wi[v], warts[v]>>
      BY <2>29 DEF LlmWrite, wGoto, TypeWorkers
    <3>2. LoopAt(wpc'[w], wi'[w], warts'[w])
      BY <2>29 DEF LlmWrite, wGoto, TypeWorkers, Loop, LoopAt
    <3> QED BY <3>1, <3>2, LoopOfOne
  <2>30. CASE Return(w)
    <3>1. \A v \in Workers : v # w => UNCHANGED <<wpc[v], wi[v], warts[v]>>
      BY <2>30 DEF Return, Reset, wGoto, TypeWorkers
    <3>2. LoopAt(wpc'[w], wi'[w], warts'[w])
      BY <2>30 DEF Return, Reset, wGoto, TypeWorkers, Loop, LoopAt
    <3> QED BY <3>1, <3>2, LoopOfOne
  <2>31. CASE WorkerCrash(w)
    <3>1. \A v \in Workers : v # w => UNCHANGED <<wpc[v], wi[v], warts[v]>>
      BY <2>31 DEF WorkerCrash, Reset, wGoto, TypeWorkers
    <3>2. LoopAt(wpc'[w], wi'[w], warts'[w])
      BY <2>31 DEF WorkerCrash, Reset, wGoto, TypeWorkers, Loop, LoopAt
    <3> QED BY <3>1, <3>2, LoopOfOne
  <2>32. CASE \/ Watch(w)
    BY <2>32 DEF Watch, Loop, wvars
  <2> QED BY <1>1, <2>1, <2>2, <2>3, <2>4, <2>5, <2>6, <2>7, <2>8, <2>9, <2>10, <2>11,
        <2>12, <2>13, <2>14, <2>15, <2>16, <2>17, <2>18, <2>19, <2>20, <2>21, <2>22,
        <2>23, <2>24, <2>25, <2>26, <2>27, <2>28, <2>29, <2>30, <2>31, <2>32 DEF Run
<1>2. ASSUME NEW c \in Clients, Arrive(c) \/ Serve(c) \/ Disconnect(c)
     PROVE  Loop'
  BY <1>2, ClientFrame DEF Loop, wvars
<1>3. CASE Tick \/ ApplySchedule \/ SchedulerCrash
  BY <1>3, SchedulerFrame DEF Loop, wvars
<1>4. CASE UNCHANGED vars
  BY <1>4 DEF vars, wvars, Loop
<1> QED BY <1>1, <1>2, <1>3, <1>4 DEF Next

\* "success" and "published" are written by a run that has done PublishStep, or copied
\* from a row or a domain that said so.
LEMMA ClaimsKept ==
  ASSUME Inv, [Next]_vars
  PROVE  Claims'
<1> USE DEF Inv, TypeOK
<1>1. ASSUME NEW w \in Workers, Start(w) \/ Run(w) \/ Watch(w) \/ WorkerCrash(w)
     PROVE  Claims'
  <2>1. CASE Start(w)
    <3>1. PICK t \in TaskIds : tst[t] = "queued" /\ wread' = [wread EXCEPT ![w] = gst[tgen[t]]]
      BY <2>1 DEF Start
    <3> QED BY <2>1, <3>1 DEF Start, Owned, Claims, TypeWorkers, gvars, dvars, cvars
  <2>2. CASE Settle(w)
    <3>1. \A g \in Gens : gst'[g] = "success" => site
      BY <2>2, SuccessWritten, FinalStatus DEF Settle, UpdateFull, Claims
    <3>2. dst' = "published" => site
      BY <2>2 DEF Settle, Stable, Claims
    <3> QED BY <2>2, <3>1, <3>2 DEF Settle, Claims, cvars
  <2>3. CASE Claim(w)
    <3>1. \A g \in Gens : gst'[g] = "success" => site
      BY <2>3, SuccessWritten, FinalStatus DEF Claim, UpdateFull, Claims
    <3> QED BY <2>3, <3>1 DEF Claim, Claims, dvars, cvars
  <2>4. CASE Load(w)
    BY <2>4 DEF Load, Claims, TypeWorkers, gvars, dvars, cvars
  <2>5. CASE SetupFails(w)
    <3>1. \A g \in Gens : gst'[g] = "success" => site
      BY <2>5, SuccessWritten, FinalStatus DEF SetupFails, UpdateFull, Claims
    <3>2. dst' = "published" => site
      BY <2>5 DEF SetupFails, Stable, Claims
    <3> QED BY <2>5, <3>1, <3>2 DEF SetupFails, Claims, cvars
  <2>6. CASE Top(w)
    <3>1. Gen(w) \in Gens
      BY <2>6, KeptType DEF Top
    <3> QED BY <2>6, <3>1 DEF Top, Claims, TypeWorkers, gvars, dvars, cvars
  <2>7. CASE Stop(w)
    <3>1. \A g \in Gens : gst'[g] = "success" => site
      BY <2>7, SuccessWritten, FinalStatus DEF Stop, Claims
    <3>2. dst' = "published" => site
      BY <2>7 DEF Stop, Stable, Claims
    <3> QED BY <2>7, <3>1, <3>2 DEF Stop, Claims, cvars
  <2>8. CASE Before(w)
    <3>1. Gen(w) \in Gens
      BY <2>8, KeptType DEF Before
    <3> QED BY <2>8, <3>1 DEF Before, ShouldContinue, Claims, TypeWorkers, gvars, dvars,
          cvars
  <2>9. CASE HaltWrite(w)
    <3>1. \A g \in Gens : gst'[g] = "success" => site
      BY <2>9, SuccessWritten, FinalStatus DEF HaltWrite, UpdateFull, Claims
    <3>2. dst' = "published" => site
      BY <2>9 DEF HaltWrite, Stable, Claims
    <3> QED BY <2>9, <3>1, <3>2 DEF HaltWrite, Claims, cvars
  <2>10. CASE Execute(w)
    BY <2>10 DEF Execute, Claims, TypeWorkers, gvars, cvars
  <2>11. CASE ExecuteCanceled(w) \/ PublishFailsHalfway(w)
    BY <2>11 DEF ExecuteCanceled, PublishFailsHalfway, PublishedHalfway, Claims, gvars, cvars
  <2>12. CASE SaveRead(w)
    <3>1. Gen(w) \in Gens
      BY <2>12, KeptType DEF SaveRead
    <3> QED BY <2>12, <3>1 DEF SaveRead, Claims, TypeWorkers, gvars, dvars, cvars
  <2>13. CASE SaveWrite(w)
    <3>1. \A g \in Gens : gst'[g] = "success" => site
      BY <2>13, SuccessWritten, FinalStatus DEF SaveWrite, UpdateFull, Claims
    <3> QED BY <2>13, <3>1 DEF SaveWrite, Claims, dvars, cvars
  <2>14. CASE After(w)
    <3>1. Gen(w) \in Gens
      BY <2>14, KeptType DEF After
    <3> QED BY <2>14, <3>1 DEF After, ShouldContinue, Claims, TypeWorkers, gvars, dvars,
          cvars
  <2>15. CASE Progress(w)
    <3>1. \A g \in Gens : gst'[g] = "success" => site
      BY <2>15, SuccessWritten, FinalStatus DEF Progress, Claims
    <3> QED BY <2>15, <3>1 DEF Progress, Claims, dvars, cvars
  <2>16. CASE Canceled(w)
    <3>1. wread' = [wread EXCEPT ![w] = wstop[w]] /\ wstop[w] # "success"
      BY <2>16 DEF Canceled, TypeWorkers, Transit
    <3> QED BY <2>16, <3>1 DEF Canceled, Claims, TypeWorkers, gvars, dvars, cvars
  <2>17. CASE StopWrite(w)
    <3>1. \A g \in Gens : gst'[g] = "success" => site
      BY <2>17, SuccessWritten, FinalStatus DEF StopWrite, UpdateFull, Claims
    <3>2. dst' = "published" => site
      BY <2>17 DEF StopWrite, Stable, Claims
    <3> QED BY <2>17, <3>1, <3>2 DEF StopWrite, Claims, cvars
  <2>18. CASE SuccessWrite(w)
    <3>1. site
      BY <2>18 DEF SuccessWrite, Loop, LoopAt, Artifacts, Sound
    <3> QED BY <2>18, <3>1 DEF SuccessWrite, Claims, dvars, cvars
  <2>19. CASE Finish(w)
    <3>1. site
      BY <2>19 DEF Finish, Loop, LoopAt, Artifacts, Sound
    <3> QED BY <2>19, <3>1 DEF Finish, Claims, gvars, cvars
  <2>20. CASE Fail(w)
    <3>2. dst' = "published" => site
      BY <2>20 DEF Fail, Stable, Claims
    <3> QED BY <2>20, <3>2 DEF Fail, Claims, gvars, cvars
  <2>21. CASE FailWrite(w)
    <3>1. \A g \in Gens : gst'[g] = "success" => site
      BY <2>21, SuccessWritten, FinalStatus DEF FailWrite, UpdateFull, Claims
    <3> QED BY <2>21, <3>1 DEF FailWrite, Claims, dvars, cvars
  <2>22. CASE FailRetry(w)
    <3>2. dst' = "published" => site
      BY <2>22 DEF FailRetry, Stable, Claims
    <3> QED BY <2>22, <3>2 DEF FailRetry, Claims, gvars, cvars
  <2>23. CASE LlmRead(w)
    <3>1. Gen(w) \in Gens
      BY <2>23, KeptType DEF LlmRead
    <3> QED BY <2>23, <3>1 DEF LlmRead, Claims, TypeWorkers, gvars, dvars, cvars
  <2>24. CASE LlmWrite(w)
    <3>1. \A g \in Gens : gst'[g] = "success" => site
      BY <2>24, SuccessWritten, FinalStatus DEF LlmWrite, UpdateFull, Claims
    <3> QED BY <2>24, <3>1 DEF LlmWrite, Claims, dvars, cvars
  <2>25. CASE Return(w)
    BY <2>25 DEF Return, Reset, Claims, TypeWorkers, gvars, dvars, cvars
  <2>26. CASE WorkerCrash(w)
    BY <2>26 DEF WorkerCrash, Reset, Claims, TypeWorkers, gvars, dvars, cvars
  <2>27. CASE Watch(w) \/ Stopped(w) \/ Halt(w) \/ ExecuteFails(w) \/ Success(w)
    BY <2>27 DEF Watch, Stopped, Halt, ExecuteFails, Success, Claims, gvars, dvars, wvars, cvars
  <2> QED BY <1>1, <2>1, <2>2, <2>3, <2>4, <2>5, <2>6, <2>7, <2>8, <2>9, <2>10, <2>11,
        <2>12, <2>13, <2>14, <2>15, <2>16, <2>17, <2>18, <2>19, <2>20, <2>21, <2>22,
        <2>23, <2>24, <2>25, <2>26, <2>27 DEF Run
<1>2. ASSUME NEW c \in Clients, Arrive(c) \/ Serve(c) \/ Disconnect(c)
     PROVE  Claims'
  <2>1. CASE Generate(c)
    <3>1. PICK g, pc : Request(c, "generate", g, pc)
      BY <2>1 DEF Generate
    <3> QED BY <3>1 DEF Request, Claims, TypeClients, gvars, dvars, wvars
  <2>2. ASSUME NEW g \in Gens, View(c, g) PROVE Claims'
    BY <2>2 DEF View, Request, Claims, TypeClients, gvars, dvars, wvars
  <2>3. CASE Recover(c)
    <3>1. \A d \in Clients : cstable'[d] => cstable[d]
      BY <2>3 DEF Recover, Respond, TypeClients
    <3>2. \A g \in Gens : gst'[g] = "success" => site
      BY <2>3, SuccessWritten, FinalStatus DEF Recover, Claims, UpdateFull
    <3>3. dst' = "published" => site
      BY <2>3 DEF Recover, Stable, Claims, dvars
    <3> QED BY <2>3, <3>1, <3>2, <3>3 DEF Recover, Claims, wvars
  <2>4. CASE Check(c)
    <3>1. \A d \in Clients : cstable'[d] => cstable[d]
      BY <2>4 DEF Check, Respond, TypeClients
    <3> QED BY <2>4, <3>1 DEF Check, Claims, gvars, dvars, wvars
  <2>5. CASE Create(c)
    <3>1. \A d \in Clients : cstable'[d] => cstable[d]
      BY <2>5 DEF Create, Respond, TypeClients
    <3>2. \A g \in Gens : gst'[g] = "success" => site
      BY <2>5, SuccessWritten, FinalStatus DEF Create, Claims, Insert, NextGen, TypeTables,
            gvars
    <3> QED BY <2>5, <3>1, <3>2 DEF Create, Claims, dvars, wvars
  <2>6. CASE EnqueueNew(c)
    <3>1. \A d \in Clients : cstable'[d] => cstable[d]
      BY <2>6 DEF EnqueueNew, Respond, TypeClients
    <3>2. \A g \in Gens : gst'[g] = "success" => site
      BY <2>6, SuccessWritten, FinalStatus DEF EnqueueNew, Claims, UpdateFull
    <3>3. dst' = "published" => site
      BY <2>6 DEF EnqueueNew, Stable, Claims, dvars
    <3> QED BY <2>6, <3>1, <3>2, <3>3 DEF EnqueueNew, Claims, wvars
  <2>7. CASE Post(c)
    <3>1. \A d \in Clients : cstable'[d] => cstable[d]
      BY <2>7 DEF Post, Respond, TypeClients
    <3>3. dst' = "published" => site
      BY <2>7 DEF Post, Stable, Claims, dvars
    <3> QED BY <2>7, <3>1, <3>3 DEF Post, Claims, gvars, wvars
  <2>8. ASSUME NEW g \in Gens, NEW op \in {"pause", "resume", "cancel"}, Act(c, op, g)
       PROVE  Claims'
    BY <2>8 DEF Act, Request, Claims, TypeClients, gvars, dvars, wvars
  <2>9. CASE Pause(c)
    <3>1. \A d \in Clients : cstable'[d] => cstable[d]
      BY <2>9 DEF Pause, Respond, TypeClients
    <3>2. \A g \in Gens : gst'[g] = "success" => site
      BY <2>9, SuccessWritten, FinalStatus DEF Pause, Claims
    <3>3. dst' = "published" => site
      BY <2>9 DEF Pause, Stable, Claims, dvars
    <3> QED BY <2>9, <3>1, <3>2, <3>3 DEF Pause, Claims, wvars
  <2>10. CASE Cancel(c)
    <3>1. \A d \in Clients : cstable'[d] => cstable[d]
      BY <2>10 DEF Cancel, Respond, TypeClients
    <3>2. \A g \in Gens : gst'[g] = "success" => site
      BY <2>10, SuccessWritten, FinalStatus DEF Cancel, Claims
    <3>3. dst' = "published" => site
      BY <2>10 DEF Cancel, Stable, Claims, dvars
    <3> QED BY <2>10, <3>1, <3>2, <3>3 DEF Cancel, Claims, wvars
  <2>11. CASE Resume(c)
    <3>1. \A d \in Clients : cstable'[d] => cstable[d]
      BY <2>11 DEF Resume
    <3>2. \A g \in Gens : gst'[g] = "success" => site
      BY <2>11, SuccessWritten, FinalStatus DEF Resume, Claims
    <3> QED BY <2>11, <3>1, <3>2 DEF Resume, Claims, dvars, wvars
  <2>12. CASE ResumeEnqueue(c)
    <3>1. \A d \in Clients : cstable'[d] => cstable[d]
      BY <2>12 DEF ResumeEnqueue, Respond, TypeClients
    <3>2. \A g \in Gens : gst'[g] = "success" => site
      BY <2>12, SuccessWritten, FinalStatus DEF ResumeEnqueue, Claims
    <3>3. dst' = "published" => site
      BY <2>12 DEF ResumeEnqueue, Stable, Claims, dvars
    <3> QED BY <2>12, <3>1, <3>2, <3>3 DEF ResumeEnqueue, Claims, wvars
  <2>16. CASE Inherit(c) \/ ResumeDomain(c)
    BY <2>16 DEF Inherit, ResumeDomain, Claims, gvars, dvars, wvars
  <2>13. ASSUME NEW g \in Gens, Delete(c, g) PROVE Claims'
    <3>1. \A d \in Clients : cstable'[d] => cstable[d]
      BY <2>13 DEF Delete
    <3>2. \A h \in Gens : gst'[h] = "success" => site
      BY <2>13, SuccessWritten, FinalStatus DEF Delete, Claims, TypeTables
    <3> QED BY <2>13, <3>1, <3>2 DEF Delete, Claims, dvars, wvars
  <2>14. CASE Recalculate(c)
    <3>1. \A d \in Clients : cstable'[d] => cstable[d]
      BY <2>14 DEF Recalculate, Respond, TypeClients
    <3> DEFINE done == {g \in Rows : gst[g] = "success"}
    <3>2. lastSucc' # NoGen => lastSucc' \in done
      BY <2>14, LatestIsOne DEF Recalculate, LatestSuccess, Latest, Rows
    <3>3. lastSucc' # NoGen => site
      BY <3>2 DEF Claims, Rows
    <3> QED BY <2>14, <3>1, <3>3 DEF Recalculate, Claims, gvars, wvars
  <2>15. CASE Disconnect(c)
    <3>1. \A d \in Clients : cstable'[d] => cstable[d]
      BY <2>15 DEF Disconnect, Respond, TypeClients
    <3> QED BY <2>15, <3>1 DEF Disconnect, Claims, gvars, dvars, wvars
  <2> QED BY <1>2, <2>1, <2>2, <2>3, <2>4, <2>5, <2>6, <2>7, <2>8, <2>9, <2>10, <2>11,
        <2>12, <2>13, <2>14, <2>15, <2>16 DEF Arrive, Serve
<1>3. CASE Tick \/ ApplySchedule \/ SchedulerCrash
  <2>1. CASE CreateFromItem
    <3>1. \A g \in Gens : gst'[g] = "success" => site
      BY <2>1 DEF CreateFromItem, Insert, gvars, NextGen, Claims, TypeTables
    <3> QED BY <2>1, <3>1 DEF CreateFromItem, Claims, dvars, wvars, cvars
  <2>2. CASE EnqueueFromItem
    <3>1. \A g \in Gens : gst'[g] = "success" => site
      BY <2>2, SuccessWritten DEF EnqueueFromItem, Claims
    <3> QED BY <2>2, <3>1 DEF EnqueueFromItem, Claims, wvars, cvars
  <2>3. ASSUME NEW g \in Gens, PrepareRetry(g) PROVE Claims'
    <3>1. \A h \in Gens : gst'[h] = "success" => site
      BY <2>3, SuccessWritten DEF PrepareRetry, Claims
    <3> QED BY <2>3, <3>1 DEF PrepareRetry, Claims, dvars, wvars, cvars
  <2>4. CASE \/ ApplySchedule \/ (\E q \in Items : TakeItem(q)) \/ MarkFromItem
             \/ MarkItem \/ ListRetryDue \/ EnqueueRetry \/ SchedulerCrash
    BY <2>4 DEF ApplySchedule, TakeItem, MarkFromItem, MarkItem, ListRetryDue, EnqueueRetry,
          SchedulerCrash, Claims, gvars, dvars, wvars, cvars
  <2> QED BY <1>3, <2>1, <2>2, <2>3, <2>4 DEF Tick
<1>4. CASE UNCHANGED vars
  BY <1>4 DEF vars, gvars, dvars, wvars, cvars, Claims
<1> QED BY <1>1, <1>2, <1>3, <1>4 DEF Next

-----------------------------------------------------------------------------
(* The theorems.                                                           *)

\* Whether or not the domain had a site before, nothing is claimed without it.
LEMMA InvInitially == Init => Inv
<1> SUFFICES ASSUME Init PROVE Inv
  OBVIOUS
<1>1. TypeTables
  BY DEF Init, TypeTables, RowStatus, Stable, DomainStatus, ItemStatus
<1>2. TypeTasks
  BY DEF Init, TypeTasks
<1>3. TypeWorkers
  BY DEF Init, TypeWorkers, WorkerPc, RowStatus, Steps
<1>4. TypeClients /\ TypeScheduler
  BY DEF Init, TypeClients, TypeScheduler, ClientPc, SchedulerPc, RowStatus
<1>5. Owned /\ Named
  BY DEF Init, Owned, Named, NamedBy
<1>6. Artifacts
  BY SoundSets DEF Init, Artifacts
<1>7. Loop
  BY DEF Init, Loop, LoopAt
<1>8. Claims
  BY DEF Init, Claims, Stable
<1> QED BY <1>1, <1>2, <1>3, <1>4, <1>5, <1>6, <1>7, <1>8 DEF Inv, TypeOK

\* Inv is inductive.
LEMMA InvKept == Inv /\ [Next]_vars => Inv'
BY TablesTyped, TasksTyped, WorkersTyped, ClientsTyped, SchedulerTyped, OwnedKept,
   NamedKept, ArtifactsKept, LoopKept, ClaimsKept DEF Inv, TypeOK

\* It holds in every state of every behaviour.
THEOREM InvAlways == Spec => []Inv
BY InvInitially, InvKept, PTL DEF Spec

\* The tables, the queue and the memories of the processes stay well typed, whatever
\* the processes do to each other.
THEOREM TypeCorrect == Spec => []TypeOK
<1>1. Inv => TypeOK
  BY DEF Inv
<1> QED BY <1>1, InvAlways, PTL

\* A step executes only with the artifacts of all the steps before it, however many
\* deliveries of one generation overlap and wherever they are cut short.
THEOREM StepInputsAreReady == Spec => []StepInputsReady
<1>1. Inv => StepInputsReady
  <2> SUFFICES ASSUME Inv PROVE StepInputsReady
    OBVIOUS
  <2>1. \A g \in Gens : Closed(arts[g])
    BY DEF Inv, Artifacts, Sound
  <2>2. \A w \in Workers : Closed(warts[w])
    BY DEF Inv, Artifacts, Sound
  <2>3. \A w \in Workers : wpc[w] = "exec" => 1..(wi[w] - 1) \subseteq warts[w]
    BY DEF Inv, Loop, LoopAt
  <2> QED BY <2>1, <2>2, <2>3 DEF StepInputsReady
<1> QED BY <1>1, InvAlways, PTL

\* No status, artifact or pointer says that there is a site before one was deployed,
\* although every process writes them from copies that may be stale.
THEOREM ClaimsFollowPublish == Spec => []NothingClaimedBeforePublish
<1>1. Inv => NothingClaimedBeforePublish
  BY DEF Inv, TypeOK, TypeTables, Claims, Artifacts, Sound, NothingClaimedBeforePublish
<1> QED BY <1>1, InvAlways, PTL

-----------------------------------------------------------------------------
(* Properties that hold as long as two things do not happen: what a        *)
(* process does to the table, and what the others can then count on.       *)

\* A worker that has taken a task and not returned
Busy(w) == wpc[w] # "idle"

\* What one process may do to row h of the table: a worker writes a status of the
\* column into the row of its task ...
WorkerWrites(w, h) ==
    \/ UNCHANGED <<gst[h], arts[h]>>
    \/ Busy(w) /\ h = Gen(w) /\ h \in Rows /\ gst'[h] \in GenStatus

\* ... and the others never write "success", and leave the artifacts, drop them,
\* insert the row, or restore a snapshot.
OthersWrite(h) ==
    \/ UNCHANGED <<gst[h], arts[h]>>
    \/ h \in Rows /\ gst'[h] \in GenStatus \ {"success"} /\ arts'[h] \in {arts[h], {}}
    \/ h \in Rows /\ gst'[h] = "deleted" /\ arts'[h] = {}
    \/ gst[h] = "none" /\ gst'[h] = "pending"
    \/ /\ h \in Rows /\ gst'[h] \in GenStatus \ {"success"}
       /\ \E c \in Clients : Recover(c) /\ h = cgen[c]

\* What a worker will write back is a status a row can have.
Readable == \A w \in Workers : wpc[w] \in {"saveW", "llmW"} => wread[w] \in GenStatus

\* A pause or a cancel request ends in a status a row can have, and never in success.
LEMMA FinalIsStatus == ASSUME NEW s PROVE Final(s) \in GenStatus \ {"success"}
BY DEF Final, GenStatus, Active, Transit

\* Whatever a worker does, this is all it does to the table ...
LEMMA WorkerWrote ==
  ASSUME Inv, Readable, NEW w \in Workers,
         Start(w) \/ Run(w) \/ Watch(w) \/ WorkerCrash(w), NEW h \in Gens
  PROVE  WorkerWrites(w, h)
<1> USE DEF Inv, TypeOK, WorkerWrites
<1> DEFINE Put(s, a) == UpdateFull(Gen(w), s, a)
           Set(s) == SetStatus(Gen(w), s)
<1>0. \A s \in {"processing", "error", "success"} : s \in GenStatus
  BY DEF GenStatus, Active
<1>1. ASSUME NEW s \in GenStatus, NEW a, Put(s, a), Busy(w) PROVE WorkerWrites(w, h)
  BY <1>1 DEF UpdateFull, SetStatus, TypeTables
<1>2. ASSUME NEW s \in GenStatus, Set(s), UNCHANGED arts, Busy(w) PROVE WorkerWrites(w, h)
  BY <1>2 DEF SetStatus, TypeTables
<1>3. CASE Settle(w) \/ StopWrite(w)
  <2>1. Put(Final(wread[w]), wcopy[w]) /\ Busy(w)
    BY <1>3 DEF Settle, StopWrite, Busy
  <2> QED BY <1>1, <2>1, FinalIsStatus
<1>4. CASE Claim(w)
  <2>1. Put("processing", {}) /\ Busy(w)
    BY <1>4 DEF Claim, Busy
  <2> QED BY <1>0, <1>1, <2>1
<1>5. CASE SetupFails(w)
  <2>1. PICK a : Put("error", a)
    BY <1>5 DEF SetupFails
  <2>2. Busy(w)
    BY <1>5 DEF SetupFails, Busy
  <2> QED BY <1>0, <1>1, <2>1, <2>2
<1>6. CASE Stop(w)
  <2>1. UNCHANGED <<gst, arts>> \/ (Set(Final(wread[w])) /\ UNCHANGED arts)
    BY <1>6 DEF Stop
  <2>2. Busy(w)
    BY <1>6 DEF Stop, Busy
  <2> QED BY <1>2, <2>1, <2>2, FinalIsStatus
<1>7. CASE HaltWrite(w)
  <2>1. UNCHANGED <<gst, arts>> \/ Put(Final(wread[w]), wcopy[w])
    BY <1>7 DEF HaltWrite
  <2>2. Busy(w)
    BY <1>7 DEF HaltWrite, Busy
  <2> QED BY <1>1, <2>1, <2>2, FinalIsStatus
<1>8. CASE SaveWrite(w)
  <2>1. UNCHANGED <<gst, arts>> \/ Put(wread[w], warts[w])
    BY <1>8 DEF SaveWrite
  <2>2. Busy(w) /\ wread[w] \in GenStatus
    BY <1>8 DEF SaveWrite, Busy, Readable
  <2> QED BY <1>1, <2>1, <2>2
<1>9. CASE Progress(w)
  <2>1. UNCHANGED <<gst, arts>> \/ (Set("processing") /\ UNCHANGED arts)
    BY <1>9 DEF Progress
  <2>2. Busy(w)
    BY <1>9 DEF Progress, Busy
  <2> QED BY <1>0, <1>2, <2>1, <2>2
<1>10. CASE SuccessWrite(w)
  <2>1. Put("success", wcopy[w]) /\ Busy(w)
    BY <1>10 DEF SuccessWrite, Busy
  <2> QED BY <1>0, <1>1, <2>1
<1>11. CASE FailWrite(w)
  <2>1. Put("error", wcopy[w]) /\ Busy(w)
    BY <1>11 DEF FailWrite, Busy
  <2> QED BY <1>0, <1>1, <2>1
<1>12. CASE LlmWrite(w)
  <2>1. Put(wread[w], wcopy[w]) /\ Busy(w) /\ wread[w] \in GenStatus
    BY <1>12 DEF LlmWrite, Busy, Readable
  <2> QED BY <1>1, <2>1
<1>13. CASE \/ Start(w) \/ Watch(w) \/ Load(w) \/ Top(w) \/ Stopped(w) \/ Before(w)
            \/ Halt(w) \/ Execute(w) \/ ExecuteCanceled(w) \/ ExecuteFails(w)
            \/ PublishFailsHalfway(w) \/ SaveRead(w) \/ After(w)
  BY <1>13 DEF Start, Watch, Load, Top, Stopped, Before, Halt, Execute, ExecuteCanceled,
        ExecuteFails, PublishFailsHalfway, SaveRead, After, ShouldContinue, gvars
<1>14. CASE \/ Canceled(w) \/ Success(w) \/ Finish(w) \/ Fail(w) \/ FailRetry(w)
            \/ LlmRead(w) \/ Return(w) \/ WorkerCrash(w)
  BY <1>14 DEF Canceled, Success, Finish, Fail, FailRetry, LlmRead, Return, WorkerCrash, gvars
<1> QED BY <1>3, <1>4, <1>5, <1>6, <1>7, <1>8, <1>9, <1>10, <1>11, <1>12, <1>13, <1>14
        DEF Run

\* ... and this is all the others do.
LEMMA OthersWrote ==
  ASSUME Inv, NEW h \in Gens,
         \/ \E c \in Clients : Arrive(c) \/ Serve(c) \/ Disconnect(c)
         \/ Tick \/ ApplySchedule \/ SchedulerCrash
  PROVE  OthersWrite(h)
<1> USE DEF Inv, TypeOK, OthersWrite
<1>0. \A s \in {"pending", "paused", "cancelled", "pause_requested", "cancelling", "error"} :
        s \in GenStatus \ {"success"}
  BY DEF GenStatus, Active, Transit
<1>1. ASSUME NEW g, NEW s \in GenStatus \ {"success"}, SetStatus(g, s), UNCHANGED arts
      PROVE  OthersWrite(h)
  BY <1>1 DEF SetStatus, TypeTables
<1>2. ASSUME NEW g, NEW s \in GenStatus \ {"success"}, UpdateFull(g, s, {})
      PROVE  OthersWrite(h)
  BY <1>2 DEF UpdateFull, SetStatus, TypeTables
<1>3. ASSUME NEW g \in NextGen, NEW a, Insert(g, a) PROVE OthersWrite(h)
  BY <1>3 DEF Insert, NextGen, TypeTables
<1>4. ASSUME NEW c \in Clients, Arrive(c) \/ Serve(c) \/ Disconnect(c) PROVE OthersWrite(h)
  <2>1. CASE Generate(c)
    BY <2>1 DEF Generate, Request, gvars
  <2>2. CASE \/ \E g \in Gens : View(c, g)
             \/ \E g \in Gens, op \in {"pause", "resume", "cancel"} : Act(c, op, g)
             \/ Check(c) \/ Inherit(c) \/ Post(c) \/ ResumeDomain(c) \/ Recalculate(c)
             \/ Disconnect(c)
    BY <2>2 DEF View, Act, Request, Check, Inherit, Post, ResumeDomain, Recalculate, Disconnect,
          gvars
  <2>3. CASE Recover(c)
    <3>1. Final(cread[c]) \in GenStatus \ {"success"}
      BY FinalIsStatus
    <3> QED BY <2>3, <3>1 DEF Recover, UpdateFull, SetStatus, TypeTables
  <2>4. CASE Create(c)
    BY <2>4, <1>3 DEF Create, gvars
  <2>5. CASE EnqueueNew(c)
    BY <2>5, <1>0, <1>2 DEF EnqueueNew
  <2>6. CASE Pause(c)
    <3>1. PICK s \in {"paused", "pause_requested"} : SetStatus(cgen[c], s) /\ UNCHANGED arts
      BY <2>6 DEF Pause
    <3> QED BY <3>1, <1>0, <1>1
  <2>7. CASE Cancel(c)
    <3>1. PICK s \in {"cancelled", "cancelling"} : SetStatus(cgen[c], s) /\ UNCHANGED arts
      BY <2>7 DEF Cancel
    <3> QED BY <3>1, <1>0, <1>1
  <2>8. CASE Resume(c)
    BY <2>8, <1>0, <1>1 DEF Resume
  <2>9. CASE ResumeEnqueue(c)
    BY <2>9, <1>0, <1>1 DEF ResumeEnqueue
  <2>10. ASSUME NEW g \in Gens, Delete(c, g) PROVE OthersWrite(h)
    BY <2>10 DEF Delete, TypeTables
  <2> QED BY <1>4, <2>1, <2>2, <2>3, <2>4, <2>5, <2>6, <2>7, <2>8, <2>9, <2>10 DEF Arrive, Serve
<1>5. CASE Tick \/ ApplySchedule \/ SchedulerCrash
  <2>1. CASE CreateFromItem
    BY <2>1, <1>3 DEF CreateFromItem, gvars
  <2>2. CASE EnqueueFromItem
    BY <2>2, <1>0, <1>1 DEF EnqueueFromItem
  <2>3. ASSUME NEW g \in Gens, PrepareRetry(g) PROVE OthersWrite(h)
    BY <2>3, <1>0, <1>1 DEF PrepareRetry
  <2>4. CASE \/ ApplySchedule \/ (\E q \in Items : TakeItem(q)) \/ MarkFromItem
             \/ MarkItem \/ ListRetryDue \/ EnqueueRetry \/ SchedulerCrash
    BY <2>4 DEF ApplySchedule, TakeItem, MarkFromItem, MarkItem, ListRetryDue, EnqueueRetry,
          SchedulerCrash, gvars
  <2> QED BY <1>5, <2>1, <2>2, <2>3, <2>4 DEF Tick
<1> QED BY <1>4, <1>5

-----------------------------------------------------------------------------
\* A step of one worker leaves the others where they are.
LEMMA OthersStandStill ==
  ASSUME Inv, NEW w \in Workers, Start(w) \/ Run(w) \/ Watch(w) \/ WorkerCrash(w),
         NEW v \in Workers \ {w}
  PROVE  UNCHANGED <<wpc[v], wtask[v], warts[v], wi[v], wread[v], wcopy[v]>>
<1> USE DEF Inv, TypeOK, TypeWorkers, wGoto, wvars
<1>1. CASE \/ Settle(w) \/ Claim(w) \/ Load(w) \/ SetupFails(w) \/ Watch(w) \/ Top(w)
           \/ Stop(w) \/ Stopped(w) \/ Before(w) \/ Halt(w)
  BY <1>1 DEF Settle, Claim, Load, SetupFails, Watch, Top, Stop, Stopped, Before,
        ShouldContinue, Halt
<1>2. CASE \/ HaltWrite(w) \/ Execute(w) \/ ExecuteCanceled(w) \/ ExecuteFails(w)
           \/ PublishFailsHalfway(w) \/ SaveRead(w) \/ SaveWrite(w) \/ After(w)
           \/ Progress(w) \/ Canceled(w)
  BY <1>2 DEF HaltWrite, Execute, ExecuteCanceled, ExecuteFails, PublishFailsHalfway,
        SaveRead, SaveWrite, After, ShouldContinue, Progress, Canceled
<1>3. CASE \/ StopWrite(w) \/ Success(w) \/ SuccessWrite(w) \/ Finish(w) \/ Fail(w)
           \/ FailWrite(w) \/ FailRetry(w) \/ LlmRead(w) \/ LlmWrite(w) \/ Return(w)
           \/ WorkerCrash(w)
  BY <1>3 DEF StopWrite, Success, SuccessWrite, Finish, Fail, FailWrite, FailRetry,
        LlmRead, LlmWrite, Return, WorkerCrash, Reset
<1>4. CASE Start(w)
  <2>1. wpc'[v] = wpc[v]
    BY <1>4 DEF Start
  <2>2. PICK t \in TaskIds : /\ wtask' = [wtask EXCEPT ![w] = t]
                            /\ wread' = [wread EXCEPT ![w] = gst[tgen[t]]]
                            /\ wcopy' = [wcopy EXCEPT ![w] = arts[tgen[t]]]
                            /\ warts' = [warts EXCEPT ![w] = arts[tgen[t]]]
    BY <1>4 DEF Start
  <2>3. UNCHANGED wi
    BY <1>4 DEF Start
  <2> QED BY <2>1, <2>2, <2>3
<1> QED BY <1>1, <1>2, <1>3, <1>4 DEF Run

\* A worker ends its own task only.
LEMMA TasksOfOthersStay ==
  ASSUME Inv, NEW w \in Workers, Run(w) \/ Watch(w) \/ WorkerCrash(w)
  PROVE  /\ \A t \in TaskIds \ {wtask[w]} : UNCHANGED <<tst[t], tgen[t], tleft[t]>>
         /\ wpc'[w] # "idle" => UNCHANGED <<tst, tgen, tleft, wtask>>
<1> USE DEF Inv, TypeOK, TypeWorkers, TypeTasks, wGoto, tvars
<1>1. CASE \/ Settle(w) \/ Claim(w) \/ Load(w) \/ SetupFails(w) \/ Watch(w) \/ Top(w)
           \/ Stop(w) \/ Stopped(w) \/ Before(w) \/ Halt(w)
  BY <1>1 DEF Settle, Claim, Load, SetupFails, Watch, Top, Stop, Stopped, Before,
        ShouldContinue, Halt
<1>2. CASE \/ HaltWrite(w) \/ Execute(w) \/ ExecuteCanceled(w) \/ ExecuteFails(w)
           \/ PublishFailsHalfway(w) \/ SaveRead(w) \/ SaveWrite(w) \/ After(w)
           \/ Progress(w) \/ Canceled(w)
  BY <1>2 DEF HaltWrite, Execute, ExecuteCanceled, ExecuteFails, PublishFailsHalfway,
        SaveRead, SaveWrite, After, ShouldContinue, Progress, Canceled
<1>3. CASE \/ StopWrite(w) \/ Success(w) \/ SuccessWrite(w) \/ Finish(w) \/ Fail(w)
           \/ FailWrite(w) \/ FailRetry(w) \/ LlmRead(w) \/ LlmWrite(w)
  BY <1>3 DEF StopWrite, Success, SuccessWrite, Finish, Fail, FailWrite, FailRetry,
        LlmRead, LlmWrite
<1>4. CASE Return(w) \/ WorkerCrash(w)
  <2>1. wpc'[w] = "idle"
    BY <1>4 DEF Return, WorkerCrash, Reset
  <2>2. Drop(wtask[w]) \/ Redeliver(wtask[w])
    BY <1>4 DEF Return, WorkerCrash
  <2>3. \A t \in TaskIds \ {wtask[w]} : UNCHANGED <<tst[t], tgen[t], tleft[t]>>
    BY <2>2 DEF Drop, Redeliver
  <2> QED BY <2>1, <2>3
<1> QED BY <1>1, <1>2, <1>3, <1>4 DEF Run

\* A new task takes a free place.
LEMMA NewTasksTakeFreePlaces ==
  ASSUME Inv, NEW t \in TaskIds, tst[t] # "free",
         \/ \E c \in Clients : Arrive(c) \/ Serve(c) \/ Disconnect(c)
         \/ Tick \/ ApplySchedule \/ SchedulerCrash
  PROVE  UNCHANGED <<tst[t], tgen[t], tleft[t]>>
<1> USE DEF Inv, TypeOK, TypeTasks, tvars
<1>1. ASSUME NEW c \in Clients, Arrive(c) \/ Serve(c) \/ Disconnect(c)
      PROVE  UNCHANGED <<tst[t], tgen[t], tleft[t]>>
  BY <1>1 DEF Arrive, Serve, Generate, View, Recover, Check, Inherit, Create, EnqueueNew, Post,
        Act, Pause, Cancel, Resume, ResumeDomain, ResumeEnqueue, Delete, Recalculate, Disconnect,
        Request, Enqueue
<1>2. CASE Tick \/ ApplySchedule \/ SchedulerCrash
  BY <1>2 DEF Tick, ApplySchedule, TakeItem, CreateFromItem, MarkFromItem, EnqueueFromItem,
        MarkItem,
        ListRetryDue, PrepareRetry, EnqueueRetry, SchedulerCrash, Enqueue
<1> QED BY <1>1, <1>2

\* Only a busy worker runs.
LEMMA RunsAreBusy ==
  ASSUME NEW w \in Workers, Run(w) \/ Watch(w) \/ WorkerCrash(w) PROVE Busy(w)
BY DEF Busy, Run, Settle, Claim, Load, SetupFails, Watch, Top, Stop, Stopped,
      Before, Halt, HaltWrite, Execute, ExecuteCanceled, ExecuteFails,
      PublishFailsHalfway, SaveRead, SaveWrite, After, Progress, Canceled, StopWrite,
      Success, SuccessWrite, Finish, Fail, FailWrite, FailRetry, LlmRead, LlmWrite,
      Return, WorkerCrash

\* So a worker keeps its task, and the task its generation, as long as it runs.
LEMMA RunsKeepTheirTask ==
  ASSUME Inv, [Next]_vars, NEW w \in Workers, Busy(w), Busy(w)'
  PROVE  UNCHANGED <<wtask[w], tst[wtask[w]], tgen[wtask[w]], tleft[wtask[w]]>> /\ Gen(w)' = Gen(w)
<1>0. SUFFICES UNCHANGED <<wtask[w], tst[wtask[w]], tgen[wtask[w]], tleft[wtask[w]]>>
  BY DEF Gen
<1>1. wtask[w] \in TaskIds /\ tst[wtask[w]] = "running"
  BY DEF Inv, Owned, Busy
<1>2. ASSUME NEW v \in Workers, Start(v)
      PROVE  UNCHANGED <<wtask[w], tst[wtask[w]], tgen[wtask[w]], tleft[wtask[w]]>>
  <2>1. v # w
    BY <1>2 DEF Start, Busy
  <2>2. wtask'[w] = wtask[w]
    BY <1>2, <2>1, OthersStandStill
  <2>3. PICK t \in TaskIds : tst[t] = "queued" /\ tst' = [tst EXCEPT ![t] = "running"]
    BY <1>2 DEF Start
  <2>4. UNCHANGED <<tgen, tleft>>
    BY <1>2 DEF Start
  <2> QED BY <1>1, <2>2, <2>3, <2>4 DEF Inv, TypeOK, TypeTasks
<1>3. ASSUME NEW v \in Workers, Run(v) \/ Watch(v) \/ WorkerCrash(v)
      PROVE  UNCHANGED <<wtask[w], tst[wtask[w]], tgen[wtask[w]], tleft[wtask[w]]>>
  <2>1. CASE v = w
    BY <1>3, <2>1, TasksOfOthersStay DEF Busy
  <2>2. CASE v # w
    <3>1. wtask'[w] = wtask[w]
      BY <1>3, <2>2, OthersStandStill
    <3>2. Busy(v)
      BY <1>3, RunsAreBusy
    <3>3. wtask[v] # wtask[w]
      BY <2>2, <3>2 DEF Busy, Inv, Owned
    <3> QED BY <1>1, <1>3, <3>1, <3>3, TasksOfOthersStay
  <2> QED BY <2>1, <2>2
<1>4. ASSUME NEW c \in Clients, Arrive(c) \/ Serve(c) \/ Disconnect(c)
      PROVE  UNCHANGED <<wtask[w], tst[wtask[w]], tgen[wtask[w]], tleft[wtask[w]]>>
  BY <1>1, <1>4, NewTasksTakeFreePlaces, ClientFrame DEF wvars
<1>5. CASE Tick \/ ApplySchedule \/ SchedulerCrash
  BY <1>1, <1>5, NewTasksTakeFreePlaces, SchedulerFrame DEF wvars
<1>6. CASE UNCHANGED vars
  BY <1>6 DEF vars, tvars, wvars
<1> QED BY <1>2, <1>3, <1>4, <1>5, <1>6 DEF Next

\* A delivery takes a queued task and goes where the status of its row says.
LEMMA Delivered ==
  ASSUME Inv, NEW w \in Workers, Start(w)
  PROVE  \E t \in TaskIds :
           /\ tst[t] = "queued" /\ tgen[t] \in Gens
           /\ Gen(w)' = tgen[t] /\ wtask'[w] = t
           /\ \A u \in TaskIds : u # t => tst'[u] = tst[u]
           /\ UNCHANGED <<tgen, tleft, gst, arts>>
           /\ warts'[w] = arts[tgen[t]]
           /\ \/ wpc'[w] \in {"settle", "return"} /\ gst[tgen[t]] \notin {"pending", "processing", "error"}
              \/ wpc'[w] = "claim" /\ gst[tgen[t]] \in {"pending", "error"}
              \/ wpc'[w] = "load" /\ gst[tgen[t]] = "processing"
<1> USE DEF Inv, TypeOK, TypeWorkers, TypeTasks
<1>1. PICK t \in TaskIds :
        /\ tst[t] = "queued" /\ tst' = [tst EXCEPT ![t] = "running"]
        /\ wtask' = [wtask EXCEPT ![w] = t]
        /\ warts' = [warts EXCEPT ![w] = arts[tgen[t]]]
        /\ wGoto(w, CASE gst[tgen[t]] \in Transit -> "settle"
                      [] gst[tgen[t]] \in {"pending", "error"} -> "claim"
                      [] gst[tgen[t]] = "processing" -> "load"
                      [] OTHER -> "return")
  BY DEF Start
<1>2. UNCHANGED <<tgen, tleft, gst, arts>>
  BY DEF Start, gvars
<1>3. wtask'[w] = t /\ warts'[w] = arts[tgen[t]] /\ \A u \in TaskIds : u # t => tst'[u] = tst[u]
  BY <1>1
<1>4. Gen(w)' = tgen[t] /\ tgen[t] \in Gens
  BY <1>1, <1>2, <1>3 DEF Gen, Owned
<1>5. \/ wpc'[w] \in {"settle", "return"} /\ gst[tgen[t]] \notin {"pending", "processing", "error"}
      \/ wpc'[w] = "claim" /\ gst[tgen[t]] \in {"pending", "error"}
      \/ wpc'[w] = "load" /\ gst[tgen[t]] = "processing"
  <2> DEFINE s == gst[tgen[t]]
  <2>1. CASE s \in Transit
    BY <1>1, <2>1 DEF wGoto, Transit
  <2>2. CASE s \in {"pending", "error"}
    BY <1>1, <2>2 DEF wGoto, Transit
  <2>3. CASE s = "processing"
    BY <1>1, <2>3 DEF wGoto, Transit
  <2>4. CASE s \notin Transit \cup {"pending", "error", "processing"}
    BY <1>1, <2>4 DEF wGoto
  <2> QED BY <2>1, <2>2, <2>3, <2>4
<1> QED BY <1>1, <1>2, <1>3, <1>4, <1>5

\* Whatever names a generation names one that was inserted, a row that is not in the
\* table has no artifacts, and what a worker will write back is a status of a row.
Enqueuing == {"domain", "enqueue", "resume", "resumeDomain", "resumeEnqueue", "retryEnqueue"}
Names(pc, g) == pc \in Enqueuing => gst[g] # "none"
Born ==
    /\ \A t \in TaskIds : tst[t] # "free" => gst[tgen[t]] # "none"
    /\ \A c \in Clients : Names(cpc[c], cgen[c])
    /\ Names(spc, sgen)
    /\ \A g \in sdue : gst[g] # "none"
    /\ \A g \in Gens : g \notin Rows => arts[g] = {}
    /\ Readable

\* Ids are never free again, and what is deleted stays empty.
LEMMA StaysBorn ==
  ASSUME Inv, Born, [Next]_vars, NEW h \in Gens
  PROVE  /\ gst[h] # "none" => gst'[h] # "none"
         /\ h \notin Rows' => arts'[h] = {}
<1> USE DEF Rows, RowStatus, GenStatus, Active, Transit
<1>0. h \notin Rows => arts[h] = {}
  BY DEF Born
<1>1. ASSUME NEW w \in Workers, WorkerWrites(w, h)
      PROVE  (gst[h] # "none" => gst'[h] # "none") /\ (h \notin Rows' => arts'[h] = {})
  BY <1>0, <1>1 DEF WorkerWrites
<1>2. ASSUME OthersWrite(h), [Next]_vars
      PROVE  (gst[h] # "none" => gst'[h] # "none") /\ (h \notin Rows' => arts'[h] = {})
  BY <1>0, <1>2 DEF OthersWrite
<1>3. CASE UNCHANGED vars
  BY <1>0, <1>3 DEF vars, gvars
<1> QED BY <1>1, <1>2, <1>3, WorkerWrote, OthersWrote DEF Next, Born

\* A worker reads the status it will write back from a row that is there.
LEMMA ReadableKept ==
  ASSUME Inv, Readable, [Next]_vars
  PROVE  Readable'
<1> USE DEF Inv, TypeOK
<1>1. ASSUME NEW w \in Workers, Start(w) \/ Run(w) \/ Watch(w) \/ WorkerCrash(w)
      PROVE  Readable'
  <2>0. \A v \in Workers \ {w} : wpc'[v] = wpc[v] /\ wread'[v] = wread[v]
    BY <1>1, OthersStandStill
  <2>1. SUFFICES wpc'[w] \in {"saveW", "llmW"} => wread'[w] \in GenStatus
    BY <2>0 DEF Readable
  <2>2. CASE SaveRead(w) \/ LlmRead(w)
    BY <2>2, KeptType DEF SaveRead, LlmRead, Rows, TypeWorkers, wGoto
  <2>3. CASE Start(w)
    BY <2>3, Delivered
  <2>4. CASE Before(w) \/ After(w) \/ Watch(w) \/ Top(w) \/ Progress(w)
    BY <2>4 DEF Before, After, Watch, Top, Progress, NextStepPc, ShouldContinue, TypeWorkers,
          wGoto, Readable
  <2>5. CASE \/ Settle(w) \/ Claim(w) \/ Load(w) \/ SetupFails(w) \/ Stop(w) \/ Stopped(w)
             \/ Halt(w) \/ HaltWrite(w) \/ Execute(w) \/ ExecuteCanceled(w)
             \/ ExecuteFails(w) \/ PublishFailsHalfway(w) \/ SaveWrite(w)
    BY <2>5 DEF Settle, Claim, Load, SetupFails, Stop, Stopped, Halt, HaltWrite, Execute,
          ExecuteCanceled, ExecuteFails, PublishFailsHalfway, SaveWrite, TypeWorkers, wGoto
  <2>6. CASE \/ Canceled(w) \/ StopWrite(w) \/ Success(w) \/ SuccessWrite(w) \/ Finish(w)
             \/ Fail(w) \/ FailWrite(w) \/ FailRetry(w) \/ LlmWrite(w) \/ Return(w)
             \/ WorkerCrash(w)
    BY <2>6 DEF Canceled, StopWrite, Success, SuccessWrite, Finish, Fail, FailWrite,
          FailRetry, LlmWrite, Return, WorkerCrash, Reset, TypeWorkers, wGoto
  <2> QED BY <1>1, <2>2, <2>3, <2>4, <2>5, <2>6 DEF Run
<1>2. ASSUME NEW c \in Clients, Arrive(c) \/ Serve(c) \/ Disconnect(c) PROVE Readable'
  BY <1>2, ClientFrame DEF wvars, Readable
<1>3. CASE Tick \/ ApplySchedule \/ SchedulerCrash
  BY <1>3, SchedulerFrame DEF wvars, Readable
<1>4. CASE UNCHANGED vars
  BY <1>4 DEF vars, wvars, Readable
<1> QED BY <1>1, <1>2, <1>3, <1>4 DEF Next

\* No step breaks this.
LEMMA BornKept ==
  ASSUME Inv, Born, [Next]_vars
  PROVE  Born'
<1> USE DEF Inv, TypeOK
<1>1. \A g \in Gens : gst[g] # "none" => gst'[g] # "none"
  BY StaysBorn
<1>2. \A g \in Gens : g \notin Rows' => arts'[g] = {}
  BY StaysBorn
<1>3. Readable'
  BY ReadableKept DEF Born
<1>4. Inv'
  BY InvKept
<1>5. \A t \in TaskIds : tst'[t] # "free" => gst'[tgen'[t]] # "none"
  <2> SUFFICES ASSUME NEW t \in TaskIds, tst'[t] # "free" PROVE gst'[tgen'[t]] # "none"
    OBVIOUS
  <2>1. CASE tst[t] # "free" /\ tgen'[t] = tgen[t]
    BY <1>1, <2>1 DEF Born, Owned
  <2>2. ASSUME NEW g \in Gens, NEW f, Enqueue(g, f), gst[g] # "none" PROVE gst'[tgen'[t]] # "none"
    BY <1>1, <2>2 DEF Enqueue, TypeTasks, Born, Owned
  <2>3. ASSUME NEW w \in Workers, Start(w) PROVE gst'[tgen'[t]] # "none"
    <3>1. tst[t] # "free" /\ tgen'[t] = tgen[t]
      BY <2>3, Delivered
    <3> QED BY <2>1, <3>1
  <2>4. ASSUME NEW w \in Workers, Run(w) \/ Watch(w) \/ WorkerCrash(w) PROVE gst'[tgen'[t]] # "none"
    <3>1. CASE wpc'[w] # "idle" \/ t # wtask[w]
      BY <2>1, <2>4, <3>1, TasksOfOthersStay
    <3>2. CASE wpc'[w] = "idle" /\ t = wtask[w]
      <4>1. Return(w) \/ WorkerCrash(w)
        BY <2>4, <3>2 DEF Run, Settle, Claim, Load, SetupFails, Watch, Top, NextStepPc, Stop,
              Stopped, Before, Halt, HaltWrite, Execute, ExecuteCanceled, ExecuteFails,
              PublishFailsHalfway, SaveRead, SaveWrite, After, ShouldContinue, Progress,
              Canceled, StopWrite, Success, SuccessWrite, Finish, Fail, FailWrite, FailRetry,
              LlmRead, LlmWrite, wGoto, TypeWorkers
      <4>2. Drop(t) \/ Redeliver(t)
        BY <3>2, <4>1 DEF Return, WorkerCrash
      <4>3. tst[t] = "running"
        BY <3>2, <4>1 DEF Return, WorkerCrash, Owned
      <4>4. tgen'[t] = tgen[t]
        BY <4>2 DEF Drop, Redeliver, TypeTasks
      <4> QED BY <2>1, <4>3, <4>4
    <3> QED BY <3>1, <3>2
  <2>5. ASSUME NEW c \in Clients, Arrive(c) \/ Serve(c) \/ Disconnect(c) PROVE gst'[tgen'[t]] # "none"
    <3>1. CASE UNCHANGED tvars
      BY <2>1, <3>1 DEF tvars
    <3>2. CASE EnqueueNew(c) \/ ResumeEnqueue(c)
      <4>1. gst[cgen[c]] # "none" /\ cgen[c] \in Gens
        BY <3>2 DEF EnqueueNew, ResumeEnqueue, Born, Names, Enqueuing, Named, NamedBy
      <4> QED BY <2>2, <3>1, <3>2, <4>1 DEF EnqueueNew, ResumeEnqueue
    <3> QED BY <2>5, <3>1, <3>2 DEF Arrive, Serve, Generate, View, Recover, Check, Inherit, Create,
          Post, Act, Pause, Cancel, Resume, ResumeDomain, Delete, Recalculate, Disconnect, Request
  <2>6. CASE Tick \/ ApplySchedule \/ SchedulerCrash
    <3>1. CASE UNCHANGED tvars
      BY <2>1, <3>1 DEF tvars
    <3>2. CASE EnqueueFromItem \/ EnqueueRetry
      <4>1. gst[sgen] # "none" /\ sgen \in Gens
        BY <3>2 DEF EnqueueFromItem, EnqueueRetry, Born, Names, Enqueuing, Named
      <4> QED BY <2>2, <3>1, <3>2, <4>1 DEF EnqueueFromItem, EnqueueRetry
    <3> QED BY <2>6, <3>1, <3>2 DEF Tick, ApplySchedule, TakeItem, CreateFromItem, MarkFromItem,
          MarkItem, ListRetryDue, PrepareRetry, SchedulerCrash
  <2>7. CASE UNCHANGED vars
    BY <2>1, <2>7 DEF vars, tvars
  <2> QED BY <2>3, <2>4, <2>5, <2>6, <2>7 DEF Next
<1>6. \A c \in Clients : Names(cpc[c], cgen[c])'
  <2> SUFFICES ASSUME NEW c \in Clients,
                      cpc'[c] \in {"enqueue", "resume", "resumeDomain", "resumeEnqueue"}
               PROVE  gst'[cgen'[c]] # "none"
    BY <1>4 DEF Names, Enqueuing, TypeClients, ClientPc
  <2>1. CASE cpc'[c] = cpc[c] /\ cgen'[c] = cgen[c]
    BY <1>1, <2>1 DEF Born, Names, Enqueuing, Named, NamedBy
  <2>2. ASSUME NEW d \in Clients, Arrive(d) \/ Serve(d) \/ Disconnect(d) PROVE gst'[cgen'[c]] # "none"
    <3>1. CASE d # c
      <4>1. cpc'[c] = cpc[c] /\ cgen'[c] = cgen[c]
        BY <2>2, <3>1 DEF Arrive, Serve, Generate, View, Recover, Check, Inherit, Create,
              EnqueueNew, Post, Act, Pause, Cancel, Resume, ResumeDomain, ResumeEnqueue, Delete,
              Recalculate, Disconnect, Request, Respond, cGoto, TypeClients
      <4> QED BY <2>1, <4>1
    <3>2. CASE Create(c)
      <4>1. cpc'[c] = "enqueue"
        BY <3>2 DEF Create, Respond, cGoto, TypeClients
      <4>2. PICK g \in NextGen : Insert(g, ccopy[c]) /\ cgen' = [cgen EXCEPT ![c] = g]
        BY <3>2, <4>1 DEF Create, Respond, cGoto, TypeClients
      <4> QED BY <4>2 DEF Insert, NextGen, TypeTables, TypeClients
    <3>3. CASE Resume(c) \/ ResumeDomain(c)
      <4>1. cgen'[c] = cgen[c] /\ gst[cgen[c]] # "none" /\ cgen[c] \in Gens
        BY <3>3 DEF Resume, ResumeDomain, Born, Names, Enqueuing, Named, NamedBy
      <4> QED BY <1>1, <4>1
    <3>4. ASSUME NEW g \in Gens, NEW op \in {"pause", "resume", "cancel"}, Act(c, op, g)
          PROVE  gst'[cgen'[c]] # "none"
      <4>1. gst[g] # "none" /\ cgen'[c] = g
        BY <3>4 DEF Act, Accepts, Request, TypeClients
      <4> QED BY <1>1, <4>1
    <3>5. CASE \/ Generate(c) \/ \E g \in Gens : View(c, g) \/ Delete(c, g)
               \/ Recover(c) \/ Check(c) \/ Inherit(c) \/ EnqueueNew(c) \/ Post(c) \/ Pause(c)
               \/ Cancel(c) \/ ResumeEnqueue(c) \/ Recalculate(c) \/ Disconnect(c)
      BY <3>5 DEF Generate, View, Delete, Recover, Check, Inherit, EnqueueNew, Post, Pause, Cancel,
            ResumeEnqueue, Recalculate, Disconnect, Request, Respond, cGoto, TypeClients
    <3> QED BY <2>2, <3>1, <3>2, <3>3, <3>4, <3>5 DEF Arrive, Serve
  <2>3. ASSUME NEW w \in Workers, Start(w) \/ Run(w) \/ Watch(w) \/ WorkerCrash(w)
        PROVE  gst'[cgen'[c]] # "none"
    BY <2>1, <2>3, WorkerFrame DEF cvars
  <2>4. CASE Tick \/ ApplySchedule \/ SchedulerCrash
    BY <2>1, <2>4, SchedulerFrame DEF cvars
  <2>5. CASE UNCHANGED vars
    BY <2>1, <2>5 DEF vars, cvars
  <2> QED BY <2>2, <2>3, <2>4, <2>5 DEF Next
<1>7. Names(spc, sgen)' /\ \A g \in sdue' : gst'[g] # "none"
  <2>1. CASE UNCHANGED svars
    BY <1>1, <2>1 DEF svars, Born, Names, Enqueuing, Named, TypeScheduler, SchedulerPc
  <2>2. CASE CreateFromItem
    BY <1>1, <2>2 DEF CreateFromItem, Insert, NextGen, TypeTables, TypeScheduler, Names, Enqueuing,
          Born
  <2>8. CASE MarkFromItem
    BY <1>1, <2>8 DEF MarkFromItem, Born, Named, TypeScheduler, Names, Enqueuing
  <2>3. ASSUME NEW g \in Gens, PrepareRetry(g) PROVE Names(spc, sgen)' /\ \A h \in sdue' : gst'[h] # "none"
    BY <1>1, <2>3 DEF PrepareRetry, Born, TypeScheduler, Names, Enqueuing
  <2>4. CASE ListRetryDue
    BY <1>1, <2>4 DEF ListRetryDue, Rows, Names, Enqueuing
  <2>5. CASE EnqueueFromItem \/ MarkItem \/ EnqueueRetry \/ SchedulerCrash
    <3>1. spc' \notin Enqueuing /\ sdue' \subseteq sdue
      BY <2>5 DEF Enqueuing, EnqueueFromItem, MarkItem, EnqueueRetry, SchedulerCrash
    <3> QED BY <1>1, <3>1 DEF Born, TypeScheduler, Names
  <2>6. ASSUME NEW q \in Items, TakeItem(q) PROVE Names(spc, sgen)' /\ \A h \in sdue' : gst'[h] # "none"
    <3>1. spc' \in {spc, "create"} /\ spc = "idle" /\ UNCHANGED sdue
      BY <2>6 DEF TakeItem
    <3> QED BY <1>1, <3>1 DEF Born, TypeScheduler, Names, Enqueuing
  <2>7. CASE ApplySchedule
    BY <2>1, <2>7 DEF ApplySchedule
  <2> QED BY <2>1, <2>2, <2>3, <2>4, <2>5, <2>6, <2>7, <2>8, WorkerFrame, ClientFrame
        DEF Next, Tick, vars
<1> QED BY <1>2, <1>3, <1>5, <1>6, <1>7 DEF Born

-----------------------------------------------------------------------------
\* No two deliveries of one generation are under way.
OneDelivery == \A v, w \in Workers : v # w /\ Busy(v) /\ Busy(w) => Gen(v) # Gen(w)

\* A stale transition is recovered only when nobody works on the generation any more.
RecoversTheDead ==
    \A c \in Clients, w \in Workers : Recover(c) /\ Busy(w) => Gen(w) # cgen[c]

\* The steps of the loop, in which the row holds what the memory holds but for the
\* artifact not yet saved, or nothing (a wipe, a deletion)
Working == {"load", "top", "before", "exec", "saveR", "saveW", "after", "progress"}
Unsaved(pc, i) == IF pc \in {"saveR", "saveW"} THEN {i} ELSE {}
RunAt(pc, i, memory, read, copy, status, saved) ==
    /\ pc \in {"claim"} \cup Working => status # "success"
    /\ pc \in Working \cup {"success", "fail"} =>
           saved = {} \/ memory \ Unsaved(pc, i) \subseteq saved
    /\ pc = "saveW" => read # "success"
    /\ pc = "llmW" /\ read = "success" => copy = Steps
    /\ pc = "successW" => copy = Steps
    /\ pc = "failW" => memory \subseteq copy
\* The run of worker w, seen with the row of its generation
RunOf(w) == RunAt(wpc[w], wi[w], warts[w], wread[w], wcopy[w], gst[Gen(w)], arts[Gen(w)])
\* Complete where it says success, and every run on its way to say so
Whole == SuccessIsComplete /\ \A w \in Workers : RunOf(w)

\* At the end of the loop the memory has the artifact of every step.
LEMMA AllSteps ==
  ASSUME Inv, NEW w \in Workers, wpc[w] \in {"success", "successW", "finish"}
  PROVE  warts[w] = Steps
<1>1. NSteps \in warts[w] /\ Closed(warts[w]) /\ warts[w] \subseteq Steps
  BY DEF Inv, Loop, LoopAt, Artifacts, Sound, TypeOK, TypeWorkers
<1>2. \A j \in 1..NSteps : j \in warts[w]
  BY <1>1 DEF Closed
<1> QED BY <1>1, <1>2 DEF Steps

\* A worker writes "success" only with all the artifacts.
LEMMA WorkersKeepSuccess ==
  ASSUME Inv, Born, Whole, NEW w \in Workers,
         Start(w) \/ Run(w) \/ Watch(w) \/ WorkerCrash(w)
  PROVE  SuccessIsComplete'
<1> USE DEF Inv, TypeOK, SuccessIsComplete
<1> DEFINE Put(s, a) == UpdateFull(Gen(w), s, a)
           Set(s) == SetStatus(Gen(w), s)
<1>0. SuccessIsComplete
  BY DEF Whole
<1>1. ASSUME NEW s, NEW a, Put(s, a), s = "success" => a = Steps PROVE SuccessIsComplete'
  BY <1>0, <1>1 DEF UpdateFull, SetStatus, TypeTables
<1>2. ASSUME NEW s, Set(s), s # "success", UNCHANGED arts PROVE SuccessIsComplete'
  BY <1>0, <1>2 DEF SetStatus, TypeTables
<1>3. CASE Settle(w) \/ StopWrite(w)
  <2>1. Put(Final(wread[w]), wcopy[w])
    BY <1>3 DEF Settle, StopWrite
  <2> QED BY <1>1, <2>1, FinalIsStatus
<1>4. CASE Claim(w)
  BY <1>1, <1>4 DEF Claim
<1>5. CASE SetupFails(w)
  BY <1>1, <1>5 DEF SetupFails
<1>6. CASE Stop(w)
  <2>1. UNCHANGED <<gst, arts>> \/ (Set(Final(wread[w])) /\ UNCHANGED arts)
    BY <1>6 DEF Stop
  <2> QED BY <1>0, <1>2, <2>1, FinalIsStatus
<1>7. CASE HaltWrite(w)
  <2>1. UNCHANGED <<gst, arts>> \/ Put(Final(wread[w]), wcopy[w])
    BY <1>7 DEF HaltWrite
  <2> QED BY <1>0, <1>1, <2>1, FinalIsStatus
<1>8. CASE SaveWrite(w)
  <2>1. UNCHANGED <<gst, arts>> \/ Put(wread[w], warts[w])
    BY <1>8 DEF SaveWrite
  <2>2. wread[w] # "success"
    BY <1>8 DEF SaveWrite, Whole, RunOf, RunAt
  <2> QED BY <1>0, <1>1, <2>1, <2>2
<1>9. CASE Progress(w)
  <2>1. UNCHANGED <<gst, arts>> \/ (Set("processing") /\ UNCHANGED arts)
    BY <1>9 DEF Progress
  <2> QED BY <1>0, <1>2, <2>1
<1>10. CASE SuccessWrite(w)
  <2>1. Put("success", wcopy[w]) /\ wcopy[w] = Steps
    BY <1>10 DEF SuccessWrite, Whole, RunOf, RunAt
  <2> QED BY <1>1, <2>1
<1>11. CASE FailWrite(w)
  BY <1>1, <1>11 DEF FailWrite
<1>12. CASE LlmWrite(w)
  <2>1. Put(wread[w], wcopy[w]) /\ (wread[w] = "success" => wcopy[w] = Steps)
    BY <1>12 DEF LlmWrite, Whole, RunOf, RunAt
  <2> QED BY <1>1, <2>1
<1>13. CASE \/ Start(w) \/ Watch(w) \/ Load(w) \/ Top(w) \/ Stopped(w) \/ Before(w)
            \/ Halt(w) \/ Execute(w) \/ ExecuteCanceled(w) \/ ExecuteFails(w)
            \/ PublishFailsHalfway(w) \/ SaveRead(w) \/ After(w)
  BY <1>0, <1>13 DEF Start, Watch, Load, Top, Stopped, Before, Halt, Execute, ExecuteCanceled,
        ExecuteFails, PublishFailsHalfway, SaveRead, After, ShouldContinue, gvars
<1>14. CASE \/ Canceled(w) \/ Success(w) \/ Finish(w) \/ Fail(w) \/ FailRetry(w)
            \/ LlmRead(w) \/ Return(w) \/ WorkerCrash(w)
  BY <1>0, <1>14 DEF Canceled, Success, Finish, Fail, FailRetry, LlmRead, Return, WorkerCrash,
        gvars
<1> QED BY <1>3, <1>4, <1>5, <1>6, <1>7, <1>8, <1>9, <1>10, <1>11, <1>12, <1>13, <1>14
        DEF Run

\* What the worker's own step makes of its run
LEMMA OwnStepKeepsRun ==
  ASSUME Inv, Born, Whole, NEW w \in Workers,
         Start(w) \/ Run(w) \/ Watch(w) \/ WorkerCrash(w)
  PROVE  RunOf(w)'
<1> USE DEF Inv, TypeOK, RunAt, Working, Unsaved
<1> DEFINE g == Gen(w)
           pc == wpc'[w]
           There == RunAt(wpc'[w], wi'[w], warts'[w], wread'[w], wcopy'[w], gst'[g], arts'[g])
<1>1. CASE Start(w)
  <2>1. PICK t \in TaskIds :
           /\ Gen(w)' = tgen[t]
           /\ UNCHANGED <<gst, arts>>
           /\ warts'[w] = arts[tgen[t]]
           /\ \/ wpc'[w] \in {"settle", "return"}
              \/ wpc'[w] = "claim" /\ gst[tgen[t]] \in {"pending", "error"}
              \/ wpc'[w] = "load" /\ gst[tgen[t]] = "processing"
    BY <1>1, Delivered
  <2> QED BY <2>1 DEF RunOf
<1>2. CASE wpc'[w] = "idle"
  BY <1>2 DEF RunOf
<1> SUFFICES ASSUME Run(w) \/ Watch(w) \/ WorkerCrash(w), wpc'[w] # "idle" PROVE RunOf(w)'
  BY <1>1, <1>2
<1>3. UNCHANGED <<tgen, wtask>>
  BY TasksOfOthersStay
<1>4. SUFFICES There
  BY <1>3 DEF RunOf, Gen
<1>5. wpc[w] # "idle"
  BY RunsAreBusy DEF Busy
<1>6. g \in Gens /\ (g \notin Rows => arts[g] = {}) /\ arts[g] \in SUBSET Steps
  BY <1>5, KeptType DEF Born, TypeTables
<1>7. RunAt(wpc[w], wi[w], warts[w], wread[w], wcopy[w], gst[g], arts[g])
  BY DEF Whole, RunOf
<1>8. CASE Claim(w)
  <2>1. pc = "load" /\ gst'[g] # "success" /\ arts'[g] = {}
    BY <1>6, <1>7, <1>8 DEF Claim, UpdateFull, SetStatus, TypeTables, wGoto, TypeWorkers
  <2> QED BY <2>1
<1>9. CASE Load(w)
  <2>0. UNCHANGED <<gst, arts>> /\ wpc[w] = "load"
    BY <1>9 DEF Load, gvars
  <2>1. CASE pc = "canceled"
    BY <2>1
  <2>2. CASE pc = "top" /\ warts'[w] = warts[w] \cup arts[g]
    BY <1>7, <2>0, <2>2
  <2>3. CASE pc = "fail" /\ g \notin Rows
    BY <1>6, <2>0, <2>3
  <2> QED BY <1>9, <2>1, <2>2, <2>3 DEF Load, wGoto, TypeWorkers
<1>10. CASE Top(w)
  <2>0. UNCHANGED <<gst, arts, warts>> /\ wpc[w] = "top"
    BY <1>10 DEF Top, gvars
  <2>1. pc \in {"fail", "stop", "top", "success", "before"}
    BY <1>10 DEF Top, NextStepPc, wGoto, TypeWorkers
  <2> QED BY <1>7, <2>0, <2>1
<1>11. CASE Before(w) \/ After(w)
  <2>0. UNCHANGED <<gst, arts, warts, wi>> /\ wpc[w] \in {"before", "after"}
    BY <1>11 DEF Before, After, ShouldContinue, gvars
  <2>1. pc \in {"canceled", "halt", "exec", "progress", "fail"}
    BY <1>11 DEF Before, After, ShouldContinue, wGoto, TypeWorkers
  <2> QED BY <1>7, <2>0, <2>1
<1>12. CASE Execute(w)
  <2>0. UNCHANGED <<gst, arts, wi>> /\ wpc[w] = "exec" /\ pc = "saveR"
    BY <1>12 DEF Execute, gvars, wGoto, TypeWorkers
  <2>1. warts'[w] = warts[w] \cup {wi[w]}
    BY <1>12 DEF Execute, TypeWorkers
  <2> QED BY <1>7, <2>0, <2>1
<1>13. CASE ExecuteFails(w) \/ PublishFailsHalfway(w)
  <2>0. UNCHANGED <<gst, arts, warts>> /\ wpc[w] = "exec" /\ pc = "fail"
    BY <1>13 DEF ExecuteFails, PublishFailsHalfway, gvars, wGoto, TypeWorkers
  <2> QED BY <1>7, <2>0
<1>14. CASE SaveRead(w)
  <2>0. UNCHANGED <<gst, arts, warts, wi>> /\ wpc[w] = "saveR"
    BY <1>14 DEF SaveRead, gvars
  <2>1. CASE pc = "canceled"
    BY <2>1
  <2>2. CASE pc = "saveW" /\ wread'[w] = gst[g]
    BY <1>7, <2>0, <2>2
  <2>3. CASE pc = "fail" /\ g \notin Rows
    BY <1>6, <2>0, <2>3
  <2> QED BY <1>14, <2>1, <2>2, <2>3 DEF SaveRead, wGoto, TypeWorkers
<1>15. CASE SaveWrite(w)
  <2>0. UNCHANGED warts /\ wpc[w] = "saveW"
    BY <1>15 DEF SaveWrite
  <2>1. CASE pc = "canceled"
    BY <2>1
  <2>2. CASE pc = "after" /\ UpdateFull(g, wread[w], warts[w])
    <3>1. arts'[g] = {} \/ arts'[g] = warts[w]
      BY <1>6, <2>2 DEF UpdateFull, TypeTables
    <3>2. gst'[g] # "success"
      BY <1>6, <1>7, <2>0, <2>2 DEF UpdateFull, SetStatus, TypeTables
    <3> QED BY <2>0, <2>2, <3>1, <3>2
  <2> QED BY <1>15, <2>1, <2>2 DEF SaveWrite, wGoto, TypeWorkers
<1>16. CASE Progress(w)
  <2>0. UNCHANGED <<arts, warts>> /\ wpc[w] = "progress"
    BY <1>16 DEF Progress
  <2>1. pc \in {"top", "success"}
    BY <1>16 DEF Progress, NextStepPc, wGoto, TypeWorkers
  <2>2. gst'[g] # "success"
    BY <1>6, <1>7, <1>16 DEF Progress, SetStatus, TypeTables
  <2> QED BY <1>7, <2>0, <2>1, <2>2
<1>17. CASE Success(w)
  <2>0. pc = "successW" /\ wcopy'[w] = Kept(w) /\ wpc[w] = "success"
    BY <1>17 DEF Success, wGoto, TypeWorkers
  <2>1. Kept(w) = Steps
    BY <1>6, <1>7, <2>0, AllSteps DEF Kept
  <2> QED BY <2>0, <2>1
<1>18. CASE Fail(w)
  <2>0. UNCHANGED warts /\ wpc[w] = "fail"
    BY <1>18 DEF Fail
  <2>1. CASE pc = "llmR"
    BY <2>1
  <2>2. CASE pc = "failW" /\ wcopy'[w] = Kept(w)
    BY <1>7, <2>0, <2>2 DEF Kept
  <2> QED BY <1>18, <2>1, <2>2 DEF Fail, wGoto, TypeWorkers
<1>19. CASE LlmRead(w)
  <2>0. wpc[w] = "llmR"
    BY <1>19 DEF LlmRead
  <2>1. CASE pc = "return"
    BY <2>1
  <2>2. CASE pc = "llmW" /\ wread'[w] = gst[g] /\ wcopy'[w] = arts[g]
    BY <1>6, <2>2 DEF Whole, SuccessIsComplete
  <2> QED BY <1>19, <2>1, <2>2 DEF LlmRead, wGoto, TypeWorkers
<1>20. CASE Watch(w)
  BY <1>7, <1>20 DEF Watch, gvars
<1>21. CASE \/ Settle(w) \/ SetupFails(w) \/ Stop(w) \/ Stopped(w) \/ Halt(w) \/ HaltWrite(w)
            \/ ExecuteCanceled(w) \/ Canceled(w) \/ StopWrite(w) \/ SuccessWrite(w)
            \/ Finish(w) \/ FailWrite(w) \/ FailRetry(w) \/ LlmWrite(w)
  <2>1. pc \in {"return", "stopped", "stopW", "haltW", "llmR", "canceled", "finish", "failR"}
    BY <1>21 DEF Settle, SetupFails, Stop, Stopped, Halt, HaltWrite, ExecuteCanceled, Canceled,
          StopWrite, SuccessWrite, Finish, FailWrite, FailRetry, LlmWrite, wGoto, TypeWorkers
  <2> QED BY <2>1
<1>22. CASE Return(w) \/ WorkerCrash(w)
  BY <1>22 DEF Return, WorkerCrash, Reset, wGoto, TypeWorkers
<1> QED BY <1>8, <1>9, <1>10, <1>11, <1>12, <1>13, <1>14, <1>15, <1>16, <1>17, <1>18, <1>19,
        <1>20, <1>21, <1>22 DEF Run

\* What a run counts on is changed by nobody else: not by another worker, which runs
\* another generation, nor by a recovery, and the rest of the handlers only empties rows.
LEMMA WholeKept ==
  ASSUME Inv, Born, Whole, OneDelivery, [Next]_vars, [RecoversTheDead]_vars
  PROVE  Whole'
<1> USE DEF Inv, TypeOK
<1>0. ASSUME NEW w \in Workers, wpc'[w] = "idle" PROVE RunOf(w)'
  BY <1>0 DEF RunOf, RunAt, Working
<1>1. ASSUME NEW w \in Workers, Start(w) \/ Run(w) \/ Watch(w) \/ WorkerCrash(w)
      PROVE  Whole'
  <2>1. SuccessIsComplete' /\ RunOf(w)'
    BY <1>1, WorkersKeepSuccess, OwnStepKeepsRun
  <2>2. ASSUME NEW v \in Workers \ {w}, wpc'[v] # "idle" PROVE RunOf(v)'
    <3>1. UNCHANGED <<wpc[v], warts[v], wi[v], wread[v], wcopy[v]>>
      BY <1>1, OthersStandStill
    <3>2. Busy(v) /\ Busy(v)'
      BY <2>2, <3>1 DEF Busy
    <3>3. Gen(v)' = Gen(v)
      BY <3>2, RunsKeepTheirTask
    <3>4. PICK g \in Gens : g = Gen(v)
      BY <3>2, KeptType DEF Busy
    <3>5. gst'[g] = gst[g] /\ arts'[g] = arts[g]
      BY <1>1, <3>2, <3>4, WorkerWrote DEF WorkerWrites, OneDelivery, Born
    <3>6. RunAt(wpc[v], wi[v], warts[v], wread[v], wcopy[v], gst[g], arts[g])
      BY <3>4 DEF Whole, RunOf
    <3> QED BY <3>1, <3>3, <3>4, <3>5, <3>6 DEF RunOf
  <2> QED BY <2>1, <2>2, <1>0 DEF Whole
<1>2. ASSUME \/ \E c \in Clients : Arrive(c) \/ Serve(c) \/ Disconnect(c)
             \/ Tick \/ ApplySchedule \/ SchedulerCrash
      PROVE  Whole'
  <2>1. SuccessIsComplete'
    <3> SUFFICES ASSUME NEW h \in Gens, gst'[h] = "success" PROVE arts'[h] = Steps
      BY DEF SuccessIsComplete
    <3>1. UNCHANGED <<gst[h], arts[h]>>
      BY <1>2, OthersWrote DEF OthersWrite
    <3> QED BY <3>1 DEF Whole, SuccessIsComplete
  <2>2. ASSUME NEW w \in Workers, wpc'[w] # "idle" PROVE RunOf(w)'
    <3>1. UNCHANGED wvars
      BY <1>2, ClientFrame, SchedulerFrame
    <3>2. Busy(w) /\ Busy(w)'
      BY <2>2, <3>1 DEF Busy, wvars
    <3>3. PICK g \in Gens : g = Gen(w) /\ gst[g] # "none"
      BY <3>2, KeptType DEF Busy, Born, Owned, Gen
    <3>4. Gen(w)' = g
      BY <3>2, <3>3, RunsKeepTheirTask
    <3>5. \/ gst'[g] = gst[g] /\ arts'[g] = arts[g]
          \/ gst'[g] # "success" /\ arts'[g] \in {arts[g], {}}
      <4>1. CASE UNCHANGED vars
        BY <4>1 DEF vars, gvars
      <4>2. CASE RecoversTheDead
        <5>1. \A c \in Clients : ~ (Recover(c) /\ g = cgen[c])
          BY <3>2, <3>3, <4>2 DEF RecoversTheDead
        <5>2. OthersWrite(g)
          BY <1>2, OthersWrote
        <5> QED BY <3>3, <5>1, <5>2 DEF OthersWrite
      <4> QED BY <4>1, <4>2
    <3>6. RunAt(wpc[w], wi[w], warts[w], wread[w], wcopy[w], gst[g], arts[g])
      BY <3>3 DEF Whole, RunOf
    <3>7. RunAt(wpc[w], wi[w], warts[w], wread[w], wcopy[w], gst'[g], arts'[g])
      BY <3>5, <3>6 DEF RunAt
    <3> QED BY <3>1, <3>4, <3>7 DEF RunOf, wvars
  <2> QED BY <2>1, <2>2, <1>0 DEF Whole
<1>3. CASE UNCHANGED vars
  BY <1>3 DEF vars, gvars, tvars, wvars, Whole, SuccessIsComplete, RunOf, Gen
<1> QED BY <1>1, <1>2, <1>3 DEF Next

\* Nothing is there at first.
LEMMA WholeInitially == Init => Born /\ Whole
<1> SUFFICES ASSUME Init PROVE Born /\ Whole
  OBVIOUS
<1>1. Born
  BY DEF Init, Born, Names, Enqueuing, Readable
<1>2. SuccessIsComplete
  BY DEF Init, SuccessIsComplete
<1>3. \A w \in Workers : RunOf(w)
  BY DEF Init, RunOf, RunAt, Working
<1> QED BY <1>1, <1>2, <1>3 DEF Whole

\* Every task, request and retry is about a generation that was inserted.
THEOREM BornAlways == Spec => []Born
<1>1. Init => Born
  BY WholeInitially
<1>2. Inv /\ Born /\ [Next]_vars => Born'
  BY BornKept
<1> QED BY <1>1, <1>2, InvAlways, PTL DEF Spec

\* While deliveries of one generation do not overlap and only the dead are recovered,
\* the row of a run holds what the run has in memory.
THEOREM WholeAlways ==
  Spec /\ []OneDelivery /\ [][RecoversTheDead]_vars => []Whole
<1>1. Init => Whole
  BY WholeInitially
<1>2. Inv /\ Born /\ Whole /\ OneDelivery /\ [Next]_vars /\ [RecoversTheDead]_vars => Whole'
  BY WholeKept
<1> QED BY <1>1, <1>2, InvAlways, BornAlways, PTL DEF Spec

\* Under the same two conditions a generation that succeeded has the artifact of every
\* step, although workers write the whole row back from copies, requests change its
\* status meanwhile, and it may be deleted under the run.
THEOREM SuccessStaysComplete ==
  Spec /\ []OneDelivery /\ [][RecoversTheDead]_vars => []SuccessIsComplete
<1>1. Whole => SuccessIsComplete
  BY DEF Whole
<1> QED BY <1>1, WholeAlways, PTL

\* And a run that fails leaves in the table what it had in memory.
THEOREM FailuresKeepWork ==
  Spec /\ []OneDelivery /\ [][RecoversTheDead]_vars => FailedRunKeepsWork
<1> DEFINE Keeps == \A w \in Workers :
             FailWrite(w) /\ Gen(w) \in Rows => warts[w] \subseteq arts'[Gen(w)]
<1>1. Inv /\ Whole => Keeps
  <2> SUFFICES ASSUME Inv, Whole, NEW w \in Workers, FailWrite(w), Gen(w) \in Rows
               PROVE  warts[w] \subseteq arts'[Gen(w)]
    OBVIOUS
  <2>1. warts[w] \subseteq wcopy[w]
    BY DEF FailWrite, Whole, RunOf, RunAt
  <2>2. arts'[Gen(w)] = wcopy[w]
    BY DEF FailWrite, UpdateFull, Rows, Inv, TypeOK, TypeTables
  <2> QED BY <2>1, <2>2
<1>2. Inv /\ Whole => [Keeps]_vars
  BY <1>1
<1>3. Spec /\ []OneDelivery /\ [][RecoversTheDead]_vars => [][Keeps]_vars
  BY <1>2, InvAlways, WholeAlways, PTL
<1> QED BY <1>3 DEF FailedRunKeepsWork

-----------------------------------------------------------------------------
\* A row is made pending and its task enqueued in two steps of one process; a worker
\* that has seen it pending claims it in a third.  The moments in which this chain
\* can be cut: an enqueue that fails, a scheduler or a request that ends in between, and
\* a worker that dies before its claim when asynq has no redelivery left.
FailsToEnqueue ==
    /\ EnqueueFromItem \/ EnqueueRetry \/ \E c \in Clients : EnqueueNew(c) \/ ResumeEnqueue(c)
    /\ UNCHANGED tvars
Orphans ==
    \/ FailsToEnqueue
    \/ SchedulerCrash /\ spc \in {"domain", "enqueue", "retryEnqueue"}
    \/ \E c \in Clients :
           Disconnect(c) /\ cpc[c] \in {"enqueue", "resumeDomain", "resumeEnqueue"}
    \/ \E w \in Workers : WorkerCrash(w) /\ wpc[w] = "claim" /\ tleft[wtask[w]] = 0

\* A task of g waits in Redis; g is promised one; a worker that saw g pending claims it
Queued(g) == \E t \in TaskIds : tst[t] = "queued" /\ tgen[t] = g
Promised(g) == WillEnqueue(g) \/ Queued(g)
Claiming(g) == \E w \in Workers : wpc[w] = "claim" /\ Gen(w) = g
\* A pending row is awaited, and so is one that a worker will make pending again.
Awaited ==
    /\ \A g \in Gens : gst[g] = "pending" => Promised(g) \/ Claiming(g)
    /\ \A w \in Workers : wpc[w] \in {"saveW", "llmW"} /\ wread[w] = "pending" => Promised(Gen(w))

\* A step of one request leaves the others where they are.
LEMMA OtherRequestsStay ==
  ASSUME Inv, NEW d \in Clients, Arrive(d) \/ Serve(d) \/ Disconnect(d), NEW c \in Clients \ {d}
  PROVE  cpc'[c] = cpc[c] /\ cgen'[c] = cgen[c]
BY DEF Arrive, Serve, Generate, View, Recover, Check, Inherit, Create, EnqueueNew, Post, Act,
      Pause, Cancel, Resume, ResumeDomain, ResumeEnqueue, Delete, Recalculate, Disconnect, Request, Respond, cGoto,
      Inv, TypeOK, TypeClients

\* A task that was enqueued waits.
LEMMA EnqueuedIsQueued ==
  ASSUME Inv, NEW g, NEW f, Enqueue(g, f) PROVE Queued(g)'
<1>1. PICK t \in TaskIds : tst' = [tst EXCEPT ![t] = "queued"] /\ tgen' = [tgen EXCEPT ![t] = g]
  BY DEF Enqueue
<1>2. tst'[t] = "queued" /\ tgen'[t] = g
  BY <1>1 DEF Inv, TypeOK, TypeTasks
<1> QED BY <1>2 DEF Queued

\* A promise is kept until a worker takes the task.
LEMMA PromiseKept ==
  ASSUME Inv, [Next]_vars, [~Orphans]_vars, NEW g \in Gens, Promised(g)
  PROVE  Promised(g)' \/ \E w \in Workers : Start(w) /\ Gen(w)' = g
<1> DEFINE Goal == Promised(g)' \/ \E w \in Workers : Start(w) /\ Gen(w)' = g
<1> USE DEF Inv, TypeOK
<1>1. CASE UNCHANGED vars
  BY <1>1 DEF vars, cvars, svars, tvars, Promised, WillEnqueue, Queued
<1> SUFFICES ASSUME Next, ~Orphans PROVE Goal
  BY <1>1
<1>2. ASSUME NEW t \in TaskIds, tst[t] = "queued", tgen[t] = g PROVE Goal
  <2>1. CASE tst'[t] = tst[t] /\ tgen'[t] = tgen[t]
    BY <1>2, <2>1 DEF Promised, Queued
  <2>2. ASSUME NEW w \in Workers, Start(w) PROVE Goal
    <3>1. PICK u \in TaskIds : /\ Gen(w)' = tgen[u] /\ UNCHANGED tgen
                              /\ \A x \in TaskIds : x # u => tst'[x] = tst[x]
      BY <2>2, Delivered
    <3> QED BY <1>2, <2>1, <2>2, <3>1
  <2>3. ASSUME NEW w \in Workers, Run(w) \/ Watch(w) \/ WorkerCrash(w) PROVE Goal
    <3>1. t # wtask[w]
      BY <1>2, <2>3, RunsAreBusy DEF Busy, Owned
    <3> QED BY <2>1, <2>3, <3>1, TasksOfOthersStay
  <2>4. CASE \/ \E c \in Clients : Arrive(c) \/ Serve(c) \/ Disconnect(c)
             \/ Tick \/ ApplySchedule \/ SchedulerCrash
    BY <1>2, <2>1, <2>4, NewTasksTakeFreePlaces
  <2> QED BY <2>2, <2>3, <2>4 DEF Next
<1>3. ASSUME NEW c \in Clients, cpc[c] \in {"enqueue", "resumeDomain", "resumeEnqueue"},
             cgen[c] = g
      PROVE  Goal
  <2>1. CASE cpc'[c] = cpc[c] /\ cgen'[c] = cgen[c]
    BY <1>3, <2>1 DEF Promised, WillEnqueue
  <2>2. ASSUME NEW d \in Clients, Arrive(d) \/ Serve(d) \/ Disconnect(d) PROVE Goal
    <3>1. CASE d # c
      BY <2>1, <2>2, <3>1, OtherRequestsStay
    <3>2. CASE d = c
      <4>1. EnqueueNew(c) \/ ResumeDomain(c) \/ ResumeEnqueue(c) \/ Disconnect(c)
        BY <1>3, <2>2, <3>2 DEF Arrive, Serve, Generate, View, Recover, Check, Inherit, Create,
              Post, Act, Pause, Cancel, Resume, Delete, Recalculate, Request
      <4>2. CASE EnqueueNew(c)
        <5>1. Enqueue(g, cforce[c])
          BY <1>3, <4>2 DEF EnqueueNew, Orphans, FailsToEnqueue
        <5> QED BY <5>1, EnqueuedIsQueued DEF Promised
      <4>3. CASE ResumeEnqueue(c)
        <5>1. Enqueue(g, 0)
          BY <1>3, <4>3 DEF ResumeEnqueue, Orphans, FailsToEnqueue
        <5> QED BY <5>1, EnqueuedIsQueued DEF Promised
      <4>4. CASE Disconnect(c)
        BY <1>3, <4>4 DEF Orphans
      <4>5. CASE ResumeDomain(c)
        <5>1. cpc'[c] = "resumeEnqueue" /\ cgen'[c] = g
          BY <1>3, <4>5 DEF ResumeDomain, cGoto, TypeClients
        <5> QED BY <5>1 DEF Promised, WillEnqueue
      <4> QED BY <4>1, <4>2, <4>3, <4>4, <4>5
    <3> QED BY <3>1, <3>2
  <2>3. ASSUME NEW w \in Workers, Start(w) \/ Run(w) \/ Watch(w) \/ WorkerCrash(w) PROVE Goal
    BY <2>1, <2>3, WorkerFrame DEF cvars
  <2>4. CASE Tick \/ ApplySchedule \/ SchedulerCrash
    BY <2>1, <2>4, SchedulerFrame DEF cvars
  <2> QED BY <2>2, <2>3, <2>4 DEF Next
<1>4. ASSUME spc \in {"domain", "enqueue", "retryEnqueue"}, sgen = g PROVE Goal
  <2>1. CASE spc' = spc /\ sgen' = sgen
    BY <1>4, <2>1 DEF Promised, WillEnqueue
  <2>2. CASE \/ \E c \in Clients : Arrive(c) \/ Serve(c) \/ Disconnect(c)
             \/ \E w \in Workers : Start(w) \/ Run(w) \/ Watch(w) \/ WorkerCrash(w)
    BY <2>1, <2>2, WorkerFrame, ClientFrame DEF svars
  <2>3. CASE Tick \/ ApplySchedule \/ SchedulerCrash
    <3>1. MarkFromItem \/ EnqueueFromItem \/ EnqueueRetry \/ SchedulerCrash
      BY <1>4, <2>3 DEF Tick, ApplySchedule, TakeItem, CreateFromItem, MarkItem, ListRetryDue,
            PrepareRetry
    <3>2. CASE EnqueueFromItem
      <4>1. Enqueue(g, 0)
        BY <1>4, <3>2 DEF EnqueueFromItem, Orphans, FailsToEnqueue
      <4> QED BY <4>1, EnqueuedIsQueued DEF Promised
    <3>3. CASE EnqueueRetry
      <4>1. Enqueue(g, 0)
        BY <1>4, <3>3 DEF EnqueueRetry, Orphans, FailsToEnqueue
      <4> QED BY <4>1, EnqueuedIsQueued DEF Promised
    <3>4. CASE SchedulerCrash
      BY <1>4, <3>4 DEF Orphans
    <3>5. CASE MarkFromItem
      BY <1>4, <3>5 DEF MarkFromItem, Promised, WillEnqueue
    <3> QED BY <3>1, <3>2, <3>3, <3>4, <3>5
  <2> QED BY <2>2, <2>3 DEF Next
<1> QED BY <1>2, <1>3, <1>4 DEF Promised, WillEnqueue, Queued

\* A worker makes a row pending only when it writes back what it read, ...
LEMMA WorkersRestorePending ==
  ASSUME Inv, NEW w \in Workers, Start(w) \/ Run(w) \/ Watch(w) \/ WorkerCrash(w),
         NEW h \in Gens, gst'[h] = "pending", gst[h] # "pending"
  PROVE  (SaveWrite(w) \/ LlmWrite(w)) /\ wread[w] = "pending" /\ h = Gen(w)
<1> USE DEF Inv, TypeOK
<1> DEFINE Set(s) == SetStatus(Gen(w), s)
<1>1. ASSUME NEW s, Set(s) PROVE s = "pending" /\ h = Gen(w)
  BY <1>1 DEF SetStatus, TypeTables
<1>2. CASE SaveWrite(w)
  BY <1>1, <1>2 DEF SaveWrite, UpdateFull
<1>3. CASE LlmWrite(w)
  BY <1>1, <1>3 DEF LlmWrite, UpdateFull
<1>4. CASE Settle(w) \/ StopWrite(w) \/ Stop(w) \/ HaltWrite(w)
  <2>1. Set(Final(wread[w]))
    BY <1>4 DEF Settle, StopWrite, Stop, HaltWrite, UpdateFull
  <2> QED BY <1>1, <2>1 DEF Final
<1>5. CASE Claim(w) \/ SetupFails(w) \/ Progress(w) \/ SuccessWrite(w) \/ FailWrite(w)
  <2>1. PICK s \in {"processing", "error", "success"} : Set(s)
    BY <1>5 DEF Claim, SetupFails, Progress, SuccessWrite, FailWrite, UpdateFull
  <2> QED BY <1>1, <2>1
<1>6. CASE \/ Start(w) \/ Watch(w) \/ Load(w) \/ Top(w) \/ Stopped(w) \/ Before(w)
           \/ Halt(w) \/ Execute(w) \/ ExecuteCanceled(w) \/ ExecuteFails(w)
           \/ PublishFailsHalfway(w) \/ SaveRead(w) \/ After(w)
  BY <1>6 DEF Start, Watch, Load, Top, Stopped, Before, Halt, Execute, ExecuteCanceled,
        ExecuteFails, PublishFailsHalfway, SaveRead, After, ShouldContinue, gvars
<1>7. CASE \/ Canceled(w) \/ Success(w) \/ Finish(w) \/ Fail(w) \/ FailRetry(w)
           \/ LlmRead(w) \/ Return(w) \/ WorkerCrash(w)
  BY <1>7 DEF Canceled, Success, Finish, Fail, FailRetry, LlmRead, Return, WorkerCrash, gvars
<1> QED BY <1>2, <1>3, <1>4, <1>5, <1>6, <1>7 DEF Run

\* ... and the others only when they are about to enqueue its task.
LEMMA OthersPromise ==
  ASSUME Inv, NEW h \in Gens, gst'[h] = "pending", gst[h] # "pending",
         \/ \E c \in Clients : Arrive(c) \/ Serve(c) \/ Disconnect(c)
         \/ Tick \/ ApplySchedule \/ SchedulerCrash
  PROVE  WillEnqueue(h)'
<1> USE DEF Inv, TypeOK
<1>0. ASSUME NEW g, NEW s, SetStatus(g, s) PROVE s = "pending" /\ h = g
  BY <1>0 DEF SetStatus, TypeTables
<1>1. ASSUME NEW c \in Clients, Arrive(c) \/ Serve(c) \/ Disconnect(c) PROVE WillEnqueue(h)'
  <2>1. CASE Create(c)
    <3>1. PICK g \in NextGen :
            /\ Insert(g, ccopy[c])
            /\ cgen' = [cgen EXCEPT ![c] = g] /\ cGoto(c, "enqueue")
      BY <1>1, <2>1 DEF Create, gvars
    <3>2. h = g
      BY <3>1 DEF Insert, NextGen, TypeTables
    <3>3. cpc'[c] = "enqueue" /\ cgen'[c] = h
      BY <3>1, <3>2 DEF cGoto, TypeClients
    <3> QED BY <3>3 DEF WillEnqueue
  <2>2. CASE Resume(c)
    <3>1. h = cgen[c] /\ cpc'[c] = "resumeDomain" /\ cgen'[c] = cgen[c]
      BY <1>0, <2>2 DEF Resume, cGoto, TypeClients
    <3> QED BY <3>1 DEF WillEnqueue
  <2>3. CASE \/ Generate(c) \/ \E g \in Gens : View(c, g)
             \/ \E g \in Gens, op \in {"pause", "resume", "cancel"} : Act(c, op, g)
             \/ Check(c) \/ Inherit(c) \/ Post(c) \/ ResumeDomain(c) \/ Recalculate(c)
             \/ Disconnect(c)
    BY <2>3 DEF Generate, View, Act, Request, Check, Inherit, Post, ResumeDomain, Recalculate,
          Disconnect, gvars
  <2>4. CASE Recover(c)
    <3>1. Final(cread[c]) # "pending"
      BY DEF Final
    <3> QED BY <1>0, <2>4, <3>1 DEF Recover, UpdateFull
  <2>5. CASE EnqueueNew(c) \/ Pause(c) \/ Cancel(c) \/ ResumeEnqueue(c)
    <3>1. PICK s \in {"error", "paused", "pause_requested", "cancelled", "cancelling"} :
            SetStatus(cgen[c], s)
      BY <2>5 DEF EnqueueNew, Pause, Cancel, ResumeEnqueue, UpdateFull
    <3> QED BY <1>0, <3>1
  <2>6. ASSUME NEW g \in Gens, Delete(c, g) PROVE WillEnqueue(h)'
    BY <2>6 DEF Delete, TypeTables
  <2> QED BY <1>1, <2>1, <2>2, <2>3, <2>4, <2>5, <2>6 DEF Arrive, Serve
<1>2. CASE Tick \/ ApplySchedule \/ SchedulerCrash
  <2>1. CASE CreateFromItem
    <3>1. PICK g \in NextGen : Insert(g, {}) /\ sgen' = g /\ spc' = "domain"
      BY <2>1 DEF CreateFromItem, gvars
    <3>2. h = g
      BY <3>1 DEF Insert, NextGen, TypeTables
    <3> QED BY <3>1, <3>2 DEF WillEnqueue
  <2>2. ASSUME NEW g \in Gens, PrepareRetry(g) PROVE WillEnqueue(h)'
    <3>1. h = g /\ sgen' = g /\ spc' = "retryEnqueue"
      BY <1>0, <2>2 DEF PrepareRetry
    <3> QED BY <3>1 DEF WillEnqueue
  <2>3. CASE EnqueueFromItem
    BY <1>0, <2>3 DEF EnqueueFromItem
  <2>4. CASE \/ ApplySchedule \/ (\E q \in Items : TakeItem(q)) \/ MarkFromItem
             \/ MarkItem \/ ListRetryDue \/ EnqueueRetry \/ SchedulerCrash
    BY <2>4 DEF ApplySchedule, TakeItem, MarkFromItem, MarkItem, ListRetryDue, EnqueueRetry,
          SchedulerCrash, gvars
  <2> QED BY <1>2, <2>1, <2>2, <2>3, <2>4 DEF Tick
<1> QED BY <1>1, <1>2

\* Reading and writing a row back changes nothing about who will enqueue it.
LEMMA WritesKeepPromises ==
  ASSUME Inv, NEW w \in Workers, NEW g, Promised(g),
         SaveWrite(w) \/ LlmWrite(w) \/ SaveRead(w) \/ LlmRead(w)
  PROVE  Promised(g)'
BY DEF SaveWrite, LlmWrite, SaveRead, LlmRead, tvars, cvars, svars, Promised, WillEnqueue, Queued

\* A worker that claims goes on claiming, or the row is claimed or its task queued again.
LEMMA ClaimsEnd ==
  ASSUME Inv, [Next]_vars, [~Orphans]_vars, NEW v \in Workers, NEW g \in Gens,
         wpc[v] = "claim", Gen(v) = g, gst'[g] = "pending"
  PROVE  Promised(g)' \/ Claiming(g)'
<1> USE DEF Inv, TypeOK
<1>1. CASE wpc'[v] = "claim"
  <2>1. Gen(v)' = g
    BY <1>1, RunsKeepTheirTask DEF Busy
  <2> QED BY <1>1, <2>1 DEF Claiming
<1> SUFFICES ASSUME wpc'[v] # "claim" PROVE Queued(g)'
  BY <1>1 DEF Promised
<1>2. Start(v) \/ Run(v) \/ Watch(v) \/ WorkerCrash(v)
  BY OthersStandStill, ClientFrame, SchedulerFrame DEF Next, vars, wvars
<1>3. Claim(v) \/ WorkerCrash(v)
  BY <1>2 DEF Start, Run, Settle, Load, SetupFails, Watch, Top, Stop, Stopped,
        Before, Halt, HaltWrite, Execute, ExecuteCanceled, ExecuteFails,
        PublishFailsHalfway, SaveRead, SaveWrite, After, Progress, Canceled, StopWrite,
        Success, SuccessWrite, Finish, Fail, FailWrite, FailRetry, LlmRead, LlmWrite, Return
<1>4. ~Claim(v)
  <2> SUFFICES ASSUME Claim(v) PROVE FALSE
    OBVIOUS
  <2>1. UpdateFull(g, "processing", {})
    BY DEF Claim
  <2>2. g \notin Rows
    BY <2>1 DEF UpdateFull, SetStatus, TypeTables
  <2> QED BY <2>1, <2>2 DEF UpdateFull, SetStatus, Rows, GenStatus, Active
<1>5. WorkerCrash(v)
  BY <1>3, <1>4
<1>6. wtask[v] \in TaskIds /\ tgen[wtask[v]] = g
  BY DEF Owned, Gen
<1>7. tleft[wtask[v]] # 0
  <2>1. ~UNCHANGED vars
    BY DEF vars, wvars
  <2> QED BY <1>5, <2>1 DEF Orphans
<1>8. tst' = [tst EXCEPT ![wtask[v]] = "queued"] /\ UNCHANGED tgen
  BY <1>5, <1>7 DEF WorkerCrash, Redeliver
<1>9. PICK t \in TaskIds : tst'[t] = "queued" /\ tgen'[t] = g
  BY <1>6, <1>8 DEF TypeTasks
<1> QED BY <1>9 DEF Queued

\* So a pending row stays awaited, whoever made it pending.
LEMMA AwaitedKept ==
  ASSUME Inv, Awaited, OneDelivery, OneDelivery', [Next]_vars, [~Orphans]_vars
  PROVE  Awaited'
<1> USE DEF Inv, TypeOK
<1>1. ASSUME NEW g \in Gens, gst'[g] = "pending" PROVE Promised(g)' \/ Claiming(g)'
  <2>1. CASE gst[g] = "pending" /\ Promised(g)
    <3>1. CASE Promised(g)'
      BY <3>1
    <3>2. ASSUME NEW w \in Workers, Start(w), Gen(w)' = g PROVE Claiming(g)'
      <4>1. wpc'[w] = "claim"
        BY <2>1, <3>2, Delivered
      <4> QED BY <3>2, <4>1 DEF Claiming
    <3> QED BY <2>1, <3>1, <3>2, PromiseKept
  <2>2. CASE gst[g] = "pending" /\ Claiming(g)
    BY <1>1, <2>2, ClaimsEnd DEF Claiming
  <2>3. CASE gst[g] # "pending"
    <3>1. ASSUME NEW w \in Workers, Start(w) \/ Run(w) \/ Watch(w) \/ WorkerCrash(w) PROVE Promised(g)'
      <4>1. (SaveWrite(w) \/ LlmWrite(w)) /\ wread[w] = "pending" /\ g = Gen(w)
        BY <1>1, <2>3, <3>1, WorkersRestorePending
      <4>2. Promised(g)
        BY <4>1 DEF SaveWrite, LlmWrite, Awaited
      <4> QED BY <4>1, <4>2, WritesKeepPromises
    <3>2. ASSUME \/ \E c \in Clients : Arrive(c) \/ Serve(c) \/ Disconnect(c)
                 \/ Tick \/ ApplySchedule \/ SchedulerCrash
          PROVE  Promised(g)'
      <4>1. WillEnqueue(g)'
        BY <1>1, <2>3, <3>2, OthersPromise
      <4> QED BY <4>1 DEF Promised
    <3>3. CASE UNCHANGED vars
      BY <1>1, <2>3, <3>3 DEF vars, gvars
    <3> QED BY <3>1, <3>2, <3>3 DEF Next
  <2> QED BY <2>1, <2>2, <2>3 DEF Awaited
<1>2. ASSUME NEW w \in Workers, wpc'[w] \in {"saveW", "llmW"}, wread'[w] = "pending"
      PROVE  Promised(Gen(w))'
  <2>0. Busy(w)'
    BY <1>2 DEF Busy
  <2>1. CASE wpc[w] \in {"saveW", "llmW"} /\ wread[w] = "pending"
    <3>1. Busy(w)
      BY <2>1 DEF Busy
    <3>2. PICK g \in Gens : g = Gen(w)
      BY <3>1, KeptType DEF Busy
    <3>3. Gen(w)' = g
      BY <2>0, <3>1, <3>2, RunsKeepTheirTask
    <3>4. Promised(g)
      BY <2>1, <3>2 DEF Awaited
    <3>5. ASSUME NEW v \in Workers, Start(v), Gen(v)' = g PROVE FALSE
      <4>1. v # w
        BY <3>1, <3>5 DEF Start, Busy
      <4>2. Busy(v)'
        BY <3>5, Delivered DEF Busy
      <4> QED BY <2>0, <3>3, <3>5, <4>1, <4>2 DEF OneDelivery
    <3>6. Promised(g)'
      BY <3>4, <3>5, PromiseKept
    <3> QED BY <3>3, <3>6 DEF Promised, WillEnqueue, Queued
  <2>2. CASE SaveRead(w) \/ LlmRead(w)
    <3>1. Busy(w)
      BY <2>2 DEF SaveRead, LlmRead, Busy
    <3>2. PICK g \in Gens : g = Gen(w)
      BY <3>1, KeptType DEF Busy
    <3>3. Gen(w)' = g
      BY <2>0, <3>1, <3>2, RunsKeepTheirTask
    <3>4. gst[g] = "pending"
      BY <1>2, <2>2, <3>2 DEF SaveRead, LlmRead, wGoto, TypeWorkers
    <3>5. ~Claiming(g)
      BY <2>2, <3>1, <3>2 DEF Claiming, OneDelivery, Busy, SaveRead, LlmRead
    <3>6. Promised(g)'
      BY <2>2, <3>4, <3>5, WritesKeepPromises DEF Awaited
    <3> QED BY <3>3, <3>6 DEF Promised, WillEnqueue, Queued
  <2>3. ASSUME ~(wpc[w] \in {"saveW", "llmW"} /\ wread[w] = "pending") PROVE SaveRead(w) \/ LlmRead(w)
    <3>1. Start(w) \/ Run(w) \/ Watch(w) \/ WorkerCrash(w)
      BY <1>2, <2>3, OthersStandStill, ClientFrame, SchedulerFrame DEF Next, vars, wvars
    <3>2. ~Start(w)
      BY <1>2, Delivered
    <3>3. CASE Before(w) \/ After(w) \/ Watch(w) \/ Top(w) \/ Progress(w)
      BY <1>2, <2>3, <3>3 DEF Before, After, Watch, Top, Progress, NextStepPc, ShouldContinue,
            TypeWorkers, wGoto
    <3>4. CASE \/ Settle(w) \/ Claim(w) \/ Load(w) \/ SetupFails(w) \/ Stop(w) \/ Stopped(w)
               \/ Halt(w) \/ HaltWrite(w) \/ Execute(w) \/ ExecuteCanceled(w)
               \/ ExecuteFails(w) \/ PublishFailsHalfway(w) \/ SaveWrite(w)
      BY <1>2, <3>4 DEF Settle, Claim, Load, SetupFails, Stop, Stopped, Halt, HaltWrite, Execute,
            ExecuteCanceled, ExecuteFails, PublishFailsHalfway, SaveWrite, TypeWorkers, wGoto
    <3>5. CASE \/ Canceled(w) \/ StopWrite(w) \/ Success(w) \/ SuccessWrite(w) \/ Finish(w)
               \/ Fail(w) \/ FailWrite(w) \/ FailRetry(w) \/ LlmWrite(w) \/ Return(w)
               \/ WorkerCrash(w)
      BY <1>2, <3>5 DEF Canceled, StopWrite, Success, SuccessWrite, Finish, Fail, FailWrite,
            FailRetry, LlmWrite, Return, WorkerCrash, Reset, TypeWorkers, wGoto
    <3> QED BY <3>1, <3>2, <3>3, <3>4, <3>5 DEF Run
  <2> QED BY <2>1, <2>2, <2>3
<1> QED BY <1>1, <1>2 DEF Awaited

\* While deliveries of one generation do not overlap and no chain from a pending row to its
\* claim is cut, a pending generation has its task: these are all the ways to orphan one.
THEOREM PendingStaysPromised ==
  Spec /\ []OneDelivery /\ [][~Orphans]_vars => []PendingHasTask
<1>1. Init => Awaited
  BY DEF Init, Awaited
<1>2. Inv /\ Awaited /\ OneDelivery /\ OneDelivery' /\ [Next]_vars /\ [~Orphans]_vars => Awaited'
  BY AwaitedKept
<1>3. Inv /\ Awaited => PendingHasTask
  <2> SUFFICES ASSUME Inv, Awaited, NEW g \in Gens, gst[g] = "pending"
               PROVE  WillEnqueue(g) \/ \E t \in TaskIds : tst[t] # "free" /\ tgen[t] = g
    BY DEF PendingHasTask
  <2>1. CASE Promised(g)
    BY <2>1 DEF Promised, Queued
  <2>2. ASSUME NEW w \in Workers, wpc[w] = "claim", Gen(w) = g
        PROVE  \E t \in TaskIds : tst[t] # "free" /\ tgen[t] = g
    BY <2>2 DEF Inv, Owned, Gen
  <2> QED BY <2>1, <2>2 DEF Awaited, Claiming
<1> QED BY <1>1, <1>2, <1>3, InvAlways, PTL DEF Spec

-----------------------------------------------------------------------------
(* The same from conditions on the constants: those of the runs, for any   *)
(* bounds.                                                                 *)

\* There is one worker at most.
AloneAtWork == \A v, w \in Workers : v = w

\* One worker, and nobody who asks for what recovers stale transitions: the schedules'
\* generations are complete when they succeed and keep their work when they fail.
THEOREM SchedulesKeepSuccess ==
  ASSUME AloneAtWork, Ops \cap {"generate", "view"} = {}
  PROVE  Spec => []SuccessIsComplete /\ FailedRunKeepsWork
<1> DEFINE Unasked == \A c \in Clients : cpc[c] \notin {"recover", "view"}
<1>1. OneDelivery
  BY DEF OneDelivery, AloneAtWork
<1>2. Init => Unasked
  BY DEF Init
<1>3. Inv /\ Unasked /\ [Next]_vars => Unasked'
  <2> SUFFICES ASSUME Inv, Unasked, [Next]_vars, NEW c \in Clients, cpc'[c] \in {"recover", "view"}
               PROVE  FALSE
    OBVIOUS
  <2>1. cpc'[c] # cpc[c]
    OBVIOUS
  <2>2. Arrive(c) \/ Serve(c) \/ Disconnect(c)
    BY <2>1, OtherRequestsStay, WorkerFrame, SchedulerFrame DEF Next, vars, cvars
  <2>3. \A op \in {"pause", "resume", "cancel"} : op \notin {"recover", "view"}
    OBVIOUS
  <2>4. cpc'[c] \notin {"recover", "view"}
    BY <2>2, <2>3 DEF Arrive, Serve, Generate, View, Recover, Check, Inherit, Create, EnqueueNew,
          Post, Act, Pause, Cancel, Resume, ResumeDomain, ResumeEnqueue, Delete, Recalculate, Disconnect, Request,
          Respond, cGoto, Inv, TypeOK, TypeClients
  <2> QED BY <2>4
<1>4. Unasked => RecoversTheDead
  BY DEF Recover, RecoversTheDead
<1>5. Unasked => [RecoversTheDead]_vars
  BY <1>4
<1>6. Spec => []Unasked
  BY <1>2, <1>3, InvAlways, PTL DEF Spec
<1>7. Spec => []OneDelivery /\ [][RecoversTheDead]_vars
  BY <1>1, <1>5, <1>6, PTL
<1> QED BY <1>7, SuccessStaysComplete, FailuresKeepWork, PTL

\* One worker, and no process or call that fails in the middle of its chain: no
\* generation is orphaned, whatever users ask for and whichever steps fail.
THEOREM WholeChainsKeepPromises ==
  ASSUME AloneAtWork, Faults \cap {"enqueue", "scheduler", "client", "worker"} = {}
  PROVE  Spec => []PendingHasTask
<1>1. OneDelivery
  BY DEF OneDelivery, AloneAtWork
<1>2. Inv => ~Orphans
  <2> SUFFICES ASSUME Inv, Orphans PROVE FALSE
    OBVIOUS
  <2>1. FailsToEnqueue
    BY DEF Orphans, SchedulerCrash, Disconnect, WorkerCrash
  <2>2. PICK g, f : Enqueue(g, f)
    BY <2>1 DEF FailsToEnqueue, EnqueueFromItem, EnqueueRetry, EnqueueNew, ResumeEnqueue
  <2> QED BY <2>1, <2>2 DEF FailsToEnqueue, tvars, Enqueue, Inv, TypeOK, TypeTasks
<1>3. Inv => [~Orphans]_vars
  BY <1>2
<1>4. Spec => []OneDelivery /\ [][~Orphans]_vars
  BY <1>1, <1>3, InvAlways, PTL
<1> QED BY <1>4, PendingStaysPromised, PTL
===============================================================================
