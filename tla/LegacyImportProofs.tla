------------------------- MODULE LegacyImportProofs -------------------------
(***************************************************************************)
(* An import of any number of sites says at its end what was done, makes   *)
(* one link task for each of them and is followed to its end.              *)
(*                                                                         *)
(* The counters of a job count each domain once, as long as no task that   *)
(* was counted is tried again: they are the numbers of the domains counted *)
(* as done and as failed, so that a worker that sees as many as there are  *)
(* domains has seen all of them end.  The poll that brought the end of the *)
(* job was read after it, and so is every answer that was read later.      *)
(***************************************************************************)
EXTENDS LegacyImport, FiniteSetTheorems, TLAPS

LiveStates == {"pending", "running"} \cup Finished

PastTyped == past \in [overlapped : BOOLEAN, astray : BOOLEAN]

\* A job that is not created yet, or was refused, has no items, and nobody polls it.
RowOk(j) ==
  /\ jobs[j].st \notin LiveStates =>
       /\ jobs[j].todo = {} /\ jobs[j].done = 0 /\ jobs[j].failed = 0
       /\ \A d \in Domains : runs[j][d] = NoRun
       /\ j \notin hook.ticking /\ \A p \in polls : p.job # j
  /\ jobs[j].st = "none" => j \notin asks
  /\ jobs[j].st \in LiveStates => jobs[j].doms # {}
  /\ jobs[j].todo \subseteq jobs[j].doms
  /\ \A d \in jobs[j].todo : runs[j][d] = NoRun
  /\ \A d \in Domains : runs[j][d] # NoRun => d \in jobs[j].doms
  /\ \A d \in Domains : runs[j][d].at = "close" => runs[j][d].say \in Finished

RowsInv == \A j \in Jobs : RowOk(j)

ImportBase == ImportTypeOK /\ PastTyped /\ RowsInv

RunStates ==
  [at : Working \cup {"none", "queued", "count", "look", "close", "end"}, left : 0..Reruns,
   saw : LinkStates, ok : BOOLEAN, counted : BOOLEAN, say : {"none"} \cup Finished,
   made : Nat, torn : BOOLEAN]
JobRows ==
  [st : Answers \cup {"asked", "refused"}, doms : SUBSET Domains, todo : SUBSET Domains,
   force : BOOLEAN, done : Nat, failed : Nat, again : BOOLEAN, short : BOOLEAN]
Hooks ==
  [importing : BOOLEAN, timer : Jobs \cup {NoJob}, ticking : SUBSET Jobs,
   job : Jobs \cup {NoJob}, st : Answers]
PollStates == [job : Jobs, first : BOOLEAN, last : BOOLEAN, got : Answers]

LEMMA Rests ==
  ASSUME ImportConstants
  PROVE  /\ NoJobRow \in JobRows /\ NoRun \in RunStates
         /\ NoJobRow.st = "none" /\ NoJobRow.todo = {} /\ NoJobRow.done = 0 /\ NoJobRow.failed = 0
         /\ ~NoJobRow.again /\ NoRun.at = "none" /\ NoRun.made = 0 /\ ~NoRun.torn /\ ~NoRun.counted
         /\ Shut \in [at : {"closed", "select", "preview"}, doms : SUBSET Domains, force : BOOLEAN,
                      loading : BOOLEAN]
  BY DEF NoJobRow, NoRun, Shut, JobRows, RunStates, Answers, LinkStates, ImportConstants
-----------------------------------------------------------------------------
(* Types and rows *)

LEMMA ImportStartsTyped == ImportConstants /\ ImportInit => ImportBase
<1> SUFFICES ASSUME ImportConstants, ImportInit PROVE ImportBase
  OBVIOUS
<1>1. ImportTypeOK
  <2>1. jobs \in [Jobs -> JobRows] /\ runs \in [Jobs -> [Domains -> RunStates]]
    BY Rests DEF ImportInit
  <2>2. sites \in [Domains -> [html : BOOLEAN, link : LinkStates, ssh : BOOLEAN]]
    BY DEF ImportInit, ImportConstants
  <2>3. modal \in [at : {"closed", "select", "preview"}, doms : SUBSET Domains, force : BOOLEAN, loading : BOOLEAN]
    BY Rests DEF ImportInit
  <2> QED BY <2>1, <2>2, <2>3 DEF ImportInit, ImportTypeOK, JobRows, RunStates, Answers
<1>2. PastTyped
  BY DEF ImportInit, PastTyped
<1>3. RowsInv
  BY Rests DEF ImportInit, RowsInv, RowOk, LiveStates, Finished
<1> QED BY <1>1, <1>2, <1>3 DEF ImportBase

\* The clicks that concern the dialog and the window alone.
Windows ==
  Open \/ Close \/ Toggle \/ ChooseForce \/ Back \/ Preview \/ PreviewArrives \/ CloseProgress

LEMMA WindowsTyped ==
  ASSUME ImportConstants, ImportBase, Windows
  PROVE  ImportBase' /\ UNCHANGED <<serverVars, hook, asks, polls, past>>
<1>1. UNCHANGED <<serverVars, hook, asks, polls, past>>
  BY DEF Windows, Open, Close, Toggle, ChooseForce, Back, Preview, PreviewArrives, CloseProgress
<1>2. modal' \in [at : {"closed", "select", "preview"}, doms : SUBSET Domains, force : BOOLEAN, loading : BOOLEAN]
  <2>1. modal \in [at : {"closed", "select", "preview"}, doms : SUBSET Domains, force : BOOLEAN, loading : BOOLEAN]
        /\ ready \subseteq Domains
    BY DEF ImportBase, ImportTypeOK
  <2>2. CASE Open
    BY <2>1, <2>2 DEF Open, Shut
  <2>3. CASE Close
    BY <2>3, Rests DEF Close
  <2>4. CASE Toggle
    BY <2>1, <2>4 DEF Toggle
  <2>5. CASE ChooseForce \/ Back \/ Preview \/ PreviewArrives \/ CloseProgress
    BY <2>1, <2>5 DEF ChooseForce, Back, Preview, PreviewArrives, CloseProgress
  <2> QED BY <2>2, <2>3, <2>4, <2>5 DEF Windows
<1>3. progress' \in BOOLEAN /\ ready' \subseteq Domains
  BY DEF Windows, Open, Close, Toggle, ChooseForce, Back, Preview, PreviewArrives, CloseProgress,
         ImportBase, ImportTypeOK
<1> QED BY <1>1, <1>2, <1>3 DEF ImportBase, ImportTypeOK, RowsInv, RowOk, PastTyped, serverVars
-----------------------------------------------------------------------------
(* What the steps of the server do to a job, its items and its tasks *)

ItemStates == {"none", "pending", "running", "success", "failed"}

OtherJobs(j) == jobs' \in [Jobs -> JobRows] /\ \A i \in Jobs \ {j} : jobs'[i] = jobs[i]

OtherItems(j, d) ==
  /\ items' \in [Jobs -> [Domains -> ItemStates]]
  /\ \A i \in Jobs, e \in Domains : i # j \/ e # d => items'[i][e] = items[i][e]

OtherRuns(j, d) ==
  /\ runs' \in [Jobs -> [Domains -> RunStates]]
  /\ \A i \in Jobs, e \in Domains : i # j \/ e # d => runs'[i][e] = runs[i][e]

\* The task changes its place, and nothing of what it says or made.
Moves(j, d, at) ==
  /\ OtherRuns(j, d) /\ runs'[j][d].at = at
  /\ runs'[j][d].ok = runs[j][d].ok /\ runs'[j][d].counted = runs[j][d].counted
  /\ runs'[j][d].made = runs[j][d].made /\ runs'[j][d].torn = runs[j][d].torn

SameJob(j) ==
  /\ OtherJobs(j)
  /\ jobs'[j].doms = jobs[j].doms /\ jobs'[j].todo = jobs[j].todo /\ jobs'[j].force = jobs[j].force

SameCount(j) == jobs'[j].done = jobs[j].done /\ jobs'[j].failed = jobs[j].failed

ServerTyped ==
  /\ jobs \in [Jobs -> JobRows]
  /\ items \in [Jobs -> [Domains -> ItemStates]]
  /\ runs \in [Jobs -> [Domains -> RunStates]]
  /\ sites \in [Domains -> [html : BOOLEAN, link : LinkStates, ssh : BOOLEAN]]

LEMMA TypesOfServer == ImportTypeOK => ServerTyped
  BY DEF ImportTypeOK, ServerTyped, JobRows, ItemStates, RunStates

LEMMA RunTyped ==
  ServerTyped => \A j \in Jobs, d \in Domains : runs[j][d] \in RunStates
  BY DEF ServerTyped

LEMMA JobRuns ==
  ASSUME ServerTyped, NEW j \in Jobs, NEW d \in Domains, NEW r \in RunStates,
         runs' = [runs EXCEPT ![j][d] = r]
  PROVE  OtherRuns(j, d) /\ runs'[j][d] = r
  BY DEF ServerTyped, OtherRuns

LEMMA JobSet ==
  ASSUME ServerTyped, NEW j \in Jobs, NEW r \in JobRows, jobs' = [jobs EXCEPT ![j] = r]
  PROVE  OtherJobs(j) /\ jobs'[j] = r
  BY DEF ServerTyped, OtherJobs

LEMMA TakeDoes ==
  ASSUME ServerTyped, NEW j \in Jobs, NEW d \in Domains, Take(j, d)
  PROVE  /\ Moves(j, d, "fetch") /\ runs'[j][d].saw = sites[d].link
         /\ SameJob(j) /\ SameCount(j) /\ jobs'[j].again = jobs[j].again
         /\ jobs'[j].st = IF jobs[j].st = "pending" THEN "running" ELSE jobs[j].st
         /\ runs[j][d].at = "queued"
         /\ UNCHANGED <<items, sites, tabVars>>
<1>1. sites[d].link \in LinkStates
  BY DEF ServerTyped
<1>2. Moves(j, d, "fetch") /\ runs'[j][d].saw = sites[d].link
  <2>1. PICK r : r = [runs[j][d] EXCEPT !.at = "fetch", !.saw = sites[d].link]
    OBVIOUS
  <2>2. r \in RunStates
    BY <2>1, <1>1, RunTyped DEF RunStates, Working
  <2>3. runs' = [runs EXCEPT ![j][d] = r]
    BY <2>1 DEF Take, ServerTyped
  <2>4. OtherRuns(j, d) /\ runs'[j][d] = r
    BY <2>2, <2>3, JobRuns
  <2> QED BY <2>1, <2>4, <1>1, RunTyped DEF Moves, RunStates
<1>3. /\ SameJob(j) /\ SameCount(j) /\ jobs'[j].again = jobs[j].again
      /\ jobs'[j].st = IF jobs[j].st = "pending" THEN "running" ELSE jobs[j].st
  BY DEF Take, ServerTyped, JobRows, Answers, SameJob, OtherJobs, SameCount
<1> QED BY <1>2, <1>3 DEF Take, At

LEMMA FetchDoes ==
  ASSUME ServerTyped, NEW j \in Jobs, NEW d \in Domains, Fetch(j, d)
  PROVE  /\ Moves(j, d, "link") /\ runs'[j][d].saw = runs[j][d].saw
         /\ OtherItems(j, d) /\ runs[j][d].at = "fetch"
         /\ UNCHANGED <<jobs, sites, tabVars>>
<1>1. Moves(j, d, "link") /\ runs'[j][d].saw = runs[j][d].saw
  <2>1. PICK r : r = [runs[j][d] EXCEPT !.at = "link"]
    OBVIOUS
  <2>2. r \in RunStates
    BY <2>1, RunTyped DEF RunStates, Working
  <2>3. runs' = [runs EXCEPT ![j][d] = r]
    BY <2>1 DEF Fetch, ServerTyped
  <2>4. OtherRuns(j, d) /\ runs'[j][d] = r
    BY <2>2, <2>3, JobRuns
  <2> QED BY <2>1, <2>4, RunTyped DEF Moves, RunStates
<1>2. OtherItems(j, d)
  BY DEF Fetch, ServerTyped, OtherItems, ItemStates
<1> QED BY <1>1, <1>2 DEF Fetch, At

LEMMA BaselineDoes ==
  ASSUME ServerTyped, NEW j \in Jobs, NEW d \in Domains, Baseline(j, d)
  PROVE  /\ runs[j][d].at = "link" /\ UNCHANGED <<jobs, items, sites, tabVars>>
         /\ \/ Moves(j, d, "record") /\ Skips(j, d)
            \/ /\ OtherRuns(j, d) /\ runs'[j][d].at = "linked" /\ runs'[j][d].made = runs[j][d].made + 1
               /\ runs'[j][d].torn = runs[j][d].torn /\ runs'[j][d].ok = runs[j][d].ok
               /\ runs'[j][d].counted = runs[j][d].counted /\ ~Skips(j, d)
<1>1. CASE Skips(j, d)
  <2>1. Moves(j, d, "record")
    <3>1. PICK r : r = [runs[j][d] EXCEPT !.at = "record"]
      OBVIOUS
    <3>2. r \in RunStates
      BY <3>1, RunTyped DEF RunStates, Working
    <3>3. runs' = [runs EXCEPT ![j][d] = r]
      BY <3>1, <1>1 DEF Baseline, ServerTyped
    <3>4. OtherRuns(j, d) /\ runs'[j][d] = r
      BY <3>2, <3>3, JobRuns
    <3> QED BY <3>1, <3>4, RunTyped DEF Moves, RunStates
  <2> QED BY <1>1, <2>1 DEF Baseline, At
<1>2. CASE ~Skips(j, d)
  <2>1. runs' = [runs EXCEPT ![j][d].at = "linked", ![j][d].made = @ + 1]
    BY <1>2 DEF Baseline
  <2>2. runs[j][d].made \in Nat /\ runs[j][d].made + 1 \in Nat
    BY DEF ServerTyped, RunStates
  <2>3. /\ OtherRuns(j, d) /\ runs'[j][d].at = "linked" /\ runs'[j][d].made = runs[j][d].made + 1
        /\ runs'[j][d].torn = runs[j][d].torn /\ runs'[j][d].ok = runs[j][d].ok
        /\ runs'[j][d].counted = runs[j][d].counted
    <3>1. PICK r : r = [runs[j][d] EXCEPT !.at = "linked", !.made = @ + 1]
      OBVIOUS
    <3>2. r \in RunStates
      BY <3>1, <2>2, RunTyped DEF RunStates, Working
    <3>3. runs' = [runs EXCEPT ![j][d] = r]
      BY <3>1, <2>1 DEF Baseline, ServerTyped
    <3>4. OtherRuns(j, d) /\ runs'[j][d] = r
      BY <3>2, <3>3, JobRuns
    <3> QED BY <3>1, <3>4, <2>2, RunTyped DEF Moves, RunStates
  <2> QED BY <1>2, <2>3 DEF Baseline, At
<1> QED BY <1>1, <1>2

LEMMA LinkedDoes ==
  ASSUME ServerTyped, NEW j \in Jobs, NEW d \in Domains, Linked(j, d)
  PROVE  /\ Moves(j, d, "record") /\ runs[j][d].at = "linked" /\ UNCHANGED <<jobs, items, tabVars>>
         /\ sites' \in [Domains -> [html : BOOLEAN, link : LinkStates, ssh : BOOLEAN]]
         /\ sites'[d].link = IF sites[d].html THEN "same" ELSE "pending"
         /\ sites'[d].html = sites[d].html /\ \A e \in Domains \ {d} : sites'[e] = sites[e]
<1>1. Moves(j, d, "record")
  <2>1. PICK r : r = [runs[j][d] EXCEPT !.at = "record"]
    OBVIOUS
  <2>2. r \in RunStates
    BY <2>1, RunTyped DEF RunStates, Working
  <2>3. runs' = [runs EXCEPT ![j][d] = r]
    BY <2>1 DEF Linked, ServerTyped
  <2>4. OtherRuns(j, d) /\ runs'[j][d] = r
    BY <2>2, <2>3, JobRuns
  <2> QED BY <2>1, <2>4, RunTyped DEF Moves, RunStates
<1>2. /\ sites' \in [Domains -> [html : BOOLEAN, link : LinkStates, ssh : BOOLEAN]]
      /\ sites'[d].link = IF sites[d].html THEN "same" ELSE "pending"
      /\ sites'[d].html = sites[d].html /\ \A e \in Domains \ {d} : sites'[e] = sites[e]
  BY DEF Linked, ServerTyped, LinkStates
<1> QED BY <1>1, <1>2 DEF Linked, At

LEMMA RecordDoes ==
  ASSUME ServerTyped, NEW j \in Jobs, NEW d \in Domains, RecordItem(j, d)
  PROVE  /\ OtherRuns(j, d) /\ runs'[j][d].at = "count" /\ runs'[j][d].ok
         /\ runs'[j][d].counted = runs[j][d].counted /\ runs'[j][d].made = runs[j][d].made
         /\ runs'[j][d].torn = runs[j][d].torn
         /\ OtherItems(j, d) /\ items'[j][d] = "success"
         /\ runs[j][d].at = "record" /\ UNCHANGED <<jobs, tabVars>>
         /\ sites' \in [Domains -> [html : BOOLEAN, link : LinkStates, ssh : BOOLEAN]]
         /\ \A e \in Domains : sites'[e].link = sites[e].link /\ sites'[e].html = sites[e].html
<1>1. /\ OtherRuns(j, d) /\ runs'[j][d].at = "count" /\ runs'[j][d].ok
      /\ runs'[j][d].counted = runs[j][d].counted /\ runs'[j][d].made = runs[j][d].made
      /\ runs'[j][d].torn = runs[j][d].torn
  <2>1. PICK r : r = [runs[j][d] EXCEPT !.at = "count", !.ok = TRUE]
    OBVIOUS
  <2>2. r \in RunStates
    BY <2>1, RunTyped DEF RunStates, Working
  <2>3. runs' = [runs EXCEPT ![j][d] = r]
    BY <2>1 DEF RecordItem, ServerTyped
  <2>4. OtherRuns(j, d) /\ runs'[j][d] = r
    BY <2>2, <2>3, JobRuns
  <2> QED BY <2>1, <2>4, RunTyped DEF Moves, RunStates
<1>2. OtherItems(j, d) /\ items'[j][d] = "success"
  BY DEF RecordItem, ServerTyped, OtherItems, ItemStates
<1>3. /\ sites' \in [Domains -> [html : BOOLEAN, link : LinkStates, ssh : BOOLEAN]]
      /\ \A e \in Domains : sites'[e].link = sites[e].link /\ sites'[e].html = sites[e].html
  BY DEF RecordItem, ServerTyped
<1> QED BY <1>1, <1>2, <1>3 DEF RecordItem, At

LEMMA StepFailsDoes ==
  ASSUME ServerTyped, NEW j \in Jobs, NEW d \in Domains, StepFails(j, d)
  PROVE  /\ OtherRuns(j, d) /\ runs'[j][d].at = "count" /\ ~runs'[j][d].ok
         /\ runs'[j][d].counted = runs[j][d].counted /\ runs'[j][d].made = runs[j][d].made
         /\ runs'[j][d].torn = (runs[j][d].torn \/ runs[j][d].at = "linked")
         /\ OtherItems(j, d) /\ items'[j][d] = "failed"
         /\ runs[j][d].at \in Working /\ UNCHANGED <<jobs, sites, tabVars>>
<1>2. /\ OtherRuns(j, d) /\ runs'[j][d].at = "count" /\ ~runs'[j][d].ok
      /\ runs'[j][d].counted = runs[j][d].counted /\ runs'[j][d].made = runs[j][d].made
      /\ runs'[j][d].torn = (runs[j][d].torn \/ runs[j][d].at = "linked")
  <2>1. PICK r : r = [runs[j][d] EXCEPT !.at = "count", !.ok = FALSE, !.torn = @ \/ runs[j][d].at = "linked"]
    OBVIOUS
  <2>2. r \in RunStates
    BY <2>1, RunTyped DEF RunStates, Working
  <2>3. runs' = [runs EXCEPT ![j][d] = r]
    BY <2>1 DEF StepFails, ServerTyped, At
  <2>4. OtherRuns(j, d) /\ runs'[j][d] = r
    BY <2>2, <2>3, JobRuns
  <2> QED BY <2>1, <2>4, RunTyped DEF Moves, RunStates
<1>3. OtherItems(j, d) /\ items'[j][d] = "failed"
  BY DEF StepFails, ServerTyped, OtherItems, ItemStates
<1> QED BY <1>2, <1>3 DEF StepFails, At

LEMMA JobTyped ==
  ServerTyped => \A j \in Jobs : jobs[j] \in JobRows
  BY DEF ServerTyped

LEMMA CountDoes ==
  ASSUME ServerTyped, NEW j \in Jobs, NEW d \in Domains, Count(j, d)
  PROVE  /\ OtherRuns(j, d) /\ runs'[j][d].at = "look" /\ runs'[j][d].counted
         /\ runs'[j][d].ok = runs[j][d].ok /\ runs'[j][d].made = runs[j][d].made
         /\ runs'[j][d].torn = runs[j][d].torn
         /\ SameJob(j) /\ jobs'[j].st = jobs[j].st /\ jobs'[j].again = jobs[j].again
         /\ jobs'[j].done = IF runs[j][d].ok THEN jobs[j].done + 1 ELSE jobs[j].done
         /\ jobs'[j].failed = IF runs[j][d].ok THEN jobs[j].failed ELSE jobs[j].failed + 1
         /\ runs[j][d].at = "count" /\ UNCHANGED <<items, sites, tabVars>>
<1>1. /\ OtherRuns(j, d) /\ runs'[j][d].at = "look" /\ runs'[j][d].counted
      /\ runs'[j][d].ok = runs[j][d].ok /\ runs'[j][d].made = runs[j][d].made
      /\ runs'[j][d].torn = runs[j][d].torn
  <2>1. PICK r : r = [runs[j][d] EXCEPT !.at = "look", !.counted = TRUE]
    OBVIOUS
  <2>2. r \in RunStates
    BY <2>1, RunTyped DEF RunStates, Working
  <2>3. runs' = [runs EXCEPT ![j][d] = r]
    BY <2>1 DEF Count, ServerTyped
  <2>4. OtherRuns(j, d) /\ runs'[j][d] = r
    BY <2>2, <2>3, JobRuns
  <2> QED BY <2>1, <2>4, RunTyped DEF Moves, RunStates
<1>2. /\ SameJob(j) /\ jobs'[j].st = jobs[j].st /\ jobs'[j].again = jobs[j].again
      /\ jobs'[j].done = IF runs[j][d].ok THEN jobs[j].done + 1 ELSE jobs[j].done
      /\ jobs'[j].failed = IF runs[j][d].ok THEN jobs[j].failed ELSE jobs[j].failed + 1
  <2>0. jobs[j] \in JobRows /\ jobs[j].done + 1 \in Nat /\ jobs[j].failed + 1 \in Nat
    BY JobTyped DEF JobRows
  <2>1. PICK r : r = [jobs[j] EXCEPT !.done = IF runs[j][d].ok THEN @ + 1 ELSE @,
                                      !.failed = IF runs[j][d].ok THEN @ ELSE @ + 1]
    OBVIOUS
  <2>2. r \in JobRows
    BY <2>0, <2>1 DEF JobRows
  <2>3. jobs' = [jobs EXCEPT ![j] = r]
    BY <2>1 DEF Count, ServerTyped
  <2>4. OtherJobs(j) /\ jobs'[j] = r
    BY <2>2, <2>3, JobSet
  <2> QED BY <2>1, <2>4, JobTyped DEF JobRows, SameJob, SameCount
<1> QED BY <1>1, <1>2 DEF Count, At

LEMMA LookDoes ==
  ASSUME ServerTyped, NEW j \in Jobs, NEW d \in Domains, LookAtItems(j, d)
  PROVE  /\ Moves(j, d, IF AllProcessed(j) THEN "close" ELSE "end")
         /\ runs'[j][d].say = IF jobs[j].failed > 0 /\ jobs[j].done = 0 THEN "failed" ELSE "completed"
         /\ runs[j][d].at = "look" /\ UNCHANGED <<jobs, items, sites, tabVars>>
<1>1. /\ Moves(j, d, IF AllProcessed(j) THEN "close" ELSE "end")
      /\ runs'[j][d].say = IF jobs[j].failed > 0 /\ jobs[j].done = 0 THEN "failed" ELSE "completed"
  <2>1. PICK r : r = [runs[j][d] EXCEPT !.at = IF AllProcessed(j) THEN "close" ELSE "end",
                !.say = IF jobs[j].failed > 0 /\ jobs[j].done = 0 THEN "failed" ELSE "completed"]
    OBVIOUS
  <2>2. r \in RunStates
    BY <2>1, RunTyped DEF RunStates, Working, Finished
  <2>3. runs' = [runs EXCEPT ![j][d] = r]
    BY <2>1 DEF LookAtItems, ServerTyped
  <2>4. OtherRuns(j, d) /\ runs'[j][d] = r
    BY <2>2, <2>3, JobRuns
  <2> QED BY <2>1, <2>4, RunTyped DEF Moves, RunStates
<1> QED BY <1>1 DEF LookAtItems, At

LEMMA FinishDoes ==
  ASSUME ServerTyped, NEW j \in Jobs, NEW d \in Domains, runs[j][d].say \in Finished, Finish(j, d)
  PROVE  /\ Moves(j, d, "end") /\ SameJob(j) /\ SameCount(j) /\ jobs'[j].again = jobs[j].again
         /\ jobs'[j].st = runs[j][d].say
         /\ runs[j][d].at = "close" /\ UNCHANGED <<items, sites, tabVars>>
<1>1. Moves(j, d, "end")
  <2>1. PICK r : r = [runs[j][d] EXCEPT !.at = "end"]
    OBVIOUS
  <2>2. r \in RunStates
    BY <2>1, RunTyped DEF RunStates, Working
  <2>3. runs' = [runs EXCEPT ![j][d] = r]
    BY <2>1 DEF Finish, ServerTyped
  <2>4. OtherRuns(j, d) /\ runs'[j][d] = r
    BY <2>2, <2>3, JobRuns
  <2> QED BY <2>1, <2>4, RunTyped DEF Moves, RunStates
<1>2. SameJob(j) /\ SameCount(j) /\ jobs'[j].again = jobs[j].again /\ jobs'[j].st = runs[j][d].say
  <2>1. PICK r : r = [jobs[j] EXCEPT !.st = runs[j][d].say]
    OBVIOUS
  <2>2. r \in JobRows
    BY <2>1, JobTyped DEF JobRows, Answers, Finished
  <2>3. jobs' = [jobs EXCEPT ![j] = r]
    BY <2>1 DEF Finish, ServerTyped
  <2>4. OtherJobs(j) /\ jobs'[j] = r
    BY <2>2, <2>3, JobSet
  <2> QED BY <2>1, <2>4, JobTyped DEF JobRows, SameJob, SameCount
<1> QED BY <1>1, <1>2 DEF Finish, At

\* A task that is handed out again after it was counted leaves its mark on the job.
Returns(j, d) ==
  /\ OtherRuns(j, d) /\ runs'[j][d].at \in {"queued", "none"}
  /\ runs'[j][d].ok = runs[j][d].ok /\ runs'[j][d].counted = runs[j][d].counted
  /\ runs'[j][d].made = runs[j][d].made
  /\ runs'[j][d].torn = (runs[j][d].torn \/ runs[j][d].at = "linked")
  /\ SameJob(j) /\ SameCount(j) /\ jobs'[j].st = jobs[j].st
  /\ jobs[j].again => jobs'[j].again
  /\ runs[j][d].counted /\ runs'[j][d].at = "queued" => jobs'[j].again

LEMMA RequeueDoes ==
  ASSUME ImportConstants, ServerTyped, NEW j \in Jobs, NEW d \in Domains, Requeue(j, d)
  PROVE  /\ OtherRuns(j, d)
         /\ runs'[j][d].at = IF runs[j][d].left > 0 THEN "queued" ELSE "none"
         /\ runs'[j][d].ok = runs[j][d].ok /\ runs'[j][d].counted = runs[j][d].counted
         /\ runs'[j][d].made = runs[j][d].made
         /\ runs'[j][d].torn = (runs[j][d].torn \/ runs[j][d].at = "linked")
<1>1. runs[j][d].left \in 0..Reruns
  BY RunTyped DEF RunStates
<1>2. (IF runs[j][d].left > 0 THEN runs[j][d].left - 1 ELSE 0) \in 0..Reruns
  BY <1>1 DEF ImportConstants
<1> QED
  <2>1. PICK r : r = [runs[j][d] EXCEPT !.at = IF runs[j][d].left > 0 THEN "queued" ELSE "none",
                !.left = IF runs[j][d].left > 0 THEN @ - 1 ELSE 0,
                !.torn = @ \/ runs[j][d].at = "linked"]
    OBVIOUS
  <2>2. r \in RunStates
    BY <2>1, <1>1, <1>2, RunTyped DEF RunStates, Working
  <2>3. runs' = [runs EXCEPT ![j][d] = r]
    BY <2>1 DEF Requeue, ServerTyped, At
  <2>4. OtherRuns(j, d) /\ runs'[j][d] = r
    BY <2>2, <2>3, JobRuns
  <2> QED BY <2>1, <2>4, <1>1, <1>2, RunTyped DEF Moves, RunStates

LEMMA LeaveDoes ==
  ASSUME ImportConstants, ServerTyped, NEW j \in Jobs, NEW d \in Domains, Leave(j, d)
  PROVE  /\ Returns(j, d) /\ runs[j][d].at = "end" /\ UNCHANGED <<items, sites, tabVars>>
<1>1. runs[j][d].at = "end"
  BY DEF Leave, At
<1>2. CASE runs[j][d].ok
  <2>0. jobs' = jobs /\ runs' = [runs EXCEPT ![j][d].at = "none"]
    BY <1>2 DEF Leave
  <2>a. Moves(j, d, "none")
    <3>1. PICK r : r = [runs[j][d] EXCEPT !.at = "none"]
      OBVIOUS
    <3>2. r \in RunStates
      BY <3>1, RunTyped DEF RunStates, Working
    <3>3. runs' = [runs EXCEPT ![j][d] = r]
      BY <3>1, <2>0 DEF Leave, ServerTyped
    <3>4. OtherRuns(j, d) /\ runs'[j][d] = r
      BY <3>2, <3>3, JobRuns
    <3> QED BY <3>1, <3>4, RunTyped DEF Moves, RunStates
  <2> QED BY <1>1, <2>0, <2>a, RunTyped DEF Leave, Returns, Moves, SameJob, SameCount, OtherJobs, ServerTyped, RunStates
<1>3. CASE ~runs[j][d].ok
  <2>0. Requeue(j, d) /\ jobs' = [jobs EXCEPT ![j].again = @ \/ runs[j][d].left > 0]
    BY <1>3 DEF Leave
  <2>a. SameJob(j) /\ SameCount(j) /\ jobs'[j].st = jobs[j].st
        /\ jobs'[j].again = (jobs[j].again \/ runs[j][d].left > 0)
    <3>1. PICK r : r = [jobs[j] EXCEPT !.again = @ \/ runs[j][d].left > 0]
      OBVIOUS
    <3>2. r \in JobRows
      BY <3>1, JobTyped DEF JobRows, Answers, Finished
    <3>3. jobs' = [jobs EXCEPT ![j] = r]
      BY <3>1, <2>0 DEF Leave, ServerTyped
    <3>4. OtherJobs(j) /\ jobs'[j] = r
      BY <3>2, <3>3, JobSet
    <3> QED BY <3>1, <3>4, JobTyped DEF JobRows, SameJob, SameCount
  <2> QED BY <1>1, <2>0, <2>a, RequeueDoes DEF Leave, Returns
<1> QED BY <1>1, <1>2, <1>3 DEF Leave

LEMMA CrashDoes ==
  ASSUME ImportConstants, ServerTyped, NEW j \in Jobs, NEW d \in Domains, Crash(j, d)
  PROVE  /\ Returns(j, d) /\ runs[j][d].at \in Working \cup {"count", "look", "close", "end"}
         /\ UNCHANGED <<items, sites, tabVars>>
<1>1. SameJob(j) /\ SameCount(j) /\ jobs'[j].st = jobs[j].st
      /\ jobs'[j].again = (jobs[j].again \/ (runs[j][d].counted /\ runs[j][d].left > 0))
  <2>1. PICK r : r = [jobs[j] EXCEPT !.again = @ \/ (runs[j][d].counted /\ runs[j][d].left > 0),
                                      !.short = @ \/ runs[j][d].left = 0]
    OBVIOUS
  <2>2. r \in JobRows
    BY <2>1, JobTyped DEF JobRows, Answers, Finished
  <2>3. jobs' = [jobs EXCEPT ![j] = r]
    BY <2>1 DEF Crash, ServerTyped
  <2>4. OtherJobs(j) /\ jobs'[j] = r
    BY <2>2, <2>3, JobSet
  <2> QED BY <2>1, <2>4, JobTyped DEF JobRows, SameJob, SameCount
<1> QED BY <1>1, RequeueDoes DEF Crash, At, Returns

LEMMA StartDoes ==
  ASSUME ImportConstants, ImportTypeOK, NEW j \in Jobs, Start(j)
  PROVE  /\ OtherJobs(j) /\ jobs'[j].st = "asked" /\ jobs'[j].todo = {} /\ jobs'[j].done = 0
         /\ jobs'[j].failed = 0 /\ ~jobs'[j].again /\ jobs[j] = NoJobRow
         /\ asks' = asks \cup {j} /\ UNCHANGED <<items, runs, sites, polls, ready>>
         /\ hook' = [hook EXCEPT !.importing = TRUE] /\ modal' = Shut /\ progress' = TRUE
<1> USE TypesOfServer
<1>1. modal.doms \in SUBSET Domains /\ modal.force \in BOOLEAN
  BY DEF ImportTypeOK
<1>2. PICK r : r = [NoJobRow EXCEPT !.st = "asked", !.doms = modal.doms, !.force = modal.force]
  OBVIOUS
<1>3. r \in JobRows /\ r.st = "asked" /\ r.todo = {} /\ r.done = 0 /\ r.failed = 0 /\ ~r.again
  BY <1>1, <1>2 DEF NoJobRow, JobRows, Answers
<1>4. jobs' = [jobs EXCEPT ![j] = r]
  BY <1>2 DEF Start
<1>5. OtherJobs(j) /\ jobs'[j] = r
  BY <1>3, <1>4, JobSet
<1> QED BY <1>3, <1>5 DEF Start

\* The request comes to the server, or is lost.
LEMMA SubmitDoes ==
  ASSUME ServerTyped, NEW j \in Jobs, Submit(j) \/ SubmitLost(j), jobs[j].todo = {}
  PROVE  /\ OtherJobs(j) /\ SameCount(j) /\ jobs'[j].again = jobs[j].again
         /\ jobs'[j].doms = jobs[j].doms /\ jobs'[j].force = jobs[j].force
         /\ jobs[j].st = "asked" /\ UNCHANGED <<items, runs, sites, tabVars>>
         /\ \/ jobs'[j].st = "refused" /\ jobs'[j].todo = {}
            \/ jobs'[j].st = "pending" /\ jobs'[j].todo = jobs[j].doms /\ jobs[j].doms # {}
<1>1. CASE Submit(j)
  <2>1. PICK r : r = [jobs[j] EXCEPT !.st = IF jobs[j].doms = {} THEN "refused" ELSE "pending",
                                     !.todo = jobs[j].doms]
    OBVIOUS
  <2>2. r \in JobRows
    BY <2>1, JobTyped DEF JobRows, Answers
  <2>3. jobs' = [jobs EXCEPT ![j] = r]
    BY <1>1, <2>1 DEF Submit, ServerTyped
  <2>4. OtherJobs(j) /\ jobs'[j] = r
    BY <2>2, <2>3, JobSet
  <2>5. /\ r.st = (IF jobs[j].doms = {} THEN "refused" ELSE "pending") /\ r.todo = jobs[j].doms
        /\ r.done = jobs[j].done /\ r.failed = jobs[j].failed /\ r.again = jobs[j].again
        /\ r.doms = jobs[j].doms /\ r.force = jobs[j].force
    BY <2>1, JobTyped DEF JobRows
  <2> QED BY <1>1, <2>4, <2>5 DEF Submit, SameCount
<1>2. CASE SubmitLost(j)
  <2>1. PICK r : r = [jobs[j] EXCEPT !.st = "refused"]
    OBVIOUS
  <2>2. r \in JobRows
    BY <2>1, JobTyped DEF JobRows
  <2>3. jobs' = [jobs EXCEPT ![j] = r]
    BY <1>2, <2>1 DEF SubmitLost, ServerTyped
  <2>4. OtherJobs(j) /\ jobs'[j] = r
    BY <2>2, <2>3, JobSet
  <2> QED BY <1>2, <2>1, <2>4, JobTyped DEF SubmitLost, JobRows, SameCount
<1> QED BY <1>1, <1>2

\* An item gets its row and its task, or is left out.
LEMMA AddDoes ==
  ASSUME ImportConstants, ServerTyped, NEW j \in Jobs, NEW d \in Domains, AddItem(j, d) \/ AddFails(j, d)
  PROVE  /\ OtherJobs(j) /\ SameCount(j) /\ jobs'[j].again = jobs[j].again /\ jobs'[j].st = jobs[j].st
         /\ jobs'[j].doms = jobs[j].doms /\ jobs'[j].force = jobs[j].force
         /\ d \in jobs[j].todo /\ jobs'[j].todo = jobs[j].todo \ {d}
         /\ OtherItems(j, d) /\ UNCHANGED <<sites, tabVars>>
         /\ \/ UNCHANGED runs
            \/ /\ OtherRuns(j, d) /\ runs'[j][d].at = "queued" /\ ~runs'[j][d].counted
               /\ runs'[j][d].made = 0
<1>1. CASE AddItem(j, d)
  <2>1. PICK r : r = [jobs[j] EXCEPT !.todo = @ \ {d}]
    OBVIOUS
  <2>2. r \in JobRows
    BY <2>1, JobTyped DEF JobRows
  <2>3. jobs' = [jobs EXCEPT ![j] = r]
    BY <1>1, <2>1 DEF AddItem, ServerTyped
  <2>4. OtherJobs(j) /\ jobs'[j] = r
    BY <2>2, <2>3, JobSet
  <2>5. PICK q : q = [NoRun EXCEPT !.at = "queued", !.left = Reruns]
    OBVIOUS
  <2>6. q \in RunStates /\ q.at = "queued" /\ ~q.counted /\ q.made = 0
    <3>1. q = [at |-> "queued", left |-> Reruns, saw |-> "none", ok |-> FALSE, counted |-> FALSE,
               say |-> "none", made |-> 0, torn |-> FALSE]
      BY <2>5 DEF NoRun
    <3>2. Reruns \in 0..Reruns
      BY DEF ImportConstants
    <3> QED BY <3>1, <3>2 DEF RunStates, LinkStates
  <2>7. runs' = [runs EXCEPT ![j][d] = q]
    BY <1>1, <2>5 DEF AddItem
  <2>8. OtherRuns(j, d) /\ runs'[j][d] = q
    BY <2>6, <2>7, JobRuns
  <2>9. OtherItems(j, d)
    BY <1>1 DEF AddItem, ServerTyped, OtherItems, ItemStates
  <2>10. /\ r.todo = jobs[j].todo \ {d}
        /\ r.done = jobs[j].done /\ r.failed = jobs[j].failed /\ r.again = jobs[j].again
        /\ r.doms = jobs[j].doms /\ r.force = jobs[j].force /\ r.st = jobs[j].st
    BY <2>1, JobTyped DEF JobRows
  <2> QED BY <1>1, <2>4, <2>6, <2>8, <2>9, <2>10 DEF AddItem, SameCount
<1>2. CASE AddFails(j, d)
  <2>1. PICK r : r = [jobs[j] EXCEPT !.todo = @ \ {d}, !.short = TRUE]
    OBVIOUS
  <2>2. r \in JobRows
    BY <2>1, JobTyped DEF JobRows
  <2>3. jobs' = [jobs EXCEPT ![j] = r]
    BY <1>2, <2>1 DEF AddFails, ServerTyped
  <2>4. OtherJobs(j) /\ jobs'[j] = r
    BY <2>2, <2>3, JobSet
  <2>5. OtherItems(j, d)
    BY <1>2 DEF AddFails, ServerTyped, OtherItems, ItemStates
  <2>6. /\ r.todo = jobs[j].todo \ {d}
        /\ r.done = jobs[j].done /\ r.failed = jobs[j].failed /\ r.again = jobs[j].again
        /\ r.doms = jobs[j].doms /\ r.force = jobs[j].force /\ r.st = jobs[j].st
    BY <2>1, JobTyped DEF JobRows
  <2> QED BY <1>2, <2>4, <2>5, <2>6 DEF AddFails, SameCount
<1> QED BY <1>1, <1>2

\* What the hook makes of a poll that ended keeps its types.
LEMMA TockTyped ==
  ASSUME ImportConstants, NEW h \in Hooks, h.timer # NoJob => h.timer \in h.ticking,
         NEW j \in Jobs, NEW first \in BOOLEAN
  PROVE  /\ Tock(h, j, first) \in Hooks
         /\ Tock(h, j, first).timer # NoJob => Tock(h, j, first).timer \in Tock(h, j, first).ticking
         /\ Tock(h, j, first).ticking \subseteq h.ticking \cup {j}
         /\ h.ticking \subseteq Tock(h, j, first).ticking
         /\ first => j \in Tock(h, j, first).ticking
         /\ Tock(h, j, first).job = h.job /\ Tock(h, j, first).st = h.st
         /\ Tock(h, j, first).importing = h.importing
<1>1. CASE first
  <2>1. PICK g : g = [h EXCEPT !.timer = j, !.ticking = @ \cup {j}]
    OBVIOUS
  <2>2. g \in Hooks /\ g.timer = j /\ g.ticking = h.ticking \cup {j} /\ g.job = h.job /\ g.st = h.st
        /\ g.importing = h.importing
    BY <2>1 DEF Hooks
  <2>3. Tock(h, j, first) = g
    BY <1>1, <2>1 DEF Tock
  <2> QED BY <2>2, <2>3
<1>2. CASE ~first
  BY <1>2 DEF Tock
<1> QED BY <1>1, <1>2

LEMMA StopTyped ==
  ASSUME NEW h \in Hooks, h.timer # NoJob => h.timer \in h.ticking, NEW st \in Answers
  PROVE  /\ Stop(h, st) \in Hooks
         /\ Stop(h, st).timer # NoJob => Stop(h, st).timer \in Stop(h, st).ticking
         /\ Stop(h, st).ticking = IF st \in Finished THEN h.ticking \ {h.timer} ELSE h.ticking
         /\ Stop(h, st).job = h.job /\ Stop(h, st).st = h.st
         /\ st \notin Finished => Stop(h, st).importing = h.importing
<1>1. CASE st \in Finished
  <2>1. PICK g : g = [h EXCEPT !.importing = FALSE, !.ticking = @ \ {h.timer}, !.timer = NoJob]
    OBVIOUS
  <2>2. g \in Hooks /\ g.timer = NoJob /\ g.ticking = h.ticking \ {h.timer} /\ g.job = h.job /\ g.st = h.st
    BY <2>1 DEF Hooks
  <2>3. Stop(h, st) = g
    BY <1>1, <2>1 DEF Stop
  <2> QED BY <1>1, <2>2, <2>3
<1>2. CASE st \notin Finished
  BY <1>2 DEF Stop
<1> QED BY <1>1, <1>2
-----------------------------------------------------------------------------
TabTyped ==
  /\ modal \in [at : {"closed", "select", "preview"}, doms : SUBSET Domains, force : BOOLEAN,
                loading : BOOLEAN]
  /\ hook \in Hooks /\ (hook.timer # NoJob => hook.timer \in hook.ticking)
  /\ asks \subseteq Jobs /\ progress \in BOOLEAN /\ ready \subseteq Domains
  /\ polls \subseteq PollStates
  /\ PastTyped

LEMMA TypesSplit == ImportTypeOK /\ PastTyped <=> ServerTyped /\ TabTyped
  BY DEF ImportTypeOK, ServerTyped, TabTyped, JobRows, ItemStates, RunStates, Hooks, PollStates

LEMMA OtherRowsKept ==
  ASSUME ImportBase, NEW j \in Jobs, RowOk(j)',
         \A i \in Jobs \ {j} : jobs'[i] = jobs[i] /\ \A e \in Domains : runs'[i][e] = runs[i][e],
         hook'.ticking \subseteq hook.ticking \cup {j}, asks' \subseteq asks \cup {j},
         \A p \in polls' : p.job = j \/ p \in polls
  PROVE  RowsInv'
<1> SUFFICES ASSUME NEW i \in Jobs, i # j PROVE RowOk(i)'
  BY DEF RowsInv
<1>1. RowOk(i)
  BY DEF ImportBase, RowsInv
<1>2. jobs'[i] = jobs[i] /\ \A e \in Domains : runs'[i][e] = runs[i][e]
  OBVIOUS
<1>3. jobs[i].todo \subseteq Domains
  BY TypesSplit, JobTyped DEF ImportBase, JobRows
<1> QED BY <1>1, <1>2, <1>3 DEF RowOk

LEMMA WorkersKeepBase ==
  ASSUME ImportConstants, ImportBase, NEW j \in Jobs, NEW d \in Domains,
         WorkerStep(j, d) \/ StepFails(j, d) \/ Crash(j, d)
  PROVE  ImportBase'
<1>1. ServerTyped /\ TabTyped /\ RowOk(j) /\ runs[j][d] \in RunStates /\ jobs[j] \in JobRows
  BY TypesSplit, RunTyped, JobTyped DEF ImportBase, RowsInv
<1>2. runs[j][d].at # "none"
  BY DEF WorkerStep, Take, Fetch, Baseline, Linked, RecordItem, StepFails, Count, LookAtItems, Finish, Leave, Crash,
         At, Working
<1>3. jobs[j].st \in LiveStates /\ runs[j][d] # NoRun /\ d \in jobs[j].doms /\ d \notin jobs[j].todo
  BY <1>1, <1>2 DEF RowOk, NoRun
<1>4. SUFFICES ASSUME UNCHANGED tabVars, OtherRuns(j, d),
                      jobs' = jobs \/ SameJob(j), jobs'[j].st \in LiveStates,
                      items' = items \/ OtherItems(j, d),
                      sites' \in [Domains -> [html : BOOLEAN, link : LinkStates, ssh : BOOLEAN]],
                      runs'[j][d].at = "close" => runs'[j][d].say \in Finished
               PROVE  ImportBase'
  <2> USE <1>1
  <2>0. sites \in [Domains -> [html : BOOLEAN, link : LinkStates, ssh : BOOLEAN]]
    BY DEF ServerTyped
  <2>1. CASE Take(j, d)
    BY <2>0, <2>1, <1>3, TakeDoes DEF Moves, LiveStates
  <2>2. CASE Fetch(j, d)
    BY <2>0, <2>2, <1>3, FetchDoes DEF Moves
  <2>3. CASE Baseline(j, d)
    BY <2>0, <2>3, <1>3, BaselineDoes DEF Moves
  <2>4. CASE Linked(j, d)
    BY <2>0, <2>4, <1>3, LinkedDoes DEF Moves
  <2>5. CASE RecordItem(j, d)
    BY <2>0, <2>5, <1>3, RecordDoes
  <2>6. CASE StepFails(j, d)
    BY <2>0, <2>6, <1>3, StepFailsDoes
  <2>7. CASE Count(j, d)
    BY <2>0, <2>7, <1>3, CountDoes
  <2>8. CASE LookAtItems(j, d)
    BY <2>0, <2>8, <1>3, LookDoes DEF Moves, Finished
  <2>9. CASE Finish(j, d)
    <3>1. runs[j][d].at = "close" /\ runs[j][d].say \in Finished
      BY <2>9 DEF Finish, At, RowOk
    <3> QED BY <2>0, <2>9, <3>1, FinishDoes DEF Moves, LiveStates
  <2>10. CASE Leave(j, d)
    BY <2>0, <2>10, <1>3, LeaveDoes DEF Returns
  <2>11. CASE Crash(j, d)
    BY <2>0, <2>11, <1>3, CrashDoes DEF Returns
  <2> QED BY <2>1, <2>2, <2>3, <2>4, <2>5, <2>6, <2>7, <2>8, <2>9, <2>10, <2>11 DEF WorkerStep
<1>5. ServerTyped' /\ TabTyped'
  <2>1. TabTyped'
    BY <1>1, <1>4 DEF tabVars, TabTyped, PastTyped
  <2>2. ServerTyped'
    BY <1>1, <1>4 DEF ServerTyped, SameJob, OtherJobs, OtherItems, OtherRuns
  <2> QED BY <2>1, <2>2
<1>6. /\ jobs'[j].doms = jobs[j].doms /\ jobs'[j].todo = jobs[j].todo
      /\ \A i \in Jobs \ {j} : jobs'[i] = jobs[i]
  BY <1>4 DEF SameJob, OtherJobs
<1>7. /\ \A e \in Domains \ {d} : runs'[j][e] = runs[j][e]
      /\ \A i \in Jobs \ {j}, e \in Domains : runs'[i][e] = runs[i][e]
  BY <1>4 DEF OtherRuns
<1>8. jobs[j].todo \subseteq Domains
  BY <1>1 DEF JobRows
<1>9. hook' = hook /\ asks' = asks /\ polls' = polls
  BY <1>4 DEF tabVars
<1>10. RowOk(j)'
  BY <1>1, <1>3, <1>4, <1>6, <1>7, <1>8, <1>9 DEF RowOk, LiveStates, Finished
<1>11. RowsInv'
  BY <1>6, <1>7, <1>9, <1>10, OtherRowsKept
<1>12. ImportTypeOK' /\ PastTyped'
  BY <1>5, TypesSplit, PTL
<1> QED BY <1>11, <1>12 DEF ImportBase

\* A worker changes the row of its job and of its item, and the task it has.
LEMMA WorkersStayIn ==
  ASSUME ImportConstants, ImportBase, NEW j \in Jobs, NEW d \in Domains,
         WorkerStep(j, d) \/ StepFails(j, d) \/ Crash(j, d)
  PROVE  /\ OtherRuns(j, d) /\ (jobs' = jobs \/ OtherJobs(j)) /\ (items' = items \/ OtherItems(j, d))
         /\ (jobs[j].again => jobs'[j].again) /\ UNCHANGED tabVars
         /\ jobs[j].st \in Finished => jobs'[j].st \in Finished
<1> USE TypesSplit DEF ImportBase
<1>1. CASE Take(j, d)
  BY <1>1, TakeDoes DEF Moves, SameJob, Finished
<1>2. CASE Fetch(j, d)
  BY <1>2, FetchDoes DEF Moves
<1>3. CASE Baseline(j, d)
  BY <1>3, BaselineDoes DEF Moves
<1>4. CASE Linked(j, d)
  BY <1>4, LinkedDoes DEF Moves
<1>5. CASE RecordItem(j, d)
  BY <1>5, RecordDoes
<1>6. CASE StepFails(j, d)
  BY <1>6, StepFailsDoes
<1>7. CASE Count(j, d)
  BY <1>7, CountDoes DEF SameJob
<1>8. CASE LookAtItems(j, d)
  BY <1>8, LookDoes DEF Moves
<1>9. CASE Finish(j, d)
  <2>1. runs[j][d].say \in Finished
    BY <1>9 DEF Finish, At, RowsInv, RowOk
  <2> QED BY <1>9, <2>1, FinishDoes DEF Moves, SameJob
<1>10. CASE Leave(j, d) \/ Crash(j, d)
  <2>1. Returns(j, d) /\ UNCHANGED <<items, tabVars>>
    BY <1>10, LeaveDoes, CrashDoes
  <2> QED BY <2>1 DEF Returns, SameJob
<1> QED BY <1>1, <1>2, <1>3, <1>4, <1>5, <1>6, <1>7, <1>8, <1>9, <1>10 DEF WorkerStep

LEMMA StartKeepsBase ==
  ASSUME ImportConstants, ImportBase, NEW j \in Jobs, Start(j)
  PROVE  ImportBase'
<1>1. ServerTyped /\ TabTyped /\ RowOk(j)
  BY TypesSplit DEF ImportBase, RowsInv
<1>2. /\ OtherJobs(j) /\ jobs'[j].st = "asked" /\ jobs'[j].todo = {} /\ jobs'[j].done = 0
      /\ jobs'[j].failed = 0 /\ jobs[j] = NoJobRow
      /\ asks' = asks \cup {j} /\ UNCHANGED <<items, runs, sites, polls, ready>>
      /\ hook' = [hook EXCEPT !.importing = TRUE] /\ modal' = Shut /\ progress' = TRUE
  BY StartDoes DEF ImportBase
<1>3. hook' \in Hooks /\ hook'.timer = hook.timer /\ hook'.ticking = hook.ticking
  BY <1>1, <1>2 DEF TabTyped, Hooks
<1>4. past' \in [overlapped : BOOLEAN, astray : BOOLEAN]
  <2>1. past' = [past EXCEPT !.overlapped = @ \/ hook.importing \/ hook.ticking # {} \/ polls # {}]
    BY DEF Start
  <2>2. hook.importing \in BOOLEAN
    BY <1>1 DEF TabTyped, Hooks
  <2> QED BY <1>1, <2>1, <2>2 DEF TabTyped, PastTyped
<1>5. TabTyped'
  BY <1>1, <1>2, <1>3, <1>4, Rests DEF TabTyped, PastTyped
<1>6. ServerTyped'
  BY <1>1, <1>2 DEF ServerTyped, OtherJobs
<1>7. jobs[j].st = "none" /\ jobs[j].st \notin LiveStates
  BY <1>2, Rests DEF LiveStates, Finished
<1>8. RowOk(j)'
  <2>1. \A d \in Domains : runs'[j][d] = NoRun
    BY <1>1, <1>2, <1>7 DEF RowOk
  <2>2. j \notin hook'.ticking /\ \A p \in polls' : p.job # j
    BY <1>1, <1>2, <1>3, <1>7 DEF RowOk
  <2> QED BY <1>2, <2>1, <2>2, Rests DEF RowOk, LiveStates, Finished
<1>9. RowsInv'
  BY <1>2, <1>3, <1>8, OtherRowsKept DEF OtherJobs
<1>10. ImportTypeOK' /\ PastTyped'
  BY <1>5, <1>6, TypesSplit, PTL
<1> QED BY <1>9, <1>10 DEF ImportBase

LEMMA SubmitKeepsBase ==
  ASSUME ImportConstants, ImportBase, NEW j \in Jobs,
         \/ Submit(j) \/ SubmitLost(j)
         \/ \E d \in Domains : AddItem(j, d) \/ AddFails(j, d)
  PROVE  ImportBase'
<1>1. ServerTyped /\ TabTyped /\ RowOk(j) /\ jobs[j] \in JobRows
  BY TypesSplit, JobTyped DEF ImportBase, RowsInv
<1>2. CASE Submit(j) \/ SubmitLost(j)
  <2>1. jobs[j].st = "asked" /\ jobs[j].st \notin LiveStates
    BY <1>2 DEF Submit, SubmitLost, LiveStates, Finished
  <2>2. /\ OtherJobs(j) /\ SameCount(j) /\ jobs'[j].doms = jobs[j].doms
        /\ UNCHANGED <<items, runs, sites, tabVars>>
        /\ \/ jobs'[j].st = "refused" /\ jobs'[j].todo = {}
           \/ jobs'[j].st = "pending" /\ jobs'[j].todo = jobs[j].doms /\ jobs[j].doms # {}
    BY <1>1, <1>2, <2>1, SubmitDoes DEF RowOk
  <2>3. \A d \in Domains : runs'[j][d] = NoRun
    BY <1>1, <2>1, <2>2 DEF RowOk
  <2>4. hook' = hook /\ asks' = asks /\ polls' = polls
    BY <2>2 DEF tabVars
  <2>5. RowOk(j)'
    <3>1. jobs[j].doms \subseteq Domains
      BY <1>1 DEF JobRows
    <3>2. SameCount(j) /\ jobs[j].done = 0 /\ jobs[j].failed = 0
          /\ j \notin hook.ticking /\ \A p \in polls : p.job # j
      BY <1>1, <2>1, <2>2 DEF RowOk
    <3> QED BY <2>2, <2>3, <2>4, <3>1, <3>2, Rests DEF RowOk, LiveStates, Finished, SameCount
  <2>6. RowsInv'
    BY <2>2, <2>4, <2>5, OtherRowsKept DEF OtherJobs
  <2>7. ServerTyped' /\ TabTyped'
    BY <1>1, <2>2 DEF ServerTyped, TabTyped, PastTyped, OtherJobs, tabVars
  <2>8. ImportTypeOK' /\ PastTyped'
    BY <2>7, TypesSplit, PTL
  <2> QED BY <2>6, <2>8 DEF ImportBase
<1>3. ASSUME NEW d \in Domains, AddItem(j, d) \/ AddFails(j, d) PROVE ImportBase'
  <2>1. /\ OtherJobs(j) /\ SameCount(j) /\ jobs'[j].st = jobs[j].st
        /\ jobs'[j].doms = jobs[j].doms
        /\ d \in jobs[j].todo /\ jobs'[j].todo = jobs[j].todo \ {d}
        /\ OtherItems(j, d) /\ UNCHANGED <<sites, tabVars>>
        /\ \/ UNCHANGED runs
           \/ OtherRuns(j, d) /\ runs'[j][d].at = "queued"
    BY <1>1, <1>3, AddDoes
  <2>2. jobs[j].st \in LiveStates /\ d \in jobs[j].doms
    BY <1>1, <2>1 DEF RowOk
  <2>3. hook' = hook /\ asks' = asks /\ polls' = polls
    BY <2>1 DEF tabVars
  <2>4. \A e \in Domains \ {d} : runs'[j][e] = runs[j][e]
    BY <2>1 DEF OtherRuns
  <2>5. runs'[j][d] = runs[j][d] \/ runs'[j][d].at = "queued"
    BY <2>1
  <2>6. RowOk(j)'
    <3>1. jobs[j].todo \subseteq Domains
      BY <1>1 DEF JobRows
    <3> QED BY <1>1, <2>1, <2>2, <2>3, <2>4, <2>5, <3>1 DEF RowOk, LiveStates, Finished
  <2>7. RowsInv'
    BY <2>1, <2>3, <2>6, OtherRowsKept DEF OtherJobs, OtherRuns
  <2>8. ServerTyped' /\ TabTyped'
    BY <1>1, <2>1 DEF ServerTyped, TabTyped, PastTyped, OtherJobs, OtherItems, OtherRuns, tabVars
  <2>9. ImportTypeOK' /\ PastTyped'
    BY <2>8, TypesSplit, PTL
  <2> QED BY <2>7, <2>9 DEF ImportBase
<1> QED BY <1>2, <1>3

LEMMA HookBase ==
  ASSUME ImportConstants, ImportBase, UNCHANGED serverVars, TabTyped',
         asks' \subseteq asks,
         \A k \in hook'.ticking : jobs[k].st \in LiveStates,
         \A p \in polls' : jobs[p.job].st \in LiveStates
  PROVE  ImportBase'
<1>1. ServerTyped /\ TabTyped
  BY TypesSplit DEF ImportBase
<1>2. ServerTyped'
  BY <1>1 DEF ServerTyped, serverVars
<1>3. ImportTypeOK' /\ PastTyped'
  BY <1>2, TypesSplit, PTL
<1>4. RowsInv'
  <2> SUFFICES ASSUME NEW j \in Jobs PROVE RowOk(j)'
    BY DEF RowsInv
  <2>1. RowOk(j)
    BY DEF ImportBase, RowsInv
  <2>2. jobs[j].st \notin LiveStates => j \notin hook'.ticking /\ \A p \in polls' : p.job # j
    OBVIOUS
  <2>3. jobs' = jobs /\ runs' = runs
    BY DEF serverVars
  <2> QED BY <2>1, <2>2, <2>3 DEF RowOk
<1> QED BY <1>3, <1>4 DEF ImportBase

LEMMA FollowedLive ==
  ASSUME ImportBase
  PROVE  /\ \A k \in hook.ticking : jobs[k].st \in LiveStates
         /\ \A p \in polls : p.job \in Jobs /\ jobs[p.job].st \in LiveStates
<1>1. hook.ticking \subseteq Jobs /\ \A p \in polls : p.job \in Jobs
  BY TypesSplit DEF ImportBase, TabTyped, Hooks, PollStates
<1> QED BY <1>1 DEF ImportBase, RowsInv, RowOk

LEMMA PollTyped ==
  ASSUME NEW j \in Jobs, NEW first \in BOOLEAN
  PROVE  /\ Poll(j, first) \in PollStates /\ Poll(j, first).job = j /\ Poll(j, first).first = first
         /\ Poll(j, first).got = "none" /\ Poll(j, first).last
  BY DEF Poll, PollStates, Answers

\* The answer is what the row says; answers read before it are no longer the last.
LEMMA ReadJobDoes ==
  ASSUME ImportBase, NEW j \in Jobs, ReadJob(j)
  PROVE  /\ UNCHANGED <<serverVars, modal, hook, asks, progress, ready, past>>
         /\ polls' \subseteq PollStates
         /\ \A q \in polls' :
              \/ /\ q.job = j /\ q.got = jobs[j].st
                 /\ \E p \in polls : p.job = j /\ p.first = q.first
              \/ \E p \in polls : /\ q.job = p.job /\ q.first = p.first /\ q.got = p.got
                                  /\ q.last => q.got = "none"
         /\ \A p \in polls : \E q \in polls' : q.job = p.job /\ q.first = p.first
<1>1. polls \subseteq PollStates /\ jobs[j].st \in Answers \cup {"asked", "refused"}
  BY TypesSplit, JobTyped DEF ImportBase, TabTyped, JobRows
<1>2. PICK p \in polls :
        /\ p.job = j /\ p.got = "none"
        /\ polls' = {[q EXCEPT !.last = q.got = "none"] : q \in polls \ {p}}
                     \cup {[p EXCEPT !.got = jobs[j].st]}
  BY DEF ReadJob
<1>3. PICK c : c = [p EXCEPT !.got = jobs[j].st]
  OBVIOUS
<1>4. jobs[j].st \in Answers
  BY <1>2, FollowedLive DEF LiveStates, Answers, Finished
<1>5. c \in PollStates /\ c.job = j /\ c.got = jobs[j].st /\ c.first = p.first
  BY <1>1, <1>2, <1>3, <1>4 DEF PollStates
<1>6. \A q \in polls : /\ [q EXCEPT !.last = q.got = "none"] \in PollStates
                       /\ [q EXCEPT !.last = q.got = "none"].job = q.job
                       /\ [q EXCEPT !.last = q.got = "none"].first = q.first
                       /\ [q EXCEPT !.last = q.got = "none"].got = q.got
                       /\ [q EXCEPT !.last = q.got = "none"].last = (q.got = "none")
  BY <1>1 DEF PollStates
<1>7. \A q \in polls' : q = c \/ \E r \in polls : q = [r EXCEPT !.last = r.got = "none"]
  BY <1>2, <1>3
<1>8. c \in polls' /\ \A q \in polls \ {p} : [q EXCEPT !.last = q.got = "none"] \in polls'
  BY <1>2, <1>3
<1>9. polls' \subseteq PollStates
  BY <1>5, <1>6, <1>7
<1>10. ASSUME NEW q \in polls'
       PROVE  \/ /\ q.job = j /\ q.got = jobs[j].st
                 /\ \E r \in polls : r.job = j /\ r.first = q.first
              \/ \E r \in polls : /\ q.job = r.job /\ q.first = r.first /\ q.got = r.got
                                  /\ q.last => q.got = "none"
  <2>1. CASE q = c
    BY <1>2, <1>5, <2>1
  <2>2. ASSUME NEW r \in polls, q = [r EXCEPT !.last = r.got = "none"]
        PROVE  \E t \in polls : /\ q.job = t.job /\ q.first = t.first /\ q.got = t.got
                                /\ q.last => q.got = "none"
    <3>1. q.job = r.job /\ q.first = r.first /\ q.got = r.got
      BY <1>6, <2>2
    <3>2. q.last = (r.got = "none")
      BY <1>6, <2>2
    <3>3. q.last => q.got = "none"
      BY <3>1, <3>2
    <3> QED BY <3>1, <3>3
  <2> QED BY <1>7, <2>1, <2>2
<1>11. \A r \in polls : \E q \in polls' : q.job = r.job /\ q.first = r.first
  <2> SUFFICES ASSUME NEW r \in polls PROVE \E q \in polls' : q.job = r.job /\ q.first = r.first
    OBVIOUS
  <2>1. CASE r = p
    BY <1>2, <1>5, <1>8, <2>1
  <2>2. CASE r # p
    BY <1>6, <1>8, <2>2
  <2> QED BY <2>1, <2>2
<1> QED BY <1>9, <1>10, <1>11 DEF ReadJob

\* A poll that brings an answer, or none, is over; the interval is set after the first.
LEMMA ArriveDoes ==
  ASSUME ImportConstants, ImportBase, NEW j \in Jobs, PollArrives(j)
  PROVE  \E p \in polls :
           /\ p.job = j /\ p.got # "none" /\ p.got \in Answers /\ polls' = polls \ {p}
           /\ hook' \in Hooks /\ (hook'.timer # NoJob => hook'.timer \in hook'.ticking)
           /\ hook'.job = j /\ hook'.st = p.got
           /\ p.got \notin Finished => hook'.importing = hook.importing /\ hook.ticking \subseteq hook'.ticking
           /\ hook'.ticking \subseteq hook.ticking \cup {j} /\ hook.ticking \ {hook.timer} \subseteq hook'.ticking
           /\ p.first => j \in hook'.ticking
           /\ past' = [past EXCEPT !.astray = ~p.last]
<1>1. hook \in Hooks /\ (hook.timer # NoJob => hook.timer \in hook.ticking) /\ polls \subseteq PollStates
  BY TypesSplit DEF ImportBase, TabTyped
<1>2. PICK p \in polls :
        /\ p.job = j /\ p.got # "none"
        /\ polls' = polls \ {p}
        /\ hook' = Tock(Stop([hook EXCEPT !.job = j, !.st = p.got], p.got), j, p.first)
        /\ past' = [past EXCEPT !.astray = ~p.last]
  BY DEF PollArrives
<1>3. p.got \in Answers /\ p.first \in BOOLEAN
  BY <1>1 DEF PollStates
<1>4. PICK h : h = [hook EXCEPT !.job = j, !.st = p.got]
  OBVIOUS
<1>5. /\ h \in Hooks /\ h.timer = hook.timer /\ h.ticking = hook.ticking /\ h.job = j /\ h.st = p.got
      /\ h.importing = hook.importing
  BY <1>1, <1>3, <1>4 DEF Hooks
<1>6. PICK g : g = Stop(h, p.got)
  OBVIOUS
<1>7. /\ g \in Hooks /\ (g.timer # NoJob => g.timer \in g.ticking)
      /\ g.ticking = IF p.got \in Finished THEN h.ticking \ {h.timer} ELSE h.ticking
      /\ g.job = j /\ g.st = p.got
      /\ p.got \notin Finished => g.importing = hook.importing
  BY <1>1, <1>3, <1>5, <1>6, StopTyped
<1>8. hook' = Tock(g, j, p.first)
  BY <1>2, <1>4, <1>6
<1>9. /\ hook' \in Hooks /\ (hook'.timer # NoJob => hook'.timer \in hook'.ticking)
      /\ hook'.ticking \subseteq g.ticking \cup {j} /\ g.ticking \subseteq hook'.ticking
      /\ (p.first => j \in hook'.ticking)
      /\ hook'.job = j /\ hook'.st = p.got /\ hook'.importing = g.importing
  BY <1>3, <1>7, <1>8, TockTyped
<1> QED BY <1>2, <1>3, <1>5, <1>7, <1>9

LEMMA PollFailsDoes ==
  ASSUME ImportConstants, ImportBase, NEW j \in Jobs, PollFails(j)
  PROVE  \E p \in polls :
           /\ p.job = j /\ polls' = polls \ {p}
           /\ hook' \in Hooks /\ (hook'.timer # NoJob => hook'.timer \in hook'.ticking)
           /\ hook'.job = hook.job /\ hook'.st = hook.st /\ hook'.importing = hook.importing
           /\ hook'.ticking \subseteq hook.ticking \cup {j} /\ hook.ticking \subseteq hook'.ticking
           /\ p.first => j \in hook'.ticking
<1>1. hook \in Hooks /\ (hook.timer # NoJob => hook.timer \in hook.ticking) /\ polls \subseteq PollStates
  BY TypesSplit DEF ImportBase, TabTyped
<1>2. PICK p \in polls : p.job = j /\ polls' = polls \ {p} /\ hook' = Tock(hook, j, p.first)
  BY DEF PollFails
<1>3. p.first \in BOOLEAN
  BY <1>1 DEF PollStates
<1> QED BY <1>1, <1>2, <1>3, TockTyped

HookStep(j) == Started(j) \/ StartFails(j) \/ PollTicks(j) \/ ReadJob(j) \/ PollArrives(j) \/ PollFails(j)

LEMMA HookKeepsBase ==
  ASSUME ImportConstants, ImportBase, NEW j \in Jobs, HookStep(j)
  PROVE  ImportBase'
<1>1. ServerTyped /\ TabTyped /\ RowOk(j) /\ jobs[j] \in JobRows
  BY TypesSplit, JobTyped DEF ImportBase, RowsInv
<1>2. /\ \A k \in hook.ticking : jobs[k].st \in LiveStates
      /\ \A p \in polls : p.job \in Jobs /\ jobs[p.job].st \in LiveStates
  BY FollowedLive
<1>3. CASE Started(j)
  <2>1. jobs[j].st \in LiveStates
    <3>1. jobs[j].st # "none"
      BY <1>1, <1>3 DEF Started, RowOk
    <3> QED BY <1>1, <1>3, <3>1 DEF Started, JobRows, Answers, LiveStates
  <2>2. Poll(j, TRUE) \in PollStates /\ Poll(j, TRUE).job = j
    BY PollTyped
  <2>3. polls' = polls \cup {Poll(j, TRUE)} /\ asks' = asks \ {j}
        /\ UNCHANGED <<serverVars, modal, hook, progress, ready, past>>
    BY <1>3 DEF Started
  <2>4. TabTyped'
    BY <1>1, <2>2, <2>3 DEF TabTyped, PastTyped
  <2>5. \A p \in polls' : jobs[p.job].st \in LiveStates
    BY <1>2, <2>1, <2>2, <2>3
  <2> QED BY <1>2, <2>3, <2>4, <2>5, HookBase
<1>4. CASE StartFails(j)
  <2>1. hook' \in Hooks /\ hook'.timer = hook.timer /\ hook'.ticking = hook.ticking
    BY <1>1, <1>4 DEF StartFails, TabTyped, Hooks
  <2>2. TabTyped'
    BY <1>1, <1>4, <2>1 DEF StartFails, TabTyped, PastTyped
  <2> QED BY <1>2, <1>4, <2>1, <2>2, HookBase DEF StartFails
<1>5. CASE PollTicks(j)
  <2>1. Poll(j, FALSE) \in PollStates /\ Poll(j, FALSE).job = j
    BY PollTyped
  <2>2. polls' = polls \cup {Poll(j, FALSE)} /\ j \in hook.ticking
        /\ UNCHANGED <<serverVars, modal, hook, asks, progress, ready, past>>
    BY <1>5 DEF PollTicks
  <2>3. TabTyped'
    BY <1>1, <2>1, <2>2 DEF TabTyped, PastTyped
  <2>4. \A p \in polls' : jobs[p.job].st \in LiveStates
    BY <1>2, <2>1, <2>2
  <2> QED BY <1>2, <2>2, <2>3, <2>4, HookBase
<1>6. CASE ReadJob(j)
  <2>1. /\ UNCHANGED <<serverVars, modal, hook, asks, progress, ready, past>>
        /\ polls' \subseteq PollStates
        /\ \A q \in polls' : q.job = j \/ \E p \in polls : q.job = p.job
        /\ \A q \in polls' : q.job = j => \E p \in polls : p.job = j
    BY <1>6, ReadJobDoes
  <2>2. TabTyped'
    BY <1>1, <2>1 DEF TabTyped, PastTyped
  <2> QED BY <1>2, <2>1, <2>2, HookBase
<1>7. CASE PollArrives(j)
  <2>1. PICK p \in polls :
          /\ p.job = j /\ polls' = polls \ {p}
          /\ hook' \in Hooks /\ (hook'.timer # NoJob => hook'.timer \in hook'.ticking)
          /\ hook'.ticking \subseteq hook.ticking \cup {j}
          /\ past' = [past EXCEPT !.astray = ~p.last]
    BY <1>7, ArriveDoes
  <2>2. p.last \in BOOLEAN
    BY <1>1 DEF TabTyped, PollStates
  <2>3. TabTyped'
    BY <1>1, <1>7, <2>1, <2>2 DEF PollArrives, TabTyped, PastTyped
  <2> QED BY <1>2, <1>7, <2>1, <2>3, HookBase DEF PollArrives
<1>8. CASE PollFails(j)
  <2>1. PICK p \in polls :
          /\ p.job = j /\ polls' = polls \ {p}
          /\ hook' \in Hooks /\ (hook'.timer # NoJob => hook'.timer \in hook'.ticking)
          /\ hook'.ticking \subseteq hook.ticking \cup {j}
    BY <1>8, PollFailsDoes
  <2>2. TabTyped'
    BY <1>1, <1>8, <2>1 DEF PollFails, TabTyped, PastTyped
  <2> QED BY <1>2, <1>8, <2>1, <2>2, HookBase DEF PollFails
<1> QED BY <1>3, <1>4, <1>5, <1>6, <1>7, <1>8 DEF HookStep

LEMMA ImportBaseKept ==
  ImportConstants /\ ImportBase /\ [ImportNext]_importVars => ImportBase'
<1> SUFFICES ASSUME ImportConstants, ImportBase, [ImportNext]_importVars PROVE ImportBase'
  OBVIOUS
<1>1. CASE Windows
  BY <1>1, WindowsTyped
<1>2. ASSUME NEW j \in Jobs, Start(j) \/ Submit(j) \/ SubmitLost(j) PROVE ImportBase'
  BY <1>2, StartKeepsBase, SubmitKeepsBase
<1>3. ASSUME NEW j \in Jobs, NEW d \in Domains, AddItem(j, d) \/ AddFails(j, d) PROVE ImportBase'
  BY <1>3, SubmitKeepsBase
<1>4. ASSUME NEW j \in Jobs, NEW d \in Domains, WorkerStep(j, d) \/ StepFails(j, d) \/ Crash(j, d)
      PROVE  ImportBase'
  BY <1>4, WorkersKeepBase
<1>5. ASSUME NEW j \in Jobs, HookStep(j) PROVE ImportBase'
  BY <1>5, HookKeepsBase
<1>6. CASE UNCHANGED importVars
  BY <1>6 DEF importVars, serverVars, tabVars, ImportBase, ImportTypeOK, PastTyped, RowsInv, RowOk
<1> QED BY <1>1, <1>2, <1>3, <1>4, <1>5, <1>6 DEF ImportNext, Windows, HookStep

\* The tables of an import, what the hook shows and what it has under way stay what the
\* handlers, the workers and the page can produce.
THEOREM ImportTypes == ImportSpec => []ImportTypeOK
<1>1. ImportInit => ImportBase
  BY ImportAssumption, ImportStartsTyped
<1>2. ImportBase /\ [ImportNext]_importVars => ImportBase'
  BY ImportAssumption, ImportBaseKept
<1>3. ImportBase => ImportTypeOK
  BY DEF ImportBase
<1> QED BY <1>1, <1>2, <1>3, PTL DEF ImportSpec
-----------------------------------------------------------------------------
(* One link task for each domain *)

\* What the domain's row says of its link once the worker has told it.
Good(d) == IF sites[d].html THEN "same" ELSE "pending"

\* The worker is to make the link task, has made it and has not told the domain, or has told
\* it: then whoever reads the domain again reads that.
LinkOk(j, d) ==
  ~jobs[j].force /\ ~runs[j][d].torn =>
    \/ runs[j][d].made = 0 /\ runs[j][d].at # "linked"
    \/ runs[j][d].made = 1 /\ runs[j][d].at = "linked"
    \/ /\ runs[j][d].made = 1 /\ runs[j][d].at # "linked" /\ sites[d].link = Good(d)
       /\ runs[j][d].at \in {"fetch", "link"} => runs[j][d].saw = Good(d)

SiteLinkInv == \A j \in Jobs, d \in Domains : LinkOk(j, d)

\* Nobody undoes what the domain was told.
SitesTold ==
  \A e \in Domains : /\ sites'[e].html = sites[e].html
                     /\ sites'[e].link = sites[e].link \/ sites'[e].link = Good(e)

LEMMA OtherLinksKept ==
  ASSUME SiteLinkInv, NEW j \in Jobs, NEW d \in Domains, LinkOk(j, d)', SitesTold,
         \A i \in Jobs : jobs'[i].force = jobs[i].force,
         \A i \in Jobs, e \in Domains : i # j \/ e # d => runs'[i][e] = runs[i][e]
  PROVE  SiteLinkInv'
<1> SUFFICES ASSUME NEW i \in Jobs, NEW e \in Domains, i # j \/ e # d PROVE LinkOk(i, e)'
  BY DEF SiteLinkInv
<1>1. LinkOk(i, e) /\ runs'[i][e] = runs[i][e] /\ jobs'[i].force = jobs[i].force
  BY DEF SiteLinkInv
<1>2. /\ sites'[e].html = sites[e].html
      /\ sites'[e].link = sites[e].link \/ sites'[e].link = Good(e)
  BY DEF SitesTold
<1> QED BY <1>1, <1>2 DEF LinkOk, Good

LEMMA WorkersKeepLinks ==
  ASSUME ImportConstants, ImportBase, SiteLinkInv, NEW j \in Jobs, NEW d \in Domains,
         WorkerStep(j, d) \/ StepFails(j, d) \/ Crash(j, d)
  PROVE  SiteLinkInv'
<1>1. ServerTyped /\ LinkOk(j, d)
  BY TypesSplit DEF ImportBase, SiteLinkInv
<1>2. SUFFICES ASSUME OtherRuns(j, d), jobs' = jobs \/ SameJob(j), SitesTold, LinkOk(j, d)'
               PROVE  SiteLinkInv'
  <2> USE <1>1
  <2>0. sites' = sites => SitesTold
    BY DEF SitesTold
  <2>1. ASSUME runs'[j][d].at \notin {"fetch", "link", "linked"}, runs'[j][d].made = runs[j][d].made,
               runs[j][d].torn \/ runs[j][d].at = "linked" => runs'[j][d].torn,
               jobs'[j].force = jobs[j].force, sites'[d].link = sites[d].link, sites'[d].html = sites[d].html
        PROVE  LinkOk(j, d)'
    BY <2>1 DEF LinkOk, Good
  <2>2. CASE Take(j, d)
    <3>1. /\ Moves(j, d, "fetch") /\ runs'[j][d].saw = sites[d].link /\ SameJob(j)
          /\ runs[j][d].at = "queued" /\ sites' = sites
      BY <2>2, TakeDoes
    <3>2. LinkOk(j, d)'
      BY <3>1 DEF LinkOk, Good, Moves, SameJob
    <3> QED BY <2>0, <3>1, <3>2 DEF Moves
  <2>3. CASE Fetch(j, d)
    <3>1. /\ Moves(j, d, "link") /\ runs'[j][d].saw = runs[j][d].saw
          /\ runs[j][d].at = "fetch" /\ sites' = sites /\ jobs' = jobs
      BY <2>3, FetchDoes
    <3>2. LinkOk(j, d)'
      BY <3>1 DEF LinkOk, Good, Moves
    <3> QED BY <2>0, <3>1, <3>2 DEF Moves
  <2>4. CASE Baseline(j, d)
    <3>1. runs[j][d].at = "link" /\ UNCHANGED <<jobs, items, sites, tabVars>>
      BY <2>4, BaselineDoes
    <3>2. CASE Moves(j, d, "record")
      BY <2>0, <2>1, <3>1, <3>2 DEF Moves
    <3>3. CASE /\ OtherRuns(j, d) /\ runs'[j][d].at = "linked" /\ runs'[j][d].made = runs[j][d].made + 1
               /\ runs'[j][d].torn = runs[j][d].torn /\ ~Skips(j, d)
      <4>1. ~jobs[j].force => runs[j][d].saw # Good(d)
        BY <3>3 DEF Skips, Good
      <4>2. LinkOk(j, d)'
        BY <3>1, <3>3, <4>1 DEF LinkOk
      <4> QED BY <2>0, <3>1, <3>3, <4>2
    <3> QED BY <2>4, <3>2, <3>3, BaselineDoes
  <2>5. CASE Linked(j, d)
    <3>1. /\ Moves(j, d, "record") /\ runs[j][d].at = "linked" /\ jobs' = jobs
          /\ sites'[d].link = Good(d) /\ sites'[d].html = sites[d].html
          /\ \A e \in Domains \ {d} : sites'[e] = sites[e]
      BY <2>5, LinkedDoes DEF Good
    <3>2. LinkOk(j, d)'
      BY <3>1 DEF LinkOk, Good, Moves
    <3>3. SitesTold
      BY <3>1 DEF SitesTold
    <3> QED BY <3>1, <3>2, <3>3 DEF Moves
  <2>6. CASE RecordItem(j, d)
    <3>1. /\ OtherRuns(j, d) /\ runs'[j][d].at = "count" /\ runs'[j][d].made = runs[j][d].made
          /\ runs'[j][d].torn = runs[j][d].torn /\ runs[j][d].at = "record" /\ jobs' = jobs
          /\ \A e \in Domains : sites'[e].link = sites[e].link /\ sites'[e].html = sites[e].html
      BY <2>6, RecordDoes
    <3> QED BY <2>1, <3>1 DEF SitesTold
  <2>7. CASE StepFails(j, d)
    BY <2>0, <2>1, <2>7, StepFailsDoes
  <2>8. CASE Count(j, d)
    BY <2>0, <2>1, <2>8, CountDoes DEF SameJob
  <2>9. CASE LookAtItems(j, d)
    BY <2>0, <2>1, <2>9, LookDoes DEF Moves
  <2>10. CASE Finish(j, d)
    <3>1. runs[j][d].say \in Finished
      BY <2>10 DEF Finish, At, ImportBase, RowsInv, RowOk
    <3> QED BY <2>0, <2>1, <2>10, <3>1, FinishDoes DEF Moves, SameJob
  <2>11. CASE Leave(j, d) \/ Crash(j, d)
    <3>1. Returns(j, d) /\ sites' = sites
      BY <2>11, LeaveDoes, CrashDoes
    <3> QED BY <2>0, <2>1, <3>1 DEF Returns, SameJob
  <2> QED BY <2>2, <2>3, <2>4, <2>5, <2>6, <2>7, <2>8, <2>9, <2>10, <2>11 DEF WorkerStep
<1>3. \A i \in Jobs : jobs'[i].force = jobs[i].force
  BY <1>2 DEF SameJob, OtherJobs
<1> QED BY <1>2, <1>3, OtherLinksKept DEF OtherRuns

LEMMA LinkInvKept ==
  ImportConstants /\ ImportBase /\ SiteLinkInv /\ [ImportNext]_importVars => SiteLinkInv'
<1> SUFFICES ASSUME ImportConstants, ImportBase, SiteLinkInv, [ImportNext]_importVars PROVE SiteLinkInv'
  OBVIOUS
<1>0. ServerTyped
  BY TypesSplit DEF ImportBase
<1>1. ASSUME UNCHANGED serverVars PROVE SiteLinkInv'
  BY <1>1 DEF SiteLinkInv, LinkOk, Good, serverVars
<1>2. ASSUME NEW j \in Jobs, Start(j) \/ Submit(j) \/ SubmitLost(j) PROVE SiteLinkInv'
  <2>1. RowOk(j)
    BY DEF ImportBase, RowsInv
  <2>2. jobs[j].st \notin LiveStates /\ jobs[j].todo = {}
    BY <1>2, <2>1, Rests DEF Start, Submit, SubmitLost, LiveStates, Finished, RowOk
  <2>3. OtherJobs(j) /\ runs' = runs /\ sites' = sites
    BY <1>0, <1>2, <2>2, StartDoes, SubmitDoes DEF ImportBase
  <2> SUFFICES ASSUME NEW i \in Jobs, NEW d \in Domains PROVE LinkOk(i, d)'
    BY DEF SiteLinkInv
  <2>4. CASE i = j
    <3>1. runs[j][d] = NoRun
      BY <2>1, <2>2 DEF RowOk
    <3> QED BY <2>3, <2>4, <3>1, Rests DEF LinkOk
  <2>5. CASE i # j
    BY <2>3, <2>5 DEF SiteLinkInv, LinkOk, Good, OtherJobs
  <2> QED BY <2>4, <2>5
<1>3. ASSUME NEW j \in Jobs, NEW d \in Domains, AddItem(j, d) \/ AddFails(j, d) PROVE SiteLinkInv'
  <2>1. /\ OtherJobs(j) /\ jobs'[j].force = jobs[j].force /\ sites' = sites
        /\ \/ UNCHANGED runs
           \/ OtherRuns(j, d) /\ runs'[j][d].at = "queued" /\ runs'[j][d].made = 0
    BY <1>0, <1>3, AddDoes
  <2>2. LinkOk(j, d)'
    BY <2>1 DEF SiteLinkInv, LinkOk, Good
  <2>3. SitesTold /\ \A i \in Jobs : jobs'[i].force = jobs[i].force
    BY <2>1 DEF SitesTold, OtherJobs
  <2>4. \A i \in Jobs, e \in Domains : i # j \/ e # d => runs'[i][e] = runs[i][e]
    BY <2>1 DEF OtherRuns
  <2> QED BY <2>2, <2>3, <2>4, OtherLinksKept
<1>4. ASSUME NEW j \in Jobs, NEW d \in Domains, WorkerStep(j, d) \/ StepFails(j, d) \/ Crash(j, d)
      PROVE  SiteLinkInv'
  BY <1>4, WorkersKeepLinks
<1>5. CASE Windows
  BY <1>1, <1>5, WindowsTyped
<1>6. ASSUME NEW j \in Jobs, HookStep(j) PROVE SiteLinkInv'
  BY <1>1, <1>6 DEF HookStep, Started, StartFails, PollTicks, ReadJob, PollArrives, PollFails
<1>7. CASE UNCHANGED importVars
  BY <1>1, <1>7 DEF importVars
<1> QED BY <1>2, <1>3, <1>4, <1>5, <1>6, <1>7 DEF ImportNext, Windows, HookStep
-----------------------------------------------------------------------------
(* What a job says of its domains *)

DoneIn(j) == {d \in Domains : runs[j][d].counted /\ runs[j][d].ok}
FailedIn(j) == {d \in Domains : runs[j][d].counted /\ ~runs[j][d].ok}
CountedIn(j, doms) == \A d \in doms : runs[j][d].counted
AllFailed(j, doms) == \A d \in doms : ~runs[j][d].ok
Outcome(j, d) == items[j][d] = IF runs[j][d].ok THEN "success" ELSE "failed"

\* Every domain was counted, and the job failed if all of them did.
Verdict(j, st) ==
  CountedIn(j, jobs[j].doms) /\ (st = "failed" <=> AllFailed(j, jobs[j].doms))

\* A domain that is counted is not worked at again, and its item says how it ended.
RunOwn(j, d) ==
  /\ runs[j][d].counted => runs[j][d].at \in {"look", "close", "end", "none"} /\ Outcome(j, d)
  /\ runs[j][d].at = "count" => Outcome(j, d)
  /\ runs[j][d].at \in {"look", "close", "end"} => runs[j][d].counted

Tallied(j) ==
  /\ jobs[j].done = Cardinality(DoneIn(j)) /\ jobs[j].failed = Cardinality(FailedIn(j))
  /\ \A d \in Domains : RunOwn(j, d) /\ (runs[j][d].at = "close" => Verdict(j, runs[j][d].say))
  /\ jobs[j].st \in Finished => Verdict(j, jobs[j].st)

\* The counters and the verdict are right as long as no task that was counted is tried again.
TallyInv == \A j \in Jobs : ~jobs[j].again => Tallied(j)

\* As many counted as there are domains are all of them; none done, and some counted as
\* failed, are all of them failed.
LEMMA AllCounted ==
  ASSUME ImportConstants, ImportBase, NEW j \in Jobs, Tallied(j), jobs[j].st \in LiveStates, AllProcessed(j)
  PROVE  /\ CountedIn(j, jobs[j].doms)
         /\ (jobs[j].failed > 0 /\ jobs[j].done = 0 <=> AllFailed(j, jobs[j].doms))
<1> DEFINE D == DoneIn(j)  F == FailedIn(j)  A == jobs[j].doms
<1>1. /\ ServerTyped /\ RowOk(j) /\ jobs[j] \in JobRows /\ \A d \in Domains : runs[j][d] \in RunStates
      /\ jobs[j].done = Cardinality(D) /\ jobs[j].failed = Cardinality(F)
  BY TypesSplit, RunTyped, JobTyped DEF ImportBase, RowsInv, Tallied
<1>2. A \subseteq Domains /\ A # {}
  BY <1>1 DEF JobRows, RowOk
<1>3. D \subseteq A /\ F \subseteq A
  BY <1>1, Rests DEF RowOk, DoneIn, FailedIn
<1>4. D \cap F = {}
  BY DEF DoneIn, FailedIn
<1>5. IsFiniteSet(A) /\ IsFiniteSet(D) /\ IsFiniteSet(F)
  BY <1>2, <1>3, FS_Subset DEF ImportConstants
<1>6. /\ Cardinality(A) \in Nat /\ Cardinality(D) \in Nat /\ Cardinality(F) \in Nat
      /\ Cardinality(A) # 0
  BY <1>2, <1>5, FS_CardinalityType, FS_EmptySet
<1>7. IsFiniteSet(D \cup F) /\ Cardinality(D \cup F) = Cardinality(D) + Cardinality(F)
  <2>1. Cardinality(D \cap F) = 0
    BY <1>4, FS_EmptySet
  <2>2. IsFiniteSet(D \cup F)
        /\ Cardinality(D \cup F) = Cardinality(D) + Cardinality(F) - Cardinality(D \cap F)
    BY <1>5, FS_Union
  <2> QED BY <1>6, <2>1, <2>2
<1>8. Cardinality(D \cup F) >= Cardinality(A)
  BY <1>1, <1>7 DEF AllProcessed, Processed, Total
<1>9. D \cup F = A
  <2>1. D \cup F \in SUBSET A
    BY <1>3
  <2>2. Cardinality(D \cup F) <= Cardinality(A)
    BY <1>5, <2>1, FS_Subset
  <2>3. Cardinality(A) = Cardinality(D \cup F)
    BY <1>6, <1>7, <1>8, <2>2
  <2> QED BY <1>5, <2>1, <2>3, FS_Subset
<1>10. CountedIn(j, A)
  BY <1>9 DEF CountedIn, DoneIn, FailedIn
<1>11. Cardinality(D) = 0 <=> AllFailed(j, A)
  <2>1. Cardinality(D) = 0 <=> D = {}
    BY <1>5, FS_EmptySet
  <2>2. D = {} <=> AllFailed(j, A)
    BY <1>2, <1>3, <1>10 DEF AllFailed, DoneIn, CountedIn
  <2> QED BY <2>1, <2>2
<1>12. Cardinality(D) = 0 => Cardinality(F) > 0
  BY <1>6, <1>7, <1>8
<1> QED BY <1>1, <1>10, <1>11, <1>12

\* A verdict stays right while no counted task changes.
LEMMA VerdictKept ==
  ASSUME NEW j \in Jobs, jobs'[j].doms = jobs[j].doms, jobs[j].doms \subseteq Domains,
         \A d \in Domains : runs[j][d].counted => runs'[j][d].counted /\ runs'[j][d].ok = runs[j][d].ok
  PROVE  \A st : Verdict(j, st) => Verdict(j, st)'
<1> SUFFICES ASSUME NEW st, Verdict(j, st) PROVE Verdict(j, st)'
  OBVIOUS
<1>1. \A d \in jobs[j].doms : runs'[j][d].counted /\ runs'[j][d].ok = runs[j][d].ok
  BY DEF Verdict, CountedIn
<1> QED BY <1>1 DEF Verdict, CountedIn, AllFailed

\* A step of one task that counts nothing.
LEMMA TallyKept ==
  ASSUME NEW j \in Jobs, NEW d \in Domains, Tallied(j), jobs[j].doms \subseteq Domains,
         \A e \in Domains \ {d} : runs'[j][e] = runs[j][e] /\ items'[j][e] = items[j][e],
         runs'[j][d].counted = runs[j][d].counted,
         runs[j][d].counted => runs'[j][d].ok = runs[j][d].ok,
         jobs'[j].doms = jobs[j].doms, SameCount(j),
         \/ jobs'[j].st \notin Finished \/ jobs'[j].st = jobs[j].st
         \/ runs[j][d].at = "close" /\ jobs'[j].st = runs[j][d].say,
         RunOwn(j, d)', runs'[j][d].at = "close" => Verdict(j, runs'[j][d].say)
  PROVE  Tallied(j)'
<1>1. \A e \in Domains : /\ runs'[j][e].counted = runs[j][e].counted
                         /\ runs[j][e].counted => runs'[j][e].ok = runs[j][e].ok
  OBVIOUS
<1>2. DoneIn(j)' = DoneIn(j) /\ FailedIn(j)' = FailedIn(j)
  BY <1>1 DEF DoneIn, FailedIn
<1>3. \A st : Verdict(j, st) => Verdict(j, st)'
  BY <1>1, VerdictKept
<1>4. ASSUME NEW e \in Domains \ {d}
      PROVE  RunOwn(j, e)' /\ (runs'[j][e].at = "close" => Verdict(j, runs[j][e].say)')
  <2>1. RunOwn(j, e) /\ (runs[j][e].at = "close" => Verdict(j, runs[j][e].say))
    BY DEF Tallied
  <2>2. runs'[j][e] = runs[j][e] /\ items'[j][e] = items[j][e]
    OBVIOUS
  <2>3. RunOwn(j, e)'
    BY <2>1, <2>2 DEF RunOwn, Outcome
  <2>4. PICK st : st = runs[j][e].say
    OBVIOUS
  <2>5. runs'[j][e].at = "close" => Verdict(j, st)'
    BY <1>3, <2>1, <2>2, <2>4
  <2>6. Verdict(j, runs[j][e].say)' = Verdict(j, st)'
    BY <2>2, <2>4 DEF Verdict
  <2> QED BY <2>3, <2>5, <2>6
<1>5. runs'[j][d].at = "close" => Verdict(j, runs[j][d].say)'
  <2>1. PICK st : st = runs'[j][d].say
    OBVIOUS
  <2>2. runs'[j][d].at = "close" => Verdict(j, st)'
    BY <1>3, <2>1
  <2> QED BY <2>1, <2>2 DEF Verdict
<1>6. jobs'[j].st \in Finished => Verdict(j, jobs[j].st)'
  <2>1. PICK st : st = jobs'[j].st
    OBVIOUS
  <2>2. st \in Finished => Verdict(j, st)
    BY <2>1 DEF Tallied
  <2>3. st \in Finished => Verdict(j, st)'
    BY <1>3, <2>2
  <2> QED BY <2>1, <2>3 DEF Verdict
<1>7. jobs'[j].done = Cardinality(DoneIn(j)') /\ jobs'[j].failed = Cardinality(FailedIn(j)')
  BY <1>2 DEF Tallied, SameCount
<1> QED BY <1>4, <1>5, <1>6, <1>7 DEF Tallied

\* A job whose tasks are not made yet counts nothing.
LEMMA FreshTallied ==
  ASSUME NEW j \in Jobs, \A d \in Domains : runs'[j][d] = NoRun,
         jobs'[j].done = 0, jobs'[j].failed = 0, jobs'[j].st \notin Finished
  PROVE  Tallied(j)'
<1>1. DoneIn(j)' = {} /\ FailedIn(j)' = {}
  BY Rests DEF DoneIn, FailedIn, NoRun
<1>2. \A d \in Domains : RunOwn(j, d)' /\ runs'[j][d].at # "close"
  BY DEF RunOwn, NoRun
<1>3. Cardinality(DoneIn(j)') = 0 /\ Cardinality(FailedIn(j)') = 0
  BY <1>1, FS_EmptySet
<1> QED BY <1>2, <1>3 DEF Tallied

\* A task is counted once.
LEMMA CountTallies ==
  ASSUME ImportConstants, ImportBase, NEW j \in Jobs, NEW d \in Domains, Count(j, d), Tallied(j)
  PROVE  Tallied(j)'
<1>1. ServerTyped /\ runs[j][d] \in RunStates /\ jobs[j] \in JobRows
  BY TypesSplit, RunTyped, JobTyped DEF ImportBase
<1>2. /\ OtherRuns(j, d) /\ runs'[j][d].at = "look" /\ runs'[j][d].counted
      /\ runs'[j][d].ok = runs[j][d].ok
      /\ SameJob(j) /\ jobs'[j].st = jobs[j].st
      /\ jobs'[j].done = IF runs[j][d].ok THEN jobs[j].done + 1 ELSE jobs[j].done
      /\ jobs'[j].failed = IF runs[j][d].ok THEN jobs[j].failed ELSE jobs[j].failed + 1
      /\ runs[j][d].at = "count" /\ items' = items
  BY <1>1, CountDoes
<1>3. ~runs[j][d].counted /\ Outcome(j, d) /\ RunOwn(j, d)'
  BY <1>2 DEF Tallied, RunOwn, Outcome
<1>4. \A e \in Domains \ {d} : runs'[j][e] = runs[j][e]
  BY <1>2 DEF OtherRuns
<1>5. /\ d \notin DoneIn(j) /\ d \notin FailedIn(j)
      /\ DoneIn(j)' = IF runs[j][d].ok THEN DoneIn(j) \cup {d} ELSE DoneIn(j)
      /\ FailedIn(j)' = IF runs[j][d].ok THEN FailedIn(j) ELSE FailedIn(j) \cup {d}
  BY <1>2, <1>3, <1>4 DEF DoneIn, FailedIn
<1>6. IsFiniteSet(DoneIn(j)) /\ IsFiniteSet(FailedIn(j))
  BY FS_Subset DEF ImportConstants, DoneIn, FailedIn
<1>7. /\ Cardinality(DoneIn(j) \cup {d}) = Cardinality(DoneIn(j)) + 1
      /\ Cardinality(FailedIn(j) \cup {d}) = Cardinality(FailedIn(j)) + 1
  BY <1>5, <1>6, FS_AddElement
<1>8. jobs'[j].done = Cardinality(DoneIn(j)') /\ jobs'[j].failed = Cardinality(FailedIn(j)')
  BY <1>2, <1>5, <1>7 DEF Tallied
<1>9. jobs'[j].doms = jobs[j].doms /\ jobs[j].doms \subseteq Domains
  BY <1>1, <1>2 DEF SameJob, JobRows
<1>10. \A st : Verdict(j, st) => Verdict(j, st)'
  BY <1>2, <1>3, <1>4, <1>9, VerdictKept
<1>11. ASSUME NEW e \in Domains \ {d}
       PROVE  RunOwn(j, e)' /\ (runs'[j][e].at = "close" => Verdict(j, runs[j][e].say)')
  <2>1. RunOwn(j, e) /\ (runs[j][e].at = "close" => Verdict(j, runs[j][e].say))
    BY DEF Tallied
  <2>2. RunOwn(j, e)'
    BY <1>2, <1>4, <2>1 DEF RunOwn, Outcome
  <2>3. PICK st : st = runs[j][e].say
    OBVIOUS
  <2>4. runs'[j][e].at = "close" => Verdict(j, st)'
    BY <1>4, <1>10, <2>1, <2>3
  <2> QED BY <1>4, <2>2, <2>3, <2>4 DEF Verdict
<1>12. jobs'[j].st \in Finished => Verdict(j, jobs[j].st)'
  <2>1. PICK st : st = jobs[j].st
    OBVIOUS
  <2>2. st \in Finished => Verdict(j, st)'
    BY <1>10, <2>1 DEF Tallied
  <2> QED BY <1>2, <2>1, <2>2 DEF Verdict
<1> QED BY <1>2, <1>3, <1>8, <1>11, <1>12 DEF Tallied

\* What a step of a worker does to the tally of its own job.
LEMMA WorkersKeepTally ==
  ASSUME ImportConstants, ImportBase, NEW j \in Jobs, NEW d \in Domains,
         WorkerStep(j, d) \/ StepFails(j, d) \/ Crash(j, d), Tallied(j), ~jobs'[j].again
  PROVE  Tallied(j)'
<1>1. /\ ServerTyped /\ RowOk(j) /\ jobs[j] \in JobRows /\ runs[j][d] \in RunStates
      /\ RunOwn(j, d) /\ (runs[j][d].at = "close" => Verdict(j, runs[j][d].say))
  BY TypesSplit, RunTyped, JobTyped DEF ImportBase, RowsInv, Tallied
<1>2. jobs[j].doms \subseteq Domains
  BY <1>1 DEF JobRows
<1>3. SUFFICES ASSUME ~Count(j, d) PROVE Tallied(j)'
  BY CountTallies
<1>4. SUFFICES ASSUME OtherRuns(j, d), jobs' = jobs \/ (SameJob(j) /\ SameCount(j)),
                      items' = items \/ OtherItems(j, d),
                      runs'[j][d].counted = runs[j][d].counted,
                      runs[j][d].counted => runs'[j][d].ok = runs[j][d].ok,
                      \/ jobs'[j].st \notin Finished \/ jobs'[j].st = jobs[j].st
                      \/ runs[j][d].at = "close" /\ jobs'[j].st = runs[j][d].say,
                      RunOwn(j, d)', runs'[j][d].at = "close" => Verdict(j, runs'[j][d].say)
               PROVE  Tallied(j)'
  <2> USE <1>1
  <2>1. CASE Take(j, d)
    <3>1. /\ Moves(j, d, "fetch") /\ SameJob(j) /\ SameCount(j) /\ runs[j][d].at = "queued"
          /\ jobs'[j].st = IF jobs[j].st = "pending" THEN "running" ELSE jobs[j].st
          /\ items' = items
      BY <2>1, TakeDoes
    <3>2. RunOwn(j, d)'
      BY <3>1 DEF Moves, RunOwn
    <3> QED BY <3>1, <3>2 DEF Moves, Finished
  <2>2. CASE Fetch(j, d)
    <3>1. Moves(j, d, "link") /\ OtherItems(j, d) /\ runs[j][d].at = "fetch" /\ jobs' = jobs
      BY <2>2, FetchDoes
    <3>2. RunOwn(j, d)'
      BY <3>1 DEF Moves, RunOwn
    <3> QED BY <3>1, <3>2 DEF Moves
  <2>3. CASE Baseline(j, d)
    <3>1. /\ runs[j][d].at = "link" /\ jobs' = jobs /\ items' = items
          /\ OtherRuns(j, d) /\ runs'[j][d].at \in {"record", "linked"}
          /\ runs'[j][d].ok = runs[j][d].ok /\ runs'[j][d].counted = runs[j][d].counted
      BY <2>3, BaselineDoes DEF Moves
    <3>2. RunOwn(j, d)'
      BY <3>1 DEF RunOwn
    <3> QED BY <3>1, <3>2
  <2>4. CASE Linked(j, d)
    <3>1. Moves(j, d, "record") /\ runs[j][d].at = "linked" /\ jobs' = jobs /\ items' = items
      BY <2>4, LinkedDoes
    <3>2. RunOwn(j, d)'
      BY <3>1 DEF Moves, RunOwn
    <3> QED BY <3>1, <3>2 DEF Moves
  <2>5. CASE RecordItem(j, d) \/ StepFails(j, d)
    <3>1. /\ OtherRuns(j, d) /\ runs'[j][d].at = "count" /\ runs'[j][d].counted = runs[j][d].counted
          /\ OtherItems(j, d) /\ runs[j][d].at \in Working /\ jobs' = jobs
          /\ items'[j][d] = IF runs'[j][d].ok THEN "success" ELSE "failed"
      BY <2>5, RecordDoes, StepFailsDoes DEF Working
    <3>2. ~runs[j][d].counted
      BY <3>1 DEF RunOwn, Working
    <3>3. RunOwn(j, d)'
      BY <3>1, <3>2 DEF RunOwn, Outcome
    <3> QED BY <3>1, <3>2, <3>3
  <2>6. CASE LookAtItems(j, d)
    <3>1. /\ Moves(j, d, IF AllProcessed(j) THEN "close" ELSE "end") /\ runs[j][d].at = "look"
          /\ runs'[j][d].say = IF jobs[j].failed > 0 /\ jobs[j].done = 0 THEN "failed" ELSE "completed"
          /\ jobs' = jobs /\ items' = items
      BY <2>6, LookDoes
    <3>2. RunOwn(j, d)'
      BY <3>1 DEF Moves, RunOwn, Outcome
    <3>3. jobs[j].st \in LiveStates
      BY <3>1 DEF RowOk, NoRun
    <3>4. AllProcessed(j) => Verdict(j, runs'[j][d].say)
      BY <3>1, <3>3, AllCounted DEF Verdict
    <3> QED BY <3>1, <3>2, <3>4 DEF Moves
  <2>7. CASE Finish(j, d)
    <3>1. runs[j][d].at = "close" /\ runs[j][d].say \in Finished
      BY <2>7 DEF Finish, At, RowOk
    <3>2. /\ Moves(j, d, "end") /\ SameJob(j) /\ SameCount(j) /\ jobs'[j].st = runs[j][d].say
          /\ items' = items
      BY <2>7, <3>1, FinishDoes
    <3>3. RunOwn(j, d)'
      BY <3>1, <3>2 DEF Moves, RunOwn, Outcome
    <3> QED BY <3>1, <3>2, <3>3 DEF Moves
  <2>8. CASE Leave(j, d) \/ Crash(j, d)
    <3>1. Returns(j, d) /\ items' = items
      BY <2>8, LeaveDoes, CrashDoes
    <3>2. RunOwn(j, d)'
      BY <3>1 DEF Returns, RunOwn, Outcome
    <3> QED BY <3>1, <3>2 DEF Returns
  <2> QED BY <1>3, <2>1, <2>2, <2>3, <2>4, <2>5, <2>6, <2>7, <2>8 DEF WorkerStep
<1>5. \A e \in Domains \ {d} : runs'[j][e] = runs[j][e] /\ items'[j][e] = items[j][e]
  BY <1>4 DEF OtherRuns, OtherItems
<1>6. jobs'[j].doms = jobs[j].doms /\ SameCount(j)
  BY <1>4 DEF SameJob, SameCount
<1> QED BY <1>2, <1>4, <1>5, <1>6, TallyKept

\* The other jobs see nothing of it.
LEMMA OtherTalliesKept ==
  ASSUME ServerTyped, NEW i \in Jobs, Tallied(i), jobs'[i] = jobs[i],
         \A e \in Domains : runs'[i][e] = runs[i][e] /\ items'[i][e] = items[i][e],
         jobs[i].doms \subseteq Domains
  PROVE  Tallied(i)'
<1>1. DoneIn(i)' = DoneIn(i) /\ FailedIn(i)' = FailedIn(i)
  BY DEF DoneIn, FailedIn
<1>2. CountedIn(i, jobs[i].doms)' = CountedIn(i, jobs[i].doms)
      /\ AllFailed(i, jobs[i].doms)' = AllFailed(i, jobs[i].doms)
  BY DEF CountedIn, AllFailed
<1>3. \A e \in Domains : RunOwn(i, e)' /\ (runs'[i][e].at = "close" => Verdict(i, runs[i][e].say)')
  BY <1>2 DEF Tallied, RunOwn, Outcome, Verdict
<1>4. jobs'[i].st \in Finished => Verdict(i, jobs[i].st)'
  BY <1>2 DEF Tallied, Verdict
<1> QED BY <1>1, <1>3, <1>4 DEF Tallied

LEMMA TallyInvKept ==
  ImportConstants /\ ImportBase /\ TallyInv /\ [ImportNext]_importVars => TallyInv'
<1> SUFFICES ASSUME ImportConstants, ImportBase, TallyInv, [ImportNext]_importVars,
                    NEW i \in Jobs, ~jobs'[i].again
             PROVE  Tallied(i)'
  BY DEF TallyInv
<1>0. ServerTyped /\ jobs[i] \in JobRows /\ jobs[i].doms \subseteq Domains
  BY TypesSplit, JobTyped DEF ImportBase, JobRows
<1>1. ASSUME UNCHANGED serverVars PROVE Tallied(i)'
  BY <1>0, <1>1, OtherTalliesKept DEF TallyInv, serverVars
<1>2. ASSUME NEW j \in Jobs, Start(j) \/ Submit(j) \/ SubmitLost(j) PROVE Tallied(i)'
  <2>1. RowOk(j)
    BY DEF ImportBase, RowsInv
  <2>2. jobs[j].st \notin LiveStates /\ jobs[j].todo = {} /\ \A d \in Domains : runs[j][d] = NoRun
    BY <1>2, <2>1, Rests DEF Start, Submit, SubmitLost, LiveStates, Finished, RowOk
  <2>3. /\ OtherJobs(j) /\ jobs'[j].done = 0 /\ jobs'[j].failed = 0 /\ jobs'[j].st \notin Finished
        /\ UNCHANGED <<items, runs, sites>>
    <3>1. jobs[j].done = 0 /\ jobs[j].failed = 0
      BY <2>1, <2>2 DEF RowOk
    <3> QED BY <1>0, <1>2, <2>2, <3>1, StartDoes, SubmitDoes DEF ImportBase, SameCount, Finished
  <2>4. CASE i = j
    BY <2>2, <2>3, <2>4, FreshTallied
  <2>5. CASE i # j
    BY <1>0, <2>3, <2>5, OtherTalliesKept DEF TallyInv, OtherJobs
  <2> QED BY <2>4, <2>5
<1>3. ASSUME NEW j \in Jobs, NEW d \in Domains, AddItem(j, d) \/ AddFails(j, d) PROVE Tallied(i)'
  <2>1. /\ OtherJobs(j) /\ SameCount(j) /\ jobs'[j].again = jobs[j].again /\ jobs'[j].st = jobs[j].st
        /\ jobs'[j].doms = jobs[j].doms /\ d \in jobs[j].todo
        /\ OtherItems(j, d)
        /\ \/ UNCHANGED runs
           \/ OtherRuns(j, d) /\ runs'[j][d].at = "queued" /\ ~runs'[j][d].counted
    BY <1>0, <1>3, AddDoes
  <2>2. runs[j][d] = NoRun
    BY <2>1 DEF ImportBase, RowsInv, RowOk
  <2>3. CASE i = j
    <3>1. Tallied(j) /\ ~runs[j][d].counted
      BY <2>1, <2>2, <2>3, Rests DEF TallyInv
    <3>2. RunOwn(j, d)' /\ runs'[j][d].at # "close" /\ ~runs'[j][d].counted
      BY <2>1, <2>2, Rests DEF RunOwn
    <3>3. runs'[j][d].counted = runs[j][d].counted
      <4>1. runs[j][d] \in RunStates /\ runs'[j][d] \in RunStates
        BY <1>0, <2>1, RunTyped DEF OtherRuns
      <4> QED BY <3>1, <3>2, <4>1 DEF RunStates
    <3>4. \A e \in Domains \ {d} : runs'[j][e] = runs[j][e] /\ items'[j][e] = items[j][e]
      BY <2>1 DEF OtherRuns, OtherItems
    <3> QED BY <1>0, <2>1, <2>3, <3>1, <3>2, <3>3, <3>4, TallyKept
  <2>4. CASE i # j
    <3>1. jobs'[i] = jobs[i] /\ \A e \in Domains : runs'[i][e] = runs[i][e] /\ items'[i][e] = items[i][e]
      BY <2>1, <2>4 DEF OtherJobs, OtherRuns, OtherItems
    <3> QED BY <1>0, <3>1, OtherTalliesKept DEF TallyInv
  <2> QED BY <2>3, <2>4
<1>4. ASSUME NEW j \in Jobs, NEW d \in Domains, WorkerStep(j, d) \/ StepFails(j, d) \/ Crash(j, d)
      PROVE  Tallied(i)'
  <2>1. /\ OtherRuns(j, d) /\ (jobs' = jobs \/ OtherJobs(j)) /\ (items' = items \/ OtherItems(j, d))
        /\ jobs[j].again => jobs'[j].again
    BY <1>0, <1>4, WorkersStayIn
  <2>2. CASE i = j
    BY <1>4, <2>1, <2>2, WorkersKeepTally DEF TallyInv
  <2>3. CASE i # j
    <3>1. jobs'[i] = jobs[i] /\ \A e \in Domains : runs'[i][e] = runs[i][e] /\ items'[i][e] = items[i][e]
      BY <2>1, <2>3 DEF OtherJobs, OtherRuns, OtherItems
    <3> QED BY <1>0, <3>1, OtherTalliesKept DEF TallyInv
  <2> QED BY <2>2, <2>3
<1>5. CASE Windows
  BY <1>1, <1>5, WindowsTyped
<1>6. ASSUME NEW j \in Jobs, HookStep(j) PROVE Tallied(i)'
  BY <1>1, <1>6 DEF HookStep, Started, StartFails, PollTicks, ReadJob, PollArrives, PollFails
<1>7. CASE UNCHANGED importVars
  BY <1>1, <1>7 DEF importVars
<1> QED BY <1>2, <1>3, <1>4, <1>5, <1>6, <1>7 DEF ImportNext, Windows, HookStep
-----------------------------------------------------------------------------
(* A job is followed to its end *)

\* An interval runs for the job, or its first poll is under way, after which one is set.
Due(j) == j \in hook.ticking \/ \E p \in polls : p.job = j /\ p.first

Followed == asks \cup hook.ticking \cup {p.job : p \in polls}

\* An answer that says the job ended is true; an answer nothing comes after says so when
\* the job ended, or when an answer read before it did.
PollOk(p) ==
  /\ p.got \in Finished => jobs[p.job].st \in Finished
  /\ ~Due(p.job) => /\ jobs[p.job].st \in Finished
                    /\ p.got # "none" /\ p.last => p.got \in Finished

FollowOk ==
  /\ \A i, k \in Followed : i = k
  /\ asks # {} => hook.importing /\ hook.ticking = {} /\ polls = {}
  /\ \A p \in polls : PollOk(p)
  /\ \A p, q \in polls : p.got \in Finished /\ q.got # "none" /\ q.last => q.got \in Finished
  /\ hook.job # NoJob /\ hook.st \notin Finished /\ ~past.astray => Due(hook.job)

\* One import at a time is followed: the poll that brought its end was read last, or an
\* interval still runs.
FollowInv == ~past.overlapped => FollowOk

\* The hook and its polls are as before, and a job that ended stays so.
LEMMA FollowFrame ==
  ASSUME FollowInv, UNCHANGED <<hook, asks, polls, past>>,
         \A p \in polls : jobs[p.job].st \in Finished => jobs'[p.job].st \in Finished
  PROVE  FollowInv'
<1>1. \A p \in polls : PollOk(p) => PollOk(p)'
  BY DEF PollOk, Due
<1> QED BY <1>1 DEF FollowInv, FollowOk, Followed, Due

LEMMA FollowStarts == ImportInit => FollowInv
  BY DEF ImportInit, FollowInv, FollowOk, Followed

\* The first poll of a job, or one of its interval, is under way.
LEMMA PollStarts ==
  ASSUME ImportBase, FollowOk, NEW j \in Jobs, Started(j) \/ PollTicks(j)
  PROVE  FollowOk'
<1>1. PICK first \in BOOLEAN :
        /\ polls' = polls \cup {Poll(j, first)} /\ UNCHANGED <<jobs, hook, past>>
        /\ j \in Followed /\ asks' \subseteq asks
        /\ first \/ j \in hook.ticking
        /\ asks' = asks \ {j} \/ (asks' = asks /\ j \in hook.ticking)
  BY DEF Started, PollTicks, serverVars, Followed
<1>2. PICK c : c = Poll(j, first)
  OBVIOUS
<1>3. c.job = j /\ c.first = first /\ c.got = "none" /\ c.last /\ polls' = polls \cup {c}
  BY <1>1, <1>2, PollTyped
<1>4. asks' = {}
  <2>1. asks \subseteq {j}
    BY <1>1 DEF FollowOk, Followed
  <2> QED BY <1>1, <2>1 DEF FollowOk
<1>5. \A i : Due(i) => Due(i)'
  BY <1>1 DEF Due
<1>6. Due(j)'
  BY <1>1, <1>3 DEF Due
<1>7. \A p \in polls' : PollOk(p)'
  BY <1>1, <1>3, <1>5, <1>6 DEF FollowOk, PollOk, Finished
<1>8. \A i, k \in Followed' : i = k
  <2>1. Followed' \subseteq Followed
    BY <1>1, <1>3 DEF Followed
  <2> QED BY <2>1 DEF FollowOk
<1>9. hook'.job # NoJob /\ hook'.st \notin Finished /\ ~past'.astray => Due(hook.job)'
  BY <1>1, <1>5 DEF FollowOk, Due
<1>10. \A p, q \in polls' : p.got \in Finished /\ q.got # "none" /\ q.last => q.got \in Finished
  BY <1>3 DEF FollowOk, Finished
<1> QED BY <1>4, <1>7, <1>8, <1>9, <1>10 DEF FollowOk

LEMMA ReadFollows ==
  ASSUME ImportBase, FollowOk, NEW j \in Jobs, ReadJob(j)
  PROVE  FollowOk'
<1>1. /\ UNCHANGED <<serverVars, modal, hook, asks, progress, ready, past>>
      /\ \A q \in polls' :
           \/ /\ q.job = j /\ q.got = jobs[j].st
              /\ \E p \in polls : p.job = j /\ p.first = q.first
           \/ \E p \in polls : /\ q.job = p.job /\ q.first = p.first /\ q.got = p.got
                               /\ q.last => q.got = "none"
      /\ \A p \in polls : \E q \in polls' : q.job = p.job /\ q.first = p.first
  BY ReadJobDoes
<1>2. jobs' = jobs /\ hook' = hook /\ asks' = asks /\ past' = past
  BY <1>1 DEF serverVars
<1>3. \A i : Due(i)' <=> Due(i)
  BY <1>1, <1>2 DEF Due
<1>4. Followed' \subseteq Followed
  BY <1>1, <1>2 DEF Followed
<1>5. asks # {} => polls' = {}
  BY <1>1 DEF FollowOk
<1>6. \A p \in polls : p.got \in Finished => jobs[p.job].st \in Finished
  BY DEF FollowOk, PollOk
<1>7. \A p \in polls : ~Due(p.job) => jobs[p.job].st \in Finished
  BY DEF FollowOk, PollOk
<1>8. ASSUME NEW q \in polls' PROVE PollOk(q)'
  <2>1. q.got \in Finished => jobs[q.job].st \in Finished
    BY <1>1, <1>6
  <2>2. ~Due(q.job) => jobs[q.job].st \in Finished
    BY <1>1, <1>7
  <2>3. ~Due(q.job) /\ q.got # "none" /\ q.last => q.got \in Finished
    BY <1>1, <2>2
  <2> QED BY <1>2, <1>3, <2>1, <2>2, <2>3 DEF PollOk
<1>9. ASSUME NEW p \in polls', NEW q \in polls', p.got \in Finished, q.got # "none", q.last
      PROVE  q.got \in Finished
  <2>1. q.job = j /\ q.got = jobs[j].st
    BY <1>1, <1>9
  <2>2. jobs[p.job].st \in Finished
    BY <1>1, <1>6, <1>9
  <2>3. p.job = j
    <3>1. p.job \in Followed' /\ q.job \in Followed'
      BY DEF Followed
    <3> QED BY <1>4, <2>1, <3>1 DEF FollowOk
  <2> QED BY <2>1, <2>2, <2>3
<1>10. hook'.job # NoJob /\ hook'.st \notin Finished /\ ~past'.astray => Due(hook.job)'
  BY <1>2, <1>3 DEF FollowOk, Due
<1> QED BY <1>2, <1>4, <1>5, <1>8, <1>9, <1>10 DEF FollowOk

\* A poll is over: what was due stays so, for the interval is set after the first one.
LEMMA PollOver ==
  ASSUME FollowOk, NEW j \in Jobs, NEW p \in polls, p.job = j, polls' = polls \ {p},
         UNCHANGED <<serverVars, asks>>, hook'.ticking \subseteq hook.ticking \cup {j},
         p.first => j \in hook'.ticking,
         hook.ticking \subseteq hook'.ticking \/ p.got \in Finished,
         hook'.job # NoJob /\ hook'.st \notin Finished /\ ~past'.astray => Due(hook.job)'
  PROVE  FollowOk'
<1>1. jobs' = jobs
  BY DEF serverVars
<1>2. Followed' \subseteq Followed
  BY DEF Followed
<1>3. asks' = {} /\ asks = {}
  BY DEF FollowOk
<1>4. hook.ticking \subseteq hook'.ticking => \A i : Due(i) => Due(i)'
  BY DEF Due
<1>5. ASSUME NEW q \in polls' PROVE PollOk(q)'
  <2>1. PollOk(q) /\ q \in polls
    BY DEF FollowOk
  <2>2. CASE hook.ticking \subseteq hook'.ticking
    BY <1>1, <1>4, <2>1, <2>2 DEF PollOk
  <2>3. CASE p.got \in Finished
    <3>1. q.job = j
      BY <2>1 DEF FollowOk, Followed
    <3>2. jobs[j].st \in Finished
      BY <2>3 DEF FollowOk, PollOk
    <3>3. q.got # "none" /\ q.last => q.got \in Finished
      BY <2>1, <2>3 DEF FollowOk
    <3> QED BY <1>1, <2>1, <3>1, <3>2, <3>3 DEF PollOk
  <2> QED BY <2>2, <2>3
<1>6. \A q, r \in polls' : q.got \in Finished /\ r.got # "none" /\ r.last => r.got \in Finished
  BY DEF FollowOk
<1>7. \A i, k \in Followed' : i = k
  BY <1>2 DEF FollowOk
<1> QED BY <1>3, <1>5, <1>6, <1>7 DEF FollowOk

LEMMA ArriveFollows ==
  ASSUME ImportConstants, ImportBase, FollowOk, NEW j \in Jobs, PollArrives(j)
  PROVE  FollowOk'
<1>1. PICK p \in polls :
        /\ p.job = j /\ p.got # "none" /\ polls' = polls \ {p}
        /\ hook'.job = j /\ hook'.st = p.got
        /\ p.got \notin Finished => hook.ticking \subseteq hook'.ticking
        /\ hook'.ticking \subseteq hook.ticking \cup {j}
        /\ p.first => j \in hook'.ticking
        /\ past' = [past EXCEPT !.astray = ~p.last]
  BY ArriveDoes
<1>2. past'.astray = ~p.last
  BY <1>1 DEF ImportBase, PastTyped
<1>3. ASSUME p.got \notin Finished, p.last PROVE Due(j)'
  <2>1. Due(j)
    BY <1>1, <1>3 DEF FollowOk, PollOk
  <2> QED BY <1>1, <1>3, <2>1 DEF Due
<1>4. hook'.job # NoJob /\ hook'.st \notin Finished /\ ~past'.astray => Due(hook.job)'
  <2>1. Due(hook.job)' = Due(j)'
    BY <1>1 DEF Due
  <2> QED BY <1>1, <1>2, <1>3, <2>1
<1> QED BY <1>1, <1>4, PollOver DEF PollArrives

LEMMA FailFollows ==
  ASSUME ImportConstants, ImportBase, FollowOk, NEW j \in Jobs, PollFails(j)
  PROVE  FollowOk'
<1>1. PICK p \in polls :
        /\ p.job = j /\ polls' = polls \ {p}
        /\ hook'.job = hook.job /\ hook'.st = hook.st
        /\ hook'.ticking \subseteq hook.ticking \cup {j} /\ hook.ticking \subseteq hook'.ticking
        /\ p.first => j \in hook'.ticking
  BY PollFailsDoes
<1>2. Due(hook.job) => Due(hook.job)'
  BY <1>1 DEF Due
<1>3. hook'.job # NoJob /\ hook'.st \notin Finished /\ ~past'.astray => Due(hook.job)'
  BY <1>1, <1>2 DEF FollowOk, PollFails
<1> QED BY <1>1, <1>3, PollOver DEF PollFails

\* An import that begins when none is followed, or one that does not begin.
LEMMA AskFollows ==
  ASSUME ImportConstants, ImportBase, NEW j \in Jobs, Start(j) \/ StartFails(j), FollowInv
  PROVE  FollowInv'
<1>0. hook \in Hooks /\ past \in [overlapped : BOOLEAN, astray : BOOLEAN]
  BY TypesSplit DEF ImportBase, TabTyped, PastTyped
<1>1. CASE Start(j)
  <2>1. /\ asks' = asks \cup {j} /\ hook' = [hook EXCEPT !.importing = TRUE] /\ polls' = polls
        /\ past' = [past EXCEPT !.overlapped = @ \/ hook.importing \/ hook.ticking # {} \/ polls # {}]
    BY <1>1 DEF Start
  <2>2. SUFFICES ASSUME ~past'.overlapped PROVE FollowOk'
    BY DEF FollowInv
  <2>3. ~past.overlapped /\ ~hook.importing /\ hook.ticking = {} /\ polls = {}
        /\ past'.astray = past.astray
    BY <1>0, <2>1, <2>2
  <2>4. FollowOk /\ asks = {}
    BY <2>3 DEF FollowInv, FollowOk
  <2>5. hook'.importing /\ hook'.ticking = {} /\ hook'.job = hook.job /\ hook'.st = hook.st
    BY <1>0, <2>1, <2>3 DEF Hooks
  <2>6. ~(hook.job # NoJob /\ hook.st \notin Finished /\ ~past.astray)
    BY <2>3, <2>4 DEF FollowOk, Due
  <2>7. Followed' = {j}
    BY <2>1, <2>3, <2>4, <2>5 DEF Followed
  <2> QED BY <2>1, <2>3, <2>5, <2>6, <2>7 DEF FollowOk
<1>2. CASE StartFails(j)
  <2>1. /\ j \in asks /\ asks' = asks \ {j} /\ hook' = [hook EXCEPT !.importing = FALSE]
        /\ UNCHANGED <<serverVars, polls, past>>
    BY <1>2 DEF StartFails
  <2>2. SUFFICES ASSUME ~past.overlapped PROVE FollowOk'
    BY <2>1 DEF FollowInv
  <2>3. FollowOk /\ polls = {} /\ hook.ticking = {}
    BY <2>1, <2>2 DEF FollowInv, FollowOk
  <2>4. hook'.ticking = {} /\ hook'.job = hook.job /\ hook'.st = hook.st
    BY <1>0, <2>1, <2>3 DEF Hooks
  <2>5. asks' = {}
    BY <2>1, <2>3 DEF FollowOk, Followed
  <2>6. ~(hook.job # NoJob /\ hook.st \notin Finished /\ ~past.astray)
    BY <2>3 DEF FollowOk, Due
  <2> QED BY <2>1, <2>3, <2>4, <2>5, <2>6 DEF FollowOk, Followed
<1> QED BY <1>1, <1>2

LEMMA FollowInvKept ==
  ImportConstants /\ ImportBase /\ FollowInv /\ [ImportNext]_importVars => FollowInv'
<1> SUFFICES ASSUME ImportConstants, ImportBase, FollowInv, [ImportNext]_importVars PROVE FollowInv'
  OBVIOUS
<1>0. ServerTyped /\ polls \subseteq PollStates /\ past \in [overlapped : BOOLEAN, astray : BOOLEAN]
  BY TypesSplit DEF ImportBase, TabTyped, PastTyped
<1>1. ASSUME UNCHANGED <<hook, asks, polls, past>>,
             \A i \in Jobs : jobs[i].st \in Finished => jobs'[i].st \in Finished
      PROVE  FollowInv'
  BY <1>0, <1>1, FollowFrame DEF PollStates
<1>2. ASSUME NEW j \in Jobs, Start(j) \/ StartFails(j) PROVE FollowInv'
  BY <1>2, AskFollows
<1>3. ASSUME NEW j \in Jobs, Submit(j) \/ SubmitLost(j) PROVE FollowInv'
  <2>1. jobs[j].st \notin Finished /\ jobs[j].todo = {}
    <3>1. RowOk(j)
      BY DEF ImportBase, RowsInv
    <3> QED BY <1>3, <3>1 DEF Submit, SubmitLost, RowOk, LiveStates, Finished
  <2>2. OtherJobs(j) /\ UNCHANGED tabVars
    BY <1>0, <1>3, <2>1, SubmitDoes
  <2> QED BY <1>1, <2>1, <2>2 DEF OtherJobs, tabVars
<1>4. ASSUME NEW j \in Jobs, NEW d \in Domains, AddItem(j, d) \/ AddFails(j, d) PROVE FollowInv'
  <2>1. OtherJobs(j) /\ jobs'[j].st = jobs[j].st /\ UNCHANGED tabVars
    BY <1>0, <1>4, AddDoes
  <2>2. \A i \in Jobs : jobs'[i].st = jobs[i].st
    BY <2>1 DEF OtherJobs
  <2> QED BY <1>1, <2>1, <2>2 DEF tabVars
<1>5. ASSUME NEW j \in Jobs, NEW d \in Domains, WorkerStep(j, d) \/ StepFails(j, d) \/ Crash(j, d)
      PROVE  FollowInv'
  <2>1. /\ jobs' = jobs \/ OtherJobs(j)
        /\ jobs[j].st \in Finished => jobs'[j].st \in Finished
        /\ UNCHANGED tabVars
    BY <1>5, WorkersStayIn
  <2>2. \A i \in Jobs : jobs[i].st \in Finished => jobs'[i].st \in Finished
    BY <2>1 DEF OtherJobs
  <2> QED BY <1>1, <2>1, <2>2 DEF tabVars
<1>6. CASE Windows
  BY <1>1, <1>6, WindowsTyped DEF serverVars
<1>7. ASSUME NEW j \in Jobs, Started(j) \/ PollTicks(j) \/ ReadJob(j) PROVE FollowInv'
  <2>1. past' = past
    BY <1>7 DEF Started, PollTicks, ReadJob
  <2> QED BY <1>7, <2>1, PollStarts, ReadFollows DEF FollowInv
<1>8. ASSUME NEW j \in Jobs, PollArrives(j) \/ PollFails(j) PROVE FollowInv'
  <2>1. past'.overlapped = past.overlapped
    BY <1>0, <1>8 DEF PollArrives, PollFails
  <2> QED BY <1>8, <2>1, ArriveFollows, FailFollows DEF FollowInv
<1>9. CASE UNCHANGED importVars
  BY <1>1, <1>9 DEF importVars, serverVars, tabVars
<1> QED BY <1>2, <1>3, <1>4, <1>5, <1>6, <1>7, <1>8, <1>9 DEF ImportNext, Windows
-----------------------------------------------------------------------------
ImportInv == ImportBase /\ SiteLinkInv /\ TallyInv /\ FollowInv

LEMMA ImportStarts == ImportConstants /\ ImportInit => ImportInv
<1> SUFFICES ASSUME ImportConstants, ImportInit PROVE ImportInv
  OBVIOUS
<1>1. ImportBase
  BY ImportStartsTyped
<1>2. SiteLinkInv
  BY Rests DEF ImportInit, SiteLinkInv, LinkOk
<1>3. TallyInv
  <2> SUFFICES ASSUME NEW j \in Jobs PROVE Tallied(j)
    BY DEF TallyInv
  <2>1. DoneIn(j) = {} /\ FailedIn(j) = {}
    BY Rests DEF ImportInit, DoneIn, FailedIn
  <2>2. \A d \in Domains : RunOwn(j, d) /\ runs[j][d].at # "close"
    BY Rests DEF ImportInit, RunOwn
  <2>3. jobs[j].done = 0 /\ jobs[j].failed = 0 /\ jobs[j].st \notin Finished
    BY Rests DEF ImportInit, Finished
  <2> QED BY <2>1, <2>2, <2>3, FS_EmptySet DEF Tallied
<1> QED BY <1>1, <1>2, <1>3, FollowStarts DEF ImportInv

LEMMA ImportInvSafe == ImportConstants /\ ImportInv => ImportSafe
<1> SUFFICES ASSUME ImportConstants, ImportInv PROVE ImportSafe
  OBVIOUS
<1>1. SaysWhatWas
  <2> SUFFICES ASSUME NEW j \in Jobs, jobs[j].st \in Finished, ~jobs[j].again
               PROVE  /\ \A d \in jobs[j].doms : items[j][d] \in {"success", "failed"}
                      /\ jobs[j].st = "failed" <=> \A d \in jobs[j].doms : items[j][d] = "failed"
    BY DEF SaysWhatWas
  <2>1. Verdict(j, jobs[j].st) /\ \A d \in Domains : RunOwn(j, d)
    BY DEF ImportInv, TallyInv, Tallied
  <2>2. jobs[j].doms \subseteq Domains
    BY TypesSplit, JobTyped DEF ImportInv, ImportBase, JobRows
  <2>3. \A d \in jobs[j].doms : Outcome(j, d)
    BY <2>1, <2>2 DEF Verdict, CountedIn, RunOwn
  <2> QED BY <2>1, <2>3 DEF Verdict, AllFailed, Outcome
<1>2. OneLinkTask
  BY DEF ImportInv, SiteLinkInv, LinkOk, OneLinkTask
<1>3. FollowedToTheEnd
  BY DEF ImportInv, FollowInv, FollowOk, Due, FollowedToTheEnd
<1> QED BY <1>1, <1>2, <1>3 DEF ImportSafe

\* Workers that die, tasks that come again, requests and polls that are lost or overtaken: a
\* job whose counted tasks were not tried again says what became of its domains, each of them
\* gets one link task unless the user asked to overwrite or the domain could not be told, and
\* the page follows the job to its end unless it was made to follow two.
THEOREM ImportsAreSafe == ImportSpec => []ImportSafe
<1>1. ImportInit => ImportInv
  BY ImportAssumption, ImportStarts
<1>2. ImportInv /\ [ImportNext]_importVars => ImportInv'
  BY ImportAssumption, ImportBaseKept, LinkInvKept, TallyInvKept, FollowInvKept DEF ImportInv
<1>3. ImportInv => ImportSafe
  BY ImportAssumption, ImportInvSafe
<1> QED BY <1>1, <1>2, <1>3, PTL DEF ImportSpec
=============================================================================
