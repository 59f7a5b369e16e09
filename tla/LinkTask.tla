------------------------------- MODULE LinkTask -------------------------------
(***************************************************************************)
(* The link of one site: the rows of link_tasks, the tick of the scheduler *)
(* that enqueues them, the workers that change the page, and the users.    *)
(* No write of a row asks for its status, and a worker does not ask        *)
(* whether its task is still wanted: a task that is delivered twice is run *)
(* twice, and what keeps the page right is that a run looks at the page    *)
(* first.  `html` counts the copies of each link (anchor and target) there *)
(* are; the files of a site are one page, and where the anchor text stands *)
(* is left out: a link is added to the page as it was read.                *)
(***************************************************************************)
EXTENDS Naturals, FiniteSets

CONSTANTS
  Tasks, NoTask,
  Links,
  Workers,
  MaxRetries,   \* retry.MaxRetries
  MaxStuck,     \* the attempts ListStuck asks for
  MaxWaiting,   \* bound: deliveries of a task that wait
  LinkBudgets   \* bounds: what users do, faults, publications

ASSUME LinkAssumption ==
  /\ NoTask \notin Tasks
  /\ MaxRetries \in Nat /\ MaxStuck \in 0..(MaxRetries + 1)   \* 7 and 5

VARIABLES
  rows,     \* rows[t]: status, action, link, attempts; `due`: scheduled_for is past;
            \* `old`: updated_at is 15 minutes ago
  setting,  \* link_anchor_text and link_acceptor_url
  domain,   \* link_status and link_last_task_id
  html,     \* html[k]: copies of link k on the page
  sched,    \* the item processPendingLinkTasks is at
  msgs,     \* msgs[t]: deliveries of t that wait
  crew,     \* crew[w]: where worker w is, its copy of the row, the page it is to write
  crossed,  \* two runs met on the page, two tasks waited for the site at once, a task was changed
            \* under its run, or the link that a run had left on the page was forgotten
  outrun,   \* a run ended between the two writes of the scheduler
  spare

linkVars == <<rows, setting, domain, html, sched, msgs, crew, crossed, outrun, spare>>

Wanted == {"pending", "searching", "removing"}
Final == {"inserted", "removed", "failed"}
AnyLink == CHOOSE k \in Links : TRUE
NoLinks == [k \in Links |-> 0]
NoRow == [st |-> "none", act |-> "insert", link |-> AnyLink, att |-> 0, due |-> TRUE, old |-> FALSE]
Free == [at |-> "rest", task |-> NoTask, act |-> "insert", link |-> AnyLink, att |-> 0,
         prev |-> AnyLink, page |-> NoLinks]
Doing(act) == IF act = "remove" THEN "removing" ELSE "searching"
Done(act) == IF act = "remove" THEN "removed" ELSE "inserted"
Idle == [at |-> "rest", task |-> NoTask, act |-> "insert"]

Busy == {w \in Workers : crew[w].at # "rest"}
RunOf(t) == {w \in Busy : crew[w].task = t}
Exists(t) == rows[t].st # "none"
Afford(what) == spare[what] > 0 /\ spare' = [spare EXCEPT ![what] = @ - 1]

\* The last task of the site is another one: a run of t looks for the link of that one first.
Other(t) == domain.last \notin {NoTask, t} /\ Exists(domain.last)
Prev(t) == IF Other(t) THEN rows[domain.last].link ELSE rows[t].link

\* The page has the link of t, and only t tells of it.
LeftBy(t) == html[rows[t].link] > 0 /\ (Other(t) => rows[domain.last].link # rows[t].link)

\* An UPDATE by id: a row that was deleted stays so; updated_at is set.
Write(t, st, att, due) ==
  rows' = IF Exists(t)
          THEN [rows EXCEPT ![t] = [@ EXCEPT !.st = st, !.att = att, !.due = due, !.old = FALSE]]
          ELSE rows

LinkInit ==
  /\ setting \in Links
  /\ rows = [t \in Tasks |-> NoRow]
  /\ domain = [st |-> "ready", last |-> NoTask]
  /\ html = NoLinks
  /\ sched = Idle
  /\ msgs = [t \in Tasks |-> 0]
  /\ crew = [w \in Workers |-> Free]
  /\ crossed = FALSE /\ outrun = FALSE
  /\ spare \in LinkBudgets
-----------------------------------------------------------------------------
\* (mistake: removals are not looked for)
ResetStuckInsertion(t) ==
  /\ sched.at = "rest"
  /\ rows[t].st = "searching" /\ rows[t].old /\ rows[t].att < MaxStuck
  /\ Write(t, "pending", rows[t].att, rows[t].due)
  /\ UNCHANGED <<setting, domain, html, sched, msgs, crew, crossed, outrun, spare>>

\* ListStuck, and the reset.
ResetStuck(t) ==
  /\ sched.at = "rest"
  /\ rows[t].st \in {"searching", "removing"} /\ rows[t].old /\ rows[t].att < MaxStuck
  /\ Write(t, "pending", rows[t].att, rows[t].due)
  /\ UNCHANGED <<setting, domain, html, sched, msgs, crew, crossed, outrun, spare>>

\* ListPending, and the task of one item is enqueued.
Enqueue(t) ==
  /\ sched.at = "rest" /\ rows[t].st = "pending" /\ rows[t].due
  /\ msgs' = [msgs EXCEPT ![t] = @ + 1]
  /\ sched' = [at |-> "row", task |-> t, act |-> rows[t].act]
  /\ UNCHANGED <<rows, setting, domain, html, crew, crossed, outrun, spare>>

\* The item is marked as under way, whatever the worker did meanwhile.
MarkRow ==
  /\ sched.at = "row"
  /\ Write(sched.task, Doing(sched.act), rows[sched.task].att, rows[sched.task].due)
  /\ sched' = [sched EXCEPT !.at = "domain"]
  /\ UNCHANGED <<setting, domain, html, msgs, crew, crossed, outrun, spare>>

\* And so is the site.
MarkDomain ==
  /\ sched.at = "domain"
  /\ domain' = [domain EXCEPT !.st = Doing(sched.act)]
  /\ sched' = Idle
  /\ UNCHANGED <<rows, setting, html, msgs, crew, crossed, outrun, spare>>

\* The scheduler dies within an item.
LoseTick ==
  /\ sched.at # "rest" /\ Afford("faults")
  /\ sched' = Idle
  /\ UNCHANGED <<rows, setting, domain, html, msgs, crew, crossed, outrun>>
-----------------------------------------------------------------------------
\* ProcessTask begins: the row, the site and its last task are read, both are marked.
Begin(w, t) ==
  /\ crew[w].at = "rest" /\ msgs[t] > 0
  /\ msgs' = [msgs EXCEPT ![t] = @ - 1]
  /\ IF ~Exists(t) THEN UNCHANGED <<rows, domain, crew, crossed>>
     ELSE LET row == rows[t] IN
       /\ crew' = [crew EXCEPT ![w] =
            [at |-> "look", task |-> t, act |-> row.act, link |-> row.link, att |-> row.att + 1,
             prev |-> Prev(t), page |-> NoLinks]]
       /\ Write(t, Doing(row.act), row.att + 1, row.due)
       /\ domain' = [domain EXCEPT !.st = Doing(row.act)]
       /\ crossed' = (crossed \/ Busy # {})
  /\ UNCHANGED <<setting, html, sched, outrun, spare>>

GoWrite(w, page) == crew' = [crew EXCEPT ![w].at = "write", ![w].page = page]
Goto(w, at) == crew' = [crew EXCEPT ![w].at = at]

\* (mistake: the page is not searched for the link that is to be inserted)
LookOnlyForOld(w) ==
  /\ crew[w].at = "look" /\ crew[w].act = "insert"
  /\ LET own == crew[w].link
         prev == crew[w].prev IN
     \/ /\ prev # own /\ html[prev] > 0
        /\ GoWrite(w, [html EXCEPT ![prev] = 0, ![own] = @ + html[prev]])
     \/ /\ prev = own \/ html[prev] = 0
        /\ Goto(w, "read")
  /\ UNCHANGED <<rows, setting, domain, html, sched, msgs, crossed, outrun, spare>>

\* An insertion replaces the link of the last task (replaceInFile), or finds its own there
\* (completeIfLinkExists), or is to add it.
Look(w) ==
  /\ crew[w].at = "look" /\ crew[w].act = "insert"
  /\ LET own == crew[w].link
         prev == crew[w].prev IN
     \/ /\ prev # own /\ html[prev] > 0
        /\ GoWrite(w, [html EXCEPT ![prev] = 0, ![own] = @ + html[prev]])
     \/ /\ prev = own \/ html[prev] = 0
        /\ Goto(w, IF html[own] > 0 THEN "record" ELSE "read")
  /\ UNCHANGED <<rows, setting, domain, html, sched, msgs, crossed, outrun, spare>>

\* (mistake: the link of the task is removed, not the one that was placed)
LookToRemoveOwn(w) ==
  /\ crew[w].at = "look" /\ crew[w].act = "remove"
  /\ LET own == crew[w].link IN
     \/ html[own] > 0 /\ GoWrite(w, [html EXCEPT ![own] = 0])
     \/ html[own] = 0 /\ Goto(w, "record")
  /\ UNCHANGED <<rows, setting, domain, html, sched, msgs, crossed, outrun, spare>>

\* processRemoveTask removes the link of the last task; to find none is no error.
LookToRemove(w) ==
  /\ crew[w].at = "look" /\ crew[w].act = "remove"
  /\ LET prev == crew[w].prev IN
     \/ html[prev] > 0 /\ GoWrite(w, [html EXCEPT ![prev] = 0])
     \/ html[prev] = 0 /\ Goto(w, "record")
  /\ UNCHANGED <<rows, setting, domain, html, sched, msgs, crossed, outrun, spare>>

\* The page is read again, to put the link on the anchor text or below a generated paragraph.
ReadPage(w) ==
  /\ crew[w].at = "read"
  /\ GoWrite(w, [html EXCEPT ![crew[w].link] = @ + 1])
  /\ UNCHANGED <<rows, setting, domain, html, sched, msgs, crossed, outrun, spare>>

\* writeDomainFileBytes writes the whole page.
WritePage(w) ==
  /\ crew[w].at = "write"
  /\ html' = crew[w].page
  /\ crew' = [crew EXCEPT ![w].at = "record", ![w].page = NoLinks]
  /\ UNCHANGED <<rows, setting, domain, sched, msgs, crossed, outrun, spare>>

\* The row is told of the end.
Record(w) ==
  /\ crew[w].at = "record"
  /\ Write(crew[w].task, Done(crew[w].act), crew[w].att, rows[crew[w].task].due)
  /\ Goto(w, "tell")
  /\ UNCHANGED <<setting, domain, html, sched, msgs, crossed, outrun, spare>>

\* updateDomainLinkState.
Tell(w) ==
  /\ crew[w].at = "tell"
  /\ domain' = [st |-> Done(crew[w].act), last |-> crew[w].task]
  /\ outrun' = (outrun \/ sched.at = "domain")
  /\ crew' = [crew EXCEPT ![w] = Free]
  /\ UNCHANGED <<rows, setting, html, sched, msgs, crossed, spare>>

\* (mistake: the limit of retries is not asked)
MayAlwaysRetry(att) == TRUE

\* NextRetryAt, within the window of a day.
MayRetry(att) == att <= MaxRetries

\* (mistake: the site is not told of the failure)
FailRowOnly(w) ==
  /\ crew[w].at \in {"look", "read", "write", "record", "tell"} /\ Afford("faults")
  /\ \E st \in {"failed"} \cup (IF MayRetry(crew[w].att) THEN {"pending"} ELSE {}) :
       /\ Write(crew[w].task, st, crew[w].att, st = "failed" /\ rows[crew[w].task].due)
       /\ crossed' = (crossed \/ (st = "failed" /\ LeftBy(crew[w].task) /\ domain.last # crew[w].task))
  /\ crew' = [crew EXCEPT ![w] = Free]
  /\ UNCHANGED <<setting, domain, html, sched, msgs, outrun>>

\* failTask: an operation failed, the history of the file after the page was written and the
\* site after the row was told included.  Some errors are not retried, nor is a task a day old.
Fail(w) ==
  /\ crew[w].at \in {"look", "read", "write", "record", "tell"} /\ Afford("faults")
  /\ \E st \in {"failed"} \cup (IF MayRetry(crew[w].att) THEN {"pending"} ELSE {}) :
       /\ Write(crew[w].task, st, crew[w].att, st = "failed" /\ rows[crew[w].task].due)
       /\ domain' = IF Exists(crew[w].task) THEN [domain EXCEPT !.st = st] ELSE domain
       /\ crossed' = (crossed \/ (st = "failed" /\ LeftBy(crew[w].task) /\ domain.last # crew[w].task))
  /\ outrun' = (outrun \/ sched.at = "domain")
  /\ crew' = [crew EXCEPT ![w] = Free]
  /\ UNCHANGED <<setting, html, sched, msgs>>

\* A worker dies: its task is delivered again.
Die(w) ==
  /\ crew[w].at # "rest" /\ Afford("faults")
  /\ msgs' = [msgs EXCEPT ![crew[w].task] = @ + 1]
  /\ crew' = [crew EXCEPT ![w] = Free]
  /\ UNCHANGED <<rows, setting, domain, html, sched, crossed, outrun>>
-----------------------------------------------------------------------------
\* Statuses by the priority of findActiveLinkTask and ListActiveByDomainIDs.
Rank == [none |-> 0, inserted |-> 0, removed |-> 0, failed |-> 0,
         pending |-> 1, searching |-> 2, removing |-> 3]
ActiveTasks == {t \in Tasks : rows[t].st \in Wanted}
ActiveTask(t) == t \in ActiveTasks /\ \A u \in ActiveTasks : Rank[rows[u].st] <= Rank[rows[t].st]

\* A row that is used, or waits to be, by somebody who read it before.
InHand(t) == RunOf(t) # {} \/ msgs[t] > 0 \/ sched.task = t

\* A run of t is under way or is to come.
Live(t) == InHand(t) \/ t \in ActiveTasks

\* A row is started anew with a link.  Its old one is forgotten if it is on the page, and by a
\* removal, which looks for the link of the last task.
Restart(t, act, link) ==
  /\ rows' = [rows EXCEPT ![t] = [NoRow EXCEPT !.st = "pending", !.act = act, !.link = link]]
  /\ crossed' = \/ crossed \/ InHand(t) \/ \E u \in Tasks \ {t} : Live(u)
                \/ LeftBy(t) /\ (link # rows[t].link \/ (Other(t) /\ act = "remove"))

\* A new row, with the link of the setting.
Create(act) ==
  LET unused == {t \in Tasks : ~Exists(t) /\ ~InHand(t) /\ t # domain.last} IN
  /\ unused # {}
  /\ rows' = [rows EXCEPT ![CHOOSE t \in unused : TRUE] =
                [NoRow EXCEPT !.st = "pending", !.act = act, !.link = setting]]
  /\ crossed' = (crossed \/ \E t \in Tasks : InHand(t))

\* The task of the site that is under way starts anew, or there is a new one.
StartOrRestart(act) ==
  \/ \E t \in Tasks : ActiveTask(t) /\ Restart(t, act, setting)
  \/ /\ ActiveTasks = {}
     /\ Create(act)

\* handleDomainLinkRun.
Run(act) ==
  /\ Afford("clicks")
  /\ StartOrRestart(act)
  /\ domain' = [domain EXCEPT !.st = "pending"]
  /\ UNCHANGED <<setting, html, sched, msgs, crew, outrun>>

\* POST links/:id/retry, for a row of any status.
Retry(t) ==
  /\ Exists(t) /\ Afford("clicks")
  /\ Restart(t, rows[t].act, rows[t].link)
  /\ domain' = [domain EXCEPT !.st = "pending"]
  /\ UNCHANGED <<setting, html, sched, msgs, crew, outrun>>

\* DELETE links/:id, and PurgeCompleted: nobody knows then which link is on the page.
Delete(t) ==
  /\ Exists(t) /\ Afford("deletes")
  /\ rows' = [rows EXCEPT ![t] = NoRow]
  /\ crossed' = \/ crossed \/ InHand(t) \/ t = domain.last
                \/ t \in ActiveTasks /\ (rows[t].att > 0 \/ LeftBy(t))
  /\ UNCHANGED <<setting, domain, html, sched, msgs, crew, outrun>>

ChangeSetting ==
  /\ Afford("changes")
  /\ setting' \in Links \ {setting}
  /\ UNCHANGED <<rows, domain, html, sched, msgs, crew, crossed, outrun>>

\* A generation starts: the link is to be placed again, though the page is as it was.
Regenerate ==
  /\ Afford("publishes")
  /\ domain' = [domain EXCEPT !.st = "needs_relink"]
  /\ UNCHANGED <<rows, setting, html, sched, msgs, crew, crossed, outrun>>

\* It is published, without the links of the one before.
Publish ==
  /\ Afford("publishes")
  /\ html' = NoLinks
  /\ domain' = [domain EXCEPT !.st = "needs_relink"]
  /\ crossed' = (crossed \/ Busy # {} \/ sched.at # "rest" \/ ActiveTasks # {})
  /\ UNCHANGED <<rows, setting, sched, msgs, crew, outrun>>

\* applyLinkSchedules: sites whose link_status is eligible; a task under way keeps its action.
Schedule ==
  /\ sched.at = "rest" /\ domain.st \in {"ready", "needs_relink", "pending"}
  /\ \/ \E t \in Tasks : ActiveTask(t) /\ Restart(t, rows[t].act, setting)
     \/ ActiveTasks = {} /\ Create("insert")
  /\ UNCHANGED <<setting, domain, html, sched, msgs, crew, outrun, spare>>

\* 15 minutes without an update.
GrowOld(t) ==
  /\ rows[t].st \in {"searching", "removing"} /\ ~rows[t].old /\ msgs[t] < MaxWaiting
  /\ rows' = [rows EXCEPT ![t].old = TRUE]
  /\ UNCHANGED <<setting, domain, html, sched, msgs, crew, crossed, outrun, spare>>

\* The delay of NextRetryAt is over.
FallDue(t) ==
  /\ rows[t].st = "pending" /\ ~rows[t].due
  /\ rows' = [rows EXCEPT ![t].due = TRUE]
  /\ UNCHANGED <<setting, domain, html, sched, msgs, crew, crossed, outrun, spare>>

WorkOn(w) ==
  \/ \E t \in Tasks : Begin(w, t)
  \/ Look(w) \/ LookToRemove(w) \/ ReadPage(w) \/ WritePage(w) \/ Record(w) \/ Tell(w)

LinkNext ==
  \/ \E t \in Tasks : ResetStuck(t) \/ Enqueue(t) \/ Retry(t) \/ Delete(t) \/ GrowOld(t) \/ FallDue(t)
  \/ MarkRow \/ MarkDomain \/ LoseTick
  \/ \E w \in Workers : WorkOn(w) \/ Fail(w) \/ Die(w)
  \/ \E act \in {"insert", "remove"} : Run(act)
  \/ ChangeSetting \/ Regenerate \/ Publish \/ Schedule

LinkSpec == LinkInit /\ [][LinkNext]_linkVars
-----------------------------------------------------------------------------
\* Nothing is under way or waits.
Quiet ==
  /\ Busy = {} /\ sched.at = "rest" /\ ActiveTasks = {}
  /\ \A t \in Tasks : msgs[t] = 0

\* The type invariant: a row that waits for a retry may be retried.
LinkTypeOK ==
  /\ \A t \in Tasks : rows[t].st \in Wanted \cup Final \cup {"none"}
  /\ \A t \in Tasks : rows[t].link \in Links /\ rows[t].att \in Nat
  /\ \A t \in Tasks : rows[t].st = "pending" /\ ~rows[t].due => rows[t].att <= MaxRetries
  /\ setting \in Links /\ domain.last \in Tasks \cup {NoTask}
  /\ \A k \in Links : html[k] \in Nat
  /\ \A w \in Workers : crew[w].at \in {"rest", "look", "read", "write", "record", "tell"}

\* However often a task fails, dies, is delivered again or is reset as stuck, the page has the
\* link at most once, and never a link that was replaced beside the new one; unless two runs or
\* two tasks met, a task was changed under its run or its link was forgotten.
LinkOnce ==
  crossed \/ \A k, l \in Links : html[k] + (IF l # k THEN html[l] ELSE 0) <= 1

\* When all is quiet the page is as the site says: it has the link of its last task and no
\* other, or none at all.
PageAsRecorded ==
  Quiet /\ ~crossed =>
    /\ domain.st = "inserted" =>
         \A k \in Links : html[k] = (IF k = rows[domain.last].link THEN 1 ELSE 0)
    /\ domain.st = "removed" => \A k \in Links : html[k] = 0

\* When all is quiet the site does not say that its link is worked at, which would keep it out
\* of every schedule, unless a run ended between the two writes of the scheduler.
SiteNotStuck == (Quiet /\ ~crossed /\ ~outrun) => domain.st \notin {"searching", "removing"}

\* Page, task and site agree on the link: the page has it once, and at rest the site says what
\* the page has and does not say that it is worked at.
LinkIsKept == LinkOnce /\ PageAsRecorded /\ SiteNotStuck

\* A task that nobody works at and ListStuck does not list any more.
Stranded(t) ==
  /\ rows[t].st \in {"searching", "removing"} /\ rows[t].att >= MaxStuck
  /\ msgs[t] = 0 /\ RunOf(t) = {} /\ sched.task # t

\* Every task ends, is deleted, or is stranded by a late mark of the scheduler.
TasksEnd == \A t \in Tasks : rows[t].st \in Wanted ~> (rows[t].st \notin Wanted \/ Stranded(t))
================================================================================
