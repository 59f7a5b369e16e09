----------------------------- MODULE MCConsole ------------------------------
(***************************************************************************)
(* ConsoleServices with bounds for TLC, and with it some pages, an import  *)
(* of a single site and the link of a site, for what must happen at last.  *)
(* Only one component takes steps in each behaviour: `part` says which;    *)
(* the others keep their first values.                                     *)
(***************************************************************************)
EXTENDS ConsoleServices

CONSTANTS a, b, c, u, v

\* What users, workers and the network do to a page is split over the behaviours.
VARIABLES
  part,
  panel, item, sel, list, requested, actions, raised, kept, astray, lowered, written, budget,
  jobs, items, runs, sites, modal, hook, starts, asked, progress, ready, past, left,
  rows, setting, domain, html, sched, msgs, crew, crossings, outrun, spare

MCUserOf == [t \in Tabs |-> IF t = c THEN v ELSE u]
MCBudgets == {[asks |-> 2, faults |-> 0], [asks |-> 1, faults |-> 1]}

Screen == INSTANCE ConsoleScreens
Polled == {Screen!UnifiedPage, Screen!LinksPage, Screen!RunPage, Screen!DomainRunsPage}
Others == {Screen!SchedulePage, Screen!ProjectSettingsPage}

Budget(clicks, turns, shifts, losses) ==
  [clicks |-> clicks, turns |-> turns, shifts |-> shifts, losses |-> losses]

Console == INSTANCE Pages WITH
  Panels <- Polled \cup Others, Flags <- {"list", "delete", "saving"}, Slots <- {1}, MaxLoads <- 1,
  PageBudgets <- {Budget(1, 0, 1, 0), Budget(1, 0, 0, 1)}, calls <- actions,
  loads <- requested

\* What every page of the console offers, its handlers accept: the hypothesis under which what a
\* click may expect is proved.
ASSUME ScreensFit == \A p \in Screen!ConsolePages : Console!OffersFit(p)

Site(page, link) == [html |-> page, link |-> link, ssh |-> FALSE]
Import == INSTANCE LegacyImport WITH
  Jobs <- {1}, NoJob <- 0, Domains <- {a}, Reruns <- 1, MaxPolls <- 2,
  Sites <- {Site(TRUE, "none"), Site(FALSE, "set")},
  ImportBudgets <- {[starts |-> 1, clicks |-> 0, faults |-> 1]}, asks <- starts, polls <- asked

importVars ==
  <<jobs, items, runs, sites, modal, hook, starts, asked, progress, ready, past, left>>

Moves(drafts, clicks, keys, picks) ==
  [drafts |-> drafts, clicks |-> clicks, keys |-> keys, picks |-> picks]
Url(st, n) == [status |-> st, day |-> "", search |-> "", page |-> n]
MCWords == {"", "a", "b"}
MCFirstUrls == {Url("any", 1), Url("failed", 2)}
MCFilterBudgets == {Moves(1, 2, 1, 0), Moves(0, 1, 2, 0), Moves(0, 2, 0, 1)}

MCCheckBudgets ==
  {[manual |-> 1, faults |-> 0, changes |-> 0], [manual |-> 0, faults |-> 1, changes |-> 0],
   [manual |-> 0, faults |-> 0, changes |-> 1]}

Link == INSTANCE LinkTask WITH
  Tasks <- {1}, NoTask <- 0, Links <- {"link"}, Workers <- {a}, MaxRetries <- 2, MaxStuck <- 2,
  MaxWaiting <- 1, crossed <- crossings,
  LinkBudgets <- {[clicks |-> 1, deletes |-> 0, changes |-> 0, faults |-> 2, publishes |-> 0]}
linkVars == <<rows, setting, domain, html, sched, msgs, crew, crossings, outrun, spare>>

pageVars ==
  <<panel, item, sel, list, requested, actions, raised, kept, astray, lowered, written, budget>>
otherVars == <<pageVars, importVars, linkVars>>

MCInit ==
  /\ part \in {"locks", "agent", "cache", "guard", "pages", "import", "filters", "pool", "checks", "links"}
  /\ ConsoleInit
  /\ part # "agent" => asks = 2
  /\ part # "filters" => chosen = Url("any", 1) /\ moves = Moves(1, 2, 1, 0)
  /\ part # "checks" => budgetLeft.manual = 1
  /\ Console!PageInit
  /\ part # "pages" => panel = Screen!RunPage /\ item.st = "pending" /\ budget.losses = 0
  /\ Import!ImportInit
  /\ part # "import" => sites[a] = Site(TRUE, "none")
  /\ Link!LinkInit

MCNext ==
  /\ UNCHANGED part
  /\ \/ /\ \/ part = "locks" /\ LockStep
           \/ part = "agent" /\ AgentStep
           \/ part = "cache" /\ CacheStep
           \/ part = "guard" /\ BrowserStep
           \/ part = "filters" /\ FilterStep
           \/ part = "pool" /\ PoolStep
           \/ part = "checks" /\ CheckStep
        /\ UNCHANGED otherVars
     \/ part = "pages" /\ Console!PageNext /\ UNCHANGED <<consoleVars, importVars, linkVars>>
     \/ part = "import" /\ Import!ImportNext /\ UNCHANGED <<consoleVars, pageVars, linkVars>>
     \/ part = "links" /\ Link!LinkNext /\ UNCHANGED <<consoleVars, pageVars, importVars>>

MCSpec == MCInit /\ [][MCNext]_<<part, consoleVars, otherVars>>
-----------------------------------------------------------------------------
(***************************************************************************)
(* The fairness of each component: what the code or its environment does   *)
(* sooner or later.  Naming the part spares TLC the other components.      *)
(***************************************************************************)
OnLocks(A) == part = "locks" /\ A
OnAgent(A) == part = "agent" /\ A
OnGuard(A) == part = "guard" /\ A
OnPages(A) == part = "pages" /\ A
OnImport(A) == part = "import" /\ A
OnPool(A) == part = "pool" /\ A
OnChecks(A) == part = "checks" /\ A
OnLinks(A) == part = "links" /\ A

\* Timers tick, requests are served, time passes.
LockFairness ==
  /\ \A t \in Tabs :
       /\ WF_lockVars(OnLocks(Heartbeat(t))) /\ WF_lockVars(OnLocks(Poll(t)))
       /\ WF_lockVars(OnLocks(Fetch(t)))
       /\ \A d \in Docs : WF_lockVars(OnLocks(Acquire(t, d))) /\ WF_lockVars(OnLocks(Release(t, d)))
  /\ \A d \in Docs : WF_lockVars(OnLocks(ExpireLock(d)))

\* Requests are served, streams are read, and every run of an agent ends (its time is
\* limited by AGENT_TIMEOUT_SEC).
AgentFairness ==
  /\ \A p \in Panels, k \in Slots :
       WF_agentVars(OnAgent(Serve(p, k))) /\ WF_agentVars(OnAgent(Read(p, k)))
  /\ \A p \in Panels : WF_agentVars(OnAgent(StopReturns(p)))
  /\ \A s \in Sessions :
       /\ WF_agentVars(OnAgent(\E kind \in Ends : SayEnd(s, kind)))
       /\ WF_agentVars(OnAgent(\E kind \in Ends : SayLast(s, kind)))
       /\ WF_agentVars(OnAgent(Finish(s))) /\ WF_agentVars(OnAgent(MarkDone(s)))
       /\ WF_agentVars(OnAgent(Unregister(s)))

\* The timer runs as long as the page does, requests return, and tokens expire.
GuardFairness ==
  /\ WF_guardVars(OnGuard(Expire))
  /\ \A t \in BrowserTabs :
       /\ WF_guardVars(OnGuard(RefreshNow(t))) /\ WF_guardVars(OnGuard(Refreshed(t)))
       /\ WF_guardVars(OnGuard(FetchMe(t))) /\ WF_guardVars(OnGuard(Again(t)))

\* Requests are served and answered, and the timer runs.
PageFairness ==
  /\ WF_pageVars(OnPages(Console!Tick))
  /\ WF_pageVars(OnPages(Console!Perform(1))) /\ WF_pageVars(OnPages(Console!Return(1)))
  /\ \A by \in {0, 1}, silent \in BOOLEAN :
       /\ WF_pageVars(OnPages(Console!Read(by, silent)))
       /\ WF_pageVars(OnPages(Console!Arrive(by, silent)))

\* Requests are served and answered, workers go on, and an interval ticks until it is cleared.
ImportFairness ==
  /\ WF_importVars(OnImport(Import!Submit(1))) /\ WF_importVars(OnImport(Import!Started(1)))
  /\ WF_importVars(OnImport(jobs[1].st = "refused" /\ Import!StartFails(1)))
  /\ WF_importVars(OnImport(Import!PollTicks(1))) /\ WF_importVars(OnImport(Import!ReadJob(1)))
  /\ WF_importVars(OnImport(Import!PollArrives(1)))
  /\ WF_importVars(OnImport(Import!AddItem(1, a))) /\ WF_importVars(OnImport(Import!WorkerStep(1, a)))

\* A dial has a time-out, an operation ends, a goroutine goes on, a sleep is over.
PoolFairness == \A x \in Callers : WF_poolVars(OnPool(Proceed(x)))

\* The cron entry comes, a run goes on or is cut off, tasks are delivered and delays pass.
CheckFairness ==
  /\ \A r \in {a, b, c} : WF_checkVars(OnChecks(GoOn(r)))
  /\ WF_checkVars(OnChecks(RetryFallsDue)) /\ WF_checkVars(OnChecks(AttemptGrowsOld))

\* The scheduler ticks, workers go on with what is delivered, and time passes.
LinkFairness ==
  /\ WF_linkVars(OnLinks(Link!WorkOn(a)))
  /\ WF_linkVars(OnLinks(Link!ResetStuck(1))) /\ WF_linkVars(OnLinks(Link!Enqueue(1)))
  /\ WF_linkVars(OnLinks(Link!GrowOld(1))) /\ WF_linkVars(OnLinks(Link!FallDue(1)))
  /\ WF_linkVars(OnLinks(Link!MarkRow)) /\ WF_linkVars(OnLinks(Link!MarkDomain))
-----------------------------------------------------------------------------
\* Under the fairness of FileLock (heartbeats, polls, expiry): who opens a file another user
\* keeps open is warned, unless one of them leaves it; a lock nobody keeps alive is freed.
LocksServe == part = "locks" /\ LockFairness => SomeoneIsWarned /\ LeftIsFreed

\* Under the fairness of AgentChat (agents end, streams are read): a panel does not show a
\* running agent for ever, unless a request or the last event was lost.
AgentsEnd == part = "agent" /\ AgentFairness => RunningEnds

\* Under the fairness of AuthGuard (answers arrive, timers fire): an ended session is noticed.
GuardNotices == part = "guard" /\ GuardFairness => EndedIsNoticed

\* Under the fairness of Pages (answers arrive, timers fire): a page that polls while a row
\* is unsettled comes to show what the server has, and a flag that disables buttons is lowered.
PagesFollow == part = "pages" /\ PageFairness => Console!PollFollows /\ Console!FlagsFall

\* Under the fairness of LegacyImport (requests are answered, workers go on, the interval ticks):
\* an import that was started is over at last, unless an item got no task or a task died with
\* its last worker.
ImportsEnd == part = "import" /\ ImportFairness => Import!ImportEnds

\* Under the fairness of SSHPool (dials and operations end, waits are over): who waits for a
\* connection gets one or is told why not, as long as the pool is open.
CallersAreServed == part = "pool" /\ PoolFairness => WaitersAreServed

\* Under the fairness of IndexCheck (ticks come, runs go on or are cut off, delays pass): a
\* check that was begun ends.
ChecksEnd == part = "checks" /\ CheckFairness => CheckEnds

\* Under the fairness of LinkTask (ticks come, workers go on, delays pass): a link task ends,
\* is deleted, or was marked as under way after its last run too often to be looked for.
LinksEnd == part = "links" /\ LinkFairness => Link!TasksEnd
=============================================================================
