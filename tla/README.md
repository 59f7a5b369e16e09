# A verification model of the PBN generator

The program manages sites ("domains" of a "project"): `src/pbn-generator` (Go) generates a
site with an LLM pipeline, publishes it, inserts links, checks whether it is indexed, and
lets users edit it by hand or with an AI agent; `src/frontend` (Next.js) is the console.
Five processes - the API server, the scheduler, the workers, the index checker and one-off
tools - share a SQL database and a Redis task queue (asynq). Almost nothing is done in a
transaction and no row is locked: a handler reads a row, decides, and writes it back in one
or more later statements. In the console it is the same with other means: a page keeps a
copy of rows it loaded, the answers of its requests come in any order, and what the user
does in between meets state that is no longer the one shown. What can go wrong here is
therefore not in one function but between two statements of one and the statements of
another. That is what these modules model.

## 1. Inventory

| component | state it keeps | operations | hard behaviours | what makes it correct |
|---|---|---|---|---|
| Generation API (`internal/httpserver/generation_link_handlers.go`, `project_domain_handlers.go`) | `generations`, `domains.status`, `last_generation_id`, `last_success_generation_id` | generate, force_step, pause, resume, cancel, delete, recovery of stale transitions on GET | check-then-act without a transaction; row, task and domain written one after the other; a disconnected client cuts a handler off | one active generation per domain; a pending row has a task; a request is decided |
| Generation worker (`cmd/worker/process_generation.go`) | `generations.*`, in-memory pipeline state, a watcher goroutine | settle, claim, run, finish, fail, save LLM requests | redelivery after errors and crashes; two deliveries at once; write-back of a status read earlier | a run ends in a final status; finished steps are kept; retries are bounded |
| Step pipeline (`internal/worker/pipeline`) | `artifacts`, checkpoint | run, skip, force, save, publish | pause between steps; skipping by the presence of an artifact; half-done publish | a step runs only after the steps it needs; nothing is called published that is not |
| Scheduler: queue and retries (`cmd/scheduler/main.go`, `internal/retry`) | `generation_queue`, retry columns | apply schedules, process the queue, retry | one tick works from stale lists; enqueue fails after the row changed | each queued item is closed; retries end; the domain leaves `processing` |
| Schedule timing and forms (`computeScheduleNextRun`, `useProjectSchedules`, `ScheduleForm`) | `schedules`, `link_schedules` with `last_run_at`, a form | read a row into the form, build it again, toggle, trigger, delete, next run | translations with defaults of their own; a run time that nothing resets; a load under the typing user | a schedule runs as the one who saved it was shown |
| Task queue (`internal/tasks`, asynq) | Redis | enqueue, deliver, retry, recover | at least once, unordered, bounded retries | (assumed) |
| Link tasks (`internal/worker/link_worker.go`, `sqlstore/link_tasks.go`, link half of the tick) | `link_tasks`, `domains.link_*`, site files | create, enqueue, search, insert, remove, retry, reset when stuck | the scheduler writes the status after enqueuing; a worker does not check it; time-out racing a slow worker | the page has its link once and as recorded; tasks end; the site is not left "searching" |
| Index checks (`internal/indexchecker`, `sqlstore/index_checks.go`) | `index_checks`, history | daily tick, manual check, mark, retry, fail stale | overlapping ticks; manual reset during a run; midnight | one run of a check at a time; at most 8 attempts a day; each check ends |
| SSH pool (`internal/domainfs/ssh_pool.go`) | open clients per target | acquire, wait, dial, release, discard, prune, close | slots counted beside the clients; close during a dial or a wait | never more than the limit; each client has one owner; nothing idle after close; who waits is served |
| AI agent sessions (`internal/httpserver/agent_*`, `useAgentSession`) | in-memory hub, `agent_sessions`, snapshots, panels | start, stream, reconnect, stop, roll back | requests that overlap; reconnecting subscribers; a full channel | one agent per domain; the editor hears of every changed file; no panel shows "running" for ever |
| File locks (`sqlstore/file_locks.go`, `useFileLock`) | `file_locks`, what each tab last read | acquire, renew, poll, release, purge | outcome read by a second statement; expiry; late requests | a live lock is not taken over; who shares a file is warned; a file nobody has open is freed |
| Editor files, history, list cache | site files, `site_files`, `file_revisions`, Redis cache | save, move, delete, revert | version check then write; regeneration; invalidation racing a rebuild | nobody replaces what he has not seen; what is replaced is in the history |
| Content backends, publishers | local or remote file trees | read, write, publish | partial upload | as the pipeline assumes |
| Legacy import (`internal/importer/legacy`, `cmd/worker`, `useLegacyImport`) | `legacy_import_jobs/items`, link tasks, an interval | start, import a site in steps, count, poll | redelivery counts twice; an item without a task; an interval overwritten | what a job says when it ends is true; one link task; the job is followed |
| Accounts, sessions, captcha | `users`, `sessions`, cookies | register, log in, refresh, log out | tabs share cookies; refreshes overlap | who is logged in is not thrown out; who is not notices |
| LLM client, analyzer, prompts | rate limiter | call | external failures | - |
| Console: editor and content mode (`features/editor-v3`, `features/content-editor`) | buffers, versions, drafts, the list of files | type, save, publish, create, move, delete, restore | answers out of order, files replaced under the tab, half-done publications | what is called clean is stored; nobody's text is replaced unseen |
| Console: queues, runs, links, projects, domains, monitoring, administration | lists with filters and pages, flags, timers | choose, turn, refresh, poll, act | late answers, stale offers, flags taken down by others | shows what is selected and what was done; is not stuck |
| Console: filters of the index page | address, filters, draft, debounced text | choose, type, apply, turn | two effects that copy each other's state | what was chosen is kept; the address settles |
| Console: guard and cache (`useAuth.ts`, `http.ts`) | cookies, counters, kept answers | refresh, repeat, keep, invalidate | overlapping requests and tabs | above; answers are not older than they may be |
| Trash, inventory tool, schema, documentation | | | | - |

How they interact. The API and the scheduler create rows and put a task with the row's id
in Redis; workers take tasks, read the row, work for minutes and write it back. Pause and
cancel are messages left in the status column: the worker polls it once a second (the
watcher) and before and after every step. When a worker is gone nobody is left to answer
them, and the API recovers requests older than two minutes when somebody looks at the
page. The domain's status is a summary that every one of these processes writes from
its own copy of the domain. The console talks to the API only; it polls
while it shows work under way, and the AI agent's events come as a stream. Editor, agent,
link worker and generation write the same files of a site; nothing but versions, locks that
warn, and revisions stands between them.

## 2. The modules

| module | models | checked with | proved in |
|---|---|---|---|
| `Generation` | API, workers, pipeline, queue and retries for one domain | `MCGeneration`, eight runs | `GenerationProofs` |
| `LinkTask` | tick, workers, users and publications around the link of one site | `MCPages`, `MCConsole` | `PagesProofs` |
| `IndexCheck` | ticks, single runs, resets and midnight around the check of one site | `MCConsole` | `ConsoleProofs` |
| `SSHPool` | connections of one target: limit, waiting, Close | `MCConsole` | `ConsoleProofs` |
| `FileLock` | locks that expire, and the tabs they warn | `MCConsole` | `ConsoleProofs` |
| `AgentChat` | agent loops, the hub, streams and panels of one domain | `MCConsole` | `ConsoleProofs` |
| `Editor` | code editor: files, versions, revisions, two tabs | `MCEditor` | `EditorProofs` |
| `ContentMode` | a page taken apart, edited and published | `MCEditor` | `ContentModeProofs` |
| `LegacyImport` | a job, its tasks and counters, and the page that follows it | `MCPages`, `MCConsole` | `LegacyImportProofs` |
| `ScheduleForms` | schedule rows, forms, cards, when a row runs and whether it has run | `MCPages` | `ScheduleProofs` |
| `Pages` | one list or object page: filters, pager, loads, polling, actions | `MCPages`, `MCConsole` | `PagesProofs` |
| `Screens`, `ConsoleScreens` | what each page of the console loads, offers, locks, and what its handlers accept (values for `Pages`) | as `Pages` | |
| `IndexFilters` | the filters of the index page and its address | `MCConsole` | `BrowserProofs` |
| `AuthGuard` | tabs, cookies, refreshes | `MCConsole` | `BrowserProofs` |
| `AuthCache` | the cache of answers of one path | `MCConsole` | `ConsoleProofs` |
| `FreshReads` | abstract: an answer shown was current within the last `Ttl` | implemented by `AuthCache` | `ConsoleProofs` |
| `EditorPage` | composes `Editor` and `ContentMode`: the editor page in either mode | `MCEditor` | `EditorProofs` |
| `ProjectPages` | composes `Pages`, `LegacyImport`, `ScheduleForms`, `LinkTask`: a project | `MCPages` | `PagesProofs` |
| `ConsoleServices` | composes `FileLock`, `AgentChat`, `AuthCache`, `AuthGuard`, `IndexFilters`, `SSHPool`, `IndexCheck` | `MCConsole` | `ConsoleProofs` |

The last three compose what a user has open at once. Their components share no state that two of
them change, so a step of the whole is a step of one component that leaves the others alone, and the
composition is where the theorems about the parts become theorems about the whole, whatever the
order of the steps (section 7). Each MC module extends one of them (`MCEditor` extends `EditorPage`,
`MCPages` extends `ProjectPages`, `MCConsole` extends `ConsoleServices`), so that the runs check the very
definitions the proofs are about, and TLC evaluates every assumption on constants. The product of the
components' states is of no use to TLC: in a run each behaviour is about one component (`part` in
`MCPages` and `MCConsole`, the mode in `MCEditor`), and the variables of the others keep their first
values. `MCConsole` has instances of `Pages`, `LegacyImport` and `LinkTask` besides, for what must happen at last.
Composed inside a module are what really meets on the same state: API,
scheduler and worker (`Generation`, `LinkTask`, `LegacyImport`), hub, handlers and panels
(`AgentChat`), tabs, handlers and regeneration (`Editor`), a page and the handlers it calls
(`Pages` with `Screens`).

What would come next: several files of a site in `LinkTask` with `Editor` writing them too; the
rollback of an agent (`agent_snapshot.go`) on the files of `Editor`; and `Publication`, an abstract
specification of what a user is told of one generation.

## 3. The model `Generation`

One domain: the rows of different domains meet only in the worker slots. One action is the
code between two points where another process may run: a read with the branch taken on it,
or a write with the writes that directly follow it. So `saveArtifacts` is `SaveRead` and
`SaveWrite`, and a pause may fall between them.

| state | in the code |
|---|---|
| `gst`, `arts`, `retry`, `att` | `generations.status`, the keys of `artifacts`, `retryable` with `next_retry_at`, `attempts` |
| `dst`, `site`, `lastGen`, `lastSucc` | `domains.status`, "has published path and files" (what `stableDomainStatus` looks at), the two pointers |
| `items` | `generation_queue.status` |
| `tst`, `tgen`, `tforce`, `tleft` | tasks in Redis: waiting or delivered, the payload, redeliveries left |
| `wpc`, `wtask`, `wi`, `warts`, ... | a worker goroutine: where it is in `processGeneration`/`Pipeline.Run`, its task, the step, `state.Artifacts`, and the copies it read and will write (`wread`, `wcopy`, `watt`, `wstable`) |
| `wstop` | `stopReason`; when set, `runCtx` is canceled, and calls that use it fail |
| `cpc`, `cgen`, `cforce`, `cread`, `ccopy`, `cstable` | an API request between its statements |
| `spc`, `sgen`, `sitem`, `sdue` | the scheduler tick between its statements |

Worker actions in the order of the code: `Start` (read and branch), `Settle` (a request found
at the start), `Claim` (status `processing`, artifacts overwritten with NULL), `Load`, then
per step `Top` (CheckStatus, skip), `Before`, `Execute`/`ExecuteFails`/`ExecuteCanceled`/
`PublishFailsHalfway`, `SaveRead`, `SaveWrite`, `After`, `Progress`; and the endings `Success`,
`SuccessWrite`, `Finish`; `Stop`, `Stopped`, `StopWrite`; `Halt`, `HaltWrite`; `Canceled`; `Fail`,
`FailWrite`, `FailRetry`; `SetupFails`; then the deferred `LlmRead`, `LlmWrite`, and `Return`.
`Watch` is the polling goroutine and may act between any two of them. `WorkerCrash` is a dead
process or a passed deadline. `PublishStep` may end between its statements, by a failure or
because `runCtx` was canceled: the files are deployed then and the domain is marked or not
(`PublishedHalfway`).

A request to generate is `Recover`, `Check`, `Inherit` (the artifacts of an earlier row are read), `Create`,
`EnqueueNew`, `Post`; to resume `Recover`, `Resume`, `ResumeDomain`, `ResumeEnqueue`. The tick handles a queue
item with `CreateFromItem`, `MarkFromItem`, `EnqueueFromItem`, `MarkItem`, and a retry with `PrepareRetry`,
`EnqueueRetry`. Row, domain and task are three steps wherever the code has three statements.

Abstractions. A step is its number and one artifact (the 15 or 17 steps of the program
differ in data only; the last one is `PublishStep`). "Stale" (2 minutes) and "due" have no
clock: what the code does after a delay may happen at any time, which includes every
timing. The 24-hour retry window is a free choice at each failure. The checkpoint column is
written and cleared by the code but never read, so it is left out. All generations have
one type, as for a domain whose type is not changed. Log flushes write one column nobody
else reads. A failing database statement is modelled where the code reacts to it with a
state of its own (set-up, publish, enqueue, disconnect, crash), not for every statement;
deletion of the domain itself is not modelled. `Kept` looks at the artifacts of steps: a row that holds
nothing but `llm_requests` is empty in the model, and is not in the code
(process_generation.go:252-255, 491). A failed set-up writes "error" in every case; the one early
exit that writes nothing (331-333, a content backend that cannot be built) is never taken, because the
worker does not start without one (cmd/worker/main.go:53). `Mistakes`: operators marked `(mistake: ...)`
are variants of an action as a plausible bug would have it, kept beside the right one to
show that each property notices it; the specification does not use them.

Bounds, all of them CONSTANTS: rows ever created (`MaxGens`), steps (`NSteps`), requests
(`MaxRequests`), live tasks (`MaxTasks`), queue items (`MaxItems`), redeliveries, retries.
When a bound on ids is reached the model takes the code's own failure branch (the INSERT
fails); a request over the bound does not arrive; enqueuing waits for a free task id.

## 4. The other modules

One action is, as in `Generation`, the code between two points where something else may
happen: a database statement with the branch taken on it, an `await` to the next, a render
with its effects. `Mistakes`: operators marked `(mistake: ...)` are variants as a plausible bug
would have them; no specification uses them.

**`LinkTask`.** `rows` are the rows of `link_tasks`, `domain` the two columns of the domain, `setting`
the configured link, `html` how many copies of each link the page has, `sched` where the tick is, `msgs`
the deliveries in Redis, `crew` a worker with the copy of the row it began with: its action, link and
attempts, and the link of the site's last task (`prev`), which it will replace or remove. A tick is
`ResetStuck`, then for each task `Enqueue`, `MarkRow`, `MarkDomain`: enqueued first, marked later. A
worker is `Begin`, `Look` or `LookToRemove`, `ReadPage`, `WritePage`, `Record`, `Tell`, and `Fail` or
`Die` anywhere. Users: `Run`, `Retry`, `Delete`, `ChangeSetting`; generations: `Regenerate`, `Publish`.
`crossed` notes that two runs met, that two tasks of the site were to be run at once, that a task was
changed under its run, or that nobody knows any more which link is on the page: its task was deleted,
restarted with another link, or failed for good after it wrote. `outrun` notes that a run ended between
the two marks. Abstractions: one site, one page, "inserted" and "generated" are one status, `Begin`
merges the reads before the first look. `ResetStuck` and `Enqueue` read and write one task in one step,
where the code lists all of them first (main.go:998, 1017). A change that comes between the list and an
enqueue is for the model one that comes right after the enqueue, which only adds a delivery; but a task
deleted while earlier ones of its batch are enqueued is enqueued still, and a task that ends between the
list of the stuck ones and its UPDATE is set back to pending, and run once more: both are left out.
`needs_relink` is set when a generation starts (`Regenerate`) and when it is published (`Publish`). Left
out too is the failing of tasks of a domain that is not published (main.go:713-722): the site of the
model is.

**`IndexCheck`.** `check` is the check of one site and day, `runner` where each tick and the worker
is, `wanted` the tasks of single checks, `tries` how often the search engine was asked. `TickBegin`,
`FailStale`, `Gather`, then per check `Take`, `Load`, `Mark`, `Search`, `CountAttempt`, `Settle`; `ManualRun`,
`ChangeSite`, and time: `RetryFallsDue`, `AttemptGrowsOld`, `DayPasses`. A tick's context and the stale
time-out are the same 20 minutes, so a tick does not find its own run stale; the worker's run
may be found so. `Lose` is a dead process or a shutdown, after which the task is lost or put
back. The global switch off is the same as no tick; the history, the content backfill and a domain that is
deleted under its check (which then has no end, 296-299) are left out.

**`SSHPool`.** `open` is the counter, `idle` and `alive` the connections, `at[c]` where a caller is in
`Acquire` or in its operation. `TakeIdle` (with pruning of expired ones), `SkipIdle`, `Reserve`, `Dial`,
`DialFails`, `Wake`, `GiveUp`, `Return`, `Break`, and Close in its two critical sections, `ClosePool` and
`CloseBucket`. The idle stack is a set, and the notification channel is left out: a wait ends
after 100 ms whether it was notified or not.

**`FileLock`.** `holder` and `live` are the row and whether `expires_at` is ahead, `lockView` what each
tab read last, `calls` its requests under way. `Switch` releases and acquires as the hook's effect
does, `Heartbeat` and `Poll` are its intervals. What the second statement of Acquire reports is left out: the
hook does not read the answer, it asks for the list (useFileLock.ts:61-62). `Fetch` has the list read and shown
in one step; a list that was read earlier and is shown later is as one of a slower poll.

**`AgentChat`.** `row` the table, `hub` and `active` the in-memory hub, `buf` a session's events; for each
panel its status, the session it shows, its streams (`slot`), the abort controller and what it
remembered for a reload. The loop is `ChangeFile`, `SayEnd`, `Finish`, `MarkDone`, `Unregister`; a run of one
call, and a server without a key for the model, write the row before they publish the last event
(`WriteFirst`, `SayLast`). `told` is `refreshedInRun`, the files a stream told the editor of. `Reconnect` has the
session's details fetched and the stream asked for in one step. A rollback of a session with no file to
restore changes nothing on either side and is no step. `Restart` is a server that dies and starts
anew: the hub is gone, streams break, rows that say running stay so until `MarkStale`, the clean-up of
every minute. The clean-up waits longer than a run may take, so it is taken only where no run goes on.

**`Editor`.** `row`, `disk`, `revs` are `site_files`, the files and `file_revisions`; for each tab the list, the
selection with its version, the buffer, loads and a save under way, a file action under way.
`stored` (ghost) is what was stored as each version. A save is `SaveCheck`, `SaveBytes`, `SaveCount`,
`SaveDone` on the server. `hasty` notes the tabs whose user did not wait, and those that were open
when versions restarted (`Regenerate`); `raced` two overlapping writes; `held[p]` which files were
ever at a path. `Calm(t)` is a tab none of this happened to. An upload and a revert are one step each
(`ServeUpload`, `ServeRevert`): two of them that overlap are not modelled, nor old bytes that cannot be read
(their revision is empty then, editor_file_handlers.go:529, 1075), nor a save that fails between the bytes and
the row or the revision (704-716, 735-738).

**`ContentMode`.** A page is a frame (whose it is), a body, a head and a style; a draft is what the
user sees. Loading takes a page apart and sanitises it, publishing puts it together. `past`
(ghost) is what each version was. Bounds: one publication and one job at a time; every page
has the elements the extraction looks for, and no two pages have the same HTML (they would share a
draft: `lastRawRef`, useHtmlTextExtractor.ts:31). `Compare` takes the first change for the baseline, as
`handleContentChange` does, whoever made it.

**`LegacyImport`.** `jobs`, `items`, `runs` (the worker of an item, step by step), `sites` (what a site
has before), `modal`, `hook` (the React hook with its interval), `polls`. `past` notes overlapping
imports and answers out of turn; `again`, `short`, `torn` a counted task tried again, an item without a
task, a domain that could not be told. Leaving the page is not modelled, nor a failure of the writes
whose errors the code drops: what the steps report of an item (web_service.go:135, 364-366), the
counters and the end of the job (main.go:167-181), and the item's very last write; polls that were not
yet served and are alike count as one.

**`ScheduleForms`.** `row` on the server, `seen` on the card, `form` in the dialog; `Runs(row)` is when the
scheduler runs a row (`computeScheduleNextRun` with the handlers' defaults), `meant` (ghost) what
the form showed when it was saved. The scheduler is a process of its own: `TickTakes` is a row in its
list, `TickRuns` the run and the write of `last_run_at`, whatever the row has become meanwhile, and `ran` the
rows that have one, which no handler takes back. There is no clock: a row that is to run is due at
any time. Deleting asks twice, in the page's dialog and in a `confirm()` of the handler; to decline the second
is `CancelDelete`. Names, descriptions, limits, delays, zones and the run times on the card are left
out.

**`Pages`, `Screens`, `ConsoleScreens`.** A page of the console is a record: what it shows, whether it
has filters and pages, when it polls, and its actions - each with when the page offers it, whether a
lock or flags disable it, what the server's handler accepts and writes, and what the page does with the
answer. `Pages` is the machine that runs any such page against one item which the server moves along its
life; 43 pages are given. `DomainLinkPage` has all four buttons of the section "link" of a domain, also
"retry" of a task that is stuck, which no lock disables, and "reset", which is answered with success and
changes nothing (section 5); both load the tasks again and not the domain. `astray` notes that the last
answer was late, wrong or failed, `lowered` that a load took a flag down.

**`IndexFilters`.** The state of the page (`chosen`), the debounced text, the draft of the bar, the
address (`url`) and the one on its way (`nav`). `Render` is a render with all its effects; three of them
in a row settle. Status, day, search and page stand for all the filters. The bar takes up the filters
that were applied (`Redraft`), and a reset sets it back even where nothing is to apply.

**`AuthGuard`, `AuthCache`, `FreshReads`.** Cookies shared by tabs, each with its timer, its refresh and
its count of failures; and the cache of one path, with `replaced` (ghost) the moment each version
was replaced, which is `until` of `FreshReads`. A tab has one guard, where the code mounts one in the layout and
another in a page: their timers and their counts of failures are one.

## 5. What is checked

Deadlock checking is off in all runs because the system may rest: no request pending, no
task, no user.

| run | instance | shows |
|---|---|---|
| `gen_overlap` | 2 workers, 1 client, 1 generation, 3 steps, pause/resume, failing steps | `TypeOK`, `StepInputsReady`, `NothingClaimedBeforePublish` when deliveries of the same generation overlap; 2.2 million states |
| `gen_faults` | 1 worker, 2 generations, force_step, delete, a queue item; every fault but a transient one | the same two while anything may die or fail anywhere; 0.9 million states |
| `gen_settles` | 1 worker, all user actions, failing steps, fair | `PendingHasTask`, `EventuallySettles` |
| `gen_crash` | 1 worker that may die, Redis that may refuse, fair | `TransitResolves` |
| `gen_scheduled` | schedules only, transient and permanent failures, half-done publications, enqueues that fail, 2 generations, fair | `SuccessIsComplete`, `RetriesEnd`, `DomainSettles`, `FailedRunKeepsWork` |
| `ui_editor` | 2 tabs, 2 files, 2 paths, or content mode with 2 pages; 2.0 million states | `CleanIsTrue` (what is shown as unchanged is stored), `ReplacedIsInHistory`, `PagesKeepTheirOwn`, `NobodyIsOverwritten` |
| `ui_pages` | each of 43 pages; an import of up to 2 sites; a schedule; the link of a site with 2 tasks; 3.1 million states | `ShownIsTrue` (a page shows what is selected and what its own actions did), `ClicksAreSound` (one action at a time, refused only if the row changed), `ImportSafe`, `LinkIsKept`, `FormsAreTrue` |
| `ui_console` | the smaller components, some pages, an import, a link task, fair; 0.5 million states | `NeverStolen`, `LocksServe`; `OneAgentPerDomain`, `ChangesAreShown`, `AgentsEnd`; `ShownIsFresh`; `NotThrownOut`, `GuardNotices`; `PagesFollow`; `ImportsEnd`; `ChoiceSettles`; `PoolSafe`, `CallersAreServed`; `ChecksAreSound`, `ChecksEnd`; `LinksEnd` |
| `gen_pause_lost` | 1 worker, 1 generation | **violated**: `PauseIsNotLost` |
| `gen_parallel` | no worker needed, 2 generations | **violated**: `OneActive` |
| `gen_retry_forever` | 1 worker, one queue item, set-up failures | **violated**: `RetriesEnd` |
| `agent_stop` | one panel, 2 sessions | **violated**: `StopIsFinal` |

Each module's type invariant is checked as well (`EditorTypesOK`, `PagesTypesOK`, `ConsoleTypesOK` are the
conjunctions of those of a run's modules). Where a run's property is a conjunction, its parts have
names in the module they are about: `PoolSafe` is `ConnectionsHaveOwners`, `ConnectionsWithinLimit` and
`ClosedPoolDrains`; `LinkIsKept` is `LinkOnce`, `PageAsRecorded` and `SiteNotStuck`; `ChecksAreSound` is
`OneRunAtATime`, `AttemptsAreBounded` and `ResultsAreKept`; and so on.

**Bounds of `Generation` and why they suffice.** The interesting cases need two deliveries of one
generation (two tasks, or one redelivered), a gap of at least one step before the one that
publishes (3 steps in `gen_overlap`; 2 where two generations exchange artifacts), one generation
to inherit from another (2), a request between a read and a write and one more to undo it
(2-3 requests). The two safety properties of `gen_overlap` and `gen_faults` are also proved
without bounds.

**Bounds of the others.** What users, others and the network do is a budget per behaviour,
split over several initial states (`...Budgets`, `Habits`): two clicks with a move of the server,
two with a lost request, two turns of the pager with a move, and so on. A race needs two actors
and one disturbance, and every pair has a budget. By module:
  - `Editor`: 5 steps of users at most, `MaxVersion` 6, two texts, proved without these bounds
    (`EditorAssumption` asks for finitely many files and one version at least); `ContentMode`: two edits at most,
    two publications at most, one loss, four versions of a page.
  - `Pages`: two requests at a time (`Slots`), two loads under way (`MaxLoads`); two clicks, or one with a
    lost answer and a move of the server, or two turns of the pager with a move; `DomainStartPage` and
    `DomainRunsPage`, the largest, without two clicks and a move together. The safety of a page is proved without
    these bounds.
  - `LegacyImport`: one redelivery instead of two, two sites where a fault or a second import is
    tried, two polls under way; `ui_console` has one site.
  - `ScheduleForms`: at most 3 clicks, 2 things typed, 1 change by another user, 1 lost request.
  - `LinkTask`: one worker and two tasks in `ui_pages` (two runs at once are exempted, and a run may
    still be redelivered, reset and outrun by the tick), `MaxRetries` 1 or 2 instead of 7 and `MaxStuck`
    2 instead of 5, one waiting delivery per task. The liveness run has one task, one link and two
    faults. The safety is proved without these bounds.
  - `IndexCheck`: two ticks and the worker, `MaxAttempts` 2 instead of 8, one of: a reset, a death, a
    change of the site; proved without bounds.
  - `SSHPool`: 3 callers, limit 2, one idle, one operation each; proved without bounds.
  - `FileLock`: 3 tabs, 2 users, one file, one late or lost request; `AgentChat`: one panel in two
    streams, 2 sessions, two changes of a file in a run; `AuthGuard`: 2 tabs, 2 log-ins, 3 refusals;
    `AuthCache`: 2 requests, 2 versions, `Ttl` 2.
  - `IndexFilters`: two loads under way, two pages, three texts.

**Fairness.** `FairSpec` of `Generation`: deliveries and requests under way go on (goroutines are
scheduled; every call has a time-out), a queued task is delivered (asynq), the tick comes (a
cron entry every minute), and an open page polls GET, which is what recovers stale transitions:
`Pages` models that polling. Without the last assumption `TransitResolves` is false, and that is a
fact about the program: a request left over from a dead worker is decided only when somebody
looks. In `MCConsole` each component has a fairness of its own, used only in the properties of
that component: intervals tick and requests are answered (`LockFairness`, `PageFairness`,
`GuardFairness`, `ImportFairness`); agents end, because AGENT_TIMEOUT_SEC cancels them (`AgentFairness`);
dials and operations have time-outs and a wait ends after 100 ms (`PoolFairness`); the cron entry
comes and delays pass (`CheckFairness`, `LinkFairness`). No fairness is assumed of users and none of
faults, and all of it is weak: no step that can be taken for ever needs to win a race.

**What holds only under a run's or a property's conditions.** The limits were found by widening
the runs; they are facts about the program:
  - `EventuallySettles` and `PendingHasTask` need one delivery at a time. With two workers `LlmWrite`
    of a finished delivery can restore the status it read before the other one changed it, and
    `Resume` overwrites a row another delivery has moved.
  - `PendingHasTask` needs a scheduler that does not die between `PrepareRetry` and `EnqueueRetry`, an
    enqueue that does not fail there, and a client that stays connected between `Create` and
    `EnqueueNew`. Otherwise a pending row without a task blocks the domain. A resume whose enqueue fails
    while a worker is between its read and its write is another way; `Orphans` names them all (section 7).
  - `DomainSettles` is checked where schedules create the generations. `handleDomainGenerate` and
    resume write the domain's `processing` when the task is already in Redis, or when a user has
    already cancelled; the domain then says `processing` with nothing active.
  - `SuccessIsComplete` and `FailedRunKeepsWork` hold where no stale transition is recovered: the
    recovery writes the snapshot of the artifacts it read over what a live worker saved. A recovery of a
    row nobody works on does no harm (section 7).
  - Link tasks: two runs that meet on the page insert twice, and so do two tasks that wait for one
    site at once (Retry takes a row of any status) or a new task after one that failed for good with
    its link already written: only the last task's link is looked for. A task restarted, reset to
    "remove" or purged after it wrote forgets which link is on the page; a run that ends between the
    scheduler's two marks leaves the domain "searching"; a row marked late with 5 attempts is
    never listed by `ListStuck` (which asks for fewer than 5 while retries go to 7).
  - Index checks: a reset under a run is overwritten by the run; a check pending at midnight stays
    pending; a single run longer than 20 minutes is failed while it runs.
  - SSH pool: a caller that waits when the pool closes waits until its context is over.
  - Agents: a lost last event leaves the panel on "running" until Stop or a reload. A file that a stream told
    of is not loaded again at the end of the run (`refreshedInRun`), so a second change of it whose event is
    dropped is not shown: TLC finds this when `ChangesAreShown` does not except `told`.
  - Editor: what is typed during a save is called saved when it returns; two saves that both pass
    the version check lose one text; a path given to another file confuses versions.
  - Content mode: the first change after a page is loaded is taken for the editor's normalisation of the HTML
    (useHtmlTextExtractor.ts:47-53), but `ContentEditor` does not report what `setContent` did (64-67, 80-86), so
    that it is the user's: it becomes the baseline, is not marked as a change, and the button that
    publishes stays disabled until the next one. `CleanIsTrue` calls the text up to the baseline clean. A page
    deleted and made again counts its versions anew; `style.css` has no version.
  - Import: a task that was counted and is tried again is counted twice; an item without a task
    leaves the job running and the page polling; a second import takes the first one's timer.
  - Schedules: "once" for links runs daily at midnight; "once" for a schedule of generations that has
    run never runs: `computeScheduleNextRun` runs "immediate" while `last_run_at` is unset
    (main.go:1168-1170), and no change of a schedule resets it, though the form calls it "Запустить один
    раз сейчас" (ScheduleForm.tsx:213); cron of six fields is stored and never runs; intervals and
    numbered days are shown as the form's defaults; a load under an open dialog that was empty refills
    it.
  - Index page: text typed while an address is on its way is lost; a project picked with filters set
    makes the two effects take turns.
  - Pages: a late answer of an older selection replaces a newer one; Cancel of a cancelled run and
    forcing a step of a run under way are offered and refused. The reset of a link status does nothing: the
    page sends `link_status`, the handler decodes a body without such a field
    (project_domain_handlers.go:1217), updates nothing and answers with success, and the page says that the
    status was reset.

Each property of each passing run has a mutated definition in `PROJECT.json` that it detects.

## 6. Disagreements between the code and its words

  - *A pause can be lost* (`gen_pause_lost`). The API answers "pause requested, will pause after
    current step completes". `saveArtifacts` (pipeline.go:225-273), whose comment says it updates
    the artifacts only, writes back the status it read; `Run` then sets `processing` whatever
    the status is (195). A request between the read and the write, unless the watcher's poll
    falls in the same moment, is overwritten. The next look sees `processing`.
  - *Two generations of a domain can run in parallel* (`gen_parallel`). The comment in
    `handleDomainGenerate` excludes it. Pause a pending generation, generate again (paused is not
    active), resume the first.
  - *A retry that fails in set-up is never counted* (`gen_retry_forever`). `MaxRetries` is to bound
    the attempts, but the early exits of `processGeneration` write `error` and leave the retry
    columns of the previous failure: due, in the past, attempts unchanged. Each tick retries.
  - *A stopped agent session becomes done* (`agent_stop`). `handleAgentStop` writes "stopped" to the
    row (agent_handlers.go:266) and cancels nothing; when the loop ends, `finishSession` overwrites
    the row. The documentation (registry.ts:1171, 1141) says that a session can be stopped at any
    moment and then is "stopped".

## 7. What is proved

`GenerationProofs` extends `Generation`; TLAPS checks it for every value of the constants
that satisfies `BoundsAssumption` and `ChoiceAssumption`: any number of workers, clients and
steps, any choice of requests and failures.

| theorem | says |
|---|---|
| `TypeCorrect` | `Spec => []TypeOK` |
| `StepInputsAreReady` | `Spec => []StepInputsReady` |
| `ClaimsFollowPublish` | `Spec => []NothingClaimedBeforePublish` |
| `InvAlways` | `Spec => []Inv`, from which they follow |
| `SuccessStaysComplete` | `Spec /\ []OneDelivery /\ [][RecoversTheDead]_vars => []SuccessIsComplete` |
| `FailuresKeepWork` | under the same two conditions `FailedRunKeepsWork` |
| `PendingStaysPromised` | `Spec /\ []OneDelivery /\ [][~Orphans]_vars => []PendingHasTask` |
| `SchedulesKeepSuccess` | with one worker and no requests that recover, `SuccessIsComplete` and `FailedRunKeepsWork` |
| `WholeChainsKeepPromises` | with one worker and none of the faults that cut a chain, `PendingHasTask` |

None of the safety properties is inductive. That the artifacts in the table have no gap
depends on every copy somebody will write back: the worker's memory, what it read for the
last write, a handler's snapshot. `Inv` therefore has six parts: `TypeOK`; `Owned` (a busy
worker has a task of its own, and tasks name a generation: otherwise its writes could be
attributed to no row); `Named` (a request or the tick knows the row it is about to write);
`Artifacts` (every copy, wherever it is, has no gap and has the publish artifact only if
the site is deployed); `Loop` (where a worker is in the loop tells which artifacts its memory
holds: past a step means it has that step's artifact, and past the loop all of them); and
`Claims` (whoever is about to write `success` or `published` does so with the site deployed).
The proof follows the specification: lemmas on the operators (`SetStatus`, `UpdateFull`,
`Enqueue`, `Respond`, ...), then for each part of `Inv` one lemma with one step per action of
`Next`, then `InvInitially`, `InvKept` and the temporal step.

The other properties of `Generation` are false of `Spec`, and the theorems say what they need of a
behaviour. `OneDelivery`: no two workers are busy with one generation. `RecoversTheDead`: a stale
transition is recovered when no worker is busy with the row. `Orphans` lists the steps that can orphan a
pending row: an enqueue that fails, a scheduler or a request that ends between the write of `pending`
and the enqueue, a worker that dies before its claim without a redelivery left. Any other fault may
happen. The last two theorems replace these by conditions on the constants, which the runs
`gen_scheduled` and `gen_settles` satisfy. The argument begins with what one process can do to a row
somebody else counts on (`WorkerWrites`, `OthersWrite`): a worker writes only the row of its task, the
others never write "success", and leave its artifacts or drop them. `Born` is unconditional: no id
in a task, a request or a list is free, and what is not in the table is empty. `Whole` says for each
place of a run what the row holds of the run's memory (`RunAt`): all of it but the artifact not yet
saved, or nothing. At the end of the loop the memory is complete (`AllSteps`), so that what
`Kept` takes from the row is complete too. `Awaited` says that a pending row is about to be enqueued, is
queued or is being claimed, and that a row which a worker read as pending and will write back is
about to be enqueued or is queued: `SaveWrite` and `LlmWrite` can make it pending at any moment.
Here the first list of orphaning steps was too short: a `ResumeEnqueue` that fails puts the row back to
paused, a worker that read "pending" a moment before makes it pending again, and nothing is queued.

| module | theorem | says |
|---|---|---|
| `ConsoleProofs` | `LockTypeCorrect` | `LockSpec => []LockTypeOK` |
| | `LiveLocksAreKept` | `LockSpec => NeverStolen`, with `LiveIsHeld` (a live lock has a holder) |
| | `AgentsAreAlone` | `AgentSpec => []OneAgentPerDomain` |
| | `AgentTypes` | `AgentSpec => []AgentTypeOK` |
| | `AgentsShowTheirChanges` | `AgentSpec => ChangesAreShown` |
| | `CacheTypes` | `CacheSpec => []CacheTypeOK` |
| | `AnswersStayDated` | `CacheSpec => []AnswersAreDated` |
| | `CacheImplementsFreshReads` | `CacheSpec => ShownIsFresh`: the refinement |
| | `PoolTypeCorrect` | `PoolSpec => []PoolTypeOK` |
| | `OwnersAlways` | `PoolSpec => []ConnectionsHaveOwners` |
| | `LimitHolds` | `PoolSpec => []ConnectionsWithinLimit` |
| | `ClosedDrains` | `PoolSpec => []ClosedPoolDrains` |
| | `PoolIsSafe` | `PoolSpec => []PoolSafe`, the three together |
| | `ChecksAreTyped` | `CheckSpec => []CheckTypeOK` |
| | `ChecksStaySound` | `CheckSpec => ChecksAreSound`: one run at a time, attempts bounded and counted, results kept |
| | `ConsoleTypes` | `ConsoleSpec => []ConsoleTypesOK`, of the components together |
| | `ConsoleIsSafe` | `ConsoleSpec` has `OneAgentPerDomain`, `PoolSafe`, `NeverStolen`, `ChangesAreShown`, `ShownIsFresh`, `NotThrownOut`, `ChoiceSettles`, `ChecksAreSound` |
| `PagesProofs` | `LinkTypes` | `LinkSpec => []LinkTypeOK` |
| | `LinkStaysKept` | `LinkSpec => []LinkIsKept`: the link once, the page as recorded, the site not stuck |
| | `PageTypes` | `PageSpec => []PageTypeOK` |
| | `ShownStaysTrue` | `PageSpec => []ShownIsTrue`: at rest, what is selected, with the page's own changes |
| | `ClicksStaySound` | `PageSpec => []ClicksAreSound`: sent once, refused only if the item changed; for pages whose offers fit |
| | `ProjectTypes` | `ProjectSpec => []PagesTypesOK`, of the components together |
| | `ProjectIsSafe` | `ProjectSpec` has `ShownIsTrue`, `ImportSafe`, `LinkIsKept`, `FormsAreTrue` |
| `EditorProofs` | `EditorTypes` | `Spec => []TypeOK` |
| | `HistoryIsKept` | `Spec => []ReplacedIsInHistory` |
| | `CleanStaysStored` | `Spec => []CleanIsStored`, the code editor's half of `CleanIsTrue` |
| | `NobodyIsReplaced` | `Spec => NoBlindOverwrite`, the code editor's half of `NobodyIsOverwritten` |
| | `PageTypes` | `EditorPageSpec => []EditorTypesOK`, in either mode |
| | `PageIsTrue` | `EditorPageSpec => []CleanIsTrue` |
| | `PageOverwritesNobody` | `EditorPageSpec => NobodyIsOverwritten` |
| `ContentModeProofs` | `ContentTypes` | `ContentSpec => []ContentTypeOK` |
| | `FramesStayWithTheirPages` | `ContentSpec => []PagesKeepTheirOwn` |
| | `CleanStaysPublished` | `ContentSpec => []CleanIsPublished`, content mode's half of `CleanIsTrue` |
| | `PublicationsReplaceSeen` | `ContentSpec => PublishReplacesSeen`, content mode's half of `NobodyIsOverwritten` |
| `LegacyImportProofs` | `ImportTypes` | `ImportSpec => []ImportTypeOK` |
| | `ImportsAreSafe` | `ImportSpec => []ImportSafe`: the job says what was done, one link task, followed to the end |
| `BrowserProofs` | `GuardTypes` | `GuardSpec => []GuardTypeOK` |
| | `NobodyIsThrownOut` | `GuardSpec => NotThrownOut` |
| | `FilterTypes` | `FilterSpec => []FiltersTypeOK` |
| | `ChoicesSettle` | `FilterSpec => ChoiceSettles`: the choice kept, the effects not taking turns |
| `ScheduleProofs` | `ScheduleTypes` | `ScheduleSpec => []ScheduleTypeOK` |
| | `FormsStayTrue` | `ScheduleSpec => FormsAreTrue`: saved as seen ("once" of a row that has run excepted), the card true, what is typed kept |

They hold for every number of tabs, panels, requests, callers, connections, ticks, workers, tasks,
links, files, paths, pages, texts, imports, sites and schedules, for any page that is such a record
and any number of its actions and loads, under the named assumptions of the modules: `LockAssumption`,
`AgentAssumption`, `CacheAssumption`, `PoolAssumption`, `CheckAssumption`, `LinkAssumption`: bounds are numbers
and null values no values; `EditorAssumption`: paths of different files differ at first;
`ContentAssumption`: there may be a version; `ImportAssumption`: an import names finitely many domains,
`NoJob` is no job, `Reruns` a number and `Sites` what a domain may be; `GuardAssumption`: a refusal may be
counted and `MaxLogins` is a number; `FilterAssumption`: there is a page, and the first address has a
filter, a text and a page number; `ScheduleAssumption`: a configuration written through the API has
the times, days and expressions there are in the fields it has, and `NoSchedule` is no row. Every one
is an ASSUME that TLC evaluates in a run; `OffersFit` below is the only hypothesis left in a theorem about a
component other than `Generation`.

Of the pages, `PageAssumption` says that budgets are numbers and that 0, which stands for no action, is
no slot; `PanelAssumption` what a record must be to be a page: an effect loads again for whatever a
request carries, names tell buttons apart, and a page that is left shows one object. TLC evaluates it for
all 43 pages of the console. `ClicksStaySound` has one more hypothesis, `OffersFit`: what a button is
enabled for is what its handler accepts, but for the two buttons of which that is known to be
false (`NeverAccepted`). It compares two texts of the program, the page's and the handler's, and
`ScreensFit` in `MCConsole` has TLC do so for the 43 pages; the theorem says that this is enough, and that
neither late answers nor other users add to it.

The compositions: `PageIsBothModes`, `ProjectIsEach` and `ConsoleIsEach` say that a behaviour of the whole is
one of each component; the theorems about the components then hold of it together.

`AgentChat`: that loops are alone rests on `HubInv`: `active` names the session of an active loop, so
that registering is refused while there is one; no step of a panel touches the hub (`PanelsLeaveHub`).
Its types are not inductive: `Finish` writes the kind of the last event into the row, and `Register`
looks up the session of a request. `AgentTyped` adds that a run which said its last has a last event,
and an end (`EndIsSaid`), and that a request which starts a run knows its session (`GoodSlots`). That
changes are shown is a property of steps: a queue that lost its first event was read, because every
other step of anybody leaves it, makes it longer or takes the stream away (`Kept`, `KeptIsNotRead`, and
a lemma each for panels, streams and runs). Before the proof a file changed once in a run; with changes
repeated TLC refuted the property as it was first stated, which is why it names `told`. `AuthCache`:
`CacheInv` adds to the dates that every request was made in the past (`MadeBeforeNow`): otherwise an
answer on its way could be kept with a date ahead. `DatesLast` says that a date once true stays true
while versions are replaced. A `Hit` then is a step of `FreshReads` and every other step is one of its
own steps or stutters. `SSHPool`: neither the type of `open` nor the limit is inductive, because `open`
is a number beside the sets it counts. `PoolInv` says that it is the idle connections and the reserved
slots together (`SlotsAreCounted`), that leases are connections (`LeasesAreReal`), that each connection
has its owner, and what Close has done (`Closing`). The limit follows by an injection of the live
connections into idle ones and callers (`LimitFollows`).

`IndexCheck`: `CheckInv` ties the row, the copy a run has of it and the searches made together.
At most one run is past its claim (`OneInFlight`); the row then says so and has the attempts its copy
has, or one more when it has counted (`Claimed`); and a row that may be claimed (`Claimable`) has nobody
working at it, every search counted and an attempt left (`Counted`).
`crossed`, a row reset or failed under a run that goes on, is where all of it ends.

`LinkTask`: a worker looks for the link of the site's last task and replaces that one, so that a link
is there once depends on what was recorded last. `LinkInv` says: one run and one task to be run at
a time (`OneRun`, `OneTask`); the page has at most one link (`OneLink`), and it is that of the last task
or of the one to be run (`LinksAreKnown`); what a run knows at each of its places (`RunsKnow`: whose
link it will replace, what it wrote, what it has to record); and what the site may say meanwhile
(`SiteIsTrue`, `EnqueuedIsBegun`, `SiteIsWorkedAt`). The proof showed that `LinkOnce` was false as first
stated, with one run and one task at a time: a task that writes its link, fails to record it and is
never tried again, or is started anew with another link, leaves a link on the page that no later
task looks for. TLC had not met it with the few faults of its run; `crossed` now names it.

`Editor`, the store: `EditorInv` has the types, one file at a path with its bytes there, and `Kept`.
That no replaced text is lost is not inductive, because a save reads the version, adds the
revision of what it replaces, writes the bytes, counts the version and adds the revision of the
new text in separate statements, and an insert of a revision does nothing when there is one.
`Kept` therefore says that a revision is what the file held then (`RevisionsAreTrue`), that there is
none of a version to come (`NothingAhead`), where the bytes of the current version are
(`CurrentIsThere`) and what a save knows between its statements (`SavesKnow`). One lemma for every
handler that writes shows that it keeps this, whoever else is under way.

`Editor`, the tabs: `Since(f, v, text)` says that a text was that of a version `v` or a later one, and is
what the file holds if its version is still `v` and nobody is writing. `Forward` says what a step
of anybody leaves of such knowledge (versions only grow, their texts stay, a text being written
gets a version, a version keeps its bytes), and every handler but `Regenerate` goes `Forward`. `TabInv` then
says that a tab whose user waits (`Patient`) knows its buffer, the answer that comes and the save that
goes in this sense. A save that passes the check names the version its buffer is known `Since`, so
that the bytes it will replace are the text its user began from. Here the proof found `Calm` too
weak with one file only: versions restarted, and no other file was there to tell; a tab that was
open then is now `hasty`.

`ContentMode`: what a tab loaded, what it shows and what a publication sends were all read from
the server some time before they are used. `Seen(p, v, h)` says that `h` has the frame of `p` and,
unless `p` was created again after a deletion (`reborn`), is what the history has under version `v`
and `v` is not yet to come; `StoreMoves` says what a step of anybody may do to the store, and that what was
seen stays seen. `ContentInv` has the page in the controls, the answers on their way and the
publication under way seen so, the server's pages and the trash too (`StoreInv`), and what is not
marked as changed equal to what was loaded (`DraftTrue`). A publication names its version, so that
it passes the check only over the page it began from.

`LegacyImport`: three invariants over the types and `RowsInv` (a job that is not created, or was
refused, has no tasks and is not polled). `LinkInv`: the task of a domain made no link task, or
one and has not told the domain, or one and the domain's row says so for whoever reads it again.
`TallyInv`: as long as no counted task is tried again, the counters are the numbers of the domains
counted as done and as failed, so that a worker which sees as many as there are domains has seen
all of them end (`AllCounted`), and its verdict stays right while it waits to write it
(`VerdictKept`). `FollowInv`, with one import at a time: a poll which no interval and no first poll
comes after was answered after the end of the job, or has been overtaken.

`AuthGuard`: a tab is sent to the login page only when it finds no access cookie, and may find none
because another tab logged out or a request of its own was lost. `GuardInv` says for each place of a
page that loads which of these it is (`EndedOrIn`: there is an access cookie, or the session has
ended), and that an answer which is still to come is true of the session or was counted as lost; a
tab has been refused fewer than `MaxFailures` times while it may still ask.

`IndexFilters`: that the page comes to rest with the choice is a matter of two effects that copy in
opposite directions. `FiltersInv` says that the address asked for is always what the last rendering
asks for (`Asked`: the address of the choice, none if it is shown already), and that choice and wish
agree, unless one of the named races happened (`strayed`). An address that arrives then finds the
choice it was made from and asks for no other.

`ScheduleForms`: a configuration is handed on from the row to the card, to the form, to a request and
back to the row, and is translated twice on the way. `Told` says what must hold of it at each of these
places: it runs as its `meant` says, or is one of the exceptions. `RefilledIsTold` is the lemma that counts:
a form filled from a row and sent as it is makes a configuration that runs as the row did, though
form and server fill in different defaults. That the card is true needs what the request under way
will bring (`CardKnown`), and that a dialog keeps what is typed needs that the only request under way
is the one that closes it (`OneCall`). The proof found two exceptions missing, neither of which the first
run stored: a weekday without a time runs at midnight, and a form filled from it says nine (now
stored in the run, and named in `SavedAsSeen`); and `"custom"` without an expression never runs. What a row
was meant to do does not change when the scheduler runs it, but what it will do may: "once" is over then
(`TicksTyped` and the steps of the scheduler), and the same exception covers the row that had run
before it was changed to "once".

`Pages`: answers come in any order, so what is shown is not what was read last. `SoundLoad` says what
the load that will be taken for the answer has to be: the last one asked for, with what the controls
show, and read no earlier than the last change the page was told of. A load that was sent before such
a change is overtaken by the one sent after it, and an answer that is shown itself overtakes all. `Knows`
says that whatever was read of the item, wherever it waits, is the item as it is or an older
version of it, so that a call which was offered for what the page showed is refused only if there is a
newer one. `CallsSound` adds that the flags of every action under way are up unless a load took them
down, on which the single sending of an action rests.

Only model-checked: the liveness properties (`EventuallySettles`, `TransitResolves`, `RetriesEnd`,
`DomainSettles`, `LocksServe`, `AgentsEnd`, `GuardNotices`, `PagesFollow`, `ImportsEnd`, `CallersAreServed`,
`ChecksEnd`, `LinksEnd`), which rest on fairness and are out of the prover's reach; and `OffersFit` of
the 43 pages, which is a comparison of finitely many records. Every invariant and every action
property of a passing run is stated by a theorem, three of them (`SuccessIsComplete`,
`FailedRunKeepsWork`, `PendingHasTask`) under the conditions named above.

## 8. What is not modelled

  - External work: content backends and publishers (what the pipeline and the pool need of them is
    an outcome), LLM, SERP, mail, the inventory tool, the schema. Registration, captcha and profile:
    sequential handlers over one table each.
  - What an agent's tools do and what a rollback restores; compaction of conversations; the purge of
    old sessions.
  - The Redis cache of the file list, pruning of revisions, binary files, several files of a site in
    `LinkTask`, links with an anchor of their own, history and backfill of index checks, purging.
  - The console's rendering: viewers (`ArtifactsViewer`), documentation (`docs-content/registry.ts`),
    TipTap's extensions, public forms, the address of the queue pages, and components and handlers no
    page uses (`EditorAIStudioPanel`, the AI handlers of the editor page, `ScheduleList`, `LinkTaskList`,
    `CSVImport`, `LinkTaskForm`, `useAICompiler`).
  - Lists longer than one item: the rows at the seam of two pages of the unified queue.
  - Texts character by character: `template.replace(placeholder, content)` of content mode reads `$&`
    in a text as a pattern (`htmlTextExtraction.ts:277`).
