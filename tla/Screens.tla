------------------------------ MODULE Screens ------------------------------
(***************************************************************************)
(* The pages of the console, each a value of `panel` in Pages: what its    *)
(* load asks for and when it is sent, what its timer follows, and for each *)
(* button the statuses it is offered for, the flags that disable it, what  *)
(* the handler of the server does, and what follows.                       *)
(***************************************************************************)
EXTENDS TLC

-----------------------------------------------------------------------------
(* Lives: the statuses of an item, and the moves that are not the page's own. *)

RunActive == {"pending", "processing", "pause_requested", "cancelling"}
RunLife == RunActive \cup {"paused", "cancelled", "success", "error"}
RunMoves == {<<"pending", "processing">>, <<"processing", "success">>, <<"processing", "error">>,
             <<"processing", "pause_requested">>, <<"pause_requested", "paused">>,
             <<"cancelling", "cancelled">>}

LinkActive == {"pending", "searching"}     \* removing is like searching
LinkLife == LinkActive \cup {"inserted", "failed"}
LinkMoves == {<<"pending", "searching">>, <<"searching", "inserted">>, <<"searching", "failed">>}

QueueLife == {"pending", "processing", "completed", "failed"}
QueueMoves == {<<"pending", "processing">>, <<"processing", "completed">>, <<"processing", "failed">>}

ThingLife == {"off", "on"}                 \* a row without work of its own
ThingMoves == {<<"off", "on">>, <<"on", "off">>}

-----------------------------------------------------------------------------
(* What the server does *)

To(from, st) == [s \in from |-> st]
Kept(from) == [s \in from |-> s]

\* handleGenerationByID, handleDomainGenerate
PauseRun == [s \in {"pending", "processing"} |->
              IF s = "pending" THEN "paused" ELSE "pause_requested"]
ResumeRun == To({"paused"}, "pending")
CancelRun == [s \in {"pending", "processing", "pause_requested", "paused"} |->
               IF s \in {"pending", "paused"} THEN "cancelled" ELSE "cancelling"]
DeleteRun == To(RunLife, "gone")
StartRun == To((RunLife \ RunActive) \cup {"gone"}, "pending")

\* handleLinkByID, handleDomainLinkRun
RetryLink == To(LinkLife, "pending")
DeleteLink == To(LinkLife, "gone")
RunLink == To(LinkLife \cup {"gone"}, "pending")

\* handleQueueItem, handleProjectQueueCleanup
DeleteItem == To(QueueLife, "gone")
CleanQueue == [s \in QueueLife \cup {"gone"} |-> IF s = "pending" THEN s ELSE "gone"]

-----------------------------------------------------------------------------
(* Buttons and pages.  A button is what its handler does and what the page offers it  *)
(* for; a page is put together from what its load, its effects and its controls say.  *)

Handler(does, flags, reload) ==
  [does |-> does, flags |-> flags, reload |-> reload, lock |-> FALSE, shows |-> "none"]
Offer(on, busy) == [on |-> on, busy |-> busy]
Button(name, handler, offer) == [name |-> name] @@ handler @@ offer

\* useActionLocks: a lock per action and item, held in a ref; some pages show it too.
Once(h) == [h EXCEPT !.lock = TRUE]
Locked(lock, h) == [h EXCEPT !.lock = TRUE, !.flags = @ \cup {lock}]

Asks(sends) == [sends |-> sends]
Effect(deps) == [deps |-> deps]
Reset(how) == [reset |-> how]
Follows(sts, when, silent) == [polls |-> sts, polled |-> when, silent |-> silent]
Controls(refresh, pager) == [refresh |-> refresh, pager |-> pager]
Kept15s == [cached |-> TRUE]
Clears == [clears |-> TRUE]

Page(life, moves, acts, aspects) ==
  [life |-> life, moves |-> moves, acts |-> acts] @@ aspects
  @@ Asks({}) @@ Effect({}) @@ Reset("no") @@ Follows({}, "now", FALSE)
  @@ Controls("none", "open") @@ [cached |-> FALSE, clears |-> FALSE]

Showing(st, h) == [h EXCEPT !.shows = st]

Anything(life) == life \cup {"none", "gone"}

-----------------------------------------------------------------------------
(* Guards shared by the queues: lib/linkTaskStatus, services/actionGuards *)

CanRetry == {"failed"}
CanDelete == LinkLife \ LinkActive

-----------------------------------------------------------------------------
(* The queues of a project: useProjectQueueData, projects/[id]/queue *)

QueueLoad == Asks({"filter", "page"})
QueueEffect == Effect({"filter", "page"})
QueueReset == Reset("effect")
QueueControls == Controls("quiet", "open")
QueueRemove == Locked("delete", Handler(DeleteItem, {"list"}, "load"))
QueueRemoveOffer == Offer(QueueLife, {"list", "delete"})
QueueCleanup == Locked("cleanup", Handler(CleanQueue, {"cleaning"}, "load"))
QueueCleanupOffer == Offer(Anything(QueueLife), {"cleaning", "cleanup"})
QueuePage ==
  Page(QueueLife, QueueMoves,
       {Button("remove", QueueRemove, QueueRemoveOffer),
        Button("cleanup", QueueCleanup, QueueCleanupOffer)},
       QueueLoad @@ QueueEffect @@ QueueReset @@ QueueControls)

HistoryLoad == Asks({"filter", "page"})
HistoryEffect == Effect({"filter", "page"})
HistoryReset == Reset("effect")
HistoryControls == Controls("quiet", "open")
HistoryPage ==
  Page(QueueLife, QueueMoves, {}, HistoryLoad @@ HistoryEffect @@ HistoryReset @@ HistoryControls)

LinksLoad == Asks({"filter", "page"})
LinksEffect == Effect({"filter", "page"})
LinksReset == Reset("effect")
LinksPoll == Follows(LinkActive, "then", TRUE)
LinksControls == Controls("quiet", "open")
LinksRetry == Locked("retry", Handler(RetryLink, {"list"}, "load"))
LinksDelete == Locked("delete", Handler(DeleteLink, {"list"}, "load"))
LinksRetryOffer == Offer(CanRetry, {"list", "retry"})
LinksDeleteOffer == Offer(CanDelete, {"list", "delete"})
LinksPage ==
  Page(LinkLife, LinkMoves,
       {Button("retry", LinksRetry, LinksRetryOffer), Button("delete", LinksDelete, LinksDeleteOffer)},
       LinksLoad @@ LinksEffect @@ LinksReset @@ LinksPoll @@ LinksControls)

\* The unified queue: the statuses filter, the search does not reach the server.
UnifiedLoad == Asks({"filter", "page"})
UnifiedEffect == Effect({"filter", "page"})
UnifiedReset == Reset("effect")
\* (mistake: only what waits)
UnifiedPollPending == Follows({"pending"}, "now", FALSE)

UnifiedPoll == Follows({"pending", "processing"}, "now", FALSE)
UnifiedControls == Controls("held", "open")
UnifiedRows == QueueLife
UnifiedPage ==
  Page(UnifiedRows, QueueMoves, {},
       UnifiedLoad @@ UnifiedEffect @@ UnifiedReset @@ UnifiedPoll @@ UnifiedControls)

-----------------------------------------------------------------------------
(* The queues of everybody: queue *)

AllUnifiedLoad == Asks({"filter", "page"})
AllUnifiedEffect == Effect({"filter", "page"})
AllUnifiedReset == Reset("effect")
AllUnifiedPoll == Follows({"pending", "processing"}, "now", FALSE)
AllUnifiedControls == Controls("held", "open")
AllUnifiedPage ==
  Page(QueueLife, QueueMoves, {},
       AllUnifiedLoad @@ AllUnifiedEffect @@ AllUnifiedReset @@ AllUnifiedPoll @@ AllUnifiedControls)

RunsLoad == Asks({"filter", "page"})
RunsEffect == Effect({"filter", "page"})
AllReset == Reset("effect")
AllPoll(active) == Follows(active, "now", FALSE)
RunsControls == Controls("held", "open")
RunsPage ==
  Page(RunLife, RunMoves, {},
       RunsLoad @@ RunsEffect @@ AllReset @@ AllPoll(RunActive) @@ RunsControls)

AllLinksLoad == Asks({"filter", "page"})
AllLinksControls == Controls("held", "open")
AllLinksRetry == Locked("retry", Handler(RetryLink, {"list"}, "load"))
AllLinksDelete == Locked("delete", Handler(DeleteLink, {"list"}, "load"))
AllLinksRetryOffer == Offer(CanRetry, {"list", "retry"})
AllLinksDeleteOffer == Offer(CanDelete, {"list", "delete"})
AllLinksPage ==
  Page(LinkLife, LinkMoves,
       {Button("retry", AllLinksRetry, AllLinksRetryOffer),
        Button("delete", AllLinksDelete, AllLinksDeleteOffer)},
       AllLinksLoad @@ RunsEffect @@ AllReset @@ AllPoll(LinkActive) @@ AllLinksControls)

-----------------------------------------------------------------------------
(* One run: queue/[id] *)

RunPoll == Follows(RunActive, "now", FALSE)
RunControls == Controls("held", "open")
RunDelete == Handler(DeleteRun, {"list"}, "leave")
RunPause == Handler(PauseRun, {"list"}, "load")
RunResume == Handler(ResumeRun, {"list"}, "load")
RunCancel == Handler(CancelRun, {"list"}, "load")
RunPauseOffer == Offer({"pending", "processing"}, {"list"})
\* (mistake: a pause is not waited for)
RunResumeOfferEarly == Offer({"paused", "pause_requested"}, {"list"})

RunResumeOffer == Offer({"paused"}, {"list"})
RunCancelOffer == Offer({"pending", "processing", "pause_requested"}, {"list"})
RunDeleteOffer == Offer(RunLife, {"list"})
RunPage ==
  Page(RunLife, RunMoves,
       {Button("pause", RunPause, RunPauseOffer), Button("resume", RunResume, RunResumeOffer),
        Button("cancel", RunCancel, RunCancelOffer), Button("delete", RunDelete, RunDeleteOffer)},
       RunPoll @@ RunControls)

(* One link task: links/[id] *)

LinkPoll == Follows(LinkActive, "now", FALSE)
LinkControls == Controls("held", "open")
LinkRetry == Handler(RetryLink, {"list"}, "load")
LinkDelete == Handler(DeleteLink, {"list"}, "leave")
LinkRetryOffer == Offer({"failed", "pending"}, {"list"})    \* pending: with an error only
LinkDeleteOffer == Offer(LinkLife, {"list"})
LinkPage ==
  Page(LinkLife, LinkMoves,
       {Button("retry", LinkRetry, LinkRetryOffer), Button("delete", LinkDelete, LinkDeleteOffer)},
       LinkPoll @@ LinkControls)

-----------------------------------------------------------------------------
(* A domain: domains/[id], useDomainActions and the sections of the page *)

DomainLoad == Kept15s
DomainPoll == Follows(RunActive, "now", FALSE)
DomainControls == Controls("held", "open")

DomainGenerate == Once(Showing("processing", Handler(StartRun, {"list"}, "load")))
DomainRestart == DomainGenerate
DomainForceStep == DomainGenerate
DomainPause == Once(Handler(PauseRun, {"list"}, "load"))
DomainResume == Once(Handler(ResumeRun, {"list"}, "load"))
DomainCancel == Once(Handler(CancelRun, {"list"}, "load"))
DomainDeleteRun == Once(Handler(DeleteRun, {"list"}, "load"))

DomainGenerateOffer == Offer((RunLife \ RunActive) \cup {"gone"}, {"list"})
DomainRestartOffer == Offer(RunLife \ RunActive, {"list"})
DomainForceOffer == Offer(RunLife, {"list"})       \* for every step, whatever the status
DomainPauseOffer == Offer({"pending", "processing"}, {"list"})
DomainResumeOffer == Offer({"paused"}, {"list"})
DomainCancelOffer == Offer({"pending", "processing", "pause_requested"}, {"list"})
DomainCancelAgainOffer == Offer({"cancelled"}, {"list"})
DomainDeleteRunOffer == Offer(RunLife, {"list"})

DomainRuns(acts) == Page(RunLife, RunMoves, acts, DomainLoad @@ DomainPoll @@ DomainControls)
DomainStartPage ==
  DomainRuns({Button("generate", DomainGenerate, DomainGenerateOffer),
              Button("restart", DomainRestart, DomainRestartOffer),
              Button("force step", DomainForceStep, DomainForceOffer),
              Button("pause", DomainPause, DomainPauseOffer)})
DomainRunsPage ==
  DomainRuns({Button("pause", DomainPause, DomainPauseOffer),
              Button("resume", DomainResume, DomainResumeOffer),
              Button("cancel", DomainCancel, DomainCancelOffer),
              Button("cancel again", DomainCancel, DomainCancelAgainOffer),
              Button("delete", DomainDeleteRun, DomainDeleteRunOffer)})

\* The link of the domain: its flag is its own, the page is loaded again under another.
DomainLinkRun == Once(Handler(RunLink, {"tasks"}, "load"))
DomainLinkRemove == Once(Handler(RunLink, {"tasks"}, "load"))
DomainLinkRunOffer == Offer((LinkLife \ LinkActive) \cup {"gone"}, {"tasks"})
DomainLinkRemoveOffer == Offer({"inserted"}, {"tasks"})

\* A task that is stuck is tried again, without a lock and without a flag of its own.  The link
\* status is sent to be reset, in a field that the handler does not know: nothing is changed.
\* After both the tasks are read again, and not the domain.
DomainLinkRetry == Handler(RetryLink, {}, "none")
DomainLinkRetryOffer == Offer(LinkActive, {"tasks"})
DomainLinkReset == Handler(Kept(LinkLife), {}, "none")
DomainLinkResetOffer == Offer({"inserted"}, {"tasks"})
DomainLinkPage ==
  Page(LinkLife, LinkMoves,
       {Button("run link", DomainLinkRun, DomainLinkRunOffer),
        Button("remove link", DomainLinkRemove, DomainLinkRemoveOffer),
        Button("retry link", DomainLinkRetry, DomainLinkRetryOffer),
        Button("reset link", DomainLinkReset, DomainLinkResetOffer)},
       DomainLoad @@ DomainControls)

\* Its settings.  A save keeps the row and changes what is in it.
DomainSave == Handler(Kept(ThingLife), {"list"}, "load")
DomainSaveOffer == Offer(ThingLife, {"list"})
DomainIndexCheck(st) == Handler(To(ThingLife, st), {"checking"}, "answer")
DomainIndexOffer(st) == Offer(ThingLife \ {st}, {"checking"})
DomainSettingsPage ==
  Page(ThingLife, ThingMoves,
       {Button("save", DomainSave, DomainSaveOffer),
        Button("check on", DomainIndexCheck("on"), DomainIndexOffer("on")),
        Button("check off", DomainIndexCheck("off"), DomainIndexOffer("off"))},
       DomainLoad @@ DomainControls)

-----------------------------------------------------------------------------
(* A project: projects/[id], useProjectActions and the sections of the page *)

ProjectLoad == Kept15s @@ Clears
ProjectControls == Controls("none", "open")

ProjectLinkRun == Once(Handler(RunLink, {"link"}, "load"))
ProjectLinkRemove == Once(Handler(RunLink, {"link"}, "load"))
ProjectLinkRunOffer == Offer((LinkLife \ LinkActive) \cup {"gone"}, {"list", "link"})
ProjectLinkRemoveOffer == Offer({"inserted"}, {"list", "link"})
ProjectLinksPage ==
  Page(LinkLife, LinkMoves,
       {Button("run link", ProjectLinkRun, ProjectLinkRunOffer),
        Button("remove link", ProjectLinkRemove, ProjectLinkRemoveOffer)},
       ProjectLoad @@ ProjectControls)

\* A domain of the project, in its list and in the SEO tab.
ProjectAddDomain == Handler(To(ThingLife \cup {"gone"}, "on"), {"list"}, "load")
ProjectImport == Handler(To(ThingLife \cup {"gone"}, "on"), {"list"}, "load")
ProjectKeyword == Handler(Kept(ThingLife), {"list"}, "load")
ProjectLinkSettings == Handler(Kept(ThingLife), {"list"}, "load")
ProjectDeleteDomain == Once(Handler(To(ThingLife, "gone"), {"list"}, "load"))
ProjectAddOffer == Offer({"gone"}, {"list"})
ProjectImportOffer == Offer({"gone"}, {"list"})
ProjectKeywordOffer == Offer(ThingLife, {"list"})
ProjectLinkSettingsOffer == Offer(ThingLife, {"list"})
ProjectDeleteDomainOffer == Offer(ThingLife, {"list"})
ProjectDomainsPage ==
  Page(ThingLife, ThingMoves,
       {Button("add", ProjectAddDomain, ProjectAddOffer),
        Button("import", ProjectImport, ProjectImportOffer),
        Button("keyword", ProjectKeyword, ProjectKeywordOffer),
        Button("link settings", ProjectLinkSettings, ProjectLinkSettingsOffer),
        Button("delete", ProjectDeleteDomain, ProjectDeleteDomainOffer)},
       ProjectLoad @@ ProjectControls)

\* Its members.  The select of the role is never disabled; the flag is taken down by the
\* load, and by the handler only where it fails.
ProjectAddMember == Handler(To(ThingLife \cup {"gone"}, "on"), {"list"}, "load")
ProjectMemberRole == Handler(Kept(ThingLife), {"list"}, "load")
ProjectRemoveMember == Handler(To(ThingLife, "gone"), {"list"}, "load")
ProjectAddMemberOffer == Offer({"gone"}, {"list"})
ProjectMemberRoleOffer == Offer(ThingLife, {})
ProjectRemoveMemberOffer == Offer(ThingLife, {"list"})
ProjectMembersPage ==
  Page(ThingLife, ThingMoves,
       {Button("add member", ProjectAddMember, ProjectAddMemberOffer),
        Button("role", ProjectMemberRole, ProjectMemberRoleOffer),
        Button("remove member", ProjectRemoveMember, ProjectRemoveMemberOffer)},
       ProjectLoad @@ ProjectControls)

ProjectSave == Handler(Kept(ThingLife), {"saving"}, "answer")
ProjectSaveOffer == Offer(ThingLife, {"saving"})
ProjectIndexCheck(st) == Handler(To(ThingLife, st), {"checking"}, "answer")
ProjectIndexOffer(st) == Offer(ThingLife \ {st}, {"checking"})
ProjectDelete == Handler(To(ThingLife, "gone"), {}, "leave")
ProjectDeleteOffer == Offer(ThingLife, {"list"})
ProjectSettingsPage ==
  Page(ThingLife, ThingMoves,
       {Button("save", ProjectSave, ProjectSaveOffer),
        Button("check on", ProjectIndexCheck("on"), ProjectIndexOffer("on")),
        Button("check off", ProjectIndexCheck("off"), ProjectIndexOffer("off")),
        Button("delete", ProjectDelete, ProjectDeleteOffer)},
       ProjectLoad @@ ProjectControls)

\* Its failed runs: a retry loads the project; the errors follow from what is kept.
ErrorsLoad == Kept15s @@ Clears
ErrorsControls == Controls("held", "open")
ErrorsRetry == Once(Handler(StartRun, {"project"}, "cached"))
ErrorsRetryOffer == Offer({"error"}, {})
ErrorsPage ==
  Page(RunLife, RunMoves, {Button("retry", ErrorsRetry, ErrorsRetryOffer)},
       ErrorsLoad @@ ErrorsControls)
==============================================================================
