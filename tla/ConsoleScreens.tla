--------------------------- MODULE ConsoleScreens ---------------------------
(***************************************************************************)
(* More pages of the console, put together as in Screens: the schedules of *)
(* a project, the sessions of the agent, prompts, administration,          *)
(* monitoring, the project list and the library of images.                 *)
(***************************************************************************)
EXTENDS Screens

Missing == {"none", "gone"}       \* shown before the first answer, and after a deletion
-----------------------------------------------------------------------------
(* Schedules: useProjectSchedules, ProjectSchedulesSection.  Creating one where there *)
(* is one is refused; the schedule of links is put in place whether there is one or   *)
(* not.  The dialog that confirms a deletion is not disabled by the deletion.         *)

ScheduleCreate == Handler(To({"gone"}, "on"), {"list"}, "load")
ScheduleSave == Handler(Kept(ThingLife), {"list"}, "load")
ScheduleToggle(st) == Handler(To(ThingLife, st), {"list"}, "load")
ScheduleTrigger == Handler(Kept(ThingLife), {"list"}, "none")
ScheduleDelete == Handler(To(ThingLife, "gone"), {"list"}, "load")
ScheduleCreateOffer == Offer(Missing, {"list"})
ScheduleSaveOffer == Offer(ThingLife, {"list"})
ScheduleToggleOffer(st) == Offer(ThingLife \ {st}, {"list"})
ScheduleTriggerOffer == Offer(ThingLife, {"list"})
ScheduleDeleteOffer == Offer(ThingLife, {})
SchedulePage ==
  Page(ThingLife, ThingMoves,
       {Button("create", ScheduleCreate, ScheduleCreateOffer),
        Button("save", ScheduleSave, ScheduleSaveOffer),
        Button("start", ScheduleToggle("on"), ScheduleToggleOffer("on")),
        Button("stop", ScheduleToggle("off"), ScheduleToggleOffer("off")),
        Button("trigger", ScheduleTrigger, ScheduleTriggerOffer),
        Button("delete", ScheduleDelete, ScheduleDeleteOffer)}, Asks({}))

LinkScheduleLoad == Clears
LinkScheduleSave == Handler(To(ThingLife \cup {"gone"}, "on"), {"list"}, "answer")
LinkScheduleToggle(st) == Handler(To(ThingLife \cup {"gone"}, st), {"list"}, "answer")
LinkScheduleTrigger == Handler(Kept(ThingLife), {"list"}, "none")
LinkScheduleDelete == Handler(To(ThingLife, "gone"), {"list"}, "load")
LinkSchedulePage ==
  Page(ThingLife, ThingMoves,
       {Button("save", LinkScheduleSave, Offer(Anything(ThingLife), {"list"})),
        Button("start", LinkScheduleToggle("on"), ScheduleToggleOffer("on")),
        Button("stop", LinkScheduleToggle("off"), ScheduleToggleOffer("off")),
        Button("trigger", LinkScheduleTrigger, ScheduleTriggerOffer),
        Button("delete", LinkScheduleDelete, ScheduleDeleteOffer)}, LinkScheduleLoad)

\* What schedules did (ScheduleRunHistory): while a schedule is active, read every 30 s
\* whatever the last answer was.  Which domains the next run takes: read with the tab only.
RunHistoryLoad == Clears @@ Follows(ThingLife \cup Missing, "now", FALSE)
RunHistoryControls == Controls("held", "open")
RunHistoryPage == Page(ThingLife, ThingMoves, {}, RunHistoryLoad @@ RunHistoryControls)
EligibilityPage == Page(ThingLife, ThingMoves, {}, Clears)

\* The next run of the schedule that a form shows (ScheduleForm): read at each click, and not
\* asked for again before the answer.
SchedulePreviewLoad == Clears
SchedulePreviewControls == Controls("held", "open")
SchedulePreviewPage ==
  Page(ThingLife, ThingMoves, {}, SchedulePreviewLoad @@ SchedulePreviewControls)

-----------------------------------------------------------------------------
(* Log and artifacts of a run on the page of its domain: read once for each run, so that *)
(* what the run does later is shown by its row only.                                     *)

DetailsLoad == Asks({})
DetailsPage == Page(RunLife, RunMoves, {}, DetailsLoad)

-----------------------------------------------------------------------------
(* The site of a domain as it is now: DomainResultSection.  Each opening of the dialog *)
(* reads the files again; a failure shows what was generated instead.                  *)

PreviewLoad == Clears
PreviewControls == Controls("open", "open")
PreviewPage == Page(ThingLife, ThingMoves, {}, PreviewLoad @@ PreviewControls)

-----------------------------------------------------------------------------
(* The sessions of the agent: AgentSessionHistory, AgentSessionRollback.  A rollback   *)
(* that finds nothing to restore is refused, as it is after another one; a session that *)
(* changed nothing is left out.                                                         *)

SessionLife == {"running", "done", "rolled back"}
SessionMoves == {<<"running", "done">>, <<"done", "rolled back">>}
SessionsControls == Controls("held", "open")
SessionRollback == Handler(To({"done"}, "rolled back"), {"rolling"}, "apart")
SessionRollbackOffer == Offer({"done"}, {"rolling"})
SessionsPage ==
  Page(SessionLife, SessionMoves,
       {Button("rollback", SessionRollback, SessionRollbackOffer)}, SessionsControls)

-----------------------------------------------------------------------------
(* Prompts of a project or a domain: PromptOverridesPanel.  "on": overridden. *)

OverrideSave == Handler(To(ThingLife, "on"), {"list"}, "load")
OverrideReset == Handler(To(ThingLife, "off"), {"list"}, "load")
OverrideSaveOffer == Offer(ThingLife, {"list"})
OverrideResetOffer == Offer({"on"}, {"list"})
OverrideControls == Controls("held", "open")
OverridesPage ==
  Page(ThingLife, ThingMoves,
       {Button("save", OverrideSave, OverrideSaveOffer),
        Button("reset", OverrideReset, OverrideResetOffer)}, OverrideControls)

-----------------------------------------------------------------------------
(* Administration: admin *)

AdminUsersControls == Controls("held", "open")
AdminRole == Handler(Kept(ThingLife), {}, "load")
AdminApproval(st) == Handler(To(ThingLife, st), {}, "load")
AdminDeleteUser == Handler(To(ThingLife, "gone"), {"deleting"}, "load")
AdminRoleOffer == Offer(ThingLife, {})
AdminApprovalOffer(st) == Offer(ThingLife \ {st}, {})
AdminDeleteUserOffer == Offer(ThingLife, {"deleting"})
AdminUsersPage ==
  Page(ThingLife, ThingMoves,
       {Button("role", AdminRole, AdminRoleOffer),
        Button("approve", AdminApproval("on"), AdminApprovalOffer("on")),
        Button("block", AdminApproval("off"), AdminApprovalOffer("off")),
        Button("delete", AdminDeleteUser, AdminDeleteUserOffer)}, AdminUsersControls)

\* The projects of the user chosen, asked for by the choice itself.
AdminProjectsPage ==
  Page(ThingLife, ThingMoves, {}, Asks({"filter"}) @@ Effect({"filter"}) @@ Clears)

AdminMembersLoad == Clears
AdminAddMember == Handler(To(ThingLife \cup {"gone"}, "on"), {"adding"}, "load")
AdminRemoveMember == Handler(To(ThingLife, "gone"), {}, "load")
AdminMemberRole == Handler(Kept(ThingLife), {}, "load")
AdminAddMemberOffer == Offer({"gone"}, {"list", "adding"})
AdminRemoveMemberOffer == Offer(ThingLife, {"list"})
AdminMemberRoleOffer == Offer(ThingLife, {"list"})
AdminMembersPage ==
  Page(ThingLife, ThingMoves,
       {Button("add", AdminAddMember, AdminAddMemberOffer),
        Button("remove", AdminRemoveMember, AdminRemoveMemberOffer),
        Button("role", AdminMemberRole, AdminMemberRoleOffer)}, AdminMembersLoad)

\* The effect that loads the prompts depends on the one selected, which no request carries.
AdminPromptsEffect == Effect({"filter"})
AdminSavePrompt == Handler(Kept(ThingLife), {"saving"}, "load")
AdminDeletePrompt == Handler(To(ThingLife, "gone"), {"saving"}, "load")
AdminPromptOffer == Offer(ThingLife, {"saving"})
AdminPromptsPage ==
  Page(ThingLife, ThingMoves,
       {Button("save", AdminSavePrompt, AdminPromptOffer),
        Button("delete", AdminDeletePrompt, AdminPromptOffer)}, AdminPromptsEffect)

AdminRulesPage == Page(ThingLife, ThingMoves, {}, Asks({}))

\* The trash: "on" is deleted, and gone once it is restored or purged.
AdminTrashControls == Controls("held", "open")
AdminRestore == Handler(To({"on"}, "gone"), {"trash"}, "apart")
AdminPurge == Handler(To({"on"}, "gone"), {"trash"}, "apart")
AdminTrashOffer == Offer({"on"}, {"trash"})
AdminTrashPage ==
  Page({"on"}, {},
       {Button("restore", AdminRestore, AdminTrashOffer), Button("purge", AdminPurge, AdminTrashOffer)},
       AdminTrashControls)

-----------------------------------------------------------------------------
(* Monitoring of the index: monitoring/indexing *)

IndexLife == {"pending", "checking", "success", "failed"}
IndexMoves == {<<"pending", "checking">>, <<"checking", "success">>, <<"checking", "pending">>,
               <<"checking", "failed">>}
RunCheck == To(IndexLife \cup {"gone"}, "pending")      \* made, or reset, for today

ChecksLoad == Asks({"filter", "page"})
ChecksEffect == Effect({"filter", "page"})
ChecksReset == Reset("with")
ChecksControls == Controls("held", "held")
ChecksRun == Locked("run", Handler(RunCheck, {}, "load"))
ChecksRunNow == Locked("run now", Handler(RunCheck, {}, "load"))
ChecksRunOffer == Offer(Anything(IndexLife), {"list", "run"})
ChecksRunNowOffer == Offer(IndexLife, {"list", "run now"})
ChecksPage ==
  Page(IndexLife, IndexMoves,
       {Button("run", ChecksRun, ChecksRunOffer), Button("run now", ChecksRunNow, ChecksRunNowOffer)},
       ChecksLoad @@ ChecksEffect @@ ChecksReset @@ ChecksControls)

FailedChecksPage == Page(IndexLife, IndexMoves, {}, Asks({}))
IndexStatsPage == Page(IndexLife, IndexMoves, {}, Kept15s)
HeatmapPage == Page(IndexLife, IndexMoves, {}, Kept15s @@ Clears)

\* The switch for everybody: what was asked for is shown once it is granted.
IndexControl(st) == Handler(To(ThingLife, st), {"toggling"}, "answer")
IndexControlOffer(st) == Offer(ThingLife \ {st}, {"toggling"})
IndexControlPage ==
  Page(ThingLife, ThingMoves,
       {Button("switch on", IndexControl("on"), IndexControlOffer("on")),
        Button("switch off", IndexControl("off"), IndexControlOffer("off"))}, Asks({}))

-----------------------------------------------------------------------------
(* What the models cost, how the services are: monitoring/llm-usage, projects/[id]/usage, *)
(* monitoring; the list of projects: projects                                            *)

LlmUsageLoad == Asks({"filter", "page"})
LlmUsageEffect == Effect({"filter", "page"})
LlmUsageReset == Reset("with")
LlmUsageControls == Controls("held", "held")
LlmUsagePage ==
  Page(ThingLife, ThingMoves, {}, LlmUsageLoad @@ LlmUsageEffect @@ LlmUsageReset @@ LlmUsageControls)

UsageLoad == Asks({"filter", "page"})
UsageEffect == Effect({"filter", "page"})
UsageReset == Reset("with")
UsageControls == Controls("held", "held")
UsagePage ==
  Page(ThingLife, ThingMoves, {}, UsageLoad @@ UsageEffect @@ UsageReset @@ UsageControls)

MonitoringControls == Controls("held", "open")
MonitoringPage == Page(ThingLife, ThingMoves, {}, MonitoringControls)

ProjectsLoad == Kept15s
ProjectsControls == Controls("held", "open")
ProjectsCreate == Handler(To(ThingLife \cup {"gone"}, "on"), {"list"}, "load")
ProjectsCreateOffer == Offer(Anything(ThingLife), {"list"})
ProjectsPage ==
  Page(ThingLife, ThingMoves, {Button("create", ProjectsCreate, ProjectsCreateOffer)},
       ProjectsLoad @@ ProjectsControls)

-----------------------------------------------------------------------------
(* The images of a site: ImageLibraryModal.  A dropped file asks no flag. *)

ImagesLoad == Clears
ImageUpload == Handler(To(ThingLife \cup {"gone"}, "on"), {"uploading"}, "load")
ImageGenerate == Handler(To(ThingLife \cup {"gone"}, "on"), {"generating"}, "apart")
ImageUploadOffer == Offer(Anything(ThingLife), {"uploading"})
ImageDropOffer == Offer(Anything(ThingLife), {})
ImageGenerateOffer == Offer(Anything(ThingLife), {"generating"})
ImagesPage ==
  Page(ThingLife, ThingMoves,
       {Button("upload", ImageUpload, ImageUploadOffer), Button("drop", ImageUpload, ImageDropOffer),
        Button("generate", ImageGenerate, ImageGenerateOffer)}, ImagesLoad)
-----------------------------------------------------------------------------
\* All of them.
ConsolePages ==
  {QueuePage, HistoryPage, LinksPage, UnifiedPage, AllUnifiedPage, RunsPage, AllLinksPage,
   RunPage, LinkPage, DomainStartPage, DomainRunsPage, DomainLinkPage, DomainSettingsPage,
   ProjectLinksPage, ProjectDomainsPage, ProjectMembersPage, ProjectSettingsPage, ErrorsPage,
   SchedulePage, LinkSchedulePage, RunHistoryPage, EligibilityPage, SchedulePreviewPage,
   DetailsPage, PreviewPage, SessionsPage,
   OverridesPage, AdminUsersPage, AdminProjectsPage, AdminMembersPage, AdminPromptsPage,
   AdminRulesPage, AdminTrashPage, ChecksPage, FailedChecksPage, IndexStatsPage, HeatmapPage,
   IndexControlPage, LlmUsagePage, UsagePage, MonitoringPage, ProjectsPage, ImagesPage}
==============================================================================
