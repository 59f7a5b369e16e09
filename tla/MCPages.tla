------------------------------ MODULE MCPages ------------------------------
(***************************************************************************)
(* ProjectPages with bounds for TLC: what users, workers and the network   *)
(* do is split over the behaviours, and only one component takes steps in  *)
(* each: `part` says which; the others keep their first values.            *)
(***************************************************************************)
EXTENDS ProjectPages, ConsoleScreens

VARIABLE part

MCPanels == ConsolePages
MCFlags == {"list"} \cup UNION {UNION {a.flags : a \in p.acts} : p \in MCPanels}

Budget(clicks, turns, shifts, losses) ==
  [clicks |-> clicks, turns |-> turns, shifts |-> shifts, losses |-> losses]
MCBudgets ==
  {Budget(2, 0, 1, 0), Budget(1, 0, 1, 1), Budget(1, 1, 0, 0), Budget(0, 2, 1, 0), Budget(0, 0, 2, 1)}

Site(page, link) == [html |-> page, link |-> link, ssh |-> FALSE]
MCSites == {Site(TRUE, "none"), Site(FALSE, "set"), Site(TRUE, "same")}
Clicks(starts, clicks, faults) == [starts |-> starts, clicks |-> clicks, faults |-> faults]
MCImportBudgets == {Clicks(1, 0, 1), Clicks(1, 1, 0), Clicks(2, 0, 0)}

\* A fault hits an import of two domains whose page has a link nobody knows of, or one of a
\* single domain; clicks and a second import are tried on a single one.
SmallImport ==
  LET linked == \A d \in Domains : sites[d] = Site(TRUE, "none")
      single == ready = {CHOOSE d \in Domains : TRUE} IN
  \/ single /\ (left.starts = 2 => linked)
  \/ ready = Domains /\ left.faults = 1 /\ linked

Steps(clicks, types, others, turns, losses) ==
  [clicks |-> clicks, types |-> types, others |-> others, turns |-> turns, losses |-> losses]
MCScheduleBudgets ==
  {Steps(3, 2, 0, 1, 0), Steps(3, 1, 1, 1, 0), Steps(2, 1, 0, 1, 1), Steps(2, 1, 0, 3, 0)}
Config(strategy, config) == [strategy |-> strategy, config |-> config]
MCSchedules ==
  {Config("immediate", [mode |-> "immediate"]), Config("custom", [interval |-> "6h"]),
   Config("weekly", [day |-> "2", time |-> "noon"]),
   Config("weekly", [weekday |-> "tue", time |-> "noon"]), Config("weekly", [weekday |-> "tue"])}

Does(clicks, deletes, changes, faults, publishes) ==
  [clicks |-> clicks, deletes |-> deletes, changes |-> changes, faults |-> faults,
   publishes |-> publishes]
MCLinkBudgets ==
  {Does(1, 0, 1, 1, 0), Does(1, 1, 1, 0, 0), Does(2, 0, 0, 0, 0), Does(1, 0, 0, 0, 2)}

\* Moves of the server between two clicks are left to the other page of a generation.
SmallPage == panel \in {DomainStartPage, DomainRunsPage} => budget.clicks + budget.shifts < 3

\* What the components that take no steps are in.
NoPage == panel = MonitoringPage /\ item.st = "on" /\ budget = Budget(1, 0, 1, 1)
NoImport ==
  left = Clicks(2, 0, 0) /\ ready = Domains /\ \A d \in Domains : sites[d] = Site(TRUE, "none")
NoForm == kind = "gen" /\ row = NoSchedule /\ steps = Steps(3, 2, 0, 1, 0)
NoLink == spare = Does(2, 0, 0, 0, 0)

MCInit ==
  /\ part \in {"pages", "import", "schedules", "links"}
  /\ PageInit /\ (IF part = "pages" THEN SmallPage ELSE NoPage)
  /\ ImportInit /\ (IF part = "import" THEN SmallImport ELSE NoImport)
  /\ ScheduleInit /\ (part # "schedules" => NoForm)
  /\ LinkInit /\ setting = AnyLink /\ (part # "links" => NoLink)

MCNext ==
  /\ UNCHANGED part
  /\ \/ part = "pages" /\ PageStep
     \/ part = "import" /\ ImportStep
     \/ part = "schedules" /\ FormStep
     \/ part = "links" /\ LinkStep

MCSpec == MCInit /\ [][MCNext]_<<part, projectVars>>

SlotsAlike == Permutations(Slots)
=============================================================================
