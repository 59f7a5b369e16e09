CONSTANTS
  Panels <- MCPanels
  Flags <- MCFlags
  Slots = {k1, k2}
  MaxLoads = 2
  PageBudgets <- MCBudgets
  Domains = {d1, d2}
  Jobs = {j1, j2}
  NoJob = NoJob
  Sites <- MCSites
  Reruns = 1
  MaxPolls = 2
  ImportBudgets <- MCImportBudgets
  NoSchedule = NoSchedule
  OtherSchedules <- MCSchedules
  ScheduleBudgets <- MCScheduleBudgets
  Tasks = {1, 2}
  NoTask = 0
  Links = {old, new}
  Workers = {worker}
  MaxRetries = 1
  MaxStuck = 2
  MaxWaiting = 1
  LinkBudgets <- MCLinkBudgets
SYMMETRY SlotsAlike
SPECIFICATION MCSpec
INVARIANTS PagesTypesOK ShownIsTrue ClicksAreSound ImportSafe LinkIsKept
PROPERTIES FormsAreTrue
CHECK_DEADLOCK FALSE
