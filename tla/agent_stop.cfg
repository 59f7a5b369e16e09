CONSTANTS
  a = a  b = b  c = c  u = u  v = v
  Tabs = {a, b, c}
  Users = {u, v}
  UserOf <- MCUserOf
  Docs = {d}
  NoDoc = NoDoc
  Nobody = Nobody
  MaxSwitches = 3
  MaxLate = 1
  Panels = {p}
  Sessions = {s1, s2}
  Paths = {f}
  NoSession = NoSession
  Slots = {1, 2}
  MaxChanges = 2
  Budgets <- MCBudgets
  Requests = {r1, r2}
  NoRequest = NoRequest
  Ttl = 2
  MaxNow = 3
  MaxVersion = 2
  Callers = {a, b, c}
  Connections = {k1, k2, k3}
  NoConnection = NoConnection
  MaxOpen = 2
  MaxIdle = 1
  MaxUses = 1
  BrowserTabs = {a, b}
  MaxFailures = 3
  MaxLogins = 2
  MaxLoads = 1
  MaxLost = 1
  Words <- MCWords
  MaxPages = 2
  MaxFetches = 2
  FirstUrls <- MCFirstUrls
  FilterBudgets <- MCFilterBudgets
  Ticks = {a, b}
  Workers = {c}
  MaxAttempts = 2
  CheckBudgets <- MCCheckBudgets
SPECIFICATION MCSpec
PROPERTY StopIsFinal
CHECK_DEADLOCK FALSE
