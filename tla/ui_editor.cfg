CONSTANTS
  t1 = t1  t2 = t2  f1 = f1  f2 = f2  p1 = p1  p2 = p2  blank = blank  x = x  y = y  z = z
  Tabs = {t1, t2}
  Files = {f1, f2}
  Paths = {p1, p2}
  Folder = {p2}
  Texts = {blank, x}
  Blank = blank
  NoFile = NoFile  NoPath = NoPath  NoText = NoText  NoAct = NoAct
  MaxVersion = 6
  Pages = {p1, p2}
  Index = p1
  Values <- MCValues
  None = NoText
  MaxPageVersion = 4
  ContentBudgets <- MCBudgets
  Sites <- MCSites
  Habits <- MCHabits
SPECIFICATION MCSpec
SYMMETRY Symmetry
INVARIANTS EditorTypesOK CleanIsTrue ReplacedIsInHistory PagesKeepTheirOwn
PROPERTIES NobodyIsOverwritten
CHECK_DEADLOCK FALSE
