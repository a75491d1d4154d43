\* The search screen, and its saved-view bar with two handlers at once and teammates.
SPECIFICATION SceneSpec
CONSTANTS
  Texts = {q1}
  FilterVals = {}
  Facets = {f1}
  Patterns = {p1}
  Exclusions = {e1}
  Columns = {c1}
  Sorts = {t1}
  Sizes = {n25, n50}
  Durations = {h1}
  Ranges = {r1}
  SavedIds = {s1, s2}
  FirstIds = {s1}
  Handlers = {a1, a2}
  Manager = TRUE
  Links <- OpenedWith
  TeamRows <- WrittenByTeam
  MaxPage = 2
  MaxFlights = 2
  MaxClicks = 3
  MaxEdits = 1
  NoText = NoText
  NoFilter = NoFilter
  NoRange = NoRange
  NoView = NoView
  NoToken = NoToken
  Stub = Stub
SYMMETRY HandlerSymmetry
INVARIANTS ShownIsCurrent UrlKeepsSearch
PROPERTIES AppliedViewIsShown
CHECK_DEADLOCK FALSE
