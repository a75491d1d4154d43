\* Five parts at the clients, each by itself.
SPECIFICATION ClientSpec
CONSTANTS
  Texts = {q1}
  FilterVals = {}
  Facets = {f1}
  Patterns = {p1}
  Exclusions = {e1}
  Columns = {}
  Sorts = {t1}
  Sizes = {n50}
  Durations = {h1}
  Ranges = {r1}
  SavedIds = {s1}
  FirstIds = {s1}
  Handlers = {a1}
  Manager = TRUE
  Links <- OpenedWith
  TeamRows <- WrittenOnce
  MaxPage = 2
  MaxFlights = 2
  MaxClicks = 2
  MaxEdits = 1
  NoText = NoText
  NoFilter = NoFilter
  NoRange = NoRange
  NoView = NoView
  NoToken = NoToken
  Stub = Stub
  Sources = {s1, s2, s3}
  FirstSources = {s1, s2}
  NoSource = NoSource
  Manageable = TRUE
  MaxKey = 3
  MaxPresses = 2
  MaxClients = 2
  MaxSdkLogs = 2
  MaxClosings = 2
  BatchSize = 2
  AutoCapture = {1}
  Breadcrumbs = {1, 2}
  Panels = {"subscriptions", "rules", "users"}
  RowIds = {r1, r2}
  ListedFirst = {r1, r2}
  NoRow = NoRow
  MaxSends = 2
  ShownPages = {"issues", "detail", "tail"}
  IssueFilters = {f0, f1}
  NoIssueFilter = f0
  DetailIds = {d1, d2}
  NoLog = NoLog
  TailFilters = {t1, t2}
  MaxTurns = 4
  MaxIssuePage = 2
INVARIANTS NoLogTwice KeysCurrent ListsSound PagesCurrent
PROPERTIES CloseEmptiesBuffer HooksUnwind ClientSettles
CHECK_DEADLOCK FALSE
