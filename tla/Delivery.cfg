\* One message to one subscription with the code's three attempts; and two ingests,
\* one of them of a partly invalid batch, with two readers of one team's summary.
SPECIFICATION DeliverySpec
CONSTANTS
  Subs = {s1}
  Rules = {r1}
  Jobs = {j1}
  MAX_RETRIES = 3
  Teams = {t1}
  Sources = {s1}
  TeamOf <- OneTeam
  Items = {i1, i2}
  ErrorItems = {}
  BadItems = {i2}
  Requests = {r1, r2}
  Conns = {}
  Filters = {}
  Readers = {d1, d2}
  MayCrash = TRUE
  Keys = {k1}
INVARIANTS AttemptsBounded StaleOnlyByRace
PROPERTIES DispatchSettles DashboardCatchesUp
