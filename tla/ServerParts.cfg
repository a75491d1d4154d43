\* Three parts of the backend, each by itself.
SPECIFICATION ServerSpec
CONSTANTS
  Jobs = {j1, j2}
  Polled = {j1}
  TTL = 1
  MaxJobClock = 3
  Attempts = 2
  GateTeams = {t1}
  OwningTeam = t1
  MaxCalls = 1
  MaxChanges = 1
  LogIds = {1, 2, 3}
  Services = {"api", "db"}
  NoService = "-"
  HeuristicPlan <- Guess
  FirstTables <- Tables
  MaxAt = 3
  PageLimit = 1
  MaxRetries = 1
  Ascending = FALSE
  MaxPages = 3
INVARIANTS ResultKept MissingOnlyByAge GatesSound SearchSound
PROPERTIES ServerSettles
CHECK_DEADLOCK FALSE
