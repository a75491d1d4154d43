--------------------------- MODULE DashboardCache ---------------------------
(***************************************************************************)
(* The dashboard summary: getDashboardSummary of QueryService              *)
(* (services/query/query-service.ts) over CacheService                     *)
(* (cache/cache-service.ts).  A summary is the set of entries it counts.   *)
(*                                                                         *)
(* A reader that misses the cache queries ClickHouse and then sets the     *)
(* key, with nothing between it and an ingest that deletes the key.        *)
(***************************************************************************)
EXTENDS LogEntries

CONSTANTS Readers   \* GET /dashboard requests

VARIABLES cache,   \* the Redis key of each team
          read     \* the requests

cacheVars == <<cache, read>>

\* `raced` is history: the requests that invalidated the key while the
\* reader held what it had counted.
CacheRow == [row : {"none", "set"}, logs : SUBSET Entry, raced : SUBSET Requests]

NoSummary == [row |-> "none", logs |-> {}, raced |-> {}]

ReadState == [pc : {"idle", "stats", "set"}, team : Teams, logs : SUBSET Entry, raced : SUBSET Requests]

NoRead == [pc |-> "idle", team |-> CHOOSE t \in Teams : TRUE, logs |-> {}, raced |-> {}]

CacheTypeOK == cache \in [Teams -> CacheRow] /\ read \in [Readers -> ReadState]

CacheInit == /\ cache = [t \in Teams |-> NoSummary]
             /\ read = [d \in Readers |-> NoRead]

\* A hit answers from the cache and changes nothing.
getDashboardSummary(d, t) ==
  /\ read[d].pc = "idle"
  /\ cache[t].row = "none"
  /\ read' = [read EXCEPT ![d] = [NoRead EXCEPT !.pc = "stats", !.team = t]]
  /\ UNCHANGED cache

getStats(d, stored) ==
  /\ read[d].pc = "stats"
  /\ read' = [read EXCEPT ![d].pc = "set", ![d].logs = {e \in stored : Team(e) = read[d].team}]
  /\ UNCHANGED cache

setSummary(d) ==
  /\ read[d].pc = "set"
  /\ cache' = [cache EXCEPT ![read[d].team] = [row |-> "set", logs |-> read[d].logs, raced |-> read[d].raced]]
  /\ read' = [read EXCEPT ![d] = NoRead]

\* ClickHouse, Postgres or Redis rejects: the request answers 500.
readFails(d) ==
  /\ read[d].pc # "idle"
  /\ read' = [read EXCEPT ![d] = NoRead]
  /\ UNCHANGED cache

\* Redis drops the key DASHBOARD_CACHE_TTL seconds after it was set.
\* Variant that sets it without EX.
neverExpires(t) == FALSE /\ UNCHANGED cacheVars

expireSummary(t) ==
  /\ cache[t].row = "set"
  /\ cache' = [cache EXCEPT ![t] = NoSummary]
  /\ UNCHANGED read

(***************************************************************************)
(* invalidate(), called by ingest(): KEYS, then DEL of what it listed.     *)
(***************************************************************************)
Listed(t) == cache[t].row = "set"

Overtaken(t, r) ==
  [d \in Readers |-> IF read[d].pc = "set" /\ read[d].team = t
                       THEN [read[d] EXCEPT !.raced = @ \cup {r}] ELSE read[d]]

\* Nothing listed: the invalidation is over.
NothingListed(t, r) == read' = Overtaken(t, r) /\ UNCHANGED cache

\* Variant that deletes nothing.
Keep(t, r) == read' = Overtaken(t, r) /\ UNCHANGED cache

Delete(t, r) == cache' = [cache EXCEPT ![t] = NoSummary] /\ read' = Overtaken(t, r)
=============================================================================
