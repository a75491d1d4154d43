------------------------------ MODULE Ingestion -----------------------------
(***************************************************************************)
(* The ingest path: authenticateApiKey and the /ingest routes of           *)
(* api/rest/router.ts, IngestionService (ingestion/ingestion-service.ts)   *)
(* and the source methods of TeamService, composed with the dashboard      *)
(* cache, the live tail and issue tracking that it feeds.                  *)
(*                                                                         *)
(* ingest() is a chain of awaits over three stores.  Whatever rejects on   *)
(* the way, the route answers 404 and what was done stays done; the sender *)
(* may then send the same items again, in another request.                 *)
(***************************************************************************)
EXTENDS LiveStream, DashboardCache, IssueTracking

CONSTANTS Keys,    \* API keys; generateSourceApiKey never repeats one
          MayCrash \* whether the process may be killed from outside

ASSUME CrashAssumption == MayCrash \in BOOLEAN

NoKey == "no key"

ASSUME KeyAssumption == NoKey \notin Keys /\ Keys # {} /\ Sources # {}

VARIABLES apiKey,  \* of each LogSource row, NoKey when there is no row
          issued,  \* history: the sources that each key was issued to
          logs,    \* the ClickHouse table
          request

vars == <<apiKey, issued, logs, request, streamVars, cacheVars, issueVars>>

Answered == {"acked", "failed"}

RequestPc == {"new", "auth", "find", "insert", "keys", "del", "emit"} \cup Answered

RequestState == [pc : RequestPc, source : Sources, key : Keys, items : SUBSET Items]

NewRequest == [pc |-> "new", source |-> CHOOSE s \in Sources : TRUE, key |-> CHOOSE k \in Keys : TRUE, items |-> {}]

\* Keys, stored logs, requests, streams, cached summaries and issues have their types.
TypeOK == /\ StreamTypeOK /\ CacheTypeOK /\ IssueTypeOK
          /\ apiKey \in [Sources -> Keys \cup {NoKey}]
          /\ issued \in [Keys -> SUBSET Sources]
          /\ logs \subseteq Entry
          /\ request \in [Requests -> RequestState]

Init == /\ StreamInit /\ CacheInit /\ IssueInit
        /\ apiKey = [s \in Sources |-> NoKey]
        /\ issued = [k \in Keys |-> {}]
        /\ logs = {}
        /\ request = [r \in Requests |-> NewRequest]

Goto(r, pc) == request' = [request EXCEPT ![r].pc = pc]

(***************************************************************************)
(* Sources.  A deleted id does not come back.                              *)
(***************************************************************************)
Issue(s, k) ==
  /\ issued[k] = {}
  /\ apiKey' = [apiKey EXCEPT ![s] = k]
  /\ issued' = [issued EXCEPT ![k] = {s}]
  /\ UNCHANGED <<logs, request, streamVars, cacheVars, issueVars>>

createSource(s, k) == (\A x \in Keys : s \notin issued[x]) /\ Issue(s, k)

rotateSourceKey(s, k) == apiKey[s] # NoKey /\ Issue(s, k)

deleteSource(s) ==
  /\ apiKey[s] # NoKey
  /\ apiKey' = [apiKey EXCEPT ![s] = NoKey]
  /\ UNCHANGED <<issued, logs, request, streamVars, cacheVars, issueVars>>

(***************************************************************************)
(* The request up to the insert.                                           *)
(***************************************************************************)
post(r, s, k, items) ==
  /\ request[r].pc = "new"
  /\ request' = [request EXCEPT ![r] = [pc |-> "auth", source |-> s, key |-> k, items |-> items]]
  /\ UNCHANGED <<apiKey, issued, logs, streamVars, cacheVars, issueVars>>

\* Variant that accepts the key of any source.
AnyValidKey(s, k) == \E x \in Sources : apiKey[x] = k

KeyMatches(s, k) == apiKey[s] = k

authenticateApiKey(r) ==
  /\ request[r].pc = "auth"
  /\ Goto(r, IF KeyMatches(request[r].source, request[r].key) THEN "find" ELSE "failed")
  /\ UNCHANGED <<apiKey, issued, logs, streamVars, cacheVars, issueVars>>

Accepted(r) == [item : request[r].items \ BadItems, source : {request[r].source}, request : {r}]

\* findSourceById, and the parsing, which awaits nothing.
findSource(r) ==
  /\ request[r].pc = "find"
  /\ Goto(r, IF apiKey[request[r].source] = NoKey THEN "failed"
             ELSE IF Accepted(r) = {} THEN "acked" ELSE "insert")
  /\ UNCHANGED <<apiKey, issued, logs, streamVars, cacheVars, issueVars>>

insert(r) ==
  /\ request[r].pc = "insert"
  /\ logs' = logs \cup Accepted(r)
  /\ Goto(r, "keys")
  /\ UNCHANGED <<apiKey, issued, streamVars, cacheVars, issueVars>>

(***************************************************************************)
(* What follows the insert: cache invalidation, live events, issues.       *)
(***************************************************************************)
invalidateKeys(r) ==
  LET t == TeamOf[request[r].source]
  IN  /\ request[r].pc = "keys"
      /\ IF Listed(t) THEN Goto(r, "del") /\ UNCHANGED cacheVars
                      ELSE Goto(r, "emit") /\ NothingListed(t, r)
      /\ UNCHANGED <<apiKey, issued, logs, streamVars, issueVars>>

invalidateDel(r) ==
  /\ request[r].pc = "del"
  /\ Delete(TeamOf[request[r].source], r)
  /\ Goto(r, "emit")
  /\ UNCHANGED <<apiKey, issued, logs, streamVars, issueVars>>

\* The loop over the accepted entries and the answer 202 are one turn.
publish(r) ==
  /\ request[r].pc = "emit"
  /\ Emit(Accepted(r))
  /\ Track(Accepted(r))
  /\ Goto(r, "acked")
  /\ UNCHANGED <<apiKey, issued, logs, stream, cacheVars>>

\* A store rejects and the route answers 404; an insert that is rejected may
\* have been applied.
ingestFails(r) ==
  /\ request[r].pc \in {"find", "insert", "keys", "del"}
  /\ logs' \in IF request[r].pc = "insert" THEN {logs, logs \cup Accepted(r)} ELSE {logs}
  /\ Goto(r, "failed")
  /\ UNCHANGED <<apiKey, issued, streamVars, cacheVars, issueVars>>

\* The process dies and comes back: the stores keep what they have.
Restart ==
  /\ request' = [r \in Requests |-> IF request[r].pc \in {"new"} \cup Answered THEN request[r]
                                    ELSE [request[r] EXCEPT !.pc = "failed"]]
  /\ stream' = [c \in Conns |-> NoStream]
  /\ delivered' = [c \in Conns |-> {}]
  /\ read' = [d \in Readers |-> NoRead]
  /\ tracking' = {}
  /\ untracked' = untracked \cup tracking
  /\ UNCHANGED <<apiKey, issued, logs, cache, issue>>

crash == MayCrash /\ Restart

\* authenticateApiKey is mounted without asyncHandler: nothing handles the
\* rejection of its lookup, and Node ends the process.
keyLookupRejects(r) == request[r].pc = "auth" /\ Restart

Ingest(r) == \/ authenticateApiKey(r) \/ keyLookupRejects(r) \/ findSource(r) \/ insert(r)
             \/ invalidateKeys(r) \/ invalidateDel(r) \/ publish(r) \/ ingestFails(r)

SourceStep(s) == (\E k \in Keys : createSource(s, k) \/ rotateSourceKey(s, k)) \/ deleteSource(s)

StreamStep(c) ==
  /\ \/ \E t \in Teams, filter \in Filters : streamLogs(c, t, filter)
     \/ streamRefused(c) \/ subscribe(c) \/ closeStream(c)
  /\ UNCHANGED <<apiKey, issued, logs, request, cacheVars, issueVars>>

ReadStep(d) ==
  /\ \/ \E t \in Teams : getDashboardSummary(d, t)
     \/ getStats(d, logs) \/ setSummary(d) \/ readFails(d)
  /\ UNCHANGED <<apiKey, issued, logs, request, streamVars, issueVars>>

Expiry(t) == expireSummary(t) /\ UNCHANGED <<apiKey, issued, logs, request, streamVars, issueVars>>

IssueStep ==
  /\ \/ \E e \in tracking : trackError(e) \/ trackErrorFails(e)
     \/ \E t \in Teams, i \in Items, status \in IssueStatus : updateStatus(t, i, status)
  /\ UNCHANGED <<apiKey, issued, logs, request, streamVars, cacheVars>>

Next == \/ \E s \in Sources : SourceStep(s)
        \/ \E r \in Requests, s \in Sources, k \in Keys, items \in (SUBSET Items) \ {{}} : post(r, s, k, items)
        \/ \E r \in Requests : Ingest(r)
        \/ \E c \in Conns : StreamStep(c)
        \/ \E d \in Readers : ReadStep(d)
        \/ \E t \in Teams : Expiry(t)
        \/ IssueStep
        \/ crash

Spec == Init /\ [][Next]_vars

\* Redis expires what it holds, and a summary that is under way is answered
\* or rejected.
CacheProgress == /\ \A t \in Teams : WF_vars(Expiry(t))
                 /\ \A d \in Readers : WF_vars(read[d].pc # "idle" /\ ReadStep(d))

FairSpec == Spec /\ CacheProgress

(***************************************************************************)
(* A key admits logs to the source it was issued for and to no other,      *)
(* through rotations and deletions while requests are under way.           *)
(***************************************************************************)
NoForgedLogs == \A e \in logs : e.source \in issued[request[e.request].key]

(***************************************************************************)
(* The stores of ingestion stay well typed, and a stored log came with a   *)
(* key of its source and belongs to the team of that source                *)
(* (authenticateApiKey, IngestionService.ingest).                          *)
(***************************************************************************)
TenantsInv == TypeOK /\ NoForgedLogs

\* Why: the key of a row was issued to its source, a request past the key check
\* holds such a key, and a log is stored by a request that has come to its insert.
KeysIssued == \A s \in Sources : apiKey[s] # NoKey => s \in issued[apiKey[s]]

RequestsAuthed ==
  \A r \in Requests :
    request[r].pc \in {"find", "insert", "keys", "del", "emit"} => request[r].source \in issued[request[r].key]

LogsOfRequests ==
  \A e \in logs : /\ e.source = request[e.request].source
                  /\ e.item \in request[e.request].items \ BadItems
                  /\ request[e.request].pc \in {"keys", "del", "emit", "acked", "failed"}

AcceptedStored == \A r \in Requests : request[r].pc \in {"keys", "del", "emit"} => Accepted(r) \subseteq logs

RequestsIInv == /\ apiKey \in [Sources -> Keys \cup {NoKey}] /\ issued \in [Keys -> SUBSET Sources]
                /\ logs \subseteq Entry /\ request \in [Requests -> RequestState]
                /\ KeysIssued /\ RequestsAuthed /\ LogsOfRequests /\ AcceptedStored /\ NoForgedLogs

(***************************************************************************)
(* The live tail shows stored logs of its own team only, whatever the      *)
(* stores reject and whenever the client comes and goes.                   *)
(***************************************************************************)
StreamedIsStored ==
  \A c \in Conns : \A e \in delivered[c] : e \in logs /\ Team(e) = stream[c].team

\* Why: what is delivered was emitted to an open stream.
OnlyOpenDelivered == \A c \in Conns : stream[c].pc # "open" => delivered[c] = {}

StreamIInv == StreamTypeOK /\ OnlyOpenDelivered /\ StreamedIsStored

(***************************************************************************)
(* An acknowledged log is missing from the cached summary only when the    *)
(* reader that wrote the summary had counted before the insert and the     *)
(* invalidation went past it.                                              *)
(***************************************************************************)
StaleOnlyByRace ==
  \A e \in logs : /\ request[e.request].pc = "acked"
                  /\ cache[Team(e)].row = "set"
                  /\ e \notin cache[Team(e)].logs
                  => e.request \in cache[Team(e)].raced

\* Why: what a summary, or a reader about to set it, has not counted belongs to a
\* request that overtook the reader or has yet to invalidate, or failed to.
Explained(row, t) ==
  \A e \in logs : Team(e) = t /\ e \notin row.logs =>
    e.request \in row.raced \/ request[e.request].pc \in {"keys", "del", "failed"}

CacheIInv == /\ CacheTypeOK
             /\ \A t \in Teams : cache[t].row = "set" => Explained(cache[t], t)
             /\ \A d \in Readers : read[d].pc = "set" => Explained(read[d], read[d].team)

\* The entries of an issue whose ingest was answered.
Published(t, i) == {e \in logs : Team(e) = t /\ e.item = i /\ request[e.request].pc = "acked"}

(***************************************************************************)
(* eventCount counts every published error entry whose upsert was          *)
(* confirmed, and none that was not published.                             *)
(***************************************************************************)
IssuesCountPublished ==
  \A t \in Teams, i \in ErrorItems :
     /\ Cardinality(Published(t, i) \ (tracking \cup untracked)) <= issue[t][i].eventCount
     /\ issue[t][i].eventCount <= Cardinality(Published(t, i) \ tracking)

\* Why: only entries of acknowledged requests are being counted.
TrackedIsPublished ==
  \A e \in tracking : e \in logs /\ e.item \in ErrorItems /\ request[e.request].pc = "acked"

IssueIInv == IssueTypeOK /\ TrackedIsPublished /\ IsFiniteSet(logs) /\ IssuesCountPublished

IngestionIInv == RequestsIInv /\ StreamIInv /\ CacheIInv /\ IssueIInv

\* The cached summary of its team lacks the entry.
Lacking(e) == cache[Team(e)].row = "set" /\ e \notin cache[Team(e)].logs

(***************************************************************************)
(* The dashboard catches up: from some time on no cached summary lacks a   *)
(* stored log, although a racing reader can put a stale one back and the   *)
(* invalidation may fail.                                                  *)
(***************************************************************************)
DashboardCatchesUp == \A e \in Entry : e \in logs ~> [](~Lacking(e))

\* A request that has been accepted and not answered.
UnderWay(r) == request[r].pc \notin {"new"} \cup Answered

(***************************************************************************)
(* router.ts on its asyncHandler: "Async error wrapper so unhandled        *)
(* rejections go to error middleware".  A store that rejects a statement   *)
(* of one request does not end another one that is under way.              *)
(***************************************************************************)
RejectionContained ==
  [][\A r, q \in Requests : UnderWay(r) /\ UnderWay(q) /\ ~UnderWay(r)' /\ ~UnderWay(q)' => r = q]_vars
=============================================================================
