--------------------------- MODULE IngestionProofs --------------------------
(***************************************************************************)
(* Proofs about ingestion: keys and tenants, the live tail, the dashboard  *)
(* cache and the counts of issues, for any teams, sources, keys, requests, *)
(* connections and readers, and with crashes at any step.                  *)
(*                                                                         *)
(* The invariant has four parts.  The first is about keys, requests and    *)
(* stored logs; the other three are about one consumer each, and a step of *)
(* a request that does not reach them is known to them by Quiet and        *)
(* StaysUnfinished only.                                                   *)
(***************************************************************************)
EXTENDS Ingestion, FiniteSetTheorems, TLAPS

(***************************************************************************)
(* Keys, requests and logs.                                                *)
(***************************************************************************)
\* A request goes on.
LEMMA GotoFacts ==
  ASSUME request \in [Requests -> RequestState], NEW r \in Requests, NEW pc \in RequestPc, Goto(r, pc)
  PROVE  /\ request' \in [Requests -> RequestState]
         /\ request'[r].pc = pc
         /\ \A x \in Requests : x # r => request'[x] = request[x]
         /\ \A x \in Requests : /\ request'[x].source = request[x].source /\ request'[x].key = request[x].key
                                /\ request'[x].items = request[x].items
<1>1. [request[r] EXCEPT !.pc = pc] \in RequestState
  BY DEF RequestState
<1>2. request' = [request EXCEPT ![r] = [request[r] EXCEPT !.pc = pc]]
  BY DEF Goto
<1>3. /\ request' \in [Requests -> RequestState] /\ request'[r] = [request[r] EXCEPT !.pc = pc]
      /\ \A x \in Requests : x # r => request'[x] = request[x]
  BY <1>1, <1>2
<1>4. /\ request'[r].pc = pc /\ request'[r].source = request[r].source /\ request'[r].key = request[r].key
      /\ request'[r].items = request[r].items
  BY <1>3 DEF RequestState
<1> QED BY <1>3, <1>4

\* What an accepted entry is.
LEMMA AcceptedFacts ==
  ASSUME request \in [Requests -> RequestState], NEW r \in Requests
  PROVE  /\ Accepted(r) \subseteq Entry
         /\ \A e \in Accepted(r) : /\ e.source = request[r].source /\ e.request = r
                                  /\ e.item \in request[r].items \ BadItems
BY DEF Accepted, Entry, RequestState

\* The invariant holds before the first request.
LEMMA InitRequests == Init => RequestsIInv
<1> SUFFICES ASSUME Init PROVE RequestsIInv
  OBVIOUS
<1>1. NewRequest \in RequestState /\ NewRequest.pc = "new"
  BY KeyAssumption DEF NewRequest, RequestState, RequestPc
<1> QED BY <1>1 DEF Init, RequestsIInv, KeysIssued, RequestsAuthed, LogsOfRequests, AcceptedStored, NoForgedLogs

\* A source gets a key, a new one, or loses it.
LEMMA SourceStepKeeps ==
  ASSUME RequestsIInv, NEW s \in Sources, SourceStep(s)
  PROVE  RequestsIInv' /\ UNCHANGED <<logs, request>>
<1> USE DEF RequestsIInv
<1>1. ASSUME NEW k \in Keys, Issue(s, k) PROVE RequestsIInv' /\ UNCHANGED <<logs, request>>
  <2>1. UNCHANGED <<logs, request>> /\ issued[k] = {}
    BY <1>1 DEF Issue
  <2>2. apiKey' \in [Sources -> Keys \cup {NoKey}] /\ apiKey'[s] = k /\ \A x \in Sources : x # s => apiKey'[x] = apiKey[x]
    BY <1>1 DEF Issue
  <2>3. issued' \in [Keys -> SUBSET Sources] /\ issued'[k] = {s} /\ \A x \in Keys : issued[x] \subseteq issued'[x]
    BY <1>1, <2>1 DEF Issue
  <2>4. KeysIssued'
    BY <2>2, <2>3 DEF KeysIssued
  <2>5. RequestsAuthed' /\ NoForgedLogs'
    <3>1. \A r \in Requests : request[r].key \in Keys
      BY DEF RequestState
    <3>2. \A e \in logs : e.request \in Requests
      BY DEF Entry
    <3> QED BY <2>1, <2>3, <3>1, <3>2 DEF RequestsAuthed, NoForgedLogs
  <2>6. LogsOfRequests' /\ AcceptedStored'
    BY <2>1 DEF LogsOfRequests, AcceptedStored, Accepted
  <2> QED BY <2>1, <2>2, <2>3, <2>4, <2>5, <2>6
<1>2. CASE deleteSource(s)
  BY <1>2 DEF deleteSource, KeysIssued, RequestsAuthed, LogsOfRequests, AcceptedStored, Accepted, NoForgedLogs
<1> QED BY <1>1, <1>2 DEF SourceStep, createSource, rotateSourceKey

\* A request goes on, and may store what it has accepted.
LEMMA RequestGoes ==
  ASSUME RequestsIInv, NEW r \in Requests, NEW pc \in RequestPc \ {"new", "auth"}, Goto(r, pc), UNCHANGED <<apiKey, issued>>,
         \/ logs' = logs
         \/ request[r].pc = "insert" /\ pc \in {"keys", "failed"} /\ logs' = logs \cup Accepted(r),
         pc \in {"find", "insert", "keys", "del", "emit"} => request[r].source \in issued[request[r].key],
         pc \in {"keys", "del", "emit"} => Accepted(r) \subseteq logs',
         pc \in {"keys", "del", "emit", "acked", "failed"} \/ request[r].pc \notin {"keys", "del", "emit", "acked", "failed"}
  PROVE  RequestsIInv'
<1> USE DEF RequestsIInv
<1>1. /\ request' \in [Requests -> RequestState] /\ request'[r].pc = pc
      /\ \A x \in Requests : x # r => request'[x] = request[x]
      /\ \A x \in Requests : /\ request'[x].source = request[x].source /\ request'[x].key = request[x].key
                             /\ request'[x].items = request[x].items
  BY GotoFacts
<1>2. \A x \in Requests : Accepted(x)' = Accepted(x)
  BY <1>1 DEF Accepted
<1>3. logs \subseteq logs' /\ logs' \subseteq Entry
  BY AcceptedFacts
<1>4. RequestsAuthed'
  BY <1>1 DEF RequestsAuthed
<1>5. AcceptedStored'
  BY <1>1, <1>2, <1>3 DEF AcceptedStored
<1>6. LogsOfRequests'
  <2> SUFFICES ASSUME NEW e \in logs'
               PROVE  /\ e.source = request'[e.request].source
                      /\ e.item \in request'[e.request].items \ BadItems
                      /\ request'[e.request].pc \in {"keys", "del", "emit", "acked", "failed"}
    BY DEF LogsOfRequests
  <2>1. CASE e \in logs
    <3>1. e.request \in Requests
      BY <2>1 DEF Entry
    <3> QED BY <1>1, <2>1, <3>1 DEF LogsOfRequests
  <2>2. CASE e \notin logs
    BY <1>1, <2>2, AcceptedFacts
  <2> QED BY <2>1, <2>2
<1>7. NoForgedLogs'
  <2> SUFFICES ASSUME NEW e \in logs' PROVE e.source \in issued[request'[e.request].key]
    BY DEF NoForgedLogs
  <2>1. CASE e \in logs
    <3>1. e.request \in Requests
      BY <2>1 DEF Entry
    <3> QED BY <1>1, <2>1, <3>1 DEF NoForgedLogs
  <2>2. CASE e \notin logs
    BY <1>1, <2>2, AcceptedFacts DEF RequestsAuthed
  <2> QED BY <2>1, <2>2
<1> QED BY <1>1, <1>3, <1>4, <1>5, <1>6, <1>7 DEF KeysIssued

\* What has not been invalidated for stays so, but for the steps that invalidate.
Unfinished == {"keys", "del", "failed"}

StaysUnfinished ==
  \A e \in logs : request[e.request].pc \in Unfinished => request'[e.request].pc \in Unfinished

\* Logs are added by requests that are not acknowledged, and none with a stored
\* log becomes acknowledged.
Quiet ==
  /\ logs \subseteq logs'
  /\ \A e \in logs' : e \notin logs => request'[e.request].pc \in {"keys", "failed"}
  /\ \A e \in logs : request'[e.request].pc = "acked" <=> request[e.request].pc = "acked"

\* The steps of a request but those after the insert.
LEMMA RequestSteps ==
  ASSUME RequestsIInv, NEW r \in Requests,
         authenticateApiKey(r) \/ findSource(r) \/ insert(r) \/ ingestFails(r)
  PROVE  RequestsIInv' /\ Quiet /\ StaysUnfinished
<1>0. /\ request \in [Requests -> RequestState] /\ apiKey \in [Sources -> Keys \cup {NoKey}] /\ NoKey \notin Keys
      /\ logs \subseteq Entry /\ \A e \in logs : e.request \in Requests
      /\ request[r].source \in Sources /\ request[r].key \in Keys
  BY KeyAssumption DEF RequestsIInv, Entry, RequestState
<1>1. ASSUME NEW pc \in RequestPc, Goto(r, pc), request[r].pc \notin {"acked", "emit", "failed"},
             pc = "acked" => request[r].pc = "find" /\ logs' = logs,
             request[r].pc \in {"keys", "del"} => pc = "failed",
             \/ logs' = logs
             \/ request[r].pc = "insert" /\ pc \in {"keys", "failed"} /\ logs' = logs \cup Accepted(r)
      PROVE  Quiet /\ StaysUnfinished
  <2>1. request'[r].pc = pc /\ \A x \in Requests : x # r => request'[x] = request[x]
    BY <1>0, <1>1, GotoFacts
  <2>2. \A e \in logs : e.request = r => request[r].pc \notin {"find", "insert", "new", "auth"}
    BY DEF RequestsIInv, LogsOfRequests
  <2>3. \A e \in logs' : e \notin logs => e.request = r /\ pc \in {"keys", "failed"}
    BY <1>0, <1>1, AcceptedFacts
  <2>4. logs \subseteq logs'
    BY <1>1
  <2>5. Quiet
    BY <1>0, <1>1, <2>1, <2>2, <2>3, <2>4 DEF Quiet
  <2>6. StaysUnfinished
    BY <1>0, <1>1, <2>1, <2>2 DEF StaysUnfinished, Unfinished
  <2> QED BY <2>5, <2>6
<1>2. CASE authenticateApiKey(r)
  <2>1. PICK pc \in {"find", "failed"} : /\ pc = (IF KeyMatches(request[r].source, request[r].key) THEN "find" ELSE "failed")
                                         /\ Goto(r, pc)
    BY <1>2 DEF authenticateApiKey
  <2>2. pc = "find" => request[r].source \in issued[request[r].key]
    BY <1>0, <2>1 DEF RequestsIInv, KeysIssued, KeyMatches
  <2>3. request[r].pc = "auth" /\ UNCHANGED <<apiKey, issued, logs>> /\ pc \in RequestPc
    BY <1>2, <2>1 DEF authenticateApiKey, RequestPc, Answered
  <2>4. RequestsIInv'
    BY <2>1, <2>2, <2>3, RequestGoes
  <2> QED BY <1>1, <2>1, <2>3, <2>4
<1>3. CASE findSource(r)
  <2>1. PICK pc \in {"failed", "acked", "insert"} : Goto(r, pc)
    BY <1>3 DEF findSource
  <2>2. /\ request[r].pc = "find" /\ UNCHANGED <<apiKey, issued, logs>> /\ pc \in RequestPc
        /\ request[r].source \in issued[request[r].key]
    BY <1>3, <2>1 DEF findSource, RequestPc, Answered, RequestsIInv, RequestsAuthed
  <2>3. RequestsIInv'
    BY <2>1, <2>2, RequestGoes
  <2> QED BY <1>1, <2>1, <2>2, <2>3
<1>4. CASE insert(r)
  <2>1. /\ request[r].pc = "insert" /\ UNCHANGED <<apiKey, issued>> /\ "keys" \in RequestPc /\ Goto(r, "keys")
        /\ request[r].source \in issued[request[r].key] /\ logs' = logs \cup Accepted(r)
    BY <1>4 DEF insert, RequestPc, RequestsIInv, RequestsAuthed
  <2>2. RequestsIInv'
    BY <2>1, RequestGoes
  <2> QED BY <1>1, <2>1, <2>2
<1>5. CASE ingestFails(r)
  <2>1. /\ request[r].pc \in {"find", "insert", "keys", "del"} /\ UNCHANGED <<apiKey, issued>> /\ Goto(r, "failed")
        /\ logs' = logs \/ (request[r].pc = "insert" /\ logs' = logs \cup Accepted(r))
        /\ "failed" \in RequestPc
    BY <1>5 DEF ingestFails, RequestPc, Answered
  <2>2. RequestsIInv'
    BY <2>1, RequestGoes
  <2> QED BY <1>1, <2>1, <2>2
<1> QED BY <1>2, <1>3, <1>4, <1>5

\* A request comes in.
LEMMA PostStep ==
  ASSUME RequestsIInv, NEW r \in Requests, NEW s \in Sources, NEW k \in Keys, NEW items \in SUBSET Items,
         post(r, s, k, items)
  PROVE  RequestsIInv' /\ Quiet /\ StaysUnfinished
<1> USE DEF RequestsIInv
<1>1. [pc |-> "auth", source |-> s, key |-> k, items |-> items] \in RequestState
  BY DEF RequestState, RequestPc
<1>2. /\ request' \in [Requests -> RequestState] /\ request'[r].pc = "auth"
      /\ \A x \in Requests : x # r => request'[x] = request[x]
  BY <1>1 DEF post
<1>3. \A e \in logs : e.request \in Requests /\ e.request # r
  BY DEF post, LogsOfRequests, Entry
<1>4. UNCHANGED <<apiKey, issued, logs>>
  BY DEF post
<1>5. RequestsAuthed' /\ LogsOfRequests' /\ NoForgedLogs' /\ KeysIssued'
  BY <1>2, <1>3, <1>4 DEF RequestsAuthed, LogsOfRequests, NoForgedLogs, KeysIssued
<1>6. AcceptedStored'
  BY <1>2, <1>4 DEF AcceptedStored, Accepted
<1>7. Quiet /\ StaysUnfinished
  BY <1>2, <1>3, <1>4 DEF Quiet, StaysUnfinished
<1> QED BY <1>2, <1>4, <1>5, <1>6, <1>7

\* The steps after the insert.
LEMMA FollowUpSteps ==
  ASSUME RequestsIInv, NEW r \in Requests, invalidateKeys(r) \/ invalidateDel(r) \/ publish(r)
  PROVE  RequestsIInv' /\ logs' = logs
<1>0. \A pc \in {"keys", "del", "emit"} :
        request[r].pc = pc => request[r].source \in issued[request[r].key] /\ Accepted(r) \subseteq logs
  BY DEF RequestsIInv, RequestsAuthed, AcceptedStored
<1>1. PICK pc \in {"del", "emit", "acked"} : Goto(r, pc) /\ request[r].pc \in {"keys", "del", "emit"}
  BY DEF invalidateKeys, invalidateDel, publish
<1>2. UNCHANGED <<apiKey, issued, logs>> /\ pc \in RequestPc
  BY <1>1 DEF invalidateKeys, invalidateDel, publish, RequestPc, Answered
<1> QED BY <1>0, <1>1, <1>2, RequestGoes

\* The process dies.
LEMMA RestartStep ==
  ASSUME RequestsIInv, Restart
  PROVE  RequestsIInv' /\ Quiet /\ StaysUnfinished
<1> USE DEF RequestsIInv
<1>1. ASSUME NEW q \in RequestState
      PROVE  LET n == [q EXCEPT !.pc = "failed"]
             IN  n \in RequestState /\ n.pc = "failed" /\ n.source = q.source /\ n.key = q.key /\ n.items = q.items
  BY DEF RequestState, RequestPc, Answered
<1>2. \A r \in Requests : \/ request'[r] = request[r] /\ request[r].pc \in {"new", "acked", "failed"}
                          \/ /\ request'[r] = [request[r] EXCEPT !.pc = "failed"]
                             /\ request[r].pc \notin {"new", "acked", "failed"}
  BY DEF Restart, Answered
<1>3. request' \in [Requests -> RequestState]
  BY <1>1 DEF Restart
<1>4. ASSUME NEW r \in Requests
      PROVE  /\ request'[r].source = request[r].source /\ request'[r].key = request[r].key
             /\ request'[r].items = request[r].items
             /\ \/ request'[r].pc = request[r].pc /\ request[r].pc \in {"new", "acked", "failed"}
                \/ request'[r].pc = "failed" /\ request[r].pc \notin {"new", "acked", "failed"}
  <2>1. PICK q \in RequestState : q = request[r]
    OBVIOUS
  <2> QED BY <1>1, <1>2, <2>1
<1>5. UNCHANGED <<apiKey, issued, logs>> /\ \A e \in logs : e.request \in Requests
  BY DEF Restart, Entry
<1>6. RequestsAuthed' /\ AcceptedStored' /\ KeysIssued'
  BY <1>4, <1>5 DEF RequestsAuthed, AcceptedStored, KeysIssued
<1>7. LogsOfRequests' /\ NoForgedLogs'
  BY <1>4, <1>5 DEF LogsOfRequests, NoForgedLogs
<1>8. Quiet /\ StaysUnfinished
  BY <1>4, <1>5 DEF Quiet, StaysUnfinished, Unfinished
<1> QED BY <1>3, <1>5, <1>6, <1>7, <1>8

(***************************************************************************)
(* The live tail.                                                          *)
(***************************************************************************)
\* No stream is well typed, and nothing is delivered to it.
LEMMA NoStreamFacts == NoStream \in StreamState /\ NoStream.pc = "none"
BY TeamAssumption DEF NoStream, StreamState

\* The invariant holds before the first stream, and after a restart.
LEMMA NoStreams ==
  ASSUME stream' = [c \in Conns |-> NoStream], delivered' = [c \in Conns |-> {}]
  PROVE  StreamIInv'
BY NoStreamFacts DEF StreamIInv, StreamTypeOK, OnlyOpenDelivered, StreamedIsStored

\* Storing more logs changes nothing for the streams.
LEMMA StreamsStay ==
  ASSUME StreamIInv, UNCHANGED streamVars, logs \subseteq logs'
  PROVE  StreamIInv'
BY DEF StreamIInv, streamVars, StreamTypeOK, OnlyOpenDelivered, StreamedIsStored

\* What publish() delivers is stored, and goes to streams of its team.
LEMMA EmitStep ==
  ASSUME StreamIInv, NEW entries \in SUBSET Entry, entries \subseteq logs, Emit(entries), UNCHANGED <<stream, logs>>
  PROVE  StreamIInv'
<1>1. \A c \in Conns : delivered'[c] = delivered[c] \cup {e \in entries : Listens(c, e)}
  BY DEF Emit
<1>2. delivered' \in [Conns -> SUBSET Entry]
  BY DEF Emit, StreamIInv, StreamTypeOK
<1>3. OnlyOpenDelivered' /\ StreamedIsStored'
  BY <1>1 DEF StreamIInv, OnlyOpenDelivered, StreamedIsStored, Listens
<1> QED BY <1>2, <1>3 DEF StreamIInv, StreamTypeOK

\* Clients come and go.
LEMMA StreamStepKeeps ==
  ASSUME StreamIInv, NEW c \in Conns, StreamStep(c)
  PROVE  StreamIInv'
<1>0. stream \in [Conns -> StreamState] /\ delivered \in [Conns -> SUBSET Entry] /\ logs' = logs
  BY DEF StreamIInv, StreamTypeOK, StreamStep
<1>1. ASSUME NEW n \in StreamState, stream' = [stream EXCEPT ![c] = n],
             \/ delivered' = [delivered EXCEPT ![c] = {}]
             \/ delivered' = delivered /\ delivered[c] = {}
      PROVE  StreamIInv'
  <2>1. stream' \in [Conns -> StreamState] /\ \A x \in Conns : x # c => stream'[x] = stream[x]
    BY <1>0, <1>1
  <2>2. /\ delivered' \in [Conns -> SUBSET Entry] /\ delivered'[c] = {}
        /\ \A x \in Conns : x # c => delivered'[x] = delivered[x]
    BY <1>0, <1>1
  <2>3. OnlyOpenDelivered' /\ StreamedIsStored'
    BY <1>0, <2>1, <2>2 DEF StreamIInv, OnlyOpenDelivered, StreamedIsStored
  <2> QED BY <2>1, <2>2, <2>3 DEF StreamIInv, StreamTypeOK
<1>2. stream[c].pc # "open" => delivered[c] = {}
  BY DEF StreamIInv, OnlyOpenDelivered
<1>3. ASSUME NEW t \in Teams, NEW filter \in Filters, streamLogs(c, t, filter) PROVE StreamIInv'
  <2>1. [pc |-> "auth", team |-> t, filter |-> filter, gone |-> FALSE] \in StreamState
    BY FilterAssumption DEF StreamState
  <2> QED BY <1>1, <1>2, <1>3, <2>1 DEF streamLogs
<1>4. CASE streamRefused(c)
  BY <1>1, <1>2, <1>4, NoStreamFacts DEF streamRefused
<1>5. CASE subscribe(c)
  <2>1. PICK n : n = [stream[c] EXCEPT !.pc = "open"]
    OBVIOUS
  <2>2. n \in StreamState
    <3>1. \A x \in StreamState : [x EXCEPT !.pc = "open"] \in StreamState
      BY Zenon DEF StreamState
    <3> QED BY <1>0, <2>1, <3>1
  <2>3. stream' = [stream EXCEPT ![c] = n] /\ delivered' = delivered /\ stream[c].pc = "auth"
    BY <1>5, <2>1, Zenon DEF subscribe
  <2> QED BY <1>1, <1>2, <2>2, <2>3
<1>6. CASE closeStream(c)
  <2>1. CASE stream[c].pc = "open"
    BY <1>1, <1>6, <2>1, NoStreamFacts DEF closeStream
  <2>2. CASE stream[c].pc # "open"
    <3>1. PICK n : n = [stream[c] EXCEPT !.gone = TRUE]
      OBVIOUS
    <3>2. n \in StreamState
      <4>1. \A x \in StreamState : [x EXCEPT !.gone = TRUE] \in StreamState
        BY Zenon DEF StreamState
      <4> QED BY <1>0, <3>1, <4>1
    <3>3. stream' = [stream EXCEPT ![c] = n] /\ delivered' = delivered
      BY <1>6, <2>2, <3>1, Zenon DEF closeStream
    <3> QED BY <1>1, <1>2, <2>2, <3>2, <3>3
  <2> QED BY <2>1, <2>2
<1> QED BY <1>3, <1>4, <1>5, <1>6 DEF StreamStep

(***************************************************************************)
(* The dashboard cache.                                                    *)
(***************************************************************************)
\* No summary and no reader are well typed.
LEMMA NoReadFacts ==
  NoSummary \in CacheRow /\ NoSummary.row = "none" /\ NoRead \in ReadState /\ NoRead.pc = "idle"
BY TeamAssumption DEF NoSummary, CacheRow, NoRead, ReadState

\* What has been explained stays so.
LEMMA StaysExplained ==
  ASSUME Quiet, StaysUnfinished, NEW row, NEW t, Explained(row, t)
  PROVE  Explained(row, t)'
BY DEF Quiet, StaysUnfinished, Unfinished, Explained

\* Requests go on without touching the cache.
LEMMA CacheStays ==
  ASSUME CacheIInv, UNCHANGED cacheVars, Quiet, StaysUnfinished
  PROVE  CacheIInv'
BY StaysExplained DEF CacheIInv, cacheVars, CacheTypeOK, Explained, Quiet, StaysUnfinished, Unfinished

\* An invalidation takes the summary of its team away, if there is one, and marks
\* the readers that it overtakes.
LEMMA OvertakingStep ==
  ASSUME RequestsIInv, CacheIInv, NEW r \in Requests, logs' = logs, Goto(r, "emit"),
         read' = Overtaken(TeamOf[request[r].source], r), cache' \in [Teams -> CacheRow],
         cache'[TeamOf[request[r].source]].row # "set",
         \A t \in Teams : t # TeamOf[request[r].source] => cache'[t] = cache[t]
  PROVE  CacheIInv'
<1> DEFINE t == TeamOf[request[r].source]
<1>1. /\ \A x \in Requests : x # r => request'[x] = request[x]
      /\ \A e \in logs : e.request \in Requests /\ (e.request = r => Team(e) = t)
  <2>1. request \in [Requests -> RequestState] /\ "emit" \in RequestPc
    BY DEF RequestsIInv, RequestPc
  <2>2. \A x \in Requests : x # r => request'[x] = request[x]
    BY <2>1, GotoFacts
  <2>3. \A e \in logs : e.request \in Requests /\ (e.request = r => Team(e) = t)
    BY DEF RequestsIInv, LogsOfRequests, Entry, Team
  <2> QED BY <2>2, <2>3
<1>2. ASSUME NEW q \in ReadState
      PROVE  LET n == [q EXCEPT !.raced = @ \cup {r}]
             IN  /\ n \in ReadState /\ n.pc = q.pc /\ n.team = q.team /\ n.logs = q.logs
                 /\ n.raced = q.raced \cup {r}
  BY DEF ReadState
<1>3. ASSUME NEW d \in Readers
      PROVE  /\ read'[d] \in ReadState /\ read'[d].pc = read[d].pc /\ read'[d].team = read[d].team
             /\ read'[d].logs = read[d].logs /\ read[d].raced \subseteq read'[d].raced
             /\ read[d].pc = "set" /\ read[d].team = t => r \in read'[d].raced
  <2>1. PICK q \in ReadState : q = read[d]
    BY DEF CacheIInv, CacheTypeOK
  <2>2. read'[d] = IF q.pc = "set" /\ q.team = t THEN [q EXCEPT !.raced = @ \cup {r}] ELSE q
    BY <2>1 DEF Overtaken
  <2>3. CASE q.pc = "set" /\ q.team = t
    BY <1>2, <2>1, <2>2, <2>3
  <2>4. CASE ~(q.pc = "set" /\ q.team = t)
    BY <2>1, <2>2, <2>4
  <2> QED BY <2>3, <2>4
<1>4. read' \in [Readers -> ReadState]
  <2>1. read' = [d \in Readers |-> read'[d]]
    BY DEF Overtaken
  <2> QED BY <1>3, <2>1
<1>5. ASSUME NEW u \in Teams, cache'[u].row = "set" PROVE Explained(cache[u], u)' /\ cache'[u] = cache[u]
  <2>1. u # t /\ cache'[u] = cache[u]
    BY <1>5
  <2>2. Explained(cache[u], u)
    BY <1>5, <2>1 DEF CacheIInv
  <2> QED BY <1>1, <2>1, <2>2 DEF Explained
<1>6. ASSUME NEW d \in Readers, read'[d].pc = "set" PROVE Explained(read[d], read[d].team)'
  <2>1. Explained(read[d], read[d].team)
    BY <1>3, <1>6 DEF CacheIInv
  <2> QED BY <1>1, <1>3, <1>6, <2>1 DEF Explained
<1> QED BY <1>4, <1>5, <1>6 DEF CacheIInv, CacheTypeOK

\* The invalidation of a request, and what follows it.
LEMMA InvalidationSteps ==
  ASSUME RequestsIInv, CacheIInv, NEW r \in Requests, invalidateKeys(r) \/ invalidateDel(r) \/ publish(r)
  PROVE  CacheIInv'
<1> DEFINE t == TeamOf[request[r].source]
<1>0. /\ request \in [Requests -> RequestState] /\ cache \in [Teams -> CacheRow] /\ logs' = logs
      /\ \A e \in logs : e.request \in Requests
  BY FollowUpSteps DEF RequestsIInv, CacheIInv, CacheTypeOK, Entry
<1>1. t \in Teams
  BY <1>0, TeamAssumption DEF RequestState
<1>2. ASSUME NEW pc \in RequestPc, Goto(r, pc), UNCHANGED cacheVars,
             request[r].pc \in Unfinished => pc \in Unfinished
      PROVE  CacheIInv'
  <2>1. request'[r].pc = pc /\ \A x \in Requests : x # r => request'[x] = request[x]
    BY <1>0, <1>2, GotoFacts
  <2>2. UNCHANGED <<cache, read>>
    BY <1>2 DEF cacheVars
  <2>3. ASSUME NEW u \in Teams, cache'[u].row = "set" PROVE Explained(cache[u], u)'
    BY <1>0, <1>2, <2>1, <2>2, <2>3 DEF CacheIInv, Explained, Unfinished
  <2>4. ASSUME NEW d \in Readers, read'[d].pc = "set" PROVE Explained(read[d], read[d].team)'
    BY <1>0, <1>2, <2>1, <2>2, <2>4 DEF CacheIInv, Explained, Unfinished
  <2> QED BY <2>2, <2>3, <2>4 DEF CacheIInv, CacheTypeOK
<1>3. CASE invalidateKeys(r)
  <2>1. CASE Listed(t)
    BY <1>2, <1>3, <2>1 DEF invalidateKeys, RequestPc, Unfinished
  <2>2. CASE ~Listed(t)
    BY <1>0, <1>3, <2>2, OvertakingStep DEF invalidateKeys, NothingListed, Listed
  <2> QED BY <2>1, <2>2
<1>4. CASE invalidateDel(r)
  <2>1. /\ cache' \in [Teams -> CacheRow] /\ cache'[t].row # "set"
        /\ \A u \in Teams : u # t => cache'[u] = cache[u]
    BY <1>0, <1>1, <1>4, NoReadFacts DEF invalidateDel, Delete
  <2> QED BY <1>0, <1>4, <2>1, OvertakingStep DEF invalidateDel, Delete
<1>5. CASE publish(r)
  BY <1>2, <1>5 DEF publish, RequestPc, Answered, Unfinished
<1> QED BY <1>3, <1>4, <1>5

\* Readers of the dashboard.
LEMMA ReadStepKeeps ==
  ASSUME logs \subseteq Entry, CacheIInv, NEW d \in Readers, ReadStep(d)
  PROVE  CacheIInv'
<1>0. /\ read \in [Readers -> ReadState] /\ cache \in [Teams -> CacheRow] /\ UNCHANGED <<logs, request>>
      /\ read[d].team \in Teams /\ read[d].logs \in SUBSET Entry /\ read[d].raced \in SUBSET Requests
  BY DEF CacheIInv, CacheTypeOK, ReadStep, ReadState
<1>1. ASSUME NEW n \in ReadState, read' = [read EXCEPT ![d] = n], n.pc = "set" => Explained(n, n.team),
             \/ UNCHANGED cache
             \/ \E t \in Teams, row \in CacheRow : cache' = [cache EXCEPT ![t] = row] /\ Explained(row, t)
      PROVE  CacheIInv'
  <2>1. read' \in [Readers -> ReadState] /\ \A x \in Readers : read'[x] = IF x = d THEN n ELSE read[x]
    BY <1>0, <1>1
  <2>2. \A t \in Teams : cache'[t].row = "set" => Explained(cache'[t], t)
    BY <1>0, <1>1 DEF CacheIInv
  <2>3. \A x \in Readers : read'[x].pc = "set" => Explained(read'[x], read'[x].team)
    BY <1>1, <2>1 DEF CacheIInv
  <2>4. cache' \in [Teams -> CacheRow]
    BY <1>0, <1>1
  <2> QED BY <1>0, <2>1, <2>2, <2>3, <2>4 DEF CacheIInv, CacheTypeOK, Explained
<1>2. ASSUME NEW t \in Teams, getDashboardSummary(d, t) PROVE CacheIInv'
  <2>1. PICK n : n = [NoRead EXCEPT !.pc = "stats", !.team = t]
    OBVIOUS
  <2>2. n \in ReadState /\ n.pc = "stats"
    BY <2>1, NoReadFacts DEF ReadState
  <2> QED BY <1>1, <1>2, <2>1, <2>2 DEF getDashboardSummary
<1>3. CASE getStats(d, logs)
  <2>1. PICK n : n = [read[d] EXCEPT !.pc = "set", !.logs = {e \in logs : Team(e) = read[d].team}]
    OBVIOUS
  <2>2. /\ n \in ReadState /\ n.team = read[d].team /\ n.pc = "set"
        /\ n.logs = {e \in logs : Team(e) = read[d].team}
    BY <1>0, <2>1 DEF ReadState
  <2>3. Explained(n, n.team)
    BY <2>2 DEF Explained
  <2>4. read' = [read EXCEPT ![d] = n] /\ UNCHANGED cache
    BY <1>0, <1>3, <2>1 DEF getStats
  <2> QED BY <1>1, <2>2, <2>3, <2>4
<1>4. CASE setSummary(d)
  <2>1. PICK row : row = [row |-> "set", logs |-> read[d].logs, raced |-> read[d].raced]
    OBVIOUS
  <2>2. row \in CacheRow /\ row.logs = read[d].logs /\ row.raced = read[d].raced
    BY <1>0, <2>1 DEF CacheRow
  <2>3. Explained(row, read[d].team)
    BY <1>4, <2>2 DEF setSummary, CacheIInv, Explained
  <2> QED BY <1>0, <1>1, <1>4, <2>1, <2>2, <2>3, NoReadFacts DEF setSummary
<1>5. CASE readFails(d)
  BY <1>1, <1>5, NoReadFacts DEF readFails
<1> QED BY <1>2, <1>3, <1>4, <1>5 DEF ReadStep

\* Redis expires a summary.
LEMMA ExpiryKeeps ==
  ASSUME CacheIInv, NEW t \in Teams, Expiry(t)
  PROVE  CacheIInv'
<1>1. UNCHANGED <<logs, request, read>> /\ cache' = [cache EXCEPT ![t] = NoSummary]
  BY DEF Expiry, expireSummary
<1>2. cache' \in [Teams -> CacheRow] /\ \A u \in Teams : cache'[u] = IF u = t THEN NoSummary ELSE cache[u]
  BY <1>1, NoReadFacts DEF CacheIInv, CacheTypeOK
<1> QED BY <1>1, <1>2, NoReadFacts DEF CacheIInv, CacheTypeOK, Explained

\* The process dies with its readers.
LEMMA CacheAfterRestart ==
  ASSUME CacheIInv, Quiet, StaysUnfinished, UNCHANGED cache, read' = [d \in Readers |-> NoRead]
  PROVE  CacheIInv'
<1>1. ASSUME NEW u \in Teams, cache'[u].row = "set" PROVE Explained(cache[u], u)'
  BY <1>1 DEF CacheIInv, Explained, Quiet, StaysUnfinished, Unfinished
<1> QED BY <1>1, NoReadFacts DEF CacheIInv, CacheTypeOK

(***************************************************************************)
(* The counts of issues.                                                   *)
(***************************************************************************)
\* A request stores finitely many logs.
LEMMA AcceptedFinite ==
  ASSUME request \in [Requests -> RequestState], NEW r \in Requests
  PROVE  IsFiniteSet(Accepted(r))
<1> DEFINE f == [e \in Accepted(r) |-> e.item]
<1>1. \A e \in Accepted(r) : e.item \in Items /\ e = [item |-> e.item, source |-> request[r].source, request |-> r]
  BY DEF Accepted, RequestState
<1>2. f \in Injection(Accepted(r), Items)
  <2>1. f \in [Accepted(r) -> Items]
    BY <1>1
  <2>2. \A a, b \in Accepted(r) : f[a] = f[b] => a = b
    BY <1>1
  <2> QED BY <2>1, <2>2 DEF Injection, IsInjective
<1> QED BY <1>2, FS_Injection, ItemAssumption

\* What has been stored stays finite.
LEMMA LogsFinite ==
  ASSUME RequestsIInv, IsFiniteSet(logs), NEW r \in Requests,
         authenticateApiKey(r) \/ findSource(r) \/ insert(r) \/ ingestFails(r)
  PROVE  IsFiniteSet(logs')
<1>1. logs' = logs \/ logs' = logs \cup Accepted(r)
  BY DEF authenticateApiKey, findSource, insert, ingestFails
<1>2. IsFiniteSet(logs \cup Accepted(r))
  BY AcceptedFinite, FS_Union DEF RequestsIInv
<1> QED BY <1>1, <1>2

\* Parts of what is published can be counted.
LEMMA PublishedFinite ==
  ASSUME IsFiniteSet(logs), NEW t, NEW i, NEW S
  PROVE  IsFiniteSet(Published(t, i) \ S) /\ Cardinality(Published(t, i) \ S) \in Nat
<1>1. Published(t, i) \ S \in SUBSET logs
  BY DEF Published
<1>2. IsFiniteSet(Published(t, i) \ S)
  BY <1>1, FS_Subset
<1> QED BY <1>2, FS_CardinalityType

\* What has been published stays published, and nothing is added to it.
LEMMA PublishedStays ==
  ASSUME Quiet, NEW t, NEW i
  PROVE  Published(t, i)' = Published(t, i)
BY DEF Quiet, Published

\* Requests go on without publishing.
LEMMA IssuesStay ==
  ASSUME IssueIInv, Quiet, UNCHANGED issueVars, IsFiniteSet(logs')
  PROVE  IssueIInv'
<1>1. UNCHANGED <<issue, tracking, untracked>>
  BY DEF issueVars
<1>2. TrackedIsPublished'
  BY <1>1 DEF IssueIInv, TrackedIsPublished, Quiet
<1>3. IssuesCountPublished'
  BY <1>1, PublishedStays DEF IssueIInv, IssuesCountPublished
<1> QED BY <1>1, <1>2, <1>3 DEF IssueIInv, IssueTypeOK

\* A request publishes its entries: the errors among them are to be counted.
LEMMA IssuesAfterPublish ==
  ASSUME RequestsIInv, IssueIInv, NEW r \in Requests, publish(r)
  PROVE  IssueIInv'
<1>0. /\ request \in [Requests -> RequestState] /\ logs \subseteq Entry /\ logs' = logs /\ request[r].pc = "emit"
      /\ Goto(r, "acked") /\ "acked" \in RequestPc /\ UNCHANGED <<issue, untracked>>
      /\ tracking' = tracking \cup {e \in Accepted(r) : e.item \in ErrorItems}
  BY DEF RequestsIInv, publish, Track, RequestPc, Answered
<1>1. request'[r].pc = "acked" /\ \A x \in Requests : x # r => request'[x] = request[x]
  BY <1>0, GotoFacts
<1>2. Accepted(r) \subseteq logs
  BY <1>0 DEF RequestsIInv, AcceptedStored
<1>3. \A e \in logs : e.request \in Requests /\ (e.request = r <=> e \in Accepted(r))
  BY <1>0, AcceptedFacts DEF RequestsIInv, LogsOfRequests, Accepted, Entry
<1>4. TrackedIsPublished'
  BY <1>0, <1>1, <1>2, <1>3 DEF IssueIInv, TrackedIsPublished
<1>5. tracking' \subseteq Entry
  BY <1>0, <1>2 DEF IssueIInv, IssueTypeOK
<1>6. ASSUME NEW t \in Teams, NEW i \in ErrorItems
      PROVE  /\ Published(t, i)' \ (tracking \cup untracked)' = Published(t, i) \ (tracking \cup untracked)
             /\ Published(t, i)' \ tracking' = Published(t, i) \ tracking
  <2>1. \A e \in logs : e.request # r => (e \in tracking' <=> e \in tracking)
    BY <1>0, <1>3
  <2>2. \A e \in logs : e.request = r /\ e.item = i => e \in tracking'
    BY <1>0, <1>3
  <2>3. \A e : e \in Published(t, i) => e \in Published(t, i)' /\ e.request # r /\ e \in logs
    BY <1>0, <1>1, <1>3 DEF Published
  <2>4. \A e : e \in Published(t, i)' => e \in Published(t, i) \/ e \in tracking'
    BY <1>0, <1>1, <1>3, <2>2 DEF Published
  <2>5. Published(t, i)' \ tracking' = Published(t, i) \ tracking
    BY <1>0, <2>1, <2>3, <2>4
  <2> QED BY <1>0, <2>5
<1>7. IssuesCountPublished'
  BY <1>0, <1>6 DEF IssueIInv, IssuesCountPublished
<1> QED BY <1>0, <1>4, <1>5, <1>7 DEF IssueIInv, IssueTypeOK

\* What an upsert does to a row.
LEMMA UpsertFacts ==
  ASSUME NEW row \in IssueRow
  PROVE  Upsert(row) \in IssueRow /\ Upsert(row).eventCount = row.eventCount + 1
BY DEF Upsert, IssueRow, IssueStatus

\* One row of the issues changes.
LEMMA RowFacts ==
  ASSUME IssueTypeOK, NEW t \in Teams, NEW i \in Items, NEW row \in IssueRow, issue' = [issue EXCEPT ![t][i] = row]
  PROVE  /\ issue' \in [Teams -> [Items -> IssueRow]]
         /\ issue'[t][i] = row
         /\ \A u \in Teams, j \in Items : u # t \/ j # i => issue'[u][j] = issue[u][j]
BY DEF IssueTypeOK

\* An upsert is answered: the entry is counted, or was not confirmed.
LEMMA TrackKeeps ==
  ASSUME RequestsIInv, IssueIInv, NEW e \in tracking, trackError(e) \/ trackErrorFails(e), UNCHANGED <<logs, request>>
  PROVE  IssueIInv'
<1> DEFINE t == Team(e)
           i == e.item
<1>0. /\ e \in Entry /\ t \in Teams /\ i \in Items /\ i \in ErrorItems /\ e \in Published(t, i)
      /\ tracking' = tracking \ {e} /\ untracked' \in {untracked, untracked \cup {e}}
  <2>1. e \in Entry /\ e \in logs /\ i \in ErrorItems /\ request[e.request].pc = "acked"
    BY DEF IssueIInv, IssueTypeOK, TrackedIsPublished
  <2> QED BY <2>1, TeamAssumption DEF Entry, Team, Published, trackError, trackErrorFails
<1>1. /\ issue' \in [Teams -> [Items -> IssueRow]] /\ issue[t][i].eventCount \in Nat
      /\ \A u \in Teams, j \in Items : u # t \/ j # i => issue'[u][j] = issue[u][j]
      /\ \/ issue'[t][i].eventCount = issue[t][i].eventCount + 1
         \/ issue'[t][i].eventCount = issue[t][i].eventCount /\ untracked' = untracked \cup {e}
  <2>1. issue[t][i] \in IssueRow /\ issue \in [Teams -> [Items -> IssueRow]]
    BY <1>0 DEF IssueIInv, IssueTypeOK
  <2>2. issue[t][i].eventCount \in Nat
    BY <2>1 DEF IssueRow
  <2>3. CASE UNCHANGED issue /\ untracked' = untracked \cup {e}
    BY <2>1, <2>2, <2>3
  <2>4. CASE issue' = [issue EXCEPT ![t][i] = Upsert(issue[t][i])]
    <3>1. PICK row \in IssueRow : row = Upsert(issue[t][i]) /\ row.eventCount = issue[t][i].eventCount + 1
      BY <2>1, UpsertFacts
    <3> QED BY <1>0, <2>2, <2>4, <3>1, RowFacts DEF IssueIInv
  <2>5. \/ UNCHANGED issue /\ untracked' = untracked \cup {e}
        \/ issue' = [issue EXCEPT ![t][i] = Upsert(issue[t][i])]
    BY DEF trackError, trackErrorFails
  <2> QED BY <2>3, <2>4, <2>5
<1>2. \A u, j : Published(u, j)' = Published(u, j)
  BY DEF Published
<1>3. ASSUME NEW u \in Teams, NEW j \in ErrorItems
      PROVE  /\ Cardinality(Published(u, j)' \ (tracking \cup untracked)') <= issue'[u][j].eventCount
             /\ issue'[u][j].eventCount <= Cardinality(Published(u, j)' \ tracking')
  <2> DEFINE P == Published(u, j)
             A == P \ (tracking \cup untracked)
             B == P \ tracking
  <2>0. Cardinality(A) <= issue[u][j].eventCount /\ issue[u][j].eventCount <= Cardinality(B) /\ j \in Items
    BY ItemAssumption DEF IssueIInv, IssuesCountPublished
  <2>1. IsFiniteSet(A) /\ Cardinality(A) \in Nat /\ IsFiniteSet(B) /\ Cardinality(B) \in Nat
    BY PublishedFinite DEF IssueIInv
  <2>2. CASE u = t /\ j = i
    <3>1. P \ tracking' = B \cup {e} /\ e \notin B /\ e \notin A
      BY <1>0, <2>2
    <3>2. Cardinality(P \ tracking') = Cardinality(B) + 1
      BY <2>1, <3>1, FS_AddElement
    <3>3. P \ (tracking' \cup untracked') \in {A, A \cup {e}} /\ (untracked' = untracked \cup {e} => P \ (tracking' \cup untracked') = A)
      BY <1>0
    <3>4. Cardinality(A \cup {e}) = Cardinality(A) + 1
      BY <2>1, <3>1, FS_AddElement
    <3>5. \/ Cardinality(P \ (tracking' \cup untracked')) = Cardinality(A)
          \/ /\ Cardinality(P \ (tracking' \cup untracked')) = Cardinality(A) + 1
             /\ untracked' # untracked \cup {e}
      BY <3>3, <3>4
    <3>6. /\ issue[u][j].eventCount \in Nat
          /\ \/ issue'[u][j].eventCount = issue[u][j].eventCount + 1
             \/ issue'[u][j].eventCount = issue[u][j].eventCount /\ untracked' = untracked \cup {e}
      BY <1>1, <2>2
    <3>7. /\ Cardinality(P \ (tracking' \cup untracked')) <= issue'[u][j].eventCount
          /\ issue'[u][j].eventCount <= Cardinality(P \ tracking')
      <4> HIDE DEF A, B, P
      <4> QED BY <2>0, <2>1, <3>2, <3>5, <3>6
    <3> QED BY <1>2, <3>7
  <2>3. CASE ~(u = t /\ j = i)
    <3>1. e \notin P
      BY <2>3 DEF Published
    <3>2. P \ (tracking' \cup untracked') = A /\ P \ tracking' = B
      BY <1>0, <3>1
    <3> QED BY <1>1, <1>2, <2>0, <2>3, <3>2
  <2> QED BY <2>2, <2>3
<1>4. IssuesCountPublished'
  BY <1>3 DEF IssuesCountPublished
<1>5. TrackedIsPublished'
  BY <1>0 DEF IssueIInv, TrackedIsPublished
<1>6. tracking' \subseteq Entry /\ untracked' \subseteq Entry
  BY <1>0 DEF IssueIInv, IssueTypeOK
<1> QED BY <1>1, <1>4, <1>5, <1>6 DEF IssueIInv, IssueTypeOK

\* A member sets the status of an issue.
LEMMA StatusKeeps ==
  ASSUME IssueIInv, NEW t \in Teams, NEW i \in Items, NEW status \in IssueStatus, updateStatus(t, i, status),
         UNCHANGED <<logs, request>>
  PROVE  IssueIInv'
<1>1. issue[t][i] \in IssueRow
  BY DEF IssueIInv, IssueTypeOK
<1>2. PICK row : row = [issue[t][i] EXCEPT !.status = status]
  OBVIOUS
<1>3. row \in IssueRow /\ row.eventCount = issue[t][i].eventCount
  BY <1>1, <1>2 DEF IssueRow
<1>4. issue' = [issue EXCEPT ![t][i] = row] /\ UNCHANGED <<tracking, untracked>>
  BY <1>2 DEF updateStatus
<1>5. /\ issue' \in [Teams -> [Items -> IssueRow]]
      /\ \A u \in Teams, j \in Items : issue'[u][j].eventCount = issue[u][j].eventCount
  BY <1>3, <1>4, RowFacts DEF IssueIInv
<1>6. IssuesCountPublished'
  <2>1. \A u, j : Published(u, j)' = Published(u, j)
    BY DEF Published
  <2> QED BY <1>4, <1>5, <2>1, ItemAssumption DEF IssueIInv, IssuesCountPublished
<1> QED BY <1>4, <1>5, <1>6 DEF IssueIInv, IssueTypeOK, TrackedIsPublished

\* The process dies with upserts that were not answered.
LEMMA IssuesAfterRestart ==
  ASSUME IssueIInv, Quiet, logs' = logs, UNCHANGED issue, tracking' = {}, untracked' = untracked \cup tracking
  PROVE  IssueIInv'
<1>1. ASSUME NEW t \in Teams, NEW i \in ErrorItems
      PROVE  /\ Cardinality(Published(t, i)' \ (tracking \cup untracked)') <= issue'[t][i].eventCount
             /\ issue'[t][i].eventCount <= Cardinality(Published(t, i)' \ tracking')
  <2> DEFINE P == Published(t, i)
  <2>1. P' = P
    BY PublishedStays
  <2>2. P \ (tracking' \cup untracked') = P \ (tracking \cup untracked)
    OBVIOUS
  <2>3. /\ IsFiniteSet(P \ tracking') /\ Cardinality(P \ tracking') \in Nat /\ Cardinality(P \ tracking) \in Nat
    BY PublishedFinite DEF IssueIInv
  <2>4. Cardinality(P \ tracking) <= Cardinality(P \ tracking')
    <3>1. P \ tracking \in SUBSET (P \ tracking')
      OBVIOUS
    <3> QED BY <2>3, <3>1, FS_Subset
  <2>5. issue[t][i].eventCount \in Nat
    BY ItemAssumption DEF IssueIInv, IssueTypeOK, IssueRow
  <2> QED BY <2>1, <2>2, <2>3, <2>4, <2>5 DEF IssueIInv, IssuesCountPublished
<1> QED BY <1>1 DEF IssueIInv, IssueTypeOK, TrackedIsPublished, IssuesCountPublished

(***************************************************************************)
(* The whole.                                                              *)
(***************************************************************************)
\* Before the first step.
LEMMA InitKeeps == Init => IngestionIInv
<1> SUFFICES ASSUME Init PROVE IngestionIInv
  OBVIOUS
<1>1. RequestsIInv
  BY InitRequests
<1>2. StreamIInv
  BY NoStreamFacts DEF Init, StreamInit, StreamIInv, StreamTypeOK, OnlyOpenDelivered, StreamedIsStored
<1>3. CacheIInv
  BY NoReadFacts DEF Init, CacheInit, CacheIInv, CacheTypeOK
<1>4. IssueIInv
  <2>1. IssueTypeOK /\ TrackedIsPublished /\ logs = {} /\ tracking = {}
    BY DEF Init, IssueInit, IssueTypeOK, IssueRow, IssueStatus, TrackedIsPublished
  <2>2. ASSUME NEW t \in Teams, NEW i \in ErrorItems
        PROVE  /\ Cardinality(Published(t, i) \ (tracking \cup untracked)) <= issue[t][i].eventCount
               /\ issue[t][i].eventCount <= Cardinality(Published(t, i) \ tracking)
    <3>1. Published(t, i) \ (tracking \cup untracked) = {} /\ Published(t, i) \ tracking = {}
      BY <2>1 DEF Published
    <3>2. issue[t][i].eventCount = 0
      BY ItemAssumption DEF Init, IssueInit
    <3> QED BY <3>1, <3>2, FS_EmptySet
  <2> QED BY <2>1, <2>2, FS_EmptySet DEF IssueIInv, IssuesCountPublished
<1> QED BY <1>1, <1>2, <1>3, <1>4 DEF IngestionIInv

\* A step that changes neither the logs nor a request is quiet.
LEMMA StillIsQuiet == UNCHANGED <<logs, request>> => Quiet /\ StaysUnfinished
BY DEF Quiet, StaysUnfinished

\* A restart keeps all four parts.
LEMMA RestartKeeps ==
  ASSUME IngestionIInv, Restart
  PROVE  IngestionIInv'
<1>1. RequestsIInv' /\ Quiet /\ StaysUnfinished
  BY RestartStep DEF IngestionIInv
<1>2. StreamIInv'
  BY NoStreams DEF Restart
<1>3. CacheIInv'
  BY <1>1, CacheAfterRestart DEF Restart, IngestionIInv
<1>4. IssueIInv'
  BY <1>1, IssuesAfterRestart DEF Restart, IngestionIInv
<1> QED BY <1>1, <1>2, <1>3, <1>4 DEF IngestionIInv

\* The steps of a request.
LEMMA IngestKeeps ==
  ASSUME IngestionIInv, NEW r \in Requests, Ingest(r)
  PROVE  IngestionIInv'
<1> USE DEF IngestionIInv
<1>1. CASE authenticateApiKey(r) \/ findSource(r) \/ insert(r) \/ ingestFails(r)
  <2>1. RequestsIInv' /\ Quiet /\ StaysUnfinished
    BY <1>1, RequestSteps
  <2>2. UNCHANGED <<streamVars, cacheVars, issueVars>>
    BY <1>1 DEF authenticateApiKey, findSource, insert, ingestFails
  <2>3. IsFiniteSet(logs')
    BY <1>1, LogsFinite DEF IssueIInv
  <2>4. logs \subseteq logs'
    BY <2>1 DEF Quiet
  <2> QED BY <2>1, <2>2, <2>3, <2>4, StreamsStay, CacheStays, IssuesStay
<1>2. CASE invalidateKeys(r) \/ invalidateDel(r)
  <2>1. RequestsIInv' /\ logs' = logs
    BY <1>2, FollowUpSteps
  <2>2. CacheIInv'
    BY <1>2, InvalidationSteps
  <2>3. UNCHANGED <<streamVars, issueVars>>
    BY <1>2 DEF invalidateKeys, invalidateDel
  <2>4. Quiet
    <3>1. PICK pc \in {"del", "emit"} : Goto(r, pc) /\ request[r].pc \in {"keys", "del"}
      BY <1>2 DEF invalidateKeys, invalidateDel
    <3>2. request'[r].pc = pc /\ \A x \in Requests : x # r => request'[x] = request[x]
      BY <3>1, GotoFacts DEF RequestsIInv, RequestPc
    <3>3. \A e \in logs : e.request \in Requests
      BY DEF RequestsIInv, Entry
    <3> QED BY <2>1, <3>1, <3>2, <3>3 DEF Quiet
  <2>5. IsFiniteSet(logs')
    BY <2>1 DEF IssueIInv
  <2> QED BY <2>1, <2>2, <2>3, <2>4, <2>5, StreamsStay, IssuesStay
<1>3. CASE publish(r)
  <2>1. RequestsIInv' /\ logs' = logs
    BY <1>3, FollowUpSteps
  <2>2. CacheIInv' /\ IssueIInv'
    BY <1>3, InvalidationSteps, IssuesAfterPublish
  <2>3. Accepted(r) \subseteq logs /\ Accepted(r) \in SUBSET Entry
    BY <1>3 DEF publish, RequestsIInv, AcceptedStored
  <2>4. PICK entries \in SUBSET Entry : entries = Accepted(r)
    BY <2>3
  <2>5. StreamIInv'
    BY <1>3, <2>1, <2>3, <2>4, EmitStep DEF publish
  <2> QED BY <2>1, <2>2, <2>5
<1>4. CASE keyLookupRejects(r)
  BY <1>4, RestartKeeps DEF keyLookupRejects
<1> QED BY <1>1, <1>2, <1>3, <1>4 DEF Ingest

\* Every step keeps all four parts.
LEMMA NextKeeps == IngestionIInv /\ [Next]_vars => IngestionIInv'
<1> SUFFICES ASSUME IngestionIInv, [Next]_vars PROVE IngestionIInv'
  OBVIOUS
<1> USE DEF IngestionIInv
<1>0. ASSUME UNCHANGED <<logs, request>>
      PROVE  /\ UNCHANGED streamVars => StreamIInv'
             /\ UNCHANGED cacheVars => CacheIInv'
             /\ UNCHANGED issueVars => IssueIInv'
             /\ UNCHANGED <<apiKey, issued>> => RequestsIInv'
  <2>1. Quiet /\ StaysUnfinished /\ logs \subseteq logs'
    BY <1>0, StillIsQuiet
  <2>2. IsFiniteSet(logs')
    BY <1>0 DEF IssueIInv
  <2>3. UNCHANGED <<apiKey, issued>> => RequestsIInv'
    BY <1>0 DEF RequestsIInv, KeysIssued, RequestsAuthed, LogsOfRequests, AcceptedStored, Accepted, NoForgedLogs
  <2> QED BY <2>1, <2>2, <2>3, StreamsStay, CacheStays, IssuesStay
<1>1. ASSUME NEW s \in Sources, SourceStep(s) PROVE IngestionIInv'
  <2>1. RequestsIInv' /\ UNCHANGED <<logs, request>>
    BY <1>1, SourceStepKeeps
  <2>2. UNCHANGED <<streamVars, cacheVars, issueVars>>
    BY <1>1 DEF SourceStep, createSource, rotateSourceKey, deleteSource, Issue
  <2> QED BY <1>0, <2>1, <2>2
<1>2. ASSUME NEW r \in Requests, NEW s \in Sources, NEW k \in Keys, NEW items \in (SUBSET Items) \ {{}},
             post(r, s, k, items)
      PROVE  IngestionIInv'
  <2>1. RequestsIInv' /\ Quiet /\ StaysUnfinished
    BY <1>2, PostStep
  <2>2. UNCHANGED <<streamVars, cacheVars, issueVars>> /\ logs' = logs
    BY <1>2 DEF post
  <2>3. IsFiniteSet(logs')
    BY <2>2 DEF IssueIInv
  <2> QED BY <2>1, <2>2, <2>3, StreamsStay, CacheStays, IssuesStay
<1>3. ASSUME NEW r \in Requests, Ingest(r) PROVE IngestionIInv'
  BY <1>3, IngestKeeps
<1>4. ASSUME NEW c \in Conns, StreamStep(c) PROVE IngestionIInv'
  BY <1>0, <1>4, StreamStepKeeps DEF StreamStep
<1>5. ASSUME NEW d \in Readers, ReadStep(d) PROVE IngestionIInv'
  <2>1. CacheIInv'
    BY <1>5, ReadStepKeeps DEF RequestsIInv
  <2> QED BY <1>0, <1>5, <2>1 DEF ReadStep
<1>6. ASSUME NEW t \in Teams, Expiry(t) PROVE IngestionIInv'
  BY <1>0, <1>6, ExpiryKeeps DEF Expiry
<1>7. CASE IssueStep
  <2>1. IssueIInv'
    BY <1>7, TrackKeeps, StatusKeeps DEF IssueStep
  <2> QED BY <1>0, <1>7, <2>1 DEF IssueStep
<1>8. CASE crash
  BY <1>8, RestartKeeps DEF crash
<1>9. CASE UNCHANGED vars
  BY <1>0, <1>9 DEF vars
<1> QED BY <1>1, <1>2, <1>3, <1>4, <1>5, <1>6, <1>7, <1>8, <1>9 DEF Next

\* The four parts hold of ingestion always (IngestionService.ingest, the source
\* methods of TeamService, the live tail, CacheService and IssueService).
THEOREM IngestionInvariance == Spec => []IngestionIInv
BY InitKeeps, NextKeeps, PTL DEF Spec

\* A stored log came with a key of its source and belongs to the source's team,
\* whatever is rotated, deleted or rejected while its request is under way
\* (authenticateApiKey, ingest).
THEOREM TenantsTheorem == Spec => []TenantsInv
<1>1. IngestionIInv => TenantsInv
  BY DEF IngestionIInv, RequestsIInv, StreamIInv, CacheIInv, IssueIInv, TenantsInv, TypeOK
<1> QED BY <1>1, IngestionInvariance, PTL

\* The live tail shows stored logs of its own team only (streamLogs, publish of
\* ingest).
THEOREM StreamedTheorem == Spec => []StreamedIsStored
<1>1. IngestionIInv => StreamedIsStored
  BY DEF IngestionIInv, StreamIInv
<1> QED BY <1>1, IngestionInvariance, PTL

\* An acknowledged log is missing from the cached summary only by the race between
\* a reader that had counted and the invalidation (getDashboardSummary, invalidate).
THEOREM StaleTheorem == Spec => []StaleOnlyByRace
<1>1. IngestionIInv => StaleOnlyByRace
  <2> SUFFICES ASSUME IngestionIInv, NEW e \in logs, request[e.request].pc = "acked",
                      cache[Team(e)].row = "set", e \notin cache[Team(e)].logs
               PROVE  e.request \in cache[Team(e)].raced
    BY DEF StaleOnlyByRace
  <2>1. Team(e) \in Teams
    BY TeamAssumption DEF IngestionIInv, RequestsIInv, Entry, Team
  <2> QED BY <2>1 DEF IngestionIInv, CacheIInv, Explained
<1> QED BY <1>1, IngestionInvariance, PTL

\* eventCount counts every published error whose upsert was confirmed and none that
\* was not published (trackError, publish of ingest).
THEOREM IssuesTheorem == Spec => []IssuesCountPublished
<1>1. IngestionIInv => IssuesCountPublished
  BY DEF IngestionIInv, IssueIInv
<1> QED BY <1>1, IngestionInvariance, PTL
=============================================================================
