----------------------------- MODULE LiveStream -----------------------------
(***************************************************************************)
(* The live tail: StreamingService (services/streaming/                    *)
(* streaming-service.ts) and GET /stream/logs of api/rest/router.ts.       *)
(*                                                                         *)
(* The route awaits the session and the membership before it subscribes,   *)
(* and listens for the client's close only after that.                     *)
(***************************************************************************)
EXTENDS LogEntries

CONSTANTS Conns,   \* connections
          Filters  \* the sets of items that query parameters may select

ASSUME FilterAssumption == Filters \subseteq SUBSET Items

VARIABLES stream,   \* the handler of each connection
          delivered \* the entries written to it

streamVars == <<stream, delivered>>

StreamState == [pc : {"none", "auth", "open"}, team : Teams, filter : SUBSET Items, gone : BOOLEAN]

NoStream == [pc |-> "none", team |-> CHOOSE t \in Teams : TRUE, filter |-> {}, gone |-> FALSE]

StreamTypeOK == /\ stream \in [Conns -> StreamState]
                /\ delivered \in [Conns -> SUBSET Entry]

StreamInit == /\ stream = [c \in Conns |-> NoStream]
              /\ delivered = [c \in Conns |-> {}]

streamLogs(c, t, filter) ==
  /\ stream[c].pc = "none"
  /\ stream' = [stream EXCEPT ![c] = [pc |-> "auth", team |-> t, filter |-> filter, gone |-> FALSE]]
  /\ UNCHANGED delivered

\* requireStreamAuth or requireTeamRole answers 401 or 403.
streamRefused(c) ==
  /\ stream[c].pc = "auth"
  /\ stream' = [stream EXCEPT ![c] = NoStream]
  /\ UNCHANGED delivered

\* subscribe() and the registration of the close listener.
subscribe(c) ==
  /\ stream[c].pc = "auth"
  /\ stream' = [stream EXCEPT ![c].pc = "open"]
  /\ UNCHANGED delivered

\* The client goes away.  The close event unsubscribes an open stream, and
\* finds no listener while the gates are still being awaited.
closeStream(c) ==
  /\ stream[c].pc # "none" /\ ~stream[c].gone
  /\ IF stream[c].pc = "open"
       THEN /\ stream' = [stream EXCEPT ![c] = NoStream]
            /\ delivered' = [delivered EXCEPT ![c] = {}]
       ELSE /\ stream' = [stream EXCEPT ![c].gone = TRUE]
            /\ UNCHANGED delivered

\* onLog(): variant that forgets the team.
MatchesFilter(c, e) == stream[c].pc = "open" /\ e.item \in stream[c].filter

Listens(c, e) == stream[c].pc = "open" /\ Team(e) = stream[c].team /\ e.item \in stream[c].filter

\* events.emit("log:new") for each of the entries.
Emit(entries) ==
  delivered' = [c \in Conns |-> delivered[c] \cup {e \in entries : Listens(c, e)}]
=============================================================================
