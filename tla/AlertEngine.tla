---------------------------- MODULE AlertEngine -----------------------------
(***************************************************************************)
(* One backend process: the alert API and the evaluation worker over the   *)
(* same rows, with the process itself starting, shutting down and dying    *)
(* (server.ts).  The rows survive the process; the timer, the running      *)
(* flag, the loop's snapshot and the requests in flight do not.            *)
(***************************************************************************)
EXTENDS AlertService, AlertWorker

VARIABLE up   \* the process is listening

vars == <<storeVars, serviceVars, workerVars, up>>

Init == StoreInit /\ ServiceInit /\ WorkerInit /\ up = FALSE

\* The rows, the requests and the loop of the worker have their types.
TypeOK == StoreTypeOK /\ ServiceTypeOK /\ WorkerTypeOK /\ up \in BOOLEAN

-----------------------------------------------------------------------------
Clock == Tick /\ UNCHANGED <<serviceVars, workerVars, up>>

Api == up /\ ServiceNext /\ UNCHANGED <<workerVars, up>>

Interval == \E a \in Activations : interval(a) /\ UNCHANGED <<serviceVars, up>>

Evaluation(a) == WorkerStep(a) /\ UNCHANGED <<serviceVars, up>>

\* listen's callback starts the worker, whose first evaluation is immediate.
Start == /\ ~up
         /\ up' = TRUE
         /\ \E a \in Activations : start(a)
         /\ UNCHANGED serviceVars

\* SIGTERM: the worker's timer is cleared; requests in flight still finish.
Shutdown == up /\ stop /\ UNCHANGED <<serviceVars, up>>

\* The process ends, after a shutdown or without one, between any two awaits.
\* A statement in flight has been committed or not, so no row changes here.
Exit == /\ up
        /\ up' = FALSE
        /\ timer' = FALSE
        /\ running' = FALSE
        /\ run' = [a \in Activations |-> Inactive]
        /\ request' = [q \in Requests |-> Idle]
        /\ UNCHANGED storeVars

Next == \/ Clock
        \/ Api
        \/ Interval
        \/ \E a \in Activations : Evaluation(a)
        \/ Start
        \/ Shutdown
        \/ Exit

Spec == Init /\ [][Next]_vars

(***************************************************************************)
(* The container's restart policy starts the process again, the interval   *)
(* keeps firing and every await settles.  For liveness of the alerts       *)
(* themselves the database and ClickHouse must also not reject for ever.   *)
(***************************************************************************)
Scheduling == /\ WF_vars(Start)
              /\ WF_vars(Interval)
              /\ \A a \in Activations : WF_vars(Evaluation(a))

\* A query that keeps being sent for rule r is answered some time.
Answered(a, r, step) == run[a].current = r /\ step /\ UNCHANGED <<serviceVars, up>>

StoresAnswer ==
  \A a \in Activations :
    /\ SF_vars(loadRules(a) /\ UNCHANGED <<serviceVars, up>>)
    /\ \A r \in Rules :
         /\ SF_vars(Answered(a, r, checkWindow(a)))
         /\ SF_vars(Answered(a, r, checkOpen(a)))
         /\ SF_vars(Answered(a, r, \E n \in Counts : queryLogCount(a, n)))
         /\ SF_vars(Answered(a, r, \E n \in Counts : queryPreviousCount(a, n)))
         /\ SF_vars(Answered(a, r, createIncident(a)))

FairSpec == Spec /\ Scheduling

-----------------------------------------------------------------------------
\* The status a timeline leads to, and the status its k-th entry found.
StatusAfter(t) == IF t = << >> THEN "OPEN" ELSE Target[t[Len(t)]]
StatusBefore(t, k) == IF k = 1 THEN "OPEN" ELSE Target[t[k - 1]]

(***************************************************************************)
(* The timeline of an incident is its history: replayed from OPEN, every   *)
(* entry is an action INCIDENT_TRANSITIONS allows from the status the      *)
(* entries before it lead to, and the row's status is the one the last     *)
(* entry leads to.  Two requests that read the same status and then both   *)
(* write are what would break it (transitionIncident).                     *)
(***************************************************************************)
TimelineIsHistory ==
  \A i \in Incidents :
    Live(i) => /\ incident[i].status = StatusAfter(timeline[i])
               /\ \A k \in 1..Len(timeline[i]) :
                     StatusBefore(timeline[i], k) \in AllowedFrom[timeline[i][k]]

\* An incident that is OPEN since the worker created it or since somebody
\* acknowledged it: no reopen is in its timeline.
NeverReopened(i) == \A k \in 1..Len(timeline[i]) : timeline[i][k] # "REOPENED"

(***************************************************************************)
(* Deduplication: the worker alone never leaves a rule with two OPEN       *)
(* incidents; of any two, one came back by a reopen.  The lookup and the   *)
(* create are separate statements without a lock or a unique constraint,   *)
(* so this rests on `running` keeping evaluations from overlapping.        *)
(***************************************************************************)
OneUnreopenedOpen ==
  \A i, j \in Incidents :
    /\ incident[i].status = "OPEN" /\ incident[j].status = "OPEN"
    /\ incident[i].rule = incident[j].rule
    /\ NeverReopened(i) /\ NeverReopened(j)
    => i = j

(***************************************************************************)
(* No orphan: an incident or a timeline entry exists only under a rule     *)
(* that exists.  deleteRule races the loop, which still holds the deleted  *)
(* rule's row and may be about to create an incident for it.               *)
(***************************************************************************)
NoOrphans ==
  \A i \in Incidents :
    /\ Live(i) => rule[incident[i].rule].row = "live"
    /\ timeline[i] # << >> => Live(i)

(***************************************************************************)
(* The inductive invariant behind the three above.  A request about to     *)
(* commit read a status its action may start from.  At most one evaluation *)
(* is under way, and then `running` is set.  Once an evaluation has looked *)
(* for OPEN incidents of its rule and found none, the ones that appear are *)
(* reopened ones.                                                          *)
(***************************************************************************)
RequestsAllowed ==
  \A q \in Requests : request[q].pc = "commit" => request[q].current \in AllowedFrom[request[q].action]

OneEvaluation ==
  \A a \in Activations : run[a].pc # "idle" => running /\ \A b \in Activations : run[b].pc # "idle" => a = b

LookupHolds ==
  \A a \in Activations, j \in Incidents :
    /\ run[a].pc \in {"count", "prev", "create"}
    /\ incident[j].rule = run[a].current
    /\ incident[j].status = "OPEN"
    => ~NeverReopened(j)

IInv == /\ TypeOK /\ RequestsAllowed /\ OneEvaluation
        /\ NoOrphans /\ TimelineIsHistory /\ LookupHolds /\ OneUnreopenedOpen

\* The incidents and timelines are those of the abstract lifecycle; rules,
\* requests, the worker and the clock have no counterpart there.
Lifecycle == INSTANCE IncidentLifecycle
               WITH Rules <- Rules, Incidents <- Incidents, incident <- incident, timeline <- timeline

(***************************************************************************)
(* The API and the worker together implement the incident lifecycle: what  *)
(* takes them several statements looks like one atomic step of the state   *)
(* diagram, whatever they interleave with.                                 *)
(***************************************************************************)
ImplementsLifecycle == Lifecycle!Spec

(***************************************************************************)
(* Every evaluation comes to its end, with `running` cleared: an error of  *)
(* one rule or of the load never leaves the flag set, which would silence  *)
(* all alerting until the next restart.                                    *)
(***************************************************************************)
EvaluationEnds == running ~> ~running

\* The rule would open an incident whatever the counts are.
Breaching(r) == /\ rule[r].row = "live" /\ rule[r].enabled
                /\ rule[r].spec.condition # "ANOMALY_DETECTED"
                /\ ~Muted(rule[r], clock)
                /\ ActiveWindows(TeamOf[r], clock) = {}
                /\ \A m, n \in Counts : Triggered(rule[r].spec, m, n)

(***************************************************************************)
(* A rule that stays breached, unmuted and outside every window while the  *)
(* process keeps evaluating has an OPEN incident again and again if the    *)
(* stores answer some time: a rejected query only postpones it, and an     *)
(* incident acknowledged or resolved meanwhile does not end the alert.     *)
(***************************************************************************)
BreachedRuleOpens ==
  StoresAnswer => \A r \in Rules : <>[](up /\ timer /\ Breaching(r) /\ FreshIds # {})
                                     => []<>(OpenIncidents(r) # {})
=============================================================================
