---------------------------- MODULE AlertService ----------------------------
(***************************************************************************)
(* The alert API: AlertService (services/alert/alert-service.ts) and the   *)
(* rule, mute and maintenance-window routes of api/rest/router.ts.         *)
(*                                                                         *)
(* Every rule and window route is one database statement or transaction,   *)
(* so it is one action; a route that matches no row answers 404 and        *)
(* changes nothing, which is a stuttering step and is not written.  An     *)
(* incident transition has an await between the read of the status and     *)
(* the transaction that depends on it, so it takes two actions and the     *)
(* handlers of several requests interleave there.                          *)
(***************************************************************************)
EXTENDS AlertStore

CONSTANTS Requests,   \* concurrent transition requests
          Durations,  \* mute durations a request may ask for
          MaxEvents   \* bound on an incident's timeline

ASSUME DurationAssumption == Durations \subseteq Nat \ {0}
ASSUME IncidentAssumption == Incidents # {}
ASSUME EventAssumption == MaxEvents \in Nat

VARIABLE request      \* the transition each request is in the middle of

serviceVars == <<request>>

(***************************************************************************)
(* INCIDENT_TRANSITIONS, and the status each action moves the incident to. *)
(***************************************************************************)
\* Variant that lets a resolved incident be resolved again.
ResolveAnything == [a \in IncidentAction |->
                      CASE a = "ACKNOWLEDGED" -> {"OPEN"}
                        [] a = "RESOLVED"     -> IncidentStatus
                        [] a = "REOPENED"     -> {"RESOLVED", "ACKNOWLEDGED"}]

AllowedFrom == [a \in IncidentAction |->
                  CASE a = "ACKNOWLEDGED" -> {"OPEN"}
                    [] a = "RESOLVED"     -> {"OPEN", "ACKNOWLEDGED"}
                    [] a = "REOPENED"     -> {"RESOLVED", "ACKNOWLEDGED"}]

\* Variant that stores the event's name as the status.
TargetIsEvent == [a \in IncidentAction |-> a]

Target == [a \in IncidentAction |-> IF a = "REOPENED" THEN "OPEN" ELSE a]

RequestState == [pc : {"idle", "commit"}, action : IncidentAction,
                 incident : Incidents, current : IncidentStatus]

AnyIncident == CHOOSE i \in Incidents : TRUE

Idle == [pc |-> "idle", action |-> "RESOLVED", incident |-> AnyIncident, current |-> "OPEN"]

ServiceTypeOK == request \in [Requests -> RequestState]

ServiceInit == request = [q \in Requests |-> Idle]

(***************************************************************************)
(* Rules.  An update may carry any subset of the fields; the ones it does  *)
(* not carry keep their value, which is the case of equal arguments here.  *)
(***************************************************************************)
createRule(r, spec, enabled) ==
  /\ rule[r].row = "unborn"
  /\ spec \notin Reserved
  /\ rule' = [rule EXCEPT ![r] = [row |-> "live", enabled |-> enabled,
                                  spec |-> spec, muteUntil |-> NotMuted]]
  /\ UNCHANGED <<clock, window, incident, timeline, request>>

updateRule(r, spec, enabled) ==
  /\ rule[r].row = "live"
  /\ spec \in Reserved => rule[r].spec \in Reserved
  /\ rule' = [rule EXCEPT ![r].spec = spec, ![r].enabled = enabled]
  /\ UNCHANGED <<clock, window, incident, timeline, request>>

\* The row goes, and the schema's cascades take its incidents and their events.
deleteRule(r) ==
  /\ rule[r].row = "live"
  /\ rule' = [rule EXCEPT ![r] = [UnbornRule EXCEPT !.row = "deleted"]]
  /\ incident' = [i \in Incidents |-> IF Live(i) /\ incident[i].rule = r
                                        THEN [incident[i] EXCEPT !.status = "deleted"]
                                        ELSE incident[i]]
  /\ timeline' = [i \in Incidents |-> IF incident[i].rule = r THEN << >> ELSE timeline[i]]
  /\ UNCHANGED <<clock, window, request>>

muteRule(r, duration) ==
  /\ rule[r].row = "live"
  /\ rule' = [rule EXCEPT ![r].muteUntil = clock + duration]
  /\ UNCHANGED <<clock, window, incident, timeline, request>>

unmuteRule(r) ==
  /\ rule[r].row = "live"
  /\ rule' = [rule EXCEPT ![r].muteUntil = NotMuted]
  /\ UNCHANGED <<clock, window, incident, timeline, request>>

(***************************************************************************)
(* Maintenance windows.  Nothing checks that endsAt is after startsAt.     *)
(***************************************************************************)
createWindow(w, t, startsAt, endsAt) ==
  /\ ~window[w].live
  /\ window' = [window EXCEPT ![w] = [live |-> TRUE, team |-> t,
                                      startsAt |-> startsAt, endsAt |-> endsAt]]
  /\ UNCHANGED <<clock, rule, incident, timeline, request>>

deleteWindow(w) ==
  /\ window[w].live
  /\ window' = [window EXCEPT ![w] = UnbornWindow]
  /\ UNCHANGED <<clock, rule, incident, timeline, request>>

(***************************************************************************)
(* transitionIncident.  assertIncidentInTeam reads the status; one that    *)
(* the action does not start from is answered 409 and nothing is written.  *)
(* The transaction then repeats the status in its where clause: it updates *)
(* the row and inserts the event together, or matches no row and rolls     *)
(* back with 409.                                                          *)
(***************************************************************************)
assertIncidentInTeam(q, action, i) ==
  /\ request[q].pc = "idle"
  /\ Live(i)
  /\ incident[i].status \in AllowedFrom[action]
  /\ Len(timeline[i]) < MaxEvents
  /\ request' = [request EXCEPT ![q] = [pc |-> "commit", action |-> action,
                                        incident |-> i, current |-> incident[i].status]]
  /\ UNCHANGED storeVars

\* Variant of the update with the id alone in its where clause.
RowExists(req) == Live(req.incident)

\* The where clause of the update: the row is still there, in the status read.
StatusUnchanged(req) == incident[req.incident].status = req.current

transitionIncident(q) ==
  LET req == request[q]
      i == req.incident
  IN  /\ req.pc = "commit"
      /\ IF StatusUnchanged(req)
           THEN /\ incident' = [incident EXCEPT ![i].status = Target[req.action]]
                /\ timeline' = [timeline EXCEPT ![i] = Append(@, req.action)]
           ELSE UNCHANGED <<incident, timeline>>
      /\ request' = [request EXCEPT ![q] = Idle]
      /\ UNCHANGED <<clock, rule, window>>

RuleStep ==
  \/ \E r \in Rules, spec \in Specs, enabled \in BOOLEAN :
        createRule(r, spec, enabled) \/ updateRule(r, spec, enabled)
  \/ \E r \in Rules : deleteRule(r) \/ unmuteRule(r)
  \/ \E r \in Rules, d \in Durations : muteRule(r, d)

WindowStep ==
  \/ \E w \in Windows, t \in Teams, s \in 1..MaxClock, e \in 1..MaxClock : createWindow(w, t, s, e)
  \/ \E w \in Windows : deleteWindow(w)

IncidentStep ==
  \/ \E q \in Requests, action \in IncidentAction, i \in Incidents : assertIncidentInTeam(q, action, i)
  \/ \E q \in Requests : transitionIncident(q)

ServiceNext == RuleStep \/ WindowStep \/ IncidentStep
=============================================================================
