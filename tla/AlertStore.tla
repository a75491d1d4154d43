----------------------------- MODULE AlertStore -----------------------------
(***************************************************************************)
(* The Postgres rows alerting is built on (backend/prisma/schema.prisma):  *)
(* AlertRule, MaintenanceWindow, AlertIncident and IncidentEvent, and the  *)
(* wall clock that mutes and maintenance windows are compared with.  The   *)
(* alert API (AlertService) and the evaluation loop                        *)
(* (AlertEvaluationWorker) share these rows and nothing else.              *)
(*                                                                         *)
(* Row ids are generated and never reused, so a deleted rule or incident   *)
(* keeps its place here as a tombstone.  An incident's timeline is the     *)
(* sequence of the actions of its IncidentEvent rows in creation order.    *)
(***************************************************************************)
EXTENDS Integers, Sequences, FiniteSets

CONSTANTS Rules,      \* ids of AlertRule rows
          Teams,      \* ids of Team rows
          TeamOf,     \* the team of a rule: no code ever moves a rule
          Windows,    \* ids of MaintenanceWindow rows
          Incidents,  \* ids of AlertIncident rows
          Specs,      \* what a rule may ask: records [condition, threshold]
          MaxClock    \* bound on the wall clock

Condition == {"GREATER_THAN", "LESS_THAN", "EQUALS", "CHANGES_BY", "ANOMALY_DETECTED"}

ASSUME ClockAssumption == MaxClock \in Nat
ASSUME TeamAssumption  == TeamOf \in [Rules -> Teams]
ASSUME RuleAssumption  == Rules # {}
ASSUME SpecAssumption  == Specs # {} /\ Specs \subseteq [condition : Condition, threshold : Nat]

VARIABLES clock,     \* the wall clock, from 1
          rule,      \* AlertRule rows by id
          window,    \* MaintenanceWindow rows by id
          incident,  \* AlertIncident rows by id
          timeline   \* IncidentEvent actions by incident id

storeVars == <<clock, rule, window, incident, timeline>>

(***************************************************************************)
(* Column types.  Time 0 stands for a NULL muteUntil: no clock reads it.   *)
(***************************************************************************)
Time    == Nat
NotMuted == 0

RuleRow == [row : {"unborn", "live", "deleted"}, enabled : BOOLEAN,
            spec : Specs, muteUntil : Time]

WindowRow == [live : BOOLEAN, team : Teams, startsAt : Time, endsAt : Time]

IncidentStatus == {"OPEN", "ACKNOWLEDGED", "RESOLVED"}

IncidentRow == [status : IncidentStatus \cup {"unborn", "deleted"}, rule : Rules]

IncidentAction == {"ACKNOWLEDGED", "RESOLVED", "REOPENED"}

StoreTypeOK ==
  /\ clock \in Time
  /\ rule \in [Rules -> RuleRow]
  /\ window \in [Windows -> WindowRow]
  /\ incident \in [Incidents -> IncidentRow]
  /\ timeline \in [Incidents -> Seq(IncidentAction)]

(***************************************************************************)
(* Queries that the code sends to the database.                            *)
(***************************************************************************)
Live(i) == incident[i].status \in IncidentStatus

OpenIncidents(r) == {i \in Incidents : incident[i].rule = r /\ incident[i].status = "OPEN"}

ActiveWindows(t, at) ==
  {w \in Windows : /\ window[w].live
                   /\ window[w].team = t
                   /\ window[w].startsAt <= at
                   /\ at <= window[w].endsAt}

Muted(row, now) == row.muteUntil # NotMuted /\ row.muteUntil > now

(***************************************************************************)
(* A fresh database, but for rules written before the API refused the      *)
(* reserved condition ANOMALY_DETECTED.                                    *)
(***************************************************************************)
AnyRule == CHOOSE r \in Rules : TRUE
AnyTeam == CHOOSE t \in Teams : TRUE
AnySpec == CHOOSE s \in Specs : TRUE

UnbornRule     == [row |-> "unborn", enabled |-> FALSE, spec |-> AnySpec, muteUntil |-> NotMuted]
UnbornWindow   == [live |-> FALSE, team |-> AnyTeam, startsAt |-> 0, endsAt |-> 0]
UnbornIncident == [status |-> "unborn", rule |-> AnyRule]

Reserved == {s \in Specs : s.condition = "ANOMALY_DETECTED"}

LegacyRules == {[row |-> "live", enabled |-> TRUE, spec |-> s, muteUntil |-> NotMuted] : s \in Reserved}

StoreInit ==
  /\ clock = 1
  /\ rule \in [Rules -> {UnbornRule} \cup LegacyRules]
  /\ window = [w \in Windows |-> UnbornWindow]
  /\ incident = [i \in Incidents |-> UnbornIncident]
  /\ timeline = [i \in Incidents |-> << >>]

Tick == /\ clock < MaxClock
        /\ clock' = clock + 1
        /\ UNCHANGED <<rule, window, incident, timeline>>
=============================================================================
