-------------------------- MODULE IncidentLifecycle --------------------------
(***************************************************************************)
(* What alerting promises about incidents, without the loop, the requests  *)
(* or the clock: the state diagram of docs/architecture.md as atomic       *)
(* steps.  An incident opens only while its rule has no OPEN incident that *)
(* nobody has ever acted on with a reopen; an action moves it along an     *)
(* edge of the diagram and is the next entry of its timeline; a rule takes *)
(* its incidents with it, all at once.                                     *)
(***************************************************************************)
EXTENDS Naturals, Sequences

CONSTANTS Rules, Incidents

VARIABLES incident, timeline

Status == {"OPEN", "ACKNOWLEDGED", "RESOLVED"}

Edge == { <<"OPEN", "ACKNOWLEDGED", "ACKNOWLEDGED">>,
          <<"OPEN", "RESOLVED", "RESOLVED">>,
          <<"ACKNOWLEDGED", "RESOLVED", "RESOLVED">>,
          <<"ACKNOWLEDGED", "REOPENED", "OPEN">>,
          <<"RESOLVED", "REOPENED", "OPEN">> }

NeverReopened(i) == \A k \in 1..Len(timeline[i]) : timeline[i][k] # "REOPENED"

Init == /\ \E r \in Rules : incident = [i \in Incidents |-> [status |-> "unborn", rule |-> r]]
        /\ timeline = [i \in Incidents |-> << >>]

Open(i, r) ==
  /\ incident[i].status = "unborn"
  /\ ~ \E j \in Incidents : /\ incident[j].rule = r
                            /\ incident[j].status = "OPEN"
                            /\ NeverReopened(j)
  /\ incident' = [incident EXCEPT ![i] = [status |-> "OPEN", rule |-> r]]
  /\ UNCHANGED timeline

Act(i, e) ==
  /\ incident[i].status = e[1]
  /\ incident' = [incident EXCEPT ![i].status = e[3]]
  /\ timeline' = [timeline EXCEPT ![i] = Append(@, e[2])]

DeleteRule(r) ==
  /\ incident' = [i \in Incidents |->
                    IF incident[i].rule = r /\ incident[i].status \in Status
                      THEN [incident[i] EXCEPT !.status = "deleted"] ELSE incident[i]]
  /\ timeline' = [i \in Incidents |-> IF incident[i].rule = r THEN << >> ELSE timeline[i]]

Next == \/ \E i \in Incidents, r \in Rules : Open(i, r)
        \/ \E i \in Incidents, e \in Edge : Act(i, e)
        \/ \E r \in Rules : DeleteRule(r)

Spec == Init /\ [][Next]_<<incident, timeline>>
=============================================================================
