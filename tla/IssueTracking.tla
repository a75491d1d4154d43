---------------------------- MODULE IssueTracking ---------------------------
(***************************************************************************)
(* Issues: trackError and updateStatus of IssueService                     *)
(* (services/issue/issue-service.ts).  The fingerprint tells items apart,  *)
(* so an issue is a pair of a team and an item.                            *)
(*                                                                         *)
(* ingest() starts trackError and does not wait for it: the upserts of one *)
(* fingerprint run in any order, each on its own, or fail and are logged.  *)
(***************************************************************************)
EXTENDS LogEntries

VARIABLES issue,     \* Issue rows
          tracking,  \* the entries whose upsert has not been answered
          untracked  \* history: the entries whose upsert was not confirmed

issueVars == <<issue, tracking, untracked>>

IssueStatus == {"NEW", "ONGOING", "RESOLVED", "IGNORED"}

\* No row is eventCount 0.
IssueRow == [eventCount : Nat, status : IssueStatus]

IssueTypeOK == /\ issue \in [Teams -> [Items -> IssueRow]]
               /\ tracking \subseteq Entry
               /\ untracked \subseteq Entry

IssueInit == /\ issue = [t \in Teams |-> [i \in Items |-> [eventCount |-> 0, status |-> "NEW"]]]
             /\ tracking = {}
             /\ untracked = {}

\* Variant whose update writes the count it would create with.
Overwrite(row) == [eventCount |-> 1, status |-> IF row.eventCount = 0 THEN "NEW" ELSE "ONGOING"]

\* Variant that writes the status of an alert incident.
ReopenAsIncident(row) == [eventCount |-> row.eventCount + 1, status |-> IF row.eventCount = 0 THEN "NEW" ELSE "OPEN"]

Upsert(row) == IF row.eventCount = 0 THEN [eventCount |-> 1, status |-> "NEW"]
                                     ELSE [eventCount |-> row.eventCount + 1, status |-> "ONGOING"]

trackError(e) ==
  /\ e \in tracking
  /\ issue' = [issue EXCEPT ![Team(e)][e.item] = Upsert(@)]
  /\ tracking' = tracking \ {e}
  /\ UNCHANGED untracked

\* Rejected, possibly after the row was written.
trackErrorFails(e) ==
  /\ e \in tracking
  /\ \/ UNCHANGED issue
     \/ issue' = [issue EXCEPT ![Team(e)][e.item] = Upsert(@)]
  /\ tracking' = tracking \ {e}
  /\ untracked' = untracked \cup {e}

updateStatus(t, i, status) ==
  /\ issue[t][i].eventCount > 0
  /\ issue' = [issue EXCEPT ![t][i].status = status]
  /\ UNCHANGED <<tracking, untracked>>

Track(entries) ==
  /\ tracking' = tracking \cup {e \in entries : e.item \in ErrorItems}
  /\ UNCHANGED <<issue, untracked>>
=============================================================================
