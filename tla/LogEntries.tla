----------------------------- MODULE LogEntries -----------------------------
(***************************************************************************)
(* The data that the ingest path moves.  An item is a log line up to its   *)
(* fingerprint; the entry that ingest() makes of it has a fresh id, so     *)
(* that a line sent twice is two entries: one per request.                 *)
(***************************************************************************)
EXTENDS Naturals, FiniteSets

CONSTANTS Teams,
          Sources,    \* ids of LogSource rows
          TeamOf,     \* the team of each source
          Items,      \* log lines
          ErrorItems, \* those of level error or fatal
          BadItems,   \* those that fail to parse
          Requests    \* POST /ingest requests

ASSUME TeamAssumption == Teams # {} /\ TeamOf \in [Sources -> Teams]
ASSUME ItemAssumption == IsFiniteSet(Items) /\ ErrorItems \subseteq Items /\ BadItems \subseteq Items

Entry == [item : Items, source : Sources, request : Requests]

Team(e) == TeamOf[e.source]
=============================================================================
