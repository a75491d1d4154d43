--------------------------- MODULE MCAlertEngine ----------------------------
(* Instances of AlertEngine for TLC. *)
EXTENDS AlertEngine, TLC

CONSTANTS t1, t2

OneTeam  == [r \in Rules |-> t1]

Greater == {[condition |-> "GREATER_THAN", threshold |-> 0]}

\* One breached by both counts, one by a change, and the reserved condition.
Mixed == {[condition |-> "GREATER_THAN", threshold |-> 0],
          [condition |-> "CHANGES_BY", threshold |-> 0],
          [condition |-> "ANOMALY_DETECTED", threshold |-> 0]}

Interchangeable == Permutations(Requests) \cup Permutations(Activations)
=============================================================================
