------------------------- MODULE MCAlertSuppression -------------------------
(* Instances of AlertSuppression for TLC. *)
EXTENDS AlertSuppression

CONSTANTS t1, t2

OneTeam  == [r \in Rules |-> t1]

Greater == {[condition |-> "GREATER_THAN", threshold |-> 0]}
=============================================================================
