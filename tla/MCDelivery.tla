----------------------------- MODULE MCDelivery -----------------------------
(***************************************************************************)
(* Instances for TLC of two parts of the backend that share no state and   *)
(* make promises about the end: the dispatcher with all its attempts, and  *)
(* ingestion with the readers of the dashboard summary.  A behaviour is    *)
(* one of either part; the other keeps its initial state.                  *)
(***************************************************************************)
EXTENDS MCIngestion, NotificationDispatcher

VARIABLE part

deliveryVars == <<part, vars, dispatcherVars>>

DeliveryInit == part \in {"ingestion", "dispatcher"} /\ Init /\ DispatcherInit

DeliveryNext ==
  /\ UNCHANGED part
  /\ \/ part = "ingestion" /\ Next /\ UNCHANGED dispatcherVars
     \/ part = "dispatcher" /\ DispatcherNext /\ UNCHANGED vars

\* Fairness asks nothing of the idle part: nothing is under way in its initial state.
DeliverySpec ==
  DeliveryInit /\ [][DeliveryNext]_deliveryVars /\ CacheProgress /\ DispatcherFairness
=============================================================================
