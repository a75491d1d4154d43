----------------------------- MODULE MCTenants ------------------------------
(***************************************************************************)
(* Instances for TLC of two parts of the backend that share no state and   *)
(* decide who is let in: ingestion with its API keys and live tails, and   *)
(* the accounts.  A behaviour is one of either part; the other keeps its   *)
(* initial state.                                                          *)
(***************************************************************************)
EXTENDS MCIngestion, Accounts

VARIABLE part

tenantVars == <<part, vars, accountVars>>

TenantsInit == part \in {"ingestion", "accounts"} /\ Init /\ AccountsInit

\* An admin gives the team roles that sign-up gives; the others make no difference here.
RoleBounds == \A c \in Calls : call'[c].role \notin {"ADMIN", "VIEWER"}

TenantsNext ==
  /\ UNCHANGED part
  /\ \/ part = "ingestion" /\ Next /\ UNCHANGED accountVars
     \/ part = "accounts" /\ AccountsNext /\ RoleBounds /\ UNCHANGED vars

TenantsSpec == TenantsInit /\ [][TenantsNext]_tenantVars

\* Requests differ in nothing but their name, and so do calls.
Symmetry == Permutations(Requests) \cup Permutations(Calls)
=============================================================================
