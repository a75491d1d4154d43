---------------------------- MODULE MCIngestion -----------------------------
(* Instances of Ingestion for TLC. *)
EXTENDS Ingestion, TLC

OneTeam == [s \in Sources |-> CHOOSE t \in Teams : TRUE]

\* Each source has a team of its own.
OwnTeams == CHOOSE f \in [Sources -> Teams] : \A s, x \in Sources : f[s] = f[x] => s = x

AllItems == {Items}

=============================================================================
