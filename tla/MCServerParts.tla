---------------------------- MODULE MCServerParts ----------------------------
(***************************************************************************)
(* Instances for TLC of three parts of the backend that share no state:    *)
(* asynchronous queries with the console that polls them, the gates of the *)
(* routes, and log search.  A behaviour is one of any one part; the others *)
(* keep their initial state.                                               *)
(***************************************************************************)
EXTENDS JobPolling, AccessGates, LogSearch

VARIABLE part

serverVars == <<part, pollVars, gateVars, searchVars>>

ServerInit ==
  /\ part \in {"jobs", "gates", "search"}
  /\ PollInit /\ GatesInit /\ SearchInit
  /\ part # "gates" => ~ session /\ ~ admin /\ ~ rowThere /\ role = [t \in GateTeams |-> "none"]
  /\ part # "search" => table = CHOOSE t \in FirstTables : TRUE

ServerNext ==
  /\ UNCHANGED part
  /\ \/ part = "jobs" /\ PollNext /\ UNCHANGED <<gateVars, searchVars>>
     \/ part = "gates" /\ GatesNext /\ UNCHANGED <<pollVars, searchVars>>
     \/ part = "search" /\ SearchNext /\ UNCHANGED <<pollVars, gateVars>>

\* What is to happen in the end happens to the parts that are idle trivially.
ServerSpec == ServerInit /\ [][ServerNext]_serverVars /\ PollFairness /\ GatesFairness /\ SearchFairness

Log(at, svc, text) == [at |-> at, svc |-> svc, text |-> text]

\* Two logs, at one time or at two, and one still to come.
Tables == {[l \in LogIds |-> CASE l = 1 -> Log(1, "api", TRUE) [] l = 2 -> Log(at, "api", TRUE)
                               [] OTHER -> Log(0, "api", FALSE)] : at \in {1, 2}}

\* The heuristic names a service that has no logs.
Guess == [svc |-> "db", text |-> TRUE]

(***************************************************************************)
(* The backend and its poller come to an end: jobs settle, waits end,      *)
(* routes answer although any query may reject, and pages are answered     *)
(* although the language model may fail every attempt.                     *)
(***************************************************************************)
ServerSettles == JobSettles /\ WaitEnds /\ EveryCallAnswered /\ PageAnswered
=============================================================================
