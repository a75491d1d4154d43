------------------------------ MODULE QueryJobs -----------------------------
(***************************************************************************)
(* Asynchronous queries: startAsyncJob, getAsyncJob and cleanupAsyncJobs   *)
(* of QueryService (services/query/query-service.ts), the facet, histogram *)
(* and pattern routes with runWithSyncBudget, and GET /query/jobs/:id.     *)
(*                                                                         *)
(* The table of jobs is a Map in the process.  Nothing sweeps it on a      *)
(* timer: old records go when a job is started or polled, a pending one    *)
(* too, whose producer runs on and stores its record again.                *)
(***************************************************************************)
EXTENDS Integers

CONSTANTS Jobs,     \* query requests; a job has the id of its request
          TTL,      \* ASYNC_TTL_MS in clock ticks
          MaxJobClock \* bound on the clock

ASSUME JobClockAssumption == TTL \in Nat /\ MaxJobClock \in Nat

VARIABLES jobClock,
          query,     \* the handler of each request
          asyncJobs, \* the Map: one record or none per id
          settledAt, \* history: when the producer of a job settled, or Never
          answered   \* history: what the last poll of a job was answered

jobVars == <<jobClock, query, asyncJobs, settledAt, answered>>

Never == -1

Final == {"completed", "failed"}

JobRecord == [status : {"none", "pending"} \cup Final, createdAt : Nat]

NoRecord == [status |-> "none", createdAt |-> 0]

JobsTypeOK ==
  /\ jobClock \in Nat
  /\ query \in [Jobs -> {"new", "racing", "running", "done"}]
  /\ asyncJobs \in [Jobs -> JobRecord]
  /\ settledAt \in [Jobs -> Nat \cup {Never}]
  /\ answered \in [Jobs -> {"nothing", "missing", "pending"} \cup Final]

JobsInit ==
  /\ jobClock = 0
  /\ query = [j \in Jobs |-> "new"]
  /\ asyncJobs = [j \in Jobs |-> NoRecord]
  /\ settledAt = [j \in Jobs |-> Never]
  /\ answered = [j \in Jobs |-> "nothing"]

JobTick ==
  /\ jobClock < MaxJobClock
  /\ jobClock' = jobClock + 1
  /\ UNCHANGED <<query, asyncJobs, settledAt, answered>>

\* Variant that is off by one.
CleanedEarly == [j \in Jobs |-> IF asyncJobs[j].createdAt <= jobClock - TTL THEN NoRecord ELSE asyncJobs[j]]

Cleaned == [j \in Jobs |-> IF asyncJobs[j].createdAt < jobClock - TTL THEN NoRecord ELSE asyncJobs[j]]

\* Without `async` the query races the budget of MAX_SYNC_RUNTIME_MS.
runWithSyncBudget(j) ==
  /\ query[j] = "new"
  /\ query' = [query EXCEPT ![j] = "racing"]
  /\ UNCHANGED <<jobClock, asyncJobs, settledAt, answered>>

syncAnswer(j) ==
  /\ query[j] = "racing"
  /\ query' = [query EXCEPT ![j] = "done"]
  /\ UNCHANGED <<jobClock, asyncJobs, settledAt, answered>>

\* Variant whose id is derived from the query: asking again starts it over.
startAgain(j) ==
  /\ query[j] # "running"
  /\ query' = [query EXCEPT ![j] = "running"]
  /\ asyncJobs' = [Cleaned EXCEPT ![j] = [status |-> "pending", createdAt |-> jobClock]]
  /\ UNCHANGED <<jobClock, settledAt, answered>>

\* `async` was set, or the budget ran out and the query starts over.
startAsyncJob(j) ==
  /\ query[j] \in {"new", "racing"}
  /\ query' = [query EXCEPT ![j] = "running"]
  /\ asyncJobs' = [Cleaned EXCEPT ![j] = [status |-> "pending", createdAt |-> jobClock]]
  /\ UNCHANGED <<jobClock, settledAt, answered>>

\* Variant that keeps the creation time of the pending record.
SpreadBase(j, status) == [status |-> status, createdAt |-> asyncJobs[j].createdAt]

Settled(j, status) == [status |-> status, createdAt |-> jobClock]

Settle(j, status) ==
  /\ query[j] = "running"
  /\ query' = [query EXCEPT ![j] = "done"]
  /\ asyncJobs' = [asyncJobs EXCEPT ![j] = Settled(j, status)]
  /\ settledAt' = [settledAt EXCEPT ![j] = jobClock]
  /\ UNCHANGED <<jobClock, answered>>

producerResolves(j) == Settle(j, "completed")

\* Variant without the catch.
leavePending(j) ==
  /\ query[j] = "running"
  /\ query' = [query EXCEPT ![j] = "done"]
  /\ UNCHANGED <<jobClock, asyncJobs, settledAt, answered>>

producerRejects(j) == Settle(j, "failed")

\* The poll of a member of the job's team; anybody else changes nothing more
\* than the clean-up.
getAsyncJob(j) ==
  /\ asyncJobs' = Cleaned
  /\ answered' = [answered EXCEPT ![j] = IF Cleaned[j].status = "none" THEN "missing" ELSE Cleaned[j].status]
  /\ UNCHANGED <<jobClock, query, settledAt>>

\* The process dies: the Map and the producers are gone.
jobCrash ==
  /\ query' = [j \in Jobs |-> IF query[j] = "new" THEN "new" ELSE "done"]
  /\ asyncJobs' = [j \in Jobs |-> NoRecord]
  /\ settledAt' = [j \in Jobs |-> Never]
  /\ UNCHANGED <<jobClock, answered>>

QueryStep(j) == \/ runWithSyncBudget(j) \/ syncAnswer(j) \/ startAsyncJob(j)
                \/ producerResolves(j) \/ producerRejects(j) \/ getAsyncJob(j)

JobsNext == JobTick \/ jobCrash \/ \E j \in Jobs : QueryStep(j)

JobsSpec == JobsInit /\ [][JobsNext]_jobVars

(***************************************************************************)
(* A result can be fetched for the whole time to live after it is there,   *)
(* however long the query ran and whatever other requests clean up.        *)
(***************************************************************************)
ResultKept ==
  \A j \in Jobs : settledAt[j] # Never /\ jobClock - settledAt[j] <= TTL => asyncJobs[j].status \in Final

\* Why: a settled job is never started again, and its record dates from when
\* it settled.
SettledRecords ==
  \A j \in Jobs : settledAt[j] # Never =>
     /\ query[j] = "done"
     /\ settledAt[j] <= jobClock
     /\ asyncJobs[j] = NoRecord \/ (asyncJobs[j].status \in Final /\ asyncJobs[j].createdAt = settledAt[j])

JobsInv == JobsTypeOK /\ SettledRecords /\ ResultKept

(***************************************************************************)
(* A job does not stay pending: its query completes or fails, or the       *)
(* process dies with it, and a rejected query is recorded too.             *)
(***************************************************************************)
JobSettles == \A j \in Jobs : asyncJobs[j].status = "pending" ~> asyncJobs[j].status # "pending"
=============================================================================
