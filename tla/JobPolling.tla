----------------------------- MODULE JobPolling -----------------------------
(***************************************************************************)
(* The console's side of asynchronous queries (lib/api/client.ts): the     *)
(* facet, histogram and pattern calls get their data or an envelope with a *)
(* request id, and waitForAsyncJob then polls GET /query/jobs/:id a fixed  *)
(* number of times.  Composed with the server's table of jobs.  The pauses *)
(* between polls, and the answers, take any time.                          *)
(***************************************************************************)
EXTENDS QueryJobs

CONSTANTS Polled,    \* the requests of this console; the others come from elsewhere
          Attempts   \* attempts

ASSUME PollAssumption == Polled \subseteq Jobs /\ Attempts \in Nat \ {0}

VARIABLES outcome,   \* of the call that made the request
          polls,     \* polls made so far
          startedAt, \* history: when the job was started
          crashed    \* history: whether the server has crashed

pollVars == <<jobVars, outcome, polls, startedAt, crashed>>

PollInit ==
  /\ JobsInit
  /\ outcome = [j \in Polled |-> "calling"]
  /\ polls = [j \in Polled |-> 0]
  /\ startedAt = [j \in Polled |-> 0]
  /\ crashed = "no"

pollUnchanged == UNCHANGED <<outcome, polls, startedAt, crashed>>

\* The server computes; the answer to the first request is one of the two:
routeAnswers(j) ==
  /\ syncAnswer(j)
  /\ outcome' = [outcome EXCEPT ![j] = "data"]
  /\ UNCHANGED <<polls, startedAt, crashed>>

\* isAsyncEnvelope
envelope(j) ==
  /\ startAsyncJob(j)
  /\ outcome' = [outcome EXCEPT ![j] = "waiting"]
  /\ startedAt' = [startedAt EXCEPT ![j] = jobClock]
  /\ UNCHANGED <<polls, crashed>>

MoreAttempts(j) == polls[j] < Attempts

\* authedRequest: 404, another status that is not ok, or no answer, throw.
Outcome(status) ==
  IF status = "completed" THEN "data" ELSE IF status \in {"failed", "missing"} THEN status ELSE "waiting"

pollAnswered(j) ==
  /\ outcome[j] = "waiting" /\ MoreAttempts(j)
  /\ getAsyncJob(j)
  /\ outcome' = [outcome EXCEPT ![j] = Outcome(answered'[j])]
  /\ polls' = [polls EXCEPT ![j] = IF @ < Attempts THEN @ + 1 ELSE @]
  /\ UNCHANGED <<startedAt, crashed>>

requestThrows(j) ==
  /\ \/ outcome[j] = "calling" /\ query[j] # "new"
     \/ outcome[j] = "waiting" /\ MoreAttempts(j)
  /\ outcome' = [outcome EXCEPT ![j] = "threw"]
  /\ UNCHANGED <<jobVars, polls, startedAt, crashed>>

asyncTimedOut(j) ==
  /\ outcome[j] = "waiting" /\ ~ MoreAttempts(j)
  /\ outcome' = [outcome EXCEPT ![j] = "timed out"]
  /\ UNCHANGED <<jobVars, polls, startedAt, crashed>>

waitForAsyncJob(j) == pollAnswered(j) \/ requestThrows(j) \/ asyncTimedOut(j)

PollNext ==
  \/ JobTick /\ pollUnchanged
  \/ jobCrash /\ crashed' = "yes" /\ UNCHANGED <<outcome, polls, startedAt>>
  \/ \E j \in Jobs : (runWithSyncBudget(j) \/ producerResolves(j) \/ producerRejects(j) \/ getAsyncJob(j)) /\ pollUnchanged
  \/ \E j \in Jobs \ Polled : (syncAnswer(j) \/ startAsyncJob(j)) /\ pollUnchanged
  \/ \E j \in Polled : routeAnswers(j) \/ envelope(j) \/ waitForAsyncJob(j)

PollSpec == PollInit /\ [][PollNext]_pollVars

\* The event loop of the browser runs timers and settles fetches, which need
\* not throw ever; ClickHouse answers or rejects every query.
PollFairness ==
  /\ \A j \in Polled : WF_pollVars(pollAnswered(j) \/ asyncTimedOut(j))
  /\ \A j \in Jobs : WF_pollVars((producerResolves(j) \/ producerRejects(j)) /\ pollUnchanged)

(***************************************************************************)
(* A poll is told "not found" only when the server has crashed or the job  *)
(* is older than its time to live: the clean-ups other requests cause do   *)
(* not take a job from a client that polls in time.                        *)
(***************************************************************************)
MissingOnlyByAge ==
  \A j \in Polled : outcome[j] = "missing" => crashed = "yes" \/ jobClock - startedAt[j] > TTL

\* Why: while a client waits, the record of its job is no older than the job.
PollTypeOK ==
  /\ outcome \in [Polled -> {"calling", "waiting", "data", "failed", "missing", "threw", "timed out"}]
  /\ polls \in [Polled -> Nat]
  /\ startedAt \in [Polled -> Nat]
  /\ crashed \in {"no", "yes"}

AwaitedRecords ==
  \A j \in Polled :
    /\ startedAt[j] <= jobClock
    /\ outcome[j] = "waiting" =>
         \/ crashed = "yes" \/ jobClock - startedAt[j] > TTL
         \/ asyncJobs[j].status # "none" /\ asyncJobs[j].createdAt >= startedAt[j]

PollInv == JobsInv /\ PollTypeOK /\ AwaitedRecords /\ MissingOnlyByAge

(***************************************************************************)
(* A wait ends, with the data or an error, also when the query is not done *)
(* within the attempts or the server forgets the job.                      *)
(***************************************************************************)
WaitEnds == \A j \in Polled : outcome[j] = "waiting" ~> outcome[j] # "waiting"
=============================================================================
