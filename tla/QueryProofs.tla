----------------------------- MODULE QueryProofs ----------------------------
(***************************************************************************)
(* Proofs for the three models of QueryService.  In QueryJobs JobsInv is   *)
(* inductive; in JobPolling PollInv is: a poll misses its job only by age  *)
(* or after a crash.  In LogSearch SearchIInv is: an unseen row always has *)
(* an offset's worth of rows in front of it, so that no token skips it.    *)
(***************************************************************************)
EXTENDS JobPolling, LogSearch, FiniteSetTheorems, TLAPS

\* The invariant holds while no job has been started.
LEMMA InitInv == JobsInit => JobsInv
BY JobClockAssumption DEF JobsInit, JobsInv, JobsTypeOK, SettledRecords, ResultKept, JobRecord, NoRecord, Never, Final

\* What cleanupAsyncJobs leaves: a record is gone only when it is older than
\* the time to live.
LEMMA CleanedRecords ==
  ASSUME JobsInv, NEW j \in Jobs
  PROVE  /\ Cleaned \in [Jobs -> JobRecord]
         /\ Cleaned[j] = asyncJobs[j] \/ (Cleaned[j] = NoRecord /\ asyncJobs[j].createdAt < jobClock - TTL)
BY JobClockAssumption DEF JobsInv, JobsTypeOK, Cleaned, JobRecord, NoRecord, Final

\* Every step keeps the invariant.
LEMMA InvStep == JobsInv /\ [JobsNext]_jobVars => JobsInv'
<1> SUFFICES ASSUME JobsInv, [JobsNext]_jobVars PROVE JobsInv'
  OBVIOUS
<1> USE JobClockAssumption DEF JobsInv, JobsTypeOK, SettledRecords, ResultKept, JobRecord, NoRecord, Never, Final
<1>1. CASE JobTick
  BY <1>1 DEF JobTick
<1>2. CASE jobCrash
  BY <1>2 DEF jobCrash
<1>3. ASSUME NEW j \in Jobs, runWithSyncBudget(j) \/ syncAnswer(j) PROVE JobsInv'
  BY <1>3 DEF runWithSyncBudget, syncAnswer
<1>4. ASSUME NEW j \in Jobs, startAsyncJob(j) PROVE JobsInv'
  <2>1. JobsTypeOK'
    BY <1>4, CleanedRecords DEF startAsyncJob
  <2>2. \A x \in Jobs : settledAt[x] # Never => asyncJobs'[x] = Cleaned[x]
    BY <1>4, CleanedRecords DEF startAsyncJob
  <2>3. SettledRecords' /\ ResultKept'
    BY <1>4, <2>2, CleanedRecords DEF startAsyncJob
  <2> QED BY <2>1, <2>3
<1>5. ASSUME NEW j \in Jobs, NEW status \in Final, Settle(j, status) PROVE JobsInv'
  BY <1>5 DEF Settle, Settled
<1>6. ASSUME NEW j \in Jobs, getAsyncJob(j) PROVE JobsInv'
  <2>1. JobsTypeOK'
    BY <1>6, CleanedRecords DEF getAsyncJob
  <2>2. SettledRecords' /\ ResultKept'
    BY <1>6, CleanedRecords DEF getAsyncJob
  <2> QED BY <2>1, <2>2
<1>7. CASE UNCHANGED jobVars
  BY <1>7 DEF jobVars
<1> HIDE DEF JobsInv
<1> QED BY <1>1, <1>2, <1>3, <1>4, <1>5, <1>6, <1>7 DEF JobsNext, QueryStep, producerResolves, producerRejects

\* JobsInv holds in every reachable state.
THEOREM Invariance == JobsSpec => []JobsInv
BY InitInv, InvStep, PTL DEF JobsSpec

\* For any number of queries, any time to live and any bound on the jobClock, a
\* result that is there stays there for the whole time to live.
THEOREM ResultKeptTheorem == JobsSpec => []ResultKept
<1>1. JobsInv => ResultKept
  BY DEF JobsInv
<1> QED BY <1>1, Invariance, PTL

-----------------------------------------------------------------------------
(***************************************************************************)
(* The console's polling of the table of jobs.                             *)
(***************************************************************************)
\* A step with the poller is a step of the table of jobs, or leaves it alone.
LEMMA PollStepsJobs == [PollNext]_pollVars => [JobsNext]_jobVars
<1> SUFFICES ASSUME [PollNext]_pollVars PROVE [JobsNext]_jobVars
  OBVIOUS
<1> USE PollAssumption
<1>1. CASE \E j \in Polled : routeAnswers(j) \/ envelope(j) \/ waitForAsyncJob(j)
  <2> PICK j \in Polled : routeAnswers(j) \/ envelope(j) \/ waitForAsyncJob(j)
    BY <1>1
  <2>1. CASE routeAnswers(j) \/ envelope(j) \/ pollAnswered(j)
    BY <2>1 DEF routeAnswers, envelope, pollAnswered, JobsNext, QueryStep
  <2>2. CASE requestThrows(j) \/ asyncTimedOut(j)
    BY <2>2 DEF requestThrows, asyncTimedOut
  <2> QED BY <2>1, <2>2 DEF waitForAsyncJob
<1>2. CASE UNCHANGED pollVars
  BY <1>2 DEF pollVars
<1> QED BY <1>1, <1>2 DEF PollNext, JobsNext, QueryStep

\* The invariant holds before the first request is answered.
LEMMA InitPollInv == PollInit => PollInv
<1> SUFFICES ASSUME PollInit PROVE PollInv
  OBVIOUS
<1>1. JobsInv
  BY InitInv DEF PollInit
<1>2. PollTypeOK /\ AwaitedRecords /\ MissingOnlyByAge
  BY JobClockAssumption DEF PollInit, JobsInit, PollTypeOK, AwaitedRecords, MissingOnlyByAge
<1> QED BY <1>1, <1>2 DEF PollInv

\* A clean-up spares the record a client in time waits for.
LEMMA CleanedSpares ==
  ASSUME PollInv, NEW j \in Polled, outcome[j] = "waiting", crashed # "yes", jobClock - startedAt[j] <= TTL
  PROVE  Cleaned[j] = asyncJobs[j] /\ Cleaned[j].status # "none"
<1>1. /\ j \in Jobs /\ jobClock \in Nat /\ startedAt[j] \in Nat /\ TTL \in Nat
      /\ asyncJobs[j] \in JobRecord
  BY PollAssumption, JobClockAssumption DEF PollInv, PollTypeOK, JobsInv, JobsTypeOK
<1>2. asyncJobs[j].status # "none" /\ asyncJobs[j].createdAt >= startedAt[j] /\ asyncJobs[j].createdAt \in Nat
  BY <1>1 DEF PollInv, AwaitedRecords, JobRecord
<1>3. ~ (asyncJobs[j].createdAt < jobClock - TTL)
  BY <1>1, <1>2
<1> QED BY <1>1, <1>2, <1>3 DEF Cleaned

\* What a step of the table of jobs does to the records clients wait for: it
\* leaves the poller's variables alone and no awaited record is lost.
TableStep ==
  /\ UNCHANGED <<outcome, polls, startedAt>>
  /\ crashed' \in {"no", "yes"} /\ (crashed = "yes" => crashed' = "yes")
  /\ jobClock' >= jobClock
  /\ \A j \in Polled : \/ crashed' = "yes"
                       \/ asyncJobs'[j] \in {asyncJobs[j], Cleaned[j]}
                       \/ asyncJobs'[j].status # "none" /\ asyncJobs'[j].createdAt = jobClock

\* Such a step keeps the invariant.
LEMMA TableStepKeeps ==
  ASSUME PollInv, JobsInv', TableStep
  PROVE  PollInv'
<1> USE PollAssumption, JobClockAssumption
<1> USE DEF TableStep
<1>1. /\ jobClock \in Nat /\ jobClock' \in Nat /\ \A j \in Polled : startedAt[j] \in Nat
      /\ PollTypeOK'
  BY DEF PollInv, PollTypeOK, JobsInv, JobsTypeOK
<1>2. AwaitedRecords'
  <2> SUFFICES ASSUME NEW j \in Polled
               PROVE  /\ startedAt[j] <= jobClock'
                      /\ outcome[j] = "waiting" =>
                           \/ crashed' = "yes" \/ jobClock' - startedAt[j] > TTL
                           \/ asyncJobs'[j].status # "none" /\ asyncJobs'[j].createdAt >= startedAt[j]
    BY DEF AwaitedRecords
  <2>1. startedAt[j] <= jobClock /\ startedAt[j] <= jobClock'
    BY <1>1 DEF PollInv, AwaitedRecords
  <2>2. ASSUME outcome[j] = "waiting", crashed' # "yes", ~ (jobClock' - startedAt[j] > TTL)
        PROVE  asyncJobs'[j].status # "none" /\ asyncJobs'[j].createdAt >= startedAt[j]
    <3>1. jobClock - startedAt[j] <= TTL /\ crashed # "yes"
      BY <1>1, <2>1, <2>2
    <3>2. asyncJobs[j].status # "none" /\ asyncJobs[j].createdAt >= startedAt[j]
      BY <1>1, <2>2, <3>1 DEF PollInv, AwaitedRecords
    <3>3. Cleaned[j] = asyncJobs[j]
      BY <2>2, <3>1, CleanedSpares
    <3> QED BY <1>1, <2>1, <2>2, <3>2, <3>3
  <2> QED BY <2>1, <2>2
<1>3. MissingOnlyByAge'
  BY <1>1 DEF PollInv, MissingOnlyByAge
<1> QED BY <1>1, <1>2, <1>3 DEF PollInv

\* Every step keeps the invariant.
LEMMA PollInvStep == PollInv /\ [PollNext]_pollVars => PollInv'
<1> SUFFICES ASSUME PollInv, [PollNext]_pollVars PROVE PollInv'
  OBVIOUS
<1> USE PollAssumption, JobClockAssumption
<1>1. JobsInv'
  BY PollStepsJobs, InvStep DEF PollInv
<1>2. /\ jobClock \in Nat /\ \A j \in Polled : startedAt[j] \in Nat /\ polls[j] \in Nat
      /\ crashed \in {"no", "yes"} /\ asyncJobs \in [Jobs -> JobRecord]
  BY DEF PollInv, PollTypeOK, JobsInv, JobsTypeOK
<1>3. CASE JobTick /\ pollUnchanged
  <2>1. TableStep
    BY <1>2, <1>3 DEF TableStep, JobTick, pollUnchanged
  <2> QED BY <1>1, <2>1, TableStepKeeps
<1>4. CASE jobCrash /\ crashed' = "yes" /\ UNCHANGED <<outcome, polls, startedAt>>
  <2>1. TableStep
    BY <1>2, <1>4 DEF TableStep, jobCrash
  <2> QED BY <1>1, <2>1, TableStepKeeps
<1>5. ASSUME NEW j \in Jobs, runWithSyncBudget(j) \/ syncAnswer(j), pollUnchanged PROVE PollInv'
  <2>1. TableStep
    BY <1>2, <1>5 DEF TableStep, runWithSyncBudget, syncAnswer, pollUnchanged
  <2> QED BY <1>1, <2>1, TableStepKeeps
<1>6. ASSUME NEW j \in Jobs, NEW status \in Final, Settle(j, status), pollUnchanged PROVE PollInv'
  <2>1. \A x \in Polled : \/ asyncJobs'[x] = asyncJobs[x]
                          \/ asyncJobs'[x].status # "none" /\ asyncJobs'[x].createdAt = jobClock
    BY <1>2, <1>6 DEF Settle, Settled, Final
  <2>2. TableStep
    BY <1>2, <1>6, <2>1 DEF TableStep, Settle, pollUnchanged
  <2> QED BY <1>1, <2>2, TableStepKeeps
<1>7. ASSUME NEW j \in Jobs, getAsyncJob(j), pollUnchanged PROVE PollInv'
  <2>1. TableStep
    BY <1>2, <1>7 DEF TableStep, getAsyncJob, pollUnchanged
  <2> QED BY <1>1, <2>1, TableStepKeeps
<1>8. ASSUME NEW j \in Jobs, startAsyncJob(j), pollUnchanged PROVE PollInv'
  <2>1. \A x \in Polled : \/ asyncJobs'[x] = Cleaned[x]
                          \/ asyncJobs'[x].status # "none" /\ asyncJobs'[x].createdAt = jobClock
    BY <1>2, <1>8 DEF startAsyncJob, Cleaned
  <2>2. TableStep
    BY <1>2, <1>8, <2>1 DEF TableStep, startAsyncJob, pollUnchanged
  <2> QED BY <1>1, <2>2, TableStepKeeps
<1>9. ASSUME NEW j \in Polled, envelope(j) PROVE PollInv'
  <2>1. /\ asyncJobs'[j] = [status |-> "pending", createdAt |-> jobClock]
        /\ \A x \in Polled : x # j => asyncJobs'[x] = Cleaned[x]
    BY <1>2, <1>9 DEF envelope, startAsyncJob, Cleaned
  <2>2. PollTypeOK'
    BY <1>2, <1>9 DEF envelope, PollInv, PollTypeOK
  <2>3. jobClock' = jobClock /\ crashed' = crashed
    BY <1>9 DEF envelope, startAsyncJob
  <2>4. /\ outcome'[j] = "waiting" /\ startedAt'[j] = jobClock
        /\ \A x \in Polled : x # j => outcome'[x] = outcome[x] /\ startedAt'[x] = startedAt[x]
    BY <1>9 DEF envelope, PollInv, PollTypeOK
  <2>5. AwaitedRecords'
    <3> SUFFICES ASSUME NEW x \in Polled
                 PROVE  /\ startedAt'[x] <= jobClock
                        /\ outcome'[x] = "waiting" =>
                             \/ crashed = "yes" \/ jobClock - startedAt'[x] > TTL
                             \/ asyncJobs'[x].status # "none" /\ asyncJobs'[x].createdAt >= startedAt'[x]
      BY <2>3 DEF AwaitedRecords
    <3>1. CASE x = j
      BY <1>2, <2>1, <2>4, <3>1
    <3>2. CASE x # j
      <4>1. CASE outcome[x] = "waiting" /\ crashed # "yes" /\ jobClock - startedAt[x] <= TTL
        BY <1>2, <2>1, <2>4, <3>2, <4>1, CleanedSpares DEF PollInv, AwaitedRecords
      <4>2. CASE ~ (outcome[x] = "waiting" /\ crashed # "yes" /\ jobClock - startedAt[x] <= TTL)
        BY <1>2, <2>4, <3>2, <4>2 DEF PollInv, AwaitedRecords
      <4> QED BY <4>1, <4>2
    <3> QED BY <3>1, <3>2
  <2>6. MissingOnlyByAge'
    BY <2>3, <2>4 DEF PollInv, MissingOnlyByAge
  <2> QED BY <1>1, <2>2, <2>5, <2>6 DEF PollInv
<1>10. ASSUME NEW j \in Polled, pollAnswered(j) PROVE PollInv'
  <2>1. /\ jobClock' = jobClock /\ crashed' = crashed /\ startedAt' = startedAt /\ asyncJobs' = Cleaned
        /\ outcome[j] = "waiting"
        /\ answered'[j] = IF Cleaned[j].status = "none" THEN "missing" ELSE Cleaned[j].status
    BY <1>10 DEF pollAnswered, getAsyncJob, PollInv, JobsInv, JobsTypeOK
  <2>2. /\ outcome'[j] = Outcome(answered'[j])
        /\ \A x \in Polled : x # j => outcome'[x] = outcome[x]
    BY <1>10 DEF pollAnswered, PollInv, PollTypeOK
  <2>3. PollTypeOK'
    <3>1. Outcome(answered'[j]) \in {"data", "failed", "missing", "waiting"}
      BY DEF Outcome
    <3>2. polls' \in [Polled -> Nat]
      <4>1. polls \in [Polled -> Nat] /\ polls' = [polls EXCEPT ![j] = polls[j] + 1]
        BY <1>10 DEF pollAnswered, MoreAttempts, PollInv, PollTypeOK
      <4> QED BY <4>1
    <3> QED BY <1>10, <2>1, <3>1, <3>2 DEF pollAnswered, PollInv, PollTypeOK
  <2>4. AwaitedRecords'
    <3> SUFFICES ASSUME NEW x \in Polled
                 PROVE  /\ startedAt[x] <= jobClock
                        /\ outcome'[x] = "waiting" =>
                             \/ crashed = "yes" \/ jobClock - startedAt[x] > TTL
                             \/ Cleaned[x].status # "none" /\ Cleaned[x].createdAt >= startedAt[x]
      BY <2>1 DEF AwaitedRecords
    <3>1. startedAt[x] <= jobClock
      BY DEF PollInv, AwaitedRecords
    <3>2. outcome'[x] = "waiting" => outcome[x] = "waiting"
      BY <2>1, <2>2
    <3>3. ASSUME outcome[x] = "waiting", crashed # "yes", jobClock - startedAt[x] <= TTL
          PROVE  Cleaned[x].status # "none" /\ Cleaned[x].createdAt >= startedAt[x]
      BY <1>2, <3>3, CleanedSpares DEF PollInv, AwaitedRecords
    <3> QED BY <1>2, <3>1, <3>2, <3>3
  <2>5. MissingOnlyByAge'
    <3>1. outcome'[j] = "missing" => crashed = "yes" \/ jobClock - startedAt[j] > TTL
      <4> SUFFICES ASSUME crashed # "yes", jobClock - startedAt[j] <= TTL PROVE outcome'[j] # "missing"
        BY <1>2
      <4>1. Cleaned[j].status # "none" /\ Cleaned[j] = asyncJobs[j]
        BY <2>1, CleanedSpares
      <4>2. answered'[j] \in {"pending"} \cup Final
        BY <1>2, <2>1, <4>1 DEF JobRecord
      <4> QED BY <2>2, <4>2 DEF Outcome, Final
    <3> QED BY <2>1, <2>2, <3>1 DEF PollInv, MissingOnlyByAge
  <2> QED BY <1>1, <2>3, <2>4, <2>5 DEF PollInv
<1>11. ASSUME NEW j \in Polled, routeAnswers(j) \/ requestThrows(j) \/ asyncTimedOut(j) PROVE PollInv'
  <2>1. /\ jobClock' = jobClock /\ crashed' = crashed /\ startedAt' = startedAt /\ asyncJobs' = asyncJobs
        /\ polls' = polls
        /\ \E o \in {"data", "threw", "timed out"} : outcome' = [outcome EXCEPT ![j] = o]
    BY <1>11 DEF routeAnswers, requestThrows, asyncTimedOut, syncAnswer, jobVars
  <2>2. PollTypeOK' /\ AwaitedRecords' /\ MissingOnlyByAge'
    BY <2>1 DEF PollInv, PollTypeOK, AwaitedRecords, MissingOnlyByAge
  <2> QED BY <1>1, <2>2 DEF PollInv
<1>12. CASE UNCHANGED pollVars
  <2>1. TableStep
    BY <1>2, <1>12 DEF TableStep, pollVars, jobVars
  <2> QED BY <1>1, <2>1, TableStepKeeps
<1> QED BY <1>3, <1>4, <1>5, <1>6, <1>7, <1>8, <1>9, <1>10, <1>11, <1>12
        DEF PollNext, producerResolves, producerRejects, Final, waitForAsyncJob

\* PollInv holds in every reachable state.
THEOREM PollInvariance == PollSpec => []PollInv
BY InitPollInv, PollInvStep, PTL DEF PollSpec

\* For any number of jobs and of polling clients, any time to live and any
\* number of attempts, waitForAsyncJob is answered "not found" only after a
\* crash or when the job is older than ASYNC_TTL_MS.
THEOREM MissingTheorem == PollSpec => []MissingOnlyByAge
<1>1. PollInv => MissingOnlyByAge
  BY DEF PollInv
<1> QED BY <1>1, PollInvariance, PTL

-----------------------------------------------------------------------------
\* Min of the two numbers that LIMIT and OFFSET are cut to.
LEMMA MinOfTwo ==
  ASSUME NEW x \in Int, NEW y \in Int
  PROVE  Min({x, y}) = IF x <= y THEN x ELSE y
<1> DEFINE m == IF x <= y THEN x ELSE y
<1>1. m \in {x, y} /\ \A z \in {x, y} : m <= z
  OBVIOUS
<1>2. \A n \in {x, y} : (\A z \in {x, y} : n <= z) => n = m
  OBVIOUS
<1> HIDE DEF m
<1>3. Min({x, y}) = m
  BY <1>1, <1>2 DEF Min
<1> QED BY <1>3 DEF m

\* ORDER BY is a total preorder of the rows.
LEMMA BeforeOrder ==
  ASSUME table \in [LogIds -> LogRow], NEW a \in LogIds, NEW b \in LogIds, NEW c \in LogIds
  PROVE  /\ Before(a, b) \/ Before(b, a)
         /\ Before(a, b) /\ Before(b, c) => Before(a, c)
<1>1. \A x \in LogIds : table[x].at \in Int
  BY SearchAssumption DEF LogRow
<1> QED BY <1>1 DEF Before

\* The rows of a query are finitely many.
LEMMA FiniteRows ==
  ASSUME NEW ms \in SUBSET LogIds
  PROVE  IsFiniteSet(ms) /\ Cardinality(ms) \in Nat
BY SearchAssumption, FS_Subset, FS_CardinalityType

\* A part of the rows counts no more than the whole.
LEMMA SmallerRows ==
  ASSUME NEW ms \in SUBSET LogIds, NEW part \in SUBSET ms
  PROVE  Cardinality(part) <= Cardinality(ms) /\ (Cardinality(part) = Cardinality(ms) => part = ms)
BY FiniteRows, FS_Subset

\* Exchanging a row for one from outside leaves the count as it is.
LEMMA Exchange ==
  ASSUME NEW ms \in SUBSET LogIds, NEW a \in ms, NEW c \in LogIds \ ms
  PROVE  Cardinality((ms \ {a}) \cup {c}) = Cardinality(ms)
<1>1. IsFiniteSet(ms) /\ IsFiniteSet(ms \ {a})
  BY FiniteRows
<1>2. Cardinality(ms \ {a}) = Cardinality(ms) - 1
  BY <1>1, FS_RemoveElement
<1>3. Cardinality((ms \ {a}) \cup {c}) = Cardinality(ms \ {a}) + 1
  BY <1>1, FS_AddElement
<1> QED BY <1>2, <1>3, FiniteRows

\* Two pages of one query are two.
LEMMA TwoPages ==
  ASSUME NEW ms \in SUBSET LogIds, NEW offset \in Nat, NEW p \in Pages(ms, offset), NEW o \in Pages(ms, offset), p # o
  PROVE  Cardinality(Pages(ms, offset)) > 1
<1>1. IsFiniteSet(SUBSET ms)
  BY FiniteRows, FS_SUBSET
<1>2. Pages(ms, offset) \subseteq SUBSET ms
  BY DEF Pages, kSubset
<1>3. IsFiniteSet(Pages(ms, offset))
  BY <1>1, <1>2, FS_Subset
<1>4. {p, o} \subseteq Pages(ms, offset)
  OBVIOUS
<1>5. IsFiniteSet({p}) /\ Cardinality({p}) = 1
  BY FS_Singleton
<1>6. Cardinality({p} \cup {o}) = 2
  BY <1>5, FS_AddElement
<1>7. {p} \cup {o} = {p, o}
  OBVIOUS
<1>8. Cardinality({p, o}) <= Cardinality(Pages(ms, offset)) /\ Cardinality(Pages(ms, offset)) \in Nat
  BY <1>3, <1>4, FS_Subset, FS_CardinalityType
<1> QED BY <1>6, <1>7, <1>8

\* p is a page and q what the offset skips: what Pages asks of the two.
Cut(p, q, ms, offset) ==
  /\ p \subseteq ms /\ q \subseteq ms \ p
  /\ Cardinality(q) = Min({offset, Cardinality(ms)})
  /\ Cardinality(p) = Min({PageLimit, Cardinality(ms) - Min({offset, Cardinality(ms)})})
  /\ \A a \in q, b \in p : Before(a, b)
  /\ \A a \in p \cup q, b \in ms \ (p \cup q) : Before(a, b)

\* The pages of a query are its cuts.
LEMMA PagesAreCuts ==
  ASSUME NEW ms, NEW offset, NEW p
  PROVE  p \in Pages(ms, offset) <=> \E q : Cut(p, q, ms, offset)
BY DEF Pages, kSubset, Cut

\* How many rows a cut takes, and that it takes them all unless it is full.
LEMMA CutSizes ==
  ASSUME NEW ms \in SUBSET LogIds, NEW offset \in Nat, NEW p, NEW q, Cut(p, q, ms, offset)
  PROVE  /\ Cardinality(q) <= offset
         /\ Cardinality(p \cup q) = Cardinality(p) + Cardinality(q)
         /\ ms # p \cup q => Cardinality(p \cup q) = offset + PageLimit
         /\ ms # q => p # {}
<1> DEFINE n == Cardinality(ms)
<1> DEFINE k == Cardinality(q)
<1> DEFINE s == Cardinality(p)
<1>1. p \in SUBSET LogIds /\ q \in SUBSET LogIds /\ p \cup q \in SUBSET ms /\ q \in SUBSET ms /\ p \cap q = {}
  BY DEF Cut
<1>2. n \in Nat /\ k \in Nat /\ s \in Nat /\ IsFiniteSet(p) /\ IsFiniteSet(q)
  BY <1>1, FiniteRows
<1>3. k = IF offset <= n THEN offset ELSE n
  BY <1>2, MinOfTwo DEF Cut
<1>4. s = IF PageLimit <= n - k THEN PageLimit ELSE n - k
  <2>1. n - k \in Int /\ PageLimit \in Int
    BY <1>2, SearchAssumption
  <2>2. s = Min({PageLimit, n - k})
    BY DEF Cut
  <2> HIDE DEF n, k, s
  <2> QED BY <2>1, <2>2, MinOfTwo
<1>5. Cardinality(p \cup q) = s + k
  <2>1. Cardinality(p \cup q) = s + k - Cardinality(p \cap q)
    BY <1>2, FS_Union
  <2> QED BY <1>1, <1>2, <2>1, FS_EmptySet
<1>6. ms # p \cup q => s + k # n
  BY <1>1, <1>5, SmallerRows
<1>7. ms # q => k # n
  BY <1>1, SmallerRows
<1>8. p = {} => s = 0
  BY FS_EmptySet
<1>9. PageLimit \in Nat /\ PageLimit > 0
  BY SearchAssumption
<1> HIDE DEF n, k, s
<1>10. k <= offset /\ (s + k # n => s + k = offset + PageLimit) /\ (k # n => s # 0)
  BY <1>2, <1>3, <1>4, <1>9
<1> QED BY <1>5, <1>6, <1>7, <1>8, <1>10 DEF k, s

\* A row that a page skips although an offset's worth of rows may stand in
\* front of it is tied with a row of the page, so that another page was
\* possible.
LEMMA SkippedIsTied ==
  ASSUME table \in [LogIds -> LogRow], NEW ms \in SUBSET LogIds, NEW offset \in Nat,
         NEW p, NEW q, Cut(p, q, ms, offset), NEW a \in q, Cardinality(Ahead(a, ms)) >= offset
  PROVE  Cardinality(Pages(ms, offset)) > 1
<1>1. p \in SUBSET LogIds /\ q \in SUBSET LogIds /\ q \in SUBSET ms /\ p \in SUBSET ms /\ p \cap q = {} /\ a \in LogIds
  BY DEF Cut
<1>2. Cardinality(q) <= offset
  BY CutSizes
<1>3. PICK b \in ms \ q : Before(b, a)
  <2>1. IsFiniteSet(q) /\ Cardinality(q) \in Nat
    BY <1>1, FiniteRows
  <2>2. Cardinality(q \ {a}) = Cardinality(q) - 1
    BY <2>1, FS_RemoveElement
  <2>3. q \ {a} \in SUBSET LogIds /\ Cardinality(q \ {a}) \in Nat
    BY <1>1, FiniteRows
  <2>4. ~ (Ahead(a, ms) \subseteq q \ {a})
    <3> SUFFICES ASSUME Ahead(a, ms) \subseteq q \ {a} PROVE FALSE
      OBVIOUS
    <3>1. Cardinality(Ahead(a, ms)) <= Cardinality(q \ {a}) /\ Cardinality(Ahead(a, ms)) \in Nat
      BY <2>3, SmallerRows, FiniteRows
    <3> QED BY <1>2, <2>1, <2>2, <3>1
  <2> QED BY <2>4 DEF Ahead
<1>4. p # {}
  <2>1. ms # q
    BY <1>3
  <2> QED BY <2>1, CutSizes
<1>5. PICK c \in p : Before(c, a) /\ Before(a, c)
  <2>1. CASE b \in p
    BY <1>3, <2>1 DEF Cut
  <2>2. CASE b \notin p
    <3>1. PICK c \in p : TRUE
      BY <1>4
    <3>2. Before(a, c) /\ Before(c, b)
      BY <1>3, <2>2, <3>1 DEF Cut
    <3>3. Before(c, a)
      BY <1>1, <1>3, <3>1, <3>2, BeforeOrder
    <3> QED BY <3>1, <3>2, <3>3
  <2> QED BY <2>1, <2>2
<1> DEFINE o == (p \ {c}) \cup {a}
<1> DEFINE r == (q \ {a}) \cup {c}
<1>6. Cardinality(o) = Cardinality(p) /\ Cardinality(r) = Cardinality(q)
  BY <1>1, <1>5, Exchange
<1>7. \A x \in LogIds : /\ Before(x, a) <=> Before(x, c)
                        /\ Before(a, x) <=> Before(c, x)
  BY <1>1, <1>5, BeforeOrder
<1>8. o \subseteq ms /\ r \subseteq ms \ o /\ o \cup r = p \cup q
  BY <1>1, <1>5
<1>9. \A x \in r, y \in o : Before(x, y)
  <2> SUFFICES ASSUME NEW x \in r, NEW y \in o PROVE Before(x, y)
    OBVIOUS
  <2>1. \A u \in q, v \in p : Before(u, v)
    BY DEF Cut
  <2>2. CASE x = c /\ y = a
    BY <1>5, <2>2
  <2>3. CASE x = c /\ y \in p
    BY <1>1, <1>5, <1>7, <2>1, <2>3
  <2>4. CASE x \in q /\ y = a
    BY <1>1, <1>5, <1>7, <2>1, <2>4
  <2>5. CASE x \in q /\ y \in p
    BY <2>1, <2>5
  <2> QED BY <2>2, <2>3, <2>4, <2>5
<1>10. \A x \in o \cup r, y \in ms \ (o \cup r) : Before(x, y)
  BY <1>8 DEF Cut
<1>11. o # p
  BY <1>1
<1> HIDE DEF o, r
<1>12. Cut(o, r, ms, offset)
  BY <1>6, <1>8, <1>9, <1>10 DEF Cut
<1>13. p \in Pages(ms, offset) /\ o \in Pages(ms, offset)
  BY <1>12, PagesAreCuts
<1> QED BY <1>11, <1>13, TwoPages

\* When only one page was possible, a row that it does not hold and that the
\* offset does not skip has the whole page in front of it too.
LEMMA PageInFront ==
  ASSUME table \in [LogIds -> LogRow], NEW ms \in SUBSET LogIds, NEW offset \in Nat, NEW p \in Pages(ms, offset),
         ~ (Cardinality(Pages(ms, offset)) > 1), NEW a \in ms \ p, Cardinality(Ahead(a, ms)) >= offset
  PROVE  Cardinality(Ahead(a, ms)) >= offset + PageLimit
<1>1. PICK q : Cut(p, q, ms, offset)
  BY PagesAreCuts
<1>2. a \notin q
  BY <1>1, SkippedIsTied
<1>3. p \cup q \in SUBSET Ahead(a, ms)
  BY <1>1, <1>2 DEF Cut, Ahead
<1>4. Ahead(a, ms) \in SUBSET LogIds
  BY DEF Ahead
<1>5. Cardinality(p \cup q) = offset + PageLimit
  BY <1>1, <1>2, CutSizes
<1>6. Cardinality(p \cup q) <= Cardinality(Ahead(a, ms))
  BY <1>3, <1>4, SmallerRows
<1>7. offset + PageLimit \in Nat /\ Cardinality(Ahead(a, ms)) \in Nat
  BY <1>4, FiniteRows, SearchAssumption
<1> QED BY <1>5, <1>6, <1>7

\* The rows in front of a row are fewer than all.
LEMMA AheadSmaller ==
  ASSUME NEW ms \in SUBSET LogIds, NEW a \in ms
  PROVE  Cardinality(Ahead(a, ms)) \in Nat /\ Cardinality(Ahead(a, ms)) < Cardinality(ms)
<1>1. Ahead(a, ms) \in SUBSET ms /\ Ahead(a, ms) # ms
  BY DEF Ahead
<1> QED BY <1>1, SmallerRows, FiniteRows

\* What a query finds are logs, and the invariant's types in the fields.
LEMMA Fields ==
  ASSUME SearchTypeOK
  PROVE  /\ walk.plan \in Plans /\ walk.first \in Plans /\ walk.offset \in Nat /\ walk.pages \in Nat
         /\ walk.offset + PageLimit \in Nat
         /\ walk.total \in Nat \cup {NoCount} /\ walk.start \in SUBSET LogIds /\ walk.seen \in SUBSET LogIds
         /\ walk.rows \in SUBSET SUBSET LogIds /\ walk.planned \in SUBSET SUBSET LogIds
         /\ walk.relaxed \in BOOLEAN /\ walk.firstRelaxed \in BOOLEAN /\ walk.natural \in BOOLEAN
         /\ walk.blurred \in BOOLEAN /\ walk.torn \in BOOLEAN /\ walk.replanned \in BOOLEAN
         /\ Found \in SUBSET LogIds /\ FoundFirst \in SUBSET LogIds
<1>1. walk.offset + PageLimit \in Nat
  BY SearchAssumption DEF SearchTypeOK, WalkRecord
<1>2. Found \in SUBSET LogIds /\ FoundFirst \in SUBSET LogIds
  BY DEF Found, FoundFirst, Matching, There
<1> QED BY <1>1, <1>2 DEF SearchTypeOK, WalkRecord

\* What is behind n rows stays behind them while neither the table nor the
\* start of the walk changes.
LEMMA SameBehind ==
  ASSUME table' = table, walk'.start = walk.start, NEW n, NEW ms, NEW got
  PROVE  BehindBy(n, ms, got)' <=> BehindBy(n, ms, got)
BY DEF BehindBy, Ahead, Before

\* The invariant holds before the search.
LEMMA InitSearch == SearchInit => SearchIInv
<1> SUFFICES ASSUME SearchInit PROVE SearchIInv
  OBVIOUS
<1>1. walk \in WalkRecord
  BY SearchAssumption DEF SearchInit, IdleWalk, WalkRecord, NoCount, NoRows
<1>2. /\ walk.pc = "idle" /\ walk.start = {} /\ walk.total = NoCount /\ walk.rows = NoRows /\ walk.pages = 0
  BY DEF SearchInit, IdleWalk
<1>3. SearchTypeOK
  BY <1>1, <1>2, SearchAssumption DEF SearchInit, SearchTypeOK
<1> QED BY <1>2, <1>3 DEF SearchIInv, Fresh, UnseenBehind, RowsBehind, CountHolds, LastRows, CountedNone, WalkComplete, NoCount

\* A stuttering step keeps the invariant.
LEMMA SearchStutters ==
  ASSUME SearchIInv, UNCHANGED searchVars
  PROVE  SearchIInv'
<1>1. table' = table /\ walk' = walk
  BY DEF searchVars
<1>2. \A n, ms, got : BehindBy(n, ms, got)' <=> BehindBy(n, ms, got)
  BY <1>1, SameBehind
<1>3. Found' = Found /\ FoundFirst' = FoundFirst
  BY <1>1 DEF Found, FoundFirst
<1>4. SearchTypeOK' /\ Fresh' /\ CountHolds' /\ CountedNone' /\ WalkComplete'
  BY <1>1, <1>3 DEF SearchIInv, SearchTypeOK, Fresh, CountHolds, CountedNone, WalkComplete
<1>5. LastRows'
  BY <1>1, <1>3 DEF SearchIInv, LastRows, Steady, SamePlan
<1>6. UnseenBehind' /\ RowsBehind'
  BY <1>1, <1>2, <1>3 DEF SearchIInv, UnseenBehind, RowsBehind, Steady, SamePlan
<1> QED BY <1>4, <1>5, <1>6 DEF SearchIInv

\* QueryService.search: a first page starts at 0 and has nothing yet.
LEMMA SearchStarts ==
  ASSUME SearchIInv, NEW natural \in BOOLEAN, NEW plan \in Plans, search(natural, plan)
  PROVE  SearchIInv'
<1>1. table' = table
  BY DEF search
<1>2. walk' \in WalkRecord
  <2>1. IdleWalk \in WalkRecord
    BY SearchAssumption DEF IdleWalk, WalkRecord, NoCount, NoRows
  <2>2. PICK at \in {"hints", "query"}, here \in SUBSET LogIds :
          walk' = [IdleWalk EXCEPT !.pc = at, !.natural = natural, !.plan = plan, !.start = here, !.pages = 1]
    BY DEF search, There
  <2> QED BY <2>1, <2>2 DEF WalkRecord
<1>3. /\ walk'.pc \in {"hints", "query"} /\ walk'.start = There(table) /\ walk'.pages = 1 /\ walk'.offset = 0
      /\ walk'.total = NoCount /\ walk'.rows = NoRows
  BY DEF search, IdleWalk
<1>4. SearchTypeOK'
  BY <1>1, <1>2, <1>3 DEF SearchIInv, SearchTypeOK
<1>5. Fresh' /\ UnseenBehind' /\ RowsBehind' /\ CountHolds' /\ LastRows' /\ CountedNone' /\ WalkComplete'
  BY <1>3 DEF Fresh, UnseenBehind, RowsBehind, CountHolds, LastRows, CountedNone, WalkComplete, NoCount
<1> QED BY <1>4, <1>5 DEF SearchIInv

\* While the plan is made, and when a query rejects: only the place in the
\* code, the attempt, the hints and the plan change.
LEMMA PlanStep ==
  ASSUME SearchIInv, table' = table, walk' \in WalkRecord,
         walk.pc \in {"hints", "translate"}, walk'.pc \in {"hints", "translate", "query", "failed"},
         walk'.start = walk.start, walk'.seen = walk.seen, walk'.pages = walk.pages, walk'.offset = walk.offset,
         walk'.total = walk.total, walk'.rows = walk.rows, walk'.first = walk.first,
         walk'.firstRelaxed = walk.firstRelaxed, walk'.blurred = walk.blurred, walk'.replanned = walk.replanned
  PROVE  SearchIInv'
<1>1. SearchTypeOK'
  BY DEF SearchIInv, SearchTypeOK
<1>2. walk.total = NoCount /\ walk.rows = NoRows
  BY DEF SearchIInv, Fresh
<1>3. Fresh' /\ RowsBehind' /\ CountHolds' /\ LastRows' /\ CountedNone' /\ WalkComplete'
  BY <1>2 DEF SearchIInv, Fresh, RowsBehind, CountHolds, LastRows, CountedNone, WalkComplete, NoCount
<1>4. FoundFirst' = FoundFirst
  BY DEF FoundFirst
<1>5. Steady' => Steady
  BY DEF Steady
<1>6. UnseenBehind'
  BY <1>4, <1>5, SameBehind DEF SearchIInv, UnseenBehind
<1> QED BY <1>1, <1>3, <1>6 DEF SearchIInv

\* loadFacetHints keeps the invariant.
LEMMA HintsLoaded ==
  ASSUME SearchIInv, loadFacetHints
  PROVE  SearchIInv'
<1> DEFINE known == {table[l].svc : l \in There(table)}
<1>1. known \in SUBSET Services /\ walk \in WalkRecord
  BY DEF SearchIInv, SearchTypeOK, There, LogRow
<1> HIDE DEF known
<1>2. walk' = [walk EXCEPT !.pc = "translate", !.attempt = 0, !.hints = known] /\ walk.pc = "hints" /\ table' = table
  BY DEF loadFacetHints, known
<1>3. walk' \in WalkRecord /\ walk'.pc = "translate"
  BY <1>1, <1>2 DEF WalkRecord
<1>4. /\ walk'.start = walk.start /\ walk'.seen = walk.seen /\ walk'.pages = walk.pages /\ walk'.offset = walk.offset
      /\ walk'.total = walk.total /\ walk'.rows = walk.rows /\ walk'.first = walk.first
      /\ walk'.firstRelaxed = walk.firstRelaxed /\ walk'.blurred = walk.blurred /\ walk'.replanned = walk.replanned
  BY <1>1, <1>2 DEF WalkRecord
<1> QED BY <1>2, <1>3, <1>4, PlanStep

\* A plan, of the model or of the heuristic, keeps the invariant.
LEMMA PlanMade ==
  ASSUME SearchIInv, NEW plan \in Plans, walk.pc = "translate", Planned(plan)
  PROVE  SearchIInv'
<1>1. PICK valid : valid = validateGeneratedFilters(plan)
  OBVIOUS
<1>2. valid \in Plans /\ walk \in WalkRecord
  BY <1>1 DEF validateGeneratedFilters, Plans, SearchIInv, SearchTypeOK
<1>3. walk' = [walk EXCEPT !.pc = "query", !.plan = valid, !.attempt = 0, !.hints = {}] /\ table' = table
  BY <1>1 DEF Planned
<1>4. walk' \in WalkRecord /\ walk'.pc = "query"
  BY <1>2, <1>3 DEF WalkRecord
<1>5. /\ walk'.start = walk.start /\ walk'.seen = walk.seen /\ walk'.pages = walk.pages /\ walk'.offset = walk.offset
      /\ walk'.total = walk.total /\ walk'.rows = walk.rows /\ walk'.first = walk.first
      /\ walk'.firstRelaxed = walk.firstRelaxed /\ walk'.blurred = walk.blurred /\ walk'.replanned = walk.replanned
  BY <1>2, <1>3 DEF WalkRecord
<1> QED BY <1>3, <1>4, <1>5, PlanStep

\* A failed attempt, retried or not, keeps the invariant.
LEMMA AttemptFailed ==
  ASSUME SearchIInv, NEW retryable \in BOOLEAN, attemptFails(retryable)
  PROVE  SearchIInv'
<1>1. CASE Retries(retryable)
  <2>1. walk \in WalkRecord /\ walk.attempt \in Nat /\ walk.pc = "translate"
    BY DEF SearchIInv, SearchTypeOK, WalkRecord, attemptFails
  <2>2. PICK next : next = (walk.attempt + 1) % (MaxRetries + 1)
    OBVIOUS
  <2>3. next \in Nat
    BY <2>1, <2>2, SearchAssumption
  <2>4. walk' = [walk EXCEPT !.attempt = next] /\ table' = table
    BY <1>1, <2>2 DEF attemptFails
  <2>5. walk' \in WalkRecord /\ walk'.pc = "translate"
    BY <2>1, <2>3, <2>4 DEF WalkRecord
  <2>6. /\ walk'.start = walk.start /\ walk'.seen = walk.seen /\ walk'.pages = walk.pages /\ walk'.offset = walk.offset
        /\ walk'.total = walk.total /\ walk'.rows = walk.rows /\ walk'.first = walk.first
        /\ walk'.firstRelaxed = walk.firstRelaxed /\ walk'.blurred = walk.blurred /\ walk'.replanned = walk.replanned
    BY <2>1, <2>4 DEF WalkRecord
  <2> QED BY <2>1, <2>4, <2>5, <2>6, PlanStep
<1>2. CASE ~ Retries(retryable)
  BY <1>2, PlanMade, SearchAssumption DEF attemptFails
<1> QED BY <1>1, <1>2

\* A query that rejects keeps the invariant.
LEMMA Rejected ==
  ASSUME SearchIInv, queryRejects
  PROVE  SearchIInv'
<1>1. walk \in WalkRecord /\ walk' = [walk EXCEPT !.pc = "failed"] /\ table' = table /\ walk.pc \in {"hints", "query"}
  BY DEF SearchIInv, SearchTypeOK, queryRejects
<1>2. walk' \in WalkRecord /\ walk'.pc = "failed" /\ walk'.start = walk.start /\ walk'.pages = walk.pages
      /\ walk'.offset = walk.offset /\ walk'.total = walk.total /\ walk'.plan = walk.plan /\ walk'.relaxed = walk.relaxed
  BY <1>1 DEF WalkRecord
<1>3. SearchTypeOK' /\ Found' = Found
  BY <1>1, <1>2 DEF SearchIInv, SearchTypeOK, Found
<1>4. Fresh' /\ CountedNone'
  BY <1>1, <1>2, <1>3 DEF SearchIInv, Fresh, CountedNone
<1> QED BY <1>2, <1>3, <1>4 DEF SearchIInv, UnseenBehind, RowsBehind, CountHolds, LastRows, WalkComplete

\* countLogs: the count is that of now, and when the rows are there already
\* and all before the offset's end, nothing is behind them.
LEMMA Counted ==
  ASSUME SearchIInv, countLogs
  PROVE  SearchIInv'
<1>1. PICK n : n = Cardinality(Found)
  OBVIOUS
<1>2. n \in Nat /\ walk \in WalkRecord /\ Found \in SUBSET LogIds
  BY <1>1, Fields, FiniteRows DEF SearchIInv, SearchTypeOK
<1>3. walk' = [walk EXCEPT !.total = n] /\ walk.pc = "query" /\ table' = table
  BY <1>1 DEF countLogs, Found
<1>4. walk' \in WalkRecord /\ walk'.total = n
  BY <1>2, <1>3 DEF WalkRecord
<1>5. /\ walk'.pc = walk.pc /\ walk'.start = walk.start /\ walk'.seen = walk.seen /\ walk'.pages = walk.pages
      /\ walk'.offset = walk.offset /\ walk'.rows = walk.rows /\ walk'.plan = walk.plan /\ walk'.first = walk.first
      /\ walk'.relaxed = walk.relaxed /\ walk'.firstRelaxed = walk.firstRelaxed
      /\ walk'.blurred = walk.blurred /\ walk'.replanned = walk.replanned
  BY <1>2, <1>3 DEF WalkRecord
<1>6. SearchTypeOK' /\ Found' = Found /\ FoundFirst' = FoundFirst
  BY <1>3, <1>4, <1>5 DEF SearchIInv, SearchTypeOK, Found, FoundFirst
<1>7. Fresh' /\ WalkComplete' /\ CountHolds'
  BY <1>1, <1>3, <1>4, <1>5, <1>6 DEF SearchIInv, Fresh, WalkComplete, CountHolds
<1>8. (Steady' <=> Steady) /\ (SamePlan' <=> SamePlan)
  BY <1>5 DEF Steady, SamePlan
<1>9. UnseenBehind' /\ RowsBehind'
  BY <1>3, <1>5, <1>6, <1>8, SameBehind DEF SearchIInv, UnseenBehind, RowsBehind
<1>10. CountedNone'
  <2>1. n = 0 => Found = {}
    BY <1>1, <1>2, FiniteRows, FS_EmptySet
  <2> QED BY <1>3, <1>4, <1>5, <1>6, <2>1 DEF CountedNone
<1>11. LastRows'
  <2> SUFFICES ASSUME Steady, SamePlan, walk.rows # NoRows, n <= walk.offset + PageLimit,
                      NEW a \in walk.start \cap Found, a \notin walk.seen \cup UNION walk.rows
               PROVE FALSE
    BY <1>3, <1>4, <1>5, <1>6, <1>8 DEF LastRows
  <2>1. Cardinality(Ahead(a, Found)) >= walk.offset + PageLimit
    BY <1>3 DEF SearchIInv, RowsBehind, BehindBy
  <2>2. Cardinality(Ahead(a, Found)) \in Nat /\ Cardinality(Ahead(a, Found)) < n
    BY <1>1, <1>2, AheadSmaller
  <2>3. walk.offset + PageLimit \in Nat
    BY Fields DEF SearchIInv
  <2> QED BY <1>2, <2>1, <2>2, <2>3
<1> QED BY <1>6, <1>7, <1>9, <1>10, <1>11 DEF SearchIInv

\* selectLogs: what is neither seen nor on the page has the page in front of it.
LEMMA Selected ==
  ASSUME SearchIInv, selectLogs
  PROVE  SearchIInv'
<1> DEFINE options == Pages(Found, walk.offset)
<1>1. PICK p \in options : walk' = [walk EXCEPT !.rows = {p}, !.blurred = @ \/ Cardinality(options) > 1]
  BY DEF selectLogs, Found
<1>2. PICK tie \in BOOLEAN : /\ walk' = [walk EXCEPT !.rows = {p}, !.blurred = tie]
                             /\ ~ tie => ~ walk.blurred /\ ~ (Cardinality(options) > 1)
  <2>1. walk' = [walk EXCEPT !.rows = {p}, !.blurred = walk.blurred \/ Cardinality(options) > 1]
    BY <1>1
  <2>2. (walk.blurred \/ Cardinality(options) > 1) \in BOOLEAN
    OBVIOUS
  <2> QED BY <2>1, <2>2
<1>3. walk \in WalkRecord /\ walk.pc = "query" /\ walk.rows = NoRows /\ table' = table
  BY DEF SearchIInv, SearchTypeOK, selectLogs
<1>4. Found \in SUBSET LogIds /\ walk.offset \in Nat /\ walk.offset + PageLimit \in Nat
  BY Fields DEF SearchIInv
<1>5. p \in SUBSET LogIds
  BY <1>1, <1>4 DEF Pages, kSubset
<1>6. walk' \in WalkRecord /\ walk'.rows = {p} /\ walk'.blurred = tie
  BY <1>2, <1>3, <1>5 DEF WalkRecord
<1>7. /\ walk'.pc = walk.pc /\ walk'.start = walk.start /\ walk'.seen = walk.seen /\ walk'.pages = walk.pages
      /\ walk'.offset = walk.offset /\ walk'.total = walk.total /\ walk'.plan = walk.plan /\ walk'.first = walk.first
      /\ walk'.relaxed = walk.relaxed /\ walk'.firstRelaxed = walk.firstRelaxed
      /\ walk'.torn = walk.torn /\ walk'.replanned = walk.replanned
  BY <1>2, <1>3 DEF WalkRecord
<1>8. SearchTypeOK' /\ Found' = Found /\ FoundFirst' = FoundFirst
  BY <1>3, <1>6, <1>7 DEF SearchIInv, SearchTypeOK, Found, FoundFirst
<1>9. Fresh' /\ WalkComplete' /\ CountHolds' /\ CountedNone'
  BY <1>3, <1>6, <1>7, <1>8 DEF SearchIInv, Fresh, WalkComplete, CountHolds, CountedNone, NoRows
<1>10. (Steady' => Steady /\ ~ (Cardinality(options) > 1)) /\ (SamePlan' <=> SamePlan)
  BY <1>2, <1>6, <1>7 DEF Steady, SamePlan
<1>11. UnseenBehind'
  BY <1>3, <1>7, <1>8, <1>10, SameBehind DEF SearchIInv, UnseenBehind
<1>12. Steady' /\ SamePlan => \A a \in (walk.start \cap Found) \ (walk.seen \cup p) :
                                Cardinality(Ahead(a, Found)) >= walk.offset + PageLimit
  <2> SUFFICES ASSUME Steady', SamePlan, NEW a \in (walk.start \cap Found) \ (walk.seen \cup p)
               PROVE Cardinality(Ahead(a, Found)) >= walk.offset + PageLimit
    OBVIOUS
  <2>1. Cardinality(Ahead(a, Found)) >= walk.offset
    <3>1. CASE walk.pages = 1
      <4>1. walk.offset = 0
        BY <3>1 DEF SearchIInv, Fresh
      <4>2. Cardinality(Ahead(a, Found)) \in Nat
        BY <1>4, AheadSmaller
      <4> QED BY <4>1, <4>2
    <3>2. CASE walk.pages # 1
      <4>1. walk.pages > 1
        BY <1>3, <3>2, Fields DEF SearchIInv, Fresh
      <4>2. FoundFirst = Found
        BY <3>2 DEF SamePlan, Found, FoundFirst
      <4>3. BehindBy(walk.offset, FoundFirst, walk.seen)
        BY <1>3, <1>10, <4>1 DEF SearchIInv, UnseenBehind
      <4> QED BY <4>2, <4>3 DEF BehindBy
    <3> QED BY <3>1, <3>2
  <2>2. table \in [LogIds -> LogRow]
    BY DEF SearchIInv, SearchTypeOK
  <2> QED BY <1>1, <1>4, <1>10, <2>1, <2>2, PageInFront
<1>13. RowsBehind'
  <2>1. Steady' /\ SamePlan => BehindBy(walk.offset + PageLimit, Found, walk.seen \cup UNION {p})
    BY <1>12 DEF BehindBy
  <2> QED BY <1>3, <1>6, <1>7, <1>8, <1>10, <2>1, SameBehind DEF RowsBehind
<1>14. LastRows'
  <2> SUFFICES ASSUME Steady', SamePlan, ~ walk.torn, walk.total # NoCount, walk.total <= walk.offset + PageLimit,
                      NEW a \in walk.start \cap Found, a \notin walk.seen \cup p
               PROVE FALSE
    BY <1>6, <1>7, <1>8, <1>10 DEF LastRows
  <2>1. walk.total = Cardinality(Found)
    BY <1>3 DEF SearchIInv, CountHolds
  <2>2. Cardinality(Ahead(a, Found)) \in Nat /\ Cardinality(Ahead(a, Found)) < walk.total
    BY <1>4, <2>1, AheadSmaller
  <2>3. Cardinality(Ahead(a, Found)) >= walk.offset + PageLimit
    BY <1>12
  <2>4. walk.total \in Int
    BY <2>1, <1>4, FiniteRows
  <2> QED BY <1>4, <2>2, <2>3, <2>4
<1> QED BY <1>8, <1>9, <1>11, <1>13, <1>14 DEF SearchIInv

\* Sliding out of the range takes the oldest rows: newest first, nothing that is in
\* front of a row that stays.
LEMMA SlidBehind ==
  ASSUME SearchTypeOK, NEW cut \in 0 .. MaxAt, ~ Ascending \/ Left(cut) = {},
         table' = [l \in LogIds |-> IF l \in Left(cut) THEN [table[l] EXCEPT !.at = 0] ELSE table[l]],
         walk'.start = walk.start \ Left(cut), walk'.first = walk.first, walk'.firstRelaxed = walk.firstRelaxed,
         NEW n, NEW got, BehindBy(n, FoundFirst, got)
  PROVE  BehindBy(n, FoundFirst, got)'
<1>1. table \in [LogIds -> LogRow] /\ MaxAt \in Nat /\ cut \in Nat
  BY SearchAssumption DEF SearchTypeOK
<1>2. /\ \A l \in Left(cut) : table'[l].at = 0
      /\ \A l \in LogIds \ Left(cut) : table'[l] = table[l]
      /\ \A l \in LogIds : table[l].at \in Nat
  BY <1>1 DEF LogRow, Left, There
<1>3. There(table') = There(table) \ Left(cut)
  BY <1>2 DEF There, Left
<1>4. FoundFirst' = FoundFirst \ Left(cut) /\ FoundFirst' \subseteq There(table)
  <2>1. \A l \in There(table) \ Left(cut) : table'[l] = table[l]
    BY <1>2 DEF There
  <2> QED BY <1>3, <2>1 DEF FoundFirst, Matching
<1>5. ASSUME NEW a \in FoundFirst' PROVE Ahead(a, FoundFirst)' = Ahead(a, FoundFirst)
  <2>1. a \in FoundFirst /\ a \in There(table) \ Left(cut)
    BY <1>4, <1>5
  <2>2. \A b \in FoundFirst' : Before(b, a)' <=> Before(b, a)
    BY <1>2, <1>4, <2>1 DEF Before, There
  <2>3. ASSUME NEW b \in FoundFirst, Before(b, a) PROVE b \notin Left(cut)
    <3>1. CASE Left(cut) = {}
      BY <3>1
    <3>2. CASE ~ Ascending
      <4>1. table[b].at >= table[a].at
        BY <2>3, <3>2 DEF Before
      <4>2. table[a].at \in Nat /\ table[a].at > cut
        BY <1>1, <1>2, <2>1 DEF Left, There
      <4>3. b \in Left(cut) => table[b].at <= cut /\ table[b].at \in Nat
        BY <1>2 DEF Left, There
      <4> QED BY <1>1, <4>1, <4>2, <4>3
    <3> QED BY <3>1, <3>2
  <2> QED BY <1>4, <2>2, <2>3 DEF Ahead
<1>6. SUFFICES ASSUME NEW a \in (walk'.start \cap FoundFirst') \ got
               PROVE  Cardinality(Ahead(a, FoundFirst)') >= n
  BY DEF BehindBy
<1>7. a \in (walk.start \cap FoundFirst) \ got
  BY <1>4
<1> QED BY <1>5, <1>7 DEF BehindBy

\* The token of the next page skips what is in front of every unseen row.
LEMMA NextPageAsked ==
  ASSUME SearchIInv, NEW cut \in 0 .. MaxAt, nextPage(cut)
  PROVE  SearchIInv'
<1>0. walk \in WalkRecord /\ walk.pc = "page" /\ SearchTypeOK
  BY DEF SearchIInv, SearchTypeOK, nextPage
<1>1. PICK at \in {"hints", "query"}, o \in Nat, n \in Nat, st \in SUBSET LogIds, go \in SUBSET LogIds, bl \in BOOLEAN :
        /\ walk' = [walk EXCEPT !.pc = at, !.offset = o, !.relaxed = FALSE, !.total = NoCount, !.rows = NoRows, !.pages = n,
                                !.start = st, !.gone = go, !.blurred = bl]
        /\ o = walk.offset + PageLimit /\ n = walk.pages + 1 /\ st = walk.start \ Left(cut)
        /\ ~ bl => ~ walk.blurred /\ (~ Ascending \/ Left(cut) = {})
  <2>1. /\ walk.offset + PageLimit \in Nat /\ walk.pages + 1 \in Nat
        /\ walk.start \ Left(cut) \in SUBSET LogIds /\ walk.gone \cup Left(cut) \in SUBSET LogIds
    BY <1>0, Fields DEF WalkRecord, Left, There
  <2>2. PICK at \in {"hints", "query"} : at = IF walk.natural THEN "hints" ELSE "query"
    OBVIOUS
  <2>b. (walk.blurred \/ (Ascending /\ Left(cut) # {})) \in BOOLEAN
    BY <1>0, Fields
  <2>3. walk' = [walk EXCEPT !.pc = at, !.offset = walk.offset + PageLimit, !.relaxed = FALSE, !.total = NoCount,
                             !.rows = NoRows, !.pages = walk.pages + 1, !.start = walk.start \ Left(cut), !.gone = walk.gone \cup Left(cut),
                             !.blurred = walk.blurred \/ (Ascending /\ Left(cut) # {})]
    BY <2>2 DEF nextPage
  <2> QED BY <2>1, <2>3, <2>b
<1>2. table' = [l \in LogIds |-> IF l \in Left(cut) THEN [table[l] EXCEPT !.at = 0] ELSE table[l]]
  BY DEF nextPage
<1>3. walk' \in WalkRecord /\ walk'.pc = at /\ walk'.offset = o /\ walk'.total = NoCount /\ walk'.rows = NoRows /\ walk'.pages = n
  BY <1>1, <1>0 DEF WalkRecord, NoCount, NoRows
<1>4. /\ walk'.start = st /\ walk'.seen = walk.seen /\ walk'.first = walk.first
      /\ walk'.firstRelaxed = walk.firstRelaxed /\ walk'.blurred = bl /\ walk'.replanned = walk.replanned
  BY <1>1, <1>0 DEF WalkRecord
<1>5. SearchTypeOK'
  <2>1. table \in [LogIds -> LogRow] /\ 0 \in 0 .. MaxAt
    BY <1>0, SearchAssumption DEF SearchTypeOK
  <2>2. \A l \in LogIds : [table[l] EXCEPT !.at = 0] \in LogRow
    BY <2>1 DEF LogRow
  <2>3. table' \in [LogIds -> LogRow] /\ \A l \in LogIds \ Left(cut) : table'[l] = table[l]
    BY <1>2, <2>1, <2>2
  <2>4. st \subseteq There(table')
    BY <1>0, <1>1, <2>3 DEF SearchTypeOK, There
  <2> QED BY <1>3, <1>4, <2>3, <2>4 DEF SearchTypeOK, There
<1>6. n > 1
  BY <1>0, <1>1, Fields DEF SearchIInv, Fresh
<1>7. Fresh' /\ RowsBehind' /\ CountHolds' /\ LastRows' /\ CountedNone' /\ WalkComplete'
  <2>1. walk'.pc # "done" /\ walk'.pc # "idle" /\ walk'.pages >= 1 /\ walk'.pages # 1
    BY <1>1, <1>3, <1>6
  <2>2. walk'.total # 0
    BY <1>3 DEF NoCount
  <2> QED BY <1>3, <2>1, <2>2 DEF Fresh, RowsBehind, CountHolds, LastRows, CountedNone, WalkComplete
<1>8. Steady' => Steady /\ (~ Ascending \/ Left(cut) = {})
  BY <1>1, <1>4 DEF Steady
<1>9. UnseenBehind'
  <2>0. PICK got : got = walk.seen
    OBVIOUS
  <2> SUFFICES ASSUME Steady' PROVE BehindBy(o, FoundFirst, got)'
    BY <1>1, <1>3, <1>4, <2>0 DEF UnseenBehind
  <2>1. BehindBy(o, FoundFirst, got)
    BY <1>0, <1>1, <1>8, <2>0 DEF SearchIInv, UnseenBehind
  <2> QED BY <1>0, <1>1, <1>2, <1>4, <1>8, <2>1, SlidBehind
<1> QED BY <1>5, <1>7, <1>9 DEF SearchIInv

\* The relaxed search starts as a fresh query of the same page.
LEMMA Relaxed ==
  ASSUME SearchIInv, searchSettles, Relaxes(walk)
  PROVE  SearchIInv'
<1>1. walk' = [walk EXCEPT !.relaxed = TRUE, !.total = NoCount, !.planned = walk.rows, !.rows = NoRows]
      /\ walk.pc = "query" /\ table' = table /\ walk \in WalkRecord /\ walk.rows \in SUBSET SUBSET LogIds
  BY Fields DEF searchSettles, SearchIInv, SearchTypeOK
<1>2. walk' \in WalkRecord /\ walk'.total = NoCount /\ walk'.rows = NoRows
  BY <1>1 DEF WalkRecord, NoCount, NoRows
<1>3. /\ walk'.pc = "query" /\ walk'.start = walk.start /\ walk'.seen = walk.seen /\ walk'.first = walk.first
      /\ walk'.pages = walk.pages /\ walk'.offset = walk.offset
      /\ walk'.firstRelaxed = walk.firstRelaxed /\ walk'.blurred = walk.blurred /\ walk'.replanned = walk.replanned
  BY <1>1 DEF WalkRecord
<1>4. SearchTypeOK' /\ FoundFirst' = FoundFirst
  BY <1>1, <1>2, <1>3 DEF SearchIInv, SearchTypeOK, FoundFirst
<1>5. Fresh' /\ RowsBehind' /\ CountHolds' /\ LastRows' /\ CountedNone' /\ WalkComplete'
  <2>1. walk'.total # 0
    BY <1>2 DEF NoCount
  <2>2. Fresh'
    BY <1>1, <1>2, <1>3 DEF SearchIInv, Fresh
  <2> QED BY <1>2, <1>3, <2>1, <2>2 DEF RowsBehind, CountHolds, LastRows, CountedNone, WalkComplete
<1>6. Steady' => Steady
  BY <1>3 DEF Steady
<1>7. UnseenBehind'
  BY <1>1, <1>3, <1>4, <1>6, SameBehind DEF SearchIInv, UnseenBehind
<1> QED BY <1>4, <1>5, <1>7 DEF SearchIInv

\* The answer: another page follows, or every row was seen.
LEMMA Answered ==
  ASSUME SearchIInv, searchSettles, ~ Relaxes(walk)
  PROVE  SearchIInv'
<1> DEFINE answer == walk.seen \cup AnswerRows(walk)
<1> DEFINE plan1 == IF walk.pages = 1 THEN walk.plan ELSE walk.first
<1> DEFINE relaxed1 == IF walk.pages = 1 THEN walk.relaxed ELSE walk.firstRelaxed
<1> DEFINE other == walk.replanned \/ (walk.pages > 1 /\ (walk.plan # walk.first \/ walk.relaxed # walk.firstRelaxed))
<1> DEFINE goes == IF HasNextPage(walk) THEN "page" ELSE "done"
<1>0. PICK at \in {"page", "done"}, got \in SUBSET LogIds, fp \in Plans, fr \in BOOLEAN, re \in BOOLEAN :
        /\ walk' = [walk EXCEPT !.pc = at, !.seen = got, !.planned = NoRows, !.first = fp, !.firstRelaxed = fr, !.replanned = re]
        /\ at = goes /\ got = answer /\ fp = plan1 /\ fr = relaxed1 /\ (re <=> other)
  <2>1. walk' = [walk EXCEPT !.pc = goes, !.seen = answer, !.planned = NoRows, !.first = plan1,
                             !.firstRelaxed = relaxed1, !.replanned = other]
    BY DEF searchSettles
  <2>2. answer \in SUBSET LogIds
    BY Fields DEF SearchIInv, AnswerRows
  <2>3. goes \in {"page", "done"} /\ plan1 \in Plans
    BY Fields DEF SearchIInv
  <2>4. relaxed1 \in BOOLEAN /\ other \in BOOLEAN
    BY Fields DEF SearchIInv
  <2> HIDE DEF answer, plan1, relaxed1, other, goes
  <2> QED BY <2>1, <2>2, <2>3, <2>4
<1>1. /\ at = (IF HasNextPage(walk) THEN "page" ELSE "done") /\ got = walk.seen \cup AnswerRows(walk)
      /\ fp = (IF walk.pages = 1 THEN walk.plan ELSE walk.first)
      /\ fr = (IF walk.pages = 1 THEN walk.relaxed ELSE walk.firstRelaxed)
      /\ re <=> (walk.replanned \/ (walk.pages > 1 /\ (walk.plan # walk.first \/ walk.relaxed # walk.firstRelaxed)))
  BY <1>0
<1> HIDE DEF answer, plan1, relaxed1, other, goes
<1>2. walk \in WalkRecord /\ walk.pc = "query" /\ walk.total # NoCount /\ walk.rows # NoRows /\ table' = table
  BY DEF SearchIInv, SearchTypeOK, searchSettles
<1>3. walk' \in WalkRecord /\ walk'.pc = at /\ walk'.seen = got /\ walk'.first = fp /\ walk'.firstRelaxed = fr /\ walk'.replanned = re
  <2>1. walk' \in WalkRecord
    BY <1>0, <1>2 DEF WalkRecord, NoRows
  <2>2. walk'.pc = at /\ walk'.seen = got /\ walk'.first = fp
    BY <1>0, <1>2 DEF WalkRecord
  <2>3. walk'.firstRelaxed = fr /\ walk'.replanned = re
    BY <1>0, <1>2 DEF WalkRecord
  <2> QED BY <2>1, <2>2, <2>3
<1>4. /\ walk'.start = walk.start /\ walk'.pages = walk.pages /\ walk'.offset = walk.offset /\ walk'.plan = walk.plan
      /\ walk'.relaxed = walk.relaxed /\ walk'.total = walk.total /\ walk'.blurred = walk.blurred /\ walk'.torn = walk.torn
      /\ walk'.natural = walk.natural
  BY <1>0, <1>2 DEF WalkRecord
<1>5. SearchTypeOK' /\ Found' = Found
  BY <1>2, <1>3, <1>4 DEF SearchIInv, SearchTypeOK, Found
<1>6. Fresh' /\ RowsBehind' /\ CountHolds' /\ LastRows'
  BY <1>2, <1>3, <1>4 DEF SearchIInv, Fresh, RowsBehind, CountHolds, LastRows
<1>7. CountedNone'
  BY <1>2, <1>3, <1>4, <1>5 DEF SearchIInv, CountedNone, Relaxes
<1>8. walk.pages = 1 \/ walk.pages > 1
  BY <1>2, Fields DEF SearchIInv, Fresh
<1>9. ~ re => ~ walk.replanned /\ SamePlan
  BY <1>1, <1>8 DEF SamePlan
<1>10. Steady' => Steady /\ SamePlan
  BY <1>3, <1>4, <1>9 DEF Steady
<1>11. HasNextPage(walk) => got = walk.seen \cup UNION walk.rows
  <2>1. HasNextPage(walk) => walk.total # 0
    BY Fields DEF HasNextPage, SearchIInv
  <2> QED BY <1>1, <2>1 DEF AnswerRows
<1>12. UnseenBehind'
  <2> SUFFICES ASSUME Steady', at = "page" PROVE BehindBy(walk.offset + PageLimit, FoundFirst, walk.seen)'
    BY <1>1, <1>3 DEF UnseenBehind
  <2>1. FoundFirst' = Found
    BY <1>1, <1>2, <1>3, <1>10 DEF Found, FoundFirst, SamePlan
  <2>2. BehindBy(walk.offset + PageLimit, Found, got)
    BY <1>1, <1>2, <1>10, <1>11 DEF SearchIInv, RowsBehind
  <2> QED BY <1>2, <1>3, <1>4, <2>1, <2>2, SameBehind
<1>13. WalkComplete'
  <2> SUFFICES ASSUME at = "done", ~ walk.torn, Steady' PROVE walk.start \cap Found \subseteq got
    BY <1>3, <1>4, <1>5 DEF WalkComplete, Steady, Found
  <2>1. CASE walk.total = 0
    BY <2>1 DEF SearchIInv, CountedNone
  <2>2. CASE walk.total # 0
    <3>1. got = walk.seen \cup UNION walk.rows
      BY <1>1, <2>2 DEF AnswerRows
    <3>2. walk.total <= walk.offset + PageLimit
      <4>1. ~ (walk.offset + PageLimit < walk.total)
        BY <1>1 DEF HasNextPage
      <4>2. walk.total \in Int /\ walk.offset + PageLimit \in Int
        BY <1>2, Fields DEF SearchIInv
      <4> QED BY <4>1, <4>2
    <3> QED BY <1>2, <1>10, <3>1, <3>2 DEF SearchIInv, LastRows
  <2> QED BY <2>1, <2>2
<1> QED BY <1>5, <1>6, <1>7, <1>12, <1>13 DEF SearchIInv

\* What an insert leaves as it was.
LEMMA InsertKeeps ==
  ASSUME SearchTypeOK, NEW l \in LogIds, NEW r \in LogRow, insertLogs(l, r)
  PROVE  /\ table' \in [LogIds -> LogRow] /\ l \notin There(table)
         /\ \A x \in LogIds \ {l} : table'[x] = table[x]
         /\ There(table) \subseteq There(table')
<1>1. table' = [table EXCEPT ![l] = r] /\ table[l].at = 0 /\ table \in [LogIds -> LogRow]
  BY DEF insertLogs, SearchTypeOK
<1>2. table' \in [LogIds -> LogRow] /\ \A x \in LogIds \ {l} : table'[x] = table[x]
  BY <1>1
<1> QED BY <1>1, <1>2 DEF There

\* The rows of the start match as before, and more may come in front of them.
LEMMA InsertBehind ==
  ASSUME SearchTypeOK, NEW l \in LogIds, NEW r \in LogRow, insertLogs(l, r), walk'.start = walk.start,
         NEW plan \in Plans, NEW relaxed \in BOOLEAN
  PROVE  /\ walk.start \cap Matching(table', plan, relaxed) = walk.start \cap Matching(table, plan, relaxed)
         /\ \A n \in Nat : \A got : BehindBy(n, Matching(table, plan, relaxed), got)
                                  => BehindBy(n, Matching(table, plan, relaxed), got)'
<1>1. /\ table' \in [LogIds -> LogRow] /\ l \notin There(table)
      /\ \A x \in LogIds \ {l} : table'[x] = table[x]
      /\ There(table) \subseteq There(table')
  BY InsertKeeps
<1>2. walk.start \subseteq There(table)
  BY DEF SearchTypeOK
<1>3. \A x \in There(table) : x \in LogIds \ {l} /\ table'[x] = table[x]
  BY <1>1 DEF There
<1>4. \A x \in There(table) : x \in Matching(table', plan, relaxed) <=> x \in Matching(table, plan, relaxed)
  BY <1>1, <1>3 DEF Matching
<1>5. walk.start \cap Matching(table', plan, relaxed) = walk.start \cap Matching(table, plan, relaxed)
  BY <1>2, <1>4
<1>6. Matching(table, plan, relaxed) \subseteq There(table) /\ Matching(table', plan, relaxed) \in SUBSET LogIds
  BY DEF Matching, There
<1>7. \A a \in There(table) : Ahead(a, Matching(table, plan, relaxed)) \subseteq Ahead(a, Matching(table, plan, relaxed))'
  BY <1>3, <1>4, <1>6 DEF Ahead, Before
<1>8. \A a \in There(table) :
        /\ Cardinality(Ahead(a, Matching(table, plan, relaxed))) <= Cardinality(Ahead(a, Matching(table, plan, relaxed)))'
        /\ Cardinality(Ahead(a, Matching(table, plan, relaxed))) \in Nat
        /\ Cardinality(Ahead(a, Matching(table, plan, relaxed)))' \in Nat
  <2> SUFFICES ASSUME NEW a \in There(table)
               PROVE  /\ Cardinality(Ahead(a, Matching(table, plan, relaxed))) <= Cardinality(Ahead(a, Matching(table, plan, relaxed)))'
                      /\ Cardinality(Ahead(a, Matching(table, plan, relaxed))) \in Nat
                      /\ Cardinality(Ahead(a, Matching(table, plan, relaxed)))' \in Nat
    OBVIOUS
  <2>1. PICK before, after : /\ before = Ahead(a, Matching(table, plan, relaxed))
                             /\ after = Ahead(a, Matching(table, plan, relaxed))'
    OBVIOUS
  <2>2. after \in SUBSET LogIds
    BY <1>6, <2>1 DEF Ahead
  <2>3. before \in SUBSET after
    BY <1>7, <2>1
  <2>4. before \in SUBSET LogIds
    BY <2>2, <2>3
  <2>5. Cardinality(before) <= Cardinality(after) /\ Cardinality(before) \in Nat /\ Cardinality(after) \in Nat
    BY <2>2, <2>3, <2>4, SmallerRows, FiniteRows
  <2> QED BY <2>1, <2>5
<1>9. \A n \in Nat : \A got : BehindBy(n, Matching(table, plan, relaxed), got)
                            => BehindBy(n, Matching(table, plan, relaxed), got)'
  <2> SUFFICES ASSUME NEW n \in Nat, NEW got, BehindBy(n, Matching(table, plan, relaxed), got),
                      NEW a \in (walk.start \cap Matching(table', plan, relaxed)) \ got
               PROVE Cardinality(Ahead(a, Matching(table, plan, relaxed)))' >= n
    BY DEF BehindBy
  <2>1. a \in (walk.start \cap Matching(table, plan, relaxed)) \ got /\ a \in There(table)
    BY <1>2, <1>5
  <2>2. Cardinality(Ahead(a, Matching(table, plan, relaxed))) >= n
    BY <2>1 DEF BehindBy
  <2> QED BY <1>8, <2>1, <2>2
<1> QED BY <1>5, <1>9

\* An insert keeps the invariant.
LEMMA Inserted ==
  ASSUME SearchIInv, NEW l \in LogIds, NEW r \in LogRow, insertLogs(l, r)
  PROVE  SearchIInv'
<1>0. SearchTypeOK /\ walk \in WalkRecord
  BY DEF SearchIInv, SearchTypeOK
<1> DEFINE between == walk.pc = "query" /\ walk.total # NoCount /\ walk.rows = NoRows
<1>1. PICK t \in BOOLEAN : walk' = [walk EXCEPT !.torn = t] /\ (t <=> walk.torn \/ between)
  <2>1. walk' = [walk EXCEPT !.torn = walk.torn \/ between]
    BY DEF insertLogs
  <2>2. (walk.torn \/ between) \in BOOLEAN
    OBVIOUS
  <2> HIDE DEF between
  <2> QED BY <2>1, <2>2
<1>2. walk' \in WalkRecord /\ walk'.torn = t
  BY <1>0, <1>1 DEF WalkRecord
<1>3. /\ walk'.pc = walk.pc /\ walk'.start = walk.start /\ walk'.seen = walk.seen /\ walk'.pages = walk.pages
      /\ walk'.offset = walk.offset /\ walk'.total = walk.total /\ walk'.rows = walk.rows /\ walk'.plan = walk.plan
      /\ walk'.first = walk.first /\ walk'.natural = walk.natural
  BY <1>0, <1>1 DEF WalkRecord
<1>4. /\ walk'.relaxed = walk.relaxed /\ walk'.firstRelaxed = walk.firstRelaxed
      /\ walk'.blurred = walk.blurred /\ walk'.replanned = walk.replanned
  BY <1>0, <1>1 DEF WalkRecord
<1>5. PICK plan \in Plans, relaxed \in BOOLEAN, fp \in Plans, fr \in BOOLEAN :
        plan = walk.plan /\ relaxed = walk.relaxed /\ fp = walk.first /\ fr = walk.firstRelaxed
  BY <1>0, Fields
<1>6. /\ Found = Matching(table, plan, relaxed) /\ Found' = Matching(table', plan, relaxed)
      /\ FoundFirst = Matching(table, fp, fr) /\ FoundFirst' = Matching(table', fp, fr)
  BY <1>3, <1>4, <1>5 DEF Found, FoundFirst
<1>7. walk.start \cap Found' = walk.start \cap Found
  BY <1>0, <1>3, <1>6, InsertBehind
<1>8. \A n \in Nat : \A got : /\ BehindBy(n, Found, got) => BehindBy(n, Found, got)'
                              /\ BehindBy(n, FoundFirst, got) => BehindBy(n, FoundFirst, got)'
  BY <1>0, <1>3, <1>6, InsertBehind
<1>9. SearchTypeOK'
  <2>1. table' \in [LogIds -> LogRow] /\ There(table) \subseteq There(table')
    BY <1>0, InsertKeeps
  <2> QED BY <1>0, <1>2, <1>3, <2>1 DEF SearchTypeOK
<1>10. (Steady' <=> Steady) /\ (SamePlan' <=> SamePlan)
  BY <1>3, <1>4 DEF Steady, SamePlan
<1>11. Fresh'
  BY <1>3 DEF SearchIInv, Fresh
<1>12. walk.offset \in Nat /\ walk.offset + PageLimit \in Nat
  BY <1>0, Fields
<1>13. UnseenBehind'
  BY <1>3, <1>8, <1>10, <1>12 DEF SearchIInv, UnseenBehind
<1>14. CountHolds'
  BY <1>1, <1>2, <1>3 DEF CountHolds
<1>15. LastRows'
  BY <1>1, <1>2, <1>3, <1>7, <1>10 DEF SearchIInv, LastRows
<1>16. CountedNone'
  BY <1>3, <1>4, <1>7 DEF SearchIInv, CountedNone
<1>17. WalkComplete'
  BY <1>3 DEF insertLogs, WalkComplete
<1>18. RowsBehind'
  BY <1>3, <1>8, <1>10, <1>12 DEF SearchIInv, RowsBehind
<1> QED BY <1>9, <1>11, <1>13, <1>14, <1>15, <1>16, <1>17, <1>18 DEF SearchIInv

\* Every step keeps the invariant.
LEMMA SearchStep == SearchIInv /\ [SearchNext]_searchVars => SearchIInv'
<1> SUFFICES ASSUME SearchIInv, [SearchNext]_searchVars PROVE SearchIInv'
  OBVIOUS
<1>1. CASE UNCHANGED searchVars
  BY <1>1, SearchStutters
<1>2. CASE \E cut \in 0 .. MaxAt : nextPage(cut)
  BY <1>2, NextPageAsked
<1>3. CASE \E natural \in BOOLEAN, plan \in Plans : search(natural, plan)
  BY <1>3, SearchStarts
<1>4. CASE \E l \in LogIds, r \in LogRow : insertLogs(l, r)
  BY <1>4, Inserted
<1>5. CASE PageStep
  <2>1. CASE loadFacetHints
    BY <2>1, HintsLoaded
  <2>2. CASE countLogs
    BY <2>2, Counted
  <2>3. CASE selectLogs
    BY <2>3, Selected
  <2>4. CASE searchSettles
    BY <2>4, Relaxed, Answered
  <2>5. CASE queryRejects
    BY <2>5, Rejected
  <2>6. CASE \E plan \in Plans : translateQueryWithLLM(plan)
    BY <2>6, PlanMade DEF translateQueryWithLLM
  <2>7. CASE \E retryable \in BOOLEAN : attemptFails(retryable)
    BY <2>7, AttemptFailed
  <2> QED BY <1>5, <2>1, <2>2, <2>3, <2>4, <2>5, <2>6, <2>7 DEF PageStep
<1> QED BY <1>1, <1>2, <1>3, <1>4, <1>5 DEF SearchNext

\* The invariant gives what the search promises.
LEMMA SearchGives == SearchIInv => SearchSound
<1> SUFFICES ASSUME SearchIInv, walk.pc = "done", walk.natural, walk.total = 0
             PROVE  walk.start \cap Matching(table, walk.plan, TRUE) = {}
  BY DEF SearchIInv, SearchSound, EmptyMeansNone
<1>1. walk.start \cap Found = {} /\ (walk.relaxed \/ walk.plan.svc = NoService)
  BY DEF SearchIInv, CountedNone
<1>2. Matching(table, walk.plan, TRUE) \subseteq Found
  BY <1>1 DEF Found, Matching
<1> QED BY <1>1, <1>2

(***************************************************************************)
(* LogRepository.search and QueryService.search keep their promise for any *)
(* table, page size and number of pages: the tokens lead past every log    *)
(* that matched when the walk began, and an empty answer to a natural-     *)
(* language search means that nothing matched its text.                    *)
(***************************************************************************)
THEOREM SearchTheorem == SearchSpec => []SearchSound
<1>1. SearchIInv /\ [SearchNext]_searchVars => SearchIInv'
  BY SearchStep
<1> QED BY InitSearch, <1>1, SearchGives, PTL DEF SearchSpec
=============================================================================
