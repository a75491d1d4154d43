-------------------------- MODULE DispatcherProofs --------------------------
(***************************************************************************)
(* Proofs about the subscriptions and the dispatcher: who is told of an    *)
(* incident, and how often, for any subscriptions, rules and jobs and any  *)
(* number of retries.                                                      *)
(***************************************************************************)
EXTENDS NotificationDispatcher, TLAPS

(***************************************************************************)
(* Subscription rows.                                                      *)
(***************************************************************************)
\* What the rows keep while they and the rules change.
SubscriptionIInv == SubscriptionTypeOK /\ AskedIsUnborn /\ SubscribedRulesExist

\* A row once inserted stays, and with it its scope.
RowsKept == \A s \in Subs : sub[s].row # "unborn" => sub'[s].row # "unborn" /\ sub'[s].scope = sub[s].scope

\* What the writes of the service make of a row.
LEMMA RowUpdates ==
  ASSUME NEW r \in SubRow
  PROVE  /\ \A y \in RowState : LET n == [r EXCEPT !.row = y] IN n \in SubRow /\ n.row = y /\ n.scope = r.scope
         /\ \A e \in BOOLEAN, m \in BOOLEAN, k \in BOOLEAN :
              LET n == [r EXCEPT !.enabled = e, !.medium = m, !.network = k]
              IN  n \in SubRow /\ n.row = r.row /\ n.scope = r.scope
<1>1. \A y \in RowState : [r EXCEPT !.row = y] \in SubRow
  BY Zenon DEF SubRow
<1>2. \A e \in BOOLEAN, m \in BOOLEAN, k \in BOOLEAN : [r EXCEPT !.enabled = e, !.medium = m, !.network = k] \in SubRow
  BY Zenon DEF SubRow
<1>3. \A y \in RowState : [r EXCEPT !.row = y].row = y /\ [r EXCEPT !.row = y].scope = r.scope
  BY DEF SubRow
<1>4. ASSUME NEW e \in BOOLEAN, NEW m \in BOOLEAN, NEW k \in BOOLEAN
      PROVE  /\ [r EXCEPT !.enabled = e, !.medium = m, !.network = k].row = r.row
             /\ [r EXCEPT !.enabled = e, !.medium = m, !.network = k].scope = r.scope
  BY DEF SubRow
<1> QED BY <1>1, <1>2, <1>3, <1>4, Zenon

\* One row changes, or is inserted.
LEMMA OneRowStep ==
  ASSUME SubscriptionIInv, NEW s \in Subs, NEW n \in SubRow, sub' = [sub EXCEPT ![s] = n], UNCHANGED ruleRow,
         \/ asking' = asking \/ asking' = [asking EXCEPT ![s] = {}],
         asking'[s] = {} \/ n.row = "unborn",
         sub[s].row # "unborn" => n.row # "unborn" /\ n.scope = sub[s].scope,
         n.row = "live" /\ n.scope # WholeTeam => ruleRow[n.scope] = "live"
  PROVE  SubscriptionIInv' /\ RowsKept
<1> USE DEF SubscriptionIInv, SubscriptionTypeOK
<1>1. sub' \in [Subs -> SubRow] /\ sub'[s] = n /\ \A x \in Subs : x # s => sub'[x] = sub[x]
  OBVIOUS
<1>2. asking' \in [Subs -> SUBSET Scope] /\ \A x \in Subs : x # s => asking'[x] = asking[x]
  OBVIOUS
<1>3. SubscriptionTypeOK'
  BY <1>1, <1>2
<1>4. AskedIsUnborn'
  BY <1>1, <1>2 DEF AskedIsUnborn
<1>5. SubscribedRulesExist'
  BY <1>1 DEF SubscribedRulesExist
<1>6. RowsKept
  BY <1>1 DEF RowsKept
<1> QED BY <1>3, <1>4, <1>5, <1>6

\* Every operation of SubscriptionService, and those on rules, keep this.
LEMMA SubscriptionStep ==
  ASSUME SubscriptionIInv, SubscriptionNext
  PROVE  SubscriptionIInv' /\ RowsKept
<1> USE ScopeAssumption
<1>0. sub \in [Subs -> SubRow] /\ ruleRow \in [Rules -> RowState] /\ asking \in [Subs -> SUBSET Scope]
  BY DEF SubscriptionIInv, SubscriptionTypeOK
<1>1. ASSUME NEW r \in Rules, createRule(r) PROVE SubscriptionIInv' /\ RowsKept
  <2>1. ruleRow' \in [Rules -> RowState]
    BY <1>0, <1>1 DEF createRule, RowState
  <2>2. SubscribedRulesExist'
    <3>1. \A x \in Rules : ruleRow[x] = "live" => ruleRow'[x] = "live"
      BY <1>0, <1>1 DEF createRule
    <3>2. \A s \in Subs : sub[s].scope \in Scope
      BY <1>0 DEF SubRow
    <3> QED BY <1>1, <3>1, <3>2 DEF createRule, SubscribedRulesExist, SubscriptionIInv, Scope
  <2> QED BY <1>1, <2>1, <2>2 DEF createRule, SubscriptionIInv, SubscriptionTypeOK, AskedIsUnborn, RowsKept
<1>2. ASSUME NEW r \in Rules, deleteRule(r) PROVE SubscriptionIInv' /\ RowsKept
  <2>1. ASSUME NEW row \in SubRow
        PROVE  LET n == CascadesRule(row, r)
               IN  /\ n \in SubRow /\ n.scope = row.scope /\ (n.row = "unborn" <=> row.row = "unborn")
                   /\ n.row = "live" => row.row = "live" /\ row.scope # r
    <3>1. "deleted" \in RowState
      BY DEF RowState
    <3>2. CASE row.scope = r /\ row.row = "live"
      <4>1. CascadesRule(row, r) = [row EXCEPT !.row = "deleted"]
        BY <3>2, Zenon DEF CascadesRule
      <4>2. PICK n \in SubRow : n = CascadesRule(row, r) /\ n.row = "deleted" /\ n.scope = row.scope
        BY <3>1, <4>1, RowUpdates, Zenon
      <4> QED BY <3>2, <4>2
    <3>3. CASE ~ (row.scope = r /\ row.row = "live")
      <4>1. CascadesRule(row, r) = row
        BY <3>3, Zenon DEF CascadesRule
      <4> QED BY <3>3, <4>1
    <3> QED BY <3>2, <3>3
  <2>2. \A s \in Subs : sub'[s] = CascadesRule(sub[s], r)
    BY <1>2, Zenon DEF deleteRule
  <2>3. sub' \in [Subs -> SubRow]
    BY <1>0, <1>2, <2>1, Zenon DEF deleteRule
  <2>4. ruleRow' \in [Rules -> RowState] /\ \A x \in Rules : x # r => ruleRow'[x] = ruleRow[x]
    BY <1>0, <1>2 DEF deleteRule, RowState
  <2>5. \A s \in Subs : /\ sub'[s].scope = sub[s].scope /\ (sub'[s].row = "unborn" <=> sub[s].row = "unborn")
                        /\ sub'[s].row = "live" => sub[s].row = "live" /\ sub[s].scope # r
    BY <1>0, <2>1, <2>2
  <2>6. asking' = asking
    BY <1>2, Zenon DEF deleteRule
  <2>7. SubscribedRulesExist'
    <3>1. \A s \in Subs : sub[s].scope \in Scope
      BY <1>0 DEF SubRow
    <3> QED BY <2>4, <2>5, <3>1 DEF SubscribedRulesExist, SubscriptionIInv, Scope
  <2> QED BY <1>0, <2>3, <2>4, <2>5, <2>6, <2>7 DEF SubscriptionIInv, SubscriptionTypeOK, AskedIsUnborn, RowsKept
<1>3. ASSUME NEW s \in Subs, NEW scope \in Scope, postSubscription(s, scope) PROVE SubscriptionIInv' /\ RowsKept
  BY <1>0, <1>3 DEF postSubscription, SubscriptionIInv, SubscriptionTypeOK, AskedIsUnborn, SubscribedRulesExist, RowsKept
<1>4. ASSUME NEW s \in Subs, NEW medium \in BOOLEAN, NEW network \in BOOLEAN, create(s, medium, network)
      PROVE  SubscriptionIInv' /\ RowsKept
  <2>1. PICK scope \in asking[s] :
          /\ asking' = [asking EXCEPT ![s] = {}] /\ UNCHANGED ruleRow
          /\ sub' = IF scope = WholeTeam \/ ruleRow[scope] = "live"
                      THEN [sub EXCEPT ![s] = [row |-> "live", scope |-> scope, enabled |-> TRUE,
                                               medium |-> medium, network |-> network]]
                      ELSE sub
    BY <1>4, Zenon DEF create
  <2>2. scope \in Scope /\ sub[s].row = "unborn" /\ asking'[s] = {}
    BY <1>0, <2>1 DEF SubscriptionIInv, AskedIsUnborn
  <2>3. CASE scope = WholeTeam \/ ruleRow[scope] = "live"
    <3>1. PICK n \in SubRow : n = [row |-> "live", scope |-> scope, enabled |-> TRUE,
                                   medium |-> medium, network |-> network]
      BY <2>2 DEF SubRow, RowState
    <3>2. sub' = [sub EXCEPT ![s] = n]
      BY <2>1, <2>3, <3>1, Zenon
    <3>3. n.row = "live" /\ n.scope = scope
      BY <3>1
    <3> QED BY <2>1, <2>2, <2>3, <3>2, <3>3, OneRowStep
  <2>4. CASE sub' = sub
    BY <1>0, <2>1, <2>2, <2>4
       DEF SubscriptionIInv, SubscriptionTypeOK, AskedIsUnborn, SubscribedRulesExist, RowsKept
  <2> QED BY <2>1, <2>3, <2>4
<1>5. ASSUME NEW s \in Subs, NEW enabled \in BOOLEAN, NEW medium \in BOOLEAN, NEW network \in BOOLEAN,
             update(s, enabled, medium, network)
      PROVE  SubscriptionIInv' /\ RowsKept
  <2>1. PICK n \in SubRow : /\ n = [sub[s] EXCEPT !.enabled = enabled, !.medium = medium, !.network = network]
                            /\ n.row = sub[s].row /\ n.scope = sub[s].scope
    <3>1. sub[s] \in SubRow
      BY <1>0
    <3> QED BY <3>1, RowUpdates
  <2>2. sub' = [sub EXCEPT ![s] = n]
    BY <1>0, <1>5, <2>1, Zenon DEF update
  <2>3. sub[s].row = "live" /\ UNCHANGED <<ruleRow, asking>>
    BY <1>5, Zenon DEF update
  <2>4. asking'[s] = {} /\ (n.scope # WholeTeam => ruleRow[n.scope] = "live")
    BY <2>1, <2>3 DEF SubscriptionIInv, AskedIsUnborn, SubscribedRulesExist
  <2> QED BY <2>1, <2>2, <2>3, <2>4, OneRowStep
<1>6. ASSUME NEW s \in Subs, delete(s) PROVE SubscriptionIInv' /\ RowsKept
  <2>1. PICK n \in SubRow : n = [sub[s] EXCEPT !.row = "deleted"] /\ n.row = "deleted" /\ n.scope = sub[s].scope
    <3>1. sub[s] \in SubRow /\ "deleted" \in RowState
      BY <1>0 DEF RowState
    <3> QED BY <3>1, RowUpdates
  <2>2. sub' = [sub EXCEPT ![s] = n]
    BY <1>0, <1>6, <2>1, Zenon DEF delete
  <2>3. sub[s].row = "live" /\ UNCHANGED <<ruleRow, asking>>
    BY <1>6, Zenon DEF delete
  <2>4. asking'[s] = {}
    BY <2>3 DEF SubscriptionIInv, AskedIsUnborn
  <2> QED BY <2>1, <2>2, <2>3, <2>4, OneRowStep
<1> QED BY <1>1, <1>2, <1>3, <1>4, <1>5, <1>6 DEF SubscriptionNext

(***************************************************************************)
(* The dispatcher.                                                         *)
(***************************************************************************)
\* What every task keeps.
TaskBounded(t) == /\ t.wire \cup t.received \subseteq 1..t.attempt
                  /\ t.attempt <= MAX_RETRIES
                  /\ t.pc = "failed" => t.attempt = MAX_RETRIES
                  /\ t.pc = "backoff" => t.attempt < MAX_RETRIES

\* The invariant holds before the first call.
LEMMA InitDispatcher == DispatcherInit => DispatcherIInv
<1> SUFFICES ASSUME DispatcherInit PROVE DispatcherIInv
  OBVIOUS
<1>1. UnbornSub \in SubRow /\ UnbornSub.row = "unborn"
  BY DEF UnbornSub, SubRow, RowState, Scope
<1>2. SubscriptionTypeOK /\ AskedIsUnborn /\ SubscribedRulesExist
  BY <1>1 DEF DispatcherInit, SubscriptionInit, SubscriptionTypeOK, AskedIsUnborn, SubscribedRulesExist, RowState
<1>3. NoJob \in JobState /\ NoTask \in TaskState
  BY RowsAssumption, RetryAssumption DEF NoJob, JobState, NoTask, TaskState, Ended
<1>4. DispatcherTypeOK
  BY <1>2, <1>3 DEF DispatcherInit, DispatcherTypeOK
<1>5. AttemptsBounded /\ BackoffMayRetry /\ StartedInScope
  BY RetryAssumption DEF DispatcherInit, AttemptsBounded, BackoffMayRetry, StartedInScope, NoTask
<1> QED BY <1>2, <1>4, <1>5 DEF DispatcherIInv

\* Only the rows change.
LEMMA RowsStep ==
  ASSUME DispatcherIInv, SubscriptionNext, UNCHANGED <<job, task>>
  PROVE  DispatcherIInv'
<1>1. SubscriptionIInv' /\ RowsKept
  BY SubscriptionStep DEF DispatcherIInv, DispatcherTypeOK, SubscriptionIInv
<1>2. DispatcherTypeOK' /\ AttemptsBounded' /\ BackoffMayRetry'
  BY <1>1 DEF DispatcherIInv, DispatcherTypeOK, SubscriptionIInv, AttemptsBounded, BackoffMayRetry
<1>3. StartedInScope'
  BY <1>1 DEF DispatcherIInv, StartedInScope, InAudience, RowsKept
<1> QED BY <1>1, <1>2, <1>3 DEF DispatcherIInv, SubscriptionIInv

\* One task takes a step.
LEMMA SendStep ==
  ASSUME DispatcherIInv, NEW j \in Jobs, NEW s \in Subs, NEW t \in TaskState, Send(j, s, t), TaskBounded(t),
         task[j][s] # NoTask, t.pc # "none"
  PROVE  DispatcherIInv'
<1>1. task \in [Jobs -> [Subs -> TaskState]] /\ UNCHANGED <<subscriptionVars, job>>
  BY DEF DispatcherIInv, DispatcherTypeOK, Send
<1>2. /\ task' \in [Jobs -> [Subs -> TaskState]] /\ task'[j][s] = t
      /\ \A k \in Jobs, x \in Subs : (k = j /\ x = s) \/ task'[k][x] = task[k][x]
  BY <1>1 DEF Send
<1>3. DispatcherTypeOK' /\ AskedIsUnborn' /\ SubscribedRulesExist'
  BY <1>1, <1>2 DEF DispatcherIInv, DispatcherTypeOK, subscriptionVars, SubscriptionTypeOK, AskedIsUnborn, SubscribedRulesExist
<1>4. AttemptsBounded' /\ BackoffMayRetry'
  BY <1>2 DEF DispatcherIInv, AttemptsBounded, BackoffMayRetry, TaskBounded
<1>5. StartedInScope'
  <2>1. UNCHANGED <<sub, job>>
    BY <1>1 DEF subscriptionVars
  <2> QED BY <1>2, <2>1 DEF DispatcherIInv, StartedInScope, InAudience
<1> QED BY <1>3, <1>4, <1>5 DEF DispatcherIInv

\* One job starts its tasks, or goes on with those it has.
LEMMA JobStarts ==
  ASSUME DispatcherIInv, NEW j \in Jobs, NEW k \in JobState, job' = [job EXCEPT ![j] = k],
         task' \in [Jobs -> [Subs -> TaskState]], UNCHANGED subscriptionVars,
         \A x \in Jobs : x # j => task'[x] = task[x],
         \A s \in Subs : TaskBounded(task'[j][s]),
         \A s \in Subs : task'[j][s] # NoTask =>
             /\ task'[j][s].pc # "none" /\ sub[s].row # "unborn"
             /\ \/ k.kind = "incident" /\ sub[s].scope \in {k.rule, WholeTeam}
                \/ k.kind = "test" /\ k.target = s
  PROVE  DispatcherIInv'
<1>1. job' \in [Jobs -> JobState] /\ job'[j] = k /\ \A x \in Jobs : x # j => job'[x] = job[x]
  BY DEF DispatcherIInv, DispatcherTypeOK
<1>2. DispatcherTypeOK' /\ AskedIsUnborn' /\ SubscribedRulesExist'
  BY <1>1 DEF DispatcherIInv, DispatcherTypeOK, subscriptionVars, SubscriptionTypeOK, AskedIsUnborn, SubscribedRulesExist
<1>3. AttemptsBounded' /\ BackoffMayRetry'
  BY DEF DispatcherIInv, AttemptsBounded, BackoffMayRetry, TaskBounded
<1>4. StartedInScope'
  <2>1. sub' = sub
    BY DEF subscriptionVars
  <2> QED BY <1>1, <2>1 DEF DispatcherIInv, StartedInScope, InAudience
<1> QED BY <1>2, <1>3, <1>4 DEF DispatcherIInv

\* What sendWithRetry starts with.
LEMMA FirstAttemptFacts ==
  ASSUME NEW s \in Subs
  PROVE  FirstAttempt(s) \in TaskState /\ TaskBounded(FirstAttempt(s)) /\ FirstAttempt(s).pc # "none"
<1>0. {} \in SUBSET Attempt /\ {1} \in SUBSET Attempt /\ 1 \in 0..MAX_RETRIES /\ {1} \subseteq 1..1 /\ 1 <= MAX_RETRIES
  BY RetryAssumption DEF Attempt
<1>1. CASE sub[s].network
  <2> DEFINE t == [pc |-> "sending", attempt |-> 1, wire |-> {1}, received |-> {}]
  <2>1. t \in TaskState /\ TaskBounded(t) /\ t.pc # "none"
    BY <1>0 DEF TaskState, TaskBounded, Ended
  <2>2. FirstAttempt(s) = t
    BY <1>1 DEF FirstAttempt, NoTask
  <2> QED BY <2>1, <2>2
<1>2. CASE ~ sub[s].network
  <2> DEFINE t == [pc |-> "sent", attempt |-> 1, wire |-> {}, received |-> {1}]
  <2>1. t \in TaskState /\ TaskBounded(t) /\ t.pc # "none"
    BY <1>0 DEF TaskState, TaskBounded, Ended
  <2>2. FirstAttempt(s) = t
    BY <1>2 DEF FirstAttempt, NoTask
  <2> QED BY <2>1, <2>2
<1> QED BY <1>1, <1>2

\* dispatch() and the test route.
LEMMA CallStep ==
  ASSUME DispatcherIInv, NEW j \in Jobs, (\E r \in Rules : dispatch(j, r)) \/ (\E s \in Subs : testSubscription(j, s))
  PROVE  DispatcherIInv'
<1>0. /\ task \in [Jobs -> [Subs -> TaskState]] /\ NoTask \in TaskState /\ TaskBounded(NoTask)
      /\ job \in [Jobs -> JobState] /\ NoJob \in JobState
  <2>1. NoTask \in TaskState /\ TaskBounded(NoTask) /\ NoJob \in JobState
    BY RetryAssumption, RowsAssumption DEF NoTask, TaskState, TaskBounded, Ended, NoJob, JobState
  <2> QED BY <2>1 DEF DispatcherIInv, DispatcherTypeOK
<1>1. ASSUME NEW r \in Rules, dispatch(j, r) PROVE DispatcherIInv'
  <2>1. \A s \in Subs : task[j][s] = NoTask
    BY <1>1 DEF dispatch, DispatcherIInv, StartedInScope, InAudience
  <2>2. PICK k \in JobState : k = [NoJob EXCEPT !.kind = "incident", !.phase = "lookup", !.rule = r]
    BY <1>0 DEF JobState
  <2>3. job' = [job EXCEPT ![j] = k] /\ task' = task /\ UNCHANGED subscriptionVars
    BY <1>1, <2>2 DEF dispatch
  <2> QED BY <1>0, <2>1, <2>3, JobStarts
<1>2. ASSUME NEW s \in Subs, testSubscription(j, s) PROVE DispatcherIInv'
  <2>1. PICK k \in JobState : k = [NoJob EXCEPT !.kind = "test", !.phase = "sending", !.target = s]
    BY <1>0 DEF JobState
  <2>2. k.kind = "test" /\ k.target = s
    BY <1>0, <2>1 DEF JobState
  <2>3. /\ job' = [job EXCEPT ![j] = k] /\ UNCHANGED subscriptionVars /\ sub[s].row # "unborn"
        /\ task' = [task EXCEPT ![j] = [x \in Subs |-> IF x = s THEN FirstAttempt(x) ELSE NoTask]]
    BY <1>2, <2>1 DEF testSubscription
  <2>4. /\ task' \in [Jobs -> [Subs -> TaskState]] /\ \A x \in Jobs : x # j => task'[x] = task[x]
        /\ \A x \in Subs : task'[j][x] = IF x = s THEN FirstAttempt(x) ELSE NoTask
    BY <1>0, <2>3, FirstAttemptFacts
  <2>5. \A x \in Subs : TaskBounded(task'[j][x])
    BY <1>0, <2>4, FirstAttemptFacts
  <2>6. \A x \in Subs : task'[j][x] # NoTask => x = s /\ task'[j][x].pc # "none"
    BY <2>4, FirstAttemptFacts
  <2> QED BY <2>2, <2>3, <2>4, <2>5, <2>6, JobStarts
<1> QED BY <1>1, <1>2

\* The lookup of the audience, and the end of a call.
LEMMA JobStepKeeps ==
  ASSUME DispatcherIInv, NEW j \in Jobs, JobStep(j)
  PROVE  DispatcherIInv'
<1>0. /\ task \in [Jobs -> [Subs -> TaskState]] /\ NoTask \in TaskState /\ TaskBounded(NoTask)
      /\ job[j] \in JobState
  <2>1. NoTask \in TaskState /\ TaskBounded(NoTask)
    BY RetryAssumption DEF NoTask, TaskState, TaskBounded, Ended
  <2> QED BY <2>1 DEF DispatcherIInv, DispatcherTypeOK
<1>3. PICK w \in JobState : w = job[j]
  BY <1>0
<1>1. CASE subscribersFound(j)
  <2> DEFINE k == [w EXCEPT !.phase = "sending"]
  <2>1. k \in JobState /\ k.kind = job[j].kind /\ k.rule = job[j].rule
    BY <1>3 DEF JobState
  <2> DEFINE found == findForIncident(job[j].rule)
  <2>2. /\ job' = [job EXCEPT ![j] = k] /\ UNCHANGED subscriptionVars /\ k.kind = "incident"
        /\ task' = [task EXCEPT ![j] = [s \in Subs |-> IF s \in found THEN FirstAttempt(s) ELSE NoTask]]
    BY <1>3, <1>1, <2>1 DEF subscribersFound
  <2>3. \A s \in found : sub[s].row # "unborn" /\ sub[s].scope \in {k.rule, WholeTeam}
    BY <2>1 DEF findForIncident, Matches
  <2> HIDE DEF found, k
  <2>4. /\ task' \in [Jobs -> [Subs -> TaskState]] /\ \A x \in Jobs : x # j => task'[x] = task[x]
        /\ \A s \in Subs : task'[j][s] = IF s \in found THEN FirstAttempt(s) ELSE NoTask
    BY <1>0, <2>2, FirstAttemptFacts
  <2>5. \A s \in Subs : TaskBounded(task'[j][s])
    BY <1>0, <2>4, FirstAttemptFacts
  <2>6. \A s \in Subs : task'[j][s] # NoTask => s \in found /\ task'[j][s].pc # "none"
    BY <2>4, FirstAttemptFacts
  <2> QED BY <2>1, <2>2, <2>3, <2>4, <2>5, <2>6, JobStarts
<1>2. CASE lookupFails(j) \/ settle(j)
  <2> DEFINE k == [w EXCEPT !.phase = "done"]
  <2>1. k \in JobState /\ k.kind = job[j].kind /\ k.rule = job[j].rule /\ k.target = job[j].target
    BY <1>3 DEF JobState
  <2>2. job' = [job EXCEPT ![j] = k] /\ UNCHANGED subscriptionVars /\ task' = task
    BY <1>3, <1>2 DEF lookupFails, settle
  <2> HIDE DEF k
  <2>3. \A s \in Subs : TaskBounded(task[j][s])
    BY DEF DispatcherIInv, AttemptsBounded, BackoffMayRetry, TaskBounded
  <2>4. \A s \in Subs : task'[j][s] # NoTask =>
          /\ task'[j][s].pc # "none" /\ sub[s].row # "unborn"
          /\ \/ k.kind = "incident" /\ sub[s].scope \in {k.rule, WholeTeam}
             \/ k.kind = "test" /\ k.target = s
    BY <2>1, <2>2 DEF DispatcherIInv, StartedInScope, InAudience
  <2> QED BY <1>0, <2>1, <2>2, <2>3, <2>4, JobStarts
<1> QED BY <1>1, <1>2 DEF JobStep

\* sendWithRetry(), the network and the endpoint.
LEMMA TaskStepKeeps ==
  ASSUME DispatcherIInv, NEW j \in Jobs, NEW s \in Subs, Sending(j, s) \/ arrives(j, s) \/ dropped(j, s)
  PROVE  DispatcherIInv'
<1>1. PICK t \in TaskState : t = task[j][s] /\ TaskBounded(t)
  BY DEF DispatcherIInv, DispatcherTypeOK, AttemptsBounded, BackoffMayRetry, TaskBounded
<1>2. t.attempt \in 0..MAX_RETRIES /\ t.wire \in SUBSET Attempt /\ t.received \in SUBSET Attempt /\ MAX_RETRIES \in Nat
  BY RetryAssumption DEF TaskState
<1>3. t # NoTask => t.pc # "none"
  BY <1>1 DEF DispatcherIInv, StartedInScope
<1>4. NoTask.pc = "none" /\ NoTask.wire = {}
  BY DEF NoTask
<1> DEFINE f == Failed(t)
<1>5. /\ f \in TaskState /\ f.pc = (IF t.attempt = MAX_RETRIES THEN "failed" ELSE "backoff")
      /\ f.attempt = t.attempt /\ f.wire = t.wire /\ f.received = t.received
  BY DEF Failed, LastAttempt, TaskState, Ended
<1> HIDE DEF f
<1>6. TaskBounded(f) /\ f.pc # "none"
  BY <1>1, <1>2, <1>5 DEF TaskBounded
<1>7. CASE answered(j, s)
  <2> DEFINE n == [t EXCEPT !.pc = "sent"]
  <2>1. n \in TaskState /\ n.pc = "sent" /\ n.attempt = t.attempt /\ n.wire = t.wire /\ n.received = t.received
    BY DEF TaskState, Ended
  <2>2. Send(j, s, n) /\ task[j][s] # NoTask
    BY <1>1, <1>4, <1>7 DEF answered
  <2> HIDE DEF n
  <2>3. TaskBounded(n)
    BY <1>1, <2>1 DEF TaskBounded
  <2> QED BY <2>1, <2>2, <2>3, SendStep
<1>8. CASE rejected(j, s)
  <2> DEFINE n == [f EXCEPT !.wire = @ \ {t.attempt}]
  <2>1. /\ n \in TaskState /\ n.pc = f.pc /\ n.attempt = f.attempt /\ n.wire = f.wire \ {t.attempt}
        /\ n.received = f.received
    BY <1>5 DEF TaskState
  <2>2. Send(j, s, n) /\ task[j][s] # NoTask
    BY <1>1, <1>4, <1>8 DEF rejected, f
  <2> HIDE DEF n
  <2>3. TaskBounded(n)
    BY <1>6, <2>1 DEF TaskBounded
  <2> QED BY <1>6, <2>1, <2>2, <2>3, SendStep
<1>9. CASE timesOut(j, s)
  <2>1. Send(j, s, f) /\ task[j][s] # NoTask
    BY <1>1, <1>4, <1>9 DEF timesOut, f
  <2> QED BY <1>5, <1>6, <2>1, SendStep
<1>10. CASE retry(j, s)
  <2>0. t.pc = "backoff" /\ t.attempt + 1 \in Attempt /\ t.attempt + 1 \in 0..MAX_RETRIES
    BY <1>1, <1>2, <1>10 DEF retry, TaskBounded, Attempt
  <2> DEFINE n == [t EXCEPT !.pc = "sending", !.attempt = @ + 1, !.wire = @ \cup {t.attempt + 1}]
  <2>1. /\ n \in TaskState /\ n.pc = "sending" /\ n.attempt = t.attempt + 1
        /\ n.wire = t.wire \cup {t.attempt + 1} /\ n.received = t.received
    BY <1>2, <2>0 DEF TaskState
  <2>2. Send(j, s, n) /\ task[j][s] # NoTask
    BY <1>1, <1>4, <1>10 DEF retry
  <2> HIDE DEF n
  <2>3. TaskBounded(n)
    BY <1>1, <1>2, <2>0, <2>1 DEF TaskBounded, Attempt
  <2> QED BY <2>1, <2>2, <2>3, SendStep
<1>11. CASE arrives(j, s)
  <2>1. PICK m \in t.wire : Send(j, s, [t EXCEPT !.wire = @ \ {m}, !.received = @ \cup {m}])
    BY <1>1, <1>11 DEF arrives
  <2> DEFINE n == [t EXCEPT !.wire = @ \ {m}, !.received = @ \cup {m}]
  <2>2. /\ n \in TaskState /\ n.pc = t.pc /\ n.attempt = t.attempt /\ n.wire = t.wire \ {m}
        /\ n.received = t.received \cup {m} /\ Send(j, s, n)
    BY <1>2, <2>1 DEF TaskState
  <2> HIDE DEF n
  <2>3. TaskBounded(n)
    BY <1>1, <2>2 DEF TaskBounded
  <2>4. task[j][s] # NoTask
    BY <1>1, <1>4
  <2> QED BY <1>1, <1>3, <2>1, <2>2, <2>3, <2>4, SendStep
<1>12. CASE dropped(j, s)
  <2>1. PICK m \in t.wire : Send(j, s, [t EXCEPT !.wire = @ \ {m}])
    BY <1>1, <1>12 DEF dropped
  <2> DEFINE n == [t EXCEPT !.wire = @ \ {m}]
  <2>2. /\ n \in TaskState /\ n.pc = t.pc /\ n.attempt = t.attempt /\ n.wire = t.wire \ {m}
        /\ n.received = t.received /\ Send(j, s, n)
    BY <1>2, <2>1 DEF TaskState
  <2> HIDE DEF n
  <2>3. TaskBounded(n)
    BY <1>1, <2>2 DEF TaskBounded
  <2>4. task[j][s] # NoTask
    BY <1>1, <1>4
  <2> QED BY <1>1, <1>3, <2>1, <2>2, <2>3, <2>4, SendStep
<1> QED BY <1>7, <1>8, <1>9, <1>10, <1>11, <1>12 DEF Sending

\* A process that dies forgets its calls; the copies under way stay.
LEMMA CrashStep ==
  ASSUME DispatcherIInv, Crash
  PROVE  DispatcherIInv'
<1>0. job \in [Jobs -> JobState] /\ task \in [Jobs -> [Subs -> TaskState]] /\ SubscriptionTypeOK
  BY DEF DispatcherIInv, DispatcherTypeOK
<1>1. ASSUME NEW k \in JobState
      PROVE  LET n == [k EXCEPT !.phase = "lost"]
             IN  n \in JobState /\ n.kind = k.kind /\ n.rule = k.rule /\ n.target = k.target
  BY DEF JobState
<1>2. ASSUME NEW t \in TaskState
      PROVE  LET n == [t EXCEPT !.pc = "lost"]
             IN  n \in TaskState /\ n.pc = "lost" /\ n.attempt = t.attempt /\ n.wire = t.wire /\ n.received = t.received
  BY DEF TaskState, Ended
<1>3. /\ job' \in [Jobs -> JobState]
      /\ \A j \in Jobs : job'[j].kind = job[j].kind /\ job'[j].rule = job[j].rule /\ job'[j].target = job[j].target
  BY <1>0, <1>1 DEF Crash
<1>4. \A j \in Jobs, s \in Subs :
        \/ task'[j][s] = task[j][s] /\ task[j][s].pc \in Ended
        \/ task'[j][s] = [task[j][s] EXCEPT !.pc = "lost"] /\ task[j][s].pc \notin Ended
  BY DEF Crash
<1>5. task' \in [Jobs -> [Subs -> TaskState]]
  BY <1>0, <1>2 DEF Crash
<1>6. SubscriptionTypeOK' /\ AskedIsUnborn' /\ SubscribedRulesExist' /\ sub' = sub
  BY <1>0 DEF Crash, DispatcherIInv, SubscriptionTypeOK, AskedIsUnborn, SubscribedRulesExist
<1>7. ASSUME NEW j \in Jobs, NEW s \in Subs
      PROVE  /\ task'[j][s].attempt = task[j][s].attempt
             /\ task'[j][s].wire = task[j][s].wire /\ task'[j][s].received = task[j][s].received
             /\ task'[j][s].pc \in {task[j][s].pc, "lost"}
             /\ task'[j][s].pc = "none" <=> task[j][s].pc = "none"
  <2>1. PICK t \in TaskState : t = task[j][s]
    BY <1>0
  <2> QED BY <1>2, <1>4, <2>1 DEF Ended
<1>8. AttemptsBounded' /\ BackoffMayRetry'
  BY <1>7 DEF DispatcherIInv, AttemptsBounded, BackoffMayRetry
<1>9. StartedInScope'
  <2> SUFFICES ASSUME NEW j \in Jobs, NEW s \in Subs, task'[j][s] # NoTask
               PROVE  task'[j][s].pc # "none" /\ sub[s].row # "unborn" /\ InAudience(j, s)
    BY <1>3, <1>6 DEF StartedInScope, InAudience
  <2>1. NoTask.pc \in Ended
    BY DEF NoTask, Ended
  <2>2. task[j][s] # NoTask
    BY <1>4, <2>1
  <2> QED BY <1>7, <2>2 DEF DispatcherIInv, StartedInScope
<1> QED BY <1>3, <1>5, <1>6, <1>8, <1>9 DEF DispatcherIInv, DispatcherTypeOK

\* Every step keeps the invariant.
LEMMA DispatcherStep == DispatcherIInv /\ [DispatcherNext]_dispatcherVars => DispatcherIInv'
<1> SUFFICES ASSUME DispatcherIInv, [DispatcherNext]_dispatcherVars PROVE DispatcherIInv'
  OBVIOUS
<1>1. CASE UNCHANGED dispatcherVars
  BY <1>1 DEF dispatcherVars, subscriptionVars, DispatcherIInv, DispatcherTypeOK, SubscriptionTypeOK, AskedIsUnborn, SubscribedRulesExist,
              AttemptsBounded, BackoffMayRetry, StartedInScope, InAudience
<1> QED BY <1>1, RowsStep, CallStep, JobStepKeeps, TaskStepKeeps, CrashStep DEF DispatcherNext

\* DispatcherIInv holds in every reachable state.
THEOREM DispatcherInvariance == DispatcherSpec => []DispatcherIInv
BY InitDispatcher, DispatcherStep, PTL DEF DispatcherSpec

\* Nobody outside the audience hears of an incident or of a test message,
\* however the subscriptions and rules change while dispatch() is retrying.
THEOREM AudienceTheorem == DispatcherSpec => []AudienceInv
<1>1. DispatcherIInv => AudienceInv
  BY DEF DispatcherIInv, AudienceInv, DeliveredInScope, StartedInScope, NoTask
<1> QED BY <1>1, DispatcherInvariance, PTL

\* An endpoint sees at most MAX_RETRIES copies of a message, late arrivals of
\* timed-out attempts included, and sendWithRetry gives up only after them.
THEOREM AttemptsTheorem == DispatcherSpec => []AttemptsBounded
<1>1. DispatcherIInv => AttemptsBounded
  BY DEF DispatcherIInv
<1> QED BY <1>1, DispatcherInvariance, PTL

\* The rule of a live subscription exists, although the route looks it up in a
\* statement before the insert.
THEOREM RulesExistTheorem == DispatcherSpec => []SubscribedRulesExist
<1>1. DispatcherIInv => SubscribedRulesExist
  BY DEF DispatcherIInv
<1> QED BY <1>1, DispatcherInvariance, PTL

\* A subscription keeps its scope: one made for a rule never becomes one for the
\* whole team.
THEOREM ScopeTheorem == DispatcherSpec => ScopeKept
<1>1. DispatcherIInv /\ [DispatcherNext]_dispatcherVars => [ScopesKept]_subscriptionVars
  <2> SUFFICES ASSUME DispatcherIInv, [DispatcherNext]_dispatcherVars, ~ UNCHANGED subscriptionVars PROVE ScopesKept
    OBVIOUS
  <2>1. CASE SubscriptionNext
    <3>1. RowsKept
      BY <2>1, SubscriptionStep DEF DispatcherIInv, DispatcherTypeOK, SubscriptionIInv
    <3> QED BY <3>1 DEF RowsKept, ScopesKept
  <2>2. CASE Crash
    BY <2>2 DEF Crash, ScopesKept
  <2> QED BY <2>1, <2>2
          DEF DispatcherNext, dispatcherVars, dispatch, testSubscription, JobStep, subscribersFound, lookupFails, settle,
              Sending, answered, rejected, timesOut, retry, arrives, dropped, Send
<1> QED BY <1>1, DispatcherInvariance, PTL DEF DispatcherSpec, ScopeKept
=============================================================================
