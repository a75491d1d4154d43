------------------------- MODULE AlertEngineProofs --------------------------
(***************************************************************************)
(* Proofs about AlertEngine and AlertSuppression, for any number of rules, *)
(* incidents, windows, concurrent requests and activations, and for any    *)
(* bounds.                                                                 *)
(***************************************************************************)
EXTENDS AlertSuppression, TLAPS

(***************************************************************************)
(* The stand-in values of unborn rows and idle handlers are well typed.    *)
(***************************************************************************)
LEMMA Defaults == /\ AnyRule \in Rules /\ AnyTeam \in Teams /\ AnySpec \in Specs
                  /\ AnyIncident \in Incidents
                  /\ UnbornRule \in RuleRow /\ UnbornWindow \in WindowRow
                  /\ UnbornIncident \in IncidentRow
                  /\ Idle \in RequestState /\ Inactive \in RunState
<1>1. AnyRule \in Rules
  BY RuleAssumption DEF AnyRule
<1>2. AnyTeam \in Teams
  BY <1>1, TeamAssumption DEF AnyTeam
<1>3. AnySpec \in Specs
  BY SpecAssumption DEF AnySpec
<1>4. AnyIncident \in Incidents
  BY IncidentAssumption DEF AnyIncident
<1>5. UnbornRule \in RuleRow /\ UnbornWindow \in WindowRow /\ UnbornIncident \in IncidentRow
  BY <1>1, <1>2, <1>3 DEF UnbornRule, UnbornWindow, UnbornIncident, RuleRow, WindowRow,
     IncidentRow, NotMuted, Time
<1>6. Idle \in RequestState
  BY <1>4 DEF Idle, RequestState, IncidentAction, IncidentStatus
<1>7. Inactive \in RunState
  BY <1>1, <1>5 DEF Inactive, RunState, NoSnapshot, Time
<1> QED BY <1>1, <1>2, <1>3, <1>4, <1>5, <1>6, <1>7

-----------------------------------------------------------------------------
(***************************************************************************)
(* Type correctness.                                                       *)
(***************************************************************************)
\* The initial rows, handlers and worker are well typed.
LEMMA InitTypeOK == Init => TypeOK
<1> SUFFICES ASSUME Init PROVE TypeOK
  OBVIOUS
<1> USE DEF Init, StoreInit, ServiceInit, WorkerInit
<1>1. LegacyRules \subseteq RuleRow
  <2> SUFFICES ASSUME NEW row \in LegacyRules PROVE row \in RuleRow
    OBVIOUS
  <2> PICK s \in Specs : row = [row |-> "live", enabled |-> TRUE, spec |-> s, muteUntil |-> NotMuted]
    BY DEF LegacyRules, Reserved
  <2> QED BY DEF RuleRow, NotMuted, Time
<1>2. rule \in [Rules -> RuleRow]
  BY <1>1, Defaults
<1>3. StoreTypeOK
  BY <1>2, Defaults DEF StoreTypeOK, Time
<1>4. ServiceTypeOK /\ WorkerTypeOK /\ up \in BOOLEAN
  BY Defaults DEF ServiceTypeOK, WorkerTypeOK
<1> QED BY <1>3, <1>4 DEF TypeOK

\* Every action leads to one of the three statuses.
LEMMA TargetIsStatus == \A a \in IncidentAction : Target[a] \in IncidentStatus
  BY DEF Target, IncidentAction, IncidentStatus

\* Rule routes keep the rows well typed.
LEMMA RuleStepTypeOK == TypeOK /\ RuleStep /\ UNCHANGED <<workerVars, up>> => TypeOK'
<1> SUFFICES ASSUME TypeOK, RuleStep, UNCHANGED <<workerVars, up>> PROVE TypeOK'
  OBVIOUS
<1> USE DEF TypeOK, StoreTypeOK, ServiceTypeOK, WorkerTypeOK, workerVars
<1>1. ASSUME NEW r \in Rules, NEW spec \in Specs, NEW enabled \in BOOLEAN,
             createRule(r, spec, enabled) \/ updateRule(r, spec, enabled)
      PROVE TypeOK'
  <2>1. rule' \in [Rules -> RuleRow]
    <3>1. CASE createRule(r, spec, enabled)
      BY <3>1 DEF createRule, RuleRow, NotMuted, Time
    <3>2. CASE updateRule(r, spec, enabled)
      <4>1. rule' = [rule EXCEPT ![r] = [@ EXCEPT !.spec = spec, !.enabled = enabled]]
        BY <3>2 DEF updateRule
      <4>2. [rule[r] EXCEPT !.spec = spec, !.enabled = enabled] \in RuleRow
        BY DEF RuleRow
      <4> QED BY <4>1, <4>2
    <3> QED BY <1>1, <3>1, <3>2
  <2> QED BY <1>1, <2>1 DEF createRule, updateRule
<1>2. ASSUME NEW r \in Rules, deleteRule(r) PROVE TypeOK'
  <2>1. [UnbornRule EXCEPT !.row = "deleted"] \in RuleRow
    BY Defaults DEF RuleRow
  <2>2. rule' \in [Rules -> RuleRow]
    BY <1>2, <2>1 DEF deleteRule
  <2>3. incident' \in [Incidents -> IncidentRow]
    BY <1>2 DEF deleteRule, IncidentRow
  <2>4. timeline' \in [Incidents -> Seq(IncidentAction)]
    BY <1>2 DEF deleteRule
  <2> QED BY <1>2, <2>2, <2>3, <2>4 DEF deleteRule
<1>3. ASSUME NEW r \in Rules, unmuteRule(r) PROVE TypeOK'
  BY <1>3 DEF unmuteRule, RuleRow, NotMuted, Time
<1>4. ASSUME NEW r \in Rules, NEW d \in Durations, muteRule(r, d) PROVE TypeOK'
  <2>1. clock + d \in Time
    BY DurationAssumption DEF Time
  <2>2. rule' \in [Rules -> RuleRow]
    BY <1>4, <2>1 DEF muteRule, RuleRow
  <2> QED BY <1>4, <2>2 DEF muteRule
<1> QED BY <1>1, <1>2, <1>3, <1>4 DEF RuleStep

\* Maintenance-window routes keep the rows well typed.
LEMMA WindowStepTypeOK == TypeOK /\ WindowStep /\ UNCHANGED <<workerVars, up>> => TypeOK'
<1> SUFFICES ASSUME TypeOK, WindowStep, UNCHANGED <<workerVars, up>> PROVE TypeOK'
  OBVIOUS
<1> USE DEF TypeOK, StoreTypeOK, ServiceTypeOK, WorkerTypeOK, workerVars
<1>1. ASSUME NEW w \in Windows, NEW t \in Teams, NEW s \in 1..MaxClock, NEW e \in 1..MaxClock,
             createWindow(w, t, s, e)
      PROVE TypeOK'
  BY <1>1, ClockAssumption DEF createWindow, WindowRow, Time
<1>2. ASSUME NEW w \in Windows, deleteWindow(w) PROVE TypeOK'
  BY <1>2, Defaults DEF deleteWindow
<1> QED BY <1>1, <1>2 DEF WindowStep

\* Both halves of an incident transition keep the rows well typed.
LEMMA IncidentStepTypeOK == TypeOK /\ IncidentStep /\ UNCHANGED <<workerVars, up>> => TypeOK'
<1> SUFFICES ASSUME TypeOK, IncidentStep, UNCHANGED <<workerVars, up>> PROVE TypeOK'
  OBVIOUS
<1> USE DEF TypeOK, StoreTypeOK, ServiceTypeOK, WorkerTypeOK, workerVars
<1>1. ASSUME NEW q \in Requests, NEW action \in IncidentAction, NEW i \in Incidents,
             assertIncidentInTeam(q, action, i)
      PROVE TypeOK'
  BY <1>1 DEF assertIncidentInTeam, storeVars, RequestState, Live
<1>2. ASSUME NEW q \in Requests, transitionIncident(q) PROVE TypeOK'
  <2>1. request[q] \in RequestState
    OBVIOUS
  <2>2. request' \in [Requests -> RequestState]
    BY <1>2, Defaults DEF transitionIncident
  <2>3. CASE StatusUnchanged(request[q])
    <3> DEFINE i == request[q].incident
               b == request[q].action
    <3>1. i \in Incidents /\ b \in IncidentAction /\ Target[b] \in IncidentStatus
      BY <2>1, TargetIsStatus DEF RequestState
    <3>2. /\ incident' = [incident EXCEPT ![i].status = Target[b]]
          /\ timeline' = [timeline EXCEPT ![i] = Append(@, b)]
      BY <1>2, <2>3 DEF transitionIncident
    <3>3. incident' \in [Incidents -> IncidentRow]
      BY <3>1, <3>2 DEF IncidentRow
    <3>4. timeline' \in [Incidents -> Seq(IncidentAction)]
      BY <3>1, <3>2
    <3> QED BY <1>2, <2>2, <3>3, <3>4 DEF transitionIncident
  <2>4. CASE ~StatusUnchanged(request[q])
    BY <1>2, <2>2, <2>4 DEF transitionIncident
  <2> QED BY <2>3, <2>4
<1> QED BY <1>1, <1>2 DEF IncidentStep

\* Finishing a rule or going on to the next await keeps an activation typed.
LEMMA FinishTypeOK ==
  ASSUME WorkerTypeOK, NEW a \in Activations
  PROVE  /\ run[a] \in RunState
         /\ Finish(a) \in RunState
         /\ \A pc \in Awaiting : Await(a, pc) \in RunState
<1>1. run[a] \in RunState
  BY DEF WorkerTypeOK
<1>2. Finish(a) \in RunState
  <2>1. [run[a].snapshot EXCEPT ![run[a].current] = UnbornRule] \in [Rules -> RuleRow]
    BY <1>1, Defaults DEF RunState
  <2>2. Finish(a) = [run[a] EXCEPT !.pc = "loop", !.current = AnyRule, !.at = 0, !.counted = 0,
                        !.snapshot = [run[a].snapshot EXCEPT ![run[a].current] = UnbornRule]]
    BY <1>1 DEF Finish, RunState
  <2> DEFINE cleared == [run[a].snapshot EXCEPT ![run[a].current] = UnbornRule]
  <2>3. Finish(a) = [pc |-> "loop", todo |-> run[a].todo, snapshot |-> cleared,
                     current |-> AnyRule, at |-> 0, counted |-> 0]
    BY <1>1, <2>2 DEF RunState
  <2>4. cleared \in [Rules -> RuleRow] /\ run[a].todo \in SUBSET Rules
    BY <1>1, <2>1 DEF RunState
  <2> HIDE DEF cleared
  <2> QED BY <2>3, <2>4, Defaults DEF RunState, Time
<1>3. ASSUME NEW pc \in Awaiting PROVE Await(a, pc) \in RunState
  BY <1>1 DEF Await, RunState
<1> QED BY <1>1, <1>2, <1>3

\* What a step of the loop does to the worker's own state, apart from Leave.
LEMMA EvaluationTypeOK ==
  ASSUME TypeOK, NEW a \in Activations, Evaluation(a)
  PROVE  TypeOK'
<1> USE DEF Evaluation, serviceVars, storeVars
<1>0. StoreTypeOK /\ ServiceTypeOK /\ WorkerTypeOK /\ up \in BOOLEAN
  BY DEF TypeOK
<1>a. run[a] \in RunState /\ Finish(a) \in RunState /\ \A pc \in Awaiting : Await(a, pc) \in RunState
  BY <1>0, FinishTypeOK
<1>b. ServiceTypeOK' /\ (up \in BOOLEAN)'
  BY <1>0 DEF ServiceTypeOK
<1>c. ASSUME UNCHANGED storeVars PROVE StoreTypeOK'
  BY <1>0, <1>c DEF StoreTypeOK
<1>d. ASSUME NEW s \in RunState, run' = [run EXCEPT ![a] = s], running' \in BOOLEAN, UNCHANGED timer
      PROVE  WorkerTypeOK'
  BY <1>0, <1>d DEF WorkerTypeOK
<1>e. running \in BOOLEAN
  BY <1>0 DEF WorkerTypeOK
<1>f. SUFFICES StoreTypeOK' /\ WorkerTypeOK'
  BY <1>b DEF TypeOK
<1>1. CASE loadRules(a)
  <2> DEFINE s == [run[a] EXCEPT !.pc = "loop", !.todo = EnabledRules,
                     !.snapshot = [r \in Rules |-> IF r \in EnabledRules THEN rule[r] ELSE UnbornRule]]
  <2>1. [r \in Rules |-> IF r \in EnabledRules THEN rule[r] ELSE UnbornRule] \in [Rules -> RuleRow]
    BY <1>0, Defaults DEF StoreTypeOK
  <2>2. s \in RunState
    BY <1>a, <2>1 DEF RunState, EnabledRules
  <2>3. run' = [run EXCEPT ![a] = s]
    BY <1>1 DEF loadRules
  <2> QED BY <1>1, <1>c, <1>d, <1>e, <2>2, <2>3 DEF loadRules
<1>2. CASE loadRulesFails(a) \/ endLoop(a)
  BY <1>2, <1>c, <1>d, Defaults DEF loadRulesFails, endLoop, Leave
<1>3. ASSUME NEW r \in Rules, nextRule(a, r) PROVE StoreTypeOK' /\ WorkerTypeOK'
  <2>1. Skip(a, r) \in RunState
    <3>1. Skip(a, r) = [run[a] EXCEPT !.todo = run[a].todo \ {r},
                                      !.snapshot = [run[a].snapshot EXCEPT ![r] = UnbornRule]]
      BY <1>a DEF Skip, RunState
    <3>2. [run[a].snapshot EXCEPT ![r] = UnbornRule] \in [Rules -> RuleRow]
      BY <1>a, Defaults DEF RunState
    <3>3. run[a].todo \ {r} \in SUBSET Rules
      BY <1>a DEF RunState
    <3> QED BY <1>a, <3>1, <3>2, <3>3 DEF RunState
  <2>2. Take(a, r) \in RunState
    BY <1>0, <1>a DEF Take, RunState, StoreTypeOK, Awaiting
  <2> QED BY <1>3, <1>c, <1>d, <1>e, <2>1, <2>2 DEF nextRule
<1>4. CASE checkWindow(a) \/ checkOpen(a)
  <2>1. \E s \in RunState : run' = [run EXCEPT ![a] = s]
    BY <1>4, <1>a DEF checkWindow, checkOpen, Awaiting
  <2> QED BY <1>4, <1>c, <1>d, <1>e, <2>1 DEF checkWindow, checkOpen
<1>5. ASSUME NEW n \in Counts, queryLogCount(a, n) \/ queryPreviousCount(a, n)
      PROVE StoreTypeOK' /\ WorkerTypeOK'
  <2>1. [Await(a, "prev") EXCEPT !.counted = n] \in RunState
    BY <1>a, CountAssumption DEF RunState, Awaiting
  <2>2. \E s \in RunState : run' = [run EXCEPT ![a] = s]
    BY <1>5, <1>a, <2>1 DEF queryLogCount, queryPreviousCount, Awaiting
  <2> QED BY <1>5, <1>c, <1>d, <1>e, <2>2 DEF queryLogCount, queryPreviousCount
<1>6. CASE createIncident(a)
  <2>1. WorkerTypeOK'
    BY <1>6, <1>a, <1>d, <1>e DEF createIncident
  <2>2. run[a].current \in Rules
    BY <1>a DEF RunState
  <2>3. incident' \in [Incidents -> IncidentRow]
    BY <1>0, <1>6, <2>2 DEF createIncident, StoreTypeOK, IncidentRow, IncidentStatus
  <2> QED BY <1>0, <1>6, <2>1, <2>3 DEF createIncident, StoreTypeOK
<1>7. CASE evaluateRuleFails(a)
  BY <1>7, <1>a, <1>c, <1>d, <1>e DEF evaluateRuleFails
<1> QED BY <1>1, <1>2, <1>3, <1>4, <1>5, <1>6, <1>7 DEF WorkerStep, evaluateRule

\* Every step of the engine keeps its state well typed.
LEMMA StepTypeOK == TypeOK /\ [Next]_vars => TypeOK'
<1> SUFFICES ASSUME TypeOK, [Next]_vars PROVE TypeOK'
  OBVIOUS
<1>1. CASE Clock
  BY <1>1 DEF Clock, Tick, TypeOK, StoreTypeOK, ServiceTypeOK, WorkerTypeOK, serviceVars, workerVars, Time
<1>2. CASE Api
  BY <1>2, RuleStepTypeOK, WindowStepTypeOK, IncidentStepTypeOK DEF Api, ServiceNext
<1>3. CASE Interval \/ Start
  <2>1. PICK a \in Activations : evaluate(a) /\ UNCHANGED storeVars
    BY <1>3 DEF Interval, Start, interval, start
  <2>2. [run[a] EXCEPT !.pc = "load"] \in RunState
    BY DEF TypeOK, WorkerTypeOK, RunState
  <2>3. run' = [run EXCEPT ![a] = [run[a] EXCEPT !.pc = "load"]]
    BY <2>1 DEF evaluate
  <2>4. run' \in [Activations -> RunState] /\ running' \in BOOLEAN
    BY <2>1, <2>2, <2>3 DEF evaluate, TypeOK, WorkerTypeOK
  <2>5. up' \in BOOLEAN /\ timer' \in BOOLEAN /\ UNCHANGED serviceVars
    BY <1>3 DEF Interval, Start, interval, start, TypeOK, WorkerTypeOK
  <2> QED BY <2>1, <2>4, <2>5 DEF TypeOK, StoreTypeOK, ServiceTypeOK, WorkerTypeOK, storeVars, serviceVars
<1>4. ASSUME NEW a \in Activations, Evaluation(a) PROVE TypeOK'
  BY <1>4, EvaluationTypeOK
<1>5. CASE Shutdown
  BY <1>5 DEF Shutdown, stop, TypeOK, StoreTypeOK, ServiceTypeOK, WorkerTypeOK, storeVars, serviceVars
<1>6. CASE Exit
  BY <1>6, Defaults DEF Exit, TypeOK, StoreTypeOK, ServiceTypeOK, WorkerTypeOK, storeVars
<1>7. CASE UNCHANGED vars
  BY <1>7 DEF vars, TypeOK, StoreTypeOK, ServiceTypeOK, WorkerTypeOK, storeVars, serviceVars, workerVars
<1> QED BY <1>1, <1>2, <1>3, <1>4, <1>5, <1>6, <1>7 DEF Next

(***************************************************************************)
(* Every reachable state of the engine is well typed.                      *)
(***************************************************************************)
THEOREM TypeCorrect == Spec => []TypeOK
  BY InitTypeOK, StepTypeOK, PTL DEF Spec

-----------------------------------------------------------------------------
(***************************************************************************)
(* What a step can do to the incidents, and to the rule an evaluation is   *)
(* past the deduplication lookup for.                                      *)
(***************************************************************************)
LEMMA IncidentEffects ==
  ASSUME [Next]_vars
  PROVE  \/ UNCHANGED <<incident, timeline>>
         \/ \E r \in Rules : deleteRule(r) /\ UNCHANGED run
         \/ \E q \in Requests : /\ transitionIncident(q)
                               /\ StatusUnchanged(request[q])
                               /\ UNCHANGED <<run, rule>>
         \/ \E a \in Activations : createIncident(a)
<1>1. CASE Api
  <2>1. UNCHANGED run
    BY <1>1 DEF Api, workerVars
  <2>2. CASE RuleStep
    BY <2>1, <2>2 DEF RuleStep, createRule, updateRule, muteRule, unmuteRule
  <2>3. CASE WindowStep
    BY <2>3 DEF WindowStep, createWindow, deleteWindow
  <2>4. CASE IncidentStep
    BY <2>1, <2>4 DEF IncidentStep, assertIncidentInTeam, transitionIncident, storeVars
  <2> QED BY <1>1, <2>2, <2>3, <2>4 DEF Api, ServiceNext
<1>2. ASSUME NEW a \in Activations, Evaluation(a), ~createIncident(a)
      PROVE  UNCHANGED <<incident, timeline>>
  BY <1>2 DEF Evaluation, WorkerStep, evaluateRule, loadRules, loadRulesFails, endLoop, Leave,
     nextRule, checkWindow, checkOpen, queryLogCount, queryPreviousCount, evaluateRuleFails, storeVars
<1>3. CASE Clock \/ Interval \/ Start \/ Shutdown \/ Exit \/ UNCHANGED vars
  BY <1>3 DEF Clock, Tick, Interval, interval, Start, start, Shutdown, stop, Exit, vars, storeVars
<1> QED BY <1>1, <1>2, <1>3 DEF Next

PastLookup == {"count", "prev", "create"}

\* An evaluation past its lookup has just found no OPEN incident of its rule, or was past it
\* already and is still on the same rule.
LEMMA RunEffects ==
  ASSUME TypeOK, [Next]_vars, NEW b \in Activations, run'[b].pc \in PastLookup
  PROVE  /\ run'[b].current = run[b].current
         /\ \/ run[b].pc \in PastLookup
            \/ OpenIncidents(run[b].current) = {} /\ UNCHANGED <<incident, timeline>>
<1> USE DEF PastLookup
<1>0. run \in [Activations -> RunState]
  BY DEF TypeOK, WorkerTypeOK
<1>1. CASE UNCHANGED run
  BY <1>1
<1>2. CASE Interval \/ Start
  <2>1. PICK a \in Activations : evaluate(a)
    BY <1>2 DEF Interval, interval, Start, start
  <2>2. run' = [run EXCEPT ![a] = [run[a] EXCEPT !.pc = "load"]]
    BY <2>1 DEF evaluate
  <2>3. CASE a = b
    <3>1. run'[b].pc = "load"
      BY <1>0, <2>2, <2>3 DEF RunState
    <3> QED BY <3>1
  <2>4. CASE a # b
    BY <1>0, <2>2, <2>4
  <2> QED BY <2>3, <2>4
<1>3. CASE Exit
  BY <1>3 DEF Exit, Inactive
<1>4. ASSUME NEW a \in Activations, Evaluation(a)
      PROVE  /\ run'[b].current = run[b].current
             /\ \/ run[b].pc \in PastLookup
                \/ OpenIncidents(run[b].current) = {} /\ UNCHANGED <<incident, timeline>>
  <2>0. WorkerStep(a)
    BY <1>4 DEF Evaluation
  <2>a. CASE a # b
    <3>1. run'[b] = run[b]
      BY <2>0, <2>a, <1>0 DEF WorkerStep, evaluateRule, loadRules, loadRulesFails, endLoop, Leave, nextRule,
         checkWindow, checkOpen, queryLogCount, queryPreviousCount, createIncident, evaluateRuleFails
    <3> QED BY <3>1
  <2>b. CASE a = b
    <3>1. run[b] \in RunState /\ Finish(b).pc = "loop"
      BY <1>0 DEF Finish, RunState
    <3>2. CASE loadRules(b) \/ loadRulesFails(b) \/ endLoop(b)
      <4>1. run'[b].pc \in {"loop", "idle"}
        <5>1. CASE loadRules(b)
          <6>1. run' = [run EXCEPT ![b] =
                  [run[b] EXCEPT !.pc = "loop", !.todo = EnabledRules, !.snapshot =
                     [r \in Rules |-> IF r \in EnabledRules THEN rule[r] ELSE UnbornRule]]]
            BY <5>1 DEF loadRules
          <6> QED BY <1>0, <3>1, <6>1 DEF RunState
        <5>2. CASE Leave(b)
          BY <1>0, <5>2 DEF Leave, Inactive
        <5> QED BY <3>2, <5>1, <5>2 DEF loadRulesFails, endLoop
      <4> QED BY <4>1
    <3>3. ASSUME NEW r \in Rules, nextRule(b, r) PROVE FALSE
      <4>1. run'[b] = Skip(b, r) \/ run'[b] = Take(b, r)
        BY <1>0, <3>3 DEF nextRule
      <4>2. Skip(b, r).pc = "loop" /\ Take(b, r).pc = "window"
        BY <3>1, <3>3 DEF nextRule, Skip, Take, RunState
      <4> QED BY <4>1, <4>2
    <3>4. CASE checkWindow(b)
      BY <1>0, <3>1, <3>4 DEF checkWindow, Await, RunState
    <3>5. CASE checkOpen(b)
      <4>1. run'[b] = IF OpenIncidents(run[b].current) # {} THEN Finish(b) ELSE Await(b, "count")
        BY <1>0, <3>5 DEF checkOpen
      <4>2. OpenIncidents(run[b].current) = {} /\ run'[b] = Await(b, "count")
        BY <3>1, <4>1
      <4>3. run'[b].current = run[b].current
        BY <3>1, <4>2 DEF Await, RunState
      <4> QED BY <3>5, <4>2, <4>3 DEF checkOpen, storeVars
    <3>6. ASSUME NEW n \in Counts, queryLogCount(b, n) \/ queryPreviousCount(b, n)
          PROVE run[b].pc \in PastLookup /\ run'[b].current = run[b].current
      <4>1. run'[b] \in {Finish(b), Await(b, "create"), [Await(b, "prev") EXCEPT !.counted = n]}
        BY <1>0, <3>6 DEF queryLogCount, queryPreviousCount
      <4>2. run'[b].current = run[b].current
        BY <3>1, <4>1 DEF Await, RunState
      <4> QED BY <3>6, <4>2 DEF queryLogCount, queryPreviousCount
    <3>7. CASE createIncident(b) \/ evaluateRuleFails(b)
      BY <1>0, <3>1, <3>7 DEF createIncident, evaluateRuleFails
    <3> QED BY <2>0, <2>b, <3>2, <3>3, <3>4, <3>5, <3>6, <3>7 DEF WorkerStep, evaluateRule
  <2> QED BY <2>a, <2>b
<1>5. CASE Clock \/ Api \/ Shutdown \/ UNCHANGED vars
  BY <1>1, <1>5 DEF Clock, Api, Shutdown, stop, vars, workerVars
<1> QED BY <1>2, <1>3, <1>4, <1>5 DEF Next

-----------------------------------------------------------------------------
(***************************************************************************)
(* The conjuncts of the inductive invariant, one lemma each.               *)
(***************************************************************************)
\* A request about to commit read a status its action may start from.
LEMMA RequestsAllowedStep ==
  ASSUME TypeOK, RequestsAllowed, [Next]_vars
  PROVE  RequestsAllowed'
<1> USE DEF RequestsAllowed
<1>0. request \in [Requests -> RequestState] /\ incident \in [Incidents -> IncidentRow]
  BY DEF TypeOK, ServiceTypeOK, StoreTypeOK
<1>1. CASE UNCHANGED request
  BY <1>1
<1>2. CASE IncidentStep
  <2>1. ASSUME NEW q \in Requests, NEW action \in IncidentAction, NEW i \in Incidents,
               assertIncidentInTeam(q, action, i)
        PROVE  RequestsAllowed'
    BY <1>0, <2>1 DEF assertIncidentInTeam
  <2>2. ASSUME NEW q \in Requests, transitionIncident(q) PROVE RequestsAllowed'
    BY <1>0, <2>2 DEF transitionIncident, Idle
  <2> QED BY <1>2, <2>1, <2>2 DEF IncidentStep
<1>3. CASE Exit
  BY <1>3 DEF Exit, Idle
<1>4. CASE RuleStep \/ WindowStep
  BY <1>1, <1>4 DEF RuleStep, WindowStep, createRule, updateRule, deleteRule, muteRule, unmuteRule,
     createWindow, deleteWindow
<1>5. CASE Clock \/ Interval \/ (\E a \in Activations : Evaluation(a)) \/ Start \/ Shutdown \/ UNCHANGED vars
  BY <1>1, <1>5 DEF Clock, Interval, Evaluation, Start, Shutdown, vars, serviceVars
<1> QED BY <1>2, <1>3, <1>4, <1>5 DEF Next, Api, ServiceNext

\* The running flag keeps evaluations from overlapping.
LEMMA OneEvaluationStep ==
  ASSUME TypeOK, OneEvaluation, [Next]_vars
  PROVE  OneEvaluation'
<1>0. run \in [Activations -> RunState]
  BY DEF TypeOK, WorkerTypeOK
<1>1. CASE UNCHANGED <<running, run>>
  BY <1>1 DEF OneEvaluation
<1>2. CASE Interval \/ Start
  <2>1. PICK a \in Activations : evaluate(a)
    BY <1>2 DEF Interval, interval, Start, start
  <2>2. \A b \in Activations : run[b].pc = "idle"
    BY <2>1 DEF OneEvaluation, evaluate, EntryGuard
  <2>3. running' = TRUE /\ \A b \in Activations : b # a => run'[b] = run[b]
    BY <1>0, <2>1 DEF evaluate
  <2> QED BY <2>2, <2>3 DEF OneEvaluation
<1>3. CASE Exit
  BY <1>3 DEF Exit, Inactive, OneEvaluation
<1>4. ASSUME NEW a \in Activations, Evaluation(a) PROVE OneEvaluation'
  <2>0. WorkerStep(a)
    BY <1>4 DEF Evaluation
  <2>1. running /\ \A b \in Activations : b # a => run[b].pc = "idle"
    BY <2>0 DEF OneEvaluation, WorkerStep, evaluateRule, loadRules, loadRulesFails, endLoop, nextRule,
       checkWindow, checkOpen, queryLogCount, queryPreviousCount, createIncident, evaluateRuleFails, Awaiting
  <2>2. \A b \in Activations : b # a => run'[b] = run[b]
    BY <2>0, <1>0 DEF WorkerStep, evaluateRule, loadRules, loadRulesFails, endLoop, Leave, nextRule,
       checkWindow, checkOpen, queryLogCount, queryPreviousCount, createIncident, evaluateRuleFails
  <2>3. CASE Leave(a)
    <3>1. run'[a].pc = "idle"
      BY <1>0, <2>3 DEF Leave, Inactive
    <3> QED BY <2>1, <2>2, <3>1 DEF OneEvaluation
  <2>4. CASE UNCHANGED running
    BY <2>1, <2>2, <2>4 DEF OneEvaluation
  <2> QED BY <2>0, <2>3, <2>4 DEF WorkerStep, evaluateRule, loadRules, loadRulesFails, endLoop, nextRule,
       checkWindow, checkOpen, queryLogCount, queryPreviousCount, createIncident, evaluateRuleFails
<1>5. CASE Clock \/ Api \/ Shutdown \/ UNCHANGED vars
  BY <1>1, <1>5 DEF Clock, Api, Shutdown, stop, vars, workerVars
<1> QED BY <1>2, <1>3, <1>4, <1>5 DEF Next

\* The three ways incidents change, spelled out on the rows.
LEMMA DeleteEffect ==
  ASSUME TypeOK, NEW r \in Rules, deleteRule(r), NEW i \in Incidents, Live(i)'
  PROVE  incident'[i] = incident[i] /\ timeline'[i] = timeline[i] /\ Live(i) /\ incident[i].rule # r
<1>0. incident \in [Incidents -> IncidentRow]
  BY DEF TypeOK, StoreTypeOK
<1>1. incident'[i] = IF Live(i) /\ incident[i].rule = r
                       THEN [incident[i] EXCEPT !.status = "deleted"] ELSE incident[i]
  BY DEF deleteRule
<1>2. incident'[i].status # "deleted"
  BY DEF Live, IncidentStatus
<1>3. ~(Live(i) /\ incident[i].rule = r)
  BY <1>0, <1>1, <1>2 DEF IncidentRow
<1>4. incident'[i] = incident[i] /\ Live(i)
  BY <1>1, <1>3 DEF Live
<1> QED BY <1>3, <1>4 DEF deleteRule

\* A committed transition changes the status and the timeline of one incident together.
LEMMA TransitionEffect ==
  ASSUME TypeOK, RequestsAllowed, NEW q \in Requests, transitionIncident(q), StatusUnchanged(request[q])
  PROVE  \E i \in Incidents, b \in IncidentAction :
           /\ Live(i) /\ incident[i].status \in AllowedFrom[b]
           /\ incident' = [incident EXCEPT ![i].status = Target[b]]
           /\ timeline' = [timeline EXCEPT ![i] = Append(@, b)]
           /\ incident'[i].status = Target[b] /\ incident'[i].rule = incident[i].rule
           /\ timeline'[i] = Append(timeline[i], b)
           /\ \A j \in Incidents : j # i => incident'[j] = incident[j] /\ timeline'[j] = timeline[j]
<1> DEFINE i == request[q].incident
           b == request[q].action
<1>1. /\ request[q] \in RequestState /\ incident \in [Incidents -> IncidentRow]
      /\ timeline \in [Incidents -> Seq(IncidentAction)]
  BY DEF TypeOK, ServiceTypeOK, StoreTypeOK
<1>2. i \in Incidents /\ b \in IncidentAction /\ request[q].current \in IncidentStatus
  BY <1>1 DEF RequestState
<1>3. request[q].pc = "commit" /\ incident[i].status = request[q].current
  BY DEF transitionIncident, StatusUnchanged
<1>4. Live(i) /\ incident[i].status \in AllowedFrom[b]
  BY <1>2, <1>3 DEF RequestsAllowed, Live
<1>5. /\ incident' = [incident EXCEPT ![i].status = Target[b]]
      /\ timeline' = [timeline EXCEPT ![i] = Append(@, b)]
  BY DEF transitionIncident
<1>6. /\ incident'[i].status = Target[b] /\ incident'[i].rule = incident[i].rule
      /\ timeline'[i] = Append(timeline[i], b)
      /\ \A j \in Incidents : j # i => incident'[j] = incident[j] /\ timeline'[j] = timeline[j]
  BY <1>1, <1>2, <1>5 DEF IncidentRow
<1> QED BY <1>2, <1>4, <1>5, <1>6

\* A create opens one incident that never existed before and touches no other.
LEMMA CreateEffect ==
  ASSUME TypeOK, NEW a \in Activations, createIncident(a)
  PROVE  \E i \in Incidents :
           /\ incident[i].status = "unborn"
           /\ incident' = [incident EXCEPT ![i] = [status |-> "OPEN", rule |-> run[a].current]]
           /\ incident'[i] = [status |-> "OPEN", rule |-> run[a].current]
           /\ timeline' = timeline
           /\ \A j \in Incidents : j # i => incident'[j] = incident[j]
<1> DEFINE i == CHOOSE x \in FreshIds : TRUE
<1>1. incident \in [Incidents -> IncidentRow]
  BY DEF TypeOK, StoreTypeOK
<1>2. i \in FreshIds
  BY DEF createIncident
<1>3. i \in Incidents /\ incident[i].status = "unborn"
  BY <1>2 DEF FreshIds
<1>4. incident' = [incident EXCEPT ![i] = [status |-> "OPEN", rule |-> run[a].current]] /\ timeline' = timeline
  BY DEF createIncident
<1> HIDE DEF i
<1> QED BY <1>1, <1>3, <1>4

\* Deleting a rule takes its incidents along, and the foreign key refuses new ones.
LEMMA NoOrphansStep ==
  ASSUME TypeOK, RequestsAllowed, NoOrphans, [Next]_vars
  PROVE  NoOrphans'
<1>0. /\ rule \in [Rules -> RuleRow] /\ incident \in [Incidents -> IncidentRow]
      /\ timeline \in [Incidents -> Seq(IncidentAction)]
  BY DEF TypeOK, StoreTypeOK
<1>a. \A i \in Incidents : incident[i].rule \in Rules
  BY <1>0 DEF IncidentRow
<1>1. CASE UNCHANGED <<incident, timeline>> /\ \A r \in Rules : rule[r].row = "live" => rule'[r].row = "live"
  BY <1>a, <1>1 DEF NoOrphans, Live
<1>2. ASSUME NEW r \in Rules, deleteRule(r) PROVE NoOrphans'
  <2> SUFFICES ASSUME NEW i \in Incidents
               PROVE  /\ Live(i)' => rule'[incident'[i].rule].row = "live"
                      /\ timeline'[i] # << >> => Live(i)'
    BY DEF NoOrphans
  <2>1. ASSUME Live(i)' PROVE rule'[incident'[i].rule].row = "live"
    <3>1. incident'[i] = incident[i] /\ Live(i) /\ incident[i].rule # r
      BY <1>2, <2>1, DeleteEffect
    <3>2. rule'[incident[i].rule] = rule[incident[i].rule]
      BY <1>0, <1>2, <3>1 DEF deleteRule
    <3> QED BY <3>1, <3>2 DEF NoOrphans
  <2>2. ASSUME timeline'[i] # << >> PROVE Live(i)'
    <3>1. incident[i].rule # r /\ timeline'[i] = timeline[i]
      BY <1>2, <2>2 DEF deleteRule
    <3>2. incident'[i] = incident[i]
      BY <1>2, <3>1 DEF deleteRule
    <3> QED BY <2>2, <3>1, <3>2 DEF NoOrphans, Live
  <2> QED BY <2>1, <2>2
<1>3. ASSUME NEW q \in Requests, transitionIncident(q), StatusUnchanged(request[q]) PROVE NoOrphans'
  <2>1. PICK i \in Incidents, b \in IncidentAction :
          /\ Live(i)
          /\ incident'[i].status = Target[b] /\ incident'[i].rule = incident[i].rule
          /\ \A j \in Incidents : j # i => incident'[j] = incident[j] /\ timeline'[j] = timeline[j]
    BY <1>3, TransitionEffect
  <2>2. UNCHANGED rule /\ Live(i)'
    BY <1>3, <2>1, TargetIsStatus DEF transitionIncident, Live
  <2> QED BY <2>1, <2>2 DEF NoOrphans, Live
<1>4. ASSUME NEW a \in Activations, createIncident(a) PROVE NoOrphans'
  <2>1. PICK i \in Incidents :
          /\ incident[i].status = "unborn"
          /\ incident'[i] = [status |-> "OPEN", rule |-> run[a].current]
          /\ timeline' = timeline
          /\ \A j \in Incidents : j # i => incident'[j] = incident[j]
    BY <1>4, CreateEffect
  <2>2. UNCHANGED rule /\ rule[run[a].current].row = "live" /\ Live(i)'
    BY <1>4, <2>1 DEF createIncident, Live, IncidentStatus
  <2> QED BY <2>1, <2>2 DEF NoOrphans, Live
<1>5. CASE UNCHANGED <<incident, timeline>>
  <2>1. ASSUME ~ \E r \in Rules : deleteRule(r)
        PROVE  \A r \in Rules : rule[r].row = "live" => rule'[r].row = "live"
    <3>1. CASE RuleStep
      <4> TAKE x \in Rules
      <4>1. ASSUME NEW r \in Rules, NEW spec \in Specs, NEW enabled \in BOOLEAN, createRule(r, spec, enabled)
            PROVE  rule[x].row = "live" => rule'[x].row = "live"
        BY <1>0, <4>1 DEF createRule
      <4>2. ASSUME NEW r \in Rules, NEW spec \in Specs, NEW enabled \in BOOLEAN, updateRule(r, spec, enabled)
            PROVE  rule'[x].row = rule[x].row
        <5>1. rule' = [rule EXCEPT ![r] = [@ EXCEPT !.spec = spec, !.enabled = enabled]]
          BY <4>2 DEF updateRule
        <5> QED BY <1>0, <5>1 DEF RuleRow
      <4>3. ASSUME NEW r \in Rules, unmuteRule(r) \/ \E d \in Durations : muteRule(r, d)
            PROVE  rule'[x].row = rule[x].row
        BY <1>0, <4>3 DEF muteRule, unmuteRule, RuleRow
      <4> QED BY <2>1, <3>1, <4>1, <4>2, <4>3 DEF RuleStep
    <3>2. CASE UNCHANGED rule
      BY <3>2
    <3>3. CASE WindowStep \/ IncidentStep
      BY <3>2, <3>3 DEF WindowStep, IncidentStep, createWindow, deleteWindow, assertIncidentInTeam,
         transitionIncident, storeVars
    <3>4. ASSUME NEW a \in Activations, Evaluation(a) PROVE UNCHANGED rule
      BY <3>4 DEF Evaluation, WorkerStep, evaluateRule, loadRules, loadRulesFails, endLoop, Leave, nextRule,
         checkWindow, checkOpen, queryLogCount, queryPreviousCount, createIncident, evaluateRuleFails, storeVars
    <3>5. CASE Clock \/ Interval \/ Start \/ Shutdown \/ Exit \/ UNCHANGED vars
      BY <3>2, <3>5 DEF Clock, Tick, Interval, interval, Start, start, Shutdown, stop, Exit, vars, storeVars
    <3> QED BY <3>1, <3>2, <3>3, <3>4, <3>5 DEF Next, Api, ServiceNext
  <2> QED BY <1>1, <1>2, <1>5, <2>1
<1> QED BY <1>2, <1>3, <1>4, <1>5, IncidentEffects

\* A committed action extends the timeline by a step the table of transitions allows.
LEMMA TimelineStep ==
  ASSUME TypeOK, RequestsAllowed, NoOrphans, TimelineIsHistory, [Next]_vars
  PROVE  TimelineIsHistory'
<1>0. timeline \in [Incidents -> Seq(IncidentAction)]
  BY DEF TypeOK, StoreTypeOK
<1>1. CASE UNCHANGED <<incident, timeline>>
  BY <1>1 DEF TimelineIsHistory, Live, StatusAfter, StatusBefore
<1>2. ASSUME NEW r \in Rules, deleteRule(r) PROVE TimelineIsHistory'
  BY <1>2, DeleteEffect DEF TimelineIsHistory, StatusAfter, StatusBefore
<1>3. ASSUME NEW q \in Requests, transitionIncident(q), StatusUnchanged(request[q]) PROVE TimelineIsHistory'
  <2>1. PICK i \in Incidents, b \in IncidentAction :
          /\ Live(i) /\ incident[i].status \in AllowedFrom[b]
          /\ incident'[i].status = Target[b]
          /\ timeline'[i] = Append(timeline[i], b)
          /\ \A j \in Incidents : j # i => incident'[j] = incident[j] /\ timeline'[j] = timeline[j]
    BY <1>3, TransitionEffect
  <2> DEFINE t == timeline[i]
             u == Append(t, b)
  <2>2. t \in Seq(IncidentAction) /\ u \in Seq(IncidentAction) /\ Len(u) = Len(t) + 1 /\ Len(t) \in Nat
    BY <1>0, <2>1
  <2>3. u[Len(u)] = b /\ \A k \in 1..Len(t) : u[k] = t[k]
    BY <2>2
  <2>4. StatusAfter(u) = Target[b]
    <3>1. u # << >>
      BY <2>2
    <3> HIDE DEF u
    <3> QED BY <2>3, <3>1 DEF StatusAfter
  <2>5. StatusBefore(u, Len(u)) = StatusAfter(t)
    <3>1. CASE t = << >>
      BY <2>2, <3>1 DEF StatusBefore, StatusAfter
    <3>2. CASE t # << >>
      <4>1. Len(t) # 0
        BY <2>2, <3>2
      <4>2. Len(u) # 1 /\ u[Len(u) - 1] = t[Len(t)]
        BY <2>2, <2>3, <4>1
      <4> QED BY <3>2, <4>2 DEF StatusBefore, StatusAfter
    <3> QED BY <3>1, <3>2
  <2>6. ASSUME NEW k \in 1..Len(t) PROVE StatusBefore(u, k) = StatusBefore(t, k)
    BY <2>2, <2>3, <2>6 DEF StatusBefore
  <2>7. incident[i].status = StatusAfter(t) /\ \A k \in 1..Len(t) : StatusBefore(t, k) \in AllowedFrom[t[k]]
    BY <2>1 DEF TimelineIsHistory
  <2> HIDE DEF t, u
  <2>8. \A k \in 1..Len(u) : StatusBefore(u, k) \in AllowedFrom[u[k]]
    <3> TAKE k \in 1..Len(u)
    <3>1. CASE k = Len(u)
      BY <2>1, <2>3, <2>5, <2>7, <3>1
    <3>2. CASE k \in 1..Len(t)
      BY <2>3, <2>6, <2>7, <3>2
    <3> QED BY <2>2, <3>1, <3>2
  <2>9. timeline'[i] = u
    BY <2>1 DEF u, t
  <2> QED BY <2>1, <2>4, <2>8, <2>9 DEF TimelineIsHistory, Live, StatusAfter, StatusBefore
<1>4. ASSUME NEW a \in Activations, createIncident(a) PROVE TimelineIsHistory'
  <2>1. PICK i \in Incidents :
          /\ incident[i].status = "unborn"
          /\ incident'[i] = [status |-> "OPEN", rule |-> run[a].current]
          /\ timeline' = timeline
          /\ \A j \in Incidents : j # i => incident'[j] = incident[j]
    BY <1>4, CreateEffect
  <2>2. timeline'[i] = << >>
    BY <2>1 DEF NoOrphans, Live, IncidentStatus
  <2>3. Len(timeline'[i]) = 0 /\ incident'[i].status = StatusAfter(timeline'[i])
    BY <2>1, <2>2 DEF StatusAfter
  <2> QED BY <2>1, <2>3 DEF TimelineIsHistory, Live, StatusAfter, StatusBefore
<1> QED BY <1>1, <1>2, <1>3, <1>4, IncidentEffects

\* An action leaves an incident OPEN only by a reopen, which stays in the timeline.
LEMMA ReopenEffect ==
  ASSUME NEW t \in Seq(IncidentAction), NEW b \in IncidentAction
  PROVE  /\ Target[b] = "OPEN" => b = "REOPENED"
         /\ \E k \in 1..Len(Append(t, b)) : Append(t, b)[k] = b
<1>1. Target[b] = "OPEN" => b = "REOPENED"
  BY DEF Target, IncidentAction
<1>2. Len(Append(t, b)) \in 1..Len(Append(t, b)) /\ Append(t, b)[Len(Append(t, b))] = b
  OBVIOUS
<1> QED BY <1>1, <1>2

\* What appears OPEN after the lookup was reopened.
LEMMA LookupStep ==
  ASSUME TypeOK, RequestsAllowed, OneEvaluation, LookupHolds, [Next]_vars
  PROVE  LookupHolds'
<1> SUFFICES ASSUME NEW b \in Activations, NEW j \in Incidents, run'[b].pc \in PastLookup,
                    incident'[j].rule = run'[b].current, incident'[j].status = "OPEN"
             PROVE  ~NeverReopened(j)'
  BY DEF LookupHolds, PastLookup
<1>0. timeline \in [Incidents -> Seq(IncidentAction)] /\ run \in [Activations -> RunState]
  BY DEF TypeOK, StoreTypeOK, WorkerTypeOK
<1>1. run'[b].current = run[b].current
  BY RunEffects
<1>2. CASE OpenIncidents(run[b].current) = {} /\ UNCHANGED <<incident, timeline>>
  BY <1>1, <1>2 DEF OpenIncidents
<1>3. CASE run[b].pc \in PastLookup
  <2>1. CASE UNCHANGED <<incident, timeline>>
    BY <1>1, <1>3, <2>1 DEF LookupHolds, PastLookup, NeverReopened
  <2>2. ASSUME NEW r \in Rules, deleteRule(r) PROVE ~NeverReopened(j)'
    <3>1. Live(j)'
      BY DEF Live, IncidentStatus
    <3>2. incident'[j] = incident[j] /\ timeline'[j] = timeline[j]
      BY <2>2, <3>1, DeleteEffect
    <3>3. ~NeverReopened(j)
      BY <1>1, <1>3, <3>2 DEF LookupHolds, PastLookup
    <3> QED BY <3>2, <3>3 DEF NeverReopened
  <2>3. ASSUME NEW q \in Requests, transitionIncident(q), StatusUnchanged(request[q])
        PROVE  ~NeverReopened(j)'
    <3>1. PICK i \in Incidents, c \in IncidentAction :
            /\ incident'[i].status = Target[c]
            /\ timeline'[i] = Append(timeline[i], c)
            /\ \A k \in Incidents : k # i => incident'[k] = incident[k] /\ timeline'[k] = timeline[k]
      BY <2>3, TransitionEffect
    <3>2. CASE j = i
      <4>1. c = "REOPENED" /\ \E k \in 1..Len(timeline'[j]) : timeline'[j][k] = c
        BY <1>0, <3>1, <3>2, ReopenEffect
      <4> QED BY <4>1 DEF NeverReopened
    <3>3. CASE j # i
      BY <1>1, <1>3, <3>1, <3>3 DEF LookupHolds, PastLookup, NeverReopened
    <3> QED BY <3>2, <3>3
  <2>4. ASSUME NEW a \in Activations, createIncident(a) PROVE FALSE
    <3>1. a = b
      BY <1>3, <2>4 DEF OneEvaluation, createIncident, PastLookup
    <3>2. run'[b].pc = "loop"
      BY <1>0, <2>4, <3>1 DEF createIncident, Finish, RunState
    <3> QED BY <3>2 DEF PastLookup
  <2> QED BY <2>1, <2>2, <2>3, <2>4, IncidentEffects
<1> QED BY <1>2, <1>3, RunEffects

\* A create cannot meet an OPEN incident that was never reopened.
LEMMA DedupStep ==
  ASSUME TypeOK, RequestsAllowed, LookupHolds, OneUnreopenedOpen, [Next]_vars
  PROVE  OneUnreopenedOpen'
<1> DEFINE Fresh(i) == incident[i].status = "OPEN" /\ NeverReopened(i)
<1>0. timeline \in [Incidents -> Seq(IncidentAction)]
  BY DEF TypeOK, StoreTypeOK
<1>a. ASSUME \A i \in Incidents : Fresh(i)' => Fresh(i) /\ incident'[i].rule = incident[i].rule
      PROVE  OneUnreopenedOpen'
  BY <1>a DEF OneUnreopenedOpen
<1>1. CASE UNCHANGED <<incident, timeline>>
  BY <1>1, <1>a DEF NeverReopened
<1>2. ASSUME NEW r \in Rules, deleteRule(r) PROVE OneUnreopenedOpen'
  <2>1. ASSUME NEW i \in Incidents, Fresh(i)' PROVE Fresh(i) /\ incident'[i].rule = incident[i].rule
    <3>1. Live(i)'
      BY <2>1 DEF Live, IncidentStatus
    <3>2. incident'[i] = incident[i] /\ timeline'[i] = timeline[i]
      BY <1>2, <3>1, DeleteEffect
    <3> QED BY <2>1, <3>2 DEF NeverReopened
  <2> QED BY <1>a, <2>1
<1>3. ASSUME NEW q \in Requests, transitionIncident(q), StatusUnchanged(request[q]) PROVE OneUnreopenedOpen'
  <2>1. PICK i \in Incidents, c \in IncidentAction :
          /\ incident'[i].status = Target[c]
          /\ timeline'[i] = Append(timeline[i], c)
          /\ \A k \in Incidents : k # i => incident'[k] = incident[k] /\ timeline'[k] = timeline[k]
    BY <1>3, TransitionEffect
  <2>2. ~Fresh(i)'
    <3>1. Target[c] = "OPEN" => c = "REOPENED"
      BY <1>0, ReopenEffect
    <3>2. \E k \in 1..Len(timeline'[i]) : timeline'[i][k] = c
      BY <1>0, <2>1, ReopenEffect
    <3> QED BY <2>1, <3>1, <3>2 DEF NeverReopened
  <2>3. ASSUME NEW j \in Incidents, Fresh(j)' PROVE Fresh(j) /\ incident'[j].rule = incident[j].rule
    BY <2>1, <2>2, <2>3 DEF NeverReopened
  <2> QED BY <1>a, <2>3
<1>4. ASSUME NEW a \in Activations, createIncident(a) PROVE OneUnreopenedOpen'
  <2>1. PICK i \in Incidents :
          /\ incident'[i] = [status |-> "OPEN", rule |-> run[a].current]
          /\ timeline' = timeline
          /\ \A j \in Incidents : j # i => incident'[j] = incident[j]
    BY <1>4, CreateEffect
  <2>2. ASSUME NEW j \in Incidents, j # i, Fresh(j)' PROVE incident'[j].rule # incident'[i].rule
    <3>1. Fresh(j) /\ incident'[j] = incident[j] /\ incident'[i].rule = run[a].current
      BY <2>1, <2>2 DEF NeverReopened
    <3> QED BY <1>4, <3>1 DEF LookupHolds, createIncident
  <2>3. ASSUME NEW j \in Incidents, NEW k \in Incidents, j # i, k # i, Fresh(j)', Fresh(k)',
               incident'[j].rule = incident'[k].rule
        PROVE  j = k
    BY <2>1, <2>3 DEF OneUnreopenedOpen, NeverReopened
  <2> QED BY <2>2, <2>3 DEF OneUnreopenedOpen
<1> QED BY <1>1, <1>2, <1>3, <1>4, IncidentEffects

-----------------------------------------------------------------------------
\* The inductive invariant holds initially.
LEMMA InitIInv == Init => IInv
<1> SUFFICES ASSUME Init PROVE IInv
  OBVIOUS
<1>1. \A i \in Incidents : incident[i].status = "unborn" /\ timeline[i] = << >>
  BY DEF Init, StoreInit, UnbornIncident
<1>2. NoOrphans /\ TimelineIsHistory /\ LookupHolds /\ OneUnreopenedOpen
  BY <1>1 DEF NoOrphans, TimelineIsHistory, LookupHolds, OneUnreopenedOpen, Live, IncidentStatus
<1>3. RequestsAllowed /\ OneEvaluation
  BY DEF Init, ServiceInit, WorkerInit, Idle, Inactive, RequestsAllowed, OneEvaluation
<1> QED BY <1>2, <1>3, InitTypeOK DEF IInv

\* The inductive invariant is preserved by every step.
LEMMA StepIInv == IInv /\ [Next]_vars => IInv'
  BY StepTypeOK, RequestsAllowedStep, OneEvaluationStep, NoOrphansStep, TimelineStep, LookupStep, DedupStep
  DEF IInv

\* The inductive invariant holds in every reachable state.
THEOREM Invariance == Spec => []IInv
  BY InitIInv, StepIInv, PTL DEF Spec

(***************************************************************************)
(* The timeline of every incident is its history, however many requests    *)
(* race on it.                                                             *)
(***************************************************************************)
THEOREM TimelineTheorem == Spec => []TimelineIsHistory
<1>1. IInv => TimelineIsHistory
  BY DEF IInv
<1> QED BY <1>1, Invariance, PTL

(***************************************************************************)
(* Of any two OPEN incidents of a rule one was reopened.                   *)
(***************************************************************************)
THEOREM DedupTheorem == Spec => []OneUnreopenedOpen
<1>1. IInv => OneUnreopenedOpen
  BY DEF IInv
<1> QED BY <1>1, Invariance, PTL

(***************************************************************************)
(* No incident and no timeline entry outlives its rule.                    *)
(***************************************************************************)
THEOREM NoOrphansTheorem == Spec => []NoOrphans
<1>1. IInv => NoOrphans
  BY DEF IInv
<1> QED BY <1>1, Invariance, PTL

-----------------------------------------------------------------------------
(***************************************************************************)
(* Refinement: initial states map to initial states and every step to one  *)
(* step of the lifecycle or to none.                                       *)
(***************************************************************************)
\* Every step of the engine is a step of the lifecycle or leaves the incidents alone.
LEMMA LifecycleStep ==
  ASSUME IInv, [Next]_vars
  PROVE  [Lifecycle!Next]_<<incident, timeline>>
<1>0. TypeOK /\ RequestsAllowed /\ LookupHolds
  BY DEF IInv
<1>1. ASSUME NEW r \in Rules, deleteRule(r) PROVE Lifecycle!DeleteRule(r)
  BY <1>1 DEF deleteRule, Lifecycle!DeleteRule, Live, IncidentStatus, Lifecycle!Status
<1>2. ASSUME NEW q \in Requests, transitionIncident(q), StatusUnchanged(request[q])
      PROVE  \E i \in Incidents, e \in Lifecycle!Edge : Lifecycle!Act(i, e)
  <2>1. PICK i \in Incidents, b \in IncidentAction :
          /\ incident[i].status \in AllowedFrom[b]
          /\ incident' = [incident EXCEPT ![i].status = Target[b]]
          /\ timeline' = [timeline EXCEPT ![i] = Append(@, b)]
    BY <1>0, <1>2, TransitionEffect
  <2> DEFINE e == <<incident[i].status, b, Target[b]>>
  <2>2. e \in Lifecycle!Edge
    BY <2>1 DEF AllowedFrom, Target, IncidentAction, Lifecycle!Edge
  <2>3. Lifecycle!Act(i, e)
    BY <2>1 DEF Lifecycle!Act
  <2> HIDE DEF e
  <2> QED BY <2>2, <2>3
<1>3. ASSUME NEW a \in Activations, createIncident(a)
      PROVE  \E i \in Incidents, r \in Rules : Lifecycle!Open(i, r)
  <2>1. PICK i \in Incidents :
          /\ incident[i].status = "unborn"
          /\ incident' = [incident EXCEPT ![i] = [status |-> "OPEN", rule |-> run[a].current]]
          /\ timeline' = timeline
    BY <1>0, <1>3, CreateEffect
  <2>2. run[a].current \in Rules
    BY <1>0 DEF TypeOK, WorkerTypeOK, RunState
  <2>3. ~ \E j \in Incidents : /\ incident[j].rule = run[a].current
                              /\ incident[j].status = "OPEN"
                              /\ Lifecycle!NeverReopened(j)
    BY <1>0, <1>3 DEF LookupHolds, createIncident, NeverReopened, Lifecycle!NeverReopened
  <2>4. Lifecycle!Open(i, run[a].current)
    BY <2>1, <2>3 DEF Lifecycle!Open
  <2> QED BY <2>2, <2>4
<1> QED BY <1>1, <1>2, <1>3, IncidentEffects DEF Lifecycle!Next

(***************************************************************************)
(* The API and the worker together implement the incident lifecycle.       *)
(***************************************************************************)
THEOREM Refinement == Spec => ImplementsLifecycle
<1>1. Init => Lifecycle!Init
  BY Defaults DEF Init, StoreInit, UnbornIncident, Lifecycle!Init
<1>2. IInv /\ [Next]_vars => [Lifecycle!Next]_<<incident, timeline>>
  BY LifecycleStep
<1> QED BY <1>1, <1>2, Invariance, PTL DEF Spec, ImplementsLifecycle, Lifecycle!Spec

-----------------------------------------------------------------------------
(***************************************************************************)
(* Suppression.  What a step can do to an activation that is in the loop   *)
(* afterwards: load the rules, take a rule, or go on with what it has.     *)
(***************************************************************************)
InLoop == {"loop"} \cup Awaiting

LoadsRules(b) ==
  /\ run[b].pc = "load" /\ run'[b].pc = "loop" /\ rule' = rule
  /\ \A r \in run'[b].todo : run'[b].snapshot[r] = rule[r]

TakesRule(b) ==
  /\ run[b].pc = "loop" /\ run'[b].pc = "window"
  /\ run'[b].current \in run[b].todo
  /\ ~Muted(run[b].snapshot[run'[b].current], clock)
  /\ run'[b].todo = run[b].todo \ {run'[b].current}
  /\ run'[b].snapshot = run[b].snapshot
  /\ run'[b].at = clock /\ clock' = clock

PassesWindow(b) ==
  run[b].pc = "window" /\ ActiveWindows(TeamOf[run[b].current], run[b].at) = {}

GoesOn(b) ==
  /\ run[b].pc \in InLoop
  /\ run'[b].todo \subseteq run[b].todo
  /\ run[b].pc \in Awaiting => run'[b].todo = run[b].todo
  /\ \A r \in run'[b].todo : (run[b].pc \in Awaiting /\ r = run[b].current) \/ run'[b].snapshot[r] = run[b].snapshot[r]
  /\ run'[b].pc \in Awaiting =>
       /\ run[b].pc \in Awaiting /\ run'[b].current = run[b].current /\ run'[b].at = run[b].at
       /\ run'[b].pc = "window" => run[b].pc = "window"
       /\ run'[b].pc # "window" => run[b].pc # "window" \/ PassesWindow(b)

\* One step of the loop, on the activation that takes it.
LEMMA OwnStep ==
  ASSUME TypeOK, NEW b \in Activations, WorkerStep(b), run'[b].pc \in InLoop
  PROVE  LoadsRules(b) \/ TakesRule(b) \/ GoesOn(b)
<1>0. run \in [Activations -> RunState] /\ run[b] \in RunState
  BY DEF TypeOK, WorkerTypeOK
<1>f. /\ Finish(b).pc = "loop" /\ Finish(b).todo = run[b].todo
      /\ \A r \in Rules : r # run[b].current => Finish(b).snapshot[r] = run[b].snapshot[r]
  <2>1. Finish(b) = [run[b] EXCEPT !.pc = "loop", !.current = AnyRule, !.at = 0, !.counted = 0,
                        !.snapshot = [run[b].snapshot EXCEPT ![run[b].current] = UnbornRule]]
    BY <1>0 DEF Finish, RunState
  <2> DEFINE cleared == [run[b].snapshot EXCEPT ![run[b].current] = UnbornRule]
  <2>2. Finish(b).pc = "loop" /\ Finish(b).todo = run[b].todo /\ Finish(b).snapshot = cleared
    BY <1>0, <2>1 DEF RunState
  <2>3. \A r \in Rules : r # run[b].current => cleared[r] = run[b].snapshot[r]
    BY <1>0 DEF RunState
  <2> HIDE DEF cleared
  <2> QED BY <2>2, <2>3
<1>w. \A pc \in Awaiting : /\ Await(b, pc).pc = pc /\ Await(b, pc).todo = run[b].todo
                           /\ Await(b, pc).snapshot = run[b].snapshot
                           /\ Await(b, pc).current = run[b].current /\ Await(b, pc).at = run[b].at
  BY <1>0 DEF Await, RunState, Awaiting
<1>t. run[b].todo \subseteq Rules
  BY <1>0 DEF RunState
<1>g. ASSUME run[b].pc \in Awaiting, run'[b] = Finish(b) PROVE GoesOn(b)
  <2>1. run'[b].pc = "loop" /\ "loop" \notin Awaiting
    BY <1>f, <1>g DEF Awaiting
  <2> QED BY <1>f, <1>g, <1>t, <2>1 DEF GoesOn, InLoop
<1>h. ASSUME run[b].pc \in Awaiting, NEW pc \in Awaiting, pc # "window", run[b].pc # "window" \/ PassesWindow(b),
             run'[b] = Await(b, pc)
      PROVE  GoesOn(b)
  BY <1>h, <1>w DEF GoesOn, InLoop
<1>1. CASE loadRules(b)
  <2> DEFINE loaded == [r \in Rules |-> IF r \in EnabledRules THEN rule[r] ELSE UnbornRule]
  <2>1. run' = [run EXCEPT ![b] = [run[b] EXCEPT !.pc = "loop", !.todo = EnabledRules, !.snapshot = loaded]]
    BY <1>1 DEF loadRules
  <2>2. run'[b].pc = "loop" /\ run'[b].todo = EnabledRules /\ run'[b].snapshot = loaded
    BY <1>0, <2>1 DEF RunState
  <2>3. \A r \in EnabledRules : loaded[r] = rule[r]
    BY DEF EnabledRules
  <2> HIDE DEF loaded
  <2> QED BY <1>1, <2>2, <2>3 DEF LoadsRules, loadRules, storeVars
<1>2. CASE loadRulesFails(b) \/ endLoop(b)
  BY <1>0, <1>2 DEF loadRulesFails, endLoop, Leave, Inactive, InLoop, Awaiting
<1>3. ASSUME NEW r \in Rules, nextRule(b, r) PROVE TakesRule(b) \/ GoesOn(b)
  <2>0. run'[b] = IF Skipped(run[b].snapshot[r]) THEN Skip(b, r) ELSE Take(b, r)
    BY <1>0, <1>3 DEF nextRule
  <2>1. CASE Skipped(run[b].snapshot[r])
    <3>1. Skip(b, r) = [run[b] EXCEPT !.todo = run[b].todo \ {r},
                                      !.snapshot = [run[b].snapshot EXCEPT ![r] = UnbornRule]]
      BY <1>0 DEF Skip, RunState
    <3> DEFINE cleared == [run[b].snapshot EXCEPT ![r] = UnbornRule]
    <3>2. Skip(b, r).pc = run[b].pc /\ Skip(b, r).todo = run[b].todo \ {r} /\ Skip(b, r).snapshot = cleared
      BY <1>0, <3>1 DEF RunState
    <3>3. \A x \in Rules : x # r => cleared[x] = run[b].snapshot[x]
      BY <1>0 DEF RunState
    <3> HIDE DEF cleared
    <3>4. run[b].pc = "loop" /\ "loop" \notin Awaiting
      BY <1>3 DEF nextRule, Awaiting
    <3> QED BY <1>t, <2>0, <2>1, <3>2, <3>3, <3>4 DEF GoesOn, InLoop
  <2>2. CASE ~Skipped(run[b].snapshot[r])
    <3>1. /\ Take(b, r).pc = "window" /\ Take(b, r).todo = run[b].todo \ {r}
          /\ Take(b, r).snapshot = run[b].snapshot
          /\ Take(b, r).current = r /\ Take(b, r).at = clock
      BY <1>0 DEF Take, RunState
    <3> QED BY <1>3, <2>0, <2>2, <3>1 DEF TakesRule, nextRule, Skipped, storeVars
  <2> QED BY <2>1, <2>2
<1>4. CASE checkWindow(b)
  <2>1. run'[b] = IF ActiveWindows(TeamOf[run[b].current], run[b].at) # {} THEN Finish(b) ELSE Await(b, "dedup")
    BY <1>0, <1>4 DEF checkWindow
  <2>2. run[b].pc = "window" /\ run[b].pc \in Awaiting /\ "dedup" \in Awaiting
    BY <1>4 DEF checkWindow, Awaiting
  <2> QED BY <1>g, <1>h, <2>1, <2>2 DEF PassesWindow
<1>5. CASE checkOpen(b)
  <2>1. run'[b] = IF OpenIncidents(run[b].current) # {} THEN Finish(b) ELSE Await(b, "count")
    BY <1>0, <1>5 DEF checkOpen
  <2>2. run[b].pc = "dedup" /\ run[b].pc \in Awaiting /\ "count" \in Awaiting
    BY <1>5 DEF checkOpen, Awaiting
  <2> QED BY <1>g, <1>h, <2>1, <2>2
<1>6. ASSUME NEW n \in Counts, queryLogCount(b, n) \/ queryPreviousCount(b, n) PROVE GoesOn(b)
  <2>1. run'[b] \in {Finish(b), Await(b, "create"), [Await(b, "prev") EXCEPT !.counted = n]}
    BY <1>0, <1>6 DEF queryLogCount, queryPreviousCount
  <2>2. run[b].pc \in Awaiting /\ run[b].pc # "window" /\ "create" \in Awaiting /\ "prev" \in Awaiting
    BY <1>6 DEF queryLogCount, queryPreviousCount, Awaiting
  <2>3. CASE run'[b] = [Await(b, "prev") EXCEPT !.counted = n]
    <3>1. Await(b, "prev") \in RunState
      BY <2>2, FinishTypeOK DEF TypeOK
    <3>2. /\ run'[b].pc = "prev" /\ run'[b].todo = run[b].todo /\ run'[b].snapshot = run[b].snapshot
          /\ run'[b].current = run[b].current /\ run'[b].at = run[b].at
      BY <1>w, <2>2, <2>3, <3>1 DEF RunState
    <3> QED BY <2>2, <3>2 DEF GoesOn, InLoop
  <2> QED BY <1>g, <1>h, <2>1, <2>2, <2>3
<1>7. CASE createIncident(b) \/ evaluateRuleFails(b)
  <2>1. run'[b] = Finish(b) /\ run[b].pc \in Awaiting
    BY <1>0, <1>7 DEF createIncident, evaluateRuleFails, Awaiting
  <2> QED BY <1>g, <2>1
<1> QED BY <1>1, <1>2, <1>3, <1>4, <1>5, <1>6, <1>7 DEF WorkerStep, evaluateRule

\* Any step, on any activation.
LEMMA LoopEffects ==
  ASSUME TypeOK, [Next]_vars, NEW b \in Activations, run'[b].pc \in InLoop
  PROVE  LoadsRules(b) \/ TakesRule(b) \/ GoesOn(b)
<1>0. run \in [Activations -> RunState] /\ run[b] \in RunState
  BY DEF TypeOK, WorkerTypeOK
<1>1. ASSUME run'[b] = run[b] PROVE GoesOn(b)
  BY <1>1 DEF GoesOn
<1>2. CASE Interval \/ Start
  <2>1. PICK a \in Activations : evaluate(a)
    BY <1>2 DEF Interval, interval, Start, start
  <2>2. run' = [run EXCEPT ![a] = [run[a] EXCEPT !.pc = "load"]]
    BY <2>1 DEF evaluate
  <2>3. a = b => run'[b].pc = "load"
    BY <1>0, <2>2 DEF RunState
  <2>4. a # b
    BY <2>3 DEF InLoop, Awaiting
  <2> QED BY <1>0, <1>1, <2>2, <2>4
<1>3. CASE Exit
  BY <1>3 DEF Exit, Inactive, InLoop, Awaiting
<1>4. ASSUME NEW a \in Activations, Evaluation(a) PROVE LoadsRules(b) \/ TakesRule(b) \/ GoesOn(b)
  <2>0. WorkerStep(a)
    BY <1>4 DEF Evaluation
  <2>1. CASE a = b
    BY <2>0, <2>1, OwnStep
  <2>2. CASE a # b
    <3>1. run'[b] = run[b]
      BY <2>0, <2>2, <1>0 DEF WorkerStep, evaluateRule, loadRules, loadRulesFails, endLoop, Leave, nextRule,
         checkWindow, checkOpen, queryLogCount, queryPreviousCount, createIncident, evaluateRuleFails
    <3> QED BY <1>1, <3>1
  <2> QED BY <2>1, <2>2
<1>5. CASE Clock \/ Api \/ Shutdown \/ UNCHANGED vars
  <2>1. run' = run
    BY <1>5 DEF Clock, Api, Shutdown, stop, vars, workerVars
  <2> QED BY <1>1, <2>1
<1> QED BY <1>2, <1>3, <1>4, <1>5 DEF Next

\* The clock never goes back.
LEMMA ClockForward == TypeOK /\ [Next]_vars => clock' >= clock
<1> SUFFICES ASSUME TypeOK, [Next]_vars PROVE clock' >= clock
  OBVIOUS
<1>0. clock \in Nat
  BY DEF TypeOK, StoreTypeOK, Time
<1>1. CASE UNCHANGED clock
  BY <1>0, <1>1
<1>2. CASE Clock
  BY <1>0, <1>2 DEF Clock, Tick
<1>3. CASE Api
  BY <1>1, <1>3 DEF Api, ServiceNext, RuleStep, WindowStep, IncidentStep, createRule, updateRule, deleteRule,
     muteRule, unmuteRule, createWindow, deleteWindow, assertIncidentInTeam, transitionIncident, storeVars
<1>4. ASSUME NEW a \in Activations, Evaluation(a) PROVE UNCHANGED clock
  BY <1>4 DEF Evaluation, WorkerStep, evaluateRule, loadRules, loadRulesFails, endLoop, Leave, nextRule,
     checkWindow, checkOpen, queryLogCount, queryPreviousCount, createIncident, evaluateRuleFails, storeVars
<1>5. CASE Interval \/ Start \/ Shutdown \/ Exit \/ UNCHANGED vars
  BY <1>1, <1>5 DEF Interval, interval, Start, start, Shutdown, stop, Exit, vars, storeVars
<1> QED BY <1>1, <1>2, <1>3, <1>4, <1>5 DEF Next

\* Without a load nothing new is held; a mute that stays held stays the same, and so does a window.
Kept == /\ \A r \in heldMutes' : r \in heldMutes /\ rule'[r].muteUntil = rule[r].muteUntil
        /\ \A w \in heldWindows' : w \in heldWindows /\ window'[w] = window[w]

\* An activation in the loop after a step loaded its rules in it, or nothing new is held.
LEMMA LoadOrKept ==
  ASSUME TypeOK, OneEvaluation, [SuppressionNext]_suppressionVars, NEW b \in Activations,
         run'[b].pc \in InLoop
  PROVE  LoadsRules(b) \/ ((TakesRule(b) \/ GoesOn(b)) /\ Kept)
<1>0. [Next]_vars
  BY DEF SuppressionNext, suppressionVars
<1>1. LoadsRules(b) \/ TakesRule(b) \/ GoesOn(b)
  BY <1>0, LoopEffects
<1>2. ASSUME TakesRule(b) \/ GoesOn(b), Loads PROVE FALSE
  <2>1. PICK a \in Activations : run[a].pc = "load"
    BY <1>2 DEF Loads
  <2>2. run[b].pc \in InLoop
    BY <1>2 DEF TakesRule, GoesOn, InLoop
  <2>3. run[b].pc # "idle" /\ run[b].pc # "load"
    BY <2>2 DEF InLoop, Awaiting
  <2> QED BY <2>1, <2>3 DEF OneEvaluation
<1>3. ASSUME ~Loads PROVE Kept
  <2>1. CASE UNCHANGED suppressionVars
    BY <2>1 DEF Kept, suppressionVars, vars, storeVars
  <2>2. CASE Observe
    BY <1>3, <2>2 DEF Observe, Kept
  <2> QED BY <2>1, <2>2 DEF SuppressionNext
<1> QED BY <1>1, <1>2, <1>3

\* What is held is in force.
LEMMA HeldInForceStep ==
  ASSUME HeldInForce, [SuppressionNext]_suppressionVars
  PROVE  HeldInForce'
<1>1. CASE UNCHANGED suppressionVars
  BY <1>1 DEF HeldInForce, MutedNow, WindowsNow, ActiveWindows, Muted, suppressionVars, vars, storeVars
<1>2. CASE Observe
  BY <1>2 DEF Observe, HeldInForce
<1> QED BY <1>1, <1>2 DEF SuppressionNext

\* The rows the loop has yet to take carry the mutes that are held.
LEMMA LoadedMutesStep ==
  ASSUME TypeOK, OneEvaluation, TakenUnmuted, LoadedMutes, [SuppressionNext]_suppressionVars
  PROVE  LoadedMutes'
<1> SUFFICES ASSUME NEW b \in Activations, run'[b].pc \in InLoop, NEW r \in run'[b].todo, r \in heldMutes'
             PROVE  run'[b].snapshot[r].muteUntil = rule'[r].muteUntil
  BY DEF LoadedMutes, InLoop
<1>1. CASE LoadsRules(b)
  BY <1>1 DEF LoadsRules
<1>2. CASE TakesRule(b) /\ Kept
  BY <1>2 DEF TakesRule, Kept, LoadedMutes
<1>3. CASE GoesOn(b) /\ Kept
  <2>1. r \in run[b].todo /\ r \in heldMutes /\ rule'[r].muteUntil = rule[r].muteUntil
    BY <1>3 DEF GoesOn, Kept
  <2>2. run[b].snapshot[r].muteUntil = rule[r].muteUntil
    BY <1>3, <2>1 DEF GoesOn, LoadedMutes, InLoop
  <2>3. ~(run[b].pc \in Awaiting /\ r = run[b].current)
    BY <2>1 DEF TakenUnmuted
  <2> QED BY <1>3, <2>1, <2>2, <2>3 DEF GoesOn
<1> QED BY <1>1, <1>2, <1>3, LoadOrKept

\* A rule under a held mute is never taken.
LEMMA TakenUnmutedStep ==
  ASSUME TypeOK, OneEvaluation, HeldInForce, LoadedMutes, TakenUnmuted, [SuppressionNext]_suppressionVars
  PROVE  TakenUnmuted'
<1> SUFFICES ASSUME NEW b \in Activations, run'[b].pc \in Awaiting
             PROVE  run'[b].current \notin run'[b].todo \cup heldMutes'
  BY DEF TakenUnmuted
<1>0. run'[b].pc \in InLoop /\ ~LoadsRules(b)
  BY DEF InLoop, LoadsRules, Awaiting
<1>1. CASE TakesRule(b) /\ Kept
  <2> DEFINE r == run'[b].current
  <2>1. r \in run[b].todo /\ ~Muted(run[b].snapshot[r], clock) /\ r \notin run'[b].todo /\ run[b].pc = "loop"
    BY <1>1 DEF TakesRule
  <2>2. ASSUME r \in heldMutes PROVE FALSE
    <3>1. Muted(rule[r], clock)
      BY <2>2 DEF HeldInForce, MutedNow
    <3>2. run[b].snapshot[r].muteUntil = rule[r].muteUntil
      BY <2>1, <2>2 DEF LoadedMutes
    <3> QED BY <2>1, <3>1, <3>2 DEF Muted
  <2> QED BY <1>1, <2>1, <2>2 DEF Kept
<1>2. CASE GoesOn(b) /\ Kept
  BY <1>2 DEF GoesOn, Kept, TakenUnmuted
<1> QED BY <1>0, <1>1, <1>2, LoadOrKept

\* The lookup in flight was issued when every window still held had begun.
LEMMA LookupCoversStep ==
  ASSUME TypeOK, OneEvaluation, HeldInForce, LookupCovers, [SuppressionNext]_suppressionVars
  PROVE  LookupCovers'
<1> SUFFICES ASSUME NEW b \in Activations, run'[b].pc = "window"
             PROVE  run'[b].at <= clock' /\ \A w \in heldWindows' : window'[w].startsAt <= run'[b].at
  BY DEF LookupCovers
<1>0. run'[b].pc \in InLoop /\ ~LoadsRules(b) /\ run'[b].pc \in Awaiting
  BY DEF InLoop, LoadsRules, Awaiting
<1>1. CASE TakesRule(b) /\ Kept
  <2>1. \A w \in heldWindows : window[w].startsAt <= clock
    BY DEF HeldInForce, WindowsNow, ActiveWindows
  <2>2. clock \in Nat
    BY DEF TypeOK, StoreTypeOK, Time
  <2> QED BY <1>1, <2>1, <2>2 DEF TakesRule, Kept
<1>2. CASE GoesOn(b) /\ Kept
  <2>0. [Next]_vars
    BY DEF SuppressionNext, suppressionVars
  <2>1. TypeOK'
    BY <2>0, StepTypeOK
  <2>2. clock \in Nat /\ clock' \in Nat /\ run[b].at \in Nat
    BY <2>1 DEF TypeOK, StoreTypeOK, WorkerTypeOK, RunState, Time
  <2>3. run[b].pc = "window" /\ run'[b].at = run[b].at
    BY <1>0, <1>2 DEF GoesOn
  <2>4. run'[b].at <= clock'
    BY <2>0, <2>2, <2>3, ClockForward DEF LookupCovers
  <2>5. \A w \in heldWindows' : window'[w].startsAt <= run'[b].at
    BY <1>2, <2>3 DEF LookupCovers, Kept
  <2> QED BY <2>4, <2>5
<1> QED BY <1>0, <1>1, <1>2, LoadOrKept

\* Past its lookup, a rule's team is under no held window.
LEMMA TakenUncoveredStep ==
  ASSUME TypeOK, OneEvaluation, HeldInForce, LookupCovers, TakenUncovered, [SuppressionNext]_suppressionVars
  PROVE  TakenUncovered'
<1> SUFFICES ASSUME NEW b \in Activations, run'[b].pc \in Awaiting \ {"window"}, NEW w \in heldWindows'
             PROVE  window'[w].team # TeamOf[run'[b].current]
  BY DEF TakenUncovered
<1>0. run'[b].pc \in InLoop /\ ~LoadsRules(b) /\ ~TakesRule(b)
  BY DEF InLoop, LoadsRules, TakesRule, Awaiting
<1>1. GoesOn(b) /\ Kept
  BY <1>0, LoadOrKept
<1>2. /\ w \in heldWindows /\ window'[w] = window[w] /\ run'[b].current = run[b].current /\ run[b].pc \in Awaiting
      /\ run[b].pc # "window" \/ PassesWindow(b)
  BY <1>1 DEF GoesOn, Kept
<1>3. CASE run[b].pc # "window"
  BY <1>2, <1>3 DEF TakenUncovered
<1>4. CASE run[b].pc = "window"
  <2>1. w \in Windows /\ window[w].live /\ clock <= window[w].endsAt
    BY <1>2 DEF HeldInForce, WindowsNow, ActiveWindows
  <2>2. run[b].at <= clock /\ window[w].startsAt <= run[b].at
    BY <1>2, <1>4 DEF LookupCovers
  <2>3. clock \in Nat /\ run[b].at \in Nat /\ window[w].endsAt \in Nat
    BY <2>1 DEF TypeOK, StoreTypeOK, WorkerTypeOK, RunState, WindowRow, Time
  <2>4. run[b].at <= window[w].endsAt
    BY <2>1, <2>2, <2>3
  <2>5. w \notin ActiveWindows(TeamOf[run[b].current], run[b].at)
    BY <1>2, <1>4 DEF PassesWindow
  <2>6. window[w].team # TeamOf[run[b].current]
    BY <2>1, <2>2, <2>4, <2>5 DEF ActiveWindows
  <2> QED BY <1>2, <2>6
<1> QED BY <1>3, <1>4

\* The inductive invariant behind suppression holds in every reachable state.
LEMMA HeldInvariance == SuppressionSpec => []HeldIInv
<1>1. SuppressionInit => HeldIInv
  <2> SUFFICES ASSUME SuppressionInit PROVE HeldIInv
    OBVIOUS
  <2>1. Init /\ heldMutes = {} /\ heldWindows = {}
    BY DEF SuppressionInit
  <2>2. TypeOK /\ OneEvaluation
    BY <2>1, InitIInv DEF IInv
  <2>3. \A a \in Activations : run[a].pc = "idle"
    BY <2>1 DEF Init, WorkerInit, Inactive
  <2> QED BY <2>1, <2>2, <2>3 DEF HeldIInv, HeldInForce, LoadedMutes, TakenUnmuted, LookupCovers, TakenUncovered, Awaiting
<1>2. HeldIInv /\ [SuppressionNext]_suppressionVars => HeldIInv'
  <2> SUFFICES ASSUME HeldIInv, [SuppressionNext]_suppressionVars PROVE HeldIInv'
    OBVIOUS
  <2>1. [Next]_vars
    BY DEF SuppressionNext, suppressionVars
  <2>2. TypeOK' /\ OneEvaluation'
    BY <2>1, StepTypeOK, OneEvaluationStep DEF HeldIInv
  <2> QED BY <2>2, HeldInForceStep, LoadedMutesStep, TakenUnmutedStep, LookupCoversStep, TakenUncoveredStep
      DEF HeldIInv
<1> QED BY <1>1, <1>2, PTL DEF SuppressionSpec

(***************************************************************************)
(* No incident is created under a mute or a window in force since the      *)
(* rules were loaded, for any number of rules, windows and activations.    *)
(***************************************************************************)
THEOREM SuppressionTheorem == SuppressionSpec => SuppressionHonoured
<1>1. ASSUME HeldIInv, [SuppressionNext]_suppressionVars, NEW i \in Incidents, Creates(i)
      PROVE  Unsuppressed(incident'[i].rule)
  <2>0. [Next]_vars /\ TypeOK
    BY <1>1 DEF SuppressionNext, suppressionVars, HeldIInv
  <2>1. CASE UNCHANGED <<incident, timeline>>
    BY <1>1, <2>1 DEF Creates
  <2>2. ASSUME NEW r \in Rules, deleteRule(r) PROVE FALSE
    <3>1. Live(i)' /\ ~Live(i)
      BY <1>1 DEF Creates, Live, IncidentStatus
    <3> QED BY <2>0, <2>2, <3>1, DeleteEffect
  <2>3. ASSUME NEW q \in Requests, transitionIncident(q), StatusUnchanged(request[q]) PROVE FALSE
    <3>1. request[q] \in RequestState
      BY <2>0 DEF TypeOK, ServiceTypeOK
    <3>2. request[q].incident = i
      BY <1>1, <2>0, <2>3, <3>1 DEF transitionIncident, TypeOK, StoreTypeOK, Creates, RequestState
    <3> QED BY <1>1, <2>3, <3>1, <3>2 DEF StatusUnchanged, RequestState, Creates, IncidentStatus
  <2>4. ASSUME NEW a \in Activations, createIncident(a) PROVE Unsuppressed(incident'[i].rule)
    <3>1. PICK j \in Incidents :
            /\ incident'[j] = [status |-> "OPEN", rule |-> run[a].current]
            /\ \A k \in Incidents : k # j => incident'[k] = incident[k]
      BY <2>0, <2>4, CreateEffect
    <3>2. i = j
      BY <1>1, <3>1 DEF Creates
    <3>3. incident'[i].rule = run[a].current
      BY <3>1, <3>2
    <3>4. run[a].pc \in Awaiting /\ run[a].pc # "window"
      BY <2>4 DEF createIncident, Awaiting
    <3> QED BY <1>1, <3>3, <3>4 DEF HeldIInv, TakenUnmuted, TakenUncovered, Unsuppressed
  <2> QED BY <2>0, <2>1, <2>2, <2>3, <2>4, IncidentEffects
<1>2. HeldIInv /\ [SuppressionNext]_suppressionVars
        => [\A i \in Incidents : Creates(i) => Unsuppressed(incident'[i].rule)]_suppressionVars
  BY <1>1
<1> QED BY <1>2, HeldInvariance, PTL DEF SuppressionSpec, SuppressionHonoured
=============================================================================
