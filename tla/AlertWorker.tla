---------------------------- MODULE AlertWorker -----------------------------
(***************************************************************************)
(* AlertEvaluationWorker (services/alert/alert-evaluation-worker.ts).      *)
(*                                                                         *)
(* An activation is one call of evaluate().  Each action below is the      *)
(* completion of one await together with the code up to the next await, so *)
(* whatever the API does to the rows falls between two of them.  The loop  *)
(* works on the rule rows that findMany returned: `snapshot` keeps them    *)
(* and no later step reads the rule table again.                           *)
(***************************************************************************)
EXTENDS AlertStore

CONSTANTS Activations,  \* calls of evaluate() that may be under way
          Counts        \* what a ClickHouse count may answer

ASSUME CountAssumption == Counts \subseteq Nat

VARIABLES timer,    \* setInterval is armed
          running,  \* the guard against overlapping evaluations
          run       \* the state of each activation

workerVars == <<timer, running, run>>

Awaiting == {"window", "dedup", "count", "prev", "create"}

\* While pc is in Awaiting, `current` is the rule under evaluation, `at` the
\* time its window lookup was issued, `counted` the first count's answer.
RunState == [pc : {"idle", "load", "loop"} \cup Awaiting,
             todo : SUBSET Rules, snapshot : [Rules -> RuleRow],
             current : Rules, at : Time, counted : Nat]

NoSnapshot == [r \in Rules |-> UnbornRule]

Inactive == [pc |-> "idle", todo |-> {}, snapshot |-> NoSnapshot,
             current |-> AnyRule, at |-> 0, counted |-> 0]

WorkerTypeOK == /\ timer \in BOOLEAN
                /\ running \in BOOLEAN
                /\ run \in [Activations -> RunState]

WorkerInit == /\ timer = FALSE
              /\ running = FALSE
              /\ run = [a \in Activations |-> Inactive]

(***************************************************************************)
(* start() and the interval.  A tick that finds `running` set returns at   *)
(* once: a stuttering step, not written.                                   *)
(***************************************************************************)
\* Variant without the flag.
NoGuard == TRUE

EntryGuard == ~running

\* evaluate() up to its first await.
evaluate(a) ==
  /\ run[a].pc = "idle"
  /\ EntryGuard
  /\ running' = TRUE
  /\ run' = [run EXCEPT ![a].pc = "load"]

start(a) ==
  /\ ~timer
  /\ timer' = TRUE
  /\ evaluate(a)
  /\ UNCHANGED storeVars

interval(a) ==
  /\ timer
  /\ evaluate(a)
  /\ UNCHANGED <<timer, storeVars>>

\* Only the timer goes: an evaluation under way carries on.
stop ==
  /\ timer
  /\ timer' = FALSE
  /\ UNCHANGED <<running, run, storeVars>>

(***************************************************************************)
(* The loop.  A rule is finished, whichever way, by going back to "loop";  *)
(* an error thrown by one rule is caught there and the loop goes on.       *)
(***************************************************************************)
Finish(a) == [run[a] EXCEPT !.pc = "loop", !.current = AnyRule, !.at = 0, !.counted = 0,
                            !.snapshot[run[a].current] = UnbornRule]

Await(a, pc) == [run[a] EXCEPT !.pc = pc]

\* The finally block.
Leave(a) == /\ running' = FALSE
            /\ run' = [run EXCEPT ![a] = Inactive]
            /\ UNCHANGED <<timer, storeVars>>

EnabledRules == {r \in Rules : rule[r].row = "live" /\ rule[r].enabled}

loadRules(a) ==
  /\ run[a].pc = "load"
  /\ run' = [run EXCEPT ![a].pc = "loop", ![a].todo = EnabledRules,
                        ![a].snapshot = [r \in Rules |-> IF r \in EnabledRules
                                                           THEN rule[r] ELSE UnbornRule]]
  /\ UNCHANGED <<timer, running, storeVars>>

\* Variant that returns without the finally block.
forgetRunning(a) == /\ run[a].pc = "load"
                    /\ run' = [run EXCEPT ![a] = Inactive]
                    /\ UNCHANGED <<timer, running, storeVars>>

loadRulesFails(a) == run[a].pc = "load" /\ Leave(a)

endLoop(a) == run[a].pc = "loop" /\ run[a].todo = {} /\ Leave(a)

\* Variant that does not look at the mute.
SkippedUnlessReserved(row) == row.spec.condition = "ANOMALY_DETECTED"

\* Returns of evaluateRule before its first await, taken on the loaded row.
Skipped(row) == row.spec.condition = "ANOMALY_DETECTED" \/ Muted(row, clock)

Skip(a, r) == [run[a] EXCEPT !.todo = @ \ {r}, !.snapshot[r] = UnbornRule]

Take(a, r) == [run[a] EXCEPT !.todo = @ \ {r}, !.pc = "window", !.current = r, !.at = clock]

nextRule(a, r) ==
  /\ run[a].pc = "loop"
  /\ r \in run[a].todo
  /\ run' = [run EXCEPT ![a] = IF Skipped(run[a].snapshot[r]) THEN Skip(a, r) ELSE Take(a, r)]
  /\ UNCHANGED <<timer, running, storeVars>>

\* maintenanceWindow.findFirst, with the time at which it was issued.
checkWindow(a) ==
  /\ run[a].pc = "window"
  /\ run' = [run EXCEPT ![a] = IF ActiveWindows(TeamOf[@.current], @.at) # {}
                                 THEN Finish(a) ELSE Await(a, "dedup")]
  /\ UNCHANGED <<timer, running, storeVars>>

\* Variant that deduplicates against incidents in any status.
checkAny(a) ==
  /\ run[a].pc = "dedup"
  /\ run' = [run EXCEPT ![a] = IF \E i \in Incidents : Live(i) /\ incident[i].rule = run[a].current
                                 THEN Finish(a) ELSE Await(a, "count")]
  /\ UNCHANGED <<timer, running, storeVars>>

\* alertIncident.findFirst: deduplication against an OPEN incident.
checkOpen(a) ==
  /\ run[a].pc = "dedup"
  /\ run' = [run EXCEPT ![a] = IF OpenIncidents(@.current) # {}
                                 THEN Finish(a) ELSE Await(a, "count")]
  /\ UNCHANGED <<timer, running, storeVars>>

\* The switch on rule.condition; prev is read by CHANGES_BY alone.
Triggered(spec, cur, prev) ==
  LET delta == IF cur >= prev THEN cur - prev ELSE prev - cur
  IN  CASE spec.condition = "GREATER_THAN" -> cur > spec.threshold
        [] spec.condition = "LESS_THAN"    -> cur < spec.threshold
        [] spec.condition = "EQUALS"       -> cur = spec.threshold
        [] spec.condition = "CHANGES_BY"   -> delta >= spec.threshold
        [] OTHER                           -> FALSE

CurrentSpec(a) == run[a].snapshot[run[a].current].spec

queryLogCount(a, n) ==
  /\ run[a].pc = "count"
  /\ run' = [run EXCEPT ![a] =
       CASE CurrentSpec(a).condition = "CHANGES_BY" -> [Await(a, "prev") EXCEPT !.counted = n]
         [] CurrentSpec(a).condition # "CHANGES_BY" /\ Triggered(CurrentSpec(a), n, 0) -> Await(a, "create")
         [] OTHER -> Finish(a)]
  /\ UNCHANGED <<timer, running, storeVars>>

queryPreviousCount(a, n) ==
  /\ run[a].pc = "prev"
  /\ run' = [run EXCEPT ![a] = IF Triggered(CurrentSpec(a), @.counted, n)
                                 THEN Await(a, "create") ELSE Finish(a)]
  /\ UNCHANGED <<timer, running, storeVars>>

\* The next generated id: any id no row has had yet.
FreshIds == {i \in Incidents : incident[i].status = "unborn"}

\* Variant without the foreign key.
createOrphan(a) ==
  /\ run[a].pc = "create"
  /\ FreshIds # {}
  /\ incident' = [incident EXCEPT ![CHOOSE i \in FreshIds : TRUE] = [status |-> "OPEN", rule |-> run[a].current]]
  /\ run' = [run EXCEPT ![a] = Finish(a)]
  /\ UNCHANGED <<timer, running, clock, rule, window, timeline>>

\* alertIncident.create: the foreign key refuses a rule deleted meanwhile.
createIncident(a) ==
  LET r == run[a].current
  IN  /\ run[a].pc = "create"
      /\ rule[r].row = "live"
      /\ FreshIds # {}
      /\ incident' = [incident EXCEPT ![CHOOSE i \in FreshIds : TRUE] = [status |-> "OPEN", rule |-> r]]
      /\ run' = [run EXCEPT ![a] = Finish(a)]
      /\ UNCHANGED <<timer, running, clock, rule, window, timeline>>

\* Any query of evaluateRule may reject; the create may also have been stored
\* when its answer is lost, which is createIncident to every other step.
evaluateRuleFails(a) ==
  /\ run[a].pc \in Awaiting
  /\ run' = [run EXCEPT ![a] = Finish(a)]
  /\ UNCHANGED <<timer, running, storeVars>>

evaluateRule(a) ==
  \/ \E r \in Rules : nextRule(a, r)
  \/ checkWindow(a)
  \/ checkOpen(a)
  \/ \E n \in Counts : queryLogCount(a, n) \/ queryPreviousCount(a, n)
  \/ createIncident(a)
  \/ evaluateRuleFails(a)

WorkerStep(a) == loadRules(a) \/ loadRulesFails(a) \/ evaluateRule(a) \/ endLoop(a)
=============================================================================
