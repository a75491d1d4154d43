----------------------- MODULE NotificationDispatcher -----------------------
(***************************************************************************)
(* NotificationDispatcher (services/notification/notification-dispatcher.ts *)
(* with safe-fetch.ts and the channel senders), and the test route.        *)
(*                                                                         *)
(* A job is one call of dispatch() for an incident or of                   *)
(* dispatchToSubscription() for a test.  A task is one sendWithRetry(); an *)
(* attempt puts a copy of the message on the network, which the endpoint   *)
(* may receive at any time, also after the attempt has timed out, or never *)
(* receive, or receive and refuse.  Delivery state exists in memory only:  *)
(* when the process dies the jobs are gone and the copies under way are    *)
(* not.                                                                    *)
(***************************************************************************)
EXTENDS Subscriptions

CONSTANTS Jobs,         \* calls of the dispatcher
          MAX_RETRIES   \* attempts per subscription (3 in the code)

ASSUME RetryAssumption == MAX_RETRIES \in Nat \ {0}

VARIABLES job,   \* the calls
          task   \* sendWithRetry by job and subscription

dispatcherVars == <<subscriptionVars, job, task>>

Attempt == 1..MAX_RETRIES

\* `rule` of an incident job, `target` of a test job.
JobState == [kind : {"none", "incident", "test"}, phase : {"lookup", "sending", "done", "lost"},
             rule : Rules, target : Subs]

NoJob == [kind |-> "none", phase |-> "done", rule |-> CHOOSE r \in Rules : TRUE,
          target |-> CHOOSE s \in Subs : TRUE]

Ended == {"none", "sent", "failed", "lost"}

\* `wire` and `received` are the attempts whose copy is under way or arrived.
TaskState == [pc : {"sending", "backoff"} \cup Ended, attempt : 0..MAX_RETRIES,
              wire : SUBSET Attempt, received : SUBSET Attempt]

NoTask == [pc |-> "none", attempt |-> 0, wire |-> {}, received |-> {}]

\* Subscriptions, jobs and the send loops have their types.
DispatcherTypeOK ==
  /\ SubscriptionTypeOK
  /\ job \in [Jobs -> JobState]
  /\ task \in [Jobs -> [Subs -> TaskState]]

DispatcherInit ==
  /\ SubscriptionInit
  /\ job = [j \in Jobs |-> NoJob]
  /\ task = [j \in Jobs |-> [s \in Subs |-> NoTask]]

(***************************************************************************)
(* dispatch(): the worker calls it once for the incident it has created    *)
(* and does not wait.  The lookup of the subscribers is a statement of its *)
(* own; when it rejects, the whole call ends and nobody is told.           *)
(***************************************************************************)
dispatch(j, r) ==
  /\ job[j].kind = "none"
  /\ ruleRow[r] = "live"
  /\ job' = [job EXCEPT ![j] = [NoJob EXCEPT !.kind = "incident", !.phase = "lookup", !.rule = r]]
  /\ UNCHANGED <<subscriptionVars, task>>

\* Entering the for loop of sendWithRetry: e-mail cannot fail, the other
\* channels send their first copy.
FirstAttempt(s) == IF sub[s].network
                     THEN [NoTask EXCEPT !.pc = "sending", !.attempt = 1, !.wire = {1}]
                     ELSE [NoTask EXCEPT !.pc = "sent", !.attempt = 1, !.received = {1}]

subscribersFound(j) ==
  LET found == findForIncident(job[j].rule)
  IN  /\ job[j].kind = "incident" /\ job[j].phase = "lookup"
      /\ job' = [job EXCEPT ![j].phase = "sending"]
      /\ task' = [task EXCEPT ![j] = [s \in Subs |-> IF s \in found THEN FirstAttempt(s) ELSE NoTask]]
      /\ UNCHANGED subscriptionVars

lookupFails(j) ==
  /\ job[j].phase = "lookup"
  /\ job' = [job EXCEPT ![j].phase = "done"]
  /\ UNCHANGED <<subscriptionVars, task>>

\* POST /subscriptions/:id/test sends to the loaded subscription alone.
testSubscription(j, s) ==
  /\ job[j].kind = "none"
  /\ sub[s].row = "live"
  /\ job' = [job EXCEPT ![j] = [NoJob EXCEPT !.kind = "test", !.phase = "sending", !.target = s]]
  /\ task' = [task EXCEPT ![j] = [x \in Subs |-> IF x = s THEN FirstAttempt(x) ELSE NoTask]]
  /\ UNCHANGED subscriptionVars

\* Promise.allSettled: the call is over when every task is.
settle(j) ==
  /\ job[j].phase = "sending"
  /\ \A s \in Subs : task[j][s].pc \in Ended
  /\ job' = [job EXCEPT ![j].phase = "done"]
  /\ UNCHANGED <<subscriptionVars, task>>

(***************************************************************************)
(* sendWithRetry().                                                        *)
(***************************************************************************)
Send(j, s, t) == /\ task' = [task EXCEPT ![j][s] = t]
                 /\ UNCHANGED <<subscriptionVars, job>>

\* A 2xx answer to the current attempt.
answered(j, s) ==
  LET t == task[j][s]
  IN  /\ t.pc = "sending"
      /\ t.attempt \in t.received
      /\ Send(j, s, [t EXCEPT !.pc = "sent"])

\* The last attempt: variant that counts one too many.
LastAttemptLate(t) == t.attempt > MAX_RETRIES

LastAttempt(t) == t.attempt = MAX_RETRIES

Failed(t) == [t EXCEPT !.pc = IF LastAttempt(t) THEN "failed" ELSE "backoff"]

\* Any other answer, a refused connection, a URL the guard refuses: the copy
\* was not accepted.
rejected(j, s) ==
  LET t == task[j][s]
  IN  /\ t.pc = "sending"
      /\ t.attempt \in t.wire
      /\ Send(j, s, [Failed(t) EXCEPT !.wire = @ \ {t.attempt}])

\* AbortSignal.timeout: the copy may still be on its way, or have arrived.
\* Variant of a request that is never given up.
neverTimesOut(j, s) == FALSE /\ UNCHANGED dispatcherVars

timesOut(j, s) ==
  LET t == task[j][s]
  IN  /\ t.pc = "sending"
      /\ Send(j, s, Failed(t))

\* The delay is over and the next attempt goes out.
retry(j, s) ==
  LET t == task[j][s]
  IN  /\ t.pc = "backoff"
      /\ Send(j, s, [t EXCEPT !.pc = "sending", !.attempt = @ + 1, !.wire = @ \cup {t.attempt + 1}])

\* The network and the endpoint.
arrives(j, s) ==
  LET t == task[j][s]
  IN  \E n \in t.wire : Send(j, s, [t EXCEPT !.wire = @ \ {n}, !.received = @ \cup {n}])

dropped(j, s) ==
  LET t == task[j][s]
  IN  \E n \in t.wire : Send(j, s, [t EXCEPT !.wire = @ \ {n}])

(***************************************************************************)
(* The process dies: nothing of the dispatcher is stored.                  *)
(***************************************************************************)
Crash ==
  /\ job' = [j \in Jobs |-> IF job[j].phase \in {"lookup", "sending"}
                              THEN [job[j] EXCEPT !.phase = "lost"] ELSE job[j]]
  /\ task' = [j \in Jobs |-> [s \in Subs |-> IF task[j][s].pc \in Ended
                                               THEN task[j][s] ELSE [task[j][s] EXCEPT !.pc = "lost"]]]
  /\ asking' = [s \in Subs |-> {}]
  /\ UNCHANGED <<sub, ruleRow>>

Sending(j, s) == answered(j, s) \/ rejected(j, s) \/ timesOut(j, s) \/ retry(j, s)

JobStep(j) == subscribersFound(j) \/ lookupFails(j) \/ settle(j)

DispatcherNext ==
  \/ SubscriptionNext /\ UNCHANGED <<job, task>>
  \/ \E j \in Jobs, r \in Rules : dispatch(j, r)
  \/ \E j \in Jobs, s \in Subs : testSubscription(j, s)
  \/ \E j \in Jobs : JobStep(j)
  \/ \E j \in Jobs, s \in Subs : Sending(j, s) \/ arrives(j, s) \/ dropped(j, s)
  \/ Crash

DispatcherSpec == DispatcherInit /\ [][DispatcherNext]_dispatcherVars

(***************************************************************************)
(* Timers fire and the lookup settles; the network and the endpoint owe    *)
(* nothing.                                                                *)
(***************************************************************************)
DispatcherFairness ==
  /\ \A j \in Jobs : WF_dispatcherVars(JobStep(j))
  /\ \A j \in Jobs, s \in Subs : WF_dispatcherVars(timesOut(j, s)) /\ WF_dispatcherVars(retry(j, s))

DispatcherFairSpec == DispatcherSpec /\ DispatcherFairness

(***************************************************************************)
(* Nobody outside the audience hears of an incident: a copy that arrives   *)
(* went to a subscription of that rule or of the whole team, and a copy of *)
(* a test message only to the subscription under test, no matter how the   *)
(* rows change while tasks are retrying.                                   *)
(***************************************************************************)
InAudience(j, s) == \/ job[j].kind = "incident" /\ sub[s].scope \in {job[j].rule, WholeTeam}
                    \/ job[j].kind = "test" /\ job[j].target = s

DeliveredInScope == \A j \in Jobs, s \in Subs : task[j][s].received # {} => InAudience(j, s)

(***************************************************************************)
(* The dispatcher's tasks stay well typed, their attempts within bounds    *)
(* included, and nobody outside the audience of an incident is told of it  *)
(* (SubscriptionService.findForIncident, NotificationDispatcher.dispatch). *)
(***************************************************************************)
AudienceInv == DispatcherTypeOK /\ DeliveredInScope

(***************************************************************************)
(* A subscription is given up on only after MAX_RETRIES attempts, and an   *)
(* endpoint sees at most that many copies of one message, late arrivals of *)
(* timed-out attempts included.                                            *)
(***************************************************************************)
AttemptsBounded ==
  \A j \in Jobs, s \in Subs :
    LET t == task[j][s]
    IN  /\ t.wire \cup t.received \subseteq 1..t.attempt
        /\ t.attempt <= MAX_RETRIES
        /\ t.pc = "failed" => t.attempt = MAX_RETRIES

\* Why: a task is started for the audience only, the row that put it there keeps
\* its scope, and a task that waits for a retry has one left.
StartedInScope ==
  \A j \in Jobs, s \in Subs :
    task[j][s] # NoTask => task[j][s].pc # "none" /\ sub[s].row # "unborn" /\ InAudience(j, s)

BackoffMayRetry == \A j \in Jobs, s \in Subs : task[j][s].pc = "backoff" => task[j][s].attempt < MAX_RETRIES

DispatcherIInv == /\ DispatcherTypeOK /\ AskedIsUnborn /\ SubscribedRulesExist
                  /\ AttemptsBounded /\ BackoffMayRetry /\ StartedInScope

(***************************************************************************)
(* Every dispatch comes to an end although endpoints may never answer: the *)
(* request timeout bounds each attempt, and one dead endpoint does not     *)
(* keep the tasks of the others from finishing.                            *)
(***************************************************************************)
DispatchSettles == \A j \in Jobs : job[j].phase \in {"lookup", "sending"} ~> job[j].phase \in {"done", "lost"}
=============================================================================
