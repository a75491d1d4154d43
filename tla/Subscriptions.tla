---------------------------- MODULE Subscriptions ---------------------------
(***************************************************************************)
(* AlertSubscription rows: SubscriptionService                             *)
(* (services/subscription/subscription-service.ts), the /subscriptions     *)
(* routes and the part of AlertService.deleteRule that concerns them.      *)
(*                                                                         *)
(* A subscription is scoped to one rule or, with ruleId null, to its whole *)
(* team (one team here: every lookup filters on it).  What its severity    *)
(* list says of an incident is reduced to whether it admits the MEDIUM of  *)
(* a worker incident; the four channels to whether sending can fail (the   *)
(* e-mail sender only writes a log line).                                  *)
(***************************************************************************)
EXTENDS Integers, FiniteSets

CONSTANTS Subs,   \* ids of AlertSubscription rows
          Rules   \* ids of AlertRule rows of the team

WholeTeam == "wholeTeam"   \* a NULL ruleId

ASSUME ScopeAssumption == WholeTeam \notin Rules

ASSUME RowsAssumption == Subs # {} /\ Rules # {}

VARIABLES sub,     \* subscription rows by id
          ruleRow, \* "unborn", "live" or "deleted", by rule
          asking   \* POST /subscriptions between the rule check and the insert

subscriptionVars == <<sub, ruleRow, asking>>

Scope == Rules \cup {WholeTeam}

RowState == {"unborn", "live", "deleted"}

SubRow == [row : RowState, scope : Scope, enabled : BOOLEAN, medium : BOOLEAN, network : BOOLEAN]

UnbornSub == [row |-> "unborn", scope |-> WholeTeam, enabled |-> FALSE,
              medium |-> FALSE, network |-> FALSE]

SubscriptionTypeOK == /\ sub \in [Subs -> SubRow]
                      /\ ruleRow \in [Rules -> RowState]
                      /\ asking \in [Subs -> SUBSET Scope]

SubscriptionInit == /\ sub = [s \in Subs |-> UnbornSub]
                    /\ ruleRow = [r \in Rules |-> "unborn"]
                    /\ asking = [s \in Subs |-> {}]

createRule(r) == /\ ruleRow[r] = "unborn"
                 /\ ruleRow' = [ruleRow EXCEPT ![r] = "live"]
                 /\ UNCHANGED <<sub, asking>>

\* The route looks the rule up in the caller's team; the insert is a later statement.
postSubscription(s, scope) ==
  /\ sub[s].row = "unborn"
  /\ asking[s] = {}
  /\ scope # WholeTeam => ruleRow[scope] = "live"
  /\ asking' = [asking EXCEPT ![s] = {scope}]
  /\ UNCHANGED <<sub, ruleRow>>

\* Variant without the foreign key.
createUnchecked(s, medium, network) ==
  \E scope \in asking[s] :
    /\ asking' = [asking EXCEPT ![s] = {}]
    /\ sub' = [sub EXCEPT ![s] = [row |-> "live", scope |-> scope, enabled |-> TRUE,
                                  medium |-> medium, network |-> network]]
    /\ UNCHANGED ruleRow

\* SubscriptionService.create; the foreign key refuses a rule gone meanwhile.
create(s, medium, network) ==
  \E scope \in asking[s] :
    /\ asking' = [asking EXCEPT ![s] = {}]
    /\ sub' = IF scope = WholeTeam \/ ruleRow[scope] = "live"
                THEN [sub EXCEPT ![s] = [row |-> "live", scope |-> scope, enabled |-> TRUE,
                                         medium |-> medium, network |-> network]]
                ELSE sub
    /\ UNCHANGED ruleRow

\* SubscriptionService.update never touches ruleId.
update(s, enabled, medium, network) ==
  /\ sub[s].row = "live"
  /\ sub' = [sub EXCEPT ![s].enabled = enabled, ![s].medium = medium, ![s].network = network]
  /\ UNCHANGED <<ruleRow, asking>>

delete(s) ==
  /\ sub[s].row = "live"
  /\ sub' = [sub EXCEPT ![s].row = "deleted"]
  /\ UNCHANGED <<ruleRow, asking>>

\* What becomes of a subscription when rule r goes: variant with a foreign
\* key that sets ruleId to NULL, as a schema without the cascade would.
NullsRule(row, r) == IF row.scope = r THEN [row EXCEPT !.scope = WholeTeam] ELSE row

\* deleteMany and the cascade of the foreign key remove it with the rule.
CascadesRule(row, r) == IF row.scope = r /\ row.row = "live" THEN [row EXCEPT !.row = "deleted"] ELSE row

deleteRule(r) ==
  /\ ruleRow[r] = "live"
  /\ ruleRow' = [ruleRow EXCEPT ![r] = "deleted"]
  /\ sub' = [s \in Subs |-> CascadesRule(sub[s], r)]
  /\ UNCHANGED asking

\* findForIncident, for the MEDIUM incidents the worker raises.  Variant
\* without the rule filter.
MatchesAnyRule(s, r) == sub[s].row = "live" /\ sub[s].enabled /\ sub[s].medium

Matches(s, r) == /\ sub[s].row = "live"
                 /\ sub[s].enabled
                 /\ sub[s].scope \in {r, WholeTeam}
                 /\ sub[s].medium

findForIncident(r) == {s \in Subs : Matches(s, r)}

SubscriptionNext ==
  \/ \E r \in Rules : createRule(r) \/ deleteRule(r)
  \/ \E s \in Subs, scope \in Scope : postSubscription(s, scope)
  \/ \E s \in Subs, medium \in BOOLEAN, network \in BOOLEAN :
        \/ create(s, medium, network)
        \/ \E enabled \in BOOLEAN : update(s, enabled, medium, network)
  \/ \E s \in Subs : delete(s)

\* A step that keeps the scope of every subscription.
ScopesKept == \A s \in Subs : sub[s].row # "unborn" => sub'[s].scope = sub[s].scope

(***************************************************************************)
(* A subscription keeps the scope it was created with: one made for a rule *)
(* never turns into a subscription to every rule of the team, whatever the *)
(* deletion of that rule races with.                                       *)
(***************************************************************************)
ScopeKept == [][ScopesKept]_subscriptionVars

(***************************************************************************)
(* A live subscription's rule exists: the insert that follows a lookup of  *)
(* the rule cannot outlive it.                                             *)
(***************************************************************************)
SubscribedRulesExist ==
  \A s \in Subs : sub[s].row = "live" /\ sub[s].scope # WholeTeam => ruleRow[sub[s].scope] = "live"

\* Why rows keep their scope: only an unborn one waits for its insert.
AskedIsUnborn == \A s \in Subs : asking[s] # {} => sub[s].row = "unborn"
=============================================================================
