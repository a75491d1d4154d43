---------------------------- MODULE AccessGates -----------------------------
(***************************************************************************)
(* The gates in front of the REST routes (api/rest/router.ts and           *)
(* write-route.ts): session, request body, the team of the resource, the   *)
(* caller's role, and only then the handler.  Each gate is a query of its  *)
(* own, so sessions end, roles change and rows go between them; any query  *)
(* may reject.  A route is the record of its gates.                        *)
(***************************************************************************)
EXTENDS Naturals, FiniteSets

CONSTANTS GateTeams,
          OwningTeam,  \* the team of the resource
          MaxCalls,    \* bound on the calls
          MaxChanges   \* bound on what others change

ASSUME GateAssumption == OwningTeam \in GateTeams /\ MaxCalls \in Nat /\ MaxChanges \in Nat

(* Who may do what. *)

Members == {"OWNER", "ADMIN", "MEMBER", "VIEWER"}
canWrite == {"OWNER", "ADMIN", "MEMBER"}
canSeeSourceKeys == {"OWNER", "ADMIN"}
canManageSources == {"OWNER", "ADMIN"}
canManageInvites == {"OWNER", "ADMIN"}

(* The gates of a route: "session" only, "admin", the "team" named in the   *)
(* request, or the team of a "row".  `gone` answers a row that has gone     *)
(* when the handler acts on it, `refuses` are its own refusals (a limit, a  *)
(* record that is not there), and `rejected` answers a query that rejects.  *)

RouteAnswering(gate, body, needs, acts, refusal, gone) ==
  [gate |-> gate, body |-> body, needs |-> needs, refusal |-> refusal, acts |-> acts, gone |-> gone,
   refuses |-> {}, rejected |-> 500]

Route(gate, body, needs, acts) == RouteAnswering(gate, body, needs, acts, 403, 404)

writeRoute(resolve, body, acts) == Route(resolve, body, canWrite, acts)

getTeams == Route("session", FALSE, {}, "read")
postTeams == [Route("session", TRUE, {}, "insert") EXCEPT !.rejected = 400]
getSources == Route("team", TRUE, Members, "read")
postSource == writeRoute("team", TRUE, "insert")
putSource == writeRoute("row", TRUE, "update")
manageSource == [writeRoute("row", FALSE, "delete") EXCEPT !.needs = canManageSources]
revealSource == [writeRoute("row", FALSE, "reveal") EXCEPT !.needs = canSeeSourceKeys]
searchLogs == [Route("team", TRUE, Members, "read") EXCEPT !.refuses = {400}] \* enforceSearchLimits
getLogs == [Route("team", TRUE, Members, "read") EXCEPT !.refuses = {400}]
logContext == Route("team", TRUE, Members, "read")
getJob == Route("row", FALSE, Members, "read")
getViews == Route("team", TRUE, Members, "read")
getLog == [Route("team", TRUE, Members, "read") EXCEPT !.refuses = {404}]
naturalQuery == Route("team", TRUE, Members, "read")
getRules == Route("team", TRUE, Members, "read")
getIncidents == Route("team", TRUE, Members, "read")
postRule == writeRoute("team", TRUE, "insert")
deleteRoute == writeRoute("row", FALSE, "delete")
getWindows == Route("team", TRUE, Members, "read")
getOverview == Route("team", TRUE, Members, "read")
getTimeline == Route("row", FALSE, Members, "read")
getSubscriptions == Route("team", TRUE, Members, "read")
getIssues == Route("team", TRUE, Members, "read")
getIssue == Route("row", FALSE, Members, "read")
putIssue == [RouteAnswering("row", TRUE, canWrite, "update", 403, 500) EXCEPT !.refuses = {400}] \* the assignee
postInvite == [Route("team", TRUE, canManageInvites, "insert") EXCEPT !.rejected = 400]
getInvites == Route("team", FALSE, canManageInvites, "read")
deleteInvite == [RouteAnswering("row", FALSE, canManageInvites, "delete", 404, 400) EXCEPT !.rejected = 400]
getAdminUsers == Route("admin", FALSE, {}, "read")
getAdminTeams == Route("admin", FALSE, {}, "read")
getAdminMembers == Route("admin", FALSE, {}, "read")
getAdminStats == Route("admin", FALSE, {}, "read")
deleteMember == [Route("admin", FALSE, {}, "delete") EXCEPT !.refuses = {404}] \* P2025

Routes == {getTeams, postTeams, getSources, postSource, putSource, manageSource, revealSource, searchLogs, getLogs,
           logContext, getJob, getViews, getLog, naturalQuery, getRules, getIncidents, postRule, deleteRoute, getWindows,
           getOverview, getTimeline, getSubscriptions, getIssues, getIssue, putIssue, postInvite, getInvites,
           deleteInvite, getAdminUsers, getAdminTeams, getAdminMembers, getAdminStats, deleteMember}

VARIABLES session,  \* the caller's session is valid
          admin,    \* user.role is ADMIN
          role,     \* the caller's membership in each team
          rowThere, \* the resource exists
          call,     \* the request being handled
          calls,
          changes

gateVars == <<session, admin, role, rowThere, call, calls, changes>>

NoCall == [pc |-> "idle", route |-> getTeams, team |-> OwningTeam, valid |-> TRUE, status |-> 0,
         held |-> {}, heldSession |-> FALSE, heldAdmin |-> FALSE, rowSeen |-> FALSE]

GatesInit ==
  /\ session \in BOOLEAN /\ admin \in BOOLEAN
  /\ role \in [GateTeams -> Members \cup {"none"}]
  /\ rowThere \in BOOLEAN
  /\ call = NoCall
  /\ calls = 0 /\ changes = 0

\* What the caller has been entitled to since the call began.
Witnessed(c) ==
  [c EXCEPT !.held = @ \cup {role'[c.team]}, !.heldSession = @ \/ session', !.heldAdmin = @ \/ admin',
            !.rowSeen = @ \/ rowThere']

request(r, t, valid) ==
  /\ call.pc \in {"idle", "answered"} /\ calls < MaxCalls
  /\ r.gate \in {"row", "session", "admin"} => t = OwningTeam
  /\ calls' = calls + 1
  /\ UNCHANGED <<session, admin, role, rowThere, changes>>
  /\ call' = Witnessed([NoCall EXCEPT !.pc = "auth", !.route = r, !.team = t, !.valid = valid])

At(pc) == call.pc = pc

To(pc) == call' = [call EXCEPT !.pc = pc] /\ UNCHANGED <<session, admin, role, rowThere, calls, changes>>

Answer(status) ==
  /\ call' = [call EXCEPT !.pc = "answered", !.status = status]
  /\ UNCHANGED <<session, admin, role, rowThere, calls, changes>>

\* requireAuth; a lookup that rejects is a 401 too.
requireAuth ==
  /\ At("auth")
  /\ \/ session /\ To(IF call.route.gate = "admin" THEN "admin" ELSE "body")
     \/ Answer(401)

requireAdminRole ==
  /\ At("admin")
  /\ \/ admin /\ To("body")
     \/ ~ admin /\ Answer(403)
     \/ Answer(401)

parseBody ==
  /\ At("body")
  /\ \/ call.route.body /\ ~ call.valid /\ Answer(400)
     \/ (call.valid \/ ~ call.route.body)
        /\ To(CASE call.route.gate = "row" -> "row" [] call.route.gate = "team" -> "role" [] OTHER -> "handler")

\* teamFromResource, requireResourceTeam
resolveTeam ==
  /\ At("row")
  /\ IF rowThere THEN To("role") ELSE Answer(404)

\* Variant that answers every stranger alike.
StrangerForbidden(r) == 403

nonMemberStatus(r) == IF r.gate = "row" THEN 404 ELSE 403

\* Variant of the gate that checks the membership only.
AnyMember(r) == role[call.team] # "none"

Sufficient(r) == role[call.team] \in r.needs

\* requireTeamRole, requireTeamWriteRole and the narrower checks after them
requireTeamRole ==
  /\ At("role")
  /\ IF role[call.team] = "none" THEN Answer(nonMemberStatus(call.route))
     ELSE IF Sufficient(call.route) THEN To("handler") ELSE Answer(call.route.refusal)

\* The row is addressed by its id and team again.
Handle ==
  LET r == call.route IN
  /\ At("handler")
  /\ IF r.gate = "row" /\ ~ rowThere /\ r.acts # "read" THEN Answer(r.gone)
     ELSE \/ \E status \in r.refuses : Answer(status)
          \/ /\ rowThere' = (rowThere /\ ~ (r.gate = "row" /\ r.acts = "delete"))
             /\ call' = [call EXCEPT !.pc = "answered", !.status = 200]
             /\ UNCHANGED <<session, admin, role, calls, changes>>

\* Variant whose handlers are not wrapped: nobody answers.
unanswered ==
  /\ call.pc \in {"row", "role", "handler"}
  /\ call' = [call EXCEPT !.pc = "dropped"]
  /\ UNCHANGED <<session, admin, role, rowThere, calls, changes>>

\* asyncHandler, run().catch(next): a rejected query ends in the error handler,
\* unless the route catches it.
asyncHandler ==
  /\ call.pc \in {"row", "role", "handler"}
  /\ Answer(IF At("handler") THEN call.route.rejected ELSE 500)

GateStep == requireAuth \/ requireAdminRole \/ parseBody \/ resolveTeam \/ requireTeamRole \/ Handle \/ asyncHandler

(* Meanwhile *)

Meanwhile == changes < MaxChanges /\ changes' = changes + 1 /\ UNCHANGED calls

sessionEnds == Meanwhile /\ session /\ session' = FALSE /\ UNCHANGED <<admin, role, rowThere>> /\ call' = Witnessed(call)

adminChanged == Meanwhile /\ admin' = ~ admin /\ UNCHANGED <<session, role, rowThere>> /\ call' = Witnessed(call)

membershipChanged(t, r) ==
  /\ Meanwhile /\ r # role[t]
  /\ role' = [role EXCEPT ![t] = r]
  /\ UNCHANGED <<session, admin, rowThere>>
  /\ call' = Witnessed(call)

rowDeleted == Meanwhile /\ rowThere /\ rowThere' = FALSE /\ UNCHANGED <<session, admin, role>> /\ call' = Witnessed(call)

GatesNext ==
  \/ GateStep \/ sessionEnds \/ adminChanged \/ rowDeleted
  \/ \E t \in GateTeams, r \in Members \cup {"none"} : membershipChanged(t, r)
  \/ \E r \in Routes, t \in GateTeams, valid \in BOOLEAN : request(r, t, valid)

GatesSpec == GatesInit /\ [][GatesNext]_gateVars

\* Every query of a handler resolves or rejects.
GatesFairness == WF_gateVars(GateStep)

Answered(status) == At("answered") /\ call.status = status

(***************************************************************************)
(* A caller who has not been a member of the owning team during the call   *)
(* learns nothing about a row: by-id routes answer as for an unknown id,   *)
(* whether the row is there or not ("an id that exists in another team is  *)
(* indistinguishable from one that does not", write-route.ts:173).         *)
(***************************************************************************)
ForeignIsUnknown ==
  At("answered") /\ call.route.gate = "row" /\ call.held = {"none"} => call.status \in {400, 401, 404, 500}

(***************************************************************************)
(* Whoever is served was entitled to it: at some moment of the call the    *)
(* caller had a session and the role its route asks for.  Each gate is a   *)
(* query of its own, so not necessarily at the same moment.                *)
(***************************************************************************)
ServedWasEntitled ==
  Answered(200) =>
    /\ call.heldSession
    /\ call.route.gate = "admin" => call.heldAdmin
    /\ call.route.gate \in {"team", "row"} => call.held \cap call.route.needs # {}
    /\ call.route.gate = "row" => call.rowSeen

(***************************************************************************)
(* The gates of the REST routes tell strangers nothing about a row and     *)
(* serve only those who were entitled during the call.                     *)
(***************************************************************************)
GatesSound == ForeignIsUnknown /\ ServedWasEntitled

\* Why: what the caller is entitled to now has been witnessed, and so has what
\* the gates passed so far asked for.
Gate == {"session", "admin", "team", "row"}

RouteAct == {"read", "reveal", "insert", "update", "delete"}

GatePc == {"idle", "auth", "admin", "body", "row", "role", "handler", "answered"}

Refusal == {400, 401, 403, 404, 500}

Status == Refusal \cup {0, 200}

RouteRecord ==
  [gate : Gate, body : BOOLEAN, needs : SUBSET Members, refusal : Refusal, acts : RouteAct, gone : Refusal,
   refuses : SUBSET Refusal, rejected : Refusal]

CallRecord == [pc : GatePc, route : RouteRecord, team : GateTeams, valid : BOOLEAN, status : Status,
               held : SUBSET (Members \cup {"none"}), heldSession : BOOLEAN, heldAdmin : BOOLEAN, rowSeen : BOOLEAN]

GatesTypeOK ==
  /\ session \in BOOLEAN /\ admin \in BOOLEAN /\ rowThere \in BOOLEAN
  /\ role \in [GateTeams -> Members \cup {"none"}]
  /\ call \in CallRecord

NowIsWitnessed ==
  ~ At("idle") => /\ role[call.team] \in call.held
                  /\ session => call.heldSession
                  /\ admin => call.heldAdmin
                  /\ rowThere => call.rowSeen

GatesPassed ==
  LET gate == call.route.gate IN
  /\ call.pc \in {"admin", "body", "row", "role", "handler"} => call.heldSession
  /\ At("admin") => gate = "admin"
  /\ call.pc \in {"body", "handler"} /\ gate = "admin" => call.heldAdmin
  /\ At("row") => gate = "row"
  /\ At("role") => gate \in {"team", "row"}
  /\ call.pc \in {"role", "handler"} /\ gate = "row" => call.rowSeen
  /\ At("handler") /\ gate \in {"team", "row"} => call.held \cap call.route.needs # {}

GatesIInv == GatesTypeOK /\ NowIsWitnessed /\ GatesPassed /\ GatesSound

(***************************************************************************)
(* Every request is answered, whichever of its queries rejects.            *)
(***************************************************************************)
EveryCallAnswered == call.pc \notin {"idle", "answered"} ~> At("answered")
=============================================================================
