----------------------------- MODULE SavedViews -----------------------------
(***************************************************************************)
(* The saved log views of one team: LogViewService                         *)
(* (services/log-view/log-view-service.ts) behind the /logs/views routes.  *)
(*                                                                         *)
(* A handler reads the caller's role, loads the view, judges what it       *)
(* loaded and then writes by id, in statements of their own: requests and  *)
(* changes of role interleave between them.  A view of another team        *)
(* answers as one that does not exist.                                     *)
(***************************************************************************)
EXTENDS Integers

CONSTANTS ViewUsers,   \* members of the team
          ViewIds,     \* ids of LogView rows
          ViewCalls,   \* concurrent requests
          ViewPatches, \* bodies of PUT requests
          FirstRole,   \* the role each member starts with
          Regraded,    \* members whose role changes
          MaxViewRequests \* bound on the requests of a behaviour

\* The flags of a view that a body leaves out, sets or clears.
ViewPatch == [content : BOOLEAN, shared : {"keep", "yes", "no"}, default : {"keep", "yes", "no"}]

TeamRole == {"OWNER", "ADMIN", "MEMBER", "VIEWER"}

ASSUME PatchAssumption == ViewPatches \subseteq ViewPatch

ASSUME FirstRoleAssumption == FirstRole \in [ViewUsers -> TeamRole] /\ Regraded \subseteq ViewUsers

ASSUME ViewBoundAssumption == MaxViewRequests \in Nat

ASSUME ViewUserAssumption == ViewUsers # {} /\ ViewIds # {}

VARIABLES logView,  \* LogView rows
          teamRole, \* TeamMember rows
          viewCall, \* requests to /logs/views
          viewsSent \* how many of them so far

viewVars == <<logView, teamRole, viewCall, viewsSent>>

\* `content` stands for name and definition: who wrote them last.
ViewRowState == {"unborn", "live", "gone"}

ViewRow == [row : ViewRowState, owner : ViewUsers, content : ViewUsers, shared : BOOLEAN, default : BOOLEAN]

SomeUser == CHOOSE u \in ViewUsers : TRUE
SomeView == CHOOSE v \in ViewIds : TRUE

UnbornView == [row |-> "unborn", owner |-> SomeUser, content |-> SomeUser, shared |-> FALSE, default |-> FALSE]

NoPatch == [content |-> FALSE, shared |-> "keep", default |-> "keep"]

\* `saw` is the row as the call loaded it, `alone` that no other call took a
\* step since this one cleared the default flags.
ViewPc == {"idle", "find", "clear", "write", "done"}

ViewOp == {"post", "put", "duplicate", "delete"}

ViewAnswer == {"none", "ok", "403", "404", "500"}

ViewCall == [pc : ViewPc, op : ViewOp, user : ViewUsers, view : ViewIds, manage : BOOLEAN, patch : ViewPatch,
             saw : ViewRow, alone : BOOLEAN, answer : ViewAnswer]

NoViewCall == [pc |-> "idle", op |-> "post", user |-> SomeUser, view |-> SomeView, manage |-> FALSE,
               patch |-> NoPatch, saw |-> UnbornView, alone |-> FALSE, answer |-> "none"]

ViewsInit == /\ logView = [v \in ViewIds |-> UnbornView]
             /\ teamRole = FirstRole
             /\ viewCall = [q \in ViewCalls |-> NoViewCall]
             /\ viewsSent = 0

canManageShared(u) == teamRole[u] \in {"OWNER", "ADMIN"}

\* A step of q: the calls between clearing and writing are no longer alone.
Stepped(q, c) ==
  [x \in ViewCalls |-> IF x = q THEN c ELSE [viewCall[x] EXCEPT !.alone = FALSE]]

ViewAnswered(code) == [NoViewCall EXCEPT !.pc = "done", !.answer = code]

\* Variant that only asks the role for sharing.
requestsShared(p) == p.shared = "yes"

requestsSharedState(p) == p.shared = "yes" \/ p.default = "yes"

\* The route: session, role, gate on the body.  A refused request goes no
\* further.
routeView(q, u, op, v, p) ==
  /\ viewCall[q].pc \in {"idle", "done"}
  /\ viewsSent < MaxViewRequests
  /\ viewsSent' = viewsSent + 1
  /\ requestsSharedState(p) => canManageShared(u)
  /\ viewCall' = Stepped(q, [NoViewCall EXCEPT
                    !.pc = IF op # "post" THEN "find" ELSE IF p.default = "yes" THEN "clear" ELSE "write",
                    !.op = op, !.user = u, !.view = v, !.patch = p, !.manage = canManageShared(u)])
  /\ UNCHANGED <<logView, teamRole>>

canRead(row, u) == row.shared \/ row.owner = u

isTeamWideState(row) == row.shared \/ row.default

isForeignPrivateDefault(row, u) == ~ row.shared /\ row.default /\ row.owner # u

\* Variant that does not hide a teammate's private view.
alwaysVisible(row, c) == TRUE

assertVisible(row, c) == canRead(row, c.user) \/ (c.manage /\ isForeignPrivateDefault(row, c.user))

canMutate(row, c) == row.owner = c.user \/ (isTeamWideState(row) /\ c.manage)

clearsDefaultOnly(p) == p.default = "no" /\ p.shared = "keep" /\ ~ p.content

\* Variant without the rule for foreign private defaults.
mayUpdateAny(row, c) == (isTeamWideState(row) => c.manage) /\ canMutate(row, c)

mayUpdate(row, c) ==
  /\ isTeamWideState(row) => c.manage
  /\ canMutate(row, c)
  /\ isForeignPrivateDefault(row, c.user) => clearsDefaultOnly(c.patch)

mayRemove(row, c) == (isTeamWideState(row) => c.manage) /\ canMutate(row, c)

\* findUnique and the judgement of what it returned.
findView(q) ==
  LET c == viewCall[q]
      row == logView[c.view]
      saw == IF c.op = "duplicate" THEN row ELSE [row EXCEPT !.content = row.owner]
      seen == [c EXCEPT !.saw = saw]
      visible == row.row = "live" /\ IF c.op = "duplicate" THEN canRead(row, c.user) ELSE assertVisible(row, c)
      allowed == CASE c.op = "put" -> mayUpdate(row, c)
                   [] c.op = "delete" -> mayRemove(row, c)
                   [] OTHER -> TRUE
      refused == [ViewAnswered("403") EXCEPT !.user = c.user, !.manage = c.manage, !.saw = saw]
  IN /\ c.pc = "find"
     /\ \/ ~ visible /\ viewCall' = Stepped(q, ViewAnswered("404"))
        \/ visible /\ ~ allowed /\ viewCall' = Stepped(q, refused)
        \/ /\ visible /\ allowed
           /\ viewCall' = Stepped(q, [seen EXCEPT !.pc = IF c.op = "put" /\ c.patch.default = "yes"
                                                        THEN "clear" ELSE "write"])
     /\ UNCHANGED <<logView, teamRole, viewsSent>>

\* Variant that clears the caller's own flags only.
ClearsOwn(row, u) == row.owner = u

Clears(row, u) == row.shared \/ row.owner = u

\* updateMany of create and of update.
clearDefaults(q) ==
  /\ viewCall[q].pc = "clear"
  /\ logView' = [v \in ViewIds |-> IF Clears(logView[v], viewCall[q].user)
                                   THEN [logView[v] EXCEPT !.default = FALSE] ELSE logView[v]]
  /\ viewCall' = Stepped(q, [viewCall[q] EXCEPT !.pc = "write", !.alone = TRUE])
  /\ UNCHANGED <<teamRole, viewsSent>>

Flag(asked, old) == IF asked = "keep" THEN old ELSE asked = "yes"

insertView(q, v) ==
  LET c == viewCall[q] IN
  /\ c.pc = "write" /\ c.op = "post"
  /\ logView[v].row = "unborn"
  /\ logView' = [logView EXCEPT ![v] = [row |-> "live", owner |-> c.user, content |-> c.user,
                                        shared |-> c.patch.shared = "yes", default |-> c.patch.default = "yes"]]
  /\ viewCall' = Stepped(q, ViewAnswered("ok"))
  /\ UNCHANGED <<teamRole, viewsSent>>

\* update by id: a row that is gone meanwhile is an error of the database.
writeView(q) ==
  LET c == viewCall[q]
      row == logView[c.view] IN
  /\ c.pc = "write" /\ c.op = "put"
  /\ logView' = IF row.row = "live"
                THEN [logView EXCEPT ![c.view] =
                        [row EXCEPT !.content = IF c.patch.content THEN c.user ELSE @,
                                    !.shared = Flag(c.patch.shared, @),
                                    !.default = Flag(c.patch.default, @)]]
                ELSE logView
  /\ viewCall' = Stepped(q, ViewAnswered(IF row.row = "live" THEN "ok" ELSE "500"))
  /\ UNCHANGED <<teamRole, viewsSent>>

\* The copy belongs to the caller and is never a default.
duplicateView(q, v) ==
  LET c == viewCall[q] IN
  /\ c.pc = "write" /\ c.op = "duplicate"
  /\ logView[v].row = "unborn"
  /\ logView' = [logView EXCEPT ![v] = [row |-> "live", owner |-> c.user, content |-> c.saw.content,
                                        shared |-> c.saw.shared /\ c.manage, default |-> FALSE]]
  /\ viewCall' = Stepped(q, ViewAnswered("ok"))
  /\ UNCHANGED <<teamRole, viewsSent>>

deleteView(q) ==
  LET c == viewCall[q] IN
  /\ c.pc = "write" /\ c.op = "delete"
  /\ logView' = [logView EXCEPT ![c.view].row = "gone"]
  /\ viewCall' = Stepped(q, ViewAnswered(IF logView[c.view].row = "live" THEN "ok" ELSE "500"))
  /\ UNCHANGED <<teamRole, viewsSent>>

\* The admin route that adds a member again with another role.
setTeamRole(u, r) ==
  /\ teamRole[u] # r
  /\ teamRole' = [teamRole EXCEPT ![u] = r]
  /\ UNCHANGED <<logView, viewCall, viewsSent>>

ViewRequest(q, u) ==
  \/ \E p \in ViewPatches : p.content /\ routeView(q, u, "post", SomeView, p)
  \/ \E v \in ViewIds : \/ \E p \in ViewPatches : routeView(q, u, "put", v, p)
                        \/ \E op \in {"duplicate", "delete"} : routeView(q, u, op, v, NoPatch)

ViewStep(q) == \/ findView(q) \/ clearDefaults(q) \/ writeView(q) \/ deleteView(q)
               \/ \E v \in ViewIds : insertView(q, v) \/ duplicateView(q, v)

ViewsNext == \/ \E q \in ViewCalls : ViewStep(q) \/ \E u \in ViewUsers : ViewRequest(q, u)
             \/ \E u \in Regraded, r \in {"ADMIN", "MEMBER"} : setTeamRole(u, r)

ViewsSpec == ViewsInit /\ [][ViewsNext]_viewVars

(***************************************************************************)
(* Whatever happens between the read of the role, the load of the view and *)
(* the write: a row other than a new one is changed only by a call that    *)
(* might change the row it loaded.  Team-wide rows take a manager, a plain *)
(* private row its owner, and of another user's private default a manager  *)
(* changes nothing but the flag (comments at log-view-service.ts:209-222). *)
(* Clearing other default flags touches nothing but those flags.           *)
(***************************************************************************)
ChangedOnlyBy(q, v) ==
  LET c == viewCall[q]
      old == logView[v]
      new == logView'[v]
  IN \/ new = [old EXCEPT !.default = FALSE] /\ c.manage
     \/ /\ c.view = v /\ c.op \in {"put", "delete"} /\ c.saw.row = "live"
        /\ isTeamWideState(c.saw) => c.manage
        /\ ~ isTeamWideState(c.saw) => c.saw.owner = c.user
        /\ isForeignPrivateDefault(c.saw, c.user) => new.content = old.content /\ new.shared = old.shared

ChangesGated ==
  \A v \in ViewIds : logView[v].row = "live" /\ logView'[v] # logView[v] =>
    \E q \in ViewCalls : viewCall'[q].pc # viewCall[q].pc /\ ChangedOnlyBy(q, v)

ViewGate == [][ChangesGated]_viewVars

(***************************************************************************)
(* No view becomes shared or default by the act of somebody who was not a  *)
(* manager when the request came in: not by create, update or duplicate.   *)
(***************************************************************************)
RaisesManaged ==
  \A v \in ViewIds : isTeamWideState(logView'[v]) /\ ~ isTeamWideState(logView[v]) =>
    \E q \in ViewCalls : viewCall'[q].pc # viewCall[q].pc /\ viewCall[q].manage

RaisedByManagers == [][RaisesManaged]_viewVars

(***************************************************************************)
(* Rows of LogViewService change only by the acts of those who may change  *)
(* what they loaded, and become shared or default only by a manager's.     *)
(***************************************************************************)
ViewWrites == ViewGate /\ RaisedByManagers

(***************************************************************************)
(* A teammate's private view answers like an unknown id: only who can read *)
(* the view, or a manager who may clean up a private default, is told 403  *)
(* instead of 404 (log-view-service.ts:189-192).                           *)
(***************************************************************************)
PrivateConcealed ==
  \A q \in ViewCalls :
    LET c == viewCall[q] IN
    c.answer = "403" => c.saw.shared \/ c.saw.owner = c.user \/ (c.manage /\ c.saw.default)

\* A step in which a lone default write leaves no older default that its caller can list.
DefaultIsNew ==
  \A q \in ViewCalls, v \in ViewIds :
    /\ viewCall[q].pc = "write" /\ viewCall[q].patch.default = "yes" /\ viewCall[q].alone
    /\ viewCall'[q].answer = "ok"
    /\ logView'[v].row = "live" /\ logView'[v].default /\ canRead(logView'[v], viewCall[q].user)
    => logView'[v] # logView[v]

(***************************************************************************)
(* Setting a default clears the others first, in a statement of its own.   *)
(* When no other request takes a step in between, the view is the only     *)
(* default among those the caller can list.                                *)
(***************************************************************************)
LoneDefault == [][DefaultIsNew]_viewVars

\* Why: calls are well typed, one that asks for team-wide flags came from a
\* manager, one about to write was judged by the row it loaded, and while a call
\* is alone none of the views its caller can list is a default.
ViewsTypeOK == /\ logView \in [ViewIds -> ViewRow]
               /\ teamRole \in [ViewUsers -> TeamRole]
               /\ viewCall \in [ViewCalls -> ViewCall]

Judged(c) ==
  /\ c.saw.row = "live"
  /\ isTeamWideState(c.saw) => c.manage
  /\ ~ isTeamWideState(c.saw) => c.saw.owner = c.user
  /\ c.op = "put" /\ isForeignPrivateDefault(c.saw, c.user) => clearsDefaultOnly(c.patch)

CallJudged(c) ==
  /\ c.pc \in {"find", "clear", "write"} /\ requestsSharedState(c.patch) => c.manage
  /\ c.pc = "clear" => c.patch.default = "yes"
  /\ c.pc \in {"clear", "write"} /\ c.op \in {"put", "delete"} => Judged(c)
  /\ c.answer = "403" => c.pc = "done" /\ (c.saw.shared \/ c.saw.owner = c.user \/ (c.manage /\ c.saw.default))

DefaultsCleared(c, views) ==
  c.alone => c.pc = "write" /\ \A v \in ViewIds : canRead(views[v], c.user) => ~ views[v].default

ViewsIInv == ViewsTypeOK /\ \A q \in ViewCalls : CallJudged(viewCall[q]) /\ DefaultsCleared(viewCall[q], logView)
=============================================================================
