------------------------- MODULE AuthorizationProofs ------------------------
(***************************************************************************)
(* Proofs about who gets access to what: invites and memberships, the      *)
(* gates of the routes, and saved views.  The three share no state and     *)
(* each has its own specification.                                         *)
(***************************************************************************)
EXTENDS TeamInvites, SavedViews, AccessGates, TLAPS

(***************************************************************************)
(* Invites.                                                                *)
(***************************************************************************)
\* The invariant holds when createTeam has made the team.
LEMMA InitInvites == Init => InvitesIInv
<1> SUFFICES ASSUME Init PROVE InvitesIInv
  OBVIOUS
<1> USE FounderAssumption, InviteAssumption DEF Init
<1>1. NotAccepting \in Accepting /\ NotAdding \in Adding /\ UnbornInvite \in InviteRow
  BY DEF NotAccepting, NotAdding, UnbornInvite, Accepting, Adding, InviteRow, Role, InviteRole
<1>2. TypeOK
  BY <1>1 DEF TypeOK, Role
<1>3. UsedMeansJoined /\ UnbornUnjoined
  BY DEF UsedMeansJoined, UnbornUnjoined, UnbornInvite
<1> QED BY <1>2, <1>3 DEF InvitesIInv, InvitesInv

\* Every action keeps memberships, invites and requests well typed.
LEMMA InvitesTypeStep == TypeOK /\ [Next]_vars => TypeOK'
<1> SUFFICES ASSUME TypeOK, [Next]_vars PROVE TypeOK'
  OBVIOUS
<1> USE FounderAssumption, InviteAssumption, RoleAssumption, InviteClockAssumption DEF TypeOK
<1>0. NotAccepting \in Accepting /\ NotAdding \in Adding
  BY DEF NotAccepting, NotAdding, Accepting, Adding, Role
<1>1. CASE Tick
  BY <1>1 DEF Tick
<1>2. ASSUME NEW u \in Users, NEW i \in Invites, revokeInvite(u, i) PROVE TypeOK'
  BY <1>2 DEF revokeInvite, InviteRow
<1>3. ASSUME NEW u \in Users, NEW i \in Invites, NEW r \in InviteRoles, NEW email \in Users \cup {Anyone},
             createInvite(u, i, r, email)
      PROVE  TypeOK'
  <2>1. [row |-> "live", role |-> r, email |-> email, expiresAt |-> clock + Lifetime, used |-> FALSE] \in InviteRow
    BY DEF InviteRow, InviteRole, Role
  <2> QED BY <1>3, <2>1 DEF createInvite
<1>4. ASSUME NEW q \in Requests, NEW u \in Users, NEW i \in Invites, readInvite(q, u, i) PROVE TypeOK'
  BY <1>4 DEF readInvite, Accepting
<1>5. ASSUME NEW q \in Requests, checkMember(q) PROVE TypeOK'
  BY <1>0, <1>5 DEF checkMember, Accepting
<1>6. ASSUME NEW q \in Requests, acceptInvite(q) PROVE TypeOK'
  <2>1. PICK u, i : u = accepting[q].user /\ i = accepting[q].invite /\ u \in Users /\ i \in Invites
    BY DEF Accepting
  <2>2. [invite[i] EXCEPT !.used = TRUE] \in InviteRow /\ invite[i].role \in Role
    <3>1. invite[i] \in InviteRow
      BY <2>1
    <3>2. \A row \in InviteRow : row.role \in Role /\ [row EXCEPT !.used = TRUE] \in InviteRow
      BY DEF InviteRow, InviteRole
    <3> QED BY <3>1, <3>2
  <2>3. CASE UNCHANGED <<member, invite, joinedBy>>
    BY <1>0, <1>6, <2>3 DEF acceptInvite
  <2>4. CASE /\ member' = [member EXCEPT ![u] = invite[i].role]
             /\ invite' = [invite EXCEPT ![i] = [invite[i] EXCEPT !.used = TRUE]]
             /\ joinedBy' = [joinedBy EXCEPT ![i] = @ \cup {u}]
    <3>1. accepting' \in [Requests -> Accepting] /\ UNCHANGED <<clock, adding>>
      BY <1>0, <1>6 DEF acceptInvite
    <3> QED BY <2>1, <2>2, <2>4, <3>1
  <2> QED BY <1>6, <2>1, <2>3, <2>4 DEF acceptInvite
<1>7. ASSUME NEW u \in Users, NEW r \in AdminRoles, lookupMember(u, r) PROVE TypeOK'
  BY <1>7 DEF lookupMember, Adding, Role
<1>8. ASSUME NEW u \in Users, addUserToTeam(u) \/ removeUserFromTeam(u) PROVE TypeOK'
  BY <1>0, <1>8 DEF addUserToTeam, removeUserFromTeam, Adding
<1>9. CASE UNCHANGED vars
  BY <1>9 DEF vars
<1> QED BY <1>1, <1>2, <1>3, <1>4, <1>5, <1>6, <1>7, <1>8, <1>9 DEF Next

\* Every action keeps the invariant.
LEMMA InvitesStep == InvitesIInv /\ [Next]_vars => InvitesIInv'
<1> SUFFICES ASSUME InvitesIInv, [Next]_vars PROVE InvitesIInv'
  OBVIOUS
<1>0. TypeOK /\ TypeOK'
  BY InvitesTypeStep DEF InvitesIInv, InvitesInv
<1> SUFFICES UsedMeansJoined' /\ UnbornUnjoined'
  BY <1>0 DEF InvitesIInv, InvitesInv
<1> USE <1>0 DEF InvitesIInv, InvitesInv, TypeOK, UsedMeansJoined, UnbornUnjoined
<1>1. CASE UNCHANGED <<invite, joinedBy>>
  BY <1>1
<1>2. ASSUME NEW u \in Users, NEW i \in Invites, revokeInvite(u, i) PROVE UsedMeansJoined' /\ UnbornUnjoined'
  BY <1>2 DEF revokeInvite, InviteRow
<1>3. ASSUME NEW u \in Users, NEW i \in Invites, NEW r \in InviteRoles, NEW email \in Users \cup {Anyone},
             createInvite(u, i, r, email)
      PROVE  UsedMeansJoined' /\ UnbornUnjoined'
  BY <1>3 DEF createInvite, InviteRow
<1>4. ASSUME NEW q \in Requests, acceptInvite(q) PROVE UsedMeansJoined' /\ UnbornUnjoined'
  <2>1. PICK u, i : u = accepting[q].user /\ i = accepting[q].invite /\ u \in Users /\ i \in Invites
    BY DEF Accepting
  <2>2. CASE UNCHANGED <<invite, joinedBy>>
    BY <2>2
  <2>3. CASE /\ invite' = [invite EXCEPT ![i] = [invite[i] EXCEPT !.used = TRUE]]
             /\ joinedBy' = [joinedBy EXCEPT ![i] = @ \cup {u}]
             /\ invite[i].row = "live"
    <3>1. \A x \in Invites : x # i => invite'[x] = invite[x] /\ joinedBy'[x] = joinedBy[x]
      BY <2>1, <2>3
    <3>2. invite'[i].used /\ invite'[i].row = "live" /\ u \in joinedBy'[i]
      BY <2>1, <2>3 DEF InviteRow
    <3> QED BY <3>1, <3>2
  <2> QED BY <1>4, <2>1, <2>2, <2>3 DEF acceptInvite, Commits
<1> QED BY <1>1, <1>2, <1>3, <1>4
        DEF Next, Tick, readInvite, checkMember, lookupMember, addUserToTeam, removeUserFromTeam, vars

\* InvitesIInv holds in every reachable state.
THEOREM InvitesInvariance == Spec => []InvitesIInv
BY InitInvites, InvitesStep, PTL DEF Spec

\* For any accounts, invites and concurrent requests: memberships and invites
\* stay well typed, and acceptInvite marks an invite used exactly when
\* somebody became a member with it.
THEOREM InvitesTheorem == Spec => []InvitesInv
<1>1. InvitesIInv => InvitesInv
  BY DEF InvitesIInv
<1> QED BY <1>1, InvitesInvariance, PTL

\* What the transaction of acceptInvite grants, whatever came between its
\* reads and its commit: a new membership, with the role of a live invite.
THEOREM GrantsTheorem == Spec => AcceptGrantsOnce
<1> DEFINE Granted(i, u) == /\ member[u] = "none" /\ member'[u] = invite[i].role
                            /\ invite[i].row = "live"
<1>1. TypeOK /\ [Next]_vars => [\A i \in Invites, u \in Users : Joins(i, u) => Granted(i, u)]_vars
  <2> SUFFICES ASSUME TypeOK, Next, NEW i \in Invites, NEW u \in Users, Joins(i, u) PROVE Granted(i, u)
    OBVIOUS
  <2>1. PICK q \in Requests : acceptInvite(q)
    BY DEF Next, Joins, Tick, revokeInvite, createInvite, readInvite, checkMember, lookupMember,
           addUserToTeam, removeUserFromTeam
  <2>2. accepting[q].user \in Users /\ accepting[q].invite \in Invites
    BY DEF TypeOK, Accepting
  <2>3. u = accepting[q].user /\ i = accepting[q].invite /\ Commits(accepting[q])
    BY <2>1, <2>2 DEF acceptInvite, Joins, TypeOK
  <2> QED BY <2>1, <2>2, <2>3 DEF acceptInvite, Commits, TypeOK
<1>2. Spec => []TypeOK
  <2>1. InvitesIInv => TypeOK
    BY DEF InvitesIInv, InvitesInv
  <2> QED BY <2>1, InvitesInvariance, PTL
<1> QED BY <1>1, <1>2, PTL DEF Spec, AcceptGrantsOnce

(***************************************************************************)
(* The gates.                                                              *)
(***************************************************************************)
\* The table of routes: what a role may need, and how a row is missed.
LEMMA RoutesTyped == Routes \subseteq RouteRecord
<1> USE DEF writeRoute
<1>1. ASSUME NEW gate \in Gate, NEW body \in BOOLEAN, NEW needs \in SUBSET Members, NEW acts \in RouteAct
      PROVE  Route(gate, body, needs, acts) \in RouteRecord
  BY DEF Route, RouteAnswering, RouteRecord, Refusal
<1>2. \A r \in RouteRecord :
        /\ \A needs \in SUBSET Members : [r EXCEPT !.needs = needs] \in RouteRecord
        /\ \A ss \in SUBSET Refusal : [r EXCEPT !.refuses = ss] \in RouteRecord
        /\ \A s \in Refusal : [r EXCEPT !.rejected = s] \in RouteRecord
  BY Zenon DEF RouteRecord
<1>3. /\ {} \in SUBSET Members /\ Members \in SUBSET Members /\ canWrite \in SUBSET Members
      /\ canSeeSourceKeys \in SUBSET Members /\ canManageSources \in SUBSET Members /\ canManageInvites \in SUBSET Members
      /\ {400, 403, 404, 500} \subseteq Refusal /\ 400 \in Refusal /\ {400} \in SUBSET Refusal /\ {404} \in SUBSET Refusal
  BY DEF Members, canWrite, canSeeSourceKeys, canManageSources, canManageInvites, Refusal
<1>4. /\ "session" \in Gate /\ "admin" \in Gate /\ "team" \in Gate /\ "row" \in Gate
      /\ "read" \in RouteAct /\ "reveal" \in RouteAct /\ "insert" \in RouteAct /\ "update" \in RouteAct /\ "delete" \in RouteAct
  BY DEF Gate, RouteAct
<1> USE <1>3, <1>4
<1>5. {getTeams, getSources, postSource, putSource, logContext} \subseteq RouteRecord
  BY <1>1 DEF getTeams, getSources, postSource, putSource, logContext
<1>6. {getJob, getViews, naturalQuery, getRules, getIncidents, postRule, deleteRoute, getWindows}
        \subseteq RouteRecord
  BY <1>1 DEF getJob, getViews, naturalQuery, getRules, getIncidents, postRule, deleteRoute, getWindows
<1>7. {getOverview, getTimeline, getSubscriptions, getIssues, getIssue, getInvites}
        \subseteq RouteRecord
  BY <1>1 DEF getOverview, getTimeline, getSubscriptions, getIssues, getIssue, getInvites
<1>8. {getAdminUsers, getAdminTeams, getAdminMembers, getAdminStats} \subseteq RouteRecord
  BY <1>1 DEF getAdminUsers, getAdminTeams, getAdminMembers, getAdminStats
<1>9. /\ writeRoute("row", FALSE, "delete") \in RouteRecord /\ writeRoute("row", FALSE, "reveal") \in RouteRecord
      /\ Route("session", TRUE, {}, "insert") \in RouteRecord /\ Route("team", TRUE, Members, "read") \in RouteRecord
      /\ Route("team", TRUE, canManageInvites, "insert") \in RouteRecord /\ Route("admin", FALSE, {}, "delete") \in RouteRecord
  BY <1>1
<1>r. /\ RouteAnswering("row", TRUE, canWrite, "update", 403, 500) \in RouteRecord
      /\ RouteAnswering("row", FALSE, canManageInvites, "delete", 404, 400) \in RouteRecord
  BY DEF RouteAnswering, RouteRecord
<1> HIDE DEF writeRoute
<1>10. manageSource \in RouteRecord /\ revealSource \in RouteRecord
  BY <1>2, <1>9, Zenon DEF manageSource, revealSource
<1>s. ASSUME NEW r \in RouteRecord PROVE [r EXCEPT !.refuses = {400}] \in RouteRecord
  BY <1>2, <1>3, Zenon
<1>u. ASSUME NEW r \in RouteRecord PROVE [r EXCEPT !.refuses = {404}] \in RouteRecord
  BY <1>2, <1>3, Zenon
<1>t. ASSUME NEW r \in RouteRecord PROVE [r EXCEPT !.rejected = 400] \in RouteRecord
  BY <1>2, <1>3, Zenon
<1>11. postTeams \in RouteRecord /\ postInvite \in RouteRecord
  BY <1>t, <1>9, Zenon DEF postTeams, postInvite
<1>12. deleteInvite \in RouteRecord
  BY <1>t, <1>r, Zenon DEF deleteInvite
<1>13. searchLogs \in RouteRecord /\ getLogs \in RouteRecord
  BY <1>s, <1>9, Zenon DEF searchLogs, getLogs
<1>14. getLog \in RouteRecord /\ deleteMember \in RouteRecord
  BY <1>u, <1>9, Zenon DEF getLog, deleteMember
<1>15. putIssue \in RouteRecord
  BY <1>s, <1>r, Zenon DEF putIssue
<1> QED BY <1>5, <1>6, <1>7, <1>8, <1>10, <1>11, <1>12, <1>13, <1>14, <1>15 DEF Routes

\* Witnessed adds the present role, session, admin flag and row to a call.
LEMMA WitnessedFacts ==
  ASSUME NEW c \in CallRecord, session' \in BOOLEAN, admin' \in BOOLEAN, rowThere' \in BOOLEAN,
         role' \in [GateTeams -> Members \cup {"none"}]
  PROVE  /\ Witnessed(c) \in CallRecord
         /\ Witnessed(c).pc = c.pc /\ Witnessed(c).route = c.route /\ Witnessed(c).team = c.team
         /\ Witnessed(c).status = c.status
         /\ Witnessed(c).held = c.held \cup {role'[c.team]}
         /\ Witnessed(c).heldSession <=> c.heldSession \/ session'
         /\ Witnessed(c).heldAdmin <=> c.heldAdmin \/ admin'
         /\ Witnessed(c).rowSeen <=> c.rowSeen \/ rowThere'
<1>1. /\ Witnessed(c).pc = c.pc /\ Witnessed(c).route = c.route /\ Witnessed(c).team = c.team
      /\ Witnessed(c).status = c.status
      /\ Witnessed(c).held = c.held \cup {role'[c.team]}
  BY DEF Witnessed, CallRecord
<1>2. /\ Witnessed(c).heldSession = (c.heldSession \/ session')
      /\ Witnessed(c).heldAdmin = (c.heldAdmin \/ admin')
      /\ Witnessed(c).rowSeen = (c.rowSeen \/ rowThere')
  BY DEF Witnessed, CallRecord
<1>3. Witnessed(c) \in CallRecord
  <2>1. \A x \in CallRecord, h \in SUBSET (Members \cup {"none"}), s \in BOOLEAN, a \in BOOLEAN, t \in BOOLEAN :
          [x EXCEPT !.held = h, !.heldSession = s, !.heldAdmin = a, !.rowSeen = t] \in CallRecord
    BY Zenon DEF CallRecord
  <2>2. c.held \cup {role'[c.team]} \in SUBSET (Members \cup {"none"})
    BY DEF CallRecord
  <2>3. (c.heldSession \/ session') \in BOOLEAN /\ (c.heldAdmin \/ admin') \in BOOLEAN /\ (c.rowSeen \/ rowThere') \in BOOLEAN
    OBVIOUS
  <2> QED BY <2>1, <2>2, <2>3, Zenon DEF Witnessed
<1> QED BY <1>1, <1>2, <1>3

\* Nothing is witnessed before the first call.
LEMMA InitGates == GatesInit => GatesIInv
<1> SUFFICES ASSUME GatesInit PROVE GatesIInv
  OBVIOUS
<1>1. NoCall \in CallRecord
  BY RoutesTyped, GateAssumption DEF NoCall, CallRecord, Routes, GatePc, Status, Refusal
<1>2. GatesTypeOK
  BY <1>1 DEF GatesTypeOK, GatesInit
<1>3. call.pc = "idle"
  BY DEF GatesInit, NoCall
<1> QED BY <1>2, <1>3
        DEF GatesIInv, NowIsWitnessed, GatesPassed, GatesSound, ForeignIsUnknown, ServedWasEntitled, Answered, At

\* What others change between two gates is witnessed by the call.
LEMMA MeanwhileStep ==
  ASSUME GatesIInv, session' \in BOOLEAN, admin' \in BOOLEAN, rowThere' \in BOOLEAN,
         role' \in [GateTeams -> Members \cup {"none"}], call' = Witnessed(call)
  PROVE  GatesIInv'
<1>1. /\ call' \in CallRecord /\ call'.pc = call.pc /\ call'.route = call.route /\ call'.team = call.team
      /\ call'.status = call.status /\ call'.held = call.held \cup {role'[call.team]}
      /\ call'.heldSession <=> call.heldSession \/ session'
      /\ call'.heldAdmin <=> call.heldAdmin \/ admin'
      /\ call'.rowSeen <=> call.rowSeen \/ rowThere'
  BY WitnessedFacts DEF GatesIInv, GatesTypeOK
<1>2. GatesTypeOK' /\ NowIsWitnessed'
  BY <1>1 DEF GatesTypeOK, NowIsWitnessed, At
<1>3. GatesPassed'
  BY <1>1 DEF GatesIInv, GatesPassed, At
<1>4. ForeignIsUnknown'
  BY <1>1 DEF GatesIInv, GatesSound, ForeignIsUnknown, At, GatesTypeOK, NowIsWitnessed
<1>5. ServedWasEntitled'
  BY <1>1 DEF GatesIInv, GatesSound, ServedWasEntitled, Answered, At
<1> QED BY <1>2, <1>3, <1>4, <1>5 DEF GatesIInv, GatesSound

\* A gate that lets the call through leaves everything but its place alone.
LEMMA ToFacts ==
  ASSUME GatesTypeOK, NEW pc \in GatePc, To(pc)
  PROVE  /\ GatesTypeOK' /\ call'.pc = pc /\ call'.route = call.route /\ call'.team = call.team
         /\ call'.held = call.held /\ UNCHANGED <<session, admin, role, rowThere>>
         /\ call'.heldSession <=> call.heldSession
         /\ call'.heldAdmin <=> call.heldAdmin
         /\ call'.rowSeen <=> call.rowSeen
<1>1. \A c \in CallRecord : [c EXCEPT !.pc = pc] \in CallRecord
  BY Zenon DEF CallRecord
<1>2. GatesTypeOK'
  BY <1>1, Zenon DEF To, GatesTypeOK
<1>3. /\ call'.pc = pc /\ call'.route = call.route /\ call'.team = call.team /\ call'.held = call.held
      /\ call'.heldSession = call.heldSession /\ call'.heldAdmin = call.heldAdmin /\ call'.rowSeen = call.rowSeen
  BY DEF To, GatesTypeOK, CallRecord
<1> QED BY <1>2, <1>3 DEF To

\* An answer ends the call and leaves what it has witnessed alone.
LEMMA AnswerFacts ==
  ASSUME GatesTypeOK, NEW status \in Status, call' = [call EXCEPT !.pc = "answered", !.status = status],
         UNCHANGED <<session, admin, role>>, rowThere' \in BOOLEAN
  PROVE  /\ GatesTypeOK' /\ call'.pc = "answered" /\ call'.status = status /\ call'.route = call.route
         /\ call'.team = call.team /\ call'.held = call.held
         /\ call'.heldSession <=> call.heldSession
         /\ call'.heldAdmin <=> call.heldAdmin
         /\ call'.rowSeen <=> call.rowSeen
<1>1. \A c \in CallRecord, pc \in GatePc : [c EXCEPT !.pc = pc, !.status = status] \in CallRecord
  BY Zenon DEF CallRecord
<1>2. "answered" \in GatePc
  BY DEF GatePc
<1>3. GatesTypeOK'
  BY <1>1, <1>2, Zenon DEF GatesTypeOK
<1>4. /\ call'.pc = "answered" /\ call'.status = status /\ call'.route = call.route
      /\ call'.team = call.team /\ call'.held = call.held
      /\ call'.heldSession = call.heldSession /\ call'.heldAdmin = call.heldAdmin /\ call'.rowSeen = call.rowSeen
  BY DEF GatesTypeOK, CallRecord
<1> QED BY <1>3, <1>4

\* A call that is let through keeps the invariant when the gates it has now
\* passed are witnessed.
LEMMA ToStep ==
  ASSUME GatesIInv, ~ At("idle"), NEW pc \in {"admin", "body", "row", "role", "handler"}, To(pc), GatesPassed'
  PROVE  GatesIInv'
<1>1. pc \in GatePc /\ GatesTypeOK
  BY DEF GatePc, GatesIInv
<1>2. NowIsWitnessed'
  BY <1>1, ToFacts DEF GatesIInv, NowIsWitnessed, At
<1>3. GatesSound'
  BY <1>1, ToFacts DEF GatesSound, ForeignIsUnknown, ServedWasEntitled, Answered, At
<1> QED BY <1>1, <1>2, <1>3, ToFacts DEF GatesIInv

\* A refusal keeps the invariant, when it is not 403 to a stranger of a row.
LEMMA AnswerStep ==
  ASSUME GatesIInv, ~ At("idle"), NEW status \in Refusal, Answer(status),
         status = 403 => call.route.gate # "row" \/ call.held # {"none"}
  PROVE  GatesIInv'
<1>1. /\ status \in Status /\ GatesTypeOK /\ call' = [call EXCEPT !.pc = "answered", !.status = status]
      /\ UNCHANGED <<session, admin, role>> /\ rowThere' \in BOOLEAN /\ rowThere' = rowThere
  BY DEF Status, GatesIInv, GatesTypeOK, Answer
<1>2. NowIsWitnessed'
  BY <1>1, AnswerFacts DEF GatesIInv, NowIsWitnessed, At
<1>3. GatesPassed'
  BY <1>1, AnswerFacts DEF GatesPassed, At
<1>4. call'.status = status /\ call'.route = call.route /\ call'.held = call.held
  BY <1>1, AnswerFacts
<1>5. ForeignIsUnknown' /\ ServedWasEntitled'
  BY <1>4 DEF ForeignIsUnknown, ServedWasEntitled, Answered, Refusal
<1> QED BY <1>1, <1>2, <1>3, <1>5, AnswerFacts DEF GatesIInv, GatesSound

\* Every gate keeps the invariant.
LEMMA GateStepKeeps == GatesIInv /\ GateStep => GatesIInv'
<1> SUFFICES ASSUME GatesIInv, GateStep PROVE GatesIInv'
  OBVIOUS
<1> USE DEF At
<1>0. /\ GatesTypeOK /\ NowIsWitnessed /\ GatesPassed /\ call.route \in RouteRecord
      /\ {400, 401, 403, 404, 500} = Refusal
      /\ {"admin", "body", "row", "role", "handler"} \subseteq GatePc
  BY DEF GatesIInv, GatesTypeOK, CallRecord, Refusal, GatePc
<1>1. CASE requireAuth
  <2>1. CASE session /\ To("admin") /\ call.route.gate = "admin"
    BY <1>0, <1>1, <2>1, ToFacts, ToStep DEF requireAuth, GatesPassed, NowIsWitnessed
  <2>2. CASE session /\ To("body") /\ call.route.gate # "admin"
    <3>1. call.heldSession /\ call.pc = "auth"
      BY <1>0, <1>1, <2>2 DEF requireAuth, NowIsWitnessed
    <3>2. GatesPassed'
      BY <1>0, <2>2, <3>1, ToFacts DEF GatesPassed
    <3> QED BY <2>2, <3>1, <3>2, ToStep
  <2>3. CASE Answer(401)
    BY <1>0, <1>1, <2>3, AnswerStep DEF requireAuth
  <2> QED BY <1>1, <2>1, <2>2, <2>3 DEF requireAuth
<1>2. CASE requireAdminRole
  <2>1. CASE admin /\ To("body")
    BY <1>0, <1>2, <2>1, ToFacts, ToStep DEF requireAdminRole, GatesPassed, NowIsWitnessed
  <2>2. CASE Answer(401) \/ Answer(403)
    BY <1>0, <1>2, <2>2, AnswerStep DEF requireAdminRole, GatesPassed
  <2> QED BY <1>2, <2>1, <2>2 DEF requireAdminRole
<1>3. CASE parseBody
  <2>1. CASE Answer(400)
    BY <1>0, <1>3, <2>1, AnswerStep DEF parseBody
  <2>2. CASE call.route.gate = "row" /\ To("row")
    BY <1>0, <1>3, <2>2, ToFacts, ToStep DEF parseBody, GatesPassed
  <2>3. CASE call.route.gate = "team" /\ To("role")
    BY <1>0, <1>3, <2>3, ToFacts, ToStep DEF parseBody, GatesPassed
  <2>4. CASE call.route.gate \notin {"row", "team"} /\ To("handler")
    BY <1>0, <1>3, <2>4, ToFacts, ToStep DEF parseBody, GatesPassed
  <2> QED BY <1>3, <2>1, <2>2, <2>3, <2>4 DEF parseBody
<1>4. CASE resolveTeam
  <2>1. CASE rowThere /\ To("role")
    BY <1>0, <1>4, <2>1, ToFacts, ToStep DEF resolveTeam, GatesPassed, NowIsWitnessed
  <2>2. CASE Answer(404)
    BY <1>0, <1>4, <2>2, AnswerStep DEF resolveTeam
  <2> QED BY <1>4, <2>1, <2>2 DEF resolveTeam
<1>5. CASE requireTeamRole
  <2>1. CASE role[call.team] = "none" /\ Answer(nonMemberStatus(call.route))
    BY <1>0, <1>5, <2>1, AnswerStep DEF requireTeamRole, nonMemberStatus
  <2>2. CASE Sufficient(call.route) /\ To("handler")
    BY <1>0, <1>5, <2>2, ToFacts, ToStep DEF requireTeamRole, GatesPassed, NowIsWitnessed, Sufficient
  <2>3. CASE role[call.team] # "none" /\ Answer(call.route.refusal)
    BY <1>0, <1>5, <2>3, AnswerStep DEF requireTeamRole, NowIsWitnessed, RouteRecord
  <2> QED BY <1>5, <2>1, <2>2, <2>3 DEF requireTeamRole
<1>h. At("handler") /\ call.route.gate = "row" => call.held # {"none"}
  <2>1. "none" \notin call.route.needs
    BY <1>0 DEF RouteRecord, Members
  <2> QED BY <1>0, <2>1 DEF GatesPassed
<1>r. call.route.gone \in Refusal /\ call.route.refuses \subseteq Refusal /\ call.route.rejected \in Refusal
  BY <1>0 DEF RouteRecord
<1>6. CASE Handle
  <2>1. ASSUME NEW status \in Refusal, Answer(status) PROVE GatesIInv'
    BY <1>0, <1>6, <1>h, <2>1, AnswerStep DEF Handle
  <2>2. CASE /\ call' = [call EXCEPT !.pc = "answered", !.status = 200]
             /\ UNCHANGED <<session, admin, role>> /\ rowThere' \in BOOLEAN /\ (rowThere' => rowThere)
    <3>1. 200 \in Status
      BY DEF Status
    <3>2. NowIsWitnessed'
      BY <1>0, <1>6, <2>2, <3>1, AnswerFacts DEF Handle, NowIsWitnessed
    <3>3. GatesPassed'
      BY <1>0, <2>2, <3>1, AnswerFacts DEF GatesPassed
    <3>4. "none" \notin call.route.needs
      BY <1>0 DEF RouteRecord, Members
    <3>5. ForeignIsUnknown'
      <4>1. call.route.gate = "row" => call.held # {"none"}
        BY <1>0, <1>6, <3>4 DEF Handle, GatesPassed
      <4>2. call'.route = call.route /\ call'.held = call.held
        BY <1>0, <2>2, <3>1, AnswerFacts
      <4> QED BY <4>1, <4>2 DEF ForeignIsUnknown
    <3>6. ServedWasEntitled'
      BY <1>0, <1>6, <2>2, <3>1, AnswerFacts DEF Handle, ServedWasEntitled, Answered, GatesPassed
    <3> QED BY <1>0, <2>2, <3>1, <3>2, <3>3, <3>5, <3>6, AnswerFacts DEF GatesIInv, GatesSound
  <2>3. rowThere \in BOOLEAN
    BY <1>0 DEF GatesTypeOK
  <2> QED BY <1>6, <1>r, <2>1, <2>2, <2>3 DEF Handle
<1>7. CASE asyncHandler
  <2>1. CASE call.pc = "handler"
    BY <1>0, <1>7, <1>h, <1>r, <2>1, AnswerStep DEF asyncHandler
  <2>2. CASE call.pc # "handler"
    BY <1>0, <1>7, <2>2, AnswerStep DEF asyncHandler
  <2> QED BY <2>1, <2>2
<1> QED BY <1>1, <1>2, <1>3, <1>4, <1>5, <1>6, <1>7 DEF GateStep

\* Every step keeps the invariant.
LEMMA GatesStepKeeps == GatesIInv /\ [GatesNext]_gateVars => GatesIInv'
<1> SUFFICES ASSUME GatesIInv, [GatesNext]_gateVars PROVE GatesIInv'
  OBVIOUS
<1>0. GatesTypeOK
  BY DEF GatesIInv
<1>1. CASE GateStep
  BY <1>1, GateStepKeeps
<1>2. CASE sessionEnds \/ adminChanged \/ rowDeleted
  BY <1>0, <1>2, MeanwhileStep DEF sessionEnds, adminChanged, rowDeleted, GatesTypeOK
<1>3. ASSUME NEW t \in GateTeams, NEW r \in Members \cup {"none"}, membershipChanged(t, r) PROVE GatesIInv'
  BY <1>0, <1>3, MeanwhileStep DEF membershipChanged, GatesTypeOK
<1>4. ASSUME NEW r \in Routes, NEW t \in GateTeams, NEW valid \in BOOLEAN, request(r, t, valid) PROVE GatesIInv'
  <2> DEFINE begun == [NoCall EXCEPT !.pc = "auth", !.route = r, !.team = t, !.valid = valid]
  <2>1. begun \in CallRecord /\ begun.pc = "auth" /\ begun.team = t /\ begun.held = {}
    BY RoutesTyped DEF NoCall, CallRecord, GatePc, Status
  <2>2. /\ call' = Witnessed(begun) /\ session' \in BOOLEAN /\ admin' \in BOOLEAN /\ rowThere' \in BOOLEAN
        /\ role' \in [GateTeams -> Members \cup {"none"}]
    BY <1>0, <1>4 DEF request, GatesTypeOK
  <2> HIDE DEF begun
  <2>3. GatesTypeOK' /\ NowIsWitnessed'
    BY <2>1, <2>2, WitnessedFacts DEF GatesTypeOK, NowIsWitnessed
  <2>4. call'.pc = "auth"
    BY <2>1, <2>2, WitnessedFacts
  <2> QED BY <2>3, <2>4
          DEF GatesIInv, GatesPassed, GatesSound, ForeignIsUnknown, ServedWasEntitled, Answered, At
<1>5. CASE UNCHANGED gateVars
  BY <1>5 DEF gateVars, GatesIInv, GatesTypeOK, NowIsWitnessed, GatesPassed, GatesSound, ForeignIsUnknown,
              ServedWasEntitled, Answered, At
<1> QED BY <1>1, <1>2, <1>3, <1>4, <1>5 DEF GatesNext

\* For any teams and any number of calls and of changes in between: a caller
\* who was no member of the owning team during the call learns nothing about a
\* row, and whoever is served held the session, the admin flag or the role its
\* route asks for.
THEOREM GatesTheorem == GatesSpec => []GatesSound
<1>1. GatesIInv => GatesSound
  BY DEF GatesIInv
<1> QED BY <1>1, InitGates, GatesStepKeeps, PTL DEF GatesSpec

(***************************************************************************)
(* Saved views.                                                            *)
(***************************************************************************)
\* The constants that stand for no user, no view and no patch are well typed.
LEMMA IdleViewsTyped ==
  /\ SomeUser \in ViewUsers /\ SomeView \in ViewIds /\ UnbornView \in ViewRow
  /\ NoPatch \in ViewPatch /\ NoViewCall \in ViewCall
<1>1. SomeUser \in ViewUsers /\ SomeView \in ViewIds
  BY ViewUserAssumption DEF SomeUser, SomeView
<1>2. UnbornView \in ViewRow
  BY <1>1 DEF UnbornView, ViewRow, ViewRowState
<1>3. NoPatch \in ViewPatch
  BY DEF NoPatch, ViewPatch
<1>4. NoViewCall \in ViewCall
  BY <1>1, <1>2, <1>3 DEF NoViewCall, ViewCall, ViewPc, ViewOp, ViewAnswer
<1> QED BY <1>1, <1>2, <1>3, <1>4

\* An answered call keeps nothing of what it did.
LEMMA AnsweredView ==
  ASSUME NEW code \in ViewAnswer
  PROVE  /\ ViewAnswered(code) \in ViewCall /\ ViewAnswered(code).pc = "done"
         /\ ViewAnswered(code).answer = code /\ ~ ViewAnswered(code).alone
<1>1. \A c \in ViewCall, pc \in ViewPc : [c EXCEPT !.pc = pc, !.answer = code] \in ViewCall
  BY Zenon DEF ViewCall
<1>2. "done" \in ViewPc
  BY DEF ViewPc
<1>3. ViewAnswered(code) \in ViewCall
  BY <1>1, <1>2, IdleViewsTyped, Zenon DEF ViewAnswered
<1>4. ViewAnswered(code).pc = "done" /\ ViewAnswered(code).answer = code /\ ViewAnswered(code).alone = FALSE
  BY DEF ViewAnswered, NoViewCall
<1> QED BY <1>3, <1>4

\* d is the call c, no longer alone.
Overtaken(d, c) ==
  /\ d.pc = c.pc /\ d.op = c.op /\ d.user = c.user /\ d.view = c.view /\ d.patch = c.patch
  /\ d.saw = c.saw /\ d.answer = c.answer /\ d.manage = c.manage /\ d.alone = FALSE

\* A step of one call leaves the others where they are, though not alone.
LEMMA SteppedFacts ==
  ASSUME ViewsTypeOK, NEW q \in ViewCalls, NEW n \in ViewCall, viewCall' = Stepped(q, n)
  PROVE  /\ viewCall' \in [ViewCalls -> ViewCall]
         /\ viewCall'[q] = n
         /\ \A x \in ViewCalls : x # q => Overtaken(viewCall'[x], viewCall[x])
<1>1. \A c \in ViewCall : [c EXCEPT !.alone = FALSE] \in ViewCall
  BY Zenon DEF ViewCall
<1>2. \A x \in ViewCalls : viewCall[x] \in ViewCall
  BY DEF ViewsTypeOK
<1>3. viewCall'[q] = n
  BY Zenon DEF Stepped
<1>4. \A x \in ViewCalls : x # q => viewCall'[x] = [viewCall[x] EXCEPT !.alone = FALSE]
  BY Zenon DEF Stepped
<1>5. viewCall' \in [ViewCalls -> ViewCall]
  BY <1>1, <1>2, Zenon DEF Stepped
<1>6. ASSUME NEW c \in ViewCall PROVE Overtaken([c EXCEPT !.alone = FALSE], c)
  BY DEF ViewCall, Overtaken
<1>7. \A x \in ViewCalls : x # q => Overtaken(viewCall'[x], viewCall[x])
  BY <1>2, <1>4, <1>6, Zenon
<1> QED BY <1>3, <1>5, <1>7

\* The invariant survives a step of q that leaves q judged and alone only with
\* its defaults cleared.
LEMMA SteppedKeeps ==
  ASSUME ViewsIInv, NEW q \in ViewCalls, NEW n \in ViewCall, viewCall' = Stepped(q, n),
         logView' \in [ViewIds -> ViewRow], teamRole' \in [ViewUsers -> TeamRole],
         CallJudged(n), DefaultsCleared(n, logView')
  PROVE  ViewsIInv'
<1>1. ViewsTypeOK
  BY DEF ViewsIInv
<1>2. ViewsTypeOK'
  BY <1>1, SteppedFacts DEF ViewsTypeOK
<1>3. ASSUME NEW x \in ViewCalls, x # q PROVE CallJudged(viewCall'[x])
  <2>1. CallJudged(viewCall[x])
    BY DEF ViewsIInv
  <2> QED BY <1>1, <1>3, <2>1, SteppedFacts DEF CallJudged, Judged, Overtaken
<1>4. ASSUME NEW x \in ViewCalls, x # q PROVE DefaultsCleared(viewCall'[x], logView')
  BY <1>1, <1>4, SteppedFacts DEF DefaultsCleared, Overtaken
<1>5. viewCall'[q] = n
  BY <1>1, SteppedFacts
<1> QED BY <1>2, <1>3, <1>4, <1>5 DEF ViewsIInv

\* The invariant holds before the first request.
LEMMA InitViews == ViewsInit => ViewsIInv
<1> SUFFICES ASSUME ViewsInit PROVE ViewsIInv
  OBVIOUS
<1>1. ViewsTypeOK
  BY IdleViewsTyped, FirstRoleAssumption DEF ViewsInit, ViewsTypeOK
<1>2. CallJudged(NoViewCall) /\ DefaultsCleared(NoViewCall, logView)
  BY DEF CallJudged, DefaultsCleared, NoViewCall
<1> QED BY <1>1, <1>2 DEF ViewsInit, ViewsIInv

\* A request that passes the gate of its route.
LEMMA RouteViewStep ==
  ASSUME ViewsIInv, NEW q \in ViewCalls, NEW u \in ViewUsers, NEW op \in ViewOp, NEW v \in ViewIds,
         NEW p \in ViewPatch, routeView(q, u, op, v, p)
  PROVE  ViewsIInv'
<1>0. PICK m \in BOOLEAN : m = canManageShared(u)
  <2>1. canManageShared(u) \in BOOLEAN
    BY DEF canManageShared
  <2> QED BY <2>1, Zenon
<1>1. PICK pc \in ViewPc : pc = (IF op # "post" THEN "find" ELSE IF p.default = "yes" THEN "clear" ELSE "write")
  BY DEF ViewPc
<1> DEFINE n == [NoViewCall EXCEPT !.pc = pc, !.op = op, !.user = u, !.view = v, !.patch = p, !.manage = m]
<1>2. n \in ViewCall
  <2>1. \A c \in ViewCall :
          [c EXCEPT !.pc = pc, !.op = op, !.user = u, !.view = v, !.patch = p, !.manage = m] \in ViewCall
    BY Zenon DEF ViewCall
  <2> QED BY <2>1, IdleViewsTyped, Zenon
<1>3. n.pc = pc /\ n.op = op /\ n.patch = p /\ n.manage = m /\ n.alone = FALSE /\ n.answer = "none"
  BY DEF NoViewCall
<1>4. viewCall' = Stepped(q, n) /\ UNCHANGED <<logView, teamRole>> /\ (requestsSharedState(p) => m)
  BY <1>0, <1>1 DEF routeView
<1> HIDE DEF n
<1>5. CallJudged(n) /\ DefaultsCleared(n, logView')
  BY <1>1, <1>3, <1>4 DEF CallJudged, DefaultsCleared
<1>6. logView' \in [ViewIds -> ViewRow] /\ teamRole' \in [ViewUsers -> TeamRole]
  BY <1>4 DEF ViewsIInv, ViewsTypeOK
<1> QED BY <1>2, <1>4, <1>5, <1>6, SteppedKeeps

\* A call that only answers, whatever it wrote.
LEMMA AnswerViewStep ==
  ASSUME ViewsIInv, NEW q \in ViewCalls, NEW code \in ViewAnswer \ {"403"},
         viewCall' = Stepped(q, ViewAnswered(code)), logView' \in [ViewIds -> ViewRow], UNCHANGED teamRole
  PROVE  ViewsIInv'
<1> DEFINE n == ViewAnswered(code)
<1>1. n \in ViewCall /\ n.pc = "done" /\ n.answer = code /\ ~ n.alone
  BY AnsweredView
<1> HIDE DEF n
<1>2. CallJudged(n) /\ DefaultsCleared(n, logView')
  BY <1>1 DEF CallJudged, DefaultsCleared
<1>3. teamRole' \in [ViewUsers -> TeamRole]
  BY DEF ViewsIInv, ViewsTypeOK
<1> QED BY <1>1, <1>2, <1>3, SteppedKeeps DEF n

\* Loading the row and judging it: a refusal is only told to those who may know
\* the view, and who goes on was allowed to change what was loaded.
LEMMA FindViewStep ==
  ASSUME ViewsIInv, NEW q \in ViewCalls, findView(q)
  PROVE  ViewsIInv'
<1> DEFINE c == viewCall[q]
           row == logView[c.view]
           saw == IF c.op = "duplicate" THEN row ELSE [row EXCEPT !.content = row.owner]
           visible == row.row = "live" /\ IF c.op = "duplicate" THEN canRead(row, c.user) ELSE assertVisible(row, c)
           allowed == CASE c.op = "put" -> mayUpdate(row, c)
                        [] c.op = "delete" -> mayRemove(row, c)
                        [] OTHER -> TRUE
           refused == [ViewAnswered("403") EXCEPT !.user = c.user, !.manage = c.manage, !.saw = saw]
           pc == IF c.op = "put" /\ c.patch.default = "yes" THEN "clear" ELSE "write"
           found == [c EXCEPT !.saw = saw]
           judged == [found EXCEPT !.pc = pc]
<1>1. /\ c \in ViewCall /\ row \in ViewRow /\ CallJudged(c) /\ DefaultsCleared(c, logView)
      /\ c.user \in ViewUsers /\ c.manage \in BOOLEAN /\ c.view \in ViewIds
  BY DEF ViewsIInv, ViewsTypeOK, ViewCall
<1>2. c.pc = "find" /\ UNCHANGED <<logView, teamRole>> /\ pc \in ViewPc
  BY DEF findView, ViewPc
<1>3. saw \in ViewRow /\ saw.row = row.row /\ saw.owner = row.owner /\ saw.shared = row.shared /\ saw.default = row.default
  <2>1. \A r \in ViewRow : r.owner \in ViewUsers /\ [r EXCEPT !.content = r.owner] \in ViewRow
    BY Zenon DEF ViewRow
  <2>2. \A r \in ViewRow : LET s == [r EXCEPT !.content = r.owner]
                           IN s.row = r.row /\ s.owner = r.owner /\ s.shared = r.shared /\ s.default = r.default
    BY DEF ViewRow
  <2> QED BY <1>1, <2>1, <2>2
<1>4. logView' \in [ViewIds -> ViewRow] /\ teamRole' \in [ViewUsers -> TeamRole]
  BY <1>2 DEF ViewsIInv, ViewsTypeOK
<1>5. \/ viewCall' = Stepped(q, ViewAnswered("404"))
      \/ visible /\ ~ allowed /\ viewCall' = Stepped(q, refused)
      \/ visible /\ allowed /\ viewCall' = Stepped(q, judged)
  BY Zenon DEF findView
<1> HIDE DEF c, row
<1>6. CASE viewCall' = Stepped(q, ViewAnswered("404"))
  BY <1>2, <1>4, <1>6, AnswerViewStep DEF ViewAnswer
<1>7. CASE visible /\ ~ allowed /\ viewCall' = Stepped(q, refused)
  <2> DEFINE no == ViewAnswered("403")
  <2>1. no \in ViewCall /\ no.pc = "done" /\ no.answer = "403" /\ ~ no.alone
    BY AnsweredView DEF ViewAnswer
  <2>2. refused \in ViewCall
    <3>1. \A x \in ViewCall, u \in ViewUsers, m \in BOOLEAN, w \in ViewRow :
            [x EXCEPT !.user = u, !.manage = m, !.saw = w] \in ViewCall
      BY Zenon DEF ViewCall
    <3> HIDE DEF saw, no
    <3> QED BY <1>1, <1>3, <2>1, <3>1, Zenon DEF no
  <2>3. /\ refused.pc = "done" /\ refused.user = c.user /\ refused.manage = c.manage /\ refused.saw = saw
        /\ refused.alone = FALSE
    <3> HIDE DEF no, saw
    <3>1. no.alone = FALSE
      BY <2>1 DEF ViewCall
    <3> QED BY <2>1, <3>1 DEF ViewCall, no
  <2>4. saw.shared \/ saw.owner = c.user \/ (c.manage /\ saw.default)
    <3>1. assertVisible(row, c)
      BY <1>7
    <3> HIDE DEF saw
    <3> QED BY <1>3, <3>1 DEF assertVisible, canRead, isForeignPrivateDefault
  <2> HIDE DEF refused, saw
  <2>5. PICK n \in ViewCall : n = refused
    BY <2>2
  <2>6. CallJudged(n) /\ DefaultsCleared(n, logView')
    BY <2>3, <2>4, <2>5 DEF CallJudged, DefaultsCleared
  <2> QED BY <1>4, <1>7, <2>5, <2>6, SteppedKeeps
<1>8. CASE visible /\ allowed /\ viewCall' = Stepped(q, judged)
  <2>1. judged \in ViewCall
    <3>1. \A x \in ViewCall, w \in ViewRow : [x EXCEPT !.saw = w] \in ViewCall
      BY Zenon DEF ViewCall
    <3>2. \A x \in ViewCall, y \in ViewPc : [x EXCEPT !.pc = y] \in ViewCall
      BY Zenon DEF ViewCall
    <3> HIDE DEF saw, pc
    <3>3. found \in ViewCall
      BY <1>1, <1>3, <3>1, Zenon
    <3> HIDE DEF found
    <3> QED BY <1>2, <3>2, <3>3, Zenon
  <2>2. /\ judged.pc = pc /\ judged.user = c.user /\ judged.manage = c.manage /\ judged.saw = saw /\ judged.op = c.op
        /\ judged.alone = c.alone /\ judged.patch = c.patch /\ judged.answer = c.answer
    <3> HIDE DEF saw, pc
    <3> QED BY <1>1 DEF ViewCall
  <2> HIDE DEF judged, saw
  <2>3. PICK n \in ViewCall : n = judged
    BY <2>1
  <2>4. DefaultsCleared(n, logView')
    BY <1>1, <1>2, <2>2, <2>3 DEF DefaultsCleared
  <2>5. c.op \in {"put", "delete"} => Judged(n)
    BY <1>3, <1>8, <2>2, <2>3 DEF Judged, mayUpdate, mayRemove, canMutate, isTeamWideState, isForeignPrivateDefault
  <2>6. CallJudged(n)
    BY <1>1, <1>2, <2>2, <2>3, <2>5 DEF CallJudged
  <2> QED BY <1>4, <1>8, <2>3, <2>4, <2>6, SteppedKeeps
<1> QED BY <1>5, <1>6, <1>7, <1>8

\* Clearing defaults: the flags of what the caller can list, and nothing else.
LEMMA ClearDefaultsStep ==
  ASSUME ViewsIInv, NEW q \in ViewCalls, clearDefaults(q)
  PROVE  ViewsIInv' /\ ChangesGated /\ RaisesManaged
<1>1. PICK c \in ViewCall : c = viewCall[q]
  BY DEF ViewsIInv, ViewsTypeOK
<1>2. CallJudged(c) /\ c.pc = "clear" /\ logView \in [ViewIds -> ViewRow]
  BY <1>1 DEF ViewsIInv, ViewsTypeOK, clearDefaults
<1>3. c.manage
  BY <1>2 DEF CallJudged, requestsSharedState
<1>4. \A r \in ViewRow : [r EXCEPT !.default = FALSE] \in ViewRow
  BY Zenon DEF ViewRow
<1>5. ASSUME NEW r \in ViewRow
      PROVE  LET s == [r EXCEPT !.default = FALSE] IN s.owner = r.owner /\ s.shared = r.shared /\ s.default = FALSE
  BY DEF ViewRow
<1>6. \A v \in ViewIds :
        logView'[v] = IF Clears(logView[v], c.user) THEN [logView[v] EXCEPT !.default = FALSE] ELSE logView[v]
  BY <1>1, Zenon DEF clearDefaults
<1>7. logView' \in [ViewIds -> ViewRow]
  <2>1. logView' = [v \in ViewIds |-> IF Clears(logView[v], c.user) THEN [logView[v] EXCEPT !.default = FALSE] ELSE logView[v]]
    BY <1>1, Zenon DEF clearDefaults
  <2> QED BY <1>2, <1>4, <2>1, Zenon
<1>8. ASSUME NEW v \in ViewIds
      PROVE  /\ logView'[v] # logView[v] => logView'[v] = [logView[v] EXCEPT !.default = FALSE]
             /\ isTeamWideState(logView'[v]) => isTeamWideState(logView[v])
             /\ canRead(logView'[v], c.user) => ~ logView'[v].default
  <2>1. logView[v] \in ViewRow
    BY <1>2
  <2>2. CASE Clears(logView[v], c.user)
    <3>1. logView'[v] = [logView[v] EXCEPT !.default = FALSE]
      BY <1>6, <2>2, Zenon
    <3>2. logView'[v].owner = logView[v].owner /\ logView'[v].shared = logView[v].shared /\ logView'[v].default = FALSE
      BY <1>5, <2>1, <3>1, Zenon
    <3>3. isTeamWideState(logView'[v]) => isTeamWideState(logView[v])
      BY <3>2 DEF isTeamWideState
    <3> QED BY <3>1, <3>2, <3>3
  <2>3. CASE ~ Clears(logView[v], c.user)
    <3>1. logView'[v] = logView[v]
      BY <1>6, <2>3, Zenon
    <3> QED BY <2>3, <3>1, Zenon DEF Clears, canRead
  <2> QED BY <2>2, <2>3
<1>9. PICK n \in ViewCall : n = [c EXCEPT !.pc = "write", !.alone = TRUE]
  <2>1. \A x \in ViewCall, pc \in ViewPc : [x EXCEPT !.pc = pc, !.alone = TRUE] \in ViewCall
    BY Zenon DEF ViewCall
  <2>2. "write" \in ViewPc
    BY DEF ViewPc
  <2> QED BY <2>1, <2>2, Zenon
<1>10. viewCall' = Stepped(q, n)
  BY <1>1, <1>9, Zenon DEF clearDefaults
<1>11. /\ n.pc = "write" /\ n.user = c.user /\ n.op = c.op /\ n.patch = c.patch /\ n.saw = c.saw /\ n.manage = c.manage
       /\ n.answer = c.answer
  BY <1>9 DEF ViewCall
<1>12. CallJudged(n)
  BY <1>2, <1>11 DEF CallJudged, Judged
<1>13. DefaultsCleared(n, logView')
  BY <1>8, <1>11 DEF DefaultsCleared
<1>14. teamRole' \in [ViewUsers -> TeamRole]
  BY DEF ViewsIInv, ViewsTypeOK, clearDefaults
<1>15. ViewsIInv'
  BY <1>7, <1>10, <1>12, <1>13, <1>14, SteppedKeeps
<1>16. viewCall'[q].pc # viewCall[q].pc
  BY <1>1, <1>2, <1>10, <1>11, SteppedFacts DEF ViewsIInv
<1>17. ChangesGated
  BY <1>1, <1>3, <1>8, <1>16 DEF ChangesGated, ChangedOnlyBy
<1>18. RaisesManaged
  BY <1>8 DEF RaisesManaged
<1> QED BY <1>15, <1>17, <1>18

\* A call that writes one view and answers.  Only a new view, or one the call was
\* judged to change, and raised to team-wide state only for a manager.
LEMMA WrittenStep ==
  ASSUME ViewsIInv, NEW q \in ViewCalls, NEW v \in ViewIds, NEW r \in ViewRow, NEW code \in ViewAnswer \ {"403"},
         viewCall[q].pc = "write", logView' = [logView EXCEPT ![v] = r], UNCHANGED teamRole,
         viewCall' = Stepped(q, ViewAnswered(code)),
         logView[v].row = "live" => ChangedOnlyBy(q, v),
         isTeamWideState(r) /\ ~ isTeamWideState(logView[v]) => viewCall[q].manage
  PROVE  ViewsIInv' /\ ChangesGated /\ RaisesManaged
<1>1. logView' \in [ViewIds -> ViewRow] /\ logView'[v] = r /\ \A w \in ViewIds : w # v => logView'[w] = logView[w]
  <2>1. logView \in [ViewIds -> ViewRow]
    BY DEF ViewsIInv, ViewsTypeOK
  <2> QED BY <2>1
<1>2. ViewsIInv'
  BY <1>1, AnswerViewStep
<1>3. viewCall'[q].pc # viewCall[q].pc
  BY AnsweredView, SteppedFacts DEF ViewsIInv
<1>4. ChangesGated
  BY <1>1, <1>3 DEF ChangesGated
<1>5. RaisesManaged
  BY <1>1, <1>3 DEF RaisesManaged
<1> QED BY <1>2, <1>4, <1>5

\* create
LEMMA InsertViewStep ==
  ASSUME ViewsIInv, NEW q \in ViewCalls, NEW v \in ViewIds, insertView(q, v)
  PROVE  ViewsIInv' /\ ChangesGated /\ RaisesManaged
<1>1. PICK c \in ViewCall : c = viewCall[q]
  BY DEF ViewsIInv, ViewsTypeOK
<1>2. CallJudged(c) /\ c.pc = "write" /\ c.user \in ViewUsers
  BY <1>1 DEF ViewsIInv, insertView, ViewCall
<1>3. PICK r \in ViewRow : r = [row |-> "live", owner |-> c.user, content |-> c.user,
                               shared |-> c.patch.shared = "yes", default |-> c.patch.default = "yes"]
  <2>1. \A s \in BOOLEAN, d \in BOOLEAN :
          [row |-> "live", owner |-> c.user, content |-> c.user, shared |-> s, default |-> d] \in ViewRow
    BY <1>2 DEF ViewRow, ViewRowState
  <2>2. (c.patch.shared = "yes") \in BOOLEAN /\ (c.patch.default = "yes") \in BOOLEAN
    OBVIOUS
  <2> QED BY <2>1, <2>2, Zenon
<1>4. isTeamWideState(r) => c.manage
  BY <1>2, <1>3 DEF CallJudged, isTeamWideState, requestsSharedState
<1>5. /\ logView' = [logView EXCEPT ![v] = r] /\ viewCall' = Stepped(q, ViewAnswered("ok")) /\ UNCHANGED teamRole
      /\ logView[v].row # "live" /\ "ok" \in ViewAnswer \ {"403"}
  <2>1. "unborn" # "live" /\ "ok" \in ViewAnswer \ {"403"}
    BY DEF ViewAnswer
  <2> QED BY <1>1, <1>3, <2>1, Zenon DEF insertView
<1> QED BY <1>1, <1>2, <1>4, <1>5, WrittenStep

\* duplicate: the copy is shared only when the caller was a manager.
LEMMA DuplicateViewStep ==
  ASSUME ViewsIInv, NEW q \in ViewCalls, NEW v \in ViewIds, duplicateView(q, v)
  PROVE  ViewsIInv' /\ ChangesGated /\ RaisesManaged
<1>1. PICK c \in ViewCall : c = viewCall[q]
  BY DEF ViewsIInv, ViewsTypeOK
<1>2. c.pc = "write" /\ c.user \in ViewUsers /\ c.saw \in ViewRow
  BY <1>1 DEF duplicateView, ViewCall
<1>3. PICK r \in ViewRow : r = [row |-> "live", owner |-> c.user, content |-> c.saw.content,
                               shared |-> c.saw.shared /\ c.manage, default |-> FALSE]
  BY <1>2 DEF ViewRow, ViewRowState
<1>4. isTeamWideState(r) => c.manage
  BY <1>3 DEF isTeamWideState
<1>5. /\ logView' = [logView EXCEPT ![v] = r] /\ viewCall' = Stepped(q, ViewAnswered("ok")) /\ UNCHANGED teamRole
      /\ logView[v].row # "live" /\ "ok" \in ViewAnswer \ {"403"}
  <2>1. "unborn" # "live" /\ "ok" \in ViewAnswer \ {"403"}
    BY DEF ViewAnswer
  <2> QED BY <1>1, <1>3, <2>1, Zenon DEF duplicateView
<1> QED BY <1>1, <1>2, <1>4, <1>5, WrittenStep

\* delete
LEMMA DeleteViewStep ==
  ASSUME ViewsIInv, NEW q \in ViewCalls, deleteView(q)
  PROVE  ViewsIInv' /\ ChangesGated /\ RaisesManaged
<1>1. PICK c \in ViewCall : c = viewCall[q]
  BY DEF ViewsIInv, ViewsTypeOK
<1>2. PICK v \in ViewIds : v = c.view
  BY DEF ViewCall
<1>3. CallJudged(c) /\ c.pc = "write" /\ c.op = "delete" /\ logView[v] \in ViewRow
  BY <1>1 DEF ViewsIInv, ViewsTypeOK, deleteView
<1>4. PICK r \in ViewRow : r = [logView[v] EXCEPT !.row = "gone"]
  <2>1. \A x \in ViewRow, y \in ViewRowState : [x EXCEPT !.row = y] \in ViewRow
    BY Zenon DEF ViewRow
  <2>2. "gone" \in ViewRowState
    BY DEF ViewRowState
  <2> QED BY <1>3, <2>1, <2>2, Zenon
<1>5. r.content = logView[v].content /\ r.shared = logView[v].shared /\ r.default = logView[v].default
  BY <1>3, <1>4 DEF ViewRow
<1>6. logView' = [logView EXCEPT ![v] = r] /\ UNCHANGED teamRole
  BY <1>1, <1>2, <1>4, Zenon DEF deleteView
<1>7. PICK code \in ViewAnswer \ {"403"} : viewCall' = Stepped(q, ViewAnswered(code))
  <2>1. (IF logView[c.view].row = "live" THEN "ok" ELSE "500") \in ViewAnswer \ {"403"}
    BY DEF ViewAnswer
  <2> QED BY <1>1, <2>1, Zenon DEF deleteView
<1>8. isTeamWideState(r) => isTeamWideState(logView[v])
  BY <1>5 DEF isTeamWideState
<1>9. logView'[v] = r
  BY <1>6 DEF ViewsIInv, ViewsTypeOK
<1>10. ChangedOnlyBy(q, v)
  BY <1>1, <1>2, <1>3, <1>5, <1>9 DEF ChangedOnlyBy, CallJudged, Judged
<1> QED BY <1>1, <1>3, <1>6, <1>7, <1>8, <1>10, WrittenStep

\* update
LEMMA WriteViewStep ==
  ASSUME ViewsIInv, NEW q \in ViewCalls, writeView(q)
  PROVE  ViewsIInv' /\ ChangesGated /\ RaisesManaged
<1>1. PICK c \in ViewCall : c = viewCall[q]
  BY DEF ViewsIInv, ViewsTypeOK
<1>2. PICK v \in ViewIds : v = c.view
  BY DEF ViewCall
<1>3. /\ CallJudged(c) /\ c.pc = "write" /\ c.op = "put" /\ logView[v] \in ViewRow /\ UNCHANGED teamRole
      /\ c.user \in ViewUsers
  BY <1>1 DEF ViewsIInv, ViewsTypeOK, writeView, ViewCall
<1>4. CASE logView[v].row = "live"
  <2> DEFINE author == IF c.patch.content THEN c.user ELSE logView[v].content
             shared == Flag(c.patch.shared, logView[v].shared)
             default == Flag(c.patch.default, logView[v].default)
  <2>1. author \in ViewUsers /\ shared \in BOOLEAN /\ default \in BOOLEAN
    BY <1>3 DEF ViewRow, Flag
  <2>2. PICK r \in ViewRow : r = [logView[v] EXCEPT !.content = author, !.shared = shared, !.default = default]
    <3>1. \A x \in ViewRow, y \in ViewUsers, z \in BOOLEAN, w \in BOOLEAN :
            [x EXCEPT !.content = y, !.shared = z, !.default = w] \in ViewRow
      BY Zenon DEF ViewRow
    <3> HIDE DEF author, shared, default
    <3> QED BY <1>3, <2>1, <3>1, Zenon
  <2>3. r.content = author /\ r.shared = shared /\ r.default = default
    <3> HIDE DEF author, shared, default
    <3> QED BY <1>3, <2>1, <2>2 DEF ViewRow
  <2>4. logView' = [logView EXCEPT ![v] = r] /\ viewCall' = Stepped(q, ViewAnswered("ok"))
    BY <1>1, <1>2, <1>4, <2>2, Zenon DEF writeView
  <2>5. logView'[v] = r /\ "ok" \in ViewAnswer \ {"403"}
    BY <2>4 DEF ViewsIInv, ViewsTypeOK, ViewAnswer
  <2>6. ChangedOnlyBy(q, v)
    BY <1>1, <1>2, <1>3, <2>3, <2>5 DEF ChangedOnlyBy, CallJudged, Judged, clearsDefaultOnly, Flag
  <2>7. isTeamWideState(r) /\ ~ isTeamWideState(logView[v]) => c.manage
    BY <1>3, <2>3 DEF CallJudged, requestsSharedState, isTeamWideState, Flag
  <2> QED BY <1>1, <1>3, <2>4, <2>5, <2>6, <2>7, WrittenStep
<1>5. CASE logView[v].row # "live"
  <2>1. logView' = logView /\ viewCall' = Stepped(q, ViewAnswered("500"))
    BY <1>1, <1>2, <1>5, Zenon DEF writeView
  <2>2. ViewsIInv'
    BY <1>3, <2>1, AnswerViewStep DEF ViewsIInv, ViewsTypeOK, ViewAnswer
  <2> QED BY <2>1, <2>2 DEF ChangesGated, RaisesManaged
<1> QED BY <1>4, <1>5

\* Every step keeps the invariant and changes views as ViewWrites says.
LEMMA ViewsStep == ViewsIInv /\ [ViewsNext]_viewVars => ViewsIInv' /\ [ChangesGated /\ RaisesManaged]_viewVars
<1> SUFFICES ASSUME ViewsIInv, [ViewsNext]_viewVars
             PROVE  ViewsIInv' /\ [ChangesGated /\ RaisesManaged]_viewVars
  OBVIOUS
<1>1. ASSUME NEW q \in ViewCalls, ViewStep(q) PROVE ViewsIInv' /\ ChangesGated /\ RaisesManaged
  <2>1. CASE findView(q)
    <3>1. logView' = logView
      BY <2>1, Zenon DEF findView
    <3> QED BY <2>1, <3>1, FindViewStep DEF ChangesGated, RaisesManaged
  <2> QED BY <1>1, <2>1, ClearDefaultsStep, WriteViewStep, DeleteViewStep, InsertViewStep, DuplicateViewStep DEF ViewStep
<1>2. ASSUME NEW q \in ViewCalls, NEW u \in ViewUsers, ViewRequest(q, u)
      PROVE  ViewsIInv' /\ ChangesGated /\ RaisesManaged
  <2>1. PICK op \in ViewOp, v \in ViewIds, p \in ViewPatch : routeView(q, u, op, v, p)
    <3>1. {"post", "put", "duplicate", "delete"} = ViewOp /\ ViewPatches \subseteq ViewPatch
      BY PatchAssumption DEF ViewOp
    <3> QED BY <1>2, <3>1, IdleViewsTyped DEF ViewRequest
  <2>2. logView' = logView
    BY <2>1, Zenon DEF routeView
  <2> QED BY <2>1, <2>2, RouteViewStep DEF ChangesGated, RaisesManaged
<1>3. ASSUME NEW u \in Regraded, NEW r \in {"ADMIN", "MEMBER"}, setTeamRole(u, r)
      PROVE  ViewsIInv' /\ ChangesGated /\ RaisesManaged
  BY <1>3, FirstRoleAssumption DEF setTeamRole, ViewsIInv, ViewsTypeOK, TeamRole, ChangesGated, RaisesManaged
<1>4. CASE UNCHANGED viewVars
  BY <1>4 DEF viewVars, ViewsIInv, ViewsTypeOK
<1> QED BY <1>1, <1>2, <1>3, <1>4 DEF ViewsNext

\* ViewsIInv holds in every reachable state.
THEOREM ViewsInvariance == ViewsSpec => []ViewsIInv
<1>1. ViewsIInv /\ [ViewsNext]_viewVars => ViewsIInv'
  BY ViewsStep
<1> QED BY <1>1, InitViews, PTL DEF ViewsSpec

\* For any members, views and concurrent requests of LogViewService: a
\* teammate's private view answers like an unknown id.
THEOREM ConcealedTheorem == ViewsSpec => []PrivateConcealed
<1>1. ViewsIInv => PrivateConcealed
  BY DEF ViewsIInv, CallJudged, PrivateConcealed
<1> QED BY <1>1, ViewsInvariance, PTL

\* Whatever comes between the read of the role, the load and the write: rows
\* change only by who may change what was loaded, and become shared or default
\* only by a manager's request.
THEOREM ViewWritesTheorem == ViewsSpec => ViewWrites
<1>1. ViewsIInv /\ [ViewsNext]_viewVars => [ChangesGated]_viewVars /\ [RaisesManaged]_viewVars
  BY ViewsStep
<1> QED BY <1>1, ViewsInvariance, PTL DEF ViewsSpec, ViewWrites, ViewGate, RaisedByManagers

\* An undisturbed request that sets a default leaves its caller with that one.
THEOREM LoneDefaultTheorem == ViewsSpec => LoneDefault
<1>1. ViewsIInv => DefaultIsNew
  BY DEF ViewsIInv, DefaultsCleared, DefaultIsNew
<1> QED BY <1>1, ViewsInvariance, PTL DEF ViewsSpec, LoneDefault
=============================================================================
