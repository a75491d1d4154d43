----------------------------- MODULE TeamInvites ----------------------------
(***************************************************************************)
(* Membership of one team of a multi-tenant instance: the invite methods   *)
(* of TeamService (services/team/team-service.ts) with the /invites routes,*)
(* and the admin routes that add and remove members.                       *)
(*                                                                         *)
(* acceptInvite awaits three reads before its transaction and nothing in   *)
(* the transaction repeats what they found, so the requests interleave     *)
(* between them.  An invite's e-mail is the user it is meant for.          *)
(***************************************************************************)
EXTENDS Integers, FiniteSets

CONSTANTS Users,      \* accounts
          Founder,    \* the account whose createTeam made the team
          Invites,    \* ids of TeamInvite rows
          Requests,   \* concurrent accept requests
          InviteRoles, \* roles that invites are created with
          AdminRoles, \* roles that the admin grants
          Lifetime,   \* clock ticks until an invite expires (7 days)
          MaxClock    \* bound on the clock

ASSUME FounderAssumption == Founder \in Users
ASSUME InviteClockAssumption == Lifetime \in Nat /\ MaxClock \in Nat
ASSUME RoleAssumption == InviteRoles \subseteq {"ADMIN", "MEMBER", "VIEWER"}
                         /\ AdminRoles \subseteq {"OWNER", "ADMIN", "MEMBER", "VIEWER"}
ASSUME InviteAssumption == Invites # {}

VARIABLES clock,
          member,    \* TeamMember rows of the team: a role, or "none"
          invite,    \* TeamInvite rows
          accepting, \* acceptInvite calls under way
          adding,    \* addUserToTeam calls under way, by user
          joinedBy   \* history: who became a member with which invite

vars == <<clock, member, invite, accepting, adding, joinedBy>>

Role == {"OWNER", "ADMIN", "MEMBER", "VIEWER"}
InviteRole == Role \ {"OWNER"}

Anyone == "anyone"   \* an invite without an e-mail

InviteRow == [row : {"unborn", "live", "revoked"}, role : InviteRole,
              email : Users \cup {Anyone}, expiresAt : Nat, used : BOOLEAN]

UnbornInvite == [row |-> "unborn", role |-> "MEMBER", email |-> Anyone, expiresAt |-> 0, used |-> FALSE]

Accepting == [pc : {"idle", "member", "commit"}, user : Users, invite : Invites]

NotAccepting == [pc |-> "idle", user |-> Founder, invite |-> CHOOSE i \in Invites : TRUE]

Adding == [pc : {"idle", "create", "update"}, role : Role]

NotAdding == [pc |-> "idle", role |-> "MEMBER"]

\* Memberships, invites and the requests under way have their types.
TypeOK == /\ clock \in Nat
          /\ member \in [Users -> Role \cup {"none"}]
          /\ invite \in [Invites -> InviteRow]
          /\ accepting \in [Requests -> Accepting]
          /\ adding \in [Users -> Adding]
          /\ joinedBy \in [Invites -> SUBSET Users]

\* createTeam writes the team and its OWNER in one statement.
Init == /\ clock = 1
        /\ member = [u \in Users |-> IF u = Founder THEN "OWNER" ELSE "none"]
        /\ invite = [i \in Invites |-> UnbornInvite]
        /\ accepting = [q \in Requests |-> NotAccepting]
        /\ adding = [u \in Users |-> NotAdding]
        /\ joinedBy = [i \in Invites |-> {}]

Tick == /\ clock < MaxClock
        /\ clock' = clock + 1
        /\ UNCHANGED <<member, invite, accepting, adding, joinedBy>>

\* canManageInvites
CanManage(u) == member[u] \in {"OWNER", "ADMIN"}

createInvite(u, i, role, email) ==
  /\ CanManage(u)
  /\ invite[i].row = "unborn"
  /\ invite' = [invite EXCEPT ![i] = [row |-> "live", role |-> role, email |-> email,
                                      expiresAt |-> clock + Lifetime, used |-> FALSE]]
  /\ UNCHANGED <<clock, member, accepting, adding, joinedBy>>

\* A used invite can be revoked too: the row goes.
revokeInvite(u, i) ==
  /\ CanManage(u)
  /\ invite[i].row = "live"
  /\ invite' = [invite EXCEPT ![i].row = "revoked"]
  /\ UNCHANGED <<clock, member, accepting, adding, joinedBy>>

(***************************************************************************)
(* acceptInvite                                                            *)
(***************************************************************************)
Usable(i, u) == /\ invite[i].row = "live"
                /\ ~invite[i].used
                /\ invite[i].expiresAt >= clock
                /\ invite[i].email \in {u, Anyone}

readInvite(q, u, i) ==
  /\ accepting[q].pc = "idle"
  /\ Usable(i, u)
  /\ accepting' = [accepting EXCEPT ![q] = [pc |-> "member", user |-> u, invite |-> i]]
  /\ UNCHANGED <<clock, member, invite, adding, joinedBy>>

checkMember(q) ==
  /\ accepting[q].pc = "member"
  /\ accepting' = [accepting EXCEPT ![q] = IF member[@.user] = "none"
                                             THEN [@ EXCEPT !.pc = "commit"] ELSE NotAccepting]
  /\ UNCHANGED <<clock, member, invite, adding, joinedBy>>

\* The transaction stands when the membership is new (unique index) and the
\* invite row still exists (P2025); nothing else is asked again.  Variant
\* with an upsert and an update that tolerates a missing row.
Anyway(req) == TRUE

Commits(req) == member[req.user] = "none" /\ invite[req.invite].row = "live"

\* Variant that marks the invite outside the transaction.
burnInvite(q) ==
  LET req == accepting[q]
  IN  /\ req.pc = "commit"
      /\ accepting' = [accepting EXCEPT ![q] = NotAccepting]
      /\ invite' = [invite EXCEPT ![req.invite].used = TRUE]
      /\ IF Commits(req)
           THEN /\ member' = [member EXCEPT ![req.user] = invite[req.invite].role]
                /\ joinedBy' = [joinedBy EXCEPT ![req.invite] = @ \cup {req.user}]
           ELSE UNCHANGED <<member, joinedBy>>
      /\ UNCHANGED <<clock, adding>>

acceptInvite(q) ==
  LET req == accepting[q]
  IN  /\ req.pc = "commit"
      /\ accepting' = [accepting EXCEPT ![q] = NotAccepting]
      /\ IF Commits(req)
           THEN /\ member' = [member EXCEPT ![req.user] = invite[req.invite].role]
                /\ invite' = [invite EXCEPT ![req.invite].used = TRUE]
                /\ joinedBy' = [joinedBy EXCEPT ![req.invite] = @ \cup {req.user}]
           ELSE UNCHANGED <<member, invite, joinedBy>>
      /\ UNCHANGED <<clock, adding>>

(***************************************************************************)
(* Admin routes.  addUserToTeam looks first and then updates or creates;   *)
(* the statement fails when the row has come or gone in between.           *)
(***************************************************************************)
lookupMember(u, role) ==
  /\ adding[u].pc = "idle"
  /\ adding' = [adding EXCEPT ![u] = [pc |-> IF member[u] = "none" THEN "create" ELSE "update", role |-> role]]
  /\ UNCHANGED <<clock, member, invite, accepting, joinedBy>>

addUserToTeam(u) ==
  LET add == adding[u]
  IN  /\ add.pc # "idle"
      /\ member' = IF (add.pc = "create") = (member[u] = "none")
                     THEN [member EXCEPT ![u] = add.role] ELSE member
      /\ adding' = [adding EXCEPT ![u] = NotAdding]
      /\ UNCHANGED <<clock, invite, accepting, joinedBy>>

\* Variant that clears the role and leaves the row.
dropRole(u) ==
  /\ member[u] # "none"
  /\ member' = [member EXCEPT ![u] = "null"]
  /\ UNCHANGED <<clock, invite, accepting, adding, joinedBy>>

removeUserFromTeam(u) ==
  /\ member[u] # "none"
  /\ member' = [member EXCEPT ![u] = "none"]
  /\ UNCHANGED <<clock, invite, accepting, adding, joinedBy>>

Next == \/ Tick
        \/ \E u \in Users, i \in Invites : revokeInvite(u, i)
        \/ \E u \in Users, i \in Invites, role \in InviteRoles, email \in Users \cup {Anyone} :
              createInvite(u, i, role, email)
        \/ \E q \in Requests, u \in Users, i \in Invites : readInvite(q, u, i)
        \/ \E q \in Requests : checkMember(q) \/ acceptInvite(q)
        \/ \E u \in Users, role \in AdminRoles : lookupMember(u, role)
        \/ \E u \in Users : addUserToTeam(u) \/ removeUserFromTeam(u)

Spec == Init /\ [][Next]_vars

Joins(i, u) == u \in joinedBy'[i] \ joinedBy[i]

(***************************************************************************)
(* What an accepted invite grants: a new member, with the invite's role,   *)
(* through an invite that has not been revoked, and never a change of role *)
(* for somebody who is a member already.  A revoke, a second invite and an *)
(* admin's add may all land between the checks and the transaction.        *)
(***************************************************************************)
AcceptGrantsOnce ==
  [][\A i \in Invites, u \in Users : Joins(i, u) =>
       /\ member[u] = "none" /\ member'[u] = invite[i].role
       /\ invite[i].row = "live"]_vars

(***************************************************************************)
(* An invite is marked used exactly when somebody joined with it: an       *)
(* accept that loses a race rolls back and leaves its invite to be used    *)
(* later.                                                                  *)
(***************************************************************************)
UsedMeansJoined == \A i \in Invites : invite[i].used <=> joinedBy[i] # {}

(***************************************************************************)
(* The roles of members and rows of invites stay well typed, and an invite *)
(* is marked used exactly when somebody joined with it: an accept that     *)
(* loses a race rolls back (team-service.ts, acceptInvite).                *)
(***************************************************************************)
InvitesInv == TypeOK /\ UsedMeansJoined

\* Why: nobody has joined with an id that createInvite has yet to hand out.
UnbornUnjoined == \A i \in Invites : invite[i].row = "unborn" => joinedBy[i] = {}

InvitesIInv == InvitesInv /\ UnbornUnjoined

(***************************************************************************)
(* Tests and docs call the invite token single-use                         *)
(* (docs/okf/api-authz-and-team-scoping.md): at most one account ever      *)
(* becomes a member with it.                                               *)
(***************************************************************************)
InviteSingleUse == \A i \in Invites : Cardinality(joinedBy[i]) <= 1
=============================================================================
