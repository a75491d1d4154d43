------------------------------ MODULE Accounts ------------------------------
(***************************************************************************)
(* Accounts, sessions and the default team: register, login, approveUser   *)
(* and addUserToDefaultTeam of TeamService (services/team/team-service.ts) *)
(* with the /auth and /admin/users routes of api/rest/router.ts.           *)
(*                                                                         *)
(* A call is a chain of awaited statements without a transaction; each     *)
(* action is one of them.  A call that is refused or whose statement is    *)
(* rejected just ends, and what its earlier statements wrote stays.        *)
(***************************************************************************)
EXTENDS Naturals

CONSTANTS Users,            \* e-mail addresses, one account each
          AdminEmail,       \* config.adminEmail
          Calls,            \* requests under way
          multiTenant,      \* config.multiTenant
          registrationMode  \* config.registrationMode

ASSUME AdminAssumption == AdminEmail \in Users
ASSUME ConfigAssumption == /\ multiTenant \in BOOLEAN
                           /\ registrationMode \in {"open", "invite-only", "approval"}

VARIABLES user,        \* User rows
          defaultTeam, \* the team with slug "default" exists
          member,      \* its TeamMember rows: a role, or "none"
          session,     \* the accounts that have a Session row that has not expired
          call,        \* the requests
          everActive   \* history: the accounts that have ever been ACTIVE

accountVars == <<user, defaultTeam, member, session, call, everActive>>

UserRow == [row : {"none", "stored"}, role : {"USER", "ADMIN"},
            status : {"ACTIVE", "PENDING", "DISABLED"}]

NoUser == [row |-> "none", role |-> "USER", status |-> "PENDING"]

TeamRole == {"OWNER", "ADMIN", "MEMBER", "VIEWER"}

\* `then` is what follows the membership: a session after a sign-up, nothing
\* after an approval.
CallState == [pc : {"idle", "create", "lookup", "ensure", "createTeam", "upsert", "session",
                    "addCreate", "addUpdate"},
              user : Users, then : {"session", "idle"}, role : TeamRole]

Idle == [pc |-> "idle", user |-> AdminEmail, then |-> "idle", role |-> "MEMBER"]

\* Rows, sessions, memberships and requests of sign-up and approval have their types.
AccountsTypeOK ==
  /\ user \in [Users -> UserRow]
  /\ defaultTeam \in BOOLEAN
  /\ member \in [Users -> TeamRole \cup {"none"}]
  /\ session \subseteq Users
  /\ call \in [Calls -> CallState]
  /\ everActive \subseteq Users

AccountsInit ==
  /\ user = [u \in Users |-> NoUser]
  /\ defaultTeam = FALSE
  /\ member = [u \in Users |-> "none"]
  /\ session = {}
  /\ call = [c \in Calls |-> Idle]
  /\ everActive = {}

Stored(u) == user[u].row = "stored"

MoveTo(c, pc) == call' = [call EXCEPT ![c].pc = pc]

End(c) == call' = [call EXCEPT ![c] = Idle]

\* The history after u is written with this status.
Remember(u, status) == everActive' = everActive \cup {a \in {u} : status = "ACTIVE"}

(***************************************************************************)
(* register                                                                *)
(***************************************************************************)
Bootstrap(u) == u = AdminEmail

Accepts(u) == registrationMode # "invite-only" \/ Bootstrap(u)

register(c, u) ==
  /\ call[c].pc = "idle"
  /\ ~Stored(u)
  /\ Accepts(u)
  /\ call' = [call EXCEPT ![c] = [pc |-> "create", user |-> u, then |-> "session", role |-> "MEMBER"]]
  /\ UNCHANGED <<user, defaultTeam, member, session, everActive>>

\* Variant in which an approval-mode account starts out active.
ActiveAtOnce(u) == "ACTIVE"

FirstStatus(u) == IF registrationMode = "approval" /\ ~Bootstrap(u) THEN "PENDING" ELSE "ACTIVE"

FirstRole(u) == IF Bootstrap(u) THEN "ADMIN" ELSE "USER"

\* Variant that takes the account's role for its role in the team.
SameRole(role) == role

DefaultRole(role) == IF role = "ADMIN" THEN "OWNER" ELSE "MEMBER"

\* The unique e-mail refuses the second of two sign-ups that found nobody.
createUser(c) ==
  LET u == call[c].user
      new == [row |-> "stored", role |-> FirstRole(u), status |-> FirstStatus(u)]
  IN  /\ call[c].pc = "create"
      /\ IF Stored(u)
           THEN End(c) /\ UNCHANGED <<user, everActive>>
           ELSE /\ user' = [user EXCEPT ![u] = new]
                /\ Remember(u, new.status)
                /\ IF new.status = "PENDING" THEN End(c)
                     ELSE call' = [call EXCEPT ![c].pc = IF multiTenant THEN "session" ELSE "ensure",
                                               ![c].role = DefaultRole(new.role)]
      /\ UNCHANGED <<defaultTeam, member, session>>

(***************************************************************************)
(* addUserToDefaultTeam: find the team or create it, then the upsert.      *)
(***************************************************************************)
ensureDefaultTeam(c) ==
  /\ call[c].pc = "ensure"
  /\ MoveTo(c, IF defaultTeam THEN "upsert" ELSE "createTeam")
  /\ UNCHANGED <<user, defaultTeam, member, session, everActive>>

\* The unique slug refuses the second of two creates: the call ends there.
createDefaultTeam(c) ==
  /\ call[c].pc = "createTeam"
  /\ IF defaultTeam THEN End(c) ELSE MoveTo(c, "upsert")
  /\ defaultTeam' = TRUE
  /\ UNCHANGED <<user, member, session, everActive>>

addUserToDefaultTeam(c) ==
  /\ call[c].pc = "upsert"
  /\ member' = [member EXCEPT ![call[c].user] = call[c].role]
  /\ IF call[c].then = "session" THEN MoveTo(c, "session") ELSE End(c)
  /\ UNCHANGED <<user, defaultTeam, session, everActive>>

createSession(c) ==
  /\ call[c].pc = "session"
  /\ session' = session \cup {call[c].user}
  /\ End(c)
  /\ UNCHANGED <<user, defaultTeam, member, everActive>>

(***************************************************************************)
(* login: the status is read before the password is verified.              *)
(***************************************************************************)
\* Variant that only looks for the account.
AnyStatus(u) == Stored(u)

MayLogIn(u) == Stored(u) /\ user[u].status = "ACTIVE"

login(c, u) ==
  /\ call[c].pc = "idle"
  /\ MayLogIn(u)
  /\ call' = [call EXCEPT ![c] = [Idle EXCEPT !.pc = "session", !.user = u]]
  /\ UNCHANGED <<user, defaultTeam, member, session, everActive>>

\* Seven days go by.
expire(u) ==
  /\ u \in session
  /\ session' = session \ {u}
  /\ UNCHANGED <<user, defaultTeam, member, call, everActive>>

(***************************************************************************)
(* Admin routes.  requireAdmin asks for a session and the ADMIN role, not  *)
(* for the status.                                                         *)
(***************************************************************************)
requireAdmin == \E a \in session : user[a].role = "ADMIN"

updateUser(u, role, status) ==
  /\ requireAdmin
  /\ Stored(u)
  /\ user' = [user EXCEPT ![u] = [row |-> "stored", role |-> role, status |-> status]]
  /\ Remember(u, status)
  /\ UNCHANGED <<defaultTeam, member, session, call>>

approveUser(c, u) ==
  /\ requireAdmin
  /\ call[c].pc = "idle"
  /\ Stored(u)
  /\ user' = [user EXCEPT ![u].status = "ACTIVE"]
  /\ Remember(u, "ACTIVE")
  /\ call' = [call EXCEPT ![c] = IF multiTenant THEN Idle
                ELSE [pc |-> "lookup", user |-> u, then |-> "idle",
                      role |-> DefaultRole(user[u].role)]]
  /\ UNCHANGED <<defaultTeam, member, session>>

lookupMembership(c) ==
  /\ call[c].pc = "lookup"
  /\ IF member[call[c].user] = "none" THEN MoveTo(c, "ensure") ELSE End(c)
  /\ UNCHANGED <<user, defaultTeam, member, session, everActive>>

\* addUserToTeam, for the default team.
addUserToTeam(c, u, role) ==
  /\ requireAdmin
  /\ call[c].pc = "idle"
  /\ Stored(u) /\ defaultTeam
  /\ call' = [call EXCEPT ![c] = [pc |-> IF member[u] = "none" THEN "addCreate" ELSE "addUpdate",
                                  user |-> u, then |-> "idle", role |-> role]]
  /\ UNCHANGED <<user, defaultTeam, member, session, everActive>>

writeMembership(c) ==
  LET u == call[c].user
  IN  /\ call[c].pc \in {"addCreate", "addUpdate"}
      /\ member' = IF (call[c].pc = "addCreate") = (member[u] = "none")
                     THEN [member EXCEPT ![u] = call[c].role] ELSE member
      /\ End(c)
      /\ UNCHANGED <<user, defaultTeam, session, everActive>>

removeUserFromTeam(u) ==
  /\ requireAdmin
  /\ member[u] # "none"
  /\ member' = [member EXCEPT ![u] = "none"]
  /\ UNCHANGED <<user, defaultTeam, session, call, everActive>>

\* A statement is rejected, or the process dies before it.
fails(c) ==
  /\ call[c].pc # "idle"
  /\ End(c)
  /\ UNCHANGED <<user, defaultTeam, member, session, everActive>>

CallStep(c) == \/ createUser(c) \/ ensureDefaultTeam(c) \/ createDefaultTeam(c)
               \/ addUserToDefaultTeam(c) \/ createSession(c) \/ lookupMembership(c)
               \/ writeMembership(c) \/ fails(c)

AccountsNext ==
  \/ \E c \in Calls, u \in Users : register(c, u) \/ login(c, u) \/ approveUser(c, u)
  \/ \E c \in Calls, u \in Users, role \in TeamRole : addUserToTeam(c, u, role)
  \/ \E u \in Users, role \in {"USER", "ADMIN"}, status \in {"ACTIVE", "PENDING", "DISABLED"} :
        updateUser(u, role, status)
  \/ \E u \in Users : removeUserFromTeam(u) \/ expire(u)
  \/ \E c \in Calls : CallStep(c)

AccountsSpec == AccountsInit /\ [][AccountsNext]_accountVars

\* No admin, never active and without a session.
Outsider(u) == user[u].role = "USER" /\ u \notin everActive \cup session

(***************************************************************************)
(* Who opens a closed instance: under approval or invite-only nobody but   *)
(* the ADMIN_EMAIL account is ever active, holds a session or an admin     *)
(* role until that account has signed up, since each of the others needs   *)
(* an admin's action first.                                                *)
(***************************************************************************)
AdminComesFirst ==
  registrationMode # "open" /\ ~Stored(AdminEmail) => \A u \in Users : Outsider(u)

(***************************************************************************)
(* A session is earned: whoever holds one has been ACTIVE at some time,    *)
(* and so has every request about to create one.  A PENDING account gets   *)
(* none from register or login, whatever races its approval.               *)
(***************************************************************************)
SessionsEarned ==
  /\ session \subseteq everActive
  /\ \A c \in Calls : call[c].pc = "session" => call[c].user \in everActive

(***************************************************************************)
(* Accounts, memberships and requests stay well typed, the roles that a    *)
(* sign-up or an approval writes included, and every session is earned     *)
(* (TeamService.register, login, approveUser).                             *)
(***************************************************************************)
SessionsInv == AccountsTypeOK /\ SessionsEarned

(***************************************************************************)
(* The inductive invariant behind the two: an account that is ACTIVE has   *)
(* been so, a sign-up past its insert is one of an active account, and     *)
(* before the ADMIN_EMAIL account exists every request is a sign-up that   *)
(* has stored nothing.                                                     *)
(***************************************************************************)
ActiveIsRemembered == \A u \in Users : Stored(u) /\ user[u].status = "ACTIVE" => u \in everActive

SignUpsActive == \A c \in Calls : call[c].pc \notin {"idle", "create"} /\ call[c].then = "session"
                                   => call[c].user \in everActive

CreatesAccepted == \A c \in Calls : call[c].pc = "create" => Accepts(call[c].user) /\ call[c].then = "session"

OnlySignUps == registrationMode # "open" /\ ~Stored(AdminEmail)
                 => \A c \in Calls : call[c].pc \in {"idle", "create"}

AccountsInv == /\ AccountsTypeOK /\ ActiveIsRemembered /\ SignUpsActive /\ CreatesAccepted
               /\ OnlySignUps /\ AdminComesFirst /\ SessionsEarned
=============================================================================
