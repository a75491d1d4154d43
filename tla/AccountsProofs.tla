--------------------------- MODULE AccountsProofs ---------------------------
(***************************************************************************)
(* Proofs for Accounts.  AccountsInv is inductive: each conjunct is kept   *)
(* by each action, and its last two conjuncts are the properties.          *)
(***************************************************************************)
EXTENDS Accounts, TLAPS

\* The invariant holds before the first sign-up.
LEMMA InitInv == AccountsInit => AccountsInv
<1> SUFFICES ASSUME AccountsInit PROVE AccountsInv
  OBVIOUS
<1> USE AdminAssumption DEF AccountsInit, Stored, NoUser, Idle
<1>1. AccountsTypeOK
  BY DEF AccountsTypeOK, UserRow, TeamRole, CallState
<1>2. ActiveIsRemembered /\ SignUpsActive /\ CreatesAccepted /\ OnlySignUps
  BY DEF ActiveIsRemembered, SignUpsActive, CreatesAccepted, OnlySignUps
<1>3. AdminComesFirst /\ SessionsEarned
  BY DEF AdminComesFirst, SessionsEarned, Outsider
<1> QED BY <1>1, <1>2, <1>3 DEF AccountsInv

\* Every action keeps the state well typed.
LEMMA TypeStep == AccountsTypeOK /\ [AccountsNext]_accountVars => AccountsTypeOK'
<1> SUFFICES ASSUME AccountsTypeOK, [AccountsNext]_accountVars PROVE AccountsTypeOK'
  OBVIOUS
<1> USE AdminAssumption DEF AccountsTypeOK, UserRow, NoUser, TeamRole, CallState, Idle, MoveTo, End, Remember, Stored,
                            DefaultRole
<1>1. ASSUME NEW c \in Calls, NEW u \in Users, register(c, u) PROVE AccountsTypeOK'
  BY <1>1 DEF register
<1>2. ASSUME NEW c \in Calls, NEW u \in Users, login(c, u) PROVE AccountsTypeOK'
  BY <1>2 DEF login
<1>3. ASSUME NEW c \in Calls, NEW u \in Users, approveUser(c, u) PROVE AccountsTypeOK'
  <2>1. user' \in [Users -> UserRow] /\ everActive' \subseteq Users
    BY <1>3 DEF approveUser
  <2>2. call' \in [Calls -> CallState]
    BY <1>3 DEF approveUser
  <2> QED BY <2>1, <2>2, <1>3 DEF approveUser
<1>4. ASSUME NEW c \in Calls, NEW u \in Users, NEW role \in TeamRole, addUserToTeam(c, u, role)
      PROVE AccountsTypeOK'
  BY <1>4 DEF addUserToTeam
<1>5. ASSUME NEW u \in Users, NEW role \in {"USER", "ADMIN"}, NEW status \in {"ACTIVE", "PENDING", "DISABLED"},
             updateUser(u, role, status)
      PROVE AccountsTypeOK'
  BY <1>5 DEF updateUser
<1>6. ASSUME NEW u \in Users, removeUserFromTeam(u) \/ expire(u) PROVE AccountsTypeOK'
  BY <1>6 DEF removeUserFromTeam, expire
<1>7. ASSUME NEW c \in Calls, createUser(c) PROVE AccountsTypeOK'
  <2> DEFINE u == call[c].user
             new == [row |-> "stored", role |-> FirstRole(u), status |-> FirstStatus(u)]
  <2>1. new \in UserRow /\ u \in Users
    BY DEF FirstRole, FirstStatus
  <2>2. user' \in [Users -> UserRow] /\ everActive' \subseteq Users
    BY <1>7, <2>1 DEF createUser
  <2>3. call' \in [Calls -> CallState]
    <3> HIDE DEF new, u
    <3>1. \/ call' = [call EXCEPT ![c] = Idle]
          \/ call' = [call EXCEPT ![c].pc = IF multiTenant THEN "session" ELSE "ensure",
                                  ![c].role = DefaultRole(new.role)]
      <4> USE DEF new, u
      <4> QED BY <1>7 DEF createUser
    <3> QED BY <3>1
  <2> QED BY <1>7, <2>2, <2>3 DEF createUser
<1>8. ASSUME NEW c \in Calls, ensureDefaultTeam(c) \/ createDefaultTeam(c) \/ lookupMembership(c) \/ fails(c)
      PROVE AccountsTypeOK'
  <2>1. ASSUME NEW pc \in {"idle", "ensure", "createTeam", "upsert"}, MoveTo(c, pc) \/ End(c)
        PROVE call' \in [Calls -> CallState]
    <3>1. CASE MoveTo(c, pc)
      BY <3>1
    <3>2. CASE End(c)
      BY <3>2
    <3> QED BY <2>1, <3>1, <3>2
  <2>2. call' \in [Calls -> CallState]
    <3> HIDE DEF MoveTo, End
    <3> QED BY <1>8, <2>1 DEF ensureDefaultTeam, createDefaultTeam, lookupMembership, fails
  <2>3. defaultTeam' \in BOOLEAN
    BY <1>8 DEF ensureDefaultTeam, createDefaultTeam, lookupMembership, fails
  <2> QED BY <1>8, <2>2, <2>3 DEF ensureDefaultTeam, createDefaultTeam, lookupMembership, fails
<1>9. ASSUME NEW c \in Calls, createSession(c) PROVE AccountsTypeOK'
  BY <1>9 DEF createSession
<1>10. ASSUME NEW c \in Calls, addUserToDefaultTeam(c) PROVE AccountsTypeOK'
  BY <1>10 DEF addUserToDefaultTeam
<1>11. ASSUME NEW c \in Calls, writeMembership(c) PROVE AccountsTypeOK'
  <2>1. member' \in [Users -> TeamRole \cup {"none"}]
    BY <1>11 DEF writeMembership
  <2> QED BY <1>11, <2>1 DEF writeMembership
<1>12. CASE UNCHANGED accountVars
  BY <1>12 DEF accountVars
<1> QED BY <1>1, <1>2, <1>3, <1>4, <1>5, <1>6, <1>7, <1>8, <1>9, <1>10, <1>11, <1>12 DEF AccountsNext, CallStep

(***************************************************************************)
(* The other conjuncts of AccountsInv.  Most actions leave accounts and    *)
(* sessions alone and end a request or move it on.                         *)
(***************************************************************************)
\* Ending a request keeps the invariant.
LEMMA EndKeeps ==
  ASSUME AccountsInv, AccountsTypeOK', NEW c \in Calls, End(c), UNCHANGED <<user, session, everActive>>
  PROVE  AccountsInv'
<1>1. call \in [Calls -> CallState]
  BY DEF AccountsInv, AccountsTypeOK
<1>2. \A d \in Calls : call'[d] = IF d = c THEN Idle ELSE call[d]
  BY <1>1 DEF End
<1>3. \A d \in Calls : call'[d].pc = "idle" \/ call'[d] = call[d]
  BY <1>2 DEF Idle
<1>4. ActiveIsRemembered' /\ SignUpsActive' /\ CreatesAccepted' /\ OnlySignUps'
  BY <1>3 DEF AccountsInv, ActiveIsRemembered, SignUpsActive, CreatesAccepted, OnlySignUps, Stored, Accepts, Bootstrap
<1>5. AdminComesFirst' /\ SessionsEarned'
  BY <1>3 DEF AccountsInv, AdminComesFirst, SessionsEarned, Outsider, Stored
<1> QED BY <1>4, <1>5 DEF AccountsInv

\* Moving on a request that is past its insert keeps the invariant.
LEMMA GotoKeeps ==
  ASSUME AccountsInv, AccountsTypeOK', NEW c \in Calls, NEW pc \in {"ensure", "createTeam", "upsert", "session"},
         MoveTo(c, pc), call[c].pc \notin {"idle", "create"},
         pc = "session" => call[c].then = "session",
         UNCHANGED <<user, session, everActive>>
  PROVE  AccountsInv'
<1>1. call \in [Calls -> CallState]
  BY DEF AccountsInv, AccountsTypeOK
<1>2. \A d \in Calls : \/ call'[d] = call[d]
                       \/ d = c /\ call'[d].pc = pc /\ call'[d].user = call[d].user /\ call'[d].then = call[d].then
  BY <1>1 DEF MoveTo, CallState
<1>3. ActiveIsRemembered' /\ SignUpsActive' /\ CreatesAccepted' /\ OnlySignUps'
  BY <1>2 DEF AccountsInv, ActiveIsRemembered, SignUpsActive, CreatesAccepted, OnlySignUps, Stored, Accepts, Bootstrap
<1>4. AdminComesFirst' /\ SessionsEarned'
  BY <1>2 DEF AccountsInv, AdminComesFirst, SessionsEarned, Outsider, Stored, SignUpsActive
<1> QED BY <1>3, <1>4 DEF AccountsInv

\* No action stores an active account without remembering it, gives a session
\* to an account that was never active, or lets anybody in before the
\* ADMIN_EMAIL account has signed up.
LEMMA InvStep == AccountsInv /\ [AccountsNext]_accountVars => AccountsInv'
<1> SUFFICES ASSUME AccountsInv, [AccountsNext]_accountVars PROVE AccountsInv'
  OBVIOUS
<1> USE AdminAssumption
<1>0. AccountsTypeOK /\ AccountsTypeOK'
  BY TypeStep DEF AccountsInv
<1>1. ASSUME NEW c \in Calls, ensureDefaultTeam(c) PROVE AccountsInv'
  BY <1>0, <1>1, GotoKeeps DEF ensureDefaultTeam
<1>2. ASSUME NEW c \in Calls, createDefaultTeam(c) PROVE AccountsInv'
  BY <1>0, <1>2, EndKeeps, GotoKeeps DEF createDefaultTeam
<1>3. ASSUME NEW c \in Calls, addUserToDefaultTeam(c) PROVE AccountsInv'
  BY <1>0, <1>3, EndKeeps, GotoKeeps DEF addUserToDefaultTeam
<1>4. ASSUME NEW c \in Calls, lookupMembership(c) PROVE AccountsInv'
  BY <1>0, <1>4, EndKeeps, GotoKeeps DEF lookupMembership
<1>5. ASSUME NEW c \in Calls, writeMembership(c) \/ fails(c) PROVE AccountsInv'
  BY <1>0, <1>5, EndKeeps DEF writeMembership, fails
<1>6. ASSUME NEW c \in Calls, createUser(c) PROVE AccountsInv'
  <2> DEFINE u == call[c].user
             status == FirstStatus(u)
             new == [row |-> "stored", role |-> FirstRole(u), status |-> status]
  <2>0. u \in Users /\ call[c].pc = "create" /\ Accepts(u) /\ call[c].then = "session"
    BY <1>0, <1>6 DEF AccountsInv, AccountsTypeOK, CallState, createUser, CreatesAccepted
  <2>1. CASE Stored(u)
    BY <1>0, <1>6, <2>1, EndKeeps DEF createUser
  <2>2. CASE ~Stored(u)
    <3>1. user' = [user EXCEPT ![u] = new] /\ session' = session
      BY <1>6, <2>2 DEF createUser
    <3>2. everActive' = everActive \cup {a \in {u} : status = "ACTIVE"}
      BY <1>6, <2>2 DEF createUser, Remember
    <3>3. \A d \in Calls : \/ call'[d] = call[d]
                           \/ d = c /\ call'[d].pc = "idle"
                           \/ /\ d = c /\ call'[d].pc \in {"session", "ensure"} /\ status = "ACTIVE"
                              /\ call'[d].user = u
      BY <1>0, <1>6, <2>2 DEF createUser, End, Idle, AccountsTypeOK, CallState, FirstStatus
    <3>4. /\ registrationMode = "approval" /\ u # AdminEmail => status = "PENDING"
          /\ u # AdminEmail => new.role = "USER"
          /\ registrationMode = "invite-only" => u = AdminEmail
          /\ new.row = "stored" /\ new.status = status
      BY <2>0 DEF FirstStatus, FirstRole, Accepts, Bootstrap
    <3> HIDE DEF new, status, u
    <3>5. \A a \in Users : user'[a] = IF a = u THEN new ELSE user[a]
      BY <3>1, <1>0 DEF AccountsTypeOK
    <3>6. ActiveIsRemembered' /\ SignUpsActive' /\ SessionsEarned'
      BY <2>0, <3>1, <3>2, <3>3, <3>4, <3>5 DEF AccountsInv, ActiveIsRemembered, SignUpsActive, SessionsEarned, Stored
    <3>7. CreatesAccepted'
      BY <3>3 DEF AccountsInv, CreatesAccepted, Accepts, Bootstrap
    <3>8. AdminComesFirst' /\ OnlySignUps'
      BY <2>0, ConfigAssumption, <3>1, <3>2, <3>3, <3>4, <3>5
      DEF AccountsInv, AdminComesFirst, OnlySignUps, Outsider, Stored
    <3> QED BY <1>0, <3>6, <3>7, <3>8 DEF AccountsInv
  <2> QED BY <2>1, <2>2
<1> USE DEF AccountsInv, ActiveIsRemembered, SignUpsActive, CreatesAccepted, OnlySignUps,
            AdminComesFirst, SessionsEarned, Outsider, Stored, Accepts, Bootstrap, MoveTo, End, Idle, Remember,
            AccountsTypeOK, CallState, UserRow
<1>7. ASSUME NEW c \in Calls, NEW u \in Users, register(c, u) PROVE AccountsInv'
  BY <1>0, <1>7 DEF register
<1>8. ASSUME NEW c \in Calls, NEW u \in Users, login(c, u) PROVE AccountsInv'
  BY <1>0, <1>8 DEF login, MayLogIn
<1>9. ASSUME NEW c \in Calls, NEW u \in Users, approveUser(c, u) PROVE AccountsInv'
  BY <1>0, <1>9 DEF approveUser, requireAdmin
<1>10. ASSUME NEW c \in Calls, NEW u \in Users, NEW role \in TeamRole, addUserToTeam(c, u, role)
      PROVE AccountsInv'
  BY <1>0, <1>10 DEF addUserToTeam, requireAdmin
<1>11. ASSUME NEW u \in Users, NEW role \in {"USER", "ADMIN"}, NEW status \in {"ACTIVE", "PENDING", "DISABLED"},
             updateUser(u, role, status)
      PROVE AccountsInv'
  BY <1>0, <1>11 DEF updateUser, requireAdmin
<1>12. ASSUME NEW u \in Users, removeUserFromTeam(u) \/ expire(u) PROVE AccountsInv'
  BY <1>0, <1>12 DEF removeUserFromTeam, expire
<1>13. ASSUME NEW c \in Calls, createSession(c) PROVE AccountsInv'
  BY <1>0, <1>13 DEF createSession
<1>14. CASE UNCHANGED accountVars
  BY <1>0, <1>14 DEF accountVars
<1> HIDE DEF AccountsInv
<1> QED BY <1>1, <1>2, <1>3, <1>4, <1>5, <1>6, <1>7, <1>8, <1>9, <1>10, <1>11, <1>12, <1>13, <1>14
        DEF AccountsNext, CallStep

\* AccountsInv holds in every reachable state.
THEOREM Invariance == AccountsSpec => []AccountsInv
BY InitInv, InvStep, PTL DEF AccountsSpec

\* For any users, requests and configuration: until the ADMIN_EMAIL account of
\* a closed instance has signed up, nobody is active, signed in or an admin.
THEOREM AdminFirstTheorem == AccountsSpec => []AdminComesFirst
<1>1. AccountsInv => AdminComesFirst
  BY DEF AccountsInv
<1> QED BY <1>1, Invariance, PTL

\* Every reachable state is well typed, so a membership that an approval or a
\* sign-up writes has a role of the team, and no interleaving of register, login,
\* approval and admin changes gives a session to an account never ACTIVE.
THEOREM SessionsTheorem == AccountsSpec => []SessionsInv
<1>1. AccountsInv => SessionsInv
  BY DEF AccountsInv, SessionsInv
<1> QED BY <1>1, Invariance, PTL
=============================================================================
