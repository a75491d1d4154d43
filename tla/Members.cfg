\* Two rules and two subscriptions that change while an incident or a test message
\* is being sent; two accept requests for one invite; and two requests at a time to
\* the saved views.  The last two come to rest when their requests are answered.
SPECIFICATION MembersSpec
CONSTANTS
  Subs = {s1, s2}
  Rules = {r1, r2}
  Jobs = {j1}
  MAX_RETRIES = 1
  Users = {u1, u2}
  Founder = u1
  Invites = {i1}
  Requests = {q1, q2}
  InviteRoles = {"ADMIN", "MEMBER"}
  AdminRoles = {"VIEWER"}
  Lifetime = 0
  MaxClock = 2
  ViewUsers = {u1, u2}
  Regraded = {u2}
  ViewIds = {v1, v2}
  ViewCalls = {q1, q2}
  ViewPatches <- Bodies
  FirstRole <- Roles
  MaxViewRequests = 3
INVARIANTS AudienceInv SubscribedRulesExist InvitesInv PrivateConcealed
PROPERTIES ScopeKept AcceptGrantsOnce ViewWrites LoneDefault
CHECK_DEADLOCK FALSE
