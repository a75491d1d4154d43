\* The documented single use, refuted by two requests between check and commit.
SPECIFICATION Spec
CONSTANTS
  Users = {u1, u2, u3}
  Founder = u1
  Invites = {i1}
  Requests = {q1, q2}
  InviteRoles = {"ADMIN", "MEMBER"}
  AdminRoles = {"VIEWER"}
  Lifetime = 0
  MaxClock = 2
INVARIANT InviteSingleUse
