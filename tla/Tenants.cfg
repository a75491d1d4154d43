\* Two teams with a source each, a rotated key, a live tail and issues; and
\* sign-ups, logins and approvals of a single-team instance in approval mode,
\* which may stop: the last admin can disable every account, itself included.
SPECIFICATION TenantsSpec
CONSTANTS
  Teams = {t1, t2}
  Sources = {s1, s2}
  TeamOf <- OwnTeams
  Items = {i1}
  ErrorItems = {i1}
  BadItems = {}
  Requests = {r1, r2}
  Conns = {n1}
  Filters <- AllItems
  Readers = {}
  MayCrash = TRUE
  Keys = {k1, k2, k3}
  Users = {admin, u1}
  AdminEmail = admin
  Calls = {c1, c2}
  multiTenant = FALSE
  registrationMode = "approval"
SYMMETRY Symmetry
INVARIANTS TenantsInv StreamedIsStored IssuesCountPublished AdminComesFirst SessionsInv
CHECK_DEADLOCK FALSE
