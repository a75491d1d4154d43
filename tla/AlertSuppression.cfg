\* Mutes and windows come, move and go while the loop is under way.
SPECIFICATION SuppressionSpec
CONSTANTS
  t1 = t1
  t2 = t2
  Rules = {r1}
  Teams = {t1, t2}
  TeamOf <- OneTeam
  Windows = {w1, w2}
  Incidents = {i1}
  Specs <- Greater
  MaxClock = 3
  Requests = {q1}
  Durations = {1, 2}
  MaxEvents = 0
  Activations = {a1}
  Counts = {1}
PROPERTY SuppressionHonoured
