\* Two requests race each other, the loop and the deletion of the rule.
SPECIFICATION Spec
CONSTANTS
  t1 = t1
  t2 = t2
  Rules = {r1}
  Teams = {t1}
  TeamOf <- OneTeam
  Windows = {}
  Incidents = {i1, i2, i3}
  Specs <- Greater
  MaxClock = 1
  Requests = {q1, q2}
  Durations = {}
  MaxEvents = 2
  Activations = {a1, a2}
  Counts = {0, 1}
SYMMETRY Interchangeable
INVARIANTS TypeOK TimelineIsHistory OneUnreopenedOpen NoOrphans
PROPERTY ImplementsLifecycle
