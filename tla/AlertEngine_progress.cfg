\* Evaluations end and breached rules open incidents, through restarts,
\* rejected queries, mutes and human actions.
SPECIFICATION FairSpec
CONSTANTS
  t1 = t1
  t2 = t2
  Rules = {r1}
  Teams = {t1}
  TeamOf <- OneTeam
  Windows = {}
  Incidents = {i1, i2}
  Specs <- Mixed
  MaxClock = 2
  Requests = {q1}
  Durations = {1}
  MaxEvents = 1
  Activations = {a1}
  Counts = {1, 2}
PROPERTIES EvaluationEnds BreachedRuleOpens
