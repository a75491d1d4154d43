\* The documented handling of rejections, refuted by the API-key lookup.
SPECIFICATION Spec
CONSTANTS
  Teams = {t1}
  Sources = {s1}
  TeamOf <- OneTeam
  Items = {i1}
  ErrorItems = {}
  BadItems = {}
  Requests = {r1, r2}
  Conns = {}
  Filters = {}
  Readers = {}
  MayCrash = FALSE
  Keys = {k1}
PROPERTY RejectionContained
