--------------------------- MODULE MCSearchScenes ---------------------------
(***************************************************************************)
(* Two instances for TLC of the search screen, each with bounds of its     *)
(* own: every handler of the screen, beside one saved-view handler; and    *)
(* saved-view handlers that overlap, beside teammates and the few other    *)
(* handlers that change what a view is compared with.                      *)
(***************************************************************************)
EXTENDS MCSearchScreen

VARIABLE scene

sceneVars == <<scene, screenVars>>

SceneInit ==
  /\ scene \in {"screen", "bar"}
  /\ ScreenInit
  /\ scene = "screen" => rows = [v \in FirstIds |-> SharedView]

\* One saved-view handler, whose views nobody else edits.
ScreenBounds == Cardinality({h \in Handlers : op'[h] # NoOp}) <= 1 /\ edits' = 0

\* The results are of no interest to the bar.
BarBounds == Cardinality(flights') <= 1

BarNext ==
  \/ ViewBarStep \/ TeamStep \/ Answers
  \/ resetFilters \/ goBack
  \/ \E f \in Facets : onToggleFacet(f)
  \/ \E r \in Ranges : onSelectBucket(r)

SceneNext ==
  /\ UNCHANGED scene
  /\ \/ scene = "screen" /\ ScreenNext /\ ScreenBounds
     \/ scene = "bar" /\ BarNext /\ BarBounds

SceneSpec == SceneInit /\ [][SceneNext]_sceneVars
=============================================================================
