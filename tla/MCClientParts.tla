---------------------------- MODULE MCClientParts ----------------------------
(***************************************************************************)
(* Instances for TLC of five parts that run at the clients and share no    *)
(* state: the search screen, the source panel, the editable lists and the  *)
(* smaller pages of the console, and the SDK.  A behaviour is one of any   *)
(* one part; the others keep their initial state.                          *)
(***************************************************************************)
EXTENDS MCSearchScreen, SourcesPanel, SdkClient, ListPanels, ConsolePages

VARIABLE part

clientVars == <<part, screenVars, panelVars, sdkVars, listVars, pageVars>>

Quiet ==
  /\ part # "lists" => panel = "users"
  /\ part # "pages" => onPage = "tail" /\ detail.id = (CHOOSE d \in DetailIds : TRUE)
                       /\ tail.filter = (CHOOSE f \in TailFilters : TRUE)

ClientInit ==
  /\ part \in {"search", "sources", "sdk", "lists", "pages"}
  /\ ScreenInit /\ PanelInit /\ SdkInit /\ ListsInit /\ PagesInit
  /\ Quiet

ClientNext ==
  /\ UNCHANGED part
  /\ \/ part = "search" /\ ScreenNext /\ UNCHANGED <<panelVars, sdkVars, listVars, pageVars>>
     \/ part = "sources" /\ PanelNext /\ UNCHANGED <<screenVars, sdkVars, listVars, pageVars>>
     \/ part = "sdk" /\ SdkNext /\ UNCHANGED <<screenVars, panelVars, listVars, pageVars>>
     \/ part = "lists" /\ ListsNext /\ UNCHANGED <<screenVars, panelVars, sdkVars, pageVars>>
     \/ part = "pages" /\ PagesNext /\ UNCHANGED <<screenVars, panelVars, sdkVars, listVars>>

\* ScreenFairness of the part that runs; the requests of the first render are
\* under way in the initial state.
RunningScreen == WF_screenVars(part = "search" /\ Answers)

ClientSpec ==
  ClientInit /\ [][ClientNext]_clientVars /\ RunningScreen /\ PanelFairness /\ SdkFairness /\ ListsFairness
             /\ PagesFairness

\* LoadingEnds, RowsReleased and PagesLoad in one, with the busy rows and forms of
\* the editable lists: of their flags only the part that runs sets any.
Waiting == (part = "search" /\ loading) \/ busyId # NoSource \/ RowsWait \/ PageWaits

(***************************************************************************)
(* Nothing stays pending at the client: skeletons go away, rows and forms  *)
(* are enabled again, and the buffer of an open SDK client is sent.        *)
(***************************************************************************)
ClientSettles == (Waiting ~> ~ Waiting) /\ KeysLoad /\ BufferLeaves
=============================================================================
