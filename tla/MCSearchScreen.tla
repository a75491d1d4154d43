--------------------------- MODULE MCSearchScreen ---------------------------
(***************************************************************************)
(* Instance for TLC of the search screen, with a shared link and a team    *)
(* that has saved the search of it.                                        *)
(***************************************************************************)
EXTENDS SearchScreen, TLC

\* Handlers differ in nothing but their name.
HandlerSymmetry == Permutations(Handlers)

\* A link with an absolute range and an exclusion.
SharedLink == [HomeUrl EXCEPT !.exclusions = Exclusions, !.tr = "abs", !.share = TRUE,
                              !.from = CHOOSE r \in Ranges : TRUE]

OpenedWith == {SharedLink}

\* A shared view with that search.
SharedView == Row({"isShared"}, Definition(SharedLink, LastHour))

\* One view, whose definition teammates leave as it is.
WrittenOnce == {SharedView}

\* What teammates write: that view, or one with a facet as well.
WrittenByTeam == {Row({"isShared"}, [SharedView.def EXCEPT !.facets = fs]) : fs \in {{}, Facets}}
=============================================================================
