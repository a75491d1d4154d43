---------------------------- MODULE SearchScreen ----------------------------
(***************************************************************************)
(* The log search of the console: useLogSearch (hooks/use-log-search.ts),  *)
(* which keeps the search in the URL, the screen that loads what the URL   *)
(* asks for (app/(dashboard)/logs/search/screen.tsx), its search panel and *)
(* its saved-view bar.                                                     *)
(*                                                                         *)
(* Handlers work on the values of the render they were created in.  One    *)
(* that awaits a dialog or a request therefore finishes with the URL as it *)
(* was when it was clicked, however the search has moved on meanwhile.     *)
(* Effects are flushed before the next event: a change of the URL and the  *)
(* requests it causes are one step.  level, service, host and sourceId are *)
(* one filter value, sortBy and sortDirection one sort.                    *)
(*                                                                         *)
(* Nothing disables the saved-view bar while a handler awaits its          *)
(* requests, so several are under way at once; each carries the answer to  *)
(* its own request, and the list it fetched after it.  Teammates write     *)
(* shared views in between.                                                *)
(***************************************************************************)
EXTENDS Integers, FiniteSets

CONSTANTS Texts,      \* natural-language queries
          FilterVals, \* values of the filter fields
          Facets,     \* facet values other than patterns
          Patterns,   \* signatures of log patterns
          Exclusions, \* exclusion chips a link may carry
          Columns,    \* extra columns
          Sorts,      \* sort orders
          Sizes,      \* page sizes
          Durations,  \* relative durations
          Ranges,     \* absolute time ranges
          SavedIds,   \* ids the server gives to saved views
          FirstIds,   \* the ones given before
          Handlers,   \* slots for saved-view handlers under way
          Manager,    \* canManageShared: the user is OWNER or ADMIN
          Links,      \* URLs the screen may be opened with
          TeamRows,   \* shared views as teammates write them
          MaxPage,    \* bound on the pages of a result
          MaxFlights, \* bound on the loads under way at once
          MaxClicks,  \* bound on the user's actions
          MaxEdits    \* bound on the teammates' writes

CONSTANTS NoText, NoFilter, NoRange, NoView, NoToken, Stub

ASSUME SearchBoundAssumption == Manager \in BOOLEAN /\ MaxPage \in Nat /\ MaxFlights \in Nat /\ MaxClicks \in Nat /\ MaxEdits \in Nat

ASSUME SearchSetAssumption ==
  /\ Sorts # {} /\ Sizes # {} /\ Durations # {} /\ Links # {}
  /\ NoRange \notin Ranges \cup Durations /\ NoView \notin SavedIds /\ FirstIds \subseteq SavedIds

VARIABLES url,        \* the search parameters
          prevUrl,    \* the entry before it in the browser's history
          local,      \* localAbsoluteRange
          stored,     \* the range in sessionStorage
          flights,    \* loads under way; `active` is the flag of their effect
          loading,
          shown,      \* the search whose results the screen holds
          failed,     \* error
          nextToken,  \* nextPageToken
          aiPlan,
          views,      \* savedViews: the list as last fetched
          viewsReady, \* ~ savedViewsLoading
          rows,       \* the views the server lets this user see
          spent,      \* ids the server has given
          op,         \* the saved-view handlers under way
          clicks,
          edits       \* writes of teammates so far

screenVars == <<url, prevUrl, local, stored, flights, loading, shown, failed, nextToken, aiPlan,
                views, viewsReady, rows, spent, op, clicks, edits>>

DefaultSort == CHOOSE x \in Sorts : TRUE
DefaultSize == CHOOSE x \in Sizes : TRUE
DefaultDuration == CHOOSE d \in Durations : TRUE

\* defaultTimeRange(): the hour before the screen was mounted.
LastHour == NoRange

HomeUrl == [query |-> NoText, filter |-> NoFilter, facets |-> {}, exclusions |-> {}, columns |-> {},
            mode |-> "raw", sort |-> DefaultSort, size |-> DefaultSize, page |-> 1, token |-> NoToken, view |-> NoView,
            tr |-> "rel", dur |-> DefaultDuration, share |-> FALSE, from |-> NoRange]

\* currentTimeRange.  A relative range is anchored when the screen is mounted.
currentTimeRange(u, l) == IF u.tr = "rel" THEN u.dur ELSE IF u.from # NoRange THEN u.from ELSE l

\* What the results depend on, as far as the URL tells it.
Scope(u) == [query |-> u.query, filter |-> u.filter, facets |-> u.facets, exclusions |-> u.exclusions,
             sort |-> u.sort, size |-> u.size, tr |-> u.tr, dur |-> u.dur, from |-> u.from]

\* What loadResults asks for.
Search(u, l) == [scope |-> Scope(u), range |-> currentTimeRange(u, l), page |-> u.page, token |-> u.token]

\* currentDefinition
Definition(u, l) ==
  [query |-> u.query, filter |-> u.filter, facets |-> u.facets, exclusions |-> u.exclusions,
   columns |-> u.columns, mode |-> u.mode, sort |-> u.sort, size |-> u.size, tr |-> u.tr,
   range |-> currentTimeRange(u, l)]

\* A URL as updateSearch writes it, with a page token of its own search.
Tidy(u) ==
  /\ DOMAIN u = DOMAIN HomeUrl /\ u.page \in Nat \ {0} /\ u.share \in BOOLEAN /\ u.dur # NoRange
  /\ \/ u.tr = "rel" /\ u.from = NoRange /\ u.share = FALSE
     \/ u.tr = "abs" /\ u.dur = DefaultDuration /\ (u.share <=> u.from # NoRange)
  /\ u.token # NoToken => u.page > 1 /\ u.token = [scope |-> Scope(u), page |-> u.page]

\* A definition as currentDefinition makes it.
Definite(d) ==
  /\ d = [query |-> d.query, filter |-> d.filter, facets |-> d.facets, exclusions |-> d.exclusions,
          columns |-> d.columns, mode |-> d.mode, sort |-> d.sort, size |-> d.size, tr |-> d.tr,
          range |-> d.range]
  /\ d.tr \in {"rel", "abs"} /\ d.range # NoRange

\* The console's own links and views.  A link with an absolute time carries its
\* range: without one the screen starts with the last hour, which a reload moves.
ASSUME LinkAssumption ==
  /\ \A u \in Links : Tidy(u) /\ (u.tr = "abs" => u.share)
  /\ \A w \in TeamRows : "isShared" \in w.flags /\ Definite(w.def)

\* A saved view: which of isShared and isDefault are set, and its definition.
Row(flags, def) == [flags |-> flags, def |-> def]

NoViews == <<>>

\* The closure of the click, what the dialog chose, the view in the answer to
\* the handler's own request, and the list it fetched then.
NoOp == [kind |-> "none", stage |-> "none", url |-> HomeUrl, local |-> LastHour, id |-> NoView, flags |-> {},
         def |-> Stub, list |-> NoViews]

\* Variant that forgets the page token only when it is told to.
KeptToken(u, next) == IF "token" \in DOMAIN next THEN next.token ELSE u.token

NextToken(u, next) ==
  IF "token" \in DOMAIN next THEN next.token
  ELSE IF "page" \in DOMAIN next /\ next.page # u.page THEN NoToken ELSE u.token

\* The fields given in `next` over the current ones.
Requested(u, next) == [f \in DOMAIN u |-> IF f \in DOMAIN next THEN next[f] ELSE u[f]]

\* Only a shared range goes into the URL.
Timed(a, tr, range) ==
  IF tr = "rel" THEN [a EXCEPT !.tr = "rel", !.share = FALSE, !.from = NoRange]
  ELSE [a EXCEPT !.tr = "abs", !.dur = DefaultDuration, !.from = IF a.share THEN range ELSE NoRange]

\* updateSearch, called with the URL and the local range of its closure.  An
\* explicit range forces absolute time.
Merged(u, l, next) ==
  LET tr == IF "range" \in DOMAIN next THEN "abs" ELSE Requested(u, next).tr
      range == IF "range" \in DOMAIN next THEN next.range ELSE currentTimeRange(u, l)
  IN [url |-> [Timed(Requested(u, next), tr, range) EXCEPT !.token = NextToken(u, next)], tr |-> tr, range |-> range]

\* Variant that keeps the range in the component only.
StoredNot(m) == stored

StoredBy(m) == IF m.tr = "abs" THEN m.range ELSE stored

\* The load effect: whatever is under way is no longer active.
Launch(u, l) ==
  /\ Cardinality(flights) < MaxFlights
  /\ flights' = {[f EXCEPT !.active = FALSE] : f \in flights}
                  \cup {[search |-> Search(u, l), active |-> TRUE]}
  /\ loading' = TRUE
  /\ failed' = FALSE
  /\ aiPlan' = FALSE
  /\ UNCHANGED <<shown, nextToken>>

\* router.push and the effects of the render that follows it.
Go(u, l) ==
  /\ url' = u
  /\ prevUrl' = IF u = url THEN prevUrl ELSE url
  /\ local' = l
  /\ IF u # url \/ Search(u, l) # Search(url, local) THEN Launch(u, l)
     ELSE UNCHANGED <<flights, loading, shown, failed, nextToken, aiPlan>>

UpdateFrom(u, l, next) ==
  LET m == Merged(u, l, next) IN
  /\ Go(m.url, IF m.tr = "abs" THEN m.range ELSE local)
  /\ stored' = StoredBy(m)

updateSearch(next) == UpdateFrom(url, local, next)

\* The first render of the screen with URL u: the range of an absolute search
\* comes from the URL or from sessionStorage.
MountRange(u) ==
  IF u.tr # "abs" THEN LastHour ELSE IF u.from # NoRange THEN u.from ELSE stored

ScreenInit ==
  /\ url \in Links
  /\ prevUrl = HomeUrl
  /\ stored = IF url.tr = "abs" THEN url.from ELSE NoRange
  /\ local = MountRange(url)
  /\ flights = {[search |-> Search(url, local), active |-> TRUE]}
  /\ loading = TRUE
  /\ shown = Search(HomeUrl, LastHour) /\ failed = FALSE /\ nextToken = NoToken /\ aiPlan = FALSE
  /\ rows \in [FirstIds -> TeamRows]
  /\ spent = FirstIds
  /\ views = NoViews
  /\ viewsReady = FALSE
  /\ op = [h \in Handlers |-> NoOp]
  /\ clicks = 0 /\ edits = 0

viewsUnchanged == UNCHANGED <<views, viewsReady, rows, spent, op, edits>>

searchUnchanged == UNCHANGED <<url, prevUrl, local, stored, flights, loading, shown, failed, nextToken, aiPlan>>

\* A dialog is modal: while it is open the rest of the screen is not reached.
Click == /\ clicks < MaxClicks
         /\ \A h \in Handlers : op[h].stage # "dialog"
         /\ clicks' = clicks + 1

(* What the user does. *)

\* SearchPanel.runQuery with the values of the form, which the user has edited
\* or left as the URL set them, then handleSearch.  The page size is no field of
\* the form.
handleSearch(q, f, sort, tr, d, r, share) ==
  /\ Click
  /\ updateSearch(IF tr = "abs"
                  THEN [query |-> q, page |-> 1, size |-> url.size, filter |-> f, sort |-> sort, tr |-> tr, dur |-> d,
                        range |-> r, share |-> share]
                  ELSE [query |-> q, page |-> 1, size |-> url.size, filter |-> f, sort |-> sort, tr |-> tr, dur |-> d,
                        share |-> FALSE])
  /\ viewsUnchanged

resetFilters == handleSearch(NoText, NoFilter, DefaultSort, "rel", DefaultDuration, NoRange, FALSE)

onRemoveChip(chip) ==
  /\ Click
  /\ updateSearch(IF chip = "query" THEN [page |-> 1, query |-> NoText] ELSE [page |-> 1, filter |-> NoFilter])
  /\ viewsUnchanged

onRemoveExclusion(e) ==
  /\ Click
  /\ e \in url.exclusions
  /\ updateSearch([page |-> 1, exclusions |-> url.exclusions \ {e}])
  /\ viewsUnchanged

\* The plan may name a filter and facets and infer a range.
onApplyAiPlan(f, fs, r) ==
  /\ Click
  /\ aiPlan
  /\ updateSearch([page |-> 1, filter |-> f, facets |-> url.facets \cup fs,
                   range |-> IF r = NoRange THEN currentTimeRange(url, local) ELSE r])
  /\ viewsUnchanged

onDiscardAiPlan ==
  /\ Click
  /\ aiPlan
  /\ aiPlan' = FALSE
  /\ UNCHANGED <<url, prevUrl, local, stored, flights, loading, shown, failed, nextToken>>
  /\ viewsUnchanged

setMode(mode) == Click /\ updateSearch([mode |-> mode, page |-> 1]) /\ viewsUnchanged

onSelectBucket(r) == Click /\ updateSearch([page |-> 1, range |-> r]) /\ viewsUnchanged

\* Variant that stays on the page.
toggleInPlace(f) ==
  /\ Click
  /\ updateSearch([facets |-> IF f \in url.facets THEN url.facets \ {f} ELSE url.facets \cup {f}])
  /\ viewsUnchanged

onToggleFacet(f) ==
  /\ Click
  /\ updateSearch([page |-> 1, facets |-> IF f \in url.facets THEN url.facets \ {f} ELSE url.facets \cup {f}])
  /\ viewsUnchanged

WithPattern(p) == (url.facets \ Patterns) \cup {p}

\* The pattern table and the log table are there when nothing is loading.
Settled == ~ loading /\ ~ failed

onOpenPattern(p) ==
  /\ Click
  /\ Settled /\ url.mode = "patterns"
  /\ updateSearch([mode |-> "raw", page |-> 1, facets |-> WithPattern(p)])
  /\ viewsUnchanged

onConvertToFilter(p) ==
  /\ Click
  /\ Settled /\ url.mode = "patterns"
  /\ updateSearch([page |-> 1, facets |-> WithPattern(p)])
  /\ viewsUnchanged

onPageChange(page) ==
  /\ Click
  /\ Settled /\ url.mode = "raw"
  /\ page \in {url.page - 1, url.page + 1} /\ page \in 1 .. MaxPage
  /\ updateSearch([page |-> page, token |-> IF page > url.page THEN nextToken ELSE NoToken])
  /\ viewsUnchanged

onPageSizeChange(size) ==
  /\ Click
  /\ Settled /\ url.mode = "raw"
  /\ updateSearch([page |-> 1, size |-> size])
  /\ viewsUnchanged

onAddColumn(c) == Click /\ updateSearch([columns |-> url.columns \cup {c}]) /\ viewsUnchanged

onAddFilter(f) == Click /\ updateSearch([page |-> 1, facets |-> url.facets \cup {f}]) /\ viewsUnchanged

retry ==
  /\ Click
  /\ failed
  /\ Launch(url, local)
  /\ UNCHANGED <<url, prevUrl, local, stored>>
  /\ viewsUnchanged

\* The browser's Back: an absolute search without its range in the URL takes
\* the one in sessionStorage.
goBack ==
  /\ Click
  /\ prevUrl # url
  /\ Go(prevUrl, IF prevUrl.tr # "abs" THEN local
                 ELSE IF prevUrl.from # NoRange THEN prevUrl.from
                 ELSE IF stored = NoRange THEN local ELSE stored)
  /\ stored' = IF prevUrl.tr = "abs" /\ prevUrl.from # NoRange THEN prevUrl.from ELSE stored
  /\ viewsUnchanged

(* Saved views. *)

applySavedView(u, l, v, def) ==
  UpdateFrom(u, l,
    IF def.tr = "rel"
    THEN [query |-> def.query, mode |-> def.mode, page |-> 1, size |-> def.size, sort |-> def.sort,
          filter |-> def.filter, exclusions |-> def.exclusions, facets |-> def.facets, columns |-> def.columns,
          tr |-> "rel", dur |-> def.range, view |-> v]
    ELSE [query |-> def.query, mode |-> def.mode, page |-> 1, size |-> def.size, sort |-> def.sort,
          filter |-> def.filter, exclusions |-> def.exclusions, facets |-> def.facets, columns |-> def.columns,
          tr |-> "abs", range |-> def.range, view |-> v])

\* The bar is hidden until the first list is there.
getSavedLogViews ==
  /\ ~ viewsReady
  /\ viewsReady' = TRUE
  /\ views' = rows
  /\ searchUnchanged /\ UNCHANGED <<rows, spent, op, clicks, edits>>

getSavedLogViewsFails ==
  /\ ~ viewsReady
  /\ viewsReady' = TRUE
  /\ searchUnchanged /\ UNCHANGED <<views, rows, spent, op, clicks, edits>>

onSelect(v) ==
  /\ Click
  /\ viewsReady
  /\ IF v = NoView THEN updateSearch([view |-> NoView, page |-> 1])
     ELSE v \in DOMAIN views /\ applySavedView(url, local, v, views[v].def)
  /\ viewsUnchanged

selectedView == url.view \in DOMAIN views

canManageSelectedView == Manager \/ ~ selectedView \/ views[url.view].flags = {}

Offered(kind) ==
  CASE kind = "save" -> TRUE
    [] kind = "duplicate" -> selectedView
    [] kind = "setDefault" -> selectedView /\ Manager
    [] OTHER -> selectedView /\ canManageSelectedView

\* onSave, onOverwrite, onDuplicate, onRename and onDelete ask first.
openOp(h, kind) ==
  /\ Click
  /\ viewsReady /\ op[h] = NoOp /\ Offered(kind)
  /\ op' = [op EXCEPT ![h] =
       [kind |-> kind, stage |-> IF kind = "setDefault" THEN "request" ELSE "dialog", url |-> url, local |-> local,
        id |-> url.view, flags |-> {}, def |-> Stub, list |-> NoViews]]
  /\ searchUnchanged /\ UNCHANGED <<views, viewsReady, rows, spent, edits>>

\* The dialog resolves: cancelled, or confirmed (with the share and default
\* options of the save dialog, which only count for a manager).
answerDialog(h, confirmed, wanted) ==
  /\ op[h].stage = "dialog"
  /\ op' = [op EXCEPT ![h] =
       IF ~ confirmed THEN NoOp
       ELSE [op[h] EXCEPT !.stage = "request", !.flags = IF op[h].kind = "save" /\ Manager THEN wanted ELSE {}]]
  /\ searchUnchanged /\ UNCHANGED <<views, viewsReady, rows, spent, clicks, edits>>

\* The server has carried the request out and answers with the view it wrote.
Answered(h, v, def) == op' = [op EXCEPT ![h] = [op[h] EXCEPT !.stage = "list", !.id = v, !.def = def]]

requestOf(h, kinds) ==
  /\ op[h].stage = "request" /\ op[h].kind \in kinds
  /\ searchUnchanged /\ UNCHANGED <<views, viewsReady, clicks, edits>>

\* Table t with row w for v; a new default takes the flag from the others.
WithRow(t, v, w) ==
  [x \in DOMAIN t \cup {v} |->
    IF x = v THEN w ELSE IF "isDefault" \in w.flags THEN Row(t[x].flags \ {"isDefault"}, t[x].def) ELSE t[x]]

WithoutRow(t, v) == [x \in DOMAIN t \ {v} |-> t[x]]

\* POST: the definition of the click.
createSavedLogView(h, v) ==
  LET def == Definition(op[h].url, op[h].local) IN
  /\ requestOf(h, {"save"})
  /\ v \in SavedIds \ spent
  /\ spent' = spent \cup {v}
  /\ rows' = WithRow(rows, v, Row(op[h].flags, def))
  /\ Answered(h, v, def)

\* A copy of the view as the server has it, shared if the user may share.
duplicateSavedLogView(h, v) ==
  LET old == rows[op[h].id] IN
  /\ requestOf(h, {"duplicate"})
  /\ v \in SavedIds \ spent /\ op[h].id \in DOMAIN rows
  /\ spent' = spent \cup {v}
  /\ rows' = WithRow(rows, v, Row(IF Manager THEN old.flags \cap {"isShared"} ELSE {}, old.def))
  /\ Answered(h, v, old.def)

\* The server judges the row it loads (SavedViews).
MayWrite(v) == v \in DOMAIN rows /\ (Manager \/ rows[v].flags = {})

\* PUT with the definition of the click, a new name or the default flag.
updateSavedLogView(h) ==
  LET old == rows[op[h].id]
      def == IF op[h].kind = "overwrite" THEN Definition(op[h].url, op[h].local) ELSE old.def
  IN
  /\ requestOf(h, {"overwrite", "rename", "setDefault"})
  /\ MayWrite(op[h].id)
  /\ rows' = WithRow(rows, op[h].id,
                     IF op[h].kind = "setDefault" THEN Row(old.flags \cup {"isDefault"}, def) ELSE Row(old.flags, def))
  /\ Answered(h, op[h].id, def)
  /\ UNCHANGED spent

\* PUT answered with a stub, which names no definition: the view is one that
\* this user no longer sees.  The handlers are ready for it (isSavedLogViewStub);
\* the backend answers so only to a PUT that just clears the default flag.
updateAnswersStub(h) ==
  /\ requestOf(h, {"overwrite", "rename", "setDefault"})
  /\ op[h].id \notin DOMAIN rows
  /\ Answered(h, op[h].id, Stub)
  /\ UNCHANGED <<rows, spent>>

deleteSavedLogView(h) ==
  /\ requestOf(h, {"delete"})
  /\ MayWrite(op[h].id)
  /\ rows' = WithoutRow(rows, op[h].id)
  /\ Answered(h, op[h].id, Stub)
  /\ UNCHANGED spent

\* Teammates share, edit and remove views.
Edit == edits < MaxEdits /\ edits' = edits + 1

teammateWrites(v, w) ==
  /\ Edit
  /\ v \notin spent \/ (v \in DOMAIN rows /\ "isShared" \in rows[v].flags)
  /\ spent' = spent \cup {v}
  /\ rows' = WithRow(rows, v, w)
  /\ searchUnchanged /\ UNCHANGED <<views, viewsReady, op, clicks>>

teammateRemoves(v) ==
  /\ Edit
  /\ v \in DOMAIN rows /\ "isShared" \in rows[v].flags
  /\ rows' = WithoutRow(rows, v)
  /\ searchUnchanged /\ UNCHANGED <<views, viewsReady, spent, op, clicks>>

\* Either request may be rejected: savedViewsError, and nothing else.
opRejected(h) ==
  /\ op[h].stage \in {"request", "list", "listed"}
  /\ op' = [op EXCEPT ![h] = NoOp]
  /\ searchUnchanged /\ UNCHANGED <<views, viewsReady, rows, spent, clicks, edits>>

\* The server reads the list the handler asked for after its answer.
listIsRead(h) ==
  /\ op[h].stage = "list"
  /\ op' = [op EXCEPT ![h] = [op[h] EXCEPT !.stage = "listed", !.list = rows]]
  /\ searchUnchanged /\ UNCHANGED <<views, viewsReady, rows, spent, clicks, edits>>

\* Overwriting, renaming and setting the default skip a stub.
AppliesView(o) == o.kind \in {"save", "duplicate"} \/ (o.kind # "delete" /\ o.def # Stub)

\* Variant that applies the view as the list has it.
listAppliesRow(h) ==
  /\ op[h].stage = "listed"
  /\ views' = op[h].list
  /\ op' = [op EXCEPT ![h] = NoOp]
  /\ IF op[h].id \in DOMAIN op[h].list
     THEN applySavedView(op[h].url, op[h].local, op[h].id, op[h].list[op[h].id].def)
     ELSE searchUnchanged
  /\ UNCHANGED <<viewsReady, rows, spent, clicks, edits>>

\* The list arrives, which another handler's may have overtaken; the handler then
\* navigates from its own closure to the view of its own answer.
listArrives(h) ==
  /\ op[h].stage = "listed"
  /\ views' = op[h].list
  /\ op' = [op EXCEPT ![h] = NoOp]
  /\ CASE op[h].kind = "delete" -> UpdateFrom(op[h].url, op[h].local, [view |-> NoView])
       [] AppliesView(op[h]) -> applySavedView(op[h].url, op[h].local, op[h].id, op[h].def)
       [] OTHER -> searchUnchanged
  /\ UNCHANGED <<viewsReady, rows, spent, clicks, edits>>

(* Answers to the five requests of loadResults. *)

\* Variant without the effect's flag.
DeliverAnyway(f) == TRUE

Deliverable(f) == f.active

Arrived(f) ==
  /\ f \in flights
  /\ flights' = flights \ {f}
  /\ UNCHANGED <<url, prevUrl, local, stored, clicks>>
  /\ viewsUnchanged

\* more: the result has a next page; plan: the explanation came too.
resultsArrive(f, more, plan) ==
  /\ Arrived(f)
  /\ IF Deliverable(f)
     THEN /\ shown' = f.search
          /\ nextToken' = IF more THEN [scope |-> f.search.scope, page |-> f.search.page + 1] ELSE NoToken
          /\ aiPlan' = (plan /\ f.search.scope.query # NoText)
          /\ loading' = FALSE
          /\ UNCHANGED failed
     ELSE UNCHANGED <<shown, nextToken, aiPlan, loading, failed>>

\* Variant that clears the flag on success only.
keepLoading(f) ==
  /\ Arrived(f)
  /\ failed' = (failed \/ f.active)
  /\ UNCHANGED <<shown, nextToken, aiPlan, loading>>

resultsFail(f) ==
  /\ Arrived(f)
  /\ IF Deliverable(f)
     THEN failed' = TRUE /\ nextToken' = NoToken /\ loading' = FALSE /\ UNCHANGED <<shown, aiPlan>>
     ELSE UNCHANGED <<shown, nextToken, aiPlan, loading, failed>>

Answers == \E f \in flights : resultsFail(f) \/ \E more, plan \in BOOLEAN : resultsArrive(f, more, plan)

PanelStep ==
  \/ \E q \in Texts \cup {NoText}, f \in FilterVals \cup {NoFilter}, sort \in Sorts :
       \/ \E d \in Durations : handleSearch(q, f, sort, "rel", d, NoRange, FALSE)
       \/ \E r \in Ranges, share \in BOOLEAN : handleSearch(q, f, sort, "abs", DefaultDuration, r, share)
  \/ resetFilters \/ onDiscardAiPlan \/ retry \/ goBack
  \/ \E chip \in {"query", "filter"} : onRemoveChip(chip)
  \/ \E e \in Exclusions : onRemoveExclusion(e)
  \/ \E f \in FilterVals \cup {url.filter}, fs \in SUBSET Facets, r \in Ranges \cup {NoRange} : onApplyAiPlan(f, fs, r)

ResultStep ==
  \/ \E mode \in {"raw", "patterns"} : setMode(mode)
  \/ \E r \in Ranges : onSelectBucket(r)
  \/ \E f \in Facets : onToggleFacet(f) \/ onAddFilter(f)
  \/ \E p \in Patterns : onOpenPattern(p) \/ onConvertToFilter(p)
  \/ \E page \in 1 .. MaxPage : onPageChange(page)
  \/ \E size \in Sizes : onPageSizeChange(size)
  \/ \E c \in Columns : onAddColumn(c)

OpKinds == {"save", "overwrite", "duplicate", "rename", "setDefault", "delete"}

HandlerStep(h) ==
  \/ \E kind \in OpKinds : openOp(h, kind)
  \/ \E confirmed \in BOOLEAN, wanted \in SUBSET {"isShared", "isDefault"} : answerDialog(h, confirmed, wanted)
  \/ \E v \in SavedIds : createSavedLogView(h, v) \/ duplicateSavedLogView(h, v)
  \/ updateSavedLogView(h) \/ updateAnswersStub(h) \/ deleteSavedLogView(h)
  \/ opRejected(h) \/ listIsRead(h) \/ listArrives(h)

ViewBarStep ==
  \/ getSavedLogViews \/ getSavedLogViewsFails
  \/ \E v \in SavedIds \cup {NoView} : onSelect(v)
  \/ \E h \in Handlers : HandlerStep(h)

TeamStep == \E v \in SavedIds : teammateRemoves(v) \/ \E w \in TeamRows : teammateWrites(v, w)

ScreenNext == PanelStep \/ ResultStep \/ ViewBarStep \/ TeamStep \/ Answers

ScreenSpec == ScreenInit /\ [][ScreenNext]_screenVars

\* The API answers or the fetch rejects.
ScreenFairness == WF_screenVars(Answers)

(***************************************************************************)
(* Results on screen belong to the search in the URL: answers of earlier   *)
(* searches, retries and half-finished view operations, arriving in any    *)
(* order, never replace them.                                              *)
(***************************************************************************)
ShownIsCurrent == Settled => shown = Search(url, local)

(***************************************************************************)
(* A page token in the URL was issued for the criteria and the page of     *)
(* that URL: no handler, and none that finishes with an old closure, takes *)
(* the token of one search into another.                                   *)
(***************************************************************************)
TokenMatchesSearch == url.token # NoToken => url.token = [scope |-> Scope(url), page |-> url.page]

(***************************************************************************)
(* Reloading the tab repeats an absolute search: its range is in the URL   *)
(* or the one kept in sessionStorage (search-panel.tsx:319, "otherwise     *)
(* stored locally in this browser").                                       *)
(***************************************************************************)
ReloadKeepsRange == url.tr = "abs" => currentTimeRange(url, local) = MountRange(url)

\* The search a handler was asked to show: saving and overwriting keep the one
\* that was on screen, the others show the view their request was answered with.
SearchOf(o) == IF o.kind \in {"save", "overwrite"} THEN Definition(o.url, o.local) ELSE o.def

\* A step in which a handler selects a view shows its search.
AppliedIsShown ==
  \A h \in Handlers :
    listArrives(h) /\ AppliesView(op[h]) => url'.view = op[h].id /\ Definition(url', local') = SearchOf(op[h])

(***************************************************************************)
(* A saved-view handler that ends in selecting a view shows the search it  *)
(* was clicked for: after saving or overwriting the one on screen at the   *)
(* click, otherwise the one in the answer to its own request.  Other       *)
(* handlers under way, teammates' writes, lists that are out of date and   *)
(* what the user has searched for meanwhile make no difference             *)
(* (screen.tsx:438, 455, 470, 485, 499).                                   *)
(***************************************************************************)
AppliedViewIsShown == [][AppliedIsShown]_screenVars

(***************************************************************************)
(* What useLogSearch keeps in the URL and in sessionStorage is enough and  *)
(* right: page tokens are those of the search, and a reload repeats it.    *)
(***************************************************************************)
UrlKeepsSearch == TokenMatchesSearch /\ ReloadKeepsRange

\* Why: the effect whose flag is set is the one of this render.
FlightsInOrder ==
  \A f \in flights :
    /\ f = [search |-> f.search, active |-> f.active] /\ f.active \in BOOLEAN
    /\ f.active => loading /\ f.search = Search(url, local)

\* And nextPageToken is the one of the results, once they are there.
TokenIsNext == Settled => nextToken \in {NoToken, [scope |-> Scope(url), page |-> url.page + 1]}

ResultsIInv == loading \in BOOLEAN /\ failed \in BOOLEAN /\ FlightsInOrder /\ ShownIsCurrent /\ TokenIsNext

\* A range is known as soon as an absolute search has been made.
Ranged(u, l) == currentTimeRange(u, l) # NoRange

UrlIInv ==
  /\ Tidy(url) /\ Tidy(prevUrl) /\ Ranged(url, local)
  /\ url.tr = "abs" \/ prevUrl.tr = "abs" => stored # NoRange
  /\ url.tr = "abs" /\ url.from = NoRange => local = stored

ViewRows(t) == \A v \in DOMAIN t : Definite(t[v].def)

\* A handler under way has the URL of its click and the answer to its request.
OpSound(o) ==
  /\ DOMAIN o = DOMAIN NoOp
  /\ Tidy(o.url) /\ Ranged(o.url, o.local)
  /\ ViewRows(o.list)
  /\ o.stage \in {"list", "listed"} /\ AppliesView(o) => Definite(o.def) /\ o.def = SearchOf(o)

ViewBarIInv ==
  /\ ViewRows(rows) /\ ViewRows(views)
  /\ DOMAIN op = Handlers /\ \A h \in Handlers : OpSound(op[h])

ScreenIInv == ResultsIInv /\ UrlIInv /\ ViewBarIInv

(***************************************************************************)
(* The skeleton goes away: every search is answered or fails.              *)
(***************************************************************************)
LoadingEnds == loading ~> ~ loading
=============================================================================
