---------------------------- MODULE ConsolePages ----------------------------
(***************************************************************************)
(* Three smaller pages of the console that load or stream by themselves:   *)
(* the issue explorer (app/(dashboard)/issues/screen.tsx), the log detail  *)
(* (app/(dashboard)/logs/[id]/screen.tsx) and the live tail                *)
(* (components/logs/live-tail.tsx).                                        *)
(*                                                                         *)
(* The first two guard their loads with an `active` flag that the effect's *)
(* cleanup clears; the context request of the log detail has none.         *)
(***************************************************************************)
EXTENDS Naturals, FiniteSets

CONSTANTS ShownPages,  \* the pages to look at
          IssueFilters, \* filters and sort orders of the explorer
          DetailIds,    \* log ids
          TailFilters,  \* filters of the live tail
          MaxTurns,     \* bound on what the user does
          MaxIssuePage  \* bound on the pages of issues

CONSTANTS NoIssueFilter, NoLog

ASSUME PagesAssumption ==
  /\ ShownPages \subseteq {"issues", "detail", "tail"}
  /\ NoIssueFilter \in IssueFilters /\ NoLog \notin DetailIds /\ DetailIds # {} /\ TailFilters # {}
  /\ MaxTurns \in Nat /\ MaxIssuePage \in Nat \ {0}

Scopes == {"source", "service", "host"}

VARIABLES onPage, turns,
          issues,  \* url, inputs, loads under way, loading, error, and what is shown
          detail,  \* the log and its context
          tail     \* the streams

pageVars == <<onPage, turns, issues, detail, tail>>

FirstIssues == [filter |-> NoIssueFilter, page |-> 1]

PagesInit ==
  /\ onPage \in ShownPages
  /\ turns = 0
  /\ issues = [url |-> FirstIssues, input |-> NoIssueFilter, loads |-> {[search |-> FirstIssues, active |-> TRUE]},
               loading |-> TRUE, failed |-> FALSE, shown |-> FirstIssues]
  /\ detail \in {[id |-> d, loads |-> {[id |-> d, active |-> TRUE]}, loading |-> TRUE, failed |-> FALSE, log |-> NoLog,
                  scope |-> "source", asks |-> {}, askNo |-> 0, lastNo |-> 0, overtaken |-> FALSE,
                  context |-> [log |-> NoLog, scope |-> "source"]] : d \in DetailIds}
  /\ tail \in {[running |-> TRUE, filter |-> f, streams |-> {[no |-> 1, filter |-> f, state |-> "new"]}, no |-> 1,
                connected |-> FALSE] : f \in TailFilters}

Turn(p) == onPage = p /\ turns < MaxTurns /\ turns' = turns + 1

(* Issues *)

IssuesOnly == UNCHANGED <<onPage, detail, tail>>

\* Variant whose effect does not clean up.
AlsoLoad(loads, s) == loads \cup {[search |-> s, active |-> TRUE]}

\* The cleanup of the effect and its next run.
LoadIssues(loads, s) == {[f EXCEPT !.active = FALSE] : f \in loads} \cup {[search |-> s, active |-> TRUE]}

\* updateSearch: router.push, then the effects whose dependencies changed.
updateIssues(s) ==
  issues' = IF s = issues.url THEN issues
            ELSE [issues EXCEPT !.url = s, !.input = IF s.filter = issues.url.filter THEN @ ELSE s.filter,
                                !.loads = LoadIssues(@, s), !.loading = TRUE, !.failed = FALSE]

typeFilter(f) == Turn("issues") /\ issues' = [issues EXCEPT !.input = f] /\ IssuesOnly

applyFilter == Turn("issues") /\ updateIssues([filter |-> issues.input, page |-> 1]) /\ IssuesOnly

\* Reset pushes the default search; what was typed stays when that is the URL
\* already.
resetFilter == Turn("issues") /\ updateIssues(FirstIssues) /\ IssuesOnly

issuePage(n) ==
  /\ Turn("issues") /\ ~ issues.loading /\ ~ issues.failed
  /\ n \in {issues.url.page - 1, issues.url.page + 1}
  /\ updateIssues([issues.url EXCEPT !.page = n])
  /\ IssuesOnly

\* setReloadToken
retryIssues ==
  /\ Turn("issues") /\ issues.failed /\ ~ issues.loading
  /\ issues' = [issues EXCEPT !.loads = LoadIssues(@, issues.url), !.loading = TRUE, !.failed = FALSE]
  /\ IssuesOnly

getIssuesAnswers(f, ok) ==
  /\ onPage = "issues" /\ f \in issues.loads
  /\ issues' = IF f.active
               THEN [issues EXCEPT !.loads = @ \ {f}, !.loading = FALSE, !.failed = ~ ok,
                                   !.shown = IF ok THEN f.search ELSE @]
               ELSE [issues EXCEPT !.loads = @ \ {f}]
  /\ UNCHANGED turns /\ IssuesOnly

(* Log detail *)

DetailOnly == UNCHANGED <<onPage, issues, tail>>

\* The context effect of a render with log l and scope s.
AskContext(d, l, s) ==
  IF l = NoLog THEN d
  ELSE [d EXCEPT !.askNo = @ + 1, !.asks = @ \cup {[no |-> d.askNo + 1, log |-> l, scope |-> s]}]

openLog(id) ==
  /\ Turn("detail") /\ id # detail.id
  /\ detail' = [detail EXCEPT !.id = id, !.loading = TRUE, !.failed = FALSE,
                              !.loads = {[f EXCEPT !.active = FALSE] : f \in @} \cup {[id |-> id, active |-> TRUE]}]
  /\ DetailOnly

getLogById(f, ok) ==
  /\ onPage = "detail" /\ f \in detail.loads
  /\ LET rest == [detail EXCEPT !.loads = @ \ {f}]
         settled == [rest EXCEPT !.loading = FALSE]
     IN detail' = IF ~ f.active THEN rest
                  ELSE IF ok THEN [AskContext(settled, f.id, detail.scope) EXCEPT !.log = f.id]
                  ELSE [settled EXCEPT !.failed = TRUE]
  /\ UNCHANGED turns /\ DetailOnly

\* Variant whose effect does not depend on the scope.
scopeOnly(s) == Turn("detail") /\ ~ detail.loading /\ detail' = [detail EXCEPT !.scope = s] /\ DetailOnly

setContextScope(s) ==
  /\ Turn("detail") /\ ~ detail.loading /\ ~ detail.failed /\ s # detail.scope
  /\ detail' = [AskContext(detail, detail.log, s) EXCEPT !.scope = s]
  /\ DetailOnly

\* Whichever answer comes is shown, an empty context for a failure.
getLogContext(q, ok) ==
  /\ onPage = "detail" /\ q \in detail.asks
  /\ detail' = [detail EXCEPT !.asks = @ \ {q}, !.context = [log |-> q.log, scope |-> q.scope],
                              !.overtaken = q.no < detail.lastNo,
                              !.lastNo = IF q.no > @ THEN q.no ELSE @]
  /\ UNCHANGED turns /\ DetailOnly

(* Live tail *)

TailOnly == UNCHANGED <<onPage, issues, detail>>

\* Variant that leaves the old stream open.
LeaveOpen(t) == t.streams

\* The cleanup: source.close().
Closed(t) == {}

\* The effect: a new EventSource, or none while paused.
Stream(t, f, run) ==
  IF run THEN [t EXCEPT !.streams = Closed(t) \cup {[no |-> t.no + 1, filter |-> f, state |-> "new"]}, !.no = @ + 1,
                        !.filter = f, !.running = TRUE]
  ELSE [t EXCEPT !.streams = Closed(t), !.connected = FALSE, !.filter = f, !.running = FALSE]

setTailFilter(f) == Turn("tail") /\ f # tail.filter /\ tail' = Stream(tail, f, tail.running) /\ TailOnly

setRunning == Turn("tail") /\ tail' = Stream(tail, tail.filter, ~ tail.running) /\ TailOnly

\* EventSource reconnects by itself after an error.
streamEvent(s, state) ==
  /\ onPage = "tail" /\ s \in tail.streams /\ s.state # state
  /\ tail' = [tail EXCEPT !.streams = (@ \ {s}) \cup {[s EXCEPT !.state = state]}, !.connected = state = "open"]
  /\ UNCHANGED turns /\ TailOnly

PageAnswers ==
  \/ \E f \in issues.loads, ok \in BOOLEAN : getIssuesAnswers(f, ok)
  \/ \E f \in detail.loads, ok \in BOOLEAN : getLogById(f, ok)
  \/ \E q \in detail.asks, ok \in BOOLEAN : getLogContext(q, ok)

PagesNext ==
  \/ PageAnswers \/ applyFilter \/ resetFilter \/ retryIssues \/ setRunning
  \/ \E f \in IssueFilters : typeFilter(f)
  \/ \E n \in 1 .. MaxIssuePage : issuePage(n)
  \/ \E d \in DetailIds : openLog(d)
  \/ \E s \in Scopes : setContextScope(s)
  \/ \E f \in TailFilters : setTailFilter(f)
  \/ \E s \in tail.streams, state \in {"open", "error"} : streamEvent(s, state)

PagesSpec == PagesInit /\ [][PagesNext]_pageVars

\* The API answers or the fetch rejects.
PagesFairness == WF_pageVars(PageAnswers)

(***************************************************************************)
(* The issues on screen are those of the URL, whatever order the answers   *)
(* of earlier searches and retries arrive in.                              *)
(***************************************************************************)
IssuesAreCurrent == ~ issues.loading /\ ~ issues.failed => issues.shown = issues.url

(***************************************************************************)
(* The context under a log belongs to that log and the chosen scope once   *)
(* every context request is answered, unless the last answer was one that  *)
(* a newer request had overtaken: the effect has no `active` flag.         *)
(***************************************************************************)
ContextIsCurrent ==
  /\ ~ detail.loading /\ ~ detail.failed => detail.log = detail.id
  /\ ~ detail.loading /\ ~ detail.failed /\ detail.asks = {} /\ ~ detail.overtaken =>
       detail.context = [log |-> detail.log, scope |-> detail.scope]

(***************************************************************************)
(* A running tail has exactly one stream, with the filter that is typed    *)
(* in, a paused one has none; and the badge says Connected only if that    *)
(* stream has not failed.  (After a change of the filter the badge still   *)
(* tells of the stream before it.)                                         *)
(***************************************************************************)
OneStream ==
  /\ Cardinality(tail.streams) = IF tail.running THEN 1 ELSE 0
  /\ \A s \in tail.streams : s.filter = tail.filter /\ (tail.connected => s.state # "error")
  /\ ~ tail.running => ~ tail.connected

(***************************************************************************)
(* The load effects of IssueExplorer and LogDetail and the stream effect   *)
(* of LiveTail leave on screen what the page is set to, however the        *)
(* answers of earlier renders are ordered.                                 *)
(***************************************************************************)
PagesCurrent == IssuesAreCurrent /\ ContextIsCurrent /\ OneStream

\* Why, for the issues: the load whose flag is set is the one of the URL.
IssuesIInv ==
  /\ DOMAIN issues = {"url", "input", "loads", "loading", "failed", "shown"}
  /\ issues.loading \in BOOLEAN /\ issues.failed \in BOOLEAN
  /\ \A f \in issues.loads : /\ f = [search |-> f.search, active |-> f.active] /\ f.active \in BOOLEAN
                             /\ f.active => issues.loading /\ f.search = issues.url
  /\ IssuesAreCurrent

\* For the context: the newest request asks for what is chosen, and unless it
\* has been overtaken its answer is shown once it has come.
NewestAsksForChosen ==
  /\ \A q \in detail.asks :
       q.no \in 1 .. detail.askNo /\ (q.no = detail.askNo => q.log = detail.log /\ q.scope = detail.scope)
  /\ detail.lastNo = detail.askNo \/ \E q \in detail.asks : q.no = detail.askNo
  /\ detail.lastNo = detail.askNo /\ detail.askNo > 0 /\ ~ detail.overtaken =>
       detail.context = [log |-> detail.log, scope |-> detail.scope]

DetailIInv ==
  /\ DOMAIN detail = {"id", "loads", "loading", "failed", "log", "scope", "asks", "askNo", "lastNo", "overtaken", "context"}
  /\ detail.loading \in BOOLEAN /\ detail.failed \in BOOLEAN /\ detail.overtaken \in BOOLEAN
  /\ detail.id \in DetailIds /\ detail.askNo \in Nat /\ detail.lastNo \in 0 .. detail.askNo
  /\ \A f \in detail.loads : /\ f = [id |-> f.id, active |-> f.active] /\ f.active \in BOOLEAN
                             /\ f.active => detail.loading /\ f.id = detail.id
  /\ detail.log # NoLog => detail.askNo > 0
  /\ ~ detail.loading /\ ~ detail.failed => detail.log = detail.id
  /\ NewestAsksForChosen

\* For the tail: the effect's cleanup runs before its next run.
TailIInv ==
  /\ DOMAIN tail = {"running", "filter", "streams", "no", "connected"}
  /\ tail.running \in BOOLEAN /\ tail.connected \in BOOLEAN
  /\ tail.running => \E s \in tail.streams : tail.streams = {s}
  /\ ~ tail.running => tail.streams = {} /\ ~ tail.connected
  /\ \A s \in tail.streams : DOMAIN s = {"no", "filter", "state"} /\ s.filter = tail.filter /\ (tail.connected => s.state # "error")

PagesIInv == IssuesIInv /\ DetailIInv /\ TailIInv

\* What has its skeleton up.
PageWaits == (onPage = "issues" /\ issues.loading) \/ (onPage = "detail" /\ detail.loading)

(***************************************************************************)
(* The skeletons of the issue explorer and of the log detail go away.      *)
(***************************************************************************)
PagesLoad == PageWaits ~> ~ PageWaits
=============================================================================
