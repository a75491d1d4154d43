----------------------------- MODULE LogSearch ------------------------------
(***************************************************************************)
(* Searching one team's logs: QueryService.search with its natural-        *)
(* language plan (services/query, services/ai) and LogRepository.search    *)
(* (repositories/log-repository.ts), for a client that follows the page    *)
(* tokens while logs keep arriving.                                        *)
(*                                                                         *)
(* A page is two queries of ClickHouse sent together, a count and the      *)
(* rows; inserts fall between them.  A token is an offset.  Rows are       *)
(* ordered by `at` (timestamp and source), and rows with the same `at` in  *)
(* whatever order that one query happens to give.  The table is what lies  *)
(* in the time range of the search.  A request without a range gets the    *)
(* last hours before now (withDefaultSearchRange), so the range of a walk  *)
(* may slide from page to page.  That the language model may infer another *)
(* range is left out.                                                      *)
(***************************************************************************)
EXTENDS Integers, FiniteSets, FiniteSetsExt

CONSTANTS LogIds,
          Services,      \* values of the service column
          NoService,     \* a plan without a filter
          FirstTables,   \* tables a search may find
          HeuristicPlan, \* what the heuristic makes of the query
          MaxAt,         \* bound on `at`
          Ascending,     \* sortDirection
          PageLimit,     \* limit
          MaxRetries,    \* MAX_RETRIES
          MaxPages       \* bound on the pages a client fetches

Plans == [svc : Services \cup {NoService}, text : BOOLEAN]

LogRow == [at : 0 .. MaxAt, svc : Services, text : BOOLEAN]

ASSUME SearchAssumption ==
  /\ NoService \notin Services /\ HeuristicPlan \in Plans
  /\ IsFiniteSet(LogIds) /\ FirstTables \subseteq [LogIds -> LogRow]
  /\ Ascending \in BOOLEAN /\ MaxAt \in Nat \ {0} /\ PageLimit \in Nat \ {0} /\ MaxRetries \in Nat /\ MaxPages \in Nat \ {0}

VARIABLES table, \* the logs in the range; `at` 0: not there
          walk   \* the client's search and the handler of its current page

searchVars == <<table, walk>>

NoCount == -1
NoRows == {}  \* or {the page}

There(t) == {l \in LogIds : t[l].at # 0}

IdleWalk == [pc |-> "idle", natural |-> FALSE, attempt |-> 0, hints |-> {},
         plan |-> HeuristicPlan, relaxed |-> FALSE, offset |-> 0, total |-> NoCount, rows |-> NoRows,
         planned |-> NoRows, \* rows of the search that was relaxed
         seen |-> {}, start |-> {}, gone |-> {}, pages |-> 0, \* gone: slid out of the range
         first |-> HeuristicPlan, firstRelaxed |-> FALSE, \* the plan of the first page
         replanned |-> FALSE, \* a later page had another plan
         torn |-> FALSE, \* an insert fell between a count and its rows
         blurred |-> FALSE] \* a page ended within rows of one `at`, or the range slid away under an ascending walk

SearchInit == table \in FirstTables /\ walk = IdleWalk

\* buildScopedWhere: the filters, without which a relaxed search runs, and the
\* text terms.
Matching(t, plan, relaxed) ==
  {l \in There(t) : /\ relaxed \/ plan.svc = NoService \/ t[l].svc = plan.svc
                    /\ plan.text => t[l].text}

Before(a, b) == IF Ascending THEN table[a].at <= table[b].at ELSE table[a].at >= table[b].at

\* What LIMIT .. OFFSET may return of the rows ms.
Pages(ms, offset) ==
  LET skipped == Min({offset, Cardinality(ms)})
      size == Min({PageLimit, Cardinality(ms) - skipped})
  IN {p \in kSubset(size, ms) :
        \E q \in kSubset(skipped, ms \ p) : /\ \A a \in q, b \in p : Before(a, b)
                                            /\ \A a \in p \cup q, b \in ms \ (p \cup q) : Before(a, b)}

\* Ingestion goes on; a log may carry an old timestamp.  What comes after the
\* last page is left out.
insertLogs(l, r) ==
  /\ walk.pc \notin {"done", "failed"}
  /\ table[l].at = 0 /\ r.at # 0 /\ l \notin walk.gone
  /\ table' = [table EXCEPT ![l] = r]
  /\ walk' = [walk EXCEPT !.torn = @ \/ (walk.pc = "query" /\ walk.total # NoCount /\ walk.rows = NoRows)]

\* QueryService.search; a natural-language one gets its plan later.
search(natural, plan) ==
  /\ walk.pc = "idle"
  /\ natural => plan = HeuristicPlan
  /\ walk' = [IdleWalk EXCEPT !.pc = IF natural THEN "hints" ELSE "query", !.natural = natural, !.plan = plan,
                          !.start = There(table), !.pages = 1]
  /\ UNCHANGED table

loadFacetHints ==
  /\ walk.pc = "hints"
  /\ walk' = [walk EXCEPT !.pc = "translate", !.attempt = 0, !.hints = {table[l].svc : l \in There(table)}]
  /\ UNCHANGED table

\* A filter on a service that the hints do not know is dropped; without hints
\* it is kept.
validateGeneratedFilters(plan) ==
  IF walk.hints = {} \/ plan.svc \in walk.hints THEN plan ELSE [plan EXCEPT !.svc = NoService]

Planned(plan) ==
  /\ walk' = [walk EXCEPT !.pc = "query", !.plan = validateGeneratedFilters(plan), !.attempt = 0, !.hints = {}]
  /\ UNCHANGED table

\* The model answers, each time as it likes.
translateQueryWithLLM(plan) == walk.pc = "translate" /\ Planned(plan)

\* Variant that retries for as long as the error is one to retry.
RetryAgain(retryable) == retryable

Retries(retryable) == retryable /\ walk.attempt < MaxRetries

\* A failed attempt: a timeout, a rate limit or a server error is retried, any
\* other error and the last one fall back to the heuristic.
attemptFails(retryable) ==
  /\ walk.pc = "translate"
  /\ IF Retries(retryable)
     THEN walk' = [walk EXCEPT !.attempt = (@ + 1) % (MaxRetries + 1)] /\ UNCHANGED table
     ELSE Planned(HeuristicPlan)

\* LogRepository.search: both queries are under way at once.
countLogs ==
  /\ walk.pc = "query" /\ walk.total = NoCount
  /\ walk' = [walk EXCEPT !.total = Cardinality(Matching(table, walk.plan, walk.relaxed))]
  /\ UNCHANGED table

selectLogs ==
  LET pages == Pages(Matching(table, walk.plan, walk.relaxed), walk.offset) IN
  /\ walk.pc = "query" /\ walk.rows = NoRows
  /\ \E p \in pages : walk' = [walk EXCEPT !.rows = {p}, !.blurred = @ \/ Cardinality(pages) > 1]
  /\ UNCHANGED table

\* Variant that is off by one.
HasSecondRow(w) == w.offset + PageLimit + 1 < w.total

HasNextPage(w) == w.offset + PageLimit < w.total

\* Variant without the second search.
NeverRelaxes(w) == FALSE

Relaxes(w) == w.natural /\ w.total = 0 /\ w.plan.svc # NoService /\ ~ w.relaxed

\* When the relaxed search counts nothing either, the planned result stands.
AnswerRows(w) == IF w.relaxed /\ w.total = 0 THEN UNION w.planned ELSE UNION w.rows

\* The relaxed search, or the answer.
searchSettles ==
  /\ walk.pc = "query" /\ walk.total # NoCount /\ walk.rows # NoRows
  /\ walk' = IF Relaxes(walk)
             THEN [walk EXCEPT !.relaxed = TRUE, !.total = NoCount, !.planned = walk.rows, !.rows = NoRows]
             ELSE [walk EXCEPT !.pc = IF HasNextPage(walk) THEN "page" ELSE "done",
                               !.seen = @ \cup AnswerRows(walk), !.planned = NoRows,
                               !.first = IF walk.pages = 1 THEN walk.plan ELSE @,
                               !.firstRelaxed = IF walk.pages = 1 THEN walk.relaxed ELSE @,
                               !.replanned = @ \/ (walk.pages > 1 /\ (walk.plan # walk.first
                                                                     \/ walk.relaxed # walk.firstRelaxed))]
  /\ UNCHANGED table

\* ClickHouse rejects: the route answers 500.
queryRejects ==
  /\ walk.pc \in {"hints", "query"}
  /\ walk' = [walk EXCEPT !.pc = "failed"]
  /\ UNCHANGED table

\* The logs that are in the range no more when it begins after cut.
Left(cut) == {l \in There(table) : table[l].at <= cut}

\* resolveOffset: the same request with the token.  A natural-language one is
\* translated anew; one without a range covers what is left of the old one, and
\* what its new end takes in is as good as inserted.
nextPage(cut) ==
  /\ walk.pc = "page" /\ walk.pages < MaxPages
  /\ walk' = [walk EXCEPT !.pc = IF walk.natural THEN "hints" ELSE "query", !.offset = @ + PageLimit,
                          !.relaxed = FALSE, !.total = NoCount, !.rows = NoRows, !.pages = @ + 1,
                          !.start = @ \ Left(cut), !.gone = @ \cup Left(cut),
                          !.blurred = @ \/ (Ascending /\ Left(cut) # {})]
  /\ table' = [l \in LogIds |-> IF l \in Left(cut) THEN [table[l] EXCEPT !.at = 0] ELSE table[l]]

PageStep ==
  \/ loadFacetHints \/ countLogs \/ selectLogs \/ searchSettles \/ queryRejects
  \/ \E plan \in Plans : translateQueryWithLLM(plan)
  \/ \E retryable \in BOOLEAN : attemptFails(retryable)

SearchNext ==
  \/ PageStep
  \/ \E cut \in 0 .. MaxAt : nextPage(cut)
  \/ \E natural \in BOOLEAN, plan \in Plans : search(natural, plan)
  \/ \E l \in LogIds, r \in LogRow : insertLogs(l, r)

SearchSpec == SearchInit /\ [][SearchNext]_searchVars

\* Every query and every call of the model resolves or rejects.
SearchFairness == WF_searchVars(PageStep)

(***************************************************************************)
(* Following the tokens to the end leaves out no log that matched when the *)
(* walk began and has not slid out of the range, wherever logs inserted    *)
(* meanwhile fall in the order; unless an insert fell between a count and  *)
(* its rows (the last row is then pushed beyond the page the count calls   *)
(* the last), a page ended within rows of one timestamp and source, a      *)
(* range that slid took away rows in front of the others (oldest first),   *)
(* or the language model planned the pages differently.                    *)
(***************************************************************************)
WalkComplete ==
  walk.pc = "done" /\ ~ walk.torn /\ ~ walk.blurred /\ ~ walk.replanned =>
    walk.start \cap Matching(table, walk.plan, walk.relaxed) \subseteq walk.seen

(***************************************************************************)
(* A natural-language search that finds nothing means that nothing matched *)
(* its text when it began: a filter the model made up never hides logs.    *)
(***************************************************************************)
EmptyMeansNone ==
  walk.pc = "done" /\ walk.natural /\ walk.pages = 1 /\ walk.total = 0 =>
    walk.start \cap Matching(table, walk.plan, TRUE) = {}

(***************************************************************************)
(* LogRepository.search loses no log to its page tokens, and               *)
(* QueryService.search no log to a filter the model made up.               *)
(***************************************************************************)
SearchSound == WalkComplete /\ EmptyMeansNone

(***************************************************************************)
(* Every page is answered, although each attempt of the language model may *)
(* fail in a way that is retried.                                          *)
(***************************************************************************)
PageAnswered == walk.pc \in {"hints", "translate", "query"} ~> walk.pc \in {"page", "done", "failed"}

(***************************************************************************)
(* The invariant behind SearchSound.                                       *)
(***************************************************************************)
WalkRecord ==
  [pc : {"idle", "hints", "translate", "query", "page", "done", "failed"}, natural : BOOLEAN,
   attempt : Nat, hints : SUBSET Services, plan : Plans, relaxed : BOOLEAN, offset : Nat,
   total : Nat \cup {NoCount}, rows : SUBSET SUBSET LogIds, planned : SUBSET SUBSET LogIds,
   seen : SUBSET LogIds, start : SUBSET LogIds, gone : SUBSET LogIds, pages : Nat, first : Plans, firstRelaxed : BOOLEAN,
   replanned : BOOLEAN, torn : BOOLEAN, blurred : BOOLEAN]

SearchTypeOK ==
  /\ table \in [LogIds -> LogRow] /\ walk \in WalkRecord
  /\ walk.start \subseteq There(table)

\* The query that runs, and the one that the earlier pages belong to.
Found == Matching(table, walk.plan, walk.relaxed)

FoundFirst == Matching(table, walk.first, walk.firstRelaxed)

\* The rows that ORDER BY may put in front of a.
Ahead(a, ms) == {b \in ms \ {a} : Before(b, a)}

\* What was there when the walk began and the client has not got has at
\* least n rows in front of it: an offset of n does not skip it.
BehindBy(n, ms, got) == \A a \in (walk.start \cap ms) \ got : Cardinality(Ahead(a, ms)) >= n

Steady == ~ walk.blurred /\ ~ walk.replanned

SamePlan == walk.pages = 1 \/ (walk.plan = walk.first /\ walk.relaxed = walk.firstRelaxed)

\* A handler that has not sent its queries has nothing of them, and the first
\* page starts at 0.
Fresh ==
  /\ walk.pc \in {"idle", "hints", "translate"} => walk.total = NoCount /\ walk.rows = NoRows
  /\ walk.pc # "idle" => walk.pages >= 1
  /\ walk.pages = 1 => walk.offset = 0

\* Between the pages: inserts only push a row back, towards the later pages.
UnseenBehind ==
  Steady =>
    /\ walk.pc \in {"hints", "translate", "query"} /\ walk.pages > 1 => BehindBy(walk.offset, FoundFirst, walk.seen)
    /\ walk.pc = "page" => BehindBy(walk.offset + PageLimit, FoundFirst, walk.seen)

\* Once the rows are there.
RowsBehind ==
  Steady /\ SamePlan /\ walk.pc = "query" /\ walk.rows # NoRows =>
    BehindBy(walk.offset + PageLimit, Found, walk.seen \cup UNION walk.rows)

\* A count that waits for its rows is the count of now.
CountHolds ==
  walk.pc = "query" /\ walk.total # NoCount /\ walk.rows = NoRows /\ ~ walk.torn => walk.total = Cardinality(Found)

\* When the count says that this page is the last one, it is.
LastRows ==
  Steady /\ SamePlan /\ ~ walk.torn /\ walk.pc = "query" /\ walk.total # NoCount /\ walk.rows # NoRows
    /\ walk.total <= walk.offset + PageLimit =>
      walk.start \cap Found \subseteq walk.seen \cup UNION walk.rows

\* A count of nothing, and what a search answers it with.
CountedNone ==
  /\ walk.total = 0 => walk.start \cap Found = {}
  /\ walk.pc = "done" /\ walk.natural /\ walk.total = 0 => walk.relaxed \/ walk.plan.svc = NoService

SearchIInv ==
  /\ SearchTypeOK /\ Fresh /\ UnseenBehind /\ RowsBehind /\ CountHolds /\ LastRows /\ CountedNone /\ WalkComplete
=============================================================================
