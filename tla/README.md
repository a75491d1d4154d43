# Telerithm in TLA+

Telerithm is a self-hosted log platform: one Node.js backend (Express, Prisma on
PostgreSQL, ClickHouse for logs, Redis as a cache), a Next.js frontend, a
JavaScript SDK and shell log shippers. The backend is one process, but almost
nothing in it is atomic: every request is a chain of awaited statements without a
transaction, the alert loop is another such chain, and events, timers and
unawaited promises run beside them. What can go wrong there is what this project
models. Paths below are relative to `src/backend/src/` unless they say otherwise.

## 1. Inventory

| Component | State | Operations | Talks to | What is hard | What makes it correct |
|---|---|---|---|---|---|
| `AlertService` and the alert routes (`services/alert/alert-service.ts`, `api/rest/router.ts`) | `AlertRule`, `MaintenanceWindow`, `AlertIncident`, `IncidentEvent` rows | create, update, delete, mute and unmute a rule; create and delete a window; acknowledge, resolve, reopen an incident | shares the rows with the worker | the status is read before the transaction; two people act on one incident; a rule is deleted under the worker | the timeline is the incident's history; nothing is orphaned |
| `AlertEvaluationWorker` (`services/alert/alert-evaluation-worker.ts`) | interval timer, `running` flag, the rules loaded for the current run | tick, load, per rule: mute, window lookup, OPEN lookup, counts, create, dispatch | stores, dispatcher | runs longer than the interval, stale rows, rejected queries, restart in the middle | no doubled incident; suppression honoured; a breached rule opens an incident; the flag is cleared |
| Subscriptions (`services/subscription/`) | `AlertSubscription` rows | create after a rule lookup, update, delete, `findForIncident` | rules (foreign key), dispatcher | a subscription is inserted while its rule is deleted | a subscription never widens to the team |
| `NotificationDispatcher` and channels (`services/notification/`) | tasks of `Promise.allSettled`, attempt counters, timers | dispatch, test message, send with retry | endpoints over HTTP or SMTP | time-out against late arrival, lost answers, silent endpoints, crash | the audience, bounded copies, an end |
| Invites and membership (`services/team/team-service.ts`) | `TeamInvite`, `TeamMember` rows | create, accept, revoke; admin add and remove | accounts | reads before the transaction | grants only new memberships, burns no invite |
| Accounts and sessions (same file) | `User`, `Session`, default team | register, login, approve, admin changes | invites, all gates | multi-statement sign-up, approval races | nobody is in before the admin; sessions are earned |
| Sources and API keys (same file) | `LogSource` rows | create, rotate, delete | ingestion | rotation during a request | a key admits logs to its own source |
| Ingestion (`ingestion/ingestion-service.ts`) | log rows in ClickHouse | POST `/ingest` | cache, live tail, issues | three stores in sequence, each able to reject | what is shown was stored |
| Live tail (`services/streaming/`) | event listeners, gauge | stream, close | ingestion | a client leaves while its gates are awaited | own team and stored logs only |
| Dashboard cache (`services/query/query-service.ts`, `cache/`) | Redis key with a time to live | read through, KEYS then DEL | ingestion | reader races invalidation | stale only by a race, and not for ever |
| Issues (`services/issue/`) | `Issue` rows | unawaited upsert, status change, assignee | ingestion | unordered upserts | counts equal what was published |
| Asynchronous query jobs (`services/query/query-service.ts`, poller in `src/frontend/src/lib/api/client.ts`) | an in-memory map of jobs; attempts of the poller | start, settle, poll, clean up | ClickHouse, console | clean-up against slow queries and slow pollers | a result is kept for its time to live, is missed only by age, and a wait ends |
| Saved log views (`services/log-view/`) | `LogView` rows with owner, shared and default flags | create, update, duplicate, delete | membership | judged on the loaded view, written by id; two statements for one default | rows change only by those who may change what they loaded; a default is the only one unless raced |
| Authorization gates (`api/rest/write-route.ts`, `router.ts`) | none | session, body, resource, membership, role, handler | every route | each gate a query of its own; any may reject | strangers learn nothing of a row; who is served was entitled; every request is answered |
| AI query translation (`services/ai/`, `services/query/`) | none | hints, retry, fallback, pruning, relaxed search | search route | each attempt may fail; filters are made up | a made-up filter hides no log; the retries end |
| URL guard, log parser, fingerprint, pattern normalizer | none | pure functions | notification, ingestion, query | boundaries | not modelled |
| Log search (`repositories/log-repository.ts`) | none | builds and runs SQL; page tokens | ClickHouse | count and rows are two queries, tokens are offsets, logs keep arriving, default ranges slide | following the tokens loses no log |
| Process (`server.ts`) | connections, timers | connect with retry, shutdown | all | crash between awaits | crash and restart are actions of the modules |
| SDK (`src/packages/sdk-js`) | buffer, timer, default client, wrapped console | init, log, capture, flush, close | ingestion | timer, batch, flush and close overlap; batches are lost | no log is sent twice, close leaves none behind, hooks are undone |
| Shell tools (`src/packages/cli`, `src/scripts`, `src/backend/scripts`) | files | ship with retry, back up, migrate | ingestion, PostgreSQL | retry | not modelled |
| Console: search screen (`src/frontend/src/hooks/use-log-search.ts`, `app/(dashboard)/logs/search/`) | URL, sessionStorage, results, saved views | search, filters, facets, patterns, pages, saved views, reload, Back | REST | answers out of order; saved-view handlers that overlap and resume with the state of an old render; teammates edit the same views | what is shown answers the search in the URL; the URL repeats it; a handler shows the view it was clicked for |
| Console: source panel (`components/settings/sources-panel.tsx`) | revealed keys, tickets, one busy id, dialogs | reveal, copy, create, rename, rotate, delete | REST | a key is rotated while it is fetched; a copy outlives its row | no row shows or copies a key known to be dead at that moment; a copy that outlives its row, which is documented as dropped, is at least as new as what was known at the press |
| Console: editable lists (`alerts/subscriptions/`, `components/alerts/`, `components/admin/`) | items, busy id, form | toggle, test, create, edit, approve, remove | REST | patches and refreshes overtake each other; forms reopened | once quiet, and if nobody else edits, the list is the server's |
| Console: issue list, log detail, live tail | filter, page, scope, stream | filter, page, open, scope, pause | REST, event stream | late answers | the page shows what it is set to |

`PROJECT.json` lists the components with their status and the hazards at the line
where each bites.

## 2. Modules

Alerting:

* `AlertStore` - the rows, their foreign keys and cascades, and the clock.
* `AlertService` - the API. A transition is two steps, the read (`assertIncidentInTeam`) and
  the transaction (`transitionIncident`), which repeats the status in its `where`
  clause. `AllowedFrom` and
  `Target` are `INCIDENT_TRANSITIONS`.
* `AlertWorker` - `start`, `stop`, the interval, `loadRules` and `evaluateRule`, one
  action per await,
  each query with a twin that rejects. `run[a]` is one activation of the
  evaluation: two activations exist so that an overlap could happen if `running`
  did not prevent it.
* `AlertEngine` - both over the same store with process start, shutdown and exit;
  the properties, and the inductive invariant `IInv`.
* `IncidentLifecycle` - the abstract specification: incidents with their
  timelines, each transition one atomic step of the documented state diagram.
* `AlertSuppression` - the engine with two history variables about mutes and
  windows.
* `AlertEngineProofs` - theorems.

Notification: `Subscriptions` (rows, including the rule's deletion) and
`NotificationDispatcher` (which extends it with calls, tasks, copies on the wire
and copies received), with `DispatcherProofs`.

Tenants: `TeamInvites` (one team of a multi-tenant instance) and `Accounts` (with
`AccountsProofs`). In both, a call holds its program counter and what it has read,
and a rejected statement ends the call and leaves what it wrote.

Logs: `LogEntries` (an entry is an item of a request to a source), `LiveStream`,
`DashboardCache` and `IssueTracking` are components; `Ingestion` composes them: one
`ingest` call inserts, invalidates in two steps, then emits to the streams and starts
the unawaited upserts. `IngestionProofs` has its theorems. A log's content is reduced to
an item, which decides whether it is valid, is an error, passes a filter and which
fingerprint it has.

Queries: `QueryJobs`; `JobPolling` extends it with the console's poller, so that
polls, other people's clean-ups, crashes and the clock interleave.
`LogSearch` is a client that follows page tokens while logs arrive: a page is a count
and a select, in any order, with inserts between them; a natural-language page first
loads hints and asks the language model, which answers as it likes or fails.
Rows with equal sort keys come in any order, one choice per query. A client that names
no range gets the last hours of each request: between two pages the oldest logs leave the
range (`Left`), and what its new end takes in is as good as inserted. `QueryProofs` has
the theorems of the three.

Access: `SavedViews` (requests of a team's members, each a role read, a load with its
judgement, and one or two writes) and `AccessGates`. There a route is a record of its
gates - where its team comes from, whether it has a body, which roles it needs, what
its handler does and may refuse (limits, a row or member that has gone, an assignee of
another team), and what it answers then - and one call
passes the gates of any route while the session, the role and the row change.
`AuthorizationProofs` has the theorems of these two and of `TeamInvites`.

Clients: `SearchScreen` (URL and sessionStorage as the hook keeps them, one action per
handler of the screen, and every load as a request that is answered later, or not; any
number of saved-view handlers at once, each from click through dialog, request and list
to its navigation, over a table of views that teammates edit too. The handlers skip the
stub of a view; `updateAnswersStub` gives them one, although the backend answers so only
to a request these handlers never send. Clearing the other default flags and the write
are one step here and two in `SavedViews`); `SourcesPanel`; `ListPanels` (three panels
that differ in how a reply reaches the list, for a user who is alone in editing its
rows: rules and users are shared in the product, and an edit by somebody else shows with
the next refresh); `ConsolePages` (issue list, log detail, live tail); `SdkClient`
(clients, their buffers and batches, the default client and the stack of console
wrappers; `close()` of no client and a constructor that throws within `init` included).
A React handler is one action up to each await; what it captured when it was created is
kept with it. `ClientProofs` has the theorems of the search screen, the pages and the
SDK, `PanelProofs` those of the source panel and the lists. In `SourcesPanel`,
`create.used` remembers the identifiers that creates have been given: the database
generates them and never gives one out again.

`MC*` modules give TLC its constants. `PROJECT.json` maps every definition to the
lines it stands for. Definitions introduced as a "Variant" are mutated forms of the
definition that follows them and are part of no specification: they show that a
property can fail.

### What is abstracted

Texts, e-mails, tokens, hashes, SQL, message bodies, HTTP statuses and log lines
are left out, except where a decision depends on them. Time is a small integer;
durations are numbers of ticks. A count query returns any number of a small set.
Prisma statements are atomic; two statements are not. `Exit`, `Crash` and
`Restart` may happen between any two awaits and clear exactly what is in memory.

## 3. Runs

All passing runs check deadlock freedom except `tenants`, where the last admin can
lock everybody out, itself included, and `members`, `server_parts`, `client_parts` and `search_screen`,
which come to rest once their bounded requests are answered.

`tenants` and `delivery` check two parts each, `members` and `server_parts` three,
`client_parts` five.
The parts of a run share no variable; `part` picks one in the initial state and the
others keep theirs, so a behaviour is a behaviour of one part, and a property of a part
holds or fails in it exactly as it would in a run of its own. Liveness of parts that do
not run holds trivially. `search_screen` checks one part in two scenes (`scene`), each
with bounds of its own.

| Run | Module, configuration | Shows |
|---|---|---|
| `incidents` | `MCAlertEngine`, `AlertEngine_incidents.cfg` | `TypeOK`, `TimelineIsHistory`, `OneUnreopenedOpen`, `NoOrphans`, and that the engine implements `IncidentLifecycle` |
| `alert_progress` | `AlertEngine_progress.cfg` | `EvaluationEnds`, `BreachedRuleOpens` |
| `suppression` | `MCAlertSuppression` | `SuppressionHonoured` |
| `members` | `MCMembers`, `Members.cfg` | subscriptions: `AudienceInv` (types and `DeliveredInScope`), `SubscribedRulesExist`, `ScopeKept`; invites: `InvitesInv`, `AcceptGrantsOnce`; views: `PrivateConcealed`, `ViewWrites`, `LoneDefault` |
| `tenants` | `MCTenants`, `Tenants.cfg` | ingestion: `TenantsInv` (types and `NoForgedLogs`), `StreamedIsStored`, `IssuesCountPublished`; accounts: `AdminComesFirst`, `SessionsInv` (types and `SessionsEarned`) |
| `delivery` | `MCDelivery`, `Delivery.cfg` | dispatcher: `AttemptsBounded`, `DispatchSettles`; dashboard summary: `StaleOnlyByRace`, `DashboardCatchesUp` |
| `server_parts` | `MCServerParts`, `ServerParts.cfg` | jobs: `ResultKept`, `MissingOnlyByAge`; gates: `GatesSound`; search: `SearchSound`; all: `ServerSettles` |
| `client_parts` | `MCClientParts`, `ClientParts.cfg` | sources: `KeysCurrent`; lists: `ListsSound`; pages: `PagesCurrent`; SDK: `NoLogTwice`, `CloseEmptiesBuffer`, `HooksUnwind`; all, the search screen too: `ClientSettles` |
| `search_screen` | `MCSearchScenes`, `SearchScenes.cfg` | `ShownIsCurrent`, `UrlKeepsSearch`, `AppliedViewIsShown` |
| `single_use_as_documented` | `TeamInvites_doc.cfg` | refutes the documented single use of an invite |
| `rejection_as_documented` | `Ingestion_rejection.cfg` | refutes the documented handling of rejections |
| `late_copy_as_documented` | `SourcesPanel`, `SourcesPanel.cfg` | refutes `LateReplyIsDropped`, the documented fate of a copy that outlives its row |

### Bounds

* `incidents`: one rule, two requests and two activations, three incidents, timelines
  of at most two events (`MaxEvents`). Rules do not share state other than the loop,
  and an overlap or a lost update needs two actors. Three incidents are one more than
  the worker's own and a reopened one. Requests and activations are symmetric. The
  theorems remove these bounds.
* `alert_progress`: one rule with one of three conditions, a mute of one tick and
  two incident identifiers. No symmetry, since liveness is checked.
* `suppression`: two windows, of the rule's team and another, clock 0..3, durations 1
  and 2, so that mutes and windows overlap, expire in the middle of a run and are
  replaced.
* `members`. Subscriptions: two of them, two rules, one attempt: subscriptions change
  scope and rules vanish while a call is sending. Invites: two accept requests for one
  invite, with revoke, expiry and admin changes. Views: an admin and a member whose role
  changes, two views, two concurrent requests and three in all, with bodies that edit,
  share, make default and undo each.
* `tenants`. Ingestion: two teams with a source each, two requests, three keys, so that
  each source has one and one can be rotated; one stream. Accounts: the `ADMIN_EMAIL`
  account and one other, two requests, approval mode, single tenant: the configuration
  with the longest chains. Admins give the team roles that sign-up gives
  (`RoleBounds`); the theorem covers the other roles and modes.
* `delivery`. Dispatcher: one subscription with the code's three attempts, so that a
  late copy of each attempt is possible. Dashboard: two ingests, one of which may have
  an invalid entry, and two readers, which is what it takes for one reader to undo the
  invalidation that the other has caused.
* `server_parts`. Jobs: one polled query with two attempts and one of somebody else, a
  time to live of 1 and a clock to 3, so that a job can be cleaned up while pending,
  settle, and be cleaned up again. Gates: every route once, from every combination of session,
  role and row, with one change meanwhile, which is what it takes to fall between two
  gates. Search: two logs, at one time or at two, one more to come at any time, pages of
  one row, three of them, and one retry; the heuristic guesses a service without logs.
* `search_screen`: a shared link with an absolute range, one value of each filter, two page
  sizes, one saved view and one to come, three clicks. Scene `screen`: every handler, one
  saved-view handler at a time (`ScreenBounds`), two loads under way: a
  late answer needs two loads, and a handler that resumes too late needs a dialog,
  another search and the resumption. Scene `bar`: two handlers
  (`Handlers`, symmetric), three clicks and one write by a teammate (`MaxEdits`), which
  changes a facet of the view: two handlers can overwrite one view, or a teammate can
  write it between a handler's answer and its list. Few of the search handlers take part
  there (`BarNext`) and one load at a time (`BarBounds`), since any one of them moves the
  search under a handler.
* `client_parts`. Search screen, for `ClientSettles`: two clicks and one saved-view
  handler. Sources: two sources and a new one, three keys, two presses.
  Lists: two rows and two requests, so that one reply or refresh can overtake the other.
  Pages: four changes of filter, page, log or scope. SDK: two clients, two logs, a batch
  size of 2, so that a batch fills or waits for the timer, and two closings, of a client or
  of none.

Clocks, timelines and identifiers are capped in the guards (`MaxClock`, `MaxEvents`,
`FreshIds`).

### Fairness

* `Scheduling` (alert engine): weak fairness of the start (the compose file's restart
  policy), of the interval and of each step of an evaluation (every await settles,
  one way or the other). `EvaluationEnds` needs no more. `BreachedRuleOpens` is stated
  under `StoresAnswer`: strong fairness of the answering form of each query, i.e. a
  store does not reject one rule's query for ever.
* Dispatcher: weak fairness of the timers and of the call's own steps. The network
  and the endpoints get none: copies may be lost, late or never answered.
* `CacheProgress`: Redis expires what it holds and a read under way is answered or
  rejected.
* `PollFairness`: ClickHouse answers or rejects each query, and the browser's timers and
  fetches go on; that a fetch throws is never required. `GatesFairness`,
  `SearchFairness`: every query of a handler resolves or rejects (which of the two is not
  said).
* `RunningScreen`, `PanelFairness`, `ListsFairness`, `PagesFairness`: the API answers a
  request under way, or its fetch rejects; which of the two, and in which order, is not
  said. `SdkFairness`: the interval timer of an open client fires, a send settles
  (`fetch.ts` aborts it after its timeout), and a settled promise resumes its caller.
  That a batch arrives is not assumed.

No fairness is assumed of people, clients or crashes.

## 4. Proofs

TLAPS checks the following for all values of the constants, under the named assumptions
of the modules. Most say that a set of rules, sources, keys, invites, subscriptions or
views is not empty, that a configuration value has its range, that a placeholder
(`NoKey`, `NoRange`, `NoView`, `NoLog`) is none of the values it stands beside, or that
a bound is a natural number; `ItemAssumption` adds that a request has finitely many
entries, without which they could not be counted. One is about the world:
`LinkAssumption` says that the search screen is opened with a link that the console
made, that such a link with an absolute time carries its range, and that stored views
were made by the console. An absolute link without a range, copied from the address bar
into another browser, starts with the last hour, which a reload moves: for such links
`UrlKeepsSearch` does not hold; the share option of the screen says so.

Each specification below is the component's own, without fairness; the `parts`
runs check the same formulas.

* `AlertEngineProofs`: `TypeCorrect`, `TimelineTheorem`, `DedupTheorem`,
  `NoOrphansTheorem` and `Refinement`. None of the safety invariants is
  inductive. `IInv` adds what the interleavings rest on:
  `RequestsAllowed` (a request about to commit read a status its action may start
  from, and its transaction asks for that status again), `OneEvaluation` (an
  activation that is under way holds `running`, and is the only one), and
  `LookupHolds` (after an evaluation found no OPEN incident of its rule, one that
  appears has been reopened). The effect lemmas (`IncidentEffects`, `RunEffects`,
  `DeleteEffect`, `TransitionEffect`, `CreateEffect`, `ReopenEffect`) say once what a
  step does to incidents and to runs, and there is one lemma per conjunct of `IInv`.
  `Refinement` follows from `IInv` step by step: reads stutter, commits are
  lifecycle steps.
* `AlertEngineProofs`, suppression (`SuppressionSpec`): `SuppressionTheorem`. `HeldIInv`
  follows a mute or a window that was in force when the rules were loaded: it is still in
  force (`HeldInForce`), the loaded rows of the rules that are still to be evaluated show
  the mute (`LoadedMutes`), so a rule under it is not taken (`TakenUnmuted`); the window
  began no later than the time of a lookup under way (`LookupCovers`), so the lookup finds
  it and the evaluation goes no further (`TakenUncovered`).
* `AccountsProofs`: `AdminFirstTheorem`, `SessionsTheorem`.
  `AccountsInv` adds that an ACTIVE account is remembered as such, that a sign-up past
  its insert belongs to an active account, and that before the `ADMIN_EMAIL` account
  exists every request is a sign-up that has stored nothing.
* `QueryProofs`, jobs (`JobsSpec`): `ResultKeptTheorem`. `SettledRecords` says why: a
  settled job is never started again and its record dates from when it settled, so the
  clean-up (`CleanedRecords`) spares it for the time to live.
* `QueryProofs`, polling (`PollSpec`): `MissingTheorem`, on top of the invariant of the
  table of jobs (`PollStepsJobs`: a step with the poller is a step of the table).
  `AwaitedRecords` says why: unless the server has crashed or the job is too old, the
  record a client waits for is there and no older than the job, so the clean-ups of
  other requests spare it (`CleanedSpares`). `TableStepKeeps` treats all steps of the
  table that are not this client's at once.
* `QueryProofs`, search (`SearchSpec`): `SearchTheorem`. `SearchIInv` says that a log which
  was there when the walk began and has not been seen has at least an offset's worth of
  matching rows in front of it (`UnseenBehind`, and `RowsBehind` with the page under way):
  inserts only add to them, and the next token skips no more than them. When the range
  slides, a log that stays in it keeps what is in front of it if the order is descending
  (`SlidBehind`); an ascending walk loses it, which `blurred` records. The lemmas about
  LIMIT and OFFSET carry it from page to page: a row skipped all the same is tied with a
  row of the page, and exchanging the two gives another page (`SkippedIsTied`); one
  that is neither skipped nor on the page has the page in front of it too (`PageInFront`).
  A count that no insert has torn from its rows is exact (`CountHolds`), so a page it calls
  the last one is (`LastRows`). `CountedNone` is about the relaxed search.
  `SearchAssumption` says that a table has finitely many rows.
* `AuthorizationProofs`: `InvitesTheorem`, `GrantsTheorem` (`Spec` of `TeamInvites`);
  `GatesTheorem` (`GatesSpec`); `ConcealedTheorem`, `ViewWritesTheorem`,
  `LoneDefaultTheorem` (`ViewsSpec`). `InvitesIInv` adds that nobody has joined with an
  invite that does not exist yet. `GatesIInv` adds that what holds now is among what
  held during the call (`NowIsWitnessed`), and what the gates behind the program
  counter have established (`GatesPassed`): the role that the handler acts on was held
  at some time of the call, though perhaps no longer. `ViewsIInv` adds that a call
  about to write was judged on the row it loaded (`CallJudged`) and that, as long as it
  was alone, the defaults it had to clear are cleared (`DefaultsCleared`).
* `DispatcherProofs`: `AudienceTheorem`, `AttemptsTheorem`, `RulesExistTheorem`,
  `ScopeTheorem`. `DispatcherIInv` says why nobody else is told: a task was started for
  a subscription in the scope of the incident (`StartedInScope`) and that scope never
  changes; and why the copies are bounded: a task in its back-off has an attempt left
  (`BackoffMayRetry`). A subscription whose insert is awaited does not exist yet
  (`AskedIsUnborn`), so that the foreign key is what decides its race with the deletion
  of the rule.
* `IngestionProofs`: `TenantsTheorem`, `StreamedTheorem`, `StaleTheorem`,
  `IssuesTheorem`. The invariant has one part per consumer of a log: `RequestsIInv`
  (a request past its key check holds a key that was issued for its source),
  `StreamIInv`, `CacheIInv` (`Explained`: a log that a summary or a reader lacks belongs
  to a request that has still to invalidate, has failed, or has overtaken the reader) and
  `IssueIInv` (`TrackedIsPublished`). Most steps leave the consumers alone; the lemmas
  about `Quiet` steps and `StaysUnfinished` treat those at once. The counting argument of
  `IssuesTheorem` uses the cardinality theorems for finite sets.
* `ClientProofs`, SDK (`SdkSpec`): `NoLogTwiceTheorem`, `BuffersTheorem`, `HooksTheorem`.
  `BuffersIInv` says that a log is in at most one buffer or batch, or has arrived, once
  (`OnceEach`), and that what is in a buffer is younger than every close of its client
  (`YoungerThanCloses`). `HooksIInv` says that what lies below a wrapper of the console
  is what its client found there (`WrappersStack`), and that, unless raced, the client of
  a close() under way is the default one and there is none while a close() of nothing is
  under way (`CloseIsOfDefault`).
* `ClientProofs`, search screen (`ScreenSpec`): `ShownTheorem`, `UrlTheorem`,
  `AppliedTheorem`. `ScreenIInv` says that a load whose flag is set is the one of this
  render (`FlightsInOrder`), that `nextPageToken` belongs to settled results
  (`TokenIsNext`), and that every URL is one `updateSearch` writes (`Tidy`): the current
  one, the one before it in the history, and those that the saved-view handlers under
  way have captured (`OpSound`). `AppliedTheorem` rests on the rest of `OpSound`: the
  definition in a handler's answer is the one of its click, if it saves or overwrites,
  and a complete one otherwise, so that what the navigation writes is read back as the
  same search. Nothing about the list or the other handlers is used, and of the table
  only that what is stored in it is complete. `MergedFields` and `MergedTidy` are the
  lemmas about `updateSearch`: what it writes, field by field, and that it keeps a URL
  tidy when its caller passes what the handlers pass (`Fits`).
* `ClientProofs`, pages (`PagesSpec`): `PagesTheorem`. `IssuesIInv` and the first half of
  `DetailIInv` are about the `active` flags, as on the search screen. The context of a
  log has no flag; `NewestAsksForChosen` says what takes its place: the newest request asks
  for what is chosen and, unless an older answer has come after its own, its answer is the
  one shown. `TailIInv` says that a running tail has its one stream.
* `PanelProofs`, source panel (`PanelSpec`): `KeysTheorem`. `PanelIInv` says that the
  server's key is never behind what the panel knows (`ServerIsAhead`,
  `RotationsAreServed`); that an answer under way is no older than what was known when it
  was asked for and, while its ticket is live, than what is known now (`AnswersAreNew`),
  which is why the clipboard of a row is held to the latter and that of a row which is
  gone only to the former (`CopiedIsNoOlder`);
  that until an action takes `busyId` over, one request for a row is under way
  (`OneAtATime`); and that a source which is still to be created has left no trace
  (`UnmadeLeavesNoTrace`).
* `PanelProofs`, lists (`ListsSpec`): `ListsTheorem`. `ListsIInv` says that a panel which
  refreshes shows the server's rows, or that a reply or a refresh which will bring them is
  under way (`RowsOnTheirWay`); that the user table differs from them by the one answer
  under way (`UsersInStep`); and that a form without a request of an earlier opening is
  pending as long as its own is (`FormInStep`).

`SdkInvariance`, `ScreenInvariance` and `PagesInvariance` are the inductive invariants
as theorems. TLC checked each inductive invariant on a small instance before it was
proved.

Every safety property of the passing runs is stated by a theorem. Only model-checked are
the liveness properties, since fairness is out of the prover's reach: `EvaluationEnds`,
`BreachedRuleOpens`, `DispatchSettles`, `DashboardCatchesUp`, `ServerSettles` and
`ClientSettles`.

`AlertEngine` is shown to implement `IncidentLifecycle` twice: `ImplementsLifecycle` is
the abstract specification instantiated with the engine's incidents and timelines
(`Lifecycle == INSTANCE IncidentLifecycle WITH ...`), checked by TLC in `incidents` and
proved as `Refinement`.

## 5. Where code and documents disagree

* `acceptInvite` checks `usedAt` before its transaction and not in it: two accounts
  can join with one open invite, which the documentation calls single-use
  (`single_use_as_documented`).
* `authenticateApiKey` is mounted without `asyncHandler`: a rejected lookup ends the
  process, not the request (`rejection_as_documented`).
* `sources-panel.tsx` says that a reply which arrives after a rotation or an unmount is
  dropped. A rotation remounts the row, so the generation that the continuation of an
  earlier Copy compares is never moved, and the reply reaches the clipboard: the old key,
  if the server answered before it rotated (`late_copy_as_documented`).

The model also contains these, which no run isolates:

* A reopen between the worker's OPEN lookup and its create leaves two OPEN incidents of
  a rule in one process. `OneUnreopenedOpen` is what the worker does guarantee.
* A mute set after the loop loaded its rules is not seen by that run.
  `SuppressionHonoured` is what holds.
* Two first sign-ups of a single-tenant instance can both find no default team; the
  loser is stored ACTIVE without a team, and its retry is told that the user exists
  (`createDefaultTeam` in `Accounts`).
* A client that leaves while its stream request awaits the gates is subscribed
  afterwards; listener, heartbeat and gauge stay until the process ends (`gone` in
  `LiveStream`).
* Log search: a log inserted between the count and the rows of the last page pushes the
  last row beyond it (`torn`); a page that ends within rows of one timestamp and source
  may repeat or skip one, and so may an ascending walk whose default range slides
  (`blurred`); each natural-language page is translated anew (`replanned`).
  `WalkComplete` is what holds without them. A filter of the model on `sourceId` is
  looked up in the log's fields, where it matches nothing.
* Saved views: sharing a private default can leave two defaults in the list, a write may
  land on a view that was unshared meanwhile, and two requests that set a default
  both may win. `LoneDefault` is what an undisturbed request gets; it does not catch
  these races.
* Gates: a session lookup or an admin lookup that rejects is answered 401, as if nobody
  were signed in.
* Search screen: saved-view handlers resume with the search they were created with and
  undo one made meanwhile; nothing keeps two of them from overlapping, so the last to
  finish decides which view is selected, shows the definition of its own answer although
  another handler or a teammate has replaced it since, and may put back an older list;
  Back to an absolute search whose link was not shared takes the range from
  sessionStorage, which may be a later one; the default view is never applied on opening
  the screen.
* Source panel: one busy id for all rows, so a second action enables the first row
  while its request is under way; Cancel during a create hides the key that is created.
* Lists: a late success closes the form that is open by then, a late failure clears its
  pending flag, and the user table never refreshes, so two overlapping
  requests of it can leave the list out of step.
* Log detail: the context effect has no clean-up, so the context of another scope can
  arrive late (`overtaken`; `PagesCurrent` is what holds without it); live tail: the
  badge says Connected after a filter change until the new stream reports.
* SDK: a lost batch is not sent again; `close()` forgets the default client after an await
  and with it one installed meanwhile (`raced`), even if there was nothing to close; an
  `init` whose constructor throws leaves the closed client as the default one, whose logs
  nothing but an explicit flush sends; clients closed in another order than they were
  opened leave a wrapper behind or take away another one's. `HooksUnwind` excludes the
  race and the order, and says that there is no other way.

## 6. What is left

Not modelled, and why:

* The composition of the alert engine with the dispatcher: an incident whose process
  dies before anybody is told stays untold, and the code promises nothing about it.
* The second write of `PUT /issues/:id`, `connectWithRetry` and the forced exit.
* URL guard, log parser, fingerprint and pattern normalizer: functions of texts and
  addresses, whose models would be copies.
* The text of the SQL and the one-statement reads (facets, histogram, patterns, context,
  log by id).
* OpenAPI, configuration, metrics, logging, seeds, database clients, sign-in pages and
  layout: no state that a property here could be about.
* Shell tools, CI scripts: sequential, they stop at the first failure or retry a fixed
  number of times.

## 7. Running

    tlc -workers 2 -config AlertEngine_incidents.cfg MCAlertEngine
    tlapm AlertEngineProofs.tla

Each run takes at most about four minutes with two workers, the proofs of a module
between a few seconds and a few minutes.
