----------------------------- MODULE SdkClient -----------------------------
(***************************************************************************)
(* The JavaScript SDK (src/packages/sdk-js/src): TelerithmClient with its  *)
(* buffer, flush timer, global error handlers and console breadcrumbs, the *)
(* default client of index.ts, and the fetch transport, which never        *)
(* retries.  An application may hold any number of clients and keep using  *)
(* one after it closed it.  Logs are numbered.  Of the breadcrumbs only    *)
(* who listens to the console is kept: their texts go into fields of a log.*)
(***************************************************************************)
EXTENDS Naturals, Sequences, FiniteSets, SequencesExt

CONSTANTS MaxClients,   \* bound on the clients ever constructed
          MaxSdkLogs,   \* bound on the logs
          MaxClosings,  \* bound on the calls of close
          BatchSize,    \* batchSize
          AutoCapture,  \* clients constructed with autoCapture
          Breadcrumbs   \* clients constructed with breadcrumbs

ASSUME SdkBoundAssumption ==
  /\ MaxClients \in Nat \ {0} /\ MaxSdkLogs \in Nat /\ MaxClosings \in Nat
  /\ BatchSize \in Nat \ {0}
  /\ AutoCapture \subseteq 1 .. MaxClients /\ Breadcrumbs \subseteq 1 .. MaxClients

NoClient == 0
SdkIds == 1 .. MaxClients

VARIABLES inst,          \* "none", "open", or "closed" once close has run
          logged,        \* how many logs the clients have been given
          queue,         \* the buffer
          pending,       \* batches whose fetch has not settled
          wire,          \* batches that may still reach the backend
          arrived,       \* how often the backend has received each log
          handlers,      \* clients with global error handlers installed
          console,       \* the wrappers around console.warn, innermost first
          orig,          \* what each client found there
          defaultClient,
          closings,      \* calls of close() of index.ts that await their flush
          idleCloses,    \* calls of close() that had no client to close and have not resumed
          closeCalls,
          flushed,       \* logs each client had been given when a close of it resolved
          raced          \* init was called while a close() of index.ts was awaited

sdkVars == <<inst, logged, queue, pending, wire, arrived, handlers, console, orig, defaultClient,
             closings, idleCloses, closeCalls, flushed, raced>>

sdkBuffers == <<logged, queue, pending, wire>>
sdkHooks == <<handlers, console, orig>>

SdkInit ==
  /\ inst = [c \in SdkIds |-> "none"]
  /\ logged = 0
  /\ queue = [c \in SdkIds |-> <<>>]
  /\ pending = {} /\ wire = {}
  /\ arrived = [n \in 1 .. MaxSdkLogs |-> 0]
  /\ handlers = {}
  /\ console = <<>>
  /\ orig = [c \in SdkIds |-> <<>>]
  /\ defaultClient = NoClient
  /\ closings = {} /\ idleCloses = 0 /\ closeCalls = 0
  /\ flushed = [c \in SdkIds |-> 0]
  /\ raced = FALSE

BatchOf(c, logs) == [client |-> c, logs |-> logs]

\* Variant that empties the buffer when the request has been answered.
KeepBuffer(cs, q) ==
  /\ queue' = q
  /\ pending' = pending \cup {BatchOf(c, q[c]) : c \in {d \in cs : q[d] # <<>>}}
  /\ wire' = wire \cup {BatchOf(c, q[c]) : c \in {d \in cs : q[d] # <<>>}}

\* flush of the clients cs with buffers q: splice, then sendBatch.
Flush(cs, q) ==
  LET sent == {BatchOf(c, q[c]) : c \in {d \in cs : q[d] # <<>>}} IN
  /\ queue' = [c \in SdkIds |-> IF c \in cs THEN <<>> ELSE q[c]]
  /\ pending' = pending \cup sent
  /\ wire' = wire \cup sent

\* log on the clients cs; no two of them get the same number.
PushLog(cs) ==
  LET number(c) == logged + Cardinality({d \in cs : d <= c})
      q == [c \in SdkIds |-> IF c \in cs THEN Append(queue[c], number(c)) ELSE queue[c]]
  IN /\ cs # {} /\ \A c \in cs : inst[c] # "none"
     /\ logged + Cardinality(cs) <= MaxSdkLogs
     /\ logged' = logged + Cardinality(cs)
     /\ Flush({c \in cs : Len(q[c]) >= BatchSize}, q)
     /\ UNCHANGED <<inst, arrived, sdkHooks, defaultClient, closings, idleCloses, closeCalls, flushed, raced>>

\* log, its shorthands and captureError, on a client or on the default one
sdkLog(c) == PushLog({c})

\* An uncaught error reaches the handlers of every client.
globalError == PushLog(handlers)

NextClient(c) == inst[c] = "none" /\ \A d \in 1 .. c - 1 : inst[d] # "none"

\* What the constructor hooks up, over the console and handlers it finds.
Hook(c, handled, cons) ==
  /\ console' = IF c \in Breadcrumbs THEN Append(cons, c) ELSE cons
  /\ orig' = [orig EXCEPT ![c] = cons]
  /\ handlers' = IF c \in AutoCapture THEN handled \cup {c} ELSE handled

\* new TelerithmClient
construct(c) ==
  /\ NextClient(c)
  /\ inst' = [inst EXCEPT ![c] = "open"]
  /\ Hook(c, handlers, console)
  /\ UNCHANGED <<sdkBuffers, arrived, defaultClient, closings, idleCloses, closeCalls, flushed, raced>>

\* Variant that leaves the console wrapped.
LeaveConsole(c) == console

\* teardown restores what the client found, the first time only.
Teardown(c) == IF inst[c] = "open" /\ c \in Breadcrumbs THEN orig[c] ELSE console

\* Variant that tears down without sending the buffer.
CloseDry(c) ==
  /\ inst' = [inst EXCEPT ![c] = "closed"]
  /\ UNCHANGED <<queue, pending, wire>>

\* The synchronous part of close: timer, hooks, and the splice of flush.
CloseSync(c) ==
  /\ inst' = [inst EXCEPT ![c] = "closed"]
  /\ Flush({c}, queue)

Closing(c, global) ==
  [client |-> c, logs |-> queue[c], upTo |-> logged, global |-> global]

CloseNow(c) ==
  /\ CloseSync(c)
  /\ console' = Teardown(c)
  /\ handlers' = handlers \ {c}

CallsClose == closeCalls < MaxClosings /\ closeCalls' = closeCalls + 1

closeBy(c, global) ==
  /\ inst[c] # "none" /\ CallsClose
  /\ CloseNow(c)
  /\ closings' = closings \cup {Closing(c, global)}
  /\ UNCHANGED <<logged, arrived, orig, defaultClient, idleCloses, flushed, raced>>

closeClient(c) == closeBy(c, FALSE)

\* close() of index.ts; the default client is forgotten after the await.
globalClose == defaultClient # NoClient /\ closeBy(defaultClient, TRUE)

\* close() without a default client awaits nothing, and forgets whatever client is
\* the default one a microtask later.
closeNothing ==
  /\ defaultClient = NoClient /\ CallsClose
  /\ idleCloses' = idleCloses + 1
  /\ UNCHANGED <<inst, sdkBuffers, arrived, sdkHooks, defaultClient, closings, flushed, raced>>

idleCloseResumes ==
  /\ idleCloses > 0
  /\ idleCloses' = idleCloses - 1
  /\ defaultClient' = NoClient
  /\ UNCHANGED <<inst, sdkBuffers, arrived, sdkHooks, closings, closeCalls, flushed, raced>>

\* Variant that resolves whether or not the batch has been answered.
Resolvable(k) == TRUE

FlushSettled(k) == BatchOf(k.client, k.logs) \notin pending

closeResumes(k) ==
  /\ k \in closings /\ FlushSettled(k)
  /\ closings' = closings \ {k}
  /\ flushed' = [flushed EXCEPT ![k.client] = IF k.upTo > @ THEN k.upTo ELSE @]
  /\ defaultClient' = IF k.global THEN NoClient ELSE defaultClient
  /\ UNCHANGED <<inst, sdkBuffers, arrived, sdkHooks, idleCloses, closeCalls, raced>>

\* init: close the default client, without awaiting it, and replace it.
init(c) ==
  /\ NextClient(c)
  /\ defaultClient' = c
  /\ raced' = (raced \/ idleCloses > 0 \/ \E k \in closings : k.global)
  /\ IF defaultClient = NoClient
     THEN Hook(c, handlers, console) /\ inst' = [inst EXCEPT ![c] = "open"] /\ UNCHANGED <<queue, pending, wire>>
     ELSE /\ Hook(c, handlers \ {defaultClient}, Teardown(defaultClient))
          /\ inst' = [inst EXCEPT ![c] = "open", ![defaultClient] = "closed"]
          /\ Flush({defaultClient}, queue)
  /\ UNCHANGED <<logged, arrived, closings, idleCloses, closeCalls, flushed>>

\* init with options the constructor throws on: the default client is closed, and
\* stays the default one.
initThrows ==
  /\ defaultClient # NoClient
  /\ CloseNow(defaultClient)
  /\ UNCHANGED <<logged, arrived, orig, defaultClient, closings, idleCloses, closeCalls, flushed, raced>>

\* flush() of a client, by the application or by the interval timer
FlushOne(c) ==
  /\ queue[c] # <<>>
  /\ Flush({c}, queue)
  /\ UNCHANGED <<inst, logged, arrived, sdkHooks, defaultClient, closings, idleCloses, closeCalls, flushed, raced>>

sdkFlush(c) == FlushOne(c)

timerFires(c) == inst[c] = "open" /\ FlushOne(c)

\* The backend receives a batch, perhaps after the client gave up on it.
batchArrives(b) ==
  /\ b \in wire
  /\ wire' = wire \ {b}
  /\ arrived' = [n \in 1 .. MaxSdkLogs |-> IF n \in ToSet(b.logs) THEN arrived[n] + 1 ELSE arrived[n]]
  /\ UNCHANGED <<inst, logged, queue, pending, sdkHooks, defaultClient, closings, idleCloses, closeCalls, flushed, raced>>

batchLost(b) ==
  /\ b \in wire
  /\ wire' = wire \ {b}
  /\ UNCHANGED <<inst, logged, queue, pending, arrived, sdkHooks, defaultClient, closings, idleCloses,
                 closeCalls, flushed, raced>>

\* sendBatch resolves: an answer, a failed request or the timeout
sendBatch(b) ==
  /\ b \in pending
  /\ pending' = pending \ {b}
  /\ UNCHANGED <<inst, logged, queue, wire, arrived, sdkHooks, defaultClient, closings, idleCloses, closeCalls, flushed,
                 raced>>

SdkNext ==
  \/ \E c \in SdkIds : construct(c) \/ init(c) \/ sdkLog(c) \/ closeClient(c) \/ sdkFlush(c)
  \/ \E c \in SdkIds : timerFires(c)
  \/ globalError \/ globalClose \/ closeNothing \/ idleCloseResumes \/ initThrows
  \/ \E k \in closings : closeResumes(k)
  \/ \E b \in wire : batchArrives(b) \/ batchLost(b)
  \/ \E b \in pending : sendBatch(b)

SdkSpec == SdkInit /\ [][SdkNext]_sdkVars

\* The interval fires again and again, fetch times out at the latest, and a
\* settled promise resumes its caller.
SdkFairness ==
  /\ \A c \in SdkIds : WF_sdkVars(timerFires(c))
  /\ WF_sdkVars(\E b \in pending : sendBatch(b))
  /\ WF_sdkVars(idleCloseResumes \/ \E k \in closings : closeResumes(k))

(***************************************************************************)
(* A log reaches the backend at most once, although the timer, a full      *)
(* buffer, explicit flushes and closes overlap with requests that time out *)
(* on the client and arrive all the same.                                  *)
(***************************************************************************)
NoLogTwice == \A n \in 1 .. MaxSdkLogs : arrived[n] <= 1

\* Why: of the numbers given out up to `top` none is in two places, be it a
\* buffer of q, a batch of w or the backend.
OnceEach(q, w, top) ==
  /\ \A c \in SdkIds : \A n \in ToSet(q[c]) :
       /\ n \in 1 .. top /\ arrived[n] = 0
       /\ \A d \in SdkIds \ {c} : n \notin ToSet(q[d])
       /\ \A b \in w : n \notin ToSet(b.logs)
  /\ \A b \in w : \A n \in ToSet(b.logs) :
       n \in 1 .. top /\ arrived[n] = 0 /\ \A x \in w \ {b} : n \notin ToSet(x.logs)
  /\ \A n \in 1 .. MaxSdkLogs : n > top => arrived[n] = 0

\* A step leaves in the buffers only what is younger than their closes.
Buffered ==
  /\ \A c \in SdkIds : \A i \in DOMAIN queue'[c] : queue'[c][i] > flushed'[c]
  /\ \A k \in closings \ closings' : BatchOf(k.client, k.logs) \notin pending

(***************************************************************************)
(* What a client had been given when close was called has left its buffer  *)
(* when that close resolves, and a close that had something to send is not *)
(* resolved while its request is under way: "flush + tear down (call on    *)
(* shutdown)".  Batches sent earlier, by a full buffer or by another close *)
(* may still be under way: those are not awaited.                          *)
(***************************************************************************)
CloseEmptiesBuffer == [][Buffered]_sdkVars

\* Why: what is in a buffer came after every close of its client.
YoungerThanCloses(q, top) ==
  /\ \A c \in SdkIds : flushed[c] <= top /\ \A n \in ToSet(q[c]) : n > flushed[c]
  /\ \A k \in closings : k.upTo <= top /\ \A n \in ToSet(q[k.client]) : n > k.upTo

Youngest(c) == \A d \in SdkIds : d > c => inst[d] # "open"

\* A step that closes the youngest clients first takes their wrappers away.
Unwinds ==
  /\ ToSet(console) = {c \in Breadcrumbs : inst[c] = "open"}
  /\ \A c \in SdkIds : inst[c] = "open" /\ inst'[c] = "closed" => Youngest(c)
  => ToSet(console') = {c \in Breadcrumbs : inst'[c] = "open"}

(***************************************************************************)
(* As long as every client that is closed is the youngest open one, the    *)
(* console is wrapped by the open clients and by nobody else.  (Closing an *)
(* older client first puts the console back under the younger one, and the *)
(* younger one's close then brings the closed wrapper back.)               *)
(***************************************************************************)
ConsoleUnwinds == [][Unwinds]_sdkVars

\* Why: clients are constructed in order, and below a wrapper is what its client
\* found.
ConstructedInOrder == \A c, d \in SdkIds : c < d /\ inst[d] # "none" => inst[c] # "none"

Wrapped(s) ==
  \A i \in 1 .. Len(s) :
    /\ s[i] \in Breadcrumbs /\ inst[s[i]] # "none"
    /\ Len(orig[s[i]]) = i - 1
    /\ \A j \in 1 .. i - 1 : orig[s[i]][j] = s[j] /\ s[j] < s[i]

WrappersStack == /\ Wrapped(console)
                 /\ \A c \in SdkIds : inst[c] # "none" => Wrapped(orig[c])

\* A step forgets an open default client only in a race.
DefaultKept == defaultClient' = NoClient /\ defaultClient # NoClient /\ ~ raced => inst[defaultClient] = "closed"

(***************************************************************************)
(* The global functions lose a client only to a close(): init gives them a *)
(* client that stays open, unless a close() awaited at that moment, of the *)
(* old client or of none at all, forgets the new client.                   *)
(***************************************************************************)
DefaultLostOnlyByRace == [][DefaultKept]_sdkVars

\* Why: without a race, the client of a close() under way is the default one, and
\* there is none while a close() of nothing is.
CloseIsOfDefault ==
  /\ defaultClient # NoClient => inst[defaultClient] # "none"
  /\ ~ raced /\ (\E k \in closings : k.global) /\ defaultClient # NoClient => inst[defaultClient] = "closed"
  /\ ~ raced /\ idleCloses # 0 => defaultClient = NoClient

(***************************************************************************)
(* The hooks of the SDK are undone: wrappers around the console go with    *)
(* their clients, and the default client is lost only to a close().        *)
(***************************************************************************)
HooksUnwind == ConsoleUnwinds /\ DefaultLostOnlyByRace

LogNumbers == Seq(1 .. MaxSdkLogs)

Batch == [client : SdkIds, logs : LogNumbers]

ClosingCall == [client : SdkIds, logs : LogNumbers, upTo : Nat, global : BOOLEAN]

BuffersIInv ==
  /\ logged \in 0 .. MaxSdkLogs /\ queue \in [SdkIds -> LogNumbers]
  /\ pending \subseteq Batch /\ wire \subseteq Batch
  /\ arrived \in [1 .. MaxSdkLogs -> Nat]
  /\ closings \subseteq ClosingCall /\ flushed \in [SdkIds -> Nat]
  /\ NoLogTwice /\ OnceEach(queue, wire, logged) /\ YoungerThanCloses(queue, logged)

HooksIInv ==
  /\ inst \in [SdkIds -> {"none", "open", "closed"}] /\ handlers \subseteq SdkIds
  /\ console \in Seq(SdkIds) /\ orig \in [SdkIds -> Seq(SdkIds)]
  /\ defaultClient \in SdkIds \cup {NoClient} /\ idleCloses \in Nat
  /\ ConstructedInOrder /\ WrappersStack /\ CloseIsOfDefault

SdkIInv == BuffersIInv /\ HooksIInv

(***************************************************************************)
(* Nothing stays in the buffer of an open client: it is taken by the timer *)
(* or by the close itself.  (A log given to a closed client stays.)        *)
(***************************************************************************)
BufferLeaves ==
  \A c \in SdkIds : inst[c] = "open" /\ queue[c] # <<>> ~> queue[c] = <<>>
=============================================================================
