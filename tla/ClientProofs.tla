---------------------------- MODULE ClientProofs ----------------------------
(***************************************************************************)
(* Proofs about the parts that run at the clients: the SDK, the search     *)
(* screen and the smaller pages of the console, for any number of clients, *)
(* logs, searches and answers under way.                                   *)
(***************************************************************************)
EXTENDS SdkClient, SearchScreen, ConsolePages, FiniteSetTheorems, TLAPS

(***************************************************************************)
(* The SDK: buffers and batches.                                           *)
(***************************************************************************)
\* Elements of a buffer.
LEMMA ElementFacts ==
  ASSUME NEW T, NEW s \in Seq(T), NEW x \in T
  PROVE  /\ ToSet(<<>>) = {}
         /\ ToSet(s) \subseteq T
         /\ \A i \in DOMAIN s : s[i] \in ToSet(s)
         /\ Append(s, x) \in Seq(T)
         /\ ToSet(Append(s, x)) = ToSet(s) \cup {x}
<1>1. ToSet(<<>>) = {} /\ ToSet(s) \subseteq T /\ \A i \in DOMAIN s : s[i] \in ToSet(s)
  BY DEF ToSet
<1>2. Append(s, x) \in Seq(T)
  OBVIOUS
<1>3. ToSet(Append(s, x)) = ToSet(s) \cup {x}
  <2>1. DOMAIN s = 1 .. Len(s) /\ DOMAIN Append(s, x) = 1 .. Len(s) + 1 /\ Len(s) \in Nat
    OBVIOUS
  <2>2. \A i \in 1 .. Len(s) : Append(s, x)[i] = s[i]
    OBVIOUS
  <2>3. Append(s, x)[Len(s) + 1] = x
    OBVIOUS
  <2> QED BY <2>1, <2>2, <2>3 DEF ToSet
<1> QED BY <1>1, <1>2, <1>3

\* A log is added to a buffer.
LEMMA AppendFacts ==
  ASSUME NEW s \in LogNumbers, NEW n \in 1 .. MaxSdkLogs
  PROVE  Append(s, n) \in LogNumbers /\ ToSet(Append(s, n)) = ToSet(s) \cup {n}
BY ElementFacts DEF LogNumbers

\* The ranks of the clients that log at once are different.
LEMMA RankFacts ==
  ASSUME NEW cs \in SUBSET SdkIds
  PROVE  /\ Cardinality(cs) \in Nat
         /\ \A c \in cs : Cardinality({d \in cs : d <= c}) \in 1 .. Cardinality(cs)
         /\ \A c, d \in cs : c < d => Cardinality({x \in cs : x <= c}) # Cardinality({x \in cs : x <= d})
<1>1. IsFiniteSet(cs) /\ cs \subseteq Nat
  <2>1. IsFiniteSet(SdkIds)
    BY FS_Interval, SdkBoundAssumption DEF SdkIds
  <2>2. IsFiniteSet(cs)
    BY <2>1, FS_Subset
  <2>3. cs \subseteq Nat
    BY SdkBoundAssumption DEF SdkIds
  <2> QED BY <2>2, <2>3
<1>2. Cardinality(cs) \in Nat
  BY <1>1, FS_CardinalityType
<1>3. \A c \in cs : /\ IsFiniteSet({d \in cs : d <= c}) /\ Cardinality({d \in cs : d <= c}) \in Nat
                    /\ Cardinality({d \in cs : d <= c}) <= Cardinality(cs)
  BY <1>1, FS_Subset, FS_CardinalityType
<1>4. ASSUME NEW c \in cs PROVE Cardinality({d \in cs : d <= c}) # 0
  <2>1. c \in {d \in cs : d <= c}
    BY <1>1
  <2> QED BY <1>3, <2>1, FS_EmptySet
<1>5. ASSUME NEW c \in cs, NEW d \in cs, c < d
      PROVE  Cardinality({x \in cs : x <= c}) # Cardinality({x \in cs : x <= d})
  <2> DEFINE C == {x \in cs : x <= c}
             D == {x \in cs : x <= d}
  <2>1. C \in SUBSET D /\ d \in D /\ d \notin C
    <3>1. c \in Nat /\ d \in Nat /\ \A x \in cs : x \in Nat
      BY <1>1
    <3>2. \A x \in cs : x <= c => x <= d
      BY <1>5, <3>1
    <3>3. C \subseteq D
      BY <3>2
    <3>4. d <= d /\ ~(d <= c)
      BY <1>5, <3>1
    <3> QED BY <3>3, <3>4
  <2>2. IsFiniteSet(D)
    BY <1>3
  <2>3. Cardinality(D) = Cardinality(C) => D = C
    <3> HIDE DEF C, D
    <3> QED BY <2>1, <2>2, FS_Subset
  <2> QED BY <2>1, <2>3
<1> QED BY <1>2, <1>3, <1>4, <1>5

\* The buffers once the clients cs have been given a log each.
LEMMA PushFacts ==
  ASSUME BuffersIInv, NEW cs \in SUBSET SdkIds, NEW q, logged + Cardinality(cs) <= MaxSdkLogs,
         q = [c \in SdkIds |-> IF c \in cs THEN Append(queue[c], logged + Cardinality({d \in cs : d <= c})) ELSE queue[c]]
  PROVE  /\ q \in [SdkIds -> LogNumbers]
         /\ OnceEach(q, wire, logged + Cardinality(cs))
         /\ YoungerThanCloses(q, logged + Cardinality(cs))
<1> DEFINE number(c) == logged + Cardinality({d \in cs : d <= c})
           top == logged + Cardinality(cs)
<1>1. /\ logged \in Nat /\ top \in Nat /\ top >= logged /\ top <= MaxSdkLogs /\ MaxSdkLogs \in Nat
      /\ \A c \in cs : number(c) \in 1 .. top /\ number(c) > logged
      /\ \A c, d \in cs : c # d => number(c) # number(d)
  <2>1. logged \in Nat /\ MaxSdkLogs \in Nat /\ cs \subseteq Nat
    BY SdkBoundAssumption DEF BuffersIInv, SdkIds
  <2>2. \A c, d \in cs : c # d => c < d \/ d < c
    BY <2>1
  <2>3. Cardinality(cs) \in Nat
    BY RankFacts
  <2>4. ASSUME NEW c \in cs PROVE Cardinality({d \in cs : d <= c}) \in 1 .. Cardinality(cs)
    BY RankFacts
  <2>5. ASSUME NEW c \in cs, NEW d \in cs, c # d
        PROVE  Cardinality({x \in cs : x <= c}) # Cardinality({x \in cs : x <= d})
    BY <2>2, <2>5, RankFacts
  <2>6. ASSUME NEW c \in cs PROVE number(c) \in 1 .. top /\ number(c) > logged
    BY <2>1, <2>3, <2>4
  <2>7. ASSUME NEW c \in cs, NEW d \in cs, c # d PROVE number(c) # number(d)
    BY <2>1, <2>3, <2>4, <2>5, <2>7
  <2> QED BY <2>1, <2>3, <2>6, <2>7
<1> HIDE DEF number, top
<1>2. q = [c \in SdkIds |-> IF c \in cs THEN Append(queue[c], number(c)) ELSE queue[c]]
  BY DEF number
<1>3. ASSUME NEW c \in SdkIds
      PROVE  /\ q[c] \in LogNumbers /\ \A n \in ToSet(q[c]) : n \in ToSet(queue[c]) \/ (n \in 1 .. top /\ n > logged)
             /\ c \in cs => ToSet(q[c]) = ToSet(queue[c]) \cup {number(c)}
             /\ c \notin cs => q[c] = queue[c]
  <2>1. queue[c] \in LogNumbers
    BY DEF BuffersIInv
  <2>2. CASE c \in cs
    <3>1. number(c) \in 1 .. MaxSdkLogs /\ q[c] = Append(queue[c], number(c))
      BY <1>1, <1>2, <2>2
    <3>2. PICK n \in 1 .. MaxSdkLogs : n = number(c)
      BY <3>1
    <3>3. PICK s \in LogNumbers : s = queue[c]
      BY <2>1
    <3>4. q[c] \in LogNumbers /\ ToSet(q[c]) = ToSet(queue[c]) \cup {number(c)}
      BY <3>1, <3>2, <3>3, AppendFacts
    <3> QED BY <1>1, <2>2, <3>4
  <2>3. CASE c \notin cs
    BY <1>2, <2>1, <2>3
  <2> QED BY <2>2, <2>3
<1>4. q \in [SdkIds -> LogNumbers]
  BY <1>2, <1>3
<1>5. OnceEach(queue, wire, logged) /\ YoungerThanCloses(queue, logged)
  BY DEF BuffersIInv
<1>6. \A n \in 1 .. top : n > logged => n \in 1 .. MaxSdkLogs /\ arrived[n] = 0
  BY <1>1, <1>5 DEF OnceEach
<1>7. OnceEach(q, wire, top)
  <2>1. ASSUME NEW c \in SdkIds, NEW n \in ToSet(q[c])
        PROVE  /\ n \in 1 .. top /\ arrived[n] = 0 /\ \A b \in wire : n \notin ToSet(b.logs)
               /\ \A d \in SdkIds \ {c} : n \notin ToSet(q[d])
    <3>1. CASE n \in ToSet(queue[c])
      <4>1. /\ n \in 1 .. logged /\ arrived[n] = 0 /\ \A b \in wire : n \notin ToSet(b.logs)
            /\ \A d \in SdkIds \ {c} : n \notin ToSet(queue[d])
        BY <1>5, <3>1 DEF OnceEach
      <4> QED BY <1>1, <1>3, <4>1
    <3>2. CASE n \notin ToSet(queue[c])
      <4>1. c \in cs /\ n = number(c) /\ n \in 1 .. top /\ n > logged
        BY <1>1, <1>3, <2>1, <3>2
      <4>2. \A d \in SdkIds : \A m \in ToSet(queue[d]) : m # n
        BY <1>1, <1>5, <4>1 DEF OnceEach
      <4>3. \A b \in wire : n \notin ToSet(b.logs)
        BY <1>1, <1>5, <4>1 DEF OnceEach
      <4> QED BY <1>1, <1>3, <1>6, <4>1, <4>2, <4>3
    <3> QED BY <3>1, <3>2
  <2>2. ASSUME NEW b \in wire, NEW n \in ToSet(b.logs)
        PROVE  n \in 1 .. top /\ arrived[n] = 0 /\ \A x \in wire \ {b} : n \notin ToSet(x.logs)
    BY <1>1, <1>5, <2>2 DEF OnceEach
  <2>3. \A n \in 1 .. MaxSdkLogs : n > top => arrived[n] = 0
    BY <1>1, <1>5 DEF OnceEach
  <2> QED BY <2>1, <2>2, <2>3 DEF OnceEach
<1>8. YoungerThanCloses(q, top)
  <2>1. ASSUME NEW c \in SdkIds PROVE flushed[c] <= top /\ \A n \in ToSet(q[c]) : n > flushed[c]
    <3>1. flushed[c] \in Nat /\ flushed[c] <= logged /\ \A n \in ToSet(queue[c]) : n > flushed[c]
      BY <1>5 DEF YoungerThanCloses, BuffersIInv
    <3>2. ASSUME NEW n \in ToSet(q[c]) PROVE n > flushed[c]
      <4>1. n \in ToSet(queue[c]) \/ (n \in 1 .. top /\ n > logged)
        BY <1>3
      <4>2. CASE n \in 1 .. top /\ n > logged
        BY <1>1, <3>1, <4>2
      <4> QED BY <3>1, <4>1, <4>2
    <3>3. flushed[c] <= top
      BY <1>1, <3>1
    <3> QED BY <3>2, <3>3
  <2>2. ASSUME NEW k \in closings PROVE k.upTo <= top /\ \A n \in ToSet(q[k.client]) : n > k.upTo
    <3>1. /\ k.client \in SdkIds /\ k.upTo \in Nat /\ k.upTo <= logged
          /\ \A n \in ToSet(queue[k.client]) : n > k.upTo
      BY <1>5 DEF YoungerThanCloses, BuffersIInv, ClosingCall
    <3>2. ASSUME NEW n \in ToSet(q[k.client]) PROVE n > k.upTo
      <4>1. n \in ToSet(queue[k.client]) \/ (n \in 1 .. top /\ n > logged)
        BY <1>3, <3>1
      <4>2. CASE n \in 1 .. top /\ n > logged
        BY <1>1, <3>1, <4>2
      <4> QED BY <3>1, <4>1, <4>2
    <3>3. k.upTo <= top
      BY <1>1, <3>1
    <3> QED BY <3>2, <3>3
  <2> QED BY <2>1, <2>2 DEF YoungerThanCloses
<1> QED BY <1>4, <1>7, <1>8 DEF top

\* Batches are taken out of the buffers q, and nothing is lost or copied.
LEMMA FlushFacts ==
  ASSUME NEW q \in [SdkIds -> LogNumbers], NEW cs \in SUBSET SdkIds, NEW top, Flush(cs, q), UNCHANGED arrived,
         pending \subseteq Batch, wire \subseteq Batch, OnceEach(q, wire, top)
  PROVE  /\ queue' \in [SdkIds -> LogNumbers] /\ pending' \subseteq Batch /\ wire' \subseteq Batch
         /\ OnceEach(queue, wire, top)'
         /\ \A c \in SdkIds : ToSet(queue'[c]) \subseteq ToSet(q[c])
         /\ \A c \in cs : ToSet(queue'[c]) = {}
<1> DEFINE sent == {BatchOf(c, q[c]) : c \in {d \in cs : q[d] # <<>>}}
<1>1. queue' = [c \in SdkIds |-> IF c \in cs THEN <<>> ELSE q[c]] /\ pending' = pending \cup sent /\ wire' = wire \cup sent
  BY DEF Flush
<1>2. <<>> \in LogNumbers /\ ToSet(<<>>) = {}
  BY DEF LogNumbers, ToSet
<1>3. /\ queue' \in [SdkIds -> LogNumbers] /\ \A c \in cs : ToSet(queue'[c]) = {}
      /\ \A c \in SdkIds : \A n \in ToSet(queue'[c]) : c \notin cs /\ n \in ToSet(q[c])
  BY <1>1, <1>2
<1>4. ASSUME NEW b \in sent PROVE b \in Batch /\ \E c \in cs : b = BatchOf(c, q[c]) /\ b.logs = q[c]
  BY DEF BatchOf, Batch
<1>5. \A b \in wire' : b \in wire \/ \E c \in cs : b = BatchOf(c, q[c]) /\ b.logs = q[c]
  BY <1>1, <1>4
<1>6. ASSUME NEW c \in SdkIds, NEW n \in ToSet(q[c])
      PROVE  /\ n \in 1 .. top /\ arrived'[n] = 0 /\ \A b \in wire : n \notin ToSet(b.logs)
             /\ \A d \in SdkIds \ {c} : n \notin ToSet(q[d])
  BY <1>6 DEF OnceEach
<1>7. ASSUME NEW b \in wire, NEW n \in ToSet(b.logs)
      PROVE  n \in 1 .. top /\ arrived'[n] = 0 /\ \A x \in wire \ {b} : n \notin ToSet(x.logs)
  BY <1>7 DEF OnceEach
<1>8. ASSUME NEW c \in SdkIds, NEW n \in ToSet(queue'[c])
      PROVE  /\ n \in 1 .. top /\ arrived'[n] = 0 /\ \A b \in wire' : n \notin ToSet(b.logs)
             /\ \A d \in SdkIds \ {c} : n \notin ToSet(queue'[d])
  <2>1. c \notin cs /\ n \in ToSet(q[c])
    BY <1>3
  <2>2. \A b \in wire' : n \notin ToSet(b.logs)
    BY <1>5, <1>6, <2>1
  <2>3. \A d \in SdkIds \ {c} : n \notin ToSet(queue'[d])
    BY <1>3, <1>6, <2>1
  <2> QED BY <1>6, <2>1, <2>2, <2>3
<1>9. ASSUME NEW b \in wire', NEW n \in ToSet(b.logs)
      PROVE  n \in 1 .. top /\ arrived'[n] = 0 /\ \A x \in wire' \ {b} : n \notin ToSet(x.logs)
  <2>1. CASE b \in wire
    <3>1. \A x \in wire' \ {b} : n \notin ToSet(x.logs)
      BY <1>5, <1>6, <1>7, <2>1
    <3> QED BY <1>7, <2>1, <3>1
  <2>2. CASE b \notin wire
    <3>1. PICK c \in cs : b = BatchOf(c, q[c]) /\ b.logs = q[c]
      BY <1>5, <2>2
    <3>2. \A x \in wire' \ {b} : n \notin ToSet(x.logs)
      BY <1>5, <1>6, <3>1
    <3> QED BY <1>6, <3>1, <3>2
  <2> QED BY <2>1, <2>2
<1>10. OnceEach(queue, wire, top)'
  BY <1>8, <1>9 DEF OnceEach
<1> QED BY <1>1, <1>3, <1>4, <1>10

\* Clients are given logs; a full buffer is sent.
LEMMA PushKeeps ==
  ASSUME BuffersIInv, NEW cs \in SUBSET SdkIds, PushLog(cs)
  PROVE  BuffersIInv'
<1>1. PICK q : q = [c \in SdkIds |-> IF c \in cs THEN Append(queue[c], logged + Cardinality({d \in cs : d <= c}))
                                                ELSE queue[c]]
  OBVIOUS
<1>2. PICK top : top = logged + Cardinality(cs)
  OBVIOUS
<1>3. PICK full \in SUBSET SdkIds : Flush(full, q)
  BY <1>1 DEF PushLog
<1>4. top <= MaxSdkLogs /\ logged' = top /\ UNCHANGED <<arrived, closings, flushed>>
  BY <1>2 DEF PushLog
<1>5. q \in [SdkIds -> LogNumbers] /\ OnceEach(q, wire, top) /\ YoungerThanCloses(q, top)
  BY <1>1, <1>2, <1>4, PushFacts
<1>6. /\ queue' \in [SdkIds -> LogNumbers] /\ pending' \subseteq Batch /\ wire' \subseteq Batch
      /\ OnceEach(queue, wire, top)' /\ \A c \in SdkIds : ToSet(queue'[c]) \subseteq ToSet(q[c])
  BY <1>3, <1>4, <1>5, FlushFacts DEF BuffersIInv
<1>7. top \in 0 .. MaxSdkLogs
  BY <1>2, <1>4, RankFacts, SdkBoundAssumption DEF BuffersIInv
<1>8. OnceEach(queue, wire, logged)'
  BY <1>4, <1>6 DEF OnceEach
<1>9. YoungerThanCloses(queue, logged)'
  <2>1. \A k \in closings : k.client \in SdkIds
    BY DEF BuffersIInv, ClosingCall
  <2> QED BY <1>4, <1>5, <1>6, <2>1 DEF YoungerThanCloses
<1>10. NoLogTwice'
  BY <1>4 DEF BuffersIInv, NoLogTwice
<1> QED BY <1>4, <1>6, <1>7, <1>8, <1>9, <1>10 DEF BuffersIInv

\* A buffer is emptied, perhaps by a close.
LEMMA EmptyKeeps ==
  ASSUME BuffersIInv, NEW c \in SdkIds, Flush({c}, queue), UNCHANGED <<logged, arrived, flushed>>,
         closings' = closings \/ \E global \in BOOLEAN : closings' = closings \cup {Closing(c, global)}
  PROVE  BuffersIInv'
<1>1. PICK q \in [SdkIds -> LogNumbers] : q = queue
  BY DEF BuffersIInv
<1>2. PICK top : top = logged
  OBVIOUS
<1>3. /\ queue' \in [SdkIds -> LogNumbers] /\ pending' \subseteq Batch /\ wire' \subseteq Batch
      /\ OnceEach(queue, wire, top)' /\ \A d \in SdkIds : ToSet(queue'[d]) \subseteq ToSet(q[d])
      /\ ToSet(queue'[c]) = {}
  <2>1. PICK cs \in SUBSET SdkIds : cs = {c}
    OBVIOUS
  <2>2. /\ Flush(cs, q) /\ UNCHANGED arrived /\ pending \subseteq Batch /\ wire \subseteq Batch
        /\ OnceEach(q, wire, top)
    BY <1>1, <1>2, <2>1 DEF BuffersIInv
  <2> QED BY <2>1, <2>2, FlushFacts
<1>4. OnceEach(queue, wire, logged)'
  BY <1>2, <1>3 DEF OnceEach
<1>5. ASSUME NEW global \in BOOLEAN
      PROVE  Closing(c, global) \in ClosingCall /\ Closing(c, global).client = c /\ Closing(c, global).upTo = logged
  <2>1. queue[c] \in LogNumbers /\ logged \in Nat
    BY SdkBoundAssumption DEF BuffersIInv
  <2>2. Closing(c, global).client = c /\ Closing(c, global).upTo = logged
    BY DEF Closing
  <2> QED BY <2>1, <2>2, Zenon DEF Closing, ClosingCall
<1>6. closings' \subseteq ClosingCall /\ \A k \in closings' : k \in closings \/ (k.client = c /\ k.upTo = logged)
  <2>1. closings \subseteq ClosingCall
    BY DEF BuffersIInv
  <2>2. CASE closings' = closings
    BY <2>1, <2>2
  <2>3. ASSUME NEW global \in BOOLEAN, closings' = closings \cup {Closing(c, global)}
        PROVE  /\ closings' \subseteq ClosingCall
               /\ \A k \in closings' : k \in closings \/ (k.client = c /\ k.upTo = logged)
    <3>1. PICK new \in ClosingCall : new = Closing(c, global) /\ new.client = c /\ new.upTo = logged
      BY <1>5, Zenon
    <3> QED BY <2>1, <2>3, <3>1
  <2> QED BY <2>2, <2>3
<1>7. YoungerThanCloses(queue, logged)'
  <2>1. \A k \in closings : k.client \in SdkIds
    BY DEF BuffersIInv, ClosingCall
  <2>2. logged \in Nat
    BY SdkBoundAssumption DEF BuffersIInv
  <2>3. YoungerThanCloses(q, logged)
    BY <1>1 DEF BuffersIInv
  <2> QED BY <1>3, <1>6, <2>1, <2>2, <2>3 DEF YoungerThanCloses
<1> QED BY <1>3, <1>4, <1>6, <1>7 DEF BuffersIInv, NoLogTwice

\* A close resumes: what it had to send has left the buffer.
LEMMA ResumeKeeps ==
  ASSUME BuffersIInv, NEW k \in closings, closeResumes(k)
  PROVE  BuffersIInv'
<1>1. /\ UNCHANGED <<logged, queue, pending, wire, arrived>> /\ closings' = closings \ {k}
      /\ flushed' = [flushed EXCEPT ![k.client] = IF k.upTo > flushed[k.client] THEN k.upTo ELSE flushed[k.client]]
  BY DEF closeResumes, sdkBuffers
<1>2. /\ k.client \in SdkIds /\ k.upTo \in Nat /\ k.upTo <= logged /\ flushed \in [SdkIds -> Nat]
      /\ \A n \in ToSet(queue[k.client]) : n > k.upTo
  BY DEF BuffersIInv, ClosingCall, YoungerThanCloses
<1>3. flushed' \in [SdkIds -> Nat] /\ \A c \in SdkIds : flushed'[c] \in {flushed[c], k.upTo}
                                                     /\ (c # k.client => flushed'[c] = flushed[c])
  BY <1>1, <1>2
<1>4. YoungerThanCloses(queue, logged)'
  BY <1>1, <1>2, <1>3 DEF BuffersIInv, YoungerThanCloses
<1>5. OnceEach(queue, wire, logged)' /\ NoLogTwice'
  BY <1>1 DEF BuffersIInv, OnceEach, NoLogTwice
<1> QED BY <1>1, <1>3, <1>4, <1>5 DEF BuffersIInv

\* A batch arrives, is lost, or its request settles.
LEMMA BatchKeeps ==
  ASSUME BuffersIInv, NEW b, batchArrives(b) \/ batchLost(b) \/ sendBatch(b)
  PROVE  BuffersIInv'
<1>1. UNCHANGED <<logged, queue, closings, flushed>> /\ pending' \subseteq pending /\ wire' \subseteq wire
  BY DEF batchArrives, batchLost, sendBatch
<1>2. YoungerThanCloses(queue, logged)'
  BY <1>1 DEF BuffersIInv, YoungerThanCloses
<1>3. CASE UNCHANGED arrived
  <2>1. OnceEach(queue, wire, logged)'
    BY <1>1, <1>3 DEF BuffersIInv, OnceEach
  <2> QED BY <1>1, <1>2, <1>3, <2>1 DEF BuffersIInv, NoLogTwice
<1>4. CASE batchArrives(b)
  <2>1. b \in wire /\ wire' = wire \ {b}
    BY <1>4 DEF batchArrives
  <2>2. /\ arrived' \in [1 .. MaxSdkLogs -> Nat]
        /\ \A n \in 1 .. MaxSdkLogs : arrived'[n] = IF n \in ToSet(b.logs) THEN arrived[n] + 1 ELSE arrived[n]
    BY <1>4 DEF batchArrives, BuffersIInv
  <2>3. /\ logged \in 0 .. MaxSdkLogs /\ MaxSdkLogs \in Nat /\ \A n \in ToSet(b.logs) : n \in 1 .. logged /\ arrived[n] = 0
        /\ \A c \in SdkIds : \A n \in ToSet(queue[c]) : n \in 1 .. logged /\ n \notin ToSet(b.logs)
        /\ \A x \in wire' : \A n \in ToSet(x.logs) : n \in 1 .. logged /\ n \notin ToSet(b.logs)
    BY <2>1, SdkBoundAssumption DEF BuffersIInv, OnceEach
  <2>4. NoLogTwice'
    <3>1. \A n \in 1 .. MaxSdkLogs : arrived[n] <= 1 /\ arrived[n] \in Nat
      BY DEF BuffersIInv, NoLogTwice
    <3>2. \A n \in 1 .. MaxSdkLogs : arrived'[n] <= 1
      BY <2>2, <2>3, <3>1
    <3> QED BY <3>2 DEF NoLogTwice
  <2>5. \A n \in 1 .. logged : n \in 1 .. MaxSdkLogs
    BY <2>3
  <2>6. OnceEach(queue, wire, logged)'
    <3>1. \A c \in SdkIds : \A n \in ToSet(queue[c]) : arrived'[n] = 0
      BY <2>2, <2>3, <2>5 DEF BuffersIInv, OnceEach
    <3>2. \A x \in wire' : \A n \in ToSet(x.logs) : arrived'[n] = 0
      BY <2>1, <2>2, <2>3, <2>5 DEF BuffersIInv, OnceEach
    <3>3. \A n \in 1 .. MaxSdkLogs : n > logged => arrived'[n] = 0
      BY <2>2, <2>3 DEF BuffersIInv, OnceEach
    <3> QED BY <1>1, <3>1, <3>2, <3>3 DEF BuffersIInv, OnceEach
  <2> QED BY <1>1, <1>2, <2>2, <2>4, <2>6 DEF BuffersIInv
<1> QED BY <1>3, <1>4 DEF batchArrives, batchLost, sendBatch

\* A step that leaves the buffers alone.
LEMMA BuffersStay ==
  ASSUME BuffersIInv, UNCHANGED <<logged, queue, pending, wire, arrived, closings, flushed>>
  PROVE  BuffersIInv'
BY DEF BuffersIInv, NoLogTwice, OnceEach, YoungerThanCloses

(***************************************************************************)
(* The SDK: hooks and the default client.                                  *)
(***************************************************************************)
\* A wrapped console stays one while other clients are constructed or closed.
LEMMA WrappedStays ==
  ASSUME NEW s \in Seq(SdkIds), Wrapped(s), NEW c, inst[c] = "none",
         \A d \in SdkIds \ {c} : orig'[d] = orig[d] /\ (inst[d] # "none" => inst'[d] # "none")
  PROVE  Wrapped(s)'
<1>1. \A i \in 1 .. Len(s) : s[i] \in SdkIds /\ s[i] # c
  BY DEF Wrapped
<1> QED BY <1>1 DEF Wrapped

\* A new client wraps the console it finds.
LEMMA HookFacts ==
  ASSUME HooksIInv, NEW c \in SdkIds, NextClient(c), NEW cons \in Seq(SdkIds), Wrapped(cons),
         NEW handled \in SUBSET SdkIds, Hook(c, handled, cons), inst' \in [SdkIds -> {"none", "open", "closed"}],
         inst'[c] = "open", \A d \in SdkIds \ {c} : inst[d] # "none" <=> inst'[d] # "none"
  PROVE  /\ handlers' \subseteq SdkIds /\ console' \in Seq(SdkIds) /\ orig' \in [SdkIds -> Seq(SdkIds)]
         /\ ConstructedInOrder' /\ WrappersStack'
         /\ ToSet(console') = IF c \in Breadcrumbs THEN ToSet(cons) \cup {c} ELSE ToSet(cons)
<1>1. /\ inst[c] = "none" /\ orig \in [SdkIds -> Seq(SdkIds)] /\ orig' = [orig EXCEPT ![c] = cons]
      /\ console' = IF c \in Breadcrumbs THEN Append(cons, c) ELSE cons
      /\ handlers' \subseteq SdkIds /\ SdkIds \subseteq Nat
  BY SdkBoundAssumption DEF HooksIInv, NextClient, Hook, SdkIds
<1>2. orig' \in [SdkIds -> Seq(SdkIds)] /\ orig'[c] = cons /\ \A d \in SdkIds \ {c} : orig'[d] = orig[d]
  BY <1>1
<1>3. ASSUME NEW s \in Seq(SdkIds), Wrapped(s) PROVE Wrapped(s)'
  BY <1>1, <1>2, <1>3, WrappedStays
<1>4. ConstructedInOrder'
  <2>1. \A d \in SdkIds : d < c => inst[d] # "none"
    BY <1>1 DEF NextClient, SdkIds
  <2> QED BY <1>1, <2>1 DEF HooksIInv, ConstructedInOrder
<1>5. /\ Append(cons, c) \in Seq(SdkIds) /\ Len(Append(cons, c)) = Len(cons) + 1 /\ Len(cons) \in Nat
      /\ \A i \in 1 .. Len(cons) : Append(cons, c)[i] = cons[i]
      /\ Append(cons, c)[Len(cons) + 1] = c
  OBVIOUS
<1>6. ToSet(Append(cons, c)) = ToSet(cons) \cup {c}
  BY ElementFacts
<1>7. ASSUME c \in Breadcrumbs PROVE Wrapped(Append(cons, c))'
  <2>1. PICK s \in Seq(SdkIds) : s = Append(cons, c)
    BY <1>5
  <2>2. \A j \in 1 .. Len(cons) : cons[j] \in SdkIds /\ cons[j] < c
    <3>1. \A d \in SdkIds : c < d => inst[d] = "none"
      BY <1>1 DEF HooksIInv, ConstructedInOrder
    <3>2. \A j \in 1 .. Len(cons) : cons[j] \in SdkIds /\ inst[cons[j]] # "none"
      BY DEF Wrapped
    <3>3. \A d \in SdkIds : d < c \/ d = c \/ c < d
      BY <1>1
    <3> QED BY <1>1, <3>1, <3>2, <3>3
  <2>3. ASSUME NEW i \in 1 .. Len(s)
        PROVE  /\ s[i] \in Breadcrumbs /\ inst'[s[i]] # "none" /\ Len(orig'[s[i]]) = i - 1
               /\ \A j \in 1 .. i - 1 : orig'[s[i]][j] = s[j] /\ s[j] < s[i]
    <3>1. CASE i \in 1 .. Len(cons)
      BY <1>3, <1>5, <2>1, <3>1 DEF Wrapped
    <3>2. CASE i = Len(cons) + 1
      BY <1>2, <1>5, <1>7, <2>1, <2>2, <3>2
    <3>3. Len(s) = Len(cons) + 1 /\ Len(cons) \in Nat
      BY <1>5, <2>1
    <3>4. i \in 1 .. Len(cons) \/ i = Len(cons) + 1
      BY <3>3
    <3> QED BY <3>1, <3>2, <3>4
  <2> QED BY <2>1, <2>3 DEF Wrapped
<1>8. WrappersStack'
  <2>1. Wrapped(console)'
    BY <1>1, <1>3, <1>7
  <2>2. ASSUME NEW d \in SdkIds, inst'[d] # "none" PROVE Wrapped(orig[d])'
    <3>1. CASE d = c
      BY <1>2, <1>3, <3>1
    <3>2. CASE d # c
      <4>1. PICK s \in Seq(SdkIds) : s = orig[d] /\ Wrapped(s)
        BY <1>1, <2>2, <3>2 DEF HooksIInv, WrappersStack
      <4> QED BY <1>2, <1>3, <3>2, <4>1
    <3> QED BY <3>1, <3>2
  <2> QED BY <2>1, <2>2 DEF WrappersStack
<1> QED BY <1>1, <1>2, <1>4, <1>5, <1>6, <1>8

\* A close takes away the wrapper of the youngest client and no other.
LEMMA TeardownFacts ==
  ASSUME HooksIInv, NEW c \in SdkIds
  PROVE  /\ Teardown(c) \in Seq(SdkIds) /\ Wrapped(Teardown(c))
         /\ /\ ToSet(console) = {d \in Breadcrumbs : inst[d] = "open"}
            /\ inst[c] = "open" => Youngest(c)
            => ToSet(Teardown(c)) = {d \in Breadcrumbs : inst[d] = "open"} \ {c}
<1>1. Teardown(c) \in Seq(SdkIds) /\ Wrapped(Teardown(c))
  BY DEF HooksIInv, WrappersStack, Teardown
<1>2. ASSUME ToSet(console) = {d \in Breadcrumbs : inst[d] = "open"}, inst[c] = "open" => Youngest(c)
      PROVE  ToSet(Teardown(c)) = {d \in Breadcrumbs : inst[d] = "open"} \ {c}
  <2>1. CASE ~(inst[c] = "open" /\ c \in Breadcrumbs)
    BY <1>2, <2>1 DEF Teardown
  <2>2. CASE inst[c] = "open" /\ c \in Breadcrumbs
    <3>1. PICK i \in 1 .. Len(console) : console[i] = c
      <4>1. c \in ToSet(console) /\ DOMAIN console = 1 .. Len(console)
        BY <1>2, <2>2 DEF HooksIInv
      <4> QED BY <4>1 DEF ToSet
    <3>2. Len(console) \in Nat /\ SdkIds \subseteq Nat /\ \A j \in 1 .. Len(console) : console[j] \in SdkIds
      <4>1. SdkIds \subseteq Nat
        BY SdkBoundAssumption DEF SdkIds
      <4>2. Len(console) \in Nat /\ \A j \in 1 .. Len(console) : console[j] \in SdkIds
        BY DEF HooksIInv
      <4> QED BY <4>1, <4>2
    <3>3. Len(orig[c]) = i - 1 /\ \A j \in 1 .. i - 1 : orig[c][j] = console[j] /\ console[j] < c
      BY <3>1 DEF HooksIInv, WrappersStack, Wrapped
    <3>4. i = Len(console)
      <4>1. ASSUME NEW j \in 1 .. Len(console), i < j PROVE FALSE
        <5>1. c < console[j]
          BY <3>1, <3>2, <4>1 DEF HooksIInv, WrappersStack, Wrapped
        <5>2. inst[console[j]] = "open"
          BY <1>2, <3>2 DEF HooksIInv, ToSet
        <5> QED BY <1>2, <2>2, <3>2, <5>1, <5>2 DEF Youngest
      <4>2. ~(i < Len(console))
        BY <3>2, <4>1
      <4> QED BY <3>2, <4>2
    <3>5. orig[c] \in Seq(SdkIds) /\ DOMAIN orig[c] = 1 .. i - 1 /\ DOMAIN console = 1 .. i
      BY <3>2, <3>3, <3>4 DEF HooksIInv
    <3>6. ToSet(orig[c]) = ToSet(console) \ {c}
      <4>1. ASSUME NEW x \in ToSet(orig[c]) PROVE x \in ToSet(console) /\ x # c
        BY <3>2, <3>3, <3>5 DEF ToSet
      <4>2. ASSUME NEW x \in ToSet(console), x # c PROVE x \in ToSet(orig[c])
        <5>1. PICK j \in 1 .. i : x = console[j]
          BY <3>5 DEF ToSet
        <5>2. j \in 1 .. i - 1
          BY <3>1, <3>2, <4>2, <5>1
        <5> QED BY <3>3, <3>5, <5>1, <5>2 DEF ToSet
      <4> QED BY <4>1, <4>2
    <3> QED BY <1>2, <2>2, <3>6 DEF Teardown
  <2> QED BY <2>1, <2>2
<1> QED BY <1>1, <1>2

\* A step that hooks nothing up or off; the default client may be forgotten.
LEMMA HooksStay ==
  ASSUME HooksIInv, UNCHANGED <<inst, handlers, console, orig, raced>>, closings' \subseteq closings,
         defaultClient' \in {defaultClient, NoClient},
         idleCloses' \in Nat, idleCloses' = idleCloses \/ defaultClient' = NoClient
  PROVE  HooksIInv'
BY DEF HooksIInv, ConstructedInOrder, WrappersStack, Wrapped, CloseIsOfDefault

\* A client is closed.
LEMMA CloseKeeps ==
  ASSUME HooksIInv, NEW c \in SdkIds, inst[c] # "none", CloseNow(c),
         UNCHANGED <<orig, defaultClient, idleCloses, raced>>,
         NEW global \in BOOLEAN, global => c = defaultClient, closings' \subseteq closings \cup {Closing(c, global)}
  PROVE  HooksIInv'
<1>1. inst' = [inst EXCEPT ![c] = "closed"] /\ console' = Teardown(c) /\ handlers' = handlers \ {c}
  BY DEF CloseNow, CloseSync
<1>2. /\ inst' \in [SdkIds -> {"none", "open", "closed"}] /\ inst'[c] = "closed"
      /\ \A d \in SdkIds \ {c} : inst'[d] = inst[d]
  BY <1>1 DEF HooksIInv
<1>3. ASSUME NEW s \in Seq(SdkIds), Wrapped(s) PROVE Wrapped(s)'
  <2>1. \A i \in 1 .. Len(s) : s[i] \in SdkIds
    OBVIOUS
  <2> QED BY <1>1, <1>2, <1>3, <2>1 DEF Wrapped
<1>4. WrappersStack'
  <2>1. Wrapped(console)'
    <3>1. PICK s \in Seq(SdkIds) : s = Teardown(c) /\ Wrapped(s)
      BY TeardownFacts
    <3> QED BY <1>1, <1>3, <3>1
  <2>2. ASSUME NEW d \in SdkIds, inst'[d] # "none" PROVE Wrapped(orig[d])'
    <3>1. PICK s \in Seq(SdkIds) : s = orig[d] /\ Wrapped(s)
      BY <1>1, <1>2, <2>2 DEF HooksIInv, WrappersStack
    <3> QED BY <1>1, <1>3, <3>1
  <2> QED BY <2>1, <2>2 DEF WrappersStack
<1>5. ConstructedInOrder'
  BY <1>1, <1>2 DEF HooksIInv, ConstructedInOrder
<1>6. CloseIsOfDefault'
  <2>1. Closing(c, global).global = global
    BY Zenon DEF Closing
  <2>2. (\E k \in closings' : k.global) => (\E k \in closings : k.global) \/ c = defaultClient
    BY <1>1, <2>1
  <2>3. defaultClient \in SdkIds \cup {NoClient}
    BY DEF HooksIInv
  <2>4. defaultClient # NoClient => inst'[defaultClient] # "none"
    BY <1>2, <2>3 DEF HooksIInv, CloseIsOfDefault
  <2>5. ASSUME ~ raced, \E k \in closings' : k.global, defaultClient # NoClient PROVE inst'[defaultClient] = "closed"
    BY <1>2, <2>2, <2>3, <2>5 DEF HooksIInv, CloseIsOfDefault
  <2>6. ~ raced /\ idleCloses # 0 => defaultClient = NoClient
    BY DEF HooksIInv, CloseIsOfDefault
  <2> QED BY <2>4, <2>5, <2>6 DEF CloseIsOfDefault
<1>7. console' \in Seq(SdkIds) /\ handlers' \subseteq SdkIds
  BY <1>1, TeardownFacts DEF HooksIInv
<1> QED BY <1>1, <1>2, <1>4, <1>5, <1>6, <1>7 DEF HooksIInv

\* A client is constructed, by the application or by init.
LEMMA ConstructKeeps ==
  ASSUME HooksIInv, NEW c \in SdkIds, construct(c) \/ init(c)
  PROVE  HooksIInv'
<1>0. /\ NextClient(c) /\ inst[c] = "none" /\ inst \in [SdkIds -> {"none", "open", "closed"}]
      /\ UNCHANGED <<closings, idleCloses>>
      /\ defaultClient \in SdkIds \cup {NoClient} /\ (defaultClient # NoClient => inst[defaultClient] # "none")
      /\ handlers \in SUBSET SdkIds /\ console \in Seq(SdkIds) /\ Wrapped(console) /\ NoClient \notin SdkIds
  BY DEF construct, init, NextClient, HooksIInv, CloseIsOfDefault, WrappersStack, NoClient, SdkIds
<1>1. ASSUME inst' = [inst EXCEPT ![c] = "open"], Hook(c, handlers, console)
      PROVE  /\ handlers' \subseteq SdkIds /\ console' \in Seq(SdkIds) /\ orig' \in [SdkIds -> Seq(SdkIds)]
             /\ ConstructedInOrder' /\ WrappersStack' /\ inst' \in [SdkIds -> {"none", "open", "closed"}]
             /\ inst'[c] = "open" /\ \A d \in SdkIds \ {c} : inst'[d] = inst[d]
  <2>1. /\ inst' \in [SdkIds -> {"none", "open", "closed"}] /\ inst'[c] = "open"
        /\ \A d \in SdkIds \ {c} : inst'[d] = inst[d]
    BY <1>0, <1>1
  <2>2. PICK cons \in Seq(SdkIds) : cons = console
    BY <1>0
  <2>3. PICK handled \in SUBSET SdkIds : handled = handlers
    BY <1>0
  <2>4. Wrapped(cons) /\ Hook(c, handled, cons)
    BY <1>0, <1>1, <2>2, <2>3
  <2> QED BY <1>0, <2>1, <2>4, HookFacts
<1>2. CASE construct(c)
  <2>1. inst' = [inst EXCEPT ![c] = "open"] /\ Hook(c, handlers, console) /\ UNCHANGED <<defaultClient, raced>>
    BY <1>2 DEF construct
  <2>2. CloseIsOfDefault'
    BY <1>0, <1>1, <2>1 DEF HooksIInv, CloseIsOfDefault
  <2> QED BY <1>0, <1>1, <2>1, <2>2 DEF HooksIInv
<1>3. CASE init(c)
  <2>1. defaultClient' = c /\ (~ raced' => idleCloses = 0 /\ ~ \E k \in closings : k.global)
    <3>1. idleCloses > 0 <=> idleCloses # 0
      BY DEF HooksIInv
    <3>2. defaultClient' = c /\ raced' = (raced \/ idleCloses > 0 \/ \E k \in closings : k.global)
      BY <1>3 DEF init
    <3> QED BY <3>1, <3>2, Zenon
  <2>2. CASE defaultClient = NoClient
    <3>1. inst' = [inst EXCEPT ![c] = "open"] /\ Hook(c, handlers, console)
      BY <1>3, <2>2 DEF init
    <3>2. CloseIsOfDefault'
      BY <1>0, <1>1, <2>1, <3>1 DEF CloseIsOfDefault
    <3> QED BY <1>0, <1>1, <2>1, <3>1, <3>2 DEF HooksIInv
  <2>3. CASE defaultClient # NoClient
    <3>1. PICK d \in SdkIds : d = defaultClient
      BY <1>0, <2>3
    <3>2. inst' = [inst EXCEPT ![c] = "open", ![d] = "closed"] /\ Hook(c, handlers \ {d}, Teardown(d)) /\ d # c
      BY <1>0, <1>3, <2>3, <3>1 DEF init
    <3>3. PICK cons \in Seq(SdkIds) : cons = Teardown(d) /\ Wrapped(cons)
      BY TeardownFacts
    <3>4. PICK handled \in SUBSET SdkIds : handled = handlers \ {d}
      BY <1>0
    <3>5. /\ inst' \in [SdkIds -> {"none", "open", "closed"}] /\ inst'[c] = "open" /\ inst'[d] = "closed"
          /\ \A x \in SdkIds : x # c /\ x # d => inst'[x] = inst[x]
      BY <1>0, <3>2
    <3>6. \A x \in SdkIds \ {c} : inst[x] # "none" <=> inst'[x] # "none"
      BY <1>0, <3>1, <3>5, <2>3
    <3>7. Hook(c, handled, cons)
      BY <3>2, <3>3, <3>4
    <3>8. /\ handlers' \subseteq SdkIds /\ console' \in Seq(SdkIds) /\ orig' \in [SdkIds -> Seq(SdkIds)]
          /\ ConstructedInOrder' /\ WrappersStack'
      BY <1>0, <3>3, <3>5, <3>6, <3>7, HookFacts
    <3>9. CloseIsOfDefault'
      BY <1>0, <2>1, <3>5 DEF CloseIsOfDefault
    <3> QED BY <1>0, <2>1, <3>5, <3>8, <3>9 DEF HooksIInv
  <2> QED BY <2>2, <2>3
<1> QED BY <1>2, <1>3

\* Before the first client.
LEMMA SdkStarts == SdkInit => SdkIInv
<1> SUFFICES ASSUME SdkInit PROVE SdkIInv
  OBVIOUS
<1>1. <<>> \in LogNumbers /\ <<>> \in Seq(SdkIds) /\ ToSet(<<>>) = {} /\ Len(<<>>) = 0
  BY DEF LogNumbers, ToSet
<1>2. \A c \in SdkIds : queue[c] = <<>> /\ flushed[c] = 0
  BY DEF SdkInit
<1>3. OnceEach(queue, wire, logged) /\ YoungerThanCloses(queue, logged)
  BY <1>1, <1>2 DEF SdkInit, OnceEach, YoungerThanCloses
<1>4. BuffersIInv
  BY <1>1, <1>3, SdkBoundAssumption DEF SdkInit, BuffersIInv, NoLogTwice
<1>5. HooksIInv
  BY <1>1 DEF SdkInit, HooksIInv, ConstructedInOrder, WrappersStack, Wrapped, CloseIsOfDefault
<1> QED BY <1>4, <1>5 DEF SdkIInv

\* Every step of the SDK, of its timers and of its requests keeps the invariant.
LEMMA SdkSteps == SdkIInv /\ [SdkNext]_sdkVars => SdkIInv'
<1> SUFFICES ASSUME SdkIInv, [SdkNext]_sdkVars PROVE SdkIInv'
  OBVIOUS
<1> USE DEF SdkIInv
<1>1. ASSUME NEW c \in SdkIds, construct(c) PROVE SdkIInv'
  <2>1. BuffersIInv'
    BY <1>1, BuffersStay DEF construct, sdkBuffers
  <2> QED BY <1>1, <2>1, ConstructKeeps
<1>2. ASSUME NEW c \in SdkIds, init(c) PROVE SdkIInv'
  <2>1. UNCHANGED <<logged, arrived, closings, flushed>>
    BY <1>2 DEF init
  <2>2. CASE defaultClient = NoClient
    BY <1>2, <2>1, <2>2, BuffersStay, ConstructKeeps DEF init
  <2>3. CASE defaultClient # NoClient
    <3>1. PICK d \in SdkIds : d = defaultClient
      BY <2>3 DEF HooksIInv
    <3>2. Flush({d}, queue)
      BY <1>2, <2>3, <3>1 DEF init
    <3>3. BuffersIInv'
      BY <2>1, <3>2, EmptyKeeps
    <3> QED BY <1>2, <3>3, ConstructKeeps
  <2> QED BY <2>2, <2>3
<1>3. ASSUME NEW cs \in SUBSET SdkIds, PushLog(cs) PROVE SdkIInv'
  <2>1. HooksIInv'
    BY <1>3, HooksStay DEF PushLog, sdkHooks, HooksIInv
  <2> QED BY <1>3, <2>1, PushKeeps
<1>4. ASSUME NEW c \in SdkIds, NEW global \in BOOLEAN, global => c = defaultClient, closeBy(c, global) PROVE SdkIInv'
  <2>1. /\ Flush({c}, queue) /\ UNCHANGED <<logged, arrived, flushed>>
        /\ closings' = closings \cup {Closing(c, global)}
    BY <1>4 DEF closeBy, CloseNow, CloseSync
  <2>2. BuffersIInv'
    BY <2>1, EmptyKeeps
  <2>3. inst[c] # "none" /\ CloseNow(c) /\ UNCHANGED <<orig, defaultClient, idleCloses, raced>>
    BY <1>4 DEF closeBy
  <2>4. HooksIInv'
    BY <1>4, <2>1, <2>3, CloseKeeps
  <2> QED BY <2>2, <2>4
<1>5. ASSUME NEW c \in SdkIds, FlushOne(c) PROVE SdkIInv'
  <2>1. BuffersIInv'
    BY <1>5, EmptyKeeps DEF FlushOne
  <2>2. HooksIInv'
    BY <1>5, HooksStay DEF FlushOne, sdkHooks, HooksIInv
  <2> QED BY <2>1, <2>2
<1>6. ASSUME NEW k \in closings, closeResumes(k) PROVE SdkIInv'
  <2>1. HooksIInv'
    BY <1>6, HooksStay DEF closeResumes, sdkHooks, HooksIInv
  <2> QED BY <1>6, <2>1, ResumeKeeps
<1>7. ASSUME NEW b, batchArrives(b) \/ batchLost(b) \/ sendBatch(b) PROVE SdkIInv'
  <2>1. HooksIInv'
    BY <1>7, HooksStay DEF batchArrives, batchLost, sendBatch, sdkHooks, HooksIInv
  <2> QED BY <1>7, <2>1, BatchKeeps
<1>8. CASE globalError
  <2>1. PICK cs \in SUBSET SdkIds : cs = handlers
    BY DEF HooksIInv
  <2> QED BY <1>3, <1>8, <2>1 DEF globalError
<1>9. CASE globalClose
  <2>1. PICK c \in SdkIds : c = defaultClient
    BY <1>9 DEF HooksIInv, globalClose
  <2> QED BY <1>4, <1>9, <2>1 DEF globalClose
<1>10. CASE UNCHANGED sdkVars
  BY <1>10, BuffersStay, HooksStay DEF sdkVars, HooksIInv
<1>11. ASSUME NEW c \in SdkIds, sdkLog(c) \/ closeClient(c) \/ sdkFlush(c) \/ timerFires(c) PROVE SdkIInv'
  BY <1>3, <1>4, <1>5, <1>11 DEF sdkLog, closeClient, sdkFlush, timerFires
<1>12. CASE closeNothing \/ idleCloseResumes
  <2>1. BuffersIInv'
    BY <1>12, BuffersStay DEF closeNothing, idleCloseResumes, sdkBuffers
  <2>2. UNCHANGED <<inst, handlers, console, orig, raced, closings>> /\ defaultClient' = NoClient
    BY <1>12 DEF closeNothing, idleCloseResumes, sdkHooks
  <2>3. idleCloses' \in Nat
    BY <1>12 DEF closeNothing, idleCloseResumes, HooksIInv
  <2> QED BY <2>1, <2>2, <2>3, HooksStay
<1>13. CASE initThrows
  <2>1. PICK c \in SdkIds : c = defaultClient /\ inst[c] # "none"
    BY <1>13 DEF HooksIInv, CloseIsOfDefault, initThrows
  <2>2. CloseNow(c) /\ UNCHANGED <<logged, arrived, orig, defaultClient, closings, idleCloses, flushed, raced>>
    BY <1>13, <2>1 DEF initThrows
  <2>3. BuffersIInv'
    BY <2>2, EmptyKeeps DEF CloseNow, CloseSync
  <2>4. HooksIInv'
    BY <2>1, <2>2, CloseKeeps
  <2> QED BY <2>3, <2>4
<1> QED BY <1>1, <1>2, <1>6, <1>7, <1>8, <1>9, <1>10, <1>11, <1>12, <1>13 DEF SdkNext

\* The invariant of the SDK holds always (TelerithmClient, index.ts).
THEOREM SdkInvariance == SdkSpec => []SdkIInv
BY SdkStarts, SdkSteps, PTL DEF SdkSpec

(***************************************************************************)
(* No log is stored twice, however flushes, closes, the timer and late     *)
(* requests overlap: flush splices the buffer before it sends, and nothing *)
(* is sent again (client.ts, transport.ts).                                *)
(***************************************************************************)
THEOREM NoLogTwiceTheorem == SdkSpec => []NoLogTwice
<1>1. SdkIInv => NoLogTwice
  BY DEF SdkIInv, BuffersIInv
<1> QED BY <1>1, SdkInvariance, PTL

\* A close leaves nothing behind that its client had been given before it.
LEMMA BufferedSteps == SdkIInv /\ SdkIInv' /\ SdkNext => Buffered
<1> SUFFICES ASSUME SdkIInv, SdkIInv', SdkNext PROVE Buffered
  OBVIOUS
<1>1. ASSUME NEW c \in SdkIds, NEW i \in DOMAIN queue'[c] PROVE queue'[c][i] > flushed'[c]
  <2>1. queue'[c][i] \in ToSet(queue'[c])
    BY <1>1 DEF ToSet
  <2>2. \A n \in ToSet(queue'[c]) : n > flushed'[c]
    BY DEF SdkIInv, BuffersIInv, YoungerThanCloses
  <2> QED BY <2>1, <2>2
<1>2. \/ closings \subseteq closings'
      \/ \E k \in closings : closings' = closings \ {k} /\ BatchOf(k.client, k.logs) \notin pending
  BY DEF SdkNext, construct, init, sdkLog, PushLog, closeClient, closeBy, sdkFlush, timerFires, FlushOne, globalError,
         globalClose, closeNothing, idleCloseResumes, initThrows, closeResumes, FlushSettled, batchArrives, batchLost,
         sendBatch
<1> QED BY <1>1, <1>2 DEF Buffered

(***************************************************************************)
(* close() sends the buffer it found and resolves no sooner than its       *)
(* request has been answered (close and flush of client.ts).               *)
(***************************************************************************)
THEOREM BuffersTheorem == SdkSpec => CloseEmptiesBuffer
<1>1. SdkIInv /\ SdkIInv' /\ [SdkNext]_sdkVars => [Buffered]_sdkVars
  BY BufferedSteps
<1> QED BY <1>1, SdkInvariance, PTL DEF SdkSpec, CloseEmptiesBuffer

\* The client c is closed: only the youngest one leaves the console as it should be.
LEMMA CloseUnwinds ==
  ASSUME HooksIInv, NEW c \in SdkIds, CloseNow(c)
  PROVE  Unwinds
<1> SUFFICES ASSUME ToSet(console) = {d \in Breadcrumbs : inst[d] = "open"},
                    \A d \in SdkIds : inst[d] = "open" /\ inst'[d] = "closed" => Youngest(d)
             PROVE  ToSet(console') = {d \in Breadcrumbs : inst'[d] = "open"}
  BY DEF Unwinds
<1>1. /\ console' = Teardown(c) /\ inst' = [inst EXCEPT ![c] = "closed"]
      /\ inst \in [SdkIds -> {"none", "open", "closed"}] /\ Breadcrumbs \subseteq SdkIds
  BY SdkBoundAssumption DEF CloseNow, CloseSync, HooksIInv, SdkIds
<1>2. inst'[c] = "closed" /\ \A d \in SdkIds \ {c} : inst'[d] = inst[d]
  BY <1>1
<1>3. ToSet(Teardown(c)) = {d \in Breadcrumbs : inst[d] = "open"} \ {c}
  BY <1>2, TeardownFacts
<1> QED BY <1>1, <1>2, <1>3

\* A client is constructed: it wraps what is left of the console.
LEMMA ConstructUnwinds ==
  ASSUME HooksIInv, NEW c \in SdkIds, construct(c) \/ init(c)
  PROVE  Unwinds
<1> SUFFICES ASSUME ToSet(console) = {d \in Breadcrumbs : inst[d] = "open"},
                    \A d \in SdkIds : inst[d] = "open" /\ inst'[d] = "closed" => Youngest(d)
             PROVE  ToSet(console') = {d \in Breadcrumbs : inst'[d] = "open"}
  BY DEF Unwinds
<1>0. /\ NextClient(c) /\ inst[c] = "none" /\ inst \in [SdkIds -> {"none", "open", "closed"}]
      /\ defaultClient \in SdkIds \cup {NoClient} /\ (defaultClient # NoClient => inst[defaultClient] # "none")
      /\ handlers \in SUBSET SdkIds /\ console \in Seq(SdkIds) /\ Wrapped(console) /\ Breadcrumbs \subseteq SdkIds
  BY SdkBoundAssumption DEF construct, init, NextClient, HooksIInv, CloseIsOfDefault, WrappersStack, NoClient, SdkIds
<1>1. ASSUME inst' = [inst EXCEPT ![c] = "open"], Hook(c, handlers, console)
      PROVE  ToSet(console') = {d \in Breadcrumbs : inst'[d] = "open"}
  <2>1. /\ inst' \in [SdkIds -> {"none", "open", "closed"}] /\ inst'[c] = "open"
        /\ \A d \in SdkIds \ {c} : inst'[d] = inst[d]
    BY <1>0, <1>1
  <2>2. PICK cons \in Seq(SdkIds) : cons = console
    BY <1>0
  <2>3. PICK handled \in SUBSET SdkIds : handled = handlers
    BY <1>0
  <2>4. Wrapped(cons) /\ Hook(c, handled, cons)
    BY <1>0, <1>1, <2>2, <2>3
  <2>5. ToSet(console') = IF c \in Breadcrumbs THEN ToSet(cons) \cup {c} ELSE ToSet(cons)
    BY <1>0, <2>1, <2>4, HookFacts
  <2> QED BY <1>0, <2>1, <2>2, <2>5
<1>2. CASE construct(c) \/ defaultClient = NoClient
  BY <1>1, <1>2 DEF construct, init
<1>3. CASE init(c) /\ defaultClient # NoClient
  <2>1. PICK d \in SdkIds : d = defaultClient
    BY <1>0, <1>3
  <2>2. inst' = [inst EXCEPT ![c] = "open", ![d] = "closed"] /\ Hook(c, handlers \ {d}, Teardown(d)) /\ d # c
    BY <1>0, <1>3, <2>1 DEF init
  <2>3. PICK cons \in Seq(SdkIds) : cons = Teardown(d) /\ Wrapped(cons)
    BY TeardownFacts
  <2>4. PICK handled \in SUBSET SdkIds : handled = handlers \ {d}
    BY <1>0
  <2>5. /\ inst' \in [SdkIds -> {"none", "open", "closed"}] /\ inst'[c] = "open" /\ inst'[d] = "closed"
        /\ \A x \in SdkIds : x # c /\ x # d => inst'[x] = inst[x]
    BY <1>0, <2>2
  <2>6. \A x \in SdkIds \ {c} : inst[x] # "none" <=> inst'[x] # "none"
    BY <1>0, <1>3, <2>1, <2>5
  <2>7. Hook(c, handled, cons)
    BY <2>2, <2>3, <2>4
  <2>8. ToSet(console') = IF c \in Breadcrumbs THEN ToSet(cons) \cup {c} ELSE ToSet(cons)
    BY <1>0, <2>3, <2>5, <2>6, <2>7, HookFacts
  <2>9. ToSet(Teardown(d)) = {x \in Breadcrumbs : inst[x] = "open"} \ {d}
    BY <2>5, TeardownFacts
  <2> QED BY <1>0, <2>2, <2>3, <2>5, <2>8, <2>9
<1> QED BY <1>2, <1>3

\* Every step leaves the console to the open clients, and the default client to a close().
LEMMA HookSteps == SdkIInv /\ SdkNext => Unwinds /\ DefaultKept
<1> SUFFICES ASSUME SdkIInv, SdkNext PROVE Unwinds /\ DefaultKept
  OBVIOUS
<1>0. HooksIInv
  BY DEF SdkIInv
<1>1. ASSUME NEW c \in SdkIds, construct(c) \/ init(c) PROVE Unwinds /\ DefaultKept
  <2>1. defaultClient' = defaultClient \/ defaultClient' = c
    BY <1>1 DEF construct, init
  <2>2. c # NoClient
    BY DEF NoClient, SdkIds
  <2> QED BY <1>0, <1>1, <2>1, <2>2, ConstructUnwinds DEF DefaultKept
<1>2. ASSUME NEW c \in SdkIds, NEW global, closeBy(c, global) PROVE Unwinds /\ DefaultKept
  BY <1>0, <1>2, CloseUnwinds DEF closeBy, DefaultKept
<1>3. CASE globalClose
  <2>1. PICK c \in SdkIds : c = defaultClient
    BY <1>0, <1>3 DEF HooksIInv, globalClose
  <2> QED BY <1>2, <1>3, <2>1 DEF globalClose
<1>4. ASSUME UNCHANGED <<inst, console>> PROVE Unwinds
  BY <1>4 DEF Unwinds
<1>5. ASSUME NEW k \in closings, closeResumes(k) PROVE Unwinds /\ DefaultKept
  <2>1. UNCHANGED <<inst, console>> /\ (k.global \/ defaultClient' = defaultClient)
    BY <1>5 DEF closeResumes, sdkHooks
  <2> QED BY <1>0, <1>4, <2>1 DEF DefaultKept, HooksIInv, CloseIsOfDefault
<1>6. ASSUME UNCHANGED <<inst, console, defaultClient>> PROVE Unwinds /\ DefaultKept
  BY <1>4, <1>6 DEF DefaultKept
<1>7. ASSUME NEW cs, PushLog(cs) PROVE Unwinds /\ DefaultKept
  BY <1>6, <1>7 DEF PushLog, sdkHooks
<1>8. ASSUME NEW c \in SdkIds, FlushOne(c) PROVE Unwinds /\ DefaultKept
  BY <1>6, <1>8 DEF FlushOne, sdkHooks
<1>9. ASSUME NEW b, batchArrives(b) \/ batchLost(b) \/ sendBatch(b) PROVE Unwinds /\ DefaultKept
  BY <1>6, <1>9 DEF batchArrives, batchLost, sendBatch, sdkHooks
<1>10. CASE closeNothing
  BY <1>6, <1>10 DEF closeNothing, sdkHooks
<1>11. CASE idleCloseResumes
  <2>1. UNCHANGED <<inst, console>> /\ idleCloses # 0
    BY <1>11 DEF idleCloseResumes, sdkHooks
  <2> QED BY <1>0, <1>4, <2>1 DEF DefaultKept, HooksIInv, CloseIsOfDefault
<1>12. CASE initThrows
  <2>1. PICK c \in SdkIds : c = defaultClient
    BY <1>0, <1>12 DEF HooksIInv, initThrows
  <2> QED BY <1>0, <1>12, <2>1, CloseUnwinds DEF initThrows, DefaultKept
<1> QED BY <1>1, <1>2, <1>3, <1>5, <1>7, <1>8, <1>9, <1>10, <1>11, <1>12
        DEF SdkNext, sdkLog, closeClient, sdkFlush, timerFires, globalError

(***************************************************************************)
(* The hooks of the SDK are undone in the order in which they were put up, *)
(* and only a close() takes the default client away (the constructor and   *)
(* teardown of client.ts; init and close of index.ts).                     *)
(***************************************************************************)
THEOREM HooksTheorem == SdkSpec => HooksUnwind
<1>1. SdkIInv /\ [SdkNext]_sdkVars => [Unwinds]_sdkVars /\ [DefaultKept]_sdkVars
  BY HookSteps
<1> QED BY <1>1, SdkInvariance, PTL DEF SdkSpec, HooksUnwind, ConsoleUnwinds, DefaultLostOnlyByRace

(***************************************************************************)
(* The search screen: results, URL and saved views.                        *)
(***************************************************************************)
\* What a handler may ask of updateSearch: a first page, a change outside the
\* criteria, or a page with the token that was issued for it.
Fits(u, next) ==
  /\ "page" \in DOMAIN next => next.page \in Nat \ {0}
  /\ "share" \in DOMAIN next => next.share \in BOOLEAN
  /\ "range" \in DOMAIN next => next.range # NoRange
  /\ "dur" \in DOMAIN next => next.dur # NoRange
  /\ "tr" \in DOMAIN next => next.tr = "rel" \/ (next.tr = "abs" /\ "range" \in DOMAIN next)
  /\ \/ "token" \notin DOMAIN next /\ "page" \in DOMAIN next /\ next.page = 1
     \/ DOMAIN next \subseteq {"columns", "view"}
     \/ /\ DOMAIN next = {"page", "token"}
        /\ next.token # NoToken => next.page > 1 /\ next.token = [scope |-> Scope(u), page |-> next.page]

\* What updateSearch writes, field by field.
FieldByField(u, l, next, m) ==
  /\ DOMAIN m.url = DOMAIN HomeUrl
  /\ \A f \in {"query", "filter", "facets", "exclusions", "columns", "mode", "sort", "size", "page", "view"} :
       m.url[f] = IF f \in DOMAIN next THEN next[f] ELSE u[f]
  /\ m.url.token = NextToken(u, next)
  /\ m.tr = IF "range" \in DOMAIN next THEN "abs" ELSE IF "tr" \in DOMAIN next THEN next.tr ELSE u.tr
  /\ m.range = IF "range" \in DOMAIN next THEN next.range ELSE currentTimeRange(u, l)
  /\ m.tr = "rel" => /\ m.url.tr = "rel" /\ m.url.share = FALSE /\ m.url.from = NoRange
                     /\ m.url.dur = IF "dur" \in DOMAIN next THEN next.dur ELSE u.dur
  /\ m.tr # "rel" => /\ m.url.tr = "abs" /\ m.url.dur = DefaultDuration
                     /\ m.url.share = IF "share" \in DOMAIN next THEN next.share ELSE u.share
                     /\ m.url.from = IF m.url.share THEN m.range ELSE NoRange

\* The URL that updateSearch writes.
LEMMA MergedFields ==
  ASSUME NEW u, DOMAIN u = DOMAIN HomeUrl, NEW l, NEW next
  PROVE  FieldByField(u, l, next, Merged(u, l, next))
<1>0. PICK m : m = Merged(u, l, next)
  OBVIOUS
<1>1. PICK D : D = DOMAIN u /\ D = {"query", "filter", "facets", "exclusions", "columns", "mode", "sort", "size", "page",
                                   "token", "view", "tr", "dur", "share", "from"}
  BY DEF HomeUrl
<1>2. PICK a : a = [f \in DOMAIN u |-> IF f \in DOMAIN next THEN next[f] ELSE u[f]]
  OBVIOUS
<1>3. DOMAIN a = D /\ \A f \in D : a[f] = IF f \in DOMAIN next THEN next[f] ELSE u[f]
  BY <1>1, <1>2, Zenon
<1>4. PICK tr : tr = IF "range" \in DOMAIN next THEN "abs" ELSE a.tr
  OBVIOUS
<1>5. PICK range : range = IF "range" \in DOMAIN next THEN next.range ELSE currentTimeRange(u, l)
  OBVIOUS
<1>6. PICK from : from = IF a.share THEN range ELSE NoRange
  OBVIOUS
<1>7. PICK r1 : r1 = [a EXCEPT !.tr = "rel"]
  OBVIOUS
<1>8. PICK r2 : r2 = [r1 EXCEPT !.share = FALSE]
  OBVIOUS
<1>9. PICK r3 : r3 = [r2 EXCEPT !.from = NoRange]
  OBVIOUS
<1>10. PICK a1 : a1 = [a EXCEPT !.tr = "abs"]
  OBVIOUS
<1>11. PICK a2 : a2 = [a1 EXCEPT !.dur = DefaultDuration]
  OBVIOUS
<1>12. PICK a3 : a3 = [a2 EXCEPT !.from = from]
  OBVIOUS
<1>13. PICK t : t = IF tr = "rel" THEN r3 ELSE a3
  OBVIOUS
<1>14. PICK w : w = [t EXCEPT !.token = NextToken(u, next)]
  OBVIOUS
<1>15. m = [url |-> w, tr |-> tr, range |-> range]
  <2>1. [a EXCEPT !.tr = "rel", !.share = FALSE, !.from = NoRange] = r3
    BY <1>7, <1>8, <1>9, Zenon
  <2>2. [a EXCEPT !.tr = "abs", !.dur = DefaultDuration, !.from = IF a.share THEN range ELSE NoRange] = a3
    BY <1>6, <1>10, <1>11, <1>12, Zenon
  <2>3. Timed(a, tr, range) = t
    BY <1>13, <2>1, <2>2, Zenon DEF Timed
  <2>4. a = Requested(u, next)
    BY <1>2 DEF Requested
  <2> QED BY <1>0, <1>4, <1>5, <1>14, <2>3, <2>4 DEF Merged
<1>16. m.url = w /\ m.tr = tr /\ m.range = range
  BY <1>15
<1>17. /\ "tr" \in D /\ "share" \in D /\ "from" \in D /\ "dur" \in D /\ "token" \in D
       /\ {"query", "filter", "facets", "exclusions", "columns", "mode", "sort", "size", "page", "view"} \subseteq D
  BY <1>1
<1>18. DOMAIN r1 = D /\ r1.tr = "rel" /\ \A f \in D : f # "tr" => r1[f] = a[f]
  BY <1>3, <1>7, <1>17
<1>19. DOMAIN r2 = D /\ r2.share = FALSE /\ \A f \in D : f # "share" => r2[f] = r1[f]
  BY <1>8, <1>17, <1>18, Zenon
<1>20. DOMAIN r3 = D /\ r3.from = NoRange /\ \A f \in D : f # "from" => r3[f] = r2[f]
  BY <1>9, <1>17, <1>19
<1>21. DOMAIN a1 = D /\ a1.tr = "abs" /\ \A f \in D : f # "tr" => a1[f] = a[f]
  BY <1>3, <1>10, <1>17
<1>22. DOMAIN a2 = D /\ a2.dur = DefaultDuration /\ \A f \in D : f # "dur" => a2[f] = a1[f]
  BY <1>11, <1>17, <1>21
<1>23. DOMAIN a3 = D /\ a3.from = from /\ \A f \in D : f # "from" => a3[f] = a2[f]
  BY <1>12, <1>17, <1>22
<1>24. DOMAIN t = D
  BY <1>13, <1>20, <1>23
<1>25. DOMAIN w = D /\ w.token = NextToken(u, next) /\ \A f \in D : f # "token" => w[f] = t[f]
  BY <1>14, <1>17, <1>24
<1>26. \A f \in {"query", "filter", "facets", "exclusions", "columns", "mode", "sort", "size", "page", "view"} :
         f \in D /\ f # "tr" /\ f # "share" /\ f # "from" /\ f # "dur" /\ f # "token"
  BY <1>17
<1>27. ASSUME NEW f \in {"query", "filter", "facets", "exclusions", "columns", "mode", "sort", "size", "page", "view"}
       PROVE  w[f] = a[f]
  BY <1>13, <1>18, <1>19, <1>20, <1>21, <1>22, <1>23, <1>25, <1>26
<1>28. ASSUME tr = "rel"
       PROVE  w.tr = "rel" /\ w.share = FALSE /\ w.from = NoRange /\ w.dur = a.dur
  BY <1>13, <1>17, <1>18, <1>19, <1>20, <1>25, <1>28
<1>29. ASSUME tr # "rel"
       PROVE  w.tr = "abs" /\ w.share = a.share /\ w.from = from /\ w.dur = DefaultDuration
  BY <1>13, <1>17, <1>21, <1>22, <1>23, <1>25, <1>29
<1>30. DOMAIN m.url = DOMAIN HomeUrl /\ m.url.token = NextToken(u, next)
  BY <1>1, <1>16, <1>25
<1>31. \A f \in {"query", "filter", "facets", "exclusions", "columns", "mode", "sort", "size", "page", "view"} :
              m.url[f] = IF f \in DOMAIN next THEN next[f] ELSE u[f]
  BY <1>3, <1>16, <1>26, <1>27
<1>32. /\ m.tr = IF "range" \in DOMAIN next THEN "abs" ELSE IF "tr" \in DOMAIN next THEN next.tr ELSE u.tr
       /\ m.range = IF "range" \in DOMAIN next THEN next.range ELSE currentTimeRange(u, l)
  BY <1>3, <1>4, <1>5, <1>16, <1>17
<1>33. m.tr = "rel" => /\ m.url.tr = "rel" /\ m.url.share = FALSE /\ m.url.from = NoRange
                       /\ m.url.dur = IF "dur" \in DOMAIN next THEN next.dur ELSE u.dur
  BY <1>3, <1>16, <1>17, <1>28
<1>34. m.tr # "rel" => /\ m.url.tr = "abs" /\ m.url.dur = DefaultDuration
                       /\ m.url.share = IF "share" \in DOMAIN next THEN next.share ELSE u.share
                       /\ m.url.from = IF m.url.share THEN m.range ELSE NoRange
  BY <1>3, <1>6, <1>16, <1>17, <1>29
<1>35. FieldByField(u, l, next, m)
  BY <1>30, <1>31, <1>32, <1>33, <1>34 DEF FieldByField
<1> QED BY <1>0, <1>35

\* updateSearch writes a tidy URL, whose token is one of its own search.
LEMMA MergedTidy ==
  ASSUME NEW u, Tidy(u), NEW l, Ranged(u, l), NEW next, Fits(u, next), NEW m, m = Merged(u, l, next)
  PROVE  /\ Tidy(m.url) /\ m.tr = m.url.tr /\ m.range # NoRange
         /\ Ranged(m.url, m.range) /\ (m.tr = "rel" => \A k : Ranged(m.url, k))
<1>0. DOMAIN u = DOMAIN HomeUrl /\ DefaultDuration # NoRange /\ u.page \in Nat \ {0} /\ u.share \in BOOLEAN /\ u.dur # NoRange
  BY SearchSetAssumption DEF Tidy, DefaultDuration
<1>1. FieldByField(u, l, next, m)
  BY <1>0, MergedFields
<1>2. DOMAIN m.url = DOMAIN HomeUrl
  BY <1>1 DEF FieldByField
<1>3. \A f \in {"query", "filter", "facets", "exclusions", "columns", "mode", "sort", "size", "page", "view"} :
        m.url[f] = IF f \in DOMAIN next THEN next[f] ELSE u[f]
  BY <1>1 DEF FieldByField
<1>4. m.url.token = NextToken(u, next)
  BY <1>1 DEF FieldByField
<1>5. /\ m.tr = IF "range" \in DOMAIN next THEN "abs" ELSE IF "tr" \in DOMAIN next THEN next.tr ELSE u.tr
      /\ m.range = IF "range" \in DOMAIN next THEN next.range ELSE currentTimeRange(u, l)
  BY <1>1 DEF FieldByField
<1>6. m.tr = "rel" => /\ m.url.tr = "rel" /\ m.url.share = FALSE /\ m.url.from = NoRange
                      /\ m.url.dur = IF "dur" \in DOMAIN next THEN next.dur ELSE u.dur
  BY <1>1 DEF FieldByField
<1>7. m.tr # "rel" => /\ m.url.tr = "abs" /\ m.url.dur = DefaultDuration
                      /\ m.url.share = IF "share" \in DOMAIN next THEN next.share ELSE u.share
                      /\ m.url.from = IF m.url.share THEN m.range ELSE NoRange
  BY <1>1 DEF FieldByField
<1>8. m.range # NoRange /\ m.tr \in {"rel", "abs"}
  BY <1>5 DEF Ranged, Fits, Tidy
<1>9. m.tr = m.url.tr
  BY <1>6, <1>7, <1>8
<1>10. m.url.page = IF "page" \in DOMAIN next THEN next.page ELSE u.page
  BY <1>3
<1>11. m.url.share \in BOOLEAN
  BY <1>0, <1>6, <1>7 DEF Fits
<1>12. m.url.page \in Nat \ {0} /\ m.url.dur # NoRange
  BY <1>0, <1>6, <1>7, <1>10 DEF Fits
<1>13. \/ m.url.tr = "rel" /\ m.url.from = NoRange /\ m.url.share = FALSE
       \/ m.url.tr = "abs" /\ m.url.dur = DefaultDuration /\ (m.url.share <=> m.url.from # NoRange)
  BY <1>6, <1>7, <1>8, <1>11
<1>14. ASSUME DOMAIN next \subseteq {"columns", "view", "page", "token"} PROVE Scope(m.url) = Scope(u)
  <2>1. /\ "range" \notin DOMAIN next /\ "tr" \notin DOMAIN next /\ "dur" \notin DOMAIN next /\ "share" \notin DOMAIN next
        /\ "query" \notin DOMAIN next /\ "filter" \notin DOMAIN next /\ "facets" \notin DOMAIN next
        /\ "exclusions" \notin DOMAIN next /\ "sort" \notin DOMAIN next /\ "size" \notin DOMAIN next
    BY <1>14
  <2>2. /\ m.url.query = u.query /\ m.url.filter = u.filter /\ m.url.facets = u.facets
        /\ m.url.exclusions = u.exclusions /\ m.url.sort = u.sort /\ m.url.size = u.size
    BY <1>3, <2>1
  <2>3. m.url.tr = u.tr /\ m.url.dur = u.dur /\ m.url.from = u.from
    BY <1>5, <1>6, <1>7, <2>1 DEF Tidy, currentTimeRange
  <2> QED BY <2>2, <2>3 DEF Scope
<1>15. m.url.token # NoToken => m.url.page > 1 /\ m.url.token = [scope |-> Scope(m.url), page |-> m.url.page]
  <2>1. CASE "token" \notin DOMAIN next /\ "page" \in DOMAIN next /\ next.page = 1
    BY <1>0, <1>4, <2>1 DEF NextToken, Tidy
  <2>2. CASE DOMAIN next \subseteq {"columns", "view"}
    <3>1. "token" \notin DOMAIN next /\ "page" \notin DOMAIN next
      BY <2>2
    <3>2. m.url.token = u.token /\ m.url.page = u.page
      BY <1>4, <1>10, <3>1 DEF NextToken
    <3>3. Scope(m.url) = Scope(u)
      BY <1>14, <2>2
    <3> QED BY <3>2, <3>3 DEF Tidy
  <2>3. CASE /\ DOMAIN next = {"page", "token"}
             /\ next.token # NoToken => next.page > 1 /\ next.token = [scope |-> Scope(u), page |-> next.page]
    <3>1. m.url.token = next.token /\ m.url.page = next.page
      BY <1>4, <1>10, <2>3 DEF NextToken
    <3>2. Scope(m.url) = Scope(u)
      BY <1>14, <2>3
    <3> QED BY <2>3, <3>1, <3>2
  <2> QED BY <2>1, <2>2, <2>3 DEF Fits
<1>16. Tidy(m.url)
  BY <1>2, <1>11, <1>12, <1>13, <1>15 DEF Tidy
<1>17. Ranged(m.url, m.range) /\ (m.tr = "rel" => \A k : Ranged(m.url, k))
  BY <1>6, <1>7, <1>8, <1>9, <1>12 DEF Ranged, currentTimeRange
<1> QED BY <1>8, <1>9, <1>16, <1>17

\* A new effect takes the place of the ones before it.
LEMMA LaunchKeeps ==
  ASSUME FlightsInOrder, NEW u, NEW l, Launch(u, l), url' = u, local' = l
  PROVE  ResultsIInv'
<1>1. flights' = {[f EXCEPT !.active = FALSE] : f \in flights} \cup {[search |-> Search(u, l), active |-> TRUE]}
  BY Zenon DEF Launch
<1>2. loading' = TRUE /\ failed' = FALSE
  BY DEF Launch
<1>3. ASSUME NEW f \in flights, NEW g, g = [f EXCEPT !.active = FALSE]
      PROVE  g = [search |-> g.search, active |-> g.active] /\ g.active = FALSE
  <2>1. PICK s, a : f = [search |-> s, active |-> a]
    BY DEF FlightsInOrder
  <2>2. g = [search |-> s, active |-> FALSE]
    BY <1>3, <2>1, Zenon
  <2>3. g.search = s /\ g.active = FALSE
    BY <2>2, Zenon
  <2> QED BY <2>2, <2>3, Zenon
<1>4. ASSUME NEW g, g = [search |-> Search(u, l), active |-> TRUE]
      PROVE  g = [search |-> g.search, active |-> g.active] /\ g.active \in BOOLEAN /\ g.search = Search(u, l)
  BY <1>4, Zenon
<1>5. ASSUME NEW g \in flights'
      PROVE  g = [search |-> g.search, active |-> g.active] /\ g.active \in BOOLEAN /\ (g.active => g.search = Search(u, l))
  <2>1. CASE \E f \in flights : g = [f EXCEPT !.active = FALSE]
    BY <1>3, <2>1, Zenon
  <2>2. CASE g = [search |-> Search(u, l), active |-> TRUE]
    BY <1>4, <2>2, Zenon
  <2> QED BY <1>1, <2>1, <2>2, Zenon
<1>6. FlightsInOrder'
  BY <1>2, <1>5 DEF FlightsInOrder
<1> QED BY <1>2, <1>6 DEF ResultsIInv, ShownIsCurrent, TokenIsNext, Settled

\* router.push and its render: the results on screen are those of the URL or
\* on their way.
LEMMA GoKeeps ==
  ASSUME ResultsIInv, NEW u, NEW l, Go(u, l)
  PROVE  ResultsIInv'
<1>1. url' = u /\ local' = l
  BY DEF Go
<1>2. CASE u # url \/ Search(u, l) # Search(url, local)
  BY <1>1, <1>2, LaunchKeeps DEF Go, ResultsIInv
<1>3. CASE ~(u # url \/ Search(u, l) # Search(url, local))
  <2>1. UNCHANGED <<url, flights, loading, shown, failed, nextToken>> /\ Search(url', local') = Search(url, local)
    BY <1>1, <1>3 DEF Go
  <2>2. FlightsInOrder'
    BY <2>1 DEF ResultsIInv, FlightsInOrder
  <2> QED BY <2>1, <2>2 DEF ResultsIInv, ShownIsCurrent, TokenIsNext, Settled
<1> QED BY <1>2, <1>3

\* updateSearch, perhaps with an old closure.
LEMMA UpdateKeeps ==
  ASSUME ResultsIInv, UrlIInv, NEW u, Tidy(u), NEW l, Ranged(u, l), NEW next, Fits(u, next), UpdateFrom(u, l, next)
  PROVE  ResultsIInv' /\ UrlIInv'
<1>1. PICK m : m = Merged(u, l, next)
  OBVIOUS
<1>2. PICK k : k = IF m.tr = "abs" THEN m.range ELSE local
  OBVIOUS
<1>3. Go(m.url, k) /\ stored' = IF m.tr = "abs" THEN m.range ELSE stored
  BY <1>1, <1>2 DEF UpdateFrom, StoredBy
<1>4. ResultsIInv'
  <2>1. PICK w : w = m.url
    OBVIOUS
  <2> QED BY <1>3, <2>1, GoKeeps
<1>5. url' = m.url /\ local' = k /\ prevUrl' \in {url, prevUrl}
  BY <1>3 DEF Go
<1>6. /\ Tidy(m.url) /\ m.tr = m.url.tr /\ m.range # NoRange
      /\ Ranged(m.url, m.range) /\ (m.tr = "rel" => Ranged(m.url, k))
  BY <1>1, MergedTidy
<1>7. m.tr \in {"rel", "abs"}
  BY <1>6 DEF Tidy
<1>8. Tidy(url') /\ Tidy(prevUrl') /\ Ranged(url', local')
  BY <1>2, <1>5, <1>6, <1>7 DEF UrlIInv
<1>9. url'.tr = "abs" \/ prevUrl'.tr = "abs" => stored' # NoRange
  BY <1>3, <1>5, <1>6 DEF UrlIInv
<1>10. url'.tr = "abs" /\ url'.from = NoRange => local' = stored'
  BY <1>2, <1>3, <1>5, <1>6
<1> QED BY <1>4, <1>8, <1>9, <1>10 DEF UrlIInv, Tidy, Ranged

\* What applying a saved view asks for.
LEMMA ViewFits ==
  ASSUME NEW u, NEW v, NEW d, Definite(d), NEW next,
         next = IF d.tr = "rel"
                THEN [query |-> d.query, mode |-> d.mode, page |-> 1, size |-> d.size, sort |-> d.sort, filter |-> d.filter,
                      exclusions |-> d.exclusions, facets |-> d.facets, columns |-> d.columns, tr |-> "rel",
                      dur |-> d.range, view |-> v]
                ELSE [query |-> d.query, mode |-> d.mode, page |-> 1, size |-> d.size, sort |-> d.sort, filter |-> d.filter,
                      exclusions |-> d.exclusions, facets |-> d.facets, columns |-> d.columns, tr |-> "abs",
                      range |-> d.range, view |-> v]
  PROVE  /\ Fits(u, next) /\ DOMAIN next \subseteq {"query", "mode", "page", "size", "sort", "filter", "exclusions", "facets",
                                                    "columns", "tr", "dur", "range", "view"}
         /\ {"query", "mode", "page", "size", "sort", "filter", "exclusions", "facets", "columns", "tr", "view"} \subseteq DOMAIN next
         /\ next.query = d.query /\ next.mode = d.mode /\ next.size = d.size /\ next.sort = d.sort /\ next.filter = d.filter
         /\ next.exclusions = d.exclusions /\ next.facets = d.facets /\ next.columns = d.columns /\ next.view = v
         /\ d.tr = "rel" => "range" \notin DOMAIN next /\ next.tr = "rel" /\ "dur" \in DOMAIN next /\ next.dur = d.range
         /\ d.tr # "rel" => "range" \in DOMAIN next /\ next.range = d.range
<1>1. d.tr \in {"rel", "abs"} /\ d.range # NoRange
  BY DEF Definite
<1>2. CASE d.tr = "rel"
  BY <1>1, <1>2 DEF Fits
<1>3. CASE d.tr = "abs"
  BY <1>1, <1>3 DEF Fits
<1> QED BY <1>1, <1>2, <1>3

\* A saved view is applied: the search becomes the view's.
LEMMA ApplyKeeps ==
  ASSUME ResultsIInv, UrlIInv, NEW u, Tidy(u), NEW l, Ranged(u, l), NEW v, NEW d, Definite(d), applySavedView(u, l, v, d)
  PROVE  ResultsIInv' /\ UrlIInv' /\ url'.view = v /\ Definition(url', local') = d
<1>1. PICK next :
        next = IF d.tr = "rel"
               THEN [query |-> d.query, mode |-> d.mode, page |-> 1, size |-> d.size, sort |-> d.sort, filter |-> d.filter,
                     exclusions |-> d.exclusions, facets |-> d.facets, columns |-> d.columns, tr |-> "rel",
                     dur |-> d.range, view |-> v]
               ELSE [query |-> d.query, mode |-> d.mode, page |-> 1, size |-> d.size, sort |-> d.sort, filter |-> d.filter,
                     exclusions |-> d.exclusions, facets |-> d.facets, columns |-> d.columns, tr |-> "abs",
                     range |-> d.range, view |-> v]
  OBVIOUS
<1>2. UpdateFrom(u, l, next)
  BY <1>1 DEF applySavedView
<1>3. Fits(u, next)
  BY <1>1, ViewFits
<1>4. ResultsIInv' /\ UrlIInv'
  BY <1>2, <1>3, UpdateKeeps
<1>5. PICK m : m = Merged(u, l, next)
  OBVIOUS
<1>6. FieldByField(u, l, next, m)
  BY <1>5, MergedFields DEF Tidy
<1>7. url' = m.url /\ local' = IF m.tr = "abs" THEN m.range ELSE local
  BY <1>2, <1>5 DEF UpdateFrom, Go
<1>8. /\ {"query", "mode", "page", "size", "sort", "filter", "exclusions", "facets", "columns", "tr", "view"} \subseteq DOMAIN next
      /\ next.query = d.query /\ next.mode = d.mode /\ next.size = d.size /\ next.sort = d.sort /\ next.filter = d.filter
      /\ next.exclusions = d.exclusions /\ next.facets = d.facets /\ next.columns = d.columns /\ next.view = v
  BY <1>1, ViewFits
<1>9. /\ url'.query = d.query /\ url'.mode = d.mode /\ url'.size = d.size /\ url'.sort = d.sort /\ url'.filter = d.filter
      /\ url'.exclusions = d.exclusions /\ url'.facets = d.facets /\ url'.columns = d.columns /\ url'.view = v
  <2>1. \A f \in {"query", "filter", "facets", "exclusions", "columns", "mode", "sort", "size", "page", "view"} :
          m.url[f] = IF f \in DOMAIN next THEN next[f] ELSE u[f]
    BY <1>6 DEF FieldByField
  <2> QED BY <1>7, <1>8, <2>1
<1>10. d.tr \in {"rel", "abs"} /\ d.range # NoRange
  BY DEF Definite
<1>11. url'.tr = d.tr /\ currentTimeRange(url', local') = d.range
  <2>1. CASE d.tr = "rel"
    <3>1. "range" \notin DOMAIN next /\ "tr" \in DOMAIN next /\ next.tr = "rel" /\ "dur" \in DOMAIN next /\ next.dur = d.range
      BY <1>1, <2>1, <1>8, ViewFits
    <3> QED BY <1>6, <1>7, <2>1, <3>1 DEF FieldByField, currentTimeRange
  <2>2. CASE d.tr = "abs"
    <3>1. "range" \in DOMAIN next /\ next.range = d.range
      BY <1>1, <2>2, ViewFits
    <3>2. m.tr = "abs" /\ m.range = d.range /\ m.url.tr = "abs" /\ m.url.from \in {d.range, NoRange}
      BY <1>6, <3>1 DEF FieldByField
    <3> QED BY <1>7, <1>10, <2>2, <3>2 DEF currentTimeRange
  <2> QED BY <1>10, <2>1, <2>2
<1>12. Definition(url', local') = d
  BY <1>9, <1>11 DEF Definition, Definite
<1> QED BY <1>4, <1>9, <1>12

\* currentDefinition is definite.
LEMMA DefinitionFacts ==
  ASSUME NEW u, Tidy(u), NEW l, Ranged(u, l)
  PROVE  Definite(Definition(u, l))
<1>1. u.tr \in {"rel", "abs"}
  BY DEF Tidy
<1>2. PICK d : d = Definition(u, l)
  OBVIOUS
<1>3. Definite(d)
  BY <1>1, <1>2 DEF Definition, Definite, Ranged
<1> QED BY <1>2, <1>3

\* The URL of a fresh screen.
LEMMA HomeFacts == Tidy(HomeUrl) /\ Ranged(HomeUrl, LastHour)
<1>1. DefaultDuration # NoRange
  BY SearchSetAssumption DEF DefaultDuration
<1>2. /\ HomeUrl.page = 1 /\ HomeUrl.tr = "rel" /\ HomeUrl.from = NoRange /\ HomeUrl.dur = DefaultDuration
      /\ HomeUrl.token = NoToken
  BY DEF HomeUrl
<1>3. HomeUrl.share = FALSE
  BY Zenon DEF HomeUrl
<1>4. HomeUrl.share \in BOOLEAN
  BY <1>3, Zenon
<1>5. Tidy(HomeUrl)
  BY <1>1, <1>2, <1>3, <1>4 DEF Tidy
<1>6. Ranged(HomeUrl, LastHour)
  BY <1>1, <1>2 DEF Ranged, currentTimeRange
<1> QED BY <1>5, <1>6

\* An answer: the one of the current effect settles the screen, the others are dropped.
LEMMA AnswersKeep ==
  ASSUME ResultsIInv, UrlIInv, NEW f \in flights, resultsFail(f) \/ \E more, plan \in BOOLEAN : resultsArrive(f, more, plan)
  PROVE  ResultsIInv' /\ UNCHANGED <<url, prevUrl, local, stored, views, rows, op>>
<1>1. flights' = flights \ {f} /\ UNCHANGED <<url, prevUrl, local, stored, views, rows, op>>
  BY DEF resultsFail, resultsArrive, Arrived, viewsUnchanged
<1>2. /\ loading \in BOOLEAN /\ failed \in BOOLEAN /\ Search(url, local)' = Search(url, local)
      /\ Scope(url)' = Scope(url) /\ url.page \in Nat
  BY <1>1 DEF ResultsIInv, UrlIInv, Tidy
<1>3. CASE ~ f.active
  <2>1. UNCHANGED <<shown, nextToken, loading, failed>>
    BY <1>3 DEF resultsFail, resultsArrive, Deliverable
  <2>2. FlightsInOrder'
    BY <1>1, <1>2, <2>1 DEF ResultsIInv, FlightsInOrder
  <2>3. ShownIsCurrent' /\ TokenIsNext'
    BY <1>1, <1>2, <2>1 DEF ResultsIInv, ShownIsCurrent, TokenIsNext, Settled
  <2> QED BY <1>1, <1>2, <2>1, <2>2, <2>3 DEF ResultsIInv
<1>4. CASE f.active
  <2>1. f.search = Search(url, local)
    BY <1>4 DEF ResultsIInv, FlightsInOrder
  <2>2. ASSUME NEW g \in flights, g.active PROVE g = f
    <3>1. g = [search |-> g.search, active |-> g.active] /\ g.search = Search(url, local) /\ g.active \in BOOLEAN
      BY <2>2 DEF ResultsIInv, FlightsInOrder
    <3>2. f = [search |-> f.search, active |-> f.active] /\ f.active \in BOOLEAN
      BY DEF ResultsIInv, FlightsInOrder
    <3>3. g.active = TRUE /\ f.active = TRUE
      BY <1>4, <2>2, <3>1, <3>2
    <3> QED BY <2>1, <3>1, <3>2, <3>3, Zenon
  <2>3. loading' = FALSE /\ failed' \in BOOLEAN
    BY <1>2, <1>4 DEF resultsFail, resultsArrive, Deliverable
  <2>4. FlightsInOrder'
    BY <1>1, <2>2 DEF ResultsIInv, FlightsInOrder
  <2>5. CASE resultsFail(f)
    <3>1. failed' = TRUE
      BY <1>4, <2>5 DEF resultsFail, Deliverable
    <3> QED BY <1>1, <2>3, <2>4, <3>1 DEF ResultsIInv, ShownIsCurrent, TokenIsNext, Settled
  <2>6. CASE \E more, plan \in BOOLEAN : resultsArrive(f, more, plan)
    <3>1. shown' = f.search /\ nextToken' \in {NoToken, [scope |-> f.search.scope, page |-> f.search.page + 1]}
      BY <1>4, <2>6 DEF resultsArrive, Deliverable
    <3>2. f.search.scope = Scope(url) /\ f.search.page = url.page
      BY <2>1 DEF Search
    <3>3. nextToken' \in {NoToken, [scope |-> Scope(url), page |-> url.page + 1]}
      BY <3>1, <3>2
    <3> QED BY <1>1, <1>2, <2>1, <2>3, <2>4, <3>1, <3>3 DEF ResultsIInv, ShownIsCurrent, TokenIsNext
  <2> QED BY <1>1, <2>5, <2>6
<1> QED BY <1>1, <1>3, <1>4

\* updateSearch by a handler of the current render; the saved views are left alone.
LEMMA HandlerKeeps ==
  ASSUME ScreenIInv, NEW next, Fits(url, next), updateSearch(next), viewsUnchanged
  PROVE  ScreenIInv'
<1>1. Tidy(url) /\ Ranged(url, local)
  BY DEF ScreenIInv, UrlIInv
<1>2. PICK u : u = url
  OBVIOUS
<1>3. PICK l : l = local
  OBVIOUS
<1>4. Tidy(u) /\ Ranged(u, l) /\ Fits(u, next) /\ UpdateFrom(u, l, next)
  BY <1>1, <1>2, <1>3 DEF updateSearch
<1>5. ResultsIInv' /\ UrlIInv'
  BY <1>4, UpdateKeeps DEF ScreenIInv
<1>6. ViewBarIInv'
  BY DEF ScreenIInv, viewsUnchanged, ViewBarIInv, ViewRows, OpSound
<1> QED BY <1>5, <1>6 DEF ScreenIInv

\* A step that leaves the search alone.
LEMMA SearchStays ==
  ASSUME ResultsIInv, UrlIInv, UNCHANGED <<url, prevUrl, local, stored, flights, loading, shown, failed, nextToken>>
  PROVE  ResultsIInv' /\ UrlIInv'
<1>1. UrlIInv'
  BY DEF UrlIInv
<1>2. FlightsInOrder' /\ ShownIsCurrent' /\ TokenIsNext'
  BY DEF ResultsIInv, FlightsInOrder, ShownIsCurrent, TokenIsNext, Settled
<1> QED BY <1>1, <1>2 DEF ResultsIInv

\* What the panel and the chips ask for starts on the first page.
LEMMA PanelKeeps == ScreenIInv /\ PanelStep => ScreenIInv'
<1> SUFFICES ASSUME ScreenIInv, PanelStep PROVE ScreenIInv'
  OBVIOUS
<1>0. DefaultDuration # NoRange /\ DefaultDuration \in Durations
  BY SearchSetAssumption DEF DefaultDuration
<1>1. ASSUME NEW q, NEW f, NEW x, NEW d, d # NoRange, NEW r, NEW share, handleSearch(q, f, x, "rel", d, r, share)
      PROVE  ScreenIInv'
  <2>1. PICK next : next = [query |-> q, page |-> 1, size |-> url.size, filter |-> f, sort |-> x, tr |-> "rel", dur |-> d, share |-> FALSE]
    OBVIOUS
  <2>2. updateSearch(next) /\ viewsUnchanged
    BY <1>1, <2>1, Zenon DEF handleSearch
  <2>3. DOMAIN next = {"query", "page", "size", "filter", "sort", "tr", "dur", "share"}
    BY <2>1, Zenon
  <2>4. next.page = 1 /\ next.tr = "rel" /\ next.dur = d
    BY <2>1, Zenon
  <2>5. next.share \in BOOLEAN
    BY <2>1, Zenon
  <2>6. Fits(url, next)
    BY <1>1, <2>3, <2>4, <2>5 DEF Fits
  <2> QED BY <2>2, <2>6, HandlerKeeps
<1>2. ASSUME NEW q, NEW f, NEW x, NEW r \in Ranges, NEW share \in BOOLEAN,
             handleSearch(q, f, x, "abs", DefaultDuration, r, share)
      PROVE  ScreenIInv'
  <2>1. PICK next : next = [query |-> q, page |-> 1, size |-> url.size, filter |-> f, sort |-> x, tr |-> "abs", dur |-> DefaultDuration,
                            range |-> r, share |-> share]
    OBVIOUS
  <2>2. updateSearch(next) /\ viewsUnchanged
    BY <1>2, <2>1, Zenon DEF handleSearch
  <2>3. DOMAIN next = {"query", "page", "size", "filter", "sort", "tr", "dur", "range", "share"}
    BY <2>1, Zenon
  <2>4. next.page = 1 /\ next.tr = "abs" /\ next.dur = DefaultDuration /\ next.range = r
    BY <2>1, Zenon
  <2>5. next.share = share
    BY <2>1, Zenon
  <2>6. Fits(url, next)
    BY <1>0, <2>3, <2>4, <2>5, SearchSetAssumption DEF Fits
  <2> QED BY <2>2, <2>6, HandlerKeeps
<1>3. CASE resetFilters
  BY <1>0, <1>1, <1>3 DEF resetFilters
<1>4. CASE onDiscardAiPlan
  <2>1. UNCHANGED <<url, prevUrl, local, stored, flights, loading, shown, failed, nextToken>> /\ viewsUnchanged
    BY <1>4 DEF onDiscardAiPlan
  <2>2. ViewBarIInv'
    BY <2>1 DEF ScreenIInv, viewsUnchanged, ViewBarIInv, ViewRows, OpSound
  <2> QED BY <2>1, <2>2, SearchStays DEF ScreenIInv
<1>5. CASE retry
  <2>1. Launch(url, local) /\ UNCHANGED <<url, prevUrl, local, stored>> /\ viewsUnchanged
    BY <1>5 DEF retry
  <2>2. PICK u : u = url
    OBVIOUS
  <2>3. PICK l : l = local
    OBVIOUS
  <2>4. FlightsInOrder /\ Launch(u, l) /\ url' = u /\ local' = l
    BY <2>1, <2>2, <2>3 DEF ScreenIInv, ResultsIInv
  <2>5. ResultsIInv'
    BY <2>4, LaunchKeeps
  <2>6. UrlIInv' /\ ViewBarIInv'
    BY <2>1 DEF ScreenIInv, UrlIInv, viewsUnchanged, ViewBarIInv, ViewRows, OpSound
  <2> QED BY <2>5, <2>6 DEF ScreenIInv
<1>6. CASE goBack
  <2>1. PICK u : u = prevUrl
    OBVIOUS
  <2>2. PICK l : l = IF u.tr # "abs" THEN local ELSE IF u.from # NoRange THEN u.from
                     ELSE IF stored = NoRange THEN local ELSE stored
    OBVIOUS
  <2>3. Go(u, l) /\ stored' = (IF u.tr = "abs" /\ u.from # NoRange THEN u.from ELSE stored) /\ viewsUnchanged
    BY <1>6, <2>1, <2>2 DEF goBack
  <2>4. ResultsIInv'
    BY <2>3, GoKeeps DEF ScreenIInv
  <2>5. url' = u /\ local' = l /\ prevUrl' \in {url, prevUrl}
    BY <2>3 DEF Go
  <2>6. /\ Tidy(u) /\ Tidy(url) /\ (u.tr = "abs" => stored # NoRange) /\ (url.tr = "abs" => stored # NoRange)
        /\ u.dur # NoRange /\ u.tr \in {"rel", "abs"}
    BY <2>1 DEF ScreenIInv, UrlIInv, Tidy
  <2>7. Tidy(url') /\ Tidy(prevUrl')
    BY <2>1, <2>5, <2>6
  <2>8. Ranged(url', local')
    BY <2>2, <2>5, <2>6 DEF Ranged, currentTimeRange
  <2>9. url'.tr = "abs" \/ prevUrl'.tr = "abs" => stored' # NoRange
    BY <2>1, <2>3, <2>5, <2>6
  <2>10. url'.tr = "abs" /\ url'.from = NoRange => local' = stored'
    BY <2>2, <2>3, <2>5, <2>6
  <2>11. UrlIInv'
    BY <2>7, <2>8, <2>9, <2>10 DEF UrlIInv, Tidy, Ranged
  <2>12. ViewBarIInv'
    BY <2>3 DEF ScreenIInv, viewsUnchanged, ViewBarIInv, ViewRows, OpSound
  <2> QED BY <2>4, <2>11, <2>12 DEF ScreenIInv
<1>7. ASSUME NEW chip, onRemoveChip(chip) PROVE ScreenIInv'
  <2>1. PICK next : next = IF chip = "query" THEN [page |-> 1, query |-> NoText] ELSE [page |-> 1, filter |-> NoFilter]
    OBVIOUS
  <2>2. updateSearch(next) /\ viewsUnchanged
    BY <1>7, <2>1 DEF onRemoveChip
  <2>3. Fits(url, next)
    BY <2>1 DEF Fits
  <2> QED BY <2>2, <2>3, HandlerKeeps
<1>8. ASSUME NEW e, onRemoveExclusion(e) PROVE ScreenIInv'
  <2>1. PICK next : next = [page |-> 1, exclusions |-> url.exclusions \ {e}]
    OBVIOUS
  <2>2. updateSearch(next) /\ viewsUnchanged
    BY <1>8, <2>1 DEF onRemoveExclusion
  <2>3. Fits(url, next)
    BY <2>1 DEF Fits
  <2> QED BY <2>2, <2>3, HandlerKeeps
<1>9. ASSUME NEW f, NEW fs, NEW r, onApplyAiPlan(f, fs, r) PROVE ScreenIInv'
  <2>1. PICK next : next = [page |-> 1, filter |-> f, facets |-> url.facets \cup fs,
                            range |-> IF r = NoRange THEN currentTimeRange(url, local) ELSE r]
    OBVIOUS
  <2>2. updateSearch(next) /\ viewsUnchanged
    BY <1>9, <2>1 DEF onApplyAiPlan
  <2>3. next.range # NoRange
    BY <2>1 DEF ScreenIInv, UrlIInv, Ranged
  <2>4. Fits(url, next)
    BY <2>1, <2>3 DEF Fits
  <2> QED BY <2>2, <2>4, HandlerKeeps
<1>10. ASSUME NEW d \in Durations PROVE d # NoRange
  BY SearchSetAssumption
<1> QED BY <1>1, <1>2, <1>3, <1>4, <1>5, <1>6, <1>7, <1>8, <1>9, <1>10 DEF PanelStep

\* What the results ask for: a first page, the next page with its token, or a column.
LEMMA ResultKeeps == ScreenIInv /\ ResultStep => ScreenIInv'
<1> SUFFICES ASSUME ScreenIInv, ResultStep PROVE ScreenIInv'
  OBVIOUS
<1>1. ASSUME NEW mode, setMode(mode) PROVE ScreenIInv'
  <2>1. PICK next : next = [mode |-> mode, page |-> 1]
    OBVIOUS
  <2>2. updateSearch(next) /\ viewsUnchanged
    BY <1>1, <2>1 DEF setMode
  <2>3. Fits(url, next)
    BY <2>1 DEF Fits
  <2> QED BY <2>2, <2>3, HandlerKeeps
<1>2. ASSUME NEW r \in Ranges, onSelectBucket(r) PROVE ScreenIInv'
  <2>1. PICK next : next = [page |-> 1, range |-> r]
    OBVIOUS
  <2>2. updateSearch(next) /\ viewsUnchanged
    BY <1>2, <2>1 DEF onSelectBucket
  <2>3. Fits(url, next)
    BY <2>1, SearchSetAssumption DEF Fits
  <2> QED BY <2>2, <2>3, HandlerKeeps
<1>3. ASSUME NEW fs, updateSearch([page |-> 1, facets |-> fs]), viewsUnchanged PROVE ScreenIInv'
  <2>1. PICK next : next = [page |-> 1, facets |-> fs]
    OBVIOUS
  <2>2. Fits(url, next)
    BY <2>1 DEF Fits
  <2> QED BY <1>3, <2>1, <2>2, HandlerKeeps
<1>4. ASSUME NEW f, onToggleFacet(f) \/ onAddFilter(f) PROVE ScreenIInv'
  <2>1. PICK fs : updateSearch([page |-> 1, facets |-> fs]) /\ viewsUnchanged
    BY <1>4 DEF onToggleFacet, onAddFilter
  <2> QED BY <1>3, <2>1
<1>5. ASSUME NEW p, onConvertToFilter(p) PROVE ScreenIInv'
  <2>1. PICK fs : updateSearch([page |-> 1, facets |-> fs]) /\ viewsUnchanged
    BY <1>5 DEF onConvertToFilter
  <2> QED BY <1>3, <2>1
<1>6. ASSUME NEW p, onOpenPattern(p) PROVE ScreenIInv'
  <2>1. PICK next : next = [mode |-> "raw", page |-> 1, facets |-> WithPattern(p)]
    OBVIOUS
  <2>2. updateSearch(next) /\ viewsUnchanged
    BY <1>6, <2>1 DEF onOpenPattern
  <2>3. Fits(url, next)
    BY <2>1 DEF Fits
  <2> QED BY <2>2, <2>3, HandlerKeeps
<1>7. ASSUME NEW page, onPageChange(page) PROVE ScreenIInv'
  <2>1. PICK next : next = [page |-> page, token |-> IF page > url.page THEN nextToken ELSE NoToken]
    OBVIOUS
  <2>2. updateSearch(next) /\ viewsUnchanged /\ Settled /\ page \in {url.page - 1, url.page + 1} /\ page \in 1 .. MaxPage
    BY <1>7, <2>1 DEF onPageChange
  <2>3. url.page \in Nat \ {0} /\ nextToken \in {NoToken, [scope |-> Scope(url), page |-> url.page + 1]}
    BY <2>2 DEF ScreenIInv, UrlIInv, Tidy, ResultsIInv, TokenIsNext
  <2>4. next.page = page /\ next.token = (IF page > url.page THEN nextToken ELSE NoToken) /\ DOMAIN next = {"page", "token"}
    BY <2>1
  <2>5. page \in Nat \ {0}
    BY <2>2, SearchBoundAssumption
  <2>6. page > url.page => page = url.page + 1 /\ page > 1
    BY <2>2, <2>3
  <2>7. next.token # NoToken => next.page > 1 /\ next.token = [scope |-> Scope(url), page |-> next.page]
    BY <2>3, <2>4, <2>6
  <2>8. Fits(url, next)
    BY <2>4, <2>5, <2>7 DEF Fits
  <2> QED BY <2>2, <2>8, HandlerKeeps
<1>8. ASSUME NEW x, onPageSizeChange(x) PROVE ScreenIInv'
  <2>1. PICK next : next = [page |-> 1, size |-> x]
    OBVIOUS
  <2>2. updateSearch(next) /\ viewsUnchanged
    BY <1>8, <2>1 DEF onPageSizeChange
  <2>3. Fits(url, next)
    BY <2>1 DEF Fits
  <2> QED BY <2>2, <2>3, HandlerKeeps
<1>9. ASSUME NEW c, onAddColumn(c) PROVE ScreenIInv'
  <2>1. PICK next : next = [columns |-> url.columns \cup {c}]
    OBVIOUS
  <2>2. updateSearch(next) /\ viewsUnchanged
    BY <1>9, <2>1 DEF onAddColumn
  <2>3. Fits(url, next)
    BY <2>1 DEF Fits
  <2> QED BY <2>2, <2>3, HandlerKeeps
<1> QED BY <1>1, <1>2, <1>4, <1>5, <1>6, <1>7, <1>8, <1>9 DEF ResultStep

\* A handler that has come to its end, or has been cancelled.
LEMMA NoOpFacts == OpSound(NoOp)
<1>1. /\ NoOp.kind = "none" /\ NoOp.stage = "none" /\ NoOp.url = HomeUrl /\ NoOp.local = LastHour
      /\ NoOp.list = NoViews
  BY DEF NoOp
<1>2. PICK u, l : u = NoOp.url /\ l = NoOp.local /\ Tidy(u) /\ Ranged(u, l)
  BY <1>1, HomeFacts
<1>3. ViewRows(NoOp.list)
  BY <1>1 DEF ViewRows, NoViews
<1> QED BY <1>1, <1>2, <1>3 DEF OpSound

\* One handler moves on, the others stay where they are.
LEMMA OpMoves ==
  ASSUME ViewBarIInv, NEW h \in Handlers, NEW o, OpSound(o), op' = [op EXCEPT ![h] = o], ViewRows(rows'), ViewRows(views')
  PROVE  ViewBarIInv'
<1>1. DOMAIN op' = Handlers /\ \A x \in Handlers : op'[x] = IF x = h THEN o ELSE op[x]
  BY DEF ViewBarIInv
<1>2. \A x \in Handlers : OpSound(op'[x])
  BY <1>1 DEF ViewBarIInv
<1>3. (\A x \in Handlers : OpSound(op[x]))'
  BY <1>2 DEF OpSound, Tidy, Ranged, ViewRows
<1>4. ViewRows(rows)' /\ ViewRows(views)'
  BY DEF ViewRows
<1> QED BY <1>1, <1>3, <1>4 DEF ViewBarIInv

\* A table of views in which a definite one is written, or one is removed.
LEMMA TableFacts ==
  ASSUME NEW t, ViewRows(t), NEW v
  PROVE  ViewRows(WithoutRow(t, v)) /\ \A w : Definite(w.def) => ViewRows(WithRow(t, v, w))
<1>1. ViewRows(WithoutRow(t, v))
  BY DEF ViewRows, WithoutRow
<1>2. ASSUME NEW w, Definite(w.def) PROVE ViewRows(WithRow(t, v, w))
  <2>1. ASSUME NEW x \in DOMAIN t \cup {v} PROVE Definite(WithRow(t, v, w)[x].def)
    <3>1. CASE x = v
      BY <1>2, <3>1 DEF WithRow
    <3>2. CASE x # v
      <4>1. WithRow(t, v, w)[x] \in {t[x], Row(t[x].flags \ {"isDefault"}, t[x].def)}
        BY <2>1, <3>2 DEF WithRow
      <4>2. Row(t[x].flags \ {"isDefault"}, t[x].def).def = t[x].def
        BY DEF Row
      <4> QED BY <2>1, <3>2, <4>1, <4>2 DEF ViewRows
    <3> QED BY <3>1, <3>2
  <2>2. DOMAIN WithRow(t, v, w) = DOMAIN t \cup {v}
    BY DEF WithRow
  <2> QED BY <2>1, <2>2 DEF ViewRows
<1> QED BY <1>1, <1>2

\* The definition a handler saves or overwrites with is definite.
LEMMA ClickIsDefinite ==
  ASSUME ViewBarIInv, NEW h \in Handlers
  PROVE  Definite(Definition(op[h].url, op[h].local))
<1>1. PICK u, l : u = op[h].url /\ l = op[h].local /\ Tidy(u) /\ Ranged(u, l)
  BY DEF ViewBarIInv, OpSound
<1> QED BY <1>1, DefinitionFacts

\* The server's answer: the handler knows the view it wrote.
LEMMA AnswerKeeps ==
  ASSUME ViewBarIInv, NEW h \in Handlers, NEW v, NEW def, Answered(h, v, def), ViewRows(rows'), views' = views,
         \/ op[h].kind \in {"save", "overwrite"} /\ def = Definition(op[h].url, op[h].local)
         \/ op[h].kind \notin {"save", "overwrite"} /\ Definite(def)
         \/ op[h].kind \notin {"save", "duplicate"} /\ def = Stub
         \/ op[h].kind = "delete"
  PROVE  ViewBarIInv'
<1>1. PICK o : o = op[h] /\ OpSound(o)
  BY DEF ViewBarIInv
<1>2. PICK n : n = [o EXCEPT !.stage = "list", !.id = v, !.def = def]
  OBVIOUS
<1>3. DOMAIN o = {"kind", "stage", "url", "local", "id", "flags", "def", "list"}
  BY <1>1 DEF OpSound, NoOp
<1>4. /\ DOMAIN n = DOMAIN o /\ n.kind = o.kind /\ n.url = o.url /\ n.local = o.local /\ n.def = def /\ n.list = o.list
  BY <1>2, <1>3
<1>5. AppliesView(n) => Definite(n.def) /\ n.def = SearchOf(n)
  BY <1>1, <1>4, ClickIsDefinite DEF AppliesView, SearchOf
<1>6. OpSound(n)
  BY <1>1, <1>4, <1>5 DEF OpSound
<1>7. op' = [op EXCEPT ![h] = n]
  BY <1>1, <1>2 DEF Answered
<1> QED BY <1>6, <1>7, OpMoves DEF ViewBarIInv

\* What the server does with a saved-view request.
LEMMA ServerKeeps ==
  ASSUME ViewBarIInv, NEW h \in Handlers,
         \/ \E v \in SavedIds : createSavedLogView(h, v) \/ duplicateSavedLogView(h, v)
         \/ updateSavedLogView(h) \/ updateAnswersStub(h) \/ deleteSavedLogView(h)
  PROVE  ViewBarIInv'
<1>0. ViewRows(rows) /\ Definite(Definition(op[h].url, op[h].local))
  BY ClickIsDefinite DEF ViewBarIInv
<1>1. ASSUME NEW v, createSavedLogView(h, v) PROVE ViewBarIInv'
  <2>1. PICK def : def = Definition(op[h].url, op[h].local)
    OBVIOUS
  <2>2. /\ op[h].kind = "save" /\ views' = views /\ Answered(h, v, def)
        /\ rows' = WithRow(rows, v, Row(op[h].flags, def))
    BY <1>1, <2>1 DEF createSavedLogView, requestOf
  <2>3. Definite(Row(op[h].flags, def).def)
    BY <1>0, <2>1 DEF Row
  <2>4. ViewRows(rows')
    BY <1>0, <2>2, <2>3, TableFacts
  <2> QED BY <2>1, <2>2, <2>4, AnswerKeeps
<1>2. ASSUME NEW v, duplicateSavedLogView(h, v) PROVE ViewBarIInv'
  <2>1. PICK def, flags : /\ def = rows[op[h].id].def
                          /\ flags = IF Manager THEN rows[op[h].id].flags \cap {"isShared"} ELSE {}
    OBVIOUS
  <2>2. /\ op[h].kind = "duplicate" /\ views' = views /\ Answered(h, v, def) /\ op[h].id \in DOMAIN rows
        /\ rows' = WithRow(rows, v, Row(flags, def))
    BY <1>2, <2>1 DEF duplicateSavedLogView, requestOf
  <2>3. Definite(def) /\ Row(flags, def).def = def
    BY <1>0, <2>1, <2>2 DEF ViewRows, Row
  <2>4. ViewRows(rows')
    BY <1>0, <2>2, <2>3, TableFacts
  <2> QED BY <2>2, <2>3, <2>4, AnswerKeeps
<1>3. ASSUME updateSavedLogView(h) PROVE ViewBarIInv'
  <2>1. PICK v, def, flags :
          /\ v = op[h].id
          /\ def = IF op[h].kind = "overwrite" THEN Definition(op[h].url, op[h].local) ELSE rows[v].def
          /\ flags = IF op[h].kind = "setDefault" THEN rows[v].flags \cup {"isDefault"} ELSE rows[v].flags
    OBVIOUS
  <2>2. /\ op[h].kind \in {"overwrite", "rename", "setDefault"} /\ views' = views /\ v \in DOMAIN rows
        /\ Answered(h, v, def) /\ rows' = WithRow(rows, v, Row(flags, def))
    BY <1>3, <2>1 DEF updateSavedLogView, requestOf, MayWrite
  <2>3. Definite(def) /\ Row(flags, def).def = def
    BY <1>0, <2>1, <2>2 DEF ViewRows, Row
  <2>4. ViewRows(rows')
    BY <1>0, <2>2, <2>3, TableFacts
  <2> QED BY <2>1, <2>2, <2>3, <2>4, AnswerKeeps
<1>4. ASSUME updateAnswersStub(h) PROVE ViewBarIInv'
  <2>1. PICK v : v = op[h].id
    OBVIOUS
  <2>2. op[h].kind \in {"overwrite", "rename", "setDefault"} /\ views' = views /\ rows' = rows /\ Answered(h, v, Stub)
    BY <1>4, <2>1 DEF updateAnswersStub, requestOf
  <2>3. PICK def : def = Stub
    OBVIOUS
  <2> QED BY <1>0, <2>2, <2>3, AnswerKeeps
<1>5. ASSUME deleteSavedLogView(h) PROVE ViewBarIInv'
  <2>1. PICK v, def : v = op[h].id /\ def = Stub
    OBVIOUS
  <2>2. op[h].kind = "delete" /\ views' = views /\ rows' = WithoutRow(rows, v) /\ Answered(h, v, def)
    BY <1>5, <2>1 DEF deleteSavedLogView, requestOf
  <2>3. ViewRows(rows')
    BY <1>0, <2>2, TableFacts
  <2> QED BY <2>2, <2>3, AnswerKeeps
<1> QED BY <1>1, <1>2, <1>3, <1>4, <1>5

\* A handler is started, its dialog answered, its list read, or it gives up.
LEMMA WaitKeeps ==
  ASSUME ViewBarIInv, UrlIInv, NEW h \in Handlers,
         \/ \E kind : openOp(h, kind)
         \/ \E confirmed, wanted : answerDialog(h, confirmed, wanted)
         \/ opRejected(h) \/ listIsRead(h)
  PROVE  ViewBarIInv'
<1>0. /\ ViewRows(rows) /\ ViewRows(views) /\ rows' = rows /\ views' = views
      /\ DOMAIN op[h] = {"kind", "stage", "url", "local", "id", "flags", "def", "list"} /\ OpSound(op[h])
  BY DEF ViewBarIInv, openOp, answerDialog, opRejected, listIsRead, OpSound, NoOp
<1>1. ASSUME NEW o, OpSound(o), op' = [op EXCEPT ![h] = o] PROVE ViewBarIInv'
  BY <1>0, <1>1, OpMoves
<1>2. ASSUME NEW kind, openOp(h, kind) PROVE ViewBarIInv'
  <2>1. PICK o : /\ op' = [op EXCEPT ![h] = o]
                 /\ o = [kind |-> kind, stage |-> IF kind = "setDefault" THEN "request" ELSE "dialog", url |-> url,
                         local |-> local, id |-> url.view, flags |-> {}, def |-> Stub, list |-> NoViews]
    BY <1>2 DEF openOp
  <2>2. /\ DOMAIN o = DOMAIN NoOp /\ o.url = url /\ o.local = local /\ o.stage \in {"request", "dialog"}
        /\ o.list = NoViews
    BY <2>1 DEF NoOp
  <2>3. PICK u, l : u = o.url /\ l = o.local /\ Tidy(u) /\ Ranged(u, l)
    BY <2>2 DEF UrlIInv
  <2>4. ViewRows(o.list)
    BY <2>2 DEF ViewRows, NoViews
  <2>5. OpSound(o)
    BY <2>2, <2>3, <2>4 DEF OpSound
  <2> QED BY <1>1, <2>1, <2>5
<1>3. ASSUME NEW confirmed, NEW wanted, answerDialog(h, confirmed, wanted) PROVE ViewBarIInv'
  <2>1. CASE ~ confirmed
    BY <1>1, <1>3, <2>1, NoOpFacts DEF answerDialog
  <2>2. CASE confirmed
    <3>1. PICK o, flags, n : o = op[h] /\ n = [o EXCEPT !.stage = "request", !.flags = flags] /\ op' = [op EXCEPT ![h] = n]
      BY <1>3, <2>2 DEF answerDialog
    <3>2. /\ DOMAIN n = DOMAIN o /\ n.url = o.url /\ n.local = o.local /\ n.stage = "request" /\ n.list = o.list
      BY <1>0, <3>1
    <3>3. OpSound(n)
      BY <1>0, <3>1, <3>2 DEF OpSound
    <3> QED BY <1>1, <3>1, <3>3
  <2> QED BY <2>1, <2>2
<1>4. CASE opRejected(h)
  BY <1>1, <1>4, NoOpFacts DEF opRejected
<1>5. CASE listIsRead(h)
  <2>1. PICK o, n : /\ o = op[h] /\ n = [o EXCEPT !.stage = "listed", !.list = rows] /\ op' = [op EXCEPT ![h] = n]
                    /\ o.stage = "list"
    BY <1>5 DEF listIsRead
  <2>2. /\ DOMAIN n = DOMAIN o /\ n.url = o.url /\ n.local = o.local /\ n.stage = "listed" /\ n.list = rows
        /\ n.kind = o.kind /\ n.def = o.def
    BY <1>0, <2>1
  <2>3. AppliesView(n) => AppliesView(o) /\ SearchOf(n) = SearchOf(o)
    BY <2>2 DEF AppliesView, SearchOf
  <2>4. OpSound(n)
    BY <1>0, <2>1, <2>2, <2>3 DEF OpSound
  <2> QED BY <1>1, <2>1, <2>4
<1> QED BY <1>2, <1>3, <1>4, <1>5

\* The list arrives and the handler navigates with the closure of its click.
LEMMA ListKeeps ==
  ASSUME ScreenIInv, NEW h \in Handlers, listArrives(h)
  PROVE  /\ ScreenIInv'
         /\ AppliesView(op[h]) => url'.view = op[h].id /\ Definition(url', local') = SearchOf(op[h])
<1>0. ResultsIInv /\ UrlIInv /\ ViewBarIInv /\ ViewRows(rows) /\ OpSound(op[h]) /\ op[h].stage = "listed"
  BY DEF ScreenIInv, ViewBarIInv, listArrives
<1>1. ViewBarIInv'
  <2>1. views' = op[h].list /\ rows' = rows /\ op' = [op EXCEPT ![h] = NoOp]
    BY DEF listArrives
  <2>2. ViewRows(rows') /\ ViewRows(views')
    BY <1>0, <2>1 DEF OpSound
  <2>3. PICK o : o = NoOp
    OBVIOUS
  <2> QED BY <1>0, <2>1, <2>2, <2>3, NoOpFacts, OpMoves
<1>2. PICK u, l, id, d : u = op[h].url /\ l = op[h].local /\ id = op[h].id /\ d = op[h].def
  OBVIOUS
<1>3. Tidy(u) /\ Ranged(u, l)
  BY <1>0, <1>2 DEF OpSound
<1>4. CASE op[h].kind = "delete"
  <2>1. PICK next : next = [view |-> NoView]
    OBVIOUS
  <2>2. UpdateFrom(u, l, next)
    BY <1>2, <1>4, <2>1 DEF listArrives, AppliesView
  <2>3. Fits(u, next)
    BY <2>1 DEF Fits
  <2>4. ResultsIInv' /\ UrlIInv'
    BY <1>0, <1>3, <2>2, <2>3, UpdateKeeps
  <2> QED BY <1>1, <1>4, <2>4 DEF ScreenIInv, AppliesView
<1>5. CASE op[h].kind # "delete" /\ AppliesView(op[h])
  <2>1. applySavedView(u, l, id, d)
    BY <1>2, <1>5 DEF listArrives
  <2>2. Definite(d) /\ d = SearchOf(op[h])
    BY <1>0, <1>2, <1>5 DEF OpSound
  <2>3. ResultsIInv' /\ UrlIInv' /\ url'.view = id /\ Definition(url', local') = d
    BY <1>0, <1>3, <2>1, <2>2, ApplyKeeps
  <2> QED BY <1>1, <1>2, <2>2, <2>3 DEF ScreenIInv
<1>6. CASE op[h].kind # "delete" /\ ~ AppliesView(op[h])
  <2>1. UNCHANGED <<url, prevUrl, local, stored, flights, loading, shown, failed, nextToken>>
    BY <1>6 DEF listArrives, searchUnchanged
  <2> QED BY <1>0, <1>1, <1>6, <2>1, SearchStays DEF ScreenIInv
<1> QED BY <1>4, <1>5, <1>6

\* The steps of the saved-view bar.
LEMMA ViewBarKeeps == ScreenIInv /\ ViewBarStep => ScreenIInv'
<1> SUFFICES ASSUME ScreenIInv, ViewBarStep PROVE ScreenIInv'
  OBVIOUS
<1>0. ResultsIInv /\ UrlIInv /\ ViewBarIInv /\ ViewRows(rows) /\ ViewRows(views)
  BY DEF ScreenIInv, ViewBarIInv
<1>1. CASE getSavedLogViews \/ getSavedLogViewsFails
  <2>1. /\ UNCHANGED <<url, prevUrl, local, stored, flights, loading, shown, failed, nextToken, rows, op>>
        /\ views' \in {rows, views}
    BY <1>1 DEF getSavedLogViews, getSavedLogViewsFails, searchUnchanged
  <2>2. ViewBarIInv'
    BY <1>0, <2>1 DEF ViewBarIInv, ViewRows, OpSound
  <2> QED BY <1>0, <2>1, <2>2, SearchStays DEF ScreenIInv
<1>2. ASSUME NEW v \in SavedIds \cup {NoView}, onSelect(v) PROVE ScreenIInv'
  <2>1. CASE v = NoView
    <3>1. PICK next : next = [view |-> NoView, page |-> 1]
      OBVIOUS
    <3>2. updateSearch(next) /\ viewsUnchanged
      BY <1>2, <2>1, <3>1 DEF onSelect
    <3>3. Fits(url, next)
      BY <3>1 DEF Fits
    <3> QED BY <3>2, <3>3, HandlerKeeps
  <2>2. CASE v # NoView
    <3>1. PICK u, l, d : u = url /\ l = local /\ d = views[v].def
      OBVIOUS
    <3>2. applySavedView(u, l, v, d) /\ viewsUnchanged /\ v \in DOMAIN views
      BY <1>2, <2>2, <3>1 DEF onSelect
    <3>3. Tidy(u) /\ Ranged(u, l) /\ Definite(d)
      BY <1>0, <3>1, <3>2 DEF UrlIInv, ViewRows
    <3>4. ResultsIInv' /\ UrlIInv'
      BY <1>0, <3>2, <3>3, ApplyKeeps
    <3>5. ViewBarIInv'
      BY <1>0, <3>2 DEF viewsUnchanged, ViewBarIInv, ViewRows, OpSound
    <3> QED BY <3>4, <3>5 DEF ScreenIInv
  <2> QED BY <2>1, <2>2
<1>3. ASSUME NEW h \in Handlers, HandlerStep(h) PROVE ScreenIInv'
  <2>1. CASE listArrives(h)
    BY <2>1, ListKeeps
  <2>2. CASE ~ listArrives(h)
    <3>1. \/ \E kind : openOp(h, kind)
          \/ \E confirmed, wanted : answerDialog(h, confirmed, wanted)
          \/ opRejected(h) \/ listIsRead(h)
          \/ \E v \in SavedIds : createSavedLogView(h, v) \/ duplicateSavedLogView(h, v)
          \/ updateSavedLogView(h) \/ updateAnswersStub(h) \/ deleteSavedLogView(h)
      BY <1>3, <2>2 DEF HandlerStep
    <3>2. UNCHANGED <<url, prevUrl, local, stored, flights, loading, shown, failed, nextToken>>
      BY <3>1 DEF openOp, answerDialog, opRejected, listIsRead, createSavedLogView, duplicateSavedLogView,
                  updateSavedLogView, updateAnswersStub, deleteSavedLogView, requestOf, searchUnchanged
    <3>3. ViewBarIInv'
      BY <1>0, <3>1, ServerKeeps, WaitKeeps
    <3> QED BY <1>0, <3>2, <3>3, SearchStays DEF ScreenIInv
  <2> QED BY <2>1, <2>2
<1> QED BY <1>1, <1>2, <1>3 DEF ViewBarStep

\* Teammates write definite views.
LEMMA TeamKeeps == ScreenIInv /\ TeamStep => ScreenIInv'
<1> SUFFICES ASSUME ScreenIInv, NEW v, teammateRemoves(v) \/ \E w \in TeamRows : teammateWrites(v, w) PROVE ScreenIInv'
  BY DEF TeamStep
<1>1. UNCHANGED <<url, prevUrl, local, stored, flights, loading, shown, failed, nextToken, views, op>>
  BY DEF teammateRemoves, teammateWrites, searchUnchanged
<1>2. ViewRows(rows')
  BY LinkAssumption, TableFacts DEF ScreenIInv, ViewBarIInv, teammateRemoves, teammateWrites
<1>3. ViewBarIInv'
  BY <1>1, <1>2 DEF ScreenIInv, ViewBarIInv, ViewRows, OpSound
<1> QED BY <1>1, <1>3, SearchStays DEF ScreenIInv

\* The first render.
LEMMA ScreenStarts == ScreenInit => ScreenIInv
<1> SUFFICES ASSUME ScreenInit PROVE ScreenIInv
  OBVIOUS
<1>1. Tidy(url) /\ (url.tr = "abs" => url.share) /\ Tidy(HomeUrl) /\ HomeUrl.tr = "rel"
  BY LinkAssumption, HomeFacts DEF ScreenInit, HomeUrl
<1>2. UrlIInv
  BY <1>1 DEF ScreenInit, UrlIInv, Tidy, Ranged, currentTimeRange, MountRange
<1>3. ResultsIInv
  <2>1. flights = {[search |-> Search(url, local), active |-> TRUE]} /\ loading = TRUE /\ failed = FALSE
    BY Zenon DEF ScreenInit
  <2>2. ASSUME NEW f \in flights
        PROVE  f = [search |-> f.search, active |-> f.active] /\ f.active \in BOOLEAN /\ f.search = Search(url, local)
    <3>1. f = [search |-> Search(url, local), active |-> TRUE]
      BY <2>1, Zenon
    <3> QED BY <3>1, Zenon
  <2>3. FlightsInOrder
    BY <2>1, <2>2 DEF FlightsInOrder
  <2> QED BY <2>1, <2>3 DEF ResultsIInv, ShownIsCurrent, TokenIsNext, Settled
<1>4. ViewBarIInv
  <2>1. ViewRows(rows) /\ ViewRows(views)
    BY LinkAssumption DEF ScreenInit, ViewRows, NoViews
  <2>2. DOMAIN op = Handlers /\ \A h \in Handlers : OpSound(op[h])
    BY NoOpFacts DEF ScreenInit
  <2> QED BY <2>1, <2>2 DEF ViewBarIInv
<1> QED BY <1>2, <1>3, <1>4 DEF ScreenIInv

\* Every handler, answer and dialog keeps the invariant.
LEMMA ScreenSteps == ScreenIInv /\ [ScreenNext]_screenVars => ScreenIInv'
<1> SUFFICES ASSUME ScreenIInv, [ScreenNext]_screenVars PROVE ScreenIInv'
  OBVIOUS
<1>1. CASE Answers
  <2>1. ResultsIInv' /\ UNCHANGED <<url, prevUrl, local, stored, views, rows, op>>
    BY <1>1, AnswersKeep DEF Answers, ScreenIInv
  <2>2. UrlIInv' /\ ViewBarIInv'
    BY <2>1 DEF ScreenIInv, UrlIInv, ViewBarIInv, ViewRows, OpSound
  <2> QED BY <2>1, <2>2 DEF ScreenIInv
<1>2. CASE UNCHANGED screenVars
  <2>1. ViewBarIInv'
    BY <1>2 DEF screenVars, ScreenIInv, ViewBarIInv, ViewRows, OpSound
  <2> QED BY <1>2, <2>1, SearchStays DEF ScreenIInv, screenVars
<1> QED BY <1>1, <1>2, PanelKeeps, ResultKeeps, ViewBarKeeps, TeamKeeps DEF ScreenNext

\* The invariant of the search screen holds always (useLogSearch, screen.tsx).
THEOREM ScreenInvariance == ScreenSpec => []ScreenIInv
BY ScreenStarts, ScreenSteps, PTL DEF ScreenSpec

(***************************************************************************)
(* Results on screen are those of the URL, in whatever order answers,      *)
(* retries and view operations arrive (the load effect of screen.tsx and   *)
(* its `active` flag).                                                     *)
(***************************************************************************)
THEOREM ShownTheorem == ScreenSpec => []ShownIsCurrent
<1>1. ScreenIInv => ShownIsCurrent
  BY DEF ScreenIInv, ResultsIInv
<1> QED BY <1>1, ScreenInvariance, PTL

(***************************************************************************)
(* Page tokens are those of the search they are sent with, and a reload    *)
(* repeats an absolute search (updateSearch of use-log-search.ts).         *)
(***************************************************************************)
THEOREM UrlTheorem == ScreenSpec => []UrlKeepsSearch
<1>1. ScreenIInv => UrlKeepsSearch
  <2> SUFFICES ASSUME ScreenIInv PROVE UrlKeepsSearch
    OBVIOUS
  <2>1. TokenMatchesSearch
    BY DEF ScreenIInv, UrlIInv, Tidy, TokenMatchesSearch
  <2>2. ReloadKeepsRange
    BY DEF ScreenIInv, UrlIInv, ReloadKeepsRange, currentTimeRange, MountRange
  <2> QED BY <2>1, <2>2 DEF UrlKeepsSearch
<1> QED BY <1>1, ScreenInvariance, PTL

(***************************************************************************)
(* A saved-view handler shows the search it was clicked for: the one on    *)
(* screen at the click after saving or overwriting, else the view of its   *)
(* own answer, for any number of handlers at once and any writes of        *)
(* teammates (applySavedView and the handlers of the saved-view bar).      *)
(***************************************************************************)
THEOREM AppliedTheorem == ScreenSpec => AppliedViewIsShown
<1>1. ScreenIInv /\ [ScreenNext]_screenVars => [AppliedIsShown]_screenVars
  BY ListKeeps DEF AppliedIsShown
<1> QED BY <1>1, ScreenInvariance, PTL DEF ScreenSpec, AppliedViewIsShown

(***************************************************************************)
(* The issue explorer, the log detail and the live tail.                   *)
(***************************************************************************)
\* The cleanup of an effect clears the flags of the loads before it.
LEMMA CleanupFacts ==
  ASSUME NEW f, NEW g
  PROVE  g = [f EXCEPT !.active = FALSE] =>
           /\ f = [search |-> f.search, active |-> f.active] => g = [search |-> g.search, active |-> g.active] /\ g.active = FALSE
           /\ f = [id |-> f.id, active |-> f.active] => g = [id |-> g.id, active |-> g.active] /\ g.active = FALSE
<1>1. ASSUME g = [f EXCEPT !.active = FALSE], f = [search |-> f.search, active |-> f.active]
      PROVE  g = [search |-> g.search, active |-> g.active] /\ g.active = FALSE
  <2>1. PICK s, a : f = [search |-> s, active |-> a]
    BY <1>1
  <2>2. ASSUME NEW z PROVE [f EXCEPT !.active = z] = [search |-> s, active |-> z]
    BY <2>1
  <2>3. g = [search |-> s, active |-> FALSE]
    BY <1>1, <2>2, Zenon
  <2>4. g.search = s /\ g.active = FALSE
    BY <2>3, Zenon
  <2> QED BY <2>3, <2>4, Zenon
<1>2. ASSUME g = [f EXCEPT !.active = FALSE], f = [id |-> f.id, active |-> f.active]
      PROVE  g = [id |-> g.id, active |-> g.active] /\ g.active = FALSE
  <2>1. PICK s, a : f = [id |-> s, active |-> a]
    BY <1>2
  <2>2. ASSUME NEW z PROVE [f EXCEPT !.active = z] = [id |-> s, active |-> z]
    BY <2>1
  <2>3. g = [id |-> s, active |-> FALSE]
    BY <1>2, <2>2, Zenon
  <2>4. g.id = s /\ g.active = FALSE
    BY <2>3, Zenon
  <2> QED BY <2>3, <2>4, Zenon
<1> QED BY <1>1, <1>2, Zenon

\* The loads of a new effect.
LEMMA LoadFacts ==
  ASSUME NEW loads, \A f \in loads : f = [search |-> f.search, active |-> f.active], NEW s, NEW g \in LoadIssues(loads, s)
  PROVE  g = [search |-> g.search, active |-> g.active] /\ g.active \in BOOLEAN /\ (g.active => g.search = s)
<1>1. CASE \E f \in loads : g = [f EXCEPT !.active = FALSE]
  <2>1. g = [search |-> g.search, active |-> g.active] /\ g.active = FALSE
    BY <1>1, CleanupFacts, Zenon
  <2> QED BY <2>1, Zenon
<1>2. CASE g = [search |-> s, active |-> TRUE]
  BY <1>2, Zenon
<1> QED BY <1>1, <1>2, Zenon DEF LoadIssues

\* The issue explorer.
LEMMA IssuesStep ==
  ASSUME IssuesIInv,
         \/ applyFilter \/ resetFilter \/ retryIssues \/ \E f \in IssueFilters : typeFilter(f)
         \/ \E n \in 1 .. MaxIssuePage : issuePage(n)
         \/ \E f \in issues.loads, ok \in BOOLEAN : getIssuesAnswers(f, ok)
  PROVE  IssuesIInv'
<1>0. /\ DOMAIN issues = {"url", "input", "loads", "loading", "failed", "shown"}
      /\ issues.loading \in BOOLEAN /\ issues.failed \in BOOLEAN
      /\ \A f \in issues.loads : /\ f = [search |-> f.search, active |-> f.active] /\ f.active \in BOOLEAN
                                 /\ f.active => issues.loading /\ f.search = issues.url
      /\ IssuesAreCurrent
  BY DEF IssuesIInv
<1>1. ASSUME NEW s, DOMAIN issues' = DOMAIN issues, issues'.url = s, issues'.loads = LoadIssues(issues.loads, s),
             issues'.loading = TRUE, issues'.failed = FALSE
      PROVE  IssuesIInv'
  <2>1. PICK loads : loads = issues.loads
    OBVIOUS
  <2>2. ASSUME NEW g \in issues'.loads
        PROVE  g = [search |-> g.search, active |-> g.active] /\ g.active \in BOOLEAN /\ (g.active => g.search = s)
    BY <1>0, <1>1, <2>1, LoadFacts
  <2> QED BY <1>0, <1>1, <2>2 DEF IssuesIInv, IssuesAreCurrent
<1>2. ASSUME NEW s, updateIssues(s) PROVE IssuesIInv'
  <2>1. CASE s = issues.url
    <3>1. issues' = issues
      BY <1>2, <2>1 DEF updateIssues
    <3> QED BY <1>0, <3>1 DEF IssuesIInv, IssuesAreCurrent
  <2>2. CASE s # issues.url
    <3>1. issues' = [issues EXCEPT !.url = s, !.input = IF s.filter = issues.url.filter THEN @ ELSE s.filter,
                                   !.loads = LoadIssues(@, s), !.loading = TRUE, !.failed = FALSE]
      BY <1>2, <2>2, Zenon DEF updateIssues
    <3>2. /\ DOMAIN issues' = DOMAIN issues /\ issues'.url = s /\ issues'.loads = LoadIssues(issues.loads, s)
          /\ issues'.loading = TRUE /\ issues'.failed = FALSE
      BY <1>0, <3>1
    <3> QED BY <1>1, <3>2
  <2> QED BY <2>1, <2>2
<1>3. CASE retryIssues
  <2>1. issues' = [issues EXCEPT !.loads = LoadIssues(@, issues.url), !.loading = TRUE, !.failed = FALSE]
    BY <1>3, Zenon DEF retryIssues
  <2>2. /\ DOMAIN issues' = DOMAIN issues /\ issues'.url = issues.url /\ issues'.loads = LoadIssues(issues.loads, issues.url)
        /\ issues'.loading = TRUE /\ issues'.failed = FALSE
    BY <1>0, <2>1
  <2>3. PICK s : s = issues.url
    OBVIOUS
  <2> QED BY <1>1, <2>2, <2>3
<1>4. ASSUME NEW f, typeFilter(f) PROVE IssuesIInv'
  <2>1. issues' = [issues EXCEPT !.input = f]
    BY <1>4 DEF typeFilter
  <2>2. /\ DOMAIN issues' = DOMAIN issues /\ issues'.url = issues.url /\ issues'.loads = issues.loads
        /\ issues'.loading = issues.loading /\ issues'.failed = issues.failed /\ issues'.shown = issues.shown
    BY <1>0, <2>1
  <2> QED BY <1>0, <2>2 DEF IssuesIInv, IssuesAreCurrent
<1>5. ASSUME NEW f \in issues.loads, NEW ok \in BOOLEAN, getIssuesAnswers(f, ok) PROVE IssuesIInv'
  <2>1. CASE f.active
    <3>1. issues' = [issues EXCEPT !.loads = @ \ {f}, !.loading = FALSE, !.failed = ~ ok,
                                   !.shown = IF ok THEN f.search ELSE @]
      BY <1>5, <2>1, Zenon DEF getIssuesAnswers
    <3>2. /\ DOMAIN issues' = DOMAIN issues /\ issues'.url = issues.url /\ issues'.loads = issues.loads \ {f}
          /\ issues'.loading = FALSE /\ issues'.failed = ~ ok /\ issues'.shown = IF ok THEN f.search ELSE issues.shown
      BY <1>0, <3>1
    <3>3. ASSUME NEW g \in issues.loads, g.active PROVE g = f
      <4>1. /\ g = [search |-> g.search, active |-> g.active] /\ f = [search |-> f.search, active |-> f.active]
            /\ g.search = f.search
        BY <1>0, <2>1, <3>3
      <4>2. g.active = TRUE /\ f.active = TRUE
        BY <1>0, <2>1, <3>3
      <4> QED BY <4>1, <4>2, Zenon
    <3>4. f.search = issues.url
      BY <1>0, <2>1
    <3>5. IssuesAreCurrent'
      BY <3>2, <3>4 DEF IssuesAreCurrent
    <3>6. issues'.loading \in BOOLEAN /\ issues'.failed \in BOOLEAN
      BY <3>2
    <3> QED BY <1>0, <3>2, <3>3, <3>5, <3>6 DEF IssuesIInv
  <2>2. CASE ~ f.active
    <3>1. issues' = [issues EXCEPT !.loads = @ \ {f}]
      BY <1>5, <2>2 DEF getIssuesAnswers
    <3>2. /\ DOMAIN issues' = DOMAIN issues /\ issues'.url = issues.url /\ issues'.loads = issues.loads \ {f}
          /\ issues'.loading = issues.loading /\ issues'.failed = issues.failed /\ issues'.shown = issues.shown
      BY <1>0, <3>1
    <3> QED BY <1>0, <3>2 DEF IssuesIInv, IssuesAreCurrent
  <2> QED BY <2>1, <2>2
<1> QED BY <1>2, <1>3, <1>4, <1>5 DEF applyFilter, resetFilter, issuePage

\* A context request of the log detail gets the next number.
LEMMA AskFacts ==
  ASSUME NEW d, NEW e, NEW l, NEW s, e = AskContext(d, l, s),
         DOMAIN d = {"id", "loads", "loading", "failed", "log", "scope", "asks", "askNo", "lastNo", "overtaken", "context"}
  PROVE  /\ DOMAIN e = DOMAIN d
         /\ e.id = d.id /\ e.loads = d.loads /\ e.loading = d.loading /\ e.failed = d.failed /\ e.log = d.log
         /\ e.scope = d.scope /\ e.lastNo = d.lastNo /\ e.overtaken = d.overtaken /\ e.context = d.context
         /\ l = NoLog => e.asks = d.asks /\ e.askNo = d.askNo
         /\ l # NoLog => e.askNo = d.askNo + 1 /\ e.asks = d.asks \cup {[no |-> d.askNo + 1, log |-> l, scope |-> s]}
<1>1. CASE l = NoLog
  <2>1. e = d
    BY <1>1, Zenon DEF AskContext
  <2> QED BY <1>1, <2>1
<1>2. CASE l # NoLog
  <2>1. e = [d EXCEPT !.askNo = @ + 1, !.asks = @ \cup {[no |-> d.askNo + 1, log |-> l, scope |-> s]}]
    BY <1>2, Zenon DEF AskContext
  <2> QED BY <1>2, <2>1
<1> QED BY <1>1, <1>2

\* A request that asks for what is chosen becomes the newest one.
LEMMA NewestAsked ==
  ASSUME DetailIInv, NEW l, NEW s, l # NoLog,
         detail'.askNo = detail.askNo + 1, detail'.asks = detail.asks \cup {[no |-> detail.askNo + 1, log |-> l, scope |-> s]},
         detail'.log = l, detail'.scope = s, detail'.lastNo = detail.lastNo
  PROVE  NewestAsksForChosen' /\ detail'.askNo \in Nat /\ detail'.lastNo \in 0 .. detail'.askNo /\ detail'.askNo > 0
<1>0. /\ detail.askNo \in Nat /\ detail.lastNo \in 0 .. detail.askNo
      /\ \A q \in detail.asks : q.no \in 1 .. detail.askNo
  BY DEF DetailIInv, NewestAsksForChosen
<1>1. detail'.askNo \in Nat /\ detail'.lastNo \in 0 .. detail'.askNo /\ detail'.askNo > 0 /\ detail'.lastNo # detail'.askNo
  BY <1>0
<1>2. ASSUME NEW q \in detail'.asks
      PROVE  q.no \in 1 .. detail'.askNo /\ (q.no = detail'.askNo => q.log = detail'.log /\ q.scope = detail'.scope)
  <2>1. CASE q \in detail.asks
    BY <1>0, <2>1
  <2>2. CASE q = [no |-> detail.askNo + 1, log |-> l, scope |-> s]
    BY <1>0, <2>2
  <2> QED BY <2>1, <2>2
<1>3. \E q \in detail'.asks : q.no = detail'.askNo
  <2>1. PICK q : q = [no |-> detail.askNo + 1, log |-> l, scope |-> s]
    OBVIOUS
  <2> QED BY <2>1
<1> QED BY <1>1, <1>2, <1>3 DEF NewestAsksForChosen

\* The log detail.
LEMMA DetailStep ==
  ASSUME DetailIInv,
         \/ \E d \in DetailIds : openLog(d)
         \/ \E s \in Scopes : setContextScope(s)
         \/ \E f \in detail.loads, ok \in BOOLEAN : getLogById(f, ok)
         \/ \E q \in detail.asks, ok \in BOOLEAN : getLogContext(q, ok)
  PROVE  DetailIInv'
<1>0. /\ DOMAIN detail = {"id", "loads", "loading", "failed", "log", "scope", "asks", "askNo", "lastNo", "overtaken", "context"}
      /\ detail.loading \in BOOLEAN /\ detail.failed \in BOOLEAN /\ detail.overtaken \in BOOLEAN
      /\ detail.id \in DetailIds /\ detail.askNo \in Nat /\ detail.lastNo \in 0 .. detail.askNo
      /\ \A f \in detail.loads : /\ f = [id |-> f.id, active |-> f.active] /\ f.active \in BOOLEAN
                                 /\ f.active => detail.loading /\ f.id = detail.id
      /\ detail.log # NoLog => detail.askNo > 0
      /\ ~ detail.loading /\ ~ detail.failed => detail.log = detail.id
      /\ NewestAsksForChosen
  BY DEF DetailIInv
<1>1. ASSUME NEW d \in DetailIds, openLog(d) PROVE DetailIInv'
  <2>1. detail' = [detail EXCEPT !.id = d, !.loading = TRUE, !.failed = FALSE,
                                 !.loads = {[f EXCEPT !.active = FALSE] : f \in @} \cup {[id |-> d, active |-> TRUE]}]
    BY <1>1, Zenon DEF openLog
  <2>2. PICK loads : loads = {[f EXCEPT !.active = FALSE] : f \in detail.loads} \cup {[id |-> d, active |-> TRUE]}
    OBVIOUS
  <2>3. detail' = [detail EXCEPT !.id = d, !.loading = TRUE, !.failed = FALSE, !.loads = loads]
    BY <2>1, <2>2, Zenon
  <2>4. /\ DOMAIN detail' = DOMAIN detail /\ detail'.id = d /\ detail'.loading = TRUE /\ detail'.failed = FALSE
        /\ detail'.loads = loads /\ detail'.log = detail.log /\ detail'.scope = detail.scope /\ detail'.asks = detail.asks
        /\ detail'.askNo = detail.askNo /\ detail'.lastNo = detail.lastNo /\ detail'.overtaken = detail.overtaken
        /\ detail'.context = detail.context
    BY <1>0, <2>3
  <2>5. ASSUME NEW g \in loads
        PROVE  g = [id |-> g.id, active |-> g.active] /\ g.active \in BOOLEAN /\ (g.active => g.id = d)
    <3>1. CASE \E f \in detail.loads : g = [f EXCEPT !.active = FALSE]
      <4>1. g = [id |-> g.id, active |-> g.active] /\ g.active = FALSE
        BY <1>0, <3>1, CleanupFacts, Zenon
      <4> QED BY <4>1, Zenon
    <3>2. CASE g = [id |-> d, active |-> TRUE]
      BY <3>2, Zenon
    <3> QED BY <2>2, <2>5, <3>1, <3>2, Zenon
  <2>6. NewestAsksForChosen'
    BY <1>0, <2>4 DEF NewestAsksForChosen
  <2>7. detail'.loading \in BOOLEAN /\ detail'.failed \in BOOLEAN /\ detail'.overtaken \in BOOLEAN
    BY <1>0, <2>4
  <2> QED BY <1>0, <2>4, <2>5, <2>6, <2>7 DEF DetailIInv
<1>2. ASSUME NEW s \in Scopes, setContextScope(s) PROVE DetailIInv'
  <2>1. PICK e : e = AskContext(detail, detail.log, s)
    OBVIOUS
  <2>2. detail' = [e EXCEPT !.scope = s]
    BY <1>2, <2>1, Zenon DEF setContextScope
  <2>3. /\ DOMAIN e = DOMAIN detail
        /\ e.id = detail.id /\ e.loads = detail.loads /\ e.loading = detail.loading /\ e.failed = detail.failed
        /\ e.log = detail.log /\ e.lastNo = detail.lastNo /\ e.overtaken = detail.overtaken /\ e.context = detail.context
        /\ detail.log = NoLog => e.asks = detail.asks /\ e.askNo = detail.askNo
        /\ detail.log # NoLog =>
             e.askNo = detail.askNo + 1 /\ e.asks = detail.asks \cup {[no |-> detail.askNo + 1, log |-> detail.log, scope |-> s]}
    <3>1. PICK d, l : d = detail /\ l = detail.log
      OBVIOUS
    <3> QED BY <1>0, <2>1, <3>1, AskFacts
  <2>4. /\ DOMAIN detail' = DOMAIN e /\ detail'.scope = s
        /\ detail'.id = e.id /\ detail'.loads = e.loads /\ detail'.loading = e.loading /\ detail'.failed = e.failed
        /\ detail'.log = e.log /\ detail'.lastNo = e.lastNo /\ detail'.overtaken = e.overtaken /\ detail'.context = e.context
        /\ detail'.asks = e.asks /\ detail'.askNo = e.askNo
    BY <1>0, <2>2, <2>3
  <2>5. detail.log = detail.id /\ detail.log # NoLog
    BY <1>0, <1>2, PagesAssumption DEF setContextScope
  <2>6. NewestAsksForChosen' /\ detail'.askNo \in Nat /\ detail'.lastNo \in 0 .. detail'.askNo /\ detail'.askNo > 0
    <3>1. PICK l : l = detail.log
      OBVIOUS
    <3> QED BY <2>3, <2>4, <2>5, <3>1, NewestAsked
  <2> QED BY <1>0, <2>3, <2>4, <2>6 DEF DetailIInv
<1>3. ASSUME NEW f \in detail.loads, NEW ok \in BOOLEAN, getLogById(f, ok) PROVE DetailIInv'
  <2>0. PICK rest, settled : rest = [detail EXCEPT !.loads = @ \ {f}] /\ settled = [rest EXCEPT !.loading = FALSE]
    OBVIOUS
  <2>1. detail' = IF ~ f.active THEN rest
                  ELSE IF ok THEN [AskContext(settled, f.id, detail.scope) EXCEPT !.log = f.id]
                  ELSE [settled EXCEPT !.failed = TRUE]
    BY <1>3, <2>0, Zenon DEF getLogById
  <2>2. /\ DOMAIN rest = DOMAIN detail /\ rest.loads = detail.loads \ {f}
        /\ rest.id = detail.id /\ rest.loading = detail.loading /\ rest.failed = detail.failed /\ rest.log = detail.log
        /\ rest.scope = detail.scope /\ rest.asks = detail.asks /\ rest.askNo = detail.askNo /\ rest.lastNo = detail.lastNo
        /\ rest.overtaken = detail.overtaken /\ rest.context = detail.context
    BY <1>0, <2>0
  <2>3. /\ DOMAIN settled = DOMAIN detail /\ settled.loads = detail.loads \ {f} /\ settled.loading = FALSE
        /\ settled.id = detail.id /\ settled.failed = detail.failed /\ settled.log = detail.log
        /\ settled.scope = detail.scope /\ settled.asks = detail.asks /\ settled.askNo = detail.askNo
        /\ settled.lastNo = detail.lastNo /\ settled.overtaken = detail.overtaken /\ settled.context = detail.context
    BY <1>0, <2>0, <2>2
  <2>4. CASE ~ f.active
    <3>1. detail' = rest
      BY <2>1, <2>4, Zenon
    <3>2. NewestAsksForChosen'
      BY <1>0, <2>2, <3>1 DEF NewestAsksForChosen
    <3> QED BY <1>0, <2>2, <3>1, <3>2 DEF DetailIInv
  <2>5. ASSUME f.active PROVE \A g \in detail.loads \ {f} : ~ g.active
    <3>1. SUFFICES ASSUME NEW g \in detail.loads, g.active PROVE g = f
      OBVIOUS
    <3>2. /\ g = [id |-> g.id, active |-> g.active] /\ f = [id |-> f.id, active |-> f.active]
          /\ g.id = f.id
      BY <1>0, <2>5, <3>1
    <3>3. g.active = TRUE /\ f.active = TRUE
      BY <1>0, <2>5, <3>1
    <3> QED BY <3>2, <3>3, Zenon
  <2>6. CASE f.active /\ ok
    <3>1. PICK d, l, s : d = settled /\ l = f.id /\ s = detail.scope
      OBVIOUS
    <3>2. PICK e : e = AskContext(d, l, s)
      OBVIOUS
    <3>3. detail' = [e EXCEPT !.log = l]
      BY <2>1, <2>6, <3>1, <3>2, Zenon
    <3>4. /\ DOMAIN e = DOMAIN d
          /\ e.id = d.id /\ e.loads = d.loads /\ e.loading = d.loading /\ e.failed = d.failed
          /\ e.scope = d.scope /\ e.lastNo = d.lastNo /\ e.overtaken = d.overtaken /\ e.context = d.context
          /\ l # NoLog => e.askNo = d.askNo + 1 /\ e.asks = d.asks \cup {[no |-> d.askNo + 1, log |-> l, scope |-> s]}
      BY <1>0, <2>3, <3>1, <3>2, AskFacts
    <3>5. /\ DOMAIN detail' = DOMAIN e /\ detail'.log = l
          /\ detail'.id = e.id /\ detail'.loads = e.loads /\ detail'.loading = e.loading /\ detail'.failed = e.failed
          /\ detail'.scope = e.scope /\ detail'.lastNo = e.lastNo /\ detail'.overtaken = e.overtaken
          /\ detail'.context = e.context /\ detail'.asks = e.asks /\ detail'.askNo = e.askNo
      BY <1>0, <2>3, <3>1, <3>3, <3>4
    <3>6. l = detail.id /\ l # NoLog
      BY <1>0, <2>6, <3>1, PagesAssumption
    <3>7. NewestAsksForChosen' /\ detail'.askNo \in Nat /\ detail'.lastNo \in 0 .. detail'.askNo /\ detail'.askNo > 0
      BY <2>3, <3>1, <3>4, <3>5, <3>6, NewestAsked
    <3>8. /\ DOMAIN detail' = DOMAIN detail /\ detail'.loads = detail.loads \ {f} /\ detail'.loading = FALSE
          /\ detail'.id = detail.id /\ detail'.failed = detail.failed /\ detail'.log = detail.id
          /\ detail'.overtaken = detail.overtaken
      BY <2>3, <3>1, <3>4, <3>5, <3>6
    <3>9. detail'.loading \in BOOLEAN
      BY <3>8
    <3> QED BY <1>0, <2>5, <2>6, <3>7, <3>8, <3>9 DEF DetailIInv
  <2>7. CASE f.active /\ ~ ok
    <3>1. detail' = [settled EXCEPT !.failed = TRUE]
      BY <2>1, <2>7, Zenon
    <3>2. /\ DOMAIN detail' = DOMAIN detail /\ detail'.loads = detail.loads \ {f} /\ detail'.loading = FALSE
          /\ detail'.id = detail.id /\ detail'.failed = TRUE /\ detail'.log = detail.log
          /\ detail'.scope = detail.scope /\ detail'.asks = detail.asks /\ detail'.askNo = detail.askNo
          /\ detail'.lastNo = detail.lastNo /\ detail'.overtaken = detail.overtaken /\ detail'.context = detail.context
      BY <1>0, <2>3, <3>1
    <3>3. NewestAsksForChosen'
      BY <1>0, <3>2 DEF NewestAsksForChosen
    <3>4. detail'.loading \in BOOLEAN /\ detail'.failed \in BOOLEAN
      BY <3>2
    <3> QED BY <1>0, <2>5, <2>7, <3>2, <3>3, <3>4 DEF DetailIInv
  <2> QED BY <2>4, <2>6, <2>7
<1>4. ASSUME NEW q \in detail.asks, NEW ok \in BOOLEAN, getLogContext(q, ok) PROVE DetailIInv'
  <2>1. detail' = [detail EXCEPT !.asks = @ \ {q}, !.context = [log |-> q.log, scope |-> q.scope],
                                 !.overtaken = q.no < detail.lastNo, !.lastNo = IF q.no > @ THEN q.no ELSE @]
    BY <1>4 DEF getLogContext
  <2>2. /\ DOMAIN detail' = DOMAIN detail /\ detail'.asks = detail.asks \ {q}
        /\ detail'.context = [log |-> q.log, scope |-> q.scope] /\ detail'.overtaken = (q.no < detail.lastNo)
        /\ detail'.lastNo = IF q.no > detail.lastNo THEN q.no ELSE detail.lastNo
        /\ detail'.loads = detail.loads /\ detail'.loading = detail.loading /\ detail'.failed = detail.failed
        /\ detail'.id = detail.id /\ detail'.log = detail.log /\ detail'.scope = detail.scope /\ detail'.askNo = detail.askNo
    BY <1>0, <2>1
  <2>3. q.no \in 1 .. detail.askNo
    BY <1>0 DEF NewestAsksForChosen
  <2>4. detail'.lastNo \in 0 .. detail'.askNo /\ detail'.overtaken \in BOOLEAN
    BY <1>0, <2>2, <2>3
  <2>5. NewestAsksForChosen'
    <3>1. \A r \in detail'.asks :
            r.no \in 1 .. detail'.askNo /\ (r.no = detail'.askNo => r.log = detail'.log /\ r.scope = detail'.scope)
      BY <1>0, <2>2 DEF NewestAsksForChosen
    <3>2. detail'.lastNo = detail'.askNo \/ \E r \in detail'.asks : r.no = detail'.askNo
      <4>1. CASE q.no = detail.askNo \/ detail.lastNo = detail.askNo
        BY <1>0, <2>2, <2>3, <4>1
      <4>2. CASE q.no # detail.askNo /\ detail.lastNo # detail.askNo
        BY <1>0, <2>2, <4>2 DEF NewestAsksForChosen
      <4> QED BY <4>1, <4>2
    <3>3. ASSUME detail'.lastNo = detail'.askNo, ~ detail'.overtaken
          PROVE  detail'.context = [log |-> detail'.log, scope |-> detail'.scope]
      <4>0. ~ (q.no < detail.lastNo)
        BY <2>2, <3>3, Zenon
      <4>1. q.no = detail.askNo
        BY <1>0, <2>2, <2>3, <3>3, <4>0
      <4>2. q.log = detail.log /\ q.scope = detail.scope
        BY <1>0, <4>1 DEF NewestAsksForChosen
      <4> QED BY <2>2, <4>2
    <3> QED BY <3>1, <3>2, <3>3 DEF NewestAsksForChosen
  <2> QED BY <1>0, <2>2, <2>4, <2>5 DEF DetailIInv
<1> QED BY <1>1, <1>2, <1>3, <1>4

\* A new effect of the live tail closes the stream of the one before it.
LEMMA StreamStep ==
  ASSUME TailIInv, NEW f, NEW run \in BOOLEAN, tail' = Stream(tail, f, run)
  PROVE  TailIInv'
<1>0. DOMAIN tail = {"running", "filter", "streams", "no", "connected"}
  BY DEF TailIInv
<1>1. CASE run
  <2>1. PICK s : s = [no |-> tail.no + 1, filter |-> f, state |-> "new"]
    OBVIOUS
  <2>2. tail' = [tail EXCEPT !.streams = {s}, !.no = @ + 1, !.filter = f, !.running = TRUE]
    BY <1>1, <2>1 DEF Stream, Closed
  <2>3. /\ DOMAIN tail' = DOMAIN tail /\ tail'.streams = {s} /\ tail'.filter = f /\ tail'.running = TRUE
        /\ tail'.connected = tail.connected
    BY <1>0, <2>2
  <2>4. DOMAIN s = {"no", "filter", "state"} /\ s.filter = f /\ s.state # "error"
    BY <2>1
  <2>5. tail'.running \in BOOLEAN /\ tail'.connected \in BOOLEAN
    BY <2>3 DEF TailIInv
  <2> QED BY <1>0, <2>3, <2>4, <2>5 DEF TailIInv
<1>2. CASE ~ run
  <2>1. tail' = [tail EXCEPT !.streams = {}, !.connected = FALSE, !.filter = f, !.running = FALSE]
    BY <1>2 DEF Stream, Closed
  <2>2. DOMAIN tail' = DOMAIN tail /\ tail'.streams = {} /\ tail'.connected = FALSE /\ tail'.running = FALSE
    BY <1>0, <2>1
  <2> QED BY <1>0, <2>2 DEF TailIInv
<1> QED BY <1>1, <1>2

\* The live tail.
LEMMA TailStep ==
  ASSUME TailIInv,
         \/ setRunning \/ \E f \in TailFilters : setTailFilter(f)
         \/ \E s \in tail.streams, state \in {"open", "error"} : streamEvent(s, state)
  PROVE  TailIInv'
<1>0. /\ DOMAIN tail = {"running", "filter", "streams", "no", "connected"}
      /\ tail.running \in BOOLEAN /\ tail.connected \in BOOLEAN
      /\ tail.running => \E s \in tail.streams : tail.streams = {s}
      /\ ~ tail.running => tail.streams = {} /\ ~ tail.connected
      /\ \A s \in tail.streams : DOMAIN s = {"no", "filter", "state"} /\ s.filter = tail.filter
  BY DEF TailIInv
<1>1. ASSUME NEW f, NEW run, run \in BOOLEAN, tail' = Stream(tail, f, run) PROVE TailIInv'
  BY <1>1, StreamStep
<1>2. CASE setRunning
  <2>1. PICK f, run : f = tail.filter /\ run = ~ tail.running
    BY Zenon
  <2>2. run \in BOOLEAN
    BY <2>1
  <2> QED BY <1>1, <1>2, <2>1, <2>2 DEF setRunning
<1>3. ASSUME NEW f \in TailFilters, setTailFilter(f) PROVE TailIInv'
  <2>1. PICK run : run = tail.running
    OBVIOUS
  <2> QED BY <1>0, <1>1, <1>3, <2>1 DEF setTailFilter
<1>4. ASSUME NEW s \in tail.streams, NEW state \in {"open", "error"}, streamEvent(s, state) PROVE TailIInv'
  <2>1. PICK r : r = [s EXCEPT !.state = state]
    OBVIOUS
  <2>2. DOMAIN r = {"no", "filter", "state"} /\ r.filter = tail.filter /\ r.state = state
    BY <1>0, <2>1
  <2>3. tail.running = TRUE /\ tail.streams = {s}
    BY <1>0
  <2>4. PICK conn : conn = (state = "open")
    BY Zenon
  <2>5. tail' = [tail EXCEPT !.streams = (@ \ {s}) \cup {r}, !.connected = conn]
    BY <1>4, <2>1, <2>4, Zenon DEF streamEvent
  <2>6. /\ DOMAIN tail' = DOMAIN tail /\ tail'.streams = {r} /\ tail'.filter = tail.filter /\ tail'.running = tail.running
        /\ tail'.connected = conn
    BY <1>0, <2>3, <2>5
  <2>7. conn \in BOOLEAN
    BY <2>4
  <2>8. conn => r.state # "error"
    <3>1. ASSUME conn PROVE state = "open"
      BY <2>4, <3>1
    <3> QED BY <2>2, <3>1
  <2> QED BY <1>0, <2>2, <2>3, <2>6, <2>7, <2>8 DEF TailIInv
<1> QED BY <1>2, <1>3, <1>4

\* The initial states of the pages satisfy the inductive invariant.
LEMMA PagesStart == PagesInit => PagesIInv
<1> SUFFICES ASSUME PagesInit PROVE PagesIInv
  OBVIOUS
<1>1. IssuesIInv
  <2>1. issues = [url |-> FirstIssues, input |-> NoIssueFilter, loads |-> {[search |-> FirstIssues, active |-> TRUE]},
                  loading |-> TRUE, failed |-> FALSE, shown |-> FirstIssues]
    BY DEF PagesInit
  <2>2. PICK f : f = [search |-> FirstIssues, active |-> TRUE]
    OBVIOUS
  <2>3. f.search = FirstIssues /\ f.active = TRUE /\ f = [search |-> f.search, active |-> f.active]
    BY <2>2, Zenon
  <2>4. /\ DOMAIN issues = {"url", "input", "loads", "loading", "failed", "shown"} /\ issues.url = FirstIssues
        /\ issues.loads = {f} /\ issues.loading = TRUE /\ issues.failed = FALSE
    BY <2>1, <2>2
  <2> QED BY <2>3, <2>4 DEF IssuesIInv, IssuesAreCurrent
<1>2. DetailIInv
  <2>1. PICK d \in DetailIds :
          detail = [id |-> d, loads |-> {[id |-> d, active |-> TRUE]}, loading |-> TRUE, failed |-> FALSE, log |-> NoLog,
                    scope |-> "source", asks |-> {}, askNo |-> 0, lastNo |-> 0, overtaken |-> FALSE,
                    context |-> [log |-> NoLog, scope |-> "source"]]
    BY DEF PagesInit
  <2>2. PICK f : f = [id |-> d, active |-> TRUE]
    OBVIOUS
  <2>3. f.id = d /\ f.active = TRUE /\ f = [id |-> f.id, active |-> f.active]
    BY <2>2, Zenon
  <2>4. /\ DOMAIN detail = {"id", "loads", "loading", "failed", "log", "scope", "asks", "askNo", "lastNo", "overtaken", "context"}
        /\ detail.id = d /\ detail.loads = {f} /\ detail.loading = TRUE /\ detail.failed = FALSE /\ detail.log = NoLog
        /\ detail.asks = {} /\ detail.askNo = 0 /\ detail.lastNo = 0 /\ detail.overtaken = FALSE
    BY <2>1, <2>2
  <2>5. NewestAsksForChosen
    BY <2>4 DEF NewestAsksForChosen
  <2>6. \A g \in detail.loads : /\ g = [id |-> g.id, active |-> g.active] /\ g.active \in BOOLEAN
                                /\ g.active => detail.loading /\ g.id = detail.id
    BY <2>3, <2>4, Zenon
  <2>7. detail.loading \in BOOLEAN /\ detail.failed \in BOOLEAN /\ detail.overtaken \in BOOLEAN
    BY <2>4
  <2> QED BY <2>4, <2>5, <2>6, <2>7 DEF DetailIInv
<1>3. TailIInv
  <2>1. PICK f \in TailFilters :
          tail = [running |-> TRUE, filter |-> f, streams |-> {[no |-> 1, filter |-> f, state |-> "new"]}, no |-> 1,
                  connected |-> FALSE]
    BY DEF PagesInit
  <2>2. PICK s : s = [no |-> 1, filter |-> f, state |-> "new"]
    OBVIOUS
  <2>3. DOMAIN s = {"no", "filter", "state"} /\ s.filter = f
    BY <2>2
  <2>4. /\ DOMAIN tail = {"running", "filter", "streams", "no", "connected"} /\ tail.running = TRUE /\ tail.filter = f
        /\ tail.streams = {s} /\ tail.connected = FALSE
    BY <2>1, <2>2
  <2> QED BY <2>3, <2>4 DEF TailIInv
<1> QED BY <1>1, <1>2, <1>3 DEF PagesIInv

\* Every step of the pages preserves the inductive invariant.
LEMMA PagesStep == PagesIInv /\ [PagesNext]_pageVars => PagesIInv'
<1> SUFFICES ASSUME IssuesIInv, DetailIInv, TailIInv, [PagesNext]_pageVars PROVE PagesIInv'
  BY DEF PagesIInv
<1>1. ASSUME UNCHANGED issues PROVE IssuesIInv'
  BY <1>1 DEF IssuesIInv, IssuesAreCurrent
<1>2. ASSUME UNCHANGED detail PROVE DetailIInv'
  BY <1>2 DEF DetailIInv, NewestAsksForChosen
<1>3. ASSUME UNCHANGED tail PROVE TailIInv'
  BY <1>3 DEF TailIInv
<1>4. CASE \/ applyFilter \/ resetFilter \/ retryIssues \/ \E f \in IssueFilters : typeFilter(f)
           \/ \E n \in 1 .. MaxIssuePage : issuePage(n)
           \/ \E f \in issues.loads, ok \in BOOLEAN : getIssuesAnswers(f, ok)
  <2>1. UNCHANGED <<detail, tail>>
    BY <1>4 DEF applyFilter, resetFilter, retryIssues, typeFilter, issuePage, getIssuesAnswers, IssuesOnly
  <2> QED BY <1>2, <1>3, <1>4, <2>1, IssuesStep DEF PagesIInv
<1>5. CASE \/ \E d \in DetailIds : openLog(d)
           \/ \E s \in Scopes : setContextScope(s)
           \/ \E f \in detail.loads, ok \in BOOLEAN : getLogById(f, ok)
           \/ \E q \in detail.asks, ok \in BOOLEAN : getLogContext(q, ok)
  <2>1. UNCHANGED <<issues, tail>>
    BY <1>5 DEF openLog, setContextScope, getLogById, getLogContext, DetailOnly
  <2> QED BY <1>1, <1>3, <1>5, <2>1, DetailStep DEF PagesIInv
<1>6. CASE \/ setRunning \/ \E f \in TailFilters : setTailFilter(f)
           \/ \E s \in tail.streams, state \in {"open", "error"} : streamEvent(s, state)
  <2>1. UNCHANGED <<issues, detail>>
    BY <1>6 DEF setRunning, setTailFilter, streamEvent, TailOnly
  <2> QED BY <1>1, <1>2, <1>6, <2>1, TailStep DEF PagesIInv
<1>7. CASE UNCHANGED pageVars
  BY <1>1, <1>2, <1>3, <1>7 DEF pageVars, PagesIInv
<1> QED BY <1>4, <1>5, <1>6, <1>7 DEF PagesNext, PageAnswers

(***************************************************************************)
(* In every reachable state of the issue explorer, the log detail and the  *)
(* live tail the loads with a set flag, the numbers of the context         *)
(* requests and the open streams are related as PagesIInv says.            *)
(***************************************************************************)
THEOREM PagesInvariance == PagesSpec => []PagesIInv
<1> QED BY PagesStart, PagesStep, PTL DEF PagesSpec

(***************************************************************************)
(* What the issue explorer, the log detail and the live tail show is what  *)
(* they are set to, whatever order the answers to their earlier effects    *)
(* arrive in.                                                              *)
(***************************************************************************)
THEOREM PagesTheorem == PagesSpec => []PagesCurrent
<1>1. PagesIInv => PagesCurrent
  <2> SUFFICES ASSUME IssuesIInv, DetailIInv, TailIInv PROVE PagesCurrent
    BY DEF PagesIInv
  <2>1. ContextIsCurrent
    <3>1. ~ detail.loading /\ ~ detail.failed => detail.log = detail.id
      BY DEF DetailIInv
    <3>2. ASSUME ~ detail.loading, ~ detail.failed, detail.asks = {}, ~ detail.overtaken
          PROVE  detail.context = [log |-> detail.log, scope |-> detail.scope]
      BY <3>2, PagesAssumption DEF DetailIInv, NewestAsksForChosen
    <3> QED BY <3>1, <3>2 DEF ContextIsCurrent
  <2>2. OneStream
    <3>1. CASE tail.running
      <4>1. PICK s \in tail.streams : tail.streams = {s}
        BY <3>1 DEF TailIInv
      <4>2. Cardinality(tail.streams) = 1
        BY <4>1, FS_Singleton
      <4> QED BY <3>1, <4>2 DEF OneStream, TailIInv
    <3>2. CASE ~ tail.running
      <4>1. Cardinality(tail.streams) = 0
        BY <3>2, FS_EmptySet DEF TailIInv
      <4> QED BY <3>2, <4>1 DEF OneStream, TailIInv
    <3> QED BY <3>1, <3>2
  <2> QED BY <2>1, <2>2 DEF PagesCurrent, IssuesIInv
<1> QED BY <1>1, PagesInvariance, PTL
=============================================================================
