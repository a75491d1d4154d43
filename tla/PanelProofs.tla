---------------------------- MODULE PanelProofs -----------------------------
(***************************************************************************)
(* Proofs about the source panel and the editable lists of the console,    *)
(* for any number of sources, keys, rows, and requests and answers under   *)
(* way.                                                                    *)
(***************************************************************************)
EXTENDS SourcesPanel, ListPanels, FiniteSetTheorems, TLAPS

(***************************************************************************)
(* The source panel: keys and the requests that change them.               *)
(***************************************************************************)
\* What a step leaves alone keeps the conjuncts that speak of nothing else.
LEMMA PanelFrame ==
  ASSUME PanelIInv
  PROVE  /\ UNCHANGED <<requests>> => CreatesAreNew'
         /\ UNCHANGED <<srvKey, acked, listed>> => ServerIsAhead'
         /\ UNCHANGED <<requests, srvKey>> => RotationsAreServed'
         /\ UNCHANGED <<srvKey, fetches, acked, listed>> => AnswersAreNew'
         /\ UNCHANGED <<stolen, requests, busyId, dialog, acked>> => OneAtATime'
         /\ UNCHANGED <<row, acked, listed>> => RevealedIsNoOlder'
         /\ UNCHANGED clipboard => CopiedIsNoOlder'
         /\ UNCHANGED <<rotated, stolen, acked>> => RotatedIsNewest'
         /\ UNCHANGED <<srvKey, listed, acked, row, dialog, fetches, requests, create>> => UnmadeLeavesNoTrace'
BY DEF PanelIInv, CreatesAreNew, ServerIsAhead, RotationsAreServed, AnswersAreNew, OneAtATime, KeysCurrent,
  RevealedIsNoOlder, CopiedIsNoOlder, RotatedIsNewest, UnmadeLeavesNoTrace, Unmade, NoTrace

\* The fetches whose ticket a remount or a refresh takes are otherwise the same.
Retagged(f, g) == /\ g.kind = f.kind /\ g.s = f.s /\ g.since = f.since /\ g.stage = f.stage /\ g.key = f.key
                  /\ g.ticket = "live" => f.ticket = "live"

LEMMA MarkedFacts ==
  ASSUME fetches \subseteq KeyFetch, NEW ss, NEW mark \in {"stale", "orphan"}
  PROVE  /\ Marked(ss, mark) \subseteq KeyFetch
         /\ \A g \in Marked(ss, mark) : \E f \in fetches : Retagged(f, g) /\ (g.ticket = "live" => g.s \notin ss)
<1> SUFFICES ASSUME NEW g \in Marked(ss, mark)
             PROVE  g \in KeyFetch /\ \E f \in fetches : Retagged(f, g) /\ (g.ticket = "live" => g.s \notin ss)
  OBVIOUS
<1>1. PICK f \in fetches : g = IF f.s \in ss /\ f.ticket = "live" THEN [f EXCEPT !.ticket = mark] ELSE f
  BY DEF Marked
<1>2. f \in KeyFetch
  OBVIOUS
<1>3. g \in KeyFetch /\ Retagged(f, g) /\ (g.ticket = "live" => g.s \notin ss)
  BY <1>1, <1>2 DEF KeyFetch, Retagged
<1> QED BY <1>3

\* Answers stay new when tickets are taken, as long as the rows whose bounds move lose theirs.
LEMMA RetaggedAnswers ==
  ASSUME PanelIInv, UNCHANGED srvKey,
         \A g \in fetches' : \E f \in fetches : Retagged(f, g),
         \A g \in fetches' : g.ticket = "live" => acked'[g.s] = acked[g.s] /\ listed'[g.s] = listed[g.s]
  PROVE  AnswersAreNew'
<1> SUFFICES ASSUME NEW g \in fetches'
             PROVE  /\ srvKey[g.s] # 0 => g.since <= srvKey[g.s]
                    /\ g.stage = "answered" /\ g.key # 0 =>
                         /\ g.key >= g.since
                         /\ g.ticket = "live" => g.key >= acked'[g.s] /\ g.key >= listed'[g.s]
  BY DEF AnswersAreNew
<1>1. PICK f \in fetches : Retagged(f, g)
  OBVIOUS
<1> QED BY <1>1 DEF PanelIInv, AnswersAreNew, Retagged

\* What the panel knows of a source is what it shows or less, and less than what the server has.
LEMMA KnownFacts ==
  ASSUME PanelIInv, NEW s \in Sources
  PROVE  /\ KnownKey(s) \in Nat
         /\ srvKey[s] # 0 => KnownKey(s) <= srvKey[s]
         /\ \A k \in Nat : k >= acked[s] /\ k >= listed[s] => k >= KnownKey(s)
BY DEF PanelIInv, PanelTypeOK, ServerIsAhead, KnownKey

\* Reveal and Copy.
LEMMA FetchStep ==
  ASSUME PanelIInv, NEW s \in Sources, toggleReveal(s) \/ copyKey(s)
  PROVE  PanelIInv'
<1>0. PanelTypeOK
  BY DEF PanelIInv
<1>1. /\ UNCHANGED <<srvKey, listed, dialog, requests, busyId, rotated, acked, create, stolen>>
      /\ listed[s] # 0
  BY DEF toggleReveal, copyKey
<1>2. CreatesAreNew' /\ ServerIsAhead' /\ RotationsAreServed' /\ OneAtATime' /\ RotatedIsNewest'
  BY <1>1, PanelFrame
<1>3. ~ Unmade(s)
  BY <1>1 DEF PanelIInv, UnmadeLeavesNoTrace, NoTrace
<1>4. CASE row[s].full # 0
  <2>1. CASE toggleReveal(s)
    <3>1. row' = [row EXCEPT ![s].full = 0] /\ fetches' = Marked({s}, "stale") /\ clipboard' = clipboard
      BY <1>4, <2>1 DEF toggleReveal
    <3>2. fetches' \subseteq KeyFetch /\ \A g \in fetches' : \E f \in fetches : Retagged(f, g)
      BY <1>0, <3>1, MarkedFacts DEF PanelTypeOK
    <3>3. row' \in [Sources -> PanelRow] /\ row'[s].full = 0 /\ \A x \in Sources : x # s => row'[x] = row[x]
      BY <1>0, <3>1 DEF PanelTypeOK, PanelRow
    <3>4. PanelTypeOK'
      BY <1>0, <1>1, <3>1, <3>2, <3>3 DEF PanelTypeOK
    <3>5. AnswersAreNew'
      BY <1>1, <3>2, RetaggedAnswers
    <3>6. RevealedIsNoOlder' /\ CopiedIsNoOlder'
      BY <1>1, <3>1, <3>3, PanelFrame DEF PanelIInv, KeysCurrent, RevealedIsNoOlder
    <3>7. UnmadeLeavesNoTrace'
      BY <1>1, <1>3, <3>2, <3>3 DEF PanelIInv, UnmadeLeavesNoTrace, Unmade, NoTrace, Retagged
    <3> QED BY <1>2, <3>4, <3>5, <3>6, <3>7 DEF PanelIInv, KeysCurrent
  <2>2. CASE copyKey(s)
    <3>1. /\ clipboard' = [s |-> s, key |-> row[s].full, known |-> KnownKey(s), via |-> "row"]
          /\ UNCHANGED <<row, fetches>>
      BY <1>4, <2>2 DEF copyKey, writeText
    <3>2. row[s].full \in Nat /\ KnownKey(s) \in Nat /\ row[s].full >= KnownKey(s)
      BY <1>0, <1>4, KnownFacts DEF PanelTypeOK, PanelRow, PanelIInv, KeysCurrent, RevealedIsNoOlder
    <3>3. PanelTypeOK'
      BY <1>0, <1>1, <3>1, <3>2 DEF PanelTypeOK, Copied
    <3>4. CopiedIsNoOlder'
      BY <3>1, <3>2 DEF CopiedIsNoOlder
    <3> QED BY <1>1, <1>2, <3>1, <3>3, <3>4, PanelFrame DEF PanelIInv, KeysCurrent
  <2> QED BY <2>1, <2>2
<1>5. CASE row[s].full = 0
  <2>1. PICK kind \in {"reveal", "copy"} : Fetch(kind, s) /\ UNCHANGED clipboard
    BY <1>5 DEF toggleReveal, copyKey
  <2> DEFINE new == [kind |-> kind, s |-> s, ticket |-> "live", since |-> KnownKey(s), stage |-> "sent", key |-> 0]
  <2>2. fetches' = fetches \cup {new} /\ new \in KeyFetch
    BY <2>1, KnownFacts DEF Fetch, KeyFetch
  <2>3. row' \in [Sources -> PanelRow] /\ \A x \in Sources : row'[x].full = row[x].full
    BY <1>0, <2>1 DEF Fetch, PanelTypeOK, PanelRow
  <2>4. PanelTypeOK'
    BY <1>0, <1>1, <2>1, <2>2, <2>3 DEF PanelTypeOK
  <2>5. AnswersAreNew'
    <3>1. (srvKey[new.s] # 0 => new.since <= srvKey[new.s]) /\ new.stage # "answered"
      BY KnownFacts
    <3> HIDE DEF new
    <3> QED BY <1>1, <2>2, <3>1 DEF PanelIInv, AnswersAreNew
  <2>6. RevealedIsNoOlder' /\ CopiedIsNoOlder'
    BY <1>1, <2>1, <2>3, PanelFrame DEF PanelIInv, KeysCurrent, RevealedIsNoOlder
  <2>7. UnmadeLeavesNoTrace'
    BY <1>1, <1>3, <2>2, <2>3 DEF PanelIInv, UnmadeLeavesNoTrace, Unmade, NoTrace
  <2> QED BY <1>2, <2>4, <2>5, <2>6, <2>7 DEF PanelIInv, KeysCurrent
<1> QED BY <1>4, <1>5, <1>0 DEF PanelTypeOK, PanelRow

\* The server answers a fetch, and its reply arrives.
LEMMA AnswerStep ==
  ASSUME PanelIInv, NEW f \in fetches, NEW fails \in BOOLEAN, revealSourceKey(f, fails) \/ keyArrives(f)
  PROVE  PanelIInv'
<1>0. PanelTypeOK /\ f \in KeyFetch
  BY DEF PanelIInv, PanelTypeOK
<1>1. UNCHANGED <<srvKey, listed, dialog, requests, busyId, rotated, acked, create, stolen>>
  BY DEF revealSourceKey, keyArrives
<1>2. CreatesAreNew' /\ ServerIsAhead' /\ RotationsAreServed' /\ OneAtATime' /\ RotatedIsNewest'
  BY <1>1, PanelFrame
<1>s. f.s \in Sources /\ f.key \in Nat /\ f.since \in Nat /\ srvKey[f.s] \in Nat /\ acked[f.s] \in Nat /\ listed[f.s] \in Nat
  BY <1>0 DEF PanelTypeOK, KeyFetch
<1>3. CASE revealSourceKey(f, fails)
  <2>1. PICK k \in {0, srvKey[f.s]} : fetches' = (fetches \ {f}) \cup {[f EXCEPT !.stage = "answered", !.key = k]}
    BY <1>3 DEF revealSourceKey
  <2> DEFINE g == [f EXCEPT !.stage = "answered", !.key = k]
  <2>k. k \in Nat /\ f \in KeyFetch /\ fetches' = (fetches \ {f}) \cup {g}
    BY <1>0, <1>s, <2>1
  <2>2. g \in KeyFetch /\ g.s = f.s /\ g.since = f.since /\ g.key = k
    BY <2>k DEF KeyFetch
  <2>3. PanelTypeOK' /\ UNCHANGED <<row, clipboard>>
    BY <1>0, <1>1, <1>3, <2>k, <2>2 DEF PanelTypeOK, revealSourceKey
  <2>4. k # 0 => k >= acked[f.s] /\ k >= listed[f.s]
    BY <1>s DEF PanelIInv, ServerIsAhead
  <2>5. srvKey[f.s] # 0 => f.since <= srvKey[f.s]
    BY DEF PanelIInv, AnswersAreNew
  <2>6. k # 0 => k >= f.since
    BY <1>s, <2>5
  <2> HIDE DEF g
  <2>7. AnswersAreNew'
    BY <1>1, <2>k, <2>2, <2>4, <2>5, <2>6 DEF PanelIInv, AnswersAreNew
  <2>8. UnmadeLeavesNoTrace'
    BY <1>1, <2>k, <2>2, <2>3 DEF PanelIInv, UnmadeLeavesNoTrace, Unmade, NoTrace
  <2> QED BY <1>1, <1>2, <2>3, <2>7, <2>8, PanelFrame DEF PanelIInv, KeysCurrent
<1>4. CASE keyArrives(f)
  <2>1. f.stage = "answered" /\ fetches' = fetches \ {f}
    BY <1>4 DEF keyArrives
  <2>2. \/ clipboard' = clipboard
        \/ /\ f.key # 0 /\ f.ticket = "orphan"
           /\ clipboard' = [s |-> f.s, key |-> f.key, known |-> f.since, via |-> "late"]
        \/ /\ f.key # 0 /\ f.ticket = "live"
           /\ clipboard' = [s |-> f.s, key |-> f.key, known |-> KnownKey(f.s), via |-> "row"]
    BY <1>0, <1>4 DEF keyArrives, writeText, KeyFetch
  <2>c. /\ KnownKey(f.s) \in Nat
        /\ f.key # 0 => f.key >= f.since /\ (f.ticket = "live" => f.key >= KnownKey(f.s))
    BY <1>s, <2>1, KnownFacts DEF PanelIInv, AnswersAreNew
  <2>3. clipboard' \in Copied /\ CopiedIsNoOlder'
    BY <1>0, <1>s, <2>2, <2>c DEF PanelTypeOK, PanelIInv, CopiedIsNoOlder, KeysCurrent, Copied
  <2>4. \/ row' = row
        \/ /\ f.ticket = "live"
           /\ \E k \in {f.key, row[f.s].full} : /\ k = f.key => k # 0 \/ k = row[f.s].full
                                                /\ row' = [row EXCEPT ![f.s] = [loading |-> FALSE, full |-> k]]
    BY <1>4 DEF keyArrives, Current
  <2>5. /\ row' \in [Sources -> PanelRow]
        /\ \A x \in Sources : \/ row'[x].full = row[x].full
                              \/ x = f.s /\ f.ticket = "live" /\ f.key # 0 /\ row'[x].full = f.key
    <3>1. CASE row' = row
      BY <1>0, <3>1 DEF PanelTypeOK
    <3>2. CASE row' # row
      <4>0. PICK k \in {f.key, row[f.s].full} : /\ k = f.key => k # 0 \/ k = row[f.s].full
                                                /\ row' = [row EXCEPT ![f.s] = [loading |-> FALSE, full |-> k]]
        BY <2>4, <3>2
      <4>1. k \in Nat /\ row \in [Sources -> PanelRow] /\ f.ticket = "live"
        BY <1>0, <1>s, <2>4, <3>2 DEF PanelTypeOK, PanelRow
      <4>2. [loading |-> FALSE, full |-> k] \in PanelRow
        BY <4>1 DEF PanelRow
      <4>3. [loading |-> FALSE, full |-> k].full = k
        OBVIOUS
      <4> QED BY <1>s, <4>0, <4>1, <4>2, <4>3
    <3> QED BY <3>1, <3>2
  <2>6. PanelTypeOK'
    BY <1>0, <1>1, <2>1, <2>3, <2>5 DEF PanelTypeOK
  <2>7. AnswersAreNew'
    BY <1>1, <2>1 DEF PanelIInv, AnswersAreNew
  <2>8. RevealedIsNoOlder'
    BY <1>1, <2>1, <2>5 DEF PanelIInv, AnswersAreNew, KeysCurrent, RevealedIsNoOlder
  <2>9. UnmadeLeavesNoTrace'
    BY <1>1, <2>1, <2>5 DEF PanelIInv, UnmadeLeavesNoTrace, Unmade, NoTrace
  <2> QED BY <1>2, <2>3, <2>6, <2>7, <2>8, <2>9 DEF PanelIInv, KeysCurrent
<1> QED BY <1>3, <1>4

\* The dialogs over the rows: opened, cancelled, and confirmed.
LEMMA DialogStep ==
  ASSUME PanelIInv,
         \/ \E s \in Sources, kind \in RowKinds : openAction(kind, s)
         \/ \E valid \in BOOLEAN : confirmAction(valid)
         \/ cancelAction
  PROVE  PanelIInv'
<1>0. PanelTypeOK /\ dialog.s \in Sources \cup {NoSource} /\ NoDialog.s = NoSource /\ NoSource \notin Sources
  BY PanelAssumption DEF PanelIInv, PanelTypeOK, NoDialog
<1>1. UNCHANGED <<srvKey, listed, row, fetches, clipboard, rotated, acked, create>>
  BY DEF openAction, confirmAction, cancelAction
<1>2. ServerIsAhead' /\ AnswersAreNew' /\ RevealedIsNoOlder' /\ CopiedIsNoOlder'
  BY <1>1, PanelFrame
<1>3. ASSUME NEW s \in Sources, NEW kind \in RowKinds, openAction(kind, s) PROVE PanelIInv'
  <2>1. /\ UNCHANGED <<requests, busyId, stolen>> /\ listed[s] # 0 /\ busyId # s
        /\ dialog' = [kind |-> kind, s |-> s]
    BY <1>3 DEF openAction, ButtonsEnabled
  <2>2. PanelTypeOK' /\ dialog'.s = s
    BY <1>0, <1>1, <2>1 DEF PanelTypeOK
  <2>3. OneAtATime'
    BY <1>1, <2>1, <2>2 DEF PanelIInv, OneAtATime
  <2>4. UnmadeLeavesNoTrace'
    BY <1>1, <2>1, <2>2 DEF PanelIInv, UnmadeLeavesNoTrace, Unmade, NoTrace
  <2> QED BY <1>1, <1>2, <2>1, <2>2, <2>3, <2>4, PanelFrame DEF PanelIInv, KeysCurrent
<1>4. ASSUME dialog' = NoDialog, UNCHANGED <<requests, busyId, stolen>> PROVE PanelIInv'
  <2>1. PanelTypeOK'
    BY <1>0, <1>1, <1>4 DEF PanelTypeOK
  <2>2. OneAtATime'
    BY <1>0, <1>1, <1>4 DEF PanelIInv, OneAtATime, PanelTypeOK, PanelRequest
  <2>3. UnmadeLeavesNoTrace'
    BY <1>0, <1>1, <1>4 DEF PanelIInv, UnmadeLeavesNoTrace, Unmade, NoTrace
  <2> QED BY <1>1, <1>2, <1>4, <2>1, <2>2, <2>3, PanelFrame DEF PanelIInv, KeysCurrent
<1>5. ASSUME dialog # NoDialog, dialog' = NoDialog, requests' = requests \cup {Request(dialog.kind, dialog.s)},
             busyId' = dialog.s, stolen' = (stolen \/ \E r \in requests : r.kind # "create" /\ r.s # dialog.s)
      PROVE  PanelIInv'
  <2> DEFINE new == Request(dialog.kind, dialog.s)
  <2>1. /\ new \in PanelRequest /\ new.kind # "create" /\ new.s = dialog.s /\ new.stage = "sent"
        /\ dialog.s \in Sources /\ new # Request("create", dialog.s)
    <3>1. dialog.kind \in RowKinds /\ dialog.s \in Sources
      BY <1>0, <1>5 DEF PanelTypeOK
    <3>2. new.kind = dialog.kind /\ new.s = dialog.s /\ new.stage = "sent" /\ Request("create", dialog.s).kind = "create"
      BY DEF Request
    <3>3. new \in PanelRequest
      BY <3>1 DEF Request, PanelRequest
    <3> QED BY <3>1, <3>2, <3>3 DEF RowKinds
  <2>2. stolen' \in BOOLEAN
    BY <1>5
  <2>3. requests' \subseteq PanelRequest
    BY <1>0, <1>5, <2>1 DEF PanelTypeOK
  <2>4. PanelTypeOK'
    BY <1>0, <1>1, <1>5, <2>1, <2>2, <2>3 DEF PanelTypeOK
  <2>5. CreatesAreNew' /\ RotationsAreServed'
    BY <1>1, <1>5, <2>1 DEF PanelIInv, CreatesAreNew, RotationsAreServed
  <2>6. OneAtATime'
    <3> SUFFICES ASSUME ~ stolen' PROVE OneAtATime'
      BY DEF OneAtATime
    <3>1. ~ stolen /\ \A r \in requests : r.kind # "create" => r.s = dialog.s
      BY <1>5
    <3>2. \A r \in requests : r.kind = "create"
      BY <3>1 DEF PanelIInv, OneAtATime
    <3> QED BY <1>0, <1>5, <2>1, <3>2 DEF OneAtATime
  <2>7. UnmadeLeavesNoTrace'
    <3>1. ~ Unmade(dialog.s)
      BY <2>1 DEF PanelIInv, UnmadeLeavesNoTrace, NoTrace
    <3>2. ASSUME NEW x \in Sources, Unmade(x)' PROVE x # dialog.s /\ Unmade(x)
      <4>1. Request("create", x) # new
        BY <2>1 DEF Request
      <4> QED BY <1>1, <1>5, <3>1, <3>2, <4>1 DEF Unmade
    <3>3. ASSUME NEW x \in Sources, x # dialog.s, NoTrace(x) PROVE NoTrace(x)'
      BY <1>0, <1>1, <1>5, <2>1, <3>3 DEF NoTrace
    <3> QED BY <3>2, <3>3 DEF PanelIInv, UnmadeLeavesNoTrace
  <2>8. RotatedIsNewest'
    BY <1>1, <1>5 DEF PanelIInv, KeysCurrent, RotatedIsNewest
  <2> QED BY <1>2, <2>4, <2>5, <2>6, <2>7, <2>8 DEF PanelIInv, KeysCurrent
<1>6. ASSUME cancelAction PROVE dialog' = NoDialog /\ UNCHANGED <<requests, busyId, stolen>>
  BY <1>6 DEF cancelAction
<1>7. ASSUME NEW valid \in BOOLEAN, confirmAction(valid) PROVE PanelIInv'
  BY <1>4, <1>5, <1>7 DEF confirmAction
<1> QED BY <1>3, <1>4, <1>6, <1>7

\* The server carries a request out, or does not.
LEMMA HandleStep ==
  ASSUME PanelIInv, NEW r \in requests, NEW fails \in BOOLEAN, serverHandles(r, fails)
  PROVE  PanelIInv'
<1>0. PanelTypeOK /\ r \in PanelRequest /\ r.s \in Sources /\ srvKey[r.s] \in Nat /\ r.stage = "sent"
  BY DEF PanelIInv, PanelTypeOK, PanelRequest, serverHandles
<1>1. UNCHANGED <<listed, row, fetches, clipboard, dialog, busyId, rotated, acked, create, stolen>>
  BY DEF serverHandles
<1>2. RevealedIsNoOlder' /\ CopiedIsNoOlder' /\ RotatedIsNewest'
  BY <1>1, PanelFrame
\* the request becomes its answer
<1>a. ASSUME NEW q \in PanelRequest, q.kind = r.kind, q.s = r.s, q.stage = "answered",
             requests' = (requests \ {r}) \cup {q},
             \A x \in Sources : srvKey'[x] = srvKey[x] \/ x = r.s,
             srvKey' \in [Sources -> Nat],
             Unmade(r.s) \/ srvKey'[r.s] >= srvKey[r.s] \/ srvKey'[r.s] = 0,
             srvKey[r.s] = 0 => Unmade(r.s) \/ srvKey'[r.s] = 0,
             q.ok /\ q.kind = "rotate" => srvKey[r.s] # 0 /\ q.key = srvKey[r.s] + 1 /\ srvKey'[r.s] = q.key
      PROVE  PanelIInv'
  <2>1. PanelTypeOK'
    BY <1>0, <1>1, <1>a DEF PanelTypeOK
  <2>2. CreatesAreNew'
    BY <1>a DEF PanelIInv, CreatesAreNew
  <2>n. srvKey[r.s] \in Nat /\ srvKey'[r.s] \in Nat /\ acked[r.s] \in Nat /\ listed[r.s] \in Nat
    BY <1>0, <1>a DEF PanelTypeOK
  <2>t. Unmade(r.s) => NoTrace(r.s)
    BY <1>0 DEF PanelIInv, UnmadeLeavesNoTrace
  <2>3. ServerIsAhead'
    <3> SUFFICES ASSUME NEW x \in Sources, srvKey'[x] # 0 PROVE srvKey'[x] >= acked[x] /\ srvKey'[x] >= listed[x]
      BY <1>1 DEF ServerIsAhead
    <3>1. CASE srvKey'[x] = srvKey[x]
      BY <3>1 DEF PanelIInv, ServerIsAhead
    <3>2. CASE x = r.s /\ Unmade(r.s)
      <4>1. acked[x] = 0 /\ listed[x] = 0
        BY <2>t, <3>2 DEF NoTrace
      <4> QED BY <2>n, <3>2, <4>1
    <3>3. CASE x = r.s /\ ~ Unmade(r.s)
      <4>1. srvKey'[x] >= srvKey[x] /\ srvKey[x] # 0
        BY <1>a, <2>n, <3>3
      <4>2. srvKey[x] >= acked[x] /\ srvKey[x] >= listed[x]
        BY <4>1 DEF PanelIInv, ServerIsAhead
      <4> QED BY <2>n, <3>3, <4>1, <4>2
    <3> QED BY <1>a, <3>1, <3>2, <3>3
  <2>4. RotationsAreServed'
    <3> SUFFICES ASSUME NEW p \in requests', p.stage = "answered", p.ok, p.kind = "rotate", srvKey'[p.s] # 0
                 PROVE  p.key <= srvKey'[p.s]
      BY DEF RotationsAreServed
    <3>1. CASE p = q
      BY <1>a, <2>n, <3>1
    <3>2. CASE p # q
      <4>1. p \in requests /\ p.key \in Nat /\ p.s \in Sources
        BY <1>0, <1>a, <3>2 DEF PanelTypeOK, PanelRequest
      <4>2. srvKey[p.s] # 0 => p.key <= srvKey[p.s]
        BY <4>1 DEF PanelIInv, RotationsAreServed
      <4>3. CASE p.s # r.s
        BY <1>a, <4>1, <4>2, <4>3
      <4>4. CASE p.s = r.s
        <5>1. ~ Unmade(r.s)
          <6>1. p # Request("create", p.s)
            BY DEF Request
          <6> QED BY <2>t, <4>1, <4>4, <6>1 DEF NoTrace
        <5>2. srvKey[p.s] # 0 /\ srvKey'[p.s] >= srvKey[p.s]
          BY <1>a, <2>n, <4>4, <5>1
        <5> QED BY <2>n, <4>1, <4>2, <4>4, <5>2
      <4> QED BY <4>3, <4>4
    <3> QED BY <3>1, <3>2
  <2>5. OneAtATime'
    <3> SUFFICES ASSUME ~ stolen, NEW p \in requests', p.kind # "create"
                 PROVE  /\ busyId = p.s /\ dialog.s # p.s
                        /\ \A z \in requests' : z.kind # "create" => z = p
                        /\ p.stage = "answered" /\ p.ok /\ p.kind = "rotate" => p.key >= acked[p.s]
      BY <1>1 DEF OneAtATime
    <3>1. CASE p = q
      <4>1. /\ busyId = r.s /\ dialog.s # r.s /\ \A z \in requests : z.kind # "create" => z = r
        BY <1>a, <3>1 DEF PanelIInv, OneAtATime
      <4>2. q.ok /\ q.kind = "rotate" => q.key >= acked[q.s]
        <5>1. ASSUME srvKey[r.s] # 0 PROVE srvKey[r.s] >= acked[r.s]
          BY <1>0, <5>1 DEF PanelIInv, ServerIsAhead
        <5> QED BY <1>a, <2>n, <5>1
      <4> QED BY <1>a, <3>1, <4>1, <4>2
    <3>2. CASE p # q
      <4>1. p \in requests /\ p # r
        BY <1>a, <3>2
      <4>2. r.kind = "create"
        BY <4>1 DEF PanelIInv, OneAtATime
      <4> QED BY <1>a, <3>2, <4>1, <4>2 DEF PanelIInv, OneAtATime
    <3> QED BY <3>1, <3>2
  <2>6. UnmadeLeavesNoTrace'
    <3> SUFFICES ASSUME NEW x \in Sources, Unmade(x)' PROVE NoTrace(x)'
      BY DEF UnmadeLeavesNoTrace
    <3>1. Unmade(x) /\ r # Request("create", x)
      <4>1. q # Request("create", x)
        BY <1>a DEF Request
      <4>2. ASSUME r = Request("create", x) PROVE FALSE
        <5>1. x \in create.used
          BY <4>2 DEF PanelIInv, UnmadeLeavesNoTrace, Unmade, NoTrace, Request
        <5>2. Request("create", x) \notin requests'
          BY <1>a, <4>1, <4>2
        <5> QED BY <1>1, <5>1, <5>2 DEF Unmade
      <4> QED BY <1>1, <1>a, <4>1, <4>2 DEF Unmade
    <3>2. NoTrace(x)
      BY <3>1 DEF PanelIInv, UnmadeLeavesNoTrace
    <3>3. x # r.s
      BY <3>1, <3>2 DEF NoTrace
    <3> QED BY <1>1, <1>a, <3>2, <3>3 DEF NoTrace
  <2>7. AnswersAreNew'
    <3> SUFFICES ASSUME NEW f \in fetches, srvKey'[f.s] # 0 PROVE f.since <= srvKey'[f.s]
      BY <1>1 DEF PanelIInv, AnswersAreNew
    <3>1. f.s \in Sources /\ f.since \in Nat /\ (srvKey[f.s] # 0 => f.since <= srvKey[f.s])
      BY <1>0 DEF PanelIInv, PanelTypeOK, KeyFetch, AnswersAreNew
    <3>2. CASE f.s # r.s
      BY <1>a, <3>1, <3>2
    <3>3. CASE f.s = r.s
      <4>1. ~ Unmade(r.s)
        BY <2>t, <3>3 DEF NoTrace
      <4>2. srvKey[r.s] # 0 /\ srvKey'[r.s] >= srvKey[r.s]
        BY <1>a, <2>n, <3>3, <4>1
      <4> QED BY <2>n, <3>1, <3>3, <4>2
    <3> QED BY <3>2, <3>3
  <2> QED BY <1>2, <2>1, <2>2, <2>3, <2>4, <2>5, <2>6, <2>7 DEF PanelIInv, KeysCurrent
<1>3. CASE UNCHANGED srvKey /\ requests' = (requests \ {r}) \cup {[r EXCEPT !.stage = "answered", !.ok = FALSE]}
  <2> DEFINE q == [r EXCEPT !.stage = "answered", !.ok = FALSE]
  <2>1. q \in PanelRequest
    BY <1>0 DEF PanelRequest
  <2>2. q.kind = r.kind /\ q.s = r.s /\ q.stage = "answered" /\ q.ok = FALSE
    BY <1>0 DEF PanelRequest
  <2>3. srvKey' \in [Sources -> Nat] /\ srvKey'[r.s] >= srvKey[r.s]
    BY <1>0, <1>3 DEF PanelTypeOK
  <2> HIDE DEF q
  <2> QED BY <1>3, <1>a, <2>1, <2>2, <2>3 DEF q
<1>4. CASE /\ r.kind = "create" \/ srvKey[r.s] # 0
           /\ srvKey' = [srvKey EXCEPT ![r.s] = KeyAfter(r)]
           /\ requests' = (requests \ {r}) \cup {[r EXCEPT !.stage = "answered", !.key = KeyAfter(r)]}
  <2>1. PICK k : k = KeyAfter(r)
    OBVIOUS
  <2>2. /\ k \in Nat
        /\ r.kind = "create" \/ k >= srvKey[r.s] \/ k = 0
        /\ r.kind = "rotate" => k = srvKey[r.s] + 1
    BY <1>0, <2>1 DEF KeyAfter, PanelRequest, RowKinds
  <2>3. r.kind = "create" => Unmade(r.s)
    BY <1>0 DEF PanelIInv, CreatesAreNew, Unmade
  <2> DEFINE q == [r EXCEPT !.stage = "answered", !.key = k]
  <2>4. q \in PanelRequest /\ q.kind = r.kind /\ q.s = r.s /\ q.stage = "answered" /\ q.key = k
    BY <1>0, <2>2 DEF PanelRequest
  <2>5. srvKey' \in [Sources -> Nat] /\ srvKey'[r.s] = k /\ \A x \in Sources : x # r.s => srvKey'[x] = srvKey[x]
    BY <1>0, <1>4, <2>1, <2>2 DEF PanelTypeOK
  <2>6. requests' = (requests \ {r}) \cup {q}
    BY <1>4, <2>1
  <2> HIDE DEF q
  <2>7. q.ok /\ q.kind = "rotate" => srvKey[r.s] # 0 /\ q.key = srvKey[r.s] + 1 /\ srvKey'[r.s] = q.key
    BY <1>4, <2>2, <2>4, <2>5
  <2> QED BY <1>4, <1>a, <2>2, <2>3, <2>4, <2>5, <2>6, <2>7
<1> QED BY <1>3, <1>4 DEF serverHandles

\* The reply of a rename, a delete or a rotation.
LEMMA SettleStep ==
  ASSUME PanelIInv, NEW r \in requests, actionSettles(r)
  PROVE  PanelIInv'
<1>0. PanelTypeOK /\ r \in PanelRequest /\ r.s \in Sources /\ r.key \in Nat /\ r.kind # "create"
  BY DEF PanelIInv, PanelTypeOK, PanelRequest, actionSettles
<1>1. /\ UNCHANGED <<srvKey, listed, clipboard, dialog, create, stolen>>
      /\ requests' = requests \ {r} /\ busyId' = NoSource /\ r.stage = "answered"
  BY DEF actionSettles, Released
<1>2. CreatesAreNew' /\ RotationsAreServed' /\ CopiedIsNoOlder'
  BY <1>1, PanelFrame DEF PanelIInv, CreatesAreNew, RotationsAreServed
<1>3. ~ stolen => \A q \in requests' : q.kind = "create"
  BY <1>0, <1>1 DEF PanelIInv, OneAtATime
<1>4. OneAtATime'
  BY <1>1, <1>3 DEF OneAtATime
<1>5. \A x \in Sources : Unmade(x)' => Unmade(x)
  BY <1>1 DEF Unmade
<1>6. CASE r.ok /\ r.kind = "rotate"
  <2>1. /\ row' = [row EXCEPT ![r.s] = IdleRow] /\ fetches' = Marked({r.s}, "orphan")
        /\ rotated' = [s |-> r.s, key |-> r.key]
        /\ acked' = [acked EXCEPT ![r.s] = IF r.key > @ THEN r.key ELSE @]
    BY <1>6 DEF actionSettles, Remount
  <2>2. /\ fetches' \subseteq KeyFetch
        /\ \A g \in fetches' : \E f \in fetches : Retagged(f, g) /\ (g.ticket = "live" => g.s # r.s)
    BY <1>0, <2>1, MarkedFacts DEF PanelTypeOK
  <2>3. row' \in [Sources -> PanelRow] /\ row'[r.s].full = 0 /\ \A x \in Sources : x # r.s => row'[x] = row[x]
    BY <1>0, <2>1 DEF PanelTypeOK, PanelRow, IdleRow
  <2>4. /\ acked' \in [Sources -> Nat] /\ \A x \in Sources : x # r.s => acked'[x] = acked[x]
        /\ acked'[r.s] = IF r.key > acked[r.s] THEN r.key ELSE acked[r.s]
    BY <1>0, <2>1 DEF PanelTypeOK
  <2>n. acked[r.s] \in Nat /\ srvKey[r.s] \in Nat
    BY <1>0 DEF PanelTypeOK
  <2>6. PanelTypeOK'
    BY <1>0, <1>1, <2>1, <2>2, <2>3, <2>4 DEF PanelTypeOK
  <2>7. AnswersAreNew'
    <3>1. \A g \in fetches' : g.ticket = "live" => acked'[g.s] = acked[g.s] /\ listed'[g.s] = listed[g.s]
      BY <1>1, <2>2, <2>4 DEF KeyFetch
    <3>2. \A g \in fetches' : \E f \in fetches : Retagged(f, g)
      BY <2>2
    <3> QED BY <1>1, <3>1, <3>2, RetaggedAnswers
  <2>8. ServerIsAhead'
    <3>1. srvKey[r.s] # 0 => r.key <= srvKey[r.s] /\ acked[r.s] <= srvKey[r.s]
      BY <1>0, <1>1, <1>6, <2>n DEF PanelIInv, RotationsAreServed, ServerIsAhead
    <3>2. srvKey[r.s] # 0 => acked'[r.s] <= srvKey[r.s]
      BY <2>4, <3>1
    <3> QED BY <1>1, <2>4, <2>n, <3>2 DEF PanelIInv, ServerIsAhead
  <2>9. RevealedIsNoOlder'
    BY <1>1, <2>3, <2>4 DEF PanelIInv, KeysCurrent, RevealedIsNoOlder
  <2>10. RotatedIsNewest'
    <3>1. ~ stolen => r.key >= acked[r.s]
      BY <1>0, <1>1, <1>6 DEF PanelIInv, OneAtATime
    <3>2. ~ stolen => acked'[r.s] = r.key
      BY <1>0, <2>4, <2>n, <3>1
    <3>3. rotated'.s = r.s /\ rotated'.key = r.key
      BY <2>1
    <3> QED BY <1>1, <3>2, <3>3 DEF RotatedIsNewest
  <2>11. UnmadeLeavesNoTrace'
    <3> SUFFICES ASSUME NEW x \in Sources, Unmade(x)' PROVE NoTrace(x)'
      BY DEF UnmadeLeavesNoTrace
    <3>1. NoTrace(x)
      BY <1>5 DEF PanelIInv, UnmadeLeavesNoTrace
    <3>2. x # r.s
      <4>1. Request("create", x).kind = "create"
        BY DEF Request
      <4> QED BY <1>0, <3>1, <4>1 DEF NoTrace
    <3>3. \A g \in fetches' : g.s # x
      BY <2>2, <3>1 DEF NoTrace, Retagged
    <3> QED BY <1>1, <2>3, <2>4, <3>1, <3>2, <3>3 DEF NoTrace
  <2> QED BY <1>2, <1>4, <2>6, <2>7, <2>8, <2>9, <2>10, <2>11 DEF PanelIInv, KeysCurrent
<1>7. CASE ~ (r.ok /\ r.kind = "rotate")
  <2>1. UNCHANGED <<row, fetches, rotated, acked>>
    BY <1>7 DEF actionSettles
  <2>2. PanelTypeOK'
    BY <1>0, <1>1, <2>1 DEF PanelTypeOK
  <2>3. UnmadeLeavesNoTrace'
    BY <1>1, <1>5, <2>1 DEF PanelIInv, UnmadeLeavesNoTrace, NoTrace
  <2> QED BY <1>1, <1>2, <1>4, <2>1, <2>2, <2>3, PanelFrame DEF PanelIInv, KeysCurrent
<1> QED BY <1>6, <1>7

\* Copy in a dialog that shows a key once.
LEMMA CopyShownStep ==
  ASSUME PanelIInv, copyRotated \/ copyCreated
  PROVE  PanelIInv'
<1>0. PanelTypeOK
  BY DEF PanelIInv
<1>1. UNCHANGED <<srvKey, listed, row, fetches, dialog, requests, busyId, rotated, acked, create, stolen>>
  BY DEF copyRotated, copyCreated
<1>2. CASE copyRotated
  <2>1. rotated.s \in Sources /\ rotated.key \in Nat /\ acked[rotated.s] \in Nat
    BY <1>0, <1>2 DEF copyRotated, PanelTypeOK
  <2>2. PICK k \in {0, acked[rotated.s]} :
          /\ clipboard' = [s |-> rotated.s, key |-> rotated.key, known |-> k, via |-> "dialog"]
          /\ stolen => k = 0
    BY <1>2 DEF copyRotated, writeText
  <2>3. rotated.key >= k
    BY <1>2, <2>1, <2>2 DEF copyRotated, PanelIInv, KeysCurrent, RotatedIsNewest
  <2>4. clipboard' \in Copied /\ CopiedIsNoOlder'
    BY <2>1, <2>2, <2>3 DEF Copied, CopiedIsNoOlder
  <2>5. PanelTypeOK'
    BY <1>0, <1>1, <2>4 DEF PanelTypeOK
  <2> QED BY <1>1, <2>4, <2>5, PanelFrame DEF PanelIInv, KeysCurrent
<1>3. CASE copyCreated
  <2>1. clipboard' = [s |-> create.created, key |-> 1, known |-> 0, via |-> "dialog"]
    BY <1>3 DEF copyCreated, writeText
  <2>2. clipboard' \in Copied /\ CopiedIsNoOlder'
    BY <1>0, <2>1 DEF PanelTypeOK, Copied, CopiedIsNoOlder
  <2>3. PanelTypeOK'
    BY <1>0, <1>1, <2>2 DEF PanelTypeOK
  <2> QED BY <1>1, <2>2, <2>3, PanelFrame DEF PanelIInv, KeysCurrent
<1> QED BY <1>2, <1>3

\* The key is no longer shown, or somebody else rotates.
LEMMA ElsewhereStep ==
  ASSUME PanelIInv, closeRotated \/ \E s \in Sources : rotatedElsewhere(s)
  PROVE  PanelIInv'
<1>0. PanelTypeOK
  BY DEF PanelIInv
<1>1. UNCHANGED <<listed, row, fetches, clipboard, dialog, requests, busyId, acked, create, stolen>>
  BY DEF closeRotated, rotatedElsewhere
<1>2. CreatesAreNew' /\ OneAtATime' /\ RevealedIsNoOlder' /\ CopiedIsNoOlder'
  BY <1>1, PanelFrame
<1>3. CASE closeRotated
  <2>1. UNCHANGED srvKey /\ rotated' = NoKeyShown
    BY <1>3 DEF closeRotated
  <2>2. PanelTypeOK' /\ RotatedIsNewest'
    BY <1>0, <1>1, <2>1 DEF PanelTypeOK, RotatedIsNewest
  <2> QED BY <1>1, <1>2, <2>1, <2>2, PanelFrame DEF PanelIInv, KeysCurrent
<1>4. ASSUME NEW s \in Sources, rotatedElsewhere(s) PROVE PanelIInv'
  <2>1. /\ UNCHANGED rotated /\ srvKey[s] # 0 /\ srvKey' = [srvKey EXCEPT ![s] = srvKey[s] + 1]
    BY <1>4 DEF rotatedElsewhere
  <2>2. /\ srvKey' \in [Sources -> Nat] /\ srvKey'[s] = srvKey[s] + 1 /\ srvKey[s] \in Nat
        /\ \A x \in Sources : x # s => srvKey'[x] = srvKey[x]
    BY <1>0, <2>1 DEF PanelTypeOK
  <2>3. PanelTypeOK'
    BY <1>0, <1>1, <2>1, <2>2 DEF PanelTypeOK
  <2>4. ServerIsAhead'
    <3>1. acked[s] \in Nat /\ listed[s] \in Nat /\ srvKey[s] >= acked[s] /\ srvKey[s] >= listed[s]
      BY <1>0, <2>1 DEF PanelIInv, ServerIsAhead, PanelTypeOK
    <3> QED BY <1>1, <2>2, <3>1 DEF PanelIInv, ServerIsAhead
  <2>5. RotationsAreServed'
    <3> SUFFICES ASSUME NEW r \in requests, r.stage = "answered", r.ok, r.kind = "rotate" , srvKey'[r.s] # 0
                 PROVE  r.key <= srvKey'[r.s]
      BY <1>1 DEF RotationsAreServed
    <3>1. r.s \in Sources /\ r.key \in Nat
      BY <1>0 DEF PanelTypeOK, PanelRequest
    <3>2. srvKey[r.s] # 0
      BY <2>1, <2>2, <3>1
    <3>3. r.key <= srvKey[r.s]
      BY <3>2 DEF PanelIInv, RotationsAreServed
    <3> QED BY <2>2, <3>1, <3>3
  <2>6. UnmadeLeavesNoTrace'
    BY <1>1, <2>1, <2>2 DEF PanelIInv, UnmadeLeavesNoTrace, Unmade, NoTrace
  <2>7. AnswersAreNew'
    <3>1. \A f \in fetches : f.s \in Sources /\ f.since \in Nat
      BY <1>0 DEF PanelTypeOK, KeyFetch
    <3>2. \A f \in fetches : srvKey'[f.s] # 0 => f.since <= srvKey'[f.s]
      BY <2>1, <2>2, <3>1 DEF PanelIInv, AnswersAreNew
    <3> QED BY <1>1, <3>2 DEF PanelIInv, AnswersAreNew
  <2> QED BY <1>1, <1>2, <2>1, <2>3, <2>4, <2>5, <2>6, <2>7, PanelFrame DEF PanelIInv, KeysCurrent
<1> QED BY <1>3, <1>4

\* The refreshed list is delivered.
LEMMA RefreshedStep ==
  ASSUME PanelIInv, listRefreshed
  PROVE  PanelIInv'
<1> DEFINE changed == {s \in Sources : listed[s] # srvKey[s]}
           kept == {s \in changed : listed[s] # 0 /\ srvKey[s] # 0}
<1>0. PanelTypeOK
  BY DEF PanelIInv
<1>1. /\ UNCHANGED <<srvKey, clipboard, dialog, requests, busyId, rotated, acked, create, stolen>>
      /\ listed' = srvKey /\ row' = [s \in Sources |-> IF s \in changed THEN IdleRow ELSE row[s]]
      /\ fetches' = {IF f.ticket = "live" /\ f.s \in changed
                     THEN [f EXCEPT !.ticket = IF f.s \in kept THEN "stale" ELSE "orphan"] ELSE f : f \in fetches}
  BY DEF listRefreshed
<1>2. CreatesAreNew' /\ RotationsAreServed' /\ OneAtATime' /\ CopiedIsNoOlder' /\ RotatedIsNewest'
  BY <1>1, PanelFrame
<1>3. ASSUME NEW g \in fetches'
      PROVE  g \in KeyFetch /\ \E f \in fetches : Retagged(f, g) /\ (g.ticket = "live" => g.s \notin changed)
  <2>1. PICK f \in fetches : g = IF f.ticket = "live" /\ f.s \in changed
                                 THEN [f EXCEPT !.ticket = IF f.s \in kept THEN "stale" ELSE "orphan"] ELSE f
    BY <1>1
  <2>2. PICK mark \in {"stale", "orphan"} : g = IF f.ticket = "live" /\ f.s \in changed
                                                THEN [f EXCEPT !.ticket = mark] ELSE f
    BY <2>1
  <2> HIDE DEF changed, kept
  <2>3. f \in KeyFetch
    BY <1>0 DEF PanelTypeOK
  <2>4. g \in KeyFetch /\ Retagged(f, g) /\ (g.ticket = "live" => g.s \notin changed)
    BY <2>2, <2>3 DEF KeyFetch, Retagged
  <2> QED BY <2>4
<1>4. /\ row' \in [Sources -> PanelRow]
      /\ \A s \in changed : row'[s].full = 0
      /\ \A s \in Sources \ changed : row'[s] = row[s] /\ listed'[s] = listed[s]
  BY <1>0, <1>1 DEF PanelTypeOK, PanelRow, IdleRow
<1>c. changed \subseteq Sources
  OBVIOUS
<1> HIDE DEF changed, kept
<1>5. PanelTypeOK'
  BY <1>0, <1>1, <1>3, <1>4 DEF PanelTypeOK
<1>6. AnswersAreNew'
  <2>1. \A g \in fetches' : g.ticket = "live" => acked'[g.s] = acked[g.s] /\ listed'[g.s] = listed[g.s]
    BY <1>1, <1>3, <1>4 DEF KeyFetch
  <2>2. \A g \in fetches' : \E f \in fetches : Retagged(f, g)
    BY <1>3
  <2> QED BY <1>1, <2>1, <2>2, RetaggedAnswers
<1>7. ServerIsAhead'
  BY <1>0, <1>1 DEF PanelIInv, ServerIsAhead, PanelTypeOK
<1>8. RevealedIsNoOlder'
  BY <1>1, <1>4, <1>c DEF PanelIInv, KeysCurrent, RevealedIsNoOlder
<1>9. UnmadeLeavesNoTrace'
  <2> SUFFICES ASSUME NEW x \in Sources, Unmade(x)' PROVE NoTrace(x)'
    BY DEF UnmadeLeavesNoTrace
  <2>1. NoTrace(x)
    BY <1>1 DEF PanelIInv, UnmadeLeavesNoTrace, Unmade
  <2>2. \A g \in fetches' : g.s # x
    BY <1>3, <2>1 DEF NoTrace, Retagged
  <2>3. row'[x].full = 0 /\ listed'[x] = 0
    BY <1>1, <1>4, <2>1 DEF NoTrace
  <2> QED BY <1>1, <2>1, <2>2, <2>3 DEF NoTrace
<1> QED BY <1>2, <1>5, <1>6, <1>7, <1>8, <1>9 DEF PanelIInv, KeysCurrent

\* The create dialog.
LEMMA CreateStep ==
  ASSUME PanelIInv,
         \/ openDialog \/ closeCreate
         \/ \E s \in Sources : submit(s)
         \/ \E r \in requests : createSettles(r)
  PROVE  PanelIInv'
<1>0. PanelTypeOK
  BY DEF PanelIInv
<1>1. UNCHANGED <<srvKey, listed, row, fetches, clipboard, dialog, busyId, rotated, acked, stolen>>
  BY DEF openDialog, closeCreate, submit, createSettles
<1>2. ServerIsAhead' /\ AnswersAreNew' /\ RevealedIsNoOlder' /\ CopiedIsNoOlder' /\ RotatedIsNewest'
  BY <1>1, PanelFrame
<1> DEFINE Dialog == [open : BOOLEAN, pending : BOOLEAN, created : Sources \cup {NoSource}, used : SUBSET Sources]
<1>d. create \in Dialog
  BY <1>0 DEF PanelTypeOK
<1>3. ASSUME create' \in Dialog, create'.used = create.used, requests' \subseteq requests,
             \A q \in requests \ requests' : q.kind = "create" /\ q.stage = "answered"
      PROVE  PanelIInv'
  <2>1. PanelTypeOK'
    BY <1>0, <1>1, <1>3 DEF PanelTypeOK
  <2>2. CreatesAreNew' /\ RotationsAreServed' /\ OneAtATime'
    BY <1>1, <1>3 DEF PanelIInv, CreatesAreNew, RotationsAreServed, OneAtATime
  <2>3. UnmadeLeavesNoTrace'
    BY <1>1, <1>3 DEF PanelIInv, UnmadeLeavesNoTrace, Unmade, NoTrace
  <2> QED BY <1>2, <2>1, <2>2, <2>3 DEF PanelIInv, KeysCurrent
<1>4. CASE openDialog \/ closeCreate
  <2>1. requests' = requests
    BY <1>4 DEF openDialog, closeCreate
  <2>2. \E z \in BOOLEAN, c \in {create.created, NoSource} : create' = [create EXCEPT !.open = z, !.created = c]
    <3>1. CASE openDialog
      BY <3>1 DEF openDialog
    <3>2. CASE closeCreate /\ create.created = NoSource
      <4>1. create' = [create EXCEPT !.open = FALSE]
        BY <3>2 DEF closeCreate
      <4>2. [create EXCEPT !.open = FALSE] = [create EXCEPT !.open = FALSE, !.created = create.created]
        BY <1>d
      <4> QED BY <4>1, <4>2
    <3>3. CASE closeCreate /\ create.created # NoSource
      BY <3>3 DEF closeCreate
    <3> QED BY <1>4, <3>1, <3>2, <3>3
  <2>3. PICK z \in BOOLEAN, c \in {create.created, NoSource} : create' = [create EXCEPT !.open = z, !.created = c]
    BY <2>2
  <2>4. create' \in Dialog /\ create'.used = create.used
    BY <1>d, <2>3
  <2> QED BY <1>3, <2>1, <2>4
<1>5. ASSUME NEW r \in requests, createSettles(r) PROVE PanelIInv'
  <2>1. requests' = requests \ {r} /\ r.kind = "create" /\ r.stage = "answered"
    BY <1>5 DEF createSettles
  <2>2. PICK c \in {r.s, create.created} : create' = [create EXCEPT !.pending = FALSE, !.created = c]
    BY <1>5 DEF createSettles
  <2>3. r.s \in Sources
    BY <1>0 DEF PanelTypeOK, PanelRequest
  <2>4. create' \in Dialog /\ create'.used = create.used
    BY <1>d, <2>2, <2>3
  <2> QED BY <1>3, <2>1, <2>4
<1>6. ASSUME NEW s \in Sources, submit(s) PROVE PanelIInv'
  <2> DEFINE new == Request("create", s)
  <2>1. requests' = requests \cup {new} /\ s \notin create.used
    BY <1>6 DEF submit
  <2>2. create' = [create EXCEPT !.pending = TRUE, !.used = create.used \cup {s}]
    BY <1>6 DEF submit
  <2>3. create' \in Dialog /\ create'.used = create.used \cup {s}
    BY <1>d, <2>2
  <2>4. new \in PanelRequest /\ new.kind = "create" /\ new.s = s /\ new.stage = "sent" /\ new = Request("create", s)
    BY DEF Request, PanelRequest
  <2> HIDE DEF new
  <2>5. PanelTypeOK'
    BY <1>0, <1>1, <2>1, <2>3, <2>4 DEF PanelTypeOK
  <2>6. CreatesAreNew' /\ RotationsAreServed' /\ OneAtATime'
    BY <1>1, <2>1, <2>4 DEF PanelIInv, CreatesAreNew, RotationsAreServed, OneAtATime
  <2>7. UnmadeLeavesNoTrace'
    <3> SUFFICES ASSUME NEW x \in Sources, Unmade(x)' PROVE NoTrace(x)'
      BY DEF UnmadeLeavesNoTrace
    <3>1. CASE x = s
      <4>1. NoTrace(s)
        BY <2>1 DEF PanelIInv, UnmadeLeavesNoTrace, Unmade
      <4>2. \A q \in requests : q.s # s
        BY <2>1, <4>1 DEF NoTrace
      <4> QED BY <1>1, <2>1, <2>3, <2>4, <3>1, <4>1, <4>2 DEF NoTrace
    <3>2. CASE x # s
      <4>1. Request("create", x) # new
        BY <2>4, <3>2 DEF Request
      <4>2. Unmade(x)
        BY <2>1, <2>3, <3>2, <4>1 DEF Unmade
      <4>3. NoTrace(x)
        BY <4>2 DEF PanelIInv, UnmadeLeavesNoTrace
      <4> QED BY <1>1, <2>1, <2>3, <2>4, <3>2, <4>3 DEF NoTrace
    <3> QED BY <3>1, <3>2
  <2> QED BY <1>2, <2>5, <2>6, <2>7 DEF PanelIInv, KeysCurrent
<1> QED BY <1>4, <1>5, <1>6

\* The first page has the keys the server has, and nothing under way.
LEMMA PanelInitIInv == PanelInit => PanelIInv
<1> SUFFICES ASSUME PanelInit PROVE PanelIInv
  OBVIOUS
<1>1. /\ srvKey \in [Sources -> Nat] /\ listed = srvKey /\ acked = [s \in Sources |-> 0] /\ fetches = {} /\ requests = {}
      /\ row = [s \in Sources |-> IdleRow] /\ dialog = NoDialog /\ rotated = NoKeyShown
      /\ clipboard = [s |-> NoSource, key |-> 0, known |-> 0, via |-> "none"]
      /\ create = [open |-> FALSE, pending |-> FALSE, created |-> NoSource, used |-> FirstSources]
      /\ \A s \in Sources : s \notin FirstSources => srvKey[s] = 0
  BY DEF PanelInit, NothingCopied
<1>2. IdleRow \in PanelRow /\ IdleRow.full = 0 /\ NoDialog.s = NoSource
  BY DEF IdleRow, PanelRow, NoDialog
<1>3. PanelTypeOK
  <2>1. /\ acked \in [Sources -> Nat] /\ row \in [Sources -> PanelRow] /\ busyId = NoSource /\ stolen = FALSE
        /\ clipboard \in Copied
    BY <1>1, <1>2 DEF PanelInit, Copied
  <2>2. create \in [open : BOOLEAN, pending : BOOLEAN, created : Sources \cup {NoSource}, used : SUBSET Sources]
    BY <1>1, PanelAssumption
  <2> QED BY <1>1, <2>1, <2>2 DEF PanelTypeOK
<1>4. UnmadeLeavesNoTrace
  BY <1>1, <1>2, PanelAssumption DEF UnmadeLeavesNoTrace, Unmade, NoTrace
<1>5. ServerIsAhead /\ CreatesAreNew /\ RotationsAreServed /\ AnswersAreNew /\ OneAtATime
  BY <1>1 DEF ServerIsAhead, CreatesAreNew, RotationsAreServed, AnswersAreNew, OneAtATime
<1>6. KeysCurrent
  BY <1>1, <1>2 DEF KeysCurrent, RevealedIsNoOlder, CopiedIsNoOlder, RotatedIsNewest
<1> QED BY <1>3, <1>4, <1>5, <1>6 DEF PanelIInv

\* Every step of the panel keeps the invariant.
LEMMA SourcesStep == PanelIInv /\ [PanelNext]_panelVars => PanelIInv'
<1> SUFFICES ASSUME PanelIInv, [PanelNext]_panelVars PROVE PanelIInv'
  OBVIOUS
<1>1. CASE UNCHANGED panelVars
  BY <1>1 DEF panelVars, PanelIInv, PanelTypeOK, UnmadeLeavesNoTrace, Unmade, NoTrace, CreatesAreNew, ServerIsAhead,
     RotationsAreServed, AnswersAreNew, OneAtATime, KeysCurrent, RevealedIsNoOlder, CopiedIsNoOlder, RotatedIsNewest
<1>2. CASE FetchAnswers
  BY <1>2, AnswerStep DEF FetchAnswers
<1>3. CASE RequestAnswers
  BY <1>3, SettleStep, CreateStep, HandleStep DEF RequestAnswers
<1> QED BY <1>1, <1>2, <1>3, FetchStep, CopyShownStep, ElsewhereStep, CreateStep, DialogStep, RefreshedStep DEF PanelNext, RowKinds

(***************************************************************************)
(* No key the source panel shows, or copies for a row that is still there, *)
(* is one it knows to be dead at that moment, for any number of sources,   *)
(* keys, fetches and requests under way.                                   *)
(***************************************************************************)
THEOREM KeysTheorem == PanelSpec => []KeysCurrent
<1>1. PanelIInv => KeysCurrent
  BY DEF PanelIInv
<1> QED BY <1>1, PanelInitIInv, SourcesStep, PTL DEF PanelSpec

-----------------------------------------------------------------------------
(***************************************************************************)
(* The editable lists: replies, refreshes and forms.                       *)
(***************************************************************************)
\* What a step leaves alone keeps the conjuncts that speak of nothing else.
LEMMA ListsFrame ==
  ASSUME ListsIInv, UNCHANGED panel
  PROVE  /\ UNCHANGED <<refresh, form, sends>> => UsersOnlyPatch'
         /\ UNCHANGED sends => OkUntilAnswered'
         /\ UNCHANGED refresh => WaitingRefresh'
         /\ UNCHANGED <<lostReply, sends, refresh, items, srvRows>> => RowsOnTheirWay'
         /\ UNCHANGED <<stolenRow, lostReply, sends, items, srvRows>> => UsersInStep'
         /\ UNCHANGED <<form, sends>> => FormInStep'
BY DEF ListsIInv, UsersOnlyPatch, OkUntilAnswered, WaitingRefresh, RowsOnTheirWay, UsersInStep, FormInStep,
  Succeeded, Refreshes, Shown

\* One more request is under way.
LEMMA SentRequest ==
  ASSUME ListsIInv, NEW q \in SendRecord, q.stage = "sent", q.ok, sends' = sends \cup {q},
         panel = "users" => q.kind = "patch" /\ q.row # NoRow,
         UNCHANGED <<panel, srvRows, items, lostReply, refresh>>
  PROVE  /\ panel = "users" => \A z \in sends' : z.kind = "patch" /\ z.row # NoRow
         /\ OkUntilAnswered' /\ WaitingRefresh' /\ RowsOnTheirWay'
         /\ (panel = "users" /\ ~ stolenRow' => ~ stolenRow /\ sends = {}) => UsersInStep'
<1>1. ~ Succeeded(q)
  BY DEF Succeeded
<1>2. panel = "users" => \A z \in sends' : z.kind = "patch" /\ z.row # NoRow
  BY DEF ListsIInv, UsersOnlyPatch
<1>3. WaitingRefresh' /\ OkUntilAnswered'
  BY ListsFrame DEF ListsIInv, OkUntilAnswered
<1>4. RowsOnTheirWay'
  BY DEF ListsIInv, RowsOnTheirWay, Refreshes, Succeeded
<1>5. ASSUME panel = "users" /\ ~ stolenRow' => ~ stolenRow /\ sends = {} PROVE UsersInStep'
  <2> SUFFICES ASSUME panel = "users", ~ stolenRow' PROVE UsersInStep'
    BY DEF UsersInStep
  <2>1. ~ stolenRow /\ sends = {} /\ sends' = {q}
    BY <1>5
  <2>2. ~ lostReply => items = srvRows
    BY <2>1 DEF ListsIInv, UsersInStep
  <2> QED BY <1>1, <2>1, <2>2 DEF UsersInStep, Succeeded
<1> QED BY <1>2, <1>3, <1>4, <1>5

\* An action on a row.
LEMMA RowSend ==
  ASSUME ListsIInv, NEW kind \in {"patch", "test", "delete"}, NEW r \in RowIds, NEW flag \in {"there", "on", "member"},
         NEW on \in BOOLEAN, Send(kind, r, flag, on), panel = "users" => kind = "patch",
         asked' \in RowIds \cup {NoRow}
  PROVE  ListsIInv'
<1>0. ListsTypeOK /\ NoRow \notin RowIds
  BY ListAssumption DEF ListsIInv
<1> DEFINE new == [kind |-> kind, row |-> r, flag |-> flag, on |-> on, opening |-> 0, no |-> sendNo,
                   stage |-> "sent", ok |-> TRUE]
<1>1. /\ sendNo' = sendNo + 1 /\ sends' = sends \cup {new} /\ busyRow' = r
      /\ stolenRow' = (stolenRow \/ \E q \in sends : q.opening = 0 \/ panel = "users")
      /\ UNCHANGED <<panel, srvRows, items, lostReply, form, refresh>>
  BY DEF Send
<1>2. new \in SendRecord
  BY <1>0 DEF SendRecord, ListsTypeOK
<1>3. new.stage = "sent" /\ new.kind = kind /\ new.row = r /\ new.opening = 0 /\ new.ok
  OBVIOUS
<1> HIDE DEF new
<1>4. stolenRow' \in BOOLEAN
  BY <1>1
<1>5. ListsTypeOK'
  BY <1>0, <1>1, <1>2, <1>4 DEF ListsTypeOK
<1>6. panel = "users" /\ ~ stolenRow' => ~ stolenRow /\ sends = {}
  BY <1>1
<1>7. /\ panel = "users" => \A z \in sends' : z.kind = "patch" /\ z.row # NoRow
      /\ OkUntilAnswered' /\ WaitingRefresh' /\ RowsOnTheirWay' /\ UsersInStep'
  BY <1>0, <1>1, <1>2, <1>3, <1>6, SentRequest
<1>8. UsersOnlyPatch'
  BY <1>1, <1>7 DEF ListsIInv, UsersOnlyPatch
<1>9. FormInStep'
  BY <1>1, <1>3 DEF ListsIInv, FormInStep
<1> QED BY <1>5, <1>7, <1>8, <1>9 DEF ListsIInv

\* The buttons of the rows, and the dialogs they open.
LEMMA RowStep ==
  ASSUME ListsIInv,
         \/ \E r \in RowIds : \/ toggleSubscription(r) \/ sendTest(r) \/ toggleRule(r) \/ approve(r)
                              \/ askRemove(r) \/ setDeleting(r) \/ requestRemove(r)
         \/ removeSubscription \/ confirmDelete \/ removeFromTeam \/ dismiss
  PROVE  ListsIInv'
<1>0. ListsTypeOK /\ asked \in RowIds \cup {NoRow}
  BY DEF ListsIInv, ListsTypeOK
<1>1. ASSUME NEW r \in RowIds, toggleSubscription(r) \/ sendTest(r) \/ toggleRule(r) \/ approve(r) PROVE ListsIInv'
  <2>1. asked' \in RowIds \cup {NoRow}
    BY <1>0, <1>1 DEF toggleSubscription, sendTest, toggleRule, approve, RowAction
  <2>2. ASSUME toggleSubscription(r) \/ toggleRule(r) PROVE ListsIInv'
    <3>1. PICK on \in BOOLEAN : on = ("on" \notin items[r])
      OBVIOUS
    <3>2. Send("patch", r, "on", on)
      BY <2>2, <3>1 DEF toggleSubscription, toggleRule
    <3> QED BY <2>1, <3>2, RowSend
  <2>3. ASSUME sendTest(r) PROVE ListsIInv'
    <3>1. Send("test", r, "on", FALSE) /\ panel # "users"
      BY <2>3 DEF sendTest, RowAction
    <3> QED BY <2>1, <3>1, RowSend
  <2>4. ASSUME approve(r) PROVE ListsIInv'
    <3>1. Send("patch", r, "on", TRUE)
      BY <2>4 DEF approve
    <3> QED BY <2>1, <3>1, RowSend
  <2> QED BY <1>1, <2>2, <2>3, <2>4
<1>2. CASE removeSubscription \/ confirmDelete
  <2>1. asked \in RowIds /\ asked' = NoRow /\ panel # "users" /\ Send("delete", asked, "there", FALSE)
    BY <1>0, <1>2 DEF removeSubscription, confirmDelete
  <2> QED BY <2>1, RowSend
<1>3. CASE removeFromTeam
  <2>1. asked \in RowIds /\ asked' = NoRow /\ Send("patch", asked, "member", FALSE)
    BY <1>0, <1>3 DEF removeFromTeam
  <2> QED BY <2>1, RowSend
<1>4. ASSUME asked' \in RowIds \cup {NoRow},
             UNCHANGED <<panel, srvRows, items, sends, sendNo, busyRow, stolenRow, lostReply, form, refresh>>
      PROVE  ListsIInv'
  <2>1. ListsTypeOK'
    BY <1>0, <1>4 DEF ListsTypeOK
  <2> QED BY <1>4, <2>1, ListsFrame DEF ListsIInv
<1>5. CASE dismiss
  BY <1>4, <1>5 DEF dismiss
<1>6. ASSUME NEW r \in RowIds, askRemove(r) \/ setDeleting(r) \/ requestRemove(r) PROVE ListsIInv'
  BY <1>4, <1>6 DEF askRemove, setDeleting, requestRemove, askFirst
<1> QED BY <1>1, <1>2, <1>3, <1>5, <1>6

\* Forms open, close and submit.
LEMMA FormStep ==
  ASSUME ListsIInv,
         \/ \E r \in RowIds : openEdit(r) \/ openModal(r)
         \/ openForm \/ openCreate \/ closeForm
         \/ \E on \in BOOLEAN : submitForm(on)
  PROVE  ListsIInv'
<1>0. ListsTypeOK /\ form \in FormRecord /\ sendNo \in Nat /\ NoRow \notin RowIds
  BY ListAssumption DEF ListsIInv, ListsTypeOK
<1>1. ASSUME NEW r \in RowIds \cup {NoRow}, openFormFor(r), panel = "users" => r # NoRow PROVE ListsIInv'
  <2>1. UNCHANGED <<panel, srvRows, items, sends, sendNo, busyRow, stolenRow, lostReply, asked, refresh>>
    BY <1>1 DEF openFormFor
  <2>2. PICK left \in BOOLEAN : left = (\E q \in sends : q.opening # 0)
    OBVIOUS
  <2>3. form' = [open |-> TRUE, row |-> r, opening |-> sendNo + 1, pending |-> FALSE, leftover |-> left]
    BY <1>1, <2>2 DEF openFormFor
  <2>4. form' \in FormRecord
    BY <1>0, <2>3 DEF FormRecord
  <2>5. form'.row = r /\ form'.opening = sendNo + 1 /\ form'.leftover = left
    BY <2>3
  <2>6. ListsTypeOK'
    BY <1>0, <2>1, <2>4 DEF ListsTypeOK
  <2>7. UsersOnlyPatch'
    BY <1>1, <2>1, <2>5 DEF ListsIInv, UsersOnlyPatch
  <2>8. FormInStep'
    <3>1. form'.opening # 0
      BY <1>0, <2>5
    <3> QED BY <2>1, <2>2, <2>5, <3>1 DEF FormInStep
  <2> QED BY <2>1, <2>6, <2>7, <2>8, ListsFrame DEF ListsIInv
<1>2. CASE openForm \/ openCreate
  BY <1>1, <1>2 DEF openForm, openCreate
<1>3. ASSUME NEW r \in RowIds, openEdit(r) \/ openModal(r) PROVE ListsIInv'
  BY <1>0, <1>1, <1>3 DEF openEdit, openModal
<1>4. CASE closeForm
  <2>1. /\ UNCHANGED <<panel, srvRows, items, sends, sendNo, busyRow, stolenRow, lostReply, asked, refresh>>
        /\ form' = [form EXCEPT !.open = FALSE]
    BY <1>4 DEF closeForm
  <2>2. form' \in FormRecord
    BY <1>0, <2>1 DEF FormRecord
  <2>3. form'.open = FALSE
    BY <1>0, <2>1 DEF FormRecord
  <2>4. ListsTypeOK'
    BY <1>0, <2>1, <2>2 DEF ListsTypeOK
  <2>5. UsersOnlyPatch' /\ FormInStep'
    BY <2>1, <2>3 DEF ListsIInv, UsersOnlyPatch, FormInStep
  <2> QED BY <2>1, <2>4, <2>5, ListsFrame DEF ListsIInv
<1>5. ASSUME NEW on \in BOOLEAN, submitForm(on) PROVE ListsIInv'
  <2>1. PICK kind \in {"create", "patch"}, flag \in {"on", "member"}, b \in BOOLEAN :
          /\ form.row # NoRow => kind = "patch"
          /\ sends' = sends \cup {[kind |-> kind, row |-> form.row, flag |-> flag, on |-> b, opening |-> form.opening,
                                   no |-> sendNo, stage |-> "sent", ok |-> TRUE]}
    BY <1>5 DEF submitForm
  <2> DEFINE new == [kind |-> kind, row |-> form.row, flag |-> flag, on |-> b, opening |-> form.opening,
                     no |-> sendNo, stage |-> "sent", ok |-> TRUE]
  <2>2. new \in SendRecord
    BY <1>0 DEF SendRecord, FormRecord
  <2>3. new.stage = "sent" /\ new.kind = kind /\ new.row = form.row /\ new.opening = form.opening /\ new.ok
    OBVIOUS
  <2>4. sends' = sends \cup {new}
    BY <2>1
  <2> HIDE DEF new
  <2>5. /\ form.open /\ ~ form.pending /\ sendNo' = sendNo + 1
        /\ form' = [form EXCEPT !.pending = TRUE]
        /\ busyRow' \in {form.row, busyRow}
        /\ stolenRow' = (stolenRow \/ (panel = "users" /\ sends # {}))
        /\ UNCHANGED <<panel, srvRows, items, lostReply, asked, refresh>>
    BY <1>5 DEF submitForm, NotPending
  <2>6. form' \in FormRecord
    BY <1>0, <2>5 DEF FormRecord
  <2>7. /\ form'.open = form.open /\ form'.row = form.row /\ form'.opening = form.opening
        /\ form'.leftover = form.leftover /\ form'.pending
    BY <1>0, <2>5 DEF FormRecord
  <2>8. stolenRow' \in BOOLEAN
    BY <2>5
  <2>9. form.row \in RowIds \cup {NoRow}
    BY <1>0 DEF FormRecord
  <2>10. ListsTypeOK'
    BY <1>0, <2>2, <2>4, <2>5, <2>6, <2>8, <2>9 DEF ListsTypeOK
  <2>11. panel = "users" => new.kind = "patch" /\ new.row # NoRow
    BY <2>1, <2>3, <2>5 DEF ListsIInv, UsersOnlyPatch
  <2>12. panel = "users" /\ ~ stolenRow' => ~ stolenRow /\ sends = {}
    BY <2>5
  <2>13. /\ panel = "users" => \A z \in sends' : z.kind = "patch" /\ z.row # NoRow
         /\ OkUntilAnswered' /\ WaitingRefresh' /\ RowsOnTheirWay' /\ UsersInStep'
    BY <2>2, <2>3, <2>4, <2>5, <2>11, <2>12, SentRequest
  <2>14. UsersOnlyPatch'
    BY <2>5, <2>7, <2>13 DEF ListsIInv, UsersOnlyPatch
  <2>15. FormInStep'
    <3> SUFFICES ASSUME ~ form.leftover PROVE FormInStep'
      BY <2>7 DEF FormInStep
    <3>1. form.opening # 0 /\ \A q \in sends : q.opening = 0
      BY <2>5 DEF ListsIInv, FormInStep
    <3> QED BY <2>4, <2>7, <3>1 DEF FormInStep
  <2> QED BY <2>10, <2>13, <2>14, <2>15 DEF ListsIInv
<1> QED BY <1>2, <1>3, <1>4, <1>5

\* A request under way becomes its answer, of the same kind and opening.
LEMMA AnsweredRequest ==
  ASSUME ListsIInv, NEW q \in sends, NEW g \in SendRecord, g.kind = q.kind, g.opening = q.opening,
         g.row # NoRow \/ g.row = q.row, g.stage = "answered", sends' = (sends \ {q}) \cup {g},
         UNCHANGED <<panel, form, refresh, stolenRow>>
  PROVE  /\ UsersOnlyPatch' /\ OkUntilAnswered' /\ WaitingRefresh' /\ FormInStep'
         /\ panel = "users" /\ ~ stolenRow => sends = {q} /\ sends' = {g}
<1>1. UsersOnlyPatch' /\ OkUntilAnswered' /\ WaitingRefresh'
  BY DEF ListsIInv, UsersOnlyPatch, OkUntilAnswered, WaitingRefresh
<1>2. FormInStep'
  BY DEF ListsIInv, FormInStep
<1>3. panel = "users" /\ ~ stolenRow => sends = {q} /\ sends' = {g}
  BY DEF ListsIInv, UsersInStep
<1> QED BY <1>1, <1>2, <1>3

\* A patched row has the flags a row may have.
LEMMA PatchedRow ==
  ASSUME NEW flags \in SUBSET {"there", "on", "member"}, NEW q \in SendRecord
  PROVE  Patched(flags, q) \in SUBSET {"there", "on", "member"}
BY DEF Patched, SendRecord

\* The server carries a request out, refuses it, or its answer is lost.
LEMMA ServerStep ==
  ASSUME ListsIInv, NEW q \in sends,
         rejects(q) \/ answerLost(q) \/ \E r \in RowIds : carriesOut(q, r)
  PROVE  ListsIInv'
<1>0. ListsTypeOK /\ q \in SendRecord /\ srvRows \in Rows /\ items \in Rows /\ NoRow \notin RowIds
  BY ListAssumption DEF ListsIInv, ListsTypeOK
<1>1. ASSUME rejects(q) \/ answerLost(q) PROVE ListsIInv'
  <2>1. /\ UNCHANGED <<panel, srvRows, items, sendNo, busyRow, stolenRow, asked, form, refresh>>
        /\ lostReply' \in BOOLEAN /\ (lostReply => lostReply') /\ (Succeeded(q) => lostReply')
    BY <1>0, <1>1 DEF rejects, answerLost, Succeeded, ListsTypeOK
  <2> DEFINE g == [q EXCEPT !.stage = "answered", !.ok = FALSE]
  <2>2. sends' = (sends \ {q}) \cup {g}
    <3>1. CASE rejects(q)
      BY <3>1 DEF rejects
    <3>2. CASE answerLost(q)
      <4>1. q.stage = "answered" /\ sends' = (sends \ {q}) \cup {[q EXCEPT !.ok = FALSE]}
        BY <3>2 DEF answerLost
      <4>2. [q EXCEPT !.ok = FALSE] = [q EXCEPT !.stage = "answered", !.ok = FALSE]
        BY <1>0, <4>1 DEF SendRecord
      <4> QED BY <4>1, <4>2
    <3> QED BY <1>1, <3>1, <3>2
  <2>3. g \in SendRecord
    BY <1>0 DEF SendRecord
  <2>4. g.kind = q.kind /\ g.opening = q.opening /\ g.row = q.row /\ g.stage = "answered" /\ g.ok = FALSE
    BY <1>0 DEF SendRecord
  <2> HIDE DEF g
  <2>5. ListsTypeOK'
    BY <1>0, <2>1, <2>2, <2>3 DEF ListsTypeOK
  <2>6. /\ UsersOnlyPatch' /\ OkUntilAnswered' /\ WaitingRefresh' /\ FormInStep'
        /\ panel = "users" /\ ~ stolenRow => sends = {q} /\ sends' = {g}
    BY <2>1, <2>2, <2>3, <2>4, AnsweredRequest
  <2>7. RowsOnTheirWay'
    BY <2>1, <2>2, <2>4 DEF ListsIInv, RowsOnTheirWay, Refreshes, Succeeded
  <2>8. UsersInStep'
    <3> SUFFICES ASSUME panel = "users", ~ stolenRow PROVE UsersInStep'
      BY <2>1 DEF UsersInStep
    <3>1. sends = {q} /\ sends' = {g} /\ ~ Succeeded(g)
      BY <2>4, <2>6 DEF Succeeded
    <3>2. ~ lostReply' => items = srvRows
      BY <2>1, <3>1 DEF ListsIInv, UsersInStep
    <3> QED BY <2>1, <3>1, <3>2 DEF UsersInStep, Succeeded
  <2> QED BY <2>5, <2>6, <2>7, <2>8 DEF ListsIInv
<1>2. ASSUME NEW r \in RowIds, carriesOut(q, r) PROVE ListsIInv'
  <2> DEFINE g == [q EXCEPT !.stage = "answered", !.row = r]
  <2>1. /\ UNCHANGED <<panel, items, sendNo, busyRow, stolenRow, lostReply, asked, form, refresh>>
        /\ sends' = (sends \ {q}) \cup {g} /\ srvRows' = Applied(q, r) /\ q.stage = "sent"
        /\ q.kind # "create" => r = q.row /\ "there" \in srvRows[r]
    BY <1>2 DEF carriesOut
  <2>2. g \in SendRecord
    BY <1>0 DEF SendRecord
  <2>3. /\ g.kind = q.kind /\ g.opening = q.opening /\ g.row = r /\ g.stage = "answered"
        /\ g.ok = q.ok /\ g.on = q.on /\ g.flag = q.flag
    BY <1>0 DEF SendRecord
  <2> HIDE DEF g
  <2>4. q.ok
    BY <2>1 DEF ListsIInv, OkUntilAnswered
  <2>5. srvRows' \in Rows
    <3>1. Patched(srvRows[r], q) \in SUBSET {"there", "on", "member"}
      BY <1>0, PatchedRow DEF Rows
    <3>2. Patched({"there"}, q) \in SUBSET {"there", "on", "member"}
      BY <1>0, PatchedRow
    <3> QED BY <1>0, <2>1, <3>1, <3>2 DEF Applied, Rows
  <2>6. ListsTypeOK'
    BY <1>0, <2>1, <2>2, <2>5 DEF ListsTypeOK
  <2>7. /\ UsersOnlyPatch' /\ OkUntilAnswered' /\ WaitingRefresh' /\ FormInStep'
        /\ panel = "users" /\ ~ stolenRow => sends = {q} /\ sends' = {g}
    BY <1>0, <2>1, <2>2, <2>3, AnsweredRequest
  <2>8. RowsOnTheirWay'
    <3>1. CASE q.kind = "test"
      <4>1. srvRows' = srvRows
        BY <2>1, <3>1 DEF Applied
      <4> QED BY <2>1, <4>1 DEF ListsIInv, RowsOnTheirWay, Refreshes, Succeeded
    <3>2. CASE q.kind # "test"
      BY <2>1, <2>3, <2>4, <3>2 DEF RowsOnTheirWay, Refreshes, Succeeded
    <3> QED BY <3>1, <3>2
  <2>9. UsersInStep'
    <3> SUFFICES ASSUME panel = "users", ~ stolenRow PROVE UsersInStep'
      BY <2>1 DEF UsersInStep
    <3>1. sends = {q} /\ sends' = {g} /\ ~ Succeeded(q) /\ Succeeded(g) /\ q.kind = "patch"
      BY <2>1, <2>3, <2>4, <2>7 DEF Succeeded, ListsIInv, UsersOnlyPatch
    <3>2. ~ lostReply => items = srvRows
      BY <3>1 DEF ListsIInv, UsersInStep
    <3>3. srvRows' = [srvRows EXCEPT ![r] = Patched(srvRows[r], q)]
      BY <2>1, <3>1 DEF Applied
    <3>4. Shown(g)' = [items EXCEPT ![r] = IF "there" \in items[r] THEN Patched(items[r], g) ELSE items[r]]
      BY <2>1, <2>3, <3>1 DEF Shown
    <3>5. Patched(srvRows[r], g) = Patched(srvRows[r], q)
      BY <2>3 DEF Patched
    <3>6. ~ lostReply => srvRows' = Shown(g)'
      BY <2>1, <3>1, <3>2, <3>3, <3>4, <3>5
    <3> QED BY <2>1, <3>1, <3>6 DEF UsersInStep, Succeeded
  <2> QED BY <2>6, <2>7, <2>8, <2>9 DEF ListsIInv
<1> QED BY <1>1, <1>2

\* A reply is handled.
LEMMA ReplyStep ==
  ASSUME ListsIInv, NEW q \in sends, settles(q)
  PROVE  ListsIInv'
<1>0. /\ ListsTypeOK /\ q \in SendRecord /\ srvRows \in Rows /\ items \in Rows /\ form \in FormRecord
      /\ refresh \in RefreshRecord
  BY DEF ListsIInv, ListsTypeOK
<1>1. /\ UNCHANGED <<panel, srvRows, sendNo, stolenRow, lostReply, asked>>
      /\ q.stage = "answered" /\ sends' = sends \ {q} /\ items' = (IF q.ok THEN Shown(q) ELSE items)
      /\ busyRow' \in {NoRow, busyRow}
  BY DEF settles
<1>w. PICK wanted \in BOOLEAN : wanted = (q.ok /\ Refreshes(q))
  OBVIOUS
<1>2. /\ ~ wanted => refresh' = refresh
      /\ wanted /\ refresh.stage = "idle" => refresh' = [refresh EXCEPT !.stage = "asked"]
      /\ wanted /\ refresh.stage # "idle" => refresh' = [refresh EXCEPT !.again = TRUE]
  BY <1>w DEF settles, AskRefresh
<1>3. /\ refresh' \in RefreshRecord
      /\ wanted /\ refresh.stage = "idle" => refresh'.stage = "asked" /\ refresh'.again = refresh.again
      /\ wanted /\ refresh.stage # "idle" => refresh'.stage = refresh.stage /\ refresh'.again
  BY <1>0, <1>2 DEF RefreshRecord
<1>o. PICK o \in BOOLEAN : o = (form.open /\ ~ (q.ok \/ panel = "users"))
  OBVIOUS
<1>4. form' = IF q.opening = 0 THEN form ELSE [form EXCEPT !.pending = FALSE, !.open = o]
  BY <1>o DEF settles
<1>5. /\ form' \in FormRecord /\ form'.row = form.row /\ form'.leftover = form.leftover
      /\ form'.opening = form.opening /\ (form'.open => form.open)
      /\ q.opening = 0 => form' = form
  <2>1. CASE q.opening = 0
    BY <1>0, <1>4, <2>1
  <2>2. CASE q.opening # 0
    <3>1. form' = [form EXCEPT !.pending = FALSE, !.open = o]
      BY <1>4, <2>2
    <3>2. form' \in FormRecord
      BY <1>0, <3>1 DEF FormRecord
    <3>3. form'.row = form.row /\ form'.leftover = form.leftover /\ form'.opening = form.opening /\ form'.open = o
      BY <1>0, <3>1 DEF FormRecord
    <3> QED BY <1>o, <2>2, <3>2, <3>3
  <2> QED BY <2>1, <2>2
<1>6. items' \in Rows
  <2>1. ASSUME NEW r \in RowIds PROVE Patched(items[r], q) \in SUBSET {"there", "on", "member"}
    BY <1>0, PatchedRow DEF Rows
  <2>2. Patched({"there"}, q) \in SUBSET {"there", "on", "member"}
    BY <1>0, PatchedRow
  <2>3. Shown(q) \in Rows
    BY <1>0, <2>1, <2>2 DEF Shown, Rows
  <2> QED BY <1>0, <1>1, <2>3
<1>7. ListsTypeOK'
  BY <1>0, <1>1, <1>3, <1>5, <1>6 DEF ListsTypeOK
<1>8. UsersOnlyPatch' /\ OkUntilAnswered' /\ WaitingRefresh'
  <2>1. OkUntilAnswered'
    BY <1>1 DEF ListsIInv, OkUntilAnswered
  <2>2. UsersOnlyPatch'
    <3>1. panel = "users" => refresh' = refresh
      BY <1>w, <1>2 DEF Refreshes
    <3> QED BY <1>1, <1>5, <3>1 DEF ListsIInv, UsersOnlyPatch
  <2>3. WaitingRefresh'
    BY <1>2, <1>3 DEF ListsIInv, WaitingRefresh
  <2> QED BY <2>1, <2>2, <2>3
<1>9. FormInStep'
  <2> SUFFICES ASSUME form'.open, ~ form'.leftover PROVE FormInStep'
    BY DEF FormInStep
  <2>1. CASE q.opening = 0
    BY <1>1, <1>5, <2>1 DEF ListsIInv, FormInStep
  <2>2. CASE q.opening # 0
    <3>1. \A p \in sends' : p.opening = 0
      BY <1>1, <1>5, <2>2 DEF ListsIInv, FormInStep
    <3> QED BY <1>5, <3>1 DEF ListsIInv, FormInStep
  <2> QED BY <2>1, <2>2
<1>10. RowsOnTheirWay'
  <2> SUFFICES ASSUME panel # "users", ~ lostReply PROVE RowsOnTheirWay'
    BY <1>1 DEF RowsOnTheirWay
  <2>1. CASE wanted
    <3>1. refresh'.stage = "asked" \/ refresh'.again
      BY <1>3, <2>1
    <3> QED BY <3>1 DEF RowsOnTheirWay
  <2>2. CASE ~ wanted
    <3>1. refresh' = refresh
      BY <1>2, <2>2
    <3>2. items' = items
      BY <1>1, <1>w, <2>2 DEF Refreshes, Shown
    <3>3. ~ (Succeeded(q) /\ Refreshes(q))
      BY <1>w, <2>2 DEF Succeeded
    <3> QED BY <1>1, <3>1, <3>2, <3>3 DEF ListsIInv, RowsOnTheirWay, Refreshes, Succeeded
  <2> QED BY <2>1, <2>2
<1>11. UsersInStep'
  <2> SUFFICES ASSUME panel = "users", ~ stolenRow PROVE UsersInStep'
    BY <1>1 DEF UsersInStep
  <2>1. sends = {q} /\ sends' = {}
    BY <1>1 DEF ListsIInv, UsersInStep
  <2>2. ~ lostReply => items' = srvRows
    BY <1>1, <2>1 DEF ListsIInv, UsersInStep, Succeeded
  <2> QED BY <1>1, <2>1, <2>2 DEF UsersInStep
<1> QED BY <1>7, <1>8, <1>9, <1>10, <1>11 DEF ListsIInv

\* A refresh reads the rows, and delivers them.
LEMMA RefreshStep ==
  ASSUME ListsIInv, refreshReads \/ refreshDelivers
  PROVE  ListsIInv'
<1>0. ListsTypeOK /\ refresh \in RefreshRecord /\ srvRows \in Rows
  BY DEF ListsIInv, ListsTypeOK
<1>1. UNCHANGED <<panel, srvRows, sends, sendNo, busyRow, stolenRow, lostReply, asked, form>> /\ refresh.stage # "idle"
  BY DEF refreshReads, refreshDelivers
<1>2. panel # "users"
  BY <1>1 DEF ListsIInv, UsersOnlyPatch
<1>3. UsersOnlyPatch' /\ UsersInStep' /\ OkUntilAnswered' /\ FormInStep'
  BY <1>1, <1>2, ListsFrame DEF UsersOnlyPatch, UsersInStep
<1>4. CASE refreshReads
  <2>1. refresh' = [refresh EXCEPT !.stage = "read", !.rows = srvRows] /\ UNCHANGED items
    BY <1>4 DEF refreshReads
  <2>2. refresh' \in RefreshRecord /\ refresh'.stage = "read" /\ refresh'.rows = srvRows
    BY <1>0, <2>1 DEF RefreshRecord
  <2>3. ListsTypeOK'
    BY <1>0, <1>1, <2>1, <2>2 DEF ListsTypeOK
  <2>4. WaitingRefresh' /\ RowsOnTheirWay'
    BY <1>1, <2>2 DEF WaitingRefresh, RowsOnTheirWay
  <2> QED BY <1>3, <2>3, <2>4 DEF ListsIInv
<1>5. CASE refreshDelivers
  <2>1. PICK st \in {"idle", "asked"} : /\ st = (IF refresh.again THEN "asked" ELSE "idle")
                                        /\ refresh' = [refresh EXCEPT !.stage = st, !.again = FALSE]
    BY <1>5 DEF refreshDelivers
  <2>2. items' = refresh.rows /\ refresh.stage = "read"
    BY <1>5 DEF refreshDelivers
  <2>3. refresh' \in RefreshRecord
    BY <1>0, <2>1 DEF RefreshRecord
  <2>4. refresh'.stage = st /\ refresh'.again = FALSE
    BY <1>0, <2>1 DEF RefreshRecord
  <2>5. items' \in Rows
    BY <1>0, <2>2 DEF RefreshRecord
  <2>6. ListsTypeOK'
    BY <1>0, <1>1, <2>3, <2>5 DEF ListsTypeOK
  <2>7. WaitingRefresh'
    BY <2>4 DEF WaitingRefresh
  <2>8. RowsOnTheirWay'
    <3> SUFFICES ASSUME ~ lostReply PROVE RowsOnTheirWay'
      BY <1>1 DEF RowsOnTheirWay
    <3>1. CASE refresh.again
      BY <2>1, <2>4, <3>1 DEF RowsOnTheirWay
    <3>2. CASE ~ refresh.again
      BY <1>1, <1>2, <2>1, <2>2, <2>4, <3>2 DEF ListsIInv, RowsOnTheirWay, Refreshes, Succeeded
    <3> QED BY <3>1, <3>2
  <2> QED BY <1>3, <2>6, <2>7, <2>8 DEF ListsIInv
<1> QED BY <1>4, <1>5

\* The first page shows the server's rows, and nothing is under way.
LEMMA ListsInitIInv == ListsInit => ListsIInv
<1> SUFFICES ASSUME ListsInit PROVE ListsIInv
  OBVIOUS
<1>1. /\ panel \in Panels /\ srvRows \in Rows /\ items = srvRows /\ sends = {} /\ sendNo = 0
      /\ busyRow = NoRow /\ asked = NoRow /\ stolenRow = FALSE /\ lostReply = FALSE
      /\ form = NoForm /\ refresh = [stage |-> "idle", rows |-> srvRows, again |-> FALSE]
  BY DEF ListsInit, Rows
<1>2. NoForm \in FormRecord
  BY DEF NoForm, FormRecord
<1>3. ~ NoForm.open
  BY DEF NoForm
<1>4. refresh \in RefreshRecord
  BY <1>1 DEF RefreshRecord
<1>5. refresh.stage = "idle" /\ ~ refresh.again
  BY <1>1
<1>6. ListsTypeOK
  BY <1>1, <1>2, <1>4 DEF ListsTypeOK
<1>7. UsersOnlyPatch /\ OkUntilAnswered /\ WaitingRefresh /\ RowsOnTheirWay /\ UsersInStep /\ FormInStep
  BY <1>1, <1>3, <1>5 DEF UsersOnlyPatch, OkUntilAnswered, WaitingRefresh, RowsOnTheirWay, UsersInStep, FormInStep
<1> QED BY <1>6, <1>7 DEF ListsIInv

\* Every step of a list keeps the invariant.
LEMMA ListsStep == ListsIInv /\ [ListsNext]_listVars => ListsIInv'
<1> SUFFICES ASSUME ListsIInv, [ListsNext]_listVars PROVE ListsIInv'
  OBVIOUS
<1>1. CASE UNCHANGED listVars
  <2>1. ListsTypeOK'
    BY <1>1 DEF listVars, ListsIInv, ListsTypeOK
  <2> QED BY <1>1, <2>1, ListsFrame DEF listVars, ListsIInv
<1> QED BY <1>1, RowStep, FormStep, ServerStep, ReplyStep, RefreshStep DEF ListsNext

(***************************************************************************)
(* A list that is quiet shows the server's rows, and one opening of a form *)
(* has at most one request under way, for any number of rows and requests. *)
(***************************************************************************)
THEOREM ListsTheorem == ListsSpec => []ListsSound
<1>1. ListsIInv => ListsSound
  <2> SUFFICES ASSUME ListsIInv PROVE ListsSound
    OBVIOUS
  <2>1. QuietMeansSynced
    BY DEF ListsIInv, QuietMeansSynced, RowsOnTheirWay, WaitingRefresh, UsersInStep
  <2>2. OneSubmission
    <3> SUFFICES ASSUME form.open, ~ form.leftover
                 PROVE  Cardinality({q \in sends : q.opening = form.opening}) <= 1
      BY DEF OneSubmission
    <3> DEFINE S == {q \in sends : q.opening = form.opening}
    <3>1. \A p, q \in S : p = q
      BY DEF ListsIInv, FormInStep
    <3>2. CASE S = {}
      BY <3>2, FS_EmptySet
    <3>3. CASE S # {}
      <4>1. PICK q \in S : TRUE
        BY <3>3
      <4>2. S = {q}
        BY <3>1, <4>1
      <4> HIDE DEF S
      <4>3. Cardinality(S) = 1
        BY <4>2, FS_Singleton
      <4> QED BY <4>3 DEF S
    <3> QED BY <3>2, <3>3
  <2> QED BY <2>1, <2>2 DEF ListsSound
<1> QED BY <1>1, ListsInitIInv, ListsStep, PTL DEF ListsSpec
=============================================================================
