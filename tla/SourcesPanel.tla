---------------------------- MODULE SourcesPanel ----------------------------
(***************************************************************************)
(* The log source panel of the settings page                               *)
(* (components/settings/sources-panel.tsx): a row per source with Reveal   *)
(* and Copy for its key, Rename, Rotate and Delete behind a dialog, and    *)
(* the dialog that creates a source.  A source's keys are numbered in the  *)
(* order the server made them; 0 stands for none.                          *)
(*                                                                         *)
(* Each fetch of a key holds a ticket of the row's generation.  A call is  *)
(* "live" while its ticket is current, "stale" once the generation moved   *)
(* on, and "orphan" when its row was remounted with the ticket current.    *)
(***************************************************************************)
EXTENDS Naturals, FiniteSets

CONSTANTS Sources,
          FirstSources, \* the sources there are when the page loads
          Manageable,   \* canManageSources(role)
          MaxKey,       \* bound on the keys of a source
          MaxPresses    \* bound on the user's actions

CONSTANT NoSource

ASSUME PanelAssumption ==
  /\ FirstSources \subseteq Sources /\ NoSource \notin Sources
  /\ Manageable \in BOOLEAN /\ MaxKey \in Nat \ {0} /\ MaxPresses \in Nat

VARIABLES srvKey,     \* the server's key of each source
          listed,     \* the key whose hint the list shows
          row,        \* per row: fullKey and loading
          fetches,    \* revealSourceKey calls
          clipboard,  \* the key last copied, what put it there and what was known then
          dialog,     \* renaming, deleting or rotating
          requests,   \* rename, delete, rotate and create requests
          busyId,
          rotated,    \* the rotation whose key is shown once
          acked,      \* the newest key a rotation has brought to this panel
          create,     \* the create dialog: open, pending, created; the ids given out
          refreshing, \* router.refresh under way
          stolen,     \* another row took busyId over while its request was under way
          presses

panelVars == <<srvKey, listed, row, fetches, clipboard, dialog, requests, busyId, rotated, acked, create, refreshing,
               stolen, presses>>

NoDialog == [kind |-> "none", s |-> NoSource]
NoKeyShown == [s |-> NoSource, key |-> 0]
IdleRow == [full |-> 0, loading |-> FALSE]
NothingCopied == [s |-> NoSource, key |-> 0, known |-> 0, via |-> "none"]

PanelInit ==
  /\ srvKey = [s \in Sources |-> IF s \in FirstSources THEN 1 ELSE 0]
  /\ listed = srvKey
  /\ row = [s \in Sources |-> IdleRow]
  /\ fetches = {} /\ requests = {}
  /\ clipboard = NothingCopied
  /\ dialog = NoDialog
  /\ busyId = NoSource
  /\ rotated = NoKeyShown
  /\ acked = [s \in Sources |-> 0]
  /\ create = [open |-> FALSE, pending |-> FALSE, created |-> NoSource, used |-> FirstSources]
  /\ refreshing = FALSE /\ stolen = FALSE
  /\ presses = 0

\* A dialog covers the rows while it is open.
Press == /\ presses < MaxPresses
         /\ dialog = NoDialog /\ rotated = NoKeyShown /\ ~ create.open
         /\ presses' = presses + 1

Marked(ss, mark) == {IF f.s \in ss /\ f.ticket = "live" THEN [f EXCEPT !.ticket = mark] ELSE f : f \in fetches}

(* The key of a row. *)

\* The newest key this panel knows a source to have: by a rotation made here, or
\* by the hint in the list.
KnownKey(s) == IF acked[s] > listed[s] THEN acked[s] ELSE listed[s]

Fetch(kind, s) ==
  /\ fetches' = fetches \cup {[kind |-> kind, s |-> s, ticket |-> "live", since |-> KnownKey(s), stage |-> "sent", key |-> 0]}
  /\ row' = [row EXCEPT ![s].loading = TRUE]

toggleReveal(s) ==
  /\ Press
  /\ listed[s] # 0 /\ ~ row[s].loading
  /\ IF row[s].full # 0
     THEN row' = [row EXCEPT ![s].full = 0] /\ fetches' = Marked({s}, "stale")
     ELSE Fetch("reveal", s)
  /\ UNCHANGED <<srvKey, listed, clipboard, dialog, requests, busyId, rotated, acked, create, refreshing, stolen>>

\* A write that the browser refuses leaves the clipboard as a failed fetch does.
writeText(s, key, known, via) == clipboard' = [s |-> s, key |-> key, known |-> known, via |-> via]

copyKey(s) ==
  /\ Press
  /\ listed[s] # 0 /\ ~ row[s].loading
  /\ IF row[s].full # 0
     THEN /\ writeText(s, row[s].full, KnownKey(s), "row")
          /\ UNCHANGED <<row, fetches>>
     ELSE Fetch("copy", s) /\ UNCHANGED clipboard
  /\ UNCHANGED <<srvKey, listed, dialog, requests, busyId, rotated, acked, create, refreshing, stolen>>

\* The server answers with the key it has then; a deleted source or a failure
\* gives none.
revealSourceKey(f, fails) ==
  /\ f \in fetches /\ f.stage = "sent"
  /\ fetches' = (fetches \ {f}) \cup {[f EXCEPT !.stage = "answered", !.key = IF fails THEN 0 ELSE srvKey[f.s]]}
  /\ UNCHANGED <<srvKey, listed, row, clipboard, dialog, requests, busyId, rotated, acked, create, refreshing, stolen, presses>>

\* Variant without the ticket.
AnyTicket(f) == TRUE

Current(f) == f.ticket = "live"

\* The reply of a fetch.  The clipboard write of an orphan still happens: its
\* generation is the one of the row that is gone.  What it can be held to is
\* what was known when Copy was pressed.
keyArrives(f) ==
  /\ f \in fetches /\ f.stage = "answered"
  /\ fetches' = fetches \ {f}
  /\ row' = IF Current(f)
            THEN [row EXCEPT ![f.s] = [loading |-> FALSE,
                                       full |-> IF f.kind = "reveal" /\ f.key # 0 THEN f.key ELSE @.full]]
            ELSE row
  /\ IF f.kind # "copy" \/ f.ticket = "stale" \/ f.key = 0 THEN UNCHANGED clipboard
     ELSE IF f.ticket = "orphan" THEN writeText(f.s, f.key, f.since, "late")
     ELSE writeText(f.s, f.key, KnownKey(f.s), "row")
  /\ UNCHANGED <<srvKey, listed, dialog, requests, busyId, rotated, acked, create, refreshing, stolen, presses>>

(* Rename, Rotate and Delete. *)

Request(kind, s) == [kind |-> kind, s |-> s, stage |-> "sent", ok |-> TRUE, key |-> 0]

\* Variant that leaves the buttons of a busy row enabled.
AlwaysEnabled(s) == TRUE

ButtonsEnabled(s) == busyId # s

openAction(kind, s) ==
  /\ Press
  /\ Manageable /\ listed[s] # 0 /\ ButtonsEnabled(s)
  /\ dialog' = [kind |-> kind, s |-> s]
  /\ UNCHANGED <<srvKey, listed, row, fetches, clipboard, requests, busyId, rotated, acked, create, refreshing, stolen>>

\* Variant whose requests leave the row busy when they fail.
ReleaseOnSuccess(r) == IF r.ok THEN NoSource ELSE busyId

\* finally: setBusyId(null), whichever row is busy.
Released(r) == NoSource

\* confirmRename, confirmDelete, confirmRotate.  A new name that is too short
\* sends nothing.
confirmAction(valid) ==
  /\ dialog # NoDialog
  /\ dialog' = NoDialog
  /\ IF dialog.kind = "rename" /\ ~ valid
     THEN UNCHANGED <<requests, busyId, stolen>>
     ELSE /\ requests' = requests \cup {Request(dialog.kind, dialog.s)}
          /\ busyId' = dialog.s
          /\ stolen' = (stolen \/ \E r \in requests : r.kind # "create" /\ r.s # dialog.s)
  /\ UNCHANGED <<srvKey, listed, row, fetches, clipboard, rotated, acked, create, refreshing, presses>>

cancelAction ==
  /\ dialog # NoDialog
  /\ dialog' = NoDialog
  /\ UNCHANGED <<srvKey, listed, row, fetches, clipboard, requests, busyId, rotated, acked, create, refreshing, stolen, presses>>

KeyAfter(r) ==
  CASE r.kind = "rotate" -> srvKey[r.s] + 1
    [] r.kind = "create" -> 1
    [] r.kind = "delete" -> 0
    [] OTHER -> srvKey[r.s]

\* The server carries a request out, or refuses it or is not reached.
serverHandles(r, fails) ==
  /\ r \in requests /\ r.stage = "sent"
  /\ IF fails \/ (r.kind # "create" /\ srvKey[r.s] = 0)
     THEN requests' = (requests \ {r}) \cup {[r EXCEPT !.stage = "answered", !.ok = FALSE]} /\ UNCHANGED srvKey
     ELSE /\ KeyAfter(r) <= MaxKey
          /\ srvKey' = [srvKey EXCEPT ![r.s] = KeyAfter(r)]
          /\ requests' = (requests \ {r}) \cup {[r EXCEPT !.stage = "answered", !.key = KeyAfter(r)]}
  /\ UNCHANGED <<listed, row, fetches, clipboard, dialog, busyId, rotated, acked, create, refreshing, stolen, presses>>

\* Variant that keeps the row mounted across a rotation.
KeepRow(s) == UNCHANGED <<row, fetches>>

\* setRotations: the row's React key changes.
Remount(s) == row' = [row EXCEPT ![s] = IdleRow] /\ fetches' = Marked({s}, "orphan")

actionSettles(r) ==
  /\ r \in requests /\ r.stage = "answered" /\ r.kind # "create"
  /\ requests' = requests \ {r}
  /\ busyId' = Released(r)
  /\ IF r.ok /\ r.kind = "rotate"
     THEN /\ Remount(r.s)
          /\ rotated' = [s |-> r.s, key |-> r.key]
          /\ acked' = [acked EXCEPT ![r.s] = IF r.key > @ THEN r.key ELSE @]
          /\ UNCHANGED refreshing
     ELSE refreshing' = (refreshing \/ r.ok) /\ UNCHANGED <<row, fetches, rotated, acked>>
  /\ UNCHANGED <<srvKey, listed, clipboard, dialog, create, stolen, presses>>

closeRotated ==
  /\ rotated # NoKeyShown
  /\ rotated' = NoKeyShown
  /\ refreshing' = TRUE
  /\ UNCHANGED <<srvKey, listed, row, fetches, clipboard, dialog, requests, busyId, acked, create, stolen, presses>>

\* Copy in the dialog that shows the new key once.
copyRotated ==
  /\ rotated # NoKeyShown
  /\ writeText(rotated.s, rotated.key, IF stolen THEN 0 ELSE acked[rotated.s], "dialog")
  /\ UNCHANGED <<srvKey, listed, row, fetches, dialog, requests, busyId, rotated, acked, create, refreshing, stolen, presses>>

\* Rotations by other users.
rotatedElsewhere(s) ==
  /\ srvKey[s] \in 1 .. MaxKey - 1
  /\ srvKey' = [srvKey EXCEPT ![s] = @ + 1]
  /\ UNCHANGED <<listed, row, fetches, clipboard, dialog, requests, busyId, rotated, acked, create, refreshing, stolen, presses>>

\* The refreshed list.  A row that appears or goes is mounted or unmounted; in
\* one whose hint changed the effect clears the key and moves the generation.
listRefreshed ==
  LET changed == {s \in Sources : listed[s] # srvKey[s]}
      kept == {s \in changed : listed[s] # 0 /\ srvKey[s] # 0}
  IN /\ refreshing
     /\ refreshing' = FALSE
     /\ listed' = srvKey
     /\ row' = [s \in Sources |-> IF s \in changed THEN IdleRow ELSE row[s]]
     /\ fetches' = {IF f.ticket = "live" /\ f.s \in changed
                    THEN [f EXCEPT !.ticket = IF f.s \in kept THEN "stale" ELSE "orphan"] ELSE f : f \in fetches}
     /\ UNCHANGED <<srvKey, clipboard, dialog, requests, busyId, rotated, acked, create, stolen, presses>>

(* The create dialog. *)

openDialog ==
  /\ Press
  /\ create' = [create EXCEPT !.open = TRUE, !.created = NoSource]
  /\ UNCHANGED <<srvKey, listed, row, fetches, clipboard, dialog, requests, busyId, rotated, acked, refreshing, stolen>>

\* The id of a source is generated: a deleted one does not come back.
submit(s) ==
  /\ presses < MaxPresses /\ presses' = presses + 1
  /\ create.open /\ ~ create.pending /\ create.created = NoSource
  /\ s \notin create.used
  /\ create' = [create EXCEPT !.pending = TRUE, !.used = @ \cup {s}]
  /\ requests' = requests \cup {Request("create", s)}
  /\ UNCHANGED <<srvKey, listed, row, fetches, clipboard, dialog, busyId, rotated, acked, refreshing, stolen>>

\* The reply sets the created source whether or not the dialog is still open.
createSettles(r) ==
  /\ r \in requests /\ r.stage = "answered" /\ r.kind = "create"
  /\ requests' = requests \ {r}
  /\ create' = [create EXCEPT !.pending = FALSE, !.created = IF r.ok THEN r.s ELSE @]
  /\ UNCHANGED <<srvKey, listed, row, fetches, clipboard, dialog, busyId, rotated, acked, refreshing, stolen, presses>>

\* Copy in the dialog that shows the key a source was made with.
copyCreated ==
  /\ create.open /\ create.created # NoSource
  /\ writeText(create.created, 1, 0, "dialog")
  /\ UNCHANGED <<srvKey, listed, row, fetches, dialog, requests, busyId, rotated, acked, create, refreshing, stolen, presses>>

\* Cancel, also while the request is under way, and Done.
closeCreate ==
  /\ create.open
  /\ create' = IF create.created = NoSource THEN [create EXCEPT !.open = FALSE]
               ELSE [create EXCEPT !.open = FALSE, !.created = NoSource]
  /\ refreshing' = (refreshing \/ create.created # NoSource)
  /\ UNCHANGED <<srvKey, listed, row, fetches, clipboard, dialog, requests, busyId, rotated, acked, stolen, presses>>

FetchAnswers == \E f \in fetches : keyArrives(f) \/ \E fails \in BOOLEAN : revealSourceKey(f, fails)

RequestAnswers ==
  \E r \in requests : \/ actionSettles(r) \/ createSettles(r)
                      \/ \E fails \in BOOLEAN : serverHandles(r, fails)

PanelNext ==
  \/ \E s \in Sources : toggleReveal(s) \/ copyKey(s) \/ rotatedElsewhere(s) \/ submit(s)
  \/ \E s \in Sources, kind \in {"rename", "rotate", "delete"} : openAction(kind, s)
  \/ \E valid \in BOOLEAN : confirmAction(valid)
  \/ cancelAction \/ copyRotated \/ closeRotated \/ copyCreated \/ listRefreshed \/ openDialog \/ closeCreate
  \/ FetchAnswers \/ RequestAnswers

\* The API answers or the fetch rejects, and the reply is handled.
PanelFairness == WF_panelVars(FetchAnswers) /\ WF_panelVars(RequestAnswers)

PanelSpec == PanelInit /\ [][PanelNext]_panelVars

(***************************************************************************)
(* A revealed key is never one that this panel knows to be dead: it is as  *)
(* new as the last rotation made here and as the hint in the list, in      *)
(* whatever order replies, rotations and refreshes arrive.                 *)
(***************************************************************************)
RevealedIsNoOlder == \A s \in Sources : row[s].full # 0 => row[s].full >= acked[s] /\ row[s].full >= listed[s]

(***************************************************************************)
(* What a row copies is no older than the newest key this panel knows of   *)
(* the moment it is copied, and what the dialog after a rotation copies no *)
(* older than the last rotation.  A reply that outlives its row is copied  *)
(* too, and may be dead by then: it is only as new as what was known when  *)
(* Copy was pressed.                                                       *)
(***************************************************************************)
CopiedIsNoOlder == clipboard.key >= clipboard.known

(***************************************************************************)
(* As sources-panel.tsx:31 puts it, "a reply that arrives after any of     *)
(* those" (a hide, a changed hint, a rotation, an unmount) "is dropped".   *)
(***************************************************************************)
LateReplyIsDropped == clipboard.via # "late"

(***************************************************************************)
(* The dialog after a rotation shows the newest key this panel has asked   *)
(* for, as long as no action on another row has taken busyId over and so   *)
(* re-enabled the buttons of a row that is still being rotated.            *)
(***************************************************************************)
RotatedIsNewest == rotated # NoKeyShown /\ ~ stolen => rotated.key = acked[rotated.s]

(***************************************************************************)
(* No key that the source panel shows, or copies for a row that is still   *)
(* there, is one it knows to be dead at that moment.  Copies for a row     *)
(* that is gone are held to what was known at the press (CopiedIsNoOlder); *)
(* that they happen at all is LateReplyIsDropped.                          *)
(***************************************************************************)
KeysCurrent == RevealedIsNoOlder /\ CopiedIsNoOlder /\ RotatedIsNewest

(***************************************************************************)
(* The inductive invariant of the panel.  The server's key is the newest   *)
(* there is; an answer under way that would be shown is as new as all the  *)
(* panel knows of its row; and unless busyId was taken over, one request   *)
(* for a row is under way at a time, so rotations settle in their order.   *)
(***************************************************************************)
RowKinds == {"rename", "rotate", "delete"}

PanelRow == [full : Nat, loading : BOOLEAN]

KeyFetch == [kind : {"reveal", "copy"}, s : Sources, ticket : {"live", "stale", "orphan"}, since : Nat,
             stage : {"sent", "answered"}, key : Nat]

Copied == [s : Sources \cup {NoSource}, key : Nat, known : Nat, via : {"none", "row", "late", "dialog"}]

PanelRequest == [kind : RowKinds \cup {"create"}, s : Sources, stage : {"sent", "answered"},
                 ok : BOOLEAN, key : Nat]

PanelTypeOK ==
  /\ srvKey \in [Sources -> Nat] /\ listed \in [Sources -> Nat] /\ acked \in [Sources -> Nat]
  /\ row \in [Sources -> PanelRow]
  /\ fetches \subseteq KeyFetch /\ requests \subseteq PanelRequest
  /\ clipboard \in Copied
  /\ dialog \in {NoDialog} \cup [kind : RowKinds, s : Sources]
  /\ rotated \in {NoKeyShown} \cup [s : Sources, key : Nat]
  /\ busyId \in Sources \cup {NoSource} /\ stolen \in BOOLEAN
  /\ create \in [open : BOOLEAN, pending : BOOLEAN, created : Sources \cup {NoSource}, used : SUBSET Sources]

\* A source the server has not made yet has left no trace anywhere.
Unmade(s) == s \notin create.used \/ Request("create", s) \in requests

NoTrace(s) ==
  /\ srvKey[s] = 0 /\ listed[s] = 0 /\ acked[s] = 0 /\ row[s].full = 0 /\ dialog.s # s
  /\ \A f \in fetches : f.s # s
  /\ \A r \in requests : r.s = s => r = Request("create", s) /\ s \in create.used

UnmadeLeavesNoTrace == \A s \in Sources : Unmade(s) => NoTrace(s)

CreatesAreNew == \A r \in requests : r.kind = "create" /\ r.stage = "sent" => r = Request("create", r.s)

ServerIsAhead == \A s \in Sources : srvKey[s] # 0 => srvKey[s] >= acked[s] /\ srvKey[s] >= listed[s]

RotationsAreServed ==
  \A r \in requests : r.stage = "answered" /\ r.ok /\ r.kind = "rotate" /\ srvKey[r.s] # 0 => r.key <= srvKey[r.s]

AnswersAreNew ==
  \A f \in fetches :
    /\ srvKey[f.s] # 0 => f.since <= srvKey[f.s]
    /\ f.stage = "answered" /\ f.key # 0 =>
         /\ f.key >= f.since
         /\ f.ticket = "live" => f.key >= acked[f.s] /\ f.key >= listed[f.s]

OneAtATime ==
  ~ stolen => \A r \in requests : r.kind # "create" =>
    /\ busyId = r.s /\ dialog.s # r.s
    /\ \A q \in requests : q.kind # "create" => q = r
    /\ r.stage = "answered" /\ r.ok /\ r.kind = "rotate" => r.key >= acked[r.s]

PanelIInv ==
  /\ PanelTypeOK /\ UnmadeLeavesNoTrace /\ CreatesAreNew /\ ServerIsAhead /\ RotationsAreServed
  /\ AnswersAreNew /\ OneAtATime /\ KeysCurrent

(***************************************************************************)
(* Reveal and Copy do not stay disabled, although a rotation or a refresh  *)
(* may remount the row under a fetch.                                      *)
(***************************************************************************)
KeysLoad == \A s \in Sources : row[s].loading ~> ~ row[s].loading

(***************************************************************************)
(* The buttons of a row come back, whether its request succeeded or not.   *)
(***************************************************************************)
RowsReleased == busyId # NoSource ~> busyId = NoSource
=============================================================================
