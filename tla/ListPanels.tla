----------------------------- MODULE ListPanels -----------------------------
(***************************************************************************)
(* The console's editable lists: the user's subscriptions                  *)
(* (alerts/subscriptions/), the alert rules (components/alerts/) and the   *)
(* users of an instance (components/admin/).  Each keeps one busy id for   *)
(* its rows and a form or dialogs over them; they differ in how a reply    *)
(* reaches the list: subscriptions patch it and refresh, rules only        *)
(* refresh, users only patch.                                              *)
(*                                                                         *)
(* A row is a set of flags: "there", "on" (enabled, or approved) and       *)
(* "member".  A refresh reads the rows at some moment and delivers them    *)
(* later; refreshes run one after the other.                               *)
(*                                                                         *)
(* The rows change only by this panel's requests.  Rules and users are     *)
(* shared in the product: another member's or admin's edit shows in the    *)
(* list only with the next refresh, and in the user table only after a     *)
(* reload of the page, so what is said of the list here is said of a user  *)
(* who edits alone.                                                        *)
(***************************************************************************)
EXTENDS Naturals, FiniteSets

CONSTANTS Panels,    \* the panels to look at
          RowIds,
          ListedFirst, \* the rows there are at first
          MaxSends   \* bound on the requests

CONSTANT NoRow

ASSUME ListAssumption ==
  /\ Panels \subseteq {"subscriptions", "rules", "users"} /\ ListedFirst \subseteq RowIds /\ NoRow \notin RowIds
  /\ MaxSends \in Nat

VARIABLES panel,
          srvRows,
          items,      \* the list on screen
          sends,      \* requests under way
          sendNo,     \* how many there have been
          busyRow,    \* busyId, pendingId
          stolenRow,  \* busyRow was taken over from a request under way
          lostReply,  \* a request was carried out but its answer was lost
          asked,      \* the row a dialog asks about
          form,
          refresh     \* router.refresh: stage, its snapshot, and whether another one waits

listVars == <<panel, srvRows, items, sends, sendNo, busyRow, stolenRow, lostReply, asked, form, refresh>>

NoForm == [open |-> FALSE, row |-> NoRow, opening |-> 0, pending |-> FALSE, leftover |-> FALSE]

ListsInit ==
  /\ panel \in Panels
  /\ srvRows = [r \in RowIds |-> IF r \in ListedFirst THEN {"there"} ELSE {}]
  /\ items = srvRows
  /\ sends = {} /\ sendNo = 0
  /\ busyRow = NoRow /\ stolenRow = FALSE /\ lostReply = FALSE
  /\ asked = NoRow
  /\ form = NoForm
  /\ refresh = [stage |-> "idle", rows |-> srvRows, again |-> FALSE]

Uncovered == asked = NoRow /\ ~ form.open

RowEnabled(r) == "there" \in items[r] /\ busyRow # r

\* setBusyId, and the request
Send(kind, r, flag, on) ==
  /\ sendNo < MaxSends
  /\ sendNo' = sendNo + 1
  /\ sends' = sends \cup {[kind |-> kind, row |-> r, flag |-> flag, on |-> on, opening |-> 0, no |-> sendNo,
                           stage |-> "sent", ok |-> TRUE]}
  /\ busyRow' = r
  /\ stolenRow' = (stolenRow \/ \E q \in sends : q.opening = 0 \/ panel = "users")
  /\ UNCHANGED <<panel, srvRows, items, lostReply, form, refresh>>

RowAction(r, p) == panel = p /\ Uncovered /\ RowEnabled(r) /\ UNCHANGED asked

\* Subscriptions
toggleSubscription(r) == RowAction(r, "subscriptions") /\ Send("patch", r, "on", "on" \notin items[r])
sendTest(r) == RowAction(r, "subscriptions") /\ Send("test", r, "on", FALSE)

\* Rules
toggleRule(r) == RowAction(r, "rules") /\ Send("patch", r, "on", "on" \notin items[r])

\* Users
approve(r) == RowAction(r, "users") /\ "on" \notin items[r] /\ Send("patch", r, "on", TRUE)

askFirst(r, p) ==
  /\ panel = p /\ Uncovered /\ RowEnabled(r)
  /\ asked' = r
  /\ UNCHANGED <<panel, srvRows, items, sends, sendNo, busyRow, stolenRow, lostReply, form, refresh>>

askRemove(r) == askFirst(r, "subscriptions")
setDeleting(r) == askFirst(r, "rules")
requestRemove(r) == "member" \in items[r] /\ askFirst(r, "users")

\* The dialog is confirmed.
removeSubscription == panel = "subscriptions" /\ asked # NoRow /\ Send("delete", asked, "there", FALSE) /\ asked' = NoRow
confirmDelete == panel = "rules" /\ asked # NoRow /\ Send("delete", asked, "there", FALSE) /\ asked' = NoRow
removeFromTeam == panel = "users" /\ asked # NoRow /\ Send("patch", asked, "member", FALSE) /\ asked' = NoRow

dismiss ==
  /\ asked # NoRow
  /\ asked' = NoRow
  /\ UNCHANGED <<panel, srvRows, items, sends, sendNo, busyRow, stolenRow, lostReply, form, refresh>>

(* Forms: a new subscription, a new or an edited rule, a team for a user. *)

\* The effect of an opening form clears its fields and the pending flag.
openFormFor(r) ==
  /\ Uncovered /\ sendNo < MaxSends
  /\ form' = [open |-> TRUE, row |-> r, opening |-> sendNo + 1, pending |-> FALSE,
              leftover |-> \E q \in sends : q.opening # 0]
  /\ UNCHANGED <<panel, srvRows, items, sends, sendNo, busyRow, stolenRow, lostReply, asked, refresh>>

openForm == panel = "subscriptions" /\ openFormFor(NoRow)
openCreate == panel = "rules" /\ openFormFor(NoRow)
openEdit(r) == panel = "rules" /\ RowEnabled(r) /\ openFormFor(r)
openModal(r) == panel = "users" /\ RowEnabled(r) /\ openFormFor(r)

\* Cancel, Close, Escape: also while the request is under way.
closeForm ==
  /\ form.open
  /\ form' = [form EXCEPT !.open = FALSE]
  /\ UNCHANGED <<panel, srvRows, items, sends, sendNo, busyRow, stolenRow, lostReply, asked, refresh>>

\* Variant without the guard.
NotBlocked == TRUE

NotPending == ~ form.pending

\* submit with valid fields; on: the form's Enabled box.
submitForm(on) ==
  /\ form.open /\ NotPending /\ sendNo < MaxSends
  /\ sendNo' = sendNo + 1
  /\ form' = [form EXCEPT !.pending = TRUE]
  /\ sends' = sends \cup
       {[kind |-> IF form.row = NoRow THEN "create" ELSE "patch", row |-> form.row,
         flag |-> IF panel = "users" THEN "member" ELSE "on", on |-> panel = "users" \/ on,
         opening |-> form.opening, no |-> sendNo, stage |-> "sent", ok |-> TRUE]}
  /\ busyRow' = IF panel = "users" THEN form.row ELSE busyRow
  /\ stolenRow' = (stolenRow \/ (panel = "users" /\ sends # {}))
  /\ UNCHANGED <<panel, srvRows, items, lostReply, asked, refresh>>

(* The server *)

Patched(row, q) == IF q.on THEN row \cup {q.flag} ELSE row \ {q.flag}

Applied(q, r) ==
  CASE q.kind = "patch" -> [srvRows EXCEPT ![r] = Patched(@, q)]
    [] q.kind = "delete" -> [srvRows EXCEPT ![r] = {}]
    [] q.kind = "create" -> [srvRows EXCEPT ![r] = Patched({"there"}, q)]
    [] OTHER -> srvRows

carriesOut(q, r) ==
  /\ q \in sends /\ q.stage = "sent"
  /\ IF q.kind = "create" THEN srvRows[r] = {} /\ items[r] = {} ELSE r = q.row /\ "there" \in srvRows[r]
  /\ srvRows' = Applied(q, r)
  /\ sends' = (sends \ {q}) \cup {[q EXCEPT !.stage = "answered", !.row = r]}
  /\ UNCHANGED <<panel, items, sendNo, busyRow, stolenRow, lostReply, asked, form, refresh>>

rejects(q) ==
  /\ q \in sends /\ q.stage = "sent"
  /\ sends' = (sends \ {q}) \cup {[q EXCEPT !.stage = "answered", !.ok = FALSE]}
  /\ UNCHANGED <<panel, srvRows, items, sendNo, busyRow, stolenRow, lostReply, asked, form, refresh>>

answerLost(q) ==
  /\ q \in sends /\ q.stage = "answered" /\ q.ok
  /\ sends' = (sends \ {q}) \cup {[q EXCEPT !.ok = FALSE]}
  /\ lostReply' = TRUE
  /\ UNCHANGED <<panel, srvRows, items, sendNo, busyRow, stolenRow, asked, form, refresh>>

(* Replies *)

\* setItems, setUsers with the answer of request q
Shown(q) ==
  CASE panel = "rules" \/ q.kind = "test" -> items
    [] q.kind = "delete" -> [items EXCEPT ![q.row] = {}]
    [] q.kind = "create" -> [items EXCEPT ![q.row] = Patched({"there"}, q)]
    [] OTHER -> [items EXCEPT ![q.row] = IF "there" \in @ THEN Patched(@, q) ELSE @]

\* Variant that trusts its own patch.
RefreshedOnCreate(q) == q.kind = "create"

Refreshes(q) == panel # "users" /\ q.kind # "test"

AskRefresh(wanted) ==
  refresh' = IF ~ wanted THEN refresh
             ELSE IF refresh.stage = "idle" THEN [refresh EXCEPT !.stage = "asked"] ELSE [refresh EXCEPT !.again = TRUE]

\* The await resumes.  A form's request that succeeded closes the form that is
\* open now; the users' form closes after a failure too.
settles(q) ==
  /\ q \in sends /\ q.stage = "answered"
  /\ sends' = sends \ {q}
  /\ items' = IF q.ok THEN Shown(q) ELSE items
  /\ AskRefresh(q.ok /\ Refreshes(q))
  /\ busyRow' = IF q.opening = 0 \/ panel = "users" THEN NoRow ELSE busyRow
  /\ form' = IF q.opening = 0 THEN form
             ELSE [form EXCEPT !.pending = FALSE, !.open = @ /\ ~ (q.ok \/ panel = "users")]
  /\ UNCHANGED <<panel, srvRows, sendNo, stolenRow, lostReply, asked>>

refreshReads ==
  /\ refresh.stage = "asked"
  /\ refresh' = [refresh EXCEPT !.stage = "read", !.rows = srvRows]
  /\ UNCHANGED <<panel, srvRows, items, sends, sendNo, busyRow, stolenRow, lostReply, asked, form>>

\* New props; the subscriptions' effect copies them.
refreshDelivers ==
  /\ refresh.stage = "read"
  /\ items' = refresh.rows
  /\ refresh' = [refresh EXCEPT !.stage = IF refresh.again THEN "asked" ELSE "idle", !.again = FALSE]
  /\ UNCHANGED <<panel, srvRows, sends, sendNo, busyRow, stolenRow, lostReply, asked, form>>

ListsNext ==
  \/ \E r \in RowIds : \/ toggleSubscription(r) \/ sendTest(r) \/ toggleRule(r) \/ approve(r)
                       \/ askRemove(r) \/ setDeleting(r) \/ requestRemove(r) \/ openEdit(r) \/ openModal(r)
  \/ removeSubscription \/ confirmDelete \/ removeFromTeam \/ dismiss \/ openForm \/ openCreate \/ closeForm
  \/ \E on \in BOOLEAN : submitForm(on)
  \/ \E q \in sends : rejects(q) \/ answerLost(q) \/ settles(q) \/ \E r \in RowIds : carriesOut(q, r)
  \/ refreshReads \/ refreshDelivers

ListsSpec == ListsInit /\ [][ListsNext]_listVars

\* A request is answered or fails, and its await resumes.
ListsFairness ==
  WF_listVars(\E q \in sends : rejects(q) \/ answerLost(q) \/ settles(q) \/ \E r \in RowIds : carriesOut(q, r))

\* A row or a form is disabled.
RowsWait == busyRow # NoRow \/ form.pending

(***************************************************************************)
(* When nothing is under way the list shows what the server has, although  *)
(* patches, older refreshes and replies overtake each other; unless an     *)
(* answer was lost, or in the user table, which never refreshes, two       *)
(* requests overlapped because another row took pendingId over.  It is     *)
(* said of rows that nobody edits but the user of this panel.              *)
(***************************************************************************)
QuietMeansSynced ==
  sends = {} /\ refresh.stage = "idle" /\ ~ lostReply /\ (panel = "users" => ~ stolenRow) => items = srvRows

(***************************************************************************)
(* One opening of a form has at most one request under way, so a double    *)
(* click creates one subscription or rule.  (A request left over from an   *)
(* earlier opening that fails clears the pending flag of this one.)        *)
(***************************************************************************)
OneSubmission ==
  form.open /\ ~ form.leftover => Cardinality({q \in sends : q.opening = form.opening}) <= 1

(***************************************************************************)
(* The editable lists show the server's rows once nothing is under way and *)
(* nobody else edits them, and a form sends one request at a time.         *)
(***************************************************************************)
ListsSound == QuietMeansSynced /\ OneSubmission

(***************************************************************************)
(* The inductive invariant of the lists.  A panel that refreshes shows the *)
(* server's rows, or a reply or a refresh that will bring them is under    *)
(* way; the user table differs from them by the one answer under way; and  *)
(* a form that found no request of an earlier opening is pending as long   *)
(* as its own request is.                                                  *)
(***************************************************************************)
Rows == [RowIds -> SUBSET {"there", "on", "member"}]

SendRecord == [kind : {"patch", "test", "delete", "create"}, row : RowIds \cup {NoRow}, flag : {"there", "on", "member"},
               on : BOOLEAN, opening : Nat, no : Nat, stage : {"sent", "answered"}, ok : BOOLEAN]

FormRecord == [open : BOOLEAN, row : RowIds \cup {NoRow}, opening : Nat, pending : BOOLEAN, leftover : BOOLEAN]

RefreshRecord == [stage : {"idle", "asked", "read"}, rows : Rows, again : BOOLEAN]

ListsTypeOK ==
  /\ panel \in Panels /\ srvRows \in Rows /\ items \in Rows /\ sends \subseteq SendRecord /\ sendNo \in Nat
  /\ busyRow \in RowIds \cup {NoRow} /\ asked \in RowIds \cup {NoRow}
  /\ stolenRow \in BOOLEAN /\ lostReply \in BOOLEAN
  /\ form \in FormRecord /\ refresh \in RefreshRecord

Succeeded(q) == q.stage = "answered" /\ q.ok

UsersOnlyPatch ==
  panel = "users" => /\ refresh.stage = "idle"
                     /\ form.open => form.row # NoRow
                     /\ \A q \in sends : q.kind = "patch" /\ q.row # NoRow

OkUntilAnswered == \A q \in sends : q.stage = "sent" => q.ok

WaitingRefresh == refresh.again => refresh.stage # "idle"

RowsOnTheirWay ==
  panel # "users" /\ ~ lostReply =>
    \/ \E q \in sends : Succeeded(q) /\ Refreshes(q)
    \/ refresh.again
    \/ /\ refresh.stage = "idle" => items = srvRows
       /\ refresh.stage = "read" => refresh.rows = srvRows

UsersInStep ==
  panel = "users" /\ ~ stolenRow =>
    /\ \A p, q \in sends : p = q
    /\ ~ lostReply => /\ (\A q \in sends : ~ Succeeded(q)) => items = srvRows
                      /\ \A q \in sends : Succeeded(q) => srvRows = Shown(q)

FormInStep ==
  form.open /\ ~ form.leftover =>
    /\ form.opening # 0
    /\ \A q \in sends : q.opening # 0 => form.pending /\ \A p \in sends : p.opening # 0 => p = q

ListsIInv ==
  /\ ListsTypeOK /\ UsersOnlyPatch /\ OkUntilAnswered /\ WaitingRefresh
  /\ RowsOnTheirWay /\ UsersInStep /\ FormInStep
=============================================================================
