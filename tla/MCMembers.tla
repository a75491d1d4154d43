------------------------------ MODULE MCMembers -----------------------------
(***************************************************************************)
(* Instances for TLC of three parts of the backend that share no state and *)
(* decide what the members of a team get: subscriptions with the           *)
(* dispatcher, invites, and saved views.  A behaviour is one of any one    *)
(* part; the others keep their initial state.                              *)
(***************************************************************************)
EXTENDS NotificationDispatcher, TeamInvites, SavedViews

VARIABLE part

memberVars == <<part, dispatcherVars, vars, viewVars>>

MembersInit ==
  /\ part \in {"dispatcher", "invites", "views"}
  /\ DispatcherInit /\ Init /\ ViewsInit

MembersNext ==
  /\ UNCHANGED part
  /\ \/ part = "dispatcher" /\ DispatcherNext /\ UNCHANGED <<vars, viewVars>>
     \/ part = "invites" /\ Next /\ UNCHANGED <<dispatcherVars, viewVars>>
     \/ part = "views" /\ ViewsNext /\ UNCHANGED <<dispatcherVars, vars>>

MembersSpec == MembersInit /\ [][MembersNext]_memberVars

\* A manager and a member, whose role may change.
Roles == [u \in ViewUsers |-> IF u \in Regraded THEN "MEMBER" ELSE "ADMIN"]

\* Edits, sharing, making default, and undoing the last two.
Bodies == { [content |-> TRUE, shared |-> "keep", default |-> "keep"],
            [content |-> TRUE, shared |-> "keep", default |-> "yes"],
            [content |-> TRUE, shared |-> "yes", default |-> "keep"],
            [content |-> FALSE, shared |-> "keep", default |-> "no"],
            [content |-> FALSE, shared |-> "no", default |-> "keep"] }
=============================================================================
