-------------------------- MODULE AlertSuppression --------------------------
(***************************************************************************)
(* Mutes and maintenance windows.  Two history variables follow what       *)
(* suppresses alerts since the last time a loop loaded its rules: the      *)
(* mutes that are still the ones stored then, and the windows that have    *)
(* existed unchanged and covered the clock at every moment since.          *)
(***************************************************************************)
EXTENDS AlertEngine

VARIABLES heldMutes, heldWindows

suppressionVars == <<vars, heldMutes, heldWindows>>

Loads == \E a \in Activations : run[a].pc = "load" /\ run'[a].pc = "loop"

MutedNow == {r \in Rules : Muted(rule[r], clock)}

WindowsNow == UNION {ActiveWindows(t, clock) : t \in Teams}

SuppressionInit == Init /\ heldMutes = {} /\ heldWindows = {}

Observe ==
  /\ heldMutes' = {r \in MutedNow' : Loads \/ (r \in heldMutes /\ rule'[r].muteUntil = rule[r].muteUntil)}
  /\ heldWindows' = {w \in WindowsNow' : Loads \/ (w \in heldWindows /\ window'[w] = window[w])}

SuppressionNext == Next /\ Observe

SuppressionSpec == SuppressionInit /\ [][SuppressionNext]_suppressionVars

\* Nothing held stands against an alert of rule r.
Unsuppressed(r) == r \notin heldMutes /\ \A w \in heldWindows : window[w].team # TeamOf[r]

Creates(i) == incident[i].status = "unborn" /\ incident'[i].status = "OPEN"

(***************************************************************************)
(* The inductive invariant.  What is held is in force now.  A rule the     *)
(* loop has yet to take is muted on its loaded row as long as its mute is  *)
(* held, so a rule under a held mute is never taken; a held window began   *)
(* before the lookup for it was issued, so the lookup finds it.            *)
(***************************************************************************)
HeldInForce == heldMutes \subseteq MutedNow /\ heldWindows \subseteq WindowsNow

LoadedMutes ==
  \A a \in Activations : run[a].pc \in {"loop"} \cup Awaiting =>
    \A r \in run[a].todo \cap heldMutes : run[a].snapshot[r].muteUntil = rule[r].muteUntil

TakenUnmuted ==
  \A a \in Activations : run[a].pc \in Awaiting =>
    run[a].current \notin run[a].todo \cup heldMutes

LookupCovers ==
  \A a \in Activations : run[a].pc = "window" =>
    run[a].at <= clock /\ \A w \in heldWindows : window[w].startsAt <= run[a].at

TakenUncovered ==
  \A a \in Activations : run[a].pc \in Awaiting \ {"window"} =>
    \A w \in heldWindows : window[w].team # TeamOf[run[a].current]

HeldIInv == /\ TypeOK /\ OneEvaluation /\ HeldInForce
            /\ LoadedMutes /\ TakenUnmuted /\ LookupCovers /\ TakenUncovered

(***************************************************************************)
(* No incident is created for a rule under a mute, or in a team under a    *)
(* window, that has been in force since before the loop loaded its rules.  *)
(* The mute is judged on the loaded row and the window at a time read      *)
(* before the lookup, so this is the most the checks can give.             *)
(***************************************************************************)
SuppressionHonoured == [][\A i \in Incidents : Creates(i) => Unsuppressed(incident'[i].rule)]_suppressionVars
=============================================================================
