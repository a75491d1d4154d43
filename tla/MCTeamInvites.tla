--------------------------- MODULE MCTeamInvites ----------------------------
(* Instances of TeamInvites for TLC. *)
EXTENDS TeamInvites
=============================================================================
