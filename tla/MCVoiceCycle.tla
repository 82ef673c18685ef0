---------------------------- MODULE MCVoiceCycle ----------------------------
(* VoiceCycle for two members. *)
EXTENDS VoiceCycle

CONSTANTS anna, ben

TwoMembers == {anna, ben}
=============================================================================
