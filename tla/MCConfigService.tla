--------------------------- MODULE MCConfigService ---------------------------
(* One guild, two dashboards, one setting. *)
EXTENDS SequentialRequests

CONSTANTS guild, anna, ben, volume

OneGuild == {guild}
TwoClients == {anna, ben}
OneKey == {volume}
AllFaults == {"restart", "lostReply"}
=============================================================================
