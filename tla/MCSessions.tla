----------------------------- MODULE MCSessions -----------------------------
(* Two tabs, a login whose callback may come again, and room for a token that has to be drawn again. *)
EXTENDS Sessions
=============================================================================
