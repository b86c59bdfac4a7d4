----------------------------- MODULE MCOutgoing -----------------------------
(* Outgoing with small constants; see the MCOutgoing*.cfg files. *)
EXTENDS Outgoing
=============================================================================
