----------------------------- MODULE MCNetPoll -----------------------------
(* NetPoll on the sets of NetPoll.cfg. *)
EXTENDS NetPoll
=============================================================================
