------------------------------ MODULE MCServer ------------------------------
(* Server on small sets of connections and channels. *)
EXTENDS Server
=============================================================================
