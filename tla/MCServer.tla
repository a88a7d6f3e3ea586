------------------------------ MODULE MCServer ------------------------------
(* Server on a small instance; nothing in it is unbounded. *)
EXTENDS Server
=============================================================================
