----------------------------- MODULE MCSimulator -----------------------------
(* Simulator with one bot that acts and one that joins and leaves. *)
EXTENDS Simulator

MCMaxActions == [b \in Bots |-> IF b = 1 THEN 2 ELSE 0]
=============================================================================
