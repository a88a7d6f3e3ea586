---------------------------- MODULE MCThreadPool ----------------------------
(* ThreadPool for model checking; it has no counter to bound. *)
EXTENDS ThreadPool
=============================================================================
