-------------------------- MODULE MCThreadSafeQueue --------------------------
(* Instance of ThreadSafeQueue for TLC. *)
EXTENDS ThreadSafeQueue
==============================================================================
