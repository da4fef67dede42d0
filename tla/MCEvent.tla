------------------------------- MODULE MCEvent -------------------------------
(* Instance of Event for TLC. *)
EXTENDS Event, TLC

(* Checked listeners are interchangeable, and so are values. *)
Symmetry == Permutations(Listener \ Unchecked) \cup Permutations(Value)
==============================================================================
