----------------------------- MODULE MCComponent -----------------------------
(* Instance of Component for TLC. *)
EXTENDS Component
==============================================================================
