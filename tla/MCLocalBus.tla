----------------------------- MODULE MCLocalBus ------------------------------
(* Instance of LocalBus for TLC. *)
EXTENDS LocalBus

CONSTANT name

(* All clients look for the same name. *)
SameName == [c \in Client |-> name]
==============================================================================
