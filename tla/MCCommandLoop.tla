---------------------------- MODULE MCCommandLoop ----------------------------
(***************************************************************************)
(* Instances of CommandLoop for TLC.  Commands of one kind and clients are *)
(* interchangeable: a is pushed before b, and k2 calls while a call of k1  *)
(* is in progress.                                                         *)
(***************************************************************************)
EXTENDS CommandLoop

CONSTANTS a, b, k1, k2

(* The sets of flags the runs give the loop. *)
Default == {{}}
FiniteModes == {{}, {"MultiCommand"}, {"MultiCommand", "Transaction"}}

MCNext ==
  /\ Next
  /\ pushed'[b] > 0 => pushed'[a] > 0
  /\ calling[k2] = None /\ calling'[k2] # None => calling[k1] # None

MCSpec == Init /\ [][MCNext]_vars /\ Fairness
==============================================================================
