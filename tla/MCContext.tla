------------------------------ MODULE MCContext ------------------------------
(***************************************************************************)
(* Context in two situations: two threads that may both run it and nobody  *)
(* who stops it, one that runs it while two may stop it; and in the one    *)
(* that shows what a third thread may do once it is stopped.               *)
(***************************************************************************)
EXTENDS Context

CONSTANTS r, u, Scenarios

VARIABLE scenario

Active == IF scenario = "stop" THEN {r, u} ELSE Thread

Allowed ==
  CASE scenario = "race" -> \A t \in Thread : call[t] # "stop"
    [] scenario = "stop" -> pc[u] = "out" /\ pushed <= 2
    [] OTHER             -> TRUE

MCNext ==
  /\ \E t \in Active : UserCall(t) \/ Finish(t) \/ LoopStep(t)
  /\ UNCHANGED scenario
  /\ Allowed'

mcvars == <<vars, scenario>>
MCInit == Init /\ scenario \in Scenarios
MCSpec == MCInit /\ [][MCNext]_mcvars /\ Fairness
==============================================================================
