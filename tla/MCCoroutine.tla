---------------------------- MODULE MCCoroutine -----------------------------
(***************************************************************************)
(* Coroutine in four situations: two roots and a client, a root that       *)
(* starts and awaits others, wake-ups nobody asked for, exceptions.        *)
(***************************************************************************)
EXTENDS Coroutine

CONSTANTS a, b, d, e, k1, Scenarios

VARIABLE scenario

(* A negative, no and a positive time. *)
Signs == -1..1

New(cs) == \A c \in cs : at[c] = "new"
NoClient == \A k \in Client : client[k].pc = "idle"

Allowed ==
  /\ awaited[e] = 0
  /\ CASE scenario = "roots"    -> New({d, e}) /\ awaited[a] <= 1 /\ awaited[b] <= 1
                                /\ spurious = 0 /\ throws = 0
       [] scenario = "nested"   -> New({b}) /\ NoClient /\ spurious = 0 /\ throws = 0
       [] scenario = "spurious" -> /\ New({b, e}) /\ throws = 0 /\ awaited[a] <= 1
                                /\ \A k \in Client : client[k].pc # "idle" => k = k1
       [] scenario = "throws"   -> awaited[d] <= 1 /\ New({b}) /\ NoClient /\ spurious = 0

mcvars == <<vars, scenario>>
MCInit == Init /\ scenario \in Scenarios
MCNext == Next /\ UNCHANGED scenario /\ Allowed'
MCSpec == MCInit /\ [][MCNext]_mcvars /\ Fairness
=============================================================================
