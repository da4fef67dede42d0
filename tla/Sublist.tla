------------------------------- MODULE Sublist -------------------------------
(***************************************************************************)
(* What std::remove, std::remove_if and std::unique keep of a list: the    *)
(* elements at some of its places, in their order.                         *)
(***************************************************************************)
EXTENDS Naturals, FiniteSets

(* rank[i] is the place the element at i moves to. *)
Chosen(s, places) ==
  LET rank == [i \in places |-> Cardinality({j \in places : j <= i})] IN
  [k \in 1..Cardinality(places) |-> s[CHOOSE i \in places : rank[i] = k]]
=============================================================================
