------------------------------ MODULE FifoQueue ------------------------------
(***************************************************************************)
(* What icc's ThreadSafeQueue promises its users: a FIFO of items, shared  *)
(* by threads, from which a thread takes without blocking (tryPop) or      *)
(* blocks until there is an item or the queue is interrupted (waitPop).    *)
(* No nodes, no mutex and no condition variable: ThreadSafeQueue has those *)
(* and implements this module; Context and ThreadPool are built on this    *)
(* one.                                                                    *)
(***************************************************************************)
EXTENDS Sequences

CONSTANTS Thread,     \* the threads that use the queue
          Item,       \* what is queued
          NoItem      \* the default-constructed item an interrupted waitPop returns;
                      \* not an Item, which the modules that use this one assume

VARIABLES items,        \* the queued items, oldest first
          interrupted,  \* interrupted_
          waiting,      \* the threads inside waitPop
          got           \* got[t]: what the last pop of t returned

vars == <<items, interrupted, waiting, got>>

TypeOK ==
  /\ items \in Seq(Item)
  /\ interrupted \in BOOLEAN
  /\ waiting \subseteq Thread
  /\ got \in [Thread -> Item \cup {NoItem}]

Init ==
  /\ items = <<>>
  /\ interrupted = FALSE
  /\ waiting = {}
  /\ got = [t \in Thread |-> NoItem]

\* Mutant: the newest item comes first.
MutPutFront(i) ==
  /\ items' = <<i>> \o items
  /\ UNCHANGED <<interrupted, waiting, got>>

(* push *)
Put(i) ==
  /\ items' = Append(items, i)
  /\ UNCHANGED <<interrupted, waiting, got>>

TakeHead(t) ==
  /\ items # <<>>
  /\ got' = [got EXCEPT ![t] = Head(items)]
  /\ items' = Tail(items)

(* tryPop: the oldest item, or nothing when there is none; it does not look
   at the interruption. *)
TryTake(t) ==
  /\ t \notin waiting
  /\ \/ TakeHead(t)
     \/ items = <<>> /\ got' = [got EXCEPT ![t] = NoItem] /\ UNCHANGED items
  /\ UNCHANGED <<interrupted, waiting>>

(* waitPop is entered ... *)
Ask(t) ==
  /\ t \notin waiting
  /\ waiting' = waiting \cup {t}
  /\ UNCHANGED <<items, interrupted, got>>

(* ... and returns the oldest item, unless the queue is interrupted ... *)
Serve(t) ==
  /\ t \in waiting
  /\ ~interrupted
  /\ TakeHead(t)
  /\ waiting' = waiting \ {t}
  /\ UNCHANGED interrupted

\* Mutant: an interrupted waitPop pops an item and then returns none.
MutGiveUpPops(t) ==
  /\ t \in waiting
  /\ interrupted
  /\ got' = [got EXCEPT ![t] = NoItem]
  /\ waiting' = waiting \ {t}
  /\ items' = SubSeq(items, 2, Len(items))
  /\ UNCHANGED interrupted

(* ... or the empty item when it is, items queued or not. *)
GiveUp(t) ==
  /\ t \in waiting
  /\ interrupted
  /\ got' = [got EXCEPT ![t] = NoItem]
  /\ waiting' = waiting \ {t}
  /\ UNCHANGED <<items, interrupted>>

Interrupt ==
  /\ interrupted' = TRUE
  /\ UNCHANGED <<items, waiting, got>>

\* Mutants: reset() empties the queue; reset() does nothing.
MutResetEmpties ==
  /\ interrupted' = FALSE
  /\ items' = <<>>
  /\ UNCHANGED <<waiting, got>>

MutResetNothing == UNCHANGED vars

Reset ==
  /\ interrupted' = FALSE
  /\ UNCHANGED <<items, waiting, got>>

Next ==
  \/ \E i \in Item : Put(i)
  \/ \E t \in Thread : TryTake(t) \/ Ask(t) \/ Serve(t) \/ GiveUp(t)
  \/ Interrupt
  \/ Reset

(* A waitPop that could return forever does return: the wake-ups are not
   lost. *)
Fairness == \A t \in Thread : WF_vars(Serve(t) \/ GiveUp(t))

Safety == Init /\ [][Next]_vars

Spec == Safety /\ Fairness
==============================================================================
