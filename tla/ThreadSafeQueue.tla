--------------------------- MODULE ThreadSafeQueue ---------------------------
(***************************************************************************)
(* icc::_private::containers::ThreadSafeQueue: a singly linked list of     *)
(* nodes behind a mutex, with a condition variable for waitPop and an      *)
(* interruption flag.                                                      *)
(*                                                                         *)
(* A critical section of mtx_ is one step: nothing but reset() touches the *)
(* state outside it, and reset() is a single store.  What the code does    *)
(* outside the lock is a step of its own: allocating the node of a push,   *)
(* freeing the node of a pop, the notify_all of interrupt(), the store of  *)
(* reset().  A thread blocked in cond_var_.wait has pc "sleep"; a notified *)
(* one has pc "pop" again and has to reacquire the mutex.                  *)
(***************************************************************************)
EXTENDS Naturals, Sequences, FiniteSets

CONSTANTS Thread,     \* threads that call the queue
          Node,       \* addresses the allocator may hand out
          Item,       \* items pushed
          NoItem,     \* TItem{}
          NULL        \* nullptr, and "no thread"

ASSUME NullAssumption == NULL \notin Node /\ NULL \notin Thread
ASSUME ItemAssumption == NoItem \notin Item

VARIABLES next,         \* next[n]: next_item_ of node n
          item,         \* item[n]: the item item_ptr_ of node n points to
          heap,         \* the nodes allocated and not yet deleted
          front, back,  \* front_item_, back_item_
          count,        \* item_count_
          interrupted,  \* interrupted_
          pc, ptr,      \* per thread: where it is, the node it holds
          got,          \* per thread: the item its last pop returned
          destroyer,    \* the thread in the destructor, or NULL
          chain         \* history: the linked nodes, oldest first

vars == <<next, item, heap, front, back, count, interrupted, pc, ptr, got,
          destroyer, chain>>
list == <<next, front, back, count, chain>>

PC == {"idle", "link", "pop", "sleep", "reclaim", "notify", "destroyed"}

TypeOK ==
  /\ next \in [Node -> Node \cup {NULL}]
  /\ item \in [Node -> Item \cup {NoItem}]
  /\ heap \subseteq Node
  /\ front \in Node \cup {NULL}
  /\ back \in Node \cup {NULL}
  /\ count \in Nat
  /\ interrupted \in BOOLEAN
  /\ pc \in [Thread -> PC]
  /\ ptr \in [Thread -> Node \cup {NULL}]
  /\ got \in [Thread -> Item \cup {NoItem}]
  /\ destroyer \in Thread \cup {NULL}
  /\ chain \in Seq(Node)

Init ==
  /\ next = [n \in Node |-> NULL]
  /\ item = [n \in Node |-> NoItem]
  /\ heap = {}
  /\ front = NULL
  /\ back = NULL
  /\ count = 0
  /\ interrupted = FALSE
  /\ pc = [t \in Thread |-> "idle"]
  /\ ptr = [t \in Thread |-> NULL]
  /\ got = [t \in Thread |-> NoItem]
  /\ destroyer = NULL
  /\ chain = <<>>

(* t is outside the queue and may call it: the queue still exists. *)
MayCall(t) == pc[t] = "idle" /\ destroyer = NULL

Goto(t, l) == pc' = [pc EXCEPT ![t] = l]

\* Mutant: the condition variable is not notified.
MutNotifyNobody(t, l) == Goto(t, l)

(* cond_var_.notify_all() by t, which goes to l. *)
NotifyAllGoto(t, l) ==
  pc' = [u \in Thread |-> IF u = t THEN l
                          ELSE IF pc[u] = "sleep" THEN "pop" ELSE pc[u]]

------------------------------------------------------------------------------
(* tryPush, before the lock: the node and the item are allocated and filled.
   With no address left the allocation fails and nothing changes. *)
Allocate(t, i) ==
  /\ MayCall(t)
  /\ \E n \in Node \ heap :
       /\ heap' = heap \cup {n}
       /\ item' = [item EXCEPT ![n] = i]
       /\ next' = [next EXCEPT ![n] = NULL]
       /\ ptr' = [ptr EXCEPT ![t] = n]
  /\ Goto(t, "link")
  /\ UNCHANGED <<front, back, count, interrupted, got, destroyer, chain>>

(* tryPush, under the lock: the node becomes the last one of the list. *)
LinkBack(n) ==
  /\ IF back = NULL
     THEN next' = [next EXCEPT ![n] = back] /\ front' = n
     ELSE /\ next' = [next EXCEPT ![n] = next[back], ![back] = n]
          /\ UNCHANGED front
  /\ back' = n
  /\ count' = count + 1
  /\ chain' = Append(chain, n)

Link(t) ==
  /\ pc[t] = "link"
  /\ LinkBack(ptr[t])
  /\ NotifyAllGoto(t, "idle")
  /\ ptr' = [ptr EXCEPT ![t] = NULL]
  /\ UNCHANGED <<item, heap, interrupted, got, destroyer>>

(* The private tryPop: the first node leaves the list. *)
UnlinkFront ==
  /\ front # NULL
  /\ IF front = back
     THEN front' = NULL /\ back' = NULL
     ELSE front' = next[front] /\ UNCHANGED back
  /\ count' = count - 1
  /\ chain' = Tail(chain)
  /\ UNCHANGED next

\* Mutant: the popped node is not handed to reclaimNode.
MutPopFrontLeaks(t) ==
  /\ UnlinkFront
  /\ got' = [got EXCEPT ![t] = item[front]]
  /\ Goto(t, "idle")
  /\ UNCHANGED ptr

(* t pops the first node and copies its item before it unlocks. *)
PopFront(t) ==
  /\ UnlinkFront
  /\ ptr' = [ptr EXCEPT ![t] = front]
  /\ got' = [got EXCEPT ![t] = item[front]]
  /\ Goto(t, "reclaim")

PopNothing(t, l) ==
  /\ got' = [got EXCEPT ![t] = NoItem]
  /\ Goto(t, l)
  /\ UNCHANGED list
  /\ UNCHANGED ptr

TryPop(t) ==
  /\ MayCall(t)
  /\ \/ PopFront(t)
     \/ front = NULL /\ PopNothing(t, "idle")
  /\ UNCHANGED <<item, heap, interrupted, destroyer>>

(* reclaimNode, after the unlock.  What a freed node held is forgotten. *)
Reclaim(t) ==
  /\ pc[t] = "reclaim"
  /\ heap' = heap \ {ptr[t]}
  /\ item' = [item EXCEPT ![ptr[t]] = NoItem]
  /\ next' = [next EXCEPT ![ptr[t]] = NULL]
  /\ ptr' = [ptr EXCEPT ![t] = NULL]
  /\ Goto(t, "idle")
  /\ UNCHANGED <<front, back, count, interrupted, got, destroyer, chain>>

------------------------------------------------------------------------------
(* waitPop: entered, then one round of its loop for each time the mutex is
   held.  An interrupted queue returns the empty item whatever it holds. *)
WaitPop(t) ==
  /\ MayCall(t)
  /\ Goto(t, "pop")
  /\ UNCHANGED <<list, item, heap, interrupted, ptr, got, destroyer>>

WaitPopInterrupted(t) ==
  /\ pc[t] = "pop"
  /\ interrupted
  /\ PopNothing(t, "idle")
  /\ UNCHANGED <<item, heap, interrupted, destroyer>>

WaitPopItem(t) ==
  /\ pc[t] = "pop"
  /\ ~interrupted
  /\ PopFront(t)
  /\ UNCHANGED <<item, heap, interrupted, destroyer>>

(* The wait: tryPop looked at front_item_, its predicate looks at
   item_count_. *)
WaitPopSleep(t) ==
  /\ pc[t] = "pop"
  /\ ~interrupted
  /\ front = NULL
  /\ count = 0
  /\ Goto(t, "sleep")
  /\ UNCHANGED <<list, item, heap, interrupted, ptr, got, destroyer>>

SpuriousWakeup(t) ==
  /\ pc[t] = "sleep"
  /\ Goto(t, "pop")
  /\ UNCHANGED <<list, item, heap, interrupted, ptr, got, destroyer>>

------------------------------------------------------------------------------
(* interrupt(): the flag under the lock, notify_all after it. *)
Interrupt(t) ==
  /\ MayCall(t)
  /\ interrupted' = TRUE
  /\ Goto(t, "notify")
  /\ UNCHANGED <<list, item, heap, ptr, got, destroyer>>

\* Mutant: interrupt() sets its flag and wakes nobody.
MutInterruptSilent(t) ==
  /\ pc[t] = "notify"
  /\ Goto(t, "idle")
  /\ UNCHANGED <<list, item, heap, interrupted, ptr, got, destroyer>>

InterruptNotify(t) ==
  /\ pc[t] = "notify"
  /\ NotifyAllGoto(t, "idle")
  /\ UNCHANGED <<list, item, heap, interrupted, ptr, got, destroyer>>

(* reset(): a store without the lock. *)
Reset(t) ==
  /\ MayCall(t)
  /\ interrupted' = FALSE
  /\ UNCHANGED <<list, item, heap, pc, ptr, got, destroyer>>

(* The destructor, which its owner calls once no thread is inside the queue:
   it pops until tryPop returns false. *)
Destroy(t) ==
  /\ destroyer = NULL
  /\ \A u \in Thread : pc[u] = "idle"
  /\ destroyer' = t
  /\ UNCHANGED <<list, item, heap, interrupted, pc, ptr, got>>

DestroyPop(t) ==
  /\ destroyer = t
  /\ pc[t] = "idle"
  /\ \/ PopFront(t)
     \/ front = NULL /\ PopNothing(t, "destroyed")
  /\ UNCHANGED <<item, heap, interrupted, destroyer>>

------------------------------------------------------------------------------
(* What t does once it is inside a call, and has to finish. *)
Step(t) ==
  \/ Link(t) \/ Reclaim(t) \/ InterruptNotify(t) \/ DestroyPop(t)
  \/ WaitPopInterrupted(t) \/ WaitPopItem(t) \/ WaitPopSleep(t)

Call(t) ==
  \/ \E i \in Item : Allocate(t, i)
  \/ TryPop(t) \/ WaitPop(t) \/ Interrupt(t) \/ Reset(t) \/ Destroy(t)

Next == \E t \in Thread : Call(t) \/ Step(t) \/ SpuriousWakeup(t)

(* A thread inside a call is scheduled, and gets the mutex it asks for: every
   critical section ends without waiting for anything. *)
Fairness == \A t \in Thread : WF_vars(Step(t))

Safety == Init /\ [][Next]_vars

Spec == Safety /\ Fairness

------------------------------------------------------------------------------
Linked == {chain[i] : i \in 1..Len(chain)}

(* The pointers and the counter always describe one well-formed list: the
   first and the last node, each link, the null at the end and item_count_
   agree with the nodes that were linked and not yet popped, none of them
   twice (the pointer surgery of tryPush and tryPop). *)
ListShape ==
  /\ count = Len(chain)
  /\ front = IF chain = <<>> THEN NULL ELSE chain[1]
  /\ back = IF chain = <<>> THEN NULL ELSE chain[Len(chain)]
  /\ \A i \in 1..Len(chain) :
       next[chain[i]] = IF i = Len(chain) THEN NULL ELSE chain[i + 1]
  /\ \A i, j \in 1..Len(chain) : chain[i] = chain[j] => i = j

(* Every allocated node belongs to exactly one party, the list or the one
   thread that is about to link or to delete it: no node is deleted twice,
   leaked, or deleted while it is still linked (the hand-over of a node
   between a locked pop and the unlocked reclaimNode). *)
Holding(t) == pc[t] \in {"link", "reclaim"}

Ownership ==
  /\ \A t \in Thread : Holding(t) <=> ptr[t] # NULL
  /\ \A t, u \in Thread : ptr[t] # NULL /\ ptr[t] = ptr[u] => t = u
  /\ \A t \in Thread : ptr[t] \notin Linked
  /\ heap = Linked \cup {ptr[t] : t \in {u \in Thread : Holding(u)}}

(* A thread sleeps in waitPop only while there is nothing to return: when the
   list is not empty nobody sleeps, and when the queue is interrupted somebody
   is about to notify (push notifies under the lock, interrupt after it). *)
NoLostWakeup ==
  \A t \in Thread : pc[t] = "sleep" =>
    /\ chain = <<>>
    /\ interrupted => \E u \in Thread : pc[u] = "notify"

------------------------------------------------------------------------------
(* The promise: the linked list seen as a sequence of items, a thread inside
   waitPop seen as waiting whether it sleeps or not. *)
Contents == [i \in 1..Len(chain) |-> item[chain[i]]]
Waiting == {t \in Thread : pc[t] \in {"pop", "sleep"}}

Fifo == INSTANCE FifoQueue WITH items <- Contents, waiting <- Waiting

(* The queue implements the FIFO that Context and ThreadPool rely on, its
   liveness included: an item or an interruption that stays reaches a thread
   blocked in waitPop. *)
ImplementsFifo == Fifo!Spec

(* Safety part of the same refinement, with no fairness. *)
ImplementsFifoSafety == Fifo!Safety
==============================================================================
