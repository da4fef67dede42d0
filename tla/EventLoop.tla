----------------------------- MODULE EventLoop ------------------------------
(***************************************************************************)
(* icc::os::EventLoop on posix: one thread around select(), and the lists  *)
(* of descriptors it watches.  Other threads never touch these lists: they *)
(* append what is to be added or removed to lists of their own, under the  *)
(* mutex, and write to an eventfd that the loop watches too.               *)
(*                                                                         *)
(* The objects with a descriptor are timers and sockets.  The factory of   *)
(* an object registers its callbacks; the deleter of the last pointer to   *)
(* it removes them and closes the descriptor.  It does not delete the      *)
(* object, so the callbacks of two objects never compare equal, while the  *)
(* number of the descriptor may be given to another object.                *)
(*                                                                         *)
(* What a callback does is left open here: it returns, or not.  A critical *)
(* section of internal_mtx_ is one step.                                   *)
(***************************************************************************)
EXTENDS Integers, SequencesExt, Sublist

CONSTANTS Object,       \* what has a descriptor: timers and sockets
          EventsOf,     \* EventsOf[o]: the events its factory registers
          Fd,           \* numbers the system gives to their descriptors
          EventFd,      \* the number of the eventfd
          StackBits,    \* what the stack of run() may hold in an fd_set
          MaxRuns       \* bound: calls of run()

Event == {"READ", "WRITE"}

ASSUME EventLoopAssumption ==
  /\ EventsOf \in [Object -> Seq(Event) \ {<<>>}]
  /\ Fd \subseteq Nat
  /\ EventFd \in Nat \ Fd
  /\ StackBits \subseteq SUBSET Fd
  /\ MaxRuns \in Nat

VARIABLES execute,      \* execute_
          eventfd,      \* the counter behind event_loop_handle_
          adds,         \* adds[e]: add_read_listeners_, add_write_listeners_
          removes,      \* removes[e]: remove_read_listeners_, ...
          listeners,    \* listeners[e]: read_listeners_, write_listeners_
          bits,         \* bits[e]: readFds, writeFds
          lpc,          \* where the loop's thread is in run()
          calls,        \* the callbacks the round has still to call
          runs,         \* calls of run() so far
          stopping,     \* a stop() is between its store and its write
          life,         \* life[o]: how far o is
          todo,         \* todo[o]: the events left to register or unregister
          fd            \* fd[o]: its descriptor, EventFd while it has none

registry == <<adds, removes>>
objectVars == <<life, todo, fd>>
roundVars == <<listeners, bits, lpc, calls>>
loopVars == <<execute, eventfd, roundVars, runs, stopping>>
eventLoopVars == <<loopVars, registry, objectVars>>

(* A function_wrapper: compared by the object it is bound to.  One that was
   moved from is empty, and compares as before. *)
Callback == [of : Object, empty : BOOLEAN]
Bound(o) == [of |-> o, empty |-> FALSE]

Running == {"test", "select", "woken", "call"}

EventLoopTypeOK ==
  /\ execute \in BOOLEAN
  /\ eventfd \in {"none", "clear", "raised"}
  /\ adds \in [Event -> Seq(Object)]
  /\ removes \in [Event -> Seq(Object)]
  /\ listeners \in [Event -> Seq([fd : Fd, callbacks : Seq(Callback)])]
  /\ bits \in [Event -> SUBSET (Fd \cup {EventFd})]
  /\ lpc \in Running \cup {"idle", "begin", "ended", "dead"}
  /\ calls \in Seq([event : Event, callback : Callback])
  /\ runs \in 0..MaxRuns
  /\ stopping \in BOOLEAN
  /\ life \in [Object -> {"new", "opening", "alive", "closing", "closed"}]
  /\ todo \in [Object -> Seq(Event)]
  /\ fd \in [Object -> Fd \cup {EventFd}]

(* The fd_sets are not zeroed: the first round starts with what its stack
   holds, the later ones with what the last one left. *)
EventLoopInit ==
  /\ execute = TRUE
  /\ eventfd = "none"
  /\ adds = [e \in Event |-> <<>>]
  /\ removes = [e \in Event |-> <<>>]
  /\ listeners = [e \in Event |-> <<>>]
  /\ bits \in [Event -> StackBits]
  /\ lpc = "idle"
  /\ calls = <<>>
  /\ runs = 0
  /\ stopping = FALSE
  /\ life = [o \in Object |-> "new"]
  /\ todo = EventsOf
  /\ fd = [o \in Object |-> EventFd]

------------------------------------------------------------------------------
(* The lists of the loop: one entry per descriptor, with its callbacks. *)

FindOSObject(ls, o) == SelectInSeq(ls, LAMBDA l : l.fd = fd[o])

(* std::unique and the erase that follows: of neighbours that are equal the
   first stays. *)
Unique(cs) == Chosen(cs, {i \in DOMAIN cs : i = 1 \/ cs[i - 1].of # cs[i].of})

(* std::remove and an erase of one element: the callbacks of others move up,
   and of what the moves leave behind them only the first goes. *)
RemoveOne(cs, o) ==
  LET kept == Chosen(cs, {i \in DOMAIN cs : cs[i].of # o})
      left == SubSeq(cs, Len(kept) + 2, Len(cs))
  IN  kept \o [i \in DOMAIN left |->
                 [left[i] EXCEPT !.empty = @ \/ left[i].of # o]]

AddFdTo(ls, o) ==
  LET i == FindOSObject(ls, o)
  IN  IF i = 0
      THEN Append(ls, [fd |-> fd[o], callbacks |-> <<Bound(o)>>])
      ELSE [ls EXCEPT ![i].callbacks = Unique(Append(@, Bound(o)))]

RemoveFdFrom(ls, o) ==
  LET i == FindOSObject(ls, o)
      rest == RemoveOne(ls[i].callbacks, o)
  IN  IF i = 0 THEN ls
      ELSE IF rest = <<>> THEN RemoveAt(ls, i)
      ELSE [ls EXCEPT ![i].callbacks = rest]

AddAll(ls, os) ==
  LET after[n \in 0..Len(os)] ==
        IF n = 0 THEN ls ELSE AddFdTo(after[n - 1], os[n])
  IN  after[Len(os)]

RemoveAll(ls, os) ==
  LET after[n \in 0..Len(os)] ==
        IF n = 0 THEN ls ELSE RemoveFdFrom(after[n - 1], os[n])
  IN  after[Len(os)]

\* Mutant: the removals are applied before the additions.
MutUpdatedRemovalsFirst ==
  [e \in Event |-> AddAll(RemoveAll(listeners[e], removes[e]), adds[e])]

(* Every addition ever made, then every removal: nothing clears these lists. *)
Updated ==
  [e \in Event |-> RemoveAll(AddAll(listeners[e], adds[e]), removes[e])]

Listed(e) == {listeners[e][i].fd : i \in DOMAIN listeners[e]}

------------------------------------------------------------------------------
(* Factories and deleters, on any thread, that of the loop included. *)

Opened == {o \in Object : life[o] \in {"opening", "alive", "closing"}}
OpenFds == {fd[o] : o \in Opened}

(* timerfd_create, socket or accept gives a number that is free. *)
Open(o) ==
  /\ life[o] = "new"
  /\ \E n \in Fd \ OpenFds : fd' = [fd EXCEPT ![o] = n]
  /\ life' = [life EXCEPT ![o] = "opening"]
  /\ UNCHANGED <<loopVars, registry, todo>>

(* A write to a handle of -1 fails, and nobody looks at the result. *)
EventFdWrite == eventfd' = IF eventfd = "none" THEN "none" ELSE "raised"

Register(o) ==
  /\ life[o] = "opening"
  /\ adds' = [adds EXCEPT ![Head(todo[o])] = Append(@, o)]
  /\ EventFdWrite
  /\ todo' = [todo EXCEPT ![o] = Tail(@)]
  /\ life' = [life EXCEPT ![o] = IF todo'[o] = <<>> THEN "alive" ELSE @]
  /\ UNCHANGED <<execute, roundVars, runs, stopping, removes, fd>>

(* The last pointer to o goes, or its factory cannot connect or bind it. *)
Release(o) ==
  /\ life[o] = "alive"
  /\ life' = [life EXCEPT ![o] = "closing"]
  /\ todo' = [todo EXCEPT ![o] = EventsOf[o]]
  /\ UNCHANGED <<loopVars, registry, fd>>

Unregister(o) ==
  /\ life[o] = "closing"
  /\ todo[o] # <<>>
  /\ removes' = [removes EXCEPT ![Head(todo[o])] = Append(@, o)]
  /\ EventFdWrite
  /\ todo' = [todo EXCEPT ![o] = Tail(@)]
  /\ UNCHANGED <<execute, roundVars, runs, stopping, adds, life, fd>>

Close(o) ==
  /\ life[o] = "closing"
  /\ todo[o] = <<>>
  /\ life' = [life EXCEPT ![o] = "closed"]
  /\ UNCHANGED <<loopVars, registry, todo, fd>>

------------------------------------------------------------------------------
(* run() and stop(). *)

(* run() may be called again when it is over; its eventfd is a new one. *)
RunBegin ==
  /\ lpc \in {"idle", "ended"}
  /\ runs < MaxRuns
  /\ eventfd' = "clear"
  /\ lpc' = "begin"
  /\ runs' = runs + 1
  /\ UNCHANGED <<execute, listeners, bits, calls, stopping, registry, objectVars>>

(* execute_.store(true), whatever a stop() has stored since the eventfd is
   there, and the first update. *)
RunApply ==
  /\ lpc = "begin"
  /\ execute' = TRUE
  /\ listeners' = Updated
  /\ lpc' = "test"
  /\ UNCHANGED <<eventfd, bits, calls, runs, stopping, registry, objectVars>>

RunEnd ==
  /\ lpc \in {"test", "woken"}
  /\ ~execute
  /\ lpc' = "ended"
  /\ UNCHANGED <<execute, eventfd, listeners, bits, calls, runs, stopping,
                 registry, objectVars>>

(* What select() is asked to watch: FD_SET and initFds add to what the sets
   hold; descriptors above the highest one that is listed are not looked at. *)
Watched(e) ==
  bits[e] \cup Listed(e) \cup (IF e = "READ" THEN {EventFd} ELSE {})

\* Mutant: the highest descriptor is that of the eventfd.
MutMaxFdOfEvent == EventFd

MaxFd == CHOOSE m \in {EventFd} \cup UNION {Listed(e) : e \in Event} :
           \A n \in UNION {Listed(e) : e \in Event} \cup {EventFd} : n <= m

(* A closed descriptor among them: select() fails at once, and leaves in the
   sets all that was put there. *)
BadFd == \E e \in Event : \E n \in Watched(e) \ (OpenFds \cup {EventFd}) : n <= MaxFd

EnterSelect ==
  /\ lpc = "test"
  /\ execute
  /\ bits' = [e \in Event |-> {n \in Watched(e) : BadFd \/ n <= MaxFd}]
  /\ lpc' = IF BadFd THEN "woken" ELSE "select"
  /\ UNCHANGED <<execute, eventfd, listeners, calls, runs, stopping, registry,
                 objectVars>>

(* select() returns with the descriptors that are ready.  One that was closed
   meanwhile is reported or not; ready[e] are the others. *)
SelectReturn(ready) ==
  /\ lpc = "select"
  /\ \E reported \in [Event -> SUBSET (Fd \ OpenFds)] :
       bits' = [e \in Event |->
                  bits[e] \cap (ready[e] \cup reported[e] \cup
                    IF eventfd = "raised" THEN {EventFd} ELSE {})]
  /\ \E e \in Event : bits'[e] # {}
  /\ lpc' = "woken"
  /\ UNCHANGED <<execute, eventfd, listeners, calls, runs, stopping, registry,
                 objectVars>>

\* Mutant: nobody calls the callbacks of the second set.
MutCalledReadOnly(ls) ==
  FlattenSeq([i \in DOMAIN ls["READ"] |->
    IF ls["READ"][i].fd \in bits["READ"]
    THEN [k \in DOMAIN ls["READ"][i].callbacks |->
            [event |-> "READ", callback |-> ls["READ"][i].callbacks[k]]]
    ELSE <<>>])

(* The callbacks of the descriptors in the sets, in the order of the lists. *)
Called(ls) ==
  LET Of(e) == FlattenSeq([i \in DOMAIN ls[e] |->
                 IF ls[e][i].fd \in bits[e]
                 THEN [k \in DOMAIN ls[e][i].callbacks |->
                         [event |-> e, callback |-> ls[e][i].callbacks[k]]]
                 ELSE <<>>])
  IN  Of("READ") \o Of("WRITE")

(* handleLoopEvents, and the calls that handleHandlesEvents will make.  The
   counter is not blocking; if the read of it fails, the value tested is the
   one the stack holds. *)
HandleEvents ==
  /\ lpc = "woken"
  /\ execute
  /\ \/ /\ EventFd \in bits["READ"]
        /\ listeners' = Updated
        /\ eventfd' = "clear"
     \/ /\ EventFd \notin bits["READ"] \/ eventfd = "clear"
        /\ UNCHANGED <<listeners, eventfd>>
  /\ calls' = Called(listeners')
  /\ lpc' = IF calls' = <<>> THEN "test" ELSE "call"
  /\ UNCHANGED <<execute, bits, runs, stopping, registry, objectVars>>

InCallback(o, e) ==
  /\ lpc = "call"
  /\ Head(calls) = [event |-> e, callback |-> Bound(o)]

(* The callback returns. *)
CallbackReturn ==
  /\ lpc = "call"
  /\ ~Head(calls).callback.empty
  /\ calls' = Tail(calls)
  /\ lpc' = IF calls' = <<>> THEN "test" ELSE "call"
  /\ UNCHANGED <<execute, eventfd, listeners, bits, runs, stopping, registry,
                 objectVars>>

(* An empty function is called: std::bad_function_call leaves run(). *)
CallEmpty ==
  /\ lpc = "call"
  /\ Head(calls).callback.empty
  /\ lpc' = "dead"
  /\ UNCHANGED <<execute, eventfd, listeners, bits, calls, runs, stopping,
                 registry, objectVars>>

(* stop() without an eventfd does nothing. *)
StopStore ==
  /\ ~stopping
  /\ eventfd # "none"
  /\ execute' = FALSE
  /\ stopping' = TRUE
  /\ UNCHANGED <<eventfd, roundVars, runs, registry, objectVars>>

\* Mutant: stop() does not write to the eventfd.
MutStopWakeSilent ==
  /\ stopping
  /\ stopping' = FALSE
  /\ UNCHANGED <<execute, eventfd, roundVars, runs, registry, objectVars>>

StopWake ==
  /\ stopping
  /\ EventFdWrite
  /\ stopping' = FALSE
  /\ UNCHANGED <<execute, roundVars, runs, registry, objectVars>>

------------------------------------------------------------------------------
(* Properties. *)

Registered(o, e) ==
  /\ o \in ToSet(adds[e])
  /\ o \notin ToSet(removes[e])

(* No number of a descriptor has been given to two objects. *)
NoReuse ==
  \A o, p \in Object : o # p /\ fd[o] = fd[p] => fd[o] = EventFd

(* While nothing is left to be read from the eventfd, a loop that has read its
   lists watches the objects that are registered, each by its own callback
   and once, and no others: no registration or removal is lost, whatever the
   loop was doing when it was made, and applying the old ones again has no
   effect, as long as the system gives no number twice. *)
ListsCurrent ==
  NoReuse /\ lpc \in Running /\ eventfd = "clear" =>
    \A e \in Event :
      /\ \A i, j \in DOMAIN listeners[e] :
           listeners[e][i].fd = listeners[e][j].fd => i = j
      /\ {<<l.fd, l.callbacks>> : l \in ToSet(listeners[e])}
           = {<<fd[o], <<Bound(o)>>>> : o \in {p \in Object : Registered(p, e)}}
=============================================================================
