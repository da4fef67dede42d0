------------------------------- MODULE Event --------------------------------
(***************************************************************************)
(* icc::Event and icc::Attribute: lists of listeners behind a mutex, and   *)
(* an emission that copies them under the mutex and then, without it,      *)
(* pushes one lambda per listener to the context of the listener.          *)
(*                                                                         *)
(* A checked listener is held by a weak pointer: the emission locks it for *)
(* the push, and the lambda locks it again to call it, on the thread of    *)
(* the context.  The last strong pointer destroys it, wherever it is       *)
(* dropped.  An unchecked listener is a plain pointer, and lives as long   *)
(* as the event: that is what its program has to ensure.  Contexts outlive *)
(* the listeners.                                                          *)
(*                                                                         *)
(* One thread sets the value of the attribute, which has no lock of its    *)
(* own; the others emit values directly.  The const emission, which takes  *)
(* no lock, is left out.                                                   *)
(***************************************************************************)
EXTENDS Naturals, Sequences, FiniteSets, Sublist

CONSTANTS Listener,     \* components that listen
          Unchecked,    \* those connected by a plain pointer
          Method,       \* their methods
          Emitter,      \* threads that emit
          Setter,       \* the one that sets the attribute
          Value,        \* values of the attribute
          NULL,         \* nullptr
          MaxChanges,   \* bound: what the program does to event and listeners
          MaxEmissions  \* bound: emissions

ASSUME EventAssumption ==
  /\ Unchecked \subseteq Listener
  /\ IsFiniteSet(Emitter) /\ Setter \in Emitter
  /\ NULL \notin Listener \cup Value
  /\ MaxChanges \in Nat
  /\ MaxEmissions \in Nat

VARIABLES unchecked, checked, \* unchecked_listeners_, checked_listeners_
          copied,     \* the listeners of the std::function made of the event
          field,      \* field_
          owned,      \* owned[l]: the program holds a pointer to l
          refs,       \* refs[l]: strong pointers to l
          open,       \* open[l]: l has its channel
          inbox,      \* inbox[l]: lambdas queued for l
          running,    \* running[l]: the lambda of l being executed
          current,    \* current[e]: the emission e is in, or 0
          todo,       \* todo[e]: the listeners it has not reached
          locked,     \* locked[e]: the listener it has locked
          changes,    \* history: what the program has done to them so far
          emissions,  \* history: the emissions
          log,        \* history: log[l]: the calls of l that are over
          cut,        \* history: cut[<<l, m>>]: emissions begun when m left
          died        \* history: died[l]: emissions begun when l was destroyed

lists == <<unchecked, checked, copied>>
life == <<owned, refs, died>>
emitting == <<current, todo, locked>>
vars == <<lists, life, emitting, field, open, inbox, running, changes, emissions,
          log, cut>>

Entry == [who : Listener, method : Method]
Ids == 1..MaxEmissions
Emission == [by : Emitter, value : Value \cup {NULL}, due : Seq(Entry),
             of : {"event", "function"}]
Delivery == [id : Ids, method : Method]
None == [id |-> 0]

TypeOK ==
  /\ unchecked \in Seq(Entry)
  /\ checked \in Seq(Entry)
  /\ copied \in Seq(Entry)
  /\ field \in Value
  /\ owned \in [Listener -> BOOLEAN]
  /\ refs \in [Listener -> 0..(Cardinality(Emitter) + 2)]
  /\ open \in [Listener -> BOOLEAN]
  /\ inbox \in [Listener -> Seq(Delivery)]
  /\ running \in [Listener -> Delivery \cup {None}]
  /\ current \in [Emitter -> 0..MaxEmissions]
  /\ todo \in [Emitter -> Seq(Entry)]
  /\ locked \in [Emitter -> Listener \cup {NULL}]
  /\ changes \in 0..MaxChanges
  /\ emissions \in Seq(Emission)
  /\ log \in [Listener -> Seq(Delivery)]
  /\ cut \in [Listener \X Method -> 0..(MaxEmissions + 1)]
  /\ died \in [Listener -> 0..(MaxEmissions + 1)]

(* A listener that is connected, or lives, has its cut, or its death, after
   all emissions. *)
Never == MaxEmissions + 1

Init ==
  /\ unchecked = <<>>
  /\ checked = <<>>
  /\ copied = <<>>
  /\ field \in Value
  /\ owned = [l \in Listener |-> TRUE]
  /\ refs = [l \in Listener |-> 1]
  /\ open = [l \in Listener |-> TRUE]
  /\ inbox = [l \in Listener |-> <<>>]
  /\ running = [l \in Listener |-> None]
  /\ current = [e \in Emitter |-> 0]
  /\ todo = [e \in Emitter |-> <<>>]
  /\ locked = [e \in Emitter |-> NULL]
  /\ changes = 0
  /\ emissions = <<>>
  /\ log = [l \in Listener |-> <<>>]
  /\ cut = [x \in Listener \X Method |-> 0]
  /\ died = [l \in Listener |-> Never]

Alive(l) == refs[l] > 0

(* weak_ptr::lock() of a listener that is alive, and the end of a strong
   pointer. *)
Lock(l) == refs' = [refs EXCEPT ![l] = @ + 1] /\ UNCHANGED died

Unlock(l) ==
  /\ refs' = [refs EXCEPT ![l] = @ - 1]
  /\ died' = IF refs[l] = 1 THEN [died EXCEPT ![l] = Len(emissions)] ELSE died

------------------------------------------------------------------------------
(* The program. *)
Change == changes < MaxChanges /\ changes' = changes + 1

(* Connections, under the mutex. *)
Connect(l, m) ==
  /\ Change
  /\ owned[l]
  /\ LET entry == [who |-> l, method |-> m] IN
       IF l \in Unchecked
       THEN unchecked' = Append(unchecked, entry) /\ UNCHANGED checked
       ELSE checked' = Append(checked, entry) /\ UNCHANGED unchecked
  /\ cut' = [cut EXCEPT ![<<l, m>>] = Never]
  /\ UNCHANGED <<copied, life, emitting, field, open, inbox, running,
                 emissions, log>>

(* remove_if and erase: the entries that are kept. *)
Only(s, kept) == Chosen(s, {i \in DOMAIN s : s[i] \in kept})

(* The remove_if of disconnect: every entry of the method goes, and every
   checked listener that is gone; an unchecked one never is. *)
Remaining(s, l, m) ==
  Only(s, {x \in Entry : x # [who |-> l, method |-> m] /\ Alive(x.who)})

Disconnect(l, m) ==
  /\ Change
  /\ owned[l]
  /\ IF l \in Unchecked
     THEN unchecked' = Remaining(unchecked, l, m) /\ UNCHANGED checked
     ELSE checked' = Remaining(checked, l, m) /\ UNCHANGED unchecked
  /\ cut' = [cut EXCEPT ![<<l, m>>] = Len(emissions)]
  /\ UNCHANGED <<copied, life, emitting, field, open, inbox, running,
                 emissions, log>>

DisconnectAll ==
  /\ Change
  /\ unchecked' = <<>>
  /\ checked' = <<>>
  /\ cut' = [x \in Listener \X Method |-> Len(emissions)]
  /\ UNCHANGED <<copied, life, emitting, field, open, inbox, running,
                 emissions, log>>

(* operator std::function: the function has the checked listeners of now.  Its
   program does not assign it while a thread calls it. *)
MakeFunction ==
  /\ Change
  /\ \A e \in Emitter : current[e] # 0 => emissions[current[e]].of = "event"
  /\ copied' = checked
  /\ UNCHANGED <<unchecked, checked, life, emitting, field, open, inbox,
                 running,
                 emissions, log, cut>>

(* The program lets a checked listener go; a listener exits. *)
Release(l) ==
  /\ Change
  /\ owned[l]
  /\ l \notin Unchecked
  /\ owned' = [owned EXCEPT ![l] = FALSE]
  /\ Unlock(l)
  /\ UNCHANGED <<lists, emitting, field, open, inbox, running, emissions, log,
                 cut>>

Exit(l) ==
  /\ Change
  /\ Alive(l)
  /\ open[l]
  /\ open' = [open EXCEPT ![l] = FALSE]
  /\ UNCHANGED <<lists, life, emitting, field, inbox, running, emissions, log,
                 cut>>

------------------------------------------------------------------------------
(* The emission.  copyClients() takes the lists under the mutex. *)
Begin(e, v, of) ==
  /\ current[e] = 0
  /\ Len(emissions) < MaxEmissions
  /\ current' = [current EXCEPT ![e] = Len(emissions) + 1]
  /\ todo' = [todo EXCEPT ![e] = IF of = "event" THEN unchecked \o checked ELSE copied]
  /\ emissions' = Append(emissions, [by |-> e, value |-> v, due |-> todo'[e], of |-> of])
  /\ UNCHANGED <<lists, life, locked, changes, open, inbox, running, log, cut>>

(* A direct emission: of its value no property speaks. *)
Emit(e, of) ==
  /\ e # Setter
  /\ Begin(e, NULL, of)
  /\ UNCHANGED field

\* Mutant: setValue emits before it stores.
MutSetValueEarly(v) ==
  /\ v # field
  /\ field' = v
  /\ Begin(Setter, field, "event")

(* setValue: nothing happens if the value is the one it has. *)
SetValue(v) ==
  /\ v # field
  /\ field' = v
  /\ Begin(Setter, v, "event")

\* Mutant: the emission walks over the lists themselves.
MutPendingLive(e) ==
  SelectSeq(todo[e], LAMBDA x : \E i \in 1..Len(unchecked \o checked) :
                                  (unchecked \o checked)[i] = x)

(* The part of the copies it has not reached. *)
Pending(e) == todo[e]

Push(e, x) ==
  inbox' = IF open[x.who]
           THEN [inbox EXCEPT ![x.who] =
                   Append(@, [id |-> current[e], method |-> x.method])]
           ELSE inbox

PushUnchecked(e) ==
  /\ Pending(e) # <<>>
  /\ LET x == Head(Pending(e)) IN x.who \in Unchecked /\ Push(e, x)
  /\ todo' = [todo EXCEPT ![e] = Tail(Pending(e))]
  /\ UNCHANGED <<lists, life, current, locked, changes, field, open, running,
                 emissions, log, cut>>

(* client.lock(): one that is gone is passed over. *)
TryLock(e) ==
  /\ Pending(e) # <<>>
  /\ locked[e] = NULL
  /\ LET l == Head(Pending(e)).who IN
       /\ l \notin Unchecked
       /\ IF Alive(l)
          THEN Lock(l) /\ locked' = [locked EXCEPT ![e] = l] /\ UNCHANGED todo
          ELSE /\ todo' = [todo EXCEPT ![e] = Tail(Pending(e))]
               /\ UNCHANGED <<refs, died, locked>>
  /\ UNCHANGED <<lists, owned, current, changes, field, open, inbox, running,
                 emissions, log, cut>>

PushLocked(e) ==
  /\ locked[e] # NULL
  /\ Push(e, Head(todo[e]))
  /\ Unlock(locked[e])
  /\ locked' = [locked EXCEPT ![e] = NULL]
  /\ todo' = [todo EXCEPT ![e] = Tail(@)]
  /\ UNCHANGED <<lists, owned, current, changes, field, open, running,
                 emissions, log, cut>>

(* clearExpiredClient(), under the mutex. *)
Unexpired(s) == Only(s, {x \in Entry : Alive(x.who)})

Finish(e) ==
  /\ current[e] # 0
  /\ Pending(e) = <<>>
  /\ locked[e] = NULL
  /\ IF emissions[current[e]].of = "event"
     THEN checked' = Unexpired(checked) /\ UNCHANGED copied
     ELSE copied' = Unexpired(copied) /\ UNCHANGED checked
  /\ current' = [current EXCEPT ![e] = 0]
  /\ todo' = [todo EXCEPT ![e] = <<>>]
  /\ UNCHANGED <<unchecked, life, locked, changes, field, open, inbox,
                 running, emissions, log, cut>>

------------------------------------------------------------------------------
(* The context of l executes the next lambda: it locks a checked listener and
   calls it, or does nothing if it is gone. *)
Run(l) ==
  /\ running[l] = None
  /\ inbox[l] # <<>>
  /\ inbox' = [inbox EXCEPT ![l] = Tail(@)]
  /\ IF l \in Unchecked
     THEN running' = [running EXCEPT ![l] = Head(inbox[l])] /\ UNCHANGED <<refs, died>>
     ELSE IF Alive(l)
          THEN running' = [running EXCEPT ![l] = Head(inbox[l])] /\ Lock(l)
          ELSE UNCHANGED <<running, refs, died>>
  /\ UNCHANGED <<lists, owned, emitting, changes, field, open, emissions, log,
                 cut>>

Return(l) ==
  /\ running[l] # None
  /\ running' = [running EXCEPT ![l] = None]
  /\ log' = [log EXCEPT ![l] = Append(@, running[l])]
  /\ IF l \in Unchecked THEN UNCHANGED <<refs, died>> ELSE Unlock(l)
  /\ UNCHANGED <<lists, owned, emitting, changes, field, open, inbox,
                 emissions, cut>>

------------------------------------------------------------------------------
EmitterStep(e) == PushUnchecked(e) \/ TryLock(e) \/ PushLocked(e) \/ Finish(e)

Next ==
  \/ \E l \in Listener, m \in Method : Connect(l, m) \/ Disconnect(l, m)
  \/ \E l \in Listener : Release(l) \/ Exit(l) \/ Run(l) \/ Return(l)
  \/ DisconnectAll \/ MakeFunction
  \/ \E v \in Value : SetValue(v)
  \/ \E e \in Emitter, of \in {"event", "function"} : Emit(e, of)
  \/ \E e \in Emitter : EmitterStep(e)

Spec == Init /\ [][Next]_vars

------------------------------------------------------------------------------
(* A checked listener exists while it is called, although its program lets it
   go at any time, before the push, between the push and the call, or during
   the call. *)
NoDeadCallback == \A l \in Listener : running[l] # None => Alive(l)

(* An emission calls each method as often as it was connected when the
   emission began, neither more nor less, whatever is connected and
   disconnected meanwhile: never more, and, unless the listener exits or is
   gone, what is not called yet is still to be called. *)
Positions(s, d) == Cardinality({i \in 1..Len(s) : s[i] = d})

Due(id, l, m) == Positions(emissions[id].due, [who |-> l, method |-> m])

Handled(id, l, m) ==
  LET d == [id |-> id, method |-> m]
      e == emissions[id].by IN
  Positions(log[l], d) + Positions(inbox[l], d)
    + (IF running[l] = d THEN 1 ELSE 0)
    + (IF current[e] = id THEN Positions(Pending(e), [who |-> l, method |-> m]) ELSE 0)

DeliveredAsDue ==
  \A id \in 1..Len(emissions), l \in Listener, m \in Method :
    /\ Handled(id, l, m) <= Due(id, l, m)
    /\ Alive(l) /\ open[l] => Handled(id, l, m) = Due(id, l, m)

(* The emissions of one thread reach a listener in the order in which the
   thread made them. *)
InOrder ==
  \A l \in Listener : \A j \in 1..Len(log[l]) : \A i \in 1..j :
    emissions[log[l][i].id].by = emissions[log[l][j].id].by => log[l][i].id <= log[l][j].id

(* A method that is disconnected is not called by an emission that begins
   later.  The std::function made of the event is a copy and goes on. *)
QuietAfterDisconnect ==
  \A l \in Listener : \A i \in 1..Len(log[l]) :
    emissions[log[l][i].id].of = "event" => log[l][i].id <= cut[<<l, log[l][i].method>>]

(* An emission that began after a listener was destroyed, and is over, has
   left no entry of it: the lists do not collect the dead. *)
DeadForgotten ==
  \A id \in 1..Len(emissions) :
    emissions[id].of = "event" /\ (\A e \in Emitter : current[e] # id)
      => \A i \in 1..Len(checked) : died[checked[i].who] >= id

(* What connecting, emitting and letting go promise each other, whatever is
   interleaved: nobody is called who is gone, everybody else is called as often
   as is due, in order, and nobody who has been disconnected or is forgotten. *)
Delivered ==
  /\ NoDeadCallback
  /\ DeliveredAsDue
  /\ InOrder
  /\ QuietAfterDisconnect
  /\ DeadForgotten

(* When the setter of the attribute is done and a listener has executed what
   it was sent, the last value it was told by the setter is the value. *)
Sets == {id \in 1..Len(emissions) : emissions[id].by = Setter}

Idle(l) == Alive(l) /\ open[l] /\ inbox[l] = <<>> /\ running[l] = None

LastValue ==
  \A id \in Sets, l \in Listener :
    (/\ current[Setter] = 0 /\ Idle(l)
     /\ \A other \in Sets : other <= id
     /\ \E m \in Method : Due(id, l, m) > 0)
      => LET told == {i \in 1..Len(log[l]) : log[l][i].id \in Sets} IN
         \E i \in told : /\ \A k \in told : k <= i
                         /\ emissions[log[l][i].id].value = field
==============================================================================
