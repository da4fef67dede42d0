------------------------------ MODULE Component ------------------------------
(***************************************************************************)
(* icc::Component: a tree of components on one context.  Root owns the     *)
(* context; a child is constructed with a pointer to its parent, shares    *)
(* the context and registers with the parent.  exit() closes a component   *)
(* and its children and takes it from its parent.                          *)
(*                                                                         *)
(* addChild, removeChild and exit are lambdas given to invoke(): at once   *)
(* on the thread of the context, queued from any other.  Clients are other *)
(* threads; a call of theirs is two steps, the test of channel_ and the    *)
(* use of it, and exit() may reset channel_ between them.  That is a data  *)
(* race; of its outcomes the model has those of a build in which the       *)
(* lambda is pushed to the context or lost.                                *)
(*                                                                         *)
(* stack is what the thread of the context executes, innermost call first. *)
(* A task stands for any action a program pushes: it may construct         *)
(* components and let them exit.                                           *)
(***************************************************************************)
EXTENDS Naturals, Sequences

CONSTANTS Comp,       \* components
          Root,       \* the one that owns the context
          Client,     \* threads other than the one of the context
          NULL,       \* nullptr
          MaxCalls    \* bound: calls that clients make

ASSUME ComponentAssumption == Root \in Comp /\ NULL \notin Comp /\ MaxCalls \in Nat

VARIABLES made,       \* the components constructed
          parent,     \* parent[c]: parent_
          channel,    \* channel[c]: channel_ is not null
          children,   \* children[c]: children_
          queue,      \* the lambdas queued in the context
          running,    \* the context executes what is queued
          stack,      \* the calls in progress on its thread
          call,       \* call[k]: what client k is about to do, after a test
          calls,      \* history: number of calls made by clients
          heard       \* history: heard[c]: calls of onChildExit for c

tree == <<made, parent, channel, children>>
vars == <<tree, queue, running, stack, call, calls, heard>>

Child == Comp \ {Root}

(* A lambda and the component whose channel_ it is pushed to.  A register is
   the rest of a constructor, before the test of the parent's channel_. *)
None == [op |-> "none"]
Lambda == [op : {"exit", "task"}, to : Comp] \cup [op : {"add"}, to : Comp, child : Child]
Register(p, c) == [op |-> "register", to |-> p, child |-> c]
Registers == [op : {"register"}, to : Comp, child : Child]

(* A call in progress: a task, or exit() of a component before its stop(), in
   its loop over children_ at index next, or after it. *)
Frame == [at : {"task", "stop", "walk"}, of : Comp, next : Nat \ {0}]

\* Mutant: the loop over children_ begins with the second one.
MutEnterSecond(at, c) == [at |-> at, of |-> c, next |-> 2]

Enter(at, c) == [at |-> at, of |-> c, next |-> 1]

TypeOK ==
  /\ made \subseteq Comp
  /\ parent \in [Comp -> Comp \cup {NULL}]
  /\ channel \in [Comp -> BOOLEAN]
  /\ children \in [Comp -> Seq(Child)]
  /\ queue \in Seq(Lambda)
  /\ running \in BOOLEAN
  /\ stack \in Seq(Frame)
  /\ call \in [Client -> {None} \cup Lambda \cup Registers]
  /\ calls \in 0..MaxCalls
  /\ heard \in [Comp -> Nat]

Init ==
  /\ made = {Root}
  /\ parent = [c \in Comp |-> NULL]
  /\ channel = [c \in Comp |-> c = Root]
  /\ children = [c \in Comp |-> <<>>]
  /\ queue = <<>>
  /\ running = TRUE
  /\ stack = <<>>
  /\ call = [k \in Client |-> None]
  /\ calls = 0
  /\ heard = [c \in Comp |-> 0]

Elements(s) == {s[i] : i \in 1..Len(s)}

(* The constructor of c is over: its program may use it. *)
Built(c) ==
  /\ c \in made
  /\ \A k \in Client : call[k].op \in {"register", "add"} => call[k].child # c

------------------------------------------------------------------------------
(* The members of a child of p: a channel to its context, parent_.  That p has
   its channel is a precondition: getContext() uses it. *)
Create(p, c) ==
  /\ c \in Child \ made
  /\ Built(p)
  /\ channel[p]
  /\ made' = made \cup {c}
  /\ parent' = [parent EXCEPT ![c] = p]
  /\ channel' = [channel EXCEPT ![c] = TRUE]

(* The lambda of addChild. *)
AddChild(p, c) == children' = [children EXCEPT ![p] = Append(@, c)]

Without(s, i) == SubSeq(s, 1, i - 1) \o SubSeq(s, i + 1, Len(s))

\* Mutant: the last child is erased.
MutRemoveChildLast(p, c) ==
  IF c \in Elements(children[p])
  THEN /\ children' = [children EXCEPT ![p] = Without(@, Len(@))]
       /\ heard' = [heard EXCEPT ![c] = @ + 1]
  ELSE UNCHANGED <<children, heard>>

(* The lambda of removeChild: the first pointer to c goes, and p hears of it. *)
RemoveChild(p, c) ==
  IF c \in Elements(children[p])
  THEN \E i \in 1..Len(children[p]) :
         /\ children[p][i] = c
         /\ \A j \in 1..(i - 1) : children[p][j] # c
         /\ children' = [children EXCEPT ![p] = Without(@, i)]
         /\ heard' = [heard EXCEPT ![c] = @ + 1]
  ELSE UNCHANGED <<children, heard>>

------------------------------------------------------------------------------
(* Clients. *)
MayCall(k) == call[k] = None /\ calls < MaxCalls /\ calls' = calls + 1

Construct(k, p, c) ==
  /\ MayCall(k)
  /\ Create(p, c)
  /\ call' = [call EXCEPT ![k] = Register(p, c)]
  /\ UNCHANGED <<children, queue, running, stack, heard>>

(* invoke() in addChild: the child of a parent that has exited meanwhile is
   not registered. *)
RegisterTest(k) ==
  /\ call[k].op = "register"
  /\ call' = [call EXCEPT ![k] =
                IF channel[@.to] THEN [op |-> "add", to |-> @.to, child |-> @.child]
                ELSE None]
  /\ UNCHANGED <<tree, queue, running, stack, calls, heard>>

(* exit() and push(): nothing happens to a component without a channel. *)
Call(k, op, c) ==
  /\ MayCall(k)
  /\ Built(c)
  /\ channel[c]
  /\ call' = [call EXCEPT ![k] = [op |-> op, to |-> c]]
  /\ UNCHANGED <<tree, queue, running, stack, heard>>

(* The use of channel_ after the test: if it was reset, the outcome of the
   race is that the lambda is queued or lost. *)
Use(k) ==
  /\ call[k] \in Lambda
  /\ \/ queue' = Append(queue, call[k])
     \/ ~channel[call[k].to] /\ UNCHANGED queue
  /\ call' = [call EXCEPT ![k] = None]
  /\ UNCHANGED <<tree, running, stack, calls, heard>>

------------------------------------------------------------------------------
(* The thread of the context. *)
Take ==
  /\ running
  /\ stack = <<>>
  /\ queue # <<>>
  /\ queue' = Tail(queue)
  /\ LET l == Head(queue) IN
       IF l.op = "add"
       THEN AddChild(l.to, l.child) /\ UNCHANGED stack
       ELSE /\ stack' = <<Enter(IF l.op = "exit" THEN "stop" ELSE "task", l.to)>>
            /\ UNCHANGED children
  /\ UNCHANGED <<made, parent, channel, running, call, calls, heard>>

Executes(at) == stack # <<>> /\ Head(stack).at = at

(* A task: the lambdas of its calls are executed at once. *)
TaskConstruct(p, c) ==
  /\ Executes("task")
  /\ Create(p, c)
  /\ AddChild(p, c)
  /\ UNCHANGED <<queue, running, stack, call, calls, heard>>

TaskExit(c) ==
  /\ Executes("task")
  /\ Built(c)
  /\ channel[c]
  /\ stack' = <<Enter("stop", c)>> \o stack
  /\ UNCHANGED <<tree, queue, running, call, calls, heard>>

TaskReturn ==
  /\ Executes("task")
  /\ stack' = Tail(stack)
  /\ UNCHANGED <<tree, queue, running, call, calls, heard>>

(* stop(): the channel goes, and the context ends if the component owns it. *)
Stop ==
  /\ Executes("stop")
  /\ LET c == Head(stack).of IN
       /\ channel' = [channel EXCEPT ![c] = FALSE]
       /\ running' = (running /\ c # Root)
       /\ stack' = <<Enter("walk", c)>> \o Tail(stack)
  /\ UNCHANGED <<made, parent, children, queue, call, calls, heard>>

\* Mutant: the loop steps over every other child.
MutWalkSkips ==
  /\ Executes("walk")
  /\ LET f == Head(stack)
         below == <<[f EXCEPT !.next = @ + 2]>> \o Tail(stack) IN
       /\ f.next <= Len(children[f.of])
       /\ LET d == children[f.of][f.next] IN
            stack' = IF channel[d] THEN <<Enter("stop", d)>> \o below ELSE below
  /\ UNCHANGED <<tree, queue, running, call, calls, heard>>

(* The loop of exit() calls the exit() of the next child. *)
WalkChild ==
  /\ Executes("walk")
  /\ LET f == Head(stack)
         below == <<[f EXCEPT !.next = @ + 1]>> \o Tail(stack) IN
       /\ f.next <= Len(children[f.of])
       /\ LET d == children[f.of][f.next] IN
            stack' = IF channel[d] THEN <<Enter("stop", d)>> \o below ELSE below
  /\ UNCHANGED <<tree, queue, running, call, calls, heard>>

(* ... and after it the component leaves its parent, which ignores it if it
   has no channel itself. *)
Leave ==
  /\ Executes("walk")
  /\ LET c == Head(stack).of
         p == parent[c] IN
       /\ Head(stack).next > Len(children[c])
       /\ IF p # NULL /\ channel[p] THEN RemoveChild(p, c) ELSE UNCHANGED <<children, heard>>
  /\ stack' = Tail(stack)
  /\ UNCHANGED <<made, parent, channel, queue, running, call, calls>>

------------------------------------------------------------------------------
ClientStep(k) ==
  \/ \E p, c \in Comp : Construct(k, p, c)
  \/ \E op \in {"exit", "task"}, c \in Comp : Call(k, op, c)

ContextStep ==
  \/ Take \/ Stop \/ WalkChild \/ Leave \/ TaskReturn
  \/ \E p, c \in Comp : TaskConstruct(p, c)
  \/ \E c \in Comp : TaskExit(c)

Next ==
  \/ \E k \in Client : ClientStep(k) \/ RegisterTest(k) \/ Use(k)
  \/ ContextStep

(* The thread of the context runs, a task returns, and a client finishes the
   call it is in.  No client has to call. *)
Spec ==
  /\ Init /\ [][Next]_vars
  /\ WF_vars(ContextStep)
  /\ \A k \in Client : WF_vars(RegisterTest(k) \/ Use(k))

------------------------------------------------------------------------------
(* exit() walks over children_ while each child calls removeChild of the
   parent: the vector never changes under the walk, because the parent has
   given up its channel before.  Otherwise the iterator would be invalid. *)
NoChangeUnderWalk ==
  [][\A i \in 1..Len(stack) :
       stack[i].at = "walk" => children'[stack[i].of] = children[stack[i].of]]_vars

(* A parent that has not exited knows each of its children that has not, once
   the addChild of its constructor has been executed: no exit of another child
   makes it forget one. *)
Adding(c) ==
  \/ \E k \in Client : call[k].op \in {"register", "add"} /\ call[k].child = c
  \/ \E i \in 1..Len(queue) : queue[i].op = "add" /\ queue[i].child = c

NoChildForgotten ==
  \A c \in made \ {Root} :
    channel[c] /\ channel[parent[c]] /\ ~Adding(c) => c \in Elements(children[parent[c]])

(* A parent hears at most once of the exit of a child, and only of a child
   that is closed, even if several exits of it are queued and it leaves before
   it is registered. *)
HeardOnce == \A c \in Comp : heard[c] <= 1 /\ (heard[c] = 1 => ~channel[c])

(* When exit() of a component returns, no child it had registered is open. *)
ExitClosesChildren ==
  [][Executes("walk") /\ stack' = Tail(stack)
       => \A d \in Elements(children[Head(stack).of]) : ~channel[d]]_vars

(* The exit of a component that is queued reaches its children, although it
   is queued behind registrations, tasks and exits of others, unless the
   owner of the context has stopped it. *)
ExitReachesChildren ==
  \A c \in Comp, d \in Child :
    ([op |-> "exit", to |-> c] \in Elements(queue) /\ d \in Elements(children[c]))
      ~> (~channel[d] \/ ~running)
==============================================================================
