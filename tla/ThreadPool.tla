----------------------------- MODULE ThreadPool -----------------------------
(***************************************************************************)
(* icc::threadpool::ThreadPool: worker threads that take tasks from one    *)
(* queue, from the constructor that starts them to the destructor that     *)
(* interrupts the queue and joins them.  A pool made by createPool is held *)
(* by shared pointers: those of its clients, and the one inside every Task *)
(* made by createTask, copied into the queue with the task.  Whoever drops *)
(* the last of them runs the destructor, be it a worker.                   *)
(*                                                                         *)
(* A Task has a function, continuations (then) and a callback to a         *)
(* component.  start() pushes a copy: what is added later is not executed. *)
(* The callback is pushed to the context of the component when the copy    *)
(* has done the rest.                                                      *)
(***************************************************************************)
EXTENDS Naturals, Sequences, FiniteSets

CONSTANTS Worker,    \* the threads of threads_
          Client,    \* the threads that use the pool
          Task,      \* what is submitted, each at most once
          PoolTask,  \* those made by createTask: they hold the pool
          Chained,   \* those the program adds continuations and callbacks to
          Listener,  \* the components of callbacks
          Weak,      \* those that were given as shared pointers
          MaxThens,  \* bound: continuations of a task
          NoTask,    \* the empty std::function
          NoOne      \* no thread, no listener

ASSUME TaskAssumption ==
  /\ PoolTask \cup Chained \subseteq Task
  /\ NoTask \notin Task
  /\ Weak \subseteq Listener
  /\ MaxThens \in Nat
ASSUME ThreadAssumption ==
  /\ Worker \cap Client = {}
  /\ NoOne \notin Worker \cup Client \cup Listener

VARIABLES items, interrupted, waiting, got,  \* task_queue_
          pc,         \* pc[w]: where worker w is
          phase,      \* the life of the pool
          agent,      \* the thread in its constructor or destructor
          holds,      \* holds[c]: c has a shared_ptr to the pool
          original,   \* original[k]: thens_ and callback_ of the program's Task
          copy,       \* copy[k]: those of the copy that was pushed
          called,     \* called[w]: how many functions of its task w has called
          posted,     \* callbacks in the context of the listeners
          heard,      \* history: callbacks that were called
          expired,    \* shared listeners whose last pointer is gone
          submitted,  \* history: the tasks pushed
          done,       \* history: the tasks that have returned
          dropped     \* history: the tasks destroyed unexecuted

queueVars == <<items, interrupted, waiting, got>>
chainVars == <<original, copy, called, posted, heard, expired>>
history == <<submitted, done, dropped>>
vars == <<queueVars, pc, phase, agent, holds, chainVars, history>>

Queue == INSTANCE FifoQueue WITH Thread <- Worker, Item <- Task, NoItem <- NoTask

Chain == [thens : 0..MaxThens, callback : Listener \cup {NoOne}]
Post == [of : Task, to : Listener]

PC == {"unborn", "test", "ask", "pop", "run", "destroy", "ended"}
Phase == {"construct", "alive", "interrupt", "join", "drain", "gone", "terminated"}

TypeOK ==
  /\ Queue!TypeOK
  /\ pc \in [Worker -> PC]
  /\ phase \in Phase
  /\ agent \in Worker \cup Client \cup {NoOne}
  /\ holds \in [Client -> BOOLEAN]
  /\ original \in [Task -> Chain]
  /\ copy \in [Task -> Chain]
  /\ called \in [Worker -> 0..MaxThens + 2]
  /\ posted \in Seq(Post)
  /\ heard \in Seq(Post)
  /\ expired \subseteq Weak
  /\ submitted \subseteq Task
  /\ done \subseteq Task
  /\ dropped \subseteq Task

Init ==
  /\ Queue!Init
  /\ pc = [w \in Worker |-> "unborn"]
  /\ phase = "construct"
  /\ agent \in Client
  /\ holds = [c \in Client |-> FALSE]
  /\ original = [k \in Task |-> [thens |-> 0, callback |-> NoOne]]
  /\ copy = original
  /\ called = [w \in Worker |-> 0]
  /\ posted = <<>>
  /\ heard = <<>>
  /\ expired = {}
  /\ submitted = {}
  /\ done = {}
  /\ dropped = {}

Goto(w, l) == pc' = [pc EXCEPT ![w] = l]

Queued == {items[i] : i \in 1..Len(items)}
Running(w) == pc[w] = "run"

------------------------------------------------------------------------------
(* The constructor starts the workers one after the other; the thread of a
   later one may fail to start, and then those started are stopped. *)
StartWorker(w) ==
  /\ phase = "construct"
  /\ pc[w] = "unborn"
  /\ Goto(w, "test")
  /\ UNCHANGED <<queueVars, phase, agent, holds, chainVars, history>>

Constructed ==
  /\ phase = "construct"
  /\ \A w \in Worker : pc[w] # "unborn"
  /\ phase' = "alive"
  /\ agent' = NoOne
  /\ holds' = [holds EXCEPT ![agent] = TRUE]
  /\ UNCHANGED <<queueVars, pc, chainVars, history>>

ConstructFailed ==
  /\ phase = "construct"
  /\ \E w \in Worker : pc[w] = "unborn"
  /\ phase' = "interrupt"
  /\ UNCHANGED <<queueVars, pc, agent, holds, chainVars, history>>

------------------------------------------------------------------------------
(* u can reach the pool: a client with a pointer, or a worker inside a task
   that has one. *)
CanReach(u) ==
  \/ u \in Client /\ holds[u]
  \/ u \in Worker /\ Running(u) /\ got[u] \in PoolTask

(* ThreadPool::push, and Task::start that tests and sets state_ first: it
   throws when the task is started already. *)
Push(u, k) ==
  /\ CanReach(u)
  /\ k \notin submitted
  /\ Queue!Put(k)
  /\ submitted' = submitted \cup {k}
  /\ copy' = [copy EXCEPT ![k] = original[k]]
  /\ UNCHANGED <<pc, phase, agent, holds, original, called, posted, heard,
                 expired, done, dropped>>

(* What the program adds to its Task, started or not. *)
Add(k, chain) ==
  /\ k \in Chained
  /\ original' = [original EXCEPT ![k] = chain]
  /\ UNCHANGED <<queueVars, pc, phase, agent, holds, copy, called, posted, heard,
                 expired, history>>

Then(k) ==
  /\ original[k].thens < MaxThens
  /\ Add(k, [original[k] EXCEPT !.thens = @ + 1])

Callback(k, l) ==
  /\ l \notin expired
  /\ original[k].callback = NoOne
  /\ Add(k, [original[k] EXCEPT !.callback = l])

Share(c, d) ==
  /\ holds[c]
  /\ holds' = [holds EXCEPT ![d] = TRUE]
  /\ UNCHANGED <<queueVars, pc, phase, agent, chainVars, history>>

(* Somebody other than u still has a pointer to the pool. *)
HeldByOther(u) ==
  \/ \E c \in Client \ {u} : holds[c]
  \/ \E k \in Queued : k \in PoolTask
  \/ \E w \in Worker \ {u} : Running(w) /\ got[w] \in PoolTask

(* u destroys its pointer, and the pool with it when it was the last one. *)
DropPointer(u) ==
  IF HeldByOther(u)
  THEN UNCHANGED <<phase, agent>>
  ELSE phase' = "interrupt" /\ agent' = u

Release(c) ==
  /\ holds[c]
  /\ holds' = [holds EXCEPT ![c] = FALSE]
  /\ DropPointer(c)
  /\ UNCHANGED <<queueVars, pc, chainVars, history>>

------------------------------------------------------------------------------
\* Mutants: a worker ends when the queue is empty; it never looks at the
\* interruption.
MutWorkerTestEmpty(w) ==
  /\ pc[w] = "test"
  /\ Goto(w, IF items = <<>> THEN "ended" ELSE "ask")
  /\ UNCHANGED <<queueVars, phase, agent, holds, chainVars, history>>

MutWorkerTestNothing(w) ==
  /\ pc[w] = "test"
  /\ Goto(w, "ask")
  /\ UNCHANGED <<queueVars, phase, agent, holds, chainVars, history>>

(* A worker: while (!isInterrupt()) { task = waitPop(); if (task) task(); } *)
WorkerTest(w) ==
  /\ pc[w] = "test"
  /\ Goto(w, IF interrupted THEN "ended" ELSE "ask")
  /\ UNCHANGED <<queueVars, phase, agent, holds, chainVars, history>>

WorkerWaitPop(w) ==
  /\ pc[w] = "ask"
  /\ Queue!Ask(w)
  /\ Goto(w, "pop")
  /\ UNCHANGED <<phase, agent, holds, chainVars, history>>

WorkerPopped(w) ==
  /\ pc[w] = "pop"
  /\ \/ Queue!Serve(w) /\ Goto(w, "run")
     \/ Queue!GiveUp(w) /\ Goto(w, "test")
  /\ UNCHANGED <<phase, agent, holds, chainVars, history>>

(* Task::operator(): the function, each continuation ... *)
TaskCall(w) ==
  /\ Running(w)
  /\ called[w] <= copy[got[w]].thens
  /\ called' = [called EXCEPT ![w] = @ + 1]
  /\ UNCHANGED <<queueVars, pc, phase, agent, holds, original, copy, posted, heard,
                 expired, history>>

(* ... and the callback, which a weak pointer has to find its listener for. *)
TaskCallback(w) ==
  /\ Running(w)
  /\ called[w] = copy[got[w]].thens + 1
  /\ called' = [called EXCEPT ![w] = @ + 1]
  /\ LET l == copy[got[w]].callback
     IN  posted' = IF l \in {NoOne} \cup expired THEN posted
                   ELSE Append(posted, [of |-> got[w], to |-> l])
  /\ UNCHANGED <<queueVars, pc, phase, agent, holds, original, copy, heard, expired,
                 history>>

(* The context of the listeners.  Nothing that is posted looks whether its
   listener is still there. *)
Hear ==
  /\ posted # <<>>
  /\ heard' = Append(heard, Head(posted))
  /\ posted' = Tail(posted)
  /\ UNCHANGED <<queueVars, pc, phase, agent, holds, original, copy, called, expired,
                 history>>

DropListener(l) ==
  /\ l \in Weak \ expired
  /\ expired' = expired \cup {l}
  /\ UNCHANGED <<queueVars, pc, phase, agent, holds, original, copy, called, posted,
                 heard, history>>

(* The task returns and its copy is destroyed, with the pointer in it. *)
TaskReturn(w) ==
  /\ Running(w)
  /\ called[w] = copy[got[w]].thens + 2
  /\ called' = [called EXCEPT ![w] = 0]
  /\ done' = done \cup {got[w]}
  /\ IF got[w] \in PoolTask
     THEN /\ DropPointer(w)
          /\ Goto(w, IF HeldByOther(w) THEN "test" ELSE "destroy")
     ELSE Goto(w, "test") /\ UNCHANGED <<phase, agent>>
  /\ UNCHANGED <<queueVars, holds, original, copy, posted, heard, expired,
                 submitted, dropped>>

------------------------------------------------------------------------------
(* stop(), called by the destructor and by a failed constructor. *)
StopInterrupt ==
  /\ phase = "interrupt"
  /\ Queue!Interrupt
  /\ phase' = "join"
  /\ UNCHANGED <<pc, agent, holds, chainVars, history>>

(* threads_.clear() joins every worker that was started ... *)
StopJoin ==
  /\ phase = "join"
  /\ \A w \in Worker : pc[w] \in {"unborn", "ended"}
  /\ phase' = "drain"
  /\ UNCHANGED <<queueVars, pc, agent, holds, chainVars, history>>

(* ... and a worker cannot join itself: join() throws out of ~JThread, and
   std::terminate ends the process. *)
StopSelfJoin ==
  /\ phase = "join"
  /\ agent \in Worker
  /\ phase' = "terminated"
  /\ UNCHANGED <<queueVars, pc, agent, holds, chainVars, history>>

(* Then the queue is destroyed, with the tasks it still has. *)
DestroyQueue ==
  /\ phase = "drain"
  /\ dropped' = dropped \cup Queued
  /\ items' = <<>>
  /\ phase' = "gone"
  /\ UNCHANGED <<interrupted, waiting, got, pc, agent, holds, chainVars, submitted,
                 done>>

------------------------------------------------------------------------------
WorkerStep(w) == WorkerTest(w) \/ WorkerWaitPop(w) \/ WorkerPopped(w)

TaskStep(w) == TaskCall(w) \/ TaskCallback(w) \/ TaskReturn(w)

AgentStep == StopInterrupt \/ StopJoin \/ StopSelfJoin \/ DestroyQueue

ConstructStep == Constructed \/ ConstructFailed \/ \E w \in Worker : StartWorker(w)

Next ==
  /\ phase # "terminated"
  /\ \/ ConstructStep
     \/ \E u \in Worker \cup Client, k \in Task : Push(u, k)
     \/ \E c, d \in Client : Share(c, d)
     \/ \E c \in Client : Release(c)
     \/ \E w \in Worker : WorkerStep(w) \/ TaskStep(w)
     \/ \E k \in Task : Then(k) \/ \E l \in Listener : Callback(k, l)
     \/ Hear
     \/ \E l \in Listener : DropListener(l)
     \/ AgentStep

(* Threads are scheduled, those of the listeners' context too, and tasks return.  Nobody has to push, to share or
   to release anything. *)
Fairness ==
  /\ WF_vars(phase # "terminated" /\ AgentStep)
  /\ WF_vars(phase # "terminated" /\ ConstructStep)
  /\ WF_vars(phase # "terminated" /\ Hear)
  /\ \A w \in Worker : /\ WF_vars(phase # "terminated" /\ WorkerStep(w))
                       /\ WF_vars(phase # "terminated" /\ TaskStep(w))

Safety == Init /\ [][Next]_vars

Spec == Safety /\ Fairness

------------------------------------------------------------------------------
(* A task is executed by one worker, once, however many workers are woken by
   its push: it is queued once, or run by one worker, or done. *)
EachTaskOnce ==
  /\ \A i, j \in 1..Len(items) : items[i] = items[j] => i = j
  /\ \A w, v \in Worker : Running(w) /\ Running(v) /\ got[w] = got[v] => w = v
  /\ \A k \in Queued : k \notin done /\ \A w \in Worker : Running(w) => got[w] # k
  /\ \A w \in Worker : Running(w) => got[w] \notin done

(* A task that was submitted is queued, running or done; it is dropped
   unexecuted only with the pool itself. *)
NothingLost ==
  /\ submitted = Queued \cup {got[w] : w \in {v \in Worker : Running(v)}}
                        \cup done \cup dropped
  /\ dropped # {} => phase = "gone"

(* No worker touches the pool or its queue once they are destroyed: every
   thread that was started has ended before (the join of ~JThread). *)
WorkersEndFirst ==
  phase \in {"drain", "gone"} => \A w \in Worker : pc[w] \in {"unborn", "ended"}

(* A task made by createTask is never dropped unexecuted: the pointer in its
   queued copy keeps the pool alive. *)
PoolTaskKept == dropped \cap PoolTask = {}

(* A callback is called for a task that has been executed with it, once, and only
   when its continuations have been called; while its listener is there none is
   missing.  It is the one the task had when it was started: whatever is added
   during the execution is not called. *)
CallbackOnce ==
  LET all == posted \o heard
  IN  /\ \A i, j \in DOMAIN all : all[i] = all[j] => i = j
      /\ \A i \in DOMAIN all :
           LET k == all[i].of
           IN  /\ copy[k].callback = all[i].to
               /\ k \notin Queued \cup dropped
               /\ \A w \in Worker :
                    Running(w) /\ got[w] = k => called[w] > copy[k].thens + 1
      /\ \A k \in done :
           \/ copy[k].callback \in {NoOne} \cup expired
           \/ \E i \in DOMAIN all : all[i].of = k

(* Tasks stay with the pool until they are executed, once, and the pool stays
   with its tasks and with its workers: pushes, wake-ups, a failed constructor
   and the last release may come in any order.  The same holds for what is
   chained to them. *)
TasksKept ==
  EachTaskOnce /\ NothingLost /\ WorkersEndFirst /\ PoolTaskKept /\ CallbackOnce

(* The destructor of a pool is never run by one of its own workers: it would
   join itself. *)
NoSelfJoin == phase # "terminated"

(* Every task submitted to a pool is executed unless the pool is destroyed
   first; one made by createTask is executed in any case. *)
TasksRun ==
  \A k \in Task :
    k \in submitted ~> (k \in done \/ (k \notin PoolTask /\ phase # "alive"))

(* The destructor of a pool, and its failed constructor, return: the
   interruption reaches every worker, whether it is about to test it, about to
   block or blocked. *)
DestructorReturns ==
  (phase = "interrupt" /\ agent \in Client) ~> phase = "gone"
==============================================================================
