------------------------------- MODULE Context -------------------------------
(***************************************************************************)
(* icc::Context<ThreadSafeQueueAction>: the event loop every Component     *)
(* delegates to.  Threads push and invoke actions, create and drop         *)
(* channels, run the loop (Forever or UntilWorkers) and stop it; an action *)
(* that the loop executes may itself do all of this.                       *)
(*                                                                         *)
(* An access to an atomic is a step.  The queue is FifoQueue, which        *)
(* ThreadSafeQueue implements: its waitPop is Ask followed by Serve or     *)
(* GiveUp.  Actions are numbered in the order in which they enter the      *)
(* queue; what an action does is whatever its thread may do while it is    *)
(* executing.  run() called from inside an action of the same context is   *)
(* left out.                                                               *)
(***************************************************************************)
EXTENDS Naturals, Sequences

CONSTANTS Thread,
          NoThread,     \* std::thread::id{}
          Runner,       \* the threads that ever call run()
          Stopper,      \* the threads that ever call stop()
          Policy,       \* the ExecPolicy values they pass
          MaxActions,   \* bound: actions pushed
          MaxChannels   \* bound: channels alive at a time

ASSUME ThreadAssumption ==
  /\ NoThread \notin Thread
  /\ Runner \subseteq Thread
  /\ Stopper \subseteq Thread
ASSUME PolicyAssumption == Policy \subseteq {"Forever", "UntilWorkers"}
ASSUME BoundAssumption == MaxActions \in Nat /\ MaxChannels \in Nat

ActionId == 1..MaxActions
NoAction == 0           \* the empty std::function an interrupted waitPop returns

VARIABLES items, interrupted, waiting, got,  \* queue_
          runFlag,     \* run_
          channels,    \* num_of_channels_
          owner,       \* queue_thread_id_
          pc,          \* pc[t]: where t is in run()
          policy,      \* policy[t]: the argument of t's run()
          call,        \* call[t]: the rest of a stop() or ~Channel() of t
          inline,      \* inline[t]: t executes an action handed to invoke()
          pushed,      \* history: number of actions put into the queue
          executed,    \* history: the queued actions executed, in order
          lost         \* history: the actions popped and not executed

queueVars == <<items, interrupted, waiting, got>>
loopVars == <<pc, policy>>
history == <<executed, lost>>
vars == <<queueVars, runFlag, channels, owner, loopVars, call, inline, pushed,
          history>>

Queue == INSTANCE FifoQueue WITH Item <- ActionId, NoItem <- NoAction

(* "out" is outside run(); the others name the next step of run() and of the
   loop it entered. *)
PC == {"out", "claim", "reset", "ask", "pop", "check", "exec", "while",
       "channels"}
LoopPC == PC \ {"out", "claim"}

TypeOK ==
  /\ Queue!TypeOK
  /\ runFlag \in BOOLEAN
  /\ channels \in 0..MaxChannels
  /\ owner \in Thread \cup {NoThread}
  /\ pc \in [Thread -> PC]
  /\ policy \in [Thread -> {"Forever", "UntilWorkers"}]
  /\ call \in [Thread -> {"none", "stop", "interrupt"}]
  /\ inline \in [Thread -> BOOLEAN]
  /\ pushed \in 0..MaxActions
  /\ executed \in Seq(ActionId)
  /\ lost \subseteq ActionId

Init ==
  /\ Queue!Init
  /\ runFlag = FALSE
  /\ channels = 0
  /\ owner = NoThread
  /\ pc = [t \in Thread |-> "out"]
  /\ policy = [t \in Thread |-> "Forever"]
  /\ call = [t \in Thread |-> "none"]
  /\ inline = [t \in Thread |-> FALSE]
  /\ pushed = 0
  /\ executed = <<>>
  /\ lost = {}

Goto(t, l) == pc' = [pc EXCEPT ![t] = l]

(* t runs user code: outside run(), or the body of an action. *)
InUserCode(t) == pc[t] \in {"out", "exec"} /\ call[t] = "none"

(* t executes an action of the context, from the queue or inline. *)
Executing(t) == pc[t] = "exec" \/ inline[t]

------------------------------------------------------------------------------
(* Context::push, and Channel::push that forwards to it. *)
Push(t) ==
  /\ InUserCode(t)
  /\ pushed < MaxActions
  /\ Queue!Put(pushed + 1)
  /\ pushed' = pushed + 1
  /\ UNCHANGED <<runFlag, channels, owner, loopVars, call, inline, history>>

(* Context::invoke: the thread that is recorded as the loop's executes the
   action at once, any other one queues it.  Only t makes queue_thread_id_
   equal to t or changes it from t, so the load and the push are one step. *)
InvokeInline(t) ==
  /\ InUserCode(t)
  /\ owner = t
  /\ inline' = [inline EXCEPT ![t] = TRUE]
  /\ UNCHANGED <<queueVars, runFlag, channels, owner, loopVars, call, pushed,
                 history>>

InvokePush(t) ==
  /\ owner # t
  /\ Push(t)

InlineReturn(t) ==
  /\ InUserCode(t)
  /\ inline[t]
  /\ inline' = [inline EXCEPT ![t] = FALSE]
  /\ UNCHANGED <<queueVars, runFlag, channels, owner, loopVars, call, pushed,
                 history>>

CreateChannel(t) ==
  /\ InUserCode(t)
  /\ channels < MaxChannels
  /\ channels' = channels + 1
  /\ UNCHANGED <<queueVars, runFlag, owner, loopVars, call, inline, pushed,
                 history>>

\* Mutant: ~Channel compares the new number of channels with one.
MutDropChannelOffByOne(t) ==
  /\ InUserCode(t)
  /\ channels > 0
  /\ channels' = channels - 1
  /\ call' = [call EXCEPT ![t] = IF channels' = 1 THEN "interrupt" ELSE "none"]
  /\ UNCHANGED <<queueVars, runFlag, owner, loopVars, inline, pushed, history>>

(* ~Channel: the thread that drops the last one goes on to interrupt(). *)
DropChannel(t) ==
  /\ InUserCode(t)
  /\ channels > 0
  /\ channels' = channels - 1
  /\ call' = [call EXCEPT ![t] = IF channels = 1 THEN "interrupt" ELSE "none"]
  /\ UNCHANGED <<queueVars, runFlag, owner, loopVars, inline, pushed, history>>

(* stop(): nothing unless t is the recorded thread; then two exchanges and an
   interruption. *)
Stop(t) ==
  /\ InUserCode(t)
  /\ t \in Stopper
  /\ owner = t
  /\ owner' = NoThread
  /\ call' = [call EXCEPT ![t] = "stop"]
  /\ UNCHANGED <<queueVars, runFlag, channels, loopVars, inline, pushed,
                 history>>

StopRun(t) ==
  /\ call[t] = "stop"
  /\ runFlag' = FALSE
  /\ call' = [call EXCEPT ![t] = IF runFlag THEN "interrupt" ELSE "none"]
  /\ UNCHANGED <<queueVars, channels, owner, loopVars, inline, pushed, history>>

Interrupt(t) ==
  /\ call[t] = "interrupt"
  /\ Queue!Interrupt
  /\ call' = [call EXCEPT ![t] = "none"]
  /\ UNCHANGED <<runFlag, channels, owner, loopVars, inline, pushed, history>>

------------------------------------------------------------------------------
\* Mutant: run() does not test whether a thread is in the loop.
MutRunUnclaimed(t, p) ==
  /\ pc[t] = "out"
  /\ InUserCode(t)
  /\ ~inline[t]
  /\ t \in Runner
  /\ owner' = t
  /\ Goto(t, "reset")
  /\ policy' = [policy EXCEPT ![t] = p]
  /\ UNCHANGED <<queueVars, runFlag, channels, call, inline, pushed, history>>

(* run(): the calling thread claims the context, then the run flag.  A run()
   that finds queue_thread_id_ set returns at once. *)
Run(t, p) ==
  /\ pc[t] = "out"
  /\ InUserCode(t)
  /\ ~inline[t]
  /\ t \in Runner
  /\ owner = NoThread
  /\ owner' = t
  /\ Goto(t, "claim")
  /\ policy' = [policy EXCEPT ![t] = p]
  /\ UNCHANGED <<queueVars, runFlag, channels, call, inline, pushed, history>>

ClaimRun(t) ==
  /\ pc[t] = "claim"
  /\ runFlag' = TRUE
  /\ Goto(t, IF runFlag THEN "out" ELSE "reset")
  /\ UNCHANGED <<queueVars, channels, owner, policy, call, inline, pushed,
                 history>>

(* One round of runForever or runUntilWorkers: reset, waitPop ... *)
LoopReset(t) ==
  /\ pc[t] = "reset"
  /\ Queue!Reset
  /\ Goto(t, "ask")
  /\ UNCHANGED <<runFlag, channels, owner, policy, call, inline, pushed,
                 history>>

LoopWaitPop(t) ==
  /\ pc[t] = "ask"
  /\ Queue!Ask(t)
  /\ Goto(t, "pop")
  /\ UNCHANGED <<runFlag, channels, owner, policy, call, inline, pushed,
                 history>>

(* What follows a waitPop that returned a: Forever tests the action,
   UntilWorkers the interruption first. *)
AfterPop(t, a) ==
  \/ /\ policy[t] = "UntilWorkers"
     /\ Goto(t, "check")
     /\ UNCHANGED executed
  \/ /\ policy[t] = "Forever"
     /\ a # NoAction
     /\ Goto(t, "exec")
     /\ executed' = Append(executed, a)
  \/ /\ policy[t] = "Forever"
     /\ a = NoAction
     /\ Goto(t, "while")
     /\ UNCHANGED executed

LoopPopped(t) ==
  /\ pc[t] = "pop"
  /\ Queue!Serve(t) \/ Queue!GiveUp(t)
  /\ AfterPop(t, got'[t])
  /\ UNCHANGED <<runFlag, channels, owner, policy, call, inline, pushed, lost>>

(* ... UntilWorkers executes the popped action unless the queue is
   interrupted by now ... *)
LoopExecute(t) ==
  /\ pc[t] = "check"
  /\ ~interrupted
  /\ got[t] # NoAction
  /\ Goto(t, "exec")
  /\ executed' = Append(executed, got[t])
  /\ UNCHANGED <<queueVars, runFlag, channels, owner, policy, call, inline,
                 pushed, lost>>

LoopDiscard(t) ==
  /\ pc[t] = "check"
  /\ interrupted \/ got[t] = NoAction
  /\ Goto(t, "while")
  /\ lost' = lost \cup ({got[t]} \ {NoAction})
  /\ UNCHANGED <<queueVars, runFlag, channels, owner, policy, call, inline,
                 pushed, executed>>

(* ... the action returns ... *)
ActionReturn(t) ==
  /\ pc[t] = "exec"
  /\ call[t] = "none"
  /\ ~inline[t]
  /\ Goto(t, "while")
  /\ UNCHANGED <<queueVars, runFlag, channels, owner, policy, call, inline,
                 pushed, history>>

\* Mutant: the loop does not look at run_.
MutLoopWhileEndless(t) ==
  /\ pc[t] = "while"
  /\ Goto(t, IF policy[t] = "UntilWorkers" THEN "channels" ELSE "reset")
  /\ UNCHANGED <<queueVars, runFlag, channels, owner, policy, call, inline,
                 pushed, history>>

(* ... and the loop goes on while run_ and, UntilWorkers, while there is a
   channel. *)
LoopWhile(t) ==
  /\ pc[t] = "while"
  /\ Goto(t, IF ~runFlag THEN "out"
             ELSE IF policy[t] = "UntilWorkers" THEN "channels" ELSE "reset")
  /\ UNCHANGED <<queueVars, runFlag, channels, owner, policy, call, inline,
                 pushed, history>>

LoopChannels(t) ==
  /\ pc[t] = "channels"
  /\ Goto(t, IF channels > 0 THEN "reset" ELSE "out")
  /\ UNCHANGED <<queueVars, runFlag, channels, owner, policy, call, inline,
                 pushed, history>>

------------------------------------------------------------------------------
LoopStep(t) ==
  \/ ClaimRun(t) \/ LoopReset(t) \/ LoopWaitPop(t) \/ LoopPopped(t)
  \/ LoopExecute(t) \/ LoopDiscard(t) \/ LoopWhile(t) \/ LoopChannels(t)

(* Finishing what t has begun. *)
Finish(t) == StopRun(t) \/ Interrupt(t) \/ InlineReturn(t) \/ ActionReturn(t)

UserCall(t) ==
  \/ Push(t) \/ InvokeInline(t) \/ InvokePush(t)
  \/ CreateChannel(t) \/ DropChannel(t) \/ Stop(t)
  \/ \E p \in Policy : Run(t, p)

Next == \E t \in Thread : UserCall(t) \/ Finish(t) \/ LoopStep(t)

Safety == Init /\ [][Next]_vars

(* A thread inside run() is scheduled, a call that began ends, and so does
   an action: icc has no say in the last one, it is what its documentation
   asks of a task.  No thread has to call anything. *)
Fairness ==
  \A t \in Thread : /\ WF_vars(LoopStep(t))
                    /\ WF_vars(StopRun(t) \/ Interrupt(t))
                    /\ SF_vars(InlineReturn(t))
                    /\ SF_vars(ActionReturn(t))

Spec == Safety /\ Fairness

------------------------------------------------------------------------------
Elements(s) == {s[i] : i \in 1..Len(s)}

(* The action t has popped and has neither executed nor discarded yet. *)
Held == {got[t] : t \in {u \in Thread : pc[u] = "check"}} \ {NoAction}

(* The condition under which one thread at a time is inside the loop: either
   nobody stops the context, or only one thread ever runs it. *)
OneLoop == Stopper = {} \/ \A r, s \in Runner : r = s

(* At most one thread executes actions of a context at any time, whether they
   come from its queue or from invoke(): the guarantee that lets a Component
   keep its state without locks (queue_thread_id_ as the lock of the loop). *)
SerialExecution ==
  \A t, u \in Thread : Executing(t) /\ Executing(u) => t = u

(* The queued actions are executed in the order in which they were pushed,
   none of them twice, whichever threads pushed them and however often the
   loop was interrupted, left and entered again. *)
FifoDelivery ==
  \A i, j \in 1..Len(executed) : i < j => executed[i] < executed[j]

(* Every action pushed is still queued, or in the hands of the loop, or was
   executed, or was thrown away by an interrupted UntilWorkers loop; nothing
   disappears when the loop is stopped, interrupted or left. *)
Conservation ==
  /\ 1..pushed = Elements(items) \cup Held \cup Elements(executed) \cup lost
  /\ Elements(items) \cap (Held \cup Elements(executed) \cup lost) = {}
  /\ Held \cap (Elements(executed) \cup lost) = {}
  /\ Elements(executed) \cap lost = {}

(* No queued action starts once stop() has cleared run_: the loop that was
   stopped ends before it takes another one. *)
StoppedExecutesNothing == [][executed' # executed => runFlag]_vars

(* run() of the loop thread returns once run_ is cleared, even when it was
   about to block in waitPop. *)
StopEndsLoop ==
  \A t \in Thread : (pc[t] \in LoopPC /\ ~runFlag) ~> pc[t] = "out"

(* Every action in the queue of a context whose Forever loop is running is
   executed, unless the loop is stopped: an interruption by a dropped channel, a reset
   or a thread that pushes at the same moment delays it but does not lose it.
   (Last channels dropped again and again, without end, would interrupt every
   waitPop before it takes the action.) *)
ForeverDelivers ==
  <>[](\A t \in Thread : call[t] # "interrupt") =>
  \A i \in ActionId :
    (/\ i \in Elements(items)
     /\ \E t \in Thread : pc[t] \in LoopPC /\ policy[t] = "Forever")
      ~> (i \in Elements(executed) \/ ~runFlag)

(* A loop that blocks in waitPop while there are channels is woken when they
   are all gone for good.  (It is the guarantee ~Channel gives to
   runUntilWorkers; between the test of num_of_channels_ and reset() the
   interruption is overwritten and the guarantee does not extend to it.) *)
LastChannelWakes ==
  \A t \in Thread :
    [](channels > 0 /\ pc[t] = "pop" =>
         (<>[](channels = 0) => <>(pc[t] # "pop")))
==============================================================================
