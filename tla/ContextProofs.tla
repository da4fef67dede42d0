---------------------------- MODULE ContextProofs ----------------------------
(***************************************************************************)
(* Theorems about Context, for any number of threads, actions and          *)
(* channels.                                                               *)
(***************************************************************************)
EXTENDS Context, TLAPS

------------------------------------------------------------------------------
(* Type correctness. *)

(* What a waitPop returned is an action or the empty one: the range of got
   after the step that pops. *)
LEMMA PopTyped ==
  ASSUME TypeOK, NEW t \in Thread, LoopPopped(t)
  PROVE  /\ Queue!TypeOK'
         /\ got'[t] \in ActionId \cup {NoAction}
<1>1. CASE Queue!Serve(t)
  BY <1>1 DEF TypeOK, Queue!TypeOK, Queue!Serve, Queue!TakeHead
<1>2. CASE Queue!GiveUp(t)
  BY <1>2 DEF TypeOK, Queue!TypeOK, Queue!GiveUp
<1>3. QED
  BY <1>1, <1>2 DEF LoopPopped

(* Every variable keeps its type in every state of the context. *)
LEMMA TypeStep == TypeOK /\ [Next]_vars => TypeOK'
<1> SUFFICES ASSUME TypeOK, [Next]_vars PROVE TypeOK'
  OBVIOUS
<1> USE ThreadAssumption, BoundAssumption
<1>1. ASSUME NEW t \in Thread, Push(t) PROVE TypeOK'
  <2>1. pushed + 1 \in ActionId
    BY <1>1 DEF TypeOK, Push, ActionId
  <2>2. Queue!TypeOK'
    BY <1>1, <2>1 DEF TypeOK, Queue!TypeOK, Push, Queue!Put
  <2>3. QED
    BY <1>1, <2>1, <2>2 DEF TypeOK, Push, loopVars, history, ActionId
<1>2. ASSUME NEW t \in Thread, InvokeInline(t) \/ InlineReturn(t) PROVE TypeOK'
  BY <1>2 DEF TypeOK, Queue!TypeOK, InvokeInline, InlineReturn, queueVars,
              loopVars, history
<1>3. ASSUME NEW t \in Thread, CreateChannel(t) \/ DropChannel(t) PROVE TypeOK'
  BY <1>3 DEF TypeOK, Queue!TypeOK, CreateChannel, DropChannel, queueVars,
              loopVars, history
<1>4. ASSUME NEW t \in Thread, Stop(t) \/ StopRun(t) PROVE TypeOK'
  BY <1>4 DEF TypeOK, Queue!TypeOK, Stop, StopRun, queueVars, loopVars, history
<1>5. ASSUME NEW t \in Thread, Interrupt(t) PROVE TypeOK'
  BY <1>5 DEF TypeOK, Queue!TypeOK, Interrupt, Queue!Interrupt, loopVars,
              history
<1>6. ASSUME NEW t \in Thread, NEW p \in Policy, Run(t, p) PROVE TypeOK'
  BY <1>6, PolicyAssumption DEF TypeOK, Queue!TypeOK, Run, Goto, PC, queueVars,
                                history
<1>7. ASSUME NEW t \in Thread, ClaimRun(t) PROVE TypeOK'
  BY <1>7 DEF TypeOK, Queue!TypeOK, ClaimRun, Goto, PC, queueVars, history
<1>8. ASSUME NEW t \in Thread, LoopReset(t) \/ LoopWaitPop(t) PROVE TypeOK'
  BY <1>8 DEF TypeOK, Queue!TypeOK, LoopReset, LoopWaitPop, Queue!Reset,
              Queue!Ask, Goto, PC, history
<1>9. ASSUME NEW t \in Thread, LoopPopped(t) PROVE TypeOK'
  <2>1. Queue!TypeOK' /\ got'[t] \in ActionId \cup {NoAction}
    BY <1>9, PopTyped
  <2> DEFINE a == got'[t]
  <2>2. a \in ActionId \cup {NoAction} /\ AfterPop(t, a)
    BY <1>9, <2>1 DEF LoopPopped
  <2> HIDE DEF a
  <2>3. executed' \in Seq(ActionId)
    BY <2>2 DEF TypeOK, AfterPop
  <2>4. pc' \in [Thread -> PC]
    BY <2>2 DEF TypeOK, AfterPop, Goto, PC
  <2>5. QED
    BY <1>9, <2>1, <2>3, <2>4 DEF TypeOK, LoopPopped
<1>10. ASSUME NEW t \in Thread, LoopExecute(t) PROVE TypeOK'
  <2>1. got[t] \in ActionId
    BY <1>10 DEF TypeOK, Queue!TypeOK, LoopExecute
  <2>2. QED
    BY <1>10, <2>1 DEF TypeOK, Queue!TypeOK, LoopExecute, Goto, PC, queueVars
<1>11. ASSUME NEW t \in Thread, LoopDiscard(t) PROVE TypeOK'
  BY <1>11 DEF TypeOK, Queue!TypeOK, LoopDiscard, Goto, PC, queueVars
<1>12. ASSUME NEW t \in Thread, ActionReturn(t) \/ LoopWhile(t) \/ LoopChannels(t)
       PROVE  TypeOK'
  BY <1>12 DEF TypeOK, Queue!TypeOK, ActionReturn, LoopWhile, LoopChannels, Goto,
               PC, queueVars, history
<1>13. CASE UNCHANGED vars
  BY <1>13 DEF TypeOK, Queue!TypeOK, vars, queueVars, loopVars, history
<1>14. QED
  BY <1>1, <1>2, <1>3, <1>4, <1>5, <1>6, <1>7, <1>8, <1>9, <1>10, <1>11, <1>12,
     <1>13
     DEF Next, UserCall, Finish, LoopStep, InvokePush

(* Type correctness of the context. *)
THEOREM TypeCorrect == Safety => []TypeOK
<1>1. Init => TypeOK
  <2> SUFFICES ASSUME Init PROVE TypeOK
    OBVIOUS
  <2>1. Queue!TypeOK
    <3>1. items \in Seq(ActionId)
      BY DEF Init, Queue!Init
    <3>2. interrupted \in BOOLEAN
      BY DEF Init, Queue!Init
    <3>3. waiting \subseteq Thread
      BY DEF Init, Queue!Init
    <3>4. got \in [Thread -> ActionId \cup {NoAction}]
      BY DEF Init, Queue!Init
    <3>5. QED
      BY <3>1, <3>2, <3>3, <3>4 DEF Queue!TypeOK
  <2>2. channels \in 0..MaxChannels /\ pushed \in 0..MaxActions
    BY BoundAssumption DEF Init
  <2>3. executed \in Seq(ActionId) /\ lost \subseteq ActionId
    BY DEF Init
  <2>4. pc \in [Thread -> PC] /\ policy \in [Thread -> {"Forever", "UntilWorkers"}]
    BY DEF Init, PC
  <2>5. call \in [Thread -> {"none", "stop", "interrupt"}]
    BY DEF Init
  <2>6. QED
    BY <2>1, <2>2, <2>3, <2>4, <2>5 DEF Init, TypeOK
<1>2. QED
  BY <1>1, TypeStep, PTL DEF Safety

------------------------------------------------------------------------------
(* One thread at a time. *)

(* Why: queue_thread_id_ is claimed before run_ and given up only by stop(),
   so a thread that is inside run(), inside an inline action or inside stop()
   is a runner, and while nobody stops the context it is the recorded one. *)
LoopInv ==
  /\ owner # NoThread => owner \in Runner
  /\ \A t \in Thread :
       pc[t] # "out" \/ inline[t] \/ call[t] = "stop" => t \in Runner
  /\ Stopper = {} =>
       \A t \in Thread : /\ call[t] # "stop"
                         /\ pc[t] # "out" \/ inline[t] => owner = t

(* The loop claims and gives up the context as LoopInv says, in every step. *)
LEMMA LoopStepInv == TypeOK /\ LoopInv /\ [Next]_vars => LoopInv'
<1> SUFFICES ASSUME TypeOK, LoopInv, [Next]_vars PROVE LoopInv'
  OBVIOUS
<1> USE ThreadAssumption DEF LoopInv, TypeOK
<1>1. ASSUME NEW t \in Thread, Push(t) PROVE LoopInv'
  BY <1>1 DEF Push, loopVars
<1>2. ASSUME NEW t \in Thread, InvokeInline(t) PROVE LoopInv'
  BY <1>2 DEF InvokeInline, loopVars
<1>3. ASSUME NEW t \in Thread, InlineReturn(t) PROVE LoopInv'
  BY <1>3 DEF InlineReturn, loopVars
<1>4. ASSUME NEW t \in Thread, CreateChannel(t) PROVE LoopInv'
  BY <1>4 DEF CreateChannel, loopVars
<1>5. ASSUME NEW t \in Thread, DropChannel(t) PROVE LoopInv'
  BY <1>5 DEF DropChannel, loopVars
<1>6. ASSUME NEW t \in Thread, Stop(t) PROVE LoopInv'
  BY <1>6 DEF Stop, loopVars
<1>7. ASSUME NEW t \in Thread, StopRun(t) PROVE LoopInv'
  BY <1>7 DEF StopRun, loopVars
<1>8. ASSUME NEW t \in Thread, Interrupt(t) PROVE LoopInv'
  BY <1>8 DEF Interrupt, loopVars
<1>9. ASSUME NEW t \in Thread, NEW p \in Policy, Run(t, p) PROVE LoopInv'
  BY <1>9 DEF Run, Goto
<1>10. ASSUME NEW t \in Thread, pc[t] # "out", NEW l \in PC, Goto(t, l),
              UNCHANGED <<owner, call, inline>>
       PROVE  LoopInv'
  BY <1>10 DEF Goto
<1>11. CASE UNCHANGED vars
  BY <1>11 DEF vars, loopVars
<1>12. ASSUME NEW t \in Thread, LoopStep(t) \/ ActionReturn(t) PROVE LoopInv'
  <2>1. pc[t] # "out" /\ UNCHANGED <<owner, call, inline>>
    BY <1>12 DEF LoopStep, ClaimRun, LoopReset, LoopWaitPop, LoopPopped,
                 LoopExecute, LoopDiscard, LoopWhile, LoopChannels, ActionReturn
  <2>2. \E l \in PC : Goto(t, l)
    BY <1>12 DEF LoopStep, ClaimRun, LoopReset, LoopWaitPop, LoopPopped,
                 AfterPop, LoopExecute, LoopDiscard, LoopWhile, LoopChannels,
                 ActionReturn, PC
  <2>3. QED
    BY <2>1, <2>2, <1>10
<1>13. QED
  BY <1>1, <1>2, <1>3, <1>4, <1>5, <1>6, <1>7, <1>8, <1>9, <1>11, <1>12
     DEF Next, UserCall, Finish, InvokePush

(* Initially no thread is in the loop. *)
LEMMA LoopInit == Init => LoopInv
BY ThreadAssumption DEF Init, LoopInv

(* Under OneLoop two threads inside run() or an inline action are the same
   one. *)
LEMMA OneThread ==
  ASSUME OneLoop, LoopInv,
         NEW t \in Thread, NEW u \in Thread,
         pc[t] # "out" \/ inline[t], pc[u] # "out" \/ inline[u]
  PROVE  t = u
BY DEF OneLoop, LoopInv

(* When nobody stops the context, or a single thread ever runs it, the actions
   of a context are executed by one thread at a time. *)
THEOREM Serial == OneLoop => (Safety => []SerialExecution)
<1> SUFFICES ASSUME OneLoop PROVE Safety => []SerialExecution
  OBVIOUS
<1>1. TypeOK /\ LoopInv => SerialExecution
  BY OneThread DEF SerialExecution, Executing
<1>2. QED
  BY <1>1, LoopInit, LoopStepInv, TypeCorrect, PTL DEF Safety

------------------------------------------------------------------------------
(* A stopped loop executes nothing more. *)

(* Why: stop() clears run_ from inside the body of an action or from outside
   run(), so the loop meets run_ = true again before it takes an action. *)
StopInv ==
  \A t \in Thread :
    /\ pc[t] \in {"reset", "ask", "pop", "check", "channels"} => runFlag
    /\ call[t] # "none" => pc[t] \in {"out", "exec"}

(* Every step of a context with one loop keeps StopInv. *)
LEMMA StopStepInv ==
  ASSUME OneLoop, TypeOK, LoopInv, StopInv, [Next]_vars
  PROVE  StopInv'
<1> USE DEF StopInv, TypeOK
<1>1. ASSUME NEW t \in Thread, Push(t) \/ InvokeInline(t) \/ InlineReturn(t)
                                \/ CreateChannel(t)
      PROVE  StopInv'
  BY <1>1 DEF Push, InvokeInline, InlineReturn, CreateChannel, loopVars
<1>2. ASSUME NEW t \in Thread, DropChannel(t) \/ Stop(t) \/ Interrupt(t)
      PROVE  StopInv'
  BY <1>2 DEF DropChannel, Stop, Interrupt, InUserCode, loopVars
<1>3. ASSUME NEW t \in Thread, StopRun(t) PROVE StopInv'
  <2>1. \A u \in Thread : pc[u] # "out" => pc[u] \in {"out", "exec"}
                                           \/ u # t
    BY <1>3 DEF StopRun
  <2>2. \A u \in Thread : u # t => pc[u] = "out"
    BY <1>3, <2>1 DEF StopRun, OneLoop, LoopInv
  <2>3. QED
    BY <1>3, <2>1, <2>2 DEF StopRun, loopVars
<1>4. ASSUME NEW t \in Thread, NEW p \in Policy, Run(t, p) PROVE StopInv'
  BY <1>4 DEF Run, Goto, InUserCode
<1>5. ASSUME NEW t \in Thread, ClaimRun(t) PROVE StopInv'
  BY <1>5 DEF ClaimRun, Goto
<1>6. ASSUME NEW t \in Thread, LoopReset(t) \/ LoopWaitPop(t) PROVE StopInv'
  BY <1>6 DEF LoopReset, LoopWaitPop, Goto
<1>7. ASSUME NEW t \in Thread, LoopPopped(t) PROVE StopInv'
  BY <1>7 DEF LoopPopped, AfterPop, Goto
<1>8. ASSUME NEW t \in Thread, LoopExecute(t) \/ LoopDiscard(t) PROVE StopInv'
  BY <1>8 DEF LoopExecute, LoopDiscard, Goto
<1>9. ASSUME NEW t \in Thread, ActionReturn(t) \/ LoopWhile(t) \/ LoopChannels(t)
      PROVE  StopInv'
  BY <1>9 DEF ActionReturn, LoopWhile, LoopChannels, Goto
<1>10. CASE UNCHANGED vars
  BY <1>10 DEF vars, loopVars
<1>11. QED
  BY <1>1, <1>2, <1>3, <1>4, <1>5, <1>6, <1>7, <1>8, <1>9, <1>10
     DEF Next, UserCall, Finish, LoopStep, InvokePush

(* Once stop() has cleared run_, no queued action starts. *)
THEOREM Stopped == OneLoop => (Safety => StoppedExecutesNothing)
<1> SUFFICES ASSUME OneLoop PROVE Safety => StoppedExecutesNothing
  OBVIOUS
<1>1. Init => StopInv
  BY DEF Init, StopInv
<1>2. ASSUME StopInv, Next PROVE executed' # executed => runFlag
  BY <1>2 DEF StopInv, Next, UserCall, Finish, LoopStep, Push, InvokePush,
              InvokeInline, InlineReturn, CreateChannel, DropChannel, Stop,
              StopRun, Interrupt, Run, ClaimRun, LoopReset, LoopWaitPop,
              LoopPopped, LoopExecute, LoopDiscard, LoopWhile, LoopChannels,
              ActionReturn, history
<1>3. StopInv /\ [Next]_vars => [executed' # executed => runFlag]_vars
  BY <1>2
<1>4. TypeOK /\ LoopInv /\ StopInv /\ [Next]_vars => StopInv'
  BY StopStepInv
<1>5. QED
  BY <1>1, <1>3, <1>4, LoopInit, LoopStepInv, TypeCorrect, PTL
     DEF Safety, StoppedExecutesNothing

------------------------------------------------------------------------------
(* Delivery: order, at most once, and nothing disappears. *)

(* The actions that have left the queue. *)
Popped == pushed - Len(items)

(* Why: the queue holds the last Len(items) numbers handed out, in order, so
   what leaves it is larger than all that left it before; and a number that
   has left is either held by the one loop that popped it, executed, or
   lost. *)
DeliveryInv ==
  /\ Len(items) <= pushed
  /\ \A i \in 1..Len(items) : items[i] = Popped + i
  /\ \A i \in 1..Len(executed) : executed[i] <= Popped
  /\ \A a \in lost : a <= Popped
  /\ \A t \in Thread : pc[t] = "check" => got[t] <= Popped
  /\ \A t \in Thread : pc[t] = "check" /\ got[t] # NoAction =>
       /\ \A i \in 1..Len(executed) : executed[i] < got[t]
       /\ got[t] \notin lost
  /\ FifoDelivery
  /\ Elements(executed) \cap lost = {}
  /\ 1..Popped \subseteq Held \cup Elements(executed) \cup lost

(* The history records action numbers. *)
LEMMA ExecutedNat ==
  ASSUME TypeOK
  PROVE  /\ Len(executed) \in Nat
         /\ \A i \in 1..Len(executed) : /\ executed[i] \in ActionId
                                        /\ executed[i] \in Nat
                                        /\ executed[i] >= 1
<1>1. \A i \in 1..Len(executed) : executed[i] \in ActionId
  BY DEF TypeOK
<1>2. QED
  BY <1>1 DEF TypeOK, ActionId

(* A step that touches neither the queue nor what was popped from it, and
   neither enters nor leaves "check", keeps DeliveryInv. *)
LEMMA DeliveryFrame ==
  ASSUME DeliveryInv,
         UNCHANGED <<items, got, pushed, history>>,
         \A t \in Thread : (pc[t] = "check") = (pc'[t] = "check")
  PROVE  DeliveryInv'
<1>1. Held' = Held /\ Popped' = Popped
  BY DEF Held, Popped, NoAction
<1>2. Elements(executed)' = Elements(executed) /\ FifoDelivery'
  BY DEF DeliveryInv, Elements, FifoDelivery, history
<1>3. QED
  BY <1>1, <1>2 DEF DeliveryInv, history

(* A push appends the next number. *)
LEMMA DeliveryPush ==
  ASSUME TypeOK, DeliveryInv, NEW t \in Thread, Push(t)
  PROVE  DeliveryInv'
<1> USE DEF TypeOK, Queue!TypeOK
<1>1. /\ items' = Append(items, pushed + 1)
      /\ pushed' = pushed + 1
      /\ UNCHANGED <<got, pc, executed, lost>>
  BY DEF Push, Queue!Put, loopVars, history
<1>2. Len(items') = Len(items) + 1 /\ Popped' = Popped
  BY <1>1 DEF Popped
<1>3. ASSUME NEW i \in 1..Len(items') PROVE items'[i] = Popped + i
  <2>1. CASE i = Len(items) + 1
    BY <1>1, <2>1 DEF Popped
  <2>2. CASE i \in 1..Len(items)
    BY <1>1, <2>2 DEF DeliveryInv
  <2>3. QED
    BY <1>2, <2>1, <2>2
<1>4. Held' = Held
  BY <1>1 DEF Held, NoAction
<1>5. Elements(executed)' = Elements(executed) /\ FifoDelivery'
  BY <1>1 DEF DeliveryInv, Elements, FifoDelivery
<1>6. QED
  BY <1>1, <1>2, <1>3, <1>4, <1>5 DEF DeliveryInv

(* What is executed next is larger than all that was executed before. *)
LEMMA DeliveryAppend ==
  ASSUME TypeOK, FifoDelivery, NEW a \in ActionId,
         \A i \in 1..Len(executed) : executed[i] < a,
         executed' = Append(executed, a)
  PROVE  /\ FifoDelivery'
         /\ Elements(executed)' = Elements(executed) \cup {a}
         /\ \A i \in 1..Len(executed') : executed'[i] <= a
<1> USE DEF TypeOK, ActionId
<1>0. /\ \A i \in 1..Len(executed) : executed[i] \in Nat
      /\ Len(executed) \in Nat
  BY ExecutedNat
<1>1. Len(executed') = Len(executed) + 1 /\ executed'[Len(executed) + 1] = a
  OBVIOUS
<1>2. \A i \in 1..Len(executed) : executed'[i] = executed[i]
  OBVIOUS
<1>3. FifoDelivery'
  <2> SUFFICES ASSUME NEW i \in 1..Len(executed'), NEW j \in 1..Len(executed'),
                      i < j
               PROVE  executed'[i] < executed'[j]
    BY DEF FifoDelivery
  <2>1. i \in 1..Len(executed)
    BY <1>0, <1>1
  <2>2. CASE j = Len(executed) + 1
    BY <1>1, <1>2, <2>1, <2>2
  <2>3. CASE j \in 1..Len(executed)
    BY <1>2, <2>1, <2>3 DEF FifoDelivery
  <2>4. QED
    BY <1>0, <1>1, <2>2, <2>3
<1>4. Elements(executed)' = Elements(executed) \cup {a}
  BY <1>1, <1>2 DEF Elements
<1>5. ASSUME NEW i \in 1..Len(executed') PROVE executed'[i] <= a
  <2>1. CASE i = Len(executed) + 1
    BY <1>1, <2>1
  <2>2. CASE i \in 1..Len(executed)
    BY <1>0, <1>2, <2>2
  <2>3. QED
    BY <1>0, <1>1, <2>1, <2>2
<1>6. QED
  BY <1>3, <1>4, <1>5

(* A pop takes the oldest number out of the queue, and the loop holds it or
   executes it. *)
LEMMA DeliveryPop ==
  ASSUME OneLoop, TypeOK, LoopInv, DeliveryInv, NEW t \in Thread, LoopPopped(t)
  PROVE  DeliveryInv'
<1> USE DEF TypeOK, Queue!TypeOK
<1>1. /\ pc[t] = "pop"
      /\ UNCHANGED <<pushed, lost>>
      /\ AfterPop(t, got'[t])
  BY DEF LoopPopped
<1>2. \A u \in Thread : u # t => pc[u] = "out" /\ pc'[u] = pc[u]
  BY <1>1, OneThread DEF AfterPop, Goto
<1>3. Held = {}
  BY <1>1, <1>2 DEF Held
<1>4. CASE Queue!GiveUp(t)
  <2>1. UNCHANGED items /\ got'[t] = NoAction
    BY <1>4 DEF Queue!GiveUp
  <2>2. UNCHANGED executed
    BY <1>1, <2>1 DEF AfterPop
  <2>3. Held' = {} /\ Popped' = Popped /\ FifoDelivery'
    BY <1>1, <1>2, <2>1, <2>2 DEF Held, Popped, DeliveryInv, FifoDelivery
  <2>4. \A u \in Thread : pc'[u] = "check" => got'[u] = NoAction
    BY <1>2, <2>1
  <2>5. Popped \in Nat
    BY DEF Popped, DeliveryInv
  <2>6. UNCHANGED <<pushed, lost, items, executed>>
    BY <1>1, <2>1, <2>2
  <2>7. \A u \in Thread : pc'[u] = "check" => got'[u] <= Popped'
    BY <2>3, <2>4, <2>5 DEF NoAction
  <2>8. /\ Len(items') <= pushed' /\ \A i \in 1..Len(items') : items'[i] = Popped' + i
        /\ \A i \in 1..Len(executed') : executed'[i] <= Popped'
        /\ \A a \in lost' : a <= Popped'
    BY <2>3, <2>6 DEF DeliveryInv
  <2>9. \A u \in Thread : pc'[u] = "check" /\ got'[u] # NoAction =>
          /\ \A i \in 1..Len(executed') : executed'[i] < got'[u]
          /\ got'[u] \notin lost'
    BY <2>4, Zenon
  <2>10. /\ Elements(executed') \cap lost' = {}
         /\ 1..Popped' \subseteq Held' \cup Elements(executed') \cup lost'
    BY <1>3, <2>3, <2>6 DEF DeliveryInv
  <2>11. QED
    BY <2>3, <2>7, <2>8, <2>9, <2>10, Zenon DEF DeliveryInv, Elements
<1>5. CASE Queue!Serve(t)
  <2> DEFINE a == Head(items)
  <2>1. items # <<>> /\ items' = Tail(items) /\ got'[t] = a
    BY <1>5 DEF Queue!Serve, Queue!TakeHead
  <2>2. a = Popped + 1 /\ a \in ActionId /\ a # NoAction
    <3>1. a = items[1] /\ 1 \in 1..Len(items)
      BY <2>1
    <3>2. a \in ActionId
      BY <2>1
    <3>3. QED
      BY <3>1, <3>2 DEF DeliveryInv, ActionId, NoAction
  <2>3. /\ Len(items') = Len(items) - 1
        /\ Popped' = a
        /\ Popped \in Nat
    BY <1>1, <2>1, <2>2 DEF Popped, DeliveryInv
  <2>4. \A i \in 1..Len(items') : items'[i] = a + i
    BY <2>1, <2>2, <2>3 DEF DeliveryInv
  <2> HIDE DEF a
  <2>5. \A i \in 1..Len(executed) : executed[i] < a
    <3>1. \A i \in 1..Len(executed) : executed[i] \in Nat /\ executed[i] <= Popped
      BY ExecutedNat DEF DeliveryInv
    <3>2. QED
      BY <2>2, <2>3, <3>1
  <2>6. a \notin lost /\ a \notin Elements(executed)
    BY <2>2, <2>3, <2>5 DEF DeliveryInv, ActionId, Elements
  <2>7. 1..a = (1..Popped) \cup {a}
    BY <2>2, <2>3
  <2>8. CASE pc'[t] = "check"
    <3>1. UNCHANGED executed
      BY <1>1, <2>8 DEF AfterPop, Goto
    <3>2. Held' = {a}
      <4>1. {u \in Thread : pc'[u] = "check"} = {t}
        BY <1>2, <2>8
      <4>2. Held' = {got'[t]} \ {NoAction}
        BY <4>1, Zenon DEF Held
      <4>3. QED
        BY <2>1, <2>2, <4>2
    <3>3. FifoDelivery' /\ Elements(executed)' = Elements(executed)
      BY <3>1 DEF DeliveryInv, FifoDelivery, Elements
    <3>4. \A u \in Thread : pc'[u] = "check" => got'[u] = a
      BY <1>2, <2>1
    <3>5. /\ \A i \in 1..Len(executed') : executed'[i] <= a
          /\ \A b \in lost' : b <= a
      <4>1. \A i \in 1..Len(executed) : executed[i] <= a
        BY <2>2, <2>5, ExecutedNat DEF ActionId
      <4>2. \A b \in lost : b <= a
        BY <2>2, <2>3 DEF DeliveryInv, ActionId
      <4>3. QED
        BY <1>1, <3>1, <4>1, <4>2
    <3>6. Elements(executed)' \cap lost' = {}
      BY <1>1, <3>3 DEF DeliveryInv
    <3>7. 1..Popped' \subseteq Held' \cup Elements(executed)' \cup lost'
      BY <1>1, <1>3, <2>3, <2>7, <3>2, <3>3 DEF DeliveryInv
    <3>8. Len(items') <= pushed'
      BY <1>1, <2>3 DEF DeliveryInv, Popped
    <3>9. \A u \in Thread : pc'[u] = "check" => got'[u] <= a
      BY <2>2, <3>4 DEF ActionId
    <3>10. \A u \in Thread : pc'[u] = "check" =>
             (\A i \in 1..Len(executed') : executed'[i] < got'[u]) /\ got'[u] \notin lost'
      BY <1>1, <2>5, <2>6, <3>1, <3>4
    <3>11. QED
      BY <2>3, <2>4, <3>3, <3>5, <3>6, <3>7, <3>8, <3>9, <3>10 DEF DeliveryInv
  <2>9. CASE pc'[t] # "check"
    <3>1. executed' = Append(executed, a)
      BY <1>1, <2>1, <2>2, <2>9 DEF AfterPop, Goto
    <3>2. /\ FifoDelivery'
          /\ Elements(executed)' = Elements(executed) \cup {a}
          /\ \A i \in 1..Len(executed') : executed'[i] <= a
      BY <2>2, <2>5, <3>1, DeliveryAppend DEF DeliveryInv
    <3>3. \A u \in Thread : pc'[u] # "check"
      BY <1>2, <2>9
    <3>4. Held' = {}
      BY <3>3 DEF Held
    <3>5. QED
      BY <1>1, <1>3, <2>2, <2>3, <2>4, <2>6, <2>7, <3>2, <3>3, <3>4
         DEF DeliveryInv, ActionId
  <2>10. QED
    BY <2>8, <2>9
<1>6. QED
  BY <1>4, <1>5 DEF LoopPopped

(* The held action is executed, or lost when the queue is interrupted. *)
LEMMA DeliveryCheck ==
  ASSUME OneLoop, TypeOK, LoopInv, DeliveryInv, NEW t \in Thread,
         LoopExecute(t) \/ LoopDiscard(t)
  PROVE  DeliveryInv'
<1> USE DEF TypeOK, Queue!TypeOK
<1>1. pc[t] = "check" /\ UNCHANGED <<items, got, pushed>>
  BY DEF LoopExecute, LoopDiscard, queueVars
<1>2. \A u \in Thread : /\ u # t => pc[u] = "out"
                        /\ pc'[u] # "check"
  BY <1>1, OneThread DEF LoopExecute, LoopDiscard, Goto
<1>3. Held = {got[t]} \ {NoAction} /\ Held' = {}
  BY <1>1, <1>2 DEF Held
<1>4. Popped' = Popped /\ Popped \in Nat
  BY <1>1 DEF Popped, DeliveryInv
<1>5. CASE LoopExecute(t)
  <2>1. /\ executed' = Append(executed, got[t])
        /\ UNCHANGED lost
        /\ got[t] \in ActionId
        /\ got[t] # NoAction
    BY <1>5 DEF LoopExecute
  <2>2. /\ FifoDelivery'
        /\ Elements(executed)' = Elements(executed) \cup {got[t]}
        /\ \A i \in 1..Len(executed') : executed'[i] <= got[t]
    BY <1>1, <2>1, DeliveryAppend DEF DeliveryInv
  <2>3. got[t] \notin lost /\ got[t] <= Popped
    BY <1>1, <2>1 DEF DeliveryInv
  <2>4. \A i \in 1..Len(executed') : executed'[i] \in ActionId
    BY <2>1
  <2>5. \A i \in 1..Len(executed') : executed'[i] <= Popped
    BY <1>4, <2>1, <2>2, <2>3, <2>4 DEF ActionId
  <2>6. QED
    BY <1>1, <1>2, <1>3, <1>4, <2>1, <2>2, <2>3, <2>5 DEF DeliveryInv
<1>6. CASE LoopDiscard(t)
  <2>1. lost' = lost \cup Held /\ UNCHANGED executed
    BY <1>3, <1>6 DEF LoopDiscard
  <2>2. FifoDelivery' /\ Elements(executed)' = Elements(executed)
    BY <2>1 DEF DeliveryInv, FifoDelivery, Elements
  <2>3. \A a \in Held : a <= Popped /\ a \notin Elements(executed)
    BY <1>1, <1>3 DEF DeliveryInv, Elements, ActionId
  <2>4. QED
    BY <1>1, <1>2, <1>3, <1>4, <2>1, <2>2, <2>3 DEF DeliveryInv
<1>7. QED
  BY <1>5, <1>6

(* Every step of a context with one loop keeps DeliveryInv. *)
LEMMA DeliveryStepInv ==
  ASSUME OneLoop, TypeOK, LoopInv, DeliveryInv, [Next]_vars
  PROVE  DeliveryInv'
<1>1. ASSUME NEW t \in Thread, Push(t) \/ InvokePush(t) PROVE DeliveryInv'
  BY <1>1, DeliveryPush DEF InvokePush
<1>2. ASSUME NEW t \in Thread,
             \/ InvokeInline(t) \/ InlineReturn(t) \/ CreateChannel(t)
             \/ DropChannel(t) \/ Stop(t) \/ StopRun(t) \/ Interrupt(t)
      PROVE  DeliveryInv'
  <2>1. UNCHANGED <<items, got, pushed, history, pc>>
    BY <1>2 DEF InvokeInline, InlineReturn, CreateChannel, DropChannel, Stop,
                StopRun, Interrupt, Queue!Interrupt, queueVars, loopVars, history
  <2>2. QED
    BY <2>1, DeliveryFrame DEF history
<1>3. ASSUME NEW t \in Thread, NEW p \in Policy, Run(t, p) PROVE DeliveryInv'
  BY <1>3, DeliveryFrame DEF Run, Goto, TypeOK, queueVars
<1>4. ASSUME NEW t \in Thread, ClaimRun(t) PROVE DeliveryInv'
  BY <1>4, DeliveryFrame DEF ClaimRun, Goto, TypeOK, queueVars
<1>5. ASSUME NEW t \in Thread, LoopReset(t) \/ LoopWaitPop(t) PROVE DeliveryInv'
  BY <1>5, DeliveryFrame DEF LoopReset, LoopWaitPop, Queue!Reset, Queue!Ask, Goto,
                             TypeOK
<1>6. ASSUME NEW t \in Thread, ActionReturn(t) \/ LoopWhile(t) \/ LoopChannels(t)
      PROVE  DeliveryInv'
  BY <1>6, DeliveryFrame DEF ActionReturn, LoopWhile, LoopChannels, Goto, TypeOK,
                             queueVars
<1>7. CASE UNCHANGED vars
  BY <1>7, DeliveryFrame DEF vars, queueVars, loopVars
<1>8. QED
  BY <1>1, <1>2, <1>3, <1>4, <1>5, <1>6, <1>7, DeliveryPop, DeliveryCheck
     DEF Next, UserCall, Finish, LoopStep

(* Initially nothing has been pushed. *)
LEMMA DeliveryInit == Init => DeliveryInv
<1> SUFFICES ASSUME Init PROVE DeliveryInv
  OBVIOUS
<1>1. pushed = 0 /\ items = <<>> /\ executed = <<>> /\ lost = {}
  BY DEF Init, Queue!Init
<1>2. \A t \in Thread : pc[t] = "out"
  BY DEF Init
<1>3. Popped = 0 /\ Elements(executed) = {}
  <2>1. Len(items) = 0 /\ 1..Len(executed) = {}
    BY <1>1
  <2>2. Popped = 0
    <3>1. Popped = 0 - 0
      BY <1>1, <2>1, Zenon DEF Popped
    <3>2. QED
      BY <3>1
  <2>3. QED
    BY <2>1, <2>2 DEF Elements
<1>4. FifoDelivery
  BY <1>1 DEF FifoDelivery
<1>5. QED
  BY <1>1, <1>2, <1>3, <1>4 DEF DeliveryInv

(* DeliveryInv says where every action is. *)
LEMMA DeliveryConserves == TypeOK /\ DeliveryInv => Conservation
<1> SUFFICES ASSUME TypeOK, DeliveryInv PROVE Conservation
  OBVIOUS
<1> USE DEF TypeOK, Queue!TypeOK, ActionId, NoAction
<1>1. Popped \in Nat /\ Popped + Len(items) = pushed
  BY DEF Popped, DeliveryInv
<1>2. Elements(items) = (Popped + 1)..pushed
  <2>1. \A a \in Elements(items) : a \in (Popped + 1)..pushed
    BY <1>1 DEF Elements, DeliveryInv
  <2>2. ASSUME NEW a \in (Popped + 1)..pushed PROVE a \in Elements(items)
    <3>1. a - Popped \in 1..Len(items) /\ items[a - Popped] = a
      BY <1>1 DEF DeliveryInv
    <3>2. QED
      BY <3>1 DEF Elements
  <2>3. QED
    BY <2>1, <2>2
<1>3. Held \subseteq 1..Popped
  BY <1>1 DEF Held, DeliveryInv
<1>4. Elements(executed) \subseteq 1..Popped
  <2>1. \A i \in 1..Len(executed) : executed[i] \in Nat /\ executed[i] >= 1
    BY ExecutedNat
  <2>2. \A i \in 1..Len(executed) : executed[i] \in 1..Popped
    BY <1>1, <2>1 DEF DeliveryInv
  <2>3. QED
    BY <2>2 DEF Elements
<1>5. lost \subseteq 1..Popped
  BY <1>1 DEF DeliveryInv
<1>6. Held \cap (Elements(executed) \cup lost) = {}
  BY DEF Held, Elements, DeliveryInv
<1>7. 1..pushed = (1..Popped) \cup ((Popped + 1)..pushed)
  BY <1>1
<1>8. (1..Popped) \cap ((Popped + 1)..pushed) = {}
  BY <1>1
<1>9. QED
  BY <1>2, <1>3, <1>4, <1>5, <1>6, <1>7, <1>8 DEF Conservation, DeliveryInv

(* The queued actions of a context with one loop are executed in push order,
   none twice. *)
THEOREM Fifo == OneLoop => (Safety => []FifoDelivery)
<1> SUFFICES ASSUME OneLoop PROVE Safety => []FifoDelivery
  OBVIOUS
<1>1. TypeOK /\ LoopInv /\ DeliveryInv /\ [Next]_vars => DeliveryInv'
  BY DeliveryStepInv
<1>2. DeliveryInv => FifoDelivery
  BY DEF DeliveryInv
<1>3. QED
  BY <1>1, <1>2, DeliveryInit, LoopInit, LoopStepInv, TypeCorrect, PTL DEF Safety

(* No action of a context with one loop disappears or is in two places. *)
THEOREM Conserved == OneLoop => (Safety => []Conservation)
<1> SUFFICES ASSUME OneLoop PROVE Safety => []Conservation
  OBVIOUS
<1>1. TypeOK /\ LoopInv /\ DeliveryInv /\ [Next]_vars => DeliveryInv'
  BY DeliveryStepInv
<1>2. QED
  BY <1>1, DeliveryConserves, DeliveryInit, LoopInit, LoopStepInv, TypeCorrect, PTL
     DEF Safety
==============================================================================
