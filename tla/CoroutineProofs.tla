--------------------------- MODULE CoroutineProofs ---------------------------
(***************************************************************************)
(* Theorems about Coroutine, for any number of coroutines, clients,        *)
(* co_awaits, exceptions and wake-ups nobody asked for.                    *)
(***************************************************************************)
EXTENDS Coroutine, SequenceTheorems, TLAPS

In(q, a) == \E i \in DOMAIN q : q[i] = a
Once(q) == \A i, j \in DOMAIN q : q[i] = q[j] => i = j

Starting(c) == [what |-> "start", of |-> c]

(* An action is queued or taken, and not both. *)
OnItsWay(q, t, a) == In(q, a) \/ t = a
Pending(a) == OnItsWay(queue, taken, a)
ActionsOnce == Once(queue) /\ (taken # None => ~In(queue, taken))

(* A start on its way is that of a coroutine that was posted. *)
StartsPosted == \A c \in Coro : Pending(Starting(c)) => at[c] = "posted"

(* The sources of a resumption exclude each other, and only who waits has one. *)
SourcesApart ==
  \A c \in Coro :
    /\ Pending(Resumption(c)) => at[c] = "waiting" /\ ~Busy(c) /\ timer[c] = "none"
    /\ Busy(c) => at[c] = "waiting" /\ timer[c] = "none"
    /\ timer[c] # "none" => at[c] = "waiting"

(* Who waits has one. *)
SourceKept ==
  \A c \in Coro :
    at[c] = "waiting" => Pending(Resumption(c)) \/ Busy(c) \/ timer[c] # "none"

(* The stack holds each coroutine once; all but the last have started another,
   and who calls a task awaits one. *)
OnTop == {"body", "calling", "spawning", "getting", "joining"}
Below == {"calling", "spawning"}

StackShape ==
  /\ Once(stack)
  /\ \A i \in DOMAIN stack :
       at[stack[i]] \in IF i = Len(stack) THEN OnTop ELSE Below
  /\ \A c \in Coro : at[c] = "calling" => awaits[c] \in Coro

(* What run() has taken it will execute; when it has ended all is over. *)
RunShape ==
  /\ taken # None => run = "popped" /\ ~interrupted
  /\ run = "ended" => ~scheduler /\ AllDone

CoroutineInv ==
  /\ TypeOK
  /\ ActionsOnce /\ StartsPosted /\ SourcesApart /\ SourceKept
  /\ AwaiterKept /\ StackShape /\ RunShape

(* What is known once a resumption of the coroutine is on its way or over. *)
Due(c) ==
  at[c] = "joining" \/ waiter[c] \in {"ready", "finished"} \/ Pending(Resumption(c))

Answered(c) ==
  /\ awaits[c] \in Coro => result[awaits[c]]
  /\ awaits[c] = "future" => future[c]

(* A timer is that of a co_await of a duration; any other co_await is resumed when
   its result is there, as long as nobody wakes up by himself. *)
Proper(c) ==
  /\ timer[c] # "none" => awaits[c] = "timer"
  /\ spurious = 0 => at[c] # "getting" /\ (Due(c) => Answered(c))

ResultInv == CoroutineInv /\ \A c \in Coro : Proper(c)
------------------------------------------------------------------------------
(* Sequences. *)

(* Appending adds one element, and no second copy of what was not there. *)
LEMMA AppendIn ==
  ASSUME NEW S, NEW q \in Seq(S), NEW a \in S
  PROVE  /\ \A b : In(Append(q, a), b) <=> In(q, b) \/ b = a
         /\ Once(q) /\ ~In(q, a) => Once(Append(q, a))
PROOF
  <1> DEFINE r == Append(q, a)
  <1>1. /\ Len(r) = Len(q) + 1
        /\ DOMAIN r = 1..Len(r) /\ DOMAIN q = 1..Len(q) /\ Len(q) \in Nat
        /\ \A i \in 1..Len(q) : r[i] = q[i]
        /\ r[Len(q) + 1] = a
    BY AppendProperties, LenProperties
  <1> HIDE DEF r
  <1>2. \A b : In(r, b) <=> In(q, b) \/ b = a
    BY <1>1 DEF In
  <1>3. Once(q) /\ ~In(q, a) => Once(r)
    BY <1>1 DEF In, Once
  <1> QED
    BY <1>2, <1>3 DEF r

(* Taking the first leaves the others, and no copy of it. *)
LEMMA TailIn ==
  ASSUME NEW S, NEW q \in Seq(S), q # <<>>
  PROVE  /\ Head(q) \in S /\ Tail(q) \in Seq(S)
         /\ \A b : In(q, b) <=> b = Head(q) \/ In(Tail(q), b)
         /\ Once(q) => Once(Tail(q)) /\ ~In(Tail(q), Head(q))
PROOF
  <1> DEFINE r == Tail(q)
  <1>1. /\ r \in Seq(S) /\ Head(q) \in S /\ Head(q) = q[1]
        /\ Len(r) = Len(q) - 1 /\ Len(q) \in Nat \ {0}
        /\ DOMAIN r = 1..Len(r) /\ DOMAIN q = 1..Len(q)
        /\ \A i \in 1..Len(r) : r[i] = q[i + 1]
    BY HeadTailProperties, LenProperties, EmptySeq
  <1> HIDE DEF r
  <1>2. \A b : In(q, b) <=> b = Head(q) \/ In(r, b)
    <2>1. ASSUME NEW b, In(r, b)
          PROVE  In(q, b)
      BY <1>1, <2>1 DEF In
    <2>2. ASSUME NEW b, NEW i \in DOMAIN q, q[i] = b
          PROVE  b = Head(q) \/ In(r, b)
      <3>1. CASE i = 1
        BY <1>1, <2>2, <3>1
      <3>2. CASE i # 1
        <4>1. i - 1 \in DOMAIN r /\ r[i - 1] = b
          BY <1>1, <2>2, <3>2
        <4> QED
          BY <4>1 DEF In
      <3> QED
        BY <3>1, <3>2
    <2>3. In(q, Head(q))
      BY <1>1 DEF In
    <2> QED
      BY <2>1, <2>2, <2>3 DEF In
  <1>3. ASSUME Once(q)
        PROVE  Once(r) /\ ~In(r, Head(q))
    <2>1. ASSUME NEW i \in DOMAIN r, NEW j \in DOMAIN r, r[i] = r[j]
          PROVE  i = j
      <3>1. i + 1 \in DOMAIN q /\ j + 1 \in DOMAIN q /\ q[i + 1] = q[j + 1]
        BY <1>1, <2>1
      <3> QED
        BY <1>1, <1>3, <3>1 DEF Once
    <2>2. ASSUME NEW i \in DOMAIN r, r[i] = Head(q)
          PROVE  FALSE
      <3>1. i + 1 \in DOMAIN q /\ 1 \in DOMAIN q /\ q[i + 1] = q[1] /\ i + 1 # 1
        BY <1>1, <2>2
      <3> QED
        BY <1>3, <3>1 DEF Once
    <2> QED
      BY <2>1, <2>2 DEF Once, In
  <1> QED
    BY <1>1, <1>2, <1>3 DEF r

(* All but the last. *)
LEMMA FrontShape ==
  ASSUME NEW S, NEW q \in Seq(S), q # <<>>
  PROVE  /\ Front(q) \in Seq(S)
         /\ Len(Front(q)) = Len(q) - 1 /\ Len(q) \in Nat \ {0}
         /\ DOMAIN Front(q) = 1..(Len(q) - 1) /\ DOMAIN q = 1..Len(q)
         /\ \A i \in 1..(Len(q) - 1) : Front(q)[i] = q[i]
         /\ Last(q) = q[Len(q)] /\ Last(q) \in S
PROOF
  <1> DEFINE n == Len(q)
             f == Front(q)
  <1>1. n \in Nat \ {0} /\ DOMAIN q = 1..n
    BY LenProperties, EmptySeq
  <1>2. \A i \in 1..(n - 1) : q[i] \in S
    BY <1>1, ElementOfSeq
  <1>3. /\ f \in Seq(S)
        /\ Len(f) = IF 1 <= n - 1 THEN n - 1 - 1 + 1 ELSE 0
        /\ \A i \in 1..(n - 1 - 1 + 1) : f[i] = q[1 + i - 1]
    BY <1>1, <1>2, SubSeqProperties DEF Front
  <1>4. DOMAIN f = 1..Len(f)
    BY <1>3, LenProperties
  <1>5. Last(q) = q[n] /\ Last(q) \in S
    BY <1>1, ElementOfSeq DEF Last
  <1> HIDE DEF n, f
  <1>6. Len(f) = n - 1 /\ \A i \in 1..(n - 1) : f[i] = q[i]
    BY <1>1, <1>3
  <1>7. /\ f \in Seq(S) /\ Len(f) = n - 1 /\ n \in Nat \ {0}
        /\ DOMAIN f = 1..(n - 1) /\ DOMAIN q = 1..n
        /\ \A i \in 1..(n - 1) : f[i] = q[i]
        /\ Last(q) = q[n] /\ Last(q) \in S
    BY <1>1, <1>3, <1>4, <1>5, <1>6
  <1> QED
    BY <1>7 DEF n, f

------------------------------------------------------------------------------
(* Types. *)

(* A context that has not been used. *)
LEMMA InitTypes == Init => TypeOK
PROOF
  <1> SUFFICES ASSUME Init
               PROVE  TypeOK
    OBVIOUS
  <1> USE DEF Init
  <1>1. stack \in Seq(Coro) /\ queue \in Seq(Action)
    BY EmptySeq
  <1>2. /\ at \in [Coro -> Frame \cup {"new", "done"}]
        /\ awaits \in [Coro -> Coro \cup {None, "future", "timer"}]
        /\ result \in [Coro -> BOOLEAN] /\ future \in [Coro -> BOOLEAN]
    OBVIOUS
  <1>3. /\ waiter \in [Coro -> {"none", "begun", "sleeping", "ready", "finished"}]
        /\ timer \in [Coro -> {"none", "idle", "armed", "expired"}]
    OBVIOUS
  <1>4. client \in [Client -> ClientState]
    BY DEF ClientState
  <1>5. /\ awaited \in [Coro -> 0..MaxAwaits]
        /\ spurious \in 0..MaxSpurious /\ throws \in 0..MaxThrows
    BY CoroutineAssumption
  <1> QED
    BY <1>1, <1>2, <1>3, <1>4, <1>5 DEF TypeOK

(* What is pushed is an action. *)
LEMMA PushType ==
  ASSUME queue \in Seq(Action), NEW c \in Coro, NEW w \in {"start", "resume"}
  PROVE  Append(queue, [what |-> w, of |-> c]) \in Seq(Action)
PROOF
  <1>1. [what |-> w, of |-> c] \in Action
    BY DEF Action
  <1> QED
    BY <1>1, AppendProperties

(* A client that is woken stays one. *)
LEMMA WokenType ==
  ASSUME client \in [Client -> ClientState],
         \/ UNCHANGED client
         \/ \E k \in Client : client' = [client EXCEPT ![k].pc = "woken"]
  PROVE  client' \in [Client -> ClientState]
PROOF
  <1>1. CASE UNCHANGED client
    BY <1>1
  <1>2. CASE \E k \in Client : client' = [client EXCEPT ![k].pc = "woken"]
    <2>1. PICK k \in Client : client' = [client EXCEPT ![k].pc = "woken"]
      BY <1>2
    <2> QED
      BY <2>1 DEF ClientState
  <1> QED
    BY <1>1, <1>2

(* Whatever body is on top of the stack belongs to a coroutine. *)
LEMMA TopShape ==
  ASSUME TypeOK, NEW c \in Coro, Top(c)
  PROVE  /\ stack # <<>> /\ c = stack[Len(stack)]
         /\ Len(stack) \in Nat \ {0} /\ DOMAIN stack = 1..Len(stack)
         /\ Front(stack) \in Seq(Coro) /\ Len(Front(stack)) = Len(stack) - 1
         /\ DOMAIN Front(stack) = 1..(Len(stack) - 1)
         /\ \A i \in 1..(Len(stack) - 1) : Front(stack)[i] = stack[i]
PROOF
  <1>1. stack \in Seq(Coro) /\ stack # <<>> /\ c = Last(stack)
    BY DEF TypeOK, Top
  <1> QED
    BY <1>1, FrontShape

(* What a co_await is, whatever the unit of its duration. *)
LEMMA AwaitsShape ==
  ASSUME NEW c \in Coro, Awaits(c)
  PROVE  \/ AwaitFuture(c)
         \/ \E interval : AwaitInterval(c, interval)
         \/ \E d \in Coro : AwaitTask(c, d)
PROOF
  <1>1. CASE AwaitBoostDuration(c)
    BY <1>1, Zenon DEF AwaitBoostDuration
  <1>2. CASE AwaitBoostSeconds(c)
    BY <1>2, SMT DEF AwaitBoostSeconds
  <1>3. CASE AwaitBoostFraction(c)
    BY <1>3, SMT DEF AwaitBoostFraction
  <1>4. CASE AwaitDuration(c)
    BY <1>4, SMT DEF AwaitDuration
  <1>5. CASE AwaitSeconds(c)
    BY <1>5, SMT DEF AwaitSeconds
  <1>6. CASE AwaitFraction(c)
    BY <1>6, SMT DEF AwaitFraction
  <1> QED
    BY <1>1, <1>2, <1>3, <1>4, <1>5, <1>6 DEF Awaits

(* The steps of a coroutine, of its awaiter and of its clients. *)
LEMMA CoroutineSteps ==
  ASSUME NEW c \in Coro, Body(c) \/ Thread(c) \/ LoopThread(c)
  PROVE  \/ Return(c) \/ AwaitReady(c) \/ SpawnReturn(c) \/ Join(c) \/ Throw(c)
         \/ AwaitFuture(c)
         \/ \E interval : AwaitInterval(c, interval)
         \/ \E d \in Coro : AwaitTask(c, d) \/ Spawn(c, d)
         \/ WaitBegin(c) \/ WaitPush(c) \/ Expire(c) \/ OnTimerExpired(c)
PROOF
  BY AwaitsShape, Zenon DEF Body, Thread, LoopThread

(* Each step keeps the types. *)
LEMMA TypeStep ==
  ASSUME TypeOK, [Next]_vars
  PROVE  TypeOK'
PROOF
  <1> USE CoroutineAssumption DEF TypeOK, Frame, coroVars, threadVars, runVars
  <1>1. CASE Run
    BY <1>1 DEF Run
  <1>2. CASE Reset \/ Discard \/ Test
    BY <1>2 DEF Reset, Discard, Test
  <1>3. CASE WaitPop
    <2>1. CASE UNCHANGED <<taken, queue>>
      BY <1>3, <2>1 DEF WaitPop
    <2>2. CASE queue # <<>> /\ taken' = Head(queue) /\ queue' = Tail(queue)
      <3>1. taken' \in Action /\ queue' \in Seq(Action)
        BY <2>2, HeadTailProperties
      <3> QED
        BY <1>3, <3>1 DEF WaitPop
    <2> QED
      BY <1>3, <2>1, <2>2 DEF WaitPop
  <1>4. CASE ExecuteStart
    <2>1. taken.of \in Coro /\ stack' \in Seq(Coro)
      BY <1>4 DEF ExecuteStart, Execute, Action
    <2> QED
      BY <1>4, <2>1 DEF ExecuteStart, Execute
  <1>5. CASE Resume
    <2>1. taken.of \in Coro /\ stack' \in Seq(Coro)
      BY <1>5 DEF Resume, Execute, Action
    <2> QED
      BY <1>5, <2>1 DEF Resume, Execute
  <1>6. CASE DropScheduler
    BY <1>6 DEF DropScheduler, DropChannel, AllDone, Held
  <1>7. CASE SpuriousWakeup
    <2>1. spurious' \in 0..MaxSpurious
      BY <1>7 DEF SpuriousWakeup
    <2>2. waiter' \in [Coro -> {"none", "begun", "sleeping", "ready", "finished"}]
      <3>1. \/ UNCHANGED waiter
            \/ \E c \in Coro : waiter' = [waiter EXCEPT ![c] = "ready"]
        BY <1>7, Zenon DEF SpuriousWakeup
      <3>2. CASE UNCHANGED waiter
        BY <3>2
      <3>3. CASE \E c \in Coro : waiter' = [waiter EXCEPT ![c] = "ready"]
        BY <3>3
      <3> QED
        BY <3>1, <3>2, <3>3
    <2>3. client' \in [Client -> ClientState]
      <3>1. \/ UNCHANGED client
            \/ \E k \in Client : client' = [client EXCEPT ![k].pc = "woken"]
        BY <1>7, Zenon DEF SpuriousWakeup
      <3> QED
        BY <3>1, WokenType, Zenon
    <2> QED
      BY <1>7, <2>1, <2>2, <2>3 DEF SpuriousWakeup
  <1>8. ASSUME NEW c \in Coro, Start(c)
        PROVE  TypeOK'
    <2>1. queue' \in Seq(Action)
      BY <1>8, PushType DEF Start
    <2> QED
      BY <1>8, <2>1 DEF Start
  <1>9. ASSUME NEW c \in Coro, Return(c)
        PROVE  TypeOK'
    <2>1. stack' \in Seq(Coro)
      BY <1>9, TopShape DEF Return, InBody
    <2>2. waiter' \in [Coro -> {"none", "begun", "sleeping", "ready", "finished"}]
      BY <1>9 DEF Return, NotifyOne, SleepingThreads
    <2>3. client' \in [Client -> ClientState]
      <3>1. \/ UNCHANGED client
            \/ \E k \in Client : client' = [client EXCEPT ![k].pc = "woken"]
        BY <1>9, Zenon DEF Return, NotifyOne, SleepingClients
      <3> QED
        BY <3>1, WokenType, Zenon
    <2>4. interrupted' \in BOOLEAN
      BY <1>9 DEF Return, DropChannel, Held
    <2> QED
      BY <1>9, <2>1, <2>2, <2>3, <2>4 DEF Return
  <1>10. ASSUME NEW c \in Coro, Throw(c)
         PROVE  TypeOK'
    <2>1. stack' \in Seq(Coro)
      BY <1>10, TopShape DEF Throw, Throws, InBody
    <2>2. throws' \in 0..MaxThrows
      BY <1>10 DEF Throw, Throws
    <2>3. CASE Len(stack) = 1
      BY <1>10, <2>1, <2>2, <2>3 DEF Throw, Throws
    <2>4. CASE Len(stack) # 1
      BY <1>10, <2>1, <2>2, <2>4 DEF Throw, Throws
    <2> QED
      BY <2>3, <2>4
  <1>11. ASSUME NEW c \in Coro, AwaitReady(c)
         PROVE  TypeOK'
    <2>1. stack' \in Seq(Coro)
      BY <1>11, TopShape DEF AwaitReady, Suspend
    <2> QED
      BY <1>11, <2>1 DEF AwaitReady, Suspend
  <1>12. ASSUME NEW c \in Coro, SpawnReturn(c) \/ Join(c) \/ GetThrows(c)
         PROVE  TypeOK'
    <2>1. CASE SpawnReturn(c)
      BY <2>1 DEF SpawnReturn
    <2>2. CASE Join(c)
      BY <2>2 DEF Join
    <2>3. CASE GetThrows(c)
      BY <2>3 DEF GetThrows
    <2> QED
      BY <1>12, <2>1, <2>2, <2>3
  <1>13. ASSUME NEW c \in Coro, AwaitFuture(c)
         PROVE  TypeOK'
    <2>1. stack' \in Seq(Coro)
      BY <1>13, TopShape DEF AwaitFuture, Await, Suspend, InBody
    <2> QED
      BY <1>13, <2>1 DEF AwaitFuture, Await, Suspend
  <1>14. ASSUME NEW c \in Coro, NEW interval, AwaitInterval(c, interval)
         PROVE  TypeOK'
    <2>1. stack' \in Seq(Coro)
      BY <1>14, TopShape DEF AwaitInterval, Await, Suspend, InBody
    <2>2. timer' \in [Coro -> {"none", "idle", "armed", "expired"}]
      BY <1>14 DEF AwaitInterval
    <2> QED
      BY <1>14, <2>1, <2>2 DEF AwaitInterval, Await, Suspend
  <1>15. ASSUME NEW c \in Coro, NEW d \in Coro, AwaitTask(c, d) \/ Spawn(c, d)
         PROVE  TypeOK'
    <2>1. stack' \in Seq(Coro)
      <3>1. stack' = Append(stack, d)
        BY <1>15 DEF AwaitTask, Spawn, StartInside
      <3> QED
        BY <3>1, AppendProperties
    <2>2. CASE AwaitTask(c, d)
      <3>1. at' \in [Coro -> Frame \cup {"new", "done"}]
        BY <2>2 DEF AwaitTask, StartInside
      <3>2. /\ awaits' \in [Coro -> Coro \cup {None, "future", "timer"}]
            /\ awaited' \in [Coro -> 0..MaxAwaits]
        BY <2>2 DEF AwaitTask, Await
      <3> QED
        BY <2>1, <2>2, <3>1, <3>2 DEF AwaitTask, StartInside
    <2>3. CASE Spawn(c, d)
      BY <2>1, <2>3 DEF Spawn, StartInside
    <2> QED
      BY <1>15, <2>2, <2>3
  <1>16. ASSUME NEW c \in Coro, WaitBegin(c) \/ SetFuture(c) \/ Expire(c)
         PROVE  TypeOK'
    <2>1. CASE WaitBegin(c)
      BY <2>1 DEF WaitBegin
    <2>2. CASE SetFuture(c)
      BY <2>2 DEF SetFuture
    <2>3. CASE Expire(c)
      BY <2>3 DEF Expire
    <2> QED
      BY <1>16, <2>1, <2>2, <2>3
  <1>17. ASSUME NEW c \in Coro, WaitPush(c) \/ OnTimerExpired(c)
         PROVE  TypeOK'
    <2>1. queue' \in Seq(Action)
      <3>1. queue' = Append(queue, [what |-> "resume", of |-> c])
        BY <1>17 DEF WaitPush, OnTimerExpired, PushResume
      <3> QED
        BY <3>1, PushType
    <2>2. CASE WaitPush(c)
      BY <2>1, <2>2 DEF WaitPush
    <2>3. CASE OnTimerExpired(c)
      BY <2>1, <2>3 DEF OnTimerExpired
    <2> QED
      BY <1>17, <2>2, <2>3
  <1>18. ASSUME NEW k \in Client, NEW c \in Coro, Get(k, c)
         PROVE  TypeOK'
    <2>1. client' \in [Client -> ClientState]
      BY <1>18 DEF Get, ClientState
    <2> QED
      BY <1>18, <2>1 DEF Get
  <1>19. ASSUME NEW k \in Client, GetReturn(k)
         PROVE  TypeOK'
    <2>1. client' \in [Client -> ClientState]
      BY <1>19 DEF GetReturn, ClientState
    <2> QED
      BY <1>19, <2>1 DEF GetReturn
  <1>20. CASE UNCHANGED vars
    BY <1>20 DEF vars
  <1> QED
    BY <1>1, <1>2, <1>3, <1>4, <1>5, <1>6, <1>7, <1>8, <1>9, <1>10, <1>11, <1>12,
       <1>13, <1>14, <1>15, <1>16, <1>17, <1>18, <1>19, <1>20, CoroutineSteps, Zenon
       DEF Next, RunStep

------------------------------------------------------------------------------
(* The stack. *)

(* All that StackShape says of the stack itself. *)
Nested(st, places) ==
  /\ Once(st)
  /\ \A i \in DOMAIN st : places[st[i]] \in IF i = Len(st) THEN OnTop ELSE Below

(* A body returns to the one below, which goes on, or had its own exception. *)
LEMMA PopShape ==
  ASSUME TypeOK, StackShape, NEW c \in Coro, Top(c),
         stack' = Front(stack),
         \A i \in 1..(Len(stack) - 1) : stack[i] # c =>
           \/ at'[stack[i]] = at[stack[i]]
           \/ i = Len(stack) - 1 /\ at'[stack[i]] = "body"
  PROVE  Nested(stack', at')
PROOF
  <1> DEFINE n == Len(stack)
  <1>1. /\ n \in Nat \ {0} /\ DOMAIN stack = 1..n /\ c = stack[n]
        /\ DOMAIN stack' = 1..(n - 1) /\ Len(stack') = n - 1
        /\ \A i \in 1..(n - 1) : stack'[i] = stack[i]
    BY TopShape
  <1>0. \A i \in 1..n : at[stack[i]] \in IF i = n THEN OnTop ELSE Below
    BY <1>1 DEF StackShape
  <1> HIDE DEF n
  <1>2. \A i \in 1..(n - 1) : stack[i] # c /\ at[stack[i]] \in Below
    <2>1. \A i \in 1..(n - 1) : i \in 1..n /\ n \in 1..n /\ i # n
      BY <1>1
    <2> QED
      BY <1>0, <1>1, <2>1 DEF StackShape, Once
  <1>3. \A i \in 1..(n - 1) :
          \/ at'[stack[i]] = at[stack[i]]
          \/ i = n - 1 /\ at'[stack[i]] = "body"
    BY <1>2 DEF n
  <1>4. \A i \in 1..(n - 1) : at'[stack'[i]] \in IF i = n - 1 THEN OnTop ELSE Below
    BY <1>1, <1>2, <1>3 DEF OnTop, Below
  <1>5. Once(stack')
    BY <1>1 DEF StackShape, Once
  <1> QED
    BY <1>1, <1>4, <1>5 DEF Nested

(* The body on top goes on to another place. *)
LEMMA TopMoves ==
  ASSUME TypeOK, StackShape, NEW c \in Coro, Top(c), NEW place \in OnTop,
         stack' = stack, at' = [at EXCEPT ![c] = place]
  PROVE  Nested(stack', at')
PROOF
  <1> DEFINE n == Len(stack)
  <1>1. n \in Nat \ {0} /\ DOMAIN stack = 1..n /\ c = stack[n] /\ stack \in Seq(Coro)
    BY TopShape DEF TypeOK
  <1>0. \A i \in 1..n : at[stack[i]] \in IF i = n THEN OnTop ELSE Below
    BY <1>1 DEF StackShape
  <1> HIDE DEF n
  <1>2. \A i \in 1..n : i # n => stack[i] # c
    BY <1>1 DEF StackShape, Once
  <1>3. \A i \in 1..n : stack[i] \in Coro
    BY <1>1, ElementOfSeq
  <1>4. \A i \in 1..n : at'[stack[i]] = IF i = n THEN place ELSE at[stack[i]]
    BY <1>1, <1>2, <1>3 DEF TypeOK
  <1>5. \A i \in 1..n : at'[stack[i]] \in IF i = n THEN OnTop ELSE Below
    BY <1>0, <1>4
  <1>6. Once(stack')
    BY DEF StackShape
  <1> QED
    BY <1>1, <1>5, <1>6 DEF Nested, n

(* The body on top starts another coroutine. *)
LEMMA PushShape ==
  ASSUME TypeOK, StackShape, NEW c \in Coro, NEW d \in Coro, Top(c),
         NEW place \in Below, StartInside(c, d, place)
  PROVE  Nested(stack', at')
PROOF
  <1> DEFINE n == Len(stack)
  <1>1. /\ n \in Nat \ {0} /\ DOMAIN stack = 1..n /\ c = stack[n]
        /\ stack \in Seq(Coro)
    BY TopShape DEF TypeOK
  <1>2. /\ stack' \in Seq(Coro) /\ Len(stack') = n + 1
        /\ \A i \in 1..n : stack'[i] = stack[i]
        /\ stack'[n + 1] = d
    BY <1>1, AppendProperties DEF StartInside
  <1>3. DOMAIN stack' = 1..(n + 1)
    BY <1>2, LenProperties
  <1>4. \A i \in 1..n : stack[i] \in Coro /\ stack[i] # d
    <2>1. \A i \in 1..n : stack[i] \in Coro
      BY <1>1, ElementOfSeq
    <2>2. \A i \in 1..n : at[stack[i]] # "new"
      BY <1>1 DEF StackShape, OnTop, Below
    <2> QED
      BY <2>1, <2>2 DEF StartInside
  <1>5. \A i \in 1..n : at'[stack[i]] \in Below
    BY <1>1, <1>4 DEF StartInside, StackShape, TypeOK
  <1>6. at'[d] \in OnTop
    BY DEF StartInside, TypeOK, OnTop
  <1>7. Once(stack')
    BY <1>1, <1>2, <1>3, <1>4 DEF StackShape, Once
  <1> HIDE DEF n
  <1>8. \A i \in 1..(n + 1) : at'[stack'[i]] \in IF i = n + 1 THEN OnTop ELSE Below
    BY <1>1, <1>2, <1>5, <1>6
  <1> QED
    BY <1>2, <1>3, <1>7, <1>8 DEF Nested

(* Each step keeps the shape of the stack. *)
LEMMA StackStep ==
  ASSUME TypeOK, StackShape, [Next]_vars
  PROVE  StackShape'
PROOF
  <1> DEFINE Calling == \A c \in Coro : at[c] = "calling" => awaits[c] \in Coro
  <1> USE DEF coroVars, threadVars, runVars
  <1>1. CASE UNCHANGED <<stack, at, awaits>>
    BY <1>1 DEF StackShape
  <1>2. ASSUME Nested(stack', at'), Calling'
        PROVE  StackShape'
    BY <1>2 DEF StackShape, Nested
  <1>3. CASE ExecuteStart \/ Resume
    <2>1. taken.of \in Coro /\ stack' = <<taken.of>> /\ at'[taken.of] \in OnTop
      BY <1>3 DEF ExecuteStart, Resume, Execute, TypeOK, Action, OnTop
    <2>2. Nested(stack', at')
      BY <2>1 DEF Nested, Once
    <2>3. Calling'
      BY <1>3 DEF ExecuteStart, Resume, Execute, StackShape, TypeOK
    <2> QED
      BY <1>2, <2>2, <2>3
  <1>4. ASSUME NEW c \in Coro, Start(c)
        PROVE  StackShape'
    <2>1. \A i \in DOMAIN stack : stack[i] # c
      BY <1>4 DEF Start, StackShape, OnTop, Below
    <2>2. \A i \in DOMAIN stack : at'[stack[i]] = at[stack[i]]
      BY <1>4, <2>1, ElementOfSeq, LenProperties DEF Start, TypeOK
    <2>3. Nested(stack', at')
      BY <1>4, <2>2 DEF Start, StackShape, Nested
    <2>4. Calling'
      BY <1>4 DEF Start, StackShape, TypeOK
    <2> QED
      BY <1>2, <2>3, <2>4
  <1>5. ASSUME NEW c \in Coro, Return(c) \/ AwaitFuture(c)
                 \/ \E interval : AwaitInterval(c, interval)
        PROVE  StackShape'
    <2>1. /\ Top(c) /\ at[c] = "body" /\ stack' = Front(stack)
          /\ \E place \in {"done", "waiting"} : at' = [at EXCEPT ![c] = place]
          /\ \E what : awaits' = [awaits EXCEPT ![c] = what] \/ awaits' = awaits
      BY <1>5 DEF Return, AwaitFuture, AwaitInterval, Await, Suspend, InBody
    <2>2. \A i \in 1..(Len(stack) - 1) : stack[i] # c => at'[stack[i]] = at[stack[i]]
      BY <2>1 DEF TypeOK
    <2>3. Nested(stack', at')
      BY <2>1, <2>2, PopShape
    <2>4. Calling'
      BY <2>1 DEF StackShape, TypeOK
    <2> QED
      BY <1>2, <2>3, <2>4
  <1>6. ASSUME NEW c \in Coro, AwaitReady(c)
        PROVE  StackShape'
    <2>1. Top(c) /\ at[c] = "calling"
      BY <1>6 DEF AwaitReady
    <2>2. CASE result[awaits[c]]
      <3>1. Nested(stack', at')
        BY <1>6, <2>1, <2>2, TopMoves DEF AwaitReady, OnTop
      <3> QED
        BY <1>2, <1>6, <2>2, <3>1 DEF AwaitReady, StackShape, TypeOK
    <2>3. CASE ~result[awaits[c]]
      <3>1. stack' = Front(stack) /\ at' = [at EXCEPT ![c] = "waiting"]
        BY <1>6, <2>3 DEF AwaitReady, Suspend
      <3>2. \A i \in 1..(Len(stack) - 1) : stack[i] # c => at'[stack[i]] = at[stack[i]]
        BY <3>1 DEF TypeOK
      <3>3. Nested(stack', at')
        BY <2>1, <3>1, <3>2, PopShape
      <3> QED
        BY <1>2, <1>6, <2>3, <3>1, <3>3 DEF AwaitReady, StackShape, TypeOK
    <2> QED
      BY <2>2, <2>3
  <1>7. ASSUME NEW c \in Coro, SpawnReturn(c) \/ Join(c) \/ GetThrows(c)
        PROVE  StackShape'
    <2>1. /\ Top(c) /\ stack' = stack
          /\ \E place \in {"body", "joining"} : at' = [at EXCEPT ![c] = place]
          /\ \E what : awaits' = [awaits EXCEPT ![c] = what] \/ awaits' = awaits
      BY <1>7 DEF SpawnReturn, Join, GetThrows
    <2>2. Nested(stack', at')
      BY <2>1, TopMoves DEF OnTop
    <2>3. Calling'
      BY <2>1 DEF StackShape, TypeOK
    <2> QED
      BY <1>2, <2>2, <2>3
  <1>8. ASSUME NEW c \in Coro, Throw(c)
        PROVE  StackShape'
    <2> DEFINE n == Len(stack)
    <2>1. /\ Top(c) /\ at[c] = "body" /\ stack' = Front(stack)
      BY <1>8 DEF Throw, Throws, InBody
    <2>2. /\ n \in Nat \ {0} /\ c = stack[n] /\ DOMAIN stack = 1..n
          /\ \A i \in 1..n : stack[i] \in Coro
      BY <2>1, TopShape, ElementOfSeq DEF TypeOK
    <2>3. CASE n = 1
      <3>1. at' = [at EXCEPT ![c] = "failed"] /\ awaits' = [awaits EXCEPT ![c] = None]
        BY <1>8, <2>3 DEF Throw, Throws
      <3>2. Nested(stack', at')
        BY <2>1, <2>2, <2>3, PopShape
      <3> QED
        BY <1>2, <3>1, <3>2 DEF StackShape, TypeOK
    <2>4. CASE n # 1
      <3> DEFINE p == stack[n - 1]
      <3>1. /\ at' = [at EXCEPT ![c] = "failed", ![p] = "body"]
            /\ awaits' = [awaits EXCEPT ![c] = None, ![p] = None]
        BY <1>8, <2>4 DEF Throw, Throws
      <3>2. p \in Coro
        BY <2>2, <2>4
      <3> HIDE DEF n
      <3>3. ASSUME NEW i \in 1..(n - 1), stack[i] # c
            PROVE  \/ at'[stack[i]] = at[stack[i]]
                   \/ i = n - 1 /\ at'[stack[i]] = "body"
        <4>1. i \in DOMAIN stack /\ n - 1 \in DOMAIN stack
          BY <2>2, <2>4
        <4>2. CASE i = n - 1
          BY <3>1, <3>2, <4>2 DEF TypeOK
        <4>3. CASE i # n - 1
          <5>1. stack[i] # p /\ stack[i] \in Coro
            BY <2>2, <4>1, <4>3 DEF StackShape, Once
          <5> QED
            BY <3>1, <3>3, <5>1 DEF TypeOK
        <4> QED
          BY <4>2, <4>3
      <3>4. Nested(stack', at')
        BY <2>1, <3>3, PopShape DEF n
      <3> QED
        BY <1>2, <3>1, <3>2, <3>4 DEF StackShape, TypeOK
    <2> QED
      BY <2>3, <2>4
  <1>9. ASSUME NEW c \in Coro, NEW d \in Coro, AwaitTask(c, d) \/ Spawn(c, d)
        PROVE  StackShape'
    <2>1. /\ Top(c)
          /\ \/ awaits' = [awaits EXCEPT ![c] = d] /\ StartInside(c, d, "calling")
             \/ awaits' = awaits /\ StartInside(c, d, "spawning")
      BY <1>9 DEF AwaitTask, Spawn, Await, InBody
    <2>2. Nested(stack', at')
      BY <2>1, PushShape DEF Below
    <2>3. Calling'
      BY <2>1 DEF StartInside, StackShape, TypeOK
    <2> QED
      BY <1>2, <2>2, <2>3
  <1>10. CASE Run \/ Reset \/ WaitPop \/ Discard \/ Test \/ DropScheduler
              \/ SpuriousWakeup \/ UNCHANGED vars
    BY <1>1, <1>10 DEF Run, Reset, WaitPop, Discard, Test, DropScheduler,
                       SpuriousWakeup, vars
  <1>11. ASSUME NEW c \in Coro, WaitBegin(c) \/ WaitPush(c) \/ Expire(c)
                  \/ OnTimerExpired(c) \/ SetFuture(c) \/ \E k \in Client : Get(k, c)
         PROVE  StackShape'
    BY <1>1, <1>11 DEF WaitBegin, WaitPush, Expire, OnTimerExpired, SetFuture, Get
  <1>12. ASSUME NEW k \in Client, GetReturn(k)
         PROVE  StackShape'
    BY <1>1, <1>12 DEF GetReturn
  <1> QED
    BY <1>3, <1>4, <1>5, <1>6, <1>7, <1>8, <1>9, <1>10, <1>11, <1>12,
       CoroutineSteps, Zenon DEF Next, RunStep

------------------------------------------------------------------------------
(* The actions of the context. *)

(* An action says what it is, and of whom. *)
LEMMA Actions ==
  /\ \A c \in Coro : Starting(c) \in Action /\ Resumption(c) \in Action
  /\ \A c, d \in Coro : Starting(c) # Resumption(d)
  /\ \A c, d \in Coro : Starting(c) = Starting(d) => c = d
  /\ \A c, d \in Coro : Resumption(c) = Resumption(d) => c = d
  /\ \A a \in Action : /\ a.of \in Coro
                       /\ a.what = "start" => a = Starting(a.of)
                       /\ a.what = "resume" => a = Resumption(a.of)
                       /\ a.what \in {"start", "resume"}
PROOF
  BY DEF Action, Starting, Resumption

(* Whoever is to be started or resumed has a channel. *)
LEMMA TakenHeld ==
  ASSUME TypeOK, StartsPosted, SourcesApart, taken # None
  PROVE  Held(at)
PROOF
  <1>1. taken \in Action
    BY DEF TypeOK
  <1>2. CASE taken.what = "start"
    BY <1>1, <1>2, Actions DEF StartsPosted, Pending, OnItsWay, Held, Frame
  <1>3. CASE taken.what = "resume"
    BY <1>1, <1>3, Actions DEF SourcesApart, Pending, OnItsWay, Held, Frame
  <1> QED
    BY <1>1, <1>2, <1>3, Actions

(* Each step keeps the shape of run(). *)
LEMMA RunShapeStep ==
  ASSUME TypeOK, StartsPosted, SourcesApart, RunShape, [Next]_vars
  PROVE  RunShape'
PROOF
  <1> USE DEF coroVars, threadVars, runVars
  <1>1. CASE UNCHANGED <<taken, run, interrupted, scheduler, at>>
    BY <1>1 DEF RunShape, AllDone
  <1>2. CASE Run \/ Reset
    BY <1>2 DEF RunShape, Run, Reset
  <1>3. CASE WaitPop
    BY <1>3 DEF RunShape, WaitPop
  <1>4. CASE Discard
    BY <1>4 DEF RunShape, Discard
  <1>5. CASE Test
    <2>1. taken' = None
      BY <1>5 DEF RunShape, Test
    <2>2. run' = "ended" => ~scheduler' /\ AllDone'
      BY <1>5 DEF Test, Held, AllDone, TypeOK
    <2> QED
      BY <2>1, <2>2 DEF RunShape
  <1>6. CASE ExecuteStart \/ Resume
    BY <1>6 DEF RunShape, ExecuteStart, Resume, Execute
  <1>7. CASE DropScheduler
    <2>1. taken # None => interrupted' = interrupted
      BY <1>7, TakenHeld DEF DropScheduler, DropChannel, TypeOK
    <2> QED
      BY <1>7, <2>1 DEF DropScheduler, RunShape
  <1>8. ASSUME NEW c \in Coro, Start(c)
        PROVE  RunShape'
    BY <1>8 DEF Start, RunShape
  <1>9. ASSUME NEW c \in Coro, Top(c), run' \in {"call", "dead"}, taken' = taken
        PROVE  RunShape'
    BY <1>9 DEF Top, RunShape
  <1>10. ASSUME NEW c \in Coro,
                Return(c) \/ AwaitReady(c) \/ SpawnReturn(c) \/ Join(c) \/ GetThrows(c)
         PROVE  RunShape'
    <2>1. Top(c) /\ run' = run /\ taken' = taken
      BY <1>10 DEF Return, AwaitReady, SpawnReturn, Join, GetThrows, InBody
    <2> QED
      BY <1>9, <2>1 DEF Top
  <1>11. ASSUME NEW c \in Coro,
                AwaitFuture(c) \/ \E interval : AwaitInterval(c, interval)
         PROVE  RunShape'
    <2>1. Top(c) /\ run' = run /\ taken' = taken
      BY <1>11 DEF AwaitFuture, AwaitInterval, Await, InBody
    <2> QED
      BY <1>9, <2>1 DEF Top
  <1>12. ASSUME NEW c \in Coro, NEW d \in Coro, AwaitTask(c, d) \/ Spawn(c, d)
         PROVE  RunShape'
    <2>1. Top(c) /\ run' = run /\ taken' = taken
      BY <1>12 DEF AwaitTask, Spawn, Await, StartInside, InBody
    <2> QED
      BY <1>9, <2>1 DEF Top
  <1>13. ASSUME NEW c \in Coro, Throw(c)
         PROVE  RunShape'
    <2>1. Top(c) /\ run' \in {run, "dead"} /\ taken' = taken
      BY <1>13 DEF Throw, Throws, InBody
    <2> QED
      BY <1>9, <2>1 DEF Top
  <1>14. CASE SpuriousWakeup \/ UNCHANGED vars
    BY <1>1, <1>14 DEF SpuriousWakeup, vars
  <1>15. ASSUME NEW c \in Coro, WaitBegin(c) \/ WaitPush(c) \/ Expire(c)
                  \/ OnTimerExpired(c) \/ SetFuture(c) \/ \E k \in Client : Get(k, c)
         PROVE  RunShape'
    BY <1>1, <1>15 DEF WaitBegin, WaitPush, Expire, OnTimerExpired, SetFuture, Get
  <1>16. ASSUME NEW k \in Client, GetReturn(k)
         PROVE  RunShape'
    BY <1>1, <1>16 DEF GetReturn
  <1> QED
    BY <1>2, <1>3, <1>4, <1>5, <1>6, <1>7, <1>8, <1>10, <1>11, <1>12, <1>13, <1>14,
       <1>15, <1>16, CoroutineSteps, Zenon DEF Next, RunStep

------------------------------------------------------------------------------
(* The sources of resumptions, coroutine by coroutine. *)

Sound(c) ==
  /\ Pending(Starting(c)) => at[c] = "posted"
  /\ Pending(Resumption(c)) => at[c] = "waiting" /\ ~Busy(c) /\ timer[c] = "none"
  /\ Busy(c) => at[c] = "waiting" /\ timer[c] = "none"
  /\ timer[c] # "none" => at[c] = "waiting"
  /\ at[c] = "waiting" => Pending(Resumption(c)) \/ Busy(c) \/ timer[c] # "none"
  /\ waiter[c] # "none" => /\ awaits[c] \notin {None, "timer"}
                           /\ at[c] \in {"waiting", "getting", "joining"}

SourceInv ==
  StartsPosted /\ SourcesApart /\ SourceKept /\ AwaiterKept

(* The invariant is about each coroutine by itself. *)
LEMMA SoundEach == SourceInv <=> \A c \in Coro : Sound(c)
PROOF
  BY DEF SourceInv, StartsPosted, SourcesApart, SourceKept, AwaiterKept, Sound

(* The same of the next state. *)
LEMMA SoundEachNext == SourceInv' <=> \A c \in Coro : Sound(c)'
PROOF
  BY DEF SourceInv, StartsPosted, SourcesApart, SourceKept, AwaiterKept, Sound

(* Sound, after a step. *)
LEMMA SoundNext ==
  ASSUME NEW c \in Coro,
         OnItsWay(queue', taken', Starting(c)) => at'[c] = "posted",
         OnItsWay(queue', taken', Resumption(c)) =>
           /\ at'[c] = "waiting" /\ timer'[c] = "none"
           /\ waiter'[c] \notin {"begun", "sleeping", "ready"},
         waiter'[c] \in {"begun", "sleeping", "ready"} =>
           at'[c] = "waiting" /\ timer'[c] = "none",
         timer'[c] # "none" => at'[c] = "waiting",
         at'[c] = "waiting" =>
           \/ OnItsWay(queue', taken', Resumption(c))
           \/ waiter'[c] \in {"begun", "sleeping", "ready"}
           \/ timer'[c] # "none",
         waiter'[c] # "none" => /\ awaits'[c] \notin {None, "timer"}
                                /\ at'[c] \in {"waiting", "getting", "joining"}
  PROVE  Sound(c)'
PROOF
  BY DEF Sound, Busy, Pending, Starting, Resumption

(* A step that is about others. *)
LEMMA SoundSame ==
  ASSUME NEW c \in Coro, Sound(c),
         OnItsWay(queue', taken', Starting(c)) <=> Pending(Starting(c)),
         OnItsWay(queue', taken', Resumption(c)) <=> Pending(Resumption(c)),
         at'[c] = at[c], awaits'[c] = awaits[c], timer'[c] = timer[c],
         \/ waiter'[c] = waiter[c]
         \/ {waiter[c], waiter'[c]} \subseteq {"begun", "sleeping", "ready"}
  PROVE  Sound(c)'
PROOF
  BY DEF Sound, Busy, Pending, Starting, Resumption

(* A step of a coroutine that neither waits nor is about to wait. *)
LEMMA SoundActive ==
  ASSUME NEW c \in Coro, Sound(c),
         OnItsWay(queue', taken', Starting(c)) <=> Pending(Starting(c)),
         OnItsWay(queue', taken', Resumption(c)) <=> Pending(Resumption(c)),
         at[c] \notin {"posted", "waiting"}, at'[c] \notin {"posted", "waiting"},
         timer'[c] = timer[c], waiter'[c] = "none"
  PROVE  Sound(c)'
PROOF
  BY DEF Sound, Busy, Pending, Starting, Resumption

(* Nothing is pushed and nothing is taken. *)
LEMMA PendingSame ==
  ASSUME UNCHANGED <<queue, taken>>, ActionsOnce
  PROVE  /\ ActionsOnce'
         /\ \A a : OnItsWay(queue', taken', a) <=> Pending(a)
PROOF
  BY DEF ActionsOnce, Pending, OnItsWay

(* Something is pushed that was not on its way. *)
LEMMA PendingPush ==
  ASSUME TypeOK, ActionsOnce, NEW a \in Action, ~Pending(a),
         queue' = Append(queue, a), taken' = taken
  PROVE  /\ ActionsOnce'
         /\ \A b : OnItsWay(queue', taken', b) <=> Pending(b) \/ b = a
PROOF
  <1>1. /\ \A b : In(queue', b) <=> In(queue, b) \/ b = a
        /\ Once(queue) /\ ~In(queue, a) => Once(queue')
    BY AppendIn DEF TypeOK
  <1> QED
    BY <1>1 DEF ActionsOnce, Pending, OnItsWay

(* What was taken is executed. *)
LEMMA PendingTaken ==
  ASSUME ActionsOnce, NEW a \in Action, taken = a, taken' = None, queue' = queue
  PROVE  /\ ActionsOnce'
         /\ ~OnItsWay(queue', taken', a)
         /\ \A b \in Action : b # a => (OnItsWay(queue', taken', b) <=> Pending(b))
PROOF
  <1>1. None \notin Action
    BY CoroutineAssumption
  <1>2. ActionsOnce'
    BY DEF ActionsOnce
  <1>3. ~OnItsWay(queue', taken', a)
    BY <1>1 DEF ActionsOnce, Pending, OnItsWay
  <1>4. \A b \in Action : b # a => (OnItsWay(queue', taken', b) <=> Pending(b))
    BY <1>1 DEF Pending, OnItsWay
  <1> QED
    BY <1>2, <1>3, <1>4

(* The first of the queue is taken. *)
LEMMA PendingPop ==
  ASSUME TypeOK, ActionsOnce, taken = None, queue # <<>>,
         taken' = Head(queue), queue' = Tail(queue)
  PROVE  /\ ActionsOnce'
         /\ \A b \in Action : OnItsWay(queue', taken', b) <=> Pending(b)
PROOF
  <1>1. /\ \A b : In(queue, b) <=> b = Head(queue) \/ In(queue', b)
        /\ Once(queue') /\ ~In(queue', Head(queue))
    BY TailIn DEF TypeOK, ActionsOnce
  <1>2. None \notin Action
    BY CoroutineAssumption
  <1>3. ActionsOnce'
    BY <1>1 DEF ActionsOnce
  <1>4. \A b \in Action : OnItsWay(queue', taken', b) <=> Pending(b)
    BY <1>1, <1>2 DEF Pending, OnItsWay
  <1> QED
    BY <1>3, <1>4

(* Each step keeps who waits with one source of its resumption, and the others
   with none. *)
LEMMA SourceStep ==
  ASSUME TypeOK, ActionsOnce, SourceInv, StackShape, RunShape, [Next]_vars
  PROVE  ActionsOnce' /\ SourceInv'
PROOF
  <1> USE DEF coroVars, threadVars, runVars
  <1>a. \A c \in Coro : Sound(c) /\ Starting(c) \in Action /\ Resumption(c) \in Action
    BY SoundEach, Actions
  <1>b. ASSUME ActionsOnce', \A c \in Coro : Sound(c)'
        PROVE  ActionsOnce' /\ SourceInv'
    BY <1>b, SoundEachNext
  <1>1. CASE UNCHANGED <<queue, taken, at, awaits, timer, waiter>>
    <2>1. ActionsOnce' /\ \A a : OnItsWay(queue', taken', a) <=> Pending(a)
      BY <1>1, PendingSame
    <2>2. ASSUME NEW x \in Coro
          PROVE  Sound(x)'
      BY <1>1, <1>a, <2>1, SoundSame
    <2> QED
      BY <1>b, <2>1, <2>2
  <1>2. CASE Run \/ Reset \/ Test \/ DropScheduler \/ UNCHANGED vars
    BY <1>1, <1>2 DEF Run, Reset, Test, DropScheduler, vars
  <1>3. CASE WaitPop
    <2>1. CASE UNCHANGED <<taken, queue>>
      BY <1>1, <1>3, <2>1 DEF WaitPop
    <2>2. CASE queue # <<>> /\ taken' = Head(queue) /\ queue' = Tail(queue)
      <3>1. taken = None
        BY <1>3 DEF WaitPop, RunShape
      <3>2. ActionsOnce' /\ \A b \in Action : OnItsWay(queue', taken', b) <=> Pending(b)
        BY <2>2, <3>1, PendingPop
      <3>3. ASSUME NEW x \in Coro
            PROVE  Sound(x)'
        BY <1>3, <1>a, <3>2, SoundSame DEF WaitPop
      <3> QED
        BY <1>b, <3>2, <3>3
    <2> QED
      BY <1>3, <2>1, <2>2 DEF WaitPop
  <1>4. CASE Discard
    <2>1. taken = None
      BY <1>4 DEF Discard, RunShape
    <2> QED
      BY <1>1, <1>4, <2>1 DEF Discard
  <1>5. CASE ExecuteStart \/ Resume
    <2>0. PICK c \in Coro : c = taken.of
      BY <1>5, Actions DEF ExecuteStart, Resume, Execute, TypeOK
    <2>1. /\ c \in Coro /\ taken \in Action /\ taken' = None /\ queue' = queue
          /\ UNCHANGED <<awaits, timer, waiter>>
      BY <1>5, Actions DEF ExecuteStart, Resume, Execute, TypeOK
    <2>2. ActionsOnce'
      BY <2>1, PendingTaken
    <2>3. CASE ExecuteStart
      <3>1. taken = Starting(c) /\ at' = [at EXCEPT ![c] = "body"]
        BY <2>0, <2>1, <2>3, Actions DEF ExecuteStart, Execute
      <3>2. /\ ~OnItsWay(queue', taken', Starting(c))
            /\ \A b \in Action :
                 b # Starting(c) => (OnItsWay(queue', taken', b) <=> Pending(b))
        BY <1>a, <2>1, <3>1, PendingTaken
      <3>3. at[c] = "posted"
        BY <1>a, <2>1, <3>1 DEF Sound, Pending, OnItsWay
      <3>4. Sound(c)'
        <4>1. ~Pending(Resumption(c)) /\ ~Busy(c) /\ timer[c] = "none" /\ waiter[c] = "none"
          BY <1>a, <2>1, <3>3 DEF Sound
        <4>2. ~OnItsWay(queue', taken', Resumption(c))
          BY <1>a, <2>1, <3>2, <4>1, Actions
        <4> QED
          BY <2>1, <3>1, <3>2, <4>1, <4>2, SoundNext DEF TypeOK
      <3>5. ASSUME NEW x \in Coro, x # c
            PROVE  Sound(x)'
        <4>1. Starting(x) # Starting(c) /\ Resumption(x) # Starting(c)
          BY <2>1, <3>5, Actions
        <4> QED
          BY <1>a, <2>1, <3>1, <3>2, <3>5, <4>1, SoundSame DEF TypeOK
      <3> QED
        BY <1>b, <2>2, <3>4, <3>5
    <2>4. CASE Resume
      <3>1. /\ taken = Resumption(c)
            /\ \E place \in {"getting", "joining"} : at' = [at EXCEPT ![c] = place]
        BY <2>0, <2>1, <2>4, Actions DEF Resume, Execute
      <3>2. /\ ~OnItsWay(queue', taken', Resumption(c))
            /\ \A b \in Action :
                 b # Resumption(c) => (OnItsWay(queue', taken', b) <=> Pending(b))
        BY <1>a, <2>1, <3>1, PendingTaken
      <3>3. at[c] = "waiting" /\ ~Busy(c) /\ timer[c] = "none"
        BY <1>a, <2>1, <3>1 DEF Sound, Pending, OnItsWay
      <3>4. Sound(c)'
        <4>1. ~Pending(Starting(c))
          BY <1>a, <2>1, <3>3 DEF Sound
        <4>2. ~OnItsWay(queue', taken', Starting(c))
          BY <1>a, <2>1, <3>2, <4>1, Actions
        <4>3. waiter[c] # "none" => awaits[c] \notin {None, "timer"}
          BY <1>a, <2>1 DEF Sound
        <4> QED
          BY <2>1, <3>1, <3>2, <3>3, <4>2, <4>3, SoundNext DEF TypeOK, Busy
      <3>5. ASSUME NEW x \in Coro, x # c
            PROVE  Sound(x)'
        <4>1. Starting(x) # Resumption(c) /\ Resumption(x) # Resumption(c)
          BY <2>1, <3>5, Actions
        <4> QED
          BY <1>a, <2>1, <3>1, <3>2, <3>5, <4>1, SoundSame DEF TypeOK
      <3> QED
        BY <1>b, <2>2, <3>4, <3>5
    <2> QED
      BY <1>5, <2>3, <2>4
  <1>6. ASSUME NEW c \in Coro, Start(c)
        PROVE  ActionsOnce' /\ SourceInv'
    <2>1. /\ at[c] = "new" /\ at' = [at EXCEPT ![c] = "posted"]
          /\ queue' = Append(queue, Starting(c)) /\ taken' = taken
          /\ UNCHANGED <<awaits, timer, waiter>>
      BY <1>6 DEF Start, Starting
    <2>2. /\ ~Pending(Starting(c)) /\ ~Pending(Resumption(c)) /\ ~Busy(c)
          /\ timer[c] = "none" /\ waiter[c] = "none"
      BY <1>a, <2>1 DEF Sound
    <2>3. /\ ActionsOnce'
          /\ \A b : OnItsWay(queue', taken', b) <=> Pending(b) \/ b = Starting(c)
      BY <1>a, <2>1, <2>2, PendingPush
    <2>4. Sound(c)'
      <3>1. ~OnItsWay(queue', taken', Resumption(c))
        BY <2>2, <2>3, Actions
      <3> QED
        BY <2>1, <2>2, <3>1, SoundNext DEF TypeOK
    <2>5. ASSUME NEW x \in Coro, x # c
          PROVE  Sound(x)'
      <3>1. Starting(x) # Starting(c) /\ Resumption(x) # Starting(c)
        BY <2>5, Actions
      <3> QED
        BY <1>a, <2>1, <2>3, <2>5, <3>1, SoundSame DEF TypeOK
    <2> QED
      BY <1>b, <2>3, <2>4, <2>5
  <1> DEFINE Same(x) == /\ at'[x] = at[x] /\ awaits'[x] = awaits[x]
                        /\ timer'[x] = timer[x]
                        /\ \/ waiter'[x] = waiter[x]
                           \/ {waiter[x], waiter'[x]}
                                \subseteq {"begun", "sleeping", "ready"}
             Active(x) == /\ at[x] \notin {"posted", "waiting"}
                          /\ at'[x] \notin {"posted", "waiting"}
                          /\ timer'[x] = timer[x] /\ waiter'[x] = "none"
  <1>7. ASSUME UNCHANGED <<queue, taken>>,
               \A x \in Coro : Same(x) \/ Active(x) \/ Sound(x)'
        PROVE  ActionsOnce' /\ SourceInv'
    <2>1. ActionsOnce' /\ \A a : OnItsWay(queue', taken', a) <=> Pending(a)
      BY <1>7, PendingSame
    <2>2. ASSUME NEW x \in Coro
          PROVE  Sound(x)'
      <3>1. CASE Same(x)
        BY <1>a, <2>1, <3>1, SoundSame
      <3>2. CASE Active(x)
        BY <1>a, <2>1, <3>2, SoundActive
      <3> QED
        BY <1>7, <3>1, <3>2
    <2> QED
      BY <1>b, <2>1, <2>2
  <1>8. ASSUME NEW c \in Coro, at[c] \notin {"waiting", "getting", "joining"}
        PROVE  waiter[c] = "none"
    BY <1>8, <1>a DEF Sound
  <1>9. ASSUME NEW c \in Coro, Return(c)
        PROVE  ActionsOnce' /\ SourceInv'
    <2>1. /\ at[c] = "body" /\ at' = [at EXCEPT ![c] = "done"]
          /\ UNCHANGED <<queue, taken, awaits, timer>> /\ waiter[c] = "none"
      BY <1>8, <1>9 DEF Return, InBody
    <2>2. ASSUME NEW x \in Coro
          PROVE  \/ waiter'[x] = waiter[x]
                 \/ waiter[x] = "sleeping" /\ waiter'[x] = "ready"
      BY <1>9 DEF Return, NotifyOne, SleepingThreads, TypeOK
    <2>3. \A x \in Coro : Same(x) \/ Active(x)
      BY <2>1, <2>2 DEF TypeOK
    <2> QED
      BY <1>7, <2>1, <2>3
  <1>10. ASSUME NEW c \in Coro, SpawnReturn(c) \/ GetThrows(c) \/ Join(c)
         PROVE  ActionsOnce' /\ SourceInv'
    <2>1. UNCHANGED <<queue, taken, timer>>
      BY <1>10 DEF SpawnReturn, GetThrows, Join
    <2>2. \A x \in Coro \ {c} : Same(x)
      BY <1>10 DEF SpawnReturn, GetThrows, Join, TypeOK
    <2>3. CASE SpawnReturn(c)
      <3>1. Active(c)
        BY <1>8, <2>3 DEF SpawnReturn, TypeOK
      <3> QED
        BY <1>7, <2>1, <2>2, <3>1
    <2>4. CASE Join(c)
      <3>1. Active(c)
        BY <2>4 DEF Join, TypeOK
      <3> QED
        BY <1>7, <2>1, <2>2, <3>1
    <2>5. CASE GetThrows(c)
      <3>1. /\ at[c] = "getting" /\ at' = [at EXCEPT ![c] = "joining"]
            /\ UNCHANGED <<queue, taken, timer, waiter, awaits>>
        BY <2>5 DEF GetThrows
      <3>2. ~Pending(Starting(c)) /\ ~Pending(Resumption(c)) /\ ~Busy(c)
            /\ timer[c] = "none"
            /\ (waiter[c] # "none" => awaits[c] \notin {None, "timer"})
        BY <1>a, <3>1 DEF Sound
      <3>3. ~OnItsWay(queue', taken', Starting(c))
            /\ ~OnItsWay(queue', taken', Resumption(c))
        BY <3>1, <3>2 DEF Pending
      <3>4. Sound(c)'
        BY <3>1, <3>2, <3>3, SoundNext DEF TypeOK, Busy
      <3> QED
        BY <1>7, <2>1, <2>2, <3>4
    <2> QED
      BY <1>10, <2>3, <2>4, <2>5
  <1>11. ASSUME NEW c \in Coro, at[c] \in {"body", "calling"},
                UNCHANGED <<queue, taken>>, at' = [at EXCEPT ![c] = "waiting"],
                \A x \in Coro \ {c} : awaits'[x] = awaits[x] /\ timer'[x] = timer[x]
                                       /\ waiter'[x] = waiter[x],
                \/ /\ waiter'[c] = "begun" /\ awaits'[c] \notin {None, "timer"}
                   /\ timer'[c] = timer[c]
                \/ waiter'[c] = waiter[c] /\ timer'[c] # "none"
         PROVE  ActionsOnce' /\ SourceInv'
    <2>1. ~Pending(Starting(c)) /\ ~Pending(Resumption(c)) /\ ~Busy(c)
          /\ timer[c] = "none" /\ waiter[c] = "none"
      BY <1>a, <1>11 DEF Sound
    <2>2. ~OnItsWay(queue', taken', Starting(c))
          /\ ~OnItsWay(queue', taken', Resumption(c))
      BY <1>11, <2>1 DEF Pending
    <2>3. Sound(c)'
      BY <1>11, <2>1, <2>2, SoundNext DEF TypeOK
    <2>4. \A x \in Coro \ {c} : Same(x)
      BY <1>11 DEF TypeOK
    <2> QED
      BY <1>7, <1>11, <2>3, <2>4
  <1>12. ASSUME NEW c \in Coro, AwaitFuture(c)
         PROVE  ActionsOnce' /\ SourceInv'
    <2>1. /\ at[c] = "body" /\ UNCHANGED <<queue, taken, timer>>
          /\ at' = [at EXCEPT ![c] = "waiting"]
          /\ awaits' = [awaits EXCEPT ![c] = "future"]
          /\ waiter' = [waiter EXCEPT ![c] = "begun"]
      BY <1>12 DEF AwaitFuture, Await, Suspend, InBody
    <2>2. awaits'[c] \notin {None, "timer"}
      BY <2>1, CoroutineAssumption DEF TypeOK
    <2>3. waiter'[c] = "begun" /\ timer'[c] = timer[c]
      BY <2>1 DEF TypeOK
    <2>4. \A x \in Coro \ {c} : awaits'[x] = awaits[x] /\ timer'[x] = timer[x]
                                 /\ waiter'[x] = waiter[x]
      BY <2>1 DEF TypeOK
    <2> QED
      BY <1>11, <2>1, <2>2, <2>3, <2>4
  <1>13. ASSUME NEW c \in Coro, NEW interval, AwaitInterval(c, interval)
         PROVE  ActionsOnce' /\ SourceInv'
    <2>1. /\ at[c] = "body" /\ UNCHANGED <<queue, taken, waiter>>
          /\ at' = [at EXCEPT ![c] = "waiting"]
          /\ awaits' = [awaits EXCEPT ![c] = "timer"]
          /\ \E state \in {"armed", "idle"} : timer' = [timer EXCEPT ![c] = state]
      BY <1>13 DEF AwaitInterval, Await, Suspend, InBody
    <2>2. timer'[c] # "none"
      BY <2>1 DEF TypeOK
    <2>3. \A x \in Coro \ {c} : awaits'[x] = awaits[x] /\ timer'[x] = timer[x]
                                 /\ waiter'[x] = waiter[x]
      BY <2>1 DEF TypeOK
    <2> QED
      BY <1>11, <2>1, <2>2, <2>3
  <1>14. ASSUME NEW c \in Coro, AwaitReady(c)
         PROVE  ActionsOnce' /\ SourceInv'
    <2>1. at[c] = "calling" /\ UNCHANGED <<queue, taken, timer>>
      BY <1>14 DEF AwaitReady
    <2>2. CASE result[awaits[c]]
      <3>1. UNCHANGED waiter /\ at' = [at EXCEPT ![c] = "body"]
            /\ awaits' = [awaits EXCEPT ![c] = None]
        BY <1>14, <2>2 DEF AwaitReady
      <3>2. Active(c) /\ \A x \in Coro \ {c} : Same(x)
        BY <1>8, <2>1, <3>1 DEF TypeOK
      <3> QED
        BY <1>7, <2>1, <3>2
    <2>3. CASE ~result[awaits[c]]
      <3>1. /\ at' = [at EXCEPT ![c] = "waiting"] /\ UNCHANGED awaits
            /\ waiter' = [waiter EXCEPT ![c] = "begun"]
        BY <1>14, <2>3 DEF AwaitReady, Suspend
      <3>2. awaits'[c] \notin {None, "timer"} /\ waiter'[c] = "begun"
        BY <2>1, <3>1, CoroutineAssumption DEF TypeOK, StackShape
      <3>3. \A x \in Coro \ {c} : awaits'[x] = awaits[x] /\ timer'[x] = timer[x]
                                   /\ waiter'[x] = waiter[x]
        BY <2>1, <3>1 DEF TypeOK
      <3> QED
        BY <1>11, <2>1, <3>1, <3>2, <3>3
    <2> QED
      BY <2>2, <2>3
  <1>15. ASSUME NEW c \in Coro, NEW d \in Coro, AwaitTask(c, d) \/ Spawn(c, d)
         PROVE  ActionsOnce' /\ SourceInv'
    <2>1. /\ at[c] = "body" /\ at[d] = "new" /\ c # d
          /\ UNCHANGED <<queue, taken, timer, waiter>>
          /\ \E place \in Below : at' = [at EXCEPT ![c] = place, ![d] = "body"]
          /\ \A x \in Coro \ {c} : awaits'[x] = awaits[x]
      BY <1>15 DEF AwaitTask, Await, Spawn, StartInside, InBody, TypeOK, Below
    <2>2. waiter[c] = "none" /\ waiter[d] = "none"
      BY <1>8, <2>1
    <2>3. Active(c) /\ Active(d) /\ \A x \in Coro \ {c, d} : Same(x)
      BY <2>1, <2>2 DEF TypeOK, Below
    <2> QED
      BY <1>7, <2>1, <2>3
  <1>16. ASSUME NEW c \in Coro, Throw(c)
         PROVE  ActionsOnce' /\ SourceInv'
    <2> DEFINE n == Len(stack)
    <2>1. Top(c) /\ at[c] = "body" /\ UNCHANGED <<queue, taken, timer, waiter>>
      BY <1>16 DEF Throw, Throws, InBody
    <2>2. n \in Nat \ {0} /\ DOMAIN stack = 1..n /\ \A i \in 1..n : stack[i] \in Coro
      BY <2>1, TopShape, ElementOfSeq DEF TypeOK
    <2>3. CASE n = 1
      <3>1. at' = [at EXCEPT ![c] = "failed"] /\ awaits' = [awaits EXCEPT ![c] = None]
        BY <1>16, <2>3 DEF Throw, Throws
      <3>2. Active(c) /\ \A x \in Coro \ {c} : Same(x)
        BY <1>8, <2>1, <3>1 DEF TypeOK
      <3> QED
        BY <1>7, <2>1, <3>2
    <2>4. CASE n # 1
      <3>1. PICK p : p = stack[n - 1]
        OBVIOUS
      <3>2. /\ at' = [at EXCEPT ![c] = "failed", ![p] = "body"]
            /\ awaits' = [awaits EXCEPT ![c] = None, ![p] = None]
        BY <1>16, <2>4, <3>1 DEF Throw, Throws
      <3>3. \A i \in 1..n : i # n => at[stack[i]] \in Below
        BY <2>2 DEF StackShape
      <3> HIDE DEF n
      <3>4. p \in Coro /\ at[p] \in Below
        BY <2>2, <2>4, <3>1, <3>3
      <3>5. waiter[c] = "none" /\ waiter[p] = "none"
        BY <1>8, <2>1, <3>4 DEF Below
      <3>6. Active(c) /\ Active(p) /\ \A x \in Coro \ {c, p} : Same(x)
        BY <2>1, <3>2, <3>4, <3>5 DEF TypeOK, Below
      <3> QED
        BY <1>7, <2>1, <3>6
    <2> QED
      BY <2>3, <2>4
  <1>17. ASSUME NEW c \in Coro, WaitBegin(c) \/ SetFuture(c)
         PROVE  ActionsOnce' /\ SourceInv'
    <2>1. UNCHANGED <<queue, taken, at, awaits, timer>>
      BY <1>17 DEF WaitBegin, SetFuture
    <2>2. \A x \in Coro : \/ waiter'[x] = waiter[x]
                          \/ {waiter[x], waiter'[x]}
                               \subseteq {"begun", "sleeping", "ready"}
      BY <1>17 DEF WaitBegin, SetFuture, TypeOK
    <2> QED
      BY <1>7, <2>1, <2>2
  <1>18. CASE SpuriousWakeup
    <2>1. UNCHANGED <<queue, taken, at, awaits, timer>>
      BY <1>18 DEF SpuriousWakeup
    <2>2. \A x \in Coro : \/ waiter'[x] = waiter[x]
                          \/ {waiter[x], waiter'[x]}
                               \subseteq {"begun", "sleeping", "ready"}
      BY <1>18 DEF SpuriousWakeup, TypeOK
    <2> QED
      BY <1>7, <2>1, <2>2
  <1>19. ASSUME NEW c \in Coro, WaitPush(c) \/ OnTimerExpired(c)
         PROVE  ActionsOnce' /\ SourceInv'
    <2>1. /\ queue' = Append(queue, Resumption(c)) /\ UNCHANGED <<taken, at, awaits>>
          /\ \/ /\ waiter[c] = "ready" /\ waiter' = [waiter EXCEPT ![c] = "finished"]
                /\ timer' = timer
             \/ /\ timer[c] = "expired" /\ timer' = [timer EXCEPT ![c] = "none"]
                /\ waiter' = waiter
      BY <1>19 DEF WaitPush, OnTimerExpired, PushResume, Resumption
    <2>2. /\ at[c] = "waiting"
          /\ ~Pending(Starting(c)) /\ ~Pending(Resumption(c))
          /\ waiter[c] # "none" => awaits[c] \notin {None, "timer"}
          /\ waiter[c] = "ready" => timer[c] = "none"
          /\ timer[c] = "expired" => ~Busy(c)
      BY <1>a, <2>1 DEF Sound, Busy
    <2>3. /\ ActionsOnce'
          /\ \A b : OnItsWay(queue', taken', b) <=> Pending(b) \/ b = Resumption(c)
      BY <1>a, <2>1, <2>2, PendingPush
    <2>4. Sound(c)'
      <3>1. ~OnItsWay(queue', taken', Starting(c))
            /\ OnItsWay(queue', taken', Resumption(c))
        BY <2>2, <2>3, Actions
      <3>2. /\ timer'[c] = "none" /\ at'[c] = "waiting" /\ awaits'[c] = awaits[c]
            /\ waiter'[c] \notin {"begun", "sleeping", "ready"}
            /\ waiter'[c] # "none" => waiter[c] # "none"
        BY <2>1, <2>2 DEF TypeOK, Busy
      <3> QED
        BY <2>2, <3>1, <3>2, SoundNext
    <2>5. ASSUME NEW x \in Coro, x # c
          PROVE  Sound(x)'
      <3>1. Starting(x) # Resumption(c) /\ Resumption(x) # Resumption(c)
        BY <2>5, Actions
      <3> QED
        BY <1>a, <2>1, <2>3, <2>5, <3>1, SoundSame DEF TypeOK
    <2> QED
      BY <1>b, <2>3, <2>4, <2>5
  <1>20. ASSUME NEW c \in Coro, Expire(c)
         PROVE  ActionsOnce' /\ SourceInv'
    <2>1. /\ timer[c] = "armed" /\ timer' = [timer EXCEPT ![c] = "expired"]
          /\ UNCHANGED <<queue, taken, at, awaits, waiter>>
      BY <1>20 DEF Expire
    <2>2. /\ at[c] = "waiting" /\ ~Busy(c)
          /\ ~Pending(Starting(c)) /\ ~Pending(Resumption(c))
          /\ waiter[c] # "none" => awaits[c] \notin {None, "timer"}
      BY <1>a, <2>1 DEF Sound
    <2>3. ~OnItsWay(queue', taken', Starting(c))
          /\ ~OnItsWay(queue', taken', Resumption(c))
      BY <2>1, <2>2 DEF Pending
    <2>4. Sound(c)'
      BY <2>1, <2>2, <2>3, SoundNext DEF TypeOK, Busy
    <2>5. \A x \in Coro \ {c} : Same(x)
      BY <2>1 DEF TypeOK
    <2> QED
      BY <1>7, <2>1, <2>4, <2>5
  <1>21. ASSUME NEW k \in Client,
                GetReturn(k) \/ \E c \in Coro : Get(k, c)
         PROVE  ActionsOnce' /\ SourceInv'
    BY <1>1, <1>21 DEF GetReturn, Get
  <1> HIDE DEF Same, Active
  <1> QED
    BY <1>2, <1>3, <1>4, <1>5, <1>6, <1>9, <1>10, <1>12, <1>13, <1>14, <1>15, <1>16,
       <1>17, <1>18, <1>19, <1>20, <1>21, CoroutineSteps, Zenon DEF Next, RunStep

------------------------------------------------------------------------------
(* Results. *)

(* What was known stays known. *)
LEMMA ProperKept ==
  ASSUME NEW c \in Coro, Proper(c),
         awaits'[c] = awaits[c],
         \A d \in Coro : result[d] => result'[d],
         future[c] => future'[c],
         spurious' = spurious,
         at'[c] # "getting",
         at'[c] = "joining" => at[c] = "joining",
         waiter'[c] \in {"ready", "finished"} => waiter[c] \in {"ready", "finished"},
         OnItsWay(queue', taken', Resumption(c)) => Pending(Resumption(c)),
         timer'[c] # "none" => timer[c] # "none"
  PROVE  Proper(c)'
PROOF
  <1>1. /\ at[c] = "getting" => spurious # 0
        /\ Due(c)' => Due(c)
        /\ Answered(c) => Answered(c)'
    BY DEF Due, Answered, Proper, Pending, Resumption
  <1> QED
    BY <1>1 DEF Proper

(* A coroutine that does not wait and was not resumed is not due. *)
LEMMA ProperActive ==
  ASSUME NEW c \in Coro, Sound(c)',
         at'[c] \notin {"waiting", "getting", "joining"}
  PROVE  Proper(c)'
PROOF
  BY DEF Proper, Sound, Due

(* Nor is one that has just begun to wait. *)
LEMMA ProperBegun ==
  ASSUME NEW c \in Coro, at'[c] = "waiting",
         ~OnItsWay(queue', taken', Resumption(c)),
         waiter'[c] \notin {"ready", "finished"},
         timer'[c] # "none" => awaits'[c] = "timer"
  PROVE  Proper(c)'
PROOF
  BY DEF Proper, Due, Pending, Resumption

(* Whoever is woken, or finds the result, has it. *)
LEMMA ProperAnswered ==
  ASSUME NEW c \in Coro, at'[c] # "getting",
         timer'[c] # "none" => awaits'[c] = "timer",
         awaits'[c] \in Coro => result'[awaits'[c]],
         awaits'[c] = "future" => future'[c]
  PROVE  Proper(c)'
PROOF
  BY DEF Proper, Answered

------------------------------------------------------------------------------
(* Theorems. *)

(* The invariant holds at first, and every step keeps it. *)
LEMMA Inductive ==
  /\ Init => CoroutineInv
  /\ CoroutineInv /\ [Next]_vars => CoroutineInv'
PROOF
  <1>1. ASSUME Init
        PROVE  CoroutineInv
    <2>1. TypeOK
      BY <1>1, InitTypes
    <2>2. stack = <<>> /\ queue = <<>> /\ taken = None /\ run = "idle"
          /\ \A c \in Coro : at[c] = "new" /\ waiter[c] = "none" /\ timer[c] = "none"
      BY <1>1 DEF Init
    <2>3. \A c \in Coro : ~Pending(Starting(c)) /\ ~Pending(Resumption(c))
      BY <2>2, Actions, CoroutineAssumption DEF Pending, OnItsWay, In
    <2>4. ActionsOnce /\ StackShape /\ RunShape
      BY <2>2 DEF ActionsOnce, StackShape, RunShape, Once
    <2>5. \A c \in Coro : Sound(c)
      BY <2>2, <2>3 DEF Sound, Busy
    <2> QED
      BY <2>1, <2>4, <2>5, SoundEach DEF CoroutineInv, SourceInv
  <1>2. ASSUME CoroutineInv, [Next]_vars
        PROVE  CoroutineInv'
    <2>1. TypeOK'
      BY <1>2, TypeStep DEF CoroutineInv
    <2>2. StackShape'
      BY <1>2, StackStep DEF CoroutineInv
    <2>3. RunShape'
      BY <1>2, RunShapeStep DEF CoroutineInv
    <2>4. ActionsOnce' /\ SourceInv'
      BY <1>2, SourceStep DEF CoroutineInv, SourceInv
    <2> QED
      BY <2>1, <2>2, <2>3, <2>4 DEF CoroutineInv, SourceInv
  <1> QED
    BY <1>1, <1>2

(* It holds of every behaviour. *)
LEMMA Invariant == Spec => []CoroutineInv
PROOF
  BY Inductive, PTL DEF Spec

(* Types, for any number of coroutines and clients. *)
THEOREM TypeCorrect == Spec => []TypeOK
PROOF
  <1>1. CoroutineInv => TypeOK
    BY DEF CoroutineInv
  <1> QED
    BY <1>1, Invariant, PTL

(* A coroutine that is suspended has one resumption on its way, from one source:
   one action, its thread or its timer; another has none. *)
THEOREM OneResumption == Spec => []ResumedOnce
PROOF
  <1>1. CoroutineInv => ResumedOnce
    <2> SUFFICES ASSUME CoroutineInv, NEW c \in Coro
                 PROVE  IF at[c] = "waiting"
                        THEN \E source \in Resumptions(c) : Resumptions(c) = {source}
                        ELSE Resumptions(c) = {}
      BY DEF ResumedOnce
    <2> DEFINE r == Resumption(c)
               K == {k \in DOMAIN queue : queue[k] = r}
    <2>1. Sound(c)
      BY SoundEach DEF CoroutineInv, SourceInv
    <2>2. \A s : s \in Resumptions(c) <=>
            \/ \E i \in K : s = <<"queued", i>>
            \/ s = <<"taken", 0>> /\ taken = r
            \/ s = <<"thread", 0>> /\ Busy(c)
            \/ s = <<"timer", 0>> /\ timer[c] # "none"
      BY DEF Resumptions
    <2>3. In(queue, r) <=> \E k \in K : TRUE
      BY DEF In
    <2>4. \A i, j \in K : i = j
      BY DEF CoroutineInv, ActionsOnce, Once
    <2>5. Pending(r) <=> In(queue, r) \/ taken = r
      BY DEF Pending, OnItsWay
    <2>6. taken = r => ~In(queue, r)
      <3>1. r # None
        BY Actions, CoroutineAssumption
      <3> QED
        BY <3>1 DEF CoroutineInv, ActionsOnce
    <2> HIDE DEF r, K
    <2>7. CASE at[c] # "waiting"
      <3>1. ~In(queue, r) /\ taken # r /\ ~Busy(c) /\ timer[c] = "none"
        BY <2>1, <2>5, <2>7 DEF Sound, r
      <3> QED
        BY <2>2, <2>3, <2>7, <3>1
    <2>8. CASE at[c] = "waiting"
      <3>1. In(queue, r) \/ taken = r \/ Busy(c) \/ timer[c] # "none"
        BY <2>1, <2>5, <2>8 DEF Sound, r
      <3>2. /\ Busy(c) => timer[c] = "none"
            /\ In(queue, r) \/ taken = r => ~Busy(c) /\ timer[c] = "none"
        BY <2>1, <2>5 DEF Sound, r
      <3>3. ASSUME NEW s \in Resumptions(c), NEW t \in Resumptions(c)
            PROVE  s = t
        BY <2>2, <2>3, <2>4, <2>6, <3>2, <3>3
      <3>4. \E s : s \in Resumptions(c)
        BY <2>2, <2>3, <3>1
      <3> QED
        BY <2>8, <3>3, <3>4
    <2> QED
      BY <2>7, <2>8
  <1> QED
    BY <1>1, Invariant, PTL

(* The invariant, with what is known of results. *)
LEMMA ResultStep ==
  ASSUME ResultInv, [Next]_vars
  PROVE  ResultInv'
PROOF
  <1> USE DEF coroVars, threadVars, runVars
  <1>a. /\ TypeOK /\ ActionsOnce /\ SourceInv /\ StackShape /\ RunShape
        /\ \A x \in Coro : Proper(x) /\ Sound(x) /\ Resumption(x) \in Action
    BY SoundEach, Actions DEF ResultInv, CoroutineInv, SourceInv
  <1>b. CoroutineInv' /\ \A x \in Coro : Sound(x)'
    BY Inductive, SoundEachNext DEF ResultInv, CoroutineInv, SourceInv
  <1>c. ASSUME \A x \in Coro : Proper(x)'
        PROVE  ResultInv'
    BY <1>b, <1>c DEF ResultInv
  <1> DEFINE Same(x) ==
               /\ awaits'[x] = awaits[x] /\ at'[x] = at[x] /\ future'[x] = future[x]
               /\ waiter'[x] = waiter[x] /\ timer'[x] = timer[x]
             Active(x) == at'[x] \notin {"waiting", "getting", "joining"}
             Quiet == /\ \A d \in Coro : result[d] => result'[d]
                      /\ spurious' = spurious
             Pushed(x) == OnItsWay(queue', taken', Resumption(x)) => Pending(Resumption(x))
  <1>d. ASSUME Quiet, NEW x \in Coro, Pushed(x), Same(x) \/ Active(x)
        PROVE  Proper(x)'
    <2>1. CASE Active(x)
      BY <1>b, <2>1, ProperActive
    <2>2. CASE Same(x)
      <3>1. CASE at[x] = "getting"
        <4>1. spurious # 0 /\ (timer[x] # "none" => awaits[x] = "timer")
          BY <1>a, <3>1 DEF Proper
        <4> QED
          BY <1>d, <2>2, <4>1 DEF Proper
      <3>2. CASE at[x] # "getting"
        BY <1>a, <1>d, <2>2, <3>2, ProperKept
      <3> QED
        BY <3>1, <3>2
    <2> QED
      BY <1>d, <2>1, <2>2
  <1>e. ASSUME Quiet, UNCHANGED <<queue, taken>>,
               \A x \in Coro : Same(x) \/ Active(x) \/ Proper(x)'
        PROVE  ResultInv'
    <2>1. \A x \in Coro : Pushed(x)
      BY <1>e DEF Pending
    <2>2. \A x \in Coro : Proper(x)'
      BY <1>d, <1>e, <2>1
    <2> QED
      BY <1>c, <2>2
  <1>1. CASE UNCHANGED <<coroVars, waiter, timer, spurious, queue, taken>>
    BY <1>1, <1>e
  <1>2. CASE Run \/ Reset \/ Test \/ DropScheduler \/ UNCHANGED vars
    BY <1>1, <1>2 DEF Run, Reset, Test, DropScheduler, vars
  <1>3. CASE WaitPop
    <2>1. CASE UNCHANGED <<taken, queue>>
      BY <1>1, <1>3, <2>1 DEF WaitPop
    <2>2. CASE queue # <<>> /\ taken' = Head(queue) /\ queue' = Tail(queue)
      <3>1. taken = None
        BY <1>a, <1>3 DEF WaitPop, RunShape
      <3>2. \A b \in Action : OnItsWay(queue', taken', b) <=> Pending(b)
        BY <1>a, <2>2, <3>1, PendingPop
      <3>3. Quiet /\ \A x \in Coro : Pushed(x) /\ Same(x)
        BY <1>3, <1>a, <3>2 DEF WaitPop
      <3> QED
        BY <1>c, <1>d, <3>3
    <2> QED
      BY <1>3, <2>1, <2>2 DEF WaitPop
  <1>4. CASE Discard
    <2>1. taken = None
      BY <1>4, <1>a DEF Discard, RunShape
    <2> QED
      BY <1>1, <1>4, <2>1 DEF Discard
  <1>5. CASE ExecuteStart \/ Resume
    <2>0. PICK c \in Coro : c = taken.of
      BY <1>5, <1>a, Actions DEF ExecuteStart, Resume, Execute, TypeOK
    <2>1. /\ c \in Coro /\ taken \in Action /\ taken' = None /\ queue' = queue
          /\ UNCHANGED <<awaits, timer, waiter, result, future, spurious>>
      BY <1>5, <1>a, Actions DEF ExecuteStart, Resume, Execute, TypeOK
    <2>2. \A x \in Coro : Pushed(x)
      BY <1>a, <2>1, CoroutineAssumption DEF OnItsWay, Pending
    <2>3. ASSUME NEW x \in Coro, x # c
          PROVE  Same(x)
      BY <1>5, <1>a, <2>0, <2>1, <2>3 DEF ExecuteStart, Resume, TypeOK
    <2>4. Proper(c)'
      <3>1. CASE ExecuteStart
        <4>1. Active(c)
          BY <1>a, <2>0, <2>1, <3>1 DEF ExecuteStart, TypeOK
        <4> QED
          BY <1>d, <2>1, <2>2, <4>1
      <3>2. CASE Resume
        <4>1. taken = Resumption(c)
          BY <2>0, <2>1, <3>2, Actions DEF Resume, Execute
        <4>2. Due(c) /\ timer[c] = "none"
          BY <1>a, <2>1, <4>1 DEF Due, Pending, OnItsWay, Sound
        <4>3. CASE spurious = 0
          <5>1. Answered(c)
            BY <1>a, <2>1, <4>2, <4>3 DEF Proper
          <5>2. at'[c] = "joining"
            BY <1>a, <2>0, <2>1, <3>2, <5>1 DEF Resume, Answered, TypeOK
          <5> QED
            BY <2>1, <4>2, <5>1, <5>2, ProperAnswered DEF Answered
        <4>4. CASE spurious # 0
          BY <2>1, <4>2, <4>4 DEF Proper
        <4> QED
          BY <4>3, <4>4
      <3> QED
        BY <1>5, <3>1, <3>2
    <2>5. Quiet
      BY <2>1
    <2> QED
      BY <1>c, <1>d, <2>2, <2>3, <2>4, <2>5
  <1>6. ASSUME NEW c \in Coro, Start(c)
        PROVE  ResultInv'
    <2>1. /\ at[c] = "new" /\ at' = [at EXCEPT ![c] = "posted"]
          /\ queue' = Append(queue, Starting(c)) /\ taken' = taken
          /\ UNCHANGED <<awaits, timer, waiter, result, future, spurious>>
      BY <1>6 DEF Start, Starting
    <2>2. \A b : OnItsWay(queue', taken', b) <=> Pending(b) \/ b = Starting(c)
      BY <1>a, <2>1, PendingPush, Actions DEF Sound
    <2>3. \A x \in Coro : Pushed(x)
      BY <2>2, Actions
    <2>4. Quiet /\ \A x \in Coro : Same(x) \/ Active(x)
      BY <1>a, <2>1 DEF TypeOK
    <2> QED
      BY <1>c, <1>d, <2>3, <2>4
  <1>7. ASSUME NEW c \in Coro, Return(c)
        PROVE  ResultInv'
    <2>1. /\ at' = [at EXCEPT ![c] = "done"] /\ result' = [result EXCEPT ![c] = TRUE]
          /\ UNCHANGED <<queue, taken, awaits, timer, future, spurious>>
      BY <1>7 DEF Return
    <2>2. Quiet /\ Active(c) /\ \A x \in Coro : x # c => at'[x] = at[x]
      BY <1>a, <2>1 DEF TypeOK
    <2>3. ASSUME NEW x \in Coro
          PROVE  \/ waiter'[x] = waiter[x]
                 \/ waiter[x] = "sleeping" /\ awaits[x] = c
      BY <1>7, <1>a DEF Return, NotifyOne, SleepingThreads, TypeOK
    <2>4. ASSUME NEW x \in Coro, x # c, waiter[x] = "sleeping", awaits[x] = c
          PROVE  Proper(x)'
      <3>1. at[x] = "waiting" /\ timer[x] = "none"
        BY <1>a, <2>4 DEF Sound, Busy
      <3>2. result'[awaits'[x]] /\ awaits'[x] # "future"
        BY <1>a, <2>1, <2>4, CoroutineAssumption DEF TypeOK
      <3> QED
        BY <2>1, <2>2, <2>4, <3>1, <3>2, ProperAnswered
    <2>5. \A x \in Coro : Same(x) \/ Active(x) \/ Proper(x)'
      BY <2>1, <2>2, <2>3, <2>4
    <2> QED
      BY <1>e, <2>1, <2>2, <2>5
  <1>8. ASSUME NEW c \in Coro, SpawnReturn(c) \/ Join(c)
        PROVE  ResultInv'
    <2>1. /\ UNCHANGED <<queue, taken, result, future, spurious, timer>>
          /\ at' = [at EXCEPT ![c] = "body"]
          /\ \A x \in Coro \ {c} : waiter'[x] = waiter[x] /\ awaits'[x] = awaits[x]
      BY <1>8, <1>a DEF SpawnReturn, Join, TypeOK
    <2>2. Quiet /\ \A x \in Coro : Same(x) \/ Active(x)
      BY <1>a, <2>1 DEF TypeOK
    <2> QED
      BY <1>e, <2>1, <2>2
  <1>9. CASE SpuriousWakeup \/ \E c \in Coro : GetThrows(c)
    <2>1. spurious' # 0 /\ UNCHANGED <<timer, awaits>>
      BY <1>9, <1>a DEF GetThrows, SpuriousWakeup, TypeOK
    <2>2. ASSUME NEW x \in Coro
          PROVE  Proper(x)'
      BY <1>a, <2>1 DEF Proper
    <2> QED
      BY <1>c, <2>2
  <1>10. ASSUME NEW c \in Coro, at[c] \in {"body", "calling"},
                at' = [at EXCEPT ![c] = "waiting"],
                UNCHANGED <<queue, taken, result, spurious>>,
                \A x \in Coro \ {c} :
                  /\ waiter'[x] = waiter[x] /\ awaits'[x] = awaits[x]
                  /\ timer'[x] = timer[x] /\ future'[x] = future[x],
                waiter'[c] \in {"begun", waiter[c]},
                timer'[c] # timer[c] => awaits'[c] = "timer"
         PROVE  ResultInv'
    <2>1. ~Pending(Resumption(c)) /\ waiter[c] = "none" /\ timer[c] = "none"
      BY <1>a, <1>10 DEF Sound
    <2>2. Proper(c)'
      <3>1. ~OnItsWay(queue', taken', Resumption(c)) /\ at'[c] = "waiting"
        BY <1>a, <1>10, <2>1 DEF Pending, TypeOK
      <3> QED
        BY <1>10, <2>1, <3>1, ProperBegun
    <2>3. Quiet /\ \A x \in Coro \ {c} : Same(x)
      BY <1>a, <1>10 DEF TypeOK
    <2> QED
      BY <1>e, <1>10, <2>2, <2>3
  <1>11. ASSUME NEW c \in Coro, AwaitFuture(c)
         PROVE  ResultInv'
    <2>1. /\ at[c] = "body" /\ at' = [at EXCEPT ![c] = "waiting"]
          /\ UNCHANGED <<queue, taken, result, spurious, timer>>
          /\ awaits' = [awaits EXCEPT ![c] = "future"]
          /\ waiter' = [waiter EXCEPT ![c] = "begun"]
          /\ \A x \in Coro \ {c} : future'[x] = future[x]
      BY <1>11, <1>a DEF AwaitFuture, Await, Suspend, InBody, TypeOK
    <2>2. /\ waiter'[c] = "begun"
          /\ \A x \in Coro \ {c} : waiter'[x] = waiter[x] /\ awaits'[x] = awaits[x]
      BY <1>a, <2>1 DEF TypeOK
    <2> QED
      BY <1>10, <2>1, <2>2
  <1>12. ASSUME NEW c \in Coro, NEW interval, AwaitInterval(c, interval)
         PROVE  ResultInv'
    <2>1. /\ at[c] = "body" /\ at' = [at EXCEPT ![c] = "waiting"]
          /\ UNCHANGED <<queue, taken, result, future, spurious, waiter>>
          /\ awaits' = [awaits EXCEPT ![c] = "timer"]
          /\ \A x \in Coro \ {c} : timer'[x] = timer[x]
      BY <1>12, <1>a DEF AwaitInterval, Await, Suspend, InBody, TypeOK
    <2>2. /\ awaits'[c] = "timer"
          /\ \A x \in Coro \ {c} : waiter'[x] = waiter[x] /\ awaits'[x] = awaits[x]
      BY <1>a, <2>1 DEF TypeOK
    <2> QED
      BY <1>10, <2>1, <2>2
  <1>13. ASSUME NEW c \in Coro, AwaitReady(c)
         PROVE  ResultInv'
    <2>1. at[c] = "calling" /\ UNCHANGED <<queue, taken, result, future, spurious, timer>>
      BY <1>13 DEF AwaitReady
    <2>2. CASE result[awaits[c]]
      <3>1. /\ at' = [at EXCEPT ![c] = "body"] /\ UNCHANGED waiter
            /\ awaits' = [awaits EXCEPT ![c] = None]
        BY <1>13, <2>2 DEF AwaitReady
      <3>2. Quiet /\ \A x \in Coro : Same(x) \/ Active(x)
        BY <1>a, <2>1, <3>1 DEF TypeOK
      <3> QED
        BY <1>e, <2>1, <3>2
    <2>3. CASE ~result[awaits[c]]
      <3>1. /\ at' = [at EXCEPT ![c] = "waiting"] /\ UNCHANGED awaits
            /\ waiter' = [waiter EXCEPT ![c] = "begun"]
        BY <1>13, <2>3 DEF AwaitReady, Suspend
      <3>2. waiter'[c] = "begun" /\ \A x \in Coro \ {c} : waiter'[x] = waiter[x]
        BY <1>a, <3>1 DEF TypeOK
      <3> QED
        BY <1>10, <2>1, <3>1, <3>2
    <2> QED
      BY <2>2, <2>3
  <1>14. ASSUME NEW c \in Coro, NEW d \in Coro, AwaitTask(c, d) \/ Spawn(c, d)
         PROVE  ResultInv'
    <2>1. /\ UNCHANGED <<queue, taken, timer, waiter, result, future, spurious>>
          /\ \E place \in Below : at' = [at EXCEPT ![c] = place, ![d] = "body"]
          /\ \A x \in Coro \ {c} : awaits'[x] = awaits[x]
      BY <1>14, <1>a DEF AwaitTask, Await, Spawn, StartInside, TypeOK, Below
    <2>2. Quiet /\ \A x \in Coro : Same(x) \/ Active(x)
      BY <1>a, <2>1 DEF TypeOK, Below
    <2> QED
      BY <1>e, <2>1, <2>2
  <1>15. ASSUME NEW c \in Coro, Throw(c)
         PROVE  ResultInv'
    <2>1. UNCHANGED <<queue, taken, timer, waiter, result, future, spurious>>
      BY <1>15 DEF Throw, Throws
    <2>2. CASE Len(stack) = 1
      <3>1. at' = [at EXCEPT ![c] = "failed"] /\ awaits' = [awaits EXCEPT ![c] = None]
        BY <1>15, <2>2 DEF Throw, Throws
      <3>2. Quiet /\ \A x \in Coro : Same(x) \/ Active(x)
        BY <1>a, <2>1, <3>1 DEF TypeOK
      <3> QED
        BY <1>e, <2>1, <3>2
    <2>3. CASE Len(stack) # 1
      <3>1. PICK p : p = stack[Len(stack) - 1]
        OBVIOUS
      <3>2. /\ at' = [at EXCEPT ![c] = "failed", ![p] = "body"]
            /\ awaits' = [awaits EXCEPT ![c] = None, ![p] = None]
        BY <1>15, <2>3, <3>1 DEF Throw, Throws
      <3>3. Quiet /\ \A x \in Coro : Same(x) \/ Active(x)
        BY <1>a, <2>1, <3>2 DEF TypeOK
      <3> QED
        BY <1>e, <2>1, <3>3
    <2> QED
      BY <2>2, <2>3
  <1>16. ASSUME NEW c \in Coro, WaitBegin(c) \/ SetFuture(c)
         PROVE  ResultInv'
    <2>1. UNCHANGED <<queue, taken, at, awaits, timer, result, spurious>> /\ Quiet
      BY <1>16 DEF WaitBegin, SetFuture
    <2>2. \A x \in Coro \ {c} : Same(x)
      BY <1>16, <1>a DEF WaitBegin, SetFuture, TypeOK
    <2>3. Proper(c)'
      <3>1. timer'[c] # "none" => awaits'[c] = "timer"
        BY <1>a, <2>1 DEF Proper
      <3>2. CASE WaitBegin(c)
        <4>1. /\ waiter[c] = "begun" /\ future' = future
              /\ waiter'[c] = IF IF awaits[c] = "future" THEN future[c]
                                 ELSE result[awaits[c]]
                              THEN "ready" ELSE "sleeping"
          BY <3>2, <1>a DEF WaitBegin, TypeOK
        <4>2. at[c] = "waiting" /\ ~Pending(Resumption(c))
          BY <1>a, <4>1 DEF Sound, Busy
        <4>3. CASE waiter'[c] = "ready"
          BY <1>a, <2>1, <3>1, <4>1, <4>2, <4>3, CoroutineAssumption, ProperAnswered
        <4>4. CASE waiter'[c] = "sleeping"
          BY <2>1, <3>1, <4>2, <4>4, ProperBegun DEF Pending
        <4> QED
          BY <4>1, <4>3, <4>4
      <3>3. CASE SetFuture(c)
        <4>1. awaits[c] = "future" /\ future'[c]
          BY <3>3, <1>a DEF SetFuture, TypeOK
        <4>2. CASE at[c] = "getting"
          BY <1>a, <2>1, <3>1, <4>2 DEF Proper
        <4>3. CASE at[c] # "getting"
          BY <2>1, <3>1, <4>1, <4>3, CoroutineAssumption, ProperAnswered
        <4> QED
          BY <4>2, <4>3
      <3> QED
        BY <1>16, <3>2, <3>3
    <2> QED
      BY <1>e, <2>1, <2>2, <2>3
  <1>17. ASSUME NEW c \in Coro, WaitPush(c) \/ OnTimerExpired(c)
         PROVE  ResultInv'
    <2>1. /\ queue' = Append(queue, Resumption(c))
          /\ UNCHANGED <<taken, at, awaits, result, future, spurious>>
          /\ \/ /\ waiter[c] = "ready" /\ waiter' = [waiter EXCEPT ![c] = "finished"]
                /\ timer' = timer
             \/ /\ timer[c] = "expired" /\ timer' = [timer EXCEPT ![c] = "none"]
                /\ waiter' = waiter
      BY <1>17 DEF WaitPush, OnTimerExpired, PushResume, Resumption
    <2>2. at[c] = "waiting" /\ ~Pending(Resumption(c))
      BY <1>a, <2>1 DEF Sound, Busy
    <2>3. \A b : OnItsWay(queue', taken', b) <=> Pending(b) \/ b = Resumption(c)
      BY <1>a, <2>1, <2>2, PendingPush
    <2>4. Quiet /\ \A x \in Coro \ {c} : Pushed(x) /\ Same(x)
      <3>1. \A x \in Coro \ {c} : Resumption(x) # Resumption(c)
        BY Actions
      <3> QED
        BY <1>a, <2>1, <2>3, <3>1 DEF TypeOK
    <2>5. Proper(c)'
      <3>1. CASE timer[c] = "expired"
        <4>1. awaits[c] = "timer"
          BY <1>a, <3>1 DEF Proper
        <4> QED
          BY <2>1, <2>2, <4>1, CoroutineAssumption, ProperAnswered
      <3>2. CASE waiter[c] = "ready" /\ timer' = timer
        <4>1. /\ timer[c] # "none" => awaits[c] = "timer"
              /\ spurious = 0 => Answered(c)
          BY <1>a, <3>2 DEF Proper, Due
        <4>2. CASE spurious = 0
          BY <2>1, <2>2, <3>2, <4>1, <4>2, ProperAnswered DEF Answered
        <4>3. CASE spurious # 0
          BY <2>1, <3>2, <4>1, <4>3 DEF Proper
        <4> QED
          BY <4>2, <4>3
      <3> QED
        BY <2>1, <3>1, <3>2
    <2>6. ASSUME NEW x \in Coro
          PROVE  Proper(x)'
      BY <1>d, <2>4, <2>5
    <2> QED
      BY <1>c, <2>6
  <1>18. ASSUME NEW c \in Coro, Expire(c)
         PROVE  ResultInv'
    <2>1. /\ timer[c] = "armed" /\ timer' = [timer EXCEPT ![c] = "expired"]
          /\ UNCHANGED <<coroVars, waiter, spurious, queue, taken>>
      BY <1>18 DEF Expire
    <2>2. \A x \in Coro \ {c} : Same(x)
      BY <1>a, <2>1 DEF TypeOK
    <2>3. at[c] = "waiting"
      BY <1>a, <2>1 DEF Sound
    <2>4. Proper(c)'
      BY <1>a, <2>1, <2>3, ProperKept DEF Pending
    <2> QED
      BY <1>e, <2>1, <2>2, <2>4
  <1>19. ASSUME NEW k \in Client, GetReturn(k) \/ \E c \in Coro : Get(k, c)
         PROVE  ResultInv'
    BY <1>1, <1>19 DEF GetReturn, Get
  <1> HIDE DEF Same, Active, Quiet, Pushed
  <1> QED
    BY <1>2, <1>3, <1>4, <1>5, <1>6, <1>7, <1>8, <1>9, <1>11, <1>12, <1>13, <1>14,
       <1>15, <1>16, <1>17, <1>18, <1>19, CoroutineSteps, Zenon
    DEF Next, RunStep, ResultInv

(* A co_await goes on when its task has returned or its future is set, and get()
   does not block the context, unless somebody wakes up by himself. *)
THEOREM ResultsFirst == Spec => []ResultFirst
PROOF
  <1>1. Init => ResultInv
    <2>1. ASSUME Init, NEW c \in Coro
          PROVE  Proper(c)
      <3>1. /\ timer[c] = "none" /\ at[c] = "new" /\ waiter[c] = "none"
            /\ queue = <<>> /\ taken = None
        BY <2>1 DEF Init
      <3>2. ~Pending(Resumption(c))
        BY <3>1, Actions, CoroutineAssumption DEF Pending, OnItsWay, In
      <3> QED
        BY <3>1, <3>2 DEF Proper, Due
    <2> QED
      BY <2>1, Inductive DEF ResultInv
  <1>2. ResultInv /\ [Next]_vars => ResultInv'
    BY ResultStep
  <1>3. ResultInv => ResultFirst
    BY DEF ResultInv, Proper, Due, Answered, ResultFirst
  <1> QED
    BY <1>1, <1>2, <1>3, PTL DEF Spec

(* Nothing goes before what refers to it: an awaiter before its thread, the loop of
   the context before the actions that start or resume a coroutine. *)
THEOREM Kept == Spec => []NothingDangles
PROOF
  <1>1. CoroutineInv => NothingDangles
    BY DEF CoroutineInv, NothingDangles, ContextStays, RunShape
  <1> QED
    BY <1>1, Invariant, PTL
=============================================================================
