--------------------------- MODULE ThreadPoolProofs ---------------------------
(***************************************************************************)
(* Theorems about ThreadPool, for any number of workers, clients, tasks,   *)
(* continuations and listeners.                                            *)
(***************************************************************************)
EXTENDS ThreadPool, SequenceTheorems, TLAPS

In(q, a) == \E i \in DOMAIN q : q[i] = a
Once(q) == \A i, j \in DOMAIN q : q[i] = q[j] => i = j

Runs(w, k) == Running(w) /\ got[w] = k

(* Where each task is: it was submitted, and is in one place since. *)
Places ==
  /\ Once(items)
  /\ \A w, v \in Worker : Running(w) /\ Running(v) /\ got[w] = got[v] => w = v
  /\ \A w \in Worker : Running(w) => /\ got[w] \in submitted \ done
                                     /\ ~In(items, got[w])
  /\ \A k \in Task : In(items, k) => k \in submitted \ done
  /\ \A k \in submitted : \/ In(items, k) \/ k \in done \cup dropped
                          \/ \E w \in Worker : Runs(w, k)
  /\ done \cup dropped \subseteq submitted

(* Who has a pointer to a pool that is not there yet, or on its way out: nobody. *)
Unheld ==
  /\ \A c \in Client : ~holds[c]
  /\ \A k \in PoolTask : ~In(items, k)
  /\ \A w \in Worker : Running(w) => got[w] \notin PoolTask

Life ==
  /\ phase # "alive" => Unheld
  /\ phase \in {"drain", "gone"} =>
       \A w \in Worker : pc[w] \in {"unborn", "ended"}
  /\ dropped # {} => phase = "gone"
  /\ dropped \cap (PoolTask \cup done) = {}

(* A task is over when its callback is due; it has been posted then, and only then. *)
Over(k) ==
  k \in done \/ \E w \in Worker : Runs(w, k) /\ called[w] > copy[k].thens + 1

Sent(p) == In(posted, p) \/ In(heard, p)

Settled(k) ==
  \/ copy[k].callback \in {NoOne} \cup expired
  \/ Sent([of |-> k, to |-> copy[k].callback])

Calls ==
  /\ Once(posted) /\ Once(heard)
  /\ \A p \in Post : ~(In(posted, p) /\ In(heard, p))
  /\ \A p \in Post : Sent(p) => Over(p.of) /\ copy[p.of].callback = p.to
  /\ \A k \in Task : Over(k) => Settled(k)
  /\ \A w \in Worker : ~Running(w) => called[w] = 0

PoolInv == TypeOK /\ Places /\ Life /\ Calls
------------------------------------------------------------------------------
(* Sequences. *)

(* Appending adds one element, and no second copy of what was not there. *)
LEMMA AppendIn ==
  ASSUME NEW S, NEW q \in Seq(S), NEW a \in S
  PROVE  /\ \A b : In(Append(q, a), b) <=> In(q, b) \/ b = a
         /\ Once(q) /\ ~In(q, a) => Once(Append(q, a))
PROOF
  <1> DEFINE r == Append(q, a)
  <1>1. /\ Len(r) = Len(q) + 1
        /\ DOMAIN r = 1..Len(r) /\ DOMAIN q = 1..Len(q) /\ Len(q) \in Nat
        /\ \A i \in 1..Len(q) : r[i] = q[i]
        /\ r[Len(q) + 1] = a
    BY AppendProperties, LenProperties
  <1> HIDE DEF r
  <1>2. \A b : In(r, b) <=> In(q, b) \/ b = a
    BY <1>1 DEF In
  <1>3. Once(q) /\ ~In(q, a) => Once(r)
    BY <1>1 DEF In, Once
  <1> QED
    BY <1>2, <1>3 DEF r

(* Taking the first leaves the others, and no copy of it. *)
LEMMA TailIn ==
  ASSUME NEW S, NEW q \in Seq(S), q # <<>>
  PROVE  /\ Head(q) \in S /\ Tail(q) \in Seq(S)
         /\ \A b : In(q, b) <=> b = Head(q) \/ In(Tail(q), b)
         /\ Once(q) => Once(Tail(q)) /\ ~In(Tail(q), Head(q))
PROOF
  <1> DEFINE r == Tail(q)
  <1>1. /\ r \in Seq(S) /\ Head(q) \in S /\ Head(q) = q[1]
        /\ Len(r) = Len(q) - 1 /\ Len(q) \in Nat \ {0}
        /\ DOMAIN r = 1..Len(r) /\ DOMAIN q = 1..Len(q)
        /\ \A i \in 1..Len(r) : r[i] = q[i + 1]
    BY HeadTailProperties, LenProperties, EmptySeq
  <1> HIDE DEF r
  <1>2. \A b : In(q, b) <=> b = Head(q) \/ In(r, b)
    <2>1. ASSUME NEW b, In(r, b)
          PROVE  In(q, b)
      BY <1>1, <2>1 DEF In
    <2>2. ASSUME NEW b, NEW i \in DOMAIN q, q[i] = b
          PROVE  b = Head(q) \/ In(r, b)
      <3>1. CASE i = 1
        BY <1>1, <2>2, <3>1
      <3>2. CASE i # 1
        <4>1. i - 1 \in DOMAIN r /\ r[i - 1] = b
          BY <1>1, <2>2, <3>2
        <4> QED
          BY <4>1 DEF In
      <3> QED
        BY <3>1, <3>2
    <2>3. In(q, Head(q))
      BY <1>1 DEF In
    <2> QED
      BY <2>1, <2>2, <2>3 DEF In
  <1>3. ASSUME Once(q)
        PROVE  Once(r) /\ ~In(r, Head(q))
    <2>1. ASSUME NEW i \in DOMAIN r, NEW j \in DOMAIN r, r[i] = r[j]
          PROVE  i = j
      <3>1. i + 1 \in DOMAIN q /\ j + 1 \in DOMAIN q /\ q[i + 1] = q[j + 1]
        BY <1>1, <2>1
      <3> QED
        BY <1>1, <1>3, <3>1 DEF Once
    <2>2. ASSUME NEW i \in DOMAIN r, r[i] = Head(q)
          PROVE  FALSE
      <3>1. i + 1 \in DOMAIN q /\ 1 \in DOMAIN q /\ q[i + 1] = q[1] /\ i + 1 # 1
        BY <1>1, <2>2
      <3> QED
        BY <1>3, <3>1 DEF Once
    <2> QED
      BY <2>1, <2>2 DEF Once, In
  <1> QED
    BY <1>1, <1>2, <1>3 DEF r

(* One sequence after the other holds what either holds. *)
LEMMA ConcatIn ==
  ASSUME NEW S, NEW q \in Seq(S), NEW r \in Seq(S)
  PROVE  /\ q \o r \in Seq(S)
         /\ \A a : In(q \o r, a) <=> In(q, a) \/ In(r, a)
         /\ Once(q) /\ Once(r) /\ (\A a \in S : ~(In(q, a) /\ In(r, a)))
              => Once(q \o r)
PROOF
  <1> DEFINE n == Len(q)
             m == Len(r)
             all == q \o r
  <1>1. /\ n \in Nat /\ m \in Nat /\ DOMAIN q = 1..n /\ DOMAIN r = 1..m
        /\ all \in Seq(S) /\ DOMAIN all = 1..(n + m)
        /\ \A i \in 1..n : all[i] = q[i]
        /\ \A i \in 1..(n + m) : i > n => i - n \in 1..m /\ all[i] = r[i - n]
    BY ConcatProperties, LenProperties
  <1>2. (\A i \in 1..n : q[i] \in S) /\ (\A i \in 1..m : r[i] \in S)
    BY ElementOfSeq, LenProperties
  <1> HIDE DEF n, m, all
  <1>3. \A i \in 1..m : n + i \in 1..(n + m) /\ all[n + i] = r[i]
    BY <1>1
  <1>4. \A a : In(all, a) <=> In(q, a) \/ In(r, a)
    <2>1. ASSUME NEW a, NEW i \in DOMAIN all, all[i] = a
          PROVE  In(q, a) \/ In(r, a)
      <3>1. CASE i \in 1..n
        <4>1. i \in DOMAIN q /\ q[i] = a
          BY <1>1, <2>1, <3>1
        <4> QED
          BY <4>1 DEF In
      <3>2. CASE i \notin 1..n
        <4>1. i \in 1..(n + m) /\ i > n
          BY <1>1, <3>2
        <4>2. i - n \in DOMAIN r /\ r[i - n] = a
          BY <1>1, <2>1, <4>1
        <4> QED
          BY <4>2 DEF In
      <3> QED
        BY <3>1, <3>2
    <2>2. ASSUME NEW a, In(q, a)
          PROVE  In(all, a)
      BY <1>1, <2>2 DEF In
    <2>3. ASSUME NEW a, In(r, a)
          PROVE  In(all, a)
      BY <1>1, <1>3, <2>3 DEF In
    <2> QED
      BY <2>1, <2>2, <2>3 DEF In
  <1>5. ASSUME Once(q), Once(r), \A a \in S : ~(In(q, a) /\ In(r, a)),
               NEW i \in DOMAIN all, NEW j \in DOMAIN all, all[i] = all[j]
        PROVE  i = j
    <2>1. CASE i <= n /\ j <= n
      BY <1>1, <1>5, <2>1 DEF Once
    <2>2. CASE i > n /\ j > n
      <3>1. i - n \in DOMAIN r /\ j - n \in DOMAIN r /\ r[i - n] = r[j - n]
        BY <1>1, <1>5, <2>2
      <3>2. i - n = j - n
        BY <1>5, <3>1 DEF Once
      <3> QED
        BY <1>1, <3>2
    <2>3. ASSUME NEW k \in DOMAIN all, NEW l \in DOMAIN all, k <= n, l > n, all[k] = all[l]
          PROVE  FALSE
      <3>1. k \in DOMAIN q /\ l - n \in DOMAIN r /\ q[k] = r[l - n] /\ q[k] \in S
        BY <1>1, <1>2, <2>3
      <3> QED
        BY <1>5, <3>1 DEF In
    <2> QED
      BY <1>1, <1>5, <2>1, <2>2, <2>3
  <1>6. /\ all \in Seq(S)
        /\ \A a : In(all, a) <=> In(q, a) \/ In(r, a)
        /\ Once(q) /\ Once(r) /\ (\A a \in S : ~(In(q, a) /\ In(r, a))) => Once(all)
    BY <1>1, <1>4, <1>5 DEF Once
  <1> QED
    BY <1>6 DEF all

------------------------------------------------------------------------------
(* Types. *)

(* A pool under construction. *)
LEMMA InitTypes == Init => TypeOK
PROOF
  <1> SUFFICES ASSUME Init
               PROVE  TypeOK
    OBVIOUS
  <1> USE TaskAssumption DEF Init
  <1>1. Queue!TypeOK
    BY EmptySeq DEF Queue!Init, Queue!TypeOK
  <1>2. pc \in [Worker -> PC] /\ phase \in Phase
    BY DEF PC, Phase
  <1>3. posted \in Seq(Post) /\ heard \in Seq(Post)
    BY EmptySeq
  <1>4. original \in [Task -> Chain] /\ copy \in [Task -> Chain]
    BY DEF Chain
  <1> QED
    BY <1>1, <1>2, <1>3, <1>4 DEF TypeOK

(* The queue keeps its types, whoever uses it. *)
LEMMA QueueType ==
  ASSUME Queue!TypeOK,
         \/ UNCHANGED queueVars
         \/ Queue!Interrupt
         \/ \E k \in Task : Queue!Put(k)
         \/ \E w \in Worker : Queue!Ask(w) \/ Queue!Serve(w) \/ Queue!GiveUp(w)
  PROVE  Queue!TypeOK'
PROOF
  <1> USE DEF Queue!TypeOK
  <1>1. CASE UNCHANGED queueVars \/ Queue!Interrupt
    BY <1>1 DEF queueVars, Queue!Interrupt
  <1>2. ASSUME NEW k \in Task, Queue!Put(k)
        PROVE  Queue!TypeOK'
    <2>1. items' \in Seq(Task)
      BY <1>2, AppendProperties DEF Queue!Put
    <2> QED
      BY <1>2, <2>1 DEF Queue!Put
  <1>3. ASSUME NEW w \in Worker, Queue!Ask(w) \/ Queue!GiveUp(w)
        PROVE  Queue!TypeOK'
    BY <1>3 DEF Queue!Ask, Queue!GiveUp
  <1>4. ASSUME NEW w \in Worker, Queue!Serve(w)
        PROVE  Queue!TypeOK'
    <2>1. Head(items) \in Task /\ items' \in Seq(Task)
      BY <1>4, HeadTailProperties DEF Queue!Serve, Queue!TakeHead
    <2> QED
      BY <1>4, <2>1 DEF Queue!Serve, Queue!TakeHead
  <1> QED
    BY <1>1, <1>2, <1>3, <1>4

(* What the task of a running worker was pushed with. *)
LEMMA RunType ==
  ASSUME TypeOK, Places, NEW w \in Worker, Running(w)
  PROVE  /\ got[w] \in Task /\ copy[got[w]] \in Chain
         /\ copy[got[w]].thens \in 0..MaxThens
         /\ copy[got[w]].callback \in Listener \cup {NoOne}
         /\ called[w] \in 0..(MaxThens + 2)
PROOF
  <1>1. got[w] \in Task
    BY DEF TypeOK, Places
  <1>2. copy[got[w]] \in Chain
    BY <1>1 DEF TypeOK
  <1> QED
    BY <1>1, <1>2 DEF Chain, TypeOK

(* Each step keeps the types. *)
LEMMA TypeStep ==
  ASSUME TypeOK, Places, [Next]_vars
  PROVE  TypeOK'
PROOF
  <1> USE TaskAssumption DEF queueVars, chainVars, history, PC, Phase, Goto
  <1>t. /\ Queue!TypeOK
        /\ pc \in [Worker -> PC]
        /\ phase \in Phase
        /\ agent \in Worker \cup Client \cup {NoOne}
        /\ holds \in [Client -> BOOLEAN]
        /\ original \in [Task -> Chain]
        /\ copy \in [Task -> Chain]
        /\ called \in [Worker -> 0..MaxThens + 2]
        /\ posted \in Seq(Post)
        /\ heard \in Seq(Post)
        /\ expired \subseteq Weak
        /\ submitted \subseteq Task
        /\ done \subseteq Task
        /\ dropped \subseteq Task
    BY DEF TypeOK
  <1>1. ASSUME NEW w \in Worker, StartWorker(w)
        PROVE  TypeOK'
    BY <1>1, <1>t, QueueType DEF StartWorker, TypeOK
  <1>2. CASE Constructed \/ ConstructFailed
    BY <1>2, <1>t, QueueType DEF Constructed, ConstructFailed, TypeOK
  <1>3. ASSUME NEW u \in Worker \cup Client, NEW k \in Task, Push(u, k)
        PROVE  TypeOK'
    <2>1. Queue!TypeOK'
      BY <1>3, <1>t, QueueType DEF Push
    <2>2. copy' \in [Task -> Chain] /\ submitted' \subseteq Task
      BY <1>3, <1>t DEF Push
    <2> QED
      BY <1>3, <1>t, <2>1, <2>2 DEF Push, TypeOK
  <1>4. ASSUME NEW k \in Task, Then(k) \/ \E l \in Listener : Callback(k, l)
        PROVE  TypeOK'
    <2>1. \E chain \in Chain : Add(k, chain)
      <3>1. CASE Then(k)
        <4>1. /\ original[k] \in Chain /\ original[k].thens + 1 \in 0..MaxThens
              /\ original[k].callback \in Listener \cup {NoOne}
          BY <3>1, <1>t DEF Then, Chain
        <4>2. [original[k] EXCEPT !.thens = @ + 1] \in Chain
          BY <4>1 DEF Chain
        <4> QED
          BY <3>1, <4>2, Zenon DEF Then
      <3>2. ASSUME NEW l \in Listener, Callback(k, l)
            PROVE  \E chain \in Chain : Add(k, chain)
        <4>1. original[k] \in Chain
          BY <1>t
        <4>2. [original[k] EXCEPT !.callback = l] \in Chain
          BY <4>1 DEF Chain
        <4> QED
          BY <3>2, <4>2, Zenon DEF Callback
      <3> QED
        BY <1>4, <3>1, <3>2
    <2>2. PICK chain \in Chain : Add(k, chain)
      BY <2>1
    <2> QED
      BY <1>t, <2>2, QueueType DEF Add, TypeOK
  <1>5. ASSUME NEW c \in Client, NEW d \in Client, Share(c, d)
        PROVE  TypeOK'
    BY <1>5, <1>t, QueueType DEF Share, TypeOK
  <1>6. ASSUME NEW c \in Client, Release(c)
        PROVE  TypeOK'
    <2>1. phase' \in Phase /\ agent' \in Worker \cup Client \cup {NoOne}
      BY <1>6, <1>t DEF Release, DropPointer
    <2> QED
      BY <1>6, <1>t, <2>1, QueueType DEF Release, TypeOK
  <1>7. ASSUME NEW w \in Worker, WorkerTest(w)
        PROVE  TypeOK'
    BY <1>7, <1>t, QueueType DEF WorkerTest, TypeOK
  <1>8. ASSUME NEW w \in Worker, WorkerWaitPop(w)
        PROVE  TypeOK'
    <2>1. Queue!TypeOK'
      BY <1>8, <1>t, QueueType DEF WorkerWaitPop
    <2> QED
      BY <1>8, <1>t, <2>1 DEF WorkerWaitPop, TypeOK
  <1>9. ASSUME NEW w \in Worker, WorkerPopped(w)
        PROVE  TypeOK'
    <2>1. Queue!TypeOK'
      BY <1>9, <1>t, QueueType DEF WorkerPopped
    <2>2. pc' \in [Worker -> PC]
      BY <1>9, <1>t DEF WorkerPopped
    <2> QED
      BY <1>9, <1>t, <2>1, <2>2 DEF WorkerPopped, TypeOK
  <1>10. ASSUME NEW w \in Worker, TaskCall(w)
         PROVE  TypeOK'
    <2>1. called' \in [Worker -> 0..MaxThens + 2]
      <3>1. called[w] + 1 \in 0..(MaxThens + 2)
        BY <1>10, RunType DEF TaskCall
      <3> QED
        BY <1>10, <1>t, <3>1 DEF TaskCall
    <2> QED
      BY <1>10, <1>t, <2>1, QueueType DEF TaskCall, TypeOK
  <1>11. ASSUME NEW w \in Worker, TaskCallback(w)
         PROVE  TypeOK'
    <2>1. called' \in [Worker -> 0..MaxThens + 2]
      <3>1. called[w] + 1 \in 0..(MaxThens + 2)
        BY <1>11, RunType DEF TaskCallback
      <3> QED
        BY <1>11, <1>t, <3>1 DEF TaskCallback
    <2>2. posted' \in Seq(Post)
      <3> DEFINE l == copy[got[w]].callback
                 p == [of |-> got[w], to |-> l]
      <3>1. posted' = posted \/ (l # NoOne /\ posted' = Append(posted, p))
        BY <1>11 DEF TaskCallback
      <3>2. l # NoOne => p \in Post
        BY <1>11, RunType DEF TaskCallback, Post
      <3> HIDE DEF p, l
      <3>3. CASE l # NoOne /\ posted' = Append(posted, p)
        <4>1. p \in Post
          BY <3>2, <3>3
        <4> QED
          BY <1>t, <3>3, <4>1, AppendProperties
      <3> QED
        BY <1>t, <3>1, <3>3
    <2> QED
      BY <1>11, <1>t, <2>1, <2>2, QueueType DEF TaskCallback, TypeOK
  <1>12. ASSUME NEW w \in Worker, TaskReturn(w)
         PROVE  TypeOK'
    <2>1. phase' \in Phase /\ agent' \in Worker \cup Client \cup {NoOne}
      BY <1>12, <1>t DEF TaskReturn, DropPointer
    <2>2. pc' \in [Worker -> PC]
      BY <1>12, <1>t DEF TaskReturn
    <2>3. called' \in [Worker -> 0..MaxThens + 2] /\ done' \subseteq Task
      BY <1>12, <1>t, RunType DEF TaskReturn
    <2> QED
      BY <1>12, <1>t, <2>1, <2>2, <2>3, QueueType DEF TaskReturn, TypeOK
  <1>13. CASE Hear
    <2>1. posted' \in Seq(Post) /\ heard' \in Seq(Post)
      BY <1>13, <1>t, HeadTailProperties, AppendProperties DEF Hear
    <2> QED
      BY <1>13, <1>t, <2>1, QueueType DEF Hear, TypeOK
  <1>14. ASSUME NEW l \in Listener, DropListener(l)
         PROVE  TypeOK'
    BY <1>14, <1>t, QueueType DEF DropListener, TypeOK
  <1>15. CASE StopInterrupt
    <2>1. Queue!TypeOK'
      BY <1>15, <1>t, QueueType DEF StopInterrupt
    <2> QED
      BY <1>15, <1>t, <2>1 DEF StopInterrupt, TypeOK
  <1>16. CASE StopJoin \/ StopSelfJoin
    BY <1>16, <1>t, QueueType DEF StopJoin, StopSelfJoin, TypeOK
  <1>17. CASE DestroyQueue
    <2>1. Queue!TypeOK'
      BY <1>17, <1>t, EmptySeq DEF DestroyQueue, Queue!TypeOK
    <2>2. dropped' \subseteq Task
      BY <1>17, <1>t, ElementOfSeq DEF DestroyQueue, Queued, Queue!TypeOK
    <2> QED
      BY <1>17, <1>t, <2>1, <2>2 DEF DestroyQueue, TypeOK
  <1>18. CASE UNCHANGED vars
    BY <1>18, <1>t, QueueType DEF vars, TypeOK
  <1> QED
    BY <1>1, <1>2, <1>3, <1>4, <1>5, <1>6, <1>7, <1>8, <1>9, <1>10, <1>11, <1>12,
       <1>13, <1>14, <1>15, <1>16, <1>17, <1>18, Zenon
       DEF Next, ConstructStep, WorkerStep, TaskStep, AgentStep

------------------------------------------------------------------------------
(* The tasks and their places. *)

(* A step that leaves the queue and the running tasks alone. *)
SameRuns ==
  \A w \in Worker : /\ Running(w)' <=> Running(w)
                    /\ Running(w) => got'[w] = got[w]

SamePlaces == UNCHANGED <<items, history>> /\ SameRuns

(* Most steps are of that kind. *)
LEMMA PlacesQuiet ==
  ASSUME TypeOK, [Next]_vars
  PROVE  \/ SamePlaces
         \/ \E u \in Worker \cup Client, k \in Task : Push(u, k)
         \/ \E w \in Worker : \/ WorkerPopped(w) /\ Queue!Serve(w)
                              \/ TaskReturn(w)
         \/ DestroyQueue
PROOF
  <1> USE DEF SamePlaces, SameRuns, Running, Goto, queueVars, history, TypeOK
  <1>1. ASSUME NEW w \in Worker, StartWorker(w) \/ WorkerTest(w)
        PROVE  SamePlaces
    BY <1>1 DEF StartWorker, WorkerTest
  <1>2. CASE Constructed \/ ConstructFailed
    BY <1>2 DEF Constructed, ConstructFailed
  <1>3. ASSUME NEW k \in Task, Then(k) \/ \E l \in Listener : Callback(k, l)
        PROVE  SamePlaces
    BY <1>3 DEF Then, Callback, Add
  <1>4. ASSUME NEW c \in Client, Release(c) \/ \E d \in Client : Share(c, d)
        PROVE  SamePlaces
    BY <1>4 DEF Release, Share
  <1>5. ASSUME NEW w \in Worker, WorkerWaitPop(w)
        PROVE  SamePlaces
    BY <1>5 DEF WorkerWaitPop, Queue!Ask
  <1>6. ASSUME NEW w \in Worker, WorkerPopped(w), ~Queue!Serve(w)
        PROVE  SamePlaces
    BY <1>6 DEF WorkerPopped, Queue!GiveUp, Queue!TypeOK
  <1>7. ASSUME NEW w \in Worker, TaskCall(w) \/ TaskCallback(w)
        PROVE  SamePlaces
    BY <1>7 DEF TaskCall, TaskCallback
  <1>8. CASE Hear \/ \E l \in Listener : DropListener(l)
    BY <1>8 DEF Hear, DropListener
  <1>9. CASE StopInterrupt \/ StopJoin \/ StopSelfJoin
    BY <1>9 DEF StopInterrupt, StopJoin, StopSelfJoin, Queue!Interrupt
  <1>10. CASE UNCHANGED vars
    BY <1>10 DEF vars
  <1> HIDE DEF SamePlaces
  <1> QED
    BY <1>1, <1>2, <1>3, <1>4, <1>5, <1>6, <1>7, <1>8, <1>9, <1>10, Zenon
       DEF Next, ConstructStep, WorkerStep, TaskStep, AgentStep

(* A task is in one place after each step. *)
LEMMA PlacesStep ==
  ASSUME TypeOK, Places, Life, [Next]_vars
  PROVE  Places'
PROOF
  <1>q. items \in Seq(Task) /\ got \in [Worker -> Task \cup {NoTask}]
        /\ pc \in [Worker -> PC]
    BY DEF TypeOK, Queue!TypeOK
  <1>1. CASE SamePlaces
    BY <1>1 DEF Places, SamePlaces, SameRuns, Runs, In, Once, history
  <1>2. ASSUME NEW u \in Worker \cup Client, NEW k \in Task, Push(u, k)
        PROVE  Places'
    <2>1. /\ items' = Append(items, k) /\ k \notin submitted
          /\ submitted' = submitted \cup {k}
          /\ UNCHANGED <<got, pc, done, dropped>>
      BY <1>2 DEF Push, Queue!Put
    <2>2. ~In(items, k)
      BY <2>1 DEF Places
    <2>3. /\ \A b : In(items', b) <=> In(items, b) \/ b = k
          /\ Once(items')
      BY <1>q, <2>1, <2>2, AppendIn DEF Places
    <2>4. \A w \in Worker : (Running(w)' <=> Running(w)) /\ got'[w] = got[w]
      BY <2>1 DEF Running
    <2> QED
      BY <2>1, <2>3, <2>4 DEF Places, Runs
  <1>3. ASSUME NEW w \in Worker, WorkerPopped(w), Queue!Serve(w)
        PROVE  Places'
    <2> DEFINE k == Head(items)
    <2>1. /\ items # <<>> /\ items' = Tail(items) /\ got' = [got EXCEPT ![w] = k]
          /\ ~Running(w) /\ UNCHANGED history
      BY <1>3 DEF WorkerPopped, Queue!Serve, Queue!TakeHead, Running
    <2>2. pc' = [pc EXCEPT ![w] = "run"] \/ pc' = [pc EXCEPT ![w] = "test"]
      BY <1>3 DEF WorkerPopped, Goto
    <2>3. pc' = [pc EXCEPT ![w] = "run"]
      BY <1>3, <2>2 DEF WorkerPopped, Goto, Queue!Serve, Queue!GiveUp
    <2>4. /\ k \in Task /\ \A b : In(items, b) <=> b = k \/ In(items', b)
          /\ Once(items') /\ ~In(items', k)
      BY <1>q, <2>1, TailIn DEF Places
    <2>5. k \in submitted \ done /\ \A v \in Worker : Running(v) => got[v] # k
      BY <2>4 DEF Places
    <2>6. /\ Running(w)' /\ got'[w] = k
          /\ \A v \in Worker \ {w} : (Running(v)' <=> Running(v)) /\ got'[v] = got[v]
      BY <1>q, <2>1, <2>3 DEF Running
    <2> HIDE DEF k
    <2> QED
      BY <2>1, <2>4, <2>5, <2>6 DEF Places, Runs, history
  <1>4. ASSUME NEW w \in Worker, TaskReturn(w)
        PROVE  Places'
    <2>1. /\ Running(w) /\ UNCHANGED <<items, got, submitted, dropped>>
          /\ done' = done \cup {got[w]}
      BY <1>4 DEF TaskReturn, queueVars
    <2>2. pc' = [pc EXCEPT ![w] = "test"] \/ pc' = [pc EXCEPT ![w] = "destroy"]
      BY <1>4 DEF TaskReturn, Goto
    <2>3. ~Running(w)' /\ \A v \in Worker \ {w} : Running(v)' <=> Running(v)
      BY <1>q, <2>2 DEF Running
    <2> QED
      BY <2>1, <2>3 DEF Places, Runs
  <1>5. CASE DestroyQueue
    <2>1. /\ items' = <<>> /\ dropped' = dropped \cup Queued
          /\ UNCHANGED <<got, pc, submitted, done>>
      BY <1>5 DEF DestroyQueue
    <2>2. \A k : In(items, k) <=> k \in Queued
      BY <1>q, LenProperties DEF In, Queued
    <2>3. Once(items') /\ \A k : ~In(items', k)
      BY <2>1 DEF Once, In
    <2>4. \A w \in Worker : (Running(w)' <=> Running(w)) /\ got'[w] = got[w]
      BY <2>1 DEF Running
    <2>5. \A k \in Queued : k \in Task
      BY <1>q, ElementOfSeq DEF Queued
    <2> QED
      BY <2>1, <2>2, <2>3, <2>4, <2>5 DEF Places, Runs
  <1> QED
    BY <1>1, <1>2, <1>3, <1>4, <1>5, PlacesQuiet, Zenon

(* The pool is there while somebody holds it, and its workers end before it does. *)
LEMMA LifeStep ==
  ASSUME TypeOK, Places, Life, [Next]_vars
  PROVE  Life'
PROOF
  <1>q. items \in Seq(Task) /\ got \in [Worker -> Task \cup {NoTask}]
        /\ pc \in [Worker -> PC] /\ holds \in [Client -> BOOLEAN]
    BY DEF TypeOK, Queue!TypeOK
  <1>r. \A k : In(items, k) <=> k \in Queued
    BY <1>q, LenProperties DEF In, Queued
  <1>s. SamePlaces => /\ UNCHANGED <<dropped, done>>
                      /\ \A k : In(items', k) <=> In(items, k)
                      /\ \A w \in Worker : Running(w)' => Running(w) /\ got'[w] = got[w]
    BY Zenon DEF SamePlaces, SameRuns, In, history
  <1>1. CASE SamePlaces /\ UNCHANGED <<phase, holds, pc>>
    <2>1. Unheld => Unheld'
      BY <1>1, <1>s DEF Unheld
    <2> QED
      BY <1>1, <1>s, <2>1 DEF Life
  <1>2. ASSUME NEW w \in Worker, SamePlaces, UNCHANGED <<phase, holds>>,
               pc[w] \notin {"unborn", "ended"} \/ phase = "construct"
        PROVE  Life'
    <2>1. Unheld => Unheld'
      BY <1>2, <1>s DEF Unheld
    <2>2. phase \notin {"drain", "gone"}
      BY <1>2 DEF Life
    <2> QED
      BY <1>2, <1>s, <2>1, <2>2 DEF Life
  <1>3. CASE Constructed \/ ConstructFailed
    <2>1. phase = "construct" /\ UNCHANGED <<queueVars, pc, history>>
      BY <1>3 DEF Constructed, ConstructFailed
    <2>2. dropped' = {}
      BY <2>1 DEF Life, history
    <2>3. CASE phase' = "alive"
      BY <2>2, <2>3 DEF Life
    <2>4. CASE phase' = "interrupt" /\ UNCHANGED holds
      <3>1. Unheld'
        BY <2>1, <2>4 DEF Life, Unheld, Running, In, queueVars
      <3> QED
        BY <2>2, <2>4, <3>1 DEF Life
    <2> QED
      BY <1>3, <2>3, <2>4 DEF Constructed, ConstructFailed
  <1>4. ASSUME NEW u \in Worker \cup Client, CanReach(u)
        PROVE  phase = "alive" /\ dropped = {}
    BY <1>4 DEF CanReach, Life, Unheld
  <1>5. ASSUME NEW u \in Worker \cup Client, NEW k \in Task, Push(u, k)
        PROVE  Life'
    BY <1>4, <1>5 DEF Push, Life
  <1>6. ASSUME NEW c \in Client, NEW d \in Client, Share(c, d)
        PROVE  Life'
    <2>1. CanReach(c)
      BY <1>6 DEF Share, CanReach
    <2> QED
      BY <1>4, <1>6, <2>1 DEF Share, Life, history
  <1>7. ASSUME NEW c \in Client, Release(c)
        PROVE  Life'
    <2>1. CanReach(c) /\ UNCHANGED <<queueVars, pc, history>>
      BY <1>7 DEF Release, CanReach
    <2>2. phase = "alive" /\ dropped' = {}
      BY <1>4, <2>1 DEF history
    <2>3. CASE HeldByOther(c)
      BY <1>7, <2>2, <2>3 DEF Release, DropPointer, Life
    <2>4. CASE ~HeldByOther(c)
      <3>1. phase' = "interrupt" /\ holds' = [holds EXCEPT ![c] = FALSE]
        BY <1>7, <2>4 DEF Release, DropPointer
      <3>2. \A d \in Client : ~holds'[d]
        BY <1>q, <2>4, <3>1 DEF HeldByOther
      <3>3. \A k \in PoolTask : ~In(items', k)
        <4>1. UNCHANGED items
          BY <2>1 DEF queueVars
        <4> QED
          BY <1>r, <2>4, <4>1 DEF HeldByOther, In
      <3>4. \A w \in Worker : Running(w)' => got'[w] \notin PoolTask
        <4>1. c \notin Worker
          BY ThreadAssumption
        <4> QED
          BY <2>1, <2>4, <4>1 DEF HeldByOther, Running, queueVars
      <3> QED
        BY <2>2, <3>1, <3>2, <3>3, <3>4 DEF Life, Unheld
    <2> QED
      BY <2>3, <2>4
  <1>8. ASSUME NEW w \in Worker, WorkerPopped(w), Queue!Serve(w)
        PROVE  Life'
    <2>1. /\ items # <<>> /\ items' = Tail(items) /\ got' = [got EXCEPT ![w] = Head(items)]
          /\ pc[w] = "pop" /\ UNCHANGED <<phase, holds, history>>
      BY <1>8 DEF WorkerPopped, Queue!Serve, Queue!TakeHead
    <2>2. phase \notin {"drain", "gone"} /\ dropped' = {}
      BY <2>1 DEF Life, history
    <2>3. \A b : In(items', b) \/ b = Head(items) <=> In(items, b)
      BY <1>q, <2>1, TailIn
    <2>4. \A v \in Worker : v # w => (Running(v)' <=> Running(v)) /\ got'[v] = got[v]
      BY <1>8, <1>q, <2>1 DEF WorkerPopped, Running, Goto
    <2>5. got'[w] = Head(items)
      BY <1>q, <2>1
    <2>6. Unheld => Unheld'
      BY <2>1, <2>3, <2>4, <2>5 DEF Unheld
    <2> QED
      BY <2>1, <2>2, <2>6 DEF Life
  <1>9. ASSUME NEW w \in Worker, TaskReturn(w)
        PROVE  Life'
    <2>1. /\ Running(w) /\ UNCHANGED <<queueVars, holds, dropped>>
          /\ pc' = [pc EXCEPT ![w] = "test"] \/ pc' = [pc EXCEPT ![w] = "destroy"]
      BY <1>9 DEF TaskReturn, Goto
    <2>2. phase \notin {"drain", "gone"} /\ dropped' = {}
      BY <2>1 DEF Life, Running
    <2>3. /\ ~Running(w)'
          /\ \A v \in Worker : v # w => (Running(v)' <=> Running(v))
      BY <1>q, <2>1 DEF Running
    <2>4. CASE UNCHANGED phase
      <3>1. Unheld => Unheld'
        BY <2>1, <2>3 DEF Unheld, In, queueVars
      <3> QED
        BY <2>2, <2>4, <3>1 DEF Life
    <2>5. CASE phase' = "interrupt" /\ ~HeldByOther(w)
      <3>1. \A c \in Client : ~holds'[c]
        <4>1. w \notin Client
          BY ThreadAssumption
        <4> QED
          BY <2>1, <2>5, <4>1 DEF HeldByOther
      <3>2. \A k \in PoolTask : ~In(items', k)
        BY <1>r, <2>1, <2>5 DEF HeldByOther, In, queueVars
      <3>3. \A v \in Worker : Running(v)' => got'[v] \notin PoolTask
        BY <2>1, <2>3, <2>5 DEF HeldByOther, queueVars
      <3> QED
        BY <2>2, <2>5, <3>1, <3>2, <3>3 DEF Life, Unheld
    <2> QED
      BY <1>9, <2>4, <2>5 DEF TaskReturn, DropPointer
  <1>10. CASE StopInterrupt \/ StopJoin \/ StopSelfJoin
    <2>1. /\ phase \in {"interrupt", "join"} /\ UNCHANGED <<items, got, pc, holds, history>>
          /\ \/ phase' \in {"join", "terminated"}
             \/ phase' = "drain" /\ \A w \in Worker : pc[w] \in {"unborn", "ended"}
      BY <1>10 DEF StopInterrupt, StopJoin, StopSelfJoin, Queue!Interrupt, queueVars
    <2>2. Unheld'
      BY <2>1 DEF Life, Unheld, In, Running
    <2>3. dropped' = {}
      BY <2>1 DEF Life, history
    <2> QED
      BY <2>1, <2>2, <2>3 DEF Life
  <1>11. CASE DestroyQueue
    <2>1. /\ phase = "drain" /\ phase' = "gone" /\ items' = <<>>
          /\ dropped' = dropped \cup Queued /\ UNCHANGED <<got, pc, holds, done>>
      BY <1>11 DEF DestroyQueue
    <2>2. dropped = {} /\ Unheld
      BY <2>1 DEF Life
    <2>3. Unheld'
      BY <2>1, <2>2 DEF Unheld, In, Running
    <2>4. Queued \cap (PoolTask \cup done) = {}
      BY <1>q, <1>r, <2>2, ElementOfSeq DEF Unheld, Places, Queued
    <2> QED
      BY <2>1, <2>2, <2>3, <2>4 DEF Life
  <1>12. ASSUME SamePlaces,
                \/ \E w \in Worker : \/ StartWorker(w) \/ WorkerStep(w)
                                     \/ TaskCall(w) \/ TaskCallback(w)
                \/ \E k \in Task : Then(k) \/ \E l \in Listener : Callback(k, l)
                \/ Hear \/ \E l \in Listener : DropListener(l)
                \/ UNCHANGED vars
         PROVE  Life'
    <2>1. ASSUME NEW w \in Worker, StartWorker(w) \/ WorkerStep(w)
          PROVE  Life'
      BY <1>2, <1>12, <2>1
         DEF StartWorker, WorkerStep, WorkerTest, WorkerWaitPop, WorkerPopped
    <2>2. ASSUME NEW w \in Worker, TaskCall(w) \/ TaskCallback(w)
          PROVE  Life'
      BY <1>1, <1>12, <2>2 DEF TaskCall, TaskCallback
    <2>3. ASSUME NEW k \in Task, Then(k) \/ \E l \in Listener : Callback(k, l)
          PROVE  Life'
      BY <1>1, <1>12, <2>3 DEF Then, Callback, Add
    <2>4. CASE Hear \/ \E l \in Listener : DropListener(l)
      BY <1>1, <1>12, <2>4 DEF Hear, DropListener
    <2>5. CASE UNCHANGED vars
      BY <1>1, <1>12, <2>5 DEF vars
    <2> QED
      BY <1>12, <2>1, <2>2, <2>3, <2>4, <2>5
  <1> HIDE DEF SamePlaces
  <1> QED
    BY <1>3, <1>5, <1>6, <1>7, <1>8, <1>9, <1>10, <1>11, <1>12, PlacesQuiet, Zenon
       DEF Next, ConstructStep, WorkerStep, TaskStep, AgentStep

------------------------------------------------------------------------------
(* The callbacks. *)

(* A step that makes no task over and posts nothing leaves the callbacks alone. *)
LEMMA CallsKept ==
  ASSUME Calls, UNCHANGED <<posted, heard>>, expired \subseteq expired',
         \A k \in Task : Over(k)' <=> Over(k),
         \A k \in Task : Over(k) => copy'[k] = copy[k],
         \A w \in Worker : ~Running(w)' => called'[w] = 0
  PROVE  Calls'
PROOF
  <1>1. \A p \in Post : p.of \in Task
    BY DEF Post
  <1>2. \A p : Sent(p)' <=> Sent(p)
    BY DEF Sent, In
  <1>3. Once(posted') /\ Once(heard') /\ \A p \in Post : ~(In(posted', p) /\ In(heard', p))
    BY DEF Calls
  <1>4. \A p \in Post : Sent(p)' => Over(p.of)' /\ copy'[p.of].callback = p.to
    BY <1>1, <1>2 DEF Calls
  <1>5. ASSUME NEW k \in Task, Over(k)'
        PROVE  Settled(k)'
    <2>1. Settled(k) /\ copy'[k] = copy[k]
      BY <1>5 DEF Calls
    <2> QED
      BY <2>1 DEF Settled, Sent, In
  <1> QED
    BY <1>3, <1>4, <1>5 DEF Calls

(* A task that is over was submitted, and is not queued. *)
LEMMA OverSubmitted ==
  ASSUME Places, NEW k \in Task, Over(k)
  PROVE  k \in submitted /\ ~In(items, k)
PROOF
  BY DEF Over, Places, Runs

(* Callbacks are posted once, and when they are due. *)
LEMMA CallsStep ==
  ASSUME TypeOK, Places, Calls, [Next]_vars
  PROVE  Calls'
PROOF
  <1>q. /\ items \in Seq(Task) /\ got \in [Worker -> Task \cup {NoTask}]
        /\ pc \in [Worker -> PC] /\ called \in [Worker -> 0..(MaxThens + 2)]
        /\ copy \in [Task -> Chain] /\ posted \in Seq(Post) /\ heard \in Seq(Post)
    BY DEF TypeOK, Queue!TypeOK
  <1>1. CASE SamePlaces /\ UNCHANGED <<posted, heard, copy, called>>
             /\ expired \subseteq expired'
    <2>1. \A k \in Task : Over(k)' <=> Over(k)
      BY <1>1 DEF SamePlaces, SameRuns, Over, Runs, history
    <2>2. \A w \in Worker : ~Running(w)' => called'[w] = 0
      BY <1>1 DEF SamePlaces, SameRuns, Calls
    <2> QED
      BY <1>1, <2>1, <2>2, CallsKept
  <1>2. ASSUME NEW u \in Worker \cup Client, NEW k \in Task, Push(u, k)
        PROVE  Calls'
    <2>1. /\ k \notin submitted /\ copy' = [copy EXCEPT ![k] = original[k]]
          /\ UNCHANGED <<got, pc, called, posted, heard, expired, done>>
      BY <1>2 DEF Push, Queue!Put
    <2>2. \A w \in Worker : ~Runs(w, k)
      BY <2>1 DEF Places, Runs
    <2>3. \A j \in Task : Over(j)' <=> Over(j)
      <3>1. ~Over(k) /\ ~Over(k)'
        BY <2>1, <2>2 DEF Over, Places, Runs, Running
      <3>2. ASSUME NEW j \in Task, j # k
            PROVE  Over(j)' <=> Over(j)
        <4>1. copy'[j] = copy[j]
          BY <1>q, <2>1, <3>2
        <4> QED
          BY <2>1, <4>1 DEF Over, Runs, Running
      <3> QED
        BY <3>1, <3>2
    <2>4. \A j \in Task : Over(j) => copy'[j] = copy[j]
      BY <1>q, <2>1, OverSubmitted
    <2>5. \A w \in Worker : ~Running(w)' => called'[w] = 0
      BY <2>1 DEF Running, Calls
    <2> QED
      BY <2>1, <2>3, <2>4, <2>5, CallsKept
  <1>3. ASSUME NEW w \in Worker, WorkerPopped(w), Queue!Serve(w)
        PROVE  Calls'
    <2> DEFINE k == Head(items)
    <2>1. /\ items # <<>> /\ got' = [got EXCEPT ![w] = k] /\ pc[w] = "pop"
          /\ UNCHANGED <<called, posted, heard, copy, expired, done>>
      BY <1>3 DEF WorkerPopped, Queue!Serve, Queue!TakeHead, chainVars, history
    <2>2. k \in Task /\ In(items, k)
      BY <1>q, <2>1, TailIn
    <2>3. \A v \in Worker : v # w => (Running(v)' <=> Running(v)) /\ got'[v] = got[v]
      BY <1>3, <1>q, <2>1 DEF WorkerPopped, Running, Goto
    <2>4. ~Running(w) /\ got'[w] = k /\ called[w] = 0
      BY <1>q, <2>1 DEF Running, Calls
    <2>5. k \notin done /\ \A v \in Worker : ~Runs(v, k)
      BY <2>2 DEF Places, Runs
    <2> HIDE DEF k
    <2>6. \A j \in Task : ~(called'[w] > copy[j].thens + 1)
      <3>1. \A j \in Task : copy[j].thens \in Nat
        BY <1>q DEF Chain
      <3> QED
        BY <2>1, <2>4, <3>1
    <2>7. \A j \in Task : Over(j)' <=> Over(j)
      BY <2>1, <2>3, <2>4, <2>6 DEF Over, Runs
    <2>8. \A v \in Worker : ~Running(v)' => called'[v] = 0
      BY <2>1, <2>3, <2>4 DEF Calls
    <2> QED
      BY <2>1, <2>7, <2>8, CallsKept
  <1>4. CASE DestroyQueue
    <2>1. UNCHANGED <<got, pc, called, posted, heard, copy, expired, done>>
      BY <1>4 DEF DestroyQueue, chainVars
    <2>2. \A j \in Task : Over(j)' <=> Over(j)
      BY <2>1 DEF Over, Runs, Running
    <2>3. \A v \in Worker : ~Running(v)' => called'[v] = 0
      BY <2>1 DEF Calls, Running
    <2> QED
      BY <2>1, <2>2, <2>3, CallsKept
  <1>5. ASSUME NEW w \in Worker, TaskCall(w)
        PROVE  Calls'
    <2>1. /\ Running(w) /\ called[w] <= copy[got[w]].thens
          /\ called' = [called EXCEPT ![w] = @ + 1]
          /\ UNCHANGED <<got, pc, posted, heard, copy, expired, done>>
      BY <1>5 DEF TaskCall, queueVars, history
    <2>2. /\ copy[got[w]].thens \in Nat /\ called[w] \in Nat
          /\ called'[w] = called[w] + 1
      BY <1>q, <2>1, RunType
    <2>3. ~(called[w] > copy[got[w]].thens + 1) /\ ~(called'[w] > copy[got[w]].thens + 1)
      BY <2>1, <2>2
    <2>4. \A v \in Worker : v # w => called'[v] = called[v]
      BY <1>q, <2>1
    <2>5. \A j \in Task : Over(j)' <=> Over(j)
      BY <2>1, <2>3, <2>4 DEF Over, Runs, Running
    <2>6. \A v \in Worker : ~Running(v)' => called'[v] = 0
      BY <2>1, <2>4 DEF Calls, Running
    <2> QED
      BY <2>1, <2>5, <2>6, CallsKept
  <1>6. ASSUME NEW w \in Worker, TaskReturn(w)
        PROVE  Calls'
    <2>1. /\ Running(w)
          /\ called' = [called EXCEPT ![w] = 0]
          /\ UNCHANGED <<got, posted, heard, copy, expired>>
      BY <1>6 DEF TaskReturn, queueVars
    <2>2. PICK k \in Task : k = got[w]
      BY <2>1, RunType
    <2>3. called[w] = copy[k].thens + 2 /\ done' = done \cup {k} /\ copy[k].thens \in Nat
      BY <1>6, <2>1, <2>2, RunType DEF TaskReturn
    <2>4. pc' = [pc EXCEPT ![w] = "test"] \/ pc' = [pc EXCEPT ![w] = "destroy"]
      BY <1>6 DEF TaskReturn, Goto
    <2>5. ~Running(w)' /\ \A v \in Worker : v # w => (Running(v)' <=> Running(v))
      BY <1>q, <2>4 DEF Running
    <2>6. called'[w] = 0 /\ \A v \in Worker : v # w => called'[v] = called[v]
      BY <1>q, <2>1
    <2>7. \A j \in Task : Over(j)' <=> Over(j)
      <3>1. Over(k) /\ Over(k)'
        BY <2>1, <2>2, <2>3 DEF Over, Runs
      <3>2. ASSUME NEW j \in Task, j # k
            PROVE  Over(j)' <=> Over(j)
        BY <2>1, <2>2, <2>3, <2>5, <2>6, <3>2 DEF Over, Runs
      <3> QED
        BY <3>1, <3>2
    <2>8. \A v \in Worker : ~Running(v)' => called'[v] = 0
      BY <2>5, <2>6 DEF Calls
    <2> QED
      BY <2>1, <2>7, <2>8, CallsKept
  <1>7. ASSUME NEW w \in Worker, TaskCallback(w)
        PROVE  Calls'
    <2>1. /\ Running(w)
          /\ called' = [called EXCEPT ![w] = @ + 1]
          /\ UNCHANGED <<got, pc, heard, copy, expired, done>>
      BY <1>7 DEF TaskCallback, queueVars, history
    <2>2. PICK k \in Task : k = got[w]
      BY <2>1, RunType
    <2>3. PICK l \in Listener \cup {NoOne} : l = copy[k].callback
      BY <2>1, <2>2, RunType
    <2>4. /\ called[w] = copy[k].thens + 1 /\ copy[k].thens \in Nat
          /\ \/ l \in {NoOne} \cup expired /\ UNCHANGED posted
             \/ l \in Listener /\ posted' = Append(posted, [of |-> k, to |-> l])
      BY <1>7, <2>1, <2>2, <2>3, RunType DEF TaskCallback
    <2>5. /\ called'[w] = copy[k].thens + 2
          /\ \A v \in Worker : v # w => called'[v] = called[v]
      BY <1>q, <2>1, <2>4
    <2>6. ~Over(k) /\ Over(k)'
      <3>1. \A v \in Worker : Runs(v, k) => v = w
        BY <2>1, <2>2 DEF Places, Runs
      <3>2. k \notin done
        BY <2>1, <2>2 DEF Places
      <3>3. ~(called[w] > copy[k].thens + 1) /\ called'[w] > copy[k].thens + 1
        BY <2>4, <2>5
      <3>4. Runs(w, k)' /\ copy' = copy
        BY <2>1, <2>2 DEF Runs, Running
      <3>5. ~Over(k)
        BY <3>1, <3>2, <3>3 DEF Over
      <3>6. Over(k)'
        BY <3>3, <3>4 DEF Over
      <3> QED
        BY <3>5, <3>6
    <2>7. \A j \in Task : j # k => (Over(j)' <=> Over(j))
      BY <2>1, <2>2, <2>5 DEF Over, Runs, Running
    <2>8. \A v \in Worker : ~Running(v)' => called'[v] = 0
      BY <2>1, <2>5 DEF Calls, Running
    <2>9. CASE l \in {NoOne} \cup expired /\ UNCHANGED posted
      <3>1. \A r : Sent(r)' <=> Sent(r)
        BY <2>1, <2>9 DEF Sent, In
      <3>2. \A r \in Post : r.of \in Task
        BY DEF Post
      <3>3. \A r \in Post : Sent(r)' => Over(r.of)' /\ copy'[r.of].callback = r.to
        BY <2>1, <2>6, <2>7, <3>1, <3>2 DEF Calls
      <3>4. ASSUME NEW j \in Task, Over(j)'
            PROVE  Settled(j)'
        <4>1. Settled(j)
          BY <2>3, <2>7, <2>9, <3>4 DEF Calls, Settled
        <4> QED
          BY <2>1, <2>9, <4>1 DEF Settled, Sent
      <3>5. Once(posted') /\ Once(heard')
            /\ \A r \in Post : ~(In(posted', r) /\ In(heard', r))
        BY <2>1, <2>9 DEF Calls
      <3> QED
        BY <2>8, <3>3, <3>4, <3>5 DEF Calls
    <2>10. CASE l \in Listener /\ posted' = Append(posted, [of |-> k, to |-> l])
      <3>1. PICK p \in Post : p = [of |-> k, to |-> l]
        BY <2>10 DEF Post
      <3>2. p.of = k /\ p.to = l
        BY <3>1
      <3>3. ~Sent(p)
        BY <2>6, <3>2 DEF Calls
      <3>4. /\ \A r : In(posted', r) <=> In(posted, r) \/ r = p
            /\ Once(posted')
        BY <1>q, <2>10, <3>1, <3>3, AppendIn DEF Calls, Sent
      <3>5. UNCHANGED <<heard, copy, expired>>
        BY <2>1
      <3>6. \A r : Sent(r)' <=> Sent(r) \/ r = p
        BY <3>4, <3>5 DEF Sent
      <3>7. \A r \in Post : r.of \in Task
        BY DEF Post
      <3>8. \A r \in Post : ~(In(posted', r) /\ In(heard', r))
        BY <3>3, <3>4, <3>5 DEF Calls, Sent
      <3>9. \A r \in Post : Sent(r)' => Over(r.of)' /\ copy'[r.of].callback = r.to
        BY <2>3, <2>6, <2>7, <3>2, <3>5, <3>6, <3>7 DEF Calls
      <3>10. ASSUME NEW j \in Task, Over(j)'
             PROVE  Settled(j)'
        <4>1. Settled(j) \/ [of |-> j, to |-> copy[j].callback] = p
          BY <2>3, <2>7, <3>1, <3>10 DEF Calls
        <4> QED
          BY <3>4, <3>5, <4>1 DEF Settled, Sent
      <3>11. Once(posted') /\ Once(heard')
        BY <3>4, <3>5 DEF Calls
      <3> QED
        BY <2>8, <3>8, <3>9, <3>10, <3>11 DEF Calls
    <2> QED
      BY <2>4, <2>9, <2>10
  <1>8. CASE Hear
    <2>1. /\ posted # <<>> /\ posted' = Tail(posted) /\ heard' = Append(heard, Head(posted))
          /\ UNCHANGED <<got, pc, called, copy, expired, done>>
      BY <1>8 DEF Hear, queueVars, history
    <2>2. PICK p \in Post : p = Head(posted)
      BY <1>q, <2>1, TailIn
    <2>3. /\ \A r : In(posted, r) <=> r = p \/ In(posted', r)
          /\ Once(posted') /\ ~In(posted', p)
      BY <1>q, <2>1, <2>2, TailIn DEF Calls
    <2>4. In(posted, p) /\ ~In(heard, p)
      BY <2>3 DEF Calls
    <2>5. (\A r : In(heard', r) <=> In(heard, r) \/ r = p) /\ Once(heard')
      BY <1>q, <2>1, <2>2, <2>4, AppendIn DEF Calls
    <2>6. \A r : Sent(r)' <=> Sent(r)
      BY <2>3, <2>5 DEF Sent
    <2>7. \A r \in Post : ~(In(posted', r) /\ In(heard', r))
      BY <2>3, <2>5 DEF Calls
    <2>8. \A j \in Task : Over(j)' <=> Over(j)
      BY <2>1 DEF Over, Runs, Running
    <2>9. \A r \in Post : r.of \in Task
      BY DEF Post
    <2>10. \A r \in Post : Sent(r)' => Over(r.of)' /\ copy'[r.of].callback = r.to
      BY <2>1, <2>6, <2>8, <2>9 DEF Calls
    <2>11. UNCHANGED <<copy, expired>>
      BY <2>1
    <2>12. ASSUME NEW j \in Task, Over(j)'
           PROVE  Settled(j)'
      <3>1. Settled(j)
        BY <2>8, <2>12 DEF Calls
      <3> QED
        BY <2>3, <2>5, <2>11, <3>1 DEF Settled, Sent
    <2>13. \A v \in Worker : ~Running(v)' => called'[v] = 0
      BY <2>1 DEF Calls, Running
    <2> QED
      BY <2>3, <2>5, <2>7, <2>10, <2>12, <2>13 DEF Calls
  <1>9. ASSUME SamePlaces,
               \/ ConstructStep \/ AgentStep
               \/ \E w \in Worker : WorkerStep(w)
               \/ \E c, d \in Client : Share(c, d)
               \/ \E c \in Client : Release(c)
               \/ \E k \in Task : Then(k) \/ \E l \in Listener : Callback(k, l)
               \/ \E l \in Listener : DropListener(l)
               \/ UNCHANGED vars
        PROVE  Calls'
    <2> USE DEF chainVars
    <2>1. CASE ConstructStep
      BY <1>1, <1>9, <2>1 DEF ConstructStep, StartWorker, Constructed, ConstructFailed
    <2>2. CASE AgentStep
      BY <1>1, <1>9, <2>2 DEF AgentStep, StopInterrupt, StopJoin, StopSelfJoin, DestroyQueue
    <2>3. ASSUME NEW w \in Worker, WorkerStep(w)
          PROVE  Calls'
      BY <1>1, <1>9, <2>3 DEF WorkerStep, WorkerTest, WorkerWaitPop, WorkerPopped
    <2>4. ASSUME NEW c \in Client, Release(c) \/ \E d \in Client : Share(c, d)
          PROVE  Calls'
      BY <1>1, <1>9, <2>4 DEF Release, Share
    <2>5. ASSUME NEW k \in Task, Then(k) \/ \E l \in Listener : Callback(k, l)
          PROVE  Calls'
      BY <1>1, <1>9, <2>5 DEF Then, Callback, Add
    <2>6. ASSUME NEW l \in Listener, DropListener(l)
          PROVE  Calls'
      BY <1>1, <1>9, <2>6 DEF DropListener
    <2>7. CASE UNCHANGED vars
      BY <1>1, <1>9, <2>7 DEF vars
    <2> QED
      BY <1>9, <2>1, <2>2, <2>3, <2>4, <2>5, <2>6, <2>7
  <1> QED
    BY <1>2, <1>3, <1>4, <1>5, <1>6, <1>7, <1>8, <1>9, PlacesQuiet, Zenon
       DEF Next, TaskStep

------------------------------------------------------------------------------
(* Theorems. *)

(* The invariant holds at first, and every step keeps it. *)
LEMMA Inductive ==
  /\ Init => PoolInv
  /\ PoolInv /\ [Next]_vars => PoolInv'
PROOF
  <1>1. ASSUME Init
        PROVE  PoolInv
    <2>1. /\ items = <<>> /\ posted = <<>> /\ heard = <<>>
          /\ submitted = {} /\ done = {} /\ dropped = {} /\ phase = "construct"
          /\ \A w \in Worker : pc[w] = "unborn" /\ called[w] = 0
          /\ \A c \in Client : ~holds[c]
      BY <1>1 DEF Init, Queue!Init
    <2>2. /\ \A k : ~In(items, k) /\ ~In(posted, k) /\ ~In(heard, k)
          /\ Once(items) /\ Once(posted) /\ Once(heard)
      BY <2>1 DEF In, Once
    <2>3. \A w \in Worker : ~Running(w)
      BY <2>1 DEF Running
    <2>4. Places /\ Life
      BY <2>1, <2>2, <2>3 DEF Places, Life, Unheld, Runs
    <2>5. Calls
      BY <2>1, <2>2, <2>3 DEF Calls, Sent, Over, Runs
    <2> QED
      BY <1>1, <2>4, <2>5, InitTypes DEF PoolInv
  <1>2. ASSUME PoolInv, [Next]_vars
        PROVE  PoolInv'
    BY <1>2, TypeStep, PlacesStep, LifeStep, CallsStep DEF PoolInv
  <1> QED
    BY <1>1, <1>2

(* It holds of every behaviour. *)
LEMMA Invariant == Spec => []PoolInv
PROOF
  BY Inductive, PTL DEF Spec, Safety

(* Types, for any number of workers, clients, tasks and listeners. *)
THEOREM TypeCorrect == Spec => []TypeOK
PROOF
  <1>1. PoolInv => TypeOK
    BY DEF PoolInv
  <1> QED
    BY <1>1, Invariant, PTL

(* Each place a task can be in, and each callback, is as TasksKept says. *)
LEMMA Kept == PoolInv => TasksKept
PROOF
  <1> SUFFICES ASSUME PoolInv
               PROVE  TasksKept
    OBVIOUS
  <1>q. /\ items \in Seq(Task) /\ posted \in Seq(Post) /\ heard \in Seq(Post)
        /\ submitted \subseteq Task /\ copy \in [Task -> Chain]
    BY DEF PoolInv, TypeOK, Queue!TypeOK
  <1>i. /\ DOMAIN items = 1..Len(items)
        /\ \A k : In(items, k) <=> k \in Queued
        /\ Queued \subseteq Task
    BY <1>q, LenProperties, ElementOfSeq DEF In, Queued
  <1>1. EachTaskOnce
    BY <1>i DEF PoolInv, Places, Once, EachTaskOnce
  <1>2. NothingLost
    BY <1>i DEF PoolInv, Places, Life, NothingLost, Runs
  <1>3. WorkersEndFirst /\ PoolTaskKept
    BY DEF PoolInv, Life, WorkersEndFirst, PoolTaskKept
  <1>4. CallbackOnce
    <2> DEFINE all == posted \o heard
    <2>1. /\ all \in Seq(Post) /\ Once(all)
          /\ \A p : In(all, p) <=> Sent(p)
      BY <1>q, ConcatIn DEF PoolInv, Calls, Sent
    <2> HIDE DEF all
    <2>2. ASSUME NEW i \in DOMAIN all
          PROVE  LET k == all[i].of
                 IN  /\ copy[k].callback = all[i].to
                     /\ k \notin Queued \cup dropped
                     /\ \A w \in Worker :
                          Running(w) /\ got[w] = k => called[w] > copy[k].thens + 1
      <3>1. PICK p \in Post : p = all[i]
        BY <2>1, LenProperties, ElementOfSeq
      <3>2. PICK k \in Task : k = p.of
        BY DEF Post
      <3>3. Over(k) /\ copy[k].callback = p.to
        BY <2>1, <3>1, <3>2 DEF In, PoolInv, Calls
      <3>4. k \notin Queued
        BY <1>i, <3>3, OverSubmitted DEF PoolInv
      <3>5. k \notin dropped
        BY <3>3 DEF PoolInv, Life, Over, Runs, Running
      <3>6. \A w \in Worker : Runs(w, k) => called[w] > copy[k].thens + 1
        BY <3>3 DEF PoolInv, Places, Over, Runs
      <3> QED
        BY <3>1, <3>2, <3>3, <3>4, <3>5, <3>6 DEF Runs
    <2>3. ASSUME NEW k \in done
          PROVE  \/ copy[k].callback \in {NoOne} \cup expired
                 \/ \E i \in DOMAIN all : all[i].of = k
      <3>1. k \in Task /\ Over(k)
        BY <1>q DEF PoolInv, Places, Over
      <3>2. Settled(k)
        BY <3>1 DEF PoolInv, Calls
      <3>3. Sent([of |-> k, to |-> copy[k].callback]) =>
              \E i \in DOMAIN all : all[i] = [of |-> k, to |-> copy[k].callback]
        BY <2>1, Zenon DEF In
      <3> QED
        BY <3>2, <3>3 DEF Settled
    <2> QED
      BY <2>1, <2>2, <2>3 DEF CallbackOnce, Once, all
  <1> QED
    BY <1>1, <1>2, <1>3, <1>4 DEF TasksKept

(* Tasks are executed once, and no task, worker or callback is lost, whatever comes
   together: pushes, wake-ups, a failed constructor and the last release. *)
THEOREM TasksAreKept == Spec => []TasksKept
PROOF
  BY Kept, Invariant, PTL
===============================================================================
