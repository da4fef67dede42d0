-------------------------- MODULE CommandLoopProofs --------------------------
(***************************************************************************)
(* Theorems about CommandLoop, for any number of commands, clients, calls  *)
(* and sets of flags.                                                      *)
(***************************************************************************)
EXTENDS CommandLoop, SequenceTheorems, TLAPS

In(q, a) == \E i \in DOMAIN q : q[i] = a
Once(q) == \A i, j \in DOMAIN q : q[i] = q[j] => i = j

(* A command has a result when it is finished, and only then; what is told of
   it is its result. *)
ResultsTold ==
  /\ \A c \in Cmd : st[c] = "FINISHED" <=> outcome[c] # "NONE"
  /\ \A c \in emitting : st[c] = "FINISHED"
  /\ \A k \in Client : calling[k].op # "event"
  /\ \A i \in DOMAIN inbox :
       inbox[i].op = "event" => /\ st[inbox[i].cmd] = "FINISHED"
                                /\ inbox[i].result = outcome[inbox[i].cmd]

(* A walk starts what is in the loop, the first command only unless the loop is
   for many; it stops what is left in the loop. *)
WalksRight ==
  /\ Once(commands)
  /\ job.op = "next" => /\ \A c \in Cmd : In(job.todo, c) => In(commands, c)
                        /\ job.todo # <<>> /\ ~Multi => job.todo = <<Head(commands)>>
  /\ job.op = "stop" => job.todo = commands
  /\ job = Finish("SUCCESS") => commands = <<>>

(* A loop that has its channel holds what it has started and not finished, and
   without MultiCommand only its first command is active. *)
Held ==
  open => \A c \in Cmd :
    /\ st[c] \in {"ACTIVE", "SUSPENDED"} => In(commands, c)
    /\ st[c] = "ACTIVE" /\ ~Multi => c = Head(commands)

(* What failed in a transaction is in the loop until the loop knows, and then
   the loop is about to fail. *)
Called(op) ==
  \/ \E k \in Client : calling[k].op = op
  \/ \E i \in DOMAIN inbox : inbox[i].op = op

FailuresKnown ==
  /\ Called("mode") => switched
  /\ open /\ ~switched /\ Transaction /\ ~Continuous =>
       \A c \in Cmd : outcome[c] = "FAILED" => In(commands, c) \/ job = Finish("FAILED")

LoopInv == TypeOK /\ ResultsTold /\ WalksRight /\ Held /\ FailuresKnown
------------------------------------------------------------------------------
(* Sequences. *)

(* Appending adds one element, and no second copy of what was not there. *)
LEMMA AppendIn ==
  ASSUME NEW S, NEW q \in Seq(S), NEW a \in S
  PROVE  /\ \A b : In(Append(q, a), b) <=> In(q, b) \/ b = a
         /\ Once(q) /\ ~In(q, a) => Once(Append(q, a))
PROOF
  <1> DEFINE r == Append(q, a)
  <1>1. /\ Len(r) = Len(q) + 1
        /\ DOMAIN r = 1..Len(r) /\ DOMAIN q = 1..Len(q) /\ Len(q) \in Nat
        /\ \A i \in 1..Len(q) : r[i] = q[i]
        /\ r[Len(q) + 1] = a
    BY AppendProperties, LenProperties
  <1> HIDE DEF r
  <1>2. \A b : In(r, b) <=> In(q, b) \/ b = a
    BY <1>1 DEF In
  <1>3. Once(q) /\ ~In(q, a) => Once(r)
    BY <1>1 DEF In, Once
  <1> QED
    BY <1>2, <1>3 DEF r

(* Taking the first leaves the others, and no copy of it. *)
LEMMA TailIn ==
  ASSUME NEW S, NEW q \in Seq(S), q # <<>>
  PROVE  /\ Head(q) \in S /\ Tail(q) \in Seq(S)
         /\ \A b : In(q, b) <=> b = Head(q) \/ In(Tail(q), b)
         /\ Once(q) => Once(Tail(q)) /\ ~In(Tail(q), Head(q))
PROOF
  <1> DEFINE r == Tail(q)
  <1>1. /\ r \in Seq(S) /\ Head(q) \in S /\ Head(q) = q[1]
        /\ Len(r) = Len(q) - 1 /\ Len(q) \in Nat \ {0}
        /\ DOMAIN r = 1..Len(r) /\ DOMAIN q = 1..Len(q)
        /\ \A i \in 1..Len(r) : r[i] = q[i + 1]
    BY HeadTailProperties, LenProperties, EmptySeq
  <1> HIDE DEF r
  <1>2. \A b : In(q, b) <=> b = Head(q) \/ In(r, b)
    <2>1. ASSUME NEW b, In(r, b)
          PROVE  In(q, b)
      BY <1>1, <2>1 DEF In
    <2>2. ASSUME NEW b, NEW i \in DOMAIN q, q[i] = b
          PROVE  b = Head(q) \/ In(r, b)
      <3>1. CASE i = 1
        BY <1>1, <2>2, <3>1
      <3>2. CASE i # 1
        <4>1. i - 1 \in DOMAIN r /\ r[i - 1] = b
          BY <1>1, <2>2, <3>2
        <4> QED
          BY <4>1 DEF In
      <3> QED
        BY <3>1, <3>2
    <2>3. In(q, Head(q))
      BY <1>1 DEF In
    <2> QED
      BY <2>1, <2>2, <2>3 DEF In
  <1>3. ASSUME Once(q)
        PROVE  Once(r) /\ ~In(r, Head(q))
    <2>1. ASSUME NEW i \in DOMAIN r, NEW j \in DOMAIN r, r[i] = r[j]
          PROVE  i = j
      <3>1. i + 1 \in DOMAIN q /\ j + 1 \in DOMAIN q /\ q[i + 1] = q[j + 1]
        BY <1>1, <2>1
      <3> QED
        BY <1>1, <1>3, <3>1 DEF Once
    <2>2. ASSUME NEW i \in DOMAIN r, r[i] = Head(q)
          PROVE  FALSE
      <3>1. i + 1 \in DOMAIN q /\ 1 \in DOMAIN q /\ q[i + 1] = q[1] /\ i + 1 # 1
        BY <1>1, <2>2
      <3> QED
        BY <1>3, <3>1 DEF Once
    <2> QED
      BY <2>1, <2>2 DEF Once, In
  <1> QED
    BY <1>1, <1>2, <1>3 DEF r

(* One sequence after the other holds what either holds. *)
LEMMA ConcatIn ==
  ASSUME NEW S, NEW q \in Seq(S), NEW r \in Seq(S)
  PROVE  /\ q \o r \in Seq(S)
         /\ \A a : In(q \o r, a) <=> In(q, a) \/ In(r, a)
         /\ Once(q) /\ Once(r) /\ (\A a \in S : ~(In(q, a) /\ In(r, a)))
              => Once(q \o r)
PROOF
  <1> DEFINE n == Len(q)
             m == Len(r)
             all == q \o r
  <1>1. /\ n \in Nat /\ m \in Nat /\ DOMAIN q = 1..n /\ DOMAIN r = 1..m
        /\ all \in Seq(S) /\ DOMAIN all = 1..(n + m)
        /\ \A i \in 1..n : all[i] = q[i]
        /\ \A i \in 1..(n + m) : i > n => i - n \in 1..m /\ all[i] = r[i - n]
    BY ConcatProperties, LenProperties
  <1>2. (\A i \in 1..n : q[i] \in S) /\ (\A i \in 1..m : r[i] \in S)
    BY ElementOfSeq, LenProperties
  <1> HIDE DEF n, m, all
  <1>3. \A i \in 1..m : n + i \in 1..(n + m) /\ all[n + i] = r[i]
    BY <1>1
  <1>4. \A a : In(all, a) <=> In(q, a) \/ In(r, a)
    <2>1. ASSUME NEW a, NEW i \in DOMAIN all, all[i] = a
          PROVE  In(q, a) \/ In(r, a)
      <3>1. CASE i \in 1..n
        <4>1. i \in DOMAIN q /\ q[i] = a
          BY <1>1, <2>1, <3>1
        <4> QED
          BY <4>1 DEF In
      <3>2. CASE i \notin 1..n
        <4>1. i \in 1..(n + m) /\ i > n
          BY <1>1, <3>2
        <4>2. i - n \in DOMAIN r /\ r[i - n] = a
          BY <1>1, <2>1, <4>1
        <4> QED
          BY <4>2 DEF In
      <3> QED
        BY <3>1, <3>2
    <2>2. ASSUME NEW a, In(q, a)
          PROVE  In(all, a)
      BY <1>1, <2>2 DEF In
    <2>3. ASSUME NEW a, In(r, a)
          PROVE  In(all, a)
      BY <1>1, <1>3, <2>3 DEF In
    <2> QED
      BY <2>1, <2>2, <2>3 DEF In
  <1>5. ASSUME Once(q), Once(r), \A a \in S : ~(In(q, a) /\ In(r, a)),
               NEW i \in DOMAIN all, NEW j \in DOMAIN all, all[i] = all[j]
        PROVE  i = j
    <2>1. CASE i <= n /\ j <= n
      BY <1>1, <1>5, <2>1 DEF Once
    <2>2. CASE i > n /\ j > n
      <3>1. i - n \in DOMAIN r /\ j - n \in DOMAIN r /\ r[i - n] = r[j - n]
        BY <1>1, <1>5, <2>2
      <3>2. i - n = j - n
        BY <1>5, <3>1 DEF Once
      <3> QED
        BY <1>1, <3>2
    <2>3. ASSUME NEW k \in DOMAIN all, NEW l \in DOMAIN all, k <= n, l > n, all[k] = all[l]
          PROVE  FALSE
      <3>1. k \in DOMAIN q /\ l - n \in DOMAIN r /\ q[k] = r[l - n] /\ q[k] \in S
        BY <1>1, <1>2, <2>3
      <3> QED
        BY <1>5, <3>1 DEF In
    <2> QED
      BY <1>1, <1>5, <2>1, <2>2, <2>3
  <1>6. /\ all \in Seq(S)
        /\ \A a : In(all, a) <=> In(q, a) \/ In(r, a)
        /\ Once(q) /\ Once(r) /\ (\A a \in S : ~(In(q, a) /\ In(r, a))) => Once(all)
    BY <1>1, <1>4, <1>5 DEF Once
  <1> QED
    BY <1>6 DEF all

(* Without a command that is in the loop, everything else is, in its order. *)
LEMMA WithoutIn ==
  ASSUME commands \in Seq(Cmd), Once(commands), NEW c \in Cmd
  PROVE  /\ Without(c) \in Seq(Cmd)
         /\ Once(Without(c))
         /\ \A d : In(Without(c), d) <=> In(commands, d) /\ d # c
         /\ commands # <<>> /\ Head(commands) # c =>
              Without(c) # <<>> /\ Head(Without(c)) = Head(commands)
PROOF
  <1> DEFINE n == Len(commands)
  <1>1. n \in Nat /\ DOMAIN commands = 1..n /\ \A i \in 1..n : commands[i] \in Cmd
    BY LenProperties, ElementOfSeq
  <1>2. CASE ~InLoop(c)
    BY <1>1, <1>2 DEF Without, InLoop, In
  <1>3. CASE InLoop(c)
    <2> DEFINE f == First(c)
               r == Without(c)
    <2>1. PICK i \in 1..n : commands[i] = c
      BY <1>3 DEF InLoop
    <2>2. \A j \in 1..(i - 1) : commands[j] # c
      BY <1>1, <2>1 DEF Once
    <2>3. f \in 1..n /\ commands[f] = c
      BY <1>1, <2>1, <2>2 DEF First
    <2>4. /\ r = [j \in 1..(n - 1) |-> commands[IF j < f THEN j ELSE j + 1]]
      BY <1>3 DEF Without
    <2> HIDE DEF f, r
    <2>5. n - 1 \in Nat /\ \A j \in 1..(n - 1) : (IF j < f THEN j ELSE j + 1) \in 1..n
      BY <1>1, <2>3
    <2>6. /\ DOMAIN r = 1..(n - 1)
          /\ \A j \in 1..(n - 1) : r[j] = commands[IF j < f THEN j ELSE j + 1]
      BY <2>4
    <2>7. r \in Seq(Cmd) /\ Len(r) = n - 1
      <3> HIDE DEF n
      <3>1. \A j \in 1..(n - 1) : commands[IF j < f THEN j ELSE j + 1] \in Cmd
        BY <1>1, <2>5
      <3> QED
        BY <2>4, <2>5, <3>1, IsASeq, LenProperties, <2>6
    <2>8. Once(r)
      <3> SUFFICES ASSUME NEW j \in 1..(n - 1), NEW k \in 1..(n - 1), r[j] = r[k]
                   PROVE  j = k
        BY <2>6 DEF Once
      <3>1. (IF j < f THEN j ELSE j + 1) = (IF k < f THEN k ELSE k + 1)
        BY <1>1, <2>5, <2>6 DEF Once
      <3> QED
        BY <1>1, <2>3, <3>1
    <2>9. ASSUME NEW d, In(r, d)
          PROVE  In(commands, d) /\ d # c
      <3>1. PICK j \in 1..(n - 1) : r[j] = d
        BY <2>6, <2>9 DEF In
      <3> DEFINE k == IF j < f THEN j ELSE j + 1
      <3>2. k \in 1..n /\ commands[k] = d
        BY <2>5, <2>6, <3>1
      <3>3. k # f
        BY <1>1, <2>3, <3>1
      <3> QED
        BY <1>1, <2>3, <3>2, <3>3 DEF In, Once
    <2>10. ASSUME NEW d, In(commands, d), d # c
           PROVE  In(r, d)
      <3>1. PICK k \in 1..n : commands[k] = d
        BY <1>1, <2>10 DEF In
      <3>2. k # f
        BY <2>3, <2>10, <3>1
      <3> DEFINE j == IF k < f THEN k ELSE k - 1
      <3>3. /\ j \in 1..(n - 1)
            /\ (IF j < f THEN j ELSE j + 1) = k
        BY <1>1, <2>3, <3>2
      <3> QED
        BY <2>6, <3>1, <3>3 DEF In
    <2>11. ASSUME commands # <<>>, Head(commands) # c
           PROVE  r # <<>> /\ Head(r) = Head(commands)
      <3>1. n > 0 /\ Head(commands) = commands[1]
        BY <2>11, HeadTailProperties, EmptySeq
      <3>2. f > 1 /\ 1 \in 1..(n - 1)
        BY <1>1, <2>3, <2>11, <3>1
      <3>3. r[1] = commands[1]
        BY <2>6, <3>2
      <3>4. r # <<>>
        BY <1>1, <2>7, <3>2, EmptySeq
      <3> QED
        BY <2>7, <3>1, <3>3, <3>4, HeadTailProperties
    <2> QED
      BY <2>7, <2>8, <2>9, <2>10, <2>11 DEF r
  <1> QED
    BY <1>2, <1>3
------------------------------------------------------------------------------
(* Types. *)

(* What a lambda captured is what it works on. *)
LEMMA LambdaParts ==
  ASSUME NEW x \in Lambda
  PROVE  /\ x.op = "push" => x.cmd \in Cmd
         /\ x.op = "event" => x.cmd \in Cmd /\ x.result \in Result
         /\ x.op = "mode" => x.mode \in Modes
PROOF
  BY DEF Lambda

(* nextCommand() has something to do, or nothing. *)
LEMMA NextCommandType ==
  ASSUME NEW cmds \in Seq(Cmd)
  PROVE  NextCommand(cmds) \in {Idle} \cup Walks \cup Finishes
PROOF
  <1>1. CASE cmds # <<>>
    <2>1. Head(cmds) \in Cmd
      BY <1>1, HeadTailProperties
    <2>2. <<Head(cmds)>> \in Seq(Cmd)
      BY <2>1
    <2> QED
      BY <1>1, <2>2 DEF NextCommand, Walk, Walks
  <1>2. CASE cmds = <<>>
    BY <1>2 DEF NextCommand, Finish, Finishes, Result
  <1> QED
    BY <1>1, <1>2

(* A command that is finished tells each of its listeners its result. *)
LEMMA EmittedEvents ==
  ASSUME NEW c \in Cmd, subs'[c] \in Nat, outcome'[c] \in Result
  PROVE  /\ Emitted(c) \in Seq(Lambda)
         /\ \A i \in DOMAIN Emitted(c) :
              Emitted(c)[i] = [op |-> "event", cmd |-> c, result |-> outcome'[c]]
PROOF
  <1> DEFINE n == IF open THEN subs'[c] ELSE 0
             x == [op |-> "event", cmd |-> c, result |-> outcome'[c]]
  <1>1. n \in Nat /\ x \in Lambda
    BY DEF Lambda
  <1>2. Emitted(c) = [i \in 1..n |-> x]
    BY DEF Emitted
  <1> HIDE DEF n, x
  <1>3. Emitted(c) \in Seq(Lambda) /\ DOMAIN Emitted(c) = 1..n
    BY <1>1, <1>2, IsASeq
  <1>4. \A i \in 1..n : Emitted(c)[i] = x
    BY <1>2
  <1> QED
    BY <1>3, <1>4 DEF x

(* The walk over the commands goes on, to the end of them. *)
LEMMA AdvanceType ==
  ASSUME job \in Walks, job.todo # <<>>, Advance
  PROVE  /\ job' \in Walks
         /\ job'.op = job.op
         /\ job'.todo = Tail(job.todo)
         /\ job'.stage = "test"
PROOF
  <1>1. Tail(job.todo) \in Seq(Cmd)
    BY HeadTailProperties DEF Walks
  <1> QED
    BY <1>1 DEF Advance, Walks

(* A running lambda that walks over commands has reached one of them. *)
LEMMA ReachedType ==
  ASSUME TypeOK, NEW op \in {"next", "resume", "suspend", "stop", "clear"},
         NEW c, Reached(op, c)
  PROVE  /\ job \in Walks /\ job.op = op /\ job.todo \in Seq(Cmd)
         /\ job.todo # <<>> /\ c = Head(job.todo) /\ c \in Cmd
PROOF
  <1>1. job \in Walks
    BY DEF TypeOK, Reached, Idle, Finishes
  <1>2. job.todo \in Seq(Cmd)
    BY <1>1 DEF Walks
  <1> QED
    BY <1>1, <1>2, HeadTailProperties DEF Reached

(* An empty loop of no commands. *)
LEMMA InitTypes == Init => TypeOK
PROOF
  <1> SUFFICES ASSUME Init
               PROVE  TypeOK
    OBVIOUS
  <1>1. commands \in Seq(Cmd) /\ inbox \in Seq(Lambda) /\ results \in Seq(Result)
    BY EmptySeq DEF Init
  <1>2. calls \in 0..MaxCalls /\ pushed \in [Cmd -> 0..MaxPush]
    BY CommandAssumption DEF Init
  <1> QED
    BY <1>1, <1>2 DEF Init, TypeOK, State

(* The calls of clients. *)
LEMMA ClientTypes ==
  ASSUME TypeOK, NEW k \in Client, ClientStep(k) \/ Invoke(k)
  PROVE  TypeOK'
PROOF
  <1>1. ASSUME NEW op, MayCall(k, op)
        PROVE  /\ calls' \in 0..MaxCalls
               /\ disturbed' \in BOOLEAN /\ switched' \in BOOLEAN
    BY <1>1, CommandAssumption DEF MayCall, TypeOK
  <1>2. ASSUME NEW op \in {"start", "resume", "suspend", "stop"}, CallState(k, op)
        PROVE  TypeOK'
    <2>1. [op |-> op] \in Lambda /\ Transition(op)[2] \in State
      BY DEF Lambda, Transition, State
    <2>2. /\ calling' \in [Client -> {None} \cup Lambda] /\ loopState' \in State
      BY <1>2, <2>1 DEF CallState, TypeOK
    <2> QED
      BY <1>1, <1>2, <2>2 DEF CallState, TypeOK, loopVars, cmdVars
  <1>3. ASSUME NEW x \in Lambda, CallOther(k, x), pushed' \in [Cmd -> 0..MaxPush]
        PROVE  TypeOK'
    <2>1. calling' \in [Client -> {None} \cup Lambda]
      BY <1>3 DEF CallOther, TypeOK
    <2> QED
      BY <1>1, <1>3, <2>1 DEF CallOther, TypeOK, loopVars, cmdVars
  <1>4. CASE CallOther(k, [op |-> "clear"]) /\ UNCHANGED pushed
    <2>1. [op |-> "clear"] \in Lambda
      BY DEF Lambda
    <2> QED
      BY <1>3, <1>4, <2>1 DEF TypeOK
  <1>5. ASSUME NEW m \in Modes, CallOther(k, [op |-> "mode", mode |-> m]), UNCHANGED pushed
        PROVE  TypeOK'
    <2>1. [op |-> "mode", mode |-> m] \in Lambda
      BY DEF Lambda
    <2> QED
      BY <1>3, <1>5, <2>1 DEF TypeOK
  <1>6. ASSUME NEW c \in Cmd, CallPush(k, c)
        PROVE  TypeOK'
    <2>1. [op |-> "push", cmd |-> c] \in Lambda
      BY DEF Lambda
    <2>2. pushed' \in [Cmd -> 0..MaxPush]
      BY <1>6, CommandAssumption DEF CallPush, TypeOK
    <2> QED
      BY <1>3, <1>6, <2>1, <2>2 DEF CallPush
  <1>7. CASE Invoke(k)
    <2>1. calling[k] \in Lambda
      BY <1>7 DEF Invoke, TypeOK
    <2>2. inbox' \in Seq(Lambda)
      BY <1>7, <2>1, AppendProperties DEF Invoke, TypeOK
    <2>3. calling' \in [Client -> {None} \cup Lambda]
      BY <1>7 DEF Invoke, TypeOK
    <2> QED
      BY <1>7, <2>2, <2>3 DEF Invoke, TypeOK, loopVars, cmdVars, history
  <1> QED
    BY <1>2, <1>4, <1>5, <1>6, <1>7 DEF ClientStep

(* The commands. *)
LEMMA CommandTypes ==
  ASSUME TypeOK, ResultsTold, NEW c \in Cmd,
         (\E r \in Result : CommandFinish(c, r)) \/ CommandEmit(c)
  PROVE  TypeOK'
PROOF
  <1>1. ASSUME NEW r \in Result, CommandFinish(c, r)
        PROVE  TypeOK'
    <2>1. /\ st' \in [Cmd -> State] /\ outcome' \in [Cmd -> {"NONE"} \cup Result]
          /\ emitting' \subseteq Cmd
      BY <1>1 DEF CommandFinish, TypeOK, State
    <2> QED
      BY <1>1, <2>1 DEF CommandFinish, TypeOK, loopVars, callVars, history
  <1>2. CASE CommandEmit(c)
    <2>1. subs'[c] \in Nat /\ outcome'[c] \in Result
      BY <1>2 DEF CommandEmit, TypeOK, ResultsTold
    <2>2. inbox' \in Seq(Lambda)
      BY <1>2, <2>1, EmittedEvents, ConcatProperties DEF CommandEmit, TypeOK
    <2>3. emitting' \subseteq Cmd
      BY <1>2 DEF CommandEmit, TypeOK
    <2> QED
      BY <1>2, <2>2, <2>3 DEF CommandEmit, TypeOK, loopVars, callVars, history
  <1> QED
    BY <1>1, <1>2

(* The lambdas. *)
LEMMA HandleTypes ==
  ASSUME TypeOK, WalksRight,
         HandleState \/ HandleMode \/ HandlePush \/ HandleEvent \/ LoopFinish \/ WalkEnd
  PROVE  TypeOK'
PROOF
  <1>1. ASSUME Turn
        PROVE  Head(inbox) \in Lambda /\ Tail(inbox) \in Seq(Lambda)
    BY <1>1, HeadTailProperties DEF Turn, TypeOK
  <1>2. CASE HandleState
    <2>1. inbox' \in Seq(Lambda) /\ Turn
      BY <1>1, <1>2 DEF HandleState
    <2> DEFINE op == Head(inbox).op
    <2>2. ASSUME NEW q \in Seq(Cmd), op \in {"resume", "suspend", "stop", "clear"}
          PROVE  Walk(op, q) \in Walks
      BY <2>2 DEF Walk, Walks
    <2>3. commands # <<>> => <<Head(commands)>> \in Seq(Cmd)
      <3>1. commands # <<>> => Head(commands) \in Cmd
        BY HeadTailProperties DEF TypeOK
      <3> QED
        BY <3>1
    <2>4. commands \in Seq(Cmd)
      BY DEF TypeOK
    <2>5. job' \in {Idle} \cup Walks \cup Finishes
      <3> HIDE DEF op
      <3>1. CASE op = "start"
        BY <1>2, <2>4, <3>1, NextCommandType DEF HandleState, op
      <3>2. CASE op \in {"resume", "suspend"} /\ commands # <<>> /\ ~Multi
        <4>1. job' = Walk(op, <<Head(commands)>>)
          BY <1>2, <3>2 DEF HandleState, op
        <4> QED
          BY <2>2, <2>3, <3>2, <4>1
      <3>3. CASE op # "start" /\ ~(op \in {"resume", "suspend"} /\ commands # <<>> /\ ~Multi)
        <4>1. job' = Walk(op, commands) /\ op \in {"resume", "suspend", "stop", "clear"}
          BY <1>2, <3>3 DEF HandleState, op
        <4> QED
          BY <2>2, <2>4, <4>1
      <3> QED
        BY <3>1, <3>2, <3>3
    <2> QED
      BY <1>2, <2>1, <2>5 DEF HandleState, TypeOK, cmdVars, callVars, history
  <1>3. CASE HandleMode
    <2>1. inbox' \in Seq(Lambda) /\ mode' \in Modes
      BY <1>1, <1>3, LambdaParts DEF HandleMode, TypeOK
    <2> QED
      BY <1>3, <2>1 DEF HandleMode, TypeOK, cmdVars, callVars, history
  <1>4. CASE HandlePush
    <2>1. inbox' \in Seq(Lambda) /\ Head(inbox).cmd \in Cmd
      BY <1>1, <1>4, LambdaParts DEF HandlePush
    <2>2. commands' \in Seq(Cmd)
      BY <1>4, <2>1, AppendProperties DEF HandlePush, TypeOK
    <2>3. job' \in {Idle} \cup Walks \cup Finishes
      BY <1>4, <2>2, NextCommandType DEF HandlePush
    <2> QED
      BY <1>4, <2>1, <2>2, <2>3 DEF HandlePush, TypeOK, cmdVars, callVars, history
  <1>5. CASE HandleEvent
    <2>1. inbox' \in Seq(Lambda) /\ Head(inbox).cmd \in Cmd
      BY <1>1, <1>5, LambdaParts DEF HandleEvent
    <2>2. commands' \in Seq(Cmd)
      BY <1>5, <2>1, WithoutIn DEF HandleEvent, TypeOK, WalksRight
    <2>3. job' \in {Idle} \cup Walks \cup Finishes
      <3>1. Finish("FAILED") \in Finishes
        BY DEF Finish, Finishes, Result
      <3> QED
        BY <1>5, <2>2, <3>1, NextCommandType DEF HandleEvent
    <2> QED
      BY <1>5, <2>1, <2>2, <2>3 DEF HandleEvent, TypeOK, cmdVars, callVars, history
  <1>6. CASE LoopFinish
    <2>1. job.result \in Result
      <3>1. job \in Finishes
        BY <1>6 DEF LoopFinish, TypeOK, Idle, Walks
      <3> QED
        BY <3>1 DEF Finishes
    <2>2. results' \in Seq(Result) /\ loopState' \in State
      <3>1. results \in Seq(Result) /\ loopState \in State
        BY DEF TypeOK
      <3>2. Append(results, job.result) \in Seq(Result)
        BY <2>1, <3>1, AppendProperties
      <3> QED
        BY <1>6, <3>1, <3>2 DEF LoopFinish, State
    <2>3. commands' \in Seq(Cmd) /\ open' \in BOOLEAN
      BY <1>6, EmptySeq DEF LoopFinish, TypeOK
    <2> QED
      BY <1>6, <2>2, <2>3 DEF LoopFinish, TypeOK, cmdVars, callVars, history
  <1>7. CASE WalkEnd
    BY <1>7 DEF WalkEnd, TypeOK, cmdVars, callVars, history
  <1> QED
    BY <1>2, <1>3, <1>4, <1>5, <1>6, <1>7

WalkStep(c) ==
  \/ StartNext(c) \/ SkipNext(c) \/ ResumeNext(c) \/ SuspendTest(c)
  \/ SuspendNext(c) \/ StopNext(c) \/ ClearNext(c)

(* A command that is started is active, or finished at once. *)
LEMMA StartNextCases ==
  ASSUME TypeOK, NEW c \in Cmd, StartNext(c)
  PROVE  /\ job \in Walks /\ job.op = "next" /\ job.todo # <<>> /\ c = Head(job.todo)
         /\ subs' \in [Cmd -> Nat]
         /\ \/ /\ Advance /\ UNCHANGED thrown
               /\ c \in Plain
               /\ st[c] = "INACTIVE" /\ st' = [st EXCEPT ![c] = "FINISHED"]
               /\ outcome' = [outcome EXCEPT ![c] = "SUCCESS"]
               /\ inbox' = inbox \o Emitted(c)
            \/ /\ Advance /\ UNCHANGED thrown
               /\ c \notin Plain
               /\ st[c] = "INACTIVE" /\ st' = [st EXCEPT ![c] = "ACTIVE"]
               /\ UNCHANGED <<outcome, inbox>>
            \/ Throw /\ UNCHANGED <<st, outcome, inbox>>
         /\ UNCHANGED <<callVars, mode, loopState, emitting, commands, open, results>>
PROOF
  <1>1. subs' \in [Cmd -> Nat]
    BY DEF StartNext, TypeOK
  <1>2. Reached("next", c)
    BY DEF StartNext
  <1> QED
    BY <1>1, <1>2, ReachedType, Zenon DEF StartNext

(* The walks. *)
LEMMA WalkTypes ==
  ASSUME TypeOK, WalksRight, NEW c \in Cmd, WalkStep(c)
  PROVE  TypeOK'
PROOF
  <1>1. CASE StartNext(c)
    <2>1. job' \in {Idle} \cup Walks \cup Finishes /\ thrown' \in BOOLEAN
      BY <1>1, StartNextCases, AdvanceType DEF TypeOK, Throw
    <2>2. st' \in [Cmd -> State] /\ outcome' \in [Cmd -> {"NONE"} \cup Result]
      BY <1>1, StartNextCases DEF TypeOK, State, Result
    <2>3. inbox' \in Seq(Lambda)
      <3>1. CASE outcome' = [outcome EXCEPT ![c] = "SUCCESS"] /\ inbox' = inbox \o Emitted(c)
        <4>1. outcome'[c] \in Result /\ subs'[c] \in Nat
          BY <1>1, <3>1, StartNextCases DEF TypeOK, Result
        <4> QED
          BY <3>1, <4>1, EmittedEvents, ConcatProperties DEF TypeOK
      <3>2. CASE UNCHANGED inbox
        BY <3>2 DEF TypeOK
      <3> QED
        BY <1>1, <3>1, <3>2, StartNextCases
    <2>4. subs' \in [Cmd -> Nat]
      BY <1>1, StartNextCases
    <2> QED
      BY <1>1, <2>1, <2>2, <2>3, <2>4 DEF StartNext, TypeOK, callVars, history
  <1>2. ASSUME NEW op \in {"next", "resume", "suspend", "stop", "clear"}, Reached(op, c),
               Advance
        PROVE  job' \in Walks
    BY <1>2, ReachedType, AdvanceType
  <1>3. CASE SkipNext(c)
    BY <1>2, <1>3 DEF SkipNext, TypeOK, cmdVars, callVars, history
  <1>4. CASE ResumeNext(c)
    <2>1. job' \in {Idle} \cup Walks \cup Finishes /\ thrown' \in BOOLEAN
      BY <1>2, <1>4 DEF ResumeNext, TypeOK, Throw
    <2> QED
      BY <1>4, <2>1 DEF ResumeNext, TypeOK, cmdVars, callVars, history
  <1>5. CASE SuspendTest(c)
    <2>1. job \in Walks
      BY <1>5, ReachedType DEF SuspendTest
    <2>2. job' \in Walks
      BY <1>2, <1>5, <2>1 DEF SuspendTest, Walks
    <2> QED
      BY <1>5, <2>2 DEF SuspendTest, TypeOK, cmdVars, callVars, history
  <1>6. CASE SuspendNext(c)
    <2>1. job' \in {Idle} \cup Walks \cup Finishes /\ thrown' \in BOOLEAN
      BY <1>2, <1>6 DEF SuspendNext, TypeOK, Throw
    <2>2. st' \in [Cmd -> State]
      BY <1>6 DEF SuspendNext, TypeOK, State
    <2> QED
      BY <1>6, <2>1, <2>2 DEF SuspendNext, TypeOK, callVars, history
  <1>7. CASE StopNext(c)
    <2>1. job' \in {Idle} \cup Walks \cup Finishes /\ thrown' \in BOOLEAN
      BY <1>2, <1>7 DEF StopNext, TypeOK, Throw
    <2>2. st' \in [Cmd -> State]
      BY <1>7 DEF StopNext, TypeOK, State
    <2>3. commands' \in Seq(Cmd)
      <3>1. job.todo # <<>> /\ job.todo = commands
        BY <1>7, ReachedType DEF StopNext, WalksRight
      <3>2. commands \in Seq(Cmd)
        BY DEF TypeOK
      <3>3. Tail(commands) \in Seq(Cmd)
        BY <3>1, <3>2, HeadTailProperties
      <3> QED
        BY <1>7, <3>2, <3>3 DEF StopNext
    <2> QED
      BY <1>7, <2>1, <2>2, <2>3 DEF StopNext, TypeOK, callVars, history
  <1>8. CASE ClearNext(c)
    <2>1. job' \in Walks
      BY <1>2, <1>8 DEF ClearNext
    <2>2. st' \in [Cmd -> State]
      BY <1>8 DEF ClearNext, TypeOK, State
    <2> QED
      BY <1>8, <2>1, <2>2 DEF ClearNext, TypeOK, callVars, history
  <1> QED
    BY <1>1, <1>3, <1>4, <1>5, <1>6, <1>7, <1>8 DEF WalkStep

(* A step keeps the types. *)
LEMMA TypeStep == TypeOK /\ ResultsTold /\ WalksRight /\ [Next]_vars => TypeOK'
PROOF
  <1> SUFFICES ASSUME TypeOK, ResultsTold, WalksRight, [Next]_vars
               PROVE  TypeOK'
    OBVIOUS
  <1>1. CASE UNCHANGED vars
    BY <1>1 DEF vars, loopVars, cmdVars, callVars, history, TypeOK
  <1>2. CASE \E k \in Client : ClientStep(k) \/ Invoke(k)
    BY <1>2, ClientTypes
  <1>3. CASE \E c \in Cmd : (\E r \in Result : CommandFinish(c, r)) \/ CommandEmit(c)
    BY <1>3, CommandTypes
  <1>4. CASE HandleState \/ HandleMode \/ HandlePush \/ HandleEvent \/ LoopFinish \/ WalkEnd
    BY <1>4, HandleTypes
  <1>5. CASE \E c \in Cmd : WalkStep(c)
    BY <1>5, WalkTypes
  <1> QED
    BY <1>1, <1>2, <1>3, <1>4, <1>5, Zenon DEF Next, LoopStep, WalkStep
------------------------------------------------------------------------------
(* What is told of the commands is their result. *)

(* The clients leave the commands, the loop and what it was told alone. *)
LEMMA ClientQuiet ==
  ASSUME NEW k \in Client, ClientStep(k)
  PROVE  UNCHANGED <<loopVars, cmdVars, inbox, results>>
PROOF
  BY DEF ClientStep, CallState, CallOther, CallPush

(* What was told stays true if what is finished stays what it is, and what is
   new is true. *)
LEMMA ToldKept ==
  ASSUME TypeOK, TypeOK', ResultsTold,
         \A c \in Cmd : st[c] = "FINISHED" =>
           st'[c] = "FINISHED" /\ outcome'[c] = outcome[c],
         \A x : In(inbox', x) /\ x.op = "event" =>
           In(inbox, x) \/ (st'[x.cmd] = "FINISHED" /\ x.result = outcome'[x.cmd])
  PROVE  \A i \in DOMAIN inbox' :
           inbox'[i].op = "event" => /\ st'[inbox'[i].cmd] = "FINISHED"
                                     /\ inbox'[i].result = outcome'[inbox'[i].cmd]
PROOF
  <1> SUFFICES ASSUME NEW i \in DOMAIN inbox', inbox'[i].op = "event"
               PROVE  /\ st'[inbox'[i].cmd] = "FINISHED"
                      /\ inbox'[i].result = outcome'[inbox'[i].cmd]
    OBVIOUS
  <1>1. PICK x : x = inbox'[i]
    OBVIOUS
  <1>2. In(inbox', x) /\ x.op = "event"
    BY <1>1 DEF In
  <1>3. CASE In(inbox, x)
    <2>1. PICK j \in DOMAIN inbox : inbox[j] = x
      BY <1>3 DEF In
    <2>2. x \in Lambda
      BY <2>1, ElementOfSeq, LenProperties DEF TypeOK
    <2>3. x.cmd \in Cmd /\ st[x.cmd] = "FINISHED" /\ x.result = outcome[x.cmd]
      BY <1>2, <2>1, <2>2, LambdaParts DEF ResultsTold
    <2> QED
      BY <1>1, <2>3
  <1>4. CASE st'[x.cmd] = "FINISHED" /\ x.result = outcome'[x.cmd]
    BY <1>1, <1>4
  <1> QED
    BY <1>2, <1>3, <1>4

(* The walks other than the one that starts commands leave the results alone. *)
LEMMA WalkResults ==
  ASSUME TypeOK, NEW c \in Cmd,
         SkipNext(c) \/ ResumeNext(c) \/ SuspendTest(c) \/ SuspendNext(c)
           \/ StopNext(c) \/ ClearNext(c)
  PROVE  /\ UNCHANGED <<outcome, emitting, inbox, calling, subs, mode, open, switched>>
         /\ \A d \in Cmd : /\ st'[d] = "FINISHED" <=> st[d] = "FINISHED"
                           /\ st'[d] = "ACTIVE" => st[d] = "ACTIVE"
                           /\ st'[d] = "SUSPENDED" => st[d] \in {"ACTIVE", "SUSPENDED"}
PROOF
  <1>1. UNCHANGED <<outcome, emitting, inbox, calling, subs, mode, open, switched>>
    BY DEF SkipNext, ResumeNext, SuspendTest, SuspendNext, StopNext, ClearNext, cmdVars,
           callVars, history
  <1>2. \/ UNCHANGED st
        \/ /\ st[c] = "ACTIVE"
           /\ \/ st' = [st EXCEPT ![c] = "SUSPENDED"]
              \/ st' = [st EXCEPT ![c] = "INACTIVE"]
    BY DEF SkipNext, ResumeNext, SuspendTest, SuspendNext, StopNext, ClearNext, cmdVars
  <1>3. st \in [Cmd -> State]
    BY DEF TypeOK
  <1> QED
    BY <1>1, <1>2, <1>3

(* A command that is finished stays what it is, and what is told is true. *)
LEMMA ResultsStep == TypeOK /\ TypeOK' /\ ResultsTold /\ [Next]_vars => ResultsTold'
PROOF
  <1> SUFFICES ASSUME TypeOK, TypeOK', ResultsTold, [Next]_vars
               PROVE  ResultsTold'
    OBVIOUS
  <1>1. ASSUME UNCHANGED <<st, outcome, emitting, calling>>,
               \A x : In(inbox', x) => In(inbox, x)
        PROVE  ResultsTold'
    <2>1. \A i \in DOMAIN inbox' :
            inbox'[i].op = "event" => /\ st'[inbox'[i].cmd] = "FINISHED"
                                      /\ inbox'[i].result = outcome'[inbox'[i].cmd]
      BY <1>1, ToldKept
    <2> QED
      BY <1>1, <2>1 DEF ResultsTold
  <1>2. inbox # <<>> => \A x : In(Tail(inbox), x) => In(inbox, x)
    BY TailIn DEF TypeOK
  <1>3. CASE UNCHANGED vars
    BY <1>1, <1>3 DEF vars, cmdVars, callVars
  <1>4. ASSUME NEW k \in Client, ClientStep(k)
        PROVE  ResultsTold'
    <2>1. UNCHANGED <<st, outcome, emitting, inbox>>
      BY <1>4, ClientQuiet DEF cmdVars
    <2>2. \A l \in Client : calling'[l].op # "event"
      <3>1. \E x : x.op # "event" /\ calling' = [calling EXCEPT ![k] = x]
        BY <1>4 DEF ClientStep, CallState, CallOther, CallPush
      <3> QED
        BY <3>1 DEF TypeOK, ResultsTold
    <2> QED
      BY <2>1, <2>2 DEF ResultsTold
  <1>5. ASSUME NEW k \in Client, Invoke(k)
        PROVE  ResultsTold'
    <2>1. UNCHANGED <<st, outcome, emitting>>
      BY <1>5 DEF Invoke, cmdVars
    <2>2. calling[k] \in Lambda /\ calling[k].op # "event" /\ inbox \in Seq(Lambda)
      BY <1>5 DEF Invoke, TypeOK, ResultsTold
    <2>3. \A x : In(inbox', x) /\ x.op = "event" => In(inbox, x)
      BY <1>5, <2>2, AppendIn DEF Invoke
    <2>4. \A l \in Client : calling'[l].op # "event"
      BY <1>5 DEF Invoke, None, TypeOK, ResultsTold
    <2>5. \A i \in DOMAIN inbox' :
            inbox'[i].op = "event" => /\ st'[inbox'[i].cmd] = "FINISHED"
                                      /\ inbox'[i].result = outcome'[inbox'[i].cmd]
      BY <2>1, <2>3, ToldKept
    <2> QED
      BY <2>1, <2>4, <2>5 DEF ResultsTold
  <1>6. ASSUME NEW c \in Cmd, NEW r \in Result, CommandFinish(c, r)
        PROVE  ResultsTold'
    <2>1. /\ \A d \in Cmd : d # c => st'[d] = st[d] /\ outcome'[d] = outcome[d]
          /\ st'[c] = "FINISHED" /\ outcome'[c] = r /\ st[c] = "ACTIVE"
          /\ UNCHANGED <<inbox, calling>> /\ emitting' = emitting \cup {c}
      BY <1>6 DEF CommandFinish, TypeOK, callVars
    <2>2. \A i \in DOMAIN inbox' :
            inbox'[i].op = "event" => /\ st'[inbox'[i].cmd] = "FINISHED"
                                      /\ inbox'[i].result = outcome'[inbox'[i].cmd]
      BY <2>1, ToldKept
    <2>3. r # "NONE"
      BY DEF Result
    <2>4. \A d \in Cmd : st'[d] = "FINISHED" <=> outcome'[d] # "NONE"
      BY <2>1, <2>3 DEF ResultsTold
    <2>5. \A d \in emitting' : st'[d] = "FINISHED"
      BY <2>1 DEF ResultsTold, TypeOK
    <2> QED
      BY <2>1, <2>2, <2>4, <2>5 DEF ResultsTold
  <1>7. ASSUME NEW c \in Cmd, CommandEmit(c)
        PROVE  ResultsTold'
    <2>1. /\ UNCHANGED <<st, outcome, calling>> /\ emitting' = emitting \ {c}
          /\ inbox' = inbox \o Emitted(c) /\ st[c] = "FINISHED"
          /\ outcome'[c] \in Result /\ subs'[c] \in Nat
      BY <1>7 DEF CommandEmit, callVars, ResultsTold, TypeOK
    <2>2. \A x : In(inbox', x) /\ x.op = "event" =>
            In(inbox, x) \/ (st'[x.cmd] = "FINISHED" /\ x.result = outcome'[x.cmd])
      <3>1. Emitted(c) \in Seq(Lambda) /\ inbox \in Seq(Lambda)
        BY <2>1, EmittedEvents DEF TypeOK
      <3>2. \A x : In(inbox', x) => In(inbox, x) \/ In(Emitted(c), x)
        BY <2>1, <3>1, ConcatIn
      <3>3. \A x : In(Emitted(c), x) => x = [op |-> "event", cmd |-> c, result |-> outcome'[c]]
        BY <2>1, EmittedEvents DEF In
      <3> QED
        BY <2>1, <3>2, <3>3
    <2>3. \A i \in DOMAIN inbox' :
            inbox'[i].op = "event" => /\ st'[inbox'[i].cmd] = "FINISHED"
                                      /\ inbox'[i].result = outcome'[inbox'[i].cmd]
      BY <2>1, <2>2, ToldKept
    <2> QED
      BY <2>1, <2>3 DEF ResultsTold
  <1>8. CASE HandleState \/ HandleMode \/ HandlePush \/ HandleEvent
    <2>1. /\ UNCHANGED <<st, outcome, emitting, calling>>
          /\ inbox # <<>> /\ inbox' = Tail(inbox)
      BY <1>8 DEF HandleState, HandleMode, HandlePush, HandleEvent, Turn, cmdVars, callVars
    <2> QED
      BY <1>1, <1>2, <2>1
  <1>9. CASE LoopFinish \/ WalkEnd
    BY <1>1, <1>9 DEF LoopFinish, WalkEnd, cmdVars, callVars
  <1>10. ASSUME NEW c \in Cmd, StartNext(c)
         PROVE  ResultsTold'
    <2>1. UNCHANGED <<emitting, calling>> /\ subs'[c] \in Nat
      BY <1>10, StartNextCases DEF callVars
    <2>2. CASE UNCHANGED <<st, outcome, inbox>>
      BY <1>1, <2>1, <2>2
    <2>3. CASE /\ st[c] = "INACTIVE" /\ st' = [st EXCEPT ![c] = "ACTIVE"]
               /\ UNCHANGED <<outcome, inbox>>
      <3>1. /\ \A d \in Cmd : d # c => st'[d] = st[d]
            /\ st'[c] = "ACTIVE"
        BY <2>3 DEF TypeOK
      <3>2. \A i \in DOMAIN inbox' :
              inbox'[i].op = "event" => /\ st'[inbox'[i].cmd] = "FINISHED"
                                        /\ inbox'[i].result = outcome'[inbox'[i].cmd]
        BY <2>3, <3>1, ToldKept
      <3>3. \A d \in emitting : d \in Cmd /\ d # c
        BY <2>3 DEF ResultsTold, TypeOK
      <3> QED
        BY <2>1, <2>3, <3>1, <3>2, <3>3 DEF ResultsTold
    <2>4. CASE /\ st[c] = "INACTIVE" /\ st' = [st EXCEPT ![c] = "FINISHED"]
               /\ outcome' = [outcome EXCEPT ![c] = "SUCCESS"]
               /\ inbox' = inbox \o Emitted(c)
      <3>1. /\ \A d \in Cmd : d # c => st'[d] = st[d] /\ outcome'[d] = outcome[d]
            /\ st'[c] = "FINISHED" /\ outcome'[c] = "SUCCESS" /\ outcome'[c] \in Result
        BY <2>4 DEF TypeOK, Result
      <3>2. \A x : In(inbox', x) /\ x.op = "event" =>
              In(inbox, x) \/ (st'[x.cmd] = "FINISHED" /\ x.result = outcome'[x.cmd])
        <4>1. Emitted(c) \in Seq(Lambda) /\ inbox \in Seq(Lambda)
          BY <2>1, <3>1, EmittedEvents DEF TypeOK
        <4>2. \A x : In(inbox', x) => In(inbox, x) \/ In(Emitted(c), x)
          BY <2>4, <4>1, ConcatIn
        <4>3. \A x : In(Emitted(c), x) =>
                x = [op |-> "event", cmd |-> c, result |-> outcome'[c]]
          BY <2>1, <3>1, EmittedEvents DEF In
        <4> QED
          BY <3>1, <4>2, <4>3
      <3>3. \A i \in DOMAIN inbox' :
              inbox'[i].op = "event" => /\ st'[inbox'[i].cmd] = "FINISHED"
                                        /\ inbox'[i].result = outcome'[inbox'[i].cmd]
        BY <2>4, <3>1, <3>2, ToldKept
      <3>4. \A d \in emitting : d \in Cmd
        BY DEF TypeOK
      <3> QED
        BY <2>1, <2>4, <3>1, <3>3, <3>4 DEF ResultsTold
    <2> QED
      BY <1>10, <2>2, <2>3, <2>4, StartNextCases
  <1>11. ASSUME NEW c \in Cmd,
                SkipNext(c) \/ ResumeNext(c) \/ SuspendTest(c) \/ SuspendNext(c)
                  \/ StopNext(c) \/ ClearNext(c)
         PROVE  ResultsTold'
    <2>1. /\ UNCHANGED <<outcome, emitting, inbox, calling>>
          /\ \A d \in Cmd : st'[d] = "FINISHED" <=> st[d] = "FINISHED"
      BY <1>11, WalkResults
    <2>2. \A i \in DOMAIN inbox' :
            inbox'[i].op = "event" => /\ st'[inbox'[i].cmd] = "FINISHED"
                                      /\ inbox'[i].result = outcome'[inbox'[i].cmd]
      BY <2>1, ToldKept
    <2>3. \A d \in emitting : d \in Cmd
      BY DEF TypeOK
    <2> QED
      BY <2>1, <2>2, <2>3 DEF ResultsTold
  <1> QED
    BY <1>3, <1>4, <1>5, <1>6, <1>7, <1>8, <1>9, <1>10, <1>11, Zenon DEF Next, LoopStep
------------------------------------------------------------------------------
(* The walks. *)

(* nextCommand() is about what is in the loop, and ends an empty one only. *)
LEMMA NextCommandRight ==
  ASSUME NEW cmds \in Seq(Cmd), NEW j, j = NextCommand(cmds)
  PROVE  /\ j.op = "next" => /\ \A c \in Cmd : In(j.todo, c) => In(cmds, c)
                             /\ j.todo # <<>> /\ ~Multi => j.todo = <<Head(cmds)>>
         /\ j.op # "stop"
         /\ j = Finish("SUCCESS") => cmds = <<>>
         /\ j # Finish("FAILED")
PROOF
  <1>1. CASE cmds # <<>>
    <2>1. j = Walk("next", IF Multi THEN cmds ELSE <<Head(cmds)>>)
      BY <1>1 DEF NextCommand
    <2>2. /\ j.op = "next" /\ j.op # "stop" /\ j.op # "finish"
          /\ j.todo = IF Multi THEN cmds ELSE <<Head(cmds)>>
      BY <2>1 DEF Walk
    <2>3. In(cmds, Head(cmds))
      BY <1>1, TailIn
    <2>4. \A c : In(<<Head(cmds)>>, c) => c = Head(cmds)
      BY DEF In
    <2>5. \A r : j # Finish(r)
      BY <2>2 DEF Finish
    <2> QED
      BY <2>2, <2>3, <2>4, <2>5
  <1>2. CASE cmds = <<>>
    BY <1>2 DEF NextCommand, Idle, Finish
  <1> QED
    BY <1>1, <1>2

(* A walk over the commands goes on. *)
LEMMA AdvanceRight ==
  ASSUME TypeOK, WalksRight, NEW op \in {"next", "resume", "suspend", "stop", "clear"},
         NEW c, Reached(op, c), Advance, UNCHANGED <<commands, mode>>, op # "stop"
  PROVE  WalksRight'
PROOF
  <1>1. /\ job.op = op /\ job.todo \in Seq(Cmd) /\ job.todo # <<>> /\ job \in Walks
    BY ReachedType
  <1>2. job'.op = op /\ job'.todo = Tail(job.todo)
    BY <1>1, AdvanceType
  <1>3. \A d : In(Tail(job.todo), d) => In(job.todo, d)
    BY <1>1, TailIn
  <1>4. job.todo = <<Head(commands)>> => Tail(job.todo) = <<>>
    OBVIOUS
  <1>5. job' # Finish("SUCCESS")
    BY <1>2 DEF Finish
  <1> QED
    BY <1>1, <1>2, <1>3, <1>4, <1>5 DEF WalksRight, Multi

(* Walks stay what they are while the loop, the mode and the lambda do. *)
LEMMA WalksQuiet ==
  ASSUME WalksRight, UNCHANGED <<commands, job, mode>>
  PROVE  WalksRight'
PROOF
  BY DEF WalksRight, Multi

(* What a walk starts is in the loop, what it stops is what is left of it, and
   a loop that succeeds is empty. *)
LEMMA WalksStep ==
  TypeOK /\ TypeOK' /\ WalksRight /\ [Next]_vars => WalksRight'
PROOF
  <1> SUFFICES ASSUME TypeOK, TypeOK', WalksRight, [Next]_vars
               PROVE  WalksRight'
    OBVIOUS
  <1>1. CASE UNCHANGED vars
    BY <1>1, WalksQuiet DEF vars, loopVars
  <1>2. CASE \E k \in Client : ClientStep(k) \/ Invoke(k)
    BY <1>2, ClientQuiet, WalksQuiet DEF Invoke, loopVars
  <1>3. CASE \E c \in Cmd : (\E r \in Result : CommandFinish(c, r)) \/ CommandEmit(c)
    BY <1>3, WalksQuiet DEF CommandFinish, CommandEmit, loopVars
  <1>4. commands \in Seq(Cmd) /\ commands' \in Seq(Cmd)
    BY DEF TypeOK
  <1>5. CASE HandleState
    <2>1. UNCHANGED <<mode, commands>>
      BY <1>5 DEF HandleState
    <2>2. CASE job' = NextCommand(commands)
      BY <1>4, <2>1, <2>2, NextCommandRight DEF WalksRight, Multi
    <2>3. CASE \E op \in {"resume", "suspend"} : \E q : job' = Walk(op, q)
      BY <2>1, <2>3 DEF WalksRight, Walk, Finish
    <2>4. CASE \E op \in {"resume", "suspend", "stop", "clear"} : job' = Walk(op, commands)
      BY <2>1, <2>4 DEF WalksRight, Walk, Finish
    <2> QED
      BY <1>5, <2>2, <2>3, <2>4 DEF HandleState
  <1>6. CASE HandleMode
    BY <1>6 DEF HandleMode, Turn, WalksRight, Idle, Finish
  <1>7. CASE HandlePush
    <2>1. Once(commands')
      <3>1. inbox # <<>> /\ Head(inbox).op = "push" /\ inbox \in Seq(Lambda)
        BY <1>7 DEF HandlePush, Turn, TypeOK
      <3>2. PICK c : c = Head(inbox).cmd
        OBVIOUS
      <3>3. c \in Cmd
        BY <3>1, <3>2, HeadTailProperties, LambdaParts
      <3>4. CASE InLoop(c)
        BY <1>7, <3>2, <3>4 DEF HandlePush, WalksRight
      <3>5. CASE ~InLoop(c)
        <4>1. ~In(commands, c)
          BY <1>4, <3>5, LenProperties DEF InLoop, In
        <4> QED
          BY <1>4, <1>7, <3>2, <3>3, <3>5, <4>1, AppendIn DEF HandlePush, WalksRight
      <3> QED
        BY <3>4, <3>5
    <2>2. UNCHANGED mode /\ job' \in {Idle, NextCommand(commands')}
      BY <1>7 DEF HandlePush
    <2>3. CASE job' = Idle
      BY <2>1, <2>3 DEF WalksRight, Idle, Finish
    <2>4. CASE job' = NextCommand(commands')
      BY <1>4, <2>1, <2>2, <2>4, NextCommandRight DEF WalksRight, Multi
    <2> QED
      BY <2>2, <2>3, <2>4
  <1>8. CASE HandleEvent
    <2>1. Once(commands')
      <3>1. inbox # <<>> /\ Head(inbox).op = "event" /\ inbox \in Seq(Lambda)
        BY <1>8 DEF HandleEvent, Turn, TypeOK
      <3>2. PICK c : c = Head(inbox).cmd
        OBVIOUS
      <3>3. c \in Cmd
        BY <3>1, <3>2, HeadTailProperties, LambdaParts
      <3> QED
        BY <1>4, <1>8, <3>2, <3>3, WithoutIn DEF HandleEvent, WalksRight
    <2>2. UNCHANGED mode /\ job' \in {Finish("FAILED"), NextCommand(commands')}
      BY <1>8 DEF HandleEvent
    <2>3. CASE job' = Finish("FAILED")
      BY <2>1, <2>3 DEF WalksRight, Finish
    <2>4. CASE job' = NextCommand(commands')
      BY <1>4, <2>1, <2>2, <2>4, NextCommandRight DEF WalksRight, Multi
    <2> QED
      BY <2>2, <2>3, <2>4
  <1>9. CASE LoopFinish
    <2>1. Once(<<>>)
      BY DEF Once
    <2> QED
      BY <1>9, <2>1 DEF LoopFinish, WalksRight, Idle, Finish
  <1>10. CASE WalkEnd
    BY <1>10 DEF WalkEnd, WalksRight, Idle, Finish
  <1>11. ASSUME NEW c \in Cmd, WalkStep(c)
         PROVE  WalksRight'
    <2>1. ASSUME UNCHANGED <<commands, mode>>, Throw
          PROVE  WalksRight'
      BY <2>1, WalksQuiet DEF Throw
    <2>2. CASE StartNext(c)
      <3>1. Reached("next", c) /\ UNCHANGED <<commands, mode>> /\ (Advance \/ Throw)
        BY <2>2 DEF StartNext
      <3> QED
        BY <2>1, <3>1, AdvanceRight
    <2>3. CASE SkipNext(c)
      BY <2>3, AdvanceRight DEF SkipNext
    <2>4. CASE ResumeNext(c)
      <3>1. Reached("resume", c) /\ UNCHANGED <<commands, mode>> /\ (Advance \/ Throw)
        BY <2>4 DEF ResumeNext
      <3> QED
        BY <2>1, <3>1, AdvanceRight
    <2>5. CASE SuspendTest(c)
      <3>1. Reached("suspend", c) /\ UNCHANGED <<commands, mode>>
        BY <2>5 DEF SuspendTest
      <3>2. CASE Advance
        BY <3>1, <3>2, AdvanceRight
      <3>3. CASE job' = [job EXCEPT !.stage = "act"]
        <4>1. job \in Walks /\ job.op = "suspend"
          BY <3>1, ReachedType
        <4>2. job'.op = "suspend"
          BY <3>3, <4>1 DEF Walks
        <4> QED
          BY <3>1, <4>2 DEF WalksRight, Finish
      <3> QED
        BY <2>5, <3>2, <3>3 DEF SuspendTest
    <2>6. CASE SuspendNext(c)
      <3>1. Reached("suspend", c) /\ UNCHANGED <<commands, mode>> /\ (Advance \/ Throw)
        BY <2>6 DEF SuspendNext
      <3> QED
        BY <2>1, <3>1, AdvanceRight
    <2>7. CASE StopNext(c)
      <3>1. Reached("stop", c) /\ UNCHANGED mode
        BY <2>7 DEF StopNext
      <3>2. CASE Throw /\ UNCHANGED commands
        BY <2>1, <3>1, <3>2
      <3>3. CASE Advance /\ commands' = Tail(commands)
        <4>1. /\ job.op = "stop" /\ job.todo # <<>> /\ job.todo = commands
              /\ job'.op = "stop" /\ job'.todo = Tail(job.todo)
          BY <3>1, <3>3, ReachedType, AdvanceType DEF WalksRight
        <4>2. Once(Tail(commands))
          BY <1>4, <4>1, TailIn DEF WalksRight
        <4> QED
          BY <3>3, <4>1, <4>2 DEF WalksRight, Finish
      <3> QED
        BY <2>7, <3>2, <3>3 DEF StopNext
    <2>8. CASE ClearNext(c)
      BY <2>8, AdvanceRight DEF ClearNext
    <2> QED
      BY <1>11, <2>2, <2>3, <2>4, <2>5, <2>6, <2>7, <2>8 DEF WalkStep
  <1> QED
    BY <1>1, <1>2, <1>3, <1>5, <1>6, <1>7, <1>8, <1>9, <1>10, <1>11, Zenon
    DEF Next, LoopStep, WalkStep
------------------------------------------------------------------------------
(* What has been started is held. *)

(* A loop holds what it held, whoever of it is no longer running. *)
LEMMA HeldQuiet ==
  ASSUME Held, UNCHANGED <<commands, mode, open>>,
         \A c \in Cmd : /\ st'[c] = "ACTIVE" => st[c] = "ACTIVE"
                        /\ st'[c] = "SUSPENDED" => st[c] \in {"ACTIVE", "SUSPENDED"}
  PROVE  Held'
PROOF
  BY DEF Held, Multi

(* The command of an event is finished. *)
LEMMA EventParts ==
  ASSUME TypeOK, ResultsTold, inbox # <<>>, Head(inbox).op = "event"
  PROVE  /\ Head(inbox).cmd \in Cmd /\ st[Head(inbox).cmd] = "FINISHED"
         /\ Head(inbox).result = outcome[Head(inbox).cmd]
PROOF
  <1>1. /\ inbox \in Seq(Lambda) /\ Head(inbox) \in Lambda /\ Head(inbox) = inbox[1]
        /\ 1 \in DOMAIN inbox
    BY HeadTailProperties, EmptySeq, LenProperties DEF TypeOK
  <1> QED
    BY <1>1, LambdaParts DEF ResultsTold

(* A new command goes to the end of the loop, unless the loop has it. *)
LEMMA PushParts ==
  ASSUME TypeOK, HandlePush
  PROVE  /\ \A d : In(commands, d) => In(commands', d)
         /\ commands # <<>> => Head(commands') = Head(commands)
PROOF
  <1>1. inbox # <<>> /\ Head(inbox).op = "push" /\ inbox \in Seq(Lambda)
    BY DEF HandlePush, Turn, TypeOK
  <1>2. PICK c : c = Head(inbox).cmd
    OBVIOUS
  <1>3. c \in Cmd /\ commands \in Seq(Cmd)
    BY <1>1, <1>2, HeadTailProperties, LambdaParts DEF TypeOK
  <1>4. CASE InLoop(c)
    BY <1>2, <1>4 DEF HandlePush
  <1>5. CASE ~InLoop(c)
    <2>1. commands' = Append(commands, c)
      BY <1>2, <1>5 DEF HandlePush
    <2>2. commands # <<>> => Head(Append(commands, c)) = Head(commands)
      BY <1>3, HeadTailAppend
    <2> QED
      BY <1>3, <2>1, <2>2, AppendIn
  <1> QED
    BY <1>4, <1>5

(* A step keeps what is started in the loop, the first command alone unless the
   loop is for many. *)
LEMMA HeldStep ==
  TypeOK /\ TypeOK' /\ ResultsTold /\ WalksRight /\ Held /\ [Next]_vars => Held'
PROOF
  <1> SUFFICES ASSUME TypeOK, TypeOK', ResultsTold, WalksRight, Held, [Next]_vars
               PROVE  Held'
    OBVIOUS
  <1>1. CASE UNCHANGED vars
    BY <1>1, HeldQuiet DEF vars, loopVars, cmdVars
  <1>2. CASE \E k \in Client : ClientStep(k) \/ Invoke(k)
    BY <1>2, ClientQuiet, HeldQuiet DEF Invoke, loopVars, cmdVars
  <1>3. ASSUME NEW c \in Cmd, NEW r \in Result, CommandFinish(c, r)
        PROVE  Held'
    <2>1. st' = [st EXCEPT ![c] = "FINISHED"] /\ UNCHANGED <<commands, mode, open>>
      BY <1>3 DEF CommandFinish, loopVars
    <2> QED
      BY <2>1, HeldQuiet DEF TypeOK
  <1>4. CASE \E c \in Cmd : CommandEmit(c)
    BY <1>4, HeldQuiet DEF CommandEmit, loopVars
  <1>5. commands \in Seq(Cmd) /\ \A d : ~In(<<>>, d)
    BY DEF TypeOK, In
  <1>6. CASE HandleState
    BY <1>6, HeldQuiet DEF HandleState, cmdVars
  <1>7. CASE HandleMode
    <2>1. UNCHANGED <<st, commands, open>> /\ (mode' = mode \/ commands = <<>>)
      BY <1>7 DEF HandleMode, cmdVars
    <2> QED
      BY <1>5, <2>1 DEF Held, Multi
  <1>8. CASE HandlePush
    <2>1. UNCHANGED <<st, mode, open>>
      BY <1>8 DEF HandlePush, cmdVars
    <2> QED
      BY <1>5, <1>8, <2>1, PushParts DEF Held, Multi
  <1>9. CASE HandleEvent
    <2>1. PICK c : c = Head(inbox).cmd
      OBVIOUS
    <2>2. c \in Cmd /\ st[c] = "FINISHED"
      BY <1>9, <2>1, EventParts DEF HandleEvent, Turn
    <2>3. UNCHANGED <<st, mode, open>> /\ commands' = Without(c)
      BY <1>9, <2>1 DEF HandleEvent, cmdVars
    <2>4. /\ \A d : d # c /\ In(commands, d) => In(commands', d)
          /\ commands # <<>> /\ Head(commands) # c => Head(commands') = Head(commands)
      BY <1>5, <2>2, <2>3, WithoutIn DEF WalksRight
    <2> QED
      BY <1>5, <2>2, <2>3, <2>4 DEF Held, Multi
  <1>10. CASE LoopFinish
    BY <1>10 DEF LoopFinish, Held, cmdVars
  <1>11. CASE WalkEnd
    BY <1>11, HeldQuiet DEF WalkEnd, cmdVars
  <1>12. ASSUME NEW c \in Cmd, StartNext(c)
         PROVE  Held'
    <2>1. UNCHANGED <<commands, mode, open>>
      BY <1>12 DEF StartNext
    <2>2. CASE UNCHANGED st
      BY <2>1, <2>2, HeldQuiet
    <2>3. CASE st' = [st EXCEPT ![c] = "FINISHED"]
      BY <2>1, <2>3, HeldQuiet DEF TypeOK
    <2>4. CASE st' = [st EXCEPT ![c] = "ACTIVE"]
      <3>1. /\ job.op = "next" /\ job.todo \in Seq(Cmd) /\ job.todo # <<>>
            /\ c = Head(job.todo)
        BY <1>12, ReachedType DEF StartNext
      <3>2. In(commands, c)
        BY <3>1, TailIn DEF WalksRight
      <3>3. ~Multi => c = Head(commands)
        BY <3>1 DEF WalksRight
      <3>4. st'[c] = "ACTIVE" /\ \A d \in Cmd : d # c => st'[d] = st[d]
        BY <2>4 DEF TypeOK
      <3> QED
        BY <2>1, <3>2, <3>3, <3>4 DEF Held, Multi
    <2> QED
      BY <1>12, <2>2, <2>3, <2>4, StartNextCases
  <1>13. ASSUME NEW c \in Cmd, SkipNext(c) \/ ResumeNext(c) \/ SuspendTest(c)
                                 \/ SuspendNext(c) \/ ClearNext(c)
         PROVE  Held'
    <2>1. UNCHANGED commands
      BY <1>13 DEF SkipNext, ResumeNext, SuspendTest, SuspendNext, ClearNext
    <2> QED
      BY <1>13, <2>1, WalkResults, HeldQuiet
  <1>14. ASSUME NEW c \in Cmd, StopNext(c)
         PROVE  Held'
    <2>1. /\ job.todo # <<>> /\ job.todo = commands /\ c = Head(commands)
          /\ UNCHANGED <<mode, open>>
      BY <1>14, ReachedType DEF StopNext, WalksRight
    <2>2. CASE UNCHANGED <<st, commands>>
      BY <2>1, <2>2, HeldQuiet
    <2>3. CASE st' = [st EXCEPT ![c] = "INACTIVE"] /\ commands' = Tail(commands)
      <3>1. \A d : In(commands, d) <=> d = c \/ In(Tail(commands), d)
        BY <1>5, <2>1, TailIn
      <3>2. st'[c] = "INACTIVE" /\ \A d \in Cmd : d # c => st'[d] = st[d]
        BY <2>3 DEF TypeOK
      <3> QED
        BY <2>1, <2>3, <3>1, <3>2 DEF Held, Multi
    <2> QED
      BY <1>14, <2>2, <2>3 DEF StopNext
  <1> QED
    BY <1>1, <1>2, <1>3, <1>4, <1>6, <1>7, <1>8, <1>9, <1>10, <1>11, <1>12, <1>13, <1>14, Zenon
    DEF Next, LoopStep

------------------------------------------------------------------------------
(* What has failed is known. *)

(* A mode is set after somebody has called setMode. *)
LEMMA SwitchedStep ==
  ASSUME TypeOK, TypeOK', ResultsTold, Called("mode") => switched, [Next]_vars
  PROVE  /\ Called("mode")' => switched'
         /\ switched => switched'
PROOF
  <1>1. ASSUME UNCHANGED <<calling, switched>>,
               \A x : In(inbox', x) /\ x.op = "mode" => In(inbox, x)
        PROVE  /\ Called("mode")' => switched'
               /\ switched => switched'
    BY <1>1 DEF Called, In
  <1>2. inbox # <<>> => \A x : In(Tail(inbox), x) => In(inbox, x)
    BY TailIn DEF TypeOK
  <1>3. CASE UNCHANGED vars
    BY <1>1, <1>3 DEF vars, callVars, history
  <1>4. ASSUME NEW k \in Client, ClientStep(k)
        PROVE  /\ Called("mode")' => switched'
               /\ switched => switched'
    <2>1. UNCHANGED inbox
      BY <1>4, ClientQuiet
    <2>2. \E op : /\ switched' = (switched \/ op = "mode")
                  /\ \E x : x.op = op /\ calling' = [calling EXCEPT ![k] = x]
      BY <1>4 DEF ClientStep, CallState, CallOther, CallPush, MayCall
    <2>3. calling \in [Client -> {None} \cup Lambda]
      BY DEF TypeOK
    <2> QED
      BY <2>1, <2>2, <2>3 DEF Called
  <1>5. ASSUME NEW k \in Client, Invoke(k)
        PROVE  /\ Called("mode")' => switched'
               /\ switched => switched'
    <2>1. UNCHANGED switched /\ calling' = [calling EXCEPT ![k] = None]
      BY <1>5 DEF Invoke, history
    <2>2. calling \in [Client -> {None} \cup Lambda] /\ inbox \in Seq(Lambda)
      BY DEF TypeOK
    <2>3. calling[k] \in Lambda
      BY <1>5, <2>2 DEF Invoke
    <2>4. \A x : In(inbox', x) => In(inbox, x) \/ x = calling[k]
      BY <1>5, <2>2, <2>3, AppendIn DEF Invoke
    <2>5. \A l \in Client : calling'[l].op = "mode" => calling[l].op = "mode"
      BY <2>1, <2>2 DEF None
    <2> QED
      BY <2>1, <2>4, <2>5 DEF Called, In
  <1>6. CASE \E c \in Cmd, r \in Result : CommandFinish(c, r)
    BY <1>1, <1>6 DEF CommandFinish, callVars, history
  <1>7. ASSUME NEW c \in Cmd, UNCHANGED <<calling, switched>>, inbox' = inbox \o Emitted(c),
               subs'[c] \in Nat, outcome'[c] \in Result
        PROVE  /\ Called("mode")' => switched'
               /\ switched => switched'
    <2>1. Emitted(c) \in Seq(Lambda) /\ inbox \in Seq(Lambda)
      BY <1>7, EmittedEvents DEF TypeOK
    <2>2. \A x : In(inbox', x) => In(inbox, x) \/ In(Emitted(c), x)
      BY <1>7, <2>1, ConcatIn
    <2>3. \A x : In(Emitted(c), x) => x.op = "event"
      BY <1>7, EmittedEvents DEF In
    <2> QED
      BY <1>1, <1>7, <2>2, <2>3
  <1>8. ASSUME NEW c \in Cmd, CommandEmit(c)
        PROVE  /\ Called("mode")' => switched'
               /\ switched => switched'
    <2>1. subs'[c] \in Nat /\ outcome'[c] \in Result
      BY <1>8 DEF CommandEmit, TypeOK, ResultsTold
    <2> QED
      BY <1>7, <1>8, <2>1 DEF CommandEmit, callVars, history
  <1>9. CASE HandleState \/ HandleMode \/ HandlePush \/ HandleEvent
    <2>1. /\ UNCHANGED <<calling, switched>>
          /\ inbox # <<>> /\ inbox' = Tail(inbox)
      BY <1>9 DEF HandleState, HandleMode, HandlePush, HandleEvent, Turn, callVars, history
    <2> QED
      BY <1>1, <1>2, <2>1
  <1>10. CASE LoopFinish \/ WalkEnd
    BY <1>1, <1>10 DEF LoopFinish, WalkEnd, callVars, history
  <1>11. ASSUME NEW c \in Cmd, StartNext(c)
         PROVE  /\ Called("mode")' => switched'
                /\ switched => switched'
    <2>1. UNCHANGED <<calling, switched>> /\ subs'[c] \in Nat
      BY <1>11, StartNextCases DEF callVars, history
    <2>2. CASE UNCHANGED inbox
      BY <1>1, <2>1, <2>2
    <2>3. CASE /\ outcome' = [outcome EXCEPT ![c] = "SUCCESS"]
               /\ inbox' = inbox \o Emitted(c)
      <3>1. outcome'[c] \in Result
        BY <2>3 DEF TypeOK, Result
      <3> QED
        BY <1>7, <2>1, <2>3, <3>1
    <2> QED
      BY <1>11, <2>2, <2>3, StartNextCases
  <1>12. CASE \E c \in Cmd : SkipNext(c) \/ ResumeNext(c) \/ SuspendTest(c)
                               \/ SuspendNext(c) \/ StopNext(c) \/ ClearNext(c)
    BY <1>1, <1>12, WalkResults
  <1> QED
    BY <1>3, <1>4, <1>5, <1>6, <1>8, <1>9, <1>10, <1>11, <1>12, Zenon DEF Next, LoopStep

(* What failed stays known while the loop, the mode and the results do. *)
LEMMA FailuresQuiet ==
  ASSUME FailuresKnown, UNCHANGED <<outcome, mode, open>>, switched => switched',
         \A c \in Cmd : In(commands, c) => In(commands', c) \/ outcome[c] # "FAILED",
         job' = job \/ job # Finish("FAILED") \/ ~open
  PROVE  open' /\ ~switched' /\ Transaction' /\ ~Continuous' =>
           \A c \in Cmd : outcome'[c] = "FAILED" => In(commands', c) \/ job' = Finish("FAILED")
PROOF
  BY DEF FailuresKnown, Transaction, Continuous

(* A step keeps what failed in the loop, or makes the loop fail. *)
LEMMA FailuresStep ==
  TypeOK /\ TypeOK' /\ ResultsTold /\ WalksRight /\ Held /\ FailuresKnown /\ [Next]_vars
    => FailuresKnown'
PROOF
  <1> SUFFICES ASSUME TypeOK, TypeOK', ResultsTold, WalksRight, Held, FailuresKnown,
                      [Next]_vars
               PROVE  FailuresKnown'
    OBVIOUS
  <1> DEFINE Known == open /\ ~switched /\ Transaction /\ ~Continuous =>
               \A c \in Cmd : outcome[c] = "FAILED" => In(commands, c) \/ job = Finish("FAILED")
  <1>0. (Called("mode")' => switched') /\ (switched => switched')
    BY SwitchedStep DEF FailuresKnown
  <1>q. SUFFICES Known'
    BY <1>0 DEF FailuresKnown
  <1>1. CASE UNCHANGED vars
    BY <1>0, <1>1, FailuresQuiet DEF vars, loopVars, cmdVars
  <1>2. CASE \E k \in Client : ClientStep(k) \/ Invoke(k)
    <2>1. UNCHANGED <<outcome, mode, open, commands, job>>
      BY <1>2, ClientQuiet DEF Invoke, loopVars, cmdVars
    <2> QED
      BY <1>0, <2>1, FailuresQuiet
  <1>3. ASSUME NEW c \in Cmd, NEW r \in Result, CommandFinish(c, r)
        PROVE  Known'
    <2>1. /\ UNCHANGED <<commands, mode, open, job, switched>> /\ st[c] = "ACTIVE"
          /\ \A d \in Cmd : d # c => outcome'[d] = outcome[d]
      BY <1>3 DEF CommandFinish, loopVars, TypeOK, callVars, history
    <2>2. open => In(commands, c)
      BY <2>1 DEF Held
    <2> QED
      BY <2>1, <2>2 DEF FailuresKnown, Transaction, Continuous
  <1>4. CASE \E c \in Cmd : CommandEmit(c)
    <2>1. UNCHANGED <<outcome, mode, open, commands, job>>
      BY <1>4 DEF CommandEmit, loopVars
    <2> QED
      BY <1>0, <2>1, FailuresQuiet
  <1>5. Turn => job # Finish("FAILED")
    BY DEF Turn, Idle, Finish
  <1>6. CASE HandleState
    <2>1. UNCHANGED <<outcome, mode, open, commands>> /\ job # Finish("FAILED")
      BY <1>5, <1>6 DEF HandleState, cmdVars
    <2> QED
      BY <1>0, <2>1, FailuresQuiet
  <1>7. CASE HandleMode
    <2>1. switched
      <3>1. inbox # <<>> /\ inbox \in Seq(Lambda) /\ Head(inbox).op = "mode"
        BY <1>7 DEF HandleMode, Turn, TypeOK
      <3>2. 1 \in DOMAIN inbox /\ inbox[1].op = "mode"
        BY <3>1, HeadTailProperties, LenProperties, EmptySeq
      <3> QED
        BY <3>2 DEF FailuresKnown, Called
    <2> QED
      BY <1>0, <2>1
  <1>8. CASE HandlePush
    <2>1. UNCHANGED <<outcome, mode, open>> /\ job # Finish("FAILED")
      BY <1>5, <1>8 DEF HandlePush, cmdVars
    <2> QED
      BY <1>0, <1>8, <2>1, PushParts, FailuresQuiet
  <1>9. CASE HandleEvent
    <2>1. PICK c : c = Head(inbox).cmd
      OBVIOUS
    <2>2. c \in Cmd /\ Head(inbox).result = outcome[c]
      BY <1>9, <2>1, EventParts DEF HandleEvent, Turn
    <2>3. /\ UNCHANGED <<outcome, mode, open>> /\ commands' = Without(c)
          /\ job # Finish("FAILED")
      BY <1>5, <1>9, <2>1 DEF HandleEvent, cmdVars
    <2>4. \A d : d # c /\ In(commands, d) => In(commands', d)
      BY <2>2, <2>3, WithoutIn DEF WalksRight, TypeOK
    <2>5. CASE outcome[c] # "FAILED"
      <3>1. \A d \in Cmd : In(commands, d) => In(commands', d) \/ outcome[d] # "FAILED"
        BY <2>4, <2>5
      <3> QED
        BY <1>0, <2>3, <3>1, FailuresQuiet
    <2>6. CASE outcome[c] = "FAILED" /\ ~Continuous /\ Transaction
      <3>1. job' = Finish("FAILED")
        BY <1>9, <2>2, <2>6 DEF HandleEvent
      <3> QED
        BY <3>1
    <2>7. CASE ~(~Continuous /\ Transaction)
      BY <2>3, <2>7 DEF Continuous, Transaction
    <2> QED
      BY <2>5, <2>6, <2>7
  <1>10. CASE LoopFinish
    BY <1>10 DEF LoopFinish
  <1>11. CASE WalkEnd
    <2>1. UNCHANGED <<outcome, mode, open, commands>> /\ job # Finish("FAILED")
      BY <1>11 DEF WalkEnd, cmdVars, Finish
    <2> QED
      BY <1>0, <2>1, FailuresQuiet
  <1>12. ASSUME NEW op \in {"next", "resume", "suspend", "stop", "clear"}, NEW c,
                Reached(op, c)
         PROVE  job # Finish("FAILED")
    BY <1>12, ReachedType DEF Finish
  <1>13. ASSUME NEW c \in Cmd, StartNext(c)
         PROVE  Known'
    <2>1. UNCHANGED <<commands, mode, open, switched>> /\ job # Finish("FAILED")
      BY <1>12, <1>13 DEF StartNext, callVars, history
    <2>2. \A d \in Cmd : outcome'[d] = "FAILED" => outcome[d] = "FAILED"
      BY <1>13, StartNextCases DEF TypeOK
    <2> QED
      BY <2>1, <2>2 DEF FailuresKnown, Transaction, Continuous
  <1>14. ASSUME NEW c \in Cmd, SkipNext(c) \/ ResumeNext(c) \/ SuspendTest(c)
                                 \/ SuspendNext(c) \/ ClearNext(c)
         PROVE  Known'
    <2>1. UNCHANGED <<outcome, mode, open>>
      BY <1>14, WalkResults
    <2>2. UNCHANGED commands
      BY <1>14 DEF SkipNext, ResumeNext, SuspendTest, SuspendNext, ClearNext
    <2>3. job # Finish("FAILED")
      BY <1>12, <1>14 DEF SkipNext, ResumeNext, SuspendTest, SuspendNext, ClearNext
    <2> QED
      BY <1>0, <2>1, <2>2, <2>3, FailuresQuiet
  <1>15. ASSUME NEW c \in Cmd, StopNext(c)
         PROVE  Known'
    <2>1. UNCHANGED <<outcome, mode, open>>
      BY <1>15, WalkResults
    <2>2. /\ job.todo # <<>> /\ job.todo = commands /\ c = Head(commands)
          /\ job # Finish("FAILED") /\ commands \in Seq(Cmd)
      BY <1>12, <1>15, ReachedType DEF StopNext, WalksRight
    <2>3. CASE UNCHANGED commands
      BY <1>0, <2>1, <2>2, <2>3, FailuresQuiet
    <2>4. CASE st[c] = "ACTIVE" /\ commands' = Tail(commands)
      <3>1. outcome[c] # "FAILED"
        BY <2>4 DEF ResultsTold
      <3>2. \A d \in Cmd : In(commands, d) => In(commands', d) \/ outcome[d] # "FAILED"
        BY <2>2, <2>4, <3>1, TailIn
      <3> QED
        BY <1>0, <2>1, <2>2, <3>2, FailuresQuiet
    <2> QED
      BY <1>15, <2>3, <2>4 DEF StopNext
  <1> QED
    BY <1>1, <1>2, <1>3, <1>4, <1>6, <1>7, <1>8, <1>9, <1>10, <1>11, <1>13, <1>14, <1>15,
       Zenon DEF Next, LoopStep

------------------------------------------------------------------------------
(* The theorems. *)

(* An empty loop. *)
LEMMA InitInv == Init => LoopInv
PROOF
  <1> SUFFICES ASSUME Init
               PROVE  LoopInv
    OBVIOUS
  <1>1. TypeOK
    BY InitTypes
  <1>2. \A q : q = <<>> => Once(q) /\ DOMAIN q = {}
    BY DEF Once
  <1>3. ResultsTold
    BY <1>2 DEF Init, ResultsTold, None
  <1>4. WalksRight
    BY <1>2 DEF Init, WalksRight, Idle
  <1>5. Held
    BY DEF Init, Held
  <1>6. FailuresKnown
    BY <1>2 DEF Init, FailuresKnown, Called, None
  <1> QED
    BY <1>1, <1>3, <1>4, <1>5, <1>6 DEF LoopInv

(* Every step keeps the invariant. *)
LEMMA StepInv == LoopInv /\ [Next]_vars => LoopInv'
PROOF
  BY TypeStep, ResultsStep, WalksStep, HeldStep, FailuresStep DEF LoopInv

(* The invariant holds for ever: processEvent, the walks and the lambdas of the
   clients keep it in any order. *)
THEOREM Inductive == Safety => []LoopInv
PROOF
  BY InitInv, StepInv, PTL DEF Safety

(* Every variable has its type, for any number of commands, clients, calls and
   modes: no lambda is run on a command it did not capture. *)
THEOREM TypeCorrect == Safety => []TypeOK
PROOF
  BY Inductive, PTL DEF LoopInv

(* A loop without MultiCommand that has its channel has at most one command
   running, whatever its clients call (nextCommand, CommandLoop.cpp). *)
THEOREM OneRuns == Safety => []OneAtATime
PROOF
  <1>1. LoopInv => OneAtATime
    BY DEF LoopInv, Held, OneAtATime
  <1> QED
    BY <1>1, Inductive, PTL

(* Adding one element to a sequence makes another one, which ends with it. *)
LEMMA AppendEnds ==
  ASSUME NEW S, NEW q \in Seq(S), NEW a \in S, NEW b \in S
  PROVE  /\ Append(q, a) # q
         /\ Append(q, a) = Append(q, b) => a = b
PROOF
  <1>1. /\ Len(Append(q, a)) = Len(q) + 1 /\ Len(q) \in Nat
        /\ Append(q, a)[Len(q) + 1] = a /\ Append(q, b)[Len(q) + 1] = b
    BY AppendProperties, LenProperties
  <1> QED
    BY <1>1

(* SUCCESS is emitted by finished() only, and then the loop was empty: what it
   had started is over, and, in a transaction, nothing has failed. *)
THEOREM SuccessIsTrue == Safety => SuccessMeansDone
PROOF
  <1> DEFINE Done ==
        results' = Append(results, "SUCCESS") =>
          /\ \A c \in Cmd : st[c] \in {"INACTIVE", "FINISHED"}
          /\ Transaction /\ ~Continuous /\ ~switched =>
               \A c \in Cmd : outcome[c] # "FAILED"
  <1>1. ASSUME LoopInv, [Next]_vars, results' = Append(results, "SUCCESS")
        PROVE  /\ \A c \in Cmd : st[c] \in {"INACTIVE", "FINISHED"}
               /\ Transaction /\ ~Continuous /\ ~switched =>
                    \A c \in Cmd : outcome[c] # "FAILED"
    <2>1. results \in Seq(Result) /\ "SUCCESS" \in Result
      BY <1>1 DEF LoopInv, TypeOK, Result
    <2>2. results' # results
      BY <1>1, <2>1, AppendEnds
    <2>3. \A k \in Client : ~ClientStep(k)
      BY <2>2, ClientQuiet
    <2>4. \A k \in Client : ~Invoke(k)
      BY <2>2 DEF Invoke
    <2>5. \A c \in Cmd : ~CommandEmit(c) /\ \A r \in Result : ~CommandFinish(c, r)
      BY <2>2 DEF CommandEmit, CommandFinish
    <2>6. ~(HandleState \/ HandleMode \/ HandlePush \/ HandleEvent \/ WalkEnd)
      BY <2>2 DEF HandleState, HandleMode, HandlePush, HandleEvent, WalkEnd
    <2>7. \A c \in Cmd : ~WalkStep(c)
      BY <2>2 DEF WalkStep, StartNext, SkipNext, ResumeNext, SuspendTest, SuspendNext,
                  StopNext, ClearNext
    <2>8. LoopFinish
      BY <1>1, <2>2, <2>3, <2>4, <2>5, <2>6, <2>7, Zenon
      DEF Next, LoopStep, WalkStep, vars
    <2>9. open /\ results' = Append(results, job.result) /\ job.op = "finish"
      BY <2>2, <2>8 DEF LoopFinish
    <2>10. job \in Finishes
      BY <1>1, <2>9 DEF LoopInv, TypeOK, Idle, Walks
    <2>11. job.result = "SUCCESS"
      <3>1. job.result \in Result
        BY <2>10 DEF Finishes
      <3> QED
        BY <1>1, <2>1, <2>9, <3>1, AppendEnds
    <2>12. job = Finish("SUCCESS") /\ job # Finish("FAILED")
      BY <2>10, <2>11 DEF Finishes, Finish
    <2>13. \A c : ~In(commands, c)
      BY <1>1, <2>12 DEF LoopInv, WalksRight, In
    <2>14. \A c \in Cmd : st[c] \in {"INACTIVE", "FINISHED"}
      BY <1>1, <2>9, <2>13 DEF LoopInv, Held, TypeOK, State
    <2>15. Transaction /\ ~Continuous /\ ~switched => \A c \in Cmd : outcome[c] # "FAILED"
      BY <1>1, <2>9, <2>12, <2>13 DEF LoopInv, FailuresKnown
    <2> QED
      BY <2>14, <2>15
  <1>2. LoopInv /\ [Next]_vars => [Done]_vars
    BY <1>1
  <1> QED
    BY <1>2, Inductive, PTL DEF Safety, SuccessMeansDone
==============================================================================
