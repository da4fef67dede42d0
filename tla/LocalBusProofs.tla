--------------------------- MODULE LocalBusProofs ---------------------------
(***************************************************************************)
(* Theorems about LocalBus, for any number of services, clients, names and *)
(* requests.                                                               *)
(***************************************************************************)
EXTENDS LocalBus, TLAPS

------------------------------------------------------------------------------
(* Sequences. *)

(* The rest of a queue is a queue of the same tasks, and so is a longer one. *)
LEMMA QueueTyped ==
  ASSUME NEW S, NEW q \in Seq(S)
  PROVE  /\ \A e \in S : Append(q, e) \in Seq(S)
         /\ q # <<>> => Head(q) \in S /\ Tail(q) \in Seq(S)
         /\ \A i \in 1..Len(q) : q[i] \in S
OBVIOUS

(* A queue whose i-th element is replaced keeps its type. *)
LEMMA ReplaceTyped ==
  ASSUME NEW S, NEW q \in Seq(S), NEW i, NEW e, i \in 1..Len(q) => e \in S
  PROVE  [q EXCEPT ![i] = e] \in Seq(S)
<1>1. CASE i \in 1..Len(q)
  BY <1>1
<1>2. CASE i \notin 1..Len(q)
  <2>1. [q EXCEPT ![i] = e] = q
    BY <1>2
  <2>2. QED
    BY <2>1
<1>3. QED
  BY <1>1, <1>2

------------------------------------------------------------------------------
(* What a client will have been told when it has executed its queue: t is what
   it was told last, x the last notice in the queue q, if there is one. *)
Coming(q, t, x) ==
  \/ (\A i \in 1..Len(q) : q[i].op # "notice") /\ x = t
  \/ \E i \in 1..Len(q) : /\ q[i].op = "notice"
                          /\ q[i].s = x
                          /\ \A j \in (i + 1)..Len(q) : q[j].op # "notice"

(* A task that is no notice changes nothing about it, where it is queued ... *)
LEMMA ComingAfterTask ==
  ASSUME NEW S, NEW q \in Seq(S), NEW e \in S, e.op # "notice", NEW t, NEW x,
         Coming(Append(q, e), t, x)
  PROVE  Coming(q, t, x)
<1> DEFINE r == Append(q, e)
<1>1. Len(r) = Len(q) + 1 /\ r[Len(q) + 1] = e /\ \A i \in 1..Len(q) : r[i] = q[i]
  OBVIOUS
<1>2. Coming(r, t, x) /\ Len(q) \in Nat
  OBVIOUS
<1> HIDE DEF r
<1>3. QED
  BY <1>1, <1>2 DEF Coming

(* ... and where it is executed. *)
LEMMA ComingBeforeTask ==
  ASSUME NEW S, NEW q \in Seq(S), q # <<>>, Head(q).op # "notice", NEW t, NEW x,
         Coming(Tail(q), t, x)
  PROVE  Coming(q, t, x)
<1> DEFINE r == Tail(q)
<1>1. /\ Len(r) = Len(q) - 1 /\ Len(q) \in Nat /\ Len(r) \in Nat
      /\ q[1] = Head(q)
      /\ \A i \in 1..Len(r) : r[i] = q[i + 1]
  OBVIOUS
<1>2. Coming(r, t, x)
  OBVIOUS
<1> HIDE DEF r
<1>3. CASE (\A i \in 1..Len(r) : r[i].op # "notice") /\ x = t
  <2>1. ASSUME NEW i \in 1..Len(q) PROVE q[i].op # "notice"
    <3>1. CASE i = 1
      BY <3>1, <1>1
    <3>2. CASE i # 1
      <4>1. i - 1 \in 1..Len(r) /\ q[i] = r[i - 1]
        BY <3>2, <1>1
      <4>2. QED
        BY <4>1, <1>3
    <3>3. QED
      BY <3>1, <3>2
  <2>2. QED
    BY <2>1, <1>3 DEF Coming
<1>4. ASSUME NEW i \in 1..Len(r), r[i].op = "notice", r[i].s = x,
             \A j \in (i + 1)..Len(r) : r[j].op # "notice"
      PROVE  Coming(q, t, x)
  <2>1. i + 1 \in 1..Len(q) /\ q[i + 1] = r[i]
    BY <1>1
  <2>2. ASSUME NEW j \in (i + 2)..Len(q) PROVE q[j].op # "notice"
    <3>1. j - 1 \in (i + 1)..Len(r) /\ j - 1 \in 1..Len(r) /\ q[j] = r[j - 1]
      BY <1>1
    <3>2. QED
      BY <3>1, <1>4
  <2>3. \A j \in ((i + 1) + 1)..Len(q) : q[j].op # "notice"
    BY <2>2
  <2>4. QED
    BY <2>1, <2>3, <1>4 DEF Coming
<1>5. QED
  BY <1>2, <1>3, <1>4 DEF Coming

(* A notice that is queued is what the client will have been told ... *)
LEMMA ComingAfterNotice ==
  ASSUME NEW S, NEW q \in Seq(S), NEW e \in S, e.op = "notice", NEW t, NEW x,
         Coming(Append(q, e), t, x)
  PROVE  x = e.s
<1> DEFINE r == Append(q, e)
<1>1. Len(r) = Len(q) + 1 /\ r[Len(q) + 1] = e /\ Len(q) \in Nat
  OBVIOUS
<1>2. Coming(r, t, x)
  OBVIOUS
<1> HIDE DEF r
<1>3. QED
  BY <1>1, <1>2 DEF Coming

(* ... and one that is executed is what it has been told. *)
LEMMA ComingBeforeNotice ==
  ASSUME NEW S, NEW q \in Seq(S), q # <<>>, Head(q).op = "notice", NEW t, NEW x,
         Coming(Tail(q), Head(q).s, x)
  PROVE  Coming(q, t, x)
<1> DEFINE r == Tail(q)
<1>1. /\ Len(r) = Len(q) - 1 /\ Len(q) \in Nat /\ Len(r) \in Nat /\ Len(q) > 0
      /\ q[1] = Head(q)
      /\ \A i \in 1..Len(r) : r[i] = q[i + 1]
  OBVIOUS
<1>2. Coming(r, q[1].s, x)
  BY <1>1
<1> HIDE DEF r
<1>3. CASE (\A i \in 1..Len(r) : r[i].op # "notice") /\ x = q[1].s
  <2>1. ASSUME NEW j \in (1 + 1)..Len(q) PROVE q[j].op # "notice"
    <3>1. j - 1 \in 1..Len(r) /\ q[j] = r[j - 1]
      BY <1>1
    <3>2. QED
      BY <3>1, <1>3
  <2>2. 1 \in 1..Len(q) /\ q[1].op = "notice"
    BY <1>1
  <2>3. QED
    BY <2>1, <2>2, <1>3 DEF Coming
<1>4. ASSUME NEW i \in 1..Len(r), r[i].op = "notice", r[i].s = x,
             \A j \in (i + 1)..Len(r) : r[j].op # "notice"
      PROVE  Coming(q, t, x)
  <2>1. i + 1 \in 1..Len(q) /\ q[i + 1] = r[i]
    BY <1>1
  <2>2. ASSUME NEW j \in (i + 2)..Len(q) PROVE q[j].op # "notice"
    <3>1. j - 1 \in (i + 1)..Len(r) /\ q[j] = r[j - 1]
      BY <1>1
    <3>2. QED
      BY <3>1, <1>4
  <2>3. \A j \in ((i + 1) + 1)..Len(q) : q[j].op # "notice"
    BY <2>2
  <2>4. QED
    BY <2>1, <2>3, <1>4 DEF Coming
<1>5. QED
  BY <1>2, <1>3, <1>4 DEF Coming

------------------------------------------------------------------------------
(* Type correctness. *)

(* What a task of the bus is about, by its operation. *)
LEMMA BusTaskTyped ==
  ASSUME NEW e \in BusTask
  PROVE  /\ e.op \in {"register", "unregister"} => e.s \in Service /\ e.n \in Name
         /\ e.op \in {"build", "disassemble", "subscribe", "unsubscribe", "call"}
              => e.c \in Client
         /\ e.op \in {"call", "reply"} => e.i \in 1..MaxCalls
BY DEF BusTask

(* What a task of a service is about, by its operation. *)
LEMMA ServiceTaskTyped ==
  ASSUME NEW e \in ServiceTask
  PROVE  /\ e.op = "register" => e.n \in Name
         /\ e.op \in {"connect", "disconnect"} => e.c \in Client
         /\ e.op = "serve" => e.i \in 1..MaxCalls
BY DEF ServiceTask

(* What a task of a client is about, by its operation. *)
LEMMA ClientTaskTyped ==
  ASSUME NEW e \in ClientTask
  PROVE  /\ e.op = "notice" => e.s \in Service \cup {NULL}
         /\ e.op = "current" => e.s \in Service
         /\ e.op = "changed" => e.s \in Service /\ e.v \in Values
BY DEF ClientTask

(* The tasks the actions queue. *)
LEMMA TasksTyped ==
  /\ \A s \in Service, n \in Name :
       /\ [op |-> "register", s |-> s, n |-> n] \in BusTask
       /\ [op |-> "unregister", s |-> s, n |-> n] \in BusTask
       /\ [op |-> "register", n |-> n] \in ServiceTask
  /\ [op |-> "unregister"] \in ServiceTask
  /\ \A c \in Client :
       /\ \A op \in {"build", "disassemble", "subscribe", "unsubscribe"} :
            [op |-> op, c |-> c] \in BusTask
       /\ \A op \in {"connect", "disconnect"} : [op |-> op, c |-> c] \in ServiceTask
  /\ \A i \in 1..MaxCalls :
       /\ \A c \in Client : [op |-> "call", c |-> c, i |-> i] \in BusTask
       /\ [op |-> "reply", i |-> i] \in BusTask
       /\ [op |-> "serve", i |-> i] \in ServiceTask
  /\ \A s \in Service :
       /\ [op |-> "current", s |-> s] \in ClientTask
       /\ \A v \in Values : [op |-> "changed", s |-> s, v |-> v] \in ClientTask
  /\ \A s \in Service \cup {NULL} : [op |-> "notice", s |-> s] \in ClientTask
BY DEF BusTask, ServiceTask, ClientTask

(* Queueing and taking a task keep the types of the queues. *)
LEMMA ToBusTyped ==
  ASSUME TypeOK, NEW e \in BusTask, ToBus(e)
  PROVE  busQueue' \in Seq(BusTask)
BY DEF TypeOK, ToBus

(* Queueing a task for a service keeps the types of the queues. *)
LEMMA ToServiceTyped ==
  ASSUME TypeOK, NEW s \in Service, NEW e \in ServiceTask, ToService(s, e)
  PROVE  serviceQueue' \in [Service -> Seq(ServiceTask)]
<1>1. Append(serviceQueue[s], e) \in Seq(ServiceTask)
  BY QueueTyped DEF TypeOK
<1>2. QED
  BY <1>1 DEF TypeOK, ToService

(* Queueing a task for some clients keeps the types of the queues. *)
LEMMA ToClientsTyped ==
  ASSUME TypeOK, NEW C, NEW e \in ClientTask, ToClients(C, e)
  PROVE  clientQueue' \in [Client -> Seq(ClientTask)]
<1>1. ASSUME NEW c \in Client PROVE Append(clientQueue[c], e) \in Seq(ClientTask)
  BY QueueTyped DEF TypeOK
<1>2. QED
  BY <1>1 DEF TypeOK, ToClients

(* The bus takes a task of its type and leaves a queue of such tasks. *)
LEMMA NextTaskTyped ==
  ASSUME TypeOK, NEW op, NextTask(op)
  PROVE  Task \in BusTask /\ Task.op = op /\ busQueue' \in Seq(BusTask)
<1>1. busQueue \in Seq(BusTask) /\ busQueue # <<>>
  BY DEF TypeOK, NextTask
<1>2. Head(busQueue) \in BusTask /\ Tail(busQueue) \in Seq(BusTask)
  BY <1>1, QueueTyped
<1>3. QED
  BY <1>2 DEF NextTask, Task

(* A service takes a task of its type and leaves a queue of such tasks. *)
LEMMA NextServiceTaskTyped ==
  ASSUME TypeOK, NEW s \in Service, NEW op, NextServiceTask(s, op)
  PROVE  /\ ServiceTaskOf(s) \in ServiceTask
         /\ ServiceTaskOf(s).op = op
         /\ serviceQueue' \in [Service -> Seq(ServiceTask)]
<1>1. serviceQueue[s] \in Seq(ServiceTask) /\ serviceQueue[s] # <<>>
  BY DEF TypeOK, NextServiceTask
<1>2. Head(serviceQueue[s]) \in ServiceTask /\ Tail(serviceQueue[s]) \in Seq(ServiceTask)
  BY <1>1, QueueTyped
<1>3. QED
  BY <1>2 DEF NextServiceTask, ServiceTaskOf, TypeOK

(* A client takes a task of its type and leaves a queue of such tasks. *)
LEMMA NextClientTaskTyped ==
  ASSUME TypeOK, NEW c \in Client, NEW op, NextClientTask(c, op)
  PROVE  /\ Head(clientQueue[c]) \in ClientTask
         /\ Head(clientQueue[c]).op = op
         /\ clientQueue' \in [Client -> Seq(ClientTask)]
<1>1. clientQueue[c] \in Seq(ClientTask) /\ clientQueue[c] # <<>>
  BY DEF TypeOK, NextClientTask
<1>2. Head(clientQueue[c]) \in ClientTask /\ Tail(clientQueue[c]) \in Seq(ClientTask)
  BY <1>1, QueueTyped
<1>3. QED
  BY <1>2 DEF NextClientTask, TypeOK

(* A call that changes its state is a call. *)
LEMMA CallTyped ==
  ASSUME TypeOK, NEW i, NEW state \in {"made", "sent", "lost", "served", "replied"},
         call' = [call EXCEPT ![i].state = state]
  PROVE  call' \in Seq([by : Client, state : {"made", "sent", "lost", "served", "replied"}])
<1> DEFINE S == [by : Client, state : {"made", "sent", "lost", "served", "replied"}]
           e == [call[i] EXCEPT !.state = state]
<1>1. call \in Seq(S)
  BY DEF TypeOK
<1>2. ASSUME i \in 1..Len(call) PROVE e \in S
  <2>1. call[i] \in S
    <3> HIDE DEF S
    <3>1. QED
      BY <1>1, <1>2, QueueTyped
  <2>2. QED
    BY <2>1
<1>3. [call EXCEPT ![i] = e] \in Seq(S)
  <2> HIDE DEF S, e
  <2>1. QED
    BY <1>1, <1>2, ReplaceTyped
<1>4. QED
  BY <1>3

(* The notice a change of the registry owes to the clients. *)
LEMMA NoticeTyped ==
  ASSUME NEW C \in SUBSET Client, NEW s \in Service \cup {NULL}
  PROVE  Notice(C, s) \in [to : SUBSET Client, of : Service \cup {NULL}]
BY DEF Notice

(* The bodies of registerService and unregisterService. *)
LEMMA BodyTyped ==
  ASSUME TypeOK, NEW s \in Service,
         (\E n \in Name : RegisterBody(s, n)) \/ UnregisterBody(s)
  PROVE  serviceName' \in [Service -> Name \cup {NULL}] /\ busQueue' \in Seq(BusTask)
<1>1. ASSUME NEW n \in Name, RegisterBody(s, n)
      PROVE  serviceName' \in [Service -> Name \cup {NULL}] /\ busQueue' \in Seq(BusTask)
  <2>1. [op |-> "register", s |-> s, n |-> n] \in BusTask
    BY TasksTyped
  <2>2. busQueue' \in Seq(BusTask)
    BY <1>1, <2>1, ToBusTyped DEF RegisterBody, TypeOK
  <2>3. serviceName' \in [Service -> Name \cup {NULL}]
    <3>1. serviceName \in [Service -> Name \cup {NULL}]
      BY DEF TypeOK
    <3>2. serviceName' = serviceName \/ serviceName' = [serviceName EXCEPT ![s] = n]
      BY <1>1 DEF RegisterBody
    <3>3. QED
      BY <3>1, <3>2
  <2>4. QED
    BY <2>2, <2>3
<1>2. ASSUME UnregisterBody(s)
      PROVE  serviceName' \in [Service -> Name \cup {NULL}] /\ busQueue' \in Seq(BusTask)
  <2>1. CASE serviceName[s] # NULL
    <3>1. serviceName[s] \in Name
      BY <2>1 DEF TypeOK
    <3>2. [op |-> "unregister", s |-> s, n |-> serviceName[s]] \in BusTask
      BY <3>1, TasksTyped
    <3>3. busQueue' \in Seq(BusTask)
      BY <1>2, <2>1, <3>2, ToBusTyped DEF UnregisterBody
    <3>4. serviceName' = [serviceName EXCEPT ![s] = NULL]
      BY <1>2, <2>1, Zenon DEF UnregisterBody
    <3>5. QED
      BY <3>3, <3>4 DEF TypeOK
  <2>2. CASE serviceName[s] = NULL
    BY <1>2, <2>2 DEF UnregisterBody, TypeOK
  <2>3. QED
    BY <2>1, <2>2
<1>3. QED
  BY <1>1, <1>2

(* Every variable keeps its type: what the program asks for. *)
LEMMA ProgramTyped ==
  ASSUME TypeOK,
         \/ \E s \in Service : ServiceUser(s)
         \/ \E c \in Client : ClientUser(c)
  PROVE  TypeOK'
<1> USE LocalBusAssumption
<1>1. ASSUME NEW s \in Service, NEW e \in ServiceTask, AskService(s, e) PROVE TypeOK'
  <2>1. serviceQueue' \in [Service -> Seq(ServiceTask)]
    BY <1>1, ToServiceTyped DEF AskService
  <2>2. QED
    BY <1>1, <2>1 DEF AskService, Request, TypeOK, registry, client, service
<1>2. ASSUME NEW s \in Service, (\E n \in Name : RegisterHere(s, n)) \/ UnregisterHere(s)
      PROVE  TypeOK'
  <2>1. serviceName' \in [Service -> Name \cup {NULL}] /\ busQueue' \in Seq(BusTask)
    BY <1>2, BodyTyped DEF RegisterHere, UnregisterHere
  <2>2. QED
    BY <1>2, <2>1 DEF RegisterHere, UnregisterHere, Request, TypeOK, registry, client
<1>3. ASSUME NEW s \in Service, SetValue(s) PROVE TypeOK'
  <2>1. attribute' \in [Service -> Values] /\ attribute'[s] \in Values
    BY <1>3 DEF SetValue, TypeOK, Values
  <2>2. [op |-> "changed", s |-> s, v |-> attribute'[s]] \in ClientTask
    BY <2>1, TasksTyped
  <2>3. clientQueue' \in [Client -> Seq(ClientTask)]
    BY <1>3, <2>2, ToClientsTyped DEF SetValue
  <2>4. QED
    BY <1>3, <2>1, <2>3 DEF SetValue, TypeOK, registry, client
<1>4. ASSUME NEW s \in Service, DestroyService(s) PROVE TypeOK'
  <2>1. serviceQueue' \in [Service -> Seq(ServiceTask)]
    BY <1>4 DEF DestroyService, TypeOK
  <2>2. QED
    BY <1>4, <2>1 DEF DestroyService, Request, TypeOK, registry, client, service
<1>5. ASSUME NEW c \in Client, Construct(c) PROVE TypeOK'
  <2>1. busQueue' \in Seq(BusTask)
    BY <1>5, TasksTyped, ToBusTyped DEF Construct
  <2>2. QED
    BY <1>5, <2>1 DEF Construct, TypeOK, registry, client, service
<1>6. ASSUME NEW c \in Client, Destroy(c) PROVE TypeOK'
  <2>1. busQueue' \in Seq(BusTask)
    BY <1>6, TasksTyped, ToBusTyped DEF Destroy
  <2>2. clientQueue' \in [Client -> Seq(ClientTask)]
    BY <1>6 DEF Destroy, TypeOK
  <2>3. QED
    BY <1>6, <2>1, <2>2 DEF Destroy, Request, TypeOK, registry, client, service
<1>7. ASSUME NEW c \in Client, Call(c) PROVE TypeOK'
  <2>1. call' \in Seq([by : Client, state : {"made", "sent", "lost", "served", "replied"}])
    BY <1>7 DEF Call, TypeOK
  <2>2. Len(call') \in 1..MaxCalls
    BY <1>7 DEF Call, TypeOK
  <2>3. busQueue' \in Seq(BusTask)
    BY <1>7, <2>2, TasksTyped, ToBusTyped DEF Call
  <2>4. QED
    BY <1>7, <2>1, <2>3 DEF Call, TypeOK, registry, client, service
<1>8. ASSUME NEW c \in Client, NEW op \in {"subscribe", "unsubscribe"}, AskBus(c, op)
      PROVE  TypeOK'
  <2>1. busQueue' \in Seq(BusTask)
    BY <1>8, TasksTyped, ToBusTyped DEF AskBus
  <2>2. QED
    BY <1>8, <2>1 DEF AskBus, Request, TypeOK, registry, client, service
<1>9. QED
  BY <1>1, <1>2, <1>3, <1>4, <1>5, <1>6, <1>7, <1>8, TasksTyped
     DEF ServiceUser, ClientUser

(* Every variable keeps its type: the thread of the bus. *)
LEMMA BusTyped ==
  ASSUME TypeOK, BusStep
  PROVE  TypeOK'
<1> USE LocalBusAssumption
<1>1. CASE BusRegister
  <2>1. Task.s \in Service /\ Task.n \in Name /\ busQueue' \in Seq(BusTask)
    BY <1>1, NextTaskTyped, BusTaskTyped DEF BusRegister
  <2>2. services' \in [Name -> Service \cup {NULL}]
    BY <1>1, <2>1 DEF BusRegister, TypeOK
  <2>3. notice' \in [to : SUBSET Client, of : Service \cup {NULL}]
    <3>1. clients[Task.n] \in SUBSET Client
      BY <2>1 DEF TypeOK
    <3>2. QED
      BY <1>1, <2>1, <3>1, NoticeTyped DEF BusRegister
  <2>4. clash' \in BOOLEAN
    BY <1>1 DEF BusRegister
  <2>5. QED
    BY <1>1, <2>1, <2>2, <2>3, <2>4 DEF BusRegister, TypeOK, client, service
<1>2. CASE BusUnregister
  <2>1. Task.s \in Service /\ Task.n \in Name /\ busQueue' \in Seq(BusTask)
    BY <1>2, NextTaskTyped, BusTaskTyped DEF BusUnregister
  <2>2. services' \in [Name -> Service \cup {NULL}]
    BY <1>2, <2>1 DEF BusUnregister, TypeOK
  <2>3. notice' \in [to : SUBSET Client, of : Service \cup {NULL}]
    <3>1. clients[Task.n] \in SUBSET Client
      BY <2>1 DEF TypeOK
    <3>2. QED
      BY <1>2, <3>1, NoticeTyped DEF BusUnregister
  <2>4. QED
    BY <1>2, <2>1, <2>2, <2>3 DEF BusUnregister, TypeOK, client, service
<1>3. ASSUME NEW c \in Client, BusNotify(c) PROVE TypeOK'
  <2>1. notice.of \in Service \cup {NULL} /\ notice.to \ {c} \in SUBSET Client
    BY DEF TypeOK
  <2>2. clientQueue' \in [Client -> Seq(ClientTask)]
    BY <1>3, <2>1, TasksTyped, ToClientsTyped DEF BusNotify
  <2>3. notice' \in [to : SUBSET Client, of : Service \cup {NULL}]
    BY <1>3, <2>1, NoticeTyped DEF BusNotify
  <2>4. QED
    BY <1>3, <2>2, <2>3 DEF BusNotify, TypeOK, client, service
<1>4. CASE BusBuild
  <2>1. Task.c \in Client /\ busQueue' \in Seq(BusTask)
    BY <1>4, NextTaskTyped, BusTaskTyped DEF BusBuild
  <2>2. ClientName[Task.c] \in Name
    BY <2>1
  <2>3. clients' \in [Name -> SUBSET Client]
    BY <1>4, <2>1, <2>2 DEF BusBuild, TypeOK
  <2>4. services[ClientName[Task.c]] \in Service \cup {NULL}
    BY <2>2 DEF TypeOK
  <2>5. clientQueue' \in [Client -> Seq(ClientTask)]
    <3>1. [op |-> "notice", s |-> services[ClientName[Task.c]]] \in ClientTask
      BY <2>4, TasksTyped
    <3>2. QED
      BY <1>4, <3>1, ToClientsTyped DEF BusBuild, TypeOK
  <2>6. QED
    BY <1>4, <2>1, <2>3, <2>5 DEF BusBuild, TypeOK, client, service
<1>5. CASE BusDisassemble
  <2>1. Task.c \in Client /\ busQueue' \in Seq(BusTask)
    BY <1>5, NextTaskTyped, BusTaskTyped DEF BusDisassemble
  <2>2. clients' \in [Name -> SUBSET Client]
    BY <1>5, <2>1 DEF BusDisassemble, TypeOK
  <2>3. QED
    BY <1>5, <2>1, <2>2 DEF BusDisassemble, TypeOK, client, service
<1>6. CASE BusCall
  <2>1. Task.i \in 1..MaxCalls /\ Task.c \in Client /\ busQueue' \in Seq(BusTask)
    BY <1>6, NextTaskTyped, BusTaskTyped DEF BusCall
  <2>2. call' \in Seq([by : Client, state : {"made", "sent", "lost", "served", "replied"}])
    BY <1>6, CallTyped DEF BusCall
  <2>3. serviceQueue' \in [Service -> Seq(ServiceTask)]
    <3>1. services[ClientName[Task.c]] \in Service \cup {NULL}
      BY <2>1 DEF TypeOK
    <3>2. [op |-> "serve", i |-> Task.i] \in ServiceTask
      BY <2>1, TasksTyped
    <3>3. QED
      BY <1>6, <3>1, <3>2, ToServiceTyped DEF BusCall, TypeOK
  <2>4. QED
    BY <1>6, <2>1, <2>2, <2>3 DEF BusCall, TypeOK, registry, client, service
<1>7. CASE BusReply
  <2>1. busQueue' \in Seq(BusTask)
    BY <1>7, NextTaskTyped DEF BusReply
  <2>2. call' \in Seq([by : Client, state : {"made", "sent", "lost", "served", "replied"}])
    BY <1>7, CallTyped DEF BusReply
  <2>3. QED
    BY <1>7, <2>1, <2>2 DEF BusReply, TypeOK, registry, client, service
<1>8. ASSUME NEW op \in {"subscribe", "unsubscribe"}, NEW so \in {"connect", "disconnect"},
             Forward(op, so)
      PROVE  TypeOK'
  <2>1. Task.c \in Client /\ busQueue' \in Seq(BusTask)
    BY <1>8, NextTaskTyped, BusTaskTyped DEF Forward
  <2>2. serviceQueue' \in [Service -> Seq(ServiceTask)]
    <3>1. services[ClientName[Task.c]] \in Service \cup {NULL}
      BY <2>1 DEF TypeOK
    <3>2. [op |-> so, c |-> Task.c] \in ServiceTask
      BY <2>1, TasksTyped
    <3>3. QED
      BY <1>8, <3>1, <3>2, ToServiceTyped DEF Forward, TypeOK
  <2>3. QED
    BY <1>8, <2>1, <2>2 DEF Forward, TypeOK, registry, client, service
<1>9. QED
  BY <1>1, <1>2, <1>3, <1>4, <1>5, <1>6, <1>7, <1>8
     DEF BusStep, BusSubscribe, BusUnsubscribe

(* Every variable keeps its type: the threads of services and clients. *)
LEMMA ComponentsTyped ==
  ASSUME TypeOK,
         \/ \E s \in Service : ServiceStep(s)
         \/ \E c \in Client : ClientStep(c)
  PROVE  TypeOK'
<1> USE LocalBusAssumption
<1>1. ASSUME NEW s \in Service, ServiceRegister(s) \/ ServiceUnregister(s) PROVE TypeOK'
  <2>1. serviceQueue' \in [Service -> Seq(ServiceTask)]
    BY <1>1, NextServiceTaskTyped DEF ServiceRegister, ServiceUnregister
  <2>2. (\E n \in Name : RegisterBody(s, n)) \/ UnregisterBody(s)
    BY <1>1, NextServiceTaskTyped, ServiceTaskTyped DEF ServiceRegister, ServiceUnregister
  <2>3. serviceName' \in [Service -> Name \cup {NULL}] /\ busQueue' \in Seq(BusTask)
    BY <2>2, BodyTyped
  <2>4. QED
    BY <1>1, <2>1, <2>3 DEF ServiceRegister, ServiceUnregister, TypeOK, registry, client
<1>2. ASSUME NEW s \in Service, Serve(s) PROVE TypeOK'
  <2>1. /\ serviceQueue' \in [Service -> Seq(ServiceTask)]
        /\ ServiceTaskOf(s).i \in 1..MaxCalls
    BY <1>2, NextServiceTaskTyped, ServiceTaskTyped DEF Serve
  <2>2. busQueue' \in Seq(BusTask)
    BY <1>2, <2>1, TasksTyped, ToBusTyped DEF Serve
  <2>3. call' \in Seq([by : Client, state : {"made", "sent", "lost", "served", "replied"}])
    BY <1>2, CallTyped DEF Serve
  <2>4. QED
    BY <1>2, <2>1, <2>2, <2>3 DEF Serve, TypeOK, registry, client, service
<1>3. ASSUME NEW s \in Service, Connect(s) PROVE TypeOK'
  <2>1. /\ serviceQueue' \in [Service -> Seq(ServiceTask)]
        /\ ServiceTaskOf(s).c \in Client
    BY <1>3, NextServiceTaskTyped, ServiceTaskTyped DEF Connect
  <2>2. clientQueue' \in [Client -> Seq(ClientTask)]
    BY <1>3, TasksTyped, ToClientsTyped DEF Connect
  <2>3. listeners' \in [Service -> SUBSET Client]
    BY <1>3, <2>1 DEF Connect, TypeOK
  <2>4. QED
    BY <1>3, <2>1, <2>2, <2>3 DEF Connect, TypeOK, registry, client
<1>4. ASSUME NEW s \in Service, Disconnect(s) PROVE TypeOK'
  <2>1. serviceQueue' \in [Service -> Seq(ServiceTask)]
    BY <1>4, NextServiceTaskTyped DEF Disconnect
  <2>2. listeners' \in [Service -> SUBSET Client]
    BY <1>4 DEF Disconnect, TypeOK
  <2>3. QED
    BY <1>4, <2>1, <2>2 DEF Disconnect, TypeOK, registry, client
<1>5. ASSUME NEW c \in Client, ClientNotice(c) PROVE TypeOK'
  <2>1. /\ clientQueue' \in [Client -> Seq(ClientTask)]
        /\ Head(clientQueue[c]).s \in Service \cup {NULL}
    BY <1>5, NextClientTaskTyped, ClientTaskTyped DEF ClientNotice
  <2>2. QED
    BY <1>5, <2>1 DEF ClientNotice, TypeOK, registry, service
<1>6. ASSUME NEW c \in Client, NEW s \in Service, NEW v \in Values, Hear(c, s, v)
      PROVE  heard' \in [Client -> [Service -> Values]]
  BY <1>6 DEF Hear, TypeOK
<1>7. ASSUME NEW c \in Client, ClientCurrent(c) PROVE TypeOK'
  <2>1. /\ clientQueue' \in [Client -> Seq(ClientTask)]
        /\ Head(clientQueue[c]).s \in Service
    BY <1>7, NextClientTaskTyped, ClientTaskTyped DEF ClientCurrent
  <2>2. attribute[Head(clientQueue[c]).s] \in Values
    BY <2>1 DEF TypeOK
  <2>3. heard' \in [Client -> [Service -> Values]]
    BY <1>6, <1>7, <2>1, <2>2 DEF ClientCurrent
  <2>4. QED
    BY <1>7, <2>1, <2>3 DEF ClientCurrent, TypeOK, registry, service
<1>8. ASSUME NEW c \in Client, ClientChanged(c) PROVE TypeOK'
  <2>1. /\ clientQueue' \in [Client -> Seq(ClientTask)]
        /\ Head(clientQueue[c]).s \in Service
        /\ Head(clientQueue[c]).v \in Values
    BY <1>8, NextClientTaskTyped, ClientTaskTyped DEF ClientChanged
  <2>2. heard' \in [Client -> [Service -> Values]]
    BY <1>6, <1>8, <2>1 DEF ClientChanged
  <2>3. QED
    BY <1>8, <2>1, <2>2 DEF ClientChanged, TypeOK, registry, service
<1>9. QED
  BY <1>1, <1>2, <1>3, <1>4, <1>5, <1>7, <1>8 DEF ServiceStep, ClientStep

(* Every step keeps every type. *)
LEMMA TypeStep == TypeOK /\ [Next]_vars => TypeOK'
<1>1. ASSUME TypeOK, UNCHANGED vars PROVE TypeOK'
  BY <1>1 DEF TypeOK, vars, registry, queues, client, service
<1>2. QED
  BY <1>1, ProgramTyped, BusTyped, ComponentsTyped DEF Next

(* Type correctness of the bus, its services and its clients. *)
THEOREM TypeCorrect == Safety => []TypeOK
<1>1. Init => TypeOK
  <2> SUFFICES ASSUME Init PROVE TypeOK
    OBVIOUS
  <2>1. notice \in [to : SUBSET Client, of : Service \cup {NULL}]
    BY DEF Init, Nobody, Notice
  <2>2. /\ busQueue \in Seq(BusTask)
        /\ serviceQueue \in [Service -> Seq(ServiceTask)]
        /\ clientQueue \in [Client -> Seq(ClientTask)]
        /\ call \in Seq([by : Client, state : {"made", "sent", "lost", "served", "replied"}])
    BY DEF Init
  <2>3. /\ attribute \in [Service -> Values]
        /\ heard \in [Client -> [Service -> Values]]
        /\ requests \in 0..MaxRequests
    BY LocalBusAssumption DEF Init, Values
  <2>4. QED
    BY <2>1, <2>2, <2>3 DEF Init, TypeOK
<1>2. QED
  BY <1>1, TypeStep, PTL DEF Safety

------------------------------------------------------------------------------
(* What clients are told. *)

Listed(c) == c \in clients[ClientName[c]]

(* A task of the queue q of the bus that is about c. *)
InQueue(q, op, c) == \E i \in 1..Len(q) : q[i].op = op /\ q[i].c = c

(* x is what a client of name n should be told last. *)
Agrees(x, n) == (x = NULL <=> services[n] = NULL) /\ (~clash => x = services[n])

(* Why: a client is in the list of the bus, or on its way there, as long as it
   lives; so every notice that is due is sent to it.  While the bus sends the
   notices of its last task, the clients that have theirs agree with the
   registry, and the notice of the others does.  Before a client is listed, it
   is told of nobody; before it is built, the bus does not know of it. *)
BuildDue ==
  \A c \in Client : Alive(c) => Listed(c) \/ InQueue(busQueue, "build", c)
OnlyGoneLeave ==
  \A c \in Client : InQueue(busQueue, "disassemble", c) => life[c] = "gone"
ListedByName == \A n \in Name : \A c \in clients[n] : ClientName[c] = n
NoticeRight == \A c \in notice.to : Listed(c) /\ Agrees(notice.of, ClientName[c])
ToldRight ==
  \A c \in Client, x \in Service \cup {NULL} :
    Listed(c) /\ c \notin notice.to /\ Alive(c) /\ Coming(clientQueue[c], told[c], x)
      => Agrees(x, ClientName[c])
UnlistedQuiet ==
  \A c \in Client, x \in Service \cup {NULL} :
    ~Listed(c) /\ life[c] # "gone" /\ Coming(clientQueue[c], told[c], x) => x = NULL

UnbornUnknown ==
  \A c \in Client : life[c] = "unborn" => ~Listed(c) /\ ~InQueue(busQueue, "build", c)

NoticeInv ==
  /\ BuildDue
  /\ UnbornUnknown
  /\ OnlyGoneLeave
  /\ ListedByName
  /\ NoticeRight
  /\ ToldRight
  /\ UnlistedQuiet

(* What is in a queue after a task is queued and after one is taken. *)
LEMMA InLonger ==
  ASSUME NEW S, NEW q \in Seq(S), NEW e \in S, NEW op, NEW c
  PROVE  InQueue(Append(q, e), op, c) <=> InQueue(q, op, c) \/ (e.op = op /\ e.c = c)
<1> DEFINE r == Append(q, e)
<1>1. /\ Len(r) = Len(q) + 1 /\ Len(q) \in Nat /\ r[Len(q) + 1] = e
      /\ \A i \in 1..Len(q) : r[i] = q[i]
  OBVIOUS
<1> HIDE DEF r
<1>2. ASSUME NEW i \in 1..Len(r), i \notin 1..Len(q) PROVE i = Len(q) + 1
  BY <1>1, <1>2
<1>3. \A i \in 1..Len(q) : i \in 1..Len(r)
  BY <1>1
<1>4. Len(q) + 1 \in 1..Len(r)
  BY <1>1
<1>5. InQueue(r, op, c) <=> InQueue(q, op, c) \/ (e.op = op /\ e.c = c)
  BY <1>1, <1>2, <1>3, <1>4 DEF InQueue
<1>6. QED
  BY <1>5 DEF r

(* A task is in a queue if and only if it is first in it or in what is left after the first. *)
LEMMA InRest ==
  ASSUME NEW S, NEW q \in Seq(S), q # <<>>, NEW op, NEW c
  PROVE  InQueue(q, op, c) <=> InQueue(Tail(q), op, c) \/ (Head(q).op = op /\ Head(q).c = c)
<1> DEFINE r == Tail(q)
<1>1. /\ Len(r) = Len(q) - 1 /\ Len(q) \in Nat /\ Len(r) \in Nat
      /\ q[1] = Head(q)
      /\ \A i \in 1..Len(r) : r[i] = q[i + 1]
  OBVIOUS
<1> HIDE DEF r
<1>2. ASSUME NEW i \in 1..Len(q), i # 1 PROVE i - 1 \in 1..Len(r) /\ q[i] = r[i - 1]
  BY <1>1, <1>2
<1>3. \A i \in 1..Len(r) : i + 1 \in 1..Len(q) /\ r[i] = q[i + 1]
  BY <1>1
<1>4. 1 \in 1..Len(q)
  BY <1>1
<1>5. InQueue(q, op, c) => InQueue(r, op, c) \/ (Head(q).op = op /\ Head(q).c = c)
  BY <1>1, <1>2 DEF InQueue
<1>6. InQueue(r, op, c) \/ (Head(q).op = op /\ Head(q).c = c) => InQueue(q, op, c)
  BY <1>1, <1>3, <1>4 DEF InQueue
<1>7. QED
  BY <1>5, <1>6 DEF r

(* A step that leaves the registry, the lives of the clients and what they were
   told alone, and queues and takes only tasks that are about other things. *)
OtherBusTask(e) == e \in BusTask /\ e.op \notin {"build", "disassemble"}
BusQuiet ==
  \/ busQueue' = busQueue
  \/ \E e \in BusTask : OtherBusTask(e) /\ busQueue' = Append(busQueue, e)
  \/ busQueue # <<>> /\ OtherBusTask(Head(busQueue)) /\ busQueue' = Tail(busQueue)
ClientQuiet(c) ==
  \/ clientQueue'[c] = clientQueue[c]
  \/ \E e \in ClientTask : e.op # "notice" /\ clientQueue'[c] = Append(clientQueue[c], e)
  \/ /\ clientQueue[c] # <<>> /\ Head(clientQueue[c]).op # "notice"
     /\ clientQueue'[c] = Tail(clientQueue[c])
QuietStep ==
  /\ UNCHANGED <<registry, told>>
  /\ \A c \in Client : life'[c] = life[c]
  /\ BusQuiet
  /\ \A c \in Client : ClientQuiet(c)

(* Where the bus is quiet, the same clients are queued to be built and disassembled. *)
LEMMA QueueQuiet ==
  ASSUME TypeOK, BusQuiet, NEW op \in {"build", "disassemble"}, NEW c
  PROVE  InQueue(busQueue', op, c) <=> InQueue(busQueue, op, c)
<1>1. busQueue \in Seq(BusTask)
  BY DEF TypeOK
<1>2. ASSUME NEW e \in BusTask, OtherBusTask(e), busQueue' = Append(busQueue, e)
      PROVE  InQueue(busQueue', op, c) <=> InQueue(busQueue, op, c)
  BY <1>1, <1>2, InLonger DEF OtherBusTask
<1>3. ASSUME busQueue # <<>>, OtherBusTask(Head(busQueue)), busQueue' = Tail(busQueue)
      PROVE  InQueue(busQueue', op, c) <=> InQueue(busQueue, op, c)
  BY <1>1, <1>3, InRest DEF OtherBusTask
<1>4. QED
  BY <1>2, <1>3 DEF BusQuiet

(* Where a client is quiet, it will not be told of anything it would not have been before. *)
LEMMA ComingQuiet ==
  ASSUME TypeOK, NEW c \in Client, ClientQuiet(c), told'[c] = told[c], NEW x,
         Coming(clientQueue'[c], told'[c], x)
  PROVE  Coming(clientQueue[c], told[c], x)
<1>1. clientQueue[c] \in Seq(ClientTask)
  BY DEF TypeOK
<1>2. ASSUME NEW e \in ClientTask, e.op # "notice", clientQueue'[c] = Append(clientQueue[c], e)
      PROVE  Coming(clientQueue[c], told[c], x)
  BY <1>1, <1>2, ComingAfterTask
<1>3. ASSUME clientQueue[c] # <<>>, Head(clientQueue[c]).op # "notice",
             clientQueue'[c] = Tail(clientQueue[c])
      PROVE  Coming(clientQueue[c], told[c], x)
  BY <1>1, <1>3, ComingBeforeTask
<1>4. QED
  BY <1>2, <1>3 DEF ClientQuiet

(* A step that is quiet about the notices keeps the invariant. *)
LEMMA QuietKeeps ==
  ASSUME TypeOK, NoticeInv, QuietStep
  PROVE  NoticeInv'
<1> USE DEF QuietStep
<1>1. \A c \in Client : \A x : Coming(clientQueue'[c], told'[c], x) => Coming(clientQueue[c], told[c], x)
  BY ComingQuiet
<1>2. \A c \in Client, op \in {"build", "disassemble"} :
        InQueue(busQueue', op, c) <=> InQueue(busQueue, op, c)
  BY QueueQuiet
<1>3. /\ clients' = clients /\ services' = services /\ notice' = notice /\ clash' = clash
      /\ \A c \in Client : Alive(c)' <=> Alive(c)
  BY DEF registry, Alive
<1>4. BuildDue' /\ UnbornUnknown'
  BY <1>2, <1>3 DEF NoticeInv, BuildDue, UnbornUnknown, Listed
<1>5. OnlyGoneLeave'
  BY <1>2 DEF NoticeInv, OnlyGoneLeave
<1>6. ListedByName'
  BY <1>3 DEF NoticeInv, ListedByName
<1>7. NoticeRight'
  BY <1>3 DEF NoticeInv, NoticeRight, Listed, Agrees
<1>8. ToldRight'
  BY <1>1, <1>3 DEF NoticeInv, ToldRight, Listed, Agrees
<1>9. UnlistedQuiet'
  BY <1>1, <1>3 DEF NoticeInv, UnlistedQuiet, Listed
<1>10. QED
  BY <1>4, <1>5, <1>6, <1>7, <1>8, <1>9 DEF NoticeInv

(* Queueing a task for clients that are not told anything, or for a service, is
   quiet for all of them. *)
LEMMA ToClientsQuiet ==
  ASSUME NEW C, NEW e \in ClientTask, e.op # "notice", ToClients(C, e)
  PROVE  \A c \in Client : ClientQuiet(c)
BY DEF ToClients, ClientQuiet

(* Taking a task that is no notice is quiet for every client. *)
LEMMA NextClientTaskQuiet ==
  ASSUME TypeOK, NEW d \in Client, NEW op, op # "notice", NextClientTask(d, op)
  PROVE  \A c \in Client : ClientQuiet(c)
BY DEF NextClientTask, ClientQuiet, TypeOK

(* Queueing any other task is quiet for the bus. *)
LEMMA ToBusQuiet ==
  ASSUME NEW e \in BusTask, e.op \notin {"build", "disassemble"}, ToBus(e)
  PROVE  BusQuiet
BY DEF ToBus, BusQuiet, OtherBusTask

(* Taking any other task is quiet for the bus. *)
LEMMA NextTaskQuiet ==
  ASSUME TypeOK, NEW op, op \notin {"build", "disassemble"}, NextTask(op)
  PROVE  BusQuiet
BY NextTaskTyped DEF NextTask, Task, BusQuiet, OtherBusTask

(* Asking for a service to be registered or unregistered is quiet for the bus. *)
LEMMA BodyQuiet ==
  ASSUME TypeOK, NEW s \in Service, (\E n \in Name : RegisterBody(s, n)) \/ UnregisterBody(s)
  PROVE  BusQuiet
<1>1. ASSUME NEW n \in Name, RegisterBody(s, n) PROVE BusQuiet
  <2>1. [op |-> "register", s |-> s, n |-> n] \in BusTask
    BY TasksTyped
  <2>2. QED
    BY <1>1, <2>1, ToBusQuiet DEF RegisterBody, BusQuiet
<1>2. ASSUME UnregisterBody(s) PROVE BusQuiet
  <2>1. CASE serviceName[s] # NULL
    <3>1. [op |-> "unregister", s |-> s, n |-> serviceName[s]] \in BusTask
      BY <2>1, TasksTyped DEF TypeOK
    <3>2. QED
      BY <1>2, <2>1, <3>1, ToBusQuiet DEF UnregisterBody
  <2>2. CASE serviceName[s] = NULL
    BY <1>2, <2>2 DEF UnregisterBody, BusQuiet
  <2>3. QED
    BY <2>1, <2>2
<1>3. QED
  BY <1>1, <1>2

(* The actions that are quiet in this sense. *)
LEMMA QuietActions ==
  ASSUME TypeOK,
         \/ \E s \in Service : ServiceUser(s) \/ ServiceStep(s)
         \/ \E c \in Client : \/ Call(c) \/ AskBus(c, "subscribe") \/ AskBus(c, "unsubscribe")
                            \/ ClientCurrent(c) \/ ClientChanged(c)
         \/ BusCall \/ BusReply \/ BusSubscribe \/ BusUnsubscribe
         \/ UNCHANGED vars
  PROVE  QuietStep
<1> USE DEF registry, client
<1>0. /\ busQueue' = busQueue => BusQuiet
      /\ clientQueue' = clientQueue => \A c \in Client : ClientQuiet(c)
  BY DEF BusQuiet, ClientQuiet
<1>1. ASSUME NEW s \in Service, NEW e, AskService(s, e) PROVE QuietStep
  BY <1>0, <1>1 DEF AskService, QuietStep
<1>2. ASSUME NEW s \in Service, (\E n \in Name : RegisterHere(s, n)) \/ UnregisterHere(s)
      PROVE  QuietStep
  <2>1. BusQuiet
    BY <1>2, BodyQuiet DEF RegisterHere, UnregisterHere
  <2>2. QED
    BY <1>0, <1>2, <2>1 DEF RegisterHere, UnregisterHere, QuietStep
<1>3. ASSUME NEW s \in Service, SetValue(s) PROVE QuietStep
  <2>1. attribute'[s] \in Values
    BY <1>3, LocalBusAssumption DEF SetValue, TypeOK, Values
  <2>2. [op |-> "changed", s |-> s, v |-> attribute'[s]] \in ClientTask
    BY <2>1, TasksTyped
  <2>3. \A c \in Client : ClientQuiet(c)
    BY <1>3, <2>2, ToClientsQuiet DEF SetValue
  <2>4. QED
    BY <1>0, <1>3, <2>3 DEF SetValue, QuietStep
<1>4. ASSUME NEW s \in Service, DestroyService(s) PROVE QuietStep
  BY <1>0, <1>4, LocalBusAssumption DEF DestroyService, QuietStep, TypeOK
<1>5. ASSUME NEW s \in Service, ServiceRegister(s) \/ ServiceUnregister(s) PROVE QuietStep
  <2>1. (\E n \in Name : RegisterBody(s, n)) \/ UnregisterBody(s)
    BY <1>5, NextServiceTaskTyped, ServiceTaskTyped DEF ServiceRegister, ServiceUnregister
  <2>2. BusQuiet
    BY <2>1, BodyQuiet
  <2>3. QED
    BY <1>0, <1>5, <2>2 DEF ServiceRegister, ServiceUnregister, QuietStep
<1>6. ASSUME NEW s \in Service, Serve(s) PROVE QuietStep
  <2>1. ServiceTaskOf(s).i \in 1..MaxCalls
    BY <1>6, NextServiceTaskTyped, ServiceTaskTyped DEF Serve
  <2>2. BusQuiet
    BY <1>6, <2>1, TasksTyped, ToBusQuiet DEF Serve
  <2>3. QED
    BY <1>0, <1>6, <2>2 DEF Serve, QuietStep
<1>7. ASSUME NEW s \in Service, Connect(s) PROVE QuietStep
  <2>1. \A c \in Client : ClientQuiet(c)
    BY <1>7, TasksTyped, ToClientsQuiet DEF Connect
  <2>2. QED
    BY <1>0, <1>7, <2>1 DEF Connect, QuietStep
<1>8. ASSUME NEW s \in Service, Disconnect(s) PROVE QuietStep
  BY <1>0, <1>8 DEF Disconnect, QuietStep
<1>9. ASSUME NEW c \in Client, Call(c) PROVE QuietStep
  <2>1. Len(call') \in 1..MaxCalls
    BY <1>9, LocalBusAssumption DEF Call, TypeOK
  <2>2. BusQuiet
    BY <1>9, <2>1, TasksTyped, ToBusQuiet DEF Call
  <2>3. QED
    BY <1>0, <1>9, <2>2 DEF Call, QuietStep
<1>10. ASSUME NEW c \in Client, NEW op \in {"subscribe", "unsubscribe"}, AskBus(c, op)
       PROVE  QuietStep
  <2>1. [op |-> op, c |-> c] \in BusTask
    BY TasksTyped
  <2>2. BusQuiet
    BY <1>10, <2>1, ToBusQuiet DEF AskBus
  <2>3. QED
    BY <1>0, <1>10, <2>2 DEF AskBus, QuietStep
<1>11. ASSUME NEW c \in Client, ClientCurrent(c) \/ ClientChanged(c) PROVE QuietStep
  <2>1. \A d \in Client : ClientQuiet(d)
    BY <1>11, NextClientTaskQuiet DEF ClientCurrent, ClientChanged
  <2>2. QED
    BY <1>0, <1>11, <2>1 DEF ClientCurrent, ClientChanged, QuietStep
<1>12. ASSUME BusCall \/ BusReply PROVE QuietStep
  <2>1. BusQuiet
    BY <1>12, NextTaskQuiet DEF BusCall, BusReply
  <2>2. QED
    BY <1>0, <1>12, <2>1 DEF BusCall, BusReply, QuietStep
<1>13. ASSUME BusSubscribe \/ BusUnsubscribe PROVE QuietStep
  <2>1. BusQuiet
    BY <1>13, NextTaskQuiet DEF BusSubscribe, BusUnsubscribe, Forward
  <2>2. QED
    BY <1>0, <1>13, <2>1 DEF BusSubscribe, BusUnsubscribe, Forward, QuietStep
<1>14. ASSUME UNCHANGED vars PROVE QuietStep
  BY <1>0, <1>14 DEF vars, queues, QuietStep
<1>15. QED
  BY <1>1, <1>2, <1>3, <1>4, <1>5, <1>6, <1>7, <1>8, <1>9, <1>10, <1>11, <1>12,
     <1>13, <1>14
     DEF ServiceUser, ServiceStep

(* The actions that are not. *)
LEMMA ConstructKeeps ==
  ASSUME TypeOK, NoticeInv, NEW d \in Client, Construct(d)
  PROVE  NoticeInv'
<1> USE DEF registry, client
<1>1. [op |-> "build", c |-> d] \in BusTask
  BY TasksTyped
<1>2. \A c \in Client, op \in {"build", "disassemble"} :
        InQueue(busQueue', op, c) <=> InQueue(busQueue, op, c) \/ (op = "build" /\ c = d)
  BY <1>1, InLonger DEF Construct, ToBus, TypeOK
<1>3. /\ clients' = clients /\ services' = services /\ notice' = notice /\ clash' = clash
      /\ clientQueue' = clientQueue /\ told' = told
      /\ \A c \in Client : c # d => life'[c] = life[c]
      /\ life[d] = "unborn" /\ life'[d] = "alive"
  BY DEF Construct, TypeOK
<1>4. BuildDue' /\ UnbornUnknown'
  BY <1>2, <1>3 DEF NoticeInv, BuildDue, UnbornUnknown, Listed, Alive
<1>5. OnlyGoneLeave'
  BY <1>2, <1>3 DEF NoticeInv, OnlyGoneLeave
<1>6. ListedByName' /\ NoticeRight'
  BY <1>3 DEF NoticeInv, ListedByName, NoticeRight, Listed, Agrees
<1>7. UnlistedQuiet'
  BY <1>3 DEF NoticeInv, UnlistedQuiet, Listed
<1>8. ToldRight'
  BY <1>3 DEF NoticeInv, UnbornUnknown, ToldRight, Listed, Agrees, Alive
<1>9. QED
  BY <1>4, <1>5, <1>6, <1>7, <1>8 DEF NoticeInv

(* A client that is destroyed asks to be disassembled. *)
LEMMA DestroyKeeps ==
  ASSUME TypeOK, NoticeInv, NEW d \in Client, Destroy(d)
  PROVE  NoticeInv'
<1> USE DEF registry, client
<1>1. [op |-> "disassemble", c |-> d] \in BusTask
  BY TasksTyped
<1>2. \A c \in Client, op \in {"build", "disassemble"} :
        InQueue(busQueue', op, c) <=> InQueue(busQueue, op, c) \/ (op = "disassemble" /\ c = d)
  BY <1>1, InLonger DEF Destroy, ToBus, TypeOK
<1>3. /\ clients' = clients /\ services' = services /\ notice' = notice /\ clash' = clash
      /\ told' = told
      /\ \A c \in Client : c # d => life'[c] = life[c] /\ clientQueue'[c] = clientQueue[c]
      /\ life'[d] = "gone"
  BY DEF Destroy, TypeOK
<1>4. BuildDue' /\ UnbornUnknown'
  BY <1>2, <1>3 DEF NoticeInv, BuildDue, UnbornUnknown, Listed, Alive
<1>5. OnlyGoneLeave'
  BY <1>2, <1>3 DEF NoticeInv, OnlyGoneLeave
<1>6. ListedByName' /\ NoticeRight'
  BY <1>3 DEF NoticeInv, ListedByName, NoticeRight, Listed, Agrees
<1>7. UnlistedQuiet'
  BY <1>3 DEF NoticeInv, UnlistedQuiet, Listed
<1>8. ToldRight'
  BY <1>3 DEF NoticeInv, UnbornUnknown, ToldRight, Listed, Agrees, Alive
<1>9. QED
  BY <1>4, <1>5, <1>6, <1>7, <1>8 DEF NoticeInv

(* The bus registers or unregisters a name: those who wait for it are the ones
   to be told, and the registry of another name does not change. *)
LEMMA RegistryKeeps ==
  ASSUME TypeOK, NoticeInv, BusRegister \/ BusUnregister
  PROVE  NoticeInv'
<1> USE DEF client
<1>0. PICK n : n = Task.n
  OBVIOUS
<1>1. n \in Name /\ Task.s \in Service
  BY <1>0, NextTaskTyped, BusTaskTyped DEF BusRegister, BusUnregister
<1>2. /\ clients' = clients /\ life' = life /\ clientQueue' = clientQueue /\ told' = told
      /\ notice.to = {} /\ notice'.to = clients[n]
  BY <1>0 DEF BusRegister, BusUnregister, NextTask, Nobody, Notice
<1>3. \A m \in Name : m # n => services'[m] = services[m]
  BY <1>0, <1>1 DEF BusRegister, BusUnregister, TypeOK
<1>4. clash' \in BOOLEAN /\ (~clash' => ~clash)
  BY DEF BusRegister, BusUnregister, TypeOK
<1>5. clients[n] # {} => Agrees(notice.of, n)'
  <2>1. CASE BusRegister
    BY <1>0, <1>1, <2>1, LocalBusAssumption DEF BusRegister, Agrees, Notice, TypeOK
  <2>2. CASE BusUnregister
    BY <1>0, <1>1, <2>2 DEF BusUnregister, Agrees, Notice, TypeOK
  <2>3. QED
    BY <2>1, <2>2
<1>6. BusQuiet
  BY NextTaskQuiet DEF BusRegister, BusUnregister
<1>7. \A c \in Client, op \in {"build", "disassemble"} :
        InQueue(busQueue', op, c) <=> InQueue(busQueue, op, c)
  BY <1>6, QueueQuiet
<1>8. BuildDue' /\ UnbornUnknown' /\ OnlyGoneLeave'
  BY <1>2, <1>7 DEF NoticeInv, BuildDue, UnbornUnknown, OnlyGoneLeave, Listed, Alive
<1>9. ListedByName'
  BY <1>2 DEF NoticeInv, ListedByName
<1>10. NoticeRight'
  <2>1. ASSUME NEW c \in notice'.to PROVE Listed(c)' /\ Agrees(notice.of, ClientName[c])'
    <3>1. ClientName[c] = n /\ c \in clients[n]
      BY <1>1, <1>2, <2>1 DEF NoticeInv, ListedByName
    <3>2. QED
      BY <1>2, <1>5, <3>1 DEF Listed
  <2>2. QED
    BY <2>1 DEF NoticeRight
<1>11. ToldRight'
  <2>1. ASSUME NEW c \in Client, NEW x \in Service \cup {NULL},
               Listed(c)', c \notin notice'.to, Alive(c)',
               Coming(clientQueue[c], told[c], x)
        PROVE  Agrees(x, ClientName[c])'
    <3>1. ClientName[c] \in Name /\ ClientName[c] # n
      BY <1>2, <2>1, LocalBusAssumption DEF Listed
    <3>2. Agrees(x, ClientName[c])
      BY <1>2, <2>1 DEF NoticeInv, ToldRight, Listed, Alive
    <3>3. QED
      BY <1>3, <1>4, <3>1, <3>2 DEF Agrees
  <2>2. QED
    BY <1>2, <2>1 DEF ToldRight
<1>12. UnlistedQuiet'
  BY <1>2 DEF NoticeInv, UnlistedQuiet, Listed
<1>13. QED
  BY <1>8, <1>9, <1>10, <1>11, <1>12 DEF NoticeInv

(* The next notice goes out. *)
LEMMA NotifyKeeps ==
  ASSUME TypeOK, NoticeInv, NEW d \in Client, BusNotify(d)
  PROVE  NoticeInv'
<1> USE DEF client, service
<1>1. /\ clients' = clients /\ services' = services /\ clash' = clash /\ life' = life
      /\ busQueue' = busQueue /\ told' = told
      /\ d \in notice.to /\ notice'.to = notice.to \ {d}
      /\ notice'.to # {} => notice'.of = notice.of
  BY DEF BusNotify, Notice
<1>2. \A c \in Client : c # d => clientQueue'[c] = clientQueue[c]
  BY DEF BusNotify, ToClients, TypeOK
<1>3. BuildDue' /\ UnbornUnknown' /\ OnlyGoneLeave'
  BY <1>1 DEF NoticeInv, BuildDue, UnbornUnknown, OnlyGoneLeave, Listed, Alive
<1>4. ListedByName' /\ NoticeRight'
  BY <1>1 DEF NoticeInv, ListedByName, NoticeRight, Listed, Agrees
<1>5. ASSUME NEW x \in Service \cup {NULL}, Alive(d), Coming(clientQueue'[d], told[d], x)
      PROVE  Agrees(x, ClientName[d])
  <2> DEFINE e == [op |-> "notice", s |-> notice.of]
  <2>1. e \in ClientTask
    BY TasksTyped DEF TypeOK
  <2>2. clientQueue'[d] = Append(clientQueue[d], e)
    BY <1>5 DEF BusNotify, ToClients
  <2>3. e.op = "notice" /\ e.s = notice.of /\ clientQueue[d] \in Seq(ClientTask)
    BY DEF TypeOK
  <2>4. x = notice.of
    <3> HIDE DEF e
    <3>1. QED
      BY <1>5, <2>1, <2>2, <2>3, ComingAfterNotice
  <2>5. QED
    BY <1>1, <2>4 DEF NoticeInv, NoticeRight
<1>6. ToldRight'
  BY <1>1, <1>2, <1>5 DEF NoticeInv, ToldRight, Listed, Agrees, Alive
<1>7. UnlistedQuiet'
  <2>1. Listed(d)
    BY <1>1 DEF NoticeInv, NoticeRight
  <2>2. QED
    BY <1>1, <1>2, <2>1 DEF NoticeInv, UnlistedQuiet, Listed
<1>8. QED
  BY <1>3, <1>4, <1>6, <1>7 DEF NoticeInv

(* A client is listed, and told of the service if there is one. *)
LEMMA BuildKeeps ==
  ASSUME TypeOK, NoticeInv, BusBuild
  PROVE  NoticeInv'
<1> USE DEF client, service
<1> DEFINE d == Task.c
           n == ClientName[d]
           e == [op |-> "notice", s |-> services[n]]
<1>1. /\ d \in Client /\ n \in Name /\ Task.op = "build"
      /\ services[n] \in Service \cup {NULL} /\ e \in ClientTask
  BY NextTaskTyped, BusTaskTyped, TasksTyped, LocalBusAssumption DEF BusBuild, TypeOK
<1>2. /\ services' = services /\ clash' = clash /\ life' = life /\ told' = told
      /\ notice' = notice /\ notice.to = {}
      /\ clients' = [clients EXCEPT ![n] = @ \cup {d}]
  BY DEF BusBuild, NextTask, Nobody, Notice
<1>3. \A c \in Client : c # d => clientQueue'[c] = clientQueue[c]
  BY DEF BusBuild, ToClients, TypeOK
<1>4. /\ services[n] = NULL => clientQueue'[d] = clientQueue[d]
      /\ services[n] # NULL /\ Alive(d) => clientQueue'[d] = Append(clientQueue[d], e)
  BY <1>1 DEF BusBuild, ToClients
<1> HIDE DEF d, n, e
<1>5. n = ClientName[d] /\ d = Task.c /\ e.op = "notice" /\ e.s = services[n]
  BY DEF d, n, e
<1>6. \A c \in Client : Listed(c)' <=> Listed(c) \/ c = d
  BY <1>1, <1>2, <1>5, LocalBusAssumption DEF Listed, TypeOK
<1>7. \A c \in Client, op \in {"build", "disassemble"} :
        InQueue(busQueue, op, c) <=> InQueue(busQueue', op, c) \/ (op = "build" /\ c = d)
  BY <1>1, <1>5, InRest DEF BusBuild, NextTask, Task, TypeOK
<1>8. BuildDue' /\ UnbornUnknown' /\ OnlyGoneLeave'
  BY <1>2, <1>6, <1>7 DEF NoticeInv, BuildDue, UnbornUnknown, OnlyGoneLeave, Alive
<1>9. ListedByName'
  BY <1>1, <1>2, <1>5 DEF NoticeInv, ListedByName, TypeOK
<1>10. NoticeRight'
  BY <1>2 DEF NoticeRight
<1>11. ASSUME NEW x \in Service \cup {NULL}, Alive(d), Coming(clientQueue'[d], told[d], x)
       PROVE  Agrees(x, n)
  <2>1. CASE services[n] # NULL
    <3>1. clientQueue[d] \in Seq(ClientTask) /\ e \in ClientTask
      BY <1>1 DEF TypeOK
    <3>2. x = services[n]
      BY <1>4, <1>5, <1>11, <2>1, <3>1, ComingAfterNotice
    <3>3. QED
      BY <3>2 DEF Agrees
  <2>2. CASE services[n] = NULL /\ ~Listed(d)
    <3>1. Coming(clientQueue[d], told[d], x) /\ life[d] # "gone"
      BY <1>4, <1>11, <2>2 DEF Alive
    <3>2. x = NULL
      BY <1>1, <2>2, <3>1 DEF NoticeInv, UnlistedQuiet
    <3>3. QED
      BY <2>2, <3>2 DEF Agrees
  <2>3. CASE services[n] = NULL /\ Listed(d)
    <3>1. Coming(clientQueue[d], told[d], x)
      BY <1>4, <1>11, <2>3
    <3>2. QED
      BY <1>1, <1>2, <1>5, <1>11, <2>3, <3>1 DEF NoticeInv, ToldRight
  <2>4. QED
    BY <2>1, <2>2, <2>3
<1>12. ToldRight'
  <2>1. ASSUME NEW c \in Client, NEW x \in Service \cup {NULL}, Listed(c)',
               Alive(c), Coming(clientQueue'[c], told[c], x)
        PROVE  Agrees(x, ClientName[c])
    <3>1. CASE c = d
      BY <1>5, <1>11, <2>1, <3>1
    <3>2. CASE c # d
      BY <1>2, <1>3, <1>6, <2>1, <3>2 DEF NoticeInv, ToldRight
    <3>3. QED
      BY <3>1, <3>2
  <2>2. QED
    BY <1>2, <2>1 DEF ToldRight, Agrees, Alive
<1>13. UnlistedQuiet'
  BY <1>2, <1>3, <1>6 DEF NoticeInv, UnlistedQuiet
<1>14. QED
  BY <1>8, <1>9, <1>10, <1>12, <1>13 DEF NoticeInv

(* A client that is gone is taken off the list. *)
LEMMA DisassembleKeeps ==
  ASSUME TypeOK, NoticeInv, BusDisassemble
  PROVE  NoticeInv'
<1> USE DEF client, service
<1> DEFINE d == Task.c
<1>1. d \in Client /\ ClientName[d] \in Name /\ Task.op = "disassemble"
  BY NextTaskTyped, BusTaskTyped, LocalBusAssumption DEF BusDisassemble
<1>2. /\ services' = services /\ clash' = clash /\ life' = life /\ told' = told
      /\ notice' = notice /\ notice.to = {} /\ clientQueue' = clientQueue
      /\ clients' = [clients EXCEPT ![ClientName[d]] = @ \ {d}]
  BY DEF BusDisassemble, NextTask, Nobody, Notice
<1> HIDE DEF d
<1>3. \A c \in Client : Listed(c)' <=> Listed(c) /\ c # d
  BY <1>1, <1>2, LocalBusAssumption DEF Listed, TypeOK
<1>4. \A c \in Client, op \in {"build", "disassemble"} :
        InQueue(busQueue, op, c) <=> InQueue(busQueue', op, c) \/ (op = "disassemble" /\ c = d)
  BY <1>1, InRest DEF BusDisassemble, NextTask, Task, TypeOK, d
<1>5. life[d] = "gone"
  BY <1>1, <1>4 DEF NoticeInv, OnlyGoneLeave
<1>6. BuildDue' /\ UnbornUnknown' /\ OnlyGoneLeave'
  BY <1>2, <1>3, <1>4, <1>5 DEF NoticeInv, BuildDue, UnbornUnknown, OnlyGoneLeave, Alive
<1>7. ListedByName'
  BY <1>1, <1>2 DEF NoticeInv, ListedByName, TypeOK
<1>8. NoticeRight'
  BY <1>2 DEF NoticeRight
<1>9. ToldRight'
  BY <1>2, <1>3 DEF NoticeInv, ToldRight, Agrees, Alive
<1>10. UnlistedQuiet'
  BY <1>2, <1>3, <1>5 DEF NoticeInv, UnlistedQuiet
<1>11. QED
  BY <1>6, <1>7, <1>8, <1>9, <1>10 DEF NoticeInv

(* A client executes a notice. *)
LEMMA ClientNoticeKeeps ==
  ASSUME TypeOK, NoticeInv, NEW d \in Client, ClientNotice(d)
  PROVE  NoticeInv'
<1> USE DEF registry, service
<1>1. /\ services' = services /\ clients' = clients /\ notice' = notice /\ clash' = clash
      /\ life' = life /\ busQueue' = busQueue
  BY DEF ClientNotice
<1>2. ASSUME NEW c \in Client, NEW x, Coming(clientQueue'[c], told'[c], x)
      PROVE  Coming(clientQueue[c], told[c], x)
  <2>1. CASE c = d
    <3>1. /\ clientQueue[d] \in Seq(ClientTask) /\ clientQueue[d] # <<>>
          /\ Head(clientQueue[d]).op = "notice"
          /\ clientQueue'[d] = Tail(clientQueue[d])
          /\ told'[d] = Head(clientQueue[d]).s
      BY DEF ClientNotice, NextClientTask, TypeOK
    <3>2. QED
      BY <1>2, <2>1, <3>1, ComingBeforeNotice
  <2>2. CASE c # d
    BY <1>2, <2>2 DEF ClientNotice, NextClientTask, TypeOK
  <2>3. QED
    BY <2>1, <2>2
<1>3. BuildDue' /\ UnbornUnknown' /\ OnlyGoneLeave' /\ ListedByName' /\ NoticeRight'
  BY <1>1 DEF NoticeInv, BuildDue, UnbornUnknown, OnlyGoneLeave, ListedByName, NoticeRight, Listed,
              Agrees, Alive
<1>4. ToldRight' /\ UnlistedQuiet'
  BY <1>1, <1>2 DEF NoticeInv, ToldRight, UnlistedQuiet, Listed, Agrees, Alive
<1>5. QED
  BY <1>3, <1>4 DEF NoticeInv

(* Every step keeps the invariant. *)
LEMMA NoticeStep == TypeOK /\ NoticeInv /\ [Next]_vars => NoticeInv'
<1>1. ASSUME TypeOK, NoticeInv, NEW c \in Client, ClientUser(c) \/ ClientStep(c)
      PROVE  NoticeInv'
  BY <1>1, QuietActions, QuietKeeps, ConstructKeeps, DestroyKeeps, ClientNoticeKeeps
     DEF ClientUser, ClientStep
<1>2. ASSUME TypeOK, NoticeInv, BusStep PROVE NoticeInv'
  BY <1>2, QuietActions, QuietKeeps, RegistryKeeps, NotifyKeeps, BuildKeeps,
     DisassembleKeeps
     DEF BusStep
<1>3. QED
  BY <1>1, <1>2, QuietActions, QuietKeeps DEF Next

(* However clients and services come and go, a client that has nothing left to
   hear was told last whether its service is there. *)
THEOREM ToldTheTruth == Safety => []TellsTruth
<1>1. Init => NoticeInv
  <2> SUFFICES ASSUME Init PROVE NoticeInv
    OBVIOUS
  <2>1. BuildDue /\ UnbornUnknown /\ OnlyGoneLeave /\ ListedByName /\ NoticeRight
    BY LocalBusAssumption
       DEF Init, BuildDue, UnbornUnknown, OnlyGoneLeave, ListedByName, NoticeRight, Listed, InQueue,
           Alive, Nobody, Notice
  <2>2. ToldRight /\ UnlistedQuiet
    BY LocalBusAssumption DEF Init, ToldRight, UnlistedQuiet, Listed, Coming
  <2>3. QED
    BY <2>1, <2>2 DEF NoticeInv
<1>2. TypeOK /\ NoticeInv => TellsTruth
  <2> SUFFICES ASSUME TypeOK, NoticeInv, NEW c \in Client, Settled(c)
               PROVE  Agrees(told[c], ClientName[c])
    BY DEF TellsTruth, Agrees
  <2>1. Listed(c) /\ notice.to = {}
    BY DEF Settled, NoticeInv, BuildDue, InQueue, Nobody, Notice
  <2>2. Coming(clientQueue[c], told[c], told[c]) /\ told[c] \in Service \cup {NULL}
    BY DEF Settled, Coming, TypeOK
  <2>3. QED
    BY <2>1, <2>2 DEF Settled, NoticeInv, ToldRight
<1>3. QED
  BY <1>1, <1>2, TypeCorrect, NoticeStep, PTL DEF Safety

------------------------------------------------------------------------------
(* What subscribers hear. *)

(* The tasks of a client that are about the attribute of s, and those after which
   it has heard that its value is v. *)
About(e, s) == e.op \in {"current", "changed"} /\ e.s = s
Right(e, v) == e.op = "current" \/ e.v = v

LastAbout(q, i, s) ==
  About(q[i], s) /\ \A j \in (i + 1)..Len(q) : ~About(q[j], s)

(* A client that has heard h of s, and has the queue q, hears last that the value
   is v. *)
Hears(q, h, s, v) ==
  /\ (\A i \in 1..Len(q) : ~About(q[i], s)) => h = v
  /\ \A i \in 1..Len(q) : LastAbout(q, i, s) => Right(q[i], v)

(* Why a subscriber knows the value: whatever is queued for it ends with a change
   to this value or with a read of it.  Nobody subscribes before he is there. *)
HearsRight ==
  \A s \in Service, c \in Client :
    c \in listeners[s] /\ Alive(s) /\ Alive(c) =>
      Hears(clientQueue[c], heard[c][s], s, attribute[s])

Stranger(c) ==
  /\ ~InQueue(busQueue, "subscribe", c)
  /\ \A s \in Service : ~InQueue(serviceQueue[s], "connect", c) /\ c \notin listeners[s]

UnbornStrange == \A c \in Client : life[c] = "unborn" => Stranger(c)

SubscriberInv == UnbornStrange /\ HearsRight

(* A task that is about something else changes nothing, where it is queued ... *)
LEMMA HearsAfterOther ==
  ASSUME NEW S, NEW q \in Seq(S), NEW e \in S, NEW h, NEW s, NEW v,
         ~About(e, s), Hears(q, h, s, v)
  PROVE  Hears(Append(q, e), h, s, v)
<1> DEFINE r == Append(q, e)
<1>1. /\ Len(r) = Len(q) + 1 /\ r[Len(q) + 1] = e /\ Len(q) \in Nat
      /\ \A i \in 1..Len(q) : r[i] = q[i]
  OBVIOUS
<1> HIDE DEF r
<1>2. \A i \in 1..Len(q) : i \in 1..Len(r)
  BY <1>1
<1>3. ASSUME \A i \in 1..Len(r) : ~About(r[i], s) PROVE h = v
  BY <1>1, <1>2, <1>3 DEF Hears
<1>4. ASSUME NEW i \in 1..Len(r), LastAbout(r, i, s) PROVE Right(r[i], v)
  <2>1. i \in 1..Len(q) /\ r[i] = q[i]
    BY <1>1, <1>4 DEF LastAbout
  <2>2. ASSUME NEW j \in (i + 1)..Len(q) PROVE ~About(q[j], s)
    <3>1. j \in (i + 1)..Len(r) /\ j \in 1..Len(q)
      BY <1>1
    <3>2. QED
      BY <1>1, <1>4, <3>1 DEF LastAbout
  <2>3. LastAbout(q, i, s)
    BY <1>4, <2>1, <2>2 DEF LastAbout
  <2>4. QED
    BY <2>1, <2>3 DEF Hears
<1>5. QED
  BY <1>3, <1>4 DEF Hears, r

(* ... and one that is right is heard last. *)
LEMMA HearsAfterRight ==
  ASSUME NEW S, NEW q \in Seq(S), NEW e \in S, NEW h, NEW s, NEW v,
         About(e, s), Right(e, v)
  PROVE  Hears(Append(q, e), h, s, v)
<1> DEFINE r == Append(q, e)
<1>1. Len(r) = Len(q) + 1 /\ r[Len(q) + 1] = e /\ Len(q) \in Nat
  OBVIOUS
<1> HIDE DEF r
<1>2. Len(q) + 1 \in 1..Len(r)
  BY <1>1
<1>3. ASSUME NEW i \in 1..Len(r), LastAbout(r, i, s) PROVE i = Len(q) + 1
  <2>1. i # Len(q) + 1 => Len(q) + 1 \in (i + 1)..Len(r)
    BY <1>1
  <2>2. QED
    BY <1>1, <1>3, <2>1 DEF LastAbout
<1>4. QED
  BY <1>1, <1>2, <1>3 DEF Hears, r

(* When the first task is executed, a client has heard h2 of s: what it had heard
   if the task is about something else, v if the task is right. *)
LEMMA HearsRest ==
  ASSUME NEW S, NEW q \in Seq(S), q # <<>>, NEW h, NEW h2, NEW s, NEW v,
         ~About(Head(q), s) => h2 = h,
         About(Head(q), s) /\ Right(Head(q), v) => h2 = v,
         Hears(q, h, s, v)
  PROVE  Hears(Tail(q), h2, s, v)
<1> DEFINE r == Tail(q)
<1>1. /\ Len(r) = Len(q) - 1 /\ Len(q) \in Nat /\ Len(r) \in Nat /\ Len(q) > 0
      /\ q[1] = Head(q)
      /\ \A i \in 1..Len(r) : r[i] = q[i + 1]
  OBVIOUS
<1> HIDE DEF r
<1>2. ASSUME NEW i \in 2..Len(q) PROVE i - 1 \in 1..Len(r) /\ q[i] = r[i - 1]
  BY <1>1
<1>3. ASSUME \A i \in 1..Len(r) : ~About(r[i], s) PROVE h2 = v
  <2>1. \A i \in 2..Len(q) : ~About(q[i], s)
    BY <1>2, <1>3
  <2>2. CASE About(q[1], s)
    <3>1. 1 \in 1..Len(q) /\ LastAbout(q, 1, s)
      BY <1>1, <2>1, <2>2 DEF LastAbout
    <3>2. QED
      BY <1>1, <2>2, <3>1 DEF Hears
  <2>3. CASE ~About(q[1], s)
    <3>1. \A i \in 1..Len(q) : ~About(q[i], s)
      BY <1>1, <2>1, <2>3
    <3>2. QED
      BY <1>1, <2>3, <3>1 DEF Hears
  <2>4. QED
    BY <2>2, <2>3
<1>4. ASSUME NEW i \in 1..Len(r), LastAbout(r, i, s) PROVE Right(r[i], v)
  <2>1. i + 1 \in 1..Len(q) /\ q[i + 1] = r[i]
    BY <1>1
  <2>2. ASSUME NEW j \in ((i + 1) + 1)..Len(q) PROVE ~About(q[j], s)
    <3>1. j - 1 \in (i + 1)..Len(r) /\ q[j] = r[j - 1]
      BY <1>1
    <3>2. QED
      BY <1>4, <3>1 DEF LastAbout
  <2>3. LastAbout(q, i + 1, s)
    BY <1>4, <2>1, <2>2 DEF LastAbout
  <2>4. QED
    BY <2>1, <2>3 DEF Hears
<1>5. QED
  BY <1>3, <1>4 DEF Hears, r

(* Nobody who is unborn subscribes or is connected. *)
LEMMA StrangeKept ==
  ASSUME TypeOK, UnbornStrange,
         \A c \in Client : life'[c] = "unborn" => life[c] = "unborn",
         ASSUME NEW c \in Client, life[c] = "unborn"
         PROVE  /\ InQueue(busQueue', "subscribe", c) => InQueue(busQueue, "subscribe", c)
                /\ \A s \in Service :
                     /\ InQueue(serviceQueue'[s], "connect", c)
                          => InQueue(serviceQueue[s], "connect", c)
                     /\ c \in listeners'[s] => c \in listeners[s]
  PROVE  UnbornStrange'
BY DEF UnbornStrange, Stranger

(* What is queued for the bus and for the services, as far as this goes. *)
LEMMA SubscribeQueued ==
  ASSUME TypeOK, NEW c \in Client
  PROVE  /\ \A op : NextTask(op) /\ InQueue(busQueue', "subscribe", c)
                     => InQueue(busQueue, "subscribe", c)
         /\ \A e \in BusTask : ToBus(e) /\ InQueue(busQueue', "subscribe", c)
                     => InQueue(busQueue, "subscribe", c) \/ (e.op = "subscribe" /\ e.c = c)
<1>1. busQueue \in Seq(BusTask)
  BY DEF TypeOK
<1>2. ASSUME NEW op, NextTask(op), InQueue(busQueue', "subscribe", c)
      PROVE  InQueue(busQueue, "subscribe", c)
  BY <1>1, <1>2, InRest DEF NextTask
<1>3. ASSUME NEW e \in BusTask, ToBus(e), InQueue(busQueue', "subscribe", c)
      PROVE  InQueue(busQueue, "subscribe", c) \/ (e.op = "subscribe" /\ e.c = c)
  BY <1>1, <1>3, InLonger DEF ToBus
<1>4. QED
  BY <1>2, <1>3

(* The same of the queue of a service. *)
LEMMA ConnectQueued ==
  ASSUME TypeOK, NEW s \in Service, NEW c \in Client
  PROVE  /\ \A op, d : d \in Service /\ NextServiceTask(d, op)
                         /\ InQueue(serviceQueue'[s], "connect", c)
                     => InQueue(serviceQueue[s], "connect", c)
         /\ \A e, d : e \in ServiceTask /\ d \in Service /\ ToService(d, e)
                       /\ InQueue(serviceQueue'[s], "connect", c)
                     => InQueue(serviceQueue[s], "connect", c) \/ (e.op = "connect" /\ e.c = c)
<1>1. serviceQueue[s] \in Seq(ServiceTask)
  BY DEF TypeOK
<1>2. ASSUME NEW op, NEW d, d \in Service, NextServiceTask(d, op),
             InQueue(serviceQueue'[s], "connect", c)
      PROVE  InQueue(serviceQueue[s], "connect", c)
  <2>1. CASE d = s
    BY <1>1, <1>2, <2>1, InRest DEF NextServiceTask, TypeOK
  <2>2. CASE d # s
    BY <1>2, <2>2 DEF NextServiceTask, TypeOK
  <2>3. QED
    BY <2>1, <2>2
<1>3. ASSUME NEW e, NEW d, e \in ServiceTask, d \in Service, ToService(d, e),
             InQueue(serviceQueue'[s], "connect", c)
      PROVE  InQueue(serviceQueue[s], "connect", c) \/ (e.op = "connect" /\ e.c = c)
  <2>1. CASE d = s /\ Alive(d)
    <3>1. serviceQueue'[s] = Append(serviceQueue[s], e)
      BY <1>3, <2>1 DEF ToService, TypeOK
    <3>2. QED
      BY <1>1, <1>3, <3>1, InLonger
  <2>2. CASE ~(d = s /\ Alive(d))
    BY <1>3, <2>2 DEF ToService, TypeOK
  <2>3. QED
    BY <2>1, <2>2
<1>4. QED
  BY <1>2, <1>3

(* The bodies that ask the bus to register a service ask it for nothing else. *)
LEMMA BodySubscribes ==
  ASSUME TypeOK, NEW s \in Service, (\E n \in Name : RegisterBody(s, n)) \/ UnregisterBody(s),
         NEW c \in Client, InQueue(busQueue', "subscribe", c)
  PROVE  InQueue(busQueue, "subscribe", c)
<1>1. ASSUME NEW n \in Name, RegisterBody(s, n)
      PROVE  InQueue(busQueue, "subscribe", c)
  BY <1>1, TasksTyped, SubscribeQueued DEF RegisterBody
<1>2. ASSUME UnregisterBody(s)
      PROVE  InQueue(busQueue, "subscribe", c)
  <2>1. CASE serviceName[s] # NULL
    <3>1. [op |-> "unregister", s |-> s, n |-> serviceName[s]] \in BusTask
      BY <2>1, TasksTyped DEF TypeOK
    <3>2. QED
      BY <1>2, <2>1, <3>1, SubscribeQueued DEF UnregisterBody
  <2>2. CASE serviceName[s] = NULL
    BY <1>2, <2>2 DEF UnregisterBody
  <2>3. QED
    BY <2>1, <2>2
<1>3. QED
  BY <1>1, <1>2

(* Each step of the bus keeps the unborn unknown to the services ... *)
LEMMA StrangeBus ==
  ASSUME TypeOK, UnbornStrange, BusStep
  PROVE  UnbornStrange'
<1> USE DEF registry, client, service
<1>1. ASSUME BusRegister \/ BusUnregister \/ BusBuild \/ BusDisassemble \/ BusReply
      PROVE  UnbornStrange'
  <2>1. /\ UNCHANGED <<serviceQueue, listeners, life>>
        /\ \E op : NextTask(op)
    BY <1>1 DEF BusRegister, BusUnregister, BusBuild, BusDisassemble, BusReply
  <2>2. QED
    BY <2>1, SubscribeQueued, StrangeKept
<1>2. ASSUME NEW c \in Client, BusNotify(c)
      PROVE  UnbornStrange'
  BY <1>2, StrangeKept DEF BusNotify
<1>3. ASSUME NEW op, NEW e \in ServiceTask, NextTask(op),
             \/ serviceQueue' = serviceQueue
             \/ \E s \in Service : ToService(s, e),
             UNCHANGED <<listeners, life>>,
             e.op = "connect" => op = "subscribe" /\ e.c = Task.c
      PROVE  UnbornStrange'
  <2>1. ASSUME NEW c \in Client, life[c] = "unborn", e.op = "connect", e.c = c
        PROVE  FALSE
    <3>1. busQueue \in Seq(BusTask) /\ busQueue # <<>>
          /\ Head(busQueue).op = "subscribe" /\ Head(busQueue).c = c
      BY <1>3, <2>1 DEF TypeOK, NextTask, Task
    <3>2. InQueue(busQueue, "subscribe", c)
      BY <3>1, InRest
    <3>3. QED
      BY <2>1, <3>2 DEF UnbornStrange, Stranger
  <2>2. ASSUME NEW c \in Client, life[c] = "unborn", NEW s \in Service,
               InQueue(serviceQueue'[s], "connect", c)
        PROVE  InQueue(serviceQueue[s], "connect", c)
    BY <1>3, <2>1, <2>2, ConnectQueued
  <2>3. QED
    BY <1>3, <2>2, SubscribeQueued, StrangeKept
<1>4. ASSUME BusCall PROVE UnbornStrange'
  <2>1. Task \in BusTask /\ Task.op = "call"
    BY <1>4, NextTaskTyped DEF BusCall
  <2>2. [op |-> "serve", i |-> Task.i] \in ServiceTask /\ Task.c \in Client
    BY <2>1, BusTaskTyped, TasksTyped
  <2>3. services[ClientName[Task.c]] \in Service \cup {NULL}
    BY <2>2, LocalBusAssumption DEF TypeOK
  <2>4. \/ serviceQueue' = serviceQueue
        \/ \E s \in Service : ToService(s, [op |-> "serve", i |-> Task.i])
    BY <1>4, <2>3 DEF BusCall
  <2>5. NextTask("call") /\ UNCHANGED <<listeners, life>>
    BY <1>4 DEF BusCall
  <2>6. QED
    BY <1>3, <2>2, <2>4, <2>5
<1>5. ASSUME NEW op, NEW serviceOp, Forward(op, serviceOp),
             \/ op = "subscribe" /\ serviceOp = "connect"
             \/ op = "unsubscribe" /\ serviceOp = "disconnect"
      PROVE  UnbornStrange'
  <2>1. Task \in BusTask /\ Task.op = op
    BY <1>5, NextTaskTyped DEF Forward
  <2>2. [op |-> serviceOp, c |-> Task.c] \in ServiceTask /\ Task.c \in Client
    BY <1>5, <2>1, BusTaskTyped, TasksTyped
  <2>3. services[ClientName[Task.c]] \in Service \cup {NULL}
    BY <2>2, LocalBusAssumption DEF TypeOK
  <2>4. \/ serviceQueue' = serviceQueue
        \/ \E s \in Service : ToService(s, [op |-> serviceOp, c |-> Task.c])
    BY <1>5, <2>3 DEF Forward
  <2>5. NextTask(op) /\ UNCHANGED <<listeners, life>>
    BY <1>5 DEF Forward
  <2>6. QED
    BY <1>3, <1>5, <2>2, <2>4, <2>5
<1>6. QED
  BY <1>1, <1>2, <1>4, <1>5 DEF BusStep, BusSubscribe, BusUnsubscribe

(* ... and so does each step of a service ... *)
LEMMA StrangeService ==
  ASSUME TypeOK, UnbornStrange, NEW s \in Service, ServiceUser(s) \/ ServiceStep(s)
  PROVE  UnbornStrange'
<1> USE DEF registry, client, service
<1>1. ASSUME NEW e \in ServiceTask, e.op # "connect", AskService(s, e)
      PROVE  UnbornStrange'
  BY <1>1, ConnectQueued, StrangeKept DEF AskService
<1>2. ASSUME (\E n \in Name : RegisterHere(s, n)) \/ UnregisterHere(s)
      PROVE  UnbornStrange'
  <2>1. /\ (\E n \in Name : RegisterBody(s, n)) \/ UnregisterBody(s)
        /\ UNCHANGED <<serviceQueue, listeners, life>>
    BY <1>2 DEF RegisterHere, UnregisterHere
  <2>2. QED
    BY <2>1, BodySubscribes, StrangeKept
<1>3. ASSUME SetValue(s)
      PROVE  UnbornStrange'
  BY <1>3, StrangeKept DEF SetValue
<1>4. ASSUME DestroyService(s)
      PROVE  UnbornStrange'
  <2>1. ASSUME NEW c \in Client
        PROVE  life'[c] = "unborn" => life[c] = "unborn"
    BY <1>4 DEF DestroyService, TypeOK
  <2>2. ASSUME NEW c \in Client, NEW t \in Service, InQueue(serviceQueue'[t], "connect", c)
        PROVE  InQueue(serviceQueue[t], "connect", c)
    BY <1>4, <2>2 DEF DestroyService, InQueue, TypeOK
  <2>3. UNCHANGED <<busQueue, listeners>>
    BY <1>4 DEF DestroyService
  <2>4. QED
    BY <2>1, <2>2, <2>3, StrangeKept
<1>5. ASSUME ServiceRegister(s) \/ ServiceUnregister(s)
      PROVE  UnbornStrange'
  <2>1. (\E n \in Name : RegisterBody(s, n)) \/ UnregisterBody(s)
    BY <1>5, NextServiceTaskTyped, ServiceTaskTyped DEF ServiceRegister, ServiceUnregister
  <2>2. (\E op : NextServiceTask(s, op)) /\ UNCHANGED <<listeners, life>>
    BY <1>5 DEF ServiceRegister, ServiceUnregister
  <2>3. QED
    BY <2>1, <2>2, BodySubscribes, ConnectQueued, StrangeKept
<1>6. ASSUME Serve(s)
      PROVE  UnbornStrange'
  <2>1. ServiceTaskOf(s).i \in 1..MaxCalls
    BY <1>6, NextServiceTaskTyped, ServiceTaskTyped DEF Serve
  <2>2. \A c \in Client : InQueue(busQueue', "subscribe", c) => InQueue(busQueue, "subscribe", c)
    BY <1>6, <2>1, TasksTyped, SubscribeQueued DEF Serve
  <2>3. NextServiceTask(s, "serve") /\ UNCHANGED <<listeners, life>>
    BY <1>6 DEF Serve
  <2>4. QED
    BY <2>2, <2>3, ConnectQueued, StrangeKept
<1>7. ASSUME Connect(s) \/ Disconnect(s)
      PROVE  UnbornStrange'
  <2>1. (\E op : NextServiceTask(s, op)) /\ UNCHANGED <<busQueue, life>>
    BY <1>7 DEF Connect, Disconnect
  <2>2. ASSUME NEW c \in Client, life[c] = "unborn", NEW t \in Service, c \in listeners'[t]
        PROVE  c \in listeners[t]
    <3>1. CASE Connect(s)
      <4>1. serviceQueue[s] \in Seq(ServiceTask) /\ serviceQueue[s] # <<>>
            /\ Head(serviceQueue[s]).op = "connect"
        BY <3>1 DEF Connect, NextServiceTask, TypeOK
      <4>2. InQueue(serviceQueue[s], "connect", Head(serviceQueue[s]).c)
        BY <4>1, InRest
      <4>3. Head(serviceQueue[s]).c # c
        BY <2>2, <4>2 DEF UnbornStrange, Stranger
      <4>4. QED
        BY <2>2, <3>1, <4>3 DEF Connect, ServiceTaskOf, TypeOK
    <3>2. CASE Disconnect(s)
      BY <2>2, <3>2 DEF Disconnect, TypeOK
    <3>3. QED
      BY <1>7, <3>1, <3>2
  <2>3. QED
    BY <2>1, <2>2, ConnectQueued, StrangeKept
<1>8. QED
  BY <1>1, <1>2, <1>3, <1>4, <1>5, <1>6, <1>7, TasksTyped DEF ServiceUser, ServiceStep

(* ... and of a client, who subscribes when he lives. *)
LEMMA StrangeClient ==
  ASSUME TypeOK, UnbornStrange, NEW d \in Client, ClientUser(d) \/ ClientStep(d)
  PROVE  UnbornStrange'
<1> USE DEF registry, client, service
<1>1. ASSUME NEW e \in BusTask, ToBus(e), UNCHANGED <<serviceQueue, listeners>>,
             e.op = "subscribe" => e.c = d /\ Alive(d),
             \A c \in Client : life'[c] = "unborn" => life[c] = "unborn"
      PROVE  UnbornStrange'
  <2>1. ASSUME NEW c \in Client, life[c] = "unborn", InQueue(busQueue', "subscribe", c)
        PROVE  InQueue(busQueue, "subscribe", c)
    BY <1>1, <2>1, SubscribeQueued DEF Alive
  <2>2. QED
    BY <1>1, <2>1, StrangeKept
<1>2. ASSUME Construct(d) \/ Destroy(d)
      PROVE  UnbornStrange'
  <2>1. \A c \in Client : life'[c] = "unborn" => life[c] = "unborn"
    BY <1>2 DEF Construct, Destroy, TypeOK
  <2>2. QED
    BY <1>1, <1>2, <2>1, TasksTyped DEF Construct, Destroy
<1>3. ASSUME Call(d)
      PROVE  UnbornStrange'
  <2>1. Len(call') \in 1..MaxCalls
    BY <1>3, LocalBusAssumption DEF Call, TypeOK
  <2>2. QED
    BY <1>1, <1>3, <2>1, TasksTyped DEF Call
<1>4. ASSUME NEW op \in {"subscribe", "unsubscribe"}, AskBus(d, op)
      PROVE  UnbornStrange'
  <2>1. [op |-> op, c |-> d] \in BusTask
    BY TasksTyped
  <2>2. QED
    BY <1>1, <1>4, <2>1 DEF AskBus
<1>5. ASSUME ClientStep(d)
      PROVE  UnbornStrange'
  BY <1>5, StrangeKept DEF ClientStep, ClientNotice, ClientCurrent, ClientChanged
<1>6. QED
  BY <1>2, <1>3, <1>4, <1>5 DEF ClientUser

(* A step that changes no value, and queues at most notices for the clients,
   changes nothing about what they hear. *)
LEMMA HearsKept ==
  ASSUME TypeOK, HearsRight, UNCHANGED <<attribute, heard>>,
         ASSUME NEW s \in Service, NEW c \in Client,
                c \in listeners'[s], Alive(s)', Alive(c)'
         PROVE  /\ c \in listeners[s] /\ Alive(s) /\ Alive(c)
                /\ \/ clientQueue'[c] = clientQueue[c]
                   \/ \E e \in ClientTask :
                        ~About(e, s) /\ clientQueue'[c] = Append(clientQueue[c], e)
  PROVE  HearsRight'
<1> SUFFICES ASSUME NEW s \in Service, NEW c \in Client,
                    c \in listeners'[s], Alive(s)', Alive(c)'
             PROVE  Hears(clientQueue'[c], heard[c][s], s, attribute[s])
  BY DEF HearsRight
<1>1. Hears(clientQueue[c], heard[c][s], s, attribute[s])
  BY DEF HearsRight
<1>2. clientQueue[c] \in Seq(ClientTask)
  BY DEF TypeOK
<1>3. QED
  BY <1>1, <1>2, HearsAfterOther

(* Each step keeps this. *)
LEMMA HearsStep ==
  ASSUME TypeOK, SubscriberInv, [Next]_vars
  PROVE  HearsRight'
<1> USE DEF registry, client, service, SubscriberInv
<1>1. ASSUME UNCHANGED <<attribute, heard, listeners, life, clientQueue>>
      PROVE  HearsRight'
  BY <1>1, HearsKept DEF Alive
<1>2. ASSUME BusRegister \/ BusUnregister \/ BusDisassemble \/ BusReply \/ BusCall
             \/ BusSubscribe \/ BusUnsubscribe \/ UNCHANGED vars
      PROVE  HearsRight'
  BY <1>1, <1>2 DEF BusRegister, BusUnregister, BusDisassemble, BusReply, BusCall,
                    BusSubscribe, BusUnsubscribe, Forward, vars, queues
<1>3. ASSUME NEW C, NEW e \in ClientTask, e.op = "notice", ToClients(C, e),
             UNCHANGED <<attribute, heard, listeners, life>>
      PROVE  HearsRight'
  <2>1. \A s : ~About(e, s)
    BY <1>3 DEF About
  <2>2. ASSUME NEW c \in Client
        PROVE  clientQueue'[c] \in {clientQueue[c], Append(clientQueue[c], e)}
    BY <1>3 DEF ToClients
  <2>3. QED
    BY <1>3, <2>1, <2>2, HearsKept DEF Alive
<1>4. ASSUME NEW c \in Client, BusNotify(c)
      PROVE  HearsRight'
  <2>1. [op |-> "notice", s |-> notice.of] \in ClientTask
    BY TasksTyped DEF TypeOK
  <2>2. QED
    BY <1>3, <1>4, <2>1 DEF BusNotify
<1>5. ASSUME BusBuild
      PROVE  HearsRight'
  <2>1. Task \in BusTask /\ Task.op = "build"
    BY <1>5, NextTaskTyped DEF BusBuild
  <2>2. Task.c \in Client /\ ClientName[Task.c] \in Name
    BY <2>1, BusTaskTyped, LocalBusAssumption
  <2>3. [op |-> "notice", s |-> services[ClientName[Task.c]]] \in ClientTask
    BY <2>2, TasksTyped DEF TypeOK
  <2>4. CASE services[ClientName[Task.c]] # NULL
    BY <1>3, <1>5, <2>3, <2>4 DEF BusBuild
  <2>5. CASE services[ClientName[Task.c]] = NULL
    BY <1>1, <1>5, <2>5 DEF BusBuild
  <2>6. QED
    BY <2>4, <2>5
<1>6. ASSUME NEW s \in Service, (\E e : AskService(s, e)) \/ ServiceRegister(s)
                                \/ ServiceUnregister(s) \/ Serve(s) \/ UnregisterHere(s)
                                \/ \E n \in Name : RegisterHere(s, n)
      PROVE  HearsRight'
  BY <1>1, <1>6 DEF AskService, ServiceRegister, ServiceUnregister, Serve, UnregisterHere,
                    RegisterHere
<1>7. ASSUME NEW s \in Service, SetValue(s)
      PROVE  HearsRight'
  <2> DEFINE e == [op |-> "changed", s |-> s, v |-> attribute'[s]]
  <2>1. e \in ClientTask
    <3>1. attribute'[s] \in Values
      BY <1>7, LocalBusAssumption DEF SetValue, TypeOK, Values
    <3>2. QED
      BY <3>1, TasksTyped
  <2>2. /\ ToClients(listeners[s], e) /\ UNCHANGED <<heard, listeners, life>>
        /\ \A t \in Service : t # s => attribute'[t] = attribute[t]
    BY <1>7 DEF SetValue, TypeOK
  <2>3. About(e, s) /\ Right(e, attribute'[s]) /\ \A t : t # s => ~About(e, t)
    BY DEF About, Right
  <2> HIDE DEF e
  <2>4. ASSUME NEW t \in Service, NEW c \in Client, c \in listeners[t], Alive(t), Alive(c)
        PROVE  Hears(clientQueue'[c], heard[c][t], t, attribute'[t])
    <3>1. clientQueue[c] \in Seq(ClientTask) /\ Hears(clientQueue[c], heard[c][t], t, attribute[t])
      BY <2>4 DEF HearsRight, TypeOK
    <3>2. CASE t = s
      <4>1. clientQueue'[c] = Append(clientQueue[c], e)
        BY <2>2, <2>4, <3>2 DEF ToClients
      <4>2. QED
        BY <2>1, <2>3, <3>1, <3>2, <4>1, HearsAfterRight
    <3>3. CASE t # s
      <4>1. clientQueue'[c] \in {clientQueue[c], Append(clientQueue[c], e)}
        BY <2>2 DEF ToClients
      <4>2. QED
        BY <2>1, <2>2, <2>3, <3>1, <3>3, <4>1, HearsAfterOther
    <3>4. QED
      BY <3>2, <3>3
  <2>5. QED
    BY <2>2, <2>4 DEF HearsRight, Alive
<1>8. ASSUME NEW s \in Service, DestroyService(s)
      PROVE  HearsRight'
  <2>1. UNCHANGED <<attribute, heard, listeners, clientQueue>>
    BY <1>8 DEF DestroyService
  <2>2. \A x \in Client \cup Service : Alive(x)' => Alive(x)
    BY <1>8 DEF DestroyService, Alive, TypeOK
  <2>3. QED
    BY <2>1, <2>2, HearsKept
<1>9. ASSUME NEW s \in Service, Connect(s)
      PROVE  HearsRight'
  <2>1. PICK d \in Client : d = ServiceTaskOf(s).c
    BY <1>9, NextServiceTaskTyped, ServiceTaskTyped DEF Connect
  <2> DEFINE e == [op |-> "current", s |-> s]
  <2>2. /\ ToClients({d}, e) /\ UNCHANGED <<attribute, heard, life>>
        /\ \A t \in Service, c \in Client :
             c \in listeners'[t] => c \in listeners[t] \/ (t = s /\ c = d)
    BY <1>9, <2>1 DEF Connect, TypeOK
  <2>3. /\ About(e, s) /\ \A v : Right(e, v)
        /\ \A t : t # s => ~About(e, t)
        /\ e \in ClientTask
    BY TasksTyped DEF About, Right
  <2> HIDE DEF e
  <2>4. ASSUME NEW t \in Service, NEW c \in Client, c \in listeners'[t], Alive(t), Alive(c)
        PROVE  Hears(clientQueue'[c], heard[c][t], t, attribute[t])
    <3>1. clientQueue[c] \in Seq(ClientTask)
      BY DEF TypeOK
    <3>2. CASE c = d
      <4>1. clientQueue'[c] = Append(clientQueue[c], e)
        BY <2>2, <2>4, <3>2 DEF ToClients
      <4>2. CASE t = s
        BY <2>3, <3>1, <4>1, <4>2, HearsAfterRight
      <4>3. CASE t # s
        <5>1. Hears(clientQueue[c], heard[c][t], t, attribute[t])
          BY <2>2, <2>4, <4>3 DEF HearsRight
        <5>2. QED
          BY <2>3, <3>1, <4>1, <4>3, <5>1, HearsAfterOther
      <4>4. QED
        BY <4>2, <4>3
    <3>3. CASE c # d
      BY <2>2, <2>4, <3>3 DEF HearsRight, ToClients
    <3>4. QED
      BY <3>2, <3>3
  <2>5. QED
    BY <2>2, <2>4 DEF HearsRight, Alive
<1>10. ASSUME NEW s \in Service, Disconnect(s)
       PROVE  HearsRight'
  <2>1. UNCHANGED <<attribute, heard, life, clientQueue>>
    BY <1>10 DEF Disconnect
  <2>2. \A t \in Service : listeners'[t] \subseteq listeners[t]
    BY <1>10 DEF Disconnect, TypeOK
  <2>3. QED
    BY <2>1, <2>2, HearsKept DEF Alive
<1>11. ASSUME NEW d \in Client, Construct(d)
       PROVE  HearsRight'
  <2>1. UNCHANGED <<attribute, heard, listeners, clientQueue>>
    BY <1>11 DEF Construct
  <2>2. \A x \in Client \cup Service : x # d => (Alive(x)' <=> Alive(x))
    BY <1>11 DEF Construct, Alive, TypeOK
  <2>3. d \notin Service /\ \A s \in Service : d \notin listeners[s]
    BY <1>11, LocalBusAssumption DEF Construct, UnbornStrange, Stranger
  <2>4. QED
    BY <2>1, <2>2, <2>3, HearsKept
<1>12. ASSUME NEW d \in Client, Destroy(d)
       PROVE  HearsRight'
  <2>1. UNCHANGED <<attribute, heard, listeners>>
    BY <1>12 DEF Destroy
  <2>2. /\ \A x \in Client \cup Service : Alive(x)' => Alive(x) /\ x # d
        /\ \A c \in Client : c # d => clientQueue'[c] = clientQueue[c]
    BY <1>12 DEF Destroy, Alive, TypeOK
  <2>3. QED
    BY <2>1, <2>2, HearsKept
<1>13. ASSUME NEW d \in Client, Call(d) \/ AskBus(d, "subscribe") \/ AskBus(d, "unsubscribe")
       PROVE  HearsRight'
  BY <1>1, <1>13 DEF Call, AskBus
<1> DEFINE Heard(e, d, t) == IF ~About(e, t) THEN heard[d][t]
                             ELSE IF e.op = "current" THEN attribute[t] ELSE e.v
<1>14. ASSUME NEW d \in Client, NEW op, NextClientTask(d, op),
              UNCHANGED <<attribute, listeners, life>>,
              \A t \in Service : heard'[d][t] = Heard(Head(clientQueue[d]), d, t),
              \A c \in Client : c # d => heard'[c] = heard[c]
       PROVE  HearsRight'
  <2>1. ASSUME NEW t \in Service, NEW c \in Client, c \in listeners[t], Alive(t), Alive(c)
        PROVE  Hears(clientQueue'[c], heard'[c][t], t, attribute[t])
    <3>1. /\ clientQueue[c] \in Seq(ClientTask)
          /\ Hears(clientQueue[c], heard[c][t], t, attribute[t])
      BY <2>1 DEF HearsRight, TypeOK
    <3>2. CASE c = d
      <4>1. /\ clientQueue[c] # <<>> /\ clientQueue'[c] = Tail(clientQueue[c])
            /\ ~About(Head(clientQueue[c]), t) => heard'[c][t] = heard[c][t]
            /\ About(Head(clientQueue[c]), t) /\ Right(Head(clientQueue[c]), attribute[t])
                 => heard'[c][t] = attribute[t]
        BY <1>14, <3>2 DEF NextClientTask, Right, TypeOK
      <4>2. QED
        BY <3>1, <4>1, HearsRest
    <3>3. CASE c # d
      BY <1>14, <3>1, <3>3 DEF NextClientTask, TypeOK
    <3>4. QED
      BY <3>2, <3>3
  <2>2. QED
    BY <1>14, <2>1 DEF HearsRight, Alive
<1>15. ASSUME NEW d \in Client, ClientStep(d)
       PROVE  HearsRight'
  <2>1. CASE ClientNotice(d)
    <3>1. NextClientTask(d, "notice") /\ UNCHANGED <<attribute, listeners, life, heard>>
      BY <2>1 DEF ClientNotice
    <3>2. \A t : ~About(Head(clientQueue[d]), t)
      BY <3>1 DEF NextClientTask, About
    <3>3. QED
      BY <1>14, <3>1, <3>2
  <2>2. CASE ClientCurrent(d)
    <3>1. PICK s \in Service : s = Head(clientQueue[d]).s
      BY <2>2, NextClientTaskTyped, ClientTaskTyped DEF ClientCurrent
    <3>2. /\ NextClientTask(d, "current") /\ UNCHANGED <<attribute, listeners, life>>
          /\ heard' = [heard EXCEPT ![d][s] = attribute[s]]
      BY <2>2, <3>1 DEF ClientCurrent, Hear
    <3>3. \A t : About(Head(clientQueue[d]), t) <=> t = s
      BY <3>1, <3>2 DEF NextClientTask, About
    <3>4. /\ \A c \in Client : c # d => heard'[c] = heard[c]
          /\ \A t \in Service : heard'[d][t] = IF t = s THEN attribute[s] ELSE heard[d][t]
      BY <3>2 DEF TypeOK
    <3>5. Head(clientQueue[d]).op = "current"
      BY <3>2 DEF NextClientTask
    <3>6. \A t \in Service : heard'[d][t] = Heard(Head(clientQueue[d]), d, t)
      BY <3>3, <3>4, <3>5
    <3> HIDE DEF Heard
    <3>7. QED
      BY <1>14, <3>2, <3>4, <3>6
  <2>3. CASE ClientChanged(d)
    <3>1. PICK s \in Service : s = Head(clientQueue[d]).s
      BY <2>3, NextClientTaskTyped, ClientTaskTyped DEF ClientChanged
    <3>2. /\ NextClientTask(d, "changed") /\ UNCHANGED <<attribute, listeners, life>>
          /\ heard' = [heard EXCEPT ![d][s] = Head(clientQueue[d]).v]
      BY <2>3, <3>1 DEF ClientChanged, Hear
    <3>3. \A t : About(Head(clientQueue[d]), t) <=> t = s
      BY <3>1, <3>2 DEF NextClientTask, About
    <3>4. /\ \A c \in Client : c # d => heard'[c] = heard[c]
          /\ \A t \in Service :
               heard'[d][t] = IF t = s THEN Head(clientQueue[d]).v ELSE heard[d][t]
      BY <3>2 DEF TypeOK
    <3>5. Head(clientQueue[d]).op = "changed"
      BY <3>2 DEF NextClientTask
    <3>6. \A t \in Service : heard'[d][t] = Heard(Head(clientQueue[d]), d, t)
      BY <3>3, <3>4, <3>5
    <3> HIDE DEF Heard
    <3>7. QED
      BY <1>14, <3>2, <3>4, <3>6
  <2>4. QED
    BY <1>15, <2>1, <2>2, <2>3 DEF ClientStep
<1>16. ASSUME NEW c \in Client, ClientUser(c)
       PROVE  HearsRight'
  BY <1>11, <1>12, <1>13, <1>16 DEF ClientUser
<1>17. ASSUME NEW s \in Service, ServiceUser(s) \/ ServiceStep(s)
       PROVE  HearsRight'
  BY <1>6, <1>7, <1>8, <1>9, <1>10, <1>17 DEF ServiceUser, ServiceStep
<1>18. CASE BusStep
  BY <1>2, <1>4, <1>5, <1>18 DEF BusStep
<1>19. QED
  BY <1>2, <1>15, <1>16, <1>17, <1>18, Zenon DEF Next

(* Whenever an attribute changed, and whenever a client subscribed, a subscriber
   that has executed what was queued for it knows the current value. *)
THEOREM SubscribersKnow == Safety => []SubscriberKnows
<1>1. Init => SubscriberInv
  BY DEF Init, SubscriberInv, UnbornStrange, Stranger, HearsRight, InQueue
<1>2. TypeOK /\ SubscriberInv /\ [Next]_vars => SubscriberInv'
  <2>1. ASSUME TypeOK, SubscriberInv, [Next]_vars
        PROVE  UnbornStrange'
    <3>1. CASE UNCHANGED vars
      BY <2>1, <3>1, StrangeKept DEF SubscriberInv, vars, queues, service
    <3>2. CASE Next
      BY <2>1, <3>2, StrangeBus, StrangeService, StrangeClient DEF SubscriberInv, Next
    <3>3. QED
      BY <2>1, <3>1, <3>2
  <2>2. QED
    BY <2>1, HearsStep DEF SubscriberInv
<1>3. TypeOK /\ SubscriberInv => SubscriberKnows
  <2> SUFFICES ASSUME TypeOK, SubscriberInv, NEW s \in Service, NEW c \in listeners[s],
                      Alive(s), Alive(c), clientQueue[c] = <<>>
               PROVE  heard[c][s] = attribute[s]
    BY DEF SubscriberKnows
  <2>1. c \in Client
    BY DEF TypeOK
  <2>2. Hears(<<>>, heard[c][s], s, attribute[s])
    BY <2>1 DEF SubscriberInv, HearsRight
  <2>3. QED
    BY <2>2 DEF Hears
<1>4. QED
  BY <1>1, <1>2, <1>3, TypeCorrect, PTL DEF Safety
==============================================================================
