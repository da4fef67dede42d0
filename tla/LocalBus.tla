------------------------------ MODULE LocalBus ------------------------------
(***************************************************************************)
(* icc::localbus: the broker between services and clients of one           *)
(* interface.  The bus is a component with a thread of its own; whatever   *)
(* services and clients ask of it, from their threads, is a task in its    *)
(* queue.  A task of the bus looks up who is registered and queues a task  *)
(* for a client or for a service, which its own thread executes; a reply   *)
(* comes back to the queue of the bus.                                     *)
(*                                                                         *)
(* Contexts are FIFO queues with one thread each (Context), each client    *)
(* and service owns its own, and an emission of an attribute is one step   *)
(* (Event).  The pointers of the bus own nothing.  What reaches an object  *)
(* that is gone is undefined in the code: here it is lost.  A reply does   *)
(* not use the bus itself.                                                 *)
(***************************************************************************)
EXTENDS Naturals, Sequences

CONSTANTS Client, Service, Name, NULL,
          ClientName,   \* ClientName[c]: service_name_ of the client
          MaxCalls,     \* bound: calls of service methods
          MaxRequests,  \* bound: other requests of services and clients
          MaxValue      \* bound: changes of an attribute

ASSUME LocalBusAssumption ==
  /\ NULL \notin Client \cup Service \cup Name
  /\ Client \cap Service = {}
  /\ ClientName \in [Client -> Name]
  /\ MaxCalls \in Nat /\ MaxRequests \in Nat /\ MaxValue \in Nat

VARIABLES services,    \* services_: services[n] is registered under n
          clients,     \* clients_: clients[n] wait for the service n
          busQueue,    \* queue of the bus
          notice,      \* the notification the bus is sending out
          serviceName, \* service_name_ of the services
          serviceQueue, clientQueue,  \* queues of the components
          life,        \* life[x]: "unborn", "alive" or "gone"
          listeners,   \* listeners[s]: who is connected to the attribute of s
          attribute,   \* attribute[s]: its value
          told,        \* history: argument of the last connected/disconnected
          heard,       \* history: heard[c][s]: last value c got of s
          call,        \* history: call[i]: caller and state of the i-th call
          requests,    \* history: number of other requests
          clash        \* history: a name was taken when it was registered

registry == <<services, clients, notice, clash>>
queues == <<busQueue, serviceQueue, clientQueue>>
client == <<told, heard>>
service == <<serviceName, listeners, attribute>>
vars == <<registry, queues, client, service, life, call, requests>>

(* The notification of C about s; that of nobody is over. *)
Notice(C, s) == [to |-> C, of |-> IF C = {} THEN NULL ELSE s]
Nobody == Notice({}, NULL)
Values == 0..MaxValue

BusTask ==
  [op : {"register", "unregister"}, s : Service, n : Name]
    \cup [op : {"build", "disassemble", "subscribe", "unsubscribe"}, c : Client]
    \cup [op : {"call"}, c : Client, i : 1..MaxCalls]
    \cup [op : {"reply"}, i : 1..MaxCalls]
ServiceTask ==
  [op : {"register"}, n : Name] \cup [op : {"unregister"}]
    \cup [op : {"connect", "disconnect"}, c : Client]
    \cup [op : {"serve"}, i : 1..MaxCalls]
ClientTask ==
  [op : {"notice"}, s : Service \cup {NULL}]
    \cup [op : {"current"}, s : Service]
    \cup [op : {"changed"}, s : Service, v : Values]

TypeOK ==
  /\ services \in [Name -> Service \cup {NULL}]
  /\ clients \in [Name -> SUBSET Client]
  /\ busQueue \in Seq(BusTask)
  /\ notice \in [to : SUBSET Client, of : Service \cup {NULL}]
  /\ serviceName \in [Service -> Name \cup {NULL}]
  /\ serviceQueue \in [Service -> Seq(ServiceTask)]
  /\ clientQueue \in [Client -> Seq(ClientTask)]
  /\ life \in [Client \cup Service -> {"unborn", "alive", "gone"}]
  /\ listeners \in [Service -> SUBSET Client]
  /\ attribute \in [Service -> Values]
  /\ told \in [Client -> Service \cup {NULL}]
  /\ heard \in [Client -> [Service -> Values]]
  /\ call \in Seq([by : Client, state : {"made", "sent", "lost", "served", "replied"}])
  /\ requests \in 0..MaxRequests
  /\ clash \in BOOLEAN

Init ==
  /\ services = [n \in Name |-> NULL]
  /\ clients = [n \in Name |-> {}]
  /\ busQueue = <<>>
  /\ notice = Nobody
  /\ serviceName = [s \in Service |-> NULL]
  /\ serviceQueue = [s \in Service |-> <<>>]
  /\ clientQueue = [c \in Client |-> <<>>]
  /\ life = [x \in Client \cup Service |-> IF x \in Client THEN "unborn" ELSE "alive"]
  /\ listeners = [s \in Service |-> {}]
  /\ attribute = [s \in Service |-> 0]
  /\ told = [c \in Client |-> NULL]
  /\ heard = [c \in Client |-> [s \in Service |-> 0]]
  /\ call = <<>>
  /\ requests = 0
  /\ clash = FALSE

Alive(x) == life[x] = "alive"
Request == requests < MaxRequests /\ requests' = requests + 1

(* invoke() and push() of the bus, of a service and of a client, on another
   thread than theirs. *)
ToBus(task) == busQueue' = Append(busQueue, task)

ToService(s, task) ==
  serviceQueue' = IF Alive(s) THEN [serviceQueue EXCEPT ![s] = Append(@, task)]
                              ELSE serviceQueue

ToClients(C, task) ==
  clientQueue' = [c \in Client |-> IF c \in C /\ Alive(c)
                                   THEN Append(clientQueue[c], task)
                                   ELSE clientQueue[c]]

------------------------------------------------------------------------------
(* What the program asks of a service.  From another thread, registerService
   and unregisterService are tasks in the queue of the service. *)
AskService(s, task) ==
  /\ Alive(s)
  /\ Request
  /\ ToService(s, task)
  /\ UNCHANGED <<registry, busQueue, clientQueue, client, service, life, call>>

(* The bodies of IService::registerService and unregisterService. *)
RegisterBody(s, n) ==
  IF serviceName[s] = NULL
  THEN /\ serviceName' = [serviceName EXCEPT ![s] = n]
       /\ ToBus([op |-> "register", s |-> s, n |-> n])
  ELSE UNCHANGED <<serviceName, busQueue>>

UnregisterBody(s) ==
  IF serviceName[s] # NULL
  THEN /\ ToBus([op |-> "unregister", s |-> s, n |-> serviceName[s]])
       /\ serviceName' = [serviceName EXCEPT ![s] = NULL]
  ELSE UNCHANGED <<serviceName, busQueue>>

(* On the thread of the service they are executed at once. *)
RegisterHere(s, n) ==
  /\ Alive(s)
  /\ Request
  /\ RegisterBody(s, n)
  /\ UNCHANGED <<registry, serviceQueue, clientQueue, client, listeners,
                 attribute, life, call>>

UnregisterHere(s) ==
  /\ Alive(s)
  /\ Request
  /\ UnregisterBody(s)
  /\ UNCHANGED <<registry, serviceQueue, clientQueue, client, listeners,
                 attribute, life, call>>

(* Attribute::setValue on the thread of the service. *)
SetValue(s) ==
  /\ Alive(s)
  /\ attribute[s] < MaxValue
  /\ attribute' = [attribute EXCEPT ![s] = @ + 1]
  /\ ToClients(listeners[s], [op |-> "changed", s |-> s, v |-> attribute'[s]])
  /\ UNCHANGED <<registry, busQueue, serviceQueue, client, serviceName,
                 listeners, life, call, requests>>

(* ~IService does nothing: the bus keeps the service. *)
DestroyService(s) ==
  /\ Alive(s)
  /\ Request
  /\ life' = [life EXCEPT ![s] = "gone"]
  /\ serviceQueue' = [serviceQueue EXCEPT ![s] = <<>>]
  /\ UNCHANGED <<registry, busQueue, clientQueue, client, service, call>>

------------------------------------------------------------------------------
(* What the program asks of a client.  IClient::IClient and ~IClient. *)
Construct(c) ==
  /\ life[c] = "unborn"
  /\ life' = [life EXCEPT ![c] = "alive"]
  /\ ToBus([op |-> "build", c |-> c])
  /\ UNCHANGED <<registry, serviceQueue, clientQueue, client, service, call,
                 requests>>

Destroy(c) ==
  /\ Alive(c)
  /\ Request
  /\ life' = [life EXCEPT ![c] = "gone"]
  /\ clientQueue' = [clientQueue EXCEPT ![c] = <<>>]
  /\ ToBus([op |-> "disassemble", c |-> c])
  /\ UNCHANGED <<registry, serviceQueue, client, service, call>>

(* IClient::call, subscribe and unsubscribe, for the name of the client. *)
Call(c) ==
  /\ Alive(c)
  /\ Len(call) < MaxCalls
  /\ call' = Append(call, [by |-> c, state |-> "made"])
  /\ ToBus([op |-> "call", c |-> c, i |-> Len(call')])
  /\ UNCHANGED <<registry, serviceQueue, clientQueue, client, service, life,
                 requests>>

AskBus(c, op) ==
  /\ Alive(c)
  /\ Request
  /\ ToBus([op |-> op, c |-> c])
  /\ UNCHANGED <<registry, serviceQueue, clientQueue, client, service, life, call>>

------------------------------------------------------------------------------
(* The thread of the bus.  It takes the next task when it has sent out the
   notification of the last one. *)
NextTask(op) ==
  /\ notice = Nobody
  /\ busQueue # <<>>
  /\ Head(busQueue).op = op
  /\ busQueue' = Tail(busQueue)

Task == Head(busQueue)

(* registerService: the first service of a name stays, but the clients are
   told of the new one. *)
BusRegister ==
  /\ NextTask("register")
  /\ services' = [services EXCEPT ![Task.n] = IF @ = NULL THEN Task.s ELSE @]
  /\ clash' = (clash \/ services[Task.n] # NULL)
  /\ notice' = Notice(clients[Task.n], Task.s)
  /\ UNCHANGED <<clients, serviceQueue, clientQueue, client, service, life,
                 call, requests>>

\* Mutant: only the service that is registered is unregistered, but the clients
\* are told in any case.
MutBusUnregister ==
  /\ NextTask("unregister")
  /\ services' = [services EXCEPT ![Task.n] = IF @ = Task.s THEN NULL ELSE @]
  /\ notice' = Notice(clients[Task.n], NULL)
  /\ UNCHANGED <<clients, clash, serviceQueue, clientQueue, client, service,
                 life, call, requests>>

(* unregisterService: whoever is registered under the name. *)
BusUnregister ==
  /\ NextTask("unregister")
  /\ services' = [services EXCEPT ![Task.n] = NULL]
  /\ notice' = Notice(clients[Task.n], NULL)
  /\ UNCHANGED <<clients, clash, serviceQueue, clientQueue, client, service,
                 life, call, requests>>

\* Mutant: the loop does not step over a client that is gone.
MutBusNotify(c) ==
  /\ c \in notice.to
  /\ Alive(c)
  /\ ToClients({c}, [op |-> "notice", s |-> notice.of])
  /\ notice' = Notice(notice.to \ {c}, notice.of)
  /\ UNCHANGED <<services, clients, clash, busQueue, serviceQueue, client,
                 service, life, call, requests>>

(* One turn of their loops over the clients: a client that is gone is passed
   over. *)
BusNotify(c) ==
  /\ c \in notice.to
  /\ ToClients({c}, [op |-> "notice", s |-> notice.of])
  /\ notice' = Notice(notice.to \ {c}, notice.of)
  /\ UNCHANGED <<services, clients, clash, busQueue, serviceQueue, client,
                 service, life, call, requests>>

(* buildClient tells the client of a service that is there already. *)
BusBuild ==
  /\ NextTask("build")
  /\ LET c == Task.c
         n == ClientName[c] IN
       /\ clients' = [clients EXCEPT ![n] = @ \cup {c}]
       /\ IF services[n] # NULL
          THEN ToClients({c}, [op |-> "notice", s |-> services[n]])
          ELSE UNCHANGED clientQueue
  /\ UNCHANGED <<services, notice, clash, serviceQueue, client, service, life,
                 call, requests>>

BusDisassemble ==
  /\ NextTask("disassemble")
  /\ clients' = [clients EXCEPT ![ClientName[Task.c]] = @ \ {Task.c}]
  /\ UNCHANGED <<services, notice, clash, serviceQueue, clientQueue, client,
                 service, life, call, requests>>

(* call: nothing happens if no service has the name. *)
BusCall ==
  /\ NextTask("call")
  /\ LET s == services[ClientName[Task.c]] IN
       IF s # NULL
       THEN /\ ToService(s, [op |-> "serve", i |-> Task.i])
            /\ call' = [call EXCEPT ![Task.i].state = "sent"]
       ELSE /\ call' = [call EXCEPT ![Task.i].state = "lost"]
            /\ UNCHANGED serviceQueue
  /\ UNCHANGED <<registry, clientQueue, client, service, life, requests>>

(* The lambda that the reply of the service has queued. *)
BusReply ==
  /\ NextTask("reply")
  /\ call' = [call EXCEPT ![Task.i].state = "replied"]
  /\ UNCHANGED <<registry, serviceQueue, clientQueue, client, service, life,
                 requests>>

(* subscribe and unsubscribe; neither happens if no service has the name. *)
Forward(op, serviceOp) ==
  /\ NextTask(op)
  /\ LET s == services[ClientName[Task.c]] IN
       IF s # NULL
       THEN ToService(s, [op |-> serviceOp, c |-> Task.c])
       ELSE UNCHANGED serviceQueue
  /\ UNCHANGED <<registry, clientQueue, client, service, life, call, requests>>

BusSubscribe == Forward("subscribe", "connect")
BusUnsubscribe == Forward("unsubscribe", "disconnect")

BusStep ==
  \/ BusRegister \/ BusUnregister \/ BusBuild \/ BusDisassemble
  \/ BusCall \/ BusReply \/ BusSubscribe \/ BusUnsubscribe
  \/ \E c \in Client : BusNotify(c)

------------------------------------------------------------------------------
(* The thread of a service. *)
NextServiceTask(s, op) ==
  /\ serviceQueue[s] # <<>>
  /\ Head(serviceQueue[s]).op = op
  /\ serviceQueue' = [serviceQueue EXCEPT ![s] = Tail(@)]

ServiceTaskOf(s) == Head(serviceQueue[s])

ServiceRegister(s) ==
  /\ NextServiceTask(s, "register")
  /\ RegisterBody(s, ServiceTaskOf(s).n)
  /\ UNCHANGED <<registry, clientQueue, client, listeners, attribute, life,
                 call, requests>>

ServiceUnregister(s) ==
  /\ NextServiceTask(s, "unregister")
  /\ UnregisterBody(s)
  /\ UNCHANGED <<registry, clientQueue, client, listeners, attribute, life,
                 call, requests>>

(* The method of the service, and its reply. *)
Serve(s) ==
  /\ NextServiceTask(s, "serve")
  /\ call' = [call EXCEPT ![ServiceTaskOf(s).i].state = "served"]
  /\ ToBus([op |-> "reply", i |-> ServiceTaskOf(s).i])
  /\ UNCHANGED <<registry, clientQueue, client, service, life, requests>>

\* Mutant: the client of an attribute is connected as that of an event is.
MutConnect(s) ==
  /\ NextServiceTask(s, "connect")
  /\ listeners' = [listeners EXCEPT ![s] = @ \cup {ServiceTaskOf(s).c}]
  /\ UNCHANGED <<registry, busQueue, clientQueue, client, serviceName,
                 attribute, life, call, requests>>

(* The client is connected, and queues for itself the read of the value. *)
Connect(s) ==
  /\ NextServiceTask(s, "connect")
  /\ listeners' = [listeners EXCEPT ![s] = @ \cup {ServiceTaskOf(s).c}]
  /\ ToClients({ServiceTaskOf(s).c}, [op |-> "current", s |-> s])
  /\ UNCHANGED <<registry, busQueue, client, serviceName, attribute, life,
                 call, requests>>

Disconnect(s) ==
  /\ NextServiceTask(s, "disconnect")
  /\ listeners' = [listeners EXCEPT ![s] = @ \ {ServiceTaskOf(s).c}]
  /\ UNCHANGED <<registry, busQueue, clientQueue, client, serviceName,
                 attribute, life, call, requests>>

ServiceStep(s) ==
  ServiceRegister(s) \/ ServiceUnregister(s) \/ Serve(s) \/ Connect(s) \/ Disconnect(s)

------------------------------------------------------------------------------
(* The thread of a client: connected or disconnected, the read of the
   attribute that Connect has queued, the callback of the attribute. *)
NextClientTask(c, op) ==
  /\ clientQueue[c] # <<>>
  /\ Head(clientQueue[c]).op = op
  /\ clientQueue' = [clientQueue EXCEPT ![c] = Tail(@)]

Hear(c, s, v) == heard' = [heard EXCEPT ![c][s] = v]

ClientNotice(c) ==
  /\ NextClientTask(c, "notice")
  /\ told' = [told EXCEPT ![c] = Head(clientQueue[c]).s]
  /\ UNCHANGED <<registry, busQueue, serviceQueue, heard, service, life, call,
                 requests>>

ClientCurrent(c) ==
  /\ NextClientTask(c, "current")
  /\ LET s == Head(clientQueue[c]).s IN Hear(c, s, attribute[s])
  /\ UNCHANGED <<registry, busQueue, serviceQueue, told, service, life, call,
                 requests>>

ClientChanged(c) ==
  /\ NextClientTask(c, "changed")
  /\ LET task == Head(clientQueue[c]) IN Hear(c, task.s, task.v)
  /\ UNCHANGED <<registry, busQueue, serviceQueue, told, service, life, call,
                 requests>>

ClientStep(c) == ClientNotice(c) \/ ClientCurrent(c) \/ ClientChanged(c)

------------------------------------------------------------------------------
ServiceUser(s) ==
  \/ \E n \in Name : AskService(s, [op |-> "register", n |-> n]) \/ RegisterHere(s, n)
  \/ AskService(s, [op |-> "unregister"]) \/ UnregisterHere(s)
  \/ SetValue(s) \/ DestroyService(s)

ClientUser(c) ==
  \/ Construct(c) \/ Destroy(c) \/ Call(c)
  \/ AskBus(c, "subscribe") \/ AskBus(c, "unsubscribe")

Next ==
  \/ BusStep
  \/ \E s \in Service : ServiceUser(s) \/ ServiceStep(s)
  \/ \E c \in Client : ClientUser(c) \/ ClientStep(c)

(* The threads of the bus and of the services run their loops forever; the
   answer to a call does not wait for a client. *)
Fairness ==
  /\ WF_vars(BusStep)
  /\ \A s \in Service : WF_vars(ServiceStep(s))

Safety == Init /\ [][Next]_vars
Spec == Safety /\ Fairness

------------------------------------------------------------------------------
(* When the bus and a client have nothing left to do, the client has been told
   last that it is connected if and only if a service has its name, whatever
   the order in which clients were built and services registered; and if no
   name was taken twice, it was told of that very service. *)
Settled(c) ==
  Alive(c) /\ busQueue = <<>> /\ notice = Nobody /\ clientQueue[c] = <<>>

TellsTruth ==
  \A c \in Client : Settled(c) =>
    LET s == services[ClientName[c]] IN
      /\ told[c] = NULL <=> s = NULL
      /\ ~clash => told[c] = s

(* A subscriber that has executed what was queued for it has heard the current
   value of the attribute, whether it changed before, while or after the
   subscription went through the bus and the service. *)
SubscriberKnows ==
  \A s \in Service : \A c \in listeners[s] :
    Alive(s) /\ Alive(c) /\ clientQueue[c] = <<>> => heard[c][s] = attribute[s]

(* A call made while a service is registered is replied to, unless the service
   is unregistered or destroyed meanwhile. *)
InState(i, state) == i <= Len(call) /\ call[i].state = state
SentTo(i, s) == i <= Len(call) /\ services[ClientName[call[i].by]] = s

CallAnswered ==
  \A i \in 1..MaxCalls, s \in Service :
    InState(i, "made") /\ SentTo(i, s)
      ~> InState(i, "replied") \/ ~SentTo(i, s) \/ ~Alive(s)
==============================================================================
