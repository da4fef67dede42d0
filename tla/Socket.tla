------------------------------- MODULE Socket -------------------------------
(***************************************************************************)
(* icc::os::Socket and icc::os::ServerSocket on posix, on an EventLoop.    *)
(* Clients queue requests (receive, send, accept) with promises, under a   *)
(* mutex; the thread of the loop answers them when select() reports the    *)
(* descriptor.  A handler keeps the mutex until its queue is empty, and so *)
(* calls recv or send again and again while there is nothing to be had.    *)
(*                                                                         *)
(* The bytes of a peer are numbered, and so are requests; a byte of a      *)
(* chunk that is sent is its request and its offset.  Sockets do not       *)
(* block: fcntl does not fail on them.  A program ignores SIGPIPE.         *)
(* A step of a handler is one system call, and what follows it.            *)
(***************************************************************************)
EXTENDS EventLoop

CONSTANTS Socket,       \* the objects that are connected sockets
          Accepted,     \* those that a server socket makes
          Server,       \* the objects that are server sockets
          MaxBytes,     \* bound: bytes a peer sends
          MaxRequests,  \* bound: requests of a kind on an object
          ChunkSizes,   \* the sizes of the chunks that are sent
          Space,        \* bytes the system keeps for a peer that does not read
          NoSocket

ASSUME SocketAssumption ==
  /\ Socket \subseteq Object
  /\ Server \subseteq Object
  /\ Accepted \subseteq Socket
  /\ MaxBytes \in Nat /\ MaxRequests \in Nat /\ Space \in Nat
  /\ ChunkSizes \subseteq Nat
  /\ NoSocket \notin Object

(* What a promise is given instead of bytes, which are numbers from 1. *)
Exception == <<-1>>

VARIABLES incoming,     \* incoming[s]: bytes received by the system
          peerSent,     \* peerSent[s]: how many the peer has sent
          ended,        \* ended[s]: the peer has closed
          state,        \* state[s]: "fine", or an error is "pending" or "reported"
          space,        \* space[s]: free bytes of the send buffer
          backlog,      \* backlog[v]: connections that wait to be accepted
          reads,        \* read_requests_queue_
          sends,        \* send_chunks_queue_
          accepts,      \* accept_queue_
          asked,        \* asked[o]: requests for data or connections so far
          offered,      \* offered[s]: chunks so far
          spc,          \* where the loop's thread is in a handler
          chunk,        \* the static chunk of onSocketDataAvailable
          sentSize,     \* currentSentChunkDataSize, static
          accepting,    \* the socket that a handler is making
          clients,      \* client_sockets_
          answers,      \* history: answers[s]: what the promises were given
          sentBytes,    \* history: sentBytes[s]: what the system was given
          done          \* history: done[s]: the chunks that were acknowledged

peerVars == <<peerSent, ended, backlog>>
streamVars == <<incoming, state, space>>
requestVars == <<reads, sends, accepts, asked, offered>>
handlerVars == <<spc, chunk, sentSize, accepting>>
socketHistory == <<clients, answers, sentBytes, done>>
socketVars == <<peerVars, streamVars, requestVars, handlerVars, socketHistory>>

SocketTypeOK ==
  /\ incoming \in [Socket -> Seq(Nat)]
  /\ peerSent \in [Socket -> 0..MaxBytes]
  /\ ended \in [Socket -> BOOLEAN]
  /\ state \in [Socket -> {"fine", "pending", "reported"}]
  /\ space \in [Socket -> 0..Space]
  /\ backlog \in [Server -> Nat]
  /\ reads \in [Socket -> Seq(Nat)]
  /\ sends \in [Socket -> Seq([id : Nat, size : ChunkSizes])]
  /\ accepts \in [Server -> Seq(Nat)]
  /\ asked \in [Socket \cup Server -> 0..MaxRequests]
  /\ offered \in [Socket -> 0..MaxRequests]
  /\ spc \in {"enter", "loop"}
  /\ chunk \in Seq(Nat)
  /\ sentSize \in Nat
  /\ accepting \in Accepted \cup {NoSocket}
  /\ clients \in [Server -> Seq(Nat \X Accepted)]
  /\ answers \in [Socket -> Seq(Nat \X (Seq(Nat) \cup {Exception}))]
  /\ sentBytes \in [Socket -> Seq(Nat \X Nat)]
  /\ done \in [Socket -> Seq(Nat \X {"sent", "error"})]

SocketInit ==
  /\ incoming = [s \in Socket |-> <<>>]
  /\ peerSent = [s \in Socket |-> 0]
  /\ ended = [s \in Socket |-> FALSE]
  /\ state = [s \in Socket |-> "fine"]
  /\ space = [s \in Socket |-> Space]
  /\ backlog = [v \in Server |-> 0]
  /\ reads = [s \in Socket |-> <<>>]
  /\ sends = [s \in Socket |-> <<>>]
  /\ accepts = [v \in Server |-> <<>>]
  /\ asked = [o \in Socket \cup Server |-> 0]
  /\ offered = [s \in Socket |-> 0]
  /\ spc = "enter"
  /\ chunk = <<>>
  /\ sentSize = 0
  /\ accepting = NoSocket
  /\ clients = [v \in Server |-> <<>>]
  /\ answers = [s \in Socket |-> <<>>]
  /\ sentBytes = [s \in Socket |-> <<>>]
  /\ done = [s \in Socket |-> <<>>]

------------------------------------------------------------------------------
(* The peers, and what select() says. *)

PeerSend(s) ==
  /\ life[s] = "alive" /\ ~ended[s]
  /\ peerSent[s] < MaxBytes
  /\ peerSent' = [peerSent EXCEPT ![s] = @ + 1]
  /\ incoming' = [incoming EXCEPT ![s] = Append(@, peerSent'[s])]
  /\ UNCHANGED <<eventLoopVars, ended, backlog, state, space, requestVars,
                 handlerVars, socketHistory>>

PeerReads(s) ==
  /\ ~ended[s]
  /\ space[s] < Space
  /\ space' = [space EXCEPT ![s] = Space]
  /\ UNCHANGED <<eventLoopVars, peerVars, incoming, state, requestVars,
                 handlerVars, socketHistory>>

(* The peer closes, or resets: then what has not been received is gone. *)
PeerEnds(s) ==
  /\ life[s] = "alive" /\ ~ended[s]
  /\ ended' = [ended EXCEPT ![s] = TRUE]
  /\ \/ UNCHANGED <<incoming, state>>
     \/ /\ incoming' = [incoming EXCEPT ![s] = <<>>]
        /\ state' = [state EXCEPT ![s] = "pending"]
  /\ UNCHANGED <<eventLoopVars, peerSent, backlog, space, requestVars,
                 handlerVars, socketHistory>>

PeerConnects(v) ==
  /\ life[v] = "alive"
  /\ backlog[v] < Cardinality({s \in Accepted : life[s] = "new"})
  /\ backlog' = [backlog EXCEPT ![v] = @ + 1]
  /\ UNCHANGED <<eventLoopVars, peerSent, ended, streamVars, requestVars,
                 handlerVars, socketHistory>>

Readable == {fd[s] : s \in {r \in Socket \cap Opened :
                              incoming[r] # <<>> \/ ended[r] \/ state[r] = "pending"}}
            \cup {fd[v] : v \in {w \in Server \cap Opened : backlog[w] > 0}}
Writable == {fd[s] : s \in {r \in Socket \cap Opened : space[r] > 0 \/ ended[r]}}

------------------------------------------------------------------------------
(* The requests of clients, under the mutex that the handler may hold. *)

Handles(o, e) == spc # "enter" /\ InCallback(o, e)

ReceiveAsync(s) ==
  /\ life[s] = "alive"
  /\ ~Handles(s, "READ")
  /\ asked[s] < MaxRequests
  /\ asked' = [asked EXCEPT ![s] = @ + 1]
  /\ reads' = [reads EXCEPT ![s] = Append(@, asked'[s])]
  /\ UNCHANGED <<eventLoopVars, peerVars, streamVars, sends, accepts, offered,
                 handlerVars, socketHistory>>

SendAsync(s) ==
  /\ life[s] = "alive"
  /\ ~Handles(s, "WRITE")
  /\ offered[s] < MaxRequests
  /\ offered' = [offered EXCEPT ![s] = @ + 1]
  /\ \E n \in ChunkSizes :
       sends' = [sends EXCEPT ![s] = Append(@, [id |-> offered'[s], size |-> n])]
  /\ UNCHANGED <<eventLoopVars, peerVars, streamVars, reads, accepts, asked,
                 handlerVars, socketHistory>>

AcceptAsync(v) ==
  /\ life[v] = "alive"
  /\ ~Handles(v, "READ")
  /\ asked[v] < MaxRequests
  /\ asked' = [asked EXCEPT ![v] = @ + 1]
  /\ accepts' = [accepts EXCEPT ![v] = Append(@, asked'[v])]
  /\ UNCHANGED <<eventLoopVars, peerVars, streamVars, reads, sends, offered,
                 handlerVars, socketHistory>>

------------------------------------------------------------------------------
(* onSocketDataAvailable of a socket. *)

(* The handler goes on while its queue is not empty, and returns when it is. *)
GoOn(more) ==
  IF more
  THEN /\ spc' = "loop"
       /\ UNCHANGED eventLoopVars
  ELSE /\ spc' = "enter"
       /\ CallbackReturn

ReadEnterSocket(s) ==
  /\ InCallback(s, "READ")
  /\ spc = "enter"
  /\ IF reads[s] = <<>>
     THEN CallbackReturn /\ UNCHANGED spc
     ELSE spc' = "loop" /\ UNCHANGED eventLoopVars
  /\ UNCHANGED <<peerVars, streamVars, requestVars, chunk, sentSize, accepting,
                 socketHistory>>

Reads(s) == InCallback(s, "READ") /\ spc = "loop"

\* Mutant: the chunk is not emptied.
MutAnswerKeepsChunk(s, result) ==
  /\ answers' = [answers EXCEPT ![s] = Append(@, <<Head(reads[s]), result>>)]
  /\ reads' = [reads EXCEPT ![s] = Tail(@)]
  /\ UNCHANGED chunk
  /\ GoOn(reads'[s] # <<>>)

(* What the promise at the head of the queue is given. *)
Answer(s, result) ==
  /\ answers' = [answers EXCEPT ![s] = Append(@, <<Head(reads[s]), result>>)]
  /\ reads' = [reads EXCEPT ![s] = Tail(@)]
  /\ chunk' = <<>>
  /\ GoOn(reads'[s] # <<>>)

(* recv gives some bytes; they may be fewer than there are. *)
Receive(s) ==
  /\ Reads(s)
  /\ life[s] # "closed"
  /\ incoming[s] # <<>>
  /\ \E n \in 1..Len(incoming[s]) :
       /\ chunk' = chunk \o SubSeq(incoming[s], 1, n)
       /\ incoming' = [incoming EXCEPT ![s] = SubSeq(@, n + 1, Len(@))]
  /\ UNCHANGED <<eventLoopVars, peerVars, state, space, requestVars, spc,
                 sentSize, accepting, socketHistory>>

(* recv would block, or the stream has ended: what has come is the answer.  If
   nothing has, the handler calls recv again. *)
ReceiveNothing(s) ==
  /\ Reads(s)
  /\ life[s] # "closed"
  /\ incoming[s] = <<>> /\ state[s] # "pending"
  /\ chunk # <<>>
  /\ Answer(s, chunk)
  /\ UNCHANGED <<peerVars, streamVars, sends, accepts, asked, offered, sentSize,
                 accepting, clients, sentBytes, done>>

(* recv fails: the answer is an exception, and what has come is dropped. *)
ReceiveError(s) ==
  /\ Reads(s)
  /\ life[s] = "closed" \/ state[s] = "pending"
  /\ Answer(s, Exception)
  /\ state' = [state EXCEPT ![s] = IF @ = "pending" THEN "reported" ELSE @]
  /\ UNCHANGED <<peerVars, incoming, space, sends, accepts, asked, offered,
                 sentSize, accepting, clients, sentBytes, done>>

------------------------------------------------------------------------------
(* onSocketBufferAvailable. *)

WriteEnterSocket(s) ==
  /\ InCallback(s, "WRITE")
  /\ spc = "enter"
  /\ IF sends[s] = <<>>
     THEN CallbackReturn /\ UNCHANGED spc
     ELSE spc' = "loop" /\ UNCHANGED eventLoopVars
  /\ UNCHANGED <<peerVars, streamVars, requestVars, chunk, sentSize, accepting,
                 socketHistory>>

Writes(s) == InCallback(s, "WRITE") /\ spc = "loop"

\* Mutant: the size that has been sent is kept.
MutAcknowledgeKeepsSize(s, result) ==
  /\ done' = [done EXCEPT ![s] = Append(@, <<Head(sends[s]).id, result>>)]
  /\ sends' = [sends EXCEPT ![s] = Tail(@)]
  /\ UNCHANGED sentSize
  /\ GoOn(sends'[s] # <<>>)

(* The chunk at the head of the queue is done with. *)
Acknowledge(s, result) ==
  /\ done' = [done EXCEPT ![s] = Append(@, <<Head(sends[s]).id, result>>)]
  /\ sends' = [sends EXCEPT ![s] = Tail(@)]
  /\ sentSize' = 0
  /\ GoOn(sends'[s] # <<>>)

(* send takes some bytes of the rest; an empty chunk is done with at once. *)
Transmit(s) ==
  /\ Writes(s)
  /\ life[s] # "closed" /\ state[s] # "pending"
  /\ LET first == Head(sends[s])
         rest == first.size - sentSize
     IN  \E n \in 0..rest :
           /\ n <= space[s] /\ (n = 0 => rest = 0)
           /\ space' = [space EXCEPT ![s] = @ - n]
           /\ sentBytes' = [sentBytes EXCEPT ![s] = @ \o
                [i \in 1..n |-> <<first.id, sentSize + i>>]]
           /\ IF n = rest
              THEN Acknowledge(s, "sent")
              ELSE /\ sentSize' = sentSize + n
                   /\ UNCHANGED <<eventLoopVars, sends, spc, done>>
  /\ UNCHANGED <<peerVars, incoming, state, reads, accepts, asked, offered, chunk,
                 accepting, clients, answers>>

TransmitError(s) ==
  /\ Writes(s)
  /\ life[s] = "closed" \/ ended[s]
  /\ Acknowledge(s, "error")
  /\ state' = [state EXCEPT ![s] = IF @ = "pending" THEN "reported" ELSE @]
  /\ UNCHANGED <<peerVars, incoming, space, reads, accepts, asked, offered, chunk,
                 accepting, clients, answers, sentBytes>>

------------------------------------------------------------------------------
(* onSocketDataAvailable of a server socket. *)

AcceptEnter(v) ==
  /\ InCallback(v, "READ")
  /\ spc = "enter"
  /\ IF accepts[v] = <<>>
     THEN CallbackReturn /\ UNCHANGED spc
     ELSE spc' = "loop" /\ UNCHANGED eventLoopVars
  /\ UNCHANGED <<peerVars, streamVars, requestVars, chunk, sentSize, accepting,
                 socketHistory>>

Accepts(v) == v \in Server /\ InCallback(v, "READ") /\ spc = "loop"

(* accept gives a connection, and createSocket registers its callbacks. *)
Accept(v) ==
  /\ Accepts(v)
  /\ life[v] # "closed"
  /\ accepting = NoSocket
  /\ backlog[v] > 0
  /\ \E s \in Accepted :
       /\ Open(s)
       /\ accepting' = s
  /\ backlog' = [backlog EXCEPT ![v] = @ - 1]
  /\ UNCHANGED <<peerSent, ended, streamVars, requestVars, spc, chunk, sentSize,
                 socketHistory>>

(* The server socket keeps a pointer to the new one, for ever. *)
AcceptReturn(v) ==
  /\ Accepts(v)
  /\ accepting # NoSocket
  /\ life[accepting] = "alive"
  /\ clients' = [clients EXCEPT ![v] = Append(@, <<Head(accepts[v]), accepting>>)]
  /\ accepts' = [accepts EXCEPT ![v] = Tail(@)]
  /\ accepting' = NoSocket
  /\ GoOn(accepts'[v] # <<>>)
  /\ UNCHANGED <<peerVars, streamVars, reads, sends, asked, offered, chunk,
                 sentSize, answers, sentBytes, done>>

(* accept fails, with nobody there or on a closed descriptor. *)
AcceptNobody(v) ==
  /\ Accepts(v)
  /\ accepting = NoSocket
  /\ backlog[v] = 0 \/ life[v] = "closed"
  /\ GoOn(FALSE)
  /\ UNCHANGED <<peerVars, streamVars, requestVars, chunk, sentSize, accepting,
                 socketHistory>>
=============================================================================
