--------------------------------- MODULE Os ---------------------------------
(***************************************************************************)
(* The event loop with what lives on it: timers and sockets, the threads   *)
(* that use them, the system behind their descriptors and the peers at the *)
(* other ends.                                                             *)
(***************************************************************************)
EXTENDS Timer, Socket

osVars == <<eventLoopVars, timerVars, socketVars>>

ASSUME OsAssumption ==
  /\ Object = Timer \cup Socket \cup Server
  /\ Timer \cap (Socket \cup Server) = {}
  /\ Socket \cap Server = {}

OsTypeOK == EventLoopTypeOK /\ TimerTypeOK /\ SocketTypeOK

OsInit == EventLoopInit /\ TimerInit /\ SocketInit

Ready == [e \in Event |-> IF e = "READ" THEN TimersReady \cup Readable ELSE Writable]

(* The steps of run() outside the callbacks. *)
LoopStep ==
  /\ RunApply \/ RunEnd \/ EnterSelect \/ SelectReturn(Ready) \/ HandleEvents
     \/ CallEmpty
  /\ UNCHANGED <<timerVars, socketVars>>

(* Where nothing holds it up, the thread of the loop goes on. *)
GoesOn ==
  /\ lpc \in {"begin", "test", "woken"}
  /\ lpc' \in {"test", "select", "woken", "call", "ended"} \ {lpc}

Wakes == SelectReturn(Ready) /\ UNCHANGED <<timerVars, socketVars>>

TimerCallback ==
  /\ \E t \in Timer :
       \/ ReadEnter(t) \/ ReadReturn(t) \/ TestExecute(t) \/ Rearm(t)
       \/ LockListeners(t) \/ Tell(t) \/ TellReturn(t) \/ Unlock(t)
  /\ UNCHANGED socketVars

SocketCallback ==
  /\ \/ \E s \in Socket :
          \/ ReadEnterSocket(s) \/ Receive(s) \/ ReceiveNothing(s) \/ ReceiveError(s)
          \/ WriteEnterSocket(s) \/ Transmit(s) \/ TransmitError(s)
     \/ \E v \in Server :
          AcceptEnter(v) \/ Accept(v) \/ AcceptReturn(v) \/ AcceptNobody(v)
  /\ UNCHANGED timerVars

(* Factories and deleters.  An accepted socket is made by the handler of its
   server, which never lets it go. *)
RegisterStep(o) ==
  /\ Register(o) \/ Unregister(o) \/ Close(o)
  /\ UNCHANGED <<timerVars, socketVars>>

ObjectStep ==
  \/ \E o \in Object : RegisterStep(o)
  \/ /\ \/ \E o \in Object \ Accepted : Open(o)
        \/ \E o \in Object \ (Timer \cup Accepted) : Release(o)
     /\ UNCHANGED <<timerVars, socketVars>>

(* The thread k finishes the call it is in. *)
Finish(k) ==
  /\ \E t \in Timer :
       \/ Arm(k, t) \/ Disarm(k, t) \/ DestructStop(k, t)
       \/ t \in IccTimer /\ ReleaseTimer(k, t)
  /\ UNCHANGED socketVars

Control ==
  /\ \E k \in Controller, t \in Timer :
       \/ Start(k, t) \/ Stop(k, t) \/ Destruct(k, t)
       \/ t \notin IccTimer /\ ReleaseTimer(k, t)
  /\ UNCHANGED socketVars

Setting ==
  /\ \/ \E t \in Timer :
          \/ Construct(t)
          \/ EnableContinuous(t) \/ DisableContinuous(t)
          \/ \E n \in {-1, 1} : SetNumberOfRepetition(t, n)
          \/ \E ns \in {0, 1} : SetInterval(t, ns)
          \/ \E l \in Listener : AddListener(t, l) \/ RemoveListener(t, l)
     \/ \E l \in Shared : DropListener(l)
  /\ UNCHANGED socketVars

Expiry(t) == Expire(t) /\ UNCHANGED socketVars

Request ==
  /\ \/ \E s \in Socket : ReceiveAsync(s) \/ SendAsync(s)
     \/ \E v \in Server : AcceptAsync(v)
  /\ UNCHANGED timerVars

Peer ==
  /\ \/ \E s \in Socket : PeerSend(s) \/ PeerReads(s) \/ PeerEnds(s)
     \/ \E v \in Server : PeerConnects(v)
  /\ UNCHANGED timerVars

StopFinish == StopWake /\ UNCHANGED <<timerVars, socketVars>>

(* A program whose loop has thrown is over. *)
OsNext ==
  /\ lpc # "dead"
  /\ \/ LoopStep \/ TimerCallback \/ SocketCallback \/ ObjectStep
     \/ Control \/ Setting \/ Request \/ Peer \/ StopFinish
     \/ \E k \in Controller : Finish(k)
     \/ \E t \in Timer : Expiry(t)
     \/ (RunBegin \/ StopStore) /\ UNCHANGED <<timerVars, socketVars>>

(* The loop's thread is scheduled, threads finish the calls they are in, the
   system lets timers expire.  Nobody has to begin anything. *)
OsFairness ==
  /\ WF_lpc(GoesOn)
  /\ WF_osVars(Wakes)
  /\ WF_osVars(TimerCallback)
  /\ WF_osVars(SocketCallback)
  /\ WF_osVars(StopFinish)
  /\ \A o \in Object : WF_osVars(RegisterStep(o))
  /\ \A k \in Controller : WF_osVars(Finish(k))
  /\ \A t \in Timer : WF_osVars(Expiry(t))

OsSpec == OsInit /\ [][OsNext]_osVars /\ OsFairness

------------------------------------------------------------------------------
(* Properties. *)

(* The loop's thread is in a system call, or in a loop around one, that gives
   nothing: it reads a timer that is not armed, a socket without data, or
   writes to one without space. *)
Blocked ==
  \/ lpc = "dead"
  \/ tpc = "reading" /\ kernel[source] = "idle"
  \/ \E s \in Socket :
       \/ Reads(s) /\ incoming[s] = <<>> /\ chunk = <<>> /\ state[s] # "pending"
       \/ Writes(s) /\ space[s] = 0

Over == lpc \notin Running \/ Blocked

(* run() ends when stop() has stored false after run() has stored true,
   whatever the loop was doing, unless a callback keeps it. *)
StopEnds == lpc \in Running /\ ~execute ~> Over

(* A timer that is started and armed calls its listeners, unless somebody stops
   or destroys it or stops the loop, or a number of a descriptor was given
   twice.  A loop that waits for ever in some callback tells nobody. *)
TimerHeard ==
  \A t \in Timer :
    exec[t] /\ kernel[t] = "armed" /\ life[t] = "alive" ~>
      \/ Locked(t) \/ ~exec[t] \/ life[t] # "alive" \/ Over
      \/ ~NoReuse \/ \E k \in Controller : Uses(k, t)

(* Whatever is asked of a socket or a server is answered when there is data,
   space or a connection for it, if the loop goes on. *)
RequestsServed ==
  []<>( \/ Over
        \/ /\ \A s \in Socket : life[s] # "closed" =>
                /\ reads[s] = <<>> \/ incoming[s] = <<>>
                /\ sends[s] = <<>> \/ space[s] = 0
           /\ \A v \in Server : life[v] # "closed" =>
                accepts[v] = <<>> \/ backlog[v] = 0)

(* A continuous timer that is started is never left behind: between an expiry
   and the next arming, stops and starts of one thread at a time cannot leave
   it idle.  Its settings are those it was started with. *)
ContinuousKept ==
  \A t \in Timer :
    /\ exec[t] /\ counter[t] = Infinite /\ duration[t] > 0 /\ life[t] = "alive"
    /\ t \notin switched \cup raced
    /\ \A k \in Controller : ~Uses(k, t)
    /\ NoReuse
    => kernel[t] # "idle" \/ (InCallback(t, "READ") /\ tpc \in {"test", "rearm"})

(* A listener is called because the timer has expired; only of a timer that is
   closed already it may be called without. *)
OnlyExpiries ==
  NoReuse /\ speaking # NoCall =>
    genuine \/ life[Head(calls).callback.of] = "closed"

(* After stop() the listeners are called once more at most. *)
LateOnce == \A t \in Timer : late[t] <= 1

(* A listener is not called after removeListener() has returned, nor after its
   last pointer is gone; an icc::Timer is not called once its destructor is
   past the first line.  A listener that was added twice is not covered. *)
RemovedSilent ==
  \A t \in Timer :
    Locked(t) /\ speaking # NoCall /\ t \notin doubled =>
      speaking \notin removed[t] \cup dead

(* What the promises of a socket are given, what its handler holds and what the
   system has are the bytes of its peer, in order, each once; the i-th promise
   gets the i-th piece.  The handlers of all sockets share one chunk. *)
StreamKept ==
  /\ \A s \in Socket :
       /\ \A i \in DOMAIN answers[s] : answers[s][i][1] = i
       /\ (\A i \in DOMAIN answers[s] : answers[s][i][2] # Exception) /\ state[s] = "fine" =>
            FlattenSeq([i \in DOMAIN answers[s] |-> answers[s][i][2]])
              \o (IF Reads(s) THEN chunk ELSE <<>>) \o incoming[s]
                = [i \in 1..peerSent[s] |-> i]
  /\ chunk # <<>> => \E s \in Socket : Reads(s)

(* The bytes given to the system are the chunks in the order of the requests,
   whole, up to the one that is being sent; a chunk that is acknowledged has
   been given in full.  After an error a chunk may lack its end. *)
ChunksWhole ==
  \A s \in Socket :
    /\ \A i \in DOMAIN done[s] : done[s][i][1] = i
    /\ \A i, j \in DOMAIN sentBytes[s] : i < j =>
         \/ sentBytes[s][i][1] < sentBytes[s][j][1]
         \/ sentBytes[s][i][1] = sentBytes[s][j][1]
            /\ sentBytes[s][i][2] < sentBytes[s][j][2]
    /\ \A i \in DOMAIN sentBytes[s] :
         sentBytes[s][i][2] > 1 =>
           i > 1 /\ sentBytes[s][i - 1] = [sentBytes[s][i] EXCEPT ![2] = @ - 1]
=============================================================================
