------------------------------ MODULE Coroutine ------------------------------
(***************************************************************************)
(* icc::coroutine: tasks that a TaskScheduler starts on the thread of one  *)
(* Context, and what they co_await: a task, a future or a duration.  All   *)
(* bodies run on the thread of the context, one inside the other when a    *)
(* task is started by a body.  An awaiter of a task or a future has a      *)
(* thread of its own that waits for it and then pushes the resumption of   *)
(* the coroutine to the context; an awaiter of a duration leaves that to   *)
(* the thread of the event loop.                                           *)
(*                                                                         *)
(* The context is that of Context, reduced to its queue, its channels and  *)
(* run(UntilWorkers); the timer is that of Timer, reduced to one expiry.   *)
(* The values that tasks return are left out.  A client keeps the Task it  *)
(* starts from another thread until the context has taken it up.           *)
(***************************************************************************)
EXTENDS Integers, SequencesExt

CONSTANTS Coro,         \* the coroutines
          Root,         \* those that clients start
          Void,         \* those that return nothing
          Client,       \* threads that wait for the result of a root
          None,
          Counts,       \* how many of a unit of time bodies wait for
          MaxAwaits,    \* bound: co_awaits of a coroutine
          MaxSpurious,  \* bound: wake-ups nobody asked for
          MaxThrows     \* bound: exceptions thrown by bodies

Action == [what : {"start", "resume"}, of : Coro]

ASSUME CoroutineAssumption ==
  /\ Root \subseteq Coro /\ Void \subseteq Coro
  /\ None \notin Coro \cup Action \cup {"future", "timer"}
  /\ "future" \notin Coro /\ "timer" \notin Coro
  /\ Counts \subseteq Int
  /\ MaxAwaits \in Nat /\ MaxSpurious \in Nat /\ MaxThrows \in Nat

VARIABLES at,           \* at[c]: where the coroutine is
          awaits,       \* awaits[c]: what its awaiter is for
          result,       \* result[c]: *result_, *is_ready_
          future,       \* future[c]: the future it awaits is set
          waiter,       \* waiter[c]: wait_thread_ of its awaiter
          timer,        \* timer[c]: the timer of its awaiter
          stack,        \* coroutines on the stack of the context, the last on top
          queue,        \* the actions of the context
          taken,        \* the one that its run() has popped
          interrupted,  \* the interruption of its queue
          run,          \* where run(UntilWorkers) is
          scheduler,    \* the TaskScheduler is there, with its channel
          client,       \* client[k]: the task k waits for in get()
          awaited,      \* awaited[c]: its co_awaits so far
          spurious,     \* wake-ups nobody asked for, so far
          throws,       \* exceptions so far
          released      \* history: the scheduler outlived the last coroutine

coroVars == <<at, awaits, result, future>>
threadVars == <<waiter, timer, client, spurious>>
runVars == <<taken, run>>
vars == <<coroVars, threadVars, stack, queue, interrupted, runVars, scheduler,
          awaited, throws, released>>

Frame == {"posted", "body", "calling", "spawning", "waiting", "getting",
          "joining", "failed"}

ClientState == [for : Coro \cup {None},
                pc : {"idle", "sleeping", "woken", "got", "threw"}]

TypeOK ==
  /\ at \in [Coro -> Frame \cup {"new", "done"}]
  /\ awaits \in [Coro -> Coro \cup {None, "future", "timer"}]
  /\ result \in [Coro -> BOOLEAN]
  /\ future \in [Coro -> BOOLEAN]
  /\ waiter \in [Coro -> {"none", "begun", "sleeping", "ready", "finished"}]
  /\ timer \in [Coro -> {"none", "idle", "armed", "expired"}]
  /\ stack \in Seq(Coro)
  /\ queue \in Seq(Action)
  /\ taken \in Action \cup {None}
  /\ interrupted \in BOOLEAN
  /\ run \in {"idle", "reset", "wait", "popped", "call", "test", "ended", "dead"}
  /\ scheduler \in BOOLEAN
  /\ client \in [Client -> ClientState]
  /\ awaited \in [Coro -> 0..MaxAwaits]
  /\ spurious \in 0..MaxSpurious
  /\ throws \in 0..MaxThrows
  /\ released \in BOOLEAN

Init ==
  /\ at = [c \in Coro |-> "new"]
  /\ awaits = [c \in Coro |-> None]
  /\ result = [c \in Coro |-> FALSE]
  /\ future = [c \in Coro |-> FALSE]
  /\ waiter = [c \in Coro |-> "none"]
  /\ timer = [c \in Coro |-> "none"]
  /\ stack = <<>>
  /\ queue = <<>>
  /\ taken = None
  /\ interrupted = FALSE
  /\ run = "idle"
  /\ scheduler = TRUE
  /\ client = [k \in Client |-> [for |-> None, pc |-> "idle"]]
  /\ awaited = [c \in Coro |-> 0]
  /\ spurious = 0
  /\ throws = 0
  /\ released = FALSE

------------------------------------------------------------------------------
\* Mutants: the promise of a coroutine that waits has no channel; the frame of one
\* that is done is not destroyed.
MutHeldUnlessWaiting(places) == \E c \in Coro : places[c] \in Frame \ {"waiting"}
MutHeldForever(places) == \E c \in Coro : places[c] # "new"

(* Channels: the scheduler has one, and so has the promise in the frame of each
   coroutine that was started, until its end destroys the frame.  That of an
   awaiter goes before that of its coroutine.  An exception that leaves the
   coroutine does not destroy its frame. *)
Held(places) == \E c \in Coro : places[c] \in Frame

AllDone == \A c \in Coro : at[c] \in {"new", "done"}

(* The last channel interrupts the queue when it goes. *)
DropChannel(left) ==
  interrupted' = (interrupted \/ ~left)

(* TaskScheduler::startCoroutine on another thread: the context is not that of
   the caller, and so invoke() pushes. *)
Start(c) ==
  /\ scheduler
  /\ c \in Root
  /\ at[c] = "new"
  /\ at' = [at EXCEPT ![c] = "posted"]
  /\ queue' = Append(queue, [what |-> "start", of |-> c])
  /\ UNCHANGED <<awaits, result, future, threadVars, stack, interrupted, runVars,
                 scheduler, awaited, throws, released>>

DropScheduler ==
  /\ scheduler
  /\ scheduler' = FALSE
  /\ released' = AllDone
  /\ DropChannel(Held(at))
  /\ UNCHANGED <<coroVars, threadVars, stack, queue, runVars, awaited, throws>>

------------------------------------------------------------------------------
(* run(UntilWorkers) of the context. *)

Run ==
  /\ run = "idle"
  /\ run' = "reset"
  /\ UNCHANGED <<coroVars, threadVars, stack, queue, interrupted, taken, scheduler,
                 awaited, throws, released>>

Reset ==
  /\ run = "reset"
  /\ interrupted' = FALSE
  /\ run' = "wait"
  /\ UNCHANGED <<coroVars, threadVars, stack, queue, taken, scheduler, awaited,
                 throws, released>>

WaitPop ==
  /\ run = "wait"
  /\ \/ /\ interrupted
        /\ UNCHANGED <<taken, queue>>
     \/ /\ ~interrupted
        /\ queue # <<>>
        /\ taken' = Head(queue)
        /\ queue' = Tail(queue)
  /\ run' = "popped"
  /\ UNCHANGED <<coroVars, threadVars, stack, interrupted, scheduler, awaited,
                 throws, released>>

Discard ==
  /\ run = "popped"
  /\ interrupted \/ taken = None
  /\ taken' = None
  /\ run' = "test"
  /\ UNCHANGED <<coroVars, threadVars, stack, queue, interrupted, scheduler,
                 awaited, throws, released>>

(* The action is over when its stack is empty. *)
Test ==
  /\ \/ run = "test"
     \/ run = "call" /\ stack = <<>>
  /\ run' = IF scheduler \/ Held(at) THEN "reset" ELSE "ended"
  /\ UNCHANGED <<coroVars, threadVars, stack, queue, interrupted, taken, scheduler,
                 awaited, throws, released>>

Execute(what) ==
  /\ run = "popped"
  /\ ~interrupted
  /\ taken # None /\ taken.what = what
  /\ stack' = <<taken.of>>
  /\ taken' = None
  /\ run' = "call"

(* The lambda of initialStart. *)
ExecuteStart ==
  /\ Execute("start")
  /\ at' = [at EXCEPT ![taken.of] = "body"]
  /\ UNCHANGED <<awaits, result, future, threadVars, queue, interrupted, scheduler,
                 awaited, throws, released>>

------------------------------------------------------------------------------
(* The body of the coroutine on top of the stack. *)

Top(c) == run = "call" /\ stack # <<>> /\ Last(stack) = c
InBody(c) == Top(c) /\ at[c] = "body"

(* co_await of anything: the awaiter is made, with a channel. *)
Await(c, what) ==
  /\ InBody(c)
  /\ awaited[c] < MaxAwaits
  /\ awaited' = [awaited EXCEPT ![c] = @ + 1]
  /\ awaits' = [awaits EXCEPT ![c] = what]

(* A suspended coroutine returns to who resumed it. *)
Suspend(c) ==
  /\ at' = [at EXCEPT ![c] = "waiting"]
  /\ stack' = Front(stack)

(* await_ready is false, whether the future is set or not. *)
AwaitFuture(c) ==
  /\ Await(c, "future")
  /\ Suspend(c)
  /\ \E ready \in BOOLEAN : future' = [future EXCEPT ![c] = ready]
  /\ waiter' = [waiter EXCEPT ![c] = "begun"]
  /\ UNCHANGED <<result, timer, client, spurious, queue, interrupted, runVars,
                 scheduler, throws, released>>

(* A timer of the default event loop is armed unless the interval is zero or
   less, the awaiter is its listener. *)
AwaitInterval(c, interval) ==
  /\ Await(c, "timer")
  /\ Suspend(c)
  /\ timer' = [timer EXCEPT ![c] =
       IF interval[1] > 0 \/ (interval[1] = 0 /\ interval[2] > 0)
       THEN "armed" ELSE "idle"]
  /\ UNCHANGED <<result, future, waiter, client, spurious, queue, interrupted,
                 runVars, scheduler, throws, released>>

(* The awaiters of durations, which differ in what they make of theirs.  An
   interval is seconds and nanoseconds, as start() gives it to the system. *)
Giga == 1000000000
Fraction(n, perSecond) ==
  <<n \div perSecond, (n % perSecond) * (Giga \div perSecond)>>

AwaitBoostDuration(c) ==
  \E n \in Counts : AwaitInterval(c, Fraction(n, Giga))

(* hours, minutes and seconds of boost *)
AwaitBoostSeconds(c) ==
  \E n \in Counts, unit \in {3600, 60, 1} : AwaitInterval(c, <<n * unit, 0>>)

(* milliseconds, microseconds and nanoseconds of boost *)
AwaitBoostFraction(c) ==
  \E n \in Counts, perSecond \in {1000, 1000000, Giga} :
    AwaitInterval(c, Fraction(n, perSecond))

(* Any other duration is kept in seconds; finer ones do not compile. *)
AwaitDuration(c) ==
  \E n \in Counts, unit \in {1, 86400} : AwaitInterval(c, <<n * unit, 0>>)

(* hours, minutes and seconds of chrono *)
AwaitSeconds(c) ==
  \E n \in Counts, unit \in {3600, 60, 1} : AwaitInterval(c, <<n * unit, 0>>)

(* milliseconds, microseconds and nanoseconds of chrono *)
AwaitFraction(c) ==
  \E n \in Counts, perSecond \in {1000, 1000000, Giga} :
    AwaitInterval(c, Fraction(n, perSecond))

(* invoke() calls the lambda of initialStart at once on the context's thread:
   the body of d runs until it is suspended or over, inside that of c. *)
StartInside(c, d, place) ==
  /\ c # d
  /\ at[d] = "new" /\ d \notin Root
  /\ at' = [at EXCEPT ![c] = place, ![d] = "body"]
  /\ stack' = Append(stack, d)
  /\ UNCHANGED <<result, future, threadVars, queue, interrupted, runVars, scheduler,
                 throws, released>>

AwaitTask(c, d) == Await(c, d) /\ StartInside(c, d, "calling")

Spawn(c, d) ==
  /\ InBody(c)
  /\ StartInside(c, d, "spawning")
  /\ UNCHANGED <<awaits, awaited>>

SpawnReturn(c) ==
  /\ Top(c)
  /\ at[c] = "spawning"
  /\ at' = [at EXCEPT ![c] = "body"]
  /\ UNCHANGED <<awaits, result, future, threadVars, stack, queue, interrupted,
                 runVars, scheduler, awaited, throws, released>>

(* The awaited task has been started; the coroutine goes on if it is over. *)
AwaitReady(c) ==
  /\ Top(c)
  /\ at[c] = "calling"
  /\ IF result[awaits[c]]
     THEN /\ at' = [at EXCEPT ![c] = "body"]
          /\ awaits' = [awaits EXCEPT ![c] = None]
          /\ UNCHANGED <<stack, waiter>>
     ELSE /\ Suspend(c)
          /\ waiter' = [waiter EXCEPT ![c] = "begun"]
          /\ UNCHANGED awaits
  /\ UNCHANGED <<result, future, timer, client, spurious, queue, interrupted,
                 runVars, scheduler, awaited, throws, released>>

------------------------------------------------------------------------------
(* The end of a coroutine. *)

SleepingThreads(d) == {c \in Coro : waiter[c] = "sleeping" /\ awaits[c] = d}
SleepingClients(d) == {k \in Client : client[k] = [for |-> d, pc |-> "sleeping"]}

\* Mutant: threads that call get() are not notified.
MutNotifyThread(d) ==
  /\ IF SleepingThreads(d) = {}
     THEN UNCHANGED waiter
     ELSE \E c \in SleepingThreads(d) : waiter' = [waiter EXCEPT ![c] = "ready"]
  /\ UNCHANGED client

(* notify_one: one of those who sleep, if there is one. *)
NotifyOne(d) ==
  \/ /\ SleepingThreads(d) \cup SleepingClients(d) = {}
     /\ UNCHANGED <<waiter, client>>
  \/ /\ \E c \in SleepingThreads(d) : waiter' = [waiter EXCEPT ![c] = "ready"]
     /\ UNCHANGED client
  \/ /\ \E k \in SleepingClients(d) : client' = [client EXCEPT ![k].pc = "woken"]
     /\ UNCHANGED waiter

(* return_value and return_void; it is not suspended at its end, and so its frame
   goes with the promise and its channel. *)
Return(c) ==
  /\ InBody(c)
  /\ result' = [result EXCEPT ![c] = TRUE]
  /\ NotifyOne(c)
  /\ at' = [at EXCEPT ![c] = "done"]
  /\ stack' = Front(stack)
  /\ DropChannel(scheduler \/ Held(at'))
  /\ UNCHANGED <<awaits, future, timer, spurious, queue, runVars, scheduler, awaited,
                 throws, released>>

(* unhandled_exception throws again, into the body that has started this one and
   may handle it, or out of run(). *)
Throws(c) ==
  /\ throws' = throws + 1
  /\ stack' = Front(stack)
  /\ IF Len(stack) = 1
     THEN /\ at' = [at EXCEPT ![c] = "failed"]
          /\ run' = "dead"
          /\ awaits' = [awaits EXCEPT ![c] = None]
     ELSE LET p == stack[Len(stack) - 1]
          IN  /\ at' = [at EXCEPT ![c] = "failed", ![p] = "body"]
              /\ awaits' = [awaits EXCEPT ![c] = None, ![p] = None]
              /\ UNCHANGED run

Throw(c) ==
  /\ InBody(c)
  /\ throws < MaxThrows
  /\ Throws(c)
  /\ UNCHANGED <<result, future, threadVars, queue, interrupted, taken, scheduler,
                 awaited, released>>

------------------------------------------------------------------------------
(* The threads of the awaiters. *)

\* Mutants: the thread does not wait; it sleeps without a look at the result.
MutWaitBeginAwake(c) ==
  /\ waiter[c] = "begun"
  /\ waiter' = [waiter EXCEPT ![c] = "ready"]
  /\ UNCHANGED <<coroVars, timer, client, spurious, stack, queue, interrupted,
                 runVars, scheduler, awaited, throws, released>>

MutWaitBeginBlind(c) ==
  /\ waiter[c] = "begun"
  /\ waiter' = [waiter EXCEPT ![c] = "sleeping"]
  /\ UNCHANGED <<coroVars, timer, client, spurious, stack, queue, interrupted,
                 runVars, scheduler, awaited, throws, released>>

(* wait() looks at the result under the mutex, once, and sleeps if there is
   none; that of a future is woken by whoever sets it. *)
WaitBegin(c) ==
  /\ waiter[c] = "begun"
  /\ waiter' = [waiter EXCEPT ![c] =
       IF IF awaits[c] = "future" THEN future[c] ELSE result[awaits[c]]
       THEN "ready" ELSE "sleeping"]
  /\ UNCHANGED <<coroVars, timer, client, spurious, stack, queue, interrupted,
                 runVars, scheduler, awaited, throws, released>>

SetFuture(c) ==
  /\ awaits[c] = "future" /\ ~future[c]
  /\ future' = [future EXCEPT ![c] = TRUE]
  /\ waiter' = [waiter EXCEPT ![c] = IF @ = "sleeping" THEN "ready" ELSE @]
  /\ UNCHANGED <<at, awaits, result, timer, client, spurious, stack, queue,
                 interrupted, runVars, scheduler, awaited, throws, released>>

PushResume(c) == queue' = Append(queue, [what |-> "resume", of |-> c])

WaitPush(c) ==
  /\ waiter[c] = "ready"
  /\ PushResume(c)
  /\ waiter' = [waiter EXCEPT ![c] = "finished"]
  /\ UNCHANGED <<coroVars, timer, client, spurious, stack, interrupted, runVars,
                 scheduler, awaited, throws, released>>

(* A condition variable may wake who waits for a task; wait() does not look at
   the result again.  A future does. *)
SpuriousWakeup ==
  /\ spurious < MaxSpurious
  /\ spurious' = spurious + 1
  /\ \/ /\ \E c \in Coro :
             /\ waiter[c] = "sleeping" /\ awaits[c] # "future"
             /\ waiter' = [waiter EXCEPT ![c] = "ready"]
        /\ UNCHANGED client
     \/ /\ \E k \in Client :
             /\ client[k].pc = "sleeping"
             /\ client' = [client EXCEPT ![k].pc = "woken"]
        /\ UNCHANGED waiter
  /\ UNCHANGED <<coroVars, timer, stack, queue, interrupted, runVars, scheduler,
                 awaited, throws, released>>

(* The timer expires, and the thread of the event loop tells the awaiter. *)
Expire(c) ==
  /\ timer[c] = "armed"
  /\ timer' = [timer EXCEPT ![c] = "expired"]
  /\ UNCHANGED <<coroVars, waiter, client, spurious, stack, queue, interrupted,
                 runVars, scheduler, awaited, throws, released>>

\* Mutant: the timer goes on.
MutOnTimerExpiredAgain(c) ==
  /\ timer[c] = "expired"
  /\ PushResume(c)
  /\ timer' = [timer EXCEPT ![c] = "armed"]
  /\ UNCHANGED <<coroVars, waiter, client, spurious, stack, interrupted, runVars,
                 scheduler, awaited, throws, released>>

OnTimerExpired(c) ==
  /\ timer[c] = "expired"
  /\ PushResume(c)
  /\ timer' = [timer EXCEPT ![c] = "none"]
  /\ UNCHANGED <<coroVars, waiter, client, spurious, stack, interrupted, runVars,
                 scheduler, awaited, throws, released>>

------------------------------------------------------------------------------
(* resume(): await_resume, then the end of the expression destroys the awaiter,
   which joins its thread. *)

Resume ==
  /\ Execute("resume")
  /\ LET c == taken.of
     IN  at' = [at EXCEPT ![c] =
           IF awaits[c] \in Coro \ Void /\ ~result[awaits[c]]
           THEN "getting" ELSE "joining"]
  /\ UNCHANGED <<awaits, result, future, threadVars, queue, interrupted, scheduler,
                 awaited, throws, released>>

(* get() without a result waits on the context's thread, where nobody can
   return one.  Only a wake-up nobody asked for ends this: value() throws. *)
GetThrows(c) ==
  /\ Top(c)
  /\ at[c] = "getting"
  /\ spurious < MaxSpurious
  /\ spurious' = spurious + 1
  /\ at' = [at EXCEPT ![c] = "joining"]
  /\ UNCHANGED <<awaits, result, future, waiter, timer, client, stack, queue,
                 interrupted, runVars, scheduler, awaited, throws, released>>

Join(c) ==
  /\ Top(c)
  /\ at[c] = "joining"
  /\ waiter[c] \in {"none", "finished"}
  /\ waiter' = [waiter EXCEPT ![c] = "none"]
  /\ awaits' = [awaits EXCEPT ![c] = None]
  /\ at' = [at EXCEPT ![c] = "body"]
  /\ UNCHANGED <<result, future, timer, client, spurious, stack, queue, interrupted,
                 runVars, scheduler, awaited, throws, released>>

------------------------------------------------------------------------------
(* Task::get() of a root, on the thread of a client. *)

Get(k, c) ==
  /\ client[k].pc = "idle"
  /\ c \in Root
  /\ at[c] # "new"
  /\ client' = [client EXCEPT ![k] =
       [for |-> c, pc |-> IF result[c] THEN "got" ELSE "sleeping"]]
  /\ UNCHANGED <<coroVars, waiter, timer, spurious, stack, queue, interrupted,
                 runVars, scheduler, awaited, throws, released>>

GetReturn(k) ==
  /\ client[k].pc = "woken"
  /\ client' = [client EXCEPT ![k].pc =
       IF result[client[k].for] THEN "got" ELSE "threw"]
  /\ UNCHANGED <<coroVars, waiter, timer, spurious, stack, queue, interrupted,
                 runVars, scheduler, awaited, throws, released>>
------------------------------------------------------------------------------
RunStep == Reset \/ WaitPop \/ Discard \/ Test \/ ExecuteStart \/ Resume

Awaits(c) ==
  \/ AwaitFuture(c)
  \/ AwaitBoostDuration(c) \/ AwaitBoostSeconds(c) \/ AwaitBoostFraction(c)
  \/ AwaitDuration(c) \/ AwaitSeconds(c) \/ AwaitFraction(c)
  \/ \E d \in Coro : AwaitTask(c, d)

(* What a body does until it is suspended or over, and what follows from it. *)
Body(c) ==
  \/ Return(c) \/ AwaitReady(c) \/ SpawnReturn(c) \/ Join(c) \/ Throw(c)
  \/ Awaits(c) \/ \E d \in Coro : Spawn(c, d)

Thread(c) == WaitBegin(c) \/ WaitPush(c)
LoopThread(c) == Expire(c) \/ OnTimerExpired(c)

Next ==
  \/ Run \/ RunStep \/ DropScheduler \/ SpuriousWakeup
  \/ \E c \in Coro :
       \/ Start(c) \/ Body(c) \/ GetThrows(c)
       \/ Thread(c) \/ LoopThread(c) \/ SetFuture(c)
       \/ \E k \in Client : Get(k, c)
  \/ \E k \in Client : GetReturn(k)

(* The threads of the context, of the awaiters, of the loop and of the clients
   are scheduled; promises are fulfilled; run() is called. *)
Fairness ==
  /\ WF_vars(Run)
  /\ WF_vars(RunStep)
  /\ \A c \in Coro :
       /\ WF_vars(Body(c))
       /\ WF_vars(Thread(c))
       /\ WF_vars(LoopThread(c))
       /\ WF_vars(SetFuture(c))
  /\ \A k \in Client : WF_vars(GetReturn(k))

Spec == Init /\ [][Next]_vars /\ Fairness

------------------------------------------------------------------------------
(* Properties. *)

Resumption(c) == [what |-> "resume", of |-> c]
Busy(c) == waiter[c] \in {"begun", "sleeping", "ready"}

(* What will resume c: an action that is queued or taken, its thread, its timer. *)
Resumptions(c) ==
  {<<"queued", i>> : i \in {k \in DOMAIN queue : queue[k] = Resumption(c)}}
    \cup (IF taken = Resumption(c) THEN {<<"taken", 0>>} ELSE {})
    \cup (IF Busy(c) THEN {<<"thread", 0>>} ELSE {})
    \cup (IF timer[c] # "none" THEN {<<"timer", 0>>} ELSE {})

(* A coroutine that is suspended has exactly one resumption on its way, from one
   source, and one that is not suspended has none: it is never resumed twice for
   one co_await, while it runs, nor after its frame is gone. *)
ResumedOnce ==
  \A c \in Coro :
    IF at[c] = "waiting"
    THEN \E source \in Resumptions(c) : Resumptions(c) = {source}
    ELSE Resumptions(c) = {}

(* A co_await goes on when what it is for is there: the task has returned, the
   future is set; and get() does not block the context.  Only a wake-up nobody
   asked for can break this. *)
ResultFirst ==
  spurious = 0 =>
    \A c \in Coro :
      /\ at[c] # "getting"
      /\ at[c] = "joining" /\ awaits[c] \in Coro => result[awaits[c]]
      /\ at[c] = "joining" /\ awaits[c] = "future" => future[c]

(* The thread of an awaiter is over when the awaiter goes, whose channel and
   whose task it uses. *)
AwaiterKept ==
  \A c \in Coro :
    waiter[c] # "none" =>
      /\ awaits[c] \notin {None, "timer"}
      /\ at[c] \in {"waiting", "getting", "joining"}

(* run(UntilWorkers) neither ends nor drops an action while a coroutine waits to
   be started or resumed: the channels of the promises hold it. *)
ContextStays ==
  /\ run = "ended" => AllDone
  /\ run = "popped" /\ interrupted => taken = None

(* What a thread or an action on its way refers to is there until it is done:
   the awaiter, its coroutine and the context. *)
NothingDangles == AwaiterKept /\ ContextStays

(* Coroutines that are started reach their ends, all of them, unless one waits for
   an interval that is not positive, blocks the context in get(), or throws. *)
Stuck(c) ==
  \/ at[c] = "waiting" /\ timer[c] = "idle"
  \/ at[c] \in {"getting", "failed"}

Completes ==
  []<>( \/ run = "dead" \/ \E c \in Coro : Stuck(c)
        \/ AllDone )

(* When the last coroutine is done after the scheduler has gone, run() returns. *)
RunEnds ==
  ~scheduler /\ ~released /\ AllDone ~> run = "ended"

(* A client that is alone in waiting for a task gets its result once it is there. *)
GetReturns ==
  []<>(\A k \in Client :
         \/ client[k].pc \in {"idle", "got", "threw"}
         \/ ~result[client[k].for]
         \/ \E j \in Client \ {k} : client[j].for = client[k].for)
=============================================================================
