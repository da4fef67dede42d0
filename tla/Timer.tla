------------------------------- MODULE Timer --------------------------------
(***************************************************************************)
(* icc::os::Timer on posix, the timers of an EventLoop, and icc::Timer,    *)
(* which owns one of them and listens to it.  A timer is a timerfd that    *)
(* does not repeat by itself and blocks when it is read before it has      *)
(* expired.  Any thread controls it; the thread of the loop reads it when  *)
(* select() has reported it, arms it again in continuous mode, and calls   *)
(* the listeners with the mutex of the timer in its hands.                 *)
(*                                                                         *)
(* Listeners are plain pointers, or weak ones that are locked for the      *)
(* call.  A thread that starts, stops or destroys a timer is between two   *)
(* steps while call[k] says so.  The event that icc::Timer emits is the    *)
(* matter of Event.                                                        *)
(***************************************************************************)
EXTENDS EventLoop

CONSTANTS Timer,        \* the objects that are timers
          IccTimer,     \* those inside an icc::Timer
          Listener,     \* the listeners of the others
          Shared,       \* those that are held by weak pointers
          Controller,   \* threads that use the timers
          NoCall,       \* a thread that is in none of these calls
          MaxStarts,    \* bound: calls of start()
          MaxChanges    \* bound: changes of listeners and settings

(* What is left of a call, and the timer it is for. *)
Pending == {"arm", "disarm", "stop", "disarmLast", "release"} \X Timer

ASSUME TimerAssumption ==
  /\ Timer \subseteq Object
  /\ IccTimer \subseteq Timer
  /\ Shared \subseteq Listener
  /\ Listener \cap Timer = {}
  /\ NoCall \notin Listener \cup Timer \cup Pending
  /\ MaxStarts \in Nat /\ MaxChanges \in Nat

Infinite == -1
OneTime == 0

VARIABLES kernel,       \* kernel[t]: the timerfd
          exec,         \* exec[t]: execute_ of the timer
          counter,      \* counter_
          duration,     \* duration_, zero or not
          rawList,      \* listeners_ptr_
          weakList,     \* listeners_
          dead,         \* shared listeners whose last pointer is gone
          tpc,          \* where the loop's thread is in onTimerExpired
          source,       \* the timer whose descriptor it reads
          told,         \* the listeners it has still to call
          speaking,     \* the one it is calling
          call,         \* call[k]: the rest of the call k is in
          starts,       \* calls of start() so far
          changes,      \* changes so far
          genuine,      \* history: its read has returned an expiry
          late,         \* history: late[t]: rounds since t was stopped
          switched,     \* history: timers that were set while started
          doubled,      \* history: timers that had a listener added twice
          removed,      \* history: removed[t]: listeners taken off and not back
          raced         \* history: timers that two threads controlled at once

listVars == <<rawList, weakList, dead, doubled, removed>>
settingVars == <<counter, duration, changes, switched, listVars>>
expiryVars == <<tpc, source, told, speaking, genuine>>
controlVars == <<exec, call, starts, raced>>
timerVars == <<kernel, settingVars, expiryVars, controlVars, late>>

TimerTypeOK ==
  /\ kernel \in [Timer -> {"idle", "armed", "expired"}]
  /\ exec \in [Timer -> BOOLEAN]
  /\ counter \in [Timer -> {Infinite, OneTime, 1}]
  /\ duration \in [Timer -> {0, 1}]
  /\ rawList \in [Timer -> Seq(Listener \cup IccTimer)]
  /\ weakList \in [Timer -> Seq(Shared)]
  /\ dead \subseteq Shared
  /\ tpc \in {"enter", "reading", "test", "rearm", "lock", "tell"}
  /\ source \in Timer \cup {NoCall}
  /\ told \in Seq(Listener \cup IccTimer)
  /\ speaking \in Listener \cup IccTimer \cup {NoCall}
  /\ call \in [Controller -> {NoCall} \cup Pending]
  /\ starts \in 0..MaxStarts
  /\ changes \in 0..MaxChanges
  /\ genuine \in BOOLEAN
  /\ late \in [Timer -> Nat]
  /\ switched \subseteq Timer
  /\ doubled \subseteq Timer
  /\ removed \in [Timer -> SUBSET (Listener \cup IccTimer)]
  /\ raced \subseteq Timer

TimerInit ==
  /\ kernel = [t \in Timer |-> "idle"]
  /\ exec = [t \in Timer |-> FALSE]
  /\ counter \in [Timer -> {Infinite, OneTime}]
  /\ duration \in [Timer -> {0, 1}]
  /\ rawList = [t \in Timer |-> <<>>]
  /\ weakList = [t \in Timer |-> <<>>]
  /\ dead = {}
  /\ tpc = "enter"
  /\ source = NoCall
  /\ told = <<>>
  /\ speaking = NoCall
  /\ call = [k \in Controller |-> NoCall]
  /\ starts = 0
  /\ changes = 0
  /\ genuine = FALSE
  /\ late = [t \in Timer |-> 0]
  /\ switched = {}
  /\ doubled = {}
  /\ removed = [t \in Timer |-> {}]
  /\ raced = {}

------------------------------------------------------------------------------
(* Whose descriptor fd[t] is: nobody's once t is closed, unless the number has
   been given to another timer. *)
Behind(t) == {u \in Timer \cap Opened : fd[u] = fd[t]}

(* timerfd_settime with the duration, or with zero, which disarms; either
   forgets an expiry that was not read. *)
Settime(t, ns) ==
  kernel' = [u \in Timer |-> IF u \in Behind(t)
                            THEN IF ns = 0 THEN "idle" ELSE "armed"
                            ELSE kernel[u]]

Expire(t) ==
  /\ kernel[t] = "armed"
  /\ kernel' = [kernel EXCEPT ![t] = "expired"]
  /\ UNCHANGED <<eventLoopVars, settingVars, expiryVars, controlVars, late>>

(* The timers select() finds ready. *)
TimersReady == {fd[t] : t \in {u \in Timer \cap Opened : kernel[u] = "expired"}}

(* Constructed, and not in the hands of its destructor. *)
InUse(t) ==
  /\ life[t] = "alive"
  /\ t \in IccTimer => t \in ToSet(rawList[t])

Uses(k, t) == call[k] # NoCall /\ call[k][2] = t

------------------------------------------------------------------------------
(* start() and stop(): the exchange of execute_, then the system call. *)

BeginCall(k, c, t) ==
  /\ call[k] = NoCall
  /\ call' = [call EXCEPT ![k] = <<c, t>>]
  /\ raced' = IF \E j \in Controller : Uses(j, t) THEN raced \cup {t} ELSE raced

Start(k, t) ==
  /\ InUse(t)
  /\ starts < MaxStarts
  /\ ~exec[t]
  /\ exec' = [exec EXCEPT ![t] = TRUE]
  /\ BeginCall(k, "arm", t)
  /\ starts' = starts + 1
  /\ late' = [late EXCEPT ![t] = 0]
  /\ UNCHANGED <<eventLoopVars, kernel, settingVars, expiryVars>>

Arm(k, t) ==
  /\ call[k] = <<"arm", t>>
  /\ Settime(t, duration[t])
  /\ call' = [call EXCEPT ![k] = NoCall]
  /\ UNCHANGED <<eventLoopVars, settingVars, expiryVars, exec, starts, raced, late>>

Stop(k, t) ==
  /\ InUse(t)
  /\ exec[t]
  /\ exec' = [exec EXCEPT ![t] = FALSE]
  /\ BeginCall(k, "disarm", t)
  /\ UNCHANGED <<eventLoopVars, kernel, settingVars, expiryVars, starts, late>>

Disarm(k, t) ==
  /\ call[k] \in {<<"disarm", t>>, <<"disarmLast", t>>}
  /\ Settime(t, 0)
  /\ call' = [call EXCEPT ![k] = IF @[1] = "disarm" THEN NoCall ELSE <<"release", t>>]
  /\ UNCHANGED <<eventLoopVars, settingVars, expiryVars, exec, starts, raced, late>>

------------------------------------------------------------------------------
(* The settings.  A change while the timer is started is recorded. *)

Change ==
  /\ changes < MaxChanges
  /\ changes' = changes + 1

Set(t) ==
  /\ InUse(t)
  /\ Change
  /\ switched' = IF exec[t] THEN switched \cup {t} ELSE switched
  /\ UNCHANGED <<eventLoopVars, kernel, expiryVars, controlVars, listVars, late>>

SetCounter(t, n) ==
  /\ counter' = [counter EXCEPT ![t] = n]
  /\ Set(t)
  /\ UNCHANGED duration

EnableContinuous(t) == SetCounter(t, Infinite)
DisableContinuous(t) == counter[t] = Infinite /\ SetCounter(t, OneTime)

(* A negative number is Infinite; which positive one it is matters to nobody. *)
SetNumberOfRepetition(t, n) == SetCounter(t, IF n < 0 THEN Infinite ELSE n)

SetInterval(t, ns) ==
  /\ duration' = [duration EXCEPT ![t] = ns]
  /\ Set(t)
  /\ UNCHANGED counter

------------------------------------------------------------------------------
(* The listeners.  The mutex is with the loop's thread while it calls them. *)

Locked(t) == tpc = "tell" /\ InCallback(t, "READ")

(* std::remove and an erase of one element: a listener that was added twice
   leaves one element too many behind. *)
Erased(s, l) ==
  LET kept == Chosen(s, {i \in DOMAIN s : s[i] # l})
  IN  kept \o SubSeq(s, Len(kept) + 2, Len(s))

Append1(lists, t, l) == [lists EXCEPT ![t] = Append(@, l)]
Erase1(lists, t, l) == [lists EXCEPT ![t] = Erased(@, l)]

AddListener(t, l) ==
  /\ InUse(t)
  /\ ~Locked(t)
  /\ l \notin dead
  /\ Change
  /\ rawList' = IF l \in Shared THEN rawList ELSE Append1(rawList, t, l)
  /\ weakList' = IF l \in Shared THEN Append1(weakList, t, l) ELSE weakList
  /\ doubled' = IF l \in ToSet(rawList[t] \o weakList[t])
                THEN doubled \cup {t} ELSE doubled
  /\ removed' = [removed EXCEPT ![t] = @ \ {l}]
  /\ UNCHANGED <<eventLoopVars, kernel, expiryVars, controlVars, counter,
                 duration, dead, switched, late>>

\* Mutant: removeListener() does not lock the mutex.
MutRemoveListenerUnlocked(t, l) ==
  /\ InUse(t)
  /\ l \in ToSet(rawList[t] \o weakList[t]) \ dead
  /\ Change
  /\ rawList' = IF l \in Shared THEN rawList ELSE Erase1(rawList, t, l)
  /\ weakList' = IF l \in Shared THEN Erase1(weakList, t, l) ELSE weakList
  /\ removed' = [removed EXCEPT ![t] = @ \cup {l}]
  /\ UNCHANGED <<eventLoopVars, kernel, expiryVars, controlVars, counter,
                 duration, dead, switched, doubled, late>>

(* Removing what is not in the list erases behind its end; programs do not. *)
RemoveListener(t, l) ==
  /\ InUse(t)
  /\ ~Locked(t)
  /\ l \in ToSet(rawList[t] \o weakList[t]) \ dead
  /\ Change
  /\ rawList' = IF l \in Shared THEN rawList ELSE Erase1(rawList, t, l)
  /\ weakList' = IF l \in Shared THEN Erase1(weakList, t, l) ELSE weakList
  /\ removed' = [removed EXCEPT ![t] = @ \cup {l}]
  /\ UNCHANGED <<eventLoopVars, kernel, expiryVars, controlVars, counter,
                 duration, dead, switched, doubled, late>>

(* The program drops its last pointer to a shared listener. *)
DropListener(l) ==
  /\ l \in Shared \ dead
  /\ speaking # l
  /\ dead' = dead \cup {l}
  /\ UNCHANGED <<eventLoopVars, kernel, expiryVars, controlVars, counter, duration,
                 rawList, weakList, changes, switched, doubled, removed, late>>

------------------------------------------------------------------------------
(* icc::Timer.  Its constructor adds it to the listeners of the new timer; its
   destructor removes it, stops the timer and lets it go. *)

Construct(t) ==
  /\ t \in IccTimer
  /\ life[t] = "alive"
  /\ rawList[t] = <<>> /\ removed[t] = {}
  /\ rawList' = Append1(rawList, t, t)
  /\ UNCHANGED <<eventLoopVars, kernel, expiryVars, controlVars, counter, duration,
                 weakList, dead, changes, switched, doubled, removed, late>>

Destruct(k, t) ==
  /\ t \in IccTimer
  /\ InUse(t)
  /\ \A j \in Controller : ~Uses(j, t)
  /\ ~Locked(t)
  /\ rawList' = Erase1(rawList, t, t)
  /\ removed' = [removed EXCEPT ![t] = @ \cup {t}]
  /\ BeginCall(k, "stop", t)
  /\ UNCHANGED <<eventLoopVars, kernel, expiryVars, exec, starts, counter,
                 duration, weakList, dead, changes, switched, doubled, late>>

DestructStop(k, t) ==
  /\ call[k] = <<"stop", t>>
  /\ exec' = [exec EXCEPT ![t] = FALSE]
  /\ call' = [call EXCEPT ![k] = <<IF exec[t] THEN "disarmLast" ELSE "release", t>>]
  /\ UNCHANGED <<eventLoopVars, kernel, settingVars, expiryVars, starts, raced, late>>

(* The last pointer to the os timer goes. *)
ReleaseTimer(k, t) ==
  /\ IF t \in IccTimer
     THEN call[k] = <<"release", t>>
     ELSE call[k] = NoCall /\ \A j \in Controller : ~Uses(j, t)
  /\ Release(t)
  /\ call' = [call EXCEPT ![k] = NoCall]
  /\ UNCHANGED <<kernel, settingVars, expiryVars, exec, starts, raced, late>>

------------------------------------------------------------------------------
(* onTimerExpired, on the thread of the loop. *)

(* The read has returned, with an expiry or because the descriptor is closed. *)
Read(u) ==
  /\ kernel' = IF u = NoCall THEN kernel ELSE [kernel EXCEPT ![u] = "idle"]
  /\ genuine' = (u # NoCall)
  /\ tpc' = "test"
  /\ source' = NoCall

\* Mutant: the descriptor does not block.
MutReadEnterNonblocking(t) ==
  /\ InCallback(t, "READ")
  /\ tpc = "enter"
  /\ IF \E u \in Behind(t) : kernel[u] = "expired"
     THEN \E u \in Behind(t) : Read(u)
     ELSE Read(NoCall)
  /\ UNCHANGED <<eventLoopVars, settingVars, controlVars, told, speaking, late>>

ReadEnter(t) ==
  /\ InCallback(t, "READ")
  /\ tpc = "enter"
  /\ \/ /\ Behind(t) = {}
        /\ Read(NoCall)
     \/ /\ source' \in Behind(t)
        /\ tpc' = "reading"
        /\ UNCHANGED <<kernel, genuine>>
  /\ UNCHANGED <<eventLoopVars, settingVars, controlVars, told, speaking, late>>

ReadReturn(t) ==
  /\ InCallback(t, "READ")
  /\ tpc = "reading"
  /\ kernel[source] = "expired"
  /\ Read(source)
  /\ UNCHANGED <<eventLoopVars, settingVars, controlVars, told, speaking, late>>

(* The callback is over. *)
ExpiredReturn ==
  /\ CallbackReturn
  /\ tpc' = "enter"
  /\ genuine' = FALSE

\* Mutant: execute_ is not tested.
MutTestExecuteNever(t) ==
  /\ InCallback(t, "READ")
  /\ tpc = "test"
  /\ tpc' = "rearm"
  /\ UNCHANGED <<eventLoopVars, kernel, settingVars, controlVars, source, told,
                 speaking, genuine, late>>

TestExecute(t) ==
  /\ InCallback(t, "READ")
  /\ tpc = "test"
  /\ IF exec[t]
     THEN /\ tpc' = "rearm"
          /\ UNCHANGED <<eventLoopVars, genuine>>
     ELSE ExpiredReturn
  /\ UNCHANGED <<kernel, settingVars, controlVars, source, told, speaking, late>>

\* Mutant: a timer is armed again when it is not continuous.
MutRearmOthers(t) ==
  /\ InCallback(t, "READ")
  /\ tpc = "rearm"
  /\ IF counter[t] # Infinite
     THEN Settime(t, duration[t])
     ELSE UNCHANGED kernel
  /\ tpc' = "lock"
  /\ UNCHANGED <<eventLoopVars, settingVars, controlVars, source, told, speaking,
                 genuine, late>>

Rearm(t) ==
  /\ InCallback(t, "READ")
  /\ tpc = "rearm"
  /\ IF counter[t] = Infinite
     THEN Settime(t, duration[t])
     ELSE UNCHANGED kernel
  /\ tpc' = "lock"
  /\ UNCHANGED <<eventLoopVars, settingVars, controlVars, source, told, speaking,
                 genuine, late>>

LockListeners(t) ==
  /\ InCallback(t, "READ")
  /\ tpc = "lock"
  /\ told' = rawList[t] \o weakList[t]
  /\ late' = [late EXCEPT ![t] = IF exec[t] THEN @ ELSE @ + 1]
  /\ tpc' = "tell"
  /\ UNCHANGED <<eventLoopVars, kernel, settingVars, controlVars, source,
                 speaking, genuine>>

(* A weak pointer is locked for the call, or passed over. *)
Tell(t) ==
  /\ Locked(t)
  /\ speaking = NoCall
  /\ told # <<>>
  /\ told' = Tail(told)
  /\ speaking' = IF Head(told) \in dead THEN NoCall ELSE Head(told)
  /\ UNCHANGED <<eventLoopVars, kernel, settingVars, controlVars, tpc, source,
                 genuine, late>>

TellReturn(t) ==
  /\ Locked(t)
  /\ speaking # NoCall
  /\ speaking' = NoCall
  /\ UNCHANGED <<eventLoopVars, kernel, settingVars, controlVars, tpc, source,
                 told, genuine, late>>

(* Pointers that have expired are erased, and the mutex is unlocked. *)
Unexpired(s) == Chosen(s, {i \in DOMAIN s : s[i] \notin dead})

Unlock(t) ==
  /\ Locked(t)
  /\ speaking = NoCall
  /\ told = <<>>
  /\ weakList' = [weakList EXCEPT ![t] = Unexpired(@)]
  /\ ExpiredReturn
  /\ UNCHANGED <<kernel, controlVars, counter, duration, rawList, dead, changes,
                 switched, doubled, removed, source, told, speaking, late>>
=============================================================================
