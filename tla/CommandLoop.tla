----------------------------- MODULE CommandLoop -----------------------------
(***************************************************************************)
(* icc::command::CommandLoop over icc::command::ICommand: a queue of       *)
(* commands that the loop starts one at a time or all at once, driven by   *)
(* lambdas that its clients and its commands push to its context.          *)
(*                                                                         *)
(* A client call is two steps, the exchange of the loop's own state and    *)
(* the push of the lambda.  A command finishes on a thread of its own in   *)
(* two steps, the exchange of its state and the event.  The lambdas are    *)
(* executed one after the other by the thread of the context; the walks    *)
(* over commands_ are one step per command, two where the code reads the   *)
(* state of a command and then exchanges it.  Commands are driven by the   *)
(* loop only, and clients are not on the context's thread.                 *)
(***************************************************************************)
EXTENDS Naturals, Sequences, FiniteSets

CONSTANTS Cmd,        \* the commands
          Plain,      \* those that are a bare Command: they finish when started
          Client,     \* threads that call the loop
          Calls,      \* the calls they make
          Modes,      \* the LoopModes they set: sets of flags
          OwnsContext,\* the loop was built with its own context, not a shared one
          MaxCalls,   \* bound: calls made
          MaxPush     \* bound: how often one command is pushed

ASSUME CommandAssumption ==
  /\ Plain \subseteq Cmd
  /\ Calls \subseteq {"start", "resume", "suspend", "stop", "clear", "push", "mode"}
  /\ Modes \subseteq SUBSET {"Continuous", "MultiCommand", "Transaction"}
  /\ OwnsContext \in BOOLEAN
  /\ MaxCalls \in Nat
  /\ MaxPush \in Nat

VARIABLES mode,       \* mode_
          loopState,  \* state_ of the loop itself
          st,         \* st[c]: state_ of command c
          subs,       \* subs[c]: how often the loop is in the listeners of c
          commands,   \* commands_
          open,       \* channel_ is not null
          inbox,      \* the lambdas pushed to the context and not yet run
          job,        \* what is left of the lambda that is running
          calling,    \* calling[k]: the lambda client k is about to push
          outcome,    \* outcome[c]: the result c finished with
          emitting,   \* the commands that are about to emit their result
          results,    \* history: the results the loop has emitted
          thrown,     \* a CommandStateAssert has left a lambda
          calls,      \* history: number of calls made
          pushed,     \* history: pushed[c]: how often c was pushed
          disturbed,  \* history: something but start() and pushBack() was called
          switched    \* history: setMode() was called

loopVars == <<mode, commands, open, job, thrown>>
cmdVars == <<st, subs, outcome, emitting>>
history == <<calls, disturbed, switched>>
callVars == <<calling, pushed, history>>
vars == <<loopVars, loopState, cmdVars, callVars, inbox, results>>

State == {"INACTIVE", "ACTIVE", "SUSPENDED", "FINISHED"}
Result == {"SUCCESS", "FAILED", "ABORTED"}

(* A lambda: what it does, and the command and the result it captured. *)
None == [op |-> "none"]
Lambda ==
  [op : {"start", "resume", "suspend", "stop", "clear"}]
    \cup [op : {"push"}, cmd : Cmd]
    \cup [op : {"event"}, cmd : Cmd, result : Result]
    \cup [op : {"mode"}, mode : Modes]

(* The rest of a running lambda: nothing, a walk over the commands in todo,
   or a call of finished(). *)
Idle == [op |-> "idle"]
Walk(op, todo) == [op |-> op, todo |-> todo, stage |-> "test"]
Finish(r) == [op |-> "finish", result |-> r]
Walks == [op : {"next", "resume", "suspend", "stop", "clear"}, todo : Seq(Cmd),
          stage : {"test", "act"}]
Finishes == [op : {"finish"}, result : Result]

TypeOK ==
  /\ mode \in Modes
  /\ loopState \in State
  /\ st \in [Cmd -> State]
  /\ subs \in [Cmd -> Nat]
  /\ commands \in Seq(Cmd)
  /\ open \in BOOLEAN
  /\ inbox \in Seq(Lambda)
  /\ job \in {Idle} \cup Walks \cup Finishes
  /\ calling \in [Client -> {None} \cup Lambda]
  /\ outcome \in [Cmd -> {"NONE"} \cup Result]
  /\ emitting \subseteq Cmd
  /\ results \in Seq(Result)
  /\ thrown \in BOOLEAN
  /\ calls \in 0..MaxCalls
  /\ pushed \in [Cmd -> 0..MaxPush]
  /\ disturbed \in BOOLEAN
  /\ switched \in BOOLEAN

Init ==
  /\ mode \in Modes
  /\ loopState = "INACTIVE"
  /\ st = [c \in Cmd |-> "INACTIVE"]
  /\ subs = [c \in Cmd |-> 0]
  /\ commands = <<>>
  /\ open = TRUE
  /\ inbox = <<>>
  /\ job = Idle
  /\ calling = [k \in Client |-> None]
  /\ outcome = [c \in Cmd |-> "NONE"]
  /\ emitting = {}
  /\ results = <<>>
  /\ thrown = FALSE
  /\ calls = 0
  /\ pushed = [c \in Cmd |-> 0]
  /\ disturbed = FALSE
  /\ switched = FALSE

Multi == "MultiCommand" \in mode
Continuous == "Continuous" \in mode
Transaction == "Transaction" \in mode

InLoop(c) == \E i \in 1..Len(commands) : commands[i] = c
\* Mutant: an event removes every command that has finished by now.
MutWithoutFinished(c) == SelectSeq(commands, LAMBDA d : st[d] # "FINISHED")

(* std::find and erase: the first entry of c, if there is one. *)
First(c) ==
  CHOOSE i \in DOMAIN commands : commands[i] = c /\ \A j \in 1..(i - 1) : commands[j] # c

Without(c) ==
  IF InLoop(c)
  THEN [j \in 1..(Len(commands) - 1) |-> commands[IF j < First(c) THEN j ELSE j + 1]]
  ELSE commands

------------------------------------------------------------------------------
(* Client calls.  The state exchange of startCommand and its siblings, which
   throws to the caller, and changes nothing, in any other state. *)
Transition(op) ==
  CASE op = "start"   -> <<"INACTIVE", "ACTIVE">>
    [] op = "resume"  -> <<"SUSPENDED", "ACTIVE">>
    [] op = "suspend" -> <<"ACTIVE", "SUSPENDED">>
    [] op = "stop"    -> <<"ACTIVE", "INACTIVE">>

MayCall(k, op) ==
  /\ op \in Calls
  /\ calling[k] = None
  /\ calls < MaxCalls
  /\ calls' = calls + 1
  /\ disturbed' = (disturbed \/ op \notin {"start", "push"})
  /\ switched' = (switched \/ op = "mode")

CallState(k, op) ==
  /\ MayCall(k, op)
  /\ loopState = Transition(op)[1]
  /\ loopState' = Transition(op)[2]
  /\ calling' = [calling EXCEPT ![k] = [op |-> op]]
  /\ UNCHANGED <<loopVars, cmdVars, pushed, inbox, results>>

(* pushBack, setMode and clearLoop have no exchange before their lambda. *)
CallOther(k, lambda) ==
  /\ MayCall(k, lambda.op)
  /\ calling' = [calling EXCEPT ![k] = lambda]
  /\ UNCHANGED <<loopVars, loopState, cmdVars, inbox, results>>

CallPush(k, c) ==
  /\ pushed[c] < MaxPush
  /\ pushed' = [pushed EXCEPT ![c] = @ + 1]
  /\ CallOther(k, [op |-> "push", cmd |-> c])

(* invoke(): without a channel the lambda is dropped. *)
Invoke(k) ==
  /\ calling[k] # None
  /\ inbox' = IF open THEN Append(inbox, calling[k]) ELSE inbox
  /\ calling' = [calling EXCEPT ![k] = None]
  /\ UNCHANGED <<loopVars, loopState, cmdVars, results, pushed, history>>

------------------------------------------------------------------------------
(* Commands.  A command that is active may finish with any result ... *)
CommandFinish(c, r) ==
  /\ c \notin Plain
  /\ st[c] = "ACTIVE"
  /\ st' = [st EXCEPT ![c] = "FINISHED"]
  /\ outcome' = [outcome EXCEPT ![c] = r]
  /\ emitting' = emitting \cup {c}
  /\ UNCHANGED <<loopVars, loopState, subs, callVars, inbox, results>>

\* Mutant: the loop subscribes after it has started the command.
MutEmittedUnsubscribed(c) ==
  [i \in 1..(IF open THEN subs[c] ELSE 0) |->
     [op |-> "event", cmd |-> c, result |-> outcome'[c]]]

(* ... and emits it: one processEvent for each time the loop subscribed, none
   to a loop without a channel. *)
Emitted(c) ==
  [i \in 1..(IF open THEN subs'[c] ELSE 0) |->
     [op |-> "event", cmd |-> c, result |-> outcome'[c]]]

CommandEmit(c) ==
  /\ c \in emitting
  /\ emitting' = emitting \ {c}
  /\ UNCHANGED <<st, subs, outcome>>
  /\ inbox' = inbox \o Emitted(c)
  /\ UNCHANGED <<loopVars, loopState, callVars, results>>

------------------------------------------------------------------------------
(* The lambdas, on the thread of the context. *)
(* A loop that owns its context stops it when it drops its channel. *)
Turn ==
  /\ job = Idle
  /\ inbox # <<>>
  /\ ~thrown
  /\ OwnsContext => open

\* Mutants: the first command is passed over; all the commands are started in
\* every mode.
MutNextCommandSecond(cmds) ==
  IF cmds # <<>> THEN Walk("next", Tail(cmds))
  ELSE IF Continuous THEN Idle
  ELSE Finish(IF loopState = "ACTIVE" THEN "SUCCESS" ELSE "ABORTED")

MutNextCommandAll(cmds) ==
  IF cmds # <<>> THEN Walk("next", cmds)
  ELSE IF Continuous THEN Idle
  ELSE Finish(IF loopState = "ACTIVE" THEN "SUCCESS" ELSE "ABORTED")

(* nextCommand(): the first command, all of them, or finished() when there is
   none and the loop is finite. *)
NextCommand(cmds) ==
  IF cmds # <<>> THEN Walk("next", IF Multi THEN cmds ELSE <<Head(cmds)>>)
  ELSE IF Continuous THEN Idle
  ELSE Finish(IF loopState = "ACTIVE" THEN "SUCCESS" ELSE "ABORTED")

(* processStartCommand, processResumeCommand, processSuspendCommand,
   processStopCommand, clearLoop. *)
HandleState ==
  /\ Turn
  /\ LET op == Head(inbox).op IN
       /\ op \in {"start", "resume", "suspend", "stop", "clear"}
       /\ job' = CASE op = "start" -> NextCommand(commands)
                   [] op \in {"resume", "suspend"} /\ commands # <<>> /\ ~Multi
                        -> Walk(op, <<Head(commands)>>)
                   [] OTHER -> Walk(op, commands)
  /\ inbox' = Tail(inbox)
  /\ UNCHANGED <<cmdVars, callVars, mode, loopState, commands, open, thrown, results>>

HandleMode ==
  /\ Turn
  /\ Head(inbox).op = "mode"
  /\ mode' = IF commands = <<>> THEN Head(inbox).mode ELSE mode
  /\ inbox' = Tail(inbox)
  /\ UNCHANGED <<cmdVars, callVars, loopState, commands, open, job, thrown, results>>

MayStart(cmds) == loopState = "ACTIVE" /\ (Len(cmds) = 1 \/ Multi)

(* pushBack: a command is queued once, and started when the loop is active and
   has room for it. *)
HandlePush ==
  /\ Turn
  /\ Head(inbox).op = "push"
  /\ LET c == Head(inbox).cmd IN
       commands' = IF InLoop(c) THEN commands ELSE Append(commands, c)
  /\ job' = IF MayStart(commands') THEN NextCommand(commands') ELSE Idle
  /\ inbox' = Tail(inbox)
  /\ UNCHANGED <<cmdVars, callVars, mode, loopState, open, thrown, results>>

(* processEvent: the command leaves the loop; its failure ends a finite
   transaction, anything else starts the next one. *)
HandleEvent ==
  /\ Turn
  /\ Head(inbox).op = "event"
  /\ commands' = Without(Head(inbox).cmd)
  /\ job' = IF Head(inbox).result = "FAILED" /\ ~Continuous /\ Transaction
            THEN Finish("FAILED") ELSE NextCommand(commands')
  /\ inbox' = Tail(inbox)
  /\ UNCHANGED <<cmdVars, callVars, mode, loopState, open, thrown, results>>

(* finished(): exit() empties the loop and drops its channel, then the state
   is exchanged and the result emitted, if the loop is still active. *)
LoopFinish ==
  /\ job.op = "finish"
  /\ job' = Idle
  /\ IF open
     THEN /\ commands' = <<>>
          /\ open' = FALSE
          /\ IF loopState = "ACTIVE"
             THEN loopState' = "FINISHED" /\ results' = Append(results, job.result)
             ELSE UNCHANGED <<loopState, results>>
     ELSE UNCHANGED <<commands, open, loopState, results>>
  /\ UNCHANGED <<cmdVars, callVars, mode, thrown, inbox>>

------------------------------------------------------------------------------
(* The walks.  c is the command the walk has reached. *)
Reached(op, c) ==
  /\ ~thrown
  /\ job.op = op
  /\ job.todo # <<>>
  /\ c = Head(job.todo)

WalkEnd ==
  /\ job.op \in {"next", "resume", "suspend", "stop", "clear"}
  /\ job.todo = <<>>
  /\ job' = Idle
  /\ UNCHANGED <<cmdVars, callVars, mode, loopState, commands, open, thrown, inbox, results>>

Advance == job' = [job EXCEPT !.todo = Tail(@), !.stage = "test"]

Throw == thrown' = TRUE /\ UNCHANGED job

(* nextCommand: a command that is neither active nor finished gets the loop as
   a listener and is started; startCommand() throws when it is suspended. *)
StartNext(c) ==
  /\ Reached("next", c)
  /\ st[c] \notin {"ACTIVE", "FINISHED"}
  /\ subs' = [subs EXCEPT ![c] = @ + 1]
  /\ IF st[c] = "INACTIVE"
     THEN /\ Advance
          /\ UNCHANGED thrown
          /\ IF c \in Plain
             THEN /\ st' = [st EXCEPT ![c] = "FINISHED"]
                  /\ outcome' = [outcome EXCEPT ![c] = "SUCCESS"]
                  /\ inbox' = inbox \o Emitted(c)
             ELSE st' = [st EXCEPT ![c] = "ACTIVE"] /\ UNCHANGED <<outcome, inbox>>
     ELSE Throw /\ UNCHANGED <<st, outcome, inbox>>
  /\ UNCHANGED <<callVars, mode, loopState, emitting, commands, open, results>>

SkipNext(c) ==
  /\ Reached("next", c)
  /\ st[c] \in {"ACTIVE", "FINISHED"}
  /\ Advance
  /\ UNCHANGED <<cmdVars, callVars, mode, loopState, commands, open, thrown, inbox, results>>

(* processResumeCommand asks for INACTIVE, and resumeCommand() then throws:
   it needs SUSPENDED. *)
ResumeNext(c) ==
  /\ Reached("resume", c)
  /\ IF st[c] = "INACTIVE" THEN Throw ELSE Advance /\ UNCHANGED thrown
  /\ UNCHANGED <<cmdVars, callVars, mode, loopState, commands, open, inbox, results>>

(* processSuspendCommand reads ACTIVE; by the time suspendCommand() exchanges
   the state the command may have finished, and it throws. *)
SuspendTest(c) ==
  /\ Reached("suspend", c)
  /\ job.stage = "test"
  /\ IF st[c] = "ACTIVE" THEN job' = [job EXCEPT !.stage = "act"] ELSE Advance
  /\ UNCHANGED <<cmdVars, callVars, mode, loopState, commands, open, thrown, inbox, results>>

SuspendNext(c) ==
  /\ Reached("suspend", c)
  /\ job.stage = "act"
  /\ IF st[c] = "ACTIVE"
     THEN st' = [st EXCEPT ![c] = "SUSPENDED"] /\ Advance /\ UNCHANGED thrown
     ELSE Throw /\ UNCHANGED st
  /\ UNCHANGED <<callVars, mode, loopState, subs, outcome, emitting, commands, open, inbox, results>>

(* processStopCommand stops and removes the first command until there is none;
   stopCommand() throws unless the command is active. *)
StopNext(c) ==
  /\ Reached("stop", c)
  /\ IF st[c] = "ACTIVE"
     THEN /\ st' = [st EXCEPT ![c] = "INACTIVE"]
          /\ commands' = Tail(commands)
          /\ Advance
          /\ UNCHANGED thrown
     ELSE Throw /\ UNCHANGED <<st, commands>>
  /\ UNCHANGED <<callVars, mode, loopState, subs, outcome, emitting, open, inbox, results>>

(* clearLoop stops those that are active and keeps them all. *)
ClearNext(c) ==
  /\ Reached("clear", c)
  /\ st' = IF st[c] = "ACTIVE" THEN [st EXCEPT ![c] = "INACTIVE"] ELSE st
  /\ Advance
  /\ UNCHANGED <<callVars, mode, loopState, subs, outcome, emitting, commands, open, thrown, inbox, results>>

------------------------------------------------------------------------------
ClientStep(k) ==
  \/ \E op \in {"start", "resume", "suspend", "stop"} : CallState(k, op)
  \/ CallOther(k, [op |-> "clear"]) /\ UNCHANGED pushed
  \/ \E m \in Modes : CallOther(k, [op |-> "mode", mode |-> m]) /\ UNCHANGED pushed
  \/ \E c \in Cmd : CallPush(k, c)

LoopStep ==
  \/ HandleState \/ HandleMode \/ HandlePush \/ HandleEvent
  \/ LoopFinish \/ WalkEnd
  \/ \E c \in Cmd : \/ StartNext(c) \/ SkipNext(c) \/ ResumeNext(c)
                    \/ SuspendTest(c) \/ SuspendNext(c) \/ StopNext(c)
                    \/ ClearNext(c)

Next ==
  \/ \E k \in Client : ClientStep(k) \/ Invoke(k)
  \/ \E c \in Cmd, r \in Result : CommandFinish(c, r)
  \/ \E c \in Cmd : CommandEmit(c)
  \/ LoopStep

(* The thread of the context runs, and a command that was started finishes:
   what a command owes to its loop.  No call has to be made. *)
Fairness ==
  /\ WF_vars(LoopStep)
  /\ \A k \in Client : WF_vars(Invoke(k))
  /\ \A c \in Cmd : /\ WF_vars(\E r \in Result : CommandFinish(c, r))
                    /\ WF_vars(CommandEmit(c))

Safety == Init /\ [][Next]_vars

Spec == Safety /\ Fairness

------------------------------------------------------------------------------
(* A loop without MultiCommand has at most one command running, however its
   clients start, suspend, clear, push and change the mode while the commands
   finish.  Only as long as it has its channel: finished() drops it, and
   forgets the commands that still run. *)
OneAtATime ==
  open /\ ~Multi =>
    \A c, d \in Cmd : st[c] = "ACTIVE" /\ st[d] = "ACTIVE" => c = d

(* A loop that reports SUCCESS has left no command running or suspended, and,
   if it has been a transaction all the time, none that failed: the results of
   the commands and the one of the loop agree although they are emitted by
   different threads.  One that became a transaction when it was empty does not
   hear again of what failed before. *)
SuccessMeansDone ==
  [][results' = Append(results, "SUCCESS") =>
       /\ \A c \in Cmd : st[c] \in {"INACTIVE", "FINISHED"}
       /\ Transaction /\ ~Continuous /\ ~switched =>
            \A c \in Cmd : outcome[c] # "FAILED"]_vars

(* Nobody has called anything but start() and pushBack(), once for a command. *)
Undisturbed == ~disturbed /\ \A c \in Cmd : pushed[c] <= 1

(* A finite loop that is started, and whose commands finish, finishes. *)
LoopFinishes ==
  ~Continuous /\ loopState = "ACTIVE" ~> loopState = "FINISHED" \/ ~Undisturbed

(* A command that is in the loop when the loop is started, or is pushed while
   it runs, finishes, unless the loop is a transaction. *)
QueuedRuns ==
  \A c \in Cmd :
    InLoop(c) /\ loopState = "ACTIVE" /\ ~Transaction
      ~> st[c] = "FINISHED" \/ ~Undisturbed

(* Once the lambda of a resume has run, no command of the active loop is left
   suspended. *)
Settled ==
  /\ loopState = "ACTIVE"
  /\ open
  /\ job = Idle
  /\ \A i \in 1..Len(inbox) : inbox[i].op \notin {"resume", "suspend"}
  /\ \A k \in Client : calling[k] = None

SuspendedResumed ==
  Settled => \A c \in Cmd : InLoop(c) => st[c] # "SUSPENDED"
==============================================================================
