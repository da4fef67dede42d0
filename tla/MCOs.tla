-------------------------------- MODULE MCOs --------------------------------
(***************************************************************************)
(* Os in nine situations.  All of the system at once is out of TLC's       *)
(* reach: each situation leaves new what it is not about, and bounds what  *)
(* the others vary.  It restricts what programs and peers begin, never     *)
(* what the loop, a thread inside a call or the system goes on with.       *)
(*                                                                         *)
(*   lifecycle  two timers are made, used and let go, before run() and     *)
(*              during it                                                  *)
(*   restart    run() is stopped at any moment and called again            *)
(*   race       two threads start, stop and destroy one timer              *)
(*   control    one thread does, and changes the settings meanwhile        *)
(*   listeners  listeners come and go while the timer expires              *)
(*   reuse      the descriptor of a closed timer is given to another one   *)
(*   accept     a server socket, and the socket it makes                   *)
(*   stream     one socket whose peer sends, reads, closes and resets      *)
(*   pair       two sockets share the handlers' static variables           *)
(***************************************************************************)
EXTENDS Os

CONSTANTS t1, t2, t3, v, s1, s2, s3, l1, l2, k1, k2, Scenarios

VARIABLE scenario

Events == [o \in Object |-> IF o \in Socket THEN <<"READ", "WRITE">> ELSE <<"READ">>]

New(os) == \A o \in os : life[o] = "new"
Only(os) == New(Object \ os)
RunOnce == runs <= 1 /\ ~stopping
Unheard == changes = 0 /\ dead = {}
MadeInRun(os) == lpc \in {"idle", "begin"} => New(os)
Kept(t) == life[t] # "closing" /\ \A k \in Controller : call[k] # <<"stop", t>>

Allowed ==
  CASE scenario = "lifecycle" ->
         Only({t1, t2}) /\ RunOnce /\ Unheard /\ Kept(t1) /\ starts <= 1
    [] scenario = "restart" ->
         Only({t1}) /\ Unheard /\ Kept(t1) /\ starts <= 1
    [] scenario = "race" ->
         Only({t1}) /\ RunOnce /\ Unheard /\ MadeInRun({t1}) /\ Kept(t1)
    [] scenario = "control" ->
         /\ Only({t1}) /\ RunOnce /\ MadeInRun({t1}) /\ Kept(t1)
         /\ dead = {} /\ changes <= 1
         /\ rawList[t1] \in {<<>>, <<t1>>} /\ weakList[t1] = <<>>
    [] scenario = "listeners" ->
         /\ Only({t1}) /\ RunOnce /\ MadeInRun({t1}) /\ starts <= 1
         /\ counter[t1] = Infinite
         /\ \A k \in Controller : call[k] # <<"disarm", t1>>
    [] scenario = "reuse" ->
         /\ Only(Timer) /\ RunOnce /\ Unheard /\ MadeInRun({t1})
         /\ life[t2] # "new" => life[t1] = "closed"
         /\ life[t3] # "new" => life[t2] = "closed"
         /\ \A t \in Timer : fd[t] # 3 /\ (exec[t] => t = t3)
    [] scenario = "accept" ->
         /\ Only({v, s1}) /\ RunOnce /\ MadeInRun({s1})
         /\ life[v] = "new" => lpc = "idle"
         /\ offered[s1] = 0 /\ peerSent[s1] <= 1
    [] scenario = "stream" ->
         /\ Only({s2}) /\ RunOnce
         /\ lpc # "idle" => life[s2] \in {"alive", "closing", "closed"}
         /\ asked[s2] + offered[s2] <= 2
         /\ ended[s2] \/ asked[s2] + offered[s2] = 2 => life[s2] = "alive"
    [] scenario = "pair" ->
         /\ Only({s2, s3}) /\ RunOnce
         /\ lpc # "idle" => life[s2] = "alive" /\ life[s3] = "alive"
         /\ life[s3] # "new" => life[s2] = "alive"
         /\ \A s \in {s2, s3} : /\ peerSent[s] <= 1 /\ ~ended[s]
                                /\ asked[s] + offered[s] <= 1

(* The settings the situation starts with. *)
Settings ==
  /\ \A t \in Timer : duration[t] = 1
  /\ counter[t1] = IF scenario \in {"race", "listeners"} THEN Infinite
                   ELSE IF scenario = "control" THEN counter[t1] ELSE OneTime
  /\ counter[t2] = OneTime /\ counter[t3] = OneTime
  /\ bits["WRITE"] = {} /\ (scenario # "lifecycle" => bits["READ"] = {})

MCInit == OsInit /\ scenario \in Scenarios /\ Settings

MCNext ==
  /\ OsNext
  /\ UNCHANGED scenario
  /\ Allowed'
  /\ scenario # "race" => call'[k2] = NoCall

mcvars == <<osVars, scenario>>
MCSpec == MCInit /\ [][MCNext]_mcvars /\ OsFairness
=============================================================================
