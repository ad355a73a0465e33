------------------------------- MODULE MPerf ---------------------------------
(* The controller of mperf and the servers it starts (server.c, worker.c,   *)
(* sndrcv.c): processes that speak by signals.  A client asks the controller*)
(* for a test; the controller ends the server of the test before, forks a   *)
(* new one and waits until that has taken its arguments; the client then    *)
(* connects to the server.                                                  *)
(*                                                                          *)
(* A signal is pending from the call of kill until its handler runs, and a  *)
(* process does nothing else while one is pending, as a signal is delivered *)
(* before the process runs on in user mode.  A call of log blocks signals   *)
(* for its own time only.  The controller's locks have the names of the     *)
(* signals whose handlers release them.  Clients are the environment.       *)
(*                                                                          *)
(* As in TcpConnection, a definition that nothing uses is the next one with *)
(* a slip in it.                                                            *)
EXTENDS Integers, FiniteSets

CONSTANTS
  MaxForks,     \* bound: servers started
  MaxRequests   \* bound: connections accepted by the controller

ASSUME BoundAssumption == MaxForks \in Nat /\ MaxRequests \in Nat

Server == 1..MaxForks          \* in the order of fork; a pid is not used again
Signal == {"USR1", "USR2", "CHLD", "ALRM"}   \* that the controller handles
Illegal == 0                   \* a control message that configure refuses

VARIABLES
  \* The controller:
  completeKill,  \* option -k
  at,            \* where it is
  kind,          \* instruction of the connection it handles
  requests,      \* connections accepted, the number of the last one
  ret,           \* value for the client
  chldPID,       \* 0 at first, -1 for none
  locked,        \* its locks that are set
  alarm,         \* it has an alarm running
  pending,       \* signals it has not handled
  \* Shared memory:
  message,       \* control message, the number of its request
  \* The servers:
  forked,        \* how many there have been
  pc,            \* where each one is
  argsOf,        \* the arguments each has read
  stopped,       \* continueTest() is false
  signals,       \* signals each has not handled: "INT", "TERM"
  \* What has happened:
  unborn,        \* a server was reaped before its fork returned a pid
  notTerminated  \* sigchldHandler has found chldPID still there

control == <<completeKill, at, kind, requests, ret>>
waiting == <<chldPID, locked, alarm>>
servers == <<forked, pc, argsOf, stopped, signals>>
history == <<unborn, notTerminated>>
vars == <<control, waiting, pending, message, servers, history>>

Places == {"accept", "parse", "terminate", "kill", "spin", "killAgain",
           "receive", "lock", "fork", "forked", "wait", "answer"}

(* "none" before the fork; after the end "zombie", and "reaped" by waitpid. *)
Stages == {"none", "born", "report", "refused", "bind", "check", "enter",
           "accept", "accepted", "loop", "call", "block", "done",
           "zombie", "reaped"}

Init == /\ completeKill \in BOOLEAN
        /\ at = "accept" /\ kind = "TERM" /\ requests = 0 /\ ret = "SUCC"
        /\ chldPID = 0 /\ locked = {} /\ alarm = FALSE /\ pending = {}
        /\ message = Illegal
        /\ forked = 0
        /\ pc = [s \in Server |-> "none"]
        /\ argsOf = [s \in Server |-> Illegal]
        /\ stopped = [s \in Server |-> FALSE]
        /\ signals = [s \in Server |-> {}]
        /\ unborn = FALSE /\ notTerminated = FALSE

Alive(s) == pc[s] \notin {"none", "zombie", "reaped"}

-----------------------------------------------------------------------------
(* Signals of the controller *)

(* A read that a handler interrupts is given up: the instruction is lost, or*)
(* the message is.  The handler may as well run just before the read.       *)
Interrupted == \/ UNCHANGED <<at, ret>>
               \/ at = "parse" /\ at' = "accept" /\ UNCHANGED ret
               \/ at = "receive" /\ at' = "answer" /\ ret' = "EREAD"

Zombies == {s \in Server : pc[s] = "zombie"}

KnownAlways(dead) == chldPID
Known(dead) == IF chldPID \in dead THEN -1 ELSE chldPID

sigchldHandler ==
  /\ pc' = [s \in Server |-> IF s \in Zombies THEN "reaped" ELSE pc[s]]
  /\ chldPID' = Known(Zombies)
  /\ notTerminated' = (notTerminated \/ chldPID' # -1)
  /\ unborn' = (unborn \/ (at = "forked" /\ forked \in Zombies))

(* All that are pending, one handler after the other. *)
Handle == /\ pending # {}
          /\ pending' = {}
          /\ locked' = locked \ pending
          /\ IF "CHLD" \in pending THEN sigchldHandler
                                   ELSE UNCHANGED <<pc, chldPID, history>>
          /\ Interrupted
          /\ UNCHANGED <<completeKill, kind, requests, alarm, message, forked,
                         argsOf, stopped, signals>>

(* One second after it was set. *)
Alarm == /\ alarm
         /\ alarm' = FALSE
         /\ pending' = pending \cup {"ALRM"}
         /\ UNCHANGED <<control, chldPID, locked, message, servers, history>>

-----------------------------------------------------------------------------
(* kill(2): of all processes if the pid is -1; a zombie takes no notice.    *)
Killable == chldPID = -1 \/ (chldPID \in Server /\ pc[chldPID] # "reaped")

Receives(s) == Alive(s) /\ chldPID \in {-1, s}

rKill(sig) ==
  signals' = [s \in Server |-> IF Receives(s) THEN signals[s] \cup {sig} ELSE signals[s]]

CancelNot == UNCHANGED alarm
Cancel == alarm' = FALSE

-----------------------------------------------------------------------------
(* Steps of the controller *)

Accept == /\ at = "accept" /\ requests < MaxRequests
          /\ requests' = requests + 1
          /\ at' = "parse"
          /\ UNCHANGED <<completeKill, kind, ret, waiting, pending, message, servers, history>>

(* The instruction is read.  A client that sends none is given up.          *)
parse ==
  /\ at = "parse"
  /\ \/ /\ kind' \in {"TERM", "CONF"}
        /\ ret' = "SUCC"
        /\ at' = IF chldPID > 0 THEN "terminate"
                 ELSE IF kind' = "TERM" THEN "answer" ELSE "receive"
     \/ at' = "accept" /\ UNCHANGED <<kind, ret>>
  /\ UNCHANGED <<completeKill, requests, waiting, pending, message, servers, history>>

(* rTerminate: the locks are set, the signal is sent,                       *)
rTerminate == /\ at = "terminate"
              /\ locked' = locked \cup {"CHLD", "ALRM"}
              /\ alarm' = TRUE
              /\ at' = "kill"
              /\ UNCHANGED <<completeKill, kind, requests, ret, chldPID, pending, message,
                             servers, history>>

killINT == /\ at = "kill"
           /\ IF Killable
              THEN rKill("INT") /\ at' = "spin" /\ UNCHANGED <<ret, alarm>>
              ELSE ret' = "EKILL" /\ Cancel /\ at' = "answer" /\ UNCHANGED signals
           /\ UNCHANGED <<completeKill, kind, requests, chldPID, locked, pending, message,
                          forked, pc, argsOf, stopped, history>>

Terminated == IF kind = "TERM" THEN "answer" ELSE "receive"

GivesUpNever == "CHLD" \in locked /\ FALSE
GivesUp == "CHLD" \in locked /\ completeKill

(* and the end of the server is waited for, for a second.                   *)
spinAND == /\ at = "spin"
           /\ ~({"CHLD", "ALRM"} \subseteq locked)
           /\ Cancel
           /\ at' = IF GivesUp THEN "killAgain" ELSE Terminated
           /\ UNCHANGED <<completeKill, kind, requests, ret, chldPID, locked, pending,
                          message, servers, history>>

killTERM == /\ at = "killAgain"
            /\ IF Killable
               THEN rKill("TERM") /\ at' = Terminated /\ UNCHANGED ret
               ELSE ret' = "EKILL" /\ at' = "answer" /\ UNCHANGED signals
            /\ UNCHANGED <<completeKill, kind, requests, waiting, pending, message,
                           forked, pc, argsOf, stopped, history>>

(* doConfigure: the message goes to the shared memory,                      *)
rReceiveMessage == /\ at = "receive"
                   /\ \/ message' \in {requests, Illegal} /\ at' = "lock" /\ UNCHANGED ret
                      \/ ret' = "EREAD" /\ at' = "answer" /\ UNCHANGED message
                   /\ UNCHANGED <<completeKill, kind, requests, waiting, pending, servers,
                                  history>>

AnswersKept == {"USR2", "ALRM"}
Answers == {"USR1", "USR2", "ALRM"}

setLocks == /\ at = "lock"
            /\ locked' = locked \cup Answers
            /\ alarm' = TRUE
            /\ at' = "fork"
            /\ UNCHANGED <<completeKill, kind, requests, ret, chldPID, pending, message,
                           servers, history>>

(* the server is forked, and the call of fork returns its pid,              *)
fork == /\ at = "fork" /\ forked < MaxForks
        /\ forked' = forked + 1
        /\ pc' = [pc EXCEPT ![forked + 1] = "born"]
        /\ at' = "forked"
        /\ UNCHANGED <<completeKill, kind, requests, ret, waiting, pending, message,
                       argsOf, stopped, signals, history>>

backupFork == /\ at \in {"fork", "forked"}
              /\ chldPID' = IF at = "forked" THEN forked ELSE -1   \* fork has failed
              /\ at' = "wait"
              /\ UNCHANGED <<completeKill, kind, requests, ret, locked, alarm, pending,
                             message, servers, history>>

SpinsOnUsr == {"USR1", "USR2"} \subseteq locked
Spins == {"USR1", "USR2", "ALRM"} \subseteq locked

(* and its signal is waited for.                                            *)
spinAND3 == /\ at = "wait" /\ ~Spins
            /\ Cancel
            /\ ret' = IF "USR2" \notin locked THEN "EMSG"
                      ELSE IF "ALRM" \notin locked THEN "EPROC" ELSE "SUCC"
            /\ at' = "answer"
            /\ UNCHANGED <<completeKill, kind, requests, chldPID, locked, pending, message,
                           servers, history>>

rSendBytes == /\ at = "answer"
              /\ at' = "accept"
              /\ UNCHANGED <<completeKill, kind, requests, ret, waiting, pending, message,
                             servers, history>>

Controller == \/ Handle
              \/ pending = {} /\ \/ parse \/ rTerminate \/ killINT \/ spinAND \/ killTERM
                                 \/ rReceiveMessage \/ setLocks \/ fork \/ backupFork
                                 \/ spinAND3 \/ rSendBytes

-----------------------------------------------------------------------------
(* Steps of server s *)

Goes(s, stage) == /\ pc' = [pc EXCEPT ![s] = stage]
                  /\ UNCHANGED pending

Tells(s, stage, sig) == /\ pc' = [pc EXCEPT ![s] = stage]
                        /\ pending' = pending \cup {sig}

Exit(s) == Tells(s, "zombie", "CHLD")

(* The handler of SIGINT is not there yet, or finds that no test is running.*)
Quiet == {"born", "report", "refused", "bind", "done"}

(* A handler ends a blocked call, unless some of the block has been moved:  *)
(* the loop of rio_readnr and rio_writenr then calls again for the rest.    *)
(* Before the call, its mark goes unseen till the call is over.             *)
EINTR(s) == \/ Goes(s, CASE pc[s] = "accept" -> "check"
                         [] pc[s] = "block"  -> "done"
                         [] OTHER            -> pc[s])
            \/ pc[s] = "block" /\ Goes(s, "block")

sigintHandler(s) ==
  /\ signals[s] # {}
  /\ signals' = [signals EXCEPT ![s] = {}]
  /\ IF "TERM" \in signals[s] \/ pc[s] \in Quiet
     THEN Exit(s) /\ UNCHANGED stopped
     ELSE EINTR(s) /\ stopped' = [stopped EXCEPT ![s] = TRUE]
  /\ UNCHANGED <<forked, argsOf>>

getMessage(s) == /\ pc[s] = "born"
                 /\ argsOf' = [argsOf EXCEPT ![s] = message]
                 /\ Goes(s, "report")
                 /\ UNCHANGED <<forked, stopped, signals>>

configure(s) == /\ pc[s] = "report"
                /\ IF argsOf[s] = Illegal THEN Tells(s, "refused", "USR2")
                                          ELSE Tells(s, "bind", "USR1")
                /\ UNCHANGED <<forked, argsOf, stopped, signals>>

(* Two sockets cannot listen on one port, and the listening one is closed   *)
(* when it has accepted a client that is served.                            *)
Listens(s) == pc[s] \in {"check", "enter", "accept", "accepted"}

forceOpenListenFD(s) ==
  /\ pc[s] = "bind"
  /\ IF \E t \in Server : Listens(t) THEN Exit(s) ELSE Goes(s, "check")
  /\ UNCHANGED <<forked, argsOf, stopped, signals>>

continueTest(s) == ~stopped[s]

checkTest(s) == /\ pc[s] = "check"
                /\ IF continueTest(s) THEN Goes(s, "enter") ELSE Exit(s)
                /\ UNCHANGED <<forked, argsOf, stopped, signals>>

(* A client's connection is there already, or it comes when accept blocks.  *)
accept(s) == /\ \/ pc[s] = "enter" /\ \E stage \in {"accept", "accepted"} : Goes(s, stage)
                \/ pc[s] = "accept" /\ Goes(s, "accepted")
             /\ UNCHANGED <<forked, argsOf, stopped, signals>>

BeginsAlways(s) == TRUE
Begins(s) == continueTest(s)

(* doReceive reads once before it looks, the other tests look first.        *)
startTest(s) == /\ pc[s] = "accepted"
                /\ IF Begins(s) THEN \E stage \in {"loop", "call"} : Goes(s, stage)
                                ELSE Exit(s)
                /\ UNCHANGED <<forked, argsOf, stopped, signals>>

(* The loop of doLongTest, doFixTest and doReceive, which the signals end,  *)
testLoop(s) == /\ pc[s] = "loop"
               /\ Goes(s, IF continueTest(s) THEN "call" ELSE "done")
               /\ UNCHANGED <<forked, argsOf, stopped, signals>>

(* and its read or write of a block: the last one, or the end of the        *)
(* connection, ends the test as well.                                       *)
moveBlock(s) == /\ \/ pc[s] = "call" /\ Goes(s, "block")
                   \/ pc[s] = "block" /\ \E stage \in {"loop", "done"} : Goes(s, stage)
                /\ UNCHANGED <<forked, argsOf, stopped, signals>>

sigalrmHandler(s) == /\ pc[s] \in {"loop", "call", "block"}
                     /\ stopped' = [stopped EXCEPT ![s] = TRUE]
                     /\ EINTR(s)
                     /\ UNCHANGED <<forked, argsOf, signals>>

exit(s) == /\ pc[s] \in {"refused", "done"}
           /\ Exit(s)
           /\ UNCHANGED <<forked, argsOf, stopped, signals>>

ServerStep(s) ==
  /\ \/ sigintHandler(s)
     \/ signals[s] = {} /\ \/ getMessage(s) \/ configure(s) \/ forceOpenListenFD(s)
                           \/ checkTest(s) \/ accept(s) \/ startTest(s)
                           \/ testLoop(s) \/ moveBlock(s) \/ sigalrmHandler(s) \/ exit(s)
  /\ UNCHANGED <<control, waiting, message, history>>

-----------------------------------------------------------------------------
Next == \/ Controller
        \/ pending = {} /\ Accept
        \/ Alarm
        \/ \E s \in Server : ServerStep(s)

(* The controller runs on, and its alarm comes; servers need do nothing.    *)
Spec == Init /\ [][Next]_vars
FairSpec == Spec /\ WF_vars(Controller) /\ WF_vars(Alarm)

-----------------------------------------------------------------------------
(* Properties *)

(* Every variable keeps its type, and the alarm of a wait does not outlive   *)
(* it: it would interrupt a later read.                                     *)
TypeOK ==
  /\ completeKill \in BOOLEAN /\ at \in Places /\ kind \in {"TERM", "CONF"}
  /\ requests \in 0..MaxRequests
  /\ ret \in {"SUCC", "EMSG", "EKILL", "EREAD", "EPROC"}
  /\ chldPID \in -1..forked
  /\ locked \subseteq Signal /\ alarm \in BOOLEAN /\ pending \subseteq Signal
  /\ alarm => at \in {"kill", "spin", "fork", "forked", "wait"}
  /\ message \in 0..MaxRequests
  /\ forked \in 0..MaxForks
  /\ pc \in [Server -> Stages]
  /\ argsOf \in [Server -> 0..MaxRequests]
  /\ stopped \in [Server -> BOOLEAN]
  /\ signals \in [Server -> SUBSET {"INT", "TERM"}]
  /\ unborn \in BOOLEAN /\ notTerminated \in BOOLEAN

(* When the controller tells a client that its test is configured, the      *)
(* server it has forked has taken this client's arguments: it was not an    *)
(* earlier server's signal, late, that ended the wait (server.c:242).       *)
ConfiguredAsAsked ==
  at = "answer" /\ kind = "CONF" /\ ret = "SUCC" =>
    forked \in Server /\ argsOf[forked] = requests

(* The controller never holds the pid of a process that it has reaped: its  *)
(* kill would fail and every later request with it.  The exception is a     *)
(* server that ends before its own fork has returned (server.c:57).         *)
ReadyForTests == ~unborn => (chldPID > 0 => pc[chldPID] # "reaped")

(* With -k no more than one server runs that SIGTERM has not been sent to   *)
(* (server.c:12), although a server may miss SIGINT; unless the end of an   *)
(* earlier one comes so late that it is taken for the last one's.           *)
OneServer == completeKill /\ ~notTerminated =>
               Cardinality({s \in Server : Alive(s) /\ "TERM" \notin signals[s]}) <= 1

(* No test begins on a server whose successor has been forked: not on one   *)
(* either that missed SIGINT, without -k, and still accepts a client.       *)
NoStaleTest ==
  [][\A s \in Server :
       pc[s] = "accepted" /\ pc'[s] \in {"loop", "call"} => s = forked]_vars

(* Each connection is done with, whatever the server does or does not.      *)
ControllerReturns == at # "accept" ~> at = "accept"
=============================================================================
