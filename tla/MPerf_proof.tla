----------------------------- MODULE MPerf_proof -----------------------------
(* MPerf, for any number of servers and requests: the controller keeps no   *)
(* dead pid and answers for the right server, no test starts on a server    *)
(* that has been replaced, and with -k one runs at a time.                  *)
EXTENDS MPerf, FiniteSetTheorems, TLAPS

(* A server that has been told to end: it has ended, SIGINT is pending, or  *)
(* it has seen it.                                                          *)
Told(s) == ~Alive(s) \/ signals[s] # {} \/ stopped[s]

(* A server that SIGTERM does not end.                                      *)
Free(s) == Alive(s) /\ "TERM" \notin signals[s]

ServerInv ==
  /\ \A s \in Server : s > forked => pc[s] = "none"
  /\ \A s \in Server : ~Alive(s) => signals[s] = {}
  /\ \A s \in Server : stopped[s] => pc[s] \notin {"none", "born", "report", "refused", "bind"}
  /\ \A s \in Server : pc[s] \in {"none", "born"} => argsOf[s] = Illegal
  /\ at = "forked" => forked > 0
  /\ at # "accept" => requests > 0

(* chldPID is the newest server's, but between fork and its return.         *)
PidInv == chldPID > 0 => chldPID = forked \/ at = "forked"

ReadyInv == /\ ReadyForTests
            /\ at = "forked" /\ ~unborn => pc[forked] # "reaped"

(* All but the newest server have been told to end, and before a fork that  *)
(* one too.                                                                 *)
ToldInv == /\ \A s \in Server : s < forked => Told(s)
           /\ at # "forked" /\ chldPID <= 0 /\ forked > 0 => Told(forked)
           /\ at \in {"spin", "killAgain", "receive", "lock", "fork"} /\ forked > 0
                => Told(forked)

(* The same of SIGTERM, with -k. *)
NoneFree ==
  /\ \A s \in Server : s < forked => ~Free(s)
  /\ at # "forked" /\ chldPID <= 0 /\ forked > 0 => ~Free(forked)
  /\ at \in {"receive", "lock", "fork"} /\ forked > 0 => ~Free(forked)
  /\ at \in {"kill", "spin"} /\ "CHLD" \notin locked => chldPID = -1

FreeInv == completeKill /\ ~notTerminated => NoneFree

(* The signal that the controller waits for comes from the server that has  *)
(* read the message of this request.                                        *)
AskInv ==
  /\ ConfiguredAsAsked
  /\ at \in {"lock", "fork", "forked", "wait"} => message \in {requests, Illegal}
  /\ at = "fork" => "USR1" \in locked \ pending
  /\ at \in {"forked", "wait"} =>
       \/ "USR1" \in locked \ pending
       \/ forked > 0 /\ argsOf[forked] = requests
  /\ at \in {"forked", "wait"} /\ forked > 0 /\ pc[forked] = "report" /\ signals[forked] = {}
       => argsOf[forked] = message

-----------------------------------------------------------------------------
(* Type correctness: at first, under a step of a server, under any step. *)
LEMMA InitTypes == Init => TypeOK
<1> SUFFICES ASSUME Init PROVE TypeOK
  OBVIOUS
<1>1. completeKill \in BOOLEAN /\ alarm \in BOOLEAN /\ unborn \in BOOLEAN /\ notTerminated \in BOOLEAN
  BY Zenon DEF Init
<1>2. stopped \in [Server -> BOOLEAN]
  BY Zenon DEF Init
<1>3. QED
  BY <1>1, <1>2, BoundAssumption DEF Init, TypeOK, Places, Stages, Signal, Illegal, Server

(* What a step of a server may change. *)
LEMMA ServerTypes ==
  ASSUME TypeOK, NEW s \in Server, ServerStep(s)
  PROVE  TypeOK'
<1> USE DEF TypeOK, Goes, Tells, Exit, EINTR, Stages, Signal
<1>0. UNCHANGED <<completeKill, at, kind, requests, ret, chldPID, locked, alarm, message, unborn, notTerminated>>
  BY DEF ServerStep, control, waiting, history
<1>1. CASE sigintHandler(s)
  <2>1. pc' \in [Server -> Stages] /\ pending' \subseteq Signal
    BY <1>1 DEF sigintHandler
  <2>2. stopped' \in [Server -> BOOLEAN]
    <3>1. stopped' = stopped \/ stopped' = [stopped EXCEPT ![s] = TRUE]
      BY <1>1, Zenon DEF sigintHandler
    <3>2. QED
      BY <3>1
  <2>3. signals' \in [Server -> SUBSET {"INT", "TERM"}] /\ UNCHANGED <<forked, argsOf>>
    BY <1>1 DEF sigintHandler
  <2>4. QED
    BY <1>0, <2>1, <2>2, <2>3
<1>2. CASE getMessage(s)
  BY <1>0, <1>2 DEF getMessage
<1>3. CASE configure(s)
  BY <1>0, <1>3 DEF configure
<1>4. CASE forceOpenListenFD(s)
  BY <1>0, <1>4 DEF forceOpenListenFD
<1>5. CASE checkTest(s)
  BY <1>0, <1>5 DEF checkTest
<1>6. CASE accept(s)
  BY <1>0, <1>6 DEF accept
<1>7. CASE startTest(s)
  BY <1>0, <1>7 DEF startTest
<1>8. CASE testLoop(s)
  BY <1>0, <1>8 DEF testLoop
<1>12. CASE moveBlock(s)
  BY <1>0, <1>12 DEF moveBlock
<1>9. CASE sigalrmHandler(s)
  BY <1>0, <1>9 DEF sigalrmHandler
<1>10. CASE exit(s)
  BY <1>0, <1>10 DEF exit
<1>11. QED
  BY <1>1, <1>2, <1>3, <1>4, <1>5, <1>6, <1>7, <1>8, <1>9, <1>10, <1>12
     DEF ServerStep

LEMMA TypesStep == TypeOK /\ [Next]_vars => TypeOK'
<1> SUFFICES ASSUME TypeOK, [Next]_vars PROVE TypeOK'
  OBVIOUS
<1> USE DEF TypeOK, Places, Stages, Signal, Server, Illegal, control, waiting, servers, history
<1>1. CASE UNCHANGED vars
  BY <1>1 DEF vars
<1>2. CASE Handle
  <2>1. at' \in Places /\ ret' \in {"SUCC", "EMSG", "EKILL", "EREAD", "EPROC"}
        /\ (alarm' => at' \in {"kill", "spin", "fork", "forked", "wait"})
    BY <1>2 DEF Handle, Interrupted
  <2>2. pc' \in [Server -> Stages] /\ chldPID' \in -1..forked
    BY <1>2 DEF Handle, sigchldHandler, Known
  <2>3. unborn' \in BOOLEAN /\ notTerminated' \in BOOLEAN
    BY <1>2, Zenon DEF Handle, sigchldHandler
  <2>4. locked' \subseteq Signal /\ pending' = {}
    BY <1>2 DEF Handle
  <2>5. UNCHANGED <<completeKill, kind, requests, alarm, message, forked, argsOf, stopped, signals>>
    BY <1>2 DEF Handle
  <2>6. QED
    BY <2>1, <2>2, <2>3, <2>4, <2>5
<1>3. CASE Accept
  BY <1>3, BoundAssumption DEF Accept
<1>4. CASE Alarm
  BY <1>4 DEF Alarm
<1>5. CASE parse
  BY <1>5 DEF parse
<1>6. CASE rTerminate
  BY <1>6 DEF rTerminate
<1>7. CASE killINT
  <2>1. signals' \in [Server -> SUBSET {"INT", "TERM"}]
    <3>1. signals' = signals \/ rKill("INT")
      BY <1>7, Zenon DEF killINT
    <3>2. QED
      BY <3>1 DEF rKill
  <2>2. alarm' \in BOOLEAN /\ at' \in Places /\ ret' \in {ret, "EKILL"}
        /\ (alarm' => at' \in {"kill", "spin", "fork", "forked", "wait"})
    BY <1>7 DEF killINT, Cancel
  <2>3. QED
    BY <1>7, <2>1, <2>2 DEF killINT
<1>8. CASE spinAND
  BY <1>8 DEF spinAND, Terminated, Cancel
<1>9. CASE killTERM
  BY <1>9 DEF killTERM, rKill, Terminated
<1>10. CASE rReceiveMessage
  BY <1>10, BoundAssumption DEF rReceiveMessage
<1>11. CASE setLocks
  BY <1>11 DEF setLocks, Answers
<1>12. CASE fork
  BY <1>12, BoundAssumption DEF fork
<1>13. CASE backupFork
  BY <1>13 DEF backupFork
<1>14. CASE spinAND3
  BY <1>14 DEF spinAND3, Cancel
<1>15. CASE rSendBytes
  BY <1>15 DEF rSendBytes
<1>16. CASE \E s \in Server : ServerStep(s)
  BY <1>16, ServerTypes
<1>17. QED
  BY <1>1, <1>2, <1>3, <1>4, <1>5, <1>6, <1>7, <1>8, <1>9, <1>10, <1>11, <1>12, <1>13, <1>14,
     <1>15, <1>16 DEF Next, Controller

(* Every variable keeps its type, and no alarm outlives its wait.           *)
THEOREM TypeCorrect == Spec => []TypeOK
  BY InitTypes, TypesStep, PTL DEF Spec

-----------------------------------------------------------------------------
(* What a step of a server may change: of its own only, and never so that a *)
(* server that was told to end is not any more.                             *)
LEMMA ServerEffect ==
  ASSUME TypeOK, ServerInv, NEW s \in Server, ServerStep(s)
  PROVE  /\ UNCHANGED <<completeKill, at, kind, requests, ret, chldPID, locked, message,
                        forked, unborn, notTerminated>>
         /\ Alive(s)
         /\ \A t \in Server \ {s} : /\ pc'[t] = pc[t] /\ argsOf'[t] = argsOf[t]
                                    /\ stopped'[t] = stopped[t] /\ signals'[t] = signals[t]
         /\ pc'[s] \notin {"none", "born", "reaped"}
         /\ pc'[s] = "zombie" => signals'[s] = {}
         /\ pc[s] # "born" => argsOf'[s] = argsOf[s]
         /\ stopped[s] => stopped'[s]
         /\ stopped'[s] => pc'[s] \notin {"none", "born", "report", "refused", "bind"}
         /\ signals'[s] # signals[s] => pc'[s] = "zombie" \/ stopped'[s]
         /\ "TERM" \in signals[s] => pc'[s] = "zombie"
<1> USE DEF TypeOK, ServerInv, Goes, Tells, Exit, EINTR, Alive, Quiet
<1>0. UNCHANGED <<completeKill, at, kind, requests, ret, chldPID, locked, message, forked, unborn, notTerminated>>
  BY DEF ServerStep, control, waiting, history, sigintHandler, getMessage, configure, forceOpenListenFD,
         checkTest, accept, startTest, testLoop, moveBlock, sigalrmHandler, exit
<1>1. CASE sigintHandler(s)
  BY <1>0, <1>1 DEF sigintHandler
<1>2. CASE signals[s] = {} /\ getMessage(s)
  BY <1>0, <1>2 DEF getMessage
<1>3. CASE signals[s] = {} /\ configure(s)
  BY <1>0, <1>3 DEF configure
<1>4. CASE signals[s] = {} /\ forceOpenListenFD(s)
  BY <1>0, <1>4 DEF forceOpenListenFD
<1>5. CASE signals[s] = {} /\ checkTest(s)
  BY <1>0, <1>5 DEF checkTest
<1>6. CASE signals[s] = {} /\ accept(s)
  BY <1>0, <1>6 DEF accept
<1>7. CASE signals[s] = {} /\ startTest(s)
  BY <1>0, <1>7 DEF startTest
<1>8. CASE signals[s] = {} /\ testLoop(s)
  BY <1>0, <1>8 DEF testLoop
<1>9. CASE signals[s] = {} /\ moveBlock(s)
  BY <1>0, <1>9 DEF moveBlock
<1>10. CASE signals[s] = {} /\ sigalrmHandler(s)
  BY <1>0, <1>10 DEF sigalrmHandler
<1>11. CASE signals[s] = {} /\ exit(s)
  BY <1>0, <1>11 DEF exit
<1>12. QED
  BY <1>1, <1>2, <1>3, <1>4, <1>5, <1>6, <1>7, <1>8, <1>9, <1>10, <1>11 DEF ServerStep

(* The invariants, kept by every step. First what a server's state implies, *)
LEMMA ServerInvStep ==
  TypeOK /\ ServerInv /\ [Next]_vars => ServerInv'
<1> SUFFICES ASSUME TypeOK, ServerInv, [Next]_vars PROVE ServerInv'
  OBVIOUS
<1> USE DEF TypeOK, ServerInv, Alive, Illegal, control, waiting, servers, history
<1>1. CASE UNCHANGED vars
  BY <1>1 DEF vars
<1>2. CASE Handle
  BY <1>2 DEF Handle, sigchldHandler, Known, Zombies, Interrupted
<1>3. CASE Accept
  BY <1>3 DEF Accept
<1>4. CASE Alarm
  BY <1>4 DEF Alarm
<1>5. CASE parse
  BY <1>5 DEF parse
<1>6. CASE rTerminate
  BY <1>6 DEF rTerminate
<1>7. CASE killINT
  BY <1>7 DEF killINT, rKill, Receives, Killable, Cancel
<1>8. CASE spinAND
  BY <1>8 DEF spinAND, Terminated, GivesUp
<1>9. CASE killTERM
  BY <1>9 DEF killTERM, rKill, Receives, Killable, Terminated
<1>10. CASE rReceiveMessage
  BY <1>10 DEF rReceiveMessage
<1>11. CASE setLocks
  BY <1>11 DEF setLocks, Answers
<1>12. CASE fork
  <2>1. forked + 1 \in Server /\ forked' = forked + 1 /\ pc[forked + 1] = "none"
    BY <1>12, BoundAssumption DEF fork, Server
  <2>2. pc' = [pc EXCEPT ![forked + 1] = "born"]
    BY <1>12 DEF fork
  <2>3. UNCHANGED <<requests, argsOf, stopped, signals>> /\ at = "fork" /\ at' = "forked"
    BY <1>12 DEF fork
  <2>4. \A s \in Server : s > forked' => pc'[s] = "none"
    BY <2>1, <2>2 DEF Server
  <2>5. QED
    BY <2>1, <2>2, <2>3, <2>4
<1>13. CASE backupFork
  BY <1>13 DEF backupFork
<1>14. CASE spinAND3
  BY <1>14 DEF spinAND3, Spins
<1>15. CASE rSendBytes
  BY <1>15 DEF rSendBytes
<1>16. ASSUME NEW s \in Server, ServerStep(s) PROVE ServerInv'
  BY <1>16, ServerEffect
<1>17. QED
  BY <1>1, <1>2, <1>3, <1>4, <1>5, <1>6, <1>7, <1>8, <1>9, <1>10, <1>11, <1>12, <1>13, <1>14, <1>15, <1>16 DEF Next, Controller

-----------------------------------------------------------------------------
(* whose pid the controller holds, *)
LEMMA PidInvStep ==
  TypeOK /\ ServerInv /\ PidInv /\ [Next]_vars => PidInv'
<1> SUFFICES ASSUME TypeOK, ServerInv, PidInv, [Next]_vars PROVE PidInv'
  OBVIOUS
<1> USE DEF TypeOK, PidInv, control, waiting, servers, history
<1>1. CASE UNCHANGED vars
  BY <1>1 DEF vars
<1>2. CASE Handle
  BY <1>2 DEF Handle, sigchldHandler, Known, Zombies, Interrupted
<1>3. CASE Accept
  BY <1>3 DEF Accept
<1>4. CASE Alarm
  BY <1>4 DEF Alarm
<1>5. CASE parse
  BY <1>5 DEF parse
<1>6. CASE rTerminate
  BY <1>6 DEF rTerminate
<1>7. CASE killINT
  BY <1>7 DEF killINT, rKill, Receives, Killable, Cancel
<1>8. CASE spinAND
  BY <1>8 DEF spinAND, Terminated, GivesUp
<1>9. CASE killTERM
  BY <1>9 DEF killTERM, rKill, Receives, Killable, Terminated
<1>10. CASE rReceiveMessage
  BY <1>10 DEF rReceiveMessage
<1>11. CASE setLocks
  BY <1>11 DEF setLocks, Answers
<1>12. CASE fork
  BY <1>12 DEF fork
<1>13. CASE backupFork
  BY <1>13 DEF backupFork
<1>14. CASE spinAND3
  BY <1>14 DEF spinAND3, Spins
<1>15. CASE rSendBytes
  BY <1>15 DEF rSendBytes
<1>16. ASSUME NEW s \in Server, ServerStep(s) PROVE PidInv'
  BY <1>16, ServerEffect
<1>17. QED
  BY <1>1, <1>2, <1>3, <1>4, <1>5, <1>6, <1>7, <1>8, <1>9, <1>10, <1>11, <1>12, <1>13, <1>14, <1>15, <1>16 DEF Next, Controller

(* and that it is not a reaped one's. *)
LEMMA ReadyInvStep ==
  TypeOK /\ ServerInv /\ ReadyInv /\ [Next]_vars => ReadyInv'
<1> SUFFICES ASSUME TypeOK, ServerInv, ReadyInv, [Next]_vars PROVE ReadyInv'
  OBVIOUS
<1> USE DEF TypeOK, ServerInv, ReadyInv, ReadyForTests, Alive, control, waiting, servers, history
<1>1. CASE UNCHANGED vars
  BY <1>1 DEF vars
<1>2. CASE Handle
  <2>1. CASE "CHLD" \notin pending
    BY <1>2, <2>1, Zenon DEF Handle, Interrupted
  <2>2. CASE "CHLD" \in pending
    <3> SUFFICES ASSUME ~unborn' PROVE ReadyInv'
      BY Zenon
    <3>1. ~unborn /\ ~(at = "forked" /\ forked \in Zombies)
      BY <1>2, <2>2, Zenon DEF Handle, sigchldHandler
    <3>2. \A s \in Server : pc'[s] = "reaped" => pc[s] = "reaped" \/ s \in Zombies
      BY <1>2, <2>2 DEF Handle, sigchldHandler
    <3>3. chldPID' = IF chldPID \in Zombies THEN -1 ELSE chldPID
      BY <1>2, <2>2 DEF Handle, sigchldHandler, Known
    <3>4. (at' = "forked" => at = "forked") /\ forked' = forked
      BY <1>2 DEF Handle, Interrupted
    <3>5. \A n \in 1..forked : n \in Server
      BY BoundAssumption DEF Server
    <3>6. chldPID' > 0 => pc'[chldPID'] # "reaped"
      BY <3>1, <3>2, <3>3, <3>5
    <3>7. at' = "forked" => pc'[forked'] # "reaped"
      BY <3>1, <3>2, <3>4, <3>5
    <3>8. QED
      BY <3>6, <3>7
  <2>3. QED
    BY <2>1, <2>2
<1>3. CASE Accept
  BY <1>3 DEF Accept
<1>4. CASE Alarm
  BY <1>4 DEF Alarm
<1>5. CASE parse
  BY <1>5 DEF parse
<1>6. CASE rTerminate
  BY <1>6 DEF rTerminate
<1>7. CASE killINT
  BY <1>7 DEF killINT, rKill, Receives, Killable, Cancel
<1>8. CASE spinAND
  BY <1>8 DEF spinAND, Terminated, GivesUp
<1>9. CASE killTERM
  BY <1>9 DEF killTERM, rKill, Receives, Killable, Terminated
<1>10. CASE rReceiveMessage
  BY <1>10 DEF rReceiveMessage
<1>11. CASE setLocks
  BY <1>11 DEF setLocks, Answers
<1>12. CASE fork
  <2>1. forked + 1 \in Server /\ forked' = forked + 1
    BY <1>12, BoundAssumption DEF fork, Server
  <2>2. pc' = [pc EXCEPT ![forked + 1] = "born"] /\ UNCHANGED <<chldPID, unborn>>
    BY <1>12 DEF fork
  <2>3. chldPID' > 0 => pc'[chldPID'] = pc[chldPID]
    BY <2>1, <2>2 DEF Server
  <2>4. pc'[forked'] = "born"
    BY <2>1, <2>2
  <2>5. QED
    BY <2>2, <2>3, <2>4
<1>13. CASE backupFork
  BY <1>13 DEF backupFork
<1>14. CASE spinAND3
  BY <1>14 DEF spinAND3, Spins
<1>15. CASE rSendBytes
  BY <1>15 DEF rSendBytes
<1>16. ASSUME NEW s \in Server, ServerStep(s) PROVE ReadyInv'
  <2>1. UNCHANGED <<chldPID, at, forked, unborn>>
    BY <1>16, ServerEffect, Zenon
  <2>2. \A t \in Server : pc'[t] = "reaped" => pc[t] = "reaped"
    BY <1>16, ServerEffect
  <2>3. \A n \in 1..forked : n \in Server
    BY BoundAssumption DEF Server
  <2>4. QED
    BY <2>1, <2>2, <2>3
<1>17. QED
  BY <1>1, <1>2, <1>3, <1>4, <1>5, <1>6, <1>7, <1>8, <1>9, <1>10, <1>11, <1>12, <1>13, <1>14, <1>15, <1>16 DEF Next, Controller

(* What kill changes: no server loses a signal, *)
LEMMA KillINTEffect ==
  TypeOK /\ rKill("INT") => \A s \in Server : signals[s] \subseteq signals'[s]
  BY DEF rKill, TypeOK

LEMMA KillTERMEffect ==
  TypeOK /\ rKill("TERM") => \A s \in Server : signals[s] \subseteq signals'[s]
  BY DEF rKill, TypeOK

(* and SIGTERM is pending at those that it reaches. *)
LEMMA KillTERMReaches ==
  TypeOK /\ rKill("TERM") =>
    \A s \in Server : Alive(s) /\ chldPID \in {-1, s} => "TERM" \in signals'[s]
  BY DEF rKill, TypeOK, Receives

(* Servers that have been replaced have been told to end: kill reaches them *)
(* as long as chldPID is theirs, or else they have ended.                   *)
LEMMA ToldInvStep ==
  TypeOK /\ ServerInv /\ PidInv /\ ToldInv /\ [Next]_vars => ToldInv'
<1> SUFFICES ASSUME TypeOK, ServerInv, PidInv, ToldInv, [Next]_vars PROVE ToldInv'
  OBVIOUS
<1> USE DEF TypeOK, ServerInv, PidInv, ToldInv, Told, Alive, Server, control, waiting, servers, history
<1>1. CASE UNCHANGED vars
  BY <1>1 DEF vars
<1>2. CASE Handle
  <2>1. UNCHANGED <<forked, signals, stopped>> /\ (at' # at => at' \in {"accept", "answer"} /\ at # "forked")
    BY <1>2 DEF Handle, Interrupted
  <2>2. \A s \in Server : pc'[s] = pc[s] \/ (s \in Zombies /\ pc'[s] = "reaped")
    BY <1>2 DEF Handle, sigchldHandler
  <2>3. chldPID' = chldPID \/ (chldPID \in Zombies /\ chldPID' = -1)
    BY <1>2 DEF Handle, sigchldHandler, Known
  <2>4. \A s \in Server : Told(s) => Told(s)'
    BY <2>1, <2>2 DEF Zombies
  <2>5. at' # "forked" /\ chldPID' <= 0 /\ forked > 0 => Told(forked)
    <3> SUFFICES ASSUME at' # "forked", chldPID' <= 0, forked > 0 PROVE Told(forked)
      OBVIOUS
    <3>1. at # "forked"
      BY <2>1
    <3>2. CASE chldPID \in Zombies
      BY <3>1, <3>2 DEF Zombies
    <3>3. QED
      BY <2>3, <3>1, <3>2
  <2>6. QED
    BY <2>1, <2>4, <2>5
<1>3. CASE Accept
  BY <1>3 DEF Accept
<1>4. CASE Alarm
  BY <1>4 DEF Alarm
<1>5. CASE parse
  BY <1>5 DEF parse
<1>6. CASE rTerminate
  BY <1>6 DEF rTerminate
<1>7. CASE killINT
  <2>1. UNCHANGED <<forked, chldPID, pc, stopped>> /\ at' # "forked"
    BY <1>7 DEF killINT
  <2>2. \A s \in Server : signals[s] # {} => signals'[s] # {}
    <3>1. signals' = signals \/ rKill("INT")
      BY <1>7, Zenon DEF killINT
    <3>2. CASE rKill("INT")
      BY <3>2, KillINTEffect
    <3>3. QED
      BY <3>1, <3>2
  <2>3. CASE Killable
    <3>1. \A s \in Server : chldPID \in {-1, s} => Told(s)'
      BY <1>7, <2>1, <2>3 DEF killINT, rKill, Receives
    <3>2. forked > 0 => forked \in Server /\ chldPID \in {-1, forked}
      BY <1>7, <2>3, BoundAssumption DEF Killable, killINT, killTERM
    <3>4. forked > 0 => Told(forked)'
      BY <2>1, <3>1, <3>2
    <3>3. QED
      BY <2>1, <2>2, <3>4
  <2>4. CASE ~Killable
    BY <1>7, <2>1, <2>2, <2>4 DEF killINT
  <2>5. QED
    BY <2>3, <2>4
<1>8. CASE spinAND
  BY <1>8 DEF spinAND, Terminated, GivesUp
<1>9. CASE killTERM
  <2>1. UNCHANGED <<forked, chldPID, pc, stopped>> /\ at' # "forked"
    BY <1>9 DEF killTERM, Terminated
  <2>2. \A s \in Server : signals[s] # {} => signals'[s] # {}
    <3>1. signals' = signals \/ rKill("TERM")
      BY <1>9, Zenon DEF killTERM
    <3>2. CASE rKill("TERM")
      BY <3>2, KillTERMEffect
    <3>3. QED
      BY <3>1, <3>2
  <2>3. CASE Killable
    <3>1. \A s \in Server : chldPID \in {-1, s} => Told(s)'
      BY <1>9, <2>1, <2>3 DEF killTERM, Terminated, rKill, Receives
    <3>2. forked > 0 => forked \in Server /\ chldPID \in {-1, forked}
      BY <1>9, <2>3, BoundAssumption DEF Killable, killINT, killTERM
    <3>4. forked > 0 => Told(forked)'
      BY <2>1, <3>1, <3>2
    <3>3. QED
      BY <2>1, <2>2, <3>4
  <2>4. CASE ~Killable
    BY <1>9, <2>1, <2>2, <2>4 DEF killTERM, Terminated
  <2>5. QED
    BY <2>3, <2>4
<1>10. CASE rReceiveMessage
  BY <1>10 DEF rReceiveMessage
<1>11. CASE setLocks
  BY <1>11 DEF setLocks, Answers
<1>12. CASE fork
  BY <1>12 DEF fork
<1>13. CASE backupFork
  BY <1>13 DEF backupFork
<1>14. CASE spinAND3
  BY <1>14 DEF spinAND3, Spins
<1>15. CASE rSendBytes
  BY <1>15 DEF rSendBytes
<1>16. ASSUME NEW s \in Server, ServerStep(s) PROVE ToldInv'
  BY <1>16, ServerEffect
<1>17. QED
  BY <1>1, <1>2, <1>3, <1>4, <1>5, <1>6, <1>7, <1>8, <1>9, <1>10, <1>11, <1>12, <1>13, <1>14, <1>15, <1>16 DEF Next, Controller

-----------------------------------------------------------------------------
(* The option does not change, and what has happened has happened. *)
LEMMA OptionKept ==
  [Next]_vars => completeKill' = completeKill /\ (notTerminated => notTerminated')
<1> SUFFICES ASSUME [Next]_vars
             PROVE  completeKill' = completeKill /\ (notTerminated => notTerminated')
  OBVIOUS
<1> USE DEF control, history
<1>1. CASE UNCHANGED vars
  BY <1>1, Zenon DEF vars
<1>2. CASE Handle
  BY <1>2, Zenon DEF Handle, sigchldHandler
<1>3. CASE Accept
  BY <1>3, Zenon DEF Accept
<1>4. CASE Alarm
  BY <1>4, Zenon DEF Alarm
<1>5. CASE parse
  BY <1>5, Zenon DEF parse
<1>6. CASE rTerminate
  BY <1>6, Zenon DEF rTerminate
<1>7. CASE killINT
  BY <1>7, Zenon DEF killINT
<1>8. CASE spinAND
  BY <1>8, Zenon DEF spinAND
<1>9. CASE killTERM
  BY <1>9, Zenon DEF killTERM
<1>10. CASE rReceiveMessage
  BY <1>10, Zenon DEF rReceiveMessage
<1>11. CASE setLocks
  BY <1>11, Zenon DEF setLocks
<1>12. CASE fork
  BY <1>12, Zenon DEF fork
<1>13. CASE backupFork
  BY <1>13, Zenon DEF backupFork
<1>14. CASE spinAND3
  BY <1>14, Zenon DEF spinAND3
<1>15. CASE rSendBytes
  BY <1>15, Zenon DEF rSendBytes
<1>16. ASSUME NEW s \in Server, ServerStep(s)
       PROVE  completeKill' = completeKill /\ (notTerminated => notTerminated')
  <2>1. UNCHANGED <<control, waiting, message, history>>
    BY <1>16 DEF ServerStep
  <2>2. UNCHANGED completeKill
    BY <2>1, Zenon
  <2>3. UNCHANGED notTerminated
    BY <2>1, Zenon
  <2>4. QED
    BY <2>2, <2>3, Zenon
<1>17. QED
  BY <1>1, <1>2, <1>3, <1>4, <1>5, <1>6, <1>7, <1>8, <1>9, <1>10, <1>11, <1>12, <1>13, <1>14, <1>15, <1>16, Zenon DEF Next, Controller

(* With -k SIGTERM has reached all servers but the newest. *)
LEMMA FreeInvStep ==
  TypeOK /\ ServerInv /\ PidInv /\ FreeInv /\ [Next]_vars => FreeInv'
<1> SUFFICES ASSUME TypeOK, ServerInv, PidInv, FreeInv, [Next]_vars, completeKill', ~notTerminated'
             PROVE  NoneFree'
  BY Zenon DEF FreeInv
<1>0. completeKill /\ NoneFree
  BY OptionKept, Zenon DEF FreeInv
<1>18. \A n \in 1..forked : n \in Server
  BY BoundAssumption DEF Server, TypeOK
<1> HIDE DEF FreeInv
<1> USE <1>0 DEF TypeOK, ServerInv, PidInv, NoneFree, Free, Alive, control, waiting, servers, history
<1>1. CASE UNCHANGED vars
  BY <1>1 DEF vars
<1>2. CASE Handle
  <2>1. UNCHANGED <<forked, signals>> /\ (at' # at => at' \in {"accept", "answer"} /\ at # "forked")
        /\ locked' = locked \ pending
    BY <1>2 DEF Handle, Interrupted
  <2>2. \A s \in Server : pc'[s] = pc[s] \/ (s \in Zombies /\ pc'[s] = "reaped")
    BY <1>2 DEF Handle, sigchldHandler
  <2>3. \A s \in Server : Free(s)' => Free(s)
    BY <2>1, <2>2 DEF Zombies
  <2>4. CASE "CHLD" \notin pending
    <3>1. UNCHANGED <<pc, chldPID>>
      BY <1>2, <2>4 DEF Handle
    <3>2. QED
      BY <2>1, <2>4, <3>1
  <2>5. CASE "CHLD" \in pending
    <3>1. chldPID' = -1
      BY <1>2, <2>5, Zenon DEF Handle, sigchldHandler
    <3>2. chldPID = -1 \/ chldPID \in Zombies
      BY <1>2, <2>5, <3>1 DEF Handle, sigchldHandler, Known
    <3>3. at # "forked" /\ forked > 0 => ~Free(forked)
      BY <3>2 DEF Zombies, Server
    <3>4. QED
      BY <2>1, <2>3, <3>1, <3>3, <1>18
  <2>6. QED
    BY <2>4, <2>5
<1>3. CASE Accept
  BY <1>3 DEF Accept
<1>4. CASE Alarm
  BY <1>4 DEF Alarm
<1>5. CASE parse
  BY <1>5 DEF parse
<1>6. CASE rTerminate
  BY <1>6 DEF rTerminate
<1>7. CASE killINT
  <2>1. UNCHANGED <<forked, chldPID, pc, locked>> /\ at = "kill" /\ at' \in {"spin", "answer"}
    BY <1>7 DEF killINT
  <2>2. \A s \in Server : Free(s)' => Free(s)
    <3>1. signals' = signals \/ rKill("INT")
      BY <1>7, Zenon DEF killINT
    <3>2. CASE rKill("INT")
      BY <2>1, <3>2, KillINTEffect
    <3>3. QED
      BY <2>1, <3>1, <3>2
  <2>3. QED
    BY <2>1, <2>2, <1>18
<1>8. CASE spinAND
  BY <1>8 DEF spinAND, Terminated, GivesUp
<1>9. CASE killTERM
  <2>1. UNCHANGED <<forked, chldPID, pc, locked>> /\ at = "killAgain" /\ at' \in {"receive", "answer"}
    BY <1>9 DEF killTERM, Terminated
  <2>2. CASE Killable
    <3>1. rKill("TERM")
      BY <1>9, <2>2 DEF killTERM
    <3>2. \A s \in Server : (Free(s)' => Free(s)) /\ (chldPID \in {-1, s} => ~Free(s)')
      BY <2>1, <3>1, KillTERMEffect, KillTERMReaches
    <3>3. forked > 0 => chldPID \in {-1, forked}
      BY <2>1, <2>2 DEF Killable, Server
    <3>4. QED
      BY <2>1, <3>2, <3>3, <1>18
  <2>3. CASE ~Killable
    BY <1>9, <2>1, <2>3 DEF killTERM
  <2>4. QED
    BY <2>2, <2>3
<1>10. CASE rReceiveMessage
  BY <1>10 DEF rReceiveMessage
<1>11. CASE setLocks
  BY <1>11 DEF setLocks, Answers
<1>12. CASE fork
  <2>1. forked + 1 \in Server /\ forked' = forked + 1 /\ at = "fork" /\ at' = "forked"
    BY <1>12, BoundAssumption DEF fork, Server
  <2>2. pc' = [pc EXCEPT ![forked + 1] = "born"] /\ UNCHANGED signals
    BY <1>12 DEF fork
  <2>3. \A s \in Server : s < forked' => s # forked + 1 /\ (s < forked \/ s = forked)
    BY <2>1 DEF Server
  <2>4. \A s \in Server : s < forked' => ~Free(s)
    BY <2>1, <2>3 DEF Server
  <2>5. \A s \in Server : s < forked' => ~Free(s)'
    BY <2>2, <2>3, <2>4
  <2>6. QED
    BY <2>1, <2>5
<1>13. CASE backupFork
  BY <1>13 DEF backupFork
<1>14. CASE spinAND3
  BY <1>14 DEF spinAND3, Spins
<1>15. CASE rSendBytes
  BY <1>15 DEF rSendBytes
<1>16. ASSUME NEW s \in Server, ServerStep(s) PROVE NoneFree'
  <2>1. UNCHANGED <<at, chldPID, locked, forked>>
    BY <1>16, ServerEffect, Zenon
  <2>2. \A t \in Server : Free(t)' => Free(t)
    BY <1>16, ServerEffect
  <2>3. QED
    BY <2>1, <2>2, <1>18
<1>17. QED
  BY <1>1, <1>2, <1>3, <1>4, <1>5, <1>6, <1>7, <1>8, <1>9, <1>10, <1>11, <1>12, <1>13, <1>14,
     <1>15, <1>16 DEF Next, Controller

-----------------------------------------------------------------------------
(* The controller gets SIGUSR1 from a server only that has read a legal     *)
(* message; and what a server has read it has read from the shared memory.  *)
LEMMA ServerTells ==
  ASSUME TypeOK, NEW s \in Server, ServerStep(s)
  PROVE  /\ "USR1" \in pending' =>
              \/ "USR1" \in pending
              \/ pc[s] = "report" /\ argsOf[s] # Illegal /\ signals[s] = {}
         /\ pc'[s] = "report" => argsOf'[s] = message
<1> USE DEF TypeOK, Goes, Tells, Exit, EINTR, Quiet
<1>1. CASE sigintHandler(s)
  BY <1>1 DEF sigintHandler
<1>2. CASE signals[s] = {} /\ getMessage(s)
  BY <1>2 DEF getMessage
<1>3. CASE signals[s] = {} /\ configure(s)
  BY <1>3 DEF configure
<1>4. CASE signals[s] = {} /\ forceOpenListenFD(s)
  BY <1>4 DEF forceOpenListenFD
<1>5. CASE signals[s] = {} /\ checkTest(s)
  BY <1>5 DEF checkTest
<1>6. CASE signals[s] = {} /\ accept(s)
  BY <1>6 DEF accept
<1>7. CASE signals[s] = {} /\ startTest(s)
  BY <1>7 DEF startTest
<1>8. CASE signals[s] = {} /\ testLoop(s)
  BY <1>8 DEF testLoop
<1>9. CASE signals[s] = {} /\ moveBlock(s)
  BY <1>9 DEF moveBlock
<1>10. CASE signals[s] = {} /\ sigalrmHandler(s)
  BY <1>10 DEF sigalrmHandler
<1>11. CASE signals[s] = {} /\ exit(s)
  BY <1>11 DEF exit
<1>12. QED
  BY <1>1, <1>2, <1>3, <1>4, <1>5, <1>6, <1>7, <1>8, <1>9, <1>10, <1>11 DEF ServerStep

(* The signal that ends the wait is the newest server's, of this request. *)
LEMMA AskInvStep ==
  TypeOK /\ ServerInv /\ ToldInv /\ AskInv /\ [Next]_vars => AskInv'
<1> SUFFICES ASSUME TypeOK, ServerInv, ToldInv, AskInv, [Next]_vars PROVE AskInv'
  OBVIOUS
<1>18. \A n \in 1..forked : n \in Server
  BY BoundAssumption DEF Server, TypeOK
<1>19. \A s \in Server : s > 0
  BY DEF Server
<1> USE <1>18 DEF TypeOK, ServerInv, AskInv, ConfiguredAsAsked, Alive, Illegal,
              control, waiting, servers, history
<1>1. CASE UNCHANGED vars
  BY <1>1 DEF vars
<1>2. CASE Handle
  <2>1. /\ UNCHANGED <<kind, requests, message, forked, argsOf, signals>>
        /\ locked' \ pending' = locked \ pending
    BY <1>2 DEF Handle
  <2>2. \/ at' = at /\ ret' = ret
        \/ at' = "accept"
        \/ at' = "answer" /\ ret' = "EREAD"
    BY <1>2 DEF Handle, Interrupted
  <2>3. \A s \in Server : pc'[s] = "report" => pc[s] = "report"
    BY <1>2 DEF Handle, sigchldHandler
  <2>4. QED
    BY <2>1, <2>2, <2>3
<1>3. CASE Accept
  BY <1>3 DEF Accept
<1>4. CASE Alarm
  BY <1>4 DEF Alarm
<1>5. CASE parse
  BY <1>5 DEF parse
<1>6. CASE rTerminate
  BY <1>6 DEF rTerminate
<1>7. CASE killINT
  BY <1>7 DEF killINT, rKill, Receives, Killable, Cancel
<1>8. CASE spinAND
  BY <1>8 DEF spinAND, Terminated, GivesUp
<1>9. CASE killTERM
  BY <1>9 DEF killTERM, rKill, Receives, Killable, Terminated
<1>10. CASE rReceiveMessage
  BY <1>10 DEF rReceiveMessage
<1>11. CASE pending = {} /\ setLocks
  BY <1>11 DEF setLocks, Answers
<1>12. CASE fork
  <2>1. forked + 1 \in Server /\ forked' = forked + 1
    BY <1>12, BoundAssumption DEF fork, Server
  <2>2. pc'[forked'] = "born"
    BY <1>12, <2>1 DEF fork
  <2>3. UNCHANGED <<locked, pending, message, requests>> /\ at = "fork" /\ at' = "forked"
    BY <1>12 DEF fork
  <2>4. QED
    BY <2>2, <2>3
<1>13. CASE backupFork
  <2>1. at = "fork" /\ forked > 0 /\ pc[forked] = "report" => signals[forked] # {}
    BY DEF ToldInv, Told
  <2>2. QED
    BY <1>13, <2>1 DEF backupFork
<1>14. CASE spinAND3
  BY <1>14 DEF spinAND3, Spins
<1>15. CASE rSendBytes
  BY <1>15 DEF rSendBytes
<1>16. ASSUME NEW s \in Server, ServerStep(s) PROVE AskInv'
  <2>1. UNCHANGED <<at, kind, requests, ret, locked, message, forked>>
    BY <1>16, ServerEffect, Zenon
  <2>2. forked > 0 /\ argsOf[forked] = requests /\ at # "accept" => argsOf'[forked] = requests
    BY <1>16, ServerEffect
  <2>3. "USR1" \in pending' /\ at \in {"fork", "forked", "wait"} =>
          \/ "USR1" \in pending
          \/ at # "fork" /\ s = forked /\ argsOf[s] # Illegal /\ argsOf[s] = message
    <3> SUFFICES ASSUME pc[s] = "report", argsOf[s] # Illegal, signals[s] = {},
                        at \in {"fork", "forked", "wait"}
                 PROVE  at # "fork" /\ s = forked /\ argsOf[s] = message
      BY <1>16, ServerTells
    <3>1. ~Told(s)
      BY DEF Told
    <3>2. s = forked /\ at # "fork"
      BY <3>1 DEF ToldInv, Server
    <3>3. QED
      BY <3>2, <1>19
  <2>4. forked > 0 /\ pc'[forked] = "report" /\ signals'[forked] = {} /\ at \in {"forked", "wait"}
          => argsOf'[forked] = message
    BY <1>16, ServerEffect, ServerTells
  <2>5. at = "fork" => "USR1" \notin pending'
    BY <2>3
  <2>6. at \in {"forked", "wait"} =>
          \/ "USR1" \in locked \ pending'
          \/ forked > 0 /\ argsOf'[forked] = requests
    BY <2>2, <2>3, <1>19
  <2>7. QED
    BY <2>1, <2>2, <2>4, <2>5, <2>6, <1>19
<1>17. QED
  BY <1>1, <1>2, <1>3, <1>4, <1>5, <1>6, <1>7, <1>8, <1>9, <1>10, <1>11, <1>12, <1>13, <1>14,
     <1>15, <1>16 DEF Next, Controller

-----------------------------------------------------------------------------
Inv == TypeOK /\ ServerInv /\ PidInv /\ ReadyInv /\ ToldInv /\ FreeInv /\ AskInv

(* The inductive invariant. *)
LEMMA InitInv == Init => Inv
<1> SUFFICES ASSUME Init PROVE Inv
  OBVIOUS
<1>1. TypeOK
  BY InitTypes
<1>2. \A s \in Server : pc[s] = "none" /\ ~stopped[s] /\ signals[s] = {} /\ argsOf[s] = Illegal
  BY Zenon DEF Init
<1>3. at = "accept" /\ chldPID = 0 /\ forked = 0
  BY DEF Init
<1>4. ServerInv /\ PidInv /\ ReadyInv /\ ToldInv /\ AskInv
  BY <1>2, <1>3, BoundAssumption
     DEF ServerInv, PidInv, ReadyInv, ReadyForTests, ToldInv, Told, AskInv, ConfiguredAsAsked,
         Alive, Server
<1>5. NoneFree
  BY <1>2, <1>3 DEF NoneFree, Free, Alive, Server
<1>6. QED
  BY <1>1, <1>4, <1>5, Zenon DEF Inv, FreeInv

LEMMA InvStep == Inv /\ [Next]_vars => Inv'
  BY TypesStep, ServerInvStep, PidInvStep, ReadyInvStep, ToldInvStep, FreeInvStep, AskInvStep,
     Zenon DEF Inv

(* The controller never holds the pid of a process that it has reaped,      *)
(* unless one ended before its own fork returned.                           *)
THEOREM ReadyTests == Spec => []ReadyForTests
<1>1. Inv => ReadyForTests
  BY DEF Inv, ReadyInv
<1>2. QED
  BY InitInv, InvStep, <1>1, PTL DEF Spec

(* A client that is told SUCC for CONF is told so about a server that has   *)
(* taken this client's arguments.                                           *)
THEOREM AnsweredAsAsked == Spec => []ConfiguredAsAsked
<1>1. Inv => ConfiguredAsAsked
  BY DEF Inv, AskInv
<1>2. QED
  BY InitInv, InvStep, <1>1, PTL DEF Spec

(* With -k at most one server runs that SIGTERM has not been sent to.       *)
THEOREM OneAtATime == Spec => []OneServer
<1>1. Inv => OneServer
  <2> SUFFICES ASSUME Inv, completeKill /\ ~notTerminated
               PROVE  Cardinality({s \in Server : Free(s)}) <= 1
    BY Zenon DEF OneServer, Free
  <2>1. NoneFree /\ TypeOK /\ ServerInv
    BY Zenon DEF Inv, FreeInv
  <2>2. \A s \in Server : Free(s) => s = forked
    BY <2>1 DEF NoneFree, TypeOK, ServerInv, Free, Alive, Server
  <2>3. {s \in Server : Free(s)} \subseteq {forked}
    BY <2>2
  <2>4. IsFiniteSet({forked}) /\ Cardinality({forked}) = 1
    BY FS_Singleton
  <2>5. /\ Cardinality({s \in Server : Free(s)}) <= Cardinality({forked})
        /\ IsFiniteSet({s \in Server : Free(s)})
    BY <2>3, <2>4, FS_Subset
  <2>6. QED
    BY <2>4, <2>5
<1>2. QED
  BY InitInv, InvStep, <1>1, PTL DEF Spec

(* A server begins a test only if nobody has told it to end. *)
LEMMA BeginsUntold ==
  ASSUME TypeOK, NEW s \in Server, ServerStep(s), pc[s] = "accepted", pc'[s] \in {"loop", "call"}
  PROVE  signals[s] = {} /\ ~stopped[s]
<1> USE DEF TypeOK, Goes, Tells, Exit, EINTR, Quiet
<1>1. CASE sigintHandler(s)
  BY <1>1 DEF sigintHandler
<1>2. CASE signals[s] = {} /\ startTest(s)
  BY <1>2 DEF startTest, Begins, continueTest
<1>3. QED
  BY <1>1, <1>2 DEF ServerStep, getMessage, configure, forceOpenListenFD, checkTest, accept,
     testLoop, moveBlock, sigalrmHandler, exit

(* No test begins on a server whose successor has been forked.              *)
THEOREM NoTestOnOld == Spec => NoStaleTest
<1>1. Inv /\ [Next]_vars =>
        [\A s \in Server : pc[s] = "accepted" /\ pc'[s] \in {"loop", "call"} => s = forked]_vars
  <2> SUFFICES ASSUME Inv, [Next]_vars, NEW s \in Server, pc[s] = "accepted",
                      pc'[s] \in {"loop", "call"}
               PROVE  s = forked
    BY Zenon
  <2> USE DEF Inv, TypeOK, control, waiting, servers, history
  <2>1. CASE \E t \in Server : ServerStep(t)
    <3>1. ServerStep(s)
      BY <2>1, ServerEffect
    <3>2. ~Told(s) /\ pc[s] # "none"
      BY <3>1, BeginsUntold DEF Told, Alive
    <3>3. s >= forked /\ s <= forked
      BY <3>2 DEF ToldInv, ServerInv, Server
    <3>4. QED
      BY <3>3 DEF Server
  <2>2. CASE Handle
    BY <2>2 DEF Handle, sigchldHandler
  <2>3. CASE fork
    BY <2>3 DEF fork
  <2>4. CASE UNCHANGED vars
    BY <2>4 DEF vars
  <2>5. QED
    BY <2>1, <2>2, <2>3, <2>4 DEF Next, Controller, Accept, Alarm, parse, rTerminate, killINT,
       spinAND, killTERM, rReceiveMessage, setLocks, backupFork, spinAND3, rSendBytes
<1>2. QED
  BY InitInv, InvStep, <1>1, PTL DEF Spec, NoStaleTest
=============================================================================
