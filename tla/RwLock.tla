------------------------------- MODULE RwLock -------------------------------
(* The lock of the routing table (mylock.cpp): two POSIX semaphores and a   *)
(* count of readers, as the threads of one host use it.                     *)
(*                                                                          *)
(* sendIPPacket reads the table, and reaches it with kernel_mutex held from *)
(* the socket calls and recvTCPPacket, without it from forward; sendDVR     *)
(* reads and updateDVR and recvDVR write without it.  Each semaphore        *)
(* operation is a step of its own.                                          *)
(*                                                                          *)
(* The definitions ending in a fault's name (FirstInLate ...) are the next  *)
(* one with a slip in it, as in TcpConnection.                              *)
EXTENDS Integers, FiniteSets

CONSTANTS
  Thread,     \* the threads of the host
  Senders,    \* those that send with kernel_mutex held: applications, devices
  Forwarders, \* those that read without it: devices, the routing thread
  Updaters,   \* those that write the table: devices, the routing thread
  MaxCalls    \* bound: how often each thread goes for the table

ASSUME LockAssumption == /\ IsFiniteSet(Thread)
                         /\ Senders \subseteq Thread
                         /\ Forwarders \subseteq Thread
                         /\ Updaters \subseteq Thread
                         /\ MaxCalls \in Nat

VARIABLES
  mymutex, noreader,  \* semaphores
  nreader,            \* readers in, or on their way in
  kernel,             \* the holder of kernel_mutex, as a set
  pc,                 \* where each thread is
  calls               \* how often it has set out

vars == <<mymutex, noreader, nreader, kernel, pc, calls>>

Init == /\ mymutex = 1
        /\ noreader = 1
        /\ nreader = 0
        /\ kernel = {}
        /\ pc = [t \in Thread |-> "idle"]
        /\ calls = [t \in Thread |-> 0]

Goto(t, from, to) == pc[t] = from /\ pc' = [pc EXCEPT ![t] = to]

(* sem_wait and sem_post *)
Waits(sem, semNext) == sem > 0 /\ semNext = sem - 1
Posts(sem, semNext) == semNext = sem + 1

-----------------------------------------------------------------------------
SetOut(t) ==
  /\ calls[t] < MaxCalls
  /\ \/ t \in Senders    /\ Goto(t, "idle", "wantKernel")
     \/ t \in Forwarders /\ Goto(t, "idle", "wantRead")
     \/ t \in Updaters   /\ Goto(t, "idle", "wantWrite")
  /\ calls' = [calls EXCEPT ![t] = @ + 1]
  /\ UNCHANGED <<mymutex, noreader, nreader, kernel>>

LockKernel(t) == /\ Goto(t, "wantKernel", "wantRead")
                 /\ kernel = {}
                 /\ kernel' = {t}
                 /\ UNCHANGED <<mymutex, noreader, nreader, calls>>

(* ReaderIn *)
FirstInLate(n) == n = 2
FirstIn(n) == n = 1

ReaderIn1(t) == /\ Goto(t, "wantRead", "count")
                /\ Waits(mymutex, mymutex')
                /\ UNCHANGED <<noreader, nreader, kernel, calls>>

ReaderIn2(t) == /\ Goto(t, "count", IF FirstIn(nreader + 1) THEN "first" ELSE "admit")
                /\ nreader' = nreader + 1
                /\ UNCHANGED <<mymutex, noreader, kernel, calls>>

ReaderIn3(t) == /\ Goto(t, "first", "admit")
                /\ Waits(noreader, noreader')
                /\ UNCHANGED <<mymutex, nreader, kernel, calls>>

ReaderIn4(t) == /\ Goto(t, "admit", "reading")
                /\ Posts(mymutex, mymutex')
                /\ UNCHANGED <<noreader, nreader, kernel, calls>>

(* ReaderOut *)
LastOutEarly(n) == n <= 1
LastOutNever(n) == n < 0
LastOut(n) == n = 0

ReaderOut1(t) == /\ Goto(t, "reading", "uncount")
                 /\ Waits(mymutex, mymutex')
                 /\ UNCHANGED <<noreader, nreader, kernel, calls>>

ReaderOut2(t) == /\ Goto(t, "uncount", IF LastOut(nreader - 1) THEN "last" ELSE "release")
                 /\ nreader' = nreader - 1
                 /\ UNCHANGED <<mymutex, noreader, kernel, calls>>

ReaderOut3(t) == /\ Goto(t, "last", "release")
                 /\ Posts(noreader, noreader')
                 /\ UNCHANGED <<mymutex, nreader, kernel, calls>>

ReaderOut4(t) == /\ Goto(t, "release", IF t \in kernel THEN "unlock" ELSE "idle")
                 /\ Posts(mymutex, mymutex')
                 /\ UNCHANGED <<noreader, nreader, kernel, calls>>

UnlockKernel(t) == /\ Goto(t, "unlock", "idle")
                   /\ kernel' = {}
                   /\ UNCHANGED <<mymutex, noreader, nreader, calls>>

WriterIn(t) == /\ Goto(t, "wantWrite", "writing")
               /\ Waits(noreader, noreader')
               /\ UNCHANGED <<mymutex, nreader, kernel, calls>>

WriterOut(t) == /\ Goto(t, "writing", "idle")
                /\ Posts(noreader, noreader')
                /\ UNCHANGED <<mymutex, nreader, kernel, calls>>

Read(t) == \/ ReaderIn1(t)  \/ ReaderIn2(t)  \/ ReaderIn3(t)  \/ ReaderIn4(t)
           \/ ReaderOut1(t) \/ ReaderOut2(t) \/ ReaderOut3(t) \/ ReaderOut4(t)

Proceed(t) == LockKernel(t) \/ Read(t) \/ UnlockKernel(t) \/ WriterIn(t) \/ WriterOut(t)

Next == \E t \in Thread : SetOut(t) \/ Proceed(t)

Spec == Init /\ [][Next]_vars

(* A thread that has set out goes on when it can. *)
FairSpec == Spec /\ \A t \in Thread : WF_vars(Proceed(t))

-----------------------------------------------------------------------------
(* Properties *)

Labels == {"idle", "wantKernel", "wantRead", "count", "first", "admit", "reading",
           "uncount", "last", "release", "unlock", "wantWrite", "writing"}

(* Both semaphores are binary, whoever posts them. *)
TypeOK == /\ mymutex \in {0, 1}
          /\ noreader \in {0, 1}
          /\ nreader \in Nat
          /\ kernel \subseteq Thread
          /\ pc \in [Thread -> Labels]
          /\ calls \in [Thread -> Nat]

At(labels) == {t \in Thread : pc[t] \in labels}

Reading == At({"reading"})
Writing == At({"writing"})

(* The routing table is what TableLock says: read by many or written by     *)
(* one, although the readers hold the writers' semaphore as a group and     *)
(* another reader gives it back than took it (mylock.cpp:17, 23).           *)
Table == INSTANCE TableLock
           WITH readers <- Reading, writers <- Writing
IsTableLock == Table!Spec

(* Whoever goes for the table comes back, although a reader waits for       *)
(* noreader with mymutex, and perhaps kernel_mutex, in hand: no circle of   *)
(* the three locks (mylock.cpp:17), no post lost.                           *)
CallsFinish == \A t \in Thread : pc[t] # "idle" ~> pc[t] = "idle"

(* The invariant of the proof: mymutex is held by one thread; nreader       *)
(* counts the readers; noreader is held by the readers or by the writer.    *)
InMutex == At({"count", "first", "admit", "uncount", "last", "release"})
Counted == At({"first", "admit", "reading", "uncount"})
ReadersIn == At({"admit", "reading", "uncount", "last"})
LastReader == At({"last"})

Inv ==
  /\ TypeOK
  /\ \A t, u \in InMutex : t = u
  /\ mymutex = 1 => InMutex = {}
  /\ nreader = Cardinality(Counted)
  /\ Writing # {} => ReadersIn = {}
  /\ \A t, u \in Writing : t = u
  /\ noreader = 1 => ReadersIn = {} /\ Writing = {}
  /\ LastReader # {} => nreader = 0
=============================================================================
