--------------------------- MODULE TcpConnection ---------------------------
(* One TCP connection after its handshake: the two socket_t of its ends,    *)
(* the segments between them, and the application threads that call         *)
(* read, write and close on them.                                           *)
(*                                                                          *)
(* A call runs under kernel_mutex (socket.cpp:20) and gives it up only in   *)
(* kernel_cv.wait, so a step of this module is what happens between two     *)
(* acquisitions of that mutex: a call up to its first wait or its return,   *)
(* one round of a wait loop, or one run of recvTCPPacket.  TimerThread      *)
(* notifies kernel_cv every 50 ms whatever happens, so a waiting thread may *)
(* make a round at any time; whether more than rGAP has passed since the    *)
(* last transmission is left open.                                          *)
(*                                                                          *)
(* A definition that nothing uses and that stands just before the one it    *)
(* resembles (CountedNever, before Counted) is that definition with a slip  *)
(* a programmer could make; put in its place, it breaks a property below.   *)
EXTENDS Integers, Sequences, FiniteSets

CONSTANTS
  Thread,     \* application threads, on both hosts
  Host,       \* the side of the connection each thread works on
  Writers,    \* the threads that may call write,
  Readers,    \*   read
  Closers,    \*   and close
  MSS,        \* bytes per segment: 1400
  BufSize,    \* SOCK_BUFFER_SIZE
  MagicNum,   \* MAGIC_NUM, the wake-ups or retransmissions of a call
  WriteSizes, ReadSizes,  \* sizes the applications ask for
  MaxBytes,   \* bound: bytes each thread writes
  Retry,      \* an application offers again what a write did not take
  Dup,        \* TRUE: the network keeps every segment, so that it may be
              \*   delivered late, again, or never
              \* FALSE: each segment is delivered at most once
  MaxLoss,    \* bound on the segments lost when Dup = FALSE
  Patient     \* TRUE: a call retransmits only when nothing is in flight
              \*   (rGAP longer than a round trip)

Side == {0, 1}             \* 0 called connect, 1 called accept
Peer(s) == 1 - s

ASSUME ThreadAssumption == /\ Host \in [Thread -> Side]
                           /\ Writers \subseteq Thread
                           /\ Readers \subseteq Thread
                           /\ Closers \subseteq Thread
ASSUME SizeAssumption == /\ MSS \in Nat \ {0}
                         /\ BufSize \in Nat \ {0}
                         /\ MagicNum \in Nat /\ MagicNum >= 2
                         /\ WriteSizes \subseteq Nat \ {0}
                         /\ ReadSizes \subseteq Nat \ {0}
                         /\ MaxBytes \in [Thread -> Nat]
                         /\ Retry \in BOOLEAN
ASSUME NetAssumption == Dup \in BOOLEAN /\ Patient \in BOOLEAN /\ MaxLoss \in Nat

VARIABLES
  state,    \* socket_t.state of each end
  readp,    \* position of the next byte read hands out
  szep,     \* position of the next byte expected from the peer
  writep,   \* position of the next byte to write: what the peer has acked
  buffer,   \* the ring the bytes taken are in until read hands them out
  stream,   \* the bytes taken so far, positions 1 .. szep - 1
  handed,   \*   and those that read has handed out
  open,     \* the socket is in socket_pool
  ARQflag,  \* the host owes an answer to a segment out of order
  net,      \* segments in flight
  call,     \* the call each thread is in
  ret,      \* how the thread's last call ended
  given,    \* bytes write has reported taken, per thread
  gaveUp,   \* a write on this side gave up before its chunk was acked
  lost      \* segments lost so far

endpoint == <<readp, szep, writep, buffer, stream, handed>>
app      == <<call, ret, given, gaveUp>>
vars     == <<state, endpoint, open, ARQflag, net, app, lost>>

States == {"ESTABLISHED", "FINWAIT1", "FINWAIT2", "CLOSING", "TIMEWAIT",
           "CLOSEWAIT", "LASTACK", "CLOSED"}
Outcomes == {"none", "ok", "short", "error", "data", "eof", "closed",
             "abandoned"}

-----------------------------------------------------------------------------
(* Segments.  A control segment carries one byte of padding.  The payload   *)
(* of a data segment is a run of bytes of one thread: byte k of thread t    *)
(* is <<t, k>>.                                                             *)

Control(dst, kind, seq, ack) ==
  [dst |-> dst, kind |-> kind, seq |-> seq, ack |-> ack, from |-> 0, len |-> 1]

DataAckAhead(dst, t, seq, ack, from, len) ==
  [dst |-> dst, kind |-> "data", seq |-> seq, ack |-> ack + 1, from |-> from,
   len |-> len, who |-> t]
Data(dst, t, seq, ack, from, len) ==
  [dst |-> dst, kind |-> "data", seq |-> seq, ack |-> ack, from |-> from,
   len |-> len, who |-> t]

IsFIN(m) == m.kind = "fin"
IsACK(m) == m.kind \in {"ack", "synack"}

Payload(m) == [i \in 1..m.len |-> <<m.who, m.from + i - 1>>]

(* What connect and the listener may have left in flight, where the network *)
(* delivers late.                                                           *)
Handshake == {Control(1, "syn", 0, 0), Control(0, "synack", 0, 1),
              Control(1, "ack", 1, 1)}

(* The network takes m out unless it may deliver it again. *)
Taking(m) == IF Dup THEN net ELSE net \ {m}

-----------------------------------------------------------------------------
(* The ring.  The byte at position p lies at place p % BufSize; a run of    *)
(* bytes that comes to the end of the ring goes on at its start.            *)

Junk == <<"memory", 0>>  \* what the memory of buffer has at first

Place(p) == p % BufSize

CopyInFlat(r, p, bytes) ==
  LET pos == Place(p) IN
  [i \in 0 .. BufSize - 1 |->
     IF pos <= i /\ i < pos + Len(bytes) THEN bytes[i - pos + 1] ELSE r[i]]
CopyIn(r, p, bytes) ==
  LET pos == Place(p)
      l1  == BufSize - pos IN
  [i \in 0 .. BufSize - 1 |->
     IF pos <= i /\ i < pos + Len(bytes) THEN bytes[i - pos + 1]
     ELSE IF i < Len(bytes) - l1 THEN bytes[l1 + i + 1]
     ELSE r[i]]

CopyOut(r, p, n) ==
  LET pos == Place(p)
      l1  == BufSize - pos IN
  [k \in 1 .. n |-> IF k <= l1 THEN r[pos + k - 1] ELSE r[k - l1 - 1]]

-----------------------------------------------------------------------------
Idle == [op |-> "idle"]

Init ==
  /\ state   = [s \in Side |-> "ESTABLISHED"]
  /\ readp   = [s \in Side |-> 1]
  /\ szep    = [s \in Side |-> 1]
  /\ writep  = [s \in Side |-> 1]
  /\ buffer  = [s \in Side |-> [i \in 0 .. BufSize - 1 |-> Junk]]
  /\ stream  = [s \in Side |-> << >>]
  /\ handed  = [s \in Side |-> << >>]
  /\ open    = [s \in Side |-> TRUE]
  /\ ARQflag \in [Side -> BOOLEAN]
  /\ net     = IF Dup THEN Handshake ELSE {}
  /\ call    = [t \in Thread |-> Idle]
  /\ ret     = [t \in Thread |-> "none"]
  /\ given   = [t \in Thread |-> 0]
  /\ gaveUp  = [s \in Side |-> FALSE]
  /\ lost    = 0

(* A thread can start a call on a descriptor that is in socket_pool. *)
MayCall(t) == call[t].op = "idle" /\ open[Host[t]]

Waiting(t, op) == call[t].op = op /\ open[Host[t]]

Return(t, outcome) == /\ call' = [call EXCEPT ![t] = Idle]
                      /\ ret'  = [ret EXCEPT ![t] = outcome]

RetransmitTimeout == Patient => net = {}

(* ++counter, and the test against MAGIC_NUM. *)
CountedNever(c) == c.counter
Counted(c) == c.counter + 1

ExhaustedLate(n) == n > MagicNum
Exhausted(n) == n >= MagicNum

-----------------------------------------------------------------------------
(* write *)

Chunk(n) == IF n < MSS THEN n ELSE MSS

(* The iteration that sends the chunk starting at byte from, with n bytes   *)
(* of the caller's buffer to go.                                            *)
StartChunk(t, from, n, start) ==
  LET s == Host[t] IN
  /\ call' = [call EXCEPT ![t] =
                [op |-> "write", from |-> from, len |-> Chunk(n),
                 left |-> n - Chunk(n), nxt |-> writep[s] + Chunk(n),
                 start |-> start, counter |-> 0]]
  /\ net' = net \cup {Data(Peer(s), t, writep[s], szep[s], from, Chunk(n))}

WriteCall(t) ==
  LET s == Host[t] IN
  /\ t \in Writers
  /\ MayCall(t)
  /\ Retry \/ ~gaveUp[s]
  /\ \E n \in WriteSizes :
       /\ given[t] + n <= MaxBytes[t]
       /\ \/ /\ state[s] = "ESTABLISHED"
             /\ StartChunk(t, given[t] + 1, n, writep[s])
             /\ ret' = [ret EXCEPT ![t] = "none"]
          \/ /\ state[s] # "ESTABLISHED"
             /\ Return(t, "error")
             /\ net' = net
  /\ UNCHANGED <<state, endpoint, open, ARQflag, given, gaveUp, lost>>

ChunkAckedEarly(t) == writep[Host[t]] <= call[t].nxt
ChunkAcked(t) == writep[Host[t]] = call[t].nxt

(* The chunk is acked: the next one, or the end. *)
WriteAdvance(t) ==
  LET c == call[t] IN
  /\ Waiting(t, "write")
  /\ ChunkAcked(t)
  /\ \/ /\ c.left > 0
        /\ StartChunk(t, c.from + c.len, c.left, c.start)
        /\ UNCHANGED <<ret, given>>
     \/ /\ c.left = 0
        /\ Return(t, "ok")
        /\ given' = [given EXCEPT ![t] = c.from + c.len - 1]
        /\ net' = net
  /\ UNCHANGED <<state, endpoint, open, ARQflag, gaveUp, lost>>

(* The chunk is sent again, at today's writep; the MagicNum-th time is the  *)
(* last, and write returns how far writep has come since it was called.     *)
WriteResend(t) ==
  LET s == Host[t]
      c == call[t] IN
  /\ Waiting(t, "write")
  /\ ~ChunkAcked(t)
  /\ RetransmitTimeout
  /\ net' = net \cup {Data(Peer(s), t, writep[s], szep[s], c.from, c.len)}
  /\ \/ /\ ~Exhausted(Counted(c))
        /\ call' = [call EXCEPT ![t].counter = Counted(c)]
        /\ UNCHANGED <<ret, given, gaveUp>>
     \/ /\ Exhausted(Counted(c))
        /\ Return(t, "short")
        /\ given' = [given EXCEPT ![t] = @ + writep[s] - c.start]
        /\ gaveUp' = [gaveUp EXCEPT ![s] = TRUE]
  /\ UNCHANGED <<state, endpoint, open, ARQflag, lost>>

-----------------------------------------------------------------------------
(* read *)

Unread(s) == szep[s] - readp[s]

MustWait(s) == Unread(s) = 0 /\ state[s] = "ESTABLISHED"

(* The end of read once its loop is left: data, or end of file. *)
ReadOut(t, n) ==
  LET s   == Host[t]
      len == IF n < Unread(s) THEN n ELSE Unread(s) IN
  IF Unread(s) = 0
  THEN Return(t, "eof") /\ UNCHANGED <<readp, handed>>
  ELSE /\ Return(t, "data")
       /\ readp' = [readp EXCEPT ![s] = @ + len]
       /\ handed' = [handed EXCEPT ![s] = @ \o CopyOut(buffer[s], readp[s], len)]

ReadCall(t) ==
  /\ t \in Readers
  /\ MayCall(t)
  /\ \E n \in ReadSizes :
       \/ /\ MustWait(Host[t])
          /\ call' = [call EXCEPT ![t] = [op |-> "read", size |-> n, counter |-> 1]]
          /\ ret' = [ret EXCEPT ![t] = "none"]
          /\ UNCHANGED <<readp, handed>>
       \/ ~MustWait(Host[t]) /\ ReadOut(t, n)
  /\ UNCHANGED <<state, szep, writep, buffer, stream, open, ARQflag, net,
                 given, gaveUp, lost>>

(* A wake-up that finds nothing counts too, whoever it was meant for. *)
ReadWake(t) ==
  LET c == call[t] IN
  /\ Waiting(t, "read")
  /\ \/ /\ MustWait(Host[t])
        /\ \/ /\ ~Exhausted(Counted(c))
              /\ call' = [call EXCEPT ![t].counter = Counted(c)]
              /\ ret' = ret
           \/ Exhausted(Counted(c)) /\ Return(t, "error")
        /\ UNCHANGED <<readp, handed>>
     \/ ~MustWait(Host[t]) /\ ReadOut(t, c.size)
  /\ UNCHANGED <<state, szep, writep, buffer, stream, open, ARQflag, net,
                 given, gaveUp, lost>>

-----------------------------------------------------------------------------
(* close *)

SendFIN(s, passive) ==
  net' = net \cup {Control(Peer(s), "fin", writep[s],
                           IF passive THEN szep[s] + 1 ELSE szep[s])}

(* port_pool is left to the module of the socket table. *)
Erase(s) == open' = [open EXCEPT ![s] = FALSE]

CloseCall(t) ==
  LET s == Host[t]
      passive == state[s] = "CLOSEWAIT" IN
  /\ t \in Closers
  /\ MayCall(t)
  /\ \/ /\ state[s] \in {"CLOSEWAIT", "ESTABLISHED"}
        /\ SendFIN(s, passive)
        /\ state' = [state EXCEPT ![s] = IF passive THEN "LASTACK" ELSE "FINWAIT1"]
        /\ call' = [call EXCEPT ![t] =
                      [op |-> "close", passive |-> passive, counter |-> 1]]
        /\ ret' = [ret EXCEPT ![t] = "none"]
        /\ open' = open
     \/ /\ state[s] \notin {"CLOSEWAIT", "ESTABLISHED"}
        /\ Erase(s)
        /\ Return(t, "closed")
        /\ UNCHANGED <<state, net>>
  /\ UNCHANGED <<endpoint, ARQflag, given, gaveUp, lost>>

CloseIsDone(t) ==
  state[Host[t]] \in IF call[t].passive THEN {"CLOSED"} ELSE {"TIMEWAIT", "CLOSED"}

CloseDone(t) ==
  /\ Waiting(t, "close")
  /\ CloseIsDone(t)
  /\ Erase(Host[t])
  /\ Return(t, "closed")
  /\ UNCHANGED <<state, endpoint, ARQflag, net, given, gaveUp, lost>>

(* The FIN is sent again; MAGIC_NUM FINs are the last word, and the socket  *)
(* goes whatever the peer has said.                                         *)
CloseResend(t) ==
  LET s == Host[t]
      c == call[t] IN
  /\ Waiting(t, "close")
  /\ ~CloseIsDone(t)
  /\ RetransmitTimeout
  /\ SendFIN(s, c.passive)
  /\ \/ /\ ~Exhausted(Counted(c))
        /\ call' = [call EXCEPT ![t].counter = Counted(c)]
        /\ UNCHANGED <<state, ret, open>>
     \/ /\ Exhausted(Counted(c))
        /\ state' = IF c.passive THEN state ELSE [state EXCEPT ![s] = "CLOSED"]
        /\ Erase(s)
        /\ Return(t, "abandoned")
  /\ UNCHANGED <<endpoint, ARQflag, given, gaveUp, lost>>

-----------------------------------------------------------------------------
(* recvTCPPacket, past the search for the socket: the segment m reaches the *)
(* open end s = m.dst.                                                      *)

FinStates == {"ESTABLISHED", "CLOSEWAIT", "FINWAIT1", "CLOSING", "FINWAIT2",
              "TIMEWAIT"}

(* The state a FIN leads to: the second state of each pair is the first,    *)
(* with the peer's FIN in.                                                  *)
FinNext(st) == CASE st \in {"ESTABLISHED", "CLOSEWAIT"} -> "CLOSEWAIT"
                 [] st \in {"FINWAIT1", "CLOSING"}      -> "CLOSING"
                 [] st \in {"FINWAIT2", "TIMEWAIT"}     -> "TIMEWAIT"

FinFitsSeqOnly(m) == m.seq = szep[m.dst]

(* Our own FIN takes a position once the peer has acked it. *)
FinFits(m) ==
  LET s == m.dst IN
  /\ m.seq = szep[s]
  /\ m.ack = IF state[s] \in {"FINWAIT2", "TIMEWAIT"} THEN writep[s] + 1 ELSE writep[s]

TakesFin(m) == IsFIN(m) /\ state[m.dst] \in FinStates /\ FinFits(m)

RecvFIN(m) ==
  /\ TakesFin(m)
  /\ state' = [state EXCEPT ![m.dst] = FinNext(@)]
  /\ net' = Taking(m) \cup {Control(Peer(m.dst), "ack", m.ack, m.seq + 1)}
  /\ UNCHANGED <<endpoint, ARQflag>>

FinAckStates == {"FINWAIT1", "CLOSING", "LASTACK"}

FinAckNext(st) == CASE st = "FINWAIT1" -> "FINWAIT2"
                    [] st = "CLOSING"  -> "TIMEWAIT"
                    [] st = "LASTACK"  -> "CLOSED"

FinAckFitsAnyAck(m) ==
  LET s == m.dst IN
  /\ m.seq = IF state[s] = "LASTACK" THEN szep[s] + 1 ELSE szep[s]
  /\ m.ack >= writep[s]
FinAckFits(m) ==
  LET s == m.dst IN
  /\ m.seq = IF state[s] = "LASTACK" THEN szep[s] + 1 ELSE szep[s]
  /\ m.ack = writep[s] + 1

TakesFinAck(m) == IsACK(m) /\ state[m.dst] \in FinAckStates /\ FinAckFits(m)

RecvFinAck(m) ==
  /\ TakesFinAck(m)
  /\ state' = [state EXCEPT ![m.dst] = FinAckNext(@)]
  /\ net' = Taking(m)
  /\ UNCHANGED <<endpoint, ARQflag>>

HighestIsLast(a, b) == b
Highest(a, b) == IF a < b THEN b ELSE a

AcceptsOld(m) ==
  LET s == m.dst IN
  /\ szep[s] >= m.seq
  /\ Highest(writep[s], m.ack) = m.ack
  /\ Unread(s) + m.len < BufSize
AcceptsFull(m) ==
  LET s == m.dst IN
  /\ szep[s] = m.seq
  /\ Highest(writep[s], m.ack) = m.ack
  /\ Unread(s) <= BufSize
Accepts(m) ==
  LET s == m.dst IN
  /\ szep[s] = m.seq
  /\ Highest(writep[s], m.ack) = m.ack
  /\ Unread(s) + m.len < BufSize

TakesInOrder(m) == state[m.dst] = "ESTABLISHED" /\ ~IsFIN(m)

(* Everything else an ESTABLISHED socket does: the ack moves writep; a      *)
(* segment that is no ACK and comes at szep goes into the buffer; what does *)
(* not fit is answered only when ARQflag is up.                             *)
RecvEstablished(m) ==
  LET s == m.dst
      acked == Highest(writep[s], m.ack)
      reply == Control(Peer(s), "ack", acked, szep'[s]) IN
  /\ TakesInOrder(m)
  /\ writep' = [writep EXCEPT ![s] = acked]
  /\ \/ /\ IsACK(m)
        /\ net' = Taking(m)
        /\ UNCHANGED <<szep, buffer, stream, ARQflag>>
     \/ /\ ~IsACK(m)
        /\ Accepts(m)
        /\ szep' = [szep EXCEPT ![s] = @ + m.len]
        /\ buffer' = [buffer EXCEPT ![s] = CopyIn(@, szep[s], Payload(m))]
        /\ stream' = [stream EXCEPT ![s] = @ \o Payload(m)]
        /\ ARQflag' = [ARQflag EXCEPT ![s] = FALSE]
        /\ net' = Taking(m) \cup {reply}
     \/ /\ ~IsACK(m)
        /\ ~Accepts(m)
        /\ UNCHANGED <<szep, buffer, stream>>
        /\ ARQflag' = [ARQflag EXCEPT ![s] = FALSE]
        /\ net' = IF ARQflag[s] THEN Taking(m) \cup {reply} ELSE Taking(m)
  /\ UNCHANGED <<state, readp, handed>>

(* No socket, or no branch of the handler for it. *)
Drop(m) ==
  /\ ~open[m.dst] \/ ~(TakesFin(m) \/ TakesFinAck(m) \/ TakesInOrder(m))
  /\ net' = Taking(m)
  /\ UNCHANGED <<state, endpoint, ARQflag>>

Recv(m) ==
  /\ m \in net
  /\ \/ open[m.dst] /\ (RecvFIN(m) \/ RecvFinAck(m) \/ RecvEstablished(m))
     \/ Drop(m)
  /\ UNCHANGED <<open, app, lost>>

-----------------------------------------------------------------------------
(* The network and the timer *)

Lose(m) == /\ ~Dup
           /\ lost < MaxLoss
           /\ m \in net
           /\ net' = net \ {m}
           /\ lost' = lost + 1
           /\ UNCHANGED <<state, endpoint, open, ARQflag, app>>

(* Every third tick of TimerThread; it does not take kernel_mutex. *)
TimerTick(s) == /\ ARQflag' = [ARQflag EXCEPT ![s] = TRUE]
                /\ UNCHANGED <<state, endpoint, open, net, app, lost>>

ThreadStep(t) == \/ WriteCall(t) \/ WriteAdvance(t) \/ WriteResend(t)
                 \/ ReadCall(t)  \/ ReadWake(t)
                 \/ CloseCall(t) \/ CloseDone(t) \/ CloseResend(t)

Next == \/ \E t \in Thread : ThreadStep(t)
        \/ \E m \in net : Recv(m) \/ Lose(m)
        \/ \E s \in Side : TimerTick(s)

Spec == Init /\ [][Next]_vars

(* A call in a wait loop is woken by TimerThread for ever. *)
WakeUp(t) == WriteAdvance(t) \/ WriteResend(t) \/ ReadWake(t)
             \/ CloseDone(t) \/ CloseResend(t)

Fairness == \A t \in Thread : WF_vars(WakeUp(t))

FairSpec == Spec /\ Fairness

-----------------------------------------------------------------------------
(* Properties *)

SynSegment == [dst : Side, kind : {"syn"}, seq : {0}, ack : {0}, from : {0},
               len : {1}]

ControlSegment == [dst : Side, kind : {"synack", "ack", "fin"}, seq : Nat,
                   ack : Nat, from : {0}, len : {1}]

DataSegment == [dst : Side, kind : {"data"}, seq : Nat, ack : Nat, from : Int,
                len : Nat \ {0}, who : Thread]

Segments == SynSegment \cup ControlSegment \cup DataSegment

WriteInProgress == [op : {"write"}, from : Int, len : Nat \ {0}, left : Nat,
                    nxt : Nat, start : Nat, counter : 0 .. MagicNum - 1]

ReadInProgress == [op : {"read"}, size : Nat \ {0}, counter : 1 .. MagicNum - 1]

CloseInProgress == [op : {"close"}, passive : BOOLEAN, counter : 1 .. MagicNum - 1]

Stored == (Thread \X Int) \cup {Junk}

Calls == {Idle} \cup WriteInProgress \cup ReadInProgress \cup CloseInProgress

(* Every variable has its type; a thread is only in calls it may make. *)
TypeOK ==
  /\ state   \in [Side -> States]
  /\ readp   \in [Side -> Nat \ {0}]
  /\ szep    \in [Side -> Nat \ {0}]
  /\ writep  \in [Side -> Nat \ {0}]
  /\ buffer  \in [Side -> [0 .. BufSize - 1 -> Stored]]
  /\ stream  \in [Side -> Seq(Thread \X Int)]
  /\ handed  \in [Side -> Seq(Stored)]
  /\ open    \in [Side -> BOOLEAN]
  /\ ARQflag \in [Side -> BOOLEAN]
  /\ net     \subseteq Segments
  /\ call    \in [Thread -> Calls]
  /\ ret     \in [Thread -> Outcomes]
  /\ given   \in [Thread -> Int]
  /\ gaveUp  \in [Side -> BOOLEAN]
  /\ lost    \in Nat

UsersOf(s) == {t \in Thread : Host[t] = s}

OneWriter(s) == \A t, u \in (Writers \cup Closers) \cap UsersOf(s) : t = u

(* No end is written by two threads, and no write has given up. *)
SoundWrites == \A s \in Side : OneWriter(s) /\ ~gaveUp[s]

(* Bytes not yet read are never overwritten: the buffer is a ring of        *)
(* SOCK_BUFFER_SIZE bytes (tcp.cpp:385), and szep - readp of them are in    *)
(* use.                                                                     *)
UnreadIsKept == \A s \in Side : readp[s] <= szep[s] /\ Unread(s) < BufSize

(* The receive buffer takes each byte of the peer's writer once and in      *)
(* order, whatever is delayed, repeated or lost (tcp.cpp:383), as long as   *)
(* no write of the peer gave up on bytes it then offers again.              *)
StreamIntegrity ==
  \A s \in Side : OneWriter(Peer(s)) /\ ~gaveUp[Peer(s)] =>
    \A i \in 1 .. Len(stream[s]) : stream[s][i][2] = i

(* read hands out the bytes the ring has taken, each once and in order: no  *)
(* copy into the ring is undone by a later one, and none goes wrong where   *)
(* it comes to the end of the ring (tcp.cpp:388, socket.cpp:370).           *)
ReadsAreTheStream ==
  \A s \in Side : /\ Len(handed[s]) = readp[s] - 1
                  /\ \A i \in 1 .. Len(handed[s]) : handed[s][i] = stream[s][i]

(* writep, the bytes an end believes delivered, never passes what the peer  *)
(* has in its buffer (tcp.cpp:375).                                         *)
AckedIsReceived == \A s \in Side : writep[s] <= szep[Peer(s)]

(* Bytes write has reported taken are in the peer's buffer (socket.cpp:442),*)
(* where one thread writes and closes an end.                               *)
WriteDelivers ==
  \A t \in Thread : ret[t] = "ok" /\ OneWriter(Host[t]) /\ ~gaveUp[Host[t]] =>
    \A k \in 1 .. given[t] :
      \E i \in DOMAIN stream[Peer(Host[t])] : stream[Peer(Host[t])][i] = <<t, k>>

(* Stop and wait: until a write gives up, the peer is at most one chunk     *)
(* ahead, and a write is waiting for just that chunk (socket.cpp:417).      *)
OneChunkOutstanding ==
  \A s \in Side : OneWriter(s) /\ ~gaveUp[s] /\ szep[Peer(s)] # writep[s] =>
    \E t \in UsersOf(s) : call[t].op = "write" /\ call[t].nxt = szep[Peer(s)]

(* A FIN is taken only in order (tcp.cpp:300): an end that has it in knows  *)
(* every byte the peer saw acked, and the peer every byte it saw acked.     *)
FinIn(s) == state[s] \in {"CLOSEWAIT", "LASTACK", "CLOSING", "TIMEWAIT"}

EofIsComplete ==
  \A s \in Side : SoundWrites /\ FinIn(s) => /\ szep[s] = writep[Peer(s)]
                                            /\ writep[s] = szep[Peer(s)]

(* An end believes its FIN acked only when the peer took it: the two state  *)
(* machines of tcp.cpp:299-370 agree whatever the order of the segments.    *)
(* After a write gave up on a chunk of one byte, its late ack passes for    *)
(* the ack of the FIN: hence the premise.                                   *)
BelievesFinAcked(s) == \/ state[s] \in {"FINWAIT2", "TIMEWAIT"}
                       \/ state[s] = "CLOSED" /\ open[s]

AckedFinWasTaken ==
  \A s \in Side : SoundWrites /\ BelievesFinAcked(s) =>
    FinIn(Peer(s)) \/ state[Peer(s)] = "CLOSED"

(* writep moves only to the end of the chunk a write is waiting for, and    *)
(* stays put once the end has left ESTABLISHED.                             *)
AckEndsChunk ==
  [][\A s \in Side : writep'[s] # writep[s] =>
       /\ state[s] = "ESTABLISHED"
       /\ OneWriter(s) /\ ~gaveUp[s] =>
            \E t \in UsersOf(s) : call[t].op = "write" /\ writep'[s] = call[t].nxt
    ]_vars

(* What the two applications see is a ByteStream, as long as each end is    *)
(* written by one thread and no write has given up: whatever the network    *)
(* does, each segment is taken once, after the one before it and before the *)
(* one after it is sent, and an end of file comes after the last.           *)
WritesOf(s) == {t \in UsersOf(s) : call[t].op = "write"}
Put(s) == IF WritesOf(s) = {} THEN writep[s] - 1
          ELSE call[CHOOSE t \in WritesOf(s) : TRUE].nxt - 1

Ended(s) == state[s] \notin {"ESTABLISHED", "CLOSEWAIT"}
Hears(s) == IF FinIn(s) THEN "ended" ELSE IF state[s] = "CLOSED" THEN "gone" ELSE "on"
Numbers(bytes) == [i \in 1 .. Len(bytes) |-> bytes[i][2]]

Stream == INSTANCE ByteStream WITH
  put   <- [s \in Side |-> Put(s)],
  told  <- [s \in Side |-> writep[s] - 1],
  taken <- [s \in Side |-> Numbers(stream[s])],
  got   <- [s \in Side |-> Numbers(handed[s])],
  ended <- [s \in Side |-> Ended(s)],
  hears <- [s \in Side |-> Hears(s)]

IsByteStream == Stream!Init /\ [][SoundWrites' => Stream!Next]_(Stream!vars)

(* While both ends wait in close and nothing is in flight, a FIN one of     *)
(* them sends again can still be answered: what reportC.pdf, page 6, means  *)
(* by "close() will not return until four waves and a wait-time finish".    *)
(* It fails: see the README.                                                *)
FinOf(t) ==
  LET s == Host[t] IN
  Control(Peer(s), "fin", writep[s], IF call[t].passive THEN szep[s] + 1 ELSE szep[s])

InClose(t) == Waiting(t, "close") /\ ~CloseIsDone(t)

TeardownCanFinish ==
  net = {} /\ (\A s \in Side : \E t \in UsersOf(s) : InClose(t)) =>
    \E t \in Thread : InClose(t) /\ TakesFin(FinOf(t))

(* The invariant the proofs go by.  AckInv holds whatever the applications  *)
(* do: no segment that can still move writep acks more than has arrived.    *)
AckInv ==
  /\ AckedIsReceived
  /\ \A m \in net :
       IF IsFIN(m) THEN state[Peer(m.dst)] # "ESTABLISHED"
       ELSE state[m.dst] = "ESTABLISHED" => m.ack <= szep[Peer(m.dst)]
  /\ \A t \in Thread : call[t].op = "close" => state[Host[t]] # "ESTABLISHED"

(* The writer t of the end s, and how far it and the peer have come: a      *)
(* byte's number is its position in the stream, and the peer is at one of   *)
(* the two ends of the chunk that is out.                                   *)
WriterInStep(s, t) ==
  LET d == Peer(s)
      c == call[t] IN
  /\ IF c.op = "write"
     THEN /\ c.nxt = c.from + c.len
          /\ writep[s] \in {c.from, c.nxt}
          /\ szep[d] \in {c.from, c.nxt}
     ELSE szep[d] = writep[s] /\ given[t] = writep[s] - 1
  /\ \A i \in 1 .. Len(stream[d]) : stream[d][i] = <<t, i>>

(* A data segment for the peer is old, or is the chunk that is out.         *)
DataInStep(s, m) ==
  LET c == call[m.who] IN
  /\ m.who \in Writers /\ Host[m.who] = s
  /\ m.from = m.seq
  /\ \/ m.seq < szep[Peer(s)]
     \/ m.seq = szep[Peer(s)] /\ c.op = "write" /\ c.from = m.seq /\ c.len = m.len

StreamInStep(s) ==
  /\ \A t \in Writers \cap UsersOf(s) : WriterInStep(s, t)
  /\ Writers \cap UsersOf(s) = {} => szep[Peer(s)] = 1 /\ writep[s] = 1
  /\ \A m \in net :
       /\ m.dst = Peer(s) /\ m.kind = "data" => DataInStep(s, m)
       /\ m.dst = s /\ ~IsFIN(m) /\ state[s] = "ESTABLISHED" =>
            m.ack <= writep[s] \/ m.ack = szep[Peer(s)]

StreamInv ==
  /\ \A s \in Side : Len(stream[s]) = szep[s] - 1
  /\ \A t \in Thread : /\ call[t].op = "write" => t \in Writers
                       /\ ret[t] = "ok" => t \in Writers /\ call[t].op # "write"
  /\ \A s \in Side : OneWriter(s) /\ ~gaveUp[s] => StreamInStep(s)

InductiveInv == AckInv /\ StreamInv

(* The bytes not yet read are at their places in the ring.                  *)
BufferInv ==
  /\ ReadsAreTheStream
  /\ \A s \in Side : \A p \in readp[s] .. szep[s] - 1 :
       buffer[s][Place(p)] = stream[s][p]

(* The FINs: one that is in flight has the position its sender stopped at,  *)
(* an ack for one stands for a FIN that was taken, and an end that stopped  *)
(* has everything acked and writes no more that the peer would take.        *)
FinDone(s) == FinIn(s) \/ state[s] = "CLOSED"

FinsInStep ==
  /\ \A s \in Side : FinIn(s) => state[Peer(s)] # "ESTABLISHED"
  /\ \A t \in Thread : call[t].op = "close" /\ call[t].passive =>
                       state[Peer(Host[t])] # "ESTABLISHED"
  /\ \A m \in net :
       LET p == Peer(m.dst) IN
       IF IsFIN(m) THEN /\ m.seq = writep[p]
                        /\ m.ack = szep[p] \/ state[m.dst] # "ESTABLISHED"
       ELSE m.ack <= szep[p] \/ FinDone(p)

Stopped(s) ==
  /\ szep[Peer(s)] = writep[s]
  /\ state[Peer(s)] = "ESTABLISHED" =>
       \A t \in Writers \cap UsersOf(s) : call[t].op # "write"

TeardownInv ==
  /\ FinsInStep
  /\ SoundWrites => \A s \in Side : state[s] # "ESTABLISHED" => Stopped(s)
  /\ AckedFinWasTaken

(* What the ByteStream needs beside them: only an end that has ended sends  *)
(* FINs and is in close, and a lone writer is in no write then.             *)
EndInv ==
  /\ \A m \in net : IsFIN(m) => Ended(Peer(m.dst))
  /\ \A t \in Thread : call[t].op = "close" => Ended(Host[t])
  /\ \A s \in Side : OneWriter(s) =>
       \A t \in UsersOf(s) : call[t].op = "write" => ~Ended(s)

(* Every call comes back, unless another thread closes its socket under it: *)
(* MAGIC_NUM bounds the rounds of each wait loop.                           *)
CallsReturn ==
  \A t \in Thread : call[t].op # "idle" ~> call[t].op = "idle" \/ ~open[Host[t]]
=============================================================================
