-------------------------- MODULE TcpStream_proof ---------------------------
(* What a TCP connection promises its applications, proved for every        *)
(* instance of TcpConnection: what is acked has arrived, the stream arrives *)
(* once and in order, write reports only what has arrived, and close ends   *)
(* the stream after its last byte.                                          *)
(*                                                                          *)
(* The argument is InductiveInv: AckInv first, which needs no assumption on *)
(* the threads, then StreamInv, the stop-and-wait window of an end with one *)
(* writer that has not given up.  TeardownInv comes third: FINs are in step *)
(* with the positions, and an end that has left ESTABLISHED has stopped.    *)
(* With EndInv, last, every step of the connection is one of ByteStream.    *)
EXTENDS TcpConnection_proof

-----------------------------------------------------------------------------
(* How a step changes the call of its thread, and no other's. *)

LEMMA StartChunkCall ==
  ASSUME TypeInv, NEW t \in Thread, NEW from, NEW n, NEW start,
         StartChunk(t, from, n, start)
  PROVE  /\ call'[t].op = "write" /\ call'[t].from = from /\ call'[t].len = Chunk(n)
         /\ call'[t].nxt = writep[Host[t]] + Chunk(n)
         /\ \A u \in Thread : u # t => call'[u] = call[u]
BY DEF StartChunk, TypeInv, TypeOK

LEMMA ReturnCall ==
  ASSUME TypeInv, NEW t \in Thread, NEW outcome, Return(t, outcome)
  PROVE  /\ call'[t].op = "idle" /\ ret'[t] = outcome
         /\ \A u \in Thread : u # t => call'[u] = call[u] /\ ret'[u] = ret[u]
BY DEF Return, Idle, TypeInv, TypeOK

LEMMA CountedCall ==
  ASSUME TypeInv, NEW t \in Thread, call[t].op # "idle",
         call' = [call EXCEPT ![t].counter = Counted(call[t])]
  PROVE  /\ call'[t].op = call[t].op
         /\ call[t].op = "write" => /\ call'[t].from = call[t].from
                                    /\ call'[t].len = call[t].len
                                    /\ call'[t].nxt = call[t].nxt
         /\ \A u \in Thread : u # t => call'[u] = call[u]
<1> DEFINE c == [call[t] EXCEPT !.counter = Counted(call[t])]
<1>1. /\ call'[t] = c
      /\ \A u \in Thread : u # t => call'[u] = call[u]
  BY DEF TypeInv, TypeOK
<1>2. call[t] \in WriteInProgress \/ call[t] \in ReadInProgress \/ call[t] \in CloseInProgress
  BY DEF TypeInv, TypeOK, Calls, Idle
<1>3. CASE call[t] \in WriteInProgress
  BY <1>1, <1>3 DEF WriteInProgress
<1>4. CASE call[t] \in ReadInProgress
  BY <1>1, <1>4 DEF ReadInProgress
<1>5. CASE call[t] \in CloseInProgress
  BY <1>1, <1>5 DEF CloseInProgress
<1> QED  BY <1>1, <1>2, <1>3, <1>4, <1>5

LEMMA WriteCalls ==
  ASSUME TypeInv, NEW t \in Thread, WriteCall(t) \/ WriteAdvance(t) \/ WriteResend(t)
  PROVE  /\ call'[t].op \in {"write", "idle"}
         /\ \A u \in Thread : u # t => call'[u] = call[u]
<1>1. CASE WriteCall(t)
  BY <1>1, StartChunkCall, ReturnCall DEF WriteCall
<1>2. CASE WriteAdvance(t)
  BY <1>2, StartChunkCall, ReturnCall DEF WriteAdvance
<1>3. CASE WriteResend(t)
  BY <1>3, CountedCall, ReturnCall DEF WriteResend, Waiting
<1> QED  BY <1>1, <1>2, <1>3

LEMMA ReadCalls ==
  ASSUME TypeInv, NEW t \in Thread, ReadCall(t) \/ ReadWake(t)
  PROVE  /\ call'[t].op \in {"read", "idle"}
         /\ \A u \in Thread : u # t => call'[u] = call[u]
<1>1. ASSUME NEW n, call' = [call EXCEPT ![t] = [op |-> "read", size |-> n, counter |-> 1]]
      PROVE  call'[t].op = "read" /\ \A u \in Thread : u # t => call'[u] = call[u]
  BY <1>1 DEF TypeInv, TypeOK
<1>2. CASE ReadCall(t)
  BY <1>1, <1>2, ReturnCall DEF ReadCall, ReadOut
<1>3. CASE ReadWake(t)
  BY <1>3, CountedCall, ReturnCall DEF ReadWake, Waiting, ReadOut
<1> QED  BY <1>2, <1>3

LEMMA CloseCalls ==
  ASSUME TypeInv, NEW t \in Thread, CloseCall(t) \/ CloseDone(t) \/ CloseResend(t)
  PROVE  /\ call'[t].op \in {"close", "idle"}
         /\ CloseCall(t) /\ call'[t].op = "close" => state'[Host[t]] # "ESTABLISHED"
         /\ \A u \in Thread : u # t => call'[u] = call[u]
<1>1. CASE CloseCall(t)
  <2>1. CASE Return(t, "closed")
    BY <2>1, ReturnCall
  <2>2. CASE /\ state[Host[t]] \in {"CLOSEWAIT", "ESTABLISHED"}
             /\ state' = [state EXCEPT ![Host[t]] =
                            IF state[Host[t]] = "CLOSEWAIT" THEN "LASTACK" ELSE "FINWAIT1"]
             /\ call' = [call EXCEPT ![t] =
                  [op |-> "close", passive |-> state[Host[t]] = "CLOSEWAIT", counter |-> 1]]
    <3>1. state'[Host[t]] # "ESTABLISHED"
      BY <2>2, ThreadAssumption DEF TypeInv, TypeOK
    <3>2. call'[t].op = "close" /\ \A u \in Thread : u # t => call'[u] = call[u]
      BY <2>2, Zenon DEF TypeInv, TypeOK
    <3> QED  BY <3>1, <3>2
  <2> QED  BY <1>1, <2>1, <2>2, Zenon DEF CloseCall
<1>2. CASE CloseDone(t)
  BY <1>2, ReturnCall DEF CloseDone, CloseCall, MayCall, Waiting
<1>3. CASE CloseResend(t)
  BY <1>3, CountedCall, ReturnCall DEF CloseResend, CloseCall, MayCall, Waiting
<1> QED  BY <1>1, <1>2, <1>3

-----------------------------------------------------------------------------
(* What is acked has arrived. *)

LEMMA AckInit == Init => AckInv
<1> SUFFICES ASSUME Init PROVE AckInv
  OBVIOUS
<1>1. AckedIsReceived
  BY PeerType DEF Init, AckedIsReceived
<1>2. \A m \in net : /\ ~IsFIN(m)
                     /\ m.dst \in Side /\ m.ack \in {0, 1}
  BY DEF Init, Handshake, Control, IsFIN, Side
<1>3. \A s \in Side : szep[Peer(s)] = 1
  BY PeerType DEF Init
<1>4. \A t \in Thread : call[t].op # "close"
  BY DEF Init, Idle
<1> QED  BY <1>1, <1>2, <1>3, <1>4 DEF AckInv

(* A step that leaves the ends alone and sends nothing but s's own segments *)
(* keeps AckInv.                                                            *)
LEMMA AckSend ==
  ASSUME TypeInv, AckInv, NEW s \in Side,
         szep' = szep, writep' = writep,
         \A p \in Side : state'[p] = "ESTABLISHED" => state[p] = "ESTABLISHED",
         \A m \in net' \ net :
            /\ m.dst = Peer(s)
            /\ IF IsFIN(m) THEN state'[s] # "ESTABLISHED" ELSE m.ack = szep[s],
         \A t \in Thread : call'[t].op = "close" =>
            call[t].op = "close" \/ state'[Host[t]] # "ESTABLISHED"
  PROVE  AckInv'
<1>1. AckedIsReceived'
  BY DEF AckInv, AckedIsReceived
<1>2. ASSUME NEW m \in net'
      PROVE  IF IsFIN(m) THEN state'[Peer(m.dst)] # "ESTABLISHED"
             ELSE state'[m.dst] = "ESTABLISHED" => m.ack <= szep'[Peer(m.dst)]
  <2>1. CASE m \in net
    <3>1. m.dst \in Side /\ Peer(m.dst) \in Side
      BY <2>1, SegmentType, PeerType DEF TypeInv, TypeOK
    <3> QED  BY <2>1, <3>1 DEF AckInv
  <2>2. CASE m \in net' \ net
    BY <2>2, PeerType DEF TypeInv, TypeOK
  <2> QED  BY <1>2, <2>1, <2>2
<1>3. ASSUME NEW t \in Thread, call'[t].op = "close"
      PROVE  state'[Host[t]] # "ESTABLISHED"
  <2>1. Host[t] \in Side
    BY ThreadAssumption
  <2> QED  BY <1>3, <2>1 DEF AckInv
<1> QED  BY <1>1, <1>2, <1>3 DEF AckInv, IsFIN

(* close on s leaves ESTABLISHED before its FIN is sent.                    *)
LEMMA SendFINStep ==
  ASSUME NEW s \in Side, NEW passive, SendFIN(s, passive)
  PROVE  \A m \in net' \ net : m.dst = Peer(s) /\ IsFIN(m)
BY DEF SendFIN, Control, IsFIN

LEMMA AckThread ==
  ASSUME TypeInv, AckInv, NEW t \in Thread, ThreadStep(t)
  PROVE  AckInv'
<1> DEFINE s == Host[t]
<1>1. s \in Side
  BY ThreadAssumption
<1>2. UNCHANGED <<szep, writep>>
  BY DEF ThreadStep, WriteCall, WriteAdvance, WriteResend, ReadCall, ReadWake, CloseCall,
         CloseDone, CloseResend, endpoint
<1>3. CASE WriteCall(t) \/ WriteAdvance(t) \/ WriteResend(t)
  <2>1. state' = state
    BY <1>3 DEF WriteCall, WriteAdvance, WriteResend
  <2>2. \A m \in net' \ net : m.dst = Peer(s) /\ ~IsFIN(m) /\ m.ack = szep[s]
    BY <1>3 DEF WriteCall, WriteAdvance, WriteResend, StartChunk, Data, IsFIN
  <2>3. \A u \in Thread : call'[u].op = "close" => call[u].op = "close"
    BY <1>3, WriteCalls
  <2> QED  BY <1>1, <1>2, <2>1, <2>2, <2>3, AckSend
<1>4. CASE ReadCall(t) \/ ReadWake(t)
  <2>1. state' = state /\ net' = net
    BY <1>4 DEF ReadCall, ReadWake
  <2>2. \A u \in Thread : call'[u].op = "close" => call[u].op = "close"
    BY <1>4, ReadCalls
  <2> QED  BY <1>1, <1>2, <2>1, <2>2, AckSend
<1>5. CASE CloseCall(t) \/ CloseDone(t) \/ CloseResend(t)
  <2>1. /\ \A p \in Side : state'[p] = "ESTABLISHED" => state[p] = "ESTABLISHED"
        /\ state'[s] = "ESTABLISHED" => state'[s] = state[s] /\ net' = net
        /\ \A m \in net' \ net : m.dst = Peer(s) /\ IsFIN(m)
    <3>1. CASE CloseCall(t)
      BY <1>1, <3>1, SendFINStep DEF CloseCall, TypeInv, TypeOK
    <3>2. CASE CloseDone(t)
      BY <3>2 DEF CloseDone
    <3>3. CASE CloseResend(t)
      <4>1. state[s] # "ESTABLISHED"
        BY <3>3 DEF CloseResend, Waiting, AckInv
      <4>2. state' = state \/ state' = [state EXCEPT ![s] = "CLOSED"]
        BY <3>3, Zenon DEF CloseResend
      <4> QED  BY <1>1, <3>3, <4>1, <4>2, SendFINStep DEF CloseResend, TypeInv, TypeOK
    <3> QED  BY <1>5, <3>1, <3>2, <3>3
  <2>2. \A u \in Thread : call'[u].op = "close" =>
           call[u].op = "close" \/ state'[Host[u]] # "ESTABLISHED"
    <3>1. CloseDone(t) \/ CloseResend(t) => call[t].op = "close"
      BY DEF CloseDone, CloseResend, Waiting
    <3> QED  BY <1>5, <3>1, CloseCalls
  <2> QED  BY <1>1, <1>2, <2>1, <2>2, AckSend
<1> QED  BY <1>3, <1>4, <1>5 DEF ThreadStep

(* The handler never lets an end back into ESTABLISHED.                     *)
LEMMA RecvStates ==
  ASSUME TypeInv, NEW m \in net, Recv(m), NEW p \in Side, state'[p] = "ESTABLISHED"
  PROVE  state[p] = "ESTABLISHED"
<1>1. m.dst \in Side
  BY SegmentType DEF TypeInv, TypeOK
<1>2. CASE RecvFIN(m)
  <2>1. FinNext(state[m.dst]) # "ESTABLISHED"
    BY <1>2 DEF RecvFIN, TakesFin, FinStates, FinNext
  <2> QED  BY <1>1, <1>2, <2>1 DEF RecvFIN, TypeInv, TypeOK
<1>3. CASE RecvFinAck(m)
  <2>1. FinAckNext(state[m.dst]) # "ESTABLISHED"
    BY <1>3 DEF RecvFinAck, TakesFinAck, FinAckStates, FinAckNext
  <2> QED  BY <1>1, <1>3, <2>1 DEF RecvFinAck, TypeInv, TypeOK
<1> QED  BY <1>2, <1>3 DEF Recv, RecvEstablished, Drop

(* What the handler does to an ESTABLISHED end s, in one formula.           *)
LEMMA EstablishedStep ==
  ASSUME TypeInv, NEW m \in net, RecvEstablished(m)
  PROVE  LET s == m.dst
             acked == Highest(writep[s], m.ack) IN
         /\ s \in Side /\ state[s] = "ESTABLISHED" /\ ~IsFIN(m)
         /\ writep' = [writep EXCEPT ![s] = acked]
         /\ UNCHANGED <<state, readp, handed>>
         /\ \A r \in net' \ net : /\ r.dst = Peer(s) /\ r.kind = "ack"
                                   /\ r.ack = szep'[s] /\ ~IsFIN(r)
         /\ \/ UNCHANGED <<szep, buffer, stream>>
            \/ /\ m \in DataSegment /\ m.seq = szep[s] /\ Unread(s) + m.len < BufSize
               /\ szep' = [szep EXCEPT ![s] = @ + m.len]
               /\ buffer' = [buffer EXCEPT ![s] = CopyIn(@, szep[s], Payload(m))]
               /\ stream' = [stream EXCEPT ![s] = @ \o Payload(m)]
<1> DEFINE s == m.dst
<1>1. m \in Segments /\ s \in Side
  BY SegmentType DEF TypeInv, TypeOK
<1>2. Taking(m) \subseteq net
  BY DEF Taking
<1>3. \A seq, ack : /\ Control(Peer(s), "ack", seq, ack).dst = Peer(s)
                    /\ Control(Peer(s), "ack", seq, ack).kind = "ack"
                    /\ Control(Peer(s), "ack", seq, ack).ack = ack
  BY DEF Control
<1>4. \A r \in net' \ net : /\ r.dst = Peer(s) /\ r.kind = "ack"
                            /\ r.ack = szep'[s] /\ ~IsFIN(r)
  BY <1>2, <1>3 DEF RecvEstablished, IsFIN
<1>5. \/ UNCHANGED <<szep, buffer, stream>>
      \/ /\ m \in DataSegment /\ m.seq = szep[s] /\ Unread(s) + m.len < BufSize
         /\ szep' = [szep EXCEPT ![s] = @ + m.len]
         /\ buffer' = [buffer EXCEPT ![s] = CopyIn(@, szep[s], Payload(m))]
         /\ stream' = [stream EXCEPT ![s] = @ \o Payload(m)]
  <2>1. CASE IsACK(m) \/ ~Accepts(m)
    BY <2>1 DEF RecvEstablished
  <2>2. CASE ~IsACK(m) /\ Accepts(m)
    <3>1. m.seq = szep[s] /\ m.seq # 0 /\ Unread(s) + m.len < BufSize
      BY <1>1, <2>2 DEF Accepts, TypeInv, TypeOK
    <3>2. m \in DataSegment
      BY <1>1, <2>2, <3>1, SegmentType DEF RecvEstablished, TakesInOrder
    <3> QED  BY <2>2, <3>1, <3>2 DEF RecvEstablished
  <2> QED  BY <2>1, <2>2
<1> QED  BY <1>1, <1>4, <1>5 DEF RecvEstablished, TakesInOrder

LEMMA AckRecv ==
  ASSUME TypeInv, AckInv, NEW m \in net, Recv(m)
  PROVE  AckInv'
<1> DEFINE s == m.dst
<1>1. s \in Side /\ Peer(s) \in Side /\ Peer(Peer(s)) = s /\ Peer(s) # s
      /\ m.ack \in Nat /\ m.seq \in Nat /\ m.len \in Nat
  BY SegmentType, PeerType DEF TypeInv, TypeOK
<1>2. call' = call
  BY DEF Recv, app
<1>3. \A t \in Thread : call'[t].op = "close" => state'[Host[t]] # "ESTABLISHED"
  BY <1>2, RecvStates, ThreadAssumption DEF AckInv
<1>4. CASE RecvEstablished(m)
  <2> DEFINE acked == Highest(writep[s], m.ack)
  <2>1. /\ state' = state /\ state[s] = "ESTABLISHED" /\ ~IsFIN(m)
        /\ writep' = [writep EXCEPT ![s] = acked]
        /\ \A r \in net' \ net : r.dst = Peer(s) /\ r.ack = szep'[s] /\ ~IsFIN(r)
        /\ szep' = szep \/ szep' = [szep EXCEPT ![s] = @ + m.len]
    BY <1>4, EstablishedStep
  <2>2. \A p \in Side : szep[p] \in Nat /\ szep'[p] \in Nat /\ szep[p] <= szep'[p]
    <3>1. szep \in [Side -> Nat \ {0}]
      BY DEF TypeInv, TypeOK
    <3>2. CASE szep' = szep
      BY <3>1, <3>2
    <3>3. CASE szep' = [szep EXCEPT ![s] = @ + m.len]
      BY <1>1, <3>1, <3>3
    <3> QED  BY <2>1, <3>2, <3>3
  <2>3. m.ack <= szep[Peer(s)]
    BY <2>1 DEF AckInv
  <2>4. AckedIsReceived'
    <3>1. acked <= szep[Peer(s)] /\ acked \in Nat
      BY <1>1, <2>2, <2>3 DEF Highest, AckInv, AckedIsReceived, TypeInv, TypeOK
    <3>2. writep'[s] <= szep'[Peer(s)]
      BY <1>1, <2>1, <2>2, <3>1 DEF TypeInv, TypeOK
    <3>3. writep'[Peer(s)] <= szep'[s]
      <4>1. writep'[Peer(s)] = writep[Peer(s)] /\ writep[Peer(s)] <= szep[s]
            /\ writep[Peer(s)] \in Nat
        BY <1>1, <2>1 DEF AckInv, AckedIsReceived, TypeInv, TypeOK
      <4> QED  BY <1>1, <2>2, <4>1
    <3> QED  BY <1>1, <3>2, <3>3 DEF AckedIsReceived, Side, Peer
  <2>5. ASSUME NEW r \in net'
        PROVE  IF IsFIN(r) THEN state'[Peer(r.dst)] # "ESTABLISHED"
               ELSE state'[r.dst] = "ESTABLISHED" => r.ack <= szep'[Peer(r.dst)]
    <3>1. CASE r \in net
      <4>1. r.dst \in Side /\ Peer(r.dst) \in Side /\ r.ack \in Nat
        BY <3>1, SegmentType, PeerType DEF TypeInv, TypeOK
      <4>2. IF IsFIN(r) THEN state[Peer(r.dst)] # "ESTABLISHED"
            ELSE state[r.dst] = "ESTABLISHED" => r.ack <= szep[Peer(r.dst)]
        BY <3>1 DEF AckInv
      <4> QED  BY <2>1, <2>2, <4>1, <4>2
    <3>2. CASE r \in net' \ net
      BY <1>1, <2>1, <2>2, <3>2
    <3> QED  BY <2>5, <3>1, <3>2
  <2> QED  BY <1>3, <2>4, <2>5 DEF AckInv, IsFIN
<1>5. CASE RecvFIN(m) \/ RecvFinAck(m) \/ Drop(m)
  <2>1. UNCHANGED <<szep, writep>>
    BY <1>5 DEF RecvFIN, RecvFinAck, Drop, endpoint
  <2>2. AckedIsReceived'
    BY <2>1 DEF AckInv, AckedIsReceived
  <2>3. ASSUME NEW r \in net'
        PROVE  IF IsFIN(r) THEN state'[Peer(r.dst)] # "ESTABLISHED"
               ELSE state'[r.dst] = "ESTABLISHED" => r.ack <= szep'[Peer(r.dst)]
    <3>1. CASE r \in net
      <4>1. r.dst \in Side /\ Peer(r.dst) \in Side
        BY <3>1, SegmentType, PeerType DEF TypeInv, TypeOK
      <4>2. IF IsFIN(r) THEN state[Peer(r.dst)] # "ESTABLISHED"
            ELSE state[r.dst] = "ESTABLISHED" => r.ack <= szep[Peer(r.dst)]
        BY <3>1 DEF AckInv
      <4> QED  BY <2>1, <4>1, <4>2, RecvStates
    <3>2. CASE r \notin net
      <4>1. RecvFIN(m) /\ r = Control(Peer(s), "ack", m.ack, m.seq + 1)
        BY <1>5, <2>3, <3>2 DEF RecvFIN, RecvFinAck, Drop, Taking
      <4>2. state[Peer(s)] # "ESTABLISHED"
        BY <1>1, <4>1 DEF RecvFIN, TakesFin, AckInv
      <4>3. r.dst = Peer(s) /\ ~IsFIN(r)
        BY <4>1 DEF Control, IsFIN
      <4> QED  BY <1>1, <4>2, <4>3, RecvStates
    <3> QED  BY <3>1, <3>2
  <2> QED  BY <1>3, <2>2, <2>3 DEF AckInv, IsFIN
<1> QED  BY <1>4, <1>5 DEF Recv

LEMMA AckStep == TypeInv /\ AckInv /\ [Next]_vars => AckInv'
<1> SUFFICES ASSUME TypeInv, AckInv, [Next]_vars PROVE AckInv'
  OBVIOUS
<1>1. ASSUME NEW t \in Thread, ThreadStep(t) PROVE AckInv'
  BY <1>1, AckThread
<1>2. ASSUME NEW m \in net, Recv(m) PROVE AckInv'
  BY <1>2, AckRecv
<1>3. ASSUME NEW m \in net, Lose(m) PROVE AckInv'
  BY <1>3 DEF Lose, app, endpoint, AckInv, AckedIsReceived, IsFIN
<1>4. ASSUME NEW s \in Side, TimerTick(s) PROVE AckInv'
  BY <1>4 DEF TimerTick, app, endpoint, AckInv, AckedIsReceived, IsFIN
<1>5. CASE UNCHANGED vars
  BY <1>5 DEF vars, app, endpoint, AckInv, AckedIsReceived, IsFIN
<1> QED  BY <1>1, <1>2, <1>3, <1>4, <1>5 DEF Next

LEMMA AckInvariant == Spec => []AckInv
BY AckInit, AckStep, TypeInvariant, PTL DEF Spec

(* Whatever threads share the socket and however often a write gives up,    *)
(* an end never believes more delivered than its peer has taken.            *)
THEOREM NothingAckedTooSoon == Spec => []AckedIsReceived
<1>1. AckInv => AckedIsReceived
  BY DEF AckInv
<1> QED  BY <1>1, AckInvariant, PTL

-----------------------------------------------------------------------------
(* The stream arrives once and in order. *)

LEMMA StreamInit == Init => StreamInv
<1> SUFFICES ASSUME Init PROVE StreamInv
  OBVIOUS
<1>1. \A m \in net : m.kind # "data" /\ m.ack <= 1
  BY DEF Init, Handshake, Control
<1>2. ASSUME NEW s \in Side PROVE StreamInStep(s)
  <2>1. Peer(s) \in Side
    BY PeerType
  <2>2. /\ szep[Peer(s)] = 1 /\ writep[s] = 1 /\ Len(stream[Peer(s)]) = 0
        /\ \A t \in Thread : call[t].op # "write" /\ given[t] = 0
    BY <2>1 DEF Init, Idle
  <2>3. \A t \in Writers : WriterInStep(s, t)
    BY <2>2, ThreadAssumption DEF WriterInStep
  <2> QED  BY <1>1, <2>2, <2>3 DEF StreamInStep
<1>3. \A s \in Side : Len(stream[s]) = szep[s] - 1
  BY DEF Init
<1>4. \A t \in Thread : call[t].op # "write" /\ ret[t] # "ok"
  BY DEF Init, Idle
<1> QED  BY <1>2, <1>3, <1>4 DEF StreamInv

(* The part of StreamInv that is not about one end: lengths and callers.    *)
LEMMA StreamShape ==
  ASSUME TypeInv, StreamInv, Next
  PROVE  /\ \A s \in Side : Len(stream'[s]) = szep'[s] - 1
         /\ \A t \in Thread : /\ call'[t].op = "write" => t \in Writers
                              /\ ret'[t] = "ok" => t \in Writers /\ call'[t].op # "write"
<1>1. ASSUME NEW t \in Thread, ThreadStep(t)
      PROVE  /\ UNCHANGED <<stream, szep>>
             /\ \A u \in Thread : /\ call'[u].op = "write" => u \in Writers
                                  /\ ret'[u] = "ok" => u \in Writers /\ call'[u].op # "write"
  <2>1. UNCHANGED <<stream, szep>>
    BY <1>1 DEF ThreadStep, WriteCall, WriteAdvance, WriteResend, ReadCall, ReadWake,
                CloseCall, CloseDone, CloseResend, endpoint
  <2>2. CASE WriteCall(t)
    <3>1. PICK n \in WriteSizes :
            \/ StartChunk(t, given[t] + 1, n, writep[Host[t]])
               /\ ret' = [ret EXCEPT ![t] = "none"]
            \/ Return(t, "error")
      BY <2>2 DEF WriteCall
    <3>2. t \in Writers
      BY <2>2 DEF WriteCall
    <3>3. CASE StartChunk(t, given[t] + 1, n, writep[Host[t]])
               /\ ret' = [ret EXCEPT ![t] = "none"]
      <4>1. call'[t].op = "write" /\ \A u \in Thread : u # t => call'[u] = call[u]
        BY <3>3, StartChunkCall
      <4> QED  BY <2>1, <3>2, <3>3, <4>1 DEF StreamInv, TypeInv, TypeOK
    <3>4. CASE Return(t, "error")
      BY <2>1, <3>4, ReturnCall DEF StreamInv
    <3> QED  BY <3>1, <3>3, <3>4
  <2>3. CASE WriteAdvance(t)
    <3>1. t \in Writers /\ ret[t] # "ok"
      BY <2>3 DEF WriteAdvance, Waiting, StreamInv
    <3>2. CASE /\ StartChunk(t, call[t].from + call[t].len, call[t].left, call[t].start)
               /\ ret' = ret
      <4>1. call'[t].op = "write" /\ \A u \in Thread : u # t => call'[u] = call[u]
        BY <3>2, StartChunkCall
      <4> QED  BY <2>1, <3>1, <3>2, <4>1 DEF StreamInv
    <3>3. CASE Return(t, "ok")
      BY <2>1, <3>1, <3>3, ReturnCall DEF StreamInv
    <3> QED  BY <2>3, <3>2, <3>3 DEF WriteAdvance
  <2>4. CASE WriteResend(t)
    <3>1. t \in Writers /\ ret[t] # "ok" /\ call[t].op = "write"
      BY <2>4 DEF WriteResend, Waiting, StreamInv
    <3>2. CASE call' = [call EXCEPT ![t].counter = Counted(call[t])] /\ ret' = ret
      BY <2>1, <3>1, <3>2, CountedCall DEF StreamInv
    <3>3. CASE Return(t, "short")
      BY <2>1, <3>3, ReturnCall DEF StreamInv
    <3> QED  BY <2>4, <3>2, <3>3 DEF WriteResend
  <2>5. CASE ReadCall(t) \/ ReadWake(t)
    <3>1. \/ ret' = ret
          \/ \E o \in Outcomes \ {"ok"} : ret' = [ret EXCEPT ![t] = o]
      BY <2>5 DEF ReadCall, ReadWake, ReadOut, Return, Outcomes
    <3> QED  BY <2>1, <2>5, <3>1, ReadCalls DEF StreamInv, TypeInv, TypeOK
  <2>6. CASE CloseCall(t) \/ CloseDone(t) \/ CloseResend(t)
    <3>1. \/ ret' = ret
          \/ \E o \in Outcomes \ {"ok"} : ret' = [ret EXCEPT ![t] = o]
      BY <2>6 DEF CloseCall, CloseDone, CloseResend, Return, Outcomes
    <3> QED  BY <2>1, <2>6, <3>1, CloseCalls DEF StreamInv, TypeInv, TypeOK
  <2> QED  BY <1>1, <2>2, <2>3, <2>4, <2>5, <2>6 DEF ThreadStep
<1>2. ASSUME NEW m \in net, Recv(m)
      PROVE  /\ \A s \in Side : Len(stream'[s]) = szep'[s] - 1
             /\ UNCHANGED <<call, ret>>
  <2>1. UNCHANGED <<call, ret>>
    BY <1>2 DEF Recv, app
  <2>2. CASE UNCHANGED <<szep, stream>>
    BY <2>1, <2>2 DEF StreamInv
  <2>3. CASE /\ m \in DataSegment /\ m.dst \in Side
             /\ szep' = [szep EXCEPT ![m.dst] = @ + m.len]
             /\ stream' = [stream EXCEPT ![m.dst] = @ \o Payload(m)]
    <3>1. /\ Payload(m) \in Seq(Thread \X Int) /\ Len(Payload(m)) = m.len
          /\ stream[m.dst] \in Seq(Thread \X Int)
      BY <2>3, PayloadType DEF TypeInv, TypeOK
    <3>2. Len(stream[m.dst] \o Payload(m)) = Len(stream[m.dst]) + m.len
      <4>1. \A p, q \in Seq(Thread \X Int) : Len(p \o q) = Len(p) + Len(q)
        BY ConcatProperties
      <4> QED  BY <3>1, <4>1
    <3>3. Len(stream[m.dst] \o Payload(m)) = szep[m.dst] + m.len - 1
      BY <2>3, <3>1, <3>2 DEF StreamInv, DataSegment, TypeInv, TypeOK
    <3>4. \A s \in Side : Len(stream'[s]) = szep'[s] - 1
      <4>1. stream'[m.dst] = stream[m.dst] \o Payload(m) /\ szep'[m.dst] = szep[m.dst] + m.len
        BY <2>3 DEF TypeInv, TypeOK
      <4>2. \A s \in Side \ {m.dst} : stream'[s] = stream[s] /\ szep'[s] = szep[s]
        BY <2>3 DEF TypeInv, TypeOK
      <4>3. \A s \in Side : Len(stream[s]) = szep[s] - 1
        BY DEF StreamInv
      <4>4. Len(stream'[m.dst]) = szep'[m.dst] - 1
        <5>1. szep[m.dst] \in Nat /\ m.len \in Nat
          BY <2>3 DEF DataSegment, TypeInv, TypeOK
        <5>2. Len(stream'[m.dst]) = Len(stream[m.dst] \o Payload(m))
          BY <4>1
        <5> QED  BY <3>3, <4>1, <5>1, <5>2
      <4> QED  BY <4>2, <4>3, <4>4
    <3> QED  BY <2>1, <3>4
  <2>4. RecvEstablished(m) \/ UNCHANGED <<szep, stream>>
    BY <1>2 DEF Recv, RecvFIN, RecvFinAck, Drop, endpoint
  <2> QED  BY <2>2, <2>3, <2>4, EstablishedStep
<1>3. ASSUME \/ \E m \in net : Lose(m)
             \/ \E s \in Side : TimerTick(s)
      PROVE  UNCHANGED <<call, ret, stream, szep>>
  BY <1>3 DEF Lose, TimerTick, app, endpoint
<1> QED  BY <1>1, <1>2, <1>3 DEF Next, StreamInv

(* A step that neither moves s's stream nor sends its bytes keeps it in step.*)
LEMMA StreamFrame ==
  ASSUME TypeInv, NEW s \in Side, StreamInStep(s),
         writep'[s] = writep[s], szep'[Peer(s)] = szep[Peer(s)],
         stream'[Peer(s)] = stream[Peer(s)],
         state'[s] = "ESTABLISHED" => state[s] = "ESTABLISHED",
         \A t \in Writers \cap UsersOf(s) :
            \/ call'[t] = call[t] /\ given'[t] = given[t]
            \/ call'[t].op # "write" /\ call[t].op # "write" /\ given'[t] = given[t],
         \A m \in net' \ net :
            /\ m.dst = Peer(s) => m.kind # "data"
            /\ m.dst = s /\ ~IsFIN(m) /\ state'[s] = "ESTABLISHED" => m.ack = szep[Peer(s)]
  PROVE  StreamInStep(s)'
<1>1. ASSUME NEW t \in Writers \cap UsersOf(s) PROVE WriterInStep(s, t)'
  <2>1. WriterInStep(s, t)
    BY DEF StreamInStep
  <2> QED  BY <2>1 DEF WriterInStep
<1>2. ASSUME NEW m \in net', m.dst = Peer(s), m.kind = "data" PROVE DataInStep(s, m)'
  <2>1. m \in net /\ DataInStep(s, m)
    BY <1>2 DEF StreamInStep
  <2>2. m.who \in Writers \cap UsersOf(s)
    BY <2>1, ThreadAssumption DEF DataInStep, UsersOf
  <2> QED  BY <2>1, <2>2 DEF DataInStep
<1>3. ASSUME NEW m \in net', m.dst = s, ~IsFIN(m), state'[s] = "ESTABLISHED"
      PROVE  m.ack <= writep'[s] \/ m.ack = szep'[Peer(s)]
  BY <1>3 DEF StreamInStep
<1>4. Writers \cap UsersOf(s) = {} => szep'[Peer(s)] = 1 /\ writep'[s] = 1
  BY DEF StreamInStep
<1> QED  BY <1>1, <1>2, <1>3, <1>4 DEF StreamInStep, UsersOf, IsFIN

(* The writer t of s sends the chunk that starts where both ends are.       *)
LEMMA StreamStartChunk ==
  ASSUME TypeInv, NEW s \in Side, StreamInStep(s), OneWriter(s),
         NEW t \in Writers, Host[t] = s, NEW n \in Nat \ {0}, NEW start,
         szep[Peer(s)] = writep[s],
         \A m \in net : m.dst = Peer(s) /\ m.kind = "data" => m.seq < szep[Peer(s)],
         StartChunk(t, writep[s], n, start),
         UNCHANGED <<state, endpoint>>
  PROVE  StreamInStep(s)'
<1> DEFINE d == Peer(s)
           new == Data(d, t, writep[s], szep[s], writep[s], Chunk(n))
<1>1. t \in Thread /\ UsersOf(s)' = UsersOf(s)
  BY ThreadAssumption DEF UsersOf
<1>2. \A u \in Writers \cap UsersOf(s) : u = t
  BY <1>1 DEF OneWriter, UsersOf
<1>3. Chunk(n) \in Nat \ {0} /\ writep[s] \in Nat /\ d \in Side /\ d # s
  BY ChunkType, PeerType DEF TypeInv, TypeOK
<1>4. UNCHANGED <<state, szep, writep, stream>>
  BY DEF endpoint
<1>5. /\ call'[t].op = "write" /\ call'[t].from = writep[s] /\ call'[t].len = Chunk(n)
      /\ call'[t].nxt = writep[s] + Chunk(n)
  BY <1>1, StartChunkCall
<1>6. ASSUME NEW u \in Writers \cap UsersOf(s) PROVE WriterInStep(s, u)'
  <2>1. u = t /\ WriterInStep(s, t)
    BY <1>2 DEF StreamInStep
  <2> QED  BY <1>3, <1>4, <1>5, <2>1 DEF WriterInStep
<1>7. net' = net \cup {new}
  BY DEF StartChunk
<1>8. ASSUME NEW m \in net', m.dst = d, m.kind = "data" PROVE DataInStep(s, m)'
  <2>1. CASE m \in net
    <3>1. DataInStep(s, m) /\ m.seq < szep[d]
      BY <1>8, <2>1 DEF StreamInStep
    <3> QED  BY <1>4, <3>1 DEF DataInStep
  <2>2. CASE m = new
    <3>1. /\ m.who = t /\ m.from = writep[s] /\ m.seq = writep[s] /\ m.len = Chunk(n)
      BY <2>2 DEF Data
    <3> QED  BY <1>4, <1>5, <3>1 DEF DataInStep
  <2> QED  BY <1>7, <1>8, <2>1, <2>2
<1>9. ASSUME NEW m \in net', m.dst = s, ~IsFIN(m), state'[s] = "ESTABLISHED"
      PROVE  m.ack <= writep'[s] \/ m.ack = szep'[d]
  <2>1. new.dst = d
    BY DEF Data
  <2> QED  BY <1>3, <1>4, <1>7, <1>9, <2>1 DEF StreamInStep
<1>10. t \in Writers \cap UsersOf(s)
  BY <1>1 DEF UsersOf
<1> QED  BY <1>1, <1>6, <1>8, <1>9, <1>10 DEF StreamInStep, IsFIN

(* write called, resumed or repeated on s itself.                           *)
LEMMA StreamWrite ==
  ASSUME TypeInv, AckInv, StreamInv, NEW s \in Side, StreamInStep(s), OneWriter(s),
         NEW t \in Thread, Host[t] = s, ~gaveUp'[s],
         WriteCall(t) \/ WriteAdvance(t) \/ WriteResend(t)
  PROVE  StreamInStep(s)'
<1> DEFINE d == Peer(s)
           c == call[t]
<1>1. t \in Writers
  BY DEF WriteCall, WriteAdvance, WriteResend, Waiting, StreamInv
<1>2. t \in UsersOf(s) /\ \A u \in Writers \cap UsersOf(s) : u = t
  BY <1>1 DEF UsersOf, OneWriter
<1>3. WriterInStep(s, t)
  BY <1>1, <1>2 DEF StreamInStep
<1>4. UNCHANGED <<state, endpoint>> /\ UNCHANGED <<szep, writep, stream, state>>
  BY DEF WriteCall, WriteAdvance, WriteResend, endpoint
<1>5. d \in Side /\ d # s /\ writep[s] \in Nat /\ szep[d] \in Nat /\ writep[s] <= szep[d]
      /\ szep[s] \in Nat
  BY PeerType DEF TypeInv, TypeOK, AckInv, AckedIsReceived
<1>6. ASSUME NEW m \in net, m.dst = d, m.kind = "data"
      PROVE  DataInStep(s, m) /\ m.who = t /\ m.seq \in Nat
  <2>1. DataInStep(s, m)
    BY <1>6 DEF StreamInStep
  <2> QED  BY <1>2, <1>6, <2>1, ThreadAssumption, SegmentType
           DEF DataInStep, UsersOf, TypeInv, TypeOK
<1>7. CASE WriteCall(t)
  <2>1. c.op = "idle" /\ given' = given
    BY <1>7 DEF WriteCall, MayCall
  <2>2. szep[d] = writep[s] /\ given[t] + 1 = writep[s]
    BY <1>3, <1>5, <2>1 DEF WriterInStep, TypeInv, TypeOK
  <2>3. \A m \in net : m.dst = d /\ m.kind = "data" => m.seq < szep[d]
    BY <1>6, <2>1 DEF DataInStep
  <2>4. PICK n \in WriteSizes :
          \/ StartChunk(t, given[t] + 1, n, writep[s])
          \/ Return(t, "error") /\ net' = net
    BY <1>7 DEF WriteCall
  <2>5. CASE StartChunk(t, given[t] + 1, n, writep[s])
    <3>1. StartChunk(t, writep[s], n, writep[s]) /\ n \in Nat \ {0}
      BY <2>2, <2>5, SizeAssumption
    <3> QED  BY <1>1, <1>4, <2>2, <2>3, <3>1, StreamStartChunk
  <2>6. CASE Return(t, "error") /\ net' = net
    <3>1. call'[t].op # "write"
      BY <2>6, ReturnCall
    <3> QED  BY <1>2, <1>4, <2>1, <2>6, <3>1, StreamFrame
  <2> QED  BY <2>4, <2>5, <2>6
<1>8. CASE WriteAdvance(t)
  <2>1. c \in WriteInProgress /\ c.op = "write" /\ writep[s] = c.nxt
    BY <1>8, CallType DEF WriteAdvance, Waiting, ChunkAcked
  <2>2. c.nxt = c.from + c.len /\ c.from \in Int /\ c.len \in Nat \ {0} /\ c.left \in Nat
        /\ c.nxt \in Nat
    BY <1>3, <2>1 DEF WriterInStep, WriteInProgress
  <2>3. szep[d] = writep[s]
    BY <1>3, <1>5, <2>1, <2>2 DEF WriterInStep
  <2>4. \A m \in net : m.dst = d /\ m.kind = "data" => m.seq < szep[d]
    BY <1>6, <2>1, <2>2, <2>3 DEF DataInStep
  <2>5. CASE c.left > 0 /\ StartChunk(t, c.from + c.len, c.left, c.start)
    <3>1. StartChunk(t, writep[s], c.left, c.start) /\ c.left \in Nat \ {0}
      BY <2>1, <2>2, <2>5
    <3> QED  BY <1>1, <1>4, <2>3, <2>4, <3>1, StreamStartChunk
  <2>6. CASE Return(t, "ok") /\ net' = net
             /\ given' = [given EXCEPT ![t] = c.from + c.len - 1]
    <3>1. call'[t].op = "idle"
      BY <2>6, ReturnCall
    <3>2. given'[t] = writep[s] - 1
      BY <2>1, <2>2, <2>6, PositionType
    <3>3. ASSUME NEW u \in Writers \cap UsersOf(s) PROVE WriterInStep(s, u)'
      BY <1>2, <1>3, <1>4, <2>3, <3>1, <3>2 DEF WriterInStep
    <3>4. ASSUME NEW m \in net', m.dst = d, m.kind = "data" PROVE DataInStep(s, m)'
      BY <1>4, <1>6, <2>4, <2>6, <3>4 DEF DataInStep
    <3>5. ASSUME NEW m \in net', m.dst = s, ~IsFIN(m), state'[s] = "ESTABLISHED"
          PROVE  m.ack <= writep'[s] \/ m.ack = szep'[d]
      BY <1>4, <2>6, <3>5 DEF StreamInStep
    <3> QED  BY <1>1, <1>2, <3>3, <3>4, <3>5 DEF StreamInStep, UsersOf, IsFIN
  <2> QED  BY <1>8, <2>5, <2>6 DEF WriteAdvance
<1>9. CASE WriteResend(t)
  <2> DEFINE new == Data(d, t, writep[s], szep[s], c.from, c.len)
  <2>1. c \in WriteInProgress /\ c.op = "write" /\ writep[s] # c.nxt
    BY <1>9, CallType DEF WriteResend, Waiting, ChunkAcked
  <2>2. /\ c.nxt = c.from + c.len /\ c.from \in Int /\ c.len \in Nat \ {0}
        /\ writep[s] = c.from /\ szep[d] \in {c.from, c.nxt}
    BY <1>3, <2>1 DEF WriterInStep, WriteInProgress
  <2>3. /\ call' = [call EXCEPT ![t].counter = Counted(c)] /\ given' = given
        /\ net' = net \cup {new}
    BY <1>9 DEF WriteResend, TypeInv, TypeOK
  <2>4. /\ call'[t].op = "write" /\ call'[t].from = c.from /\ call'[t].len = c.len
        /\ call'[t].nxt = c.nxt
    BY <2>1, <2>3, CountedCall
  <2>5. ASSUME NEW u \in Writers \cap UsersOf(s) PROVE WriterInStep(s, u)'
    BY <1>2, <1>3, <1>4, <2>1, <2>4 DEF WriterInStep
  <2>6. ASSUME NEW m \in net', m.dst = d, m.kind = "data" PROVE DataInStep(s, m)'
    <3>1. CASE m \in net
      BY <1>4, <1>6, <2>1, <2>4, <2>6, <3>1 DEF DataInStep
    <3>2. CASE m = new
      <4>1. m.who = t /\ m.from = c.from /\ m.seq = writep[s] /\ m.len = c.len
        BY <3>2 DEF Data
      <4>2. m.seq < szep[d] \/ m.seq = szep[d]
        BY <1>5, <2>2, <4>1
      <4> QED  BY <1>1, <1>4, <2>2, <2>4, <4>1, <4>2 DEF DataInStep
    <3> QED  BY <2>3, <2>6, <3>1, <3>2
  <2>7. ASSUME NEW m \in net', m.dst = s, ~IsFIN(m), state'[s] = "ESTABLISHED"
        PROVE  m.ack <= writep'[s] \/ m.ack = szep'[d]
    <3>1. new.dst = d
      BY DEF Data
    <3> QED  BY <1>4, <1>5, <2>3, <2>7, <3>1 DEF StreamInStep
  <2> QED  BY <1>1, <1>2, <2>5, <2>6, <2>7 DEF StreamInStep, UsersOf, IsFIN
<1> QED  BY <1>7, <1>8, <1>9

LEMMA AppendAt ==
  ASSUME NEW S, NEW p \in Seq(S), NEW q \in Seq(S), NEW r, r = p \o q
  PROVE  /\ Len(r) = Len(p) + Len(q)
         /\ \A i \in 1 .. Len(p) + Len(q) :
              r[i] = IF i <= Len(p) THEN p[i] ELSE q[i - Len(p)]
BY ConcatProperties

(* A byte of s's writer arrives: the peer moves to the end of the chunk.    *)
LEMMA StreamArrives ==
  ASSUME TypeInv, AckInv, StreamInv, NEW s \in Side, StreamInStep(s), OneWriter(s),
         NEW m \in net, m \in DataSegment, m.dst = Peer(s), m.seq = szep[Peer(s)],
         UNCHANGED <<state, call, given>>, writep'[s] = writep[s],
         szep'[Peer(s)] = szep[Peer(s)] + m.len,
         stream'[Peer(s)] = stream[Peer(s)] \o Payload(m),
         \A r \in net' \ net : r.dst = s /\ r.kind = "ack" /\ r.ack = szep'[Peer(s)]
  PROVE  StreamInStep(s)'
<1> DEFINE d == Peer(s)
           t == m.who
           c == call[t]
<1>1. /\ d \in Side /\ d # s /\ writep[s] \in Nat /\ szep[d] \in Nat /\ writep[s] <= szep[d]
      /\ m.len \in Nat \ {0} /\ m.from \in Int
  BY PeerType DEF TypeInv, TypeOK, AckInv, AckedIsReceived, DataSegment
<1>2. DataInStep(s, m)
  BY DEF StreamInStep, DataSegment
<1>3. /\ t \in Writers /\ Host[t] = s /\ m.from = m.seq /\ c.op = "write"
      /\ c.from = szep[d] /\ c.len = m.len
  BY <1>1, <1>2 DEF DataInStep
<1>4. t \in UsersOf(s) /\ \A u \in Writers \cap UsersOf(s) : u = t
  BY <1>3, ThreadAssumption DEF UsersOf, OneWriter
<1>5. WriterInStep(s, t)
  BY <1>3, <1>4 DEF StreamInStep
<1>6. c.nxt = szep[d] + m.len /\ writep[s] = szep[d]
  BY <1>1, <1>3, <1>5 DEF WriterInStep
<1>7. szep'[d] = szep[d] + m.len
  BY <1>1 DEF TypeInv, TypeOK
<1>8. \A i \in 1 .. Len(stream'[d]) : stream'[d][i] = <<t, i>>
  <2>1. /\ stream[d] \in Seq(Thread \X Int) /\ Payload(m) \in Seq(Thread \X Int)
        /\ Len(Payload(m)) = m.len
        /\ \A i \in 1 .. m.len : Payload(m)[i] = <<t, m.from + i - 1>>
    BY <1>1, PayloadType DEF TypeInv, TypeOK
  <2>2. Len(stream[d]) = szep[d] - 1 /\ Len(stream[d]) \in Nat
    BY <1>1, <2>1 DEF StreamInv
  <2>3. stream'[d] = stream[d] \o Payload(m)
    BY <1>1 DEF TypeInv, TypeOK
  <2>4. /\ Len(stream'[d]) = Len(stream[d]) + m.len
        /\ \A i \in 1 .. Len(stream[d]) + m.len :
             stream'[d][i] = IF i <= Len(stream[d]) THEN stream[d][i]
                             ELSE Payload(m)[i - Len(stream[d])]
    <3> DEFINE p == stream[d]
               q == Payload(m)
               r == stream'[d]
    <3>1. p \in Seq(Thread \X Int) /\ q \in Seq(Thread \X Int) /\ r = p \o q /\ Len(q) = m.len
      BY <2>1, <2>3
    <3> HIDE DEF p, q, r
    <3>2. /\ Len(r) = Len(p) + Len(q)
          /\ \A i \in 1 .. Len(p) + Len(q) : r[i] = IF i <= Len(p) THEN p[i] ELSE q[i - Len(p)]
      BY <3>1, AppendAt
    <3> QED  BY <3>1, <3>2 DEF p, q, r
  <2>5. ASSUME NEW i \in 1 .. Len(stream'[d]) PROVE stream'[d][i] = <<t, i>>
    <3>1. CASE i <= Len(stream[d])
      <4>1. i \in 1 .. Len(stream[d])
        BY <1>1, <2>2, <2>4, <3>1
      <4> QED  BY <1>1, <1>5, <2>2, <2>4, <3>1, <4>1 DEF WriterInStep
    <3>2. CASE i > Len(stream[d])
      <4> DEFINE j == i - Len(stream[d])
      <4>a. i \in 1 .. Len(stream[d]) + m.len /\ ~(i <= Len(stream[d]))
        BY <1>1, <2>2, <2>4, <3>2
      <4>b. stream'[d][i] = Payload(m)[j]
        BY <2>4, <4>a, Zenon
      <4>c. j \in 1 .. m.len
        BY <1>1, <2>2, <4>a
      <4>1. j \in 1 .. m.len /\ stream'[d][i] = Payload(m)[j]
        BY <4>b, <4>c
      <4>2. Payload(m)[j] = <<t, m.from + j - 1>>
        BY <2>1, <4>1
      <4>3. m.from + j - 1 = i
        BY <1>1, <1>3, <2>2, <4>1
      <4> QED  BY <4>1, <4>2, <4>3
    <3> QED  BY <1>1, <2>2, <2>4, <3>1, <3>2
  <2> QED  BY <2>5
<1>9. ASSUME NEW u \in Writers \cap UsersOf(s) PROVE WriterInStep(s, u)'
  <2>1. u = t
    BY <1>4
  <2>2. /\ call'[t] = c /\ writep'[s] = writep[s] /\ szep'[d] = c.nxt
        /\ c.nxt = c.from + c.len /\ writep[s] = c.from
    BY <1>3, <1>6, <1>7
  <2> QED  BY <1>3, <1>8, <2>1, <2>2 DEF WriterInStep
<1>10. ASSUME NEW r \in net', r.dst = d, r.kind = "data" PROVE DataInStep(s, r)'
  <2>1. r \in net
    BY <1>1, <1>10
  <2>2. DataInStep(s, r) /\ r.seq \in Nat
    BY <1>10, <2>1, SegmentType DEF StreamInStep, TypeInv, TypeOK
  <2>3. r.seq < szep'[d]
    BY <1>1, <1>7, <2>2 DEF DataInStep
  <2> QED  BY <2>2, <2>3 DEF DataInStep
<1>11. ASSUME NEW r \in net', r.dst = s, ~IsFIN(r), state'[s] = "ESTABLISHED"
       PROVE  r.ack <= writep'[s] \/ r.ack = szep'[d]
  <2>1. CASE r \in net
    BY <1>1, <1>6, <1>11, <2>1 DEF StreamInStep
  <2>2. CASE r \in net' \ net
    BY <2>2
  <2> QED  BY <1>11, <2>1, <2>2
<1> QED  BY <1>3, <1>4, <1>9, <1>10, <1>11 DEF StreamInStep, UsersOf, IsFIN

(* An ack arrives at s.                                                     *)
LEMMA StreamAcked ==
  ASSUME TypeInv, AckInv, NEW s \in Side, StreamInStep(s),
         NEW m \in net, m.dst = s, ~IsFIN(m), state[s] = "ESTABLISHED",
         writep' = [writep EXCEPT ![s] = Highest(writep[s], m.ack)],
         UNCHANGED <<state, call, given>>, szep'[Peer(s)] = szep[Peer(s)],
         stream'[Peer(s)] = stream[Peer(s)],
         \A r \in net' \ net : r.dst = Peer(s) /\ r.kind = "ack"
  PROVE  /\ StreamInStep(s)'
         /\ writep'[s] = writep[s] \/ writep'[s] = szep[Peer(s)]
<1> DEFINE d == Peer(s)
<1>1. /\ d \in Side /\ d # s /\ writep[s] \in Nat /\ szep[d] \in Nat /\ writep[s] <= szep[d]
      /\ m.ack \in Nat
  BY PeerType, SegmentType DEF TypeInv, TypeOK, AckInv, AckedIsReceived
<1>2. m.ack <= writep[s] \/ m.ack = szep[d]
  BY DEF StreamInStep
<1>3. writep'[s] = writep[s] \/ writep'[s] = szep[d]
  BY <1>1, <1>2 DEF Highest, TypeInv, TypeOK
<1>4. ASSUME NEW u \in Writers \cap UsersOf(s) PROVE WriterInStep(s, u)'
  <2>1. WriterInStep(s, u)
    BY DEF StreamInStep
  <2> QED  BY <1>3, <2>1 DEF WriterInStep
<1>5. ASSUME NEW r \in net', r.dst = d, r.kind = "data" PROVE DataInStep(s, r)'
  BY <1>5 DEF StreamInStep, DataInStep
<1>6. ASSUME NEW r \in net', r.dst = s, ~IsFIN(r), state'[s] = "ESTABLISHED"
      PROVE  r.ack <= writep'[s] \/ r.ack = szep'[d]
  <2>1. r \in net
    BY <1>1, <1>6
  <2>2. r.ack <= writep[s] \/ r.ack = szep[d]
    BY <1>6, <2>1 DEF StreamInStep
  <2>3. r.ack \in Nat
    BY <2>1, SegmentType DEF TypeInv, TypeOK
  <2> QED  BY <1>1, <1>3, <2>2, <2>3
<1>7. Writers \cap UsersOf(s) = {} => szep'[d] = 1 /\ writep'[s] = 1
  BY <1>3 DEF StreamInStep
<1> QED  BY <1>3, <1>4, <1>5, <1>6, <1>7 DEF StreamInStep, UsersOf, IsFIN

LEMMA StreamThread ==
  ASSUME TypeInv, AckInv, StreamInv, NEW s \in Side, StreamInStep(s), OneWriter(s),
         ~gaveUp'[s], NEW t \in Thread, ThreadStep(t)
  PROVE  StreamInStep(s)'
<1>1. UNCHANGED <<szep, writep, stream>>
  BY DEF ThreadStep, WriteCall, WriteAdvance, WriteResend, ReadCall, ReadWake, CloseCall,
         CloseDone, CloseResend, endpoint
<1>2. CASE WriteCall(t) \/ WriteAdvance(t) \/ WriteResend(t)
  <2>1. CASE Host[t] = s
    BY <1>2, <2>1, StreamWrite
  <2>2. CASE Host[t] # s
    <3>1. Host[t] = Peer(s) /\ Peer(Host[t]) = s /\ Peer(s) # s
      BY <2>2, ThreadAssumption DEF Side, Peer
    <3>2. state' = state
      BY <1>2 DEF WriteCall, WriteAdvance, WriteResend
    <3>3. \A m \in net' \ net : m.dst = s /\ m.ack = szep[Peer(s)]
      BY <1>2, <3>1 DEF WriteCall, WriteAdvance, WriteResend, StartChunk, Data
    <3>4. \A u \in Thread : u # t => given'[u] = given[u]
      BY <1>2 DEF WriteCall, WriteAdvance, WriteResend, TypeInv, TypeOK
    <3>5. \A u \in Writers \cap UsersOf(s) : u # t /\ call'[u] = call[u] /\ given'[u] = given[u]
      BY <1>2, <2>2, <3>4, WriteCalls DEF UsersOf
    <3> QED  BY <1>1, <3>1, <3>2, <3>3, <3>5, StreamFrame
  <2> QED  BY <2>1, <2>2
<1>3. CASE ReadCall(t) \/ ReadWake(t)
  <2>1. UNCHANGED <<state, net, given>> /\ call[t].op # "write"
    BY <1>3 DEF ReadCall, ReadWake, MayCall, Waiting
  <2>2. \A u \in Thread : \/ call'[u] = call[u]
                          \/ call'[u].op # "write" /\ call[u].op # "write"
    BY <1>3, <2>1, ReadCalls
  <2>3. \A u \in Writers \cap UsersOf(s) :
           \/ call'[u] = call[u] /\ given'[u] = given[u]
           \/ call'[u].op # "write" /\ call[u].op # "write" /\ given'[u] = given[u]
    BY <2>1, <2>2 DEF UsersOf
  <2> QED  BY <1>1, <2>1, <2>3, StreamFrame
<1>4. CASE CloseCall(t) \/ CloseDone(t) \/ CloseResend(t)
  <2>1. given' = given /\ call[t].op # "write"
    BY <1>4 DEF CloseCall, CloseDone, CloseResend, MayCall, Waiting
  <2>2. \A u \in Thread : \/ call'[u] = call[u]
                          \/ call'[u].op # "write" /\ call[u].op # "write"
    BY <1>4, <2>1, CloseCalls
  <2>3. \A u \in Writers \cap UsersOf(s) :
           \/ call'[u] = call[u] /\ given'[u] = given[u]
           \/ call'[u].op # "write" /\ call[u].op # "write" /\ given'[u] = given[u]
    BY <2>1, <2>2 DEF UsersOf
  <2>4. \A m \in net' \ net : m.kind # "data" /\ IsFIN(m)
    BY <1>4 DEF CloseCall, CloseDone, CloseResend, SendFIN, Control, IsFIN
  <2>5. state'[s] = "ESTABLISHED" => state[s] = "ESTABLISHED"
    BY <1>4 DEF CloseCall, CloseDone, CloseResend, TypeInv, TypeOK
  <2> QED  BY <1>1, <2>3, <2>4, <2>5, StreamFrame
<1> QED  BY <1>2, <1>3, <1>4 DEF ThreadStep

LEMMA StreamRecv ==
  ASSUME TypeInv, AckInv, StreamInv, NEW s \in Side, StreamInStep(s), OneWriter(s),
         NEW m \in net, Recv(m)
  PROVE  /\ StreamInStep(s)'
         /\ \/ writep'[s] = writep[s]
            \/ writep'[s] = szep[Peer(s)] /\ state[s] = "ESTABLISHED"
<1> DEFINE d == Peer(s)
<1>1. d \in Side /\ d # s /\ Peer(d) = s /\ m.dst \in Side
  BY SegmentType, PeerType DEF TypeInv, TypeOK
<1>2. UNCHANGED <<call, given>>
  BY DEF Recv, app
<1>3. CASE RecvFIN(m) \/ RecvFinAck(m) \/ Drop(m)
  <2>1. UNCHANGED <<szep, writep, stream>>
    BY <1>3 DEF RecvFIN, RecvFinAck, Drop, endpoint
  <2>2. ASSUME NEW r \in net' \ net
        PROVE  r.kind = "ack" /\ r.dst = Peer(m.dst) /\ state[r.dst] # "ESTABLISHED"
    <3>1. RecvFIN(m) /\ r = Control(Peer(m.dst), "ack", m.ack, m.seq + 1)
      BY <1>3, <2>2 DEF RecvFIN, RecvFinAck, Drop, Taking
    <3> QED  BY <3>1 DEF RecvFIN, TakesFin, AckInv, Control
  <2>3. state'[s] = "ESTABLISHED" => state[s] = "ESTABLISHED"
    BY RecvStates
  <2> QED  BY <1>2, <2>1, <2>2, <2>3, StreamFrame
<1>4. CASE RecvEstablished(m)
  <2>1. /\ state[m.dst] = "ESTABLISHED" /\ ~IsFIN(m)
        /\ writep' = [writep EXCEPT ![m.dst] = Highest(writep[m.dst], m.ack)]
        /\ state' = state
        /\ \A r \in net' \ net : /\ r.dst = Peer(m.dst) /\ r.kind = "ack"
                                  /\ r.ack = szep'[m.dst]
        /\ \/ UNCHANGED <<szep, stream>>
           \/ /\ m \in DataSegment /\ m.seq = szep[m.dst]
              /\ szep' = [szep EXCEPT ![m.dst] = @ + m.len]
              /\ stream' = [stream EXCEPT ![m.dst] = @ \o Payload(m)]
    BY <1>4, EstablishedStep
  <2>2. CASE m.dst = s
    <3>1. szep'[d] = szep[d] /\ stream'[d] = stream[d]
      BY <1>1, <2>1, <2>2 DEF TypeInv, TypeOK
    <3>2. StreamInStep(s)' /\ (writep'[s] = writep[s] \/ writep'[s] = szep[d])
      BY <1>2, <2>1, <2>2, <3>1, StreamAcked
    <3> QED  BY <2>1, <2>2, <3>2
  <2>3. CASE m.dst = d
    <3>1. writep'[s] = writep[s]
      BY <1>1, <2>1, <2>3 DEF TypeInv, TypeOK
    <3>2. CASE UNCHANGED <<szep, stream>>
      BY <1>1, <1>2, <2>1, <2>3, <3>1, <3>2, StreamFrame
    <3>3. CASE /\ m \in DataSegment /\ m.seq = szep[d]
               /\ szep' = [szep EXCEPT ![d] = @ + m.len]
               /\ stream' = [stream EXCEPT ![d] = @ \o Payload(m)]
      <4>1. \A r \in net' \ net : r.dst = s /\ r.kind = "ack" /\ r.ack = szep'[d]
        BY <1>1, <2>1, <2>3
      <4>2. m \in net /\ m.dst = d
        BY <2>3
      <4>a. szep'[d] = szep[d] + m.len /\ stream'[d] = stream[d] \o Payload(m)
        BY <1>1, <3>3 DEF TypeInv, TypeOK
      <4>3. StreamInStep(s)'
        BY <1>2, <2>1, <3>1, <3>3, <4>1, <4>2, <4>a, StreamArrives
      <4> QED  BY <3>1, <4>3
    <3> QED  BY <2>1, <2>3, <3>1, <3>2, <3>3
  <2>4. m.dst = s \/ m.dst = d
    BY <1>1 DEF Side, Peer
  <2> QED  BY <2>2, <2>3, <2>4
<1> QED  BY <1>3, <1>4 DEF Recv

(* A write that gave up stays on record. *)
LEMMA GaveUpStays ==
  ASSUME TypeInv, [Next]_vars, NEW s \in Side, ~gaveUp'[s]
  PROVE  ~gaveUp[s]
<1>1. \/ gaveUp' = gaveUp
      \/ \E t \in Thread : gaveUp' = [gaveUp EXCEPT ![Host[t]] = TRUE]
  BY DEF Next, vars, ThreadStep, WriteCall, WriteAdvance, WriteResend, ReadCall, ReadWake,
         CloseCall, CloseDone, CloseResend, Recv, Lose, TimerTick, app
<1> QED  BY <1>1 DEF TypeInv, TypeOK

LEMMA StreamStep == TypeInv /\ AckInv /\ StreamInv /\ [Next]_vars => StreamInv'
<1> SUFFICES ASSUME TypeInv, AckInv, StreamInv, [Next]_vars PROVE StreamInv'
  OBVIOUS
<1>1. CASE UNCHANGED vars
  BY <1>1 DEF vars, app, endpoint, StreamInv, StreamInStep, WriterInStep, DataInStep,
              OneWriter, UsersOf, IsFIN
<1>2. CASE Next
  <2>1. ASSUME NEW s \in Side, OneWriter(s)', ~gaveUp'[s] PROVE StreamInStep(s)'
    <3>1. OneWriter(s)
      BY <2>1 DEF OneWriter, UsersOf
    <3>2. StreamInStep(s)
      BY <2>1, <3>1, GaveUpStays DEF StreamInv
    <3>3. ASSUME NEW t \in Thread, ThreadStep(t) PROVE StreamInStep(s)'
      BY <2>1, <3>1, <3>2, <3>3, StreamThread
    <3>4. ASSUME NEW m \in net, Recv(m) PROVE StreamInStep(s)'
      BY <3>1, <3>2, <3>4, StreamRecv
    <3>5. ASSUME \/ \E m \in net : Lose(m)
                 \/ \E p \in Side : TimerTick(p)
          PROVE  StreamInStep(s)'
      <4>1. UNCHANGED <<state, szep, writep, stream, call, given>> /\ net' \subseteq net
        BY <3>5 DEF Lose, TimerTick, app, endpoint
      <4> QED  BY <3>2, <4>1, StreamFrame
    <3> QED  BY <1>2, <3>3, <3>4, <3>5 DEF Next
  <2> QED  BY <1>2, <2>1, StreamShape DEF StreamInv
<1> QED  BY <1>1, <1>2

LEMMA StreamInvariant == Spec => []StreamInv
BY StreamInit, StreamStep, TypeInvariant, AckInvariant, PTL DEF Spec

-----------------------------------------------------------------------------
(* The ring between the segments and read.                                  *)

LEMMA BufferInit == Init => BufferInv
<1> SUFFICES ASSUME Init PROVE BufferInv
  OBVIOUS
<1>1. \A s \in Side : handed[s] = << >> /\ readp[s] = 1 /\ szep[s] = 1
  BY DEF Init
<1> QED  BY <1>1 DEF BufferInv, ReadsAreTheStream

LEMMA BufferStays ==
  ASSUME BufferInv, NEW s \in Side,
         readp'[s] = readp[s], szep'[s] = szep[s], buffer'[s] = buffer[s],
         stream'[s] = stream[s], handed'[s] = handed[s]
  PROVE  /\ Len(handed'[s]) = readp'[s] - 1
         /\ \A i \in 1 .. Len(handed'[s]) : handed'[s][i] = stream'[s][i]
         /\ \A p \in readp'[s] .. szep'[s] - 1 : buffer'[s][Place(p)] = stream'[s][p]
BY DEF BufferInv, ReadsAreTheStream

(* read hands out the oldest bytes of the ring. *)
LEMMA ReadHandsOut ==
  ASSUME TypeInv, BufferInv, NEW s \in Side, NEW n \in Nat, n <= Unread(s),
         readp' = [readp EXCEPT ![s] = @ + n], UNCHANGED <<szep, buffer, stream>>,
         handed' = [handed EXCEPT ![s] = @ \o CopyOut(buffer[s], readp[s], n)]
  PROVE  /\ Len(handed'[s]) = readp'[s] - 1
         /\ \A i \in 1 .. Len(handed'[s]) : handed'[s][i] = stream'[s][i]
         /\ \A p \in readp'[s] .. szep'[s] - 1 : buffer'[s][Place(p)] = stream'[s][p]
<1> DEFINE r   == readp[s]
           old == handed[s]
           out == CopyOut(buffer[s], r, n)
           new == handed'[s]
<1>1. /\ r \in Nat \ {0} /\ szep[s] \in Nat /\ readp'[s] = r + n
      /\ r <= szep[s] /\ szep[s] - r < BufSize
  BY PositionType
<1>2. r + n <= szep[s] /\ n \in 0 .. BufSize
  <2>1. n <= szep[s] - r
    BY DEF Unread
  <2> QED  BY <1>1, <2>1, SizeAssumption
<1>3. buffer[s] \in [0 .. BufSize - 1 -> Stored] /\ old \in Seq(Stored) /\ new = old \o out
  BY BytesType
<1>4. out \in Seq(Stored) /\ Len(out) = n
  <2>1. r \in Nat
    BY <1>1
  <2> QED  BY <1>2, <1>3, <2>1, CopyOutType
<1>5. Len(old) = r - 1 /\ \A i \in 1 .. r - 1 : old[i] = stream[s][i]
  BY DEF BufferInv, ReadsAreTheStream
<1>6. \A k \in 1 .. n : out[k] = stream[s][r + (k - 1)]
  <2> SUFFICES ASSUME NEW k \in 1 .. n PROVE out[k] = stream[s][r + (k - 1)]
    OBVIOUS
  <2>1. out[k] = buffer[s][Place(r + (k - 1))]
    <3>1. r \in Nat
      BY <1>1
    <3> QED  BY <1>2, <3>1, CopyOutPlaces
  <2>2. r + (k - 1) \in r .. szep[s] - 1
    BY <1>1, <1>2
  <2> QED  BY <2>1, <2>2 DEF BufferInv
<1> HIDE DEF r, old, out, new
<1>7. /\ Len(new) = (r - 1) + n
      /\ \A i \in 1 .. (r - 1) + n : new[i] = IF i <= r - 1 THEN old[i] ELSE out[i - (r - 1)]
  BY <1>3, <1>4, <1>5, AppendAt
<1>8. ASSUME NEW i \in 1 .. (r - 1) + n PROVE new[i] = stream[s][i]
  <2>1. CASE i <= r - 1
    BY <1>5, <1>7, <2>1
  <2>2. CASE ~(i <= r - 1)
    <3>1. i - (r - 1) \in 1 .. n /\ r + ((i - (r - 1)) - 1) = i
      BY <1>1, <2>2
    <3>2. new[i] = out[i - (r - 1)]
      BY <1>7, <2>2
    <3> QED  BY <1>6, <3>1, <3>2
  <2> QED  BY <2>1, <2>2
<1>9. Len(new) = readp'[s] - 1 /\ \A i \in 1 .. Len(new) : new[i] = stream[s][i]
  BY <1>1, <1>7, <1>8
<1>10. \A p \in readp'[s] .. szep[s] - 1 : buffer[s][Place(p)] = stream[s][p]
  <2>1. \A p \in readp'[s] .. szep[s] - 1 : p \in readp[s] .. szep[s] - 1
    BY <1>1 DEF r
  <2> QED  BY <2>1 DEF BufferInv
<1> QED  BY <1>9, <1>10 DEF new

(* A segment goes into the ring behind them, in places that they have not.  *)
LEMMA ArrivesInRing ==
  ASSUME TypeInv, StreamInv, BufferInv, NEW s \in Side, NEW m \in DataSegment,
         Unread(s) + m.len < BufSize, UNCHANGED <<readp, handed>>,
         szep' = [szep EXCEPT ![s] = @ + m.len],
         buffer' = [buffer EXCEPT ![s] = CopyIn(@, szep[s], Payload(m))],
         stream' = [stream EXCEPT ![s] = @ \o Payload(m)]
  PROVE  /\ Len(handed'[s]) = readp'[s] - 1
         /\ \A i \in 1 .. Len(handed'[s]) : handed'[s][i] = stream'[s][i]
         /\ \A p \in readp'[s] .. szep'[s] - 1 : buffer'[s][Place(p)] = stream'[s][p]
<1> DEFINE r     == readp[s]
           z     == szep[s]
           n     == m.len
           old   == stream[s]
           bytes == Payload(m)
           new   == stream'[s]
           ring  == buffer[s]
           ring2 == CopyIn(ring, z, bytes)
<1>1. r \in Nat \ {0} /\ z \in Nat \ {0} /\ r <= z /\ szep'[s] = z + n
  BY PositionType
<1>2. n \in Nat /\ z - r + n < BufSize
  BY DEF Unread, DataSegment
<1>3. old \in Seq(Thread \X Int) /\ new = old \o bytes /\ buffer'[s] = ring2
  BY BytesType
<1>4. bytes \in Seq(Thread \X Int) /\ Len(bytes) = n
  BY PayloadType
<1>5. /\ Len(old) = z - 1
      /\ Len(handed[s]) = r - 1 /\ \A i \in 1 .. r - 1 : handed[s][i] = old[i]
      /\ \A p \in r .. z - 1 : ring[Place(p)] = old[p]
  BY DEF StreamInv, BufferInv, ReadsAreTheStream
<1> HIDE DEF r, z, n, old, bytes, new, ring, ring2
<1>6. /\ Len(new) = (z - 1) + n
      /\ \A i \in 1 .. (z - 1) + n : new[i] = IF i <= z - 1 THEN old[i] ELSE bytes[i - (z - 1)]
  BY <1>3, <1>4, <1>5, AppendAt
<1>7. \A i \in 1 .. z - 1 : new[i] = old[i]
  <2>1. \A i \in 1 .. z - 1 : i \in 1 .. (z - 1) + n /\ i <= z - 1
    BY <1>1, <1>2
  <2> QED  BY <1>6, <2>1
<1>8. \A i \in 1 .. r - 1 : handed[s][i] = new[i]
  <2>1. \A i \in 1 .. r - 1 : i \in 1 .. z - 1
    BY <1>1
  <2> QED  BY <1>5, <1>7, <2>1
<1>9. ASSUME NEW p \in r .. (z + n) - 1 PROVE ring2[Place(p)] = new[p]
  <2>1. p \in Nat /\ z \in Nat /\ Len(bytes) <= BufSize
    BY <1>1, <1>2, <1>4, SizeAssumption
  <2>2. CASE p < z
    <3>1. z - p <= BufSize - Len(bytes) /\ p \in r .. z - 1 /\ p \in 1 .. z - 1
      BY <1>1, <1>2, <1>4, <2>2, SizeAssumption
    <3>2. ring2[Place(p)] = ring[Place(p)]
      BY <1>4, <2>1, <2>2, <3>1, CopyInKept DEF ring2
    <3> QED  BY <1>5, <1>7, <3>1, <3>2
  <2>3. CASE ~(p < z)
    <3>1. /\ z <= p /\ p < z + Len(bytes) /\ p - z + 1 = p - (z - 1)
          /\ p \in 1 .. (z - 1) + n /\ ~(p <= z - 1)
      BY <1>1, <1>2, <1>4, <2>3
    <3>2. ring2[Place(p)] = bytes[p - z + 1]
      BY <1>4, <2>1, <3>1, CopyInNew DEF ring2
    <3>3. new[p] = bytes[p - (z - 1)]
      BY <1>6, <3>1
    <3> QED  BY <3>1, <3>2, <3>3
  <2> QED  BY <2>2, <2>3
<1> QED  BY <1>1, <1>3, <1>5, <1>8, <1>9 DEF r, new

(* What read does to the two ends of the stream, in one formula. *)
LEMMA ReadStep ==
  ASSUME TypeInv, NEW t \in Thread, ReadCall(t) \/ ReadWake(t)
  PROVE  LET s == Host[t] IN
         /\ s \in Side
         /\ UNCHANGED <<state, szep, writep, buffer, stream, net>>
         /\ \/ UNCHANGED <<readp, handed>>
            \/ \E n \in Nat \ {0} :
                 /\ n <= Unread(s)
                 /\ readp' = [readp EXCEPT ![s] = @ + n]
                 /\ handed' = [handed EXCEPT ![s] = @ \o CopyOut(buffer[s], readp[s], n)]
<1> DEFINE s == Host[t]
<1>1. s \in Side /\ Unread(s) \in Nat
  <2>1. s \in Side
    BY ThreadAssumption
  <2>2. readp[s] \in Nat /\ szep[s] \in Nat /\ readp[s] <= szep[s]
    BY <2>1 DEF TypeInv, TypeOK, UnreadIsKept
  <2> QED  BY <2>1, <2>2 DEF Unread
<1>2. UNCHANGED <<state, szep, writep, buffer, stream, net>>
  BY DEF ReadCall, ReadWake
<1>3. PICK size \in Nat \ {0} : UNCHANGED <<readp, handed>> \/ ReadOut(t, size)
  <2>1. CASE ReadCall(t)
    BY <2>1, SizeAssumption DEF ReadCall
  <2>2. CASE ReadWake(t)
    BY <2>2, CallType DEF ReadWake, Waiting, ReadInProgress
  <2> QED  BY <2>1, <2>2
<1>4. ASSUME ReadOut(t, size), Unread(s) # 0
      PROVE  \E n \in Nat \ {0} :
               /\ n <= Unread(s)
               /\ readp' = [readp EXCEPT ![s] = @ + n]
               /\ handed' = [handed EXCEPT ![s] = @ \o CopyOut(buffer[s], readp[s], n)]
  <2> DEFINE n == IF size < Unread(s) THEN size ELSE Unread(s)
  <2>1. n \in Nat \ {0} /\ n <= Unread(s)
    BY <1>1, <1>4
  <2>2. /\ readp' = [readp EXCEPT ![s] = @ + n]
        /\ handed' = [handed EXCEPT ![s] = @ \o CopyOut(buffer[s], readp[s], n)]
    BY <1>4 DEF ReadOut
  <2> HIDE DEF n
  <2> QED  BY <2>1, <2>2
<1>5. ASSUME ReadOut(t, size), Unread(s) = 0 PROVE UNCHANGED <<readp, handed>>
  BY <1>5 DEF ReadOut
<1> QED  BY <1>1, <1>2, <1>3, <1>4, <1>5

LEMMA BufferStep == TypeInv /\ StreamInv /\ BufferInv /\ [Next]_vars => BufferInv'
<1> SUFFICES ASSUME TypeInv, StreamInv, BufferInv, [Next]_vars, NEW s \in Side
             PROVE  /\ Len(handed'[s]) = readp'[s] - 1
                    /\ \A i \in 1 .. Len(handed'[s]) : handed'[s][i] = stream'[s][i]
                    /\ \A p \in readp'[s] .. szep'[s] - 1 :
                         buffer'[s][Place(p)] = stream'[s][p]
  BY DEF BufferInv, ReadsAreTheStream, Place
<1> DEFINE Goal == /\ Len(handed'[s]) = readp'[s] - 1
                   /\ \A i \in 1 .. Len(handed'[s]) : handed'[s][i] = stream'[s][i]
                   /\ \A p \in readp'[s] .. szep'[s] - 1 :
                        buffer'[s][Place(p)] = stream'[s][p]
<1>1. ASSUME readp'[s] = readp[s], szep'[s] = szep[s], buffer'[s] = buffer[s],
             stream'[s] = stream[s], handed'[s] = handed[s]
      PROVE  Goal
  BY <1>1, BufferStays
<1>2. ASSUME UNCHANGED endpoint PROVE Goal
  <2>1. UNCHANGED <<readp, szep, buffer, stream, handed>>
    BY <1>2 DEF endpoint
  <2> HIDE DEF Goal
  <2> QED  BY <1>1, <2>1
<1>3. ASSUME NEW t \in Thread, ReadCall(t) \/ ReadWake(t) PROVE Goal
  <2> DEFINE h == Host[t]
  <2>1. /\ h \in Side /\ UNCHANGED <<szep, buffer, stream>>
        /\ \/ UNCHANGED <<readp, handed>>
           \/ \E n \in Nat \ {0} :
                /\ n <= Unread(h)
                /\ readp' = [readp EXCEPT ![h] = @ + n]
                /\ handed' = [handed EXCEPT ![h] = @ \o CopyOut(buffer[h], readp[h], n)]
    BY <1>3, ReadStep
  <2>2. CASE UNCHANGED <<readp, handed>>
    <3> HIDE DEF Goal
    <3> QED  BY <1>1, <2>1, <2>2
  <2>3. ASSUME NEW n \in Nat \ {0}, n <= Unread(h), readp' = [readp EXCEPT ![h] = @ + n],
               handed' = [handed EXCEPT ![h] = @ \o CopyOut(buffer[h], readp[h], n)]
        PROVE  Goal
    <3>1. CASE s = h
      BY <2>1, <2>3, <3>1, ReadHandsOut
    <3>2. CASE s # h
      <4>1. readp'[s] = readp[s] /\ handed'[s] = handed[s]
        BY <2>1, <2>3, <3>2 DEF TypeInv, TypeOK
      <4> HIDE DEF Goal
      <4> QED  BY <1>1, <2>1, <4>1
    <3> QED  BY <3>1, <3>2
  <2> HIDE DEF Goal
  <2> QED  BY <2>1, <2>2, <2>3
<1>4. ASSUME NEW m \in net, RecvEstablished(m) PROVE Goal
  <2> DEFINE d == m.dst
  <2>1. /\ d \in Side /\ UNCHANGED <<readp, handed>>
        /\ \/ UNCHANGED <<szep, buffer, stream>>
           \/ /\ m \in DataSegment /\ Unread(d) + m.len < BufSize
              /\ szep' = [szep EXCEPT ![d] = @ + m.len]
              /\ buffer' = [buffer EXCEPT ![d] = CopyIn(@, szep[d], Payload(m))]
              /\ stream' = [stream EXCEPT ![d] = @ \o Payload(m)]
    BY <1>4, EstablishedStep
  <2>2. CASE UNCHANGED <<szep, buffer, stream>>
    <3> HIDE DEF Goal
    <3> QED  BY <1>1, <2>1, <2>2
  <2>3. CASE /\ m \in DataSegment /\ Unread(d) + m.len < BufSize
             /\ szep' = [szep EXCEPT ![d] = @ + m.len]
             /\ buffer' = [buffer EXCEPT ![d] = CopyIn(@, szep[d], Payload(m))]
             /\ stream' = [stream EXCEPT ![d] = @ \o Payload(m)]
    <3>1. CASE s = d
      BY <2>1, <2>3, <3>1, ArrivesInRing
    <3>2. CASE s # d
      <4>1. szep'[s] = szep[s] /\ buffer'[s] = buffer[s] /\ stream'[s] = stream[s]
        BY <2>1, <2>3, <3>2 DEF TypeInv, TypeOK
      <4> HIDE DEF Goal
      <4> QED  BY <1>1, <2>1, <4>1
    <3> QED  BY <3>1, <3>2
  <2> QED  BY <2>1, <2>2, <2>3
<1>5. ASSUME NEW t \in Thread, ThreadStep(t) PROVE Goal
  <2>1. CASE ReadCall(t) \/ ReadWake(t)
    BY <1>3, <2>1
  <2>2. CASE ~(ReadCall(t) \/ ReadWake(t))
    <3>1. UNCHANGED endpoint
      BY <1>5, <2>2 DEF ThreadStep, WriteCall, WriteAdvance, WriteResend,
                        CloseCall, CloseDone, CloseResend
    <3> QED  BY <1>2, <3>1
  <2> QED  BY <2>1, <2>2
<1>6. ASSUME NEW m \in net, Recv(m) PROVE Goal
  <2>1. CASE RecvEstablished(m)
    BY <1>4, <2>1
  <2>2. CASE ~RecvEstablished(m)
    <3>1. UNCHANGED endpoint
      BY <1>6, <2>2 DEF Recv, RecvFIN, RecvFinAck, Drop
    <3> QED  BY <1>2, <3>1
  <2> QED  BY <2>1, <2>2
<1>7. ASSUME \/ \E m \in net : Lose(m)
             \/ \E p \in Side : TimerTick(p)
             \/ UNCHANGED vars
      PROVE  Goal
  <2>1. UNCHANGED endpoint
    BY <1>7 DEF Lose, TimerTick, vars
  <2> QED  BY <1>2, <2>1
<1> HIDE DEF Goal
<1>8. Goal
  BY <1>5, <1>6, <1>7 DEF Next
<1> QED  BY <1>8 DEF Goal

LEMMA BufferInvariant == Spec => []BufferInv
BY BufferInit, BufferStep, TypeInvariant, StreamInvariant, PTL DEF Spec

(* read hands out the bytes that the handler took, each once and in order,  *)
(* whatever the sizes of segments, reads and ring: where a copy goes on at  *)
(* the start of the ring, and where the ring is full but for one byte.      *)
THEOREM ReadsHandOutTheStream == Spec => []ReadsAreTheStream
<1>1. BufferInv => ReadsAreTheStream
  BY DEF BufferInv
<1> QED  BY <1>1, BufferInvariant, PTL

-----------------------------------------------------------------------------
LEMMA InOrder == TypeInv /\ StreamInv => StreamIntegrity
<1> SUFFICES ASSUME TypeInv, StreamInv, NEW s \in Side,
                    OneWriter(Peer(s)), ~gaveUp[Peer(s)],
                    NEW i \in 1 .. Len(stream[s])
             PROVE  stream[s][i][2] = i
  BY DEF StreamIntegrity
<1>1. Peer(s) \in Side /\ Peer(Peer(s)) = s /\ StreamInStep(Peer(s))
  BY PeerType DEF StreamInv
<1>2. CASE Writers \cap UsersOf(Peer(s)) = {}
  <2>1. Len(stream[s]) = szep[s] - 1 /\ szep[s] = 1
    BY <1>1, <1>2 DEF StreamInStep, StreamInv
  <2> QED  BY <2>1
<1>3. ASSUME NEW t \in Writers \cap UsersOf(Peer(s)) PROVE stream[s][i][2] = i
  BY <1>1, <1>3 DEF StreamInStep, WriterInStep
<1> QED  BY <1>2, <1>3

LEMMA InOrderNext == TypeInv' /\ StreamInv' => StreamIntegrity'
BY InOrder, PTL

(* An end that one thread writes and closes, and whose writes have not      *)
(* given up, has its bytes taken once and in order by the peer, however     *)
(* segments are delayed, repeated or lost.                                  *)
THEOREM StreamArrivesOnceInOrder == Spec => []StreamIntegrity
BY InOrder, TypeInvariant, StreamInvariant, PTL

(* The bytes an untroubled writer has been told are taken are in the peer's *)
(* buffer, each of them.                                                    *)
THEOREM WriteIsTruthful == Spec => []WriteDelivers
<1>1. TypeInv /\ StreamInv => WriteDelivers
  <2> SUFFICES ASSUME TypeInv, StreamInv, NEW t \in Thread, ret[t] = "ok",
                      OneWriter(Host[t]), ~gaveUp[Host[t]], NEW k \in 1 .. given[t]
               PROVE  \E i \in DOMAIN stream[Peer(Host[t])] :
                        stream[Peer(Host[t])][i] = <<t, k>>
    BY DEF WriteDelivers
  <2> DEFINE s == Host[t]
             q == stream[Peer(s)]
  <2>1. s \in Side /\ Peer(s) \in Side /\ t \in Writers /\ call[t].op # "write"
    BY ThreadAssumption, PeerType DEF StreamInv
  <2>2. WriterInStep(s, t)
    BY <2>1 DEF StreamInv, StreamInStep, UsersOf
  <2>3. Len(q) = given[t] /\ \A i \in 1 .. Len(q) : q[i] = <<t, i>>
    BY <2>1, <2>2 DEF WriterInStep, StreamInv, TypeInv, TypeOK
  <2>4. q \in Seq(Thread \X Int)
    BY <2>1 DEF TypeInv, TypeOK
  <2>5. DOMAIN q = 1 .. Len(q)
    <3> HIDE DEF q
    <3> QED  BY <2>4
  <2> QED  BY <2>3, <2>5
<1> QED  BY <1>1, TypeInvariant, StreamInvariant, PTL

(* Where the ends differ, the writer waits for just that chunk.             *)
LEMMA OneChunk ==
  ASSUME TypeInv, AckInv, StreamInv, NEW s \in Side, OneWriter(s), ~gaveUp[s],
         szep[Peer(s)] # writep[s]
  PROVE  \E t \in UsersOf(s) : call[t].op = "write" /\ call[t].nxt = szep[Peer(s)]
<1>1. StreamInStep(s)
  BY DEF StreamInv
<1>2. PICK t \in Writers \cap UsersOf(s) : TRUE
  BY <1>1 DEF StreamInStep
<1>3. WriterInStep(s, t) /\ t \in Thread
  BY <1>1, <1>2, ThreadAssumption DEF StreamInStep
<1>4. call[t] \in WriteInProgress
  BY <1>3, CallType DEF WriterInStep
<1>5. szep[Peer(s)] >= writep[s] /\ szep[Peer(s)] \in Nat /\ writep[s] \in Nat
  BY PeerType DEF TypeInv, TypeOK, AckInv, AckedIsReceived
<1>6. call[t].op = "write" /\ call[t].nxt = szep[Peer(s)]
  BY <1>3, <1>4, <1>5 DEF WriterInStep, WriteInProgress
<1> QED  BY <1>2, <1>6

(* Stop and wait: at most one chunk is between what an end knows delivered  *)
(* and what its peer has taken.                                             *)
THEOREM AtMostOneChunkAhead == Spec => []OneChunkOutstanding
<1>1. TypeInv /\ AckInv /\ StreamInv => OneChunkOutstanding
  BY OneChunk DEF OneChunkOutstanding
<1> QED  BY <1>1, TypeInvariant, AckInvariant, StreamInvariant, PTL

(* No segment moves writep anywhere but to the end of the chunk in hand, so *)
(* that the write waiting for it is the one told.                           *)
THEOREM AcksEndChunks == Spec => AckEndsChunk
<1> DEFINE Moves(s) == /\ state[s] = "ESTABLISHED"
                       /\ OneWriter(s) /\ ~gaveUp[s] =>
                            \E t \in UsersOf(s) :
                               call[t].op = "write" /\ writep'[s] = call[t].nxt
<1>1. ASSUME TypeInv, AckInv, StreamInv, [Next]_vars, NEW s \in Side, writep'[s] # writep[s]
      PROVE  Moves(s)
  <2>1. \A t \in Thread : ~ThreadStep(t)
    BY <1>1 DEF ThreadStep, WriteCall, WriteAdvance, WriteResend, ReadCall, ReadWake,
                CloseCall, CloseDone, CloseResend, endpoint
  <2>2. PICK m \in net : Recv(m)
    BY <1>1, <2>1 DEF Next, Lose, TimerTick, vars, endpoint
  <2>3. RecvEstablished(m)
    BY <1>1, <2>2 DEF Recv, RecvFIN, RecvFinAck, Drop, endpoint
  <2>4. state[s] = "ESTABLISHED"
    BY <1>1, <2>3, EstablishedStep DEF TypeInv, TypeOK
  <2>5. ASSUME OneWriter(s), ~gaveUp[s]
        PROVE  \E t \in UsersOf(s) : call[t].op = "write" /\ writep'[s] = call[t].nxt
    <3>1. StreamInStep(s)
      BY <1>1, <2>5 DEF StreamInv
    <3>2. writep'[s] = szep[Peer(s)]
      BY <1>1, <2>2, <2>5, <3>1, StreamRecv
    <3> QED  BY <1>1, <2>5, <3>2, OneChunk
  <2> QED  BY <2>4, <2>5
<1>2. TypeInv /\ AckInv /\ StreamInv /\ [Next]_vars =>
        [\A s \in Side : writep'[s] # writep[s] => Moves(s)]_vars
  BY <1>1
<1> QED  BY <1>2, TypeInvariant, AckInvariant, StreamInvariant, PTL DEF Spec, AckEndsChunk

-----------------------------------------------------------------------------
(* The end of a connection: FINs are taken in order and their acks are      *)
(* right.                                                                   *)

LEMMA TeardownInit == Init => TeardownInv
<1> SUFFICES ASSUME Init PROVE TeardownInv
  OBVIOUS
<1>1. \A m \in net : ~IsFIN(m) /\ m.dst \in Side /\ m.ack <= 1
  BY DEF Init, Handshake, Control, IsFIN, Side
<1>2. \A s \in Side : /\ szep[Peer(s)] = 1 /\ state[s] = "ESTABLISHED"
                      /\ ~FinIn(s) /\ ~BelievesFinAcked(s)
  BY PeerType DEF Init, FinIn, BelievesFinAcked
<1>3. \A t \in Thread : call[t].op # "close"
  BY DEF Init, Idle
<1> QED  BY <1>1, <1>2, <1>3 DEF TeardownInv, FinsInStep, AckedFinWasTaken

(* An end that has left ESTABLISHED does not come back, and its positions   *)
(* are final; one that has taken the peer's FIN has taken it.               *)
Lasting == \A s \in Side :
  /\ szep[s] <= szep'[s]
  /\ state[s] # "ESTABLISHED" => /\ state'[s] # "ESTABLISHED"
                                 /\ szep'[s] = szep[s] /\ writep'[s] = writep[s]
  /\ FinDone(s) => FinDone(s)'

(* What no step takes back: of a thread, and of an arriving segment.        *)
LEMMA ThreadLasting ==
  ASSUME TypeInv, AckInv, NEW t \in Thread, ThreadStep(t)
  PROVE  Lasting
<1>1. UNCHANGED <<szep, writep>> /\ \A s \in Side : szep[s] \in Nat
  BY DEF ThreadStep, WriteCall, WriteAdvance, WriteResend, ReadCall, ReadWake, CloseCall,
         CloseDone, CloseResend, endpoint, TypeInv, TypeOK
<1>2. \/ state' = state
      \/ state' = [state EXCEPT ![Host[t]] = "LASTACK"]
      \/ state[Host[t]] = "ESTABLISHED" /\ state' = [state EXCEPT ![Host[t]] = "FINWAIT1"]
      \/ state' = [state EXCEPT ![Host[t]] = "CLOSED"]
  <2>1. CASE CloseCall(t)
    BY <2>1 DEF CloseCall
  <2>2. CASE CloseResend(t)
    BY <2>2 DEF CloseResend
  <2> QED  BY <2>1, <2>2 DEF ThreadStep, WriteCall, WriteAdvance, WriteResend, ReadCall, ReadWake, CloseDone
<1> QED  BY <1>1, <1>2 DEF Lasting, FinDone, FinIn, TypeInv, TypeOK

LEMMA RecvLasting ==
  ASSUME TypeInv, NEW m \in net, Recv(m)
  PROVE  Lasting
<1>1. m.dst \in Side /\ m.len \in Nat /\ \A s \in Side : szep[s] \in Nat
  BY SegmentType DEF TypeInv, TypeOK
<1>2. CASE RecvEstablished(m)
  <2>1. /\ state[m.dst] = "ESTABLISHED" /\ state' = state
        /\ \A s \in Side : s # m.dst => writep'[s] = writep[s]
        /\ szep' = szep \/ szep' = [szep EXCEPT ![m.dst] = @ + m.len]
    BY <1>2, EstablishedStep DEF TypeInv, TypeOK
  <2> QED  BY <1>1, <2>1 DEF Lasting, FinDone, FinIn, TypeInv, TypeOK
<1>3. CASE RecvFIN(m) \/ RecvFinAck(m) \/ Drop(m)
  <2>1. UNCHANGED <<szep, writep>>
    BY <1>3 DEF RecvFIN, RecvFinAck, Drop, endpoint
  <2>2. \A s \in Side : state[s] # "ESTABLISHED" => state'[s] # "ESTABLISHED"
    <3>1. CASE RecvFIN(m)
      BY <1>1, <3>1 DEF RecvFIN, TakesFin, FinStates, FinNext, TypeInv, TypeOK
    <3>2. CASE RecvFinAck(m)
      BY <1>1, <3>2 DEF RecvFinAck, TakesFinAck, FinAckStates, FinAckNext, TypeInv, TypeOK
    <3> QED  BY <1>3, <3>1, <3>2 DEF Drop
  <2>3. \A s \in Side : FinDone(s) => FinDone(s)'
    <3>1. CASE RecvFIN(m)
      <4>1. FinNext(state[m.dst]) \in {"CLOSEWAIT", "CLOSING", "TIMEWAIT"}
        BY <3>1 DEF RecvFIN, TakesFin, FinStates, FinNext
      <4> QED  BY <1>1, <3>1, <4>1 DEF RecvFIN, FinDone, FinIn, TypeInv, TypeOK
    <3>2. CASE RecvFinAck(m)
      <4>1. FinDone(m.dst) => FinAckNext(state[m.dst]) \in {"TIMEWAIT", "CLOSED"}
        BY <3>2 DEF RecvFinAck, TakesFinAck, FinAckStates, FinAckNext, FinDone, FinIn
      <4> QED  BY <1>1, <3>2, <4>1 DEF RecvFinAck, FinDone, FinIn, TypeInv, TypeOK
    <3> QED  BY <1>3, <3>1, <3>2 DEF Drop, FinDone, FinIn
  <2> QED  BY <1>1, <2>1, <2>2, <2>3 DEF Lasting
<1> QED  BY <1>2, <1>3 DEF Recv

(* What a step has to see to. *)
LEMMA FinsFrame ==
  ASSUME TypeInv, TypeInv', AckInv, FinsInStep, Lasting,
         \A s \in Side : FinIn(s)' => state[Peer(s)] # "ESTABLISHED",
         \A t \in Thread : call'[t].op = "close" /\ call'[t].passive =>
                             state[Peer(Host[t])] # "ESTABLISHED",
         NEW s \in Side,
         \A m \in net' \ net :
            /\ m.dst = Peer(s)
            /\ IF IsFIN(m) THEN /\ m.seq = writep'[s]
                                /\ m.ack = szep'[s] \/ state'[m.dst] # "ESTABLISHED"
               ELSE m.ack <= szep'[s] \/ FinDone(s)'
  PROVE  FinsInStep'
<1>1. \A q \in Side : FinIn(q)' => state'[Peer(q)] # "ESTABLISHED"
  BY PeerType DEF Lasting
<1>2. \A t \in Thread : call'[t].op = "close" /\ call'[t].passive =>
                          state'[Peer(Host[t])] # "ESTABLISHED"
  BY PeerType, ThreadAssumption DEF Lasting
<1>3. ASSUME NEW m \in net'
      PROVE  LET p == Peer(m.dst) IN
             IF IsFIN(m) THEN /\ m.seq = writep'[p]
                              /\ m.ack = szep'[p] \/ state'[m.dst] # "ESTABLISHED"
             ELSE m.ack <= szep'[p] \/ FinDone(p)'
  <2>1. CASE m \in net
    <3> DEFINE p == Peer(m.dst)
    <3>1. m.dst \in Side /\ p \in Side /\ m.ack \in Nat /\ szep[p] \in Nat
      BY <2>1, SegmentType, PeerType DEF TypeInv, TypeOK
    <3>2. CASE IsFIN(m)
      <4>1. state[p] # "ESTABLISHED"
        BY <2>1, <3>2 DEF AckInv
      <4>2. m.seq = writep[p] /\ (m.ack = szep[p] \/ state[m.dst] # "ESTABLISHED")
        BY <2>1, <3>2 DEF FinsInStep
      <4> QED  BY <3>1, <3>2, <4>1, <4>2 DEF Lasting
    <3>3. CASE ~IsFIN(m)
      <4>1. m.ack <= szep[p] \/ FinDone(p)
        BY <2>1, <3>3 DEF FinsInStep
      <4>2. szep[p] <= szep'[p] /\ (FinDone(p) => FinDone(p)')
        BY <3>1 DEF Lasting
      <4>3. m.ack <= szep[p] => m.ack <= szep'[p]
        <5>1. szep'[p] \in Nat
          BY <3>1 DEF TypeInv, TypeOK
        <5> QED  BY <3>1, <4>2, <5>1
      <4> QED  BY <3>3, <4>1, <4>2, <4>3
    <3> QED  BY <3>2, <3>3
  <2>2. CASE m \notin net
    BY <1>3, <2>2, PeerType
  <2> QED  BY <2>1, <2>2
<1> QED  BY <1>1, <1>2, <1>3 DEF FinsInStep, IsFIN

(* A call keeps FINs in step,                                               *)
LEMMA FinsThread ==
  ASSUME TypeInv, TypeInv', AckInv, FinsInStep, NEW t \in Thread, ThreadStep(t)
  PROVE  FinsInStep'
<1> DEFINE s == Host[t]
<1>1. s \in Side /\ Peer(s) \in Side /\ Peer(Peer(s)) = s /\ szep[s] \in Nat
  BY ThreadAssumption, PeerType DEF TypeInv, TypeOK
<1>2. Lasting
  BY ThreadLasting
<1>3. UNCHANGED <<szep, writep>>
  BY DEF ThreadStep, WriteCall, WriteAdvance, WriteResend, ReadCall, ReadWake, CloseCall,
         CloseDone, CloseResend, endpoint
<1>4. CASE WriteCall(t) \/ WriteAdvance(t) \/ WriteResend(t)
  <2>1. state' = state
    BY <1>4 DEF WriteCall, WriteAdvance, WriteResend
  <2>2. \A m \in net' \ net : m.dst = Peer(s) /\ ~IsFIN(m) /\ m.ack = szep[s]
    BY <1>4 DEF WriteCall, WriteAdvance, WriteResend, StartChunk, Data, IsFIN
  <2>3. \A u \in Thread : call'[u].op = "close" => call'[u] = call[u]
    BY <1>4, WriteCalls
  <2>4. \A p \in Side : FinIn(p)' => FinIn(p)
    BY <2>1 DEF FinIn
  <2>5. \A p \in Side : FinIn(p)' => state[Peer(p)] # "ESTABLISHED"
    BY <2>4 DEF FinsInStep
  <2>6. \A u \in Thread : call'[u].op = "close" /\ call'[u].passive =>
                            state[Peer(Host[u])] # "ESTABLISHED"
    BY <2>3 DEF FinsInStep
  <2>7. \A m \in net' \ net : m.ack <= szep'[s]
    BY <1>1, <1>3, <2>2
  <2> QED  BY <1>1, <1>2, <2>2, <2>5, <2>6, <2>7, FinsFrame
<1>5. CASE ReadCall(t) \/ ReadWake(t)
  <2>1. state' = state /\ net' = net
    BY <1>5 DEF ReadCall, ReadWake
  <2>2. \A u \in Thread : call'[u].op = "close" => call'[u] = call[u]
    BY <1>5, ReadCalls
  <2>3. \A p \in Side : FinIn(p)' => state[Peer(p)] # "ESTABLISHED"
    BY <2>1 DEF FinIn, FinsInStep
  <2>4. \A u \in Thread : call'[u].op = "close" /\ call'[u].passive =>
                            state[Peer(Host[u])] # "ESTABLISHED"
    BY <2>2 DEF FinsInStep
  <2> QED  BY <1>1, <1>2, <2>1, <2>3, <2>4, FinsFrame
<1>6. CASE CloseCall(t) \/ CloseDone(t) \/ CloseResend(t)
  <2>1. \A p \in Side : FinIn(p)' => FinIn(p)
    <3>1. CASE CloseCall(t)
      BY <1>1, <3>1 DEF CloseCall, FinIn, TypeInv, TypeOK
    <3>2. CASE CloseDone(t)
      BY <3>2 DEF CloseDone, FinIn
    <3>3. CASE CloseResend(t)
      <4>1. state' = state \/ state' = [state EXCEPT ![s] = "CLOSED"]
        BY <3>3, Zenon DEF CloseResend
      <4> QED  BY <1>1, <4>1 DEF FinIn, TypeInv, TypeOK
    <3> QED  BY <1>6, <3>1, <3>2, <3>3
  <2>2. \A p \in Side : FinIn(p)' => state[Peer(p)] # "ESTABLISHED"
    BY <2>1 DEF FinsInStep
  <2>3. /\ call'[t].op = "close" /\ call'[t].passive => state[Peer(s)] # "ESTABLISHED"
        /\ \A m \in net' \ net : \E passive \in BOOLEAN :
             /\ passive => state[Peer(s)] # "ESTABLISHED"
             /\ m = Control(Peer(s), "fin", writep[s], IF passive THEN szep[s] + 1 ELSE szep[s])
    <3>1. CASE CloseCall(t)
      <4> DEFINE passive == state[s] = "CLOSEWAIT"
      <4>1. passive => state[Peer(s)] # "ESTABLISHED"
        BY <1>1 DEF FinsInStep, FinIn
      <4>2. net' = net \/ net' = net \cup
              {Control(Peer(s), "fin", writep[s], IF passive THEN szep[s] + 1 ELSE szep[s])}
        BY <3>1, Zenon DEF CloseCall, SendFIN
      <4>3. \/ call' = [call EXCEPT ![t] = Idle]
            \/ call' = [call EXCEPT ![t] = [op |-> "close", passive |-> passive, counter |-> 1]]
        BY <3>1, Zenon DEF CloseCall, Return
      <4>4. call'[t].op = "close" /\ call'[t].passive => passive
        <5>1. \/ call'[t] = Idle
              \/ call'[t] = [op |-> "close", passive |-> passive, counter |-> 1]
          BY <4>3, Zenon DEF TypeInv, TypeOK
        <5>2. CASE call'[t] = Idle
          BY <5>2 DEF Idle
        <5>3. CASE call'[t] = [op |-> "close", passive |-> passive, counter |-> 1]
          <6> HIDE DEF passive
          <6>1. call'[t].passive = passive
            BY <5>3
          <6> QED  BY <6>1, Zenon
        <5> QED  BY <5>1, <5>2, <5>3, Zenon
      <4> QED  BY <4>1, <4>2, <4>4
    <3>2. CASE CloseDone(t)
      BY <3>2, ReturnCall DEF CloseDone
    <3>3. CASE CloseResend(t)
      <4> DEFINE passive == call[t].passive
      <4>1. passive \in BOOLEAN /\ (passive => state[Peer(s)] # "ESTABLISHED")
        BY <3>3, CallType DEF CloseResend, Waiting, CloseInProgress, FinsInStep
      <4>2. net' = net \cup
              {Control(Peer(s), "fin", writep[s], IF passive THEN szep[s] + 1 ELSE szep[s])}
        BY <3>3, Zenon DEF CloseResend, SendFIN
      <4>3. \/ call' = [call EXCEPT ![t] = Idle]
            \/ call' = [call EXCEPT ![t].counter = Counted(call[t])]
        BY <3>3, Zenon DEF CloseResend, Return
      <4>4. call'[t].op = "close" /\ call'[t].passive => passive
        <5>1. call[t] \in CloseInProgress
          BY <3>3, CallType DEF CloseResend, Waiting
        <5>2. call'[t] = Idle \/ call'[t] = [call[t] EXCEPT !.counter = Counted(call[t])]
          BY <4>3 DEF TypeInv, TypeOK
        <5> QED  BY <5>1, <5>2 DEF Idle, CloseInProgress
      <4> QED  BY <4>1, <4>2, <4>4
    <3> QED  BY <1>6, <3>1, <3>2, <3>3
  <2>4. \A u \in Thread : call'[u].op = "close" /\ call'[u].passive =>
                            state[Peer(Host[u])] # "ESTABLISHED"
    BY <1>6, <2>3, CloseCalls DEF FinsInStep
  <2>5. ASSUME NEW m \in net' \ net
        PROVE  /\ m.dst = Peer(s) /\ IsFIN(m) /\ m.seq = writep'[s]
               /\ m.ack = szep'[s] \/ state'[m.dst] # "ESTABLISHED"
    BY <1>1, <1>2, <1>3, <2>3 DEF Control, IsFIN, Lasting
  <2> QED  BY <1>1, <1>2, <2>2, <2>4, <2>5, FinsFrame
<1> QED  BY <1>4, <1>5, <1>6 DEF ThreadStep

(* and so does a segment that arrives.                                      *)
LEMMA FinsRecv ==
  ASSUME TypeInv, TypeInv', AckInv, FinsInStep, NEW m \in net, Recv(m)
  PROVE  FinsInStep'
<1> DEFINE s == m.dst
<1>1. s \in Side /\ Peer(s) \in Side /\ Peer(Peer(s)) = s /\ m.seq \in Nat
  BY SegmentType, PeerType DEF TypeInv, TypeOK
<1>2. Lasting
  BY RecvLasting
<1>3. \A t \in Thread : call'[t].op = "close" /\ call'[t].passive =>
                          state[Peer(Host[t])] # "ESTABLISHED"
  BY DEF Recv, app, FinsInStep
<1>4. \A p \in Side : FinIn(p)' => state[Peer(p)] # "ESTABLISHED"
  <2>1. CASE RecvEstablished(m) \/ Drop(m)
    BY <2>1 DEF RecvEstablished, Drop, FinIn, FinsInStep
  <2>2. CASE RecvFIN(m)
    <3>1. state[Peer(s)] # "ESTABLISHED"
      BY <2>2 DEF RecvFIN, TakesFin, AckInv
    <3>2. \A p \in Side : p # s => state'[p] = state[p]
      BY <1>1, <2>2 DEF RecvFIN, TypeInv, TypeOK
    <3> QED  BY <3>1, <3>2 DEF FinIn, FinsInStep
  <2>3. CASE RecvFinAck(m)
    <3>1. FinAckNext(state[s]) = "TIMEWAIT" => state[s] = "CLOSING"
      BY <2>3 DEF RecvFinAck, TakesFinAck, FinAckStates, FinAckNext
    <3>2. FinAckNext(state[s]) \in {"FINWAIT2", "TIMEWAIT", "CLOSED"}
      BY <2>3 DEF RecvFinAck, TakesFinAck, FinAckStates, FinAckNext
    <3>3. \A p \in Side : state'[p] = IF p = s THEN FinAckNext(state[s]) ELSE state[p]
      BY <1>1, <2>3 DEF RecvFinAck, TypeInv, TypeOK
    <3>4. \A p \in Side : FinIn(p)' => FinIn(p)
      BY <3>1, <3>2, <3>3 DEF FinIn
    <3> QED  BY <3>4 DEF FinsInStep
  <2> QED  BY <2>1, <2>2, <2>3 DEF Recv
<1>5. ASSUME NEW r \in net' \ net
      PROVE  r.dst = Peer(s) /\ ~IsFIN(r) /\ (r.ack <= szep'[s] \/ FinDone(s)')
  <2>1. CASE RecvEstablished(m)
    <3>1. r.dst = Peer(s) /\ ~IsFIN(r) /\ r.ack = szep'[s]
      BY <1>5, <2>1, EstablishedStep
    <3>2. szep'[s] \in Nat
      BY <1>1 DEF TypeInv, TypeOK
    <3> QED  BY <3>1, <3>2
  <2>2. CASE RecvFIN(m)
    <3>1. r = Control(Peer(s), "ack", m.ack, m.seq + 1)
      BY <1>5, <2>2 DEF RecvFIN, Taking
    <3>2. state'[s] \in {"CLOSEWAIT", "CLOSING", "TIMEWAIT"}
      BY <1>1, <2>2 DEF RecvFIN, TakesFin, FinStates, FinNext, TypeInv, TypeOK
    <3> QED  BY <3>1, <3>2 DEF Control, IsFIN, FinDone, FinIn
  <2>3. CASE RecvFinAck(m) \/ Drop(m)
    BY <1>5, <2>3 DEF RecvFinAck, Drop, Taking
  <2> QED  BY <2>1, <2>2, <2>3 DEF Recv
<1>6. \A r \in net' \ net :
        /\ r.dst = Peer(s)
        /\ IF IsFIN(r) THEN /\ r.seq = writep'[s]
                            /\ r.ack = szep'[s] \/ state'[r.dst] # "ESTABLISHED"
           ELSE r.ack <= szep'[s] \/ FinDone(s)'
  BY <1>5
<1> QED  BY <1>1, <1>2, <1>3, <1>4, <1>6, FinsFrame

(* An end that leaves ESTABLISHED has had all its bytes acked, and its peer *)
(* takes no more.                                                           *)
LEMMA StoppedStep ==
  ASSUME TypeInv, AckInv, StreamInv, TeardownInv, SoundWrites, Next,
         NEW s \in Side, state'[s] # "ESTABLISHED"
  PROVE  Stopped(s)'
<1> DEFINE d == Peer(s)
<1>1. d \in Side /\ Peer(d) = s /\ d # s /\ StreamInStep(s) /\ OneWriter(s)
  BY PeerType DEF StreamInv, SoundWrites
<1>2. state[s] # "ESTABLISHED" => Stopped(s)
  BY DEF TeardownInv
<1>3. ASSUME NEW t \in Thread, ThreadStep(t) PROVE Stopped(s)'
  <2>1. UNCHANGED <<szep, writep>> /\ (state'[d] = "ESTABLISHED" => state[d] = "ESTABLISHED")
    BY <1>1, <1>3, ThreadLasting
       DEF Lasting, ThreadStep, WriteCall, WriteAdvance, WriteResend, ReadCall, ReadWake,
           CloseCall, CloseDone, CloseResend, endpoint
  <2>2. CASE state[s] # "ESTABLISHED"
    <3>1. \A u \in UsersOf(s) : call'[u].op = "write" => call[u].op = "write"
      <4>1. CASE WriteCall(t)
        <5>1. Host[t] = s => call' = [call EXCEPT ![t] = Idle]
          BY <2>2, <4>1 DEF WriteCall, Return
        <5>2. Host[t] = s => call'[t].op = "idle"
          BY <5>1 DEF Idle, TypeInv, TypeOK
        <5>3. \A u \in Thread : u # t => call'[u] = call[u]
          BY <4>1, WriteCalls
        <5> QED  BY <5>2, <5>3 DEF UsersOf
      <4>2. CASE WriteAdvance(t) \/ WriteResend(t)
        BY <4>2, WriteCalls DEF WriteAdvance, WriteResend, Waiting, UsersOf
      <4>3. CASE ReadCall(t) \/ ReadWake(t)
        BY <4>3, ReadCalls DEF UsersOf
      <4>4. CASE CloseCall(t) \/ CloseDone(t) \/ CloseResend(t)
        BY <4>4, CloseCalls DEF UsersOf
      <4> QED  BY <1>3, <4>1, <4>2, <4>3, <4>4 DEF ThreadStep
    <3> QED  BY <1>2, <2>1, <2>2, <3>1 DEF Stopped, UsersOf
  <2>3. CASE state[s] = "ESTABLISHED"
    <3>1. CloseCall(t) /\ Host[t] = s
      <4>1. CASE CloseCall(t)
        BY <2>3, <4>1, ThreadAssumption DEF CloseCall, TypeInv, TypeOK
      <4>2. CASE CloseResend(t)
        <5>1. state[Host[t]] # "ESTABLISHED"
          BY <4>2 DEF CloseResend, Waiting, AckInv
        <5>2. state' = state \/ state' = [state EXCEPT ![Host[t]] = "CLOSED"]
          BY <4>2, Zenon DEF CloseResend
        <5> QED  BY <2>3, <5>1, <5>2 DEF TypeInv, TypeOK
      <4> QED  BY <1>3, <2>3, <4>1, <4>2
               DEF ThreadStep, WriteCall, WriteAdvance, WriteResend, ReadCall, ReadWake, CloseDone
    <3>2. \A u \in Writers \cap UsersOf(s) : u = t
      BY <1>1, <3>1, ThreadAssumption DEF CloseCall, OneWriter, UsersOf
    <3>3. call[t].op = "idle" /\ call'[t].op # "write"
      BY <3>1, CloseCalls DEF CloseCall, MayCall
    <3>4. szep[d] = writep[s]
      BY <1>1, <3>2, <3>3 DEF StreamInStep, WriterInStep
    <3> QED  BY <2>1, <3>2, <3>3, <3>4 DEF Stopped, UsersOf
  <2> QED  BY <2>2, <2>3
<1>4. ASSUME NEW m \in net, Recv(m) PROVE Stopped(s)'
  <2>1. call' = call /\ Lasting
    BY <1>4, RecvLasting DEF Recv, app
  <2>2. CASE state[s] # "ESTABLISHED"
    <3>1. Stopped(s) /\ writep'[s] = writep[s]
      BY <1>2, <2>1, <2>2 DEF Lasting
    <3>2. szep'[d] = szep[d]
      <4> SUFFICES ASSUME szep'[d] # szep[d] PROVE FALSE
        OBVIOUS
      <4>1. RecvEstablished(m)
        BY <1>4 DEF Recv, RecvFIN, RecvFinAck, Drop, endpoint
      <4>2. m.dst = d /\ state[d] = "ESTABLISHED" /\ m \in DataSegment /\ m.seq = szep[d]
        BY <1>1, <4>1, EstablishedStep DEF TypeInv, TypeOK
      <4>3. DataInStep(s, m)
        BY <1>1, <4>2 DEF StreamInStep, DataSegment
      <4>4. m.who \in Writers \cap UsersOf(s) /\ call[m.who].op = "write"
        BY <1>1, <4>2, <4>3, ThreadAssumption DEF DataInStep, UsersOf, TypeInv, TypeOK
      <4> QED  BY <3>1, <4>2, <4>4 DEF Stopped
    <3> QED  BY <1>1, <2>1, <3>1, <3>2 DEF Stopped, Lasting, UsersOf
  <2>3. CASE state[s] = "ESTABLISHED"
    <3>1. RecvFIN(m) /\ m.dst = s
      <4>1. \A p \in Side : state'[p] # state[p] => p = m.dst
        BY <1>4 DEF Recv, RecvFIN, RecvFinAck, RecvEstablished, Drop, TypeInv, TypeOK
      <4> QED  BY <1>4, <2>3, <4>1
               DEF Recv, RecvFinAck, TakesFinAck, FinAckStates, RecvEstablished, Drop
    <3>2. m.ack = writep[s] /\ state[d] # "ESTABLISHED"
      BY <2>3, <3>1 DEF RecvFIN, TakesFin, FinFits, AckInv
    <3>3. m.ack = szep[d]
      BY <2>3, <3>1 DEF RecvFIN, TakesFin, TeardownInv, FinsInStep
    <3>4. UNCHANGED <<szep, writep>>
      BY <3>1 DEF RecvFIN, endpoint
    <3> QED  BY <1>1, <2>1, <3>2, <3>3, <3>4 DEF Stopped, Lasting
  <2> QED  BY <2>2, <2>3
<1>5. ASSUME \/ \E m \in net : Lose(m)
             \/ \E p \in Side : TimerTick(p)
      PROVE  Stopped(s)'
  BY <1>2, <1>5 DEF Lose, TimerTick, app, endpoint, Stopped, UsersOf
<1> QED  BY <1>3, <1>4, <1>5 DEF Next

(* An end comes to believe its FIN acked only by an ack for its FIN.        *)
LEMMA BelievesStep ==
  ASSUME TypeInv, AckInv, Next, NEW s \in Side, BelievesFinAcked(s)', ~BelievesFinAcked(s)
  PROVE  \E m \in net : RecvFinAck(m) /\ m.dst = s
<1>1. ASSUME NEW t \in Thread, ThreadStep(t) PROVE FALSE
  <2>1. open'[s] => open[s]
    BY <1>1 DEF ThreadStep, WriteCall, WriteAdvance, WriteResend, ReadCall, ReadWake,
       CloseCall, CloseDone, CloseResend, Erase, TypeInv, TypeOK
  <2>2. state'[s] # state[s] => \/ state'[s] \in {"LASTACK", "FINWAIT1"}
                                \/ state'[s] = "CLOSED" /\ ~open'[s]
    <3>1. CASE CloseCall(t)
      BY <3>1 DEF CloseCall, TypeInv, TypeOK
    <3>2. CASE CloseResend(t)
      <4>1. \/ state' = state
            \/ /\ state' = [state EXCEPT ![Host[t]] = "CLOSED"]
               /\ open' = [open EXCEPT ![Host[t]] = FALSE]
        BY <3>2, Zenon DEF CloseResend, Erase
      <4> QED  BY <4>1 DEF TypeInv, TypeOK
    <3> QED  BY <1>1, <3>1, <3>2
             DEF ThreadStep, WriteCall, WriteAdvance, WriteResend, ReadCall, ReadWake, CloseDone
  <2> QED  BY <2>1, <2>2 DEF BelievesFinAcked
<1>2. ASSUME NEW m \in net, Recv(m) PROVE RecvFinAck(m) /\ m.dst = s
  <2>1. open' = open /\ m.dst \in Side
    BY <1>2, SegmentType DEF Recv, TypeInv, TypeOK
  <2>2. state'[s] # state[s]
    BY <2>1 DEF BelievesFinAcked
  <2>3. ~RecvFIN(m)
    <3> SUFFICES ASSUME RecvFIN(m) PROVE FALSE
      OBVIOUS
    <3>1. m.dst = s /\ state'[s] = FinNext(state[s]) /\ state[s] \in FinStates
      BY <2>1, <2>2 DEF RecvFIN, TakesFin, TypeInv, TypeOK
    <3> QED  BY <3>1 DEF FinNext, FinStates, BelievesFinAcked
  <2>4. RecvFinAck(m)
    BY <1>2, <2>2, <2>3 DEF Recv, RecvEstablished, Drop
  <2> QED  BY <2>1, <2>2, <2>4 DEF RecvFinAck, TypeInv, TypeOK
<1>3. ASSUME \/ \E m \in net : Lose(m)
             \/ \E p \in Side : TimerTick(p)
      PROVE  FALSE
  BY <1>3 DEF Lose, TimerTick, BelievesFinAcked
<1> QED  BY <1>1, <1>2, <1>3 DEF Next

(* The parts together.                                                      *)
LEMMA TeardownStep == TypeInv /\ TypeInv' /\ AckInv /\ StreamInv /\ TeardownInv /\ [Next]_vars
                        => TeardownInv'
<1> SUFFICES ASSUME TypeInv, TypeInv', AckInv, StreamInv, TeardownInv, [Next]_vars
             PROVE  TeardownInv'
  OBVIOUS
<1>1. SoundWrites' => SoundWrites
  BY GaveUpStays DEF SoundWrites, OneWriter, UsersOf
<1>2. CASE UNCHANGED vars
  BY <1>2 DEF vars, app, endpoint, TeardownInv, FinsInStep, Stopped, AckedFinWasTaken, FinDone,
              FinIn, BelievesFinAcked, SoundWrites, OneWriter, UsersOf, IsFIN
<1>3. CASE Next
  <2>1. FinsInStep'
    <3>1. FinsInStep
      BY DEF TeardownInv
    <3>2. CASE \E t \in Thread : ThreadStep(t)
      BY <3>1, <3>2, FinsThread
    <3>3. CASE \E m \in net : Recv(m)
      BY <3>1, <3>3, FinsRecv
    <3>4. ASSUME \/ \E m \in net : Lose(m)
                 \/ \E p \in Side : TimerTick(p)
          PROVE  FinsInStep'
      <4>1. UNCHANGED <<state, szep, writep, call>> /\ net' \subseteq net
        BY <3>4 DEF Lose, TimerTick, app, endpoint
      <4> QED  BY <3>1, <4>1 DEF FinsInStep, FinDone, FinIn, IsFIN
    <3> QED  BY <1>3, <3>2, <3>3, <3>4 DEF Next
  <2>2. SoundWrites' => \A s \in Side : state'[s] # "ESTABLISHED" => Stopped(s)'
    BY <1>1, <1>3, StoppedStep
  <2>3. ASSUME SoundWrites', NEW s \in Side, BelievesFinAcked(s)'
        PROVE  FinDone(Peer(s))'
    <3>1. Lasting
      <4>1. CASE (\E m \in net : Lose(m)) \/ (\E p \in Side : TimerTick(p))
        <5>1. UNCHANGED <<state, szep, writep>> /\ \A p \in Side : szep[p] \in Nat
          BY <4>1 DEF Lose, TimerTick, endpoint, TypeInv, TypeOK
        <5> QED  BY <5>1 DEF Lasting, FinDone, FinIn
      <4> QED  BY <1>3, <4>1, ThreadLasting, RecvLasting DEF Next
    <3>2. CASE BelievesFinAcked(s)
      <4>1. FinDone(Peer(s))
        BY <1>1, <2>3, <3>2 DEF TeardownInv, AckedFinWasTaken, FinDone
      <4> QED  BY <3>1, <4>1, PeerType DEF Lasting
    <3>3. CASE ~BelievesFinAcked(s)
      <4>1. PICK m \in net : RecvFinAck(m) /\ m.dst = s
        BY <1>3, <2>3, <3>3, BelievesStep
      <4>2. state[s] # "ESTABLISHED" /\ ~IsFIN(m) /\ m.ack = writep[s] + 1
        BY <4>1 DEF RecvFinAck, TakesFinAck, FinAckStates, FinAckFits, IsACK, IsFIN
      <4>3. szep[Peer(s)] = writep[s] /\ writep[s] \in Nat
        BY <1>1, <2>3, <4>2 DEF TeardownInv, Stopped, TypeInv, TypeOK
      <4>4. m.ack <= szep[Peer(s)] \/ FinDone(Peer(s))
        BY <4>1, <4>2 DEF TeardownInv, FinsInStep
      <4>5. FinDone(Peer(s))
        BY <4>2, <4>3, <4>4
      <4> QED  BY <3>1, <4>5, PeerType DEF Lasting
    <3> QED  BY <3>2, <3>3
  <2>4. AckedFinWasTaken'
    BY <2>3 DEF AckedFinWasTaken, FinDone
  <2> QED  BY <2>1, <2>2, <2>4 DEF TeardownInv
<1> QED  BY <1>2, <1>3

LEMMA TeardownInvariant == Spec => []TeardownInv
BY TeardownInit, TeardownStep, TypeInvariant, AckInvariant, StreamInvariant, PTL DEF Spec

(* End of file comes after the last byte, and an end that has it has had    *)
(* all its own bytes acked.                                                 *)
THEOREM EofComesLast == Spec => []EofIsComplete
<1>1. TypeInv /\ TeardownInv => EofIsComplete
  <2> SUFFICES ASSUME TypeInv, TeardownInv, NEW s \in Side, SoundWrites, FinIn(s)
               PROVE  szep[s] = writep[Peer(s)] /\ writep[s] = szep[Peer(s)]
    BY DEF EofIsComplete
  <2>1. Peer(s) \in Side /\ Peer(Peer(s)) = s
    BY PeerType
  <2>2. state[s] # "ESTABLISHED" /\ state[Peer(s)] # "ESTABLISHED"
    BY DEF FinIn, TeardownInv, FinsInStep
  <2> QED  BY <2>1, <2>2 DEF TeardownInv, Stopped
<1> QED  BY <1>1, TypeInvariant, TeardownInvariant, PTL

(* An end that believes its FIN acked is right.                             *)
THEOREM FinAcksAreTrue == Spec => []AckedFinWasTaken
<1>1. TeardownInv => AckedFinWasTaken
  BY DEF TeardownInv
<1> QED  BY <1>1, TeardownInvariant, PTL

-----------------------------------------------------------------------------
(* The connection is a ByteStream.  First EndInv. *)

LEMMA EndInit == Init => EndInv
<1> SUFFICES ASSUME Init PROVE EndInv
  OBVIOUS
<1>1. \A m \in net : ~IsFIN(m)
  BY DEF Init, Handshake, Control, IsFIN
<1>2. \A t \in Thread : call[t].op = "idle"
  BY DEF Init, Idle
<1> QED  BY <1>1, <1>2 DEF EndInv, UsersOf

(* An end that has ended has ended for good, and one that has not comes to  *)
(* it in close alone.                                                       *)
LEMMA EndsOnce ==
  ASSUME TypeInv, EndInv, Next, NEW s \in Side
  PROVE  /\ Ended(s) => Ended(s)'
         /\ ~Ended(s) /\ Ended(s)' => \E t \in Closers : /\ CloseCall(t) /\ Host[t] = s
                                                         /\ call[t].op = "idle"
<1>1. ASSUME NEW t \in Thread, ThreadStep(t)
      PROVE  \/ state' = state
             \/ /\ CloseCall(t) /\ t \in Closers /\ call[t].op = "idle"
                /\ \/ state' = [state EXCEPT ![Host[t]] = "LASTACK"]
                   \/ state' = [state EXCEPT ![Host[t]] = "FINWAIT1"]
             \/ Ended(Host[t]) /\ state' = [state EXCEPT ![Host[t]] = "CLOSED"]
  <2>1. CASE CloseCall(t)
    BY <2>1 DEF CloseCall, MayCall
  <2>2. CASE CloseResend(t)
    BY <2>2 DEF CloseResend, Waiting, EndInv
  <2> QED  BY <1>1, <2>1, <2>2
           DEF ThreadStep, WriteCall, WriteAdvance, WriteResend, ReadCall, ReadWake, CloseDone
<1>2. ASSUME NEW m \in net, Recv(m), state' # state
      PROVE  /\ m.dst \in Side
             /\ \/ /\ state' = [state EXCEPT ![m.dst] = FinNext(state[m.dst])]
                   /\ Ended(m.dst) <=> FinNext(state[m.dst]) \notin {"ESTABLISHED", "CLOSEWAIT"}
                \/ /\ state' = [state EXCEPT ![m.dst] = FinAckNext(state[m.dst])]
                   /\ Ended(m.dst) /\ FinAckNext(state[m.dst]) \notin {"ESTABLISHED", "CLOSEWAIT"}
  <2>1. m.dst \in Side
    BY SegmentType DEF TypeInv, TypeOK
  <2>2. CASE RecvFIN(m)
    BY <2>1, <2>2 DEF RecvFIN, TakesFin, FinStates, FinNext, Ended
  <2>3. CASE RecvFinAck(m)
    BY <2>1, <2>3 DEF RecvFinAck, TakesFinAck, FinAckStates, FinAckNext, Ended
  <2> QED  BY <1>2, <2>2, <2>3 DEF Recv, RecvEstablished, Drop
<1>3. CASE \E t \in Thread : ThreadStep(t)
  <2>1. PICK t \in Thread : ThreadStep(t)
    BY <1>3
  <2>2. Host[t] \in Side
    BY ThreadAssumption
  <2>3. CASE state' = state
    BY <2>3 DEF Ended
  <2>4. CASE state' # state
    <3>1. \A p \in Side : p # Host[t] => state'[p] = state[p]
      BY <1>1, <2>1, <2>2, <2>4 DEF TypeInv, TypeOK
    <3>2. state'[Host[t]] \notin {"ESTABLISHED", "CLOSEWAIT"}
      BY <1>1, <2>1, <2>2, <2>4 DEF TypeInv, TypeOK
    <3> QED  BY <1>1, <2>1, <2>4, <3>1, <3>2 DEF Ended
  <2> QED  BY <2>3, <2>4
<1>4. CASE \E m \in net : Recv(m)
  <2>1. PICK m \in net : Recv(m)
    BY <1>4
  <2>2. CASE state' = state
    BY <2>2 DEF Ended
  <2>3. CASE state' # state
    <3>1. \A p \in Side : Ended(p)' <=> Ended(p)
      BY <1>2, <2>1, <2>3 DEF Ended, TypeInv, TypeOK
    <3> QED  BY <3>1
  <2> QED  BY <2>2, <2>3
<1>5. CASE (\E m \in net : Lose(m)) \/ (\E p \in Side : TimerTick(p))
  BY <1>5 DEF Lose, TimerTick, Ended
<1> QED  BY <1>3, <1>4, <1>5 DEF Next

LEMMA EndStep == TypeInv /\ StreamInv /\ EndInv /\ [Next]_vars => EndInv'
<1> SUFFICES ASSUME TypeInv, StreamInv, EndInv, [Next]_vars PROVE EndInv'
  OBVIOUS
<1>1. CASE UNCHANGED vars
  BY <1>1 DEF vars, app, EndInv, Ended, OneWriter, UsersOf, IsFIN
<1>2. CASE Next
  <2>1. \A s \in Side : Ended(s) => Ended(s)'
    BY <1>2, EndsOnce
  <2>2. ASSUME NEW m \in net' PROVE IsFIN(m) => Ended(Peer(m.dst))'
    <3>1. CASE m \in net
      <4>1. Peer(m.dst) \in Side
        BY <3>1, SegmentType, PeerType DEF TypeInv, TypeOK
      <4> QED  BY <2>1, <3>1, <4>1 DEF EndInv
    <3>2. CASE m \notin net
      <4>1. ASSUME NEW t \in Thread, ThreadStep(t), IsFIN(m) PROVE Ended(Peer(m.dst))'
        <5>1. CASE CloseCall(t) \/ CloseResend(t)
          <6>1. m.dst = Peer(Host[t]) /\ Host[t] \in Side
            BY <2>2, <3>2, <5>1, SendFINStep, ThreadAssumption DEF CloseCall, CloseResend
          <6>2. CASE CloseResend(t)
            BY <2>1, <6>1, <6>2, PeerType DEF CloseResend, Waiting, EndInv
          <6>3. CASE CloseCall(t)
            <7>1. state'[Host[t]] \in {"LASTACK", "FINWAIT1"}
              BY <2>2, <3>2, <6>1, <6>3 DEF CloseCall, TypeInv, TypeOK
            <7> QED  BY <6>1, <7>1, PeerType DEF Ended
          <6> QED  BY <5>1, <6>2, <6>3
        <5>2. CASE WriteCall(t) \/ WriteAdvance(t) \/ WriteResend(t)
          BY <2>2, <3>2, <4>1, <5>2
             DEF WriteCall, WriteAdvance, WriteResend, StartChunk, Data, IsFIN
        <5>3. CASE ReadCall(t) \/ ReadWake(t) \/ CloseDone(t)
          BY <2>2, <3>2, <5>3 DEF ReadCall, ReadWake, CloseDone
        <5> QED  BY <4>1, <5>1, <5>2, <5>3 DEF ThreadStep
      <4>2. ASSUME NEW r \in net, Recv(r) PROVE ~IsFIN(m)
        <5>1. CASE RecvEstablished(r)
          BY <2>2, <3>2, <5>1, EstablishedStep
        <5>2. CASE RecvFIN(r) \/ RecvFinAck(r) \/ Drop(r)
          BY <2>2, <3>2, <5>2 DEF RecvFIN, RecvFinAck, Drop, Taking, Control, IsFIN
        <5> QED  BY <4>2, <5>1, <5>2 DEF Recv
      <4> QED  BY <1>2, <2>2, <3>2, <4>1, <4>2 DEF Next, Lose, TimerTick
    <3> QED  BY <3>1, <3>2
  <2>3. ASSUME NEW t \in Thread, call'[t].op = "close" PROVE Ended(Host[t])'
    <3>1. Host[t] \in Side
      BY ThreadAssumption
    <3>2. CASE call[t].op = "close"
      BY <2>1, <3>1, <3>2 DEF EndInv
    <3>3. CASE call[t].op # "close"
      <4>1. CloseCall(t)
        <5>1. ASSUME NEW u \in Thread, ThreadStep(u) PROVE u = t /\ CloseCall(t)
          BY <2>3, <3>3, <5>1, WriteCalls, ReadCalls, CloseCalls
             DEF ThreadStep, CloseDone, CloseResend, Waiting
        <5> QED  BY <1>2, <2>3, <3>3, <5>1 DEF Next, Recv, Lose, TimerTick, app
      <4>2. state' = [state EXCEPT ![Host[t]] =
                        IF state[Host[t]] = "CLOSEWAIT" THEN "LASTACK" ELSE "FINWAIT1"]
        <5>1. ~Return(t, "closed")
          BY <2>3, ReturnCall
        <5> QED  BY <4>1, <5>1, Zenon DEF CloseCall
      <4> QED  BY <3>1, <4>2 DEF Ended, TypeInv, TypeOK
    <3> QED  BY <3>2, <3>3
  <2>4. ASSUME NEW s \in Side, OneWriter(s), NEW t \in UsersOf(s), call'[t].op = "write"
        PROVE  ~Ended(s)'
    <3>1. t \in Thread /\ Host[t] = s
      BY DEF UsersOf
    <3>2. t \in Writers /\ (call[t].op = "write" => ~Ended(s))
      <4>1. call'[t].op = "write" => t \in Writers
        BY <1>2, <3>1, StreamShape
      <4> QED  BY <2>4, <4>1 DEF EndInv
    <3>3. ~Ended(s)
      <4>1. CASE call[t].op # "write"
        <5>1. WriteCall(t)
          <6>1. ASSUME NEW u \in Thread, ThreadStep(u) PROVE u = t /\ WriteCall(t)
            BY <2>4, <3>1, <4>1, <6>1, WriteCalls, ReadCalls, CloseCalls
               DEF ThreadStep, WriteAdvance, WriteResend, Waiting
          <6> QED  BY <1>2, <2>4, <3>1, <4>1, <6>1 DEF Next, Recv, Lose, TimerTick, app
        <5>2. state[s] = "ESTABLISHED"
          BY <2>4, <3>1, <5>1, ReturnCall DEF WriteCall
        <5> QED  BY <5>2 DEF Ended
      <4> QED  BY <3>2, <4>1
    <3>4. ASSUME Ended(s)' PROVE FALSE
      <4>1. PICK u \in Closers : CloseCall(u) /\ Host[u] = s
        BY <1>2, <3>3, <3>4, EndsOnce
      <4>2. u = t
        BY <2>4, <3>1, <3>2, <4>1, ThreadAssumption DEF OneWriter, UsersOf
      <4> QED  BY <2>4, <3>1, <4>1, <4>2, CloseCalls
    <3> QED  BY <3>4
  <2> QED  BY <2>2, <2>3, <2>4 DEF EndInv, OneWriter, UsersOf, IsFIN
<1> QED  BY <1>1, <1>2

LEMMA EndInvariant == Spec => []EndInv
BY EndInit, EndStep, TypeInvariant, StreamInvariant, PTL DEF Spec

(* What an end has put into its stream: all that is acked, or the chunk     *)
(* that its writer waits for.                                               *)
LEMMA PutIs ==
  ASSUME StreamInv, NEW s \in Side, OneWriter(s)
  PROVE  /\ \A t \in UsersOf(s) : call[t].op = "write" => Put(s) = call[t].nxt - 1
         /\ (\A t \in UsersOf(s) : call[t].op # "write") => Put(s) = writep[s] - 1
<1>1. \A t, u \in WritesOf(s) : t = u
  BY DEF WritesOf, UsersOf, StreamInv, OneWriter
<1> QED  BY <1>1 DEF Put, WritesOf

(* The steps of a thread that are not about the chunk of s leave it.        *)
LEMMA PutStays ==
  ASSUME NEW s \in Side, writep'[s] = writep[s],
         \A t \in UsersOf(s) : \/ call'[t] = call[t]
                               \/ call'[t].op # "write" /\ call[t].op # "write"
                               \/ /\ call'[t].op = "write" /\ call[t].op = "write"
                                  /\ call'[t].nxt = call[t].nxt
  PROVE  Put(s)' = Put(s)
<1>1. UsersOf(s)' = UsersOf(s)
  BY DEF UsersOf
<1>2. WritesOf(s)' = WritesOf(s)
  BY <1>1 DEF WritesOf
<1>3. \A t \in WritesOf(s) : call'[t].nxt = call[t].nxt
  BY DEF WritesOf
<1> QED  BY <1>2, <1>3 DEF Put

(* An end whose writer has no chunk out knows all to have arrived.          *)
LEMMA NothingOut ==
  ASSUME TypeInv, StreamInv, SoundWrites, NEW s \in Side,
         \A t \in UsersOf(s) : call[t].op # "write"
  PROVE  Put(s) = writep[s] - 1 /\ szep[Peer(s)] = writep[s]
<1>1. OneWriter(s) /\ StreamInStep(s)
  BY DEF SoundWrites, StreamInv
<1> QED  BY <1>1, PutIs DEF StreamInStep, WriterInStep

(* The bytes taken are the first of what the peer's writer wrote.           *)
LEMMA TakenIs ==
  ASSUME TypeInv, StreamInv, SoundWrites, NEW s \in Side
  PROVE  Numbers(stream[s]) = [i \in 1 .. szep[s] - 1 |-> i] /\ Len(Numbers(stream[s])) = szep[s] - 1
<1>1. \A i \in 1 .. Len(stream[s]) : stream[s][i][2] = i
  BY PeerType, InOrder DEF StreamIntegrity, SoundWrites
<1>2. Len(stream[s]) = szep[s] - 1 /\ szep[s] - 1 \in Nat
  BY DEF StreamInv, TypeInv, TypeOK
<1>3. Numbers(stream[s]) = [i \in 1 .. szep[s] - 1 |-> i]
  BY <1>1, <1>2 DEF Numbers
<1>4. [i \in 1 .. szep[s] - 1 |-> i] \in Seq(Nat)
  BY <1>2
<1> QED  BY <1>2, <1>3, <1>4

(* The bytes read are the first of those.                                   *)
LEMMA HandedIs ==
  TypeInv /\ StreamInv /\ BufferInv /\ SoundWrites =>
    \A s \in Side : /\ Numbers(handed[s]) = [i \in 1 .. readp[s] - 1 |-> i]
                    /\ Len(Numbers(handed[s])) = readp[s] - 1
<1> SUFFICES ASSUME TypeInv, StreamInv, BufferInv, SoundWrites, NEW s \in Side
             PROVE  /\ Numbers(handed[s]) = [i \in 1 .. readp[s] - 1 |-> i]
                    /\ Len(Numbers(handed[s])) = readp[s] - 1
  OBVIOUS
<1>1. \A i \in 1 .. Len(stream[s]) : stream[s][i][2] = i
  BY PeerType, InOrder DEF StreamIntegrity, SoundWrites
<1>2. /\ Len(stream[s]) = szep[s] - 1 /\ szep[s] - 1 \in Nat
      /\ readp[s] - 1 \in 0 .. szep[s] - 1
  BY DEF StreamInv, TypeInv, TypeOK, UnreadIsKept
<1>3. /\ Len(handed[s]) = readp[s] - 1
      /\ \A i \in 1 .. readp[s] - 1 : handed[s][i] = stream[s][i]
  BY DEF BufferInv, ReadsAreTheStream
<1>4. \A i \in 1 .. readp[s] - 1 : handed[s][i][2] = i
  BY <1>1, <1>2, <1>3
<1>5. Numbers(handed[s]) = [i \in 1 .. readp[s] - 1 |-> i]
  BY <1>3, <1>4 DEF Numbers
<1> QED  BY <1>2, <1>5

LEMMA HandedIsNext ==
  TypeInv' /\ StreamInv' /\ BufferInv' /\ SoundWrites' =>
    \A s \in Side : Numbers(handed'[s]) = [i \in 1 .. readp'[s] - 1 |-> i]
<1>1. (TypeInv /\ StreamInv /\ BufferInv /\ SoundWrites =>
         \A s \in Side : /\ Numbers(handed[s]) = [i \in 1 .. readp[s] - 1 |-> i]
                         /\ Len(Numbers(handed[s])) = readp[s] - 1)'
  BY HandedIs, PTL
<1> QED  BY <1>1

-----------------------------------------------------------------------------
(* The steps of ByteStream, in the words of TcpConnection. *)

LEMMA SamePeer == \A s : Stream!Peer(s) = Peer(s)
BY DEF Stream!Peer, Peer

SameSides == \A p \in Side : /\ Put(p)' = Put(p)
                             /\ Ended(p)' = Ended(p)
                             /\ Hears(p)' = Hears(p)

LEMMA Stutters ==
  ASSUME SameSides, UNCHANGED endpoint
  PROVE  UNCHANGED Stream!vars
BY DEF SameSides, endpoint, Stream!vars

LEMMA Puts ==
  ASSUME NEW s \in Side, ~Ended(s), writep[s] - 1 = Put(s),
         NEW n \in 1 .. MSS, Put(s)' = Put(s) + n,
         \A p \in Side : p # s => Put(p)' = Put(p),
         \A p \in Side : Ended(p)' = Ended(p) /\ Hears(p)' = Hears(p),
         UNCHANGED endpoint
  PROVE  Stream!Put(s)
<1>1. [p \in Side |-> Put(p)'] = [[p \in Side |-> Put(p)] EXCEPT ![s] = @ + n]
  OBVIOUS
<1> QED  BY <1>1 DEF Stream!Put, endpoint

LEMMA Arrives ==
  ASSUME NEW s \in Side, Peer(s) \in Side, ~Ended(s), Hears(s) = "on", SameSides,
         handed' = handed,
         \A p \in Side : p # s => writep'[p] = writep[p] /\ stream'[p] = stream[p],
         writep'[s] = writep[s] \/ writep'[s] - 1 = Len(Numbers(stream[Peer(s)])),
         stream'[s] = stream[s] \/ Numbers(stream'[s]) = [i \in 1 .. Put(Peer(s)) |-> i]
  PROVE  Stream!Arrive(s)
<1> DEFINE told  == [p \in Side |-> writep[p] - 1]
           taken == [p \in Side |-> Numbers(stream[p])]
           told2  == [p \in Side |-> writep'[p] - 1]
           taken2 == [p \in Side |-> Numbers(stream'[p])]
<1>1. told2 \in {told, [told EXCEPT ![s] = Len(Numbers(stream[Peer(s)]))]}
  OBVIOUS
<1>2. \A p \in Side : p # s => Numbers(stream'[p]) = Numbers(stream[p])
  BY DEF Numbers
<1>3. stream'[s] = stream[s] => Numbers(stream'[s]) = Numbers(stream[s])
  BY DEF Numbers
<1>4. taken2 \in {taken, [taken EXCEPT ![s] = [i \in 1 .. Put(Peer(s)) |-> i]]}
  BY <1>2, <1>3
<1> QED  BY <1>1, <1>4, SamePeer DEF SameSides, Stream!Arrive, Stream!Bytes

LEMMA Reads ==
  ASSUME NEW s \in Side, SameSides, UNCHANGED <<writep, stream>>,
         \A p \in Side : p # s => handed'[p] = handed[p],
         NEW n \in Len(Numbers(handed[s])) + 1 .. Len(Numbers(stream[s])),
         Numbers(handed'[s]) = [i \in 1 .. n |-> i]
  PROVE  Stream!Read(s)
<1> DEFINE got  == [p \in Side |-> Numbers(handed[p])]
           got2 == [p \in Side |-> Numbers(handed'[p])]
<1>1. got2 = [got EXCEPT ![s] = [i \in 1 .. n |-> i]]
  OBVIOUS
<1>2. n \in Len(got[s]) + 1 .. Len([p \in Side |-> Numbers(stream[p])][s])
  OBVIOUS
<1> QED  BY <1>1, <1>2 DEF SameSides, Stream!Read, Stream!Bytes

LEMMA Ends ==
  ASSUME NEW s \in Side, ~Ended(s), Ended(s)' = TRUE, writep[s] - 1 = Put(s),
         \A p \in Side : Put(p)' = Put(p) /\ Hears(p)' = Hears(p),
         \A p \in Side : p # s => Ended(p)' = Ended(p),
         UNCHANGED endpoint
  PROVE  Stream!End(s)
<1>1. [p \in Side |-> Ended(p)'] = [[p \in Side |-> Ended(p)] EXCEPT ![s] = TRUE]
  BY Zenon
<1> QED  BY <1>1 DEF Stream!End, endpoint

LEMMA HearsEnd ==
  ASSUME NEW s \in Side, Peer(s) \in Side, Hears(s) = "on", Hears(s)' = "ended",
         Ended(Peer(s)),
         Numbers(stream[s]) = [i \in 1 .. Put(Peer(s)) |-> i],
         writep[s] - 1 = Len(Numbers(stream[Peer(s)])),
         \A p \in Side : Put(p)' = Put(p) /\ Ended(p)' = Ended(p),
         \A p \in Side : p # s => Hears(p)' = Hears(p),
         UNCHANGED endpoint
  PROVE  Stream!HearEnd(s)
<1>1. [p \in Side |-> Hears(p)'] = [[p \in Side |-> Hears(p)] EXCEPT ![s] = "ended"]
  OBVIOUS
<1> QED  BY <1>1, SamePeer DEF Stream!HearEnd, Stream!Bytes, endpoint

LEMMA Leaves ==
  ASSUME NEW s \in Side, Ended(s), Hears(s)' = "gone",
         \A p \in Side : Put(p)' = Put(p) /\ Ended(p)' = Ended(p),
         \A p \in Side : p # s => Hears(p)' = Hears(p),
         UNCHANGED endpoint
  PROVE  Stream!Leave(s)
<1>1. [p \in Side |-> Hears(p)'] = [[p \in Side |-> Hears(p)] EXCEPT ![s] = "gone"]
  OBVIOUS
<1> QED  BY <1>1 DEF Stream!Leave, endpoint

-----------------------------------------------------------------------------
(* Every step of the connection is one of ByteStream, or shows nothing. *)

StreamsOn == Stream!Next \/ UNCHANGED Stream!vars

LEMMA StreamsInit == Init => Stream!Init
<1> SUFFICES ASSUME Init PROVE Stream!Init
  OBVIOUS
<1>1. ASSUME NEW s \in Side
      PROVE  /\ Put(s) = 0 /\ writep[s] - 1 = 0
             /\ Numbers(stream[s]) = << >> /\ Numbers(handed[s]) = << >>
             /\ Ended(s) = FALSE /\ Hears(s) = "on"
  <2>1. Put(s) = 0 /\ writep[s] - 1 = 0
    BY DEF Init, Idle, Put, WritesOf, UsersOf
  <2>2. Numbers(stream[s]) = << >> /\ Numbers(handed[s]) = << >>
    BY DEF Init, Numbers
  <2> QED  BY <2>1, <2>2 DEF Init, Ended, Hears, FinIn
<1>2. Stream!Side = Side
  BY DEF Stream!Side, Side
<1> QED  BY <1>1, <1>2, Zenon DEF Stream!Init

(* A new chunk is put into the stream; the rest of write shows nothing.     *)
LEMMA WriteStreams ==
  ASSUME TypeInv, StreamInv, EndInv, SoundWrites, SoundWrites', NEW t \in Thread,
         StreamInv', WriteCall(t) \/ WriteAdvance(t) \/ WriteResend(t)
  PROVE  StreamsOn
<1> DEFINE s == Host[t]
<1>1. s \in Side /\ t \in UsersOf(s) /\ OneWriter(s) /\ OneWriter(s)'
  BY ThreadAssumption DEF UsersOf, SoundWrites
<1>2. UNCHANGED <<state, endpoint>> /\ UNCHANGED writep
  BY DEF WriteCall, WriteAdvance, WriteResend, endpoint
<1>3. \A p \in Side : Ended(p)' = Ended(p) /\ Hears(p)' = Hears(p)
  BY <1>2 DEF Ended, Hears, FinIn
<1>4. \A u \in Thread : u # t => call'[u] = call[u]
  BY WriteCalls
<1>5. \A p \in Side : p # s => Put(p)' = Put(p)
  BY <1>2, <1>4, PutStays DEF UsersOf
<1>6. ASSUME NEW from, NEW n \in Nat \ {0}, NEW start, StartChunk(t, from, n, start),
             ~Ended(s), writep[s] - 1 = Put(s)
      PROVE  StreamsOn
  <2>1. Chunk(n) \in 1 .. MSS /\ writep[s] \in Nat
    BY <1>1, SizeAssumption DEF Chunk, TypeInv, TypeOK
  <2>2. call'[t].op = "write" /\ call'[t].nxt = writep[s] + Chunk(n)
    BY <1>6, StartChunkCall
  <2>3. Put(s)' = call'[t].nxt - 1
    <3>1. \A u, v \in WritesOf(s)' : u = v
      BY <1>1 DEF WritesOf, UsersOf, StreamInv, OneWriter
    <3>2. t \in WritesOf(s)'
      BY <1>1, <2>2 DEF WritesOf, UsersOf
    <3> QED  BY <3>1, <3>2 DEF Put
  <2>4. Put(s)' = Put(s) + Chunk(n)
    BY <1>6, <2>1, <2>2, <2>3
  <2> QED  BY <1>1, <1>2, <1>3, <1>5, <1>6, <2>1, <2>4, Puts DEF StreamsOn, Stream!Next, Stream!Side, Side
<1>7. ASSUME Put(s)' = Put(s) PROVE StreamsOn
  BY <1>2, <1>3, <1>5, <1>7, Stutters DEF SameSides, StreamsOn
<1>8. t \in Writers
  BY DEF WriteCall, WriteAdvance, WriteResend, Waiting, StreamInv
<1>9. \A u \in UsersOf(s) : call[u].op = "write" => u = t
  BY <1>1, <1>8 DEF StreamInv, OneWriter, UsersOf
<1>10. CASE WriteCall(t)
  <2>1. call[t].op = "idle"
    BY <1>10 DEF WriteCall, MayCall
  <2>2. writep[s] - 1 = Put(s)
    BY <1>1, <1>9, <2>1, PutIs
  <2>3. PICK n \in WriteSizes :
          \/ state[s] = "ESTABLISHED" /\ StartChunk(t, given[t] + 1, n, writep[s])
          \/ Return(t, "error")
    BY <1>10 DEF WriteCall
  <2>4. CASE state[s] = "ESTABLISHED" /\ StartChunk(t, given[t] + 1, n, writep[s])
    <3>1. n \in Nat \ {0} /\ ~Ended(s)
      BY <2>4, SizeAssumption DEF Ended
    <3> QED  BY <1>6, <2>2, <2>4, <3>1
  <2>5. CASE Return(t, "error")
    <3>1. call'[t].op = "idle"
      BY <2>5, ReturnCall
    <3> QED  BY <1>1, <1>2, <1>4, <1>7, <2>1, <3>1, PutStays DEF UsersOf
  <2> QED  BY <2>3, <2>4, <2>5
<1>11. CASE WriteAdvance(t)
  <2>1. call[t].op = "write" /\ writep[s] = call[t].nxt
    BY <1>11 DEF WriteAdvance, Waiting, ChunkAcked
  <2>2. writep[s] - 1 = Put(s) /\ ~Ended(s)
    BY <1>1, <2>1, PutIs DEF EndInv
  <2>3. CASE /\ call[t].left > 0
             /\ StartChunk(t, call[t].from + call[t].len, call[t].left, call[t].start)
    <3>1. call[t].left \in Nat \ {0}
      BY <2>1, <2>3, CallType DEF WriteInProgress
    <3> QED  BY <1>6, <2>2, <2>3, <3>1
  <2>4. CASE Return(t, "ok")
    <3>1. call'[t].op = "idle"
      BY <2>4, ReturnCall
    <3>2. WritesOf(s)' = {}
      BY <1>4, <1>9, <3>1 DEF WritesOf, UsersOf
    <3> QED  BY <1>2, <1>7, <2>2, <3>2 DEF Put
  <2> QED  BY <1>11, <2>3, <2>4 DEF WriteAdvance
<1>12. CASE WriteResend(t)
  <2>1. call[t].op = "write"
    BY <1>12 DEF WriteResend, Waiting
  <2>2. call' = [call EXCEPT ![t].counter = Counted(call[t])]
    <3>1. gaveUp' # [gaveUp EXCEPT ![s] = TRUE]
      BY <1>1 DEF SoundWrites, TypeInv, TypeOK
    <3> QED  BY <1>12, <3>1, Zenon DEF WriteResend
  <2>3. call'[t].op = "write" /\ call'[t].nxt = call[t].nxt
    BY <2>1, <2>2, CountedCall
  <2> QED  BY <1>1, <1>2, <1>4, <1>7, <2>1, <2>3, PutStays DEF UsersOf
<1> QED  BY <1>10, <1>11, <1>12

(* read takes some of the bytes that are there. *)
LEMMA ReadStreams ==
  ASSUME TypeInv, StreamInv, BufferInv, SoundWrites, TypeInv', StreamInv', BufferInv',
         SoundWrites', NEW t \in Thread, ReadCall(t) \/ ReadWake(t)
  PROVE  StreamsOn
<1> DEFINE s == Host[t]
<1>1. /\ s \in Side /\ UNCHANGED <<state, szep, writep, buffer, stream>>
      /\ \/ UNCHANGED <<readp, handed>>
         \/ \E n \in Nat \ {0} :
              /\ n <= Unread(s)
              /\ readp' = [readp EXCEPT ![s] = @ + n]
              /\ handed' = [handed EXCEPT ![s] = @ \o CopyOut(buffer[s], readp[s], n)]
  BY ReadStep
<1>2. \A u \in Thread : \/ call'[u] = call[u]
                        \/ call'[u].op # "write" /\ call[u].op # "write"
  <2>1. call'[t].op \in {"read", "idle"} /\ \A u \in Thread : u # t => call'[u] = call[u]
    BY ReadCalls
  <2>2. call[t].op \in {"read", "idle"}
    BY DEF ReadCall, ReadWake, MayCall, Waiting
  <2> QED  BY <2>1, <2>2
<1>3. SameSides
  BY <1>1, <1>2, PutStays DEF SameSides, Ended, Hears, FinIn, UsersOf
<1>4. CASE UNCHANGED <<readp, handed>>
  BY <1>1, <1>3, <1>4, Stutters DEF endpoint, StreamsOn
<1>5. ASSUME NEW n \in Nat \ {0}, n <= Unread(s), readp' = [readp EXCEPT ![s] = @ + n],
             handed' = [handed EXCEPT ![s] = @ \o CopyOut(buffer[s], readp[s], n)]
      PROVE  StreamsOn
  <2>1. /\ readp[s] \in Nat \ {0} /\ szep[s] \in Nat \ {0} /\ readp'[s] = readp[s] + n
        /\ \A p \in Side : p # s => handed'[p] = handed[p]
    BY <1>1, <1>5 DEF TypeInv, TypeOK
  <2>2. /\ Len(Numbers(handed[s])) = readp[s] - 1
        /\ Numbers(handed'[s]) = [i \in 1 .. readp'[s] - 1 |-> i]
    BY <1>1, HandedIs, HandedIsNext
  <2>3. Len(Numbers(stream[s])) = szep[s] - 1
    BY <1>1, TakenIs
  <2> DEFINE k == readp'[s] - 1
  <2>4. k \in Len(Numbers(handed[s])) + 1 .. Len(Numbers(stream[s]))
    BY <1>5, <2>1, <2>2, <2>3 DEF Unread
  <2>5. Stream!Read(s)
    BY <1>1, <1>3, <2>1, <2>2, <2>4, Reads
  <2> QED  BY <1>1, <2>5 DEF StreamsOn, Stream!Next, Stream!Side, Side
<1> QED  BY <1>1, <1>4, <1>5

(* close ends the stream, or forgets one that it has ended. *)
LEMMA CloseStreams ==
  ASSUME TypeInv, StreamInv, EndInv, SoundWrites, NEW t \in Thread,
         CloseCall(t) \/ CloseDone(t) \/ CloseResend(t)
  PROVE  StreamsOn
<1> DEFINE s == Host[t]
<1>1. s \in Side /\ t \in UsersOf(s)
  BY ThreadAssumption DEF UsersOf
<1>2. UNCHANGED endpoint /\ UNCHANGED writep
  BY DEF CloseCall, CloseDone, CloseResend, endpoint
<1>3. \A u \in Thread : \/ call'[u] = call[u]
                        \/ call'[u].op # "write" /\ call[u].op # "write"
  <2>1. call'[t].op \in {"close", "idle"} /\ \A u \in Thread : u # t => call'[u] = call[u]
    BY CloseCalls
  <2>2. call[t].op \in {"close", "idle"}
    BY DEF CloseCall, CloseDone, CloseResend, MayCall, Waiting
  <2> QED  BY <2>1, <2>2
<1>4. \A p \in Side : Put(p)' = Put(p)
  BY <1>2, <1>3, PutStays DEF UsersOf
<1>5. CASE state' = state
  BY <1>2, <1>4, <1>5, Stutters DEF SameSides, Ended, Hears, FinIn, StreamsOn
<1>6. ASSUME NEW st, state' = [state EXCEPT ![s] = st]
      PROVE  /\ state'[s] = st
             /\ \A p \in Side : p # s => Ended(p)' = Ended(p) /\ Hears(p)' = Hears(p)
  <2>1. state'[s] = st /\ \A p \in Side : p # s => state'[p] = state[p]
    BY <1>1, <1>6 DEF TypeInv, TypeOK
  <2> QED  BY <2>1 DEF Ended, Hears, FinIn
<1>7. CASE CloseCall(t) /\ state' # state
  <2>1. \/ state[s] = "ESTABLISHED" /\ state' = [state EXCEPT ![s] = "FINWAIT1"]
        \/ state[s] = "CLOSEWAIT" /\ state' = [state EXCEPT ![s] = "LASTACK"]
    BY <1>7 DEF CloseCall
  <2>2. ~Ended(s) /\ Ended(s)' = TRUE /\ Hears(s)' = Hears(s)
    BY <1>6, <2>1 DEF Ended, Hears, FinIn
  <2>3. \A u \in UsersOf(s) : call[u].op # "write"
    BY <1>1, <1>7 DEF CloseCall, MayCall, SoundWrites, OneWriter, UsersOf, StreamInv
  <2>4. writep[s] - 1 = Put(s)
    BY <1>1, <2>3, NothingOut
  <2>5. \A p \in Side : /\ p # s => Ended(p)' = Ended(p)
                        /\ Hears(p)' = Hears(p)
    BY <1>6, <2>1, <2>2
  <2>6. Stream!End(s)
    BY <1>1, <1>2, <1>4, <2>2, <2>4, <2>5, Ends
  <2> QED  BY <1>1, <2>6 DEF StreamsOn, Stream!Next, Stream!Side, Side
<1>8. CASE CloseResend(t) /\ state' # state
  <2>1. state' = [state EXCEPT ![s] = "CLOSED"]
    BY <1>8, Zenon DEF CloseResend
  <2>2. Ended(s) /\ Ended(s)' = Ended(s) /\ Hears(s)' = "gone"
    <3>1. Ended(s)
      BY <1>8 DEF CloseResend, Waiting, EndInv
    <3>2. state'[s] = "CLOSED"
      BY <1>6, <2>1
    <3> QED  BY <3>1, <3>2 DEF Ended, Hears, FinIn
  <2>3. \A p \in Side : /\ Ended(p)' = Ended(p)
                        /\ p # s => Hears(p)' = Hears(p)
    BY <1>6, <2>1, <2>2
  <2>4. Stream!Leave(s)
    BY <1>1, <1>2, <1>4, <2>2, <2>3, Leaves
  <2> QED  BY <1>1, <2>4 DEF StreamsOn, Stream!Next, Stream!Side, Side
<1> QED  BY <1>5, <1>7, <1>8 DEF CloseDone

(* A segment that comes in order, or an ack. *)
LEMMA ArriveStreams ==
  ASSUME TypeInv, AckInv, StreamInv, StreamInv', TypeInv', SoundWrites, SoundWrites',
         NEW m \in net, Recv(m), RecvEstablished(m)
  PROVE  StreamsOn
<1> DEFINE s == m.dst
           p == Peer(s)
<1>1. /\ s \in Side /\ p \in Side /\ Peer(p) = s /\ p # s
      /\ state[s] = "ESTABLISHED" /\ UNCHANGED <<state, handed, call>>
      /\ \A q \in Side : q # s => writep'[q] = writep[q] /\ stream'[q] = stream[q]
      /\ \/ stream'[s] = stream[s]
         \/ m \in DataSegment /\ m.seq = szep[s] /\ szep'[s] = szep[s] + m.len
  <2>1. s \in Side /\ p \in Side /\ Peer(p) = s /\ p # s
    BY SegmentType, PeerType DEF TypeInv, TypeOK
  <2>2. call' = call
    BY DEF Recv, app
  <2>3. /\ state[s] = "ESTABLISHED" /\ UNCHANGED <<state, handed>>
        /\ writep' = [writep EXCEPT ![s] = Highest(writep[s], m.ack)]
        /\ \/ UNCHANGED <<szep, stream>>
           \/ /\ m \in DataSegment /\ m.seq = szep[s]
              /\ szep' = [szep EXCEPT ![s] = @ + m.len]
              /\ stream' = [stream EXCEPT ![s] = @ \o Payload(m)]
    BY EstablishedStep
  <2>4. \A q \in Side : q # s => writep'[q] = writep[q] /\ stream'[q] = stream[q]
    BY <2>3 DEF TypeInv, TypeOK
  <2>5. \/ stream'[s] = stream[s]
        \/ m \in DataSegment /\ m.seq = szep[s] /\ szep'[s] = szep[s] + m.len
    BY <2>1, <2>3 DEF TypeInv, TypeOK
  <2> QED  BY <2>1, <2>2, <2>3, <2>4, <2>5
<1>2. StreamInStep(s) /\ StreamInStep(p) /\ OneWriter(p)
  BY <1>1 DEF StreamInv, SoundWrites
<1>3. writep'[s] = writep[s] \/ writep'[s] = szep[p]
  BY <1>1, <1>2, StreamRecv DEF SoundWrites
<1>4. ASSUME NEW q \in Side PROVE Put(q)' = Put(q)
  <2>1. CASE writep'[q] = writep[q]
    BY <1>1, <2>1, PutStays
  <2>2. CASE writep'[q] # writep[q]
    <3>1. q = s /\ szep[p] # writep[s]
      BY <1>1, <1>3, <2>2
    <3>2. \E t \in UsersOf(s) : call[t].op = "write"
      BY <1>1, <3>1, NothingOut
    <3>3. WritesOf(s) # {} /\ WritesOf(s)' = WritesOf(s)
      BY <1>1, <3>2 DEF WritesOf, UsersOf
    <3> QED  BY <1>1, <3>1, <3>3 DEF Put
  <2> QED  BY <2>1, <2>2
<1>5. SameSides
  BY <1>1, <1>4 DEF SameSides, Ended, Hears, FinIn
<1>6. writep'[s] = writep[s] \/ writep'[s] - 1 = Len(Numbers(stream[p]))
  BY <1>1, <1>3, TakenIs
<1>7. stream'[s] = stream[s] \/ Numbers(stream'[s]) = [i \in 1 .. Put(p) |-> i]
  <2> SUFFICES ASSUME stream'[s] # stream[s] PROVE Numbers(stream'[s]) = [i \in 1 .. Put(p) |-> i]
    OBVIOUS
  <2>1. m \in DataSegment /\ m.seq = szep[s] /\ szep'[s] = szep[s] + m.len
    BY <1>1
  <2>2. DataInStep(p, m)
    BY <1>1, <1>2, <2>1 DEF StreamInStep, DataSegment
  <2> DEFINE c == call[m.who]
  <2>3. /\ m.who \in Writers \cap UsersOf(p) /\ c.op = "write"
        /\ c.from = szep[s] /\ c.len = m.len
    BY <1>1, <2>1, <2>2, ThreadAssumption, PositionType DEF DataInStep, UsersOf
  <2>4. c.nxt = szep'[s]
    BY <1>2, <2>1, <2>3 DEF StreamInStep, WriterInStep
  <2>5. Put(p) = szep'[s] - 1
    BY <1>1, <1>2, <2>3, <2>4, PutIs
  <2>6. Numbers(stream'[s]) = [i \in 1 .. szep'[s] - 1 |-> i]
    <3>1. StreamIntegrity'
      BY InOrderNext
    <3>2. \A i \in 1 .. Len(stream'[s]) : stream'[s][i][2] = i
      BY <1>1, <3>1 DEF StreamIntegrity, SoundWrites
    <3>3. Len(stream'[s]) = szep'[s] - 1
      BY <1>1 DEF StreamInv
    <3> QED  BY <3>2, <3>3 DEF Numbers
  <2> QED  BY <2>5, <2>6
<1>8. ~Ended(s) /\ Hears(s) = "on"
  BY <1>1 DEF Ended, Hears, FinIn
<1>9. Stream!Arrive(s)
  BY <1>1, <1>5, <1>6, <1>7, <1>8, Arrives
<1> QED  BY <1>1, <1>9 DEF StreamsOn, Stream!Next, Stream!Side, Side

(* A FIN, or the ack of one.                                                *)
LEMMA FinStreams ==
  ASSUME TypeInv, AckInv, StreamInv, TeardownInv, EndInv, TypeInv', TeardownInv',
         SoundWrites, SoundWrites', NEW m \in net, Recv(m), RecvFIN(m) \/ RecvFinAck(m)
  PROVE  StreamsOn
<1> DEFINE s == m.dst
           p == Peer(s)
<1>1. s \in Side /\ p \in Side /\ Peer(p) = s /\ p # s
  BY SegmentType, PeerType DEF TypeInv, TypeOK
<1>2. UNCHANGED endpoint /\ UNCHANGED call /\ UNCHANGED <<szep, writep>>
  BY DEF Recv, RecvFIN, RecvFinAck, app, endpoint
<1>3. \A q \in Side : Put(q)' = Put(q)
  BY <1>2, PutStays
<1>4. ASSUME NEW st, state' = [state EXCEPT ![s] = st]
      PROVE  /\ state'[s] = st
             /\ \A q \in Side : q # s => Ended(q)' = Ended(q) /\ Hears(q)' = Hears(q)
  <2>1. state'[s] = st /\ \A q \in Side : q # s => state'[q] = state[q]
    BY <1>1, <1>4 DEF TypeInv, TypeOK
  <2> QED  BY <2>1 DEF Ended, Hears, FinIn
<1>5. /\ \A q \in Side : q # s => Ended(q)' = Ended(q) /\ Hears(q)' = Hears(q)
      /\ RecvFIN(m) => /\ state[s] \in FinStates /\ state'[s] = FinNext(state[s])
      /\ RecvFinAck(m) => /\ state[s] \in FinAckStates /\ state'[s] = FinAckNext(state[s])
  BY <1>4 DEF RecvFIN, TakesFin, RecvFinAck, TakesFinAck
<1>6. Ended(s)' = Ended(s)
  <2>1. CASE RecvFIN(m)
    BY <1>5, <2>1 DEF FinStates, FinNext, Ended
  <2>2. CASE RecvFinAck(m)
    BY <1>5, <2>2 DEF FinAckStates, FinAckNext, Ended
  <2> QED  BY <2>1, <2>2
<1>7. CASE Hears(s)' = Hears(s)
  BY <1>2, <1>3, <1>5, <1>6, <1>7, Stutters DEF SameSides, StreamsOn
<1>8. CASE RecvFIN(m) /\ Hears(s)' # Hears(s)
  <2>1. Hears(s) = "on" /\ Hears(s)' = "ended" /\ FinIn(s)'
    BY <1>5, <1>8 DEF FinStates, FinNext, Hears, FinIn
  <2>2. Ended(p)
    BY <1>8 DEF RecvFIN, TakesFin, EndInv
  <2>3. szep[s] = writep[p] /\ writep[s] = szep[p]
    <3>1. state'[s] # "ESTABLISHED" /\ state'[p] # "ESTABLISHED"
      BY <1>1, <2>1 DEF FinIn, TeardownInv, FinsInStep
    <3>2. Stopped(s)' /\ Stopped(p)'
      BY <1>1, <3>1 DEF TeardownInv
    <3> QED  BY <1>1, <1>2, <3>2 DEF Stopped
  <2>4. Put(p) = writep[p] - 1
    BY <1>1, <2>2, PutIs DEF EndInv, SoundWrites
  <2>5. Numbers(stream[s]) = [i \in 1 .. Put(p) |-> i] /\ writep[s] - 1 = Len(Numbers(stream[p]))
    BY <1>1, <2>3, <2>4, TakenIs
  <2>6. \A q \in Side : /\ Put(q)' = Put(q) /\ Ended(q)' = Ended(q)
                        /\ q # s => Hears(q)' = Hears(q)
    BY <1>3, <1>5, <1>6
  <2>7. Stream!HearEnd(s)
    BY <1>1, <1>2, <2>1, <2>2, <2>5, <2>6, HearsEnd
  <2> QED  BY <1>1, <2>7 DEF StreamsOn, Stream!Next, Stream!Side, Side
<1>9. CASE RecvFinAck(m) /\ Hears(s)' # Hears(s)
  <2>1. Ended(s) /\ Hears(s)' = "gone"
    BY <1>5, <1>9 DEF FinAckStates, FinAckNext, Hears, FinIn, Ended
  <2>2. \A q \in Side : /\ Put(q)' = Put(q) /\ Ended(q)' = Ended(q)
                        /\ q # s => Hears(q)' = Hears(q)
    BY <1>3, <1>5, <1>6
  <2>3. Stream!Leave(s)
    BY <1>1, <1>2, <2>1, <2>2, Leaves
  <2> QED  BY <1>1, <2>3 DEF StreamsOn, Stream!Next, Stream!Side, Side
<1> QED  BY <1>7, <1>8, <1>9

(* Every step together.                                                     *)
LEMMA StreamsStep ==
  TypeInv /\ AckInv /\ StreamInv /\ BufferInv /\ TeardownInv /\ EndInv
    /\ TypeInv' /\ StreamInv' /\ BufferInv' /\ TeardownInv' /\ [Next]_vars
  => [SoundWrites' => Stream!Next]_(Stream!vars)
<1> SUFFICES ASSUME TypeInv, AckInv, StreamInv, BufferInv, TeardownInv, EndInv,
                    TypeInv', StreamInv', BufferInv', TeardownInv', [Next]_vars, SoundWrites'
             PROVE  StreamsOn
  BY DEF StreamsOn
<1>1. SoundWrites
  BY GaveUpStays DEF SoundWrites, OneWriter, UsersOf
<1>2. ASSUME NEW t \in Thread, ThreadStep(t) PROVE StreamsOn
  <2>1. CASE WriteCall(t) \/ WriteAdvance(t) \/ WriteResend(t)
    BY <1>1, <2>1, WriteStreams
  <2>2. CASE ReadCall(t) \/ ReadWake(t)
    BY <1>1, <2>2, ReadStreams
  <2>3. CASE CloseCall(t) \/ CloseDone(t) \/ CloseResend(t)
    BY <1>1, <2>3, CloseStreams
  <2> QED  BY <1>2, <2>1, <2>2, <2>3 DEF ThreadStep
<1>3. ASSUME UNCHANGED <<state, endpoint, call>> PROVE StreamsOn
  <2>1. UNCHANGED writep
    BY <1>3 DEF endpoint
  <2>2. SameSides
    BY <1>3, <2>1, PutStays DEF SameSides, Ended, Hears, FinIn
  <2> QED  BY <1>3, <2>2, Stutters DEF StreamsOn
<1>4. ASSUME NEW m \in net, Recv(m) PROVE StreamsOn
  <2>1. CASE RecvEstablished(m)
    BY <1>1, <1>4, <2>1, ArriveStreams
  <2>2. CASE RecvFIN(m) \/ RecvFinAck(m)
    BY <1>1, <1>4, <2>2, FinStreams
  <2>3. CASE Drop(m)
    BY <1>3, <1>4, <2>3 DEF Recv, Drop, app
  <2> QED  BY <1>4, <2>1, <2>2, <2>3 DEF Recv
<1>5. CASE (\E m \in net : Lose(m)) \/ (\E p \in Side : TimerTick(p))
  BY <1>3, <1>5 DEF Lose, TimerTick, app
<1>6. CASE UNCHANGED vars
  BY <1>3, <1>6 DEF vars, app
<1> QED  BY <1>2, <1>4, <1>5, <1>6 DEF Next

(* What the two applications see of a connection whose ends have one writer *)
(* each is a stream of bytes each way with an end, for any sizes of segment,*)
(* buffer and message, and whatever the network delays, repeats or loses,   *)
(* until a write gives up.                                                  *)
THEOREM TcpIsByteStream == Spec => IsByteStream
BY StreamsInit, StreamsStep, TypeInvariant, AckInvariant, StreamInvariant, BufferInvariant,
   TeardownInvariant, EndInvariant, PTL DEF Spec, IsByteStream
=============================================================================
