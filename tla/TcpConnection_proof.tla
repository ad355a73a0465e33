------------------------ MODULE TcpConnection_proof -------------------------
(* Theorems about TcpConnection, for every set of threads, every size of    *)
(* segment, buffer and message, and every network the constants describe.   *)
EXTENDS TcpConnection, SequenceTheorems, TLAPS

USE ThreadAssumption, SizeAssumption, NetAssumption

-----------------------------------------------------------------------------
(* The parts the steps are made of have their types. *)

LEMMA PeerType == \A s \in Side : /\ Peer(s) \in Side
                                 /\ Peer(Peer(s)) = s
                                 /\ Peer(s) # s
BY DEF Peer, Side

LEMMA ControlType ==
  ASSUME NEW dst \in Side, NEW kind \in {"ack", "fin"}, NEW seq \in Nat, NEW ack \in Nat
  PROVE  Control(dst, kind, seq, ack) \in Segments
BY DEF Control, Segments, ControlSegment

LEMMA DataType ==
  ASSUME NEW dst \in Side, NEW t \in Thread, NEW seq \in Nat, NEW ack \in Nat,
         NEW from \in Int, NEW len \in Nat \ {0}
  PROVE  Data(dst, t, seq, ack, from, len) \in Segments
BY DEF Data, Segments, DataSegment

LEMMA ChunkType ==
  ASSUME NEW n \in Nat \ {0}
  PROVE  Chunk(n) \in Nat \ {0} /\ Chunk(n) <= n
BY DEF Chunk

LEMMA PayloadType ==
  ASSUME NEW m \in DataSegment
  PROVE  /\ Payload(m) \in Seq(Thread \X Int)
         /\ Len(Payload(m)) = m.len
         /\ \A i \in 1 .. m.len : Payload(m)[i] = <<m.who, m.from + i - 1>>
<1>1. m.len \in Nat /\ m.from \in Int /\ m.who \in Thread
  BY DEF DataSegment
<1>2. \A i \in 1 .. m.len : <<m.who, m.from + i - 1>> \in Thread \X Int
  BY <1>1
<1> QED  BY <1>1, <1>2 DEF Payload

LEMMA SegmentType ==
  ASSUME NEW m \in Segments
  PROVE  /\ m.dst \in Side /\ m.seq \in Nat /\ m.ack \in Nat /\ m.len \in Nat \ {0}
         /\ m.kind \in {"syn", "synack", "ack", "fin", "data"}
         /\ ~IsFIN(m) /\ ~IsACK(m) /\ m.seq # 0 => m \in DataSegment
BY DEF Segments, SynSegment, ControlSegment, DataSegment, IsFIN, IsACK

(* The ring: its places, and what the two copies leave in it or bring out.  *)
LEMMA PlaceType == \A p \in Int : Place(p) \in 0 .. BufSize - 1
BY DEF Place

LEMMA CopyInType ==
  ASSUME NEW r \in [0 .. BufSize - 1 -> Stored], NEW p \in Nat,
         NEW bytes \in Seq(Thread \X Int)
  PROVE  CopyIn(r, p, bytes) \in [0 .. BufSize - 1 -> Stored]
<1> DEFINE pos == Place(p)
           l1  == BufSize - pos
<1>1. pos \in 0 .. BufSize - 1
  BY PlaceType
<1>2. \A k \in 1 .. Len(bytes) : bytes[k] \in Stored
  BY DEF Stored
<1>3. Len(bytes) \in Nat
  OBVIOUS
<1> HIDE DEF pos
<1>4. \A i \in 0 .. BufSize - 1 :
        (IF pos <= i /\ i < pos + Len(bytes) THEN bytes[i - pos + 1]
         ELSE IF i < Len(bytes) - l1 THEN bytes[l1 + i + 1]
         ELSE r[i]) \in Stored
  <2> TAKE i \in 0 .. BufSize - 1
  <2>1. pos <= i /\ i < pos + Len(bytes) => i - pos + 1 \in 1 .. Len(bytes)
    BY <1>1, <1>3
  <2>2. i < Len(bytes) - l1 => l1 + i + 1 \in 1 .. Len(bytes)
    BY <1>1, <1>3
  <2> QED  BY <1>2, <2>1, <2>2
<1>5. CopyIn(r, p, bytes) =
        [i \in 0 .. BufSize - 1 |->
           IF pos <= i /\ i < pos + Len(bytes) THEN bytes[i - pos + 1]
           ELSE IF i < Len(bytes) - l1 THEN bytes[l1 + i + 1]
           ELSE r[i]]
  BY DEF CopyIn, pos
<1> QED  BY <1>4, <1>5

LEMMA CopyOutType ==
  ASSUME NEW r \in [0 .. BufSize - 1 -> Stored], NEW p \in Nat,
         NEW n \in 0 .. BufSize
  PROVE  CopyOut(r, p, n) \in Seq(Stored) /\ Len(CopyOut(r, p, n)) = n
<1> DEFINE pos == Place(p)
           l1  == BufSize - pos
<1>1. pos \in 0 .. BufSize - 1
  BY PlaceType
<1>2. CopyOut(r, p, n) =
        [k \in 1 .. n |-> IF k <= l1 THEN r[pos + k - 1] ELSE r[k - l1 - 1]]
  BY DEF CopyOut
<1> HIDE DEF pos
<1>3. \A k \in 1 .. n :
        (IF k <= l1 THEN r[pos + k - 1] ELSE r[k - l1 - 1]) \in Stored
  <2> TAKE k \in 1 .. n
  <2>1. k <= l1 => pos + k - 1 \in 0 .. BufSize - 1
    BY <1>1
  <2>2. ~(k <= l1) => k - l1 - 1 \in 0 .. BufSize - 1
    BY <1>1
  <2> QED  BY <2>1, <2>2
<1> QED  BY <1>2, <1>3

(* Division with remainder has one result. *)
LEMMA OneRemainder ==
  ASSUME NEW q \in Int, NEW r \in 0 .. BufSize - 1,
         NEW p \in Int, NEW u \in 0 .. BufSize - 1,
         (BufSize * q) + r = (BufSize * p) + u
  PROVE  r = u
<1>1. CASE q >= p + 1
  <2>1. BufSize * q >= BufSize * (p + 1)
    BY <1>1
  <2> QED  BY <2>1
<1>2. CASE p >= q + 1
  <2>1. BufSize * p >= BufSize * (q + 1)
    BY <1>2
  <2> QED  BY <2>1
<1> QED  BY <1>1, <1>2

(* The place of a position up to one round of the ring further on. *)
LEMMA PlaceNear ==
  ASSUME NEW p \in Nat, NEW k \in 0 .. BufSize
  PROVE  Place(p + k) = IF Place(p) + k < BufSize THEN Place(p) + k
                        ELSE Place(p) + k - BufSize
<1> DEFINE q == p \div BufSize
           u == (p + k) \div BufSize
<1>1. q \in Int /\ Place(p) \in 0 .. BufSize - 1 /\ p = (BufSize * q) + Place(p)
  BY DEF Place
<1>2. u \in Int /\ Place(p + k) \in 0 .. BufSize - 1 /\ p + k = (BufSize * u) + Place(p + k)
  BY DEF Place
<1> HIDE DEF q, u
<1>3. CASE Place(p) + k < BufSize
  <2>1. (BufSize * q) + (Place(p) + k) = (BufSize * u) + Place(p + k)
    BY <1>1, <1>2
  <2>2. Place(p) + k \in 0 .. BufSize - 1
    BY <1>1, <1>3
  <2> QED  BY <1>1, <1>2, <1>3, <2>1, <2>2, OneRemainder
<1>4. CASE ~(Place(p) + k < BufSize)
  <2>1. (BufSize * (q + 1)) + (Place(p) + k - BufSize) = (BufSize * u) + Place(p + k)
    BY <1>1, <1>2
  <2>2. Place(p) + k - BufSize \in 0 .. BufSize - 1
    BY <1>1, <1>4
  <2>3. q + 1 \in Int
    BY <1>1
  <2>4. Place(p) + k - BufSize = Place(p + k)
    BY <1>2, <2>1, <2>2, <2>3, OneRemainder
  <2> QED  BY <1>4, <2>4
<1> QED  BY <1>3, <1>4

(* What is copied in is at the places of its positions. *)
LEMMA CopyInNew ==
  ASSUME NEW r, NEW p \in Nat, NEW S, NEW bytes \in Seq(S), NEW q \in Nat,
         Len(bytes) <= BufSize, p <= q, q < p + Len(bytes)
  PROVE  CopyIn(r, p, bytes)[Place(q)] = bytes[q - p + 1]
<1> DEFINE pos == Place(p)
           l1  == BufSize - pos
           i   == Place(q)
<1>1. pos \in 0 .. BufSize - 1 /\ i \in 0 .. BufSize - 1
  <2>1. p \in Int /\ q \in Int
    OBVIOUS
  <2> QED  BY <2>1, PlaceType
<1>2. CopyIn(r, p, bytes)[i] =
        IF pos <= i /\ i < pos + Len(bytes) THEN bytes[i - pos + 1]
        ELSE IF i < Len(bytes) - l1 THEN bytes[l1 + i + 1]
        ELSE r[i]
  BY <1>1 DEF CopyIn
<1>3. i = IF pos + (q - p) < BufSize THEN pos + (q - p) ELSE pos + (q - p) - BufSize
  <2>1. q - p \in 0 .. BufSize /\ p + (q - p) = q
    OBVIOUS
  <2> QED  BY <2>1, PlaceNear
<1> HIDE DEF pos, i
<1>4. CASE pos + (q - p) < BufSize
  <2>1. pos <= i /\ i < pos + Len(bytes) /\ i - pos + 1 = q - p + 1
    BY <1>1, <1>3, <1>4
  <2> QED  BY <1>2, <2>1 DEF i
<1>5. CASE ~(pos + (q - p) < BufSize)
  <2>1. ~(pos <= i) /\ i < Len(bytes) - l1 /\ l1 + i + 1 = q - p + 1
    BY <1>1, <1>3, <1>5
  <2> QED  BY <1>2, <2>1 DEF i
<1> QED  BY <1>4, <1>5

(* Of the bytes before it those stay that there is room for. *)
LEMMA CopyInKept ==
  ASSUME NEW r, NEW p \in Nat, NEW S, NEW bytes \in Seq(S), NEW q \in Nat,
         Len(bytes) <= BufSize, q < p, p - q <= BufSize - Len(bytes)
  PROVE  CopyIn(r, p, bytes)[Place(q)] = r[Place(q)]
<1> DEFINE pos == Place(p)
           l1  == BufSize - pos
           i   == Place(q)
<1>1. pos \in 0 .. BufSize - 1 /\ i \in 0 .. BufSize - 1
  <2>1. p \in Int /\ q \in Int
    OBVIOUS
  <2> QED  BY <2>1, PlaceType
<1>2. CopyIn(r, p, bytes)[i] =
        IF pos <= i /\ i < pos + Len(bytes) THEN bytes[i - pos + 1]
        ELSE IF i < Len(bytes) - l1 THEN bytes[l1 + i + 1]
        ELSE r[i]
  BY <1>1 DEF CopyIn
<1>3. pos = IF i + (p - q) < BufSize THEN i + (p - q) ELSE i + (p - q) - BufSize
  <2>1. p - q \in 0 .. BufSize /\ q + (p - q) = p
    OBVIOUS
  <2> QED  BY <2>1, PlaceNear
<1> HIDE DEF pos, i
<1>4. ~(pos <= i /\ i < pos + Len(bytes)) /\ ~(i < Len(bytes) - l1)
  BY <1>1, <1>3
<1> QED  BY <1>2, <1>4 DEF i

(* What is copied out is what is at the places of its positions.            *)
LEMMA CopyOutPlaces ==
  ASSUME NEW r, NEW p \in Nat, NEW n \in 0 .. BufSize, NEW k \in 1 .. n
  PROVE  CopyOut(r, p, n)[k] = r[Place(p + (k - 1))]
<1> DEFINE pos == Place(p)
           l1  == BufSize - pos
<1>1. pos \in 0 .. BufSize - 1
  BY PlaceType
<1>2. CopyOut(r, p, n)[k] = IF k <= l1 THEN r[pos + k - 1] ELSE r[k - l1 - 1]
  BY DEF CopyOut
<1>3. Place(p + (k - 1)) = IF pos + (k - 1) < BufSize THEN pos + (k - 1)
                           ELSE pos + (k - 1) - BufSize
  <2>1. k - 1 \in 0 .. BufSize
    OBVIOUS
  <2> QED  BY <2>1, PlaceNear
<1> HIDE DEF pos
<1>4. CASE k <= l1
  <2>1. pos + (k - 1) < BufSize /\ pos + k - 1 = pos + (k - 1)
    BY <1>1, <1>4
  <2> QED  BY <1>2, <1>3, <1>4, <2>1
<1>5. CASE ~(k <= l1)
  <2>1. ~(pos + (k - 1) < BufSize) /\ k - l1 - 1 = pos + (k - 1) - BufSize
    BY <1>1, <1>5
  <2> QED  BY <1>2, <1>3, <1>5, <2>1
<1> QED  BY <1>4, <1>5

-----------------------------------------------------------------------------
(* Types, with the bound on the receive buffer that they need: read takes   *)
(* away no more than there is.                                              *)

TypeInv == TypeOK /\ UnreadIsKept

LEMMA TypeInit == Init => TypeInv
<1> SUFFICES ASSUME Init PROVE TypeInv
  OBVIOUS
<1>1. net \subseteq Segments
  BY DEF Init, Handshake, Control, Segments, SynSegment, ControlSegment, Side
<1>2. stream \in [Side -> Seq(Thread \X Int)]
  BY DEF Init
<1>3. UnreadIsKept
  BY DEF Init, UnreadIsKept, Unread
<1>4. call \in [Thread -> Calls]
  BY DEF Init, Calls
<1>5. /\ buffer \in [Side -> [0 .. BufSize - 1 -> Stored]]
      /\ handed \in [Side -> Seq(Stored)]
  BY DEF Init, Stored
<1>6. /\ state \in [Side -> States] /\ ret \in [Thread -> Outcomes]
      /\ given \in [Thread -> Int] /\ lost \in Nat
      /\ open \in [Side -> BOOLEAN] /\ gaveUp \in [Side -> BOOLEAN]
      /\ ARQflag \in [Side -> BOOLEAN]
  BY DEF Init, States, Outcomes
<1>7. /\ readp \in [Side -> Nat \ {0}] /\ szep \in [Side -> Nat \ {0}]
      /\ writep \in [Side -> Nat \ {0}]
  BY DEF Init
<1> QED
  BY <1>1, <1>2, <1>3, <1>4, <1>5, <1>6, <1>7 DEF TypeInv, TypeOK

LEMMA PositionType ==
  ASSUME TypeInv
  PROVE  /\ readp \in [Side -> Nat \ {0}]
         /\ szep \in [Side -> Nat \ {0}]
         /\ writep \in [Side -> Nat \ {0}]
         /\ given \in [Thread -> Int]
         /\ \A s \in Side : readp[s] <= szep[s] /\ szep[s] - readp[s] < BufSize
BY DEF TypeInv, TypeOK, UnreadIsKept, Unread

LEMMA BytesType ==
  ASSUME TypeInv
  PROVE  /\ buffer \in [Side -> [0 .. BufSize - 1 -> Stored]]
         /\ stream \in [Side -> Seq(Thread \X Int)]
         /\ handed \in [Side -> Seq(Stored)]
BY DEF TypeInv, TypeOK

LEMMA CallType ==
  ASSUME TypeInv, NEW t \in Thread
  PROVE  /\ call[t].op = "write" => call[t] \in WriteInProgress
         /\ call[t].op = "read"  => call[t] \in ReadInProgress
         /\ call[t].op = "close" => call[t] \in CloseInProgress
<1>1. call[t] \in Calls
  BY DEF TypeInv, TypeOK
<1>2. CASE call[t] = Idle
  BY <1>2 DEF Idle
<1>3. CASE call[t] \in WriteInProgress
  BY <1>3 DEF WriteInProgress
<1>4. CASE call[t] \in ReadInProgress
  BY <1>4 DEF ReadInProgress
<1>5. CASE call[t] \in CloseInProgress
  BY <1>5 DEF CloseInProgress
<1> QED  BY <1>1, <1>2, <1>3, <1>4, <1>5 DEF Calls

LEMMA StartChunkType ==
  ASSUME TypeInv, NEW t \in Thread, NEW from \in Int, NEW n \in Nat \ {0},
         NEW start \in Nat, StartChunk(t, from, n, start)
  PROVE  call' \in [Thread -> Calls] /\ net' \subseteq Segments
<1> DEFINE s == Host[t]
           c == [op |-> "write", from |-> from, len |-> Chunk(n),
                 left |-> n - Chunk(n), nxt |-> writep[s] + Chunk(n),
                 start |-> start, counter |-> 0]
<1>1. s \in Side /\ Peer(s) \in Side /\ writep[s] \in Nat /\ szep[s] \in Nat
  BY PeerType DEF TypeInv, TypeOK
<1>2. Chunk(n) \in Nat \ {0} /\ Chunk(n) <= n
  BY ChunkType
<1>3. c \in WriteInProgress
  BY <1>1, <1>2 DEF WriteInProgress
<1>4. call' \in [Thread -> Calls]
  BY <1>3 DEF StartChunk, Calls, TypeInv, TypeOK
<1>5. Data(Peer(s), t, writep[s], szep[s], from, Chunk(n)) \in Segments
  BY <1>1, <1>2, DataType
<1> QED
  BY <1>4, <1>5 DEF StartChunk, TypeInv, TypeOK

LEMMA WriteType ==
  ASSUME TypeInv, NEW t \in Thread, WriteCall(t) \/ WriteAdvance(t) \/ WriteResend(t)
  PROVE  TypeInv'
<1> DEFINE s == Host[t]
<1>1. s \in Side /\ Peer(s) \in Side /\ writep[s] \in Nat /\ szep[s] \in Nat
  BY PeerType DEF TypeInv, TypeOK
<1>2. UnreadIsKept'
  <2>1. UNCHANGED <<readp, szep>>
    BY DEF WriteCall, WriteAdvance, WriteResend, endpoint
  <2> QED  BY <2>1 DEF TypeInv, UnreadIsKept, Unread
<1>3. UNCHANGED <<state, readp, szep, writep, buffer, stream, handed, open,
                  ARQflag, lost>>
  BY DEF WriteCall, WriteAdvance, WriteResend, endpoint
<1>4. CASE WriteCall(t)
  <2>1. PICK n \in WriteSizes :
          \/ StartChunk(t, given[t] + 1, n, writep[s]) /\ ret' = [ret EXCEPT ![t] = "none"]
          \/ Return(t, "error") /\ net' = net
    BY <1>4 DEF WriteCall
  <2>2. call' \in [Thread -> Calls] /\ net' \subseteq Segments
    <3>1. n \in Nat \ {0} /\ given[t] + 1 \in Int
      BY DEF TypeInv, TypeOK
    <3>2. CASE StartChunk(t, given[t] + 1, n, writep[s])
      BY <1>1, <3>1, <3>2, StartChunkType
    <3>3. CASE Return(t, "error") /\ net' = net
      BY <3>3 DEF Return, TypeInv, TypeOK, Calls
    <3> QED  BY <2>1, <3>2, <3>3
  <2>3. ret' \in [Thread -> Outcomes] /\ UNCHANGED <<given, gaveUp>>
    BY <1>4, <2>1 DEF WriteCall, Return, TypeInv, TypeOK, Outcomes
  <2> QED  BY <1>2, <1>3, <2>2, <2>3 DEF TypeInv, TypeOK
<1>5. CASE WriteAdvance(t)
  <2>1. call[t] \in WriteInProgress
    BY <1>5, CallType DEF WriteAdvance, Waiting
  <2>2. call' \in [Thread -> Calls] /\ net' \subseteq Segments
    <3>1. CASE /\ call[t].left > 0
               /\ StartChunk(t, call[t].from + call[t].len, call[t].left, call[t].start)
      <4>1. /\ call[t].from + call[t].len \in Int
            /\ call[t].left \in Nat \ {0}
            /\ call[t].start \in Nat
        BY <2>1, <3>1 DEF WriteInProgress
      <4> QED  BY <3>1, <4>1, StartChunkType
    <3>2. CASE Return(t, "ok") /\ net' = net
      BY <3>2 DEF Return, TypeInv, TypeOK, Calls
    <3> QED  BY <1>5, <3>1, <3>2 DEF WriteAdvance
  <2>3. ret' \in [Thread -> Outcomes] /\ UNCHANGED gaveUp
    BY <1>5 DEF WriteAdvance, Return, TypeInv, TypeOK, Outcomes
  <2>4. given' \in [Thread -> Int]
    <3>1. call[t].from + call[t].len - 1 \in Int
      BY <2>1 DEF WriteInProgress
    <3> QED  BY <1>5, <3>1 DEF WriteAdvance, TypeInv, TypeOK
  <2> QED  BY <1>2, <1>3, <2>2, <2>3, <2>4 DEF TypeInv, TypeOK
<1>6. CASE WriteResend(t)
  <2> DEFINE c == call[t]
  <2>1. c \in WriteInProgress
    BY <1>6, CallType DEF WriteResend, Waiting
  <2>2. net' \subseteq Segments
    <3>1. Data(Peer(s), t, writep[s], szep[s], c.from, c.len) \in Segments
      BY <1>1, <2>1, DataType DEF WriteInProgress
    <3> QED  BY <1>6, <3>1 DEF WriteResend, TypeInv, TypeOK
  <2>3. call' \in [Thread -> Calls]
    <3>1. CASE ~Exhausted(Counted(c)) /\ call' = [call EXCEPT ![t].counter = Counted(c)]
      <4>1. [c EXCEPT !.counter = Counted(c)] \in WriteInProgress
        BY <2>1, <3>1 DEF WriteInProgress, Exhausted, Counted
      <4> QED  BY <3>1, <4>1 DEF TypeInv, TypeOK, Calls
    <3>2. CASE Return(t, "short")
      BY <3>2 DEF Return, TypeInv, TypeOK, Calls
    <3> QED  BY <1>6, <3>1, <3>2 DEF WriteResend
  <2>4. ret' \in [Thread -> Outcomes] /\ gaveUp' \in [Side -> BOOLEAN]
    BY <1>1, <1>6 DEF WriteResend, Return, TypeInv, TypeOK, Outcomes
  <2>5. given' \in [Thread -> Int]
    <3>1. given[t] \in Int
      BY DEF TypeInv, TypeOK
    <3>2. given[t] + writep[s] - c.start \in Int
      BY <1>1, <2>1, <3>1 DEF WriteInProgress
    <3> QED  BY <1>6, <3>2 DEF WriteResend, TypeInv, TypeOK
  <2> QED  BY <1>2, <1>3, <2>2, <2>3, <2>4, <2>5 DEF TypeInv, TypeOK
<1> QED  BY <1>4, <1>5, <1>6

LEMMA ReadOutType ==
  ASSUME TypeInv, NEW t \in Thread, NEW n \in Nat \ {0}, ReadOut(t, n), szep' = szep
  PROVE  /\ call' \in [Thread -> Calls] /\ ret' \in [Thread -> Outcomes]
         /\ readp' \in [Side -> Nat \ {0}] /\ UnreadIsKept'
         /\ handed' \in [Side -> Seq(Stored)]
<1> DEFINE s == Host[t]
<1>1. /\ s \in Side /\ readp \in [Side -> Nat \ {0}] /\ szep \in [Side -> Nat \ {0}]
      /\ \A p \in Side : readp[p] <= szep[p] /\ szep[p] - readp[p] < BufSize
  BY DEF TypeInv, TypeOK, UnreadIsKept, Unread
<1>2. call' \in [Thread -> Calls] /\ ret' \in [Thread -> Outcomes]
  BY DEF ReadOut, Return, TypeInv, TypeOK, Calls, Outcomes
<1>3. CASE Unread(s) = 0
  <2>1. readp' = readp /\ handed' = handed
    BY <1>3 DEF ReadOut
  <2> QED  BY <1>1, <1>2, <2>1 DEF UnreadIsKept, Unread, TypeInv, TypeOK
<1>4. CASE Unread(s) # 0
  <2> DEFINE k == IF n < Unread(s) THEN n ELSE Unread(s)
  <2>1. /\ readp' = [readp EXCEPT ![s] = @ + k]
        /\ handed' = [handed EXCEPT ![s] = @ \o CopyOut(buffer[s], readp[s], k)]
    BY <1>4 DEF ReadOut
  <2>2. k \in 0 .. BufSize /\ k <= szep[s] - readp[s]
    BY <1>1 DEF Unread
  <2> HIDE DEF k
  <2>3. handed' \in [Side -> Seq(Stored)]
    <3>1. /\ handed \in [Side -> Seq(Stored)] /\ readp[s] \in Nat
          /\ buffer[s] \in [0 .. BufSize - 1 -> Stored]
      BY <1>1 DEF TypeInv, TypeOK
    <3>2. CopyOut(buffer[s], readp[s], k) \in Seq(Stored)
      BY <2>2, <3>1, CopyOutType
    <3>3. handed[s] \o CopyOut(buffer[s], readp[s], k) \in Seq(Stored)
      BY <1>1, <3>1, <3>2, ConcatProperties
    <3> QED  BY <2>1, <3>1, <3>3
  <2> QED  BY <1>1, <1>2, <2>1, <2>2, <2>3 DEF UnreadIsKept, Unread
<1> QED  BY <1>3, <1>4

LEMMA ReadType ==
  ASSUME TypeInv, NEW t \in Thread, ReadCall(t) \/ ReadWake(t)
  PROVE  TypeInv'
<1>1. UNCHANGED <<state, szep, writep, buffer, stream, open, ARQflag, net,
                  given, gaveUp, lost>>
  BY DEF ReadCall, ReadWake
<1>2. /\ call' \in [Thread -> Calls] /\ ret' \in [Thread -> Outcomes]
      /\ readp' \in [Side -> Nat \ {0}] /\ UnreadIsKept'
      /\ handed' \in [Side -> Seq(Stored)]
  <2>1. CASE ReadCall(t)
    <3>1. PICK n \in ReadSizes :
            \/ /\ call' = [call EXCEPT ![t] = [op |-> "read", size |-> n, counter |-> 1]]
               /\ ret' = [ret EXCEPT ![t] = "none"]
               /\ readp' = readp /\ handed' = handed
            \/ ReadOut(t, n)
      BY <2>1 DEF ReadCall
    <3>2. CASE /\ call' = [call EXCEPT ![t] = [op |-> "read", size |-> n, counter |-> 1]]
               /\ ret' = [ret EXCEPT ![t] = "none"]
               /\ readp' = readp /\ handed' = handed
      <4>1. [op |-> "read", size |-> n, counter |-> 1] \in Calls
        BY DEF Calls, ReadInProgress
      <4> QED  BY <1>1, <3>2, <4>1 DEF TypeInv, TypeOK, Outcomes, UnreadIsKept, Unread
    <3>3. CASE ReadOut(t, n)
      BY <1>1, <3>3, ReadOutType
    <3> QED  BY <3>1, <3>2, <3>3
  <2>2. CASE ReadWake(t)
    <3>1. call[t] \in ReadInProgress
      BY <2>2, CallType DEF ReadWake, Waiting
    <3>2. CASE ~Exhausted(Counted(call[t])) /\ readp' = readp /\ ret' = ret
               /\ handed' = handed
               /\ call' = [call EXCEPT ![t].counter = Counted(call[t])]
      <4>1. [call[t] EXCEPT !.counter = Counted(call[t])] \in ReadInProgress
        BY <3>1, <3>2 DEF ReadInProgress, Exhausted, Counted
      <4> QED  BY <1>1, <3>2, <4>1 DEF TypeInv, TypeOK, Calls, UnreadIsKept, Unread
    <3>3. CASE Return(t, "error") /\ readp' = readp /\ handed' = handed
      BY <1>1, <3>3 DEF Return, TypeInv, TypeOK, Calls, Outcomes, UnreadIsKept, Unread
    <3>4. CASE ReadOut(t, call[t].size)
      <4>1. call[t].size \in Nat \ {0}
        BY <3>1 DEF ReadInProgress
      <4> QED  BY <1>1, <3>4, <4>1, ReadOutType
    <3> QED  BY <2>2, <3>2, <3>3, <3>4 DEF ReadWake
  <2> QED  BY <2>1, <2>2
<1> QED  BY <1>1, <1>2 DEF TypeInv, TypeOK

LEMMA CloseType ==
  ASSUME TypeInv, NEW t \in Thread, CloseCall(t) \/ CloseDone(t) \/ CloseResend(t)
  PROVE  TypeInv'
<1> DEFINE s == Host[t]
<1>1. s \in Side /\ Peer(s) \in Side /\ writep[s] \in Nat /\ szep[s] \in Nat
  BY PeerType DEF TypeInv, TypeOK
<1>2. UNCHANGED <<readp, szep, writep, buffer, stream, handed, ARQflag, given,
                  gaveUp, lost>>
  BY DEF CloseCall, CloseDone, CloseResend, endpoint
<1>3. UnreadIsKept'
  BY <1>2 DEF TypeInv, UnreadIsKept, Unread
<1>4. \A b \in BOOLEAN : SendFIN(s, b) => net' \subseteq Segments
  <2>1. \A ack \in Nat : Control(Peer(s), "fin", writep[s], ack) \in Segments
    BY <1>1, ControlType
  <2> QED  BY <1>1, <2>1 DEF SendFIN, TypeInv, TypeOK
<1>5. open' \in [Side -> BOOLEAN]
  BY DEF CloseCall, CloseDone, CloseResend, Erase, TypeInv, TypeOK
<1>6. ret' \in [Thread -> Outcomes]
  BY DEF CloseCall, CloseDone, CloseResend, Return, TypeInv, TypeOK, Outcomes
<1>7. state' \in [Side -> States] /\ net' \subseteq Segments
  <2>1. state' \in [Side -> States]
    <3>1. \/ state' = state
          \/ state' = [state EXCEPT ![s] = "LASTACK"]
          \/ state' = [state EXCEPT ![s] = "FINWAIT1"]
          \/ state' = [state EXCEPT ![s] = "CLOSED"]
      BY Zenon DEF CloseCall, CloseDone, CloseResend
    <3> QED  BY <1>1, <3>1 DEF TypeInv, TypeOK, States
  <2>2. CASE CloseCall(t)
    <3>1. (state[s] = "CLOSEWAIT") \in BOOLEAN
      OBVIOUS
    <3>2. SendFIN(s, state[s] = "CLOSEWAIT") \/ net' = net
      BY <2>2 DEF CloseCall
    <3> QED  BY <1>4, <2>1, <3>1, <3>2 DEF TypeInv, TypeOK
  <2>3. CASE CloseDone(t)
    BY <2>1, <2>3 DEF CloseDone, TypeInv, TypeOK
  <2>4. CASE CloseResend(t)
    <3>1. call[t].passive \in BOOLEAN
      BY <2>4, CallType DEF CloseResend, Waiting, CloseInProgress
    <3> QED  BY <1>4, <2>1, <2>4, <3>1 DEF CloseResend
  <2> QED  BY <2>2, <2>3, <2>4
<1>8. call' \in [Thread -> Calls]
  <2>1. CASE CloseCall(t)
    <3> DEFINE b == state[s] = "CLOSEWAIT"
               c == [op |-> "close", passive |-> b, counter |-> 1]
    <3>1. c \in Calls
      <4>1. b \in BOOLEAN
        OBVIOUS
      <4> HIDE DEF b
      <4> QED  BY <4>1 DEF Calls, CloseInProgress
    <3>2. Idle \in Calls
      BY DEF Calls
    <3>3. call' = [call EXCEPT ![t] = c] \/ call' = [call EXCEPT ![t] = Idle]
      BY <2>1 DEF CloseCall, Return
    <3> HIDE DEF c
    <3> QED  BY <3>1, <3>2, <3>3 DEF TypeInv, TypeOK
  <2>2. CASE CloseDone(t)
    BY <2>2 DEF CloseDone, Return, TypeInv, TypeOK, Calls
  <2>3. CASE CloseResend(t)
    <3>1. call[t] \in CloseInProgress
      BY <2>3, CallType DEF CloseResend, Waiting
    <3>2. ~Exhausted(Counted(call[t])) =>
            [call[t] EXCEPT !.counter = Counted(call[t])] \in CloseInProgress
      BY <3>1 DEF CloseInProgress, Exhausted, Counted
    <3> QED  BY <2>3, <3>2 DEF CloseResend, Return, TypeInv, TypeOK, Calls
  <2> QED  BY <2>1, <2>2, <2>3
<1> QED  BY <1>2, <1>3, <1>5, <1>6, <1>7, <1>8 DEF TypeInv, TypeOK

LEMMA RecvType ==
  ASSUME TypeInv, NEW m \in net, Recv(m)
  PROVE  TypeInv'
<1> DEFINE s == m.dst
<1>1. m \in Segments /\ s \in Side /\ Peer(s) \in Side /\ m.seq \in Nat /\ m.ack \in Nat
      /\ m.len \in Nat \ {0}
  BY PeerType, SegmentType DEF TypeInv, TypeOK
<1>2. Taking(m) \subseteq Segments
  BY DEF Taking, TypeInv, TypeOK
<1>3. UNCHANGED <<open, call, ret, given, gaveUp, lost>>
  BY DEF Recv, app
<1>4. CASE RecvFIN(m)
  <2>1. Control(Peer(s), "ack", m.ack, m.seq + 1) \in Segments
    BY <1>1, ControlType
  <2>2. net' \subseteq Segments
    BY <1>2, <1>4, <2>1 DEF RecvFIN
  <2>3. state' \in [Side -> States]
    <3>1. FinNext(state[s]) \in States
      BY <1>4 DEF RecvFIN, TakesFin, FinStates, FinNext, States
    <3> QED  BY <1>1, <1>4, <3>1 DEF RecvFIN, TypeInv, TypeOK
  <2>4. UNCHANGED <<readp, szep, writep, buffer, stream, handed, ARQflag>>
    BY <1>4 DEF RecvFIN, endpoint
  <2> QED  BY <1>3, <2>2, <2>3, <2>4 DEF TypeInv, TypeOK, UnreadIsKept, Unread
<1>5. CASE RecvFinAck(m)
  <2>1. state' \in [Side -> States]
    <3>1. FinAckNext(state[s]) \in States
      BY <1>5 DEF RecvFinAck, TakesFinAck, FinAckStates, FinAckNext, States
    <3> QED  BY <1>1, <1>5, <3>1 DEF RecvFinAck, TypeInv, TypeOK
  <2>2. UNCHANGED <<readp, szep, writep, buffer, stream, handed, ARQflag>> /\ net' \subseteq Segments
    BY <1>2, <1>5 DEF RecvFinAck, endpoint
  <2> QED  BY <1>3, <2>1, <2>2 DEF TypeInv, TypeOK, UnreadIsKept, Unread
<1>6. CASE RecvEstablished(m)
  <2> DEFINE acked == Highest(writep[s], m.ack)
  <2>1. acked \in Nat \ {0}
    BY <1>1 DEF Highest, TypeInv, TypeOK
  <2>2. writep' \in [Side -> Nat \ {0}] /\ UNCHANGED <<state, readp, handed>>
    BY <1>6, <2>1 DEF RecvEstablished, TypeInv, TypeOK
  <2>3. CASE IsACK(m) /\ net' = Taking(m) /\ UNCHANGED <<szep, buffer, stream, ARQflag>>
    BY <1>2, <1>3, <2>2, <2>3 DEF TypeInv, TypeOK, UnreadIsKept, Unread
  <2>4. ASSUME szep'[s] \in Nat
        PROVE  Control(Peer(s), "ack", acked, szep'[s]) \in Segments
    <3> HIDE DEF acked
    <3> QED  BY <1>1, <2>1, <2>4, ControlType
  <2>5. CASE /\ ~IsACK(m) /\ ~Accepts(m) /\ UNCHANGED <<szep, buffer, stream>>
             /\ ARQflag' = [ARQflag EXCEPT ![s] = FALSE]
    <3>1. net' \subseteq Segments
      <4>1. szep'[s] \in Nat
        BY <1>1, <2>5 DEF TypeInv, TypeOK
      <4> QED  BY <1>2, <1>6, <2>4, <2>5, <4>1 DEF RecvEstablished
    <3> QED  BY <1>3, <2>2, <2>5, <3>1 DEF TypeInv, TypeOK, UnreadIsKept, Unread
  <2>6. CASE /\ ~IsACK(m) /\ Accepts(m)
             /\ szep' = [szep EXCEPT ![s] = @ + m.len]
             /\ buffer' = [buffer EXCEPT ![s] = CopyIn(@, szep[s], Payload(m))]
             /\ stream' = [stream EXCEPT ![s] = @ \o Payload(m)]
             /\ ARQflag' = [ARQflag EXCEPT ![s] = FALSE]
             /\ net' = Taking(m) \cup {Control(Peer(s), "ack", acked, szep'[s])}
    <3>1. szep' \in [Side -> Nat \ {0}] /\ szep'[s] = szep[s] + m.len
      <4>1. szep \in [Side -> Nat \ {0}]
        BY DEF TypeInv, TypeOK
      <4> QED  BY <1>1, <2>6, <4>1
    <3>2. net' \subseteq Segments
      BY <1>1, <1>2, <2>4, <2>6, <3>1
    <3>3. /\ stream' \in [Side -> Seq(Thread \X Int)]
          /\ buffer' \in [Side -> [0 .. BufSize - 1 -> Stored]]
      <4>1. m.seq # 0
        BY <1>1, <2>6 DEF Accepts, TypeInv, TypeOK
      <4>2. m \in DataSegment
        BY <1>1, <1>6, <2>6, <4>1, SegmentType DEF RecvEstablished, TakesInOrder
      <4>3. stream[s] \in Seq(Thread \X Int) /\ Payload(m) \in Seq(Thread \X Int)
        BY <1>1, <4>2, PayloadType DEF TypeInv, TypeOK
      <4>4. stream[s] \o Payload(m) \in Seq(Thread \X Int)
        BY <4>3, ConcatProperties
      <4>5. CopyIn(buffer[s], szep[s], Payload(m)) \in [0 .. BufSize - 1 -> Stored]
        BY <1>1, <4>3, CopyInType DEF TypeInv, TypeOK
      <4> QED  BY <1>1, <2>6, <4>4, <4>5 DEF TypeInv, TypeOK
    <3>4. UnreadIsKept'
      <4>1. szep[s] - readp[s] + m.len < BufSize
        BY <2>6 DEF Accepts, Unread
      <4>2. /\ readp \in [Side -> Nat \ {0}] /\ szep \in [Side -> Nat \ {0}]
            /\ \A p \in Side : readp[p] <= szep[p] /\ szep[p] - readp[p] < BufSize
        BY DEF TypeInv, TypeOK, UnreadIsKept, Unread
      <4>3. readp' = readp /\ szep' = [szep EXCEPT ![s] = @ + m.len]
        BY <2>2, <2>6
      <4> QED  BY <1>1, <4>1, <4>2, <4>3 DEF UnreadIsKept, Unread
    <3> QED  BY <1>3, <2>2, <2>6, <3>1, <3>2, <3>3, <3>4 DEF TypeInv, TypeOK
  <2> QED  BY <1>6, <2>3, <2>5, <2>6 DEF RecvEstablished
<1>7. CASE Drop(m)
  BY <1>2, <1>3, <1>7 DEF Drop, endpoint, TypeInv, TypeOK, UnreadIsKept, Unread
<1> QED  BY <1>4, <1>5, <1>6, <1>7 DEF Recv

LEMMA TypeStep == TypeInv /\ [Next]_vars => TypeInv'
<1> SUFFICES ASSUME TypeInv, [Next]_vars PROVE TypeInv'
  OBVIOUS
<1>1. ASSUME NEW t \in Thread, ThreadStep(t) PROVE TypeInv'
  BY <1>1, WriteType, ReadType, CloseType DEF ThreadStep
<1>2. ASSUME NEW m \in net, Recv(m) PROVE TypeInv'
  BY <1>2, RecvType
<1>3. ASSUME NEW m \in net, Lose(m) PROVE TypeInv'
  BY <1>3 DEF Lose, app, endpoint, TypeInv, TypeOK, UnreadIsKept, Unread
<1>4. ASSUME NEW s \in Side, TimerTick(s) PROVE TypeInv'
  BY <1>4 DEF TimerTick, app, endpoint, TypeInv, TypeOK, UnreadIsKept, Unread
<1>5. CASE UNCHANGED vars
  BY <1>5 DEF vars, app, endpoint, TypeInv, TypeOK, UnreadIsKept, Unread
<1> QED  BY <1>1, <1>2, <1>3, <1>4, <1>5 DEF Next

LEMMA TypeInvariant == Spec => []TypeInv
BY TypeInit, TypeStep, PTL DEF Spec

(* Every variable keeps its type in every run.                              *)
THEOREM TypeCorrect == Spec => []TypeOK
<1>1. TypeInv => TypeOK
  BY DEF TypeInv
<1> QED  BY <1>1, TypeInvariant, PTL

(* The handler accepts no byte for which read has not made room             *)
(* (tcp.cpp:385): a byte in the ring is never overwritten before it is read.*)
THEOREM BufferNeverOverrun == Spec => []UnreadIsKept
<1>1. TypeInv => UnreadIsKept
  BY DEF TypeInv
<1> QED  BY <1>1, TypeInvariant, PTL
=============================================================================
