-------------------------- MODULE Handshake_proof ---------------------------
(* Handshake is proved for any clients and any backlog, over a network that *)
(* delays, repeats, reorders and loses.  Liveness stays with TLC.           *)
EXTENDS Handshake, FiniteSetTheorems, TLAPS

(* connTrying_set is finite, and grows by one entry where there is a place  *)
(* for it.                                                                  *)
LEMMA TryingIsFinite == TypeOK => IsFiniteSet(Trying)
BY HandshakeAssumption, FS_Subset DEF TypeOK, Trying

LEMMA PlaceForOne ==
  ASSUME TypeOK, NEW c \in Client, HasPlace(c)
  PROVE  Cardinality(Trying \cup {c}) <= Backlog
<1>1. IsFiniteSet(Trying)
  BY TryingIsFinite
<1>2. Cardinality(Trying) \in Nat
  BY <1>1, FS_CardinalityType
<1>3. CASE c \in Trying
  <2>1. Trying \cup {c} = Trying
    BY <1>3
  <2> QED
    BY <2>1 DEF TypeOK
<1>4. CASE c \notin Trying
  <2>1. Cardinality(Trying \cup {c}) = Cardinality(Trying) + 1
    BY <1>1, <1>4, FS_AddElement
  <2>2. Cardinality(Trying) < Backlog
    BY <1>4 DEF HasPlace, Trying
  <2> QED
    BY <1>2, <2>1, <2>2, HandshakeAssumption
<1> QED
  BY <1>3, <1>4

LEMMA FewerTrying ==
  ASSUME TypeOK, NEW T, T \subseteq Trying
  PROVE  Cardinality(T) <= Backlog
<1>1. IsFiniteSet(Trying)
  BY TryingIsFinite
<1>2. Cardinality(T) <= Cardinality(Trying)
  BY <1>1, FS_Subset
<1>3. Cardinality(T) \in Nat /\ Cardinality(Trying) \in Nat
  BY <1>1, FS_Subset, FS_CardinalityType
<1> QED
  BY <1>2, <1>3, HandshakeAssumption DEF TypeOK

-----------------------------------------------------------------------------
LEMMA InvInit == Init => Inv
<1> SUFFICES ASSUME Init PROVE Inv
  OBVIOUS
<1> USE DEF Init
<1>1. TypeOK
  <2>1. Trying = {}
    BY DEF Trying
  <2>2. Cardinality(Trying) = 0
    BY <2>1, FS_EmptySet
  <2> QED
    BY <2>2, HandshakeAssumption DEF TypeOK, States, Phases, TryStates, End
<1>2. AcceptedIsEstablished /\ ConnectedIsKnown
  BY DEF AcceptedIsEstablished, ConnectedIsKnown
<1>3. FirstBytesKept
  BY DEF FirstBytesKept, End
<1>4. \A c \in Client : ClientInv(c) /\ ServerInv(c)
  BY DEF ClientInv, ServerInv, End
<1> QED
  BY <1>1, <1>2, <1>3, <1>4 DEF Inv

-----------------------------------------------------------------------------
(* The applications' steps.                                                 *)

LEMMA ConnectStep ==
  ASSUME Inv, NEW c \in Client, Connect(c)
  PROVE  Inv'
<1> USE DEF Inv, Connect
<1>1. TypeOK'
  BY DEF TypeOK, States, Phases, Segments, SYN, Segment, End, Trying
<1>2. AcceptedIsEstablished' /\ ConnectedIsKnown' /\ FirstBytesKept'
  BY DEF AcceptedIsEstablished, ConnectedIsKnown, FirstBytesKept, TypeOK, ClientInv
<1>3. ASSUME NEW m \in net' PROVE SegmentInv(m)'
  BY DEF SegmentInv, SYN, SYNACK, Segment, TypeOK, Known, Segments, ClientInv
<1>4. ASSUME NEW d \in Client PROVE ClientInv(d)' /\ ServerInv(d)'
  BY DEF ClientInv, ServerInv, TypeOK
<1> QED
  BY <1>1, <1>2, <1>3, <1>4

LEMMA ConnectResendStep ==
  ASSUME Inv, NEW c \in Client, ConnectResend(c)
  PROVE  Inv'
<1> USE DEF Inv, ConnectResend
<1>1. TypeOK'
  BY DEF TypeOK, Segments, SYN, Segment, End, Trying
<1>2. AcceptedIsEstablished' /\ ConnectedIsKnown' /\ FirstBytesKept'
  BY DEF AcceptedIsEstablished, ConnectedIsKnown, FirstBytesKept
<1>3. ASSUME NEW m \in net' PROVE SegmentInv(m)'
  BY DEF SegmentInv, SYN, SYNACK, Segment, Known
<1>4. ASSUME NEW d \in Client PROVE ClientInv(d)' /\ ServerInv(d)'
  BY DEF ClientInv, ServerInv
<1> QED
  BY <1>1, <1>2, <1>3, <1>4

(* connect sets the positions of an end whose szep is still 0.              *)
LEMMA ConnectReturnsStep ==
  ASSUME Inv, NEW c \in Client, ConnectReturns(c)
  PROVE  Inv'
<1> USE DEF Inv, ConnectReturns
<1>1. TypeOK'
  BY DEF TypeOK, Phases, End, Trying, At
<1>2. AcceptedIsEstablished' /\ ConnectedIsKnown'
  BY DEF AcceptedIsEstablished, ConnectedIsKnown
<1>3. \A e \in End, d \in Client : szep[e][d] = 2 => szep'[e][d] = 2
  BY DEF TypeOK, At, End, ClientInv
<1>4. \A e \in End, d \in Client : writep'[e][d] = 2 => writep[e][d] = 2
  BY DEF TypeOK, At, End
<1>5. FirstBytesKept'
  BY <1>3, <1>4 DEF FirstBytesKept, Other, End
<1>6. ASSUME NEW m \in net' PROVE SegmentInv(m)'
  BY <1>3 DEF SegmentInv, SYN, SYNACK, Segment, TypeOK, Known, Segments, Other, End
<1>7. ASSUME NEW d \in Client PROVE ClientInv(d)' /\ ServerInv(d)'
  BY DEF ClientInv, ServerInv, TypeOK, At, End
<1> QED
  BY <1>1, <1>2, <1>5, <1>6, <1>7

LEMMA ClientWritesStep ==
  ASSUME Inv, NEW c \in Client, ClientWrites(c)
  PROVE  Inv'
<1> USE DEF Inv, ClientWrites
<1>1. TypeOK'
  BY DEF TypeOK, Phases, Segments, Segment, End, Trying
<1>2. AcceptedIsEstablished' /\ ConnectedIsKnown' /\ FirstBytesKept'
  BY DEF AcceptedIsEstablished, ConnectedIsKnown, FirstBytesKept
<1>3. ASSUME NEW m \in net' PROVE SegmentInv(m)'
  BY DEF SegmentInv, SYN, SYNACK, Segment, Known, ClientInv, Other
<1>4. ASSUME NEW d \in Client PROVE ClientInv(d)' /\ ServerInv(d)'
  BY DEF ClientInv, ServerInv, TypeOK
<1> QED
  BY <1>1, <1>2, <1>3, <1>4

LEMMA ClientGivesUpStep ==
  ASSUME Inv, NEW c \in Client, ClientGivesUp(c)
  PROVE  Inv'
<1> USE DEF Inv, ClientGivesUp
<1>1. TypeOK'
  BY DEF TypeOK, Phases, Trying
<1>2. AcceptedIsEstablished' /\ ConnectedIsKnown' /\ FirstBytesKept'
  BY DEF AcceptedIsEstablished, ConnectedIsKnown, FirstBytesKept
<1>3. ASSUME NEW m \in net' PROVE SegmentInv(m)'
  BY DEF SegmentInv, Known
<1>4. ASSUME NEW d \in Client PROVE ClientInv(d)' /\ ServerInv(d)'
  BY DEF ClientInv, ServerInv, TypeOK
<1> QED
  BY <1>1, <1>2, <1>3, <1>4

(* accept sets the positions of an end that had none before.                *)
LEMMA AcceptStep ==
  ASSUME Inv, NEW c \in Client, Accept(c)
  PROVE  Inv'
<1> USE DEF Inv, Accept, Taken
<1>1. TypeOK'
  <2>1. Trying' \subseteq Trying
    BY DEF Trying, TypeOK
  <2>2. Cardinality(Trying') <= Backlog
    BY <2>1, FewerTrying
  <2> QED
    BY <2>2 DEF TypeOK, TryStates, End, At
<1>2. AcceptedIsEstablished' /\ ConnectedIsKnown'
  BY DEF AcceptedIsEstablished, ConnectedIsKnown, TypeOK, ServerInv
<1>3. \A e \in End, d \in Client :
        accepted'[d] <= 1 /\ szep[e][d] = 2 => szep'[e][d] = 2
  BY DEF TypeOK, At, End, ServerInv
<1>4. \A e \in End, d \in Client : writep'[e][d] = 2 => writep[e][d] = 2
  BY DEF TypeOK, At, End
<1>5. \A d \in Client : accepted'[d] <= 1 => accepted[d] <= 1
  BY DEF TypeOK
<1>6. FirstBytesKept'
  BY <1>3, <1>4, <1>5 DEF FirstBytesKept, Other, End
<1>7. ASSUME NEW m \in net' PROVE SegmentInv(m)'
  <2>1. m \in net /\ SegmentInv(m) /\ m.c \in Client /\ m.to \in End
    BY DEF TypeOK, Segments
  <2>2. Known(m.c)'
        \/ ~Known(m.c)
    BY <2>1 DEF Known, TypeOK
  <2> QED
    BY <1>3, <1>5, <2>1, <2>2 DEF SegmentInv, SYN, SYNACK, Segment, Other, End
<1>8. ASSUME NEW d \in Client PROVE ClientInv(d)' /\ ServerInv(d)'
  BY DEF ClientInv, ServerInv, TypeOK, At, End
<1> QED
  BY <1>1, <1>2, <1>6, <1>7, <1>8

LEMMA ServerWritesStep ==
  ASSUME Inv, NEW c \in Client, ServerWrites(c)
  PROVE  Inv'
<1> USE DEF Inv, ServerWrites
<1>1. TypeOK'
  BY DEF TypeOK, Segments, Segment, End, Trying
<1>2. AcceptedIsEstablished' /\ ConnectedIsKnown' /\ FirstBytesKept'
  BY DEF AcceptedIsEstablished, ConnectedIsKnown, FirstBytesKept
<1>3. ASSUME NEW m \in net' PROVE SegmentInv(m)'
  BY DEF SegmentInv, SYN, SYNACK, Segment, Known, Other
<1>4. ASSUME NEW d \in Client PROVE ClientInv(d)' /\ ServerInv(d)'
  BY DEF ClientInv, ServerInv
<1> QED
  BY <1>1, <1>2, <1>3, <1>4

LEMMA ServerErasesStep ==
  ASSUME Inv, NEW c \in Client, ServerErases(c)
  PROVE  Inv'
<1> USE DEF Inv, ServerErases
<1>1. TypeOK'
  BY DEF TypeOK, Trying
<1>2. AcceptedIsEstablished' /\ ConnectedIsKnown' /\ FirstBytesKept'
  BY DEF AcceptedIsEstablished, ConnectedIsKnown, FirstBytesKept
<1>3. ASSUME NEW m \in net' PROVE SegmentInv(m)'
  BY DEF SegmentInv, Known
<1>4. ASSUME NEW d \in Client PROVE ClientInv(d)' /\ ServerInv(d)'
  BY DEF ClientInv, ServerInv, TypeOK
<1> QED
  BY <1>1, <1>2, <1>3, <1>4

-----------------------------------------------------------------------------
(* The segments' steps.                                                     *)

(* Whatever the network does with m, what was in flight before is all that  *)
(* is in flight, but for the answer.                                        *)
LEMMA TakingIsOld == \A m : Taking(m) \subseteq net
BY DEF Taking

(* A position set keeps the type of the positions.                          *)
LEMMA AtType ==
  ASSUME NEW S, NEW f \in [End -> [Client -> S]], NEW e \in End, NEW c \in Client, NEW v \in S
  PROVE  At(f, e, c, v) \in [End -> [Client -> S]]
BY DEF At

LEMMA SynAckStep ==
  ASSUME Inv, NEW m \in net, m.to = "client", ClientHearsSynAck(m),
         UNCHANGED <<phase, sock, accepted>>
  PROVE  Inv'
<1> USE DEF Inv, ClientHearsSynAck
<1> DEFINE answer == Segment("server", m.c, "ack", m.ack, m.seq + 1)
<1>1. m.c \in Client /\ m = SYNACK(m.c) /\ Known(m.c) /\ m.ack = 1 /\ m.seq = 0
  BY DEF TypeOK, Segments, SegmentInv, SYNACK, Segment
<1>2. answer = Segment("server", m.c, "ack", 1, 1)
  BY <1>1
<1>3. net' \subseteq net \cup {answer}
  BY TakingIsOld
<1>4. TypeOK'
  BY <1>1, <1>2, <1>3 DEF TypeOK, States, Segments, Segment, End, Trying
<1>5. AcceptedIsEstablished' /\ ConnectedIsKnown' /\ FirstBytesKept'
  BY <1>1 DEF AcceptedIsEstablished, ConnectedIsKnown, FirstBytesKept, TypeOK, Known
<1>6. ASSUME NEW n \in net' PROVE SegmentInv(n)'
  <2>1. CASE n = answer
    BY <1>1, <1>2, <2>1 DEF SegmentInv, Segment, TypeOK
  <2>2. CASE n \in net
    BY <2>2 DEF SegmentInv, Known, TypeOK, Segments
  <2> QED
    BY <1>3, <2>1, <2>2
<1>7. ASSUME NEW d \in Client PROVE ClientInv(d)' /\ ServerInv(d)'
  BY <1>1 DEF ClientInv, ServerInv, TypeOK
<1> QED
  BY <1>4, <1>5, <1>6, <1>7

(* What an ESTABLISHED end of either side does.  szep grows only from 1 to  *)
(* 2, and where writep becomes 2 the segment has said that the other end is *)
(* there.                                                                   *)
LEMMA EstablishedStep ==
  ASSUME Inv, NEW e \in End, NEW m \in net, m.to = e, EstablishedTakes(e, m),
         e = "client" => state[m.c] = "ESTABLISHED",
         e = "server" => sock[m.c],
         UNCHANGED <<phase, sock, accepted>>
  PROVE  Inv'
<1> USE DEF Inv
<1> DEFINE c == m.c
           acked == Highest(writep[e][c], m.ack)
           received == szep'[e][c]
           answer == Segment(Other(e), c, "ack", acked, received)
<1>1. /\ c \in Client /\ m.seq \in 0..2 /\ m.ack \in 0..2
      /\ m.kind \in {"syn", "synack", "ack", "data"}
      /\ writep[e][c] \in 0..2 /\ szep[e][c] \in 0..2
  BY DEF TypeOK, Segments
<1>2. acked \in 0..2 /\ (acked = 2 => writep[e][c] = 2 \/ m.ack = 2)
  BY <1>1 DEF Highest
<1>3. UNCHANGED <<state, try, phase, sock, accepted>>
  BY DEF EstablishedTakes
<1>4. /\ szep' = At(szep, e, c, received) /\ writep' = At(writep, e, c, acked)
      /\ received \in {szep[e][c], m.seq + 1}
      /\ received # szep[e][c] => CarriesData(m) /\ m.seq = szep[e][c]
  BY <1>1 DEF EstablishedTakes, At, TypeOK
<1>5. received # szep[e][c] => szep[e][c] = 1 /\ received = 2
  <2> SUFFICES ASSUME received # szep[e][c] PROVE szep[e][c] = 1 /\ received = 2
    OBVIOUS
  <2>1. m.kind \in {"syn", "data"} /\ m.seq = szep[e][c] /\ received = m.seq + 1
    BY <1>1, <1>4 DEF CarriesData, IsACK
  <2>2. CASE m.kind = "data"
    BY <2>1, <2>2 DEF SegmentInv
  <2>3. CASE m.kind = "syn"
    <3>1. e = "server" /\ m.seq = 0 /\ sock[c]
      BY <2>3 DEF SegmentInv, SYN, Segment
    <3>2. szep["server"][c] # 0
      BY <1>1, <3>1 DEF ServerInv
    <3> QED
      BY <2>1, <3>1, <3>2
  <2> QED
    BY <2>1, <2>2, <2>3
<1>6. \A f \in End, d \in Client : szep[f][d] = 2 => szep'[f][d] = 2
  BY <1>1, <1>4, <1>5 DEF At, TypeOK
<1>7. \A f \in End, d \in Client : writep'[f][d] = 2 /\ accepted[d] <= 1 => szep[Other(f)][d] = 2
  <2> SUFFICES ASSUME NEW f \in End, NEW d \in Client, writep'[f][d] = 2, accepted[d] <= 1
               PROVE  szep[Other(f)][d] = 2
    OBVIOUS
  <2>1. CASE writep[f][d] = 2
    BY <2>1 DEF FirstBytesKept
  <2>2. CASE writep[f][d] # 2
    <3>1. f = e /\ d = c /\ acked = 2
      BY <1>1, <1>4, <2>2 DEF At, TypeOK
    <3>2. m.ack = 2
      BY <1>2, <2>2, <3>1
    <3> QED
      BY <3>1, <3>2 DEF SegmentInv
  <2> QED
    BY <2>1, <2>2
<1>8. Other(e) \in End /\ Other(Other(e)) = e
  BY DEF Other, End
<1>9. net' \subseteq net \cup {answer}
  BY <1>1, <1>4, TakingIsOld DEF EstablishedTakes, At, TypeOK
<1>10. TypeOK'
  <2>1. received \in 0..2
    BY <1>1, <1>5
  <2>2. answer \in Segments
    BY <1>1, <1>2, <1>8, <2>1 DEF Segments, Segment
  <2>3. szep' \in [End -> [Client -> 0..2]] /\ writep' \in [End -> [Client -> 0..2]]
    <3> HIDE DEF c, acked, received
    <3>1. szep \in [End -> [Client -> 0..2]] /\ writep \in [End -> [Client -> 0..2]]
      BY DEF TypeOK
    <3>2. At(szep, e, c, received) \in [End -> [Client -> 0..2]]
      BY <1>1, <2>1, <3>1, AtType
    <3>3. At(writep, e, c, acked) \in [End -> [Client -> 0..2]]
      BY <1>1, <1>2, <3>1, AtType
    <3> QED
      BY <1>4, <3>2, <3>3
  <2> QED
    BY <1>3, <1>9, <2>2, <2>3 DEF TypeOK, Trying
<1>11. AcceptedIsEstablished' /\ ConnectedIsKnown'
  BY <1>3 DEF AcceptedIsEstablished, ConnectedIsKnown
<1>12. FirstBytesKept'
  BY <1>3, <1>6, <1>7, <1>8 DEF FirstBytesKept, Other, End
<1>13. ASSUME NEW n \in net' PROVE SegmentInv(n)'
  <2>1. CASE n = answer
    <3>1. received = szep'[Other(n.to)][n.c] /\ n.ack = received /\ n.kind = "ack"
      BY <1>8, <2>1 DEF Segment
    <3>2. n.to = "server" => state'[n.c] = "ESTABLISHED"
      BY <1>3, <1>8, <2>1 DEF Segment, Other, End
    <3> QED
      BY <3>1, <3>2 DEF SegmentInv
  <2>2. CASE n \in net
    <3>1. n.to \in End /\ Other(n.to) \in End /\ n.c \in Client
      BY <2>2 DEF TypeOK, Segments, Other, End
    <3> QED
      BY <1>3, <1>6, <2>2, <3>1 DEF SegmentInv, Known
  <2> QED
    BY <1>9, <2>1, <2>2
<1>14. ASSUME NEW d \in Client PROVE ClientInv(d)' /\ ServerInv(d)'
  <2>1. ClientInv(d)'
    <3>1. szep'["client"][d] # szep["client"][d] => szep["client"][d] = 1
      BY <1>1, <1>4, <1>5 DEF At, TypeOK, End
    <3> QED
      BY <1>3, <3>1 DEF ClientInv
  <2>2. ServerInv(d)'
    <3>1. szep'["server"][d] # szep["server"][d] =>
            szep["server"][d] = 1 /\ szep'["server"][d] = 2
      BY <1>1, <1>4, <1>5 DEF At, TypeOK, End
    <3> QED
      BY <1>3, <3>1 DEF ServerInv
  <2> QED
    BY <2>1, <2>2
<1> QED
  BY <1>10, <1>11, <1>12, <1>13, <1>14

LEMMA ListenerStep ==
  ASSUME Inv, NEW m \in net, m.to = "server", FindsListener(m), ListenerTakes(m),
         UNCHANGED <<phase, sock, accepted>>
  PROVE  Inv'
<1> USE DEF Inv, ListenerTakes, FindsListener
<1> DEFINE c == m.c
           st == IF try[c] = "none" THEN "LISTEN" ELSE try[c]
           next == HearsAck(HearsSyn(st, m), m)
<1>1. c \in Client /\ st \in {"LISTEN", "SYNRCVD", "ESTABLISHED"}
  BY DEF TypeOK, Segments, TryStates
<1>2. /\ next \in {"LISTEN", "SYNRCVD", "ESTABLISHED"}
      /\ AnswersSyn(st, m) => next = "SYNRCVD"
      /\ next = "ESTABLISHED" => state[c] = "ESTABLISHED"
      /\ st # "LISTEN" => next \in {"SYNRCVD", "ESTABLISHED"}
  <2>1. CASE m.kind = "syn"
    <3>1. ~Completes(m)
      BY <2>1 DEF Completes, IsACK, SegmentInv, SYN, Segment
    <3> QED
      BY <1>1, <2>1, <3>1 DEF HearsAck, HearsSyn, AnswersSyn, ServerInv
  <2>2. CASE m.kind # "syn"
    <3>1. state[c] = "ESTABLISHED"
      BY <2>2 DEF SegmentInv
    <3> QED
      BY <1>1, <2>2, <3>1 DEF HearsAck, HearsSyn, AnswersSyn
  <2> QED
    BY <2>1, <2>2
<1>3. try' = [try EXCEPT ![c] = next]
  OBVIOUS
<1>4. net' \subseteq net \cup (IF AnswersSyn(st, m) THEN {SYNACK(c)} ELSE {})
  BY TakingIsOld
<1>5. TypeOK'
  <2>1. Trying' = Trying \cup {c}
    BY <1>1, <1>2, <1>3 DEF Trying, TypeOK
  <2>2. Cardinality(Trying') <= Backlog
    BY <1>1, <2>1, PlaceForOne
  <2>3. SYNACK(c) \in Segments
    BY <1>1 DEF SYNACK, Segment, Segments, End
  <2> QED
    BY <1>1, <1>2, <1>3, <1>4, <2>2, <2>3 DEF TypeOK, TryStates
<1>6. AcceptedIsEstablished' /\ FirstBytesKept'
  BY DEF AcceptedIsEstablished, FirstBytesKept
<1>7. \A d \in Client : Known(d) => Known(d)'
  BY <1>1, <1>2, <1>3 DEF Known, TypeOK
<1>8. ConnectedIsKnown'
  BY <1>7 DEF ConnectedIsKnown, Known
<1>9. ASSUME NEW n \in net' PROVE SegmentInv(n)'
  <2>1. CASE n \in net
    BY <1>7, <2>1 DEF SegmentInv, TypeOK, Segments
  <2>2. CASE n = SYNACK(c) /\ AnswersSyn(st, m)
    <3>1. Known(c)'
      BY <1>1, <1>2, <1>3, <2>2 DEF Known, TypeOK
    <3> QED
      BY <2>2, <3>1 DEF SegmentInv, SYNACK, Segment
  <2> QED
    BY <1>4, <2>1, <2>2
<1>10. ASSUME NEW d \in Client PROVE ClientInv(d)' /\ ServerInv(d)'
  BY <1>1, <1>2, <1>3 DEF ClientInv, ServerInv, TypeOK
<1> QED
  BY <1>5, <1>6, <1>8, <1>9, <1>10

(* A segment that is lost or dropped changes nothing but net.               *)
LEMMA QuietStep ==
  ASSUME Inv, net' \subseteq net,
         UNCHANGED <<state, phase, try, sock, szep, writep, accepted>>
  PROVE  Inv'
<1> USE DEF Inv
<1>1. TypeOK'
  BY DEF TypeOK, Trying
<1>2. AcceptedIsEstablished' /\ ConnectedIsKnown' /\ FirstBytesKept'
  BY DEF AcceptedIsEstablished, ConnectedIsKnown, FirstBytesKept
<1>3. ASSUME NEW m \in net' PROVE SegmentInv(m)'
  BY DEF SegmentInv, Known
<1>4. ASSUME NEW d \in Client PROVE ClientInv(d)' /\ ServerInv(d)'
  BY DEF ClientInv, ServerInv, TypeOK
<1> QED
  BY <1>1, <1>2, <1>3, <1>4

LEMMA RecvStep ==
  ASSUME Inv, NEW m \in net, Recv(m)
  PROVE  Inv'
<1>1. UNCHANGED <<phase, sock, accepted>>
  BY DEF Recv
<1>2. CASE m.to = "client" /\ ClientHearsSynAck(m)
  BY <1>1, <1>2, SynAckStep
<1>3. CASE m.to = "client" /\ ClientTakes(m)
  <2>1. CASE state[m.c] = "ESTABLISHED"
    BY <1>1, <1>3, <2>1, EstablishedStep DEF ClientTakes, End
  <2>2. CASE state[m.c] # "ESTABLISHED"
    BY <1>1, <1>3, <2>2, QuietStep, TakingIsOld DEF ClientTakes
  <2> QED
    BY <2>1, <2>2
<1>4. CASE m.to = "server" /\ ~FindsListener(m) /\ EstablishedTakes("server", m)
  BY <1>1, <1>4, EstablishedStep DEF FindsListener, End
<1>5. CASE m.to = "server" /\ FindsListener(m) /\ ListenerTakes(m)
  BY <1>1, <1>5, ListenerStep
<1>6. CASE m.to = "server" /\ FindsListener(m) /\ ListenerDrops(m)
  BY <1>1, <1>6, QuietStep, TakingIsOld DEF ListenerDrops
<1> QED
  BY <1>2, <1>3, <1>4, <1>5, <1>6 DEF Recv

LEMMA InvStep == Inv /\ [Next]_vars => Inv'
<1> SUFFICES ASSUME Inv, [Next]_vars PROVE Inv'
  OBVIOUS
<1>1. CASE UNCHANGED vars
  BY <1>1, QuietStep DEF vars
<1>2. ASSUME NEW c \in Client, ClientSteps(c) PROVE Inv'
  BY <1>2, ConnectStep, ConnectResendStep, ConnectReturnsStep, ClientWritesStep,
     ClientGivesUpStep DEF ClientSteps
<1>3. ASSUME NEW c \in Client, ServerSteps(c) PROVE Inv'
  BY <1>3, AcceptStep, ServerWritesStep, ServerErasesStep DEF ServerSteps
<1>4. ASSUME NEW m \in net, Recv(m) PROVE Inv'
  BY <1>4, RecvStep
<1>5. ASSUME NEW m \in net, Lose(m) PROVE Inv'
  BY <1>5, QuietStep DEF Lose
<1> QED
  BY <1>1, <1>2, <1>3, <1>4, <1>5 DEF Next

(* The inductive invariant holds in every state. *)
THEOREM Invariant == Spec => []Inv
BY InvInit, InvStep, PTL DEF Spec

-----------------------------------------------------------------------------
(* Every variable keeps its type, and connTrying_set holds backlog entries  *)
(* at most, whatever segments come.                                         *)
THEOREM BacklogHolds == Spec => []TypeOK
<1>1. Inv => TypeOK
  BY DEF Inv
<1> QED
  BY <1>1, Invariant, PTL

(* A connection is with the listener or with its own socket, never both:    *)
(* accept does not hand out a connection whose socket is still there.       *)
THEOREM OneHome == Spec => []OneHomeEach
<1>1. Inv => OneHomeEach
  BY DEF Inv, ServerInv, OneHomeEach
<1> QED
  BY <1>1, Invariant, PTL

(* What accept returns, its client is connected to: the third segment, or   *)
(* data in its place, has come from it.                                     *)
THEOREM ClientsKnow == Spec => []AcceptedIsEstablished
<1>1. Inv => AcceptedIsEstablished
  BY DEF Inv
<1> QED
  BY <1>1, Invariant, PTL

(* What connect returns, the server knows.                                  *)
THEOREM ServerKnows == Spec => []ConnectedIsKnown
<1>1. Inv => ConnectedIsKnown
  BY DEF Inv
<1> QED
  BY <1>1, Invariant, PTL

(* Setting the positions in connect and accept loses nothing that has been  *)
(* acknowledged.                                                            *)
THEOREM FirstBytesAreKept == Spec => []FirstBytesKept
<1>1. Inv => FirstBytesKept
  BY DEF Inv
<1> QED
  BY <1>1, Invariant, PTL
=============================================================================
