----------------------------- MODULE Handshake ------------------------------
(* How connections come to be: clients that call connect, a listening       *)
(* socket with its connTrying_set, the server application that calls        *)
(* accept, and the first bytes each side writes.  TcpConnection goes on     *)
(* from there.                                                              *)
(*                                                                          *)
(* A step is what happens between two acquisitions of kernel_mutex on one   *)
(* host.  A client is named by its address and port.  Every initial         *)
(* sequence number of the code is 0, so a connection starts at 1.           *)
(*                                                                          *)
(* As in TcpConnection, a definition that nothing uses is the next one with *)
(* a slip in it.                                                            *)
EXTENDS Integers, FiniteSets

CONSTANTS
  Client,       \* the clients' (address, port) pairs
  Backlog,      \* listen's argument, at most 5
  ServerTalks,  \* the clients the server application writes to
  MaxCloses,    \* bound: how often it closes a connection of one client
  Dup           \* TRUE: the network keeps every segment, as in TcpConnection
                \* FALSE: a segment is delivered once or lost

ASSUME HandshakeAssumption == /\ IsFiniteSet(Client)
                              /\ Backlog \in 1..5
                              /\ ServerTalks \subseteq Client /\ Dup \in BOOLEAN
                              /\ MaxCloses \in Nat

VARIABLES
  state,    \* state of the client's socket; "none": not yet connecting
  phase,    \* what the client application is doing
  try,      \* connState of the client's entry in connTrying_set, or "none"
  sock,     \* the server has a socket of its own for the client
  szep,     \* next position to receive, of each end,
  writep,   \*   and to write
  accepted, \* how many times accept has returned the client
  net       \* segments in flight

vars == <<state, phase, try, sock, szep, writep, accepted, net>>

End == {"client", "server"}
Other(e) == IF e = "client" THEN "server" ELSE "client"

Segment(to, c, kind, seq, ack) ==
  [to |-> to, c |-> c, kind |-> kind, seq |-> seq, ack |-> ack]

SYN(c) == Segment("server", c, "syn", 0, 0)
SYNACK(c) == Segment("client", c, "synack", 0, 1)

IsACKOnly(m) == m.kind = "ack"
IsACK(m) == m.kind \in {"ack", "synack"}

Init == /\ state    = [c \in Client |-> "none"]
        /\ phase    = [c \in Client |-> "idle"]
        /\ try      = [c \in Client |-> "none"]
        /\ sock     = [c \in Client |-> FALSE]
        /\ szep     = [e \in End |-> [c \in Client |-> 0]]
        /\ writep   = [e \in End |-> [c \in Client |-> 0]]
        /\ accepted = [c \in Client |-> 0]
        /\ net      = {}

Taking(m) == IF Dup THEN net ELSE net \ {m}

At(f, e, c, v) == [f EXCEPT ![e][c] = v]

-----------------------------------------------------------------------------
(* The client *)

Connect(c) == /\ phase[c] = "idle"
              /\ phase' = [phase EXCEPT ![c] = "connecting"]
              /\ state' = [state EXCEPT ![c] = "SYNSENT"]
              /\ net' = net \cup {SYN(c)}
              /\ UNCHANGED <<try, sock, szep, writep, accepted>>

(* The loop sends SYNs until connectReady, which is set with ESTABLISHED. *)
ConnectResend(c) == /\ phase[c] = "connecting"
                    /\ state[c] = "SYNSENT"
                    /\ net' = net \cup {SYN(c)}
                    /\ UNCHANGED <<state, phase, try, sock, szep, writep, accepted>>

ConnectReturns(c) == /\ phase[c] = "connecting"
                     /\ state[c] = "ESTABLISHED"
                     /\ phase' = [phase EXCEPT ![c] = "connected"]
                     /\ szep' = At(szep, "client", c, 1)
                     /\ writep' = At(writep, "client", c, 1)
                     /\ UNCHANGED <<state, try, sock, accepted, net>>

(* write and its retransmissions, of one chunk that counts as one position: *)
(* while writep has not moved, and until MAGIC_NUM.                         *)
ClientWrites(c) == /\ phase[c] \in {"connected", "writing"}
                   /\ writep["client"][c] = 1
                   /\ phase' = [phase EXCEPT ![c] = "writing"]
                   /\ net' = net \cup {Segment("server", c, "data", 1, szep["client"][c])}
                   /\ UNCHANGED <<state, try, sock, szep, writep, accepted>>

ClientGivesUp(c) == /\ phase[c] = "writing"
                    /\ phase' = [phase EXCEPT ![c] = "gaveUp"]
                    /\ UNCHANGED <<state, try, sock, szep, writep, accepted, net>>

-----------------------------------------------------------------------------
(* The server application *)

(* getAddr takes the entry out of connTrying_set, and accept makes the      *)
(* socket, in one hold of the mutex.                                        *)
TakenKept(c) == try
Taken(c) == [try EXCEPT ![c] = "none"]

Accept(c) == /\ try[c] = "ESTABLISHED"
             /\ try' = Taken(c)
             /\ sock' = [sock EXCEPT ![c] = TRUE]
             /\ szep' = At(szep, "server", c, 1)
             /\ writep' = At(writep, "server", c, 1)
             /\ accepted' = [accepted EXCEPT ![c] = @ + 1]
             /\ UNCHANGED <<state, phase, net>>

ServerWrites(c) == /\ c \in ServerTalks
                   /\ sock[c]
                   /\ writep["server"][c] = 1
                   /\ net' = net \cup {Segment("client", c, "data", 1, szep["server"][c])}
                   /\ UNCHANGED <<state, phase, try, sock, szep, writep, accepted>>

(* The end of close: the socket leaves socket_pool.  TcpConnection has what *)
(* goes before.                                                             *)
ServerErases(c) == /\ accepted[c] <= MaxCloses
                   /\ sock[c]
                   /\ sock' = [sock EXCEPT ![c] = FALSE]
                   /\ UNCHANGED <<state, phase, try, szep, writep, accepted, net>>

-----------------------------------------------------------------------------
(* recvTCPPacket *)

Trying == {c \in Client : try[c] # "none"}

(* Every segment that finds no socket of its own is the listener's.  It     *)
(* takes a place in connTrying_set, whatever it is.                         *)
HasPlaceAlways(c) == TRUE
HasPlace(c) == try[c] # "none" \/ Cardinality(Trying) < Backlog

AnswersSynOnce(st, m) == m.kind = "syn" /\ st = "LISTEN"
AnswersSyn(st, m) == m.kind = "syn" /\ st \in {"LISTEN", "SYNRCVD"}

HearsSynAnswersOnly(st, m) == st
HearsSyn(st, m) == IF AnswersSyn(st, m) THEN "SYNRCVD" ELSE st

CompletesEqual(m) == IsACK(m) \/ m.seq = m.ack
CompletesAck(m) == IsACK(m)
Completes(m) == IsACK(m) \/ (m.seq = 1 /\ m.ack = 1)

HearsAck(st, m) == IF st = "SYNRCVD" /\ Completes(m) THEN "ESTABLISHED" ELSE st

ListenerTakes(m) ==
  LET c == m.c
      st == IF try[c] = "none" THEN "LISTEN" ELSE try[c] IN
  /\ HasPlace(c)
  /\ try' = [try EXCEPT ![c] = HearsAck(HearsSyn(st, m), m)]
  /\ net' = Taking(m) \cup IF AnswersSyn(st, m) THEN {SYNACK(c)} ELSE {}
  /\ UNCHANGED <<state, szep, writep>>

ListenerDrops(m) == /\ ~HasPlace(m.c)
                    /\ net' = Taking(m)
                    /\ UNCHANGED <<state, try, szep, writep>>

ClientHearsSynAck(m) ==
  /\ m.kind = "synack"
  /\ state[m.c] = "SYNSENT"
  /\ state' = [state EXCEPT ![m.c] = "ESTABLISHED"]
  /\ net' = Taking(m) \cup {Segment("server", m.c, "ack", m.ack, m.seq + 1)}
  /\ UNCHANGED <<try, szep, writep>>

Highest(a, b) == IF a < b THEN b ELSE a

(* ARQflag, raised by the clock and shared by the sockets of the host,      *)
(* decides whether a segment out of order is answered: either may happen.   *)
CarriesDataUnlessAckOnly(m) == ~IsACKOnly(m)
CarriesData(m) == ~IsACK(m)

EstablishedTakes(e, m) ==
  LET c == m.c
      acked == Highest(writep[e][c], m.ack)
      inOrder == /\ CarriesData(m)
                 /\ m.seq = szep[e][c]
                 /\ m.ack = acked
      received == IF inOrder THEN m.seq + 1 ELSE szep[e][c]
      answer == Segment(Other(e), c, "ack", acked, received) IN
  /\ szep' = At(szep, e, c, received)
  /\ writep' = At(writep, e, c, acked)
  /\ \/ CarriesData(m) /\ net' = Taking(m) \cup {answer}
     \/ ~inOrder       /\ net' = Taking(m)
  /\ UNCHANGED <<state, try>>

ClientTakes(m) == IF state[m.c] = "ESTABLISHED"
                  THEN EstablishedTakes("client", m)
                  ELSE /\ m.kind # "synack" \/ state[m.c] # "SYNSENT"
                       /\ net' = Taking(m)
                       /\ UNCHANGED <<state, try, szep, writep>>

(* A socket of the very four numbers comes before the listener. *)
FindsListenerFirst(m) == TRUE
FindsListener(m) == ~sock[m.c]

Recv(m) ==
  /\ m \in net
  /\ \/ m.to = "client" /\ (ClientHearsSynAck(m) \/ ClientTakes(m))
     \/ m.to = "server" /\ ~FindsListener(m) /\ EstablishedTakes("server", m)
     \/ m.to = "server" /\ FindsListener(m) /\ (ListenerTakes(m) \/ ListenerDrops(m))
  /\ UNCHANGED <<phase, sock, accepted>>

Lose(m) == /\ ~Dup
           /\ m \in net
           /\ net' = net \ {m}
           /\ UNCHANGED <<state, phase, try, sock, szep, writep, accepted>>

-----------------------------------------------------------------------------
ClientSteps(c) == \/ Connect(c) \/ ConnectResend(c) \/ ConnectReturns(c)
                  \/ ClientWrites(c) \/ ClientGivesUp(c)

ServerSteps(c) == Accept(c) \/ ServerWrites(c) \/ ServerErases(c)

Next == \/ \E c \in Client : ClientSteps(c) \/ ServerSteps(c)
        \/ \E m \in net : Recv(m) \/ Lose(m)

Spec == Init /\ [][Next]_vars

Segments == [to : End, c : Client, kind : {"syn", "synack", "ack", "data"},
             seq : 0..2, ack : 0..2]

(* The loop of connect or write goes on, as TimerThread wakes it up every   *)
(* 50 ms; clients write as soon as they are connected, as the programs of   *)
(* checkpoints/ do; the server calls accept again and again                 *)
(* (echo_server.c:55); a segment that is sent again and again arrives.      *)
Resent == {"syn", "synack", "data"}

ClientThread(c) == ConnectResend(c) \/ ConnectReturns(c) \/ ClientWrites(c)

Arrives(c, kind) == \E m \in net : m.c = c /\ m.kind = kind /\ Recv(m)

FairSpec ==
  /\ Spec
  /\ \A c \in Client : /\ WF_vars(ClientThread(c))
                       /\ WF_vars(Accept(c))
                       /\ \A kind \in Resent : SF_vars(Arrives(c, kind))

-----------------------------------------------------------------------------
(* Properties *)

States == {"none", "SYNSENT", "ESTABLISHED"}
Phases == {"idle", "connecting", "connected", "writing", "gaveUp"}
TryStates == {"none", "LISTEN", "SYNRCVD", "ESTABLISHED"}

(* Every variable keeps its type, no position goes past the one chunk each  *)
(* side writes, and connTrying_set never outgrows the backlog.              *)
TypeOK == /\ state \in [Client -> States]
          /\ phase \in [Client -> Phases]
          /\ try \in [Client -> TryStates]
          /\ sock \in [Client -> BOOLEAN]
          /\ szep \in [End -> [Client -> 0..2]]
          /\ writep \in [End -> [Client -> 0..2]]
          /\ accepted \in [Client -> Nat]
          /\ net \subseteq Segments
          /\ Cardinality(Trying) <= Backlog

(* A connection is with the listener or with a socket of its own, never     *)
(* with both: accept moves it in one step, and no segment that arrives late *)
(* or again puts it back, so that accept would return it once more          *)
(* (tcp.cpp:170, socket.cpp:264).                                           *)
OneHomeEach == \A c \in Client : sock[c] => try[c] = "none"

(* What accept returns is a connection its client knows of (tcp.cpp:244).   *)
AcceptedIsEstablished == \A c \in Client : accepted[c] > 0 => state[c] = "ESTABLISHED"

(* What connect returns is a connection the server knows of: it is in       *)
(* connTrying_set past its SYN, or accept has returned it.                  *)
ConnectedIsKnown ==
  \A c \in Client : state[c] = "ESTABLISHED" =>
    try[c] \in {"SYNRCVD", "ESTABLISHED"} \/ accepted[c] > 0

(* connect sets its positions after the mutex has been free since the       *)
(* SYN|ACK came in (socket.cpp:236), accept long after the client may have  *)
(* begun to write: what one end believes delivered the other has, unless    *)
(* the client was accepted anew.                                            *)
FirstBytesKept == \A c \in Client, e \in End :
  accepted[c] <= 1 /\ writep[e][c] = 2 => szep[Other(e)][c] = 2

(* connect returns, although the backlog is smaller than the number of      *)
(* clients and every segment of the handshake may be lost - unless another  *)
(* client gave up before its entry was ESTABLISHED, for that entry stays.   *)
ConnectReturnsAtLast ==
  \A c \in Client : phase[c] = "connecting" ~>
    phase[c] # "connecting" \/ \E d \in Client : phase[d] = "gaveUp" /\ try[d] = "SYNRCVD"

(* A client that writes is accepted, even where the third segment of the    *)
(* handshake was lost: the listener takes its data for the ACK.             *)
WriterIsAccepted == \A c \in Client : phase[c] = "writing" ~> accepted[c] > 0 \/ phase[c] = "gaveUp"

(* "The first time to see the other side" (tcp.cpp:178): the listener gets  *)
(* no place in connTrying_set filled by a client that accept has returned.  *)
ListenerSeesNewcomers == \A c \in Client : accepted[c] > 0 => try[c] = "none"

(* The invariant of the proofs: what a segment in flight says of its sender *)
(* and its receiver, and where the positions can be before the two sides    *)
(* have set them.                                                           *)
Known(c) == try[c] \in {"SYNRCVD", "ESTABLISHED"} \/ accepted[c] > 0

SegmentInv(m) ==
  /\ m.kind = "syn" => m = SYN(m.c)
  /\ m.kind = "synack" => m = SYNACK(m.c) /\ Known(m.c)
  /\ m.kind = "data" => m.seq = 1
  /\ m.to = "server" /\ m.kind # "syn" => state[m.c] = "ESTABLISHED"
  /\ accepted[m.c] <= 1 /\ m.ack = 2 => szep[Other(m.to)][m.c] = 2

ClientInv(c) ==
  /\ state[c] = "none" <=> phase[c] = "idle"
  /\ phase[c] \in {"connected", "writing", "gaveUp"} => state[c] = "ESTABLISHED"
  /\ phase[c] \in {"idle", "connecting"} => szep["client"][c] = 0

ServerInv(c) ==
  /\ sock[c] => accepted[c] > 0 /\ try[c] = "none" /\ szep["server"][c] # 0
  /\ try[c] = "ESTABLISHED" => state[c] = "ESTABLISHED"
  /\ accepted[c] = 0 => szep["server"][c] = 0

Inv == /\ TypeOK
       /\ AcceptedIsEstablished
       /\ ConnectedIsKnown
       /\ FirstBytesKept
       /\ \A m \in net : SegmentInv(m)
       /\ \A c \in Client : ClientInv(c) /\ ServerInv(c)
=============================================================================
