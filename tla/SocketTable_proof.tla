-------------------------- MODULE SocketTable_proof --------------------------
(* What SocketTable promises, for all ports, peers, limits and backlogs.    *)
EXTENDS SocketTable, FiniteSetTheorems, TLAPS

-----------------------------------------------------------------------------
(* Types *)

Used == Connected \cup Server

Types == /\ pool \in [Fd -> SocketType]
         /\ ports \subseteq Port /\ spoilt \subseteq Port /\ left \subseteq ports
         /\ \A fd \in Fd : /\ pool[fd].state \in Used => pool[fd].port \in Port
                           /\ pool[fd].state \in Connected => pool[fd].peer \in Peer
                           /\ pool[fd].state \in Server => pool[fd].bound = pool[fd].port
                           /\ \A c \in Peer : pool[fd].try[c] # "none" => pool[fd].bound \in Port

(* What the constructor and accept make is a socket. *)
LEMMA SocketIsTyped ==
  ASSUME NEW state \in {"free", "new"} \cup Connected \cup Server,
         NEW port \in Port \cup {NoPort}, NEW peer \in Peer \cup {NoPeer}
  PROVE  /\ Socket(state, port, peer) \in SocketType
         /\ Socket(state, port, peer).state = state
         /\ Socket(state, port, peer).port = port
         /\ Socket(state, port, peer).peer = peer
         /\ Socket(state, port, peer).bound = NoPort
  BY DEF Socket, SocketType, NoneTrying, Place

(* And it has heard of nobody. *)
LEMMA SocketIsUntried ==
  ASSUME NEW state, NEW port, NEW peer, NEW c \in Peer
  PROVE  Socket(state, port, peer).try[c] = "none"
  BY DEF Socket, NoneTrying

LEMMA InitTypes == Init => Types
<1>1. Free \in SocketType /\ Free.state = "free"
  BY SocketIsTyped DEF Free
<1>2. \A c \in Peer : Free.try[c] = "none"
  BY SocketIsUntried DEF Free
<1>3. QED
  BY <1>1, <1>2 DEF Init, Types, Used, Connected, Server

LEMMA StepTypes == Types /\ [Next]_vars => Types'
<1> SUFFICES ASSUME Types, [Next]_vars PROVE Types'
  OBVIOUS
<1> USE DEF Types, Used
<1>1. ASSUME NEW fd \in Fd, socket(fd) PROVE Types'
  <2>1. PICK info \in Remains :
          pool' = Inserted(pool, fd, Socket("new", info[1], info[2]))
    BY <1>1 DEF socket
  <2>2. info[1] \in Port \cup {NoPort} /\ info[2] \in Peer \cup {NoPeer}
    BY TableAssumption
  <2>3. /\ Socket("new", info[1], info[2]) \in SocketType
        /\ Socket("new", info[1], info[2]).state = "new"
    BY <2>2, SocketIsTyped
  <2>4. \A c \in Peer : Socket("new", info[1], info[2]).try[c] = "none"
    BY SocketIsUntried
  <2>5. QED
    BY <1>1, <2>1, <2>3, <2>4 DEF socket, Inserted, Connected, Server
<1>2. ASSUME NEW fd \in Fd, NEW p \in Bindable, Bind(fd, p) PROVE Types'
  <2> DEFINE s == [pool[fd] EXCEPT !.state = "CLOSED", !.port = p, !.bound = p]
  <2>1. pool' = [pool EXCEPT ![fd] = s] /\ p \in Port
    BY <1>2, TableAssumption DEF Bind
  <2>2. /\ s \in SocketType /\ s.state = "CLOSED" /\ s.port = p /\ s.bound = p
        /\ s.try = pool[fd].try
    BY <2>1 DEF SocketType, Server
  <2> HIDE DEF s
  <2>3. \A other \in Fd : pool'[other] = IF other = fd THEN s ELSE pool[other]
    BY <2>1
  <2>4. pool' \in [Fd -> SocketType]
    BY <2>1, <2>2
  <2>5. /\ ports' \subseteq Port /\ spoilt' \subseteq Port /\ left' \subseteq ports'
    BY <1>2, <2>1 DEF Bind
  <2>6. QED
    BY <2>1, <2>2, <2>3, <2>4, <2>5 DEF Connected
<1>3. ASSUME NEW fd \in Fd, Listen(fd) PROVE Types'
  BY <1>3 DEF Listen, SocketType, Connected, Server
<1>4. ASSUME NEW fd \in Fd, NEW c \in Peer, Accept(fd, c) PROVE Types'
  <2> DEFINE p   == pool[fd].bound
             new == Socket("ESTABLISHED", p, c)
             t   == Taken(fd, c)
  <2>1. PICK n \in Fd : pool' = Inserted(t, n, new)
    BY <1>4 DEF Accept
  <2>2. p \in Port
    BY <1>4 DEF Accept
  <2>3. /\ new \in SocketType /\ new.state = "ESTABLISHED"
        /\ new.port = p /\ new.peer = c
    BY <2>2, SocketIsTyped DEF Connected
  <2>a. \A d \in Peer : new.try[d] = "none"
    BY SocketIsUntried
  <2>4. /\ t \in [Fd -> SocketType]
        /\ \A other \in Fd : /\ t[other].state = pool[other].state
                             /\ t[other].port = pool[other].port
                             /\ t[other].peer = pool[other].peer
                             /\ t[other].bound = pool[other].bound
                             /\ \A d \in Peer : t[other].try[d] # "none" => pool[other].try[d] # "none"
    BY DEF Taken, SocketType, Place
  <2>5. /\ ports' = ports /\ left' = left /\ spoilt' \subseteq Port
    BY <1>4, <2>2 DEF Accept
  <2> HIDE DEF p, new, t
  <2>6. CASE IsFree(n)
    <3>1. pool' = [t EXCEPT ![n] = new]
      BY <2>1, <2>6 DEF Inserted
    <3>2. pool' \in [Fd -> SocketType]
      BY <3>1, <2>3, <2>4
    <3>3. \A other \in Fd : pool'[other] = IF other = n THEN new ELSE t[other]
      BY <3>1, <2>4
    <3>4. ASSUME NEW other \in Fd
          PROVE  /\ pool'[other].state \in Used => pool'[other].port \in Port
                 /\ pool'[other].state \in Connected => pool'[other].peer \in Peer
                 /\ pool'[other].state \in Server => pool'[other].bound = pool'[other].port
                 /\ \A d \in Peer : pool'[other].try[d] # "none" => pool'[other].bound \in Port
      <4>1. CASE other = n
        BY <2>2, <2>3, <2>a, <3>3, <4>1 DEF Server
      <4>2. CASE other # n
        BY <2>4, <3>3, <4>2
      <4>3. QED
        BY <4>1, <4>2
    <3>5. QED
      BY <2>5, <3>2, <3>4
  <2>7. CASE ~IsFree(n)
    BY <2>1, <2>4, <2>5, <2>7 DEF Inserted
  <2>8. QED
    BY <2>6, <2>7
<1>5. ASSUME NEW fd \in Fd, NEW p \in Port, NEW c \in Peer, Connect(fd, p, c) PROVE Types'
  <2> DEFINE s == [pool[fd] EXCEPT !.state = "SYNSENT", !.port = p, !.peer = c]
  <2>1. pool' = [pool EXCEPT ![fd] = s]
    BY <1>5 DEF Connect
  <2>2. /\ s \in SocketType /\ s.state = "SYNSENT" /\ s.port = p /\ s.peer = c
        /\ s.try = pool[fd].try /\ s.bound = pool[fd].bound
    BY DEF SocketType, Connected
  <2> HIDE DEF s
  <2>3. \A other \in Fd : pool'[other] = IF other = fd THEN s ELSE pool[other]
    BY <2>1
  <2>4. pool' \in [Fd -> SocketType]
    BY <2>1, <2>2
  <2>5. /\ ports' \subseteq Port /\ spoilt' \subseteq Port /\ left' \subseteq ports'
    BY <1>5 DEF Connect
  <2>6. QED
    BY <2>2, <2>3, <2>4, <2>5 DEF Server
<1>6. ASSUME NEW fd \in Fd, CloseCall(fd) PROVE Types'
  BY <1>6 DEF CloseCall, SocketType, Connected, Server
<1>7. ASSUME NEW fd \in Fd, Erase(fd) PROVE Types'
  <2>1. Free \in SocketType /\ Free.state = "free"
    BY SocketIsTyped DEF Free
  <2>a. \A c \in Peer : Free.try[c] = "none"
    BY SocketIsUntried DEF Free
  <2>2. pool[fd].port \notin Port => Users(pool[fd].port) \ {fd} = {}
    BY DEF Users
  <2>3. spoilt' \subseteq Port
    BY <1>7, <2>2 DEF Erase
  <2>4. QED
    BY <1>7, <2>1, <2>a, <2>3 DEF Erase, Erased, Connected, Server
<1>8. ASSUME NEW p \in Port, NEW c \in Peer, Recv(p, c) PROVE Types'
  <2>1. PICK fd \in Fd, kind \in Kind : ListenerTakes(fd, c, kind) \/ ClientHearsSynAck(fd, kind)
    BY <1>8 DEF Recv
  <2>2. UNCHANGED <<ports, spoilt, left>>
    BY <1>8 DEF Recv
  <2>3. CASE ListenerTakes(fd, c, kind)
    <3>1. pool[fd].try[c] \in Place
      BY DEF SocketType
    <3>2. Tried(pool[fd].try[c], kind) \in Place
      BY <3>1 DEF Tried, Place
    <3> DEFINE s == [pool[fd] EXCEPT !.try[c] = Tried(@, kind)]
    <3>3. /\ pool' = [pool EXCEPT ![fd] = s] /\ pool[fd].bound \in Port
      BY <2>3 DEF ListenerTakes, Server
    <3>4. /\ s \in SocketType /\ s.state = pool[fd].state /\ s.port = pool[fd].port
          /\ s.peer = pool[fd].peer /\ s.bound = pool[fd].bound
      BY <3>2 DEF SocketType
    <3> HIDE DEF s
    <3>5. \A other \in Fd : pool'[other] = IF other = fd THEN s ELSE pool[other]
      BY <3>3
    <3>6. pool' \in [Fd -> SocketType]
      BY <3>3, <3>4
    <3>7. QED
      BY <2>2, <3>3, <3>4, <3>5, <3>6
  <2>4. CASE ClientHearsSynAck(fd, kind)
    <3> DEFINE s == [pool[fd] EXCEPT !.state = "ESTABLISHED"]
    <3>1. pool' = [pool EXCEPT ![fd] = s] /\ pool[fd].state = "SYNSENT"
      BY <2>4 DEF ClientHearsSynAck
    <3>2. /\ s \in SocketType /\ s.state = "ESTABLISHED" /\ s.port = pool[fd].port
          /\ s.peer = pool[fd].peer /\ s.bound = pool[fd].bound /\ s.try = pool[fd].try
      BY DEF SocketType, Connected
    <3> HIDE DEF s
    <3>3. \A other \in Fd : pool'[other] = IF other = fd THEN s ELSE pool[other]
      BY <3>1
    <3>4. pool' \in [Fd -> SocketType]
      BY <3>1, <3>2
    <3>5. QED
      BY <2>2, <3>1, <3>2, <3>3, <3>4 DEF Connected, Server
  <2>5. QED
    BY <2>1, <2>3, <2>4
<1>9. CASE UNCHANGED vars
  BY <1>9 DEF vars
<1>10. QED
  BY <1>1, <1>2, <1>3, <1>4, <1>5, <1>6, <1>7, <1>8, <1>9 DEF Next

-----------------------------------------------------------------------------
(* The backlog *)

BacklogInv == \A fd \in Fd : /\ IsFiniteSet(Trying(fd))
                             /\ Cardinality(Trying(fd)) <= Backlog

LEMMA NobodyTrying ==
  ASSUME NEW s, s.try = NoneTrying
  PROVE  {c \in Peer : s.try[c] # "none"} = {}
  BY DEF NoneTrying

LEMMA EmptyFits == IsFiniteSet({}) /\ Cardinality({}) = 0 /\ 0 <= Backlog
  BY FS_EmptySet, TableAssumption

LEMMA InitBacklog == Init => BacklogInv
<1>1. Free.try = NoneTrying
  BY DEF Free, Socket
<1>2. QED
  BY <1>1, NobodyTrying, EmptyFits DEF Init, BacklogInv, Trying

(* A step that adds to no connTrying_set keeps the backlog. *)
LEMMA FewerTrying ==
  ASSUME BacklogInv, \A fd \in Fd : Trying(fd)' \subseteq Trying(fd)
  PROVE  BacklogInv'
<1>1. ASSUME NEW fd \in Fd
      PROVE  IsFiniteSet(Trying(fd)') /\ Cardinality(Trying(fd)') <= Backlog
  <2>1. /\ IsFiniteSet(Trying(fd)) /\ Cardinality(Trying(fd)) <= Backlog
        /\ Trying(fd)' \subseteq Trying(fd)
    BY DEF BacklogInv
  <2>2. /\ IsFiniteSet(Trying(fd)')
        /\ Cardinality(Trying(fd)') <= Cardinality(Trying(fd))
    BY <2>1, FS_Subset
  <2>3. /\ Cardinality(Trying(fd)) \in Nat /\ Cardinality(Trying(fd)') \in Nat
    BY <2>1, <2>2, FS_CardinalityType
  <2>4. QED
    BY <2>1, <2>2, <2>3, TableAssumption
<1>2. QED
  BY <1>1 DEF BacklogInv

LEMMA StepBacklog == Types /\ BacklogInv /\ [Next]_vars => BacklogInv'
<1> SUFFICES ASSUME Types, BacklogInv, [Next]_vars PROVE BacklogInv'
  OBVIOUS
<1> USE DEF Types
<1>0. ASSUME NEW table \in [Fd -> SocketType], NEW new \in Fd, NEW s,
             s.try = NoneTrying, pool' = Inserted(table, new, s),
             \A fd \in Fd : {c \in Peer : table[fd].try[c] # "none"} \subseteq Trying(fd)
      PROVE  BacklogInv'
  <2>1. \A fd \in Fd : Trying(fd)' \subseteq Trying(fd)
    BY <1>0, NobodyTrying DEF Inserted, Trying
  <2>2. QED
    BY <2>1, FewerTrying
<1>1. ASSUME NEW fd \in Fd, socket(fd) PROVE BacklogInv'
  <2>1. PICK info \in Remains :
          pool' = Inserted(pool, fd, Socket("new", info[1], info[2]))
    BY <1>1 DEF socket
  <2>2. Socket("new", info[1], info[2]).try = NoneTrying
    BY DEF Socket
  <2>3. QED
    BY <1>0, <2>1, <2>2 DEF Trying
<1>2. ASSUME NEW fd \in Fd, NEW p \in Bindable, Bind(fd, p) PROVE BacklogInv'
  BY <1>2, FewerTrying DEF Bind, SocketType, Trying
<1>3. ASSUME NEW fd \in Fd, Listen(fd) PROVE BacklogInv'
  BY <1>3, FewerTrying DEF Listen, SocketType, Trying
<1>4. ASSUME NEW fd \in Fd, NEW c \in Peer, Accept(fd, c) PROVE BacklogInv'
  <2>1. PICK new \in Fd :
          pool' = Inserted(Taken(fd, c), new, Socket("ESTABLISHED", pool[fd].bound, c))
    BY <1>4 DEF Accept
  <2>2. Socket("ESTABLISHED", pool[fd].bound, c).try = NoneTrying
    BY DEF Socket
  <2>3. /\ Taken(fd, c) \in [Fd -> SocketType]
        /\ \A other \in Fd :
             {d \in Peer : Taken(fd, c)[other].try[d] # "none"} \subseteq Trying(other)
    BY DEF Taken, SocketType, Place, Trying
  <2>4. QED
    BY <1>0, <2>1, <2>2, <2>3
<1>5. ASSUME NEW fd \in Fd, NEW p \in Port, NEW c \in Peer, Connect(fd, p, c)
      PROVE  BacklogInv'
  BY <1>5, FewerTrying DEF Connect, SocketType, Trying
<1>6. ASSUME NEW fd \in Fd, CloseCall(fd) PROVE BacklogInv'
  BY <1>6, FewerTrying DEF CloseCall, SocketType, Trying
<1>7. ASSUME NEW fd \in Fd, Erase(fd) PROVE BacklogInv'
  <2>1. Free.try = NoneTrying
    BY DEF Free, Socket
  <2>2. QED
    BY <1>7, <2>1, NobodyTrying, FewerTrying DEF Erase, Trying
<1>8. ASSUME NEW p \in Port, NEW c \in Peer, Recv(p, c)
      PROVE  BacklogInv'
  <2>1. PICK fd \in Fd, kind \in Kind : ListenerTakes(fd, c, kind) \/ ClientHearsSynAck(fd, kind)
    BY <1>8 DEF Recv
  <2>2. CASE ListenerTakes(fd, c, kind)
    <3>1. \A other \in Fd \ {fd} : Trying(other)' = Trying(other)
      BY <2>2 DEF ListenerTakes, SocketType, Trying
    <3>2. Trying(fd)' \subseteq Trying(fd) \cup {c}
      BY <2>2 DEF ListenerTakes, SocketType, Trying
    <3>3. CASE c \in Trying(fd)
      BY <3>1, <3>2, <3>3, FewerTrying
    <3>4. CASE c \notin Trying(fd)
      <4>1. /\ IsFiniteSet(Trying(fd)) /\ Cardinality(Trying(fd)) < Backlog
            /\ Cardinality(Trying(fd)) \in Nat
        BY <2>2, <3>4, FS_CardinalityType DEF ListenerTakes, HasPlace, BacklogInv
      <4>2. /\ IsFiniteSet(Trying(fd) \cup {c})
            /\ Cardinality(Trying(fd) \cup {c}) = Cardinality(Trying(fd)) + 1
        BY <4>1, <3>4, FS_AddElement
      <4>3. /\ IsFiniteSet(Trying(fd)')
            /\ Cardinality(Trying(fd)') <= Cardinality(Trying(fd) \cup {c})
            /\ Cardinality(Trying(fd)') \in Nat
        BY <3>2, <4>2, FS_Subset, FS_CardinalityType
      <4>4. Cardinality(Trying(fd)') <= Backlog
        BY <4>1, <4>2, <4>3, TableAssumption
      <4>5. QED
        BY <3>1, <4>3, <4>4 DEF BacklogInv
    <3>5. QED
      BY <3>3, <3>4
  <2>3. CASE ClientHearsSynAck(fd, kind)
    BY <2>3, FewerTrying DEF ClientHearsSynAck, SocketType, Trying
  <2>4. QED
    BY <2>1, <2>2, <2>3
<1>9. CASE UNCHANGED vars
  BY <1>9, FewerTrying DEF vars, Trying
<1>10. QED
  BY <1>1, <1>2, <1>3, <1>4, <1>5, <1>6, <1>7, <1>8, <1>9 DEF Next

(* Every variable keeps its type and no connTrying_set outgrows the         *)
(* backlog, for any number of sockets and peers.                            *)
THEOREM TypeCorrect == Spec => []TypeOK
<1>1. Types /\ BacklogInv => TypeOK
  BY DEF Types, BacklogInv, TypeOK, Used
<1>2. QED
  BY <1>1, InitTypes, StepTypes, InitBacklog, StepBacklog, PTL DEF Spec
-----------------------------------------------------------------------------
(* Ports and connections.  A port that is not spoilt is in port_pool as     *)
(* long as it has a user, so bind and connect find it there; and the peer   *)
(* of its listener is no peer, so the segments of a connection do not take  *)
(* the listener for their socket.                                           *)

Apart(a, b) == /\ ~(a.state \in Server /\ b.state \in Server)
               /\ {a.state, b.state} \subseteq Connected => a.peer # b.peer
               /\ a.state = "LISTEN" => a.try[b.peer] = "none"

PortInv(p) == /\ Users(p) # {} => p \in ports
              /\ \A fd \in Users(p) : pool[fd].state = "LISTEN" => pool[fd].peer = NoPeer
              /\ \A fd, other \in Users(p) : fd # other => Apart(pool[fd], pool[other])

DistinctInv == \A p \in Port \ spoilt : PortInv(p)

LEMMA InitDistinct == Init => DistinctInv
<1>1. Free.state = "free"
  BY DEF Free, Socket
<1>2. QED
  BY <1>1 DEF Init, DistinctInv, PortInv, Users, Connected, Server

(* What makes a port as good as before: nothing happens to its users.       *)
LEMMA SameUsers ==
  ASSUME NEW p \in Port, PortInv(p), p \in ports => p \in ports',
         Users(p)' \subseteq Users(p),
         \A fd \in Users(p)' : /\ pool'[fd].state = pool[fd].state
                               /\ pool'[fd].peer = pool[fd].peer
                               /\ pool'[fd].try = pool[fd].try
  PROVE  PortInv(p)'
  BY DEF PortInv, Apart

(* Or it has a single user, that is no listener. *)
LEMMA SoleUser ==
  ASSUME NEW p \in Port, p \in ports', NEW fd \in Fd, Users(p)' \subseteq {fd},
         pool'[fd].state # "LISTEN"
  PROVE  PortInv(p)'
  BY DEF PortInv

(* A connection may go on to its next state. *)
LEMMA SameRole ==
  ASSUME NEW p \in Port, PortInv(p), ports' = ports, NEW fd \in Fd,
         \A other \in Fd \ {fd} : pool'[other] = pool[other],
         pool[fd].state \in Connected, pool'[fd].state \in Connected,
         pool'[fd].port = pool[fd].port, pool'[fd].peer = pool[fd].peer,
         pool'[fd].try = pool[fd].try
  PROVE  PortInv(p)'
<1>1. Users(p)' = Users(p)
  BY DEF Users
<1>2. ASSUME NEW one \in Users(p), NEW other \in Users(p), one # other
      PROVE  Apart(pool'[one], pool'[other])
  <2>1. Apart(pool[one], pool[other])
    BY <1>2 DEF PortInv
  <2>2. one \in Fd /\ other \in Fd
    BY DEF Users
  <2>3. QED
    BY <2>1, <2>2 DEF Apart, Connected, Server
<1>3. \A other \in Users(p)' :
        pool'[other].state = "LISTEN" => pool'[other].peer = NoPeer
  BY <1>1 DEF PortInv, Users, Connected
<1>4. QED
  BY <1>1, <1>2, <1>3 DEF PortInv

(* Nobody has tried a descriptor that has not listened yet. *)
Untried == \A fd \in Fd : pool[fd].state \in {"free", "new", "CLOSED"} =>
                            \A c \in Peer : pool[fd].try[c] = "none"

LEMMA NewIsUntried ==
  ASSUME NEW s, s.try = NoneTrying
  PROVE  \A c \in Peer : s.try[c] = "none"
  BY DEF NoneTrying

LEMMA StepUntried == Types /\ Untried /\ [Next]_vars => Untried'
<1> SUFFICES ASSUME Types, Untried, [Next]_vars PROVE Untried'
  OBVIOUS
<1> USE DEF Types, Untried
<1>1. ASSUME NEW fd \in Fd, socket(fd) PROVE Untried'
  <2>1. PICK info \in Remains :
          pool' = Inserted(pool, fd, Socket("new", info[1], info[2]))
    BY <1>1 DEF socket
  <2>2. Socket("new", info[1], info[2]).try = NoneTrying
    BY DEF Socket
  <2>3. QED
    BY <2>1, <2>2, NewIsUntried DEF Inserted
<1>2. ASSUME NEW fd \in Fd, NEW p \in Bindable, Bind(fd, p) PROVE Untried'
  BY <1>2 DEF Bind, SocketType
<1>3. ASSUME NEW fd \in Fd, Listen(fd) PROVE Untried'
  BY <1>3 DEF Listen, SocketType
<1>4. ASSUME NEW fd \in Fd, NEW c \in Peer, Accept(fd, c) PROVE Untried'
  <2>1. PICK new \in Fd :
          pool' = Inserted(Taken(fd, c), new, Socket("ESTABLISHED", pool[fd].bound, c))
    BY <1>4 DEF Accept
  <2>2. Socket("ESTABLISHED", pool[fd].bound, c).state = "ESTABLISHED"
    BY DEF Socket
  <2>3. pool[fd].try[c] # "none"
    BY <1>4 DEF Accept
  <2>4. /\ Taken(fd, c) \in [Fd -> SocketType]
        /\ Taken(fd, c)[fd].state \notin {"free", "new", "CLOSED"}
        /\ \A other \in Fd \ {fd} : Taken(fd, c)[other] = pool[other]
    BY <2>3 DEF Taken, SocketType, Place
  <2>5. QED
    BY <2>1, <2>2, <2>4 DEF Inserted
<1>5. ASSUME NEW fd \in Fd, NEW p \in Port, NEW c \in Peer, Connect(fd, p, c)
      PROVE  Untried'
  BY <1>5 DEF Connect, SocketType
<1>6. ASSUME NEW fd \in Fd, CloseCall(fd) PROVE Untried'
  BY <1>6 DEF CloseCall, SocketType
<1>7. ASSUME NEW fd \in Fd, Erase(fd) PROVE Untried'
  <2>1. Free.try = NoneTrying
    BY DEF Free, Socket
  <2>2. pool' = [pool EXCEPT ![fd] = Free]
    BY <1>7 DEF Erase
  <2>3. QED
    BY <2>1, <2>2, NewIsUntried
<1>8. ASSUME NEW p \in Port, NEW c \in Peer, Recv(p, c)
      PROVE  Untried'
  <2>1. PICK fd \in Fd, kind \in Kind : ListenerTakes(fd, c, kind) \/ ClientHearsSynAck(fd, kind)
    BY <1>8 DEF Recv
  <2>2. /\ \A other \in Fd \ {fd} : pool'[other] = pool[other]
        /\ pool'[fd].state \in {"LISTEN", "ESTABLISHED"}
    BY <2>1 DEF ListenerTakes, ClientHearsSynAck, SocketType
  <2>3. QED
    BY <2>2
<1>9. CASE UNCHANGED vars
  BY <1>9 DEF vars
<1>10. QED
  BY <1>1, <1>2, <1>3, <1>4, <1>5, <1>6, <1>7, <1>8, <1>9 DEF Next

LEMMA StepDistinct == Types /\ Untried /\ DistinctInv /\ [Next]_vars => DistinctInv'
<1> SUFFICES ASSUME Types, Untried, DistinctInv, [Next]_vars,
                    NEW q \in Port, q \notin spoilt'
             PROVE  PortInv(q)'
  BY DEF DistinctInv
<1>a. q \notin spoilt => PortInv(q)
  BY DEF DistinctInv
<1>1. ASSUME NEW fd \in Fd, socket(fd) PROVE PortInv(q)'
  <2>1. PICK info \in Remains :
          pool' = Inserted(pool, fd, Socket("new", info[1], info[2]))
    BY <1>1 DEF socket
  <2>2. Socket("new", info[1], info[2]).state = "new"
    BY DEF Socket
  <2>3. PortInv(q) /\ ports' = ports
    BY <1>a, <1>1 DEF socket
  <2>4. \A other \in Users(q)' : pool'[other] = pool[other]
    BY <2>1, <2>2 DEF Types, Inserted, Users, Connected, Server
  <2>5. QED
    BY <2>3, <2>4, SameUsers DEF Users
<1>2. ASSUME NEW fd \in Fd, NEW p \in Bindable, Bind(fd, p) PROVE PortInv(q)'
  <2>1. PortInv(q)
    BY <1>a, <1>2 DEF Bind
  <2>2. /\ \A other \in Fd \ {fd} : pool'[other] = pool[other]
        /\ pool'[fd].state = "CLOSED" /\ pool'[fd].port = p
    BY <1>2 DEF Bind, Types, SocketType
  <2>3. CASE q = p
    <3>1. Users(q) = {}
      BY <1>2, <2>1, <2>3 DEF PortInv, Bind, BindOK
    <3>2. Users(q)' \subseteq {fd}
      BY <2>2, <3>1 DEF Users
    <3>3. q \in ports'
      BY <1>2, <2>3 DEF Bind
    <3>4. QED
      BY <2>2, <3>2, <3>3, SoleUser
  <2>4. CASE q # p
    <3>1. \A other \in Users(q)' : other # fd
      BY <2>2, <2>4 DEF Users
    <3>2. ports \subseteq ports'
      BY <1>2 DEF Bind
    <3>3. QED
      BY <2>1, <2>2, <3>1, <3>2, SameUsers DEF Users
  <2>5. QED
    BY <2>3, <2>4
<1>3. ASSUME NEW fd \in Fd, Listen(fd) PROVE PortInv(q)'
  <2>1. /\ PortInv(q) /\ ports' = ports
        /\ pool[fd].port = q => pool[fd].peer = NoPeer
    BY <1>a, <1>3 DEF Listen
  <2>2. /\ \A other \in Fd \ {fd} : pool'[other] = pool[other]
        /\ pool[fd].state = "CLOSED" /\ pool'[fd].state = "LISTEN"
        /\ pool'[fd].port = pool[fd].port /\ pool'[fd].peer = pool[fd].peer
        /\ pool'[fd].try = pool[fd].try
    BY <1>3 DEF Listen, Types, SocketType
  <2>3. Users(q)' = Users(q)
    BY <2>2 DEF Users, Server
  <2>4. \A other \in Users(q) : pool[other].state \in Connected => pool[other].peer \in Peer
    BY DEF Types, Users
  <2>5. ASSUME NEW one \in Users(q), NEW other \in Users(q), one # other
        PROVE  Apart(pool'[one], pool'[other])
    <3>1. Apart(pool[one], pool[other]) /\ Apart(pool[other], pool[one])
      BY <2>1, <2>5 DEF PortInv
    <3>2. CASE one # fd /\ other # fd
      BY <2>2, <3>1, <3>2 DEF Users
    <3>3. CASE other = fd
      BY <2>2, <2>5, <3>1, <3>3 DEF Users, Apart, Server, Connected
    <3>4. CASE one = fd
      <4>1. pool[other].state \in Connected
        BY <2>2, <3>1, <3>4 DEF Users, Apart, Server
      <4>2. pool[fd].try[pool[other].peer] = "none"
        BY <4>1, <2>2, <2>4 DEF Untried
      <4>3. QED
        BY <2>2, <2>5, <3>1, <3>4, <4>1, <4>2 DEF Users, Apart, Server, Connected
    <3>5. QED
      BY <3>2, <3>3, <3>4
  <2>6. QED
    BY <2>1, <2>2, <2>3, <2>5 DEF PortInv, Users
<1>4. ASSUME NEW fd \in Fd, NEW c \in Peer, Accept(fd, c) PROVE PortInv(q)'
  <2> DEFINE p == pool[fd].bound
  <2>1. PICK new \in Fd :
          pool' = Inserted(Taken(fd, c), new, Socket("ESTABLISHED", p, c))
    BY <1>4 DEF Accept
  <2>2. /\ PortInv(q) /\ ports' = ports /\ pool[fd].try[c] = "ESTABLISHED"
        /\ pool[fd].state # "free"
        /\ q = p => pool[fd].state = "LISTEN" /\ pool[fd].port = p
    BY <1>a, <1>4 DEF Accept, Types, Server, Untried
  <2>3. /\ Socket("ESTABLISHED", p, c).state = "ESTABLISHED"
        /\ Socket("ESTABLISHED", p, c).port = p
        /\ Socket("ESTABLISHED", p, c).peer = c
    BY DEF Socket
  <2>4. /\ Taken(fd, c) \in [Fd -> SocketType]
        /\ \A other \in Fd : /\ Taken(fd, c)[other].state = pool[other].state
                             /\ Taken(fd, c)[other].port = pool[other].port
                             /\ Taken(fd, c)[other].peer = pool[other].peer
                             /\ \A d \in Peer : \/ Taken(fd, c)[other].try[d] = pool[other].try[d]
                                               \/ Taken(fd, c)[other].try[d] = "none"
        /\ Taken(fd, c)[fd].try[c] = "none"
    BY DEF Taken, Types, SocketType, Place
  <2> HIDE DEF p
  <2>5. \A other \in Users(q) : pool[other].state \in Connected => pool[other].peer \in Peer
    BY DEF Types, Users
  (* The sockets of before stay apart, and the listener keeps its peer. *)
  <2>6. ASSUME NEW one \in Users(q), NEW other \in Users(q), one # other
        PROVE  Apart(Taken(fd, c)[one], Taken(fd, c)[other])
    <3>1. Apart(pool[one], pool[other])
      BY <2>2, <2>6 DEF PortInv
    <3>2. one \in Fd /\ other \in Fd
      BY DEF Users
    <3>3. CASE pool[other].state \in Connected
      <4>1. pool[other].peer \in Peer
        BY <2>5, <3>3
      <4>2. QED
        BY <2>4, <3>1, <3>2, <4>1 DEF Apart
    <3>4. CASE pool[other].state \in Server
      BY <2>4, <3>1, <3>2, <3>4 DEF Apart, Server, Connected
    <3>5. QED
      BY <3>3, <3>4 DEF Users
  <2>7. \A other \in Users(q) :
          Taken(fd, c)[other].state = "LISTEN" => Taken(fd, c)[other].peer = NoPeer
    BY <2>2, <2>4 DEF PortInv, Users
  <2>8. CASE ~IsFree(new)
    <3>1. pool' = Taken(fd, c)
      BY <2>1, <2>8 DEF Inserted
    <3>2. Users(q)' = Users(q)
      BY <2>4, <3>1 DEF Users
    <3>3. QED
      BY <2>2, <2>6, <2>7, <3>1, <3>2 DEF PortInv
  <2>9. CASE IsFree(new)
    <3>1. new # fd /\ new \notin Users(q)
      BY <2>2, <2>9 DEF IsFree, Users, Connected, Server
    <3>2. \A other \in Fd : pool'[other] = IF other = new THEN Socket("ESTABLISHED", p, c)
                                                          ELSE Taken(fd, c)[other]
      BY <2>1, <2>4, <2>9 DEF Inserted
    <3>3. CASE q # p
      <4>1. Users(q)' = Users(q)
        BY <2>3, <2>4, <3>1, <3>2, <3>3 DEF Users
      <4>2. \A other \in Users(q) : pool'[other] = Taken(fd, c)[other]
        BY <3>1, <3>2 DEF Users
      <4>3. QED
        BY <2>2, <2>6, <2>7, <4>1, <4>2 DEF PortInv
    <3>4. CASE q = p
      <4>1. Users(q)' \subseteq Users(q) \cup {new}
        BY <2>4, <3>2 DEF Users
      <4>2. fd \in Users(q)
        BY <2>2, <3>4 DEF Users, Server, p
      <4>3. ASSUME NEW other \in Users(q)
            PROVE  /\ Apart(pool'[new], pool'[other])
                   /\ Apart(pool'[other], pool'[new])
        <5>1. other \in Fd /\ pool'[other] = Taken(fd, c)[other]
          BY <3>1, <3>2 DEF Users
        <5>0. pool[fd].state = "LISTEN"
          BY <2>2, <3>4
        <5>2. CASE other = fd
          BY <5>0, <2>2, <2>3, <2>4, <3>2, <5>1, <5>2 DEF Apart, Connected, Server
        <5>3. CASE other # fd
          <6>1. Apart(pool[fd], pool[other])
            BY <2>2, <4>2, <5>3 DEF PortInv
          <6>2. pool[other].state \in Connected /\ pool[other].peer # c
            BY <5>0, <2>2, <6>1 DEF Apart, Users, Connected, Server
          <6>3. QED
            BY <2>3, <2>4, <3>2, <5>1, <6>2 DEF Apart, Connected, Server
        <5>4. QED
          BY <5>2, <5>3
      <4>4. \A other \in Users(q) : pool'[other] = Taken(fd, c)[other]
        BY <3>1, <3>2 DEF Users
      <4>5. \A one, other \in Users(q)' : one # other => Apart(pool'[one], pool'[other])
        BY <2>6, <4>1, <4>3, <4>4
      <4>6. \A other \in Users(q)' :
              pool'[other].state = "LISTEN" => pool'[other].peer = NoPeer
        BY <2>3, <2>7, <3>2, <4>1, <4>4
      <4>7. q \in ports'
        BY <2>2, <4>2 DEF PortInv
      <4>8. QED
        BY <4>5, <4>6, <4>7 DEF PortInv
    <3>5. QED
      BY <3>3, <3>4
  <2>10. QED
    BY <2>8, <2>9
<1>5. ASSUME NEW fd \in Fd, NEW p \in Port, NEW c \in Peer, Connect(fd, p, c)
      PROVE  PortInv(q)'
  <2>1. PortInv(q)
    BY <1>a, <1>5 DEF Connect
  <2>2. /\ \A other \in Fd \ {fd} : pool'[other] = pool[other]
        /\ pool'[fd].state = "SYNSENT" /\ pool'[fd].port = p
    BY <1>5 DEF Connect, Types, SocketType
  <2>3. CASE q = p
    <3>1. Users(q) = {}
      BY <1>5, <2>1, <2>3 DEF PortInv, Connect, Drawn
    <3>2. Users(q)' \subseteq {fd}
      BY <2>2, <3>1 DEF Users
    <3>3. q \in ports'
      BY <1>5, <2>3 DEF Connect
    <3>4. QED
      BY <2>2, <3>2, <3>3, SoleUser
  <2>4. CASE q # p
    <3>1. \A other \in Users(q)' : other # fd
      BY <2>2, <2>4 DEF Users
    <3>2. ports \subseteq ports'
      BY <1>5 DEF Connect
    <3>3. QED
      BY <2>1, <2>2, <3>1, <3>2, SameUsers DEF Users
  <2>5. QED
    BY <2>3, <2>4
<1>6. ASSUME NEW fd \in Fd, CloseCall(fd) PROVE PortInv(q)'
  <2>1. PortInv(q) /\ ports' = ports
    BY <1>a, <1>6 DEF CloseCall
  <2>2. /\ \A other \in Fd \ {fd} : pool'[other] = pool[other]
        /\ pool[fd].state = "ESTABLISHED" /\ pool'[fd].state = "CLOSING"
        /\ pool'[fd].port = pool[fd].port /\ pool'[fd].peer = pool[fd].peer
        /\ pool'[fd].try = pool[fd].try
    BY <1>6 DEF CloseCall, Types, SocketType
  <2>3. QED
    BY <2>1, <2>2, SameRole DEF Connected
<1>7. ASSUME NEW fd \in Fd, Erase(fd) PROVE PortInv(q)'
  <2>1. Free.state = "free"
    BY DEF Free, Socket
  <2>2. /\ \A other \in Fd \ {fd} : pool'[other] = pool[other]
        /\ pool'[fd].state = "free"
    BY <1>7, <2>1 DEF Erase, Types
  <2>3. \A other \in Users(q)' : other # fd /\ pool'[other] = pool[other]
    BY <2>2 DEF Users, Connected, Server
  <2>4. CASE Users(q) \ {fd} = {}
    <3>1. Users(q)' = {}
      BY <2>3, <2>4 DEF Users
    <3>2. QED
      BY <3>1 DEF PortInv
  <2>5. CASE Users(q) \ {fd} # {}
    <3>1. q \notin spoilt /\ q # pool[fd].port
      BY <1>7, <2>5 DEF Erase
    <3>2. q \in ports => q \in ports'
      BY <1>7, <3>1 DEF Erase, Erased
    <3>3. QED
      BY <1>a, <2>3, <3>1, <3>2, SameUsers DEF Users
  <2>6. QED
    BY <2>4, <2>5
<1>8. ASSUME NEW p \in Port, NEW c \in Peer, Recv(p, c)
      PROVE  PortInv(q)'
  <2>1. PICK fd \in Fd, kind \in Kind :
          /\ IsFound(p, c, fd)
          /\ ListenerTakes(fd, c, kind) \/ ClientHearsSynAck(fd, kind)
    BY <1>8 DEF Recv
  <2>2. PortInv(q) /\ ports' = ports
    BY <1>a, <1>8 DEF Recv
  <2>3. CASE ClientHearsSynAck(fd, kind)
    <3>1. /\ \A other \in Fd \ {fd} : pool'[other] = pool[other]
          /\ pool[fd].state = "SYNSENT" /\ pool'[fd].state = "ESTABLISHED"
          /\ pool'[fd].port = pool[fd].port /\ pool'[fd].peer = pool[fd].peer
          /\ pool'[fd].try = pool[fd].try
      BY <2>3 DEF ClientHearsSynAck, Types, SocketType
    <3>2. QED
      BY <2>2, <3>1, SameRole DEF Connected
  <2>4. CASE ListenerTakes(fd, c, kind)
    <3>1. /\ \A other \in Fd \ {fd} : pool'[other] = pool[other]
          /\ pool[fd].state = "LISTEN" /\ pool'[fd].state = "LISTEN"
          /\ pool'[fd].port = pool[fd].port /\ pool'[fd].peer = pool[fd].peer
          /\ \A d \in Peer \ {c} : pool'[fd].try[d] = pool[fd].try[d]
      BY <2>4 DEF ListenerTakes, Types, SocketType
    <3>2. Users(q)' = Users(q)
      BY <3>1 DEF Users
    (* The segment has found the listener, so no socket has its peer. *)
    <3>3. ASSUME NEW other \in Users(q), fd \in Users(q)
          PROVE  pool[other].peer # c \/ pool[other].state \notin Connected
      <4>1. pool[fd].peer = NoPeer /\ pool[fd].peer # c
        BY <2>2, <3>1, <3>3, TableAssumption DEF PortInv
      <4>2. fd \notin Owners(p, c)
        BY <4>1 DEF Owners
      <4>3. Owners(p, c) = {} /\ pool[fd].port = p /\ q = p
        BY <2>1, <3>3, <4>2 DEF IsFound, Listeners, Users
      <4>4. QED
        BY <4>3 DEF Owners, Users, IsFree, Connected
    <3>4. ASSUME NEW one \in Users(q), NEW other \in Users(q), one # other
          PROVE  Apart(pool'[one], pool'[other])
      <4>1. Apart(pool[one], pool[other])
        BY <2>2, <3>4 DEF PortInv
      <4>2. one \in Fd /\ other \in Fd
        BY DEF Users
      <4>3. CASE one # fd
        BY <3>1, <4>1, <4>2, <4>3 DEF Apart
      <4>4. CASE one = fd
        <5>1. pool[other].state \in Connected
          BY <3>1, <4>1, <4>4 DEF Apart, Users, Server
        <5>2. pool[other].peer \in Peer \ {c}
          BY <3>3, <4>4, <5>1 DEF Types, Users
        <5>3. QED
          BY <3>1, <3>4, <4>1, <4>2, <4>4, <5>1, <5>2 DEF Apart, Connected, Server
      <4>5. QED
        BY <4>3, <4>4
    <3>5. \A other \in Users(q)' :
            pool'[other].state = "LISTEN" => pool'[other].peer = NoPeer
      BY <2>2, <3>1, <3>2 DEF PortInv, Users
    <3>6. QED
      BY <2>2, <3>2, <3>4, <3>5 DEF PortInv
  <2>5. QED
    BY <2>1, <2>3, <2>4
<1>9. CASE UNCHANGED vars
  BY <1>a, <1>9, SameUsers DEF vars, Users
<1>10. QED
  BY <1>1, <1>2, <1>3, <1>4, <1>5, <1>6, <1>7, <1>8, <1>9 DEF Next
-----------------------------------------------------------------------------
(* Until close takes a port away from a socket that still uses it, the port *)
(* has one server and its connections have different peers, none of which   *)
(* is with the listener as well: for any sockets, peers and segments.       *)
THEOREM ConnectionsStayDistinct == Spec => []ConnectionsAreDistinct
<1>1. Init => Untried
  <2>1. Free.try = NoneTrying
    BY DEF Free, Socket
  <2>2. QED
    BY <2>1, NewIsUntried DEF Init, Untried
<1>2. DistinctInv => ConnectionsAreDistinct
  BY DEF DistinctInv, PortInv, Apart, ConnectionsAreDistinct
<1>3. QED
  BY <1>1, <1>2, InitTypes, StepTypes, StepUntried, InitDistinct, StepDistinct, PTL DEF Spec

(* And a segment of a connection finds the connection's socket. *)
THEOREM SegmentsAreFound == Spec => []SegmentsFindTheirSocket
<1>1. Init => Untried
  <2>1. Free.try = NoneTrying
    BY DEF Free, Socket
  <2>2. QED
    BY <2>1, NewIsUntried DEF Init, Untried
<1>2. ASSUME Types, DistinctInv PROVE SegmentsFindTheirSocket
  <2> SUFFICES ASSUME NEW p \in Port \ spoilt, NEW fd \in Users(p), NEW other \in Fd,
                      pool[fd].state \in Connected, IsFound(p, pool[fd].peer, other),
                      other # fd
               PROVE  pool[other].state \in {"new", "CLOSED"}
    BY DEF SegmentsFindTheirSocket
  <2>1. PortInv(p) /\ pool[fd].peer \in Peer
    BY <1>2 DEF DistinctInv, Types, Users
  <2>2. fd \in Owners(p, pool[fd].peer)
    BY DEF Owners, Users, IsFree, Connected
  <2>3. /\ pool[other].port = p /\ pool[other].peer = pool[fd].peer
        /\ pool[other].state # "free"
    BY <2>2 DEF IsFound, Owners, IsFree
  <2>4. pool[other].state \in Connected \cup Server => Apart(pool[other], pool[fd])
    BY <2>1, <2>3 DEF PortInv, Users
  <2>5. pool[other].state \notin Connected
    BY <2>3, <2>4 DEF Apart
  <2>6. pool[other].state = "LISTEN" => pool[other].peer = NoPeer
    BY <2>1, <2>3 DEF PortInv, Users, Server
  <2>7. pool[other].state \in {"free", "new"} \cup Connected \cup Server
    BY <1>2 DEF Types, SocketType
  <2>8. QED
    BY <2>1, <2>3, <2>5, <2>6, <2>7, TableAssumption DEF Server
<1>3. QED
  BY <1>1, <1>2, InitTypes, StepTypes, StepUntried, InitDistinct, StepDistinct, PTL DEF Spec

-----------------------------------------------------------------------------
(* Owners.  bind and connect give a socket to the port they take; and only  *)
(* connect takes a socket from a port without giving the port back.         *)

OwnerInv == \A p \in ports \ left : Users(p) # {}

LEMMA StepOwner == Types /\ OwnerInv /\ [Next]_vars => OwnerInv'
<1> SUFFICES ASSUME Types, OwnerInv, [Next]_vars, NEW q \in ports' \ left'
             PROVE  Users(q)' # {}
  BY DEF OwnerInv
<1> USE DEF Types
(* A step after which the users of the port still use it. *)
<1>0. ASSUME q \in ports \ left, \A fd \in Users(q) : /\ pool'[fd].state \in Used
                                                    /\ pool'[fd].port = q
      PROVE  Users(q)' # {}
  BY <1>0 DEF OwnerInv, Users, Used
<1>1. ASSUME NEW fd \in Fd, socket(fd) PROVE Users(q)' # {}
  <2>1. PICK info \in Remains :
          pool' = Inserted(pool, fd, Socket("new", info[1], info[2]))
    BY <1>1 DEF socket
  <2>2. \A other \in Users(q) : pool'[other] = pool[other]
    BY <2>1 DEF Inserted, IsFree, Users, Connected, Server
  <2>3. q \in ports \ left
    BY <1>1 DEF socket
  <2>4. QED
    BY <1>0, <2>2, <2>3 DEF Users, Used
<1>2. ASSUME NEW fd \in Fd, NEW p \in Bindable, Bind(fd, p) PROVE Users(q)' # {}
  <2>1. /\ \A other \in Fd \ {fd} : pool'[other] = pool[other]
        /\ pool'[fd].state = "CLOSED" /\ pool'[fd].port = p
        /\ fd \notin Users(q)
    BY <1>2 DEF Bind, SocketType, Users, Connected, Server
  <2>2. CASE q = p
    BY <2>1, <2>2 DEF Users, Server
  <2>3. CASE q # p
    <3>1. q \in ports \ left
      BY <1>2, <2>3 DEF Bind
    <3>2. QED
      BY <1>0, <2>1, <3>1 DEF Users, Used
  <2>4. QED
    BY <2>2, <2>3
<1>3. ASSUME NEW fd \in Fd, Listen(fd) PROVE Users(q)' # {}
  <2>1. \A other \in Fd :
          /\ pool'[other].port = pool[other].port
          /\ pool'[other].state = IF other = fd THEN "LISTEN" ELSE pool[other].state
    BY <1>3 DEF Listen, SocketType
  <2>2. q \in ports \ left
    BY <1>3 DEF Listen
  <2>3. QED
    BY <1>0, <2>1, <2>2 DEF Users, Used, Server
<1>4. ASSUME NEW fd \in Fd, NEW c \in Peer, Accept(fd, c) PROVE Users(q)' # {}
  <2>1. PICK new \in Fd :
          pool' = Inserted(Taken(fd, c), new, Socket("ESTABLISHED", pool[fd].bound, c))
    BY <1>4 DEF Accept
  <2>2. /\ Taken(fd, c) \in [Fd -> SocketType]
        /\ \A other \in Fd : /\ Taken(fd, c)[other].state = pool[other].state
                             /\ Taken(fd, c)[other].port = pool[other].port
    BY DEF Taken, SocketType, Place
  <2>3. \A other \in Fd : IsFree(other) \/ pool'[other] = Taken(fd, c)[other]
    BY <2>1, <2>2 DEF Inserted
  <2>4. \A other \in Users(q) : pool'[other] = Taken(fd, c)[other]
    BY <2>3 DEF IsFree, Users, Connected, Server
  <2>5. q \in ports \ left
    BY <1>4 DEF Accept
  <2>6. QED
    BY <1>0, <2>2, <2>4, <2>5 DEF Users, Used
<1>5. ASSUME NEW fd \in Fd, NEW p \in Port, NEW c \in Peer, Connect(fd, p, c)
      PROVE  Users(q)' # {}
  <2>1. /\ \A other \in Fd \ {fd} : pool'[other] = pool[other]
        /\ pool'[fd].state = "SYNSENT" /\ pool'[fd].port = p
    BY <1>5 DEF Connect, SocketType
  <2>2. CASE q = p
    BY <2>1, <2>2 DEF Users, Connected
  <2>3. CASE q # p
    <3>1. q \in ports \ left /\ fd \notin Users(q)
      BY <1>5, <2>3 DEF Connect
    <3>2. QED
      BY <1>0, <2>1, <3>1 DEF Users, Used
  <2>4. QED
    BY <2>2, <2>3
<1>6. ASSUME NEW fd \in Fd, CloseCall(fd) PROVE Users(q)' # {}
  <2>1. \A other \in Fd :
          /\ pool'[other].port = pool[other].port
          /\ pool'[other].state = IF other = fd THEN "CLOSING" ELSE pool[other].state
    BY <1>6 DEF CloseCall, SocketType
  <2>2. q \in ports \ left
    BY <1>6 DEF CloseCall
  <2>3. QED
    BY <1>0, <2>1, <2>2 DEF Users, Used, Connected
<1>7. ASSUME NEW fd \in Fd, Erase(fd) PROVE Users(q)' # {}
  <2>1. \A other \in Fd \ {fd} : pool'[other] = pool[other]
    BY <1>7 DEF Erase
  <2>2. q \in ports \ left /\ q # pool[fd].port
    BY <1>7 DEF Erase, Erased
  <2>3. fd \notin Users(q)
    BY <2>2 DEF Users
  <2>4. QED
    BY <1>0, <2>1, <2>2, <2>3 DEF Users, Used
<1>8. ASSUME NEW p \in Port, NEW c \in Peer, Recv(p, c)
      PROVE  Users(q)' # {}
  <2>1. PICK fd \in Fd, kind \in Kind : ListenerTakes(fd, c, kind) \/ ClientHearsSynAck(fd, kind)
    BY <1>8 DEF Recv
  <2>2. \A other \in Fd :
          /\ pool'[other].port = pool[other].port
          /\ \/ pool'[other].state = pool[other].state
             \/ pool[other].state = "SYNSENT" /\ pool'[other].state = "ESTABLISHED"
    BY <2>1 DEF ListenerTakes, ClientHearsSynAck, SocketType
  <2>3. q \in ports \ left
    BY <1>8 DEF Recv
  <2>4. QED
    BY <1>0, <2>2, <2>3 DEF Users, Used, Connected
<1>9. CASE UNCHANGED vars
  BY <1>0, <1>9 DEF vars, Users, Used
<1>10. QED
  BY <1>1, <1>2, <1>3, <1>4, <1>5, <1>6, <1>7, <1>8, <1>9 DEF Next

(* port_pool has the ports in use and no others, but for those that close   *)
(* took from a socket that uses them and those that connect left behind.    *)
THEOREM PoolIsThePortsInUse == Spec => []PortsAreThoseInUse
<1>1. Init => Untried /\ OwnerInv
  <2>1. Free.try = NoneTrying
    BY DEF Free, Socket
  <2>2. QED
    BY <2>1, NewIsUntried DEF Init, Untried, OwnerInv
<1>2. DistinctInv /\ OwnerInv => PortsAreThoseInUse
  BY DEF DistinctInv, PortInv, OwnerInv, PortsAreThoseInUse
<1>3. QED
  BY <1>1, <1>2, InitTypes, StepTypes, StepUntried, InitDistinct, StepDistinct, StepOwner,
     PTL DEF Spec
=============================================================================
