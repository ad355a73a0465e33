----------------------------- MODULE SocketTable -----------------------------
(* The tables of the socket library on one host: socket_pool, which maps    *)
(* descriptors to sockets, and port_pool, the ports in use; the calls of    *)
(* the application that change them; and the search of recvTCPPacket for    *)
(* the socket a segment belongs to.                                         *)
(*                                                                          *)
(* The host has one address, so a socket's info is its port and its peer,   *)
(* the (address, port) pair of the other side.  The constructor of socket_t *)
(* leaves info as the memory was, and that may be a deleted socket's: the   *)
(* port and the peer of a new socket are any of Remains.  Any segment may   *)
(* arrive at any time: the network keeps old ones and peers come back.  The *)
(* application calls bind, connect, accept and close on any descriptor it   *)
(* has, in any order and as often as it likes; it listens on what it has    *)
(* bound.  Calls that return -1 change nothing and are left out.            *)
(*                                                                          *)
(* As in TcpConnection, a definition that nothing uses is the next one with *)
(* a slip in it.                                                            *)
EXTENDS Integers, FiniteSets

CONSTANTS
  Port,     \* local port numbers
  Bindable, \* those the application asks bind for
  Peer,     \* (address, port) pairs of other hosts
  NoPort,   \* what is in info that is no member of Port,
  NoPeer,   \*   and of Peer
  Remains,  \* the <<port, peer>> that the memory of a new socket may hold
  Limit,    \* 256: descriptors the search for a free one looks at
  Backlog   \* size of connTrying_set

ASSUME TableAssumption == /\ NoPort \notin Port /\ NoPeer \notin Peer
                          /\ Bindable \subseteq Port
                          /\ Remains \subseteq (Port \cup {NoPort}) \X (Peer \cup {NoPeer})
                          /\ Limit \in Nat \ {0}
                          /\ Backlog \in 1..5

VARIABLES
  pool,     \* socket_pool: descriptor -> socket, free or not
  ports,    \* port_pool
  \* What has happened:
  spoilt,   \* ports in use that close took out of port_pool under another
            \*   socket, whose listener started with a peer left in info, or
            \*   that accept went on using after connect had moved the listener
  left      \* ports in port_pool that connect took their socket away from

vars == <<pool, ports, spoilt, left>>

Fd == 0..Limit
Place == {"none", "LISTEN", "SYNRCVD", "ESTABLISHED"}
NoneTrying == [c \in Peer |-> "none"]

(* The entries of connTrying_set have the port that the socket was bound    *)
(* to, also when connect has changed its info since.                        *)
Socket(state, port, peer) ==
  [state |-> state, port |-> port, peer |-> peer, try |-> NoneTrying,
   bound |-> NoPort]

Free == Socket("free", NoPort, NoPeer)

Connected == {"SYNSENT", "ESTABLISHED", "CLOSING"}
Server == {"CLOSED", "LISTEN"}

(* Sockets that have been bound or connected use their port. *)
Users(p) == {fd \in Fd : pool[fd].state \in Connected \cup Server /\ pool[fd].port = p}

Init == /\ pool = [fd \in Fd |-> Free]
        /\ ports = {} /\ spoilt = {} /\ left = {}

-----------------------------------------------------------------------------
(* Descriptors: the first that is free, or Limit. *)

IsFree(fd) == pool[fd].state = "free"

IsNextFd(fd) == /\ fd = Limit \/ IsFree(fd)
                /\ \A lower \in 0..(fd - 1) : ~IsFree(lower)

(* insert does not replace what is there. *)
Inserted(table, fd, s) == IF IsFree(fd) THEN [table EXCEPT ![fd] = s] ELSE table

socket(fd) == /\ IsNextFd(fd)
              /\ \E info \in Remains :
                   pool' = Inserted(pool, fd, Socket("new", info[1], info[2]))
              /\ UNCHANGED <<ports, spoilt, left>>

-----------------------------------------------------------------------------
(* Servers *)

BindOK(p) == p \notin ports

(* Once bound or connected, a socket has a role, and bind refuses it. *)
Bind(fd, p) == /\ BindOK(p)
               /\ pool[fd].state = "new"
               /\ pool' = [pool EXCEPT ![fd].state = "CLOSED", ![fd].port = p,
                                       ![fd].bound = p]
               /\ ports' = ports \cup {p}
               /\ UNCHANGED <<spoilt, left>>

(* __my_listen itself looks at nothing: that the socket has been bound is   *)
(* up to the application.                                                   *)
Listen(fd) == /\ pool[fd].state = "CLOSED"
              /\ pool' = [pool EXCEPT ![fd].state = "LISTEN"]
              /\ spoilt' = IF pool[fd].peer = NoPeer THEN spoilt
                                                     ELSE spoilt \cup {pool[fd].port}
              /\ UNCHANGED <<ports, left>>

(* getAddr takes an established entry out of connTrying_set. *)
TakenKept(fd, c) == pool
Taken(fd, c) == [pool EXCEPT ![fd].try[c] = "none"]

(* The new socket has the port of the entry, whether or not the socket      *)
(* still listens there.                                                     *)
Accept(fd, c) ==
  /\ pool[fd].try[c] = "ESTABLISHED"
  /\ \E new \in Fd :
       /\ IsNextFd(new)
       /\ pool' = Inserted(Taken(fd, c), new, Socket("ESTABLISHED", pool[fd].bound, c))
  /\ spoilt' = IF pool[fd].state = "LISTEN" THEN spoilt
                                            ELSE spoilt \cup {pool[fd].bound}
  /\ UNCHANGED <<ports, left>>

-----------------------------------------------------------------------------
(* Clients *)

Drawn(p) == p \notin ports

(* rand until the port is not in the pool.  Neither role nor state of the   *)
(* socket is looked at: one that is bound or connected loses its port,      *)
(* which stays in the pool.                                                 *)
Connect(fd, p, c) ==
  /\ ~IsFree(fd)
  /\ Drawn(p)
  /\ ports' = ports \cup {p}
  /\ pool' = [pool EXCEPT ![fd].state = "SYNSENT", ![fd].port = p, ![fd].peer = c]
  /\ left' = left \cup {q \in ports : fd \in Users(q)}
  /\ UNCHANGED spoilt

-----------------------------------------------------------------------------
(* close *)

(* FINs are exchanged, in the states that CLOSING stands for. *)
CloseCall(fd) == /\ pool[fd].state = "ESTABLISHED"
                 /\ pool' = [pool EXCEPT ![fd].state = "CLOSING"]
                 /\ UNCHANGED <<ports, spoilt, left>>

ErasedKept(fd) == ports
Erased(fd) == ports \ {pool[fd].port}

(* The port goes, whoever else may use it, and whether or not the socket    *)
(* ever got it.                                                             *)
Erase(fd) ==
  /\ ~IsFree(fd) /\ pool[fd].state # "ESTABLISHED"
  /\ pool' = [pool EXCEPT ![fd] = Free]
  /\ ports' = Erased(fd)
  /\ spoilt' = {p \in spoilt \cup {pool[fd].port} : Users(p) \ {fd} # {}}
  /\ left' = left \ {pool[fd].port}

-----------------------------------------------------------------------------
(* recvTCPPacket *)

Owners(p, c) == {fd \in Fd : /\ ~IsFree(fd)
                             /\ pool[fd].port = p
                             /\ pool[fd].peer = c}
Listeners(p) == {fd \in Fd : pool[fd].state = "LISTEN" /\ pool[fd].port = p}

(* The socket of a segment: the first with its port and peer, or else the   *)
(* last that listens on the port.                                           *)
IsFoundListenerFirst(p, c, fd) ==
  IF Listeners(p) # {}
    THEN fd \in Listeners(p) /\ \A other \in Listeners(p) : fd >= other
    ELSE fd \in Owners(p, c) /\ \A other \in Owners(p, c) : fd <= other
IsFound(p, c, fd) ==
  IF Owners(p, c) # {}
    THEN fd \in Owners(p, c) /\ \A other \in Owners(p, c) : fd <= other
    ELSE fd \in Listeners(p) /\ \A other \in Listeners(p) : fd >= other

Trying(fd) == {c \in Peer : pool[fd].try[c] # "none"}

HasPlaceAlways(fd, c) == TRUE
HasPlace(fd, c) == c \in Trying(fd) \/ Cardinality(Trying(fd)) < Backlog

(* The entry of c after a segment. *)
Tried(place, kind) ==
  CASE kind = "syn" /\ place # "ESTABLISHED" -> "SYNRCVD"
    [] kind # "syn" /\ place = "SYNRCVD"     -> "ESTABLISHED"
    [] OTHER                                 -> IF place = "none" THEN "LISTEN" ELSE place

ListenerTakes(fd, c, kind) ==
  /\ pool[fd].state = "LISTEN"
  /\ HasPlace(fd, c)
  /\ pool' = [pool EXCEPT ![fd].try[c] = Tried(@, kind)]

ClientHearsSynAck(fd, kind) ==
  /\ pool[fd].state = "SYNSENT"
  /\ kind = "synack"
  /\ pool' = [pool EXCEPT ![fd].state = "ESTABLISHED"]

Kind == {"syn", "ack", "synack"}

(* What reaches a socket in another state does not change the tables. *)
Recv(p, c) ==
  /\ \E fd \in Fd :
       /\ pool[fd].state \in {"LISTEN", "SYNSENT"}
       /\ IsFound(p, c, fd)
       /\ \E kind \in Kind : ListenerTakes(fd, c, kind) \/ ClientHearsSynAck(fd, kind)
  /\ UNCHANGED <<ports, spoilt, left>>

Next == \/ \E fd \in Fd : socket(fd) \/ Listen(fd) \/ CloseCall(fd) \/ Erase(fd)
        \/ \E fd \in Fd, p \in Bindable : Bind(fd, p)
        \/ \E fd \in Fd, c \in Peer : Accept(fd, c)
        \/ \E fd \in Fd, p \in Port, c \in Peer : Connect(fd, p, c)
        \/ \E p \in Port, c \in Peer : Recv(p, c)

Spec == Init /\ [][Next]_vars

-----------------------------------------------------------------------------
(* Properties *)

SocketType == [state : {"free", "new"} \cup Connected \cup Server,
               port : Port \cup {NoPort}, peer : Peer \cup {NoPeer},
               try : [Peer -> Place], bound : Port \cup {NoPort}]

(* Every variable keeps its type, a socket in use has a port, and           *)
(* connTrying_set never outgrows the backlog (tcp.cpp:215).                 *)
TypeOK == /\ pool \in [Fd -> SocketType]
          /\ ports \subseteq Port /\ spoilt \subseteq Port /\ left \subseteq ports
          /\ \A fd \in Fd : /\ pool[fd].state \in Connected \cup Server => pool[fd].port \in Port
                           /\ pool[fd].state \in Connected => pool[fd].peer \in Peer
          /\ \A fd \in Fd : Cardinality(Trying(fd)) <= Backlog

(* Listeners and connections share their port, so only the peer tells them  *)
(* apart.  While the port is not spoilt, it has one server socket, its      *)
(* connections have different peers, and none of them is still (or again)   *)
(* with the listener: accept returns no connection twice and bind and       *)
(* connect get no port that is in use, however late segments come.          *)
ConnectionsAreDistinct ==
  \A p \in Port \ spoilt : \A fd, other \in Users(p) :
    fd # other =>
      /\ ~(pool[fd].state \in Server /\ pool[other].state \in Server)
      /\ {pool[fd].state, pool[other].state} \subseteq Connected =>
           pool[fd].peer # pool[other].peer
      /\ pool[fd].state = "LISTEN" => pool[fd].try[pool[other].peer] = "none"

(* A segment of a connection never reaches another connection's socket or a *)
(* listener, whichever order the descriptors are in and whoever listens on  *)
(* the port; at worst a socket not yet in use, with the connection's info   *)
(* left in it, swallows it.                                                 *)
SegmentsFindTheirSocket ==
  \A p \in Port \ spoilt : \A fd \in Users(p), other \in Fd :
    pool[fd].state \in Connected /\ IsFound(p, pool[fd].peer, other) =>
      other = fd \/ pool[other].state \in {"new", "CLOSED"}

(* port_pool has the ports in use and no others: bind and connect get none  *)
(* that a socket uses, and none is lost to them for ever, whatever the      *)
(* order of the calls and although callers may share a descriptor           *)
(* (socket.cpp:90).  But close takes a port away from the others that use   *)
(* it (spoilt), and connect on a socket that has a port, as after bind,     *)
(* leaves that port behind in the pool (socket.cpp:211), where it stays     *)
(* unless a connection that was accepted there is closed (left).            *)
PortsAreThoseInUse ==
  \A p \in Port : /\ p \notin spoilt /\ Users(p) # {} => p \in ports
                  /\ p \in ports \ left => Users(p) # {}
=============================================================================
