----------------------------- MODULE Forwarding ------------------------------
(* A packet for Dest on its way through the hosts (ip.cpp, packetio.cpp and *)
(* lookForRouting), while Routing builds and changes the tables it follows. *)
(*                                                                          *)
(* A copy of the packet is the sequence of the devices it has come in on,   *)
(* the last one included, which it has reached but which has not handled it *)
(* yet.  A frame is heard at the other end of its wire; a third device on   *)
(* the wire would hear it as well and pass it on, as devices are opened in  *)
(* promiscuous mode and recvFrame does not look at the MAC address.         *)
(*                                                                          *)
(* As in TcpConnection, a definition that nothing uses is the next one with *)
(* a slip in it.                                                            *)
EXTENDS Routing

CONSTANTS
  Source,   \* the device whose address the packet comes from
  TTL       \* time to live the packet starts with, 32 in the code

ASSUME ForwardingAssumption == /\ Source \in Device /\ HostOf[Source] # Owner
                               /\ TTL \in Nat

(* A wire joins two devices, and a device is on one wire. *)
ASSUME WireAssumption ==
  /\ \A l \in Links : \A a, b, c \in l : a = b \/ b = c \/ a = c
  /\ \A l, m \in Links : l \cap m # {} => l = m

VARIABLES
  sent,       \* the packet has been sent
  copies,     \* copies of it that are under way
  delivered,  \* how many have been handed to recvTCPPacket
  ready,      \* recvPacket_SF of the destination's host
  \* What has happened:
  flooded,    \* a host without a route sent a copy to everyone
  early       \* a copy came to the destination's host before it was ready

fvars == <<sent, copies, delivered, ready, flooded, early>>

FInit == /\ Init
         /\ sent = FALSE /\ copies = {} /\ delivered = 0
         /\ ready = FALSE /\ flooded = FALSE /\ early = FALSE

-----------------------------------------------------------------------------
(* lookForRouting: the devices to send on.  An entry names the device of    *)
(* the next hop, and with it one's own on the same wire.                    *)
HasRoute(h) == table[h] # None

NextHopsKnown(h) ==
  {d \in DevicesOf(h) : HasRoute(h) /\ {d, table[h].via} \in Links}
NextHopsAll(h) == DevicesOf(h)
NextHops(h) == IF HasRoute(h)
               THEN {d \in DevicesOf(h) : {d, table[h].via} \in Links}
               ELSE DevicesOf(h)

(* sendIPPacket, of a copy that has come along path: what the wires carry.  *)
sendIPPacket(h, path) ==
  {Append(path, p) : p \in UNION {PeersOf(links, d) : d \in NextHops(h)}}

Floods(h) == flooded \/ ~HasRoute(h)

(* The first host, for a packet of its own. *)
Send == LET h == HostOf[Source] IN
        /\ ~sent
        /\ sent' = TRUE
        /\ copies' = sendIPPacket(h, << >>)
        /\ flooded' = Floods(h)
        /\ UNCHANGED <<delivered, ready, early>>

-----------------------------------------------------------------------------
(* recvFrame *)

At(path) == path[Len(path)]

(* The header's ttl: TTL when the first host sends it. *)
Ttl(path) == TTL - (Len(path) - 1)

(* What comes back to the device it is from is ignored. *)
Ignored(path) == At(path) = Source

IsMyPacket(path) == HostOf[At(path)] = Owner

recvPacket(path) ==
  /\ ~Ignored(path) /\ IsMyPacket(path)
  /\ IF ready THEN delivered' = delivered + 1 /\ UNCHANGED early
              ELSE early' = TRUE /\ UNCHANGED delivered
  /\ copies' = copies \ {path}
  /\ UNCHANGED <<sent, ready, flooded>>

ExpiredNever(path) == FALSE
ExpiredPacket(path) == Ttl(path) = 0

forward(path) ==
  LET h == HostOf[At(path)] IN
  /\ ~Ignored(path) /\ ~IsMyPacket(path) /\ ~ExpiredPacket(path)
  /\ copies' = (copies \ {path}) \cup sendIPPacket(h, path)
  /\ flooded' = Floods(h)
  /\ UNCHANGED <<sent, delivered, ready, early>>

Drop(path) == /\ \/ Ignored(path)
                 \/ ~IsMyPacket(path) /\ ExpiredPacket(path)
              /\ copies' = copies \ {path}
              /\ UNCHANGED <<sent, delivered, ready, flooded, early>>

recvFrame(path) == recvPacket(path) \/ forward(path) \/ Drop(path)

(* InitNS starts the threads of the devices first and then sets the         *)
(* callback that takes their packets.                                       *)
setIPPacketReceiveCallback == /\ ~ready
                              /\ ready' = TRUE
                              /\ UNCHANGED <<sent, copies, delivered, flooded, early>>

-----------------------------------------------------------------------------
PacketStep == \/ Send
              \/ setIPPacketReceiveCallback
              \/ \E path \in copies : recvFrame(path)

(* As in Routing, a frame arrives before its receiver's next turn. *)
InTime == \A path \in copies :
            turn[HostOf[At(path)]] = "update" => turn'[HostOf[At(path)]] = "update"

FNext == \/ Next /\ InTime /\ UNCHANGED fvars
         \/ PacketStep /\ UNCHANGED vars

FSpec == FInit /\ [][FNext]_<<vars, fvars>>

(* Each device has a thread that handles its frames for ever. *)
FFairSpec == FSpec /\ WF_fvars(\E path \in copies : recvFrame(path))

-----------------------------------------------------------------------------
(* Properties *)

(* Every variable keeps its type, and no copy outlives the time to live.    *)
FTypeOK == /\ TypeOK
           /\ sent \in BOOLEAN /\ ready \in BOOLEAN
           /\ flooded \in BOOLEAN /\ early \in BOOLEAN
           /\ copies \subseteq Seq(Device)
           /\ \A path \in copies : Len(path) \in 1..(TTL + 1)
           /\ delivered \in Nat

(* A packet is multiplied only by hosts that have no route (routing.cpp:131)*)
(* and so, once every host knows the destination, delivered once at most:   *)
(* also where a link fails and the tables change under it.                  *)
OnlyFloodsMultiply ==
  ~flooded => Cardinality(copies) + delivered <= 1

(* The packet arrives while the tables are still being built, although each *)
(* host decides by the table of the moment and some have none: unless a     *)
(* link fails, or the destination has not finished its start and drops it   *)
(* (init.cpp:27).                                                           *)
PacketArrives == sent ~> delivered > 0 \/ early \/ links # Links
=============================================================================
