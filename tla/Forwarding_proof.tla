-------------------------- MODULE Forwarding_proof ---------------------------
(* Forwarding, on any network of wires between two devices and whatever     *)
(* fails in it: the tables are Routing's, no copy outlives the time to      *)
(* live, and without a flood there is one copy at most.                     *)
EXTENDS Forwarding, Routing_proof

(* The composition does to the tables what Routing does. *)
THEOREM RoutingGoesOn == FSpec => Spec
<1>1. FInit => Init
  BY DEF FInit
<1>2. [FNext]_<<vars, fvars>> => [Next]_vars
  BY DEF FNext
<1>3. QED
  BY <1>1, <1>2, PTL DEF FSpec, Spec

-----------------------------------------------------------------------------
(* What a host sends has come one device further. *)
LEMMA SentIsTyped ==
  ASSUME NEW h, NEW path \in Seq(Device), NEW copy \in sendIPPacket(h, path)
  PROVE  copy \in Seq(Device) /\ Len(copy) = Len(path) + 1
<1>1. PICK p \in Device : copy = Append(path, p)
  BY DEF sendIPPacket, PeersOf
<1>2. QED
  BY <1>1

PacketTypes == /\ sent \in BOOLEAN /\ ready \in BOOLEAN
               /\ flooded \in BOOLEAN /\ early \in BOOLEAN
               /\ copies \subseteq Seq(Device)
               /\ \A path \in copies : Len(path) \in 1..(TTL + 1)
               /\ delivered \in Nat

LEMMA PacketTypesStep == PacketTypes /\ [FNext]_<<vars, fvars>> => PacketTypes'
<1> SUFFICES ASSUME PacketTypes, [FNext]_<<vars, fvars>> PROVE PacketTypes'
  OBVIOUS
<1> USE DEF PacketTypes
<1>1. CASE UNCHANGED fvars
  BY <1>1 DEF fvars
<1>2. CASE Send
  <2>1. << >> \in Seq(Device) /\ Len(<< >>) = 0
    OBVIOUS
  <2>2. copies' = sendIPPacket(HostOf[Source], << >>)
    BY <1>2 DEF Send
  <2>3. ASSUME NEW copy \in copies'
        PROVE  copy \in Seq(Device) /\ Len(copy) = 1
    <3>1. copy \in sendIPPacket(HostOf[Source], << >>)
      BY <2>2
    <3>2. copy \in Seq(Device) /\ Len(copy) = Len(<< >>) + 1
      BY <2>1, <3>1, SentIsTyped
    <3>3. QED
      BY <2>1, <3>2
  <2>4. \A copy \in copies' : Len(copy) \in 1..(TTL + 1)
    <3>1. 1 \in 1..(TTL + 1)
      BY ForwardingAssumption
    <3>2. QED
      BY <2>3, <3>1, Zenon
  <2>5. sent' \in BOOLEAN /\ flooded' \in BOOLEAN /\ UNCHANGED <<delivered, ready, early>>
    BY <1>2, Zenon DEF Send, Floods, HasRoute
  <2>6. QED
    BY <2>3, <2>4, <2>5, Zenon
<1>3. CASE setIPPacketReceiveCallback
  BY <1>3 DEF setIPPacketReceiveCallback
<1>4. ASSUME NEW path \in copies, recvPacket(path) PROVE PacketTypes'
  <2>1. copies' \subseteq copies /\ UNCHANGED <<sent, ready, flooded>>
    BY <1>4 DEF recvPacket
  <2>2. delivered' = delivered + 1 \/ delivered' = delivered
    BY <1>4, Zenon DEF recvPacket
  <2>3. delivered' \in Nat
    BY <2>2
  <2>4. early' \in BOOLEAN
    BY <1>4, Zenon DEF recvPacket
  <2>5. QED
    BY <2>1, <2>3, <2>4, Zenon
<1>5. ASSUME NEW path \in copies, forward(path) PROVE PacketTypes'
  <2>1. path \in Seq(Device) /\ Len(path) \in 1..TTL
    BY <1>5, ForwardingAssumption DEF forward, ExpiredPacket, Ttl
  <2>2. \A copy \in sendIPPacket(HostOf[At(path)], path) :
          copy \in Seq(Device) /\ Len(copy) \in 1..(TTL + 1)
    BY <2>1, SentIsTyped, ForwardingAssumption
  <2>3. QED
    BY <1>5, <2>2 DEF forward, Floods
<1>6. ASSUME NEW path \in copies, Drop(path) PROVE PacketTypes'
  BY <1>6 DEF Drop
<1>7. QED
  BY <1>1, <1>2, <1>3, <1>4, <1>5, <1>6 DEF FNext, PacketStep, recvFrame, fvars

(* Every variable keeps its type, and no copy outlives the time to live. *)
THEOREM NoCopyOutlivesTTL == FSpec => []FTypeOK
<1>1. FInit => PacketTypes
  <2> SUFFICES ASSUME FInit PROVE PacketTypes
    OBVIOUS
  <2>1. sent \in BOOLEAN /\ ready \in BOOLEAN /\ flooded \in BOOLEAN /\ early \in BOOLEAN
    BY Zenon DEF FInit
  <2>2. copies = {} /\ delivered \in Nat
    BY DEF FInit
  <2>3. QED
    BY <2>1, <2>2, Zenon DEF PacketTypes
<1>2. TypeOK /\ PacketTypes => FTypeOK
  BY DEF PacketTypes, FTypeOK
<1>3. QED
  BY <1>1, <1>2, PacketTypesStep, RoutingGoesOn, TypeCorrect, PTL DEF FSpec

-----------------------------------------------------------------------------
(* A host with a route sends one frame at most. *)
LEMMA RouteIsOneHop ==
  ASSUME NEW h, NEW path, HasRoute(h), links \subseteq Links,
         NEW one \in sendIPPacket(h, path), NEW other \in sendIPPacket(h, path)
  PROVE  one = other
<1>1. PICK d \in NextHops(h), p \in Device : p \in PeersOf(links, d) /\ one = Append(path, p)
  BY DEF sendIPPacket, PeersOf
<1>2. PICK e \in NextHops(h), q \in Device : q \in PeersOf(links, e) /\ other = Append(path, q)
  BY DEF sendIPPacket, PeersOf
<1>3. {d, table[h].via} \in Links /\ {e, table[h].via} \in Links
  BY <1>1, <1>2 DEF NextHops
<1>4. {d, table[h].via} = {e, table[h].via}
  <2>1. table[h].via \in {d, table[h].via} \cap {e, table[h].via}
    OBVIOUS
  <2>2. QED
    BY <1>3, <2>1, WireAssumption
<1>5. d = e
  BY <1>4
<1>6. {p, d} \in Links /\ {q, d} \in Links /\ p # d /\ q # d
  BY <1>1, <1>2, <1>5 DEF PeersOf
<1>7. {p, d} = {q, d}
  <2>1. d \in {p, d} \cap {q, d}
    OBVIOUS
  <2>2. QED
    BY <1>6, <2>1, WireAssumption
<1>8. p = q
  BY <1>6, <1>7
<1>9. QED
  BY <1>1, <1>2, <1>8

(* Without a flood the packet is in one place: not sent, on one wire,       *)
(* delivered, or gone.                                                      *)
OneCopy == ~flooded => \/ copies = {} /\ delivered = 0
                       \/ delivered = 0 /\ sent /\ \E path : copies = {path}
                       \/ copies = {} /\ delivered = 1 /\ sent

LEMMA AtMostOne ==
  ASSUME NEW S, \A one, other \in S : one = other
  PROVE  S = {} \/ \E path : S = {path}
<1>1. CASE S # {}
  <2>1. PICK path \in S : TRUE
    BY <1>1
  <2>2. S = {path}
    BY <2>1
  <2>3. QED
    BY <2>2
<1>2. QED
  BY <1>1

LEMMA OneCopyStep ==
  TypeOK /\ OneCopy /\ [FNext]_<<vars, fvars>> => OneCopy'
<1> SUFFICES ASSUME TypeOK, OneCopy, [FNext]_<<vars, fvars>>, ~flooded'
             PROVE  \/ copies' = {} /\ delivered' = 0
                    \/ delivered' = 0 /\ sent' /\ \E path : copies' = {path}
                    \/ copies' = {} /\ delivered' = 1 /\ sent'
  BY DEF OneCopy
<1>0. links \subseteq Links
  BY DEF TypeOK
<1>1. CASE UNCHANGED fvars
  BY <1>1 DEF fvars, OneCopy
<1>2. CASE Send
  <2>1. HasRoute(HostOf[Source]) /\ ~flooded
    BY <1>2 DEF Send, Floods
  <2>2. \A one, other \in copies' : one = other
    BY <1>0, <1>2, <2>1, RouteIsOneHop DEF Send
  <2>3. delivered' = 0 /\ sent'
    BY <1>2, <2>1 DEF Send, OneCopy
  <2>4. QED
    BY <2>2, <2>3, AtMostOne
<1>3. CASE setIPPacketReceiveCallback
  BY <1>3 DEF setIPPacketReceiveCallback, OneCopy
<1>4. ASSUME NEW path \in copies, recvFrame(path)
      PROVE  \/ copies' = {} /\ delivered' = 0
             \/ delivered' = 0 /\ sent' /\ \E q : copies' = {q}
             \/ copies' = {} /\ delivered' = 1 /\ sent'
  <2>1. ~flooded
    BY <1>4 DEF recvFrame, recvPacket, forward, Drop, Floods
  <2>2. copies = {path} /\ delivered = 0 /\ sent
    BY <1>4, <2>1 DEF OneCopy
  <2>3. CASE recvPacket(path) \/ Drop(path)
    <3>1. copies' = {} /\ sent'
      BY <2>2, <2>3 DEF recvPacket, Drop
    <3>2. delivered' = delivered + 1 \/ delivered' = delivered
      BY <2>3, Zenon DEF recvPacket, Drop
    <3>3. delivered' = 1 \/ delivered' = 0
      BY <2>2, <3>2
    <3>4. QED
      BY <3>1, <3>3, Zenon
  <2>4. CASE forward(path)
    <3>1. HasRoute(HostOf[At(path)])
      BY <2>4 DEF forward, Floods
    <3>2. copies' = sendIPPacket(HostOf[At(path)], path)
      BY <2>2, <2>4 DEF forward
    <3>3. \A one, other \in copies' : one = other
      BY <1>0, <3>1, <3>2, RouteIsOneHop
    <3>4. delivered' = 0 /\ sent'
      BY <2>2, <2>4 DEF forward
    <3>5. QED
      BY <3>3, <3>4, AtMostOne
  <2>5. QED
    BY <1>4, <2>3, <2>4 DEF recvFrame
<1>5. QED
  BY <1>1, <1>2, <1>3, <1>4 DEF FNext, PacketStep, fvars

(* Only hosts without a route multiply a packet: else it is delivered once  *)
(* at most, on any network and whatever fails.                              *)
THEOREM DeliveredOnce == FSpec => []OnlyFloodsMultiply
<1>1. FInit => OneCopy
  BY DEF FInit, OneCopy
<1>2. OneCopy => OnlyFloodsMultiply
  <2> SUFFICES ASSUME OneCopy, ~flooded PROVE Cardinality(copies) + delivered <= 1
    BY DEF OnlyFloodsMultiply
  <2>1. CASE copies = {}
    BY <2>1, FS_EmptySet DEF OneCopy
  <2>2. CASE delivered = 0 /\ \E path : copies = {path}
    <3>1. PICK path : copies = {path}
      BY <2>2
    <3>2. Cardinality(copies) = 1
      BY <3>1, FS_Singleton
    <3>3. QED
      BY <2>2, <3>2
  <2>3. QED
    BY <2>1, <2>2 DEF OneCopy
<1>3. QED
  BY <1>1, <1>2, OneCopyStep, RoutingGoesOn, TypeCorrect, PTL DEF FSpec
=============================================================================
