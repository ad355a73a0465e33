------------------------------ MODULE Routing -------------------------------
(* The distance vector of one destination, on every host of a network       *)
(* (routing.cpp).                                                           *)
(*                                                                          *)
(* setRoutingTable looks at one key of the table and all keys the program   *)
(* makes have the mask 255.255.255.255, so the destinations do not touch    *)
(* one another: Dest is the device whose address is looked at.  A device    *)
(* stands for its IP and for its MAC address.                               *)
(*                                                                          *)
(* routingThread goes through updateDVR, sendDVR and sleep(5) on every      *)
(* host.  The hosts take turns in any order, each once a period, and a      *)
(* frame, which takes milliseconds, arrives before its receiver's next turn.*)
EXTENDS Integers, Sequences, FiniteSets

CONSTANTS
  Host, Device,
  HostOf,     \* the host of each device
  Links,      \* pairs of devices that are wired together
  Dest,       \* the device whose address is the destination
  None,       \* no entry
  MaxFaults   \* bound: links that fail and frames that are lost, together

ASSUME RoutingAssumption ==
  /\ IsFiniteSet(Host) /\ IsFiniteSet(Device)
  /\ HostOf \in [Device -> Host]
  /\ Links \subseteq SUBSET Device
  /\ Dest \in Device
  /\ MaxFaults \in Nat
  /\ None \notin [via : Device, dist : Nat, stamp : 0..3]

VARIABLES
  table,    \* RoutingTable's entry for Dest, on each host
  clocker,  \* of each host
  turn,     \* "update", "send" or "sleep": where routingThread is
  inbox,    \* what of the frames under way to a device is not handled yet
  links,    \* the links that work
  lost      \* frames lost so far

vars == <<table, clocker, turn, inbox, links, lost>>

Owner == HostOf[Dest]
DevicesOf(h) == {d \in Device : HostOf[d] = h}
PeersOf(L, d) == {p \in Device \ {d} : {p, d} \in L}
Faults == lost + Cardinality(Links \ links)

Init == /\ table   = [h \in Host |-> None]
        /\ clocker = [h \in Host |-> 0]
        /\ turn    = [h \in Host |-> "update"]
        /\ inbox   = [d \in Device |-> << >>]
        /\ links   = Links
        /\ lost    = 0

-----------------------------------------------------------------------------
(* clocker counts modulo 4: an entry stamped (clocker + 1) & 3 is three     *)
(* periods old.                                                             *)
NextClockPlain(h) == clocker[h] + 1
NextClock(h) == (clocker[h] + 1) % 4

Expired(h) == table[h] # None /\ table[h].stamp = NextClock(h)

updateDVR(h) ==
  /\ turn[h] = "update"
  /\ \A d \in DevicesOf(h) : inbox[d] = << >>
  /\ table' = IF Expired(h) THEN [table EXCEPT ![h] = None] ELSE table
  /\ clocker' = [clocker EXCEPT ![h] = NextClock(h)]
  /\ turn' = [turn EXCEPT ![h] = "send"]
  /\ UNCHANGED <<inbox, links, lost>>

(* What sendDVR says of Dest on the device d: the table's entry, then the   *)
(* device's own address.                                                    *)
Advert(d) ==
  LET entry == table[HostOf[d]] IN
  (IF entry = None THEN << >> ELSE <<[via |-> d, dist |-> entry.dist]>>)
  \o (IF d = Dest THEN <<[via |-> d, dist |-> 0]>> ELSE << >>)

Turn(h) == IF \A g \in Host \ {h} : turn[g] = "sleep"
           THEN [g \in Host |-> "update"]
           ELSE [turn EXCEPT ![h] = "sleep"]

(* The devices that hear the host h over the links of L, and its device     *)
(* that each of them hears.                                                 *)
Heard(L, h) == {p \in Device : \E d \in DevicesOf(h) : p \in PeersOf(L, d)}
From(L, h, p) == CHOOSE d \in DevicesOf(h) : p \in PeersOf(L, d)

sendDVR(h) ==
  /\ turn[h] = "send"
  /\ \E missed \in SUBSET Heard(links, h) :
       /\ Faults + Cardinality(missed) <= MaxFaults
       /\ lost' = lost + Cardinality(missed)
       /\ inbox' = [p \in Device |-> IF p \in Heard(links, h) \ missed
                                     THEN inbox[p] \o Advert(From(links, h, p))
                                     ELSE inbox[p]]
  /\ turn' = Turn(h)
  /\ UNCHANGED <<table, clocker, links>>

(* setRoutingTable, of one entry of a frame that recvDVR goes through: an   *)
(* address of the host itself is at distance 0.                             *)
ValueUncounted(h, e) ==
  [via |-> e.via, dist |-> IF h = Owner THEN 0 ELSE e.dist, stamp |-> clocker[h]]
Value(h, e) == IF h = Owner
               THEN [via |-> Dest, dist |-> 0, stamp |-> clocker[h]]
               ELSE [via |-> e.via, dist |-> e.dist + 1, stamp |-> clocker[h]]

ReplacesAny(h, value) == TRUE
ReplacesShorter(h, value) ==
  \/ table[h] = None
  \/ table[h].dist > value.dist
Replaces(h, value) ==
  \/ table[h] = None
  \/ Expired(h)
  \/ table[h].dist >= value.dist

recvDVR(d) ==
  LET h == HostOf[d]
      value == Value(h, Head(inbox[d])) IN
  /\ inbox[d] # << >>
  /\ table' = IF Replaces(h, value) THEN [table EXCEPT ![h] = value] ELSE table
  /\ inbox' = [inbox EXCEPT ![d] = Tail(@)]
  /\ UNCHANGED <<clocker, turn, links, lost>>

(* A link fails for good. *)
Cut(l) == /\ l \in links
          /\ Faults < MaxFaults
          /\ links' = links \ {l}
          /\ UNCHANGED <<table, clocker, turn, inbox, lost>>

-----------------------------------------------------------------------------
HostSteps(h) == \/ updateDVR(h) \/ sendDVR(h)
                \/ \E d \in DevicesOf(h) : recvDVR(d)

Next == \/ \E h \in Host : HostSteps(h)
        \/ \E l \in Links : Cut(l)

Spec == Init /\ [][Next]_vars

(* routingThread goes round for ever: it comes to updateDVR and to sendDVR  *)
(* again and again, and each device's thread has handled what came before.  *)
FairSpec ==
  Spec /\ \A h \in Host : []<>(turn[h] = "update") /\ []<>(turn[h] = "send")

-----------------------------------------------------------------------------
(* Properties *)

Entry == [via : Device, dist : Nat, stamp : 0..3]

(* Every variable keeps its type. *)
TypeOK == /\ table \in [Host -> Entry \cup {None}]
          /\ clocker \in [Host -> 0..3]
          /\ turn \in [Host -> {"update", "send", "sleep"}]
          /\ inbox \in [Device -> Seq([via : Device, dist : Nat])]
          /\ links \subseteq Links
          /\ lost \in Nat

(* The hosts within n hops of the destination's, over the links of L. *)
Within(L) ==
  LET reach[n \in Nat] ==
        IF n = 0 THEN {Owner}
        ELSE reach[n - 1] \cup {h \in Host : \E l \in L :
                                  /\ \E d \in l : HostOf[d] = h
                                  /\ \E d \in l : HostOf[d] \in reach[n - 1]}
  IN  reach

Connected(h) == h \in Within(links)[Cardinality(Host)]
Hops(h) == CHOOSE n \in 0..Cardinality(Host) :
             h \in Within(links)[n] /\ \A k \in 0..(n - 1) : h \notin Within(links)[k]

(* Lower bounds of the hop counts: 0 at the destination's host, and at most *)
(* one apart where hosts are linked.                                        *)
LowerBound ==
  {D \in [Host -> 0..Cardinality(Host)] :
     /\ D[Owner] = 0
     /\ \A l \in Links : \A a, b \in l : D[HostOf[a]] <= D[HostOf[b]] + 1}

(* No host ever believes the destination nearer than it is, whatever was    *)
(* lost, cut, overtaken or stale on the way (routing.cpp:38-48, 261): the   *)
(* distance of an entry is no less than any lower bound of the hop count.   *)
NeverTooNear ==
  \A D \in LowerBound : \A h \in Host : table[h] # None => table[h].dist >= D[h]

(* While the links stay as they are no host loses its route, although every *)
(* entry expires after three periods, the turns come in any order, and one  *)
(* frame may be lost (routing.cpp:47, 275).                                 *)
NoRouteLost ==
  [][\A h \in Host : links = Links /\ lost' <= 1 /\ table[h] # None
                     => table'[h] # None]_vars

(* While nothing fails, routes lead somewhere: the next hop is the          *)
(* destination's host, or has a shorter route itself.  So there is no loop, *)
(* in the middle of convergence too.  After one lost frame there can be: an *)
(* entry that is three periods old takes the host's own route back from a   *)
(* neighbour that has it from the host (routing.cpp:47).                    *)
RoutesLead ==
  \A h \in Host : links = Links /\ lost = 0 /\ h # Owner /\ table[h] # None =>
    LET next == HostOf[table[h].via] IN
    next = Owner \/ (table[next] # None /\ table[next].dist < table[h].dist)

(* Every host that can reach the destination comes to know how far it is,   *)
(* and stays with that: also where a link has failed and the entries that   *)
(* it made stale are still being passed on.  A device's address is made     *)
(* known over its own link (routing.cpp:225), which has to work.            *)
Converges == <>[](PeersOf(links, Dest) # {} => \A h \in Host : Connected(h) =>
                    table[h] # None /\ table[h].dist = Hops(h))

=============================================================================
