----------------------------- MODULE ByteStream -----------------------------
(* What tcp.cpp and socket.cpp promise two applications that use one        *)
(* connection: a stream of bytes each way, one segment at a time, each with *)
(* an end that comes after the last byte.                                   *)
EXTENDS Integers, Sequences

CONSTANT MSS  \* bytes per segment

Side == {0, 1}
Peer(s) == 1 - s

VARIABLES
  put,    \* number of bytes that each end has sent
  told,   \*   and of those that it knows its peer to have
  taken,  \* the bytes of its peer that each end has
  got,    \* those of them that it has read
  ended,  \* the end will send no more
  hears   \* whether the end of its peer has come: "on", "ended", or, when the
          \*   end has forgotten the connection, "gone"

vars == <<put, told, taken, got, ended, hears>>

(* Bytes are known by their place in what the writers write. *)
Bytes(n) == [i \in 1..n |-> i]

Init == /\ put   = [s \in Side |-> 0]
        /\ told  = [s \in Side |-> 0]
        /\ taken = [s \in Side |-> << >>]
        /\ got   = [s \in Side |-> << >>]
        /\ ended = [s \in Side |-> FALSE]
        /\ hears = [s \in Side |-> "on"]

(* One more segment is sent, when the last is known to have arrived. *)
Put(s) ==
  /\ ~ended[s]
  /\ told[s] = put[s]
  /\ \E n \in 1..MSS : put' = [put EXCEPT ![s] = @ + n]
  /\ UNCHANGED <<told, taken, got, ended, hears>>

(* A segment tells s what its peer has, or brings what its peer sent last,  *)
(* or both.                                                                 *)
Arrive(s) ==
  /\ ~ended[s] /\ hears[s] = "on"
  /\ told' \in {told, [told EXCEPT ![s] = Len(taken[Peer(s)])]}
  /\ taken' \in {taken, [taken EXCEPT ![s] = Bytes(put[Peer(s)])]}
  /\ UNCHANGED <<put, got, ended, hears>>

Read(s) ==
  /\ \E n \in Len(got[s]) + 1 .. Len(taken[s]) : got' = [got EXCEPT ![s] = Bytes(n)]
  /\ UNCHANGED <<put, told, taken, ended, hears>>

(* An end is put to what s sends when all of it is known to have arrived.   *)
End(s) ==
  /\ ~ended[s]
  /\ told[s] = put[s]
  /\ ended' = [ended EXCEPT ![s] = TRUE]
  /\ UNCHANGED <<put, told, taken, got, hears>>

(* The peer's end comes: s has every byte, and knows the same of the peer.  *)
HearEnd(s) ==
  /\ hears[s] = "on"
  /\ ended[Peer(s)]
  /\ taken[s] = Bytes(put[Peer(s)])
  /\ told[s] = Len(taken[Peer(s)])
  /\ hears' = [hears EXCEPT ![s] = "ended"]
  /\ UNCHANGED <<put, told, taken, got, ended>>

(* Of a connection that it has ended an end may forget everything. *)
Leave(s) ==
  /\ ended[s]
  /\ hears' = [hears EXCEPT ![s] = "gone"]
  /\ UNCHANGED <<put, told, taken, got, ended>>

Next == \E s \in Side : \/ Put(s) \/ Arrive(s) \/ Read(s)
                        \/ End(s) \/ HearEnd(s) \/ Leave(s)
=============================================================================
