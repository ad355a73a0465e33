# A verification of the TCP protocol stack

The repository is a TCP/IP stack in user space, in C++ over libpcap. A program
is linked against it with `--wrap`, and its calls of `socket`, `connect`,
`read`, `close` and so on become `__my_socket`, ... (`src/socket.cpp`). This
directory holds TLA+ models of it, and of the process control of `mperf`, the load
generator it is measured with; instances of them that TLC checks; and theorems
about them that TLAPS checks for every value of the constants.

Paths below are relative to the repository, so that `src/tcp.cpp` is the file
`tcp.cpp` of its directory `src`. The course reports next to it are quoted by
file and page.

1. [The system](#1-the-system)
2. [The modules and the code](#2-the-modules-and-the-code)
3. [What the runs check](#3-what-the-runs-check)
4. [Fairness](#4-fairness)
5. [What is proved](#5-what-is-proved)
6. [Findings](#6-findings)
7. [What is left out, and the plan](#7-what-is-left-out-and-the-plan)

## 1. The system

Threads of one process: the application's, one receive thread for each network
device (`deviceThread`, `src/packetio.cpp`), the routing thread
(`src/routing.cpp:287`) and the timer thread (`src/timer.cpp`).

| component | state it keeps | operations |
|---|---|---|
| TCP connection (`src/tcp.cpp`, `src/socket.cpp`) | `socket_t`: `state`, the receive ring `buffer` with `readp` and `szep`, `writep`; `ARQflag` | `recvTCPPacket`, `__my_read`, `__my_write`, `__my_close` |
| handshake | `connTrying_set` and `backlog` of the listening socket, `connectReady` | `__my_connect`, `__my_listen`, `__my_accept`, the first branches of `recvTCPPacket` |
| socket table | `socket_pool`, `port_pool` | `__my_socket`, `__my_bind`, `__my_setsockopt`, `__my_getaddrinfo`; the search for the socket of a segment |
| timer thread | `ARQflag`, `kernel_cv` | a tick every 50 ms, which wakes every waiting call |
| routing table (`src/routing.cpp`) | `RoutingTable`, `clocker` | `updateDVR`, `sendDVR`, `recvDVR` with `setRoutingTable`, `lookForRouting` |
| its lock (`src/mylock.cpp`) | `nreader`, the semaphores `mymutex` and `noreader` | `ReaderIn`, `ReaderOut`, `WriterIn`, `WriterOut` |
| IP (`src/ip.cpp`) | `recvPacket_SF` | `sendIPPacket`, `forward`, `recvPacket`, `setIPPacketReceiveCallback` |
| link layer, devices, start-up | the list of devices, fixed after the start | `sendFrame`, `recvFrame`, `InitNS` |
| segment format | none | the byte order of the header, `getChecksum` |
| mperf's controller and servers (`mperf/src/server.c`, `worker.c`, `sndrcv.c`) | `chldPID`, the locks its signals release, a message in shared memory; in each server whether its test goes on | accept a client, end the last server, configure, fork, wait for it; the servers' tests; the handlers of `SIGINT`, `SIGUSR1`, `SIGUSR2`, `SIGALRM`, `SIGCHLD` |
| mperf's UDP sender and receiver | counters | |
| checkpoint programs, demos, virtual network scripts | | |

How they interact:

- A device thread takes a frame from libpcap and calls `recvFrame`, which hands
  routing frames to `recvDVR` (under the table's lock), packets for this host
  to `recvTCPPacket` (under `kernel_mutex`), and others to `forward`.
- Every call of the socket library holds `kernel_mutex` and gives it up only in
  `kernel_cv.wait`. `recvTCPPacket` and the timer thread notify all waiters, of
  all sockets.
- `mperf` is a program on top, of processes: its clients ask the controller for a
  test over one connection, and run it with the forked server over another. The
  controller and the servers speak by signals and shared memory.
- Whoever sends a packet reads the routing table, under the table's lock and,
  out of a socket call or an answer to a segment, with `kernel_mutex` in hand.

What is hard in it, and what makes each part correct:

- *Connection*: stop and wait over a network that delays, repeats, reorders and
  loses. The bytes must enter the peer's ring once and in order, what `write`
  reports must have arrived, the ring must not overrun, end of file must come
  after the last byte, and both ends must agree on who has heard whose FIN.
- *Handshake*: `connect` and `accept` set the positions of the connection some
  time after segments may move them; the third segment may be lost and data must
  stand in for it; what belongs to an accepted connection must not reach the
  listener; the backlog may be full.
- *Socket table*: an accepted socket has the port of its listener, so only the
  peer tells connections apart; `close` takes a port out of the pool whoever else
  has it; `info` is uninitialised memory; the search for a free descriptor ends
  without an error. A segment must find its socket, and no other.
- *Waiting*: every wait ends with its condition or after `MAGIC_NUM` rounds.
- *Lock*: readers take a semaphore as a group, and hold other locks meanwhile.
- *Routing*: hosts whose periods overlap in any order expire and refresh entries
  with a clock that counts modulo four, while frames are lost and links fail.
- *Forwarding*: each host sends by the table of the moment, and to everyone when
  it has no entry; a packet must arrive once all the same.
- *mperf*: signals come at any time, also one of an earlier server, or in the
  moment before the call they should have interrupted.

`PROJECT.json` lists the hazards one by one, each with its line and the
properties that watch it, or why none does.

## 2. The modules and the code

| module | models |
|---|---|
| `ByteStream` | what a connection promises its two applications |
| `TcpConnection` | one connection after its handshake: both ends, the threads that use them, the network, the timer; implements `ByteStream` |
| `Handshake` | `connect`, `listen`, `accept` of one server and its clients, the first chunk of each side |
| `TableLock`, `RwLock` | what the lock of the routing table promises; the two semaphores that implement it |
| `SocketTable` | descriptors, ports, and the search for the socket of a segment, on one host |
| `Routing` | the distance vector of one destination on all hosts |
| `Forwarding` | a packet on its way through those hosts; extends `Routing` and runs with it |
| `MPerf` | mperf's controller and the servers it forks |
| `MC...` | their instances for TLC |
| `..._proof`, `TcpStream_proof` | the theorems |

`PROJECT.json`, under `map`, gives the lines of each definition. A definition
that nothing uses and that stands just before the one it resembles
(`AcceptsOld`, before `Accepts`) is that one with a slip a programmer could
make; put in its place, it breaks a property.

**TcpConnection.** Under `kernel_mutex` a step is what happens between two
acquisitions of it: a call up to its first wait or its return (`WriteCall`,
`ReadCall`, `CloseCall`), one round of a wait loop (`WriteAdvance`, `WriteResend`,
`ReadWake`, `CloseDone`, `CloseResend`), or one run of `recvTCPPacket` (`Recv`). The
variables are the fields of `socket_t`; `stream` is history: what the ring has taken
in so far. `buffer` is the ring itself, with the copies in two parts where a run of
bytes comes to its end (`CopyIn`, `CopyOut`), and `handed` what read has copied out
of it. `UnreadIsKept` says that the ring never overruns, `ReadsAreTheStream` that
what comes out is what went in. A payload is a run of the numbered bytes of a
thread. `ARQflag` is written by the timer without a lock: `TimerTick` raises it at
any time. The network is the set of segments sent: with `Dup` it keeps them for
ever, so delay, loss, repetition and reordering are all there; without, it delivers
each at most once and may lose `MaxLoss` of them. With `Patient` a call resends only
when nothing is in flight, that is, `rGAP` is longer than a round trip. `gaveUp` and
`given` are history: they say what the applications have been told.

`ByteStream` is the abstract connection: bytes each way by number, of which an end
has `put` some, knows some to have arrived (`told`), has `taken` some of its peer's
and has read some of these (`got`); it may have `ended` its own stream and may have
heard the peer's end. It puts the next segment only when the last is known to have
arrived, an end of file comes only when everything is there on both sides, and
nothing is put after an end. `IsByteStream` maps the positions of `socket_t` to it
(`writep - 1` to `told`, the bytes in `stream` to `taken` and those in `handed` to
`got`, the state to `ended` and `hears`, `put` to the end of the chunk a write waits
for); every step that is none of its actions must leave all six as they are. As the
other promises, it is made until a write gives up and for ends of one writer
(`SoundWrites`): after a give-up the code does send the next bytes at a position the
peer may have gone past.

**Handshake.** Clients have ports of their own, so a connection is named by its
client. `try` is its entry in `connTrying_set`, `sock` that its accepted socket is
in the pool. `Recv` goes through the search of `recvTCPPacket` (`FindsListener`),
the listener's branches (`ListenerTakes`, `ListenerDrops`), SYNSENT
(`ClientHearsSynAck`) and ESTABLISHED. `ConnectReturns` and `Accept` set the
positions. Each side writes one chunk at most, the positions are 0, 1 and 2, and
the rest of a connection's life is `TcpConnection`'s.

**SocketTable.** One action for each call that changes `socket_pool` or
`port_pool`, and `Recv` for a segment: `IsFound` is the search through the pool,
the first socket with the port and the peer, or else the last listener. A new
socket has any port and peer in `Remains`, what a closed connection may have left
in its memory. Any segment may come at any time, and the application calls
`bind`, `connect`, `accept` and `close` on any descriptor it has, in any order,
though it listens only on what it has bound: `__my_connect` and `__my_listen`
look at neither role nor state. `connect` on a socket that has been bound moves
it to another port, and `accept` still returns what its `connTrying_set` holds,
with the port it was `bound` to. Two variables are history. `spoilt` is the ports
that `close` took out of the pool under a socket that still uses them
(`src/socket.cpp:504`), whose listener began with a peer left in its info, or that
`accept` goes on using after such a `connect`; what is promised, is promised for
the others. `left` is the ports that `connect` took their socket away from
(`src/socket.cpp:211`), which stay in the pool.

**RwLock.** One step for each semaphore operation and for each access to
`nreader`; what a thread holds while it asks for the table is in its call:
senders hold `kernel_mutex`, forwarders and updaters do not. `TableLock` is the
abstract readers/writer lock; `RwLock` implements it with the threads past
`ReaderIn` as readers and the thread past `WriterIn` as writer.

**Routing.** All keys the program makes have a full mask, and `setRoutingTable`
looks at one key, so the destinations do not touch one another and the module
follows one. Each host goes through `updateDVR`, `sendDVR` and `sleep(5)`, once a
period and in any order; a frame takes milliseconds, so it is handled before its
receiver's next turn. `recvDVR` handles the entries of a frame one by one, as the
code takes the lock for each. A host that hears its own address enters it with
distance 0. `MaxFaults` bounds the frames that are lost and the links that fail
for good, together.

**Forwarding.** A copy of the packet is the sequence of devices it has come in on,
from which its time to live follows. `forward`, `recvPacket` and `Drop` are the
branches of `recvFrame` for packets, `NextHops` is `lookForRouting`, and the tables
are `Routing`'s, which go on changing. `ready` says that the destination has set
`recvPacket_SF`, which it does after its devices have begun to listen.

**MPerf.** Each process takes one system call, or one access to what the others see,
in a step. A signal is pending until its handler runs, which is before the next step
of the process; several that are pending are handled together, since the handlers
commute. A handler that interrupts a blocked call ends it (`EINTR`), unless a part
of the block has been moved; one that runs just before the call does not. Clients
are the environment. A pid is a server's number in the order of fork and is not used
again.

## 3. What the runs check

| run | module, instance | bounds | checks |
|---|---|---|---|
| `tcp_stream` | `TcpConnection`, `TcpStream.cfg` | one thread at each end; 3 bytes one way, in writes of 1, 2 or 3, and 1 the other; segments of 2, ring of 3; two rounds to give up; the network keeps everything | types, `UnreadIsKept`, `StreamIntegrity`, `AckedIsReceived`, `WriteDelivers`, `OneChunkOutstanding`, `ReadsAreTheStream`, `AckEndsChunk` |
| `tcp_teardown` | `TcpTeardown.cfg` | both ends write a byte and close, at any time | `EofIsComplete`, `AckedFinWasTaken`, `IsByteStream` |
| `tcp_returns` | `TcpReturns.cfg` | three threads, a second one closing; one segment lost | `CallsReturn` |
| `tcp_teardown_stuck` | `TcpTeardownStuck.cfg` | both close; one segment lost | `TeardownCanFinish`, which fails |
| `rw_lock` | `RwLock.cfg` | three threads of all kinds, two calls each | types, `IsTableLock`, `CallsFinish` |
| `sockets` | `SocketTable`, `SocketTable.cfg` | three descriptors (`Limit` 2), two ports of which one is for `bind`, two peers, backlog 1; a new socket's memory is clean or holds any bindable port and peer | types, `ConnectionsAreDistinct`, `SegmentsFindTheirSocket`, `PortsAreThoseInUse` |
| `handshake` | `Handshake`, `Handshake.cfg` | two clients, backlog 1; the server writes to one of them and may close one socket; the network keeps everything | types, `OneHomeEach`, `FirstBytesKept`, `AcceptedIsEstablished`, `ConnectedIsKnown` |
| `handshake_live` | `HandshakeLive.cfg` | two clients, backlog 1, any segment may be lost any number of times | `ConnectReturnsAtLast`, `WriterIsAccepted` |
| `handshake_stray` | `HandshakeStray.cfg` | one client, one close by the server | `ListenerSeesNewcomers`, which fails |
| `routing` | `Routing`, `Routing.cfg` | three hosts in a triangle; one frame lost or one link failed | types, `RoutesLead`, `NeverTooNear`, `NoRouteLost`, `Converges` |
| `forwarding` | `Forwarding`, `Forwarding.cfg` | the triangle, from its first advertisements on; time to live 2 | types, `OnlyFloodsMultiply`, `PacketArrives` |
| `mperf` | `MPerf`, `MPerf.cfg` | three servers, three requests, with and without `-k` | types, `ConfiguredAsAsked`, `ReadyForTests`, `OneServer`, `NoStaleTest`, `ControllerReturns` |

Why the bounds are enough to mean something:

- Three bytes in segments of two are a full chunk, a short one and a next one, so
  an ack can be of the last chunk, of this one, or of none; with a ring of three
  (of which the code leaves one free) the second chunk does not fit until `read`
  has been called. A write of one byte and one of two put the second chunk over the
  end of the ring. The network of `tcp_stream` never forgets, so every segment
  may come late, again and in any order, without a bound on copies.
- In `tcp_teardown` each end writes one chunk, so that its streams are short; the
  theorem `TcpIsByteStream` covers longer ones, and `tcp_stream` checks their parts.
- `MAGIC_NUM` is 2 instead of 100: enough for a retransmission that helps and a
  give-up. The theorems hold for every value from 2.
- With a backlog of one and two clients the set is full while a client knocks; one
  close by the server lets the segments of the old connection meet the listener.
- Three descriptors are a listener and two sockets of its port, and all of them
  are soon in use, so that `socket` and `accept` meet the limit. The two peers are
  symmetric.
- Three threads with two calls each make every pair and triple of kinds collide
  on the semaphores, a second time after the first.
- A triangle is the smallest network with two routes to one place. With one frame
  lost each entry comes within a period of its expiry, and with two lost in a row
  it does expire: one lost frame is what the code tolerates, and what the premise of
  `NoRouteLost` says. `RoutesLead` has the premise that nothing was lost: in
  a line of three hosts one lost frame makes a loop (section 6).
  `clocker` goes round as often as it likes.
- In `forwarding` the packet may be sent before any host has an entry, so every
  mixture of floods and routes occurs, and copies run out of time. With one
  advertisement lost `PacketArrives` fails: two hosts may then send a packet
  round until its time is over, which IP allows.
- With three servers the signal of one may meet the wait for its second
  successor. Three requests are a configuration after a termination, or a failed
  one, after a configuration.
- The state spaces are finite without a state constraint: counters are bounded by
  the guards that the CONSTANTS named "bound" are in.

`CHECK_DEADLOCK FALSE` stands where the clients or the threads really come to an
end, or where a violation run may stop.

## 4. Fairness

- `TcpConnection!FairSpec`: weak fairness of each thread's wait loop (`WakeUp`).
  `TimerThread` notifies `kernel_cv` every 50 ms for ever, and a notified thread
  gets `kernel_mutex` in the end. Nothing is asked of the network: `CallsReturn`
  rests on the give-ups alone.
- `Handshake!FairSpec`: weak fairness of each client's thread and of `accept`,
  which the server calls in a loop (`checkpoints/echo_server.c`, mperf), and strong
  fairness of the arrival of those segments that are sent again for ever: a
  network that delivers infinitely many of infinitely many copies. The
  handshake's third segment is sent once and gets no such promise. Each client's
  thread goes on to write once `connect` has returned, as the checkpoint programs'
  do, so `ConnectReturnsAtLast` is about clients that write: one that only reads
  may keep its place in the backlog for ever (`src/tcp.cpp:240`).
- `RwLock!FairSpec`: each thread that can go on does, and both semaphores serve
  each waiter in the end, as the model's bounded calls make any order do.
- `Routing!FairSpec`: `routingThread` is an endless loop (`src/routing.cpp:287`),
  so each host comes to `updateDVR` and to `sendDVR` again and again. It is written
  as `[]<>` of the loop's places, one conjunct a host, because fairness of its
  actions says no more here: a host's turn comes only after its frames have been
  handled, which is the device threads' part.
- `Forwarding!FFairSpec`: weak fairness of `recvFrame`, of which each device has
  a thread that never ends. Nothing is asked of `Routing`, nor of the start of the
  destination.
- `MPerf!FairSpec`: weak fairness of the controller's own steps, of which accepting
  is none, and of its alarm, which the kernel raises. Servers and clients may
  stop anywhere.

## 5. What is proved

For every set of threads, clients, hosts and devices, every size and bound, and
every choice the constants leave open; from the named assumptions in the modules
(`ThreadAssumption`, `SizeAssumption`, `NetAssumption`, `LockAssumption`,
`HandshakeAssumption`, `TableAssumption`, `RoutingAssumption`,
`ForwardingAssumption`, `WireAssumption`, `BoundAssumption`) and nothing else.

- `TcpConnection_proof`: `TypeCorrect`, and `BufferNeverOverrun` (`UnreadIsKept`).
  The bound of the ring is part of the induction, as it is what the guard of
  `Accepts` keeps up.
- `TcpStream_proof`: `NothingAckedTooSoon` (`AckedIsReceived`) from `AckInv`.
  `AckedIsReceived` is not inductive: an ack still in flight could break it. So
  `AckInv` adds that no segment that can still move `writep` acks more than its
  sender has, and, for FINs, whose ack field may be one ahead, that they are sent
  only by ends that have left ESTABLISHED and cannot move `writep` again. Then
  `StreamArrivesOnceInOrder`, `WriteIsTruthful`, `AtMostOneChunkAhead` and
  `AcksEndChunks` from `StreamInv`, the stop-and-wait window: writer and receiver
  are each at one of the two ends of the chunk that is out, byte numbers equal
  positions, each data segment in flight is old or is that chunk, and each ack is
  old or is for its end. They are stated for ends with one writer that has not given
  up; `GaveUpStays` is what makes that premise usable along a behaviour. Last,
  `EofComesLast` (`EofIsComplete`) and `FinAcksAreTrue` (`AckedFinWasTaken`) from
  `TeardownInv`: FINs carry the final positions and are only ever taken or sent back
  once both ends have left ESTABLISHED; an ack beyond the bytes is for a FIN that
  was taken; and an end that has left ESTABLISHED has all its bytes with its peer.
  The middle part is what keeps the late ack of a data chunk from passing for the
  ack of a FIN. `ReadsHandOutTheStream` (`ReadsAreTheStream`) takes from these only
  that the stream has `szep - 1` bytes, and so holds for any number of writers,
  after give-ups too. `BufferInv` adds that each byte from `readp` to `szep - 1` is
  at its place in the ring. The arithmetic is in lemmas about the two copies
  (`CopyInNew`, `CopyInKept`, `CopyOutPlaces`), which rest on `PlaceNear`, where a
  position up to one round further on lies; that a copy in keeps the unread bytes is
  the guard of `Accepts` again. And `TcpIsByteStream` (`IsByteStream`): the
  connection implements `ByteStream`, step by step, for any number of threads that
  read. One lemma for each kind of call and of segment (`WriteStreams`,
  `ReadStreams`, `CloseStreams`, `ArriveStreams`, `FinStreams`) says which abstract
  step it is. Beside these four invariants it takes `EndInv`: only an end that has
  ended its stream sends FINs or waits in `close`, and a lone writer is in no write
  by then. That `put` and `told` agree when a FIN is heard, which `HearEnd` demands,
  is `TeardownInv`; that an arrival brings just what the peer has put is
  `StreamInv`.
- `Handshake_proof`: `Invariant`, and from it `BacklogHolds`, `OneHome`,
  `ClientsKnow`
  (`AcceptedIsEstablished`), `ServerKnows` (`ConnectedIsKnown`) and
  `FirstBytesAreKept`. The invariant `Inv` adds what a segment
  in flight says of its two ends (`SegmentInv`: an SYN|ACK is only ever sent to a
  client the server knows, anything else from a client comes from an established
  one) and where the positions can be before the two sides set them.
- `RwLock_proof`: `SemaphoresAreBinary`, and `LockIsTableLock`: every step of
  `RwLock` is a step of `TableLock` or leaves readers and writer alone. `Inv` says
  that `nreader` counts the readers, and that `noreader` is held by the group of
  readers or by the writer.
- `SocketTable_proof`: `TypeCorrect`, with the bound of the backlog (`BacklogInv`);
  `ConnectionsStayDistinct` and, from it, `SegmentsAreFound`; `PoolIsThePortsInUse`
  (`PortsAreThoseInUse`). `DistinctInv` says of each port that `close` has not
  spoilt that it is in `port_pool` as long as anyone uses it, so that `bind` and
  `connect` cannot give it out again, that its listener has no peer, and that its
  users are pairwise apart. `Untried` adds that a socket that begins to listen has
  an empty `connTrying_set`. `OwnerInv` is the other direction, from the pool to a
  user of each port in it that is not `left`; it holds for shared descriptors too.
- `Routing_proof`: `TypeCorrect`; `DistancesNeverTooShort` (`NeverTooNear`):
  no host ever believes the destination nearer than it is. A message in flight
  must not promise too much either (`InboxTrue`). The hop count is given by its
  lower bounds, functions that are 0 at the destination and differ by at most one
  over a link, so that no recursion enters the proof.
  `NoRouteIsLost` (`NoRouteLost`) and `RoutesAlwaysLead` (`RoutesLead`) hold for every
  network and every `MaxFaults`, from the invariant `Explained`. Whether an entry is
  renewed in time depends on where it came from, which the state no longer says; so
  `Explained` says that there is a *story*: a shortest distance each host has had
  (`best`), the neighbour that offered it (`source`), the device it was heard on
  (`ear`), and the hosts of which one refresh has failed (`late`), such that
  `best` falls from each host to its source, as far as the destination. Each source
  speaks once in a period of its hearer, whatever the order of the turns, so
  an entry that has its best distance is at most one period old when its host comes
  to `updateDVR`, which drops those of three (`Timely`). A lost frame costs one period
  more, and `Once` says why no more than one: the host next to the lost frame is late,
  the hosts behind it are late in turn but never twice, as each source has recovered
  when it next speaks. With no frame lost nothing is late, so every entry keeps its
  best distance, and its next hop is its source: that is `RoutesLead`.
  Each step writes the story on: `NextStory` for the steps that leave it,
  `UsefulRefreshes` and `UselessKeeps` for a message, `UpdateIsInTime` for a turn,
  `SendIsTimely` and `SendFailsOnce` for a frame that arrives or is lost.

- `Forwarding_proof`: `RoutingGoesOn`, that `Forwarding` is `Routing` with a packet
  added, which hands it `Routing`'s types; `NoCopyOutlivesTTL` (`FTypeOK`), and
  `DeliveredOnce` (`OnlyFloodsMultiply`) for every network in which a wire
  joins two devices: then an entry names one device, and one copy makes one.
- `MPerf_proof`: `TypeCorrect`, `ReadyTests`, `AnsweredAsAsked`, `OneAtATime` and
  `NoTestOnOld`. `ToldInv` says that all servers but the newest have ended, have a
  signal pending or have seen one, and that the newest has too before another is
  forked; a server that has been told begins no test. `NoneFree` is the same of
  `SIGTERM`. `AskInv` follows the lock that `SIGUSR1` releases: once it is
  open, or about to be, the newest server has read the message of this request.

Only model-checked: everything about liveness (`CallsReturn`, `CallsFinish`,
`ConnectReturnsAtLast`, `WriterIsAccepted`, `Converges`, `PacketArrives`,
`ControllerReturns`), which is out of the prover's reach. Every invariant and every
action property of the passing runs is a theorem.

## 6. Findings

- **`tcp_teardown_stuck`.** reportC.pdf, page 6: "close() will not return until
  four waves and a wait-time finish". If the ACK of the first FIN is lost and the
  peer closes, the peer is in LASTACK, where `recvTCPPacket` has no branch for the
  FIN that comes again, and its own FIN carries `szep + 1`, which FINWAIT1 refuses
  (`src/tcp.cpp:315, 362`). Both resend to no effect, and both calls return after
  `MAGIC_NUM` rounds with the four waves unfinished.
- **`handshake_stray`.** `src/tcp.cpp:178` takes a segment that no socket claims
  for "the first time to see the other side". After the server has closed its
  socket, old segments of that connection find the listener and take places in
  `connTrying_set` that nothing ever frees; `backlog` of them shut the listener.

Seen while modelling, without a run:

- `__my_read` returns -1 after `MAGIC_NUM` wake-ups (`src/socket.cpp:351`), which on
  an idle, sound connection are five seconds, and less when other sockets have
  traffic; reportC.pdf, page 6, has it wait for a byte or the end.
- After a write has given up, the late ack of a one-byte chunk passes for the ack
  of the FIN: hence the premise of `AckedFinWasTaken`.
- There is no split horizon: `sendDVR` sends every entry to every neighbour
  (`src/routing.cpp:185`), also to the one it came from. On a line of three hosts,
  after one lost frame, the middle host's entry is three periods old when the far
  host, whose own entry came from it, speaks first: `setRoutingTable` takes the
  worse distance (`src/routing.cpp:47`), and the two point at each other until the
  near host is heard in the same period. Hence `lost = 0` in `RoutesLead`.
- A destination that cannot be reached any more is advertised with distances that
  grow for ever (the state space with such a cut is infinite, hence the premise
  of `Converges`).
- `connect` on a bound socket, which is what mperf's client does when it is given a
  local port (`mperf/src/util.c:364-393`), draws another port and overwrites
  `srcPort` (`src/socket.cpp:205-215`): the bound port stays in `port_pool` with no
  socket that would give it back, and cannot be bound again. Hence `left` in
  `PortsAreThoseInUse`. `listen` on a socket that is not bound makes it listen on
  whatever port is in its `info`; `SocketTable` leaves that out.
- The ports that `close` gives back early: `spoilt` in `SocketTable`. The 257th
  `socket` returns a descriptor that others have. `validSocket` looks into the pool
  without the lock (`src/socket.cpp:28`), and `getaddrinfo` reads through `hints`
  where it may be null (`src/socket.cpp:534`).
- The controller of mperf signals every process it may signal (`kill(-1)`) when
  `chldPID` has become -1 between the test for it and `kill` (`server.c:113`), and
  keeps the pid of a server that ended before its own `fork` returned
  (`server.c:57`; the premise `unborn` of `ReadyForTests` takes out exactly this
  race). A late `SIGCHLD` can pass for the end of the last server, so that `-k` does
  not force it (`server.c:11`, the premise `notTerminated` of `OneServer`). A server
  says that it is configured before it listens (`worker.c:231`). `client.c:250`
  overwrites the controller's answer.

## 7. What is left out, and the plan

Not modelled:

- libpcap, which is the wire; the format of headers and the checksum: a segment
  with a bad checksum is dropped, so to the models it is a lost one.
- Applications: the checkpoint programs, demos and mperf's clients. What they ask
  of the stack is in the properties, and their calls are the models' inputs. mperf's
  UDP programs count datagrams, which nothing else looks at, and what its tests
  measure and log changes nothing.
- The network scripts, and start-up but for the order of `InitNS`; the list of
  devices does not change afterwards.
- What happens to a thread whose socket another thread deletes, which is
  undefined; its call stops there (`CallsReturn` excludes it).
- Search by mask: all keys have the mask 255.255.255.255.

The order of the modules was: the connection first, as everything is built for
it; the lock that every send goes through; the handshake; the routing table; the
socket table; forwarding, composed with routing; and mperf. What could follow:

1. The counters of `socket_t` modulo 2^32, shown to implement those of
   `TcpConnection` for streams of less than 2^31 bytes; beyond, the sign of `writep`
   shows (`src/tcp.cpp:375`).
2. Restarts in `Handshake`: `rand()` is never seeded, so a client that starts
   again takes the same port and meets its old socket.
3. `writen` of `checkpoints/unp.c` after a give-up: the duplicate it makes.
