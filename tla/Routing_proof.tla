---------------------------- MODULE Routing_proof ----------------------------
(* Routing keeps its types, and no host ever believes the destination       *)
(* nearer than it is.  NeverTooNear is not inductive: what is on its way    *)
(* must not promise too much either (InboxTrue), and links that fail were   *)
(* there at the start (TypeOK).  Then, by the history of the entries, no    *)
(* route is lost and routes lead somewhere (Explained).                     *)
EXTENDS Routing, TLAPS, FiniteSetTheorems

Message == [via : Device, dist : Nat]

(* The distances in a sequence of messages are right for the receiver. *)
TrueFor(D, h, s) == \A i \in DOMAIN s : D[h] <= s[i].dist + 1

InboxTrue == \A D \in LowerBound : \A d \in Device : TrueFor(D, HostOf[d], inbox[d])

IInv == TypeOK /\ NeverTooNear /\ InboxTrue

(* Lower bounds are natural numbers, at most one apart over a link. *)
LEMMA BoundFacts ==
  ASSUME NEW D \in LowerBound
  PROVE  /\ \A h \in Host : D[h] \in Nat
         /\ D[Owner] = 0
         /\ \A l \in Links : \A a, b \in l : D[HostOf[a]] <= D[HostOf[b]] + 1
  BY DEF LowerBound

(* What two sequences of messages hold, their concatenation holds. *)
LEMMA TrueConcat ==
  ASSUME NEW D, NEW h, NEW s \in Seq(Message), NEW t \in Seq(Message),
         TrueFor(D, h, s), TrueFor(D, h, t)
  PROVE  s \o t \in Seq(Message) /\ TrueFor(D, h, s \o t)
<1>1. s \o t \in Seq(Message) /\ Len(s \o t) = Len(s) + Len(t)
  OBVIOUS
<1>2. ASSUME NEW i \in DOMAIN (s \o t) PROVE D[h] <= (s \o t)[i].dist + 1
  <2>1. i \in 1..(Len(s) + Len(t)) /\ Len(s) \in Nat /\ Len(t) \in Nat
    BY <1>1, <1>2
  <2>2. CASE i <= Len(s)
    <3>1. (s \o t)[i] = s[i] /\ i \in DOMAIN s
      BY <2>1, <2>2
    <3> QED BY <3>1 DEF TrueFor
  <2>3. CASE i > Len(s)
    <3>1. (s \o t)[i] = t[i - Len(s)] /\ i - Len(s) \in DOMAIN t
      BY <2>1, <2>3
    <3> QED BY <3>1 DEF TrueFor
  <2> QED BY <2>1, <2>2, <2>3
<1> QED BY <1>1, <1>2 DEF TrueFor

(* What a sequence of messages holds, its tail holds. *)
LEMMA TrueTail ==
  ASSUME NEW D, NEW h, NEW s \in Seq(Message), s # << >>, TrueFor(D, h, s)
  PROVE  Tail(s) \in Seq(Message) /\ TrueFor(D, h, Tail(s))
<1>1. Tail(s) \in Seq(Message) /\ Len(Tail(s)) = Len(s) - 1 /\ Len(s) \in Nat
  OBVIOUS
<1>2. ASSUME NEW i \in DOMAIN Tail(s) PROVE D[h] <= Tail(s)[i].dist + 1
  <2>1. i \in 1..(Len(s) - 1)
    BY <1>1, <1>2
  <2>2. Tail(s)[i] = s[i + 1] /\ i + 1 \in DOMAIN s
    BY <2>1, <1>1
  <2> QED BY <2>2 DEF TrueFor
<1> QED BY <1>1, <1>2 DEF TrueFor

(* sendDVR promises nobody too much: its receiver is one hop away. *)
LEMMA AdvertIsTrue ==
  ASSUME IInv, NEW d \in Device, NEW p \in PeersOf(links, d)
  PROVE  /\ Advert(d) \in Seq(Message)
         /\ \A D \in LowerBound : TrueFor(D, HostOf[p], Advert(d))
<1> DEFINE entry == table[HostOf[d]]
           known == IF entry = None THEN << >> ELSE <<[via |-> d, dist |-> entry.dist]>>
           own == IF d = Dest THEN <<[via |-> d, dist |-> 0]>> ELSE << >>
<1>1. HostOf[d] \in Host /\ HostOf[p] \in Host /\ p \in Device
  BY RoutingAssumption DEF PeersOf
<1>2. entry # None => entry.dist \in Nat
  BY <1>1 DEF IInv, TypeOK, Entry
<1>3. known \in Seq(Message) /\ own \in Seq(Message)
  <2>1. \A m \in Message : <<m>> \in Seq(Message)
    OBVIOUS
  <2>2. << >> \in Seq(Message)
    OBVIOUS
  <2>3. entry # None => [via |-> d, dist |-> entry.dist] \in Message
    BY <1>2 DEF Message
  <2>4. [via |-> d, dist |-> 0] \in Message
    BY DEF Message
  <2> QED BY <2>1, <2>2, <2>3, <2>4
<1>4. ASSUME NEW D \in LowerBound PROVE TrueFor(D, HostOf[p], Advert(d))
  <2>1. D[HostOf[p]] <= D[HostOf[d]] + 1 /\ D[HostOf[p]] \in Nat /\ D[HostOf[d]] \in Nat
    <3>1. {p, d} \in Links
      BY DEF PeersOf, IInv, TypeOK
    <3> QED BY <3>1, <1>1, BoundFacts
  <2>2. TrueFor(D, HostOf[p], known)
    <3>1. entry # None => D[HostOf[d]] <= entry.dist
      BY <1>1 DEF IInv, NeverTooNear
    <3> QED BY <3>1, <2>1, <1>2 DEF TrueFor
  <2>3. TrueFor(D, HostOf[p], own)
    <3>1. d = Dest => D[HostOf[d]] = 0
      BY BoundFacts DEF Owner
    <3> QED BY <3>1, <2>1 DEF TrueFor
  <2> HIDE DEF known, own
  <2>4. TrueFor(D, HostOf[p], known \o own)
    BY <2>2, <2>3, <1>3, TrueConcat
  <2> QED BY <2>4 DEF Advert, known, own
<1>5. Advert(d) \in Seq(Message)
  <2>1. known \o own \in Seq(Message)
    BY <1>3
  <2> QED BY <2>1 DEF Advert
<1> QED BY <1>4, <1>5

LEMMA InitIInv == Init => IInv
<1> SUFFICES ASSUME Init PROVE IInv
  OBVIOUS
<1>1. TypeOK
  BY RoutingAssumption DEF Init, TypeOK
<1>2. NeverTooNear
  BY DEF Init, NeverTooNear
<1>3. InboxTrue
  BY DEF Init, InboxTrue, TrueFor
<1> QED BY <1>1, <1>2, <1>3 DEF IInv

LEMMA UpdateKeeps ==
  ASSUME IInv, NEW h \in Host, updateDVR(h)
  PROVE  IInv'
<1>1. TypeOK'
  <2>1. clocker[h] \in 0..3
    BY DEF IInv, TypeOK
  <2>2. NextClock(h) \in 0..3
    BY <2>1 DEF NextClock
  <2>3. clocker' \in [Host -> 0..3]
    BY <2>2 DEF IInv, TypeOK, updateDVR
  <2>4. /\ table' \in [Host -> Entry \cup {None}]
        /\ turn' \in [Host -> {"update", "send", "sleep"}]
    BY DEF IInv, TypeOK, updateDVR
  <2> QED BY <2>3, <2>4 DEF IInv, TypeOK, updateDVR
<1>2. \A g \in Host : table'[g] = None \/ table'[g] = table[g]
  BY DEF IInv, TypeOK, updateDVR
<1>3. NeverTooNear'
  BY <1>2 DEF IInv, NeverTooNear
<1>4. InboxTrue'
  BY DEF IInv, InboxTrue, updateDVR
<1> QED BY <1>1, <1>3, <1>4 DEF IInv

LEMMA SendKeeps ==
  ASSUME IInv, NEW h \in Host, sendDVR(h)
  PROVE  IInv'
<1> DEFINE heard == Heard(links, h)
           from(p) == From(links, h, p)
<1>1. PICK missed \in SUBSET heard :
        /\ Faults + Cardinality(missed) <= MaxFaults
        /\ lost' = lost + Cardinality(missed)
        /\ inbox' = [p \in Device |-> IF p \in heard \ missed
                                      THEN inbox[p] \o Advert(from(p))
                                      ELSE inbox[p]]
  BY DEF sendDVR
<1>2. ASSUME NEW p \in heard
      PROVE  from(p) \in Device /\ p \in PeersOf(links, from(p))
  BY <1>2 DEF DevicesOf, Heard, From
<1>3. Cardinality(missed) \in Nat
  BY RoutingAssumption, FS_Subset, FS_CardinalityType DEF Heard
<1>4. ASSUME NEW p \in Device
      PROVE  /\ inbox'[p] \in Seq(Message)
             /\ \A D \in LowerBound : TrueFor(D, HostOf[p], inbox'[p])
  <2>1. inbox[p] \in Seq(Message) /\ \A D \in LowerBound : TrueFor(D, HostOf[p], inbox[p])
    BY DEF IInv, TypeOK, InboxTrue, Message
  <2>2. CASE p \in heard \ missed
    <3>1. inbox'[p] = inbox[p] \o Advert(from(p))
      BY <1>1, <2>2
    <3>2. /\ Advert(from(p)) \in Seq(Message)
          /\ \A D \in LowerBound : TrueFor(D, HostOf[p], Advert(from(p)))
      BY <1>2, <2>2, AdvertIsTrue
    <3> HIDE DEF from
    <3> QED BY <3>1, <3>2, <2>1, TrueConcat
  <2>3. CASE p \notin heard \ missed
    BY <1>1, <2>1, <2>3
  <2> QED BY <2>2, <2>3
<1>5. TypeOK'
  <2>1. inbox' \in [Device -> Seq(Message)]
    BY <1>1, <1>4
  <2>2. lost' \in Nat
    BY <1>1, <1>3, RoutingAssumption DEF IInv, TypeOK
  <2>3. turn' \in [Host -> {"update", "send", "sleep"}]
    BY DEF IInv, TypeOK, sendDVR, Turn
  <2> QED BY <2>1, <2>2, <2>3 DEF IInv, TypeOK, sendDVR, Message
<1>6. InboxTrue'
  BY <1>4 DEF InboxTrue
<1>7. NeverTooNear'
  BY DEF IInv, NeverTooNear, sendDVR
<1> QED BY <1>5, <1>6, <1>7 DEF IInv

LEMMA RecvKeeps ==
  ASSUME IInv, NEW d \in Device, recvDVR(d)
  PROVE  IInv'
<1> DEFINE h == HostOf[d]
           value == Value(h, Head(inbox[d]))
<1>1. h \in Host /\ inbox[d] \in Seq(Message) /\ inbox[d] # << >> /\ Owner \in Host
  BY RoutingAssumption DEF IInv, TypeOK, recvDVR, Message, Owner
<1>2. Head(inbox[d]) \in Message /\ Head(inbox[d]) = inbox[d][1] /\ 1 \in DOMAIN inbox[d]
  BY <1>1
<1>3. value \in Entry
  BY <1>1, <1>2, RoutingAssumption DEF Value, Entry, Message, IInv, TypeOK
<1>4. \A g \in Host : table'[g] = table[g] \/ (g = h /\ table'[g] = value)
  BY <1>1 DEF recvDVR, IInv, TypeOK
<1>5. ASSUME NEW D \in LowerBound PROVE value.dist >= D[h]
  <2>1. D[h] \in Nat /\ D[Owner] = 0
    BY <1>1, BoundFacts
  <2>2. D[h] <= inbox[d][1].dist + 1
    BY <1>2 DEF IInv, InboxTrue, TrueFor
  <2>3. inbox[d][1].dist \in Nat
    BY <1>2 DEF Message
  <2> QED BY <2>1, <2>2, <2>3, <1>2 DEF Value
<1>6. TypeOK'
  <2>1. table' \in [Host -> Entry \cup {None}]
    BY <1>1, <1>3 DEF recvDVR, IInv, TypeOK
  <2>2. inbox' \in [Device -> Seq(Message)]
    BY <1>1, TrueTail DEF recvDVR, IInv, TypeOK, Message
  <2> QED BY <2>1, <2>2 DEF recvDVR, IInv, TypeOK, Message
<1>7. NeverTooNear'
  <2> HIDE DEF value, h
  <2> QED BY <1>4, <1>5 DEF IInv, NeverTooNear
<1>8. InboxTrue'
  <2> SUFFICES ASSUME NEW D \in LowerBound, NEW p \in Device
               PROVE  TrueFor(D, HostOf[p], inbox'[p])
    BY DEF InboxTrue
  <2>1. TrueFor(D, HostOf[p], inbox[p])
    BY DEF IInv, InboxTrue
  <2>2. CASE p = d
    <3>1. inbox'[p] = Tail(inbox[d])
      BY <2>2 DEF recvDVR, IInv, TypeOK
    <3> QED BY <3>1, <2>1, <2>2, <1>1, TrueTail
  <2>3. CASE p # d
    <3>1. inbox'[p] = inbox[p]
      BY <2>3 DEF recvDVR, IInv, TypeOK
    <3> QED BY <3>1, <2>1
  <2> QED BY <2>2, <2>3
<1> QED BY <1>6, <1>7, <1>8 DEF IInv

LEMMA StepKeeps == IInv /\ [Next]_vars => IInv'
<1> SUFFICES ASSUME IInv, [Next]_vars PROVE IInv'
  OBVIOUS
<1>1. ASSUME NEW h \in Host, HostSteps(h) PROVE IInv'
  BY <1>1, UpdateKeeps, SendKeeps, RecvKeeps DEF HostSteps, DevicesOf
<1>2. ASSUME NEW l \in Links, Cut(l) PROVE IInv'
  <2>1. TypeOK'
    BY <1>2 DEF IInv, TypeOK, Cut
  <2>2. NeverTooNear' /\ InboxTrue'
    BY <1>2 DEF IInv, NeverTooNear, InboxTrue, Cut
  <2> QED BY <2>1, <2>2 DEF IInv
<1>3. CASE UNCHANGED vars
  BY <1>3 DEF IInv, TypeOK, NeverTooNear, InboxTrue, vars
<1> QED BY <1>1, <1>2, <1>3 DEF Next

(* The inductive invariant holds in every state. *)
THEOREM Invariant == Spec => []IInv
<1> QED BY InitIInv, StepKeeps, PTL DEF Spec

(* Every variable keeps its type, in every network. *)
THEOREM TypeCorrect == Spec => []TypeOK
<1>1. IInv => TypeOK
  BY DEF IInv
<1> QED BY <1>1, Invariant, PTL

(* No host of any network ever believes the destination nearer than it is,  *)
(* whatever is lost, cut, overtaken or stale.                               *)
THEOREM DistancesNeverTooShort == Spec => []NeverTooNear
<1>1. IInv => NeverTooNear
  BY DEF IInv
<1> QED BY <1>1, Invariant, PTL

-----------------------------------------------------------------------------
(* No route is lost and routes lead somewhere.                              *)
(*                                                                          *)
(* Neither is inductive: whether an entry is renewed in time depends on     *)
(* where it came from.  A story is a state together with that history: of   *)
(* each host the shortest distance it has had, the host that offered it,    *)
(* the device it was heard on, and whether one refresh of it has failed.    *)
Story == [table   : [Host -> Entry \cup {None}],
          clocker : [Host -> 0..3],
          turn    : [Host -> {"update", "send", "sleep"}],
          inbox   : [Device -> Seq(Message)],
          best    : [Host -> Nat],
          source  : [Host -> Host],
          ear     : [Host -> Device],
          late    : SUBSET Host]

(* S is a story of the current state. *)
Shows(S) == /\ S.table = table /\ S.clocker = clocker
            /\ S.turn = turn /\ S.inbox = inbox

Known(S, h) == S.table[h] # None
Age(S, h) == (S.clocker[h] - S.table[h].stamp) % 4
Good(S, h) == S.table[h].dist = S.best[h]

(* How far an entry is from being dropped; one that is worse than what the  *)
(* host has had is as good as dropped.                                      *)
Staleness(S, h) == IF Good(S, h) THEN Age(S, h) ELSE 3

(* A message that, when it is handled, makes the entry fresh. *)
Useful(S, h, m) == h = Owner \/ m.dist < S.best[h]
Pending(S, h) ==
  \E i \in DOMAIN S.inbox[S.ear[h]] : Useful(S, h, S.inbox[S.ear[h]][i])

One(b) == IF b THEN 1 ELSE 0

(* The host g has something to say to the device p. *)
Says(S, g, p) == p \in Heard(Links, g) /\ (From(Links, g, p) = Dest \/ Known(S, g))

(* The history of an entry: its source still has something to say, and is   *)
(* nearer.                                                                  *)
Sourced(S, h) ==
  /\ S.best[h] <= S.table[h].dist
  /\ HostOf[S.ear[h]] = h /\ Says(S, S.source[h], S.ear[h])
  /\ h = Owner => S.table[h].dist = 0
  /\ h # Owner => S.best[S.source[h]] < S.best[h]
  /\ h # Owner /\ Good(S, h) => HostOf[S.table[h].via] = S.source[h]

(* What is under way says no better than its sender has had. *)
Mail(S) ==
  \A d \in Device : \A i \in DOMAIN S.inbox[d] :
    LET m == S.inbox[d][i]
        g == HostOf[m.via] IN
    From(Links, g, d) = m.via /\ Says(S, g, d) /\ S.best[g] <= m.dist

(* An entry is renewed once a period, with a grace of one period where a    *)
(* refresh has failed: the host that has had its turn is one older, and     *)
(* while its source sleeps the refresh of this period is handled.           *)
Timely(S, h) ==
  IF Pending(S, h)
  THEN h \in S.late \/ Staleness(S, h) <= 2
  ELSE Staleness(S, h) <= 1 + One(S.turn[h] # "update")
                            - One(S.turn[S.source[h]] = "sleep") + One(h \in S.late)

(* No refresh has failed nearer to the destination than h. *)
Alone(S, h) ==
  \A x \in Host \ {Owner} : Known(S, x) /\ S.best[x] < S.best[h] => x \notin S.late

(* What g says next is good again. *)
Recovers(S, g) ==
  \/ /\ S.turn[g] = "sleep"
     /\ \/ Staleness(S, g) = 0 \/ Pending(S, g)
        \/ g \in S.late /\ S.turn[S.source[g]] # "sleep"
  \/ S.turn[g] = "update" /\ (Staleness(S, g) = 0 \/ Pending(S, g))
  \/ S.turn[g] = "send" /\ Staleness(S, g) <= 1

(* No refresh fails twice: it failed because a frame was lost, and no other *)
(* is, or because the source was late itself, and the source recovers.      *)
Once(S, h) ==
  h \in S.late /\ h # Owner /\ ~Pending(S, h) =>
    \/ Alone(S, h)
    \/ /\ S.source[h] # Owner /\ Known(S, S.source[h])
       /\ Recovers(S, S.source[h])

Believable(S) ==
  /\ S.best[Owner] = 0
  /\ Mail(S)
  /\ \A h \in Host : Known(S, h) => Sourced(S, h) /\ Timely(S, h) /\ Once(S, h)
  /\ \A h \in S.late : Known(S, h)

(* While no link has failed and no more than one frame was lost there is a  *)
(* story of the state, in which nothing is late before that frame.          *)
Explained ==
  links = Links /\ lost <= 1 =>
    \E S \in Story : Shows(S) /\ Believable(S) /\ (lost = 0 => S.late = {})

(* The clock, modulo 4. *)
LEMMA Ages ==
  ASSUME NEW c \in 0..3, NEW s \in 0..3
  PROVE  /\ (c - s) % 4 \in 0..3
         /\ (c + 1) % 4 \in 0..3
         /\ (c + 1) % 4 = s <=> (c - s) % 4 = 3
         /\ (c - s) % 4 # 3 => (((c + 1) % 4) - s) % 4 = ((c - s) % 4) + 1
         /\ (c - c) % 4 = 0
<1>1. c \in {0, 1, 2, 3} /\ s \in {0, 1, 2, 3}
  OBVIOUS
<1> QED BY <1>1

(* What the parts of a story are. *)
LEMMA StoryTypes ==
  ASSUME NEW S \in Story, NEW h \in Host
  PROVE  /\ S.best[h] \in Nat /\ S.source[h] \in Host /\ S.ear[h] \in Device
         /\ S.clocker[h] \in 0..3 /\ S.turn[h] \in {"update", "send", "sleep"}
         /\ Owner \in Host /\ S.best[Owner] \in Nat
         /\ S.table[h] # None =>
              /\ S.table[h] \in Entry
              /\ S.table[h].dist \in Nat /\ S.table[h].stamp \in 0..3
              /\ S.table[h].via \in Device
         /\ Known(S, h) => Staleness(S, h) \in 0..3 /\ Age(S, h) \in 0..3
<1>1. Owner \in Host
  BY RoutingAssumption DEF Owner
<1>2. S.table[h] # None =>
              /\ S.table[h] \in Entry
              /\ S.table[h].dist \in Nat /\ S.table[h].stamp \in 0..3
              /\ S.table[h].via \in Device
  BY DEF Story, Entry
<1>3. /\ S.best[h] \in Nat /\ S.source[h] \in Host /\ S.ear[h] \in Device
      /\ S.clocker[h] \in 0..3 /\ S.turn[h] \in {"update", "send", "sleep"}
      /\ S.best[Owner] \in Nat
  BY <1>1 DEF Story
<1>4. Known(S, h) => Age(S, h) \in 0..3
  BY <1>2, <1>3, Ages DEF Known, Age
<1>5. Known(S, h) => Staleness(S, h) \in 0..3
  BY <1>4 DEF Staleness
<1> QED BY <1>1, <1>2, <1>3, <1>4, <1>5

(* The host of what a device hears. *)
LEMMA FromFacts ==
  ASSUME NEW g \in Host, NEW p \in Heard(Links, g)
  PROVE  From(Links, g, p) \in Device /\ HostOf[From(Links, g, p)] = g
<1>1. \E d \in DevicesOf(g) : p \in PeersOf(Links, d)
  BY DEF Heard
<1>2. From(Links, g, p) \in DevicesOf(g)
  BY <1>1 DEF From
<1> QED BY <1>2 DEF DevicesOf

(* What a message under way is. *)
LEMMA MailTypes ==
  ASSUME NEW S \in Story, NEW d \in Device, NEW i \in DOMAIN S.inbox[d]
  PROVE  /\ S.inbox[d] \in Seq(Message) /\ S.inbox[d][i] \in Message
         /\ S.inbox[d][i].dist \in Nat /\ S.inbox[d][i].via \in Device
         /\ HostOf[S.inbox[d][i].via] \in Host
<1>1. S.inbox[d] \in Seq(Message)
  BY DEF Story
<1>2. S.inbox[d][i] \in Message
  BY <1>1
<1> QED BY <1>1, <1>2, RoutingAssumption DEF Message

(* What is under way after a message was handled, was before.               *)
LEMMA TailMail ==
  ASSUME NEW S \in Story, NEW T \in Story, NEW d \in Device, S.inbox[d] # << >>,
         T.inbox = [S.inbox EXCEPT ![d] = Tail(S.inbox[d])],
         NEW p \in Device, NEW i \in DOMAIN T.inbox[p]
  PROVE  \E j \in DOMAIN S.inbox[p] : T.inbox[p][i] = S.inbox[p][j]
<1>1. CASE p = d
  <2>1. T.inbox[p] = Tail(S.inbox[d]) /\ S.inbox[d] \in Seq(Message)
    BY <1>1 DEF Story
  <2>2. i + 1 \in DOMAIN S.inbox[d] /\ Tail(S.inbox[d])[i] = S.inbox[d][i + 1]
    <3>1. i \in DOMAIN Tail(S.inbox[d])
      BY <2>1
    <3> DEFINE s == S.inbox[d]
    <3>2. s \in Seq(Message) /\ s # << >> /\ i \in DOMAIN Tail(s)
      BY <2>1, <3>1
    <3> HIDE DEF s
    <3>3. i + 1 \in DOMAIN s /\ Tail(s)[i] = s[i + 1]
      BY <3>2
    <3> QED BY <3>3 DEF s
  <2> QED BY <1>1, <2>1, <2>2
<1>2. CASE p # d
  BY <1>2 DEF Story
<1> QED BY <1>1, <1>2

(* An entry of which no refresh has failed is good; so is the owner's.      *)
LEMMA NotLate ==
  ASSUME NEW S \in Story, Believable(S), NEW h \in Host, Known(S, h)
  PROVE  /\ h \notin S.late => Good(S, h) /\ Staleness(S, h) <= 2
         /\ h = Owner => Good(S, h)
<1>1. Staleness(S, h) \in 0..3 /\ Timely(S, h) /\ Sourced(S, h) /\ S.best[Owner] = 0
  BY StoryTypes DEF Believable
<1>2. h \notin S.late => Staleness(S, h) <= 2
  BY <1>1 DEF Timely, One
<1>3. Staleness(S, h) <= 2 => Good(S, h)
  BY DEF Staleness
<1>4. h = Owner => Good(S, h)
  BY <1>1 DEF Sourced, Good
<1> QED BY <1>2, <1>3, <1>4

(* The source of an entry is another host that is nearer, except of the     *)
(* owner's.                                                                 *)
LEMMA SourceFacts ==
  ASSUME NEW S \in Story, Believable(S), NEW h \in Host, Known(S, h), h # Owner
  PROVE  S.source[h] \in Host /\ S.source[h] # h /\ S.best[S.source[h]] < S.best[h]
<1>1. Sourced(S, h) /\ S.best[h] \in Nat /\ S.source[h] \in Host
  BY StoryTypes DEF Believable
<1> QED BY <1>1 DEF Sourced

(* updateDVR drops nothing: the host has handled what it was sent, so its   *)
(* entry is at most two periods old.                                        *)
LEMMA UpdateIsInTime ==
  ASSUME NEW S \in Story, NEW T \in Story, Shows(S), Shows(T)', Believable(S),
         TypeOK, NEW z \in Host, updateDVR(z),
         T.best = S.best, T.source = S.source, T.ear = S.ear, T.late = S.late
  PROVE  table' = table /\ Believable(T)
<1>1. /\ S.turn[z] = "update" /\ \A d \in DevicesOf(z) : S.inbox[d] = << >>
      /\ T.clocker = [S.clocker EXCEPT ![z] = (S.clocker[z] + 1) % 4]
      /\ T.turn = [S.turn EXCEPT ![z] = "send"]
      /\ T.inbox = S.inbox /\ T.table = table'
      /\ ~ Expired(z) => table' = table
  BY DEF Shows, updateDVR, NextClock
<1>2. ASSUME Known(S, z)
      PROVE  /\ ~ Pending(S, z)
             /\ Staleness(S, z) <= 1 - One(S.turn[S.source[z]] = "sleep") + One(z \in S.late)
             /\ Staleness(S, z) <= 2 /\ Staleness(S, z) \in 0..3 /\ Good(S, z)
             /\ Age(S, z) = Staleness(S, z) /\ ~ Expired(z)
  <2>1. Sourced(S, z) /\ Timely(S, z) /\ S.ear[z] \in Device /\ Staleness(S, z) \in 0..3
    BY <1>2, StoryTypes DEF Believable
  <2>2. S.inbox[S.ear[z]] = << >>
    BY <1>1, <2>1 DEF Sourced, DevicesOf
  <2>3. ~ Pending(S, z)
    BY <2>2 DEF Pending
  <2>4. Staleness(S, z) <= 1 - One(S.turn[S.source[z]] = "sleep") + One(z \in S.late)
    BY <2>1, <2>3, <1>1 DEF Timely, One
  <2>5. Staleness(S, z) <= 2
    BY <2>1, <2>4 DEF One
  <2>6. Good(S, z) /\ Age(S, z) = Staleness(S, z)
    BY <2>5 DEF Staleness
  <2>7. table[z].stamp \in 0..3 /\ clocker[z] \in 0..3 /\ (clocker[z] - table[z].stamp) % 4 # 3
    BY <1>2, <2>5, <2>6, StoryTypes DEF Age, Shows, Known
  <2>8. ~ Expired(z)
    BY <2>7, Ages DEF Expired, NextClock
  <2> QED BY <2>1, <2>3, <2>4, <2>5, <2>6, <2>8
<1>3. table' = table /\ T.table = S.table
  <2>1. Expired(z) => Known(S, z)
    BY DEF Expired, Known, Shows
  <2> QED BY <1>1, <1>2, <2>1 DEF Shows
<1>4. ASSUME NEW h \in Host
      PROVE  /\ Known(T, h) <=> Known(S, h)
             /\ Good(T, h) <=> Good(S, h)
             /\ Pending(T, h) <=> Pending(S, h)
             /\ Sourced(T, h) <=> Sourced(S, h)
             /\ h # z => Age(T, h) = Age(S, h) /\ Staleness(T, h) = Staleness(S, h)
             /\ h # z => T.turn[h] = S.turn[h]
             /\ T.turn[z] = "send"
  <2>1. Known(T, h) <=> Known(S, h)
    BY <1>3 DEF Known
  <2>2. Good(T, h) <=> Good(S, h)
    BY <1>3 DEF Good
  <2>3. Pending(T, h) <=> Pending(S, h)
    BY <1>1 DEF Pending, Useful
  <2>4. Sourced(T, h) <=> Sourced(S, h)
    BY <1>3, <2>2 DEF Sourced, Says, Known
  <2>5. h # z => T.clocker[h] = S.clocker[h] /\ T.turn[h] = S.turn[h]
    BY <1>1
  <2>6. h # z => Age(T, h) = Age(S, h) /\ Staleness(T, h) = Staleness(S, h)
    BY <1>3, <2>2, <2>5 DEF Age, Staleness
  <2>7. T.turn[z] = "send"
    BY <1>1 DEF Story
  <2> QED BY <2>1, <2>2, <2>3, <2>4, <2>5, <2>6, <2>7
<1>5. ASSUME Known(S, z) PROVE Staleness(T, z) = Staleness(S, z) + 1
  <2>1. S.clocker[z] \in 0..3 /\ S.table[z].stamp \in 0..3 /\ Age(S, z) # 3
    BY <1>2, <1>5, StoryTypes DEF Known
  <2>2. T.clocker[z] = (S.clocker[z] + 1) % 4
    BY <1>1 DEF Story
  <2>3. Age(T, z) = Age(S, z) + 1
    BY <2>1, <2>2, <1>3, Ages DEF Age
  <2> QED BY <2>3, <1>2, <1>4, <1>5 DEF Staleness
<1>6. ASSUME NEW h \in Host, Known(T, h) PROVE Timely(T, h)
  <2>1. Timely(S, h) /\ Known(S, h) /\ S.source[h] \in Host /\ Staleness(S, h) \in 0..3
    BY <1>4, <1>6, StoryTypes DEF Believable
  <2>2. T.turn[S.source[h]] = "sleep" <=> S.turn[S.source[h]] = "sleep"
    BY <1>1, <1>4, <2>1
  <2>3. CASE h = z
    <3>1. ~ Pending(T, h) /\ T.turn[h] = "send"
      BY <2>1, <2>3, <1>2, <1>4
    <3>2. Staleness(T, h) <= 2 - One(S.turn[S.source[h]] = "sleep") + One(h \in S.late)
      BY <2>1, <2>3, <1>2, <1>5 DEF One
    <3> QED BY <3>1, <3>2, <2>2 DEF Timely, One
  <2>4. CASE h # z
    BY <2>1, <2>2, <2>4, <1>4 DEF Timely
  <2> QED BY <2>3, <2>4
<1>7. ASSUME NEW h \in Host, Known(T, h) PROVE Once(T, h)
  <2> SUFFICES ASSUME h \in T.late, h # Owner, ~ Pending(T, h)
               PROVE  \/ Alone(T, h)
                      \/ /\ T.source[h] # Owner /\ Known(T, T.source[h])
                         /\ Recovers(T, T.source[h])
    BY DEF Once
  <2>1. Known(S, h) /\ Once(S, h) /\ ~ Pending(S, h)
    BY <1>4, <1>7 DEF Believable
  <2>2. Alone(S, h) => Alone(T, h)
    BY <1>4 DEF Alone
  <2> DEFINE g == S.source[h]
  <2>3. ASSUME g # Owner, Known(S, g), Recovers(S, g) PROVE Recovers(T, g)
    <3>1. g \in Host /\ S.source[g] \in Host
      BY StoryTypes
    <3>2. CASE g = z
      <4>1. Staleness(S, g) = 0
        BY <3>2, <2>3, <1>1, <1>2 DEF Recovers
      <4>2. Staleness(T, g) = 1 /\ T.turn[g] = "send"
        BY <3>2, <4>1, <2>3, <1>4, <1>5
      <4> QED BY <4>2 DEF Recovers
    <3>3. CASE g # z
      <4>1. S.turn[S.source[g]] # "sleep" => T.turn[S.source[g]] # "sleep"
        BY <3>1, <1>4
      <4> HIDE DEF g
      <4> QED BY <3>1, <3>3, <4>1, <2>3, <1>4 DEF Recovers
    <3> QED BY <3>2, <3>3
  <2>4. g # Owner /\ Known(S, g) => T.source[h] # Owner /\ Known(T, T.source[h])
    BY <1>4, StoryTypes
  <2> QED BY <2>1, <2>2, <2>3, <2>4 DEF Once
<1>8. Mail(T)
  BY <1>1, <1>3 DEF Believable, Mail, Says, Known
<1>9. \A h \in T.late : Known(T, h)
  BY <1>3 DEF Believable, Known
<1>10. \A h \in Host : Known(T, h) => Sourced(T, h)
  BY <1>4 DEF Believable
<1> QED BY <1>3, <1>6, <1>7, <1>8, <1>9, <1>10 DEF Believable

(* recvDVR of a message that is no use: the entry stays, or was as good as  *)
(* dropped and is still.                                                    *)
LEMMA UselessKeeps ==
  ASSUME NEW S \in Story, NEW T \in Story, Shows(S), Shows(T)', Believable(S),
         TypeOK, NEW d \in Device, recvDVR(d),
         Known(S, HostOf[d]), ~ Useful(S, HostOf[d], Head(S.inbox[d])),
         T.best = S.best, T.source = S.source, T.ear = S.ear, T.late = S.late
  PROVE  Believable(T)
<1> DEFINE z == HostOf[d]
           m == Head(S.inbox[d])
           value == Value(z, m)
<1>1. /\ z \in Host /\ S.inbox[d] \in Seq(Message) /\ S.inbox[d] # << >>
      /\ T.inbox = [S.inbox EXCEPT ![d] = Tail(S.inbox[d])]
      /\ T.clocker = S.clocker /\ T.turn = S.turn
      /\ T.table = IF Replaces(z, value) THEN [S.table EXCEPT ![z] = value] ELSE S.table
  BY RoutingAssumption DEF Shows, recvDVR, TypeOK, Message
<1>2. /\ z # Owner /\ ~ m.dist < S.best[z] /\ m \in Message /\ m.dist \in Nat
      /\ value.dist = m.dist + 1 /\ S.best[z] \in Nat
  <2>1. m \in Message
    BY <1>1
  <2>2. z # Owner /\ ~ m.dist < S.best[z]
    BY DEF Useful
  <2> QED BY <1>1, <2>1, <2>2, StoryTypes DEF Value, Message
<1>3. value # None /\ value \in Entry
  <2>1. clocker[z] \in 0..3
    BY <1>1 DEF TypeOK
  <2>2. value \in Entry
    BY <1>2, <2>1 DEF Value, Entry, Message
  <2> QED BY <2>2, RoutingAssumption DEF Entry
<1>4. Replaces(z, value) => Staleness(S, z) = 3
  <2>1. Sourced(S, z) /\ S.table[z].dist \in Nat /\ S.table[z].stamp \in 0..3 /\ S.clocker[z] \in 0..3
    BY <1>1, StoryTypes DEF Believable, Known
  <2>2. CASE Expired(z)
    <3>1. S.table[z].stamp = (S.clocker[z] + 1) % 4
      BY <2>2 DEF Expired, NextClock, Shows
    <3>2. Age(S, z) = 3
      BY <2>1, <3>1, Ages DEF Age
    <3> QED BY <3>2 DEF Staleness
  <2>3. CASE table[z].dist >= value.dist
    <3>1. S.table[z].dist >= m.dist + 1
      BY <2>3, <1>2 DEF Shows
    <3>2. ~ Good(S, z)
      BY <3>1, <2>1, <1>2 DEF Good
    <3> QED BY <3>2 DEF Staleness
  <2> HIDE DEF value, z
  <2>4. table[z] # None
    BY DEF Known, Shows, z
  <2> QED BY <2>2, <2>3, <2>4 DEF Replaces
<1>5. Replaces(z, value) => T.table[z] = value /\ ~ Good(T, z) /\ Staleness(T, z) = 3
  <2>1. ASSUME Replaces(z, value) PROVE T.table[z] = value
    BY <2>1, <1>1 DEF Story
  <2>2. ASSUME Replaces(z, value) PROVE ~ Good(T, z)
    BY <2>1, <2>2, <1>2 DEF Good
  <2> QED BY <2>1, <2>2 DEF Staleness
<1>6. ~ Replaces(z, value) => T.table = S.table
  BY <1>1
<1>7. ASSUME NEW h \in Host, h # z PROVE T.table[h] = S.table[h]
  BY <1>1, <1>7 DEF Story
<1> HIDE DEF value, z
<1>8. ASSUME NEW h \in Host PROVE Known(T, h) <=> Known(S, h)
  BY <1>3, <1>5, <1>6, <1>7 DEF Known, z
<1>9. ASSUME NEW h \in Host, Known(S, h) PROVE Pending(T, h) <=> Pending(S, h)
  <2>1. Sourced(S, h) /\ S.ear[h] \in Device
    BY <1>9, StoryTypes DEF Believable
  <2>2. CASE S.ear[h] # d
    <3>1. T.inbox[S.ear[h]] = S.inbox[S.ear[h]]
      BY <1>1, <2>1, <2>2 DEF Story
    <3> QED BY <3>1 DEF Pending, Useful
  <2>3. CASE S.ear[h] = d
    <3> DEFINE s == S.inbox[d]
    <3>1. T.inbox[d] = Tail(s) /\ h = z /\ s \in Seq(Message) /\ s # << >>
      BY <1>1, <2>1, <2>3 DEF Story, Sourced, z
    <3>2. ~ Useful(S, h, s[1])
      BY <3>1 DEF z
    <3> HIDE DEF s
    <3>3. /\ \A i \in DOMAIN Tail(s) : i + 1 \in DOMAIN s /\ Tail(s)[i] = s[i + 1]
          /\ \A i \in DOMAIN s : i = 1 \/ (i - 1 \in DOMAIN Tail(s) /\ Tail(s)[i - 1] = s[i])
      BY <3>1
    <3>4. (\E i \in DOMAIN Tail(s) : Useful(S, h, Tail(s)[i])) <=> (\E i \in DOMAIN s : Useful(S, h, s[i]))
      BY <3>2, <3>3
    <3>5. \A x : Useful(T, h, x) <=> Useful(S, h, x)
      BY DEF Useful
    <3> QED BY <2>3, <3>1, <3>4, <3>5 DEF Pending, s
  <2> QED BY <2>2, <2>3
<1>10. ASSUME NEW h \in Host, Known(S, h)
       PROVE  /\ Staleness(T, h) = Staleness(S, h)
              /\ Good(T, h) => T.table[h] = S.table[h] /\ Good(S, h)
  <2>1. CASE h = z /\ Replaces(z, value)
    BY <2>1, <1>4, <1>5
  <2>2. CASE h # z \/ ~ Replaces(z, value)
    <3>1. T.table[h] = S.table[h]
      BY <2>2, <1>6, <1>7
    <3> QED BY <3>1, <1>1 DEF Staleness, Good, Age
  <2> QED BY <2>1, <2>2
<1>11. ASSUME NEW h \in Host, Known(S, h) PROVE Sourced(T, h)
  <2>1. Sourced(S, h) /\ S.source[h] \in Host
    BY <1>11, StoryTypes DEF Believable
  <2>2. Says(T, S.source[h], S.ear[h])
    BY <2>1, <1>8 DEF Sourced, Says
  <2>3. S.best[h] <= T.table[h].dist /\ (h = Owner => T.table[h].dist = 0)
    <3>1. CASE h = z /\ Replaces(z, value)
      BY <3>1, <1>2, <1>5
    <3>2. CASE h # z \/ ~ Replaces(z, value)
      BY <3>2, <2>1, <1>6, <1>7 DEF Sourced
    <3> QED BY <3>1, <3>2
  <2> QED BY <2>1, <2>2, <2>3, <1>10, <1>11 DEF Sourced
<1>12. ASSUME NEW h \in Host, Known(S, h) PROVE Timely(T, h)
  <2>1. Timely(S, h)
    BY <1>12 DEF Believable
  <2> QED BY <2>1, <1>1, <1>9, <1>10, <1>12 DEF Timely
<1>13. ASSUME NEW h \in Host, Known(S, h) PROVE Once(T, h)
  <2>1. Once(S, h) /\ S.source[h] \in Host
    BY <1>13, StoryTypes DEF Believable
  <2>2. Alone(S, h) => Alone(T, h)
    BY <1>8 DEF Alone
  <2>3. ASSUME Known(S, S.source[h]), Recovers(S, S.source[h])
        PROVE  Recovers(T, S.source[h])
    BY <2>1, <2>3, <1>1, <1>9, <1>10 DEF Recovers
  <2> QED BY <2>1, <2>2, <2>3, <1>8, <1>9, <1>13 DEF Once
<1>14. Mail(T)
  <2> SUFFICES ASSUME NEW p \in Device, NEW i \in DOMAIN T.inbox[p]
               PROVE  LET x == T.inbox[p][i]
                          g == HostOf[x.via] IN
                      From(Links, g, p) = x.via /\ Says(T, g, p) /\ S.best[g] <= x.dist
    BY DEF Mail
  <2>1. PICK j \in DOMAIN S.inbox[p] : T.inbox[p][i] = S.inbox[p][j]
    BY <1>1, TailMail
  <2> DEFINE x == S.inbox[p][j]
             g == HostOf[x.via]
  <2>2. g \in Host
    BY MailTypes
  <2>3. From(Links, g, p) = x.via /\ Says(S, g, p) /\ S.best[g] <= x.dist
    BY DEF Believable, Mail
  <2>4. Says(T, g, p)
    BY <2>2, <2>3, <1>8 DEF Says
  <2> QED BY <2>1, <2>3, <2>4
<1>15. \A h \in T.late : Known(T, h)
  BY <1>8 DEF Believable, Story
<1> QED BY <1>8, <1>11, <1>12, <1>13, <1>14, <1>15 DEF Believable

(* recvDVR of a message that is of use: the entry is fresh.                 *)
LEMMA UsefulRefreshes ==
  ASSUME NEW S \in Story, NEW T \in Story, Shows(S), Shows(T)', Believable(S),
         TypeOK, NEW d \in Device, recvDVR(d),
         ~ Known(S, HostOf[d]) \/ Useful(S, HostOf[d], Head(S.inbox[d])),
         T.best = [S.best EXCEPT ![HostOf[d]] =
                     IF HostOf[d] = Owner THEN 0 ELSE Head(S.inbox[d]).dist + 1],
         T.source = [S.source EXCEPT ![HostOf[d]] = HostOf[Head(S.inbox[d]).via]],
         T.ear = [S.ear EXCEPT ![HostOf[d]] = d],
         T.late = S.late \ {HostOf[d]}
  PROVE  Believable(T)
<1> DEFINE z == HostOf[d]
           m == Head(S.inbox[d])
           q == HostOf[m.via]
           value == Value(z, m)
<1>1. /\ z \in Host /\ S.inbox[d] \in Seq(Message) /\ S.inbox[d] # << >>
      /\ T.inbox = [S.inbox EXCEPT ![d] = Tail(S.inbox[d])]
      /\ T.clocker = S.clocker /\ T.turn = S.turn
      /\ T.table = IF Replaces(z, value) THEN [S.table EXCEPT ![z] = value] ELSE S.table
  BY RoutingAssumption DEF Shows, recvDVR, TypeOK, Message
<1>2. /\ m \in Message /\ m.dist \in Nat /\ m.via \in Device /\ q \in Host
      /\ From(Links, q, d) = m.via /\ Says(S, q, d) /\ S.best[q] <= m.dist
      /\ S.best[q] \in Nat
  <2>1. 1 \in DOMAIN S.inbox[d] /\ m = S.inbox[d][1]
    BY <1>1
  <2>2. m \in Message /\ m.dist \in Nat /\ m.via \in Device /\ q \in Host
    BY <2>1, MailTypes
  <2>3. From(Links, q, d) = m.via /\ Says(S, q, d) /\ S.best[q] <= m.dist
    BY <2>1 DEF Believable, Mail
  <2> QED BY <2>2, <2>3, StoryTypes
<1>3. /\ value.dist = IF z = Owner THEN 0 ELSE m.dist + 1
      /\ value.stamp = S.clocker[z]
      /\ z # Owner => value.via = m.via
  BY DEF Value, Shows
<1>4. value # None /\ S.clocker[z] \in 0..3
  <2>1. clocker[z] \in 0..3
    BY <1>1 DEF TypeOK
  <2>2. value \in Entry
    BY <1>2, <2>1, RoutingAssumption DEF Value, Entry, Message
  <2> QED BY <2>1, <2>2, RoutingAssumption DEF Entry, Shows
<1>5. ASSUME Known(S, z) PROVE value.dist <= S.best[z] /\ S.best[z] <= S.table[z].dist
  <2>1. Sourced(S, z) /\ S.table[z].dist \in Nat /\ S.best[z] \in Nat
    BY <1>1, <1>5, StoryTypes DEF Believable, Known
  <2>2. z # Owner => m.dist < S.best[z]
    BY <1>5 DEF Useful
  <2> QED BY <2>1, <2>2, <1>2, <1>3 DEF Sourced
<1>6. Replaces(z, value)
  <2>1. ASSUME Known(S, z) PROVE table[z].dist >= value.dist
    <3>1. S.table[z].dist \in Nat /\ value.dist \in Nat /\ S.best[z] \in Nat
      BY <1>1, <1>2, <1>3, <2>1, StoryTypes DEF Known
    <3> QED BY <1>5, <2>1, <3>1 DEF Shows
  <2> HIDE DEF value, z
  <2> QED BY <2>1 DEF Replaces, Known, Shows
<1> HIDE DEF value
<1>7. /\ T.table = [S.table EXCEPT ![z] = value] /\ T.table[z] = value
      /\ T.best[z] = value.dist /\ T.source[z] = q /\ T.ear[z] = d /\ z \notin T.late
  BY <1>1, <1>3, <1>6 DEF Story
<1>8. ASSUME NEW h \in Host, h # z
      PROVE  /\ T.table[h] = S.table[h] /\ T.best[h] = S.best[h]
             /\ T.source[h] = S.source[h] /\ T.ear[h] = S.ear[h]
             /\ h \in T.late <=> h \in S.late
  BY <1>7, <1>8 DEF Story
<1>9. Good(T, z) /\ Age(T, z) = 0 /\ Staleness(T, z) = 0
  <2>1. Good(T, z)
    BY <1>7 DEF Good
  <2>2. Age(T, z) = 0
    BY <1>1, <1>3, <1>4, <1>7, Ages DEF Age
  <2> QED BY <2>1, <2>2 DEF Staleness
<1>10. Known(T, z)
  BY <1>4, <1>7 DEF Known
<1>11. ASSUME NEW h \in Host PROVE Known(S, h) => Known(T, h)
  BY <1>8, <1>10 DEF Known
<1>12. T.best[Owner] = 0 /\ S.best[Owner] = 0
  <2>1. Owner \in Host
    BY RoutingAssumption DEF Owner
  <2> QED BY <2>1, <1>3, <1>7, <1>8 DEF Believable
<1>13. ASSUME NEW g \in Host, NEW p \in Device, Says(S, g, p)
       PROVE  T.best[g] <= S.best[g] /\ Says(T, g, p) /\ S.best[g] \in Nat /\ T.best[g] \in Nat
  <2>1. S.best[g] \in Nat /\ T.best[g] \in Nat
    BY StoryTypes
  <2>2. Says(T, g, p)
    BY <1>11, <1>13 DEF Says
  <2>3. CASE g = Owner
    BY <2>1, <2>2, <2>3, <1>12
  <2>4. CASE g # Owner
    <3>1. Known(S, g)
      BY <1>13, <2>4, FromFacts DEF Says, Owner
    <3>2. T.best[g] <= S.best[g]
      BY <3>1, <2>1, <1>5, <1>7, <1>8
    <3> QED BY <2>1, <2>2, <3>2
  <2> QED BY <2>3, <2>4
<1>14. z # Owner => q # z
  <2> SUFFICES ASSUME z # Owner, q = z PROVE FALSE
    OBVIOUS
  <2>1. Known(S, z)
    BY <1>1, <1>2, FromFacts DEF Says, Owner
  <2>2. m.dist < S.best[z]
    BY <2>1 DEF Useful
  <2> QED BY <2>2, <1>2
<1>15. ASSUME NEW h \in Host, h # z, Known(S, h)
       PROVE  /\ Staleness(T, h) = Staleness(S, h) /\ (Pending(T, h) <=> Pending(S, h))
              /\ Good(T, h) <=> Good(S, h)
  <2>1. T.inbox[T.ear[h]] = S.inbox[S.ear[h]]
    <3>1. HostOf[S.ear[h]] = h /\ S.ear[h] \in Device
      BY <1>15, StoryTypes DEF Believable, Sourced
    <3> QED BY <3>1, <1>1, <1>8, <1>15 DEF Story
  <2>2. Pending(T, h) <=> Pending(S, h)
    BY <2>1, <1>8, <1>15 DEF Pending, Useful
  <2>3. Good(T, h) <=> Good(S, h)
    BY <1>8, <1>15 DEF Good
  <2>4. Staleness(T, h) = Staleness(S, h)
    BY <2>3, <1>1, <1>8, <1>15 DEF Staleness, Age
  <2> QED BY <2>2, <2>3, <2>4
<1>16. ASSUME NEW h \in Host, Known(T, h) PROVE Sourced(T, h)
  <2>1. CASE h = z
    <3>1. T.best[h] <= T.table[h].dist /\ HostOf[T.ear[h]] = h /\ Says(T, T.source[h], T.ear[h])
      <4>1. Says(T, q, d)
        BY <1>2, <1>13
      <4>2. value.dist \in Nat
        BY <1>2, <1>3
      <4> QED BY <2>1, <4>1, <4>2, <1>7
    <3>2. h = Owner => T.table[h].dist = 0
      BY <2>1, <1>3, <1>7
    <3>3. h # Owner => T.best[q] < T.best[h]
      <4>1. z # Owner => T.best[z] = m.dist + 1 /\ T.best[q] = S.best[q]
        BY <1>2, <1>3, <1>7, <1>8, <1>14
      <4> HIDE DEF z, m, q
      <4> QED BY <4>1, <2>1, <1>2
    <3>4. h # Owner => HostOf[T.table[h].via] = T.source[h]
      BY <2>1, <1>3, <1>7
    <3>5. T.source[h] = q
      BY <2>1, <1>7
    <3> QED BY <3>1, <3>2, <3>3, <3>4, <3>5 DEF Sourced
  <2>2. CASE h # z
    <3>1. Known(S, h)
      BY <2>2, <1>8, <1>16 DEF Known
    <3>2. Sourced(S, h) /\ S.source[h] \in Host /\ S.ear[h] \in Device /\ S.best[h] \in Nat
      BY <3>1, StoryTypes DEF Believable
    <3>3. Says(T, S.source[h], S.ear[h]) /\ T.best[S.source[h]] <= S.best[S.source[h]]
          /\ S.best[S.source[h]] \in Nat /\ T.best[S.source[h]] \in Nat
      BY <3>2, <1>13 DEF Sourced
    <3>4. Good(T, h) => Good(S, h)
      BY <3>1, <2>2, <1>15
    <3>5. h # Owner => T.best[S.source[h]] < S.best[h]
      BY <3>2, <3>3 DEF Sourced
    <3> QED BY <3>2, <3>3, <3>4, <3>5, <2>2, <1>8 DEF Sourced
  <2> QED BY <2>1, <2>2
<1>17. ASSUME NEW h \in Host, Known(T, h) PROVE Timely(T, h)
  <2>1. CASE h = z
    BY <2>1, <1>9 DEF Timely, One
  <2>2. CASE h # z
    <3>1. Known(S, h)
      BY <2>2, <1>8, <1>17 DEF Known
    <3>2. Timely(S, h)
      BY <3>1 DEF Believable
    <3> QED BY <3>1, <3>2, <2>2, <1>1, <1>8, <1>15 DEF Timely
  <2> QED BY <2>1, <2>2
<1>18. ASSUME NEW h \in Host, Known(T, h) PROVE Once(T, h)
  <2>1. CASE h = z
    BY <2>1, <1>7 DEF Once
  <2>2. CASE h # z
    <3>1. Known(S, h)
      BY <2>2, <1>8, <1>18 DEF Known
    <3>2. Once(S, h) /\ S.source[h] \in Host
      BY <3>1, StoryTypes DEF Believable
    <3> DEFINE g == S.source[h]
    <3>3. ASSUME Alone(S, h) PROVE Alone(T, h)
      <4> SUFFICES ASSUME NEW x \in Host \ {Owner}, Known(T, x), T.best[x] < T.best[h], x # z
                   PROVE  x \notin T.late
        BY <1>7 DEF Alone
      <4>1. Known(S, x) /\ S.best[x] < S.best[h]
        BY <2>2, <1>8 DEF Known
      <4> QED BY <4>1, <3>3, <1>8 DEF Alone
    <3>4. ASSUME g # Owner, Known(S, g), Recovers(S, g) PROVE Recovers(T, g)
      <4>1. CASE g = z
        <5>1. T.turn[z] \in {"update", "send", "sleep"}
          BY <1>1 DEF Story
        <5> HIDE DEF g, z
        <5> QED BY <4>1, <5>1, <1>9 DEF Recovers
      <4>2. CASE g # z
        <5> HIDE DEF g
        <5> QED BY <3>2, <3>4, <4>2, <1>1, <1>8, <1>15 DEF Recovers, g
      <4> QED BY <4>1, <4>2
    <3>5. T.source[h] = g /\ (Known(S, g) => Known(T, g))
      BY <2>2, <3>2, <1>8, <1>11
    <3> QED BY <3>1, <3>2, <3>3, <3>4, <3>5, <2>2, <1>8, <1>15 DEF Once
  <2> QED BY <2>1, <2>2
<1>19. Mail(T)
  <2> SUFFICES ASSUME NEW p \in Device, NEW i \in DOMAIN T.inbox[p]
               PROVE  LET x == T.inbox[p][i]
                          g == HostOf[x.via] IN
                      From(Links, g, p) = x.via /\ Says(T, g, p) /\ T.best[g] <= x.dist
    BY DEF Mail
  <2>1. PICK j \in DOMAIN S.inbox[p] : T.inbox[p][i] = S.inbox[p][j]
    BY <1>1, TailMail
  <2> DEFINE x == S.inbox[p][j]
             g == HostOf[x.via]
  <2>2. g \in Host /\ x.dist \in Nat
    BY MailTypes
  <2>3. From(Links, g, p) = x.via /\ Says(S, g, p) /\ S.best[g] <= x.dist
    BY DEF Believable, Mail
  <2>4. Says(T, g, p) /\ T.best[g] <= S.best[g] /\ S.best[g] \in Nat /\ T.best[g] \in Nat
    <3> HIDE DEF x, g
    <3> QED BY <2>2, <2>3, <1>13
  <2>5. T.best[g] <= x.dist
    <3> HIDE DEF x, g
    <3> QED BY <2>2, <2>3, <2>4
  <2> QED BY <2>1, <2>3, <2>4, <2>5
<1>20. \A h \in T.late : Known(T, h)
  BY <1>11 DEF Believable, Story
<1> QED BY <1>12, <1>16, <1>17, <1>18, <1>19, <1>20 DEF Believable

(* sendDVR of z: what becomes of a story when the frames to the devices of  *)
(* missed are lost.  A refresh fails when it is lost, or when what it says  *)
(* is worse than what the source has had.                                   *)
Failed(S, z, missed) ==
  {h \in Host : /\ Known(S, h) /\ S.source[h] = z
                /\ ~ /\ S.ear[h] \notin missed
                     /\ h = Owner \/ From(Links, z, S.ear[h]) = Dest \/ Good(S, z)}

LastAwake(S, z) == \A g \in Host \ {z} : S.turn[g] = "sleep"

Sends(S, T, z, missed) ==
  /\ S.turn[z] = "send"
  /\ T.turn = IF LastAwake(S, z) THEN [g \in Host |-> "update"]
              ELSE [S.turn EXCEPT ![z] = "sleep"]
  /\ T.inbox = [p \in Device |->
                  IF p \in Heard(Links, z) \ missed
                  THEN S.inbox[p] \o Advert(From(Links, z, p)) ELSE S.inbox[p]]
  /\ T.table = S.table /\ T.clocker = S.clocker
  /\ T.best = S.best /\ T.source = S.source /\ T.ear = S.ear
  /\ T.late = S.late \cup Failed(S, z, missed)
  /\ missed = {} \/ (S.late = {} /\ \E p \in Device : missed = {p})

(* What a host says is its entry's distance, and its own address.           *)
LEMMA AdvertSays ==
  ASSUME NEW S \in Story, Shows(S), NEW d \in Device
  PROVE  /\ Advert(d) \in Seq(Message)
         /\ \A i \in DOMAIN Advert(d) :
              /\ Advert(d)[i].via = d
              /\ \/ Known(S, HostOf[d]) /\ Advert(d)[i].dist = S.table[HostOf[d]].dist
                 \/ d = Dest /\ Advert(d)[i].dist = 0
         /\ Known(S, HostOf[d]) =>
              \E i \in DOMAIN Advert(d) : Advert(d)[i].dist = S.table[HostOf[d]].dist
         /\ d = Dest => \E i \in DOMAIN Advert(d) : Advert(d)[i].dist = 0
<1> DEFINE a == [via |-> d, dist |-> S.table[HostOf[d]].dist]
           b == [via |-> d, dist |-> 0]
<1>1. b \in Message /\ (Known(S, HostOf[d]) => a \in Message)
  BY RoutingAssumption, StoryTypes DEF Message, Known
<1>2. a.via = d /\ a.dist = S.table[HostOf[d]].dist /\ b.via = d /\ b.dist = 0
  OBVIOUS
<1>3. Advert(d) = (IF Known(S, HostOf[d]) THEN <<a>> ELSE << >>) \o (IF d = Dest THEN <<b>> ELSE << >>)
  BY DEF Advert, Shows, Known
<1> HIDE DEF a, b
<1>4. CASE Known(S, HostOf[d]) /\ d = Dest
  <2>1. Advert(d) = <<a>> \o <<b>>
    BY <1>3, <1>4
  <2>2. a \in Message /\ b \in Message
    BY <1>1, <1>4
  <2>3. \A x, y \in Message :
          LET c == <<x>> \o <<y>> IN
          c \in Seq(Message) /\ DOMAIN c = 1..2 /\ c[1] = x /\ c[2] = y
    OBVIOUS
  <2>4. Advert(d) \in Seq(Message) /\ DOMAIN Advert(d) = 1..2 /\ Advert(d)[1] = a /\ Advert(d)[2] = b
    BY <2>1, <2>2, <2>3
  <2> QED BY <2>4, <1>2, <1>4
<1>5. CASE Known(S, HostOf[d]) /\ d # Dest
  <2>1. Advert(d) = <<a>>
    BY <1>3, <1>5
  <2> QED BY <2>1, <1>1, <1>2, <1>5
<1>6. CASE ~ Known(S, HostOf[d]) /\ d = Dest
  <2>1. Advert(d) = <<b>>
    BY <1>3, <1>6
  <2> QED BY <2>1, <1>1, <1>2, <1>6
<1>7. CASE ~ Known(S, HostOf[d]) /\ d # Dest
  <2>1. Advert(d) = << >>
    BY <1>3, <1>7
  <2> QED BY <2>1, <1>7
<1> QED BY <1>4, <1>5, <1>6, <1>7

(* Where the elements of a concatenation are. *)
LEMMA ConcatElements ==
  ASSUME NEW s \in Seq(Message), NEW t \in Seq(Message)
  PROVE  /\ \A i \in DOMAIN s : \E j \in DOMAIN (s \o t) : (s \o t)[j] = s[i]
         /\ \A i \in DOMAIN t : \E j \in DOMAIN (s \o t) : (s \o t)[j] = t[i]
         /\ \A j \in DOMAIN (s \o t) :
              \/ \E i \in DOMAIN s : (s \o t)[j] = s[i]
              \/ \E i \in DOMAIN t : (s \o t)[j] = t[i]
<1>1. ASSUME NEW i \in DOMAIN s PROVE \E j \in DOMAIN (s \o t) : (s \o t)[j] = s[i]
  <2>1. i \in DOMAIN (s \o t) /\ (s \o t)[i] = s[i]
    OBVIOUS
  <2> QED BY <2>1
<1>2. ASSUME NEW i \in DOMAIN t PROVE \E j \in DOMAIN (s \o t) : (s \o t)[j] = t[i]
  <2>1. Len(s) + i \in DOMAIN (s \o t) /\ (s \o t)[Len(s) + i] = t[i]
    OBVIOUS
  <2> QED BY <2>1
<1>3. ASSUME NEW j \in DOMAIN (s \o t)
      PROVE  \/ \E i \in DOMAIN s : (s \o t)[j] = s[i]
             \/ \E i \in DOMAIN t : (s \o t)[j] = t[i]
  <2>1. CASE j <= Len(s)
    <3>1. j \in DOMAIN s /\ (s \o t)[j] = s[j]
      BY <2>1
    <3> QED BY <3>1
  <2>2. CASE j > Len(s)
    <3>1. j - Len(s) \in DOMAIN t /\ (s \o t)[j] = t[j - Len(s)]
      BY <2>2
    <3> QED BY <3>1
  <2>3. j \in Nat /\ Len(s) \in Nat
    OBVIOUS
  <2> QED BY <2>1, <2>2, <2>3
<1> QED BY <1>1, <1>2, <1>3

(* What is under way after sendDVR. *)
LEMMA SentMail ==
  ASSUME NEW S \in Story, NEW T \in Story, Shows(S),
         NEW z \in Host, NEW missed, Sends(S, T, z, missed), NEW p \in Device
  PROVE  /\ \A i \in DOMAIN S.inbox[p] : \E j \in DOMAIN T.inbox[p] : T.inbox[p][j] = S.inbox[p][i]
         /\ p \in Heard(Links, z) \ missed =>
              \A i \in DOMAIN Advert(From(Links, z, p)) :
                 \E j \in DOMAIN T.inbox[p] : T.inbox[p][j] = Advert(From(Links, z, p))[i]
         /\ \A j \in DOMAIN T.inbox[p] :
              \/ \E i \in DOMAIN S.inbox[p] : T.inbox[p][j] = S.inbox[p][i]
              \/ /\ p \in Heard(Links, z) \ missed
                 /\ \E i \in DOMAIN Advert(From(Links, z, p)) :
                       T.inbox[p][j] = Advert(From(Links, z, p))[i]
<1> DEFINE s == S.inbox[p]
           t == Advert(From(Links, z, p))
<1>1. s \in Seq(Message)
  BY DEF Story
<1>2. CASE p \in Heard(Links, z) \ missed
  <2>1. T.inbox[p] = s \o t
    BY <1>2 DEF Sends
  <2>2. t \in Seq(Message)
    BY <1>2, FromFacts, AdvertSays
  <2> HIDE DEF s, t
  <2>3. /\ \A i \in DOMAIN s : \E j \in DOMAIN (s \o t) : (s \o t)[j] = s[i]
        /\ \A i \in DOMAIN t : \E j \in DOMAIN (s \o t) : (s \o t)[j] = t[i]
        /\ \A j \in DOMAIN (s \o t) :
              \/ \E i \in DOMAIN s : (s \o t)[j] = s[i]
              \/ \E i \in DOMAIN t : (s \o t)[j] = t[i]
    BY <1>1, <2>2, ConcatElements
  <2> QED BY <1>2, <2>1, <2>3 DEF s, t
<1>3. CASE p \notin Heard(Links, z) \ missed
  BY <1>3 DEF Sends
<1> QED BY <1>2, <1>3

(* A refresh that does not fail, and what was under way, is pending.        *)
LEMMA SentPends ==
  ASSUME NEW S \in Story, NEW T \in Story, Shows(S), Believable(S),
         NEW z \in Host, NEW missed, Sends(S, T, z, missed),
         NEW h \in Host, Known(S, h)
  PROVE  /\ Pending(S, h) => Pending(T, h)
         /\ S.source[h] = z /\ h \notin Failed(S, z, missed) => Pending(T, h)
<1> DEFINE e == S.ear[h]
<1>1. /\ e \in Device /\ Sourced(S, h) /\ S.best[h] \in Nat /\ S.best[z] \in Nat
      /\ T.ear[h] = e /\ T.best[h] = S.best[h]
  BY StoryTypes DEF Believable, Sends
<1>2. \A m : Useful(T, h, m) <=> Useful(S, h, m)
  BY <1>1 DEF Useful
<1>3. Pending(S, h) => Pending(T, h)
  <2>1. \A i \in DOMAIN S.inbox[e] : \E j \in DOMAIN T.inbox[e] : T.inbox[e][j] = S.inbox[e][i]
    BY <1>1, SentMail
  <2> QED BY <2>1, <1>1, <1>2 DEF Pending
<1>4. ASSUME S.source[h] = z, h \notin Failed(S, z, missed) PROVE Pending(T, h)
  <2> DEFINE d == From(Links, z, e)
  <2>1. /\ e \notin missed /\ (h = Owner \/ d = Dest \/ Good(S, z))
        /\ e \in Heard(Links, z) /\ (d = Dest \/ Known(S, z))
        /\ h # Owner => S.best[z] < S.best[h]
    BY <1>1, <1>4 DEF Failed, Sourced, Says
  <2>2. d \in Device /\ HostOf[d] = z
    BY <2>1, FromFacts
  <2>3. \E i \in DOMAIN Advert(d) : Useful(S, h, Advert(d)[i])
    <3>1. CASE d = Dest
      <4>1. PICK i \in DOMAIN Advert(d) : Advert(d)[i].dist = 0
        BY <2>2, <3>1, AdvertSays
      <4>2. h # Owner => 0 < S.best[h]
        BY <1>1, <2>1
      <4> HIDE DEF d
      <4>3. Useful(S, h, Advert(d)[i])
        BY <4>1, <4>2 DEF Useful
      <4> QED BY <4>3
    <3>2. CASE d # Dest
      <4>1. Known(S, z) /\ (h = Owner \/ Good(S, z))
        BY <2>1, <3>2
      <4>2. PICK i \in DOMAIN Advert(d) : Advert(d)[i].dist = S.table[z].dist
        BY <2>2, <4>1, AdvertSays
      <4>3. h # Owner => S.table[z].dist < S.best[h]
        BY <2>1, <4>1 DEF Good
      <4> HIDE DEF d
      <4>4. Useful(S, h, Advert(d)[i])
        BY <4>2, <4>3 DEF Useful
      <4> QED BY <4>4
    <3> QED BY <3>1, <3>2
  <2>4. \A i \in DOMAIN Advert(d) : \E j \in DOMAIN T.inbox[e] : T.inbox[e][j] = Advert(d)[i]
    BY <1>1, <2>1, SentMail
  <2>5. \E j \in DOMAIN T.inbox[e] : Useful(S, h, T.inbox[e][j])
    BY <2>3, <2>4
  <2> QED BY <2>5, <1>1, <1>2 DEF Pending
<1> QED BY <1>3, <1>4

(* A host that says something worse than it has had is late, and its own    *)
(* refresh is pending or still to come.                                     *)
LEMMA BadSender ==
  ASSUME NEW S \in Story, Believable(S), NEW z \in Host, S.turn[z] = "send",
         Known(S, z), ~ Good(S, z)
  PROVE  /\ z # Owner /\ z \in S.late
         /\ Pending(S, z) \/ S.turn[S.source[z]] # "sleep"
<1>1. z # Owner /\ z \in S.late
  BY NotLate
<1>2. Staleness(S, z) = 3 /\ Timely(S, z)
  BY DEF Staleness, Believable
<1>3. ~ Pending(S, z) => S.turn[S.source[z]] # "sleep"
  BY <1>2 DEF Timely, One
<1> QED BY <1>1, <1>3

(* No refresh fails twice. *)
LEMMA FailsOnce ==
  ASSUME NEW S \in Story, NEW T \in Story, Shows(S), Believable(S),
         NEW z \in Host, NEW missed, Sends(S, T, z, missed),
         NEW h \in S.late, S.source[h] = z
  PROVE  Pending(T, h)
<1>1. h \in Host /\ Known(S, h) /\ missed = {} /\ S.turn[z] = "send"
  BY DEF Believable, Sends, Story
<1>2. Pending(S, h) => Pending(T, h)
  BY <1>1, SentPends
<1>3. ASSUME h # Owner, ~ Pending(S, h), From(Links, z, S.ear[h]) # Dest
      PROVE  Good(S, z)
  <2>1. Once(S, h) /\ Sourced(S, h)
    BY <1>1 DEF Believable
  <2>2. Known(S, z) /\ S.best[z] < S.best[h]
    BY <2>1, <1>3 DEF Sourced, Says
  <2>3. CASE Alone(S, h)
    <3>1. z = Owner \/ z \notin S.late
      BY <2>2, <2>3 DEF Alone
    <3> QED BY <3>1, <2>2, NotLate
  <2>4. CASE Recovers(S, z)
    <3>1. Staleness(S, z) <= 1
      BY <2>4, <1>1 DEF Recovers
    <3> QED BY <3>1 DEF Staleness
  <2> QED BY <2>1, <2>3, <2>4, <1>3 DEF Once
<1>4. ~ Pending(S, h) => h \notin Failed(S, z, missed)
  BY <1>1, <1>3 DEF Failed
<1> QED BY <1>1, <1>2, <1>4, SentPends

(* Whose turn it is after sendDVR of z. *)
LEMMA SentTurn ==
  ASSUME NEW S \in Story, NEW T \in Story,
         NEW z \in Host, NEW missed, Sends(S, T, z, missed)
  PROVE  /\ S.turn[z] = "send"
         /\ LastAwake(S, z) =>
              \A g \in Host : T.turn[g] = "update" /\ (g # z => S.turn[g] = "sleep")
         /\ ~ LastAwake(S, z) =>
              T.turn[z] = "sleep" /\ \A g \in Host \ {z} : T.turn[g] = S.turn[g]
<1>1. LastAwake(S, z) =>
        \A g \in Host : T.turn[g] = "update" /\ (g # z => S.turn[g] = "sleep")
  BY DEF Sends, LastAwake
<1>2. ~ LastAwake(S, z) =>
        T.turn[z] = "sleep" /\ \A g \in Host \ {z} : T.turn[g] = S.turn[g]
  BY DEF Sends, Story
<1> QED BY <1>1, <1>2 DEF Sends

(* sendDVR of z renews the entries that come from z, and for the others a   *)
(* new period begins only when their sources sleep.                         *)
LEMMA SendIsTimely ==
  ASSUME NEW S \in Story, NEW T \in Story, Shows(S), Believable(S),
         NEW z \in Host, NEW missed, Sends(S, T, z, missed),
         NEW h \in Host, Known(S, h)
  PROVE  Timely(T, h)
<1>1. /\ Timely(S, h) /\ Staleness(S, h) \in 0..3 /\ S.source[h] \in Host
      /\ T.source = S.source /\ S.late \subseteq T.late
      /\ Staleness(T, h) = Staleness(S, h)
      /\ h \in T.late <=> h \in S.late \/ h \in Failed(S, z, missed)
  BY StoryTypes DEF Believable, Sends, Staleness, Age, Good
<1>2. Pending(S, h) => Pending(T, h)
  BY SentPends
<1>3. S.turn[z] = "send"
  BY SentTurn
<1>4. Pending(T, h) => Timely(T, h)
  BY <1>1 DEF Timely, One
<1>5. CASE S.source[h] = z /\ h \notin Failed(S, z, missed)
  BY <1>4, <1>5, SentPends
<1>6. CASE S.source[h] = z /\ h \in S.late
  BY <1>4, <1>6, FailsOnce
<1>7. CASE S.source[h] = z /\ h \in Failed(S, z, missed) /\ h \notin S.late /\ ~ Pending(T, h)
  <2>1. Staleness(S, h) <= 1 + One(S.turn[h] # "update")
    BY <1>1, <1>2, <1>3, <1>7 DEF Timely, One
  <2>2. CASE LastAwake(S, z)
    <3>1. T.turn[z] = "update"
      BY <2>2, SentTurn
    <3>2. Staleness(T, h) <= 2
      BY <1>1, <2>1 DEF One
    <3> QED BY <3>1, <3>2, <1>1, <1>7 DEF Timely, One
  <2>3. CASE ~ LastAwake(S, z)
    <3>1. T.turn[h] # "update" <=> S.turn[h] # "update"
      BY <2>3, <1>3, SentTurn
    <3> QED BY <3>1, <2>1, <1>1, <1>7 DEF Timely, One
  <2> QED BY <2>2, <2>3
<1>8. CASE S.source[h] # z /\ ~ Pending(T, h)
  <2>1. Staleness(S, h) <= 1 + One(S.turn[h] # "update")
                             - One(S.turn[S.source[h]] = "sleep") + One(h \in S.late)
    BY <1>1, <1>2, <1>8 DEF Timely
  <2>2. h \in T.late <=> h \in S.late
    BY <1>1, <1>8 DEF Failed
  <2>3. CASE LastAwake(S, z)
    <3>1. T.turn[h] = "update" /\ T.turn[S.source[h]] = "update" /\ S.turn[S.source[h]] = "sleep"
      BY <2>3, <1>1, <1>8, SentTurn
    <3> QED BY <3>1, <2>1, <2>2, <1>1, <1>8 DEF Timely, One
  <2>4. CASE ~ LastAwake(S, z)
    <3>1. /\ T.turn[h] # "update" <=> S.turn[h] # "update"
          /\ T.turn[S.source[h]] = S.turn[S.source[h]]
      BY <2>4, <1>1, <1>3, <1>8, SentTurn
    <3> QED BY <3>1, <2>1, <2>2, <1>1, <1>8 DEF Timely, One
  <2> QED BY <2>3, <2>4
<1> QED BY <1>4, <1>5, <1>6, <1>7, <1>8

(* Where a refresh fails and nothing is pending, no other will.             *)
LEMMA SendFailsOnce ==
  ASSUME NEW S \in Story, NEW T \in Story, Shows(S), Believable(S),
         NEW z \in Host, NEW missed, Sends(S, T, z, missed),
         NEW h \in Host, Known(S, h)
  PROVE  Once(T, h)
<1> SUFFICES ASSUME h \in T.late, h # Owner, ~ Pending(T, h)
             PROVE  \/ Alone(T, h)
                    \/ /\ T.source[h] # Owner /\ Known(T, T.source[h])
                       /\ Recovers(T, T.source[h])
  BY DEF Once
<1>1. /\ T.table = S.table /\ T.clocker = S.clocker
      /\ T.best = S.best /\ T.source = S.source /\ T.ear = S.ear
      /\ T.late = S.late \cup Failed(S, z, missed)
      /\ missed = {} \/ (S.late = {} /\ \E p \in Device : missed = {p})
  BY DEF Sends
<1>2. S.turn[z] = "send"
  BY SentTurn
<1>3. \A g : /\ Known(T, g) <=> Known(S, g)
             /\ Staleness(T, g) = Staleness(S, g)
  BY <1>1 DEF Known, Staleness, Age, Good
<1>4. /\ S.source[h] \in Host /\ S.source[h] # h /\ Sourced(S, h) /\ Once(S, h)
      /\ S.best[h] \in Nat /\ S.best[S.source[h]] < S.best[h] /\ ~ Pending(S, h)
  BY StoryTypes, SourceFacts, SentPends DEF Believable
<1>5. \A x \in Host : Known(S, x) /\ x # Owner => S.best[x] \in Nat
  BY StoryTypes
<1>6. CASE S.source[h] = z /\ h \notin S.late
  <2>1. h \in Failed(S, z, missed)
    BY <1>1, <1>6
  <2>2. CASE S.ear[h] \in missed
    <3>1. S.late = {} /\ missed = {S.ear[h]}
      BY <1>1, <2>2
    <3>2. Alone(T, h)
      <4> SUFFICES ASSUME NEW x \in Host \ {Owner}, Known(S, x), S.best[x] < S.best[h],
                          x \in Failed(S, z, missed)
                   PROVE  FALSE
        BY <1>1, <1>3, <3>1 DEF Alone
      <4>1. x # h /\ Sourced(S, x) /\ S.source[x] = z
        BY <1>4, <1>5 DEF Believable, Failed
      <4>2. S.ear[x] # S.ear[h]
        BY <4>1, <1>4 DEF Sourced
      <4>3. From(Links, z, S.ear[x]) # Dest /\ ~ Good(S, z)
        BY <4>2, <3>1 DEF Failed
      <4>4. Known(S, z)
        BY <4>1, <4>3 DEF Sourced, Says
      <4> QED BY <4>3, <4>4, <3>1, NotLate
    <3> QED BY <3>2
  <2>3. CASE S.ear[h] \notin missed
    <3>1. ~ Good(S, z) /\ Known(S, z)
      BY <2>1, <2>3, <1>4 DEF Failed, Sourced, Says
    <3>2. z # Owner /\ z \in S.late /\ (Pending(S, z) \/ S.turn[S.source[z]] # "sleep")
      BY <3>1, <1>2, BadSender
    <3>3. S.source[z] \in Host /\ S.source[z] # z
      BY <3>1, <3>2, SourceFacts
    <3>4. Pending(S, z) => Pending(T, z)
      BY <3>1, SentPends
    <3>5. Recovers(T, z)
      <4>1. CASE LastAwake(S, z)
        <5>1. Pending(T, z) /\ T.turn[z] = "update"
          BY <4>1, <3>2, <3>3, <3>4, SentTurn
        <5> QED BY <5>1 DEF Recovers
      <4>2. CASE ~ LastAwake(S, z)
        <5>1. T.turn[z] = "sleep" /\ T.turn[S.source[z]] = S.turn[S.source[z]]
          BY <4>2, <3>3, SentTurn
        <5> QED BY <5>1, <3>2, <3>4, <1>1 DEF Recovers
      <4> QED BY <4>1, <4>2
    <3> QED BY <3>1, <3>2, <3>5, <1>1, <1>3, <1>6
  <2> QED BY <2>2, <2>3
<1>7. CASE S.source[h] = z /\ h \in S.late
  BY <1>7, FailsOnce
<1>8. CASE S.source[h] # z
  <2>1. h \in S.late /\ missed = {}
    BY <1>1, <1>8 DEF Failed
  <2>2. ASSUME Alone(S, h) PROVE Alone(T, h)
    <3> SUFFICES ASSUME NEW x \in Host \ {Owner}, Known(S, x), S.best[x] < S.best[h],
                        x \in Failed(S, z, missed)
                 PROVE  FALSE
      BY <1>1, <1>3, <2>2 DEF Alone
    <3>1. /\ Sourced(S, x) /\ S.source[x] = z /\ From(Links, z, S.ear[x]) # Dest /\ ~ Good(S, z)
      BY <2>1 DEF Believable, Failed
    <3>2. Known(S, z) /\ S.best[z] < S.best[x]
      BY <3>1 DEF Sourced, Says
    <3>3. z # Owner /\ z \in S.late
      BY <3>1, <3>2, <1>2, BadSender
    <3>4. S.best[z] < S.best[h]
      <4>1. S.best[z] \in Nat /\ S.best[x] \in Nat
        BY StoryTypes
      <4> QED BY <4>1, <3>2, <1>4
    <3> QED BY <3>2, <3>3, <3>4, <2>2 DEF Alone
  <2> DEFINE g == S.source[h]
  <2>3. ASSUME g # Owner, Known(S, g), Recovers(S, g) PROVE Recovers(T, g)
    <3>1. /\ g \in Host /\ g # z /\ S.source[g] \in Host
          /\ Pending(S, g) => Pending(T, g)
      BY <1>4, <1>8, <2>3, SentPends, StoryTypes
    <3>2. g \in S.late /\ S.source[g] = z => Pending(T, g)
      BY FailsOnce
    <3>3. CASE LastAwake(S, z)
      <4>1. T.turn[g] = "update" /\ S.turn[g] = "sleep" /\ (S.source[g] # z => S.turn[S.source[g]] = "sleep")
        BY <3>1, <3>3, SentTurn
      <4>2. Staleness(S, g) = 0 \/ Pending(T, g)
        BY <4>1, <3>1, <3>2, <2>3 DEF Recovers
      <4> QED BY <4>1, <4>2, <1>3 DEF Recovers
    <3>4. CASE ~ LastAwake(S, z)
      <4>1. T.turn[g] = S.turn[g] /\ (S.source[g] # z => T.turn[S.source[g]] = S.turn[S.source[g]])
        BY <3>1, <3>4, SentTurn
      <4> HIDE DEF g
      <4> QED BY <4>1, <3>1, <3>2, <2>3, <1>1, <1>3 DEF Recovers
    <3> QED BY <3>3, <3>4
  <2> QED BY <2>1, <2>2, <2>3, <1>1, <1>3, <1>4 DEF Once
<1> QED BY <1>6, <1>7, <1>8

(* sendDVR keeps the story believable. *)
LEMMA SendsKeep ==
  ASSUME NEW S \in Story, NEW T \in Story, Shows(S), Believable(S),
         NEW z \in Host, NEW missed, Sends(S, T, z, missed)
  PROVE  Believable(T)
<1>1. /\ T.table = S.table /\ T.best = S.best /\ T.source = S.source /\ T.ear = S.ear
      /\ T.late = S.late \cup Failed(S, z, missed)
  BY DEF Sends
<1>2. ASSUME NEW h \in Host, Known(T, h)
      PROVE  Sourced(T, h) /\ Timely(T, h) /\ Once(T, h)
  <2>1. Known(S, h) /\ Sourced(S, h)
    BY <1>1, <1>2 DEF Known, Believable
  <2>2. Sourced(T, h)
    BY <2>1, <1>1 DEF Sourced, Says, Known, Good
  <2> QED BY <2>1, <2>2, SendIsTimely, SendFailsOnce
<1>3. ASSUME NEW p \in Device, NEW i \in DOMAIN T.inbox[p]
      PROVE  LET m == T.inbox[p][i]
                 g == HostOf[m.via] IN
             From(Links, g, p) = m.via /\ Says(T, g, p) /\ T.best[g] <= m.dist
  <2>1. \A g : Says(T, g, p) <=> Says(S, g, p)
    BY <1>1 DEF Says, Known
  <2>2. CASE \E j \in DOMAIN S.inbox[p] : T.inbox[p][i] = S.inbox[p][j]
    <3>1. PICK j \in DOMAIN S.inbox[p] : T.inbox[p][i] = S.inbox[p][j]
      BY <2>2
    <3> QED BY <3>1, <2>1, <1>1 DEF Believable, Mail
  <2> DEFINE d == From(Links, z, p)
  <2>3. CASE /\ p \in Heard(Links, z) \ missed
             /\ \E j \in DOMAIN Advert(d) : T.inbox[p][i] = Advert(d)[j]
    <3>1. PICK j \in DOMAIN Advert(d) : T.inbox[p][i] = Advert(d)[j]
      BY <2>3
    <3>2. d \in Device /\ HostOf[d] = z /\ p \in Heard(Links, z)
      BY <2>3, FromFacts
    <3>3. /\ Advert(d)[j].via = d
          /\ \/ Known(S, z) /\ Advert(d)[j].dist = S.table[z].dist
             \/ d = Dest /\ Advert(d)[j].dist = 0
      BY <3>2, AdvertSays
    <3>4. Known(S, z) => S.best[z] <= S.table[z].dist
      BY DEF Believable, Sourced
    <3>5. d = Dest => S.best[z] = 0
      BY <3>2 DEF Believable, Owner
    <3>6. Says(T, z, p) /\ S.best[z] <= Advert(d)[j].dist
      BY <3>2, <3>3, <3>4, <3>5, <2>1 DEF Says
    <3> HIDE DEF d
    <3> QED BY <3>1, <3>2, <3>3, <3>6, <1>1 DEF d
  <2> QED BY <2>2, <2>3, SentMail
<1>4. \A h \in T.late : Known(T, h)
  BY <1>1 DEF Believable, Known, Failed
<1>5. T.best[Owner] = 0
  BY <1>1 DEF Believable
<1>6. Mail(T)
  BY <1>3 DEF Mail
<1> QED BY <1>2, <1>4, <1>5, <1>6 DEF Believable

(* Any history goes with the next state to a story. *)
LEMMA NextStory ==
  ASSUME TypeOK', NEW best \in [Host -> Nat], NEW source \in [Host -> Host],
         NEW ear \in [Host -> Device], NEW late \in SUBSET Host
  PROVE  \E T \in Story :
           /\ T.table = table' /\ T.clocker = clocker' /\ T.turn = turn' /\ T.inbox = inbox'
           /\ T.best = best /\ T.source = source /\ T.ear = ear /\ T.late = late
<1> DEFINE T == [table |-> table', clocker |-> clocker', turn |-> turn', inbox |-> inbox',
                 best |-> best, source |-> source, ear |-> ear, late |-> late]
<1>1. /\ table' \in [Host -> Entry \cup {None}] /\ clocker' \in [Host -> 0..3]
      /\ turn' \in [Host -> {"update", "send", "sleep"}]
      /\ inbox' \in [Device -> Seq(Message)]
  BY DEF TypeOK, Message
<1>2. T \in Story
  BY <1>1 DEF Story
<1> QED BY <1>2

LEMMA InitExplained == Init => Explained
<1> SUFFICES ASSUME Init PROVE Explained
  OBVIOUS
<1> DEFINE S == [table |-> table, clocker |-> clocker, turn |-> turn, inbox |-> inbox,
                 best |-> [h \in Host |-> 0], source |-> [h \in Host |-> h],
                 ear |-> [h \in Host |-> Dest], late |-> {}]
<1>1. S \in Story
  <2>1. /\ table \in [Host -> Entry \cup {None}] /\ clocker \in [Host -> 0..3]
        /\ turn \in [Host -> {"update", "send", "sleep"}]
        /\ inbox \in [Device -> Seq(Message)]
    BY InitIInv DEF IInv, TypeOK, Message
  <2> QED BY <2>1, RoutingAssumption DEF Story
<1>2. /\ S.table = [h \in Host |-> None] /\ S.inbox = [d \in Device |-> << >>]
      /\ S.late = {} /\ S.best = [h \in Host |-> 0]
  BY DEF Init
<1>3. Shows(S)
  BY DEF Shows
<1> HIDE DEF S
<1>4. Owner \in Host
  BY RoutingAssumption DEF Owner
<1>5. Believable(S)
  <2>1. S.best[Owner] = 0
    BY <1>2, <1>4
  <2>2. Mail(S)
    BY <1>2 DEF Mail
  <2>3. \A h \in Host : ~ Known(S, h)
    BY <1>2 DEF Known
  <2> QED BY <2>1, <2>2, <2>3, <1>2 DEF Believable
<1> QED BY <1>1, <1>2, <1>3, <1>5 DEF Explained

LEMMA UpdateExplained ==
  ASSUME IInv, IInv', Explained, links = Links, lost <= 1,
         NEW z \in Host, updateDVR(z)
  PROVE  Explained' /\ table' = table
<1>1. PICK S \in Story : Shows(S) /\ Believable(S) /\ (lost = 0 => S.late = {})
  BY DEF Explained
<1>2. TypeOK /\ TypeOK'
  BY DEF IInv
<1>3. PICK T \in Story :
        /\ T.table = table' /\ T.clocker = clocker' /\ T.turn = turn' /\ T.inbox = inbox'
        /\ T.best = S.best /\ T.source = S.source /\ T.ear = S.ear /\ T.late = S.late
  <2> DEFINE best == S.best
             source == S.source
             ear == S.ear
             late == S.late
  <2>1. /\ best \in [Host -> Nat] /\ source \in [Host -> Host]
        /\ ear \in [Host -> Device] /\ late \in SUBSET Host
    BY DEF Story, Failed
  <2> HIDE DEF best, source, ear, late
  <2>2. \E T \in Story :
          /\ T.table = table' /\ T.clocker = clocker' /\ T.turn = turn' /\ T.inbox = inbox'
          /\ T.best = best /\ T.source = source /\ T.ear = ear /\ T.late = late
    BY <2>1, <1>2, NextStory
  <2> QED BY <2>2 DEF best, source, ear, late
<1>4. Shows(T)'
  BY <1>3 DEF Shows
<1>5. Believable(T) /\ table' = table
  BY <1>1, <1>2, <1>3, <1>4, UpdateIsInTime
<1>6. lost' = 0 => T.late = {}
  BY <1>1, <1>3 DEF updateDVR
<1> QED BY <1>4, <1>5, <1>6 DEF Explained

LEMMA RecvExplained ==
  ASSUME IInv, IInv', Explained, links = Links, lost <= 1,
         NEW d \in Device, recvDVR(d)
  PROVE  Explained' /\ \A h \in Host : table[h] # None => table'[h] # None
<1>1. PICK S \in Story : Shows(S) /\ Believable(S) /\ (lost = 0 => S.late = {})
  BY DEF Explained
<1>2. TypeOK /\ TypeOK'
  BY DEF IInv
<1> DEFINE z == HostOf[d]
           m == Head(S.inbox[d])
           useful == ~ Known(S, z) \/ Useful(S, z, m)
<1>3. z \in Host /\ m \in Message
  BY <1>1, RoutingAssumption DEF Shows, recvDVR, Story
<1>4. PICK T \in Story :
        /\ T.table = table' /\ T.clocker = clocker' /\ T.turn = turn' /\ T.inbox = inbox'
        /\ T.best = IF useful THEN [S.best EXCEPT ![z] = IF z = Owner THEN 0 ELSE m.dist + 1] ELSE S.best
        /\ T.source = IF useful THEN [S.source EXCEPT ![z] = HostOf[m.via]] ELSE S.source
        /\ T.ear = IF useful THEN [S.ear EXCEPT ![z] = d] ELSE S.ear
        /\ T.late = IF useful THEN S.late \ {z} ELSE S.late
  <2> DEFINE best == IF useful THEN [S.best EXCEPT ![z] = IF z = Owner THEN 0 ELSE m.dist + 1] ELSE S.best
             source == IF useful THEN [S.source EXCEPT ![z] = HostOf[m.via]] ELSE S.source
             ear == IF useful THEN [S.ear EXCEPT ![z] = d] ELSE S.ear
             late == IF useful THEN S.late \ {z} ELSE S.late
  <2>1. /\ S.best \in [Host -> Nat] /\ S.source \in [Host -> Host]
        /\ S.ear \in [Host -> Device] /\ S.late \in SUBSET Host
    BY DEF Story
  <2>2. m.dist + 1 \in Nat /\ HostOf[m.via] \in Host
    BY <1>3, RoutingAssumption DEF Message
  <2> HIDE DEF useful, z, m
  <2>3. best \in [Host -> Nat] /\ source \in [Host -> Host]
    BY <2>1, <2>2
  <2>4. ear \in [Host -> Device] /\ late \in SUBSET Host
    BY <2>1
  <2> HIDE DEF best, source, ear, late
  <2>5. \E T \in Story :
          /\ T.table = table' /\ T.clocker = clocker' /\ T.turn = turn' /\ T.inbox = inbox'
          /\ T.best = best /\ T.source = source /\ T.ear = ear /\ T.late = late
    BY <1>2, <2>3, <2>4, NextStory
  <2> QED BY <2>5 DEF best, source, ear, late
<1>5. Shows(T)'
  BY <1>4 DEF Shows
<1>6. Believable(T)
  <2>1. CASE useful
    BY <1>1, <1>2, <1>4, <1>5, <2>1, UsefulRefreshes
  <2>2. CASE ~ useful
    BY <1>1, <1>2, <1>4, <1>5, <2>2, UselessKeeps
  <2> QED BY <2>1, <2>2
<1>7. lost' = 0 => T.late = {}
  BY <1>1, <1>4 DEF recvDVR
<1>8. \A h \in Host : table[h] # None => table'[h] # None
  <2>1. clocker[z] \in 0..3 /\ Head(inbox[d]) = m
    BY <1>1, <1>2, <1>3 DEF TypeOK, Shows
  <2>2. Value(z, m) \in Entry
    BY <1>3, <2>1, RoutingAssumption DEF Value, Entry, Message
  <2>3. Value(z, m) # None
    BY <2>2, RoutingAssumption DEF Entry
  <2> HIDE DEF z, m
  <2> QED BY <1>2, <2>1, <2>3 DEF recvDVR, TypeOK, z
<1> QED BY <1>5, <1>6, <1>7, <1>8 DEF Explained

LEMMA SendExplained ==
  ASSUME IInv, IInv', Explained, links = Links, lost' <= 1,
         NEW z \in Host, sendDVR(z)
  PROVE  Explained' /\ table' = table
<1>1. PICK missed \in SUBSET Heard(Links, z) :
        /\ lost' = lost + Cardinality(missed)
        /\ inbox' = [p \in Device |-> IF p \in Heard(Links, z) \ missed
                                      THEN inbox[p] \o Advert(From(Links, z, p))
                                      ELSE inbox[p]]
  BY DEF sendDVR
<1>2. TypeOK /\ TypeOK'
  BY DEF IInv
<1>3. IsFiniteSet(missed) /\ Cardinality(missed) \in Nat /\ missed \subseteq Device
  BY RoutingAssumption, FS_Subset, FS_CardinalityType DEF Heard
<1>4. /\ lost \in Nat /\ lost <= 1 /\ Cardinality(missed) <= 1
      /\ Cardinality(missed) # 0 => lost = 0
  BY <1>1, <1>2, <1>3 DEF TypeOK
<1>5. missed = {} <=> Cardinality(missed) = 0
  BY <1>3, FS_EmptySet
<1>6. missed = {} \/ \E p \in Device : missed = {p}
  <2>1. CASE Cardinality(missed) = 1
    <3>1. \E p : missed = {p}
      BY <1>3, <2>1, FS_Singleton
    <3> QED BY <3>1, <1>3
  <2> QED BY <2>1, <1>3, <1>4, <1>5
<1>7. PICK S \in Story : Shows(S) /\ Believable(S) /\ (lost = 0 => S.late = {})
  BY <1>4 DEF Explained
<1>8. PICK T \in Story :
        /\ T.table = table' /\ T.clocker = clocker' /\ T.turn = turn' /\ T.inbox = inbox'
        /\ T.best = S.best /\ T.source = S.source /\ T.ear = S.ear
        /\ T.late = S.late \cup Failed(S, z, missed)
  <2> DEFINE best == S.best
             source == S.source
             ear == S.ear
             late == S.late \cup Failed(S, z, missed)
  <2>1. /\ best \in [Host -> Nat] /\ source \in [Host -> Host]
        /\ ear \in [Host -> Device] /\ late \in SUBSET Host
    BY DEF Story, Failed
  <2> HIDE DEF best, source, ear, late
  <2>2. \E T \in Story :
          /\ T.table = table' /\ T.clocker = clocker' /\ T.turn = turn' /\ T.inbox = inbox'
          /\ T.best = best /\ T.source = source /\ T.ear = ear /\ T.late = late
    BY <2>1, <1>2, NextStory
  <2> QED BY <2>2 DEF best, source, ear, late
<1>9. Shows(T)'
  BY <1>8 DEF Shows
<1>10. Sends(S, T, z, missed)
  <2>1. S.turn[z] = "send"
    BY <1>7 DEF Shows, sendDVR
  <2>2. T.turn = IF LastAwake(S, z) THEN [g \in Host |-> "update"]
                 ELSE [S.turn EXCEPT ![z] = "sleep"]
    BY <1>7, <1>8 DEF Shows, sendDVR, Turn, LastAwake
  <2>3. T.inbox = [p \in Device |->
                     IF p \in Heard(Links, z) \ missed
                     THEN S.inbox[p] \o Advert(From(Links, z, p)) ELSE S.inbox[p]]
    BY <1>1, <1>7, <1>8 DEF Shows
  <2>4. T.table = S.table /\ T.clocker = S.clocker
    BY <1>7, <1>8 DEF Shows, sendDVR
  <2>5. missed = {} \/ (S.late = {} /\ \E p \in Device : missed = {p})
    <3>1. missed # {} => S.late = {}
      BY <1>4, <1>5, <1>7
    <3> QED BY <3>1, <1>6
  <2> QED BY <2>1, <2>2, <2>3, <2>4, <2>5, <1>8 DEF Sends
<1>11. Believable(T)
  BY <1>7, <1>10, SendsKeep
<1>12. lost' = 0 => T.late = {}
  <2> SUFFICES ASSUME lost' = 0, NEW h \in Failed(S, z, missed) PROVE FALSE
    BY <1>1, <1>3, <1>4, <1>7, <1>8 DEF TypeOK
  <2>1. missed = {} /\ S.late = {}
    BY <1>1, <1>2, <1>3, <1>5, <1>7 DEF TypeOK
  <2>2. /\ h \in Host /\ Known(S, h) /\ S.source[h] = z
        /\ From(Links, z, S.ear[h]) # Dest /\ ~ Good(S, z)
    BY <2>1 DEF Failed
  <2>3. Known(S, z)
    BY <2>2, <1>7 DEF Believable, Sourced, Says
  <2> QED BY <2>1, <2>2, <2>3, <1>7, NotLate
<1> QED BY <1>9, <1>11, <1>12 DEF Explained, sendDVR

(* The story goes on as long as nothing more fails. *)
LEMMA ExplainedStep ==
  ASSUME IInv, Explained, [Next]_vars
  PROVE  /\ Explained'
         /\ \A h \in Host : links = Links /\ lost' <= 1 /\ table[h] # None
                              => table'[h] # None
<1>1. IInv'
  BY StepKeeps
<1>2. TypeOK /\ TypeOK'
  BY <1>1 DEF IInv
<1>3. ASSUME NEW h \in Host, updateDVR(h) \/ \E d \in DevicesOf(h) : recvDVR(d)
      PROVE  /\ links' = links /\ lost' = lost
             /\ links = Links /\ lost <= 1 =>
                  Explained' /\ \A g \in Host : table[g] # None => table'[g] # None
  <2>1. CASE updateDVR(h)
    BY <2>1, <1>1, UpdateExplained DEF updateDVR
  <2>2. CASE \E d \in DevicesOf(h) : recvDVR(d)
    <3>1. PICK d \in Device : recvDVR(d)
      BY <2>2 DEF DevicesOf
    <3> QED BY <3>1, <1>1, RecvExplained DEF recvDVR
  <2> QED BY <1>3, <2>1, <2>2
<1>4. ASSUME NEW h \in Host, sendDVR(h)
      PROVE  /\ links' = links
             /\ links = Links /\ lost' <= 1 => Explained' /\ table' = table
  BY <1>1, <1>4, SendExplained DEF sendDVR
<1>5. ASSUME NEW l \in Links, Cut(l)
      PROVE  links' # Links /\ table' = table
  BY <1>5 DEF Cut
<1>6. CASE UNCHANGED vars
  BY <1>6 DEF vars, Explained, Shows
<1>7. \/ \E h \in Host : updateDVR(h) \/ \E d \in DevicesOf(h) : recvDVR(d)
      \/ \E h \in Host : sendDVR(h)
      \/ \E l \in Links : Cut(l)
      \/ UNCHANGED vars
  BY DEF Next, HostSteps
<1>8. Explained'
  <2>1. links' # Links \/ ~ (lost' <= 1) => Explained'
    BY DEF Explained
  <2> QED BY <2>1, <1>3, <1>4, <1>5, <1>6, <1>7
<1>9. UNCHANGED vars => table' = table
  BY DEF vars
<1> QED BY <1>3, <1>4, <1>5, <1>7, <1>8, <1>9

(* A state reached with working links and at most one lost frame has a      *)
(* story that explains its entries.                                         *)
THEOREM AlwaysExplained == Spec => []Explained
<1>1. IInv /\ Explained /\ [Next]_vars => Explained'
  BY ExplainedStep
<1> QED BY <1>1, InitExplained, Invariant, PTL DEF Spec

(* In every network whose links work, a host that has a route keeps one,    *)
(* whatever the order of the turns and although a frame was lost.           *)
THEOREM NoRouteIsLost == Spec => NoRouteLost
<1>1. IInv /\ Explained /\ [Next]_vars =>
        [\A h \in Host : links = Links /\ lost' <= 1 /\ table[h] # None
                           => table'[h] # None]_vars
  BY ExplainedStep
<1> QED BY <1>1, Invariant, AlwaysExplained, PTL DEF Spec, NoRouteLost

(* In every network in which nothing failed the routes lead to the          *)
(* destination: no entry is late, so each has the distance it was given by  *)
(* its next hop, which is nearer.                                           *)
THEOREM RoutesAlwaysLead == Spec => []RoutesLead
<1>1. ASSUME IInv, Explained PROVE RoutesLead
  <2> SUFFICES ASSUME NEW h \in Host, links = Links, lost = 0, h # Owner, table[h] # None
               PROVE  \/ HostOf[table[h].via] = Owner
                      \/ /\ table[HostOf[table[h].via]] # None
                         /\ table[HostOf[table[h].via]].dist < table[h].dist
    BY DEF RoutesLead
  <2>1. PICK S \in Story : Shows(S) /\ Believable(S) /\ S.late = {}
    BY <1>1 DEF Explained
  <2>2. \A g \in Host : Known(S, g) => Good(S, g) /\ Sourced(S, g)
    BY <2>1, NotLate DEF Believable
  <2>3. Known(S, h) /\ S.source[h] \in Host
    BY <2>1, StoryTypes DEF Known, Shows
  <2>4. /\ HostOf[S.table[h].via] = S.source[h] /\ Says(S, S.source[h], S.ear[h])
        /\ S.best[S.source[h]] < S.best[h] /\ S.table[h].dist = S.best[h]
    BY <2>2, <2>3 DEF Sourced, Good
  <2>5. CASE From(Links, S.source[h], S.ear[h]) = Dest
    <3>1. S.source[h] = Owner
      BY <2>3, <2>4, <2>5, FromFacts DEF Says, Owner
    <3> QED BY <3>1, <2>1, <2>4 DEF Shows
  <2>6. CASE Known(S, S.source[h])
    <3>1. S.table[S.source[h]].dist = S.best[S.source[h]]
      BY <2>2, <2>3, <2>6 DEF Good
    <3> QED BY <3>1, <2>1, <2>4, <2>6 DEF Shows, Known
  <2> QED BY <2>4, <2>5, <2>6 DEF Says
<1> QED BY <1>1, Invariant, AlwaysExplained, PTL
=============================================================================
