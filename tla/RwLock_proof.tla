---------------------------- MODULE RwLock_proof ----------------------------
(* The lock of the routing table is a table lock, for any finite set of     *)
(* threads: Inv is inductive, and every step of RwLock is a step of         *)
(* TableLock or leaves the readers and writers as they are.                 *)
EXTENDS RwLock, FiniteSetTheorems, TLAPS

LEMMA InvInit == Init => Inv
<1> SUFFICES ASSUME Init PROVE Inv
  OBVIOUS
<1>1. TypeOK
  BY DEF Init, TypeOK, Labels
<1>2. Writing = {} /\ InMutex = {} /\ Counted = {} /\ ReadersIn = {} /\ LastReader = {}
  BY DEF Init, At, InMutex, Counted, ReadersIn, LastReader, Writing
<1>3. nreader = Cardinality(Counted)
  BY <1>2, FS_EmptySet DEF Init
<1> QED  BY <1>1, <1>2, <1>3 DEF Inv

(* The set S as a thread t comes to it or leaves it. *)
Shifts(S, SNext, t, was, is) ==
  /\ t \in S <=> was
  /\ (was <=> is) => SNext = S
  /\ ~was /\ is => SNext = S \cup {t}
  /\ was /\ ~is => SNext = S \ {t}

(* How the sets of Inv change when t goes from one label to another. *)
LEMMA Moved ==
  ASSUME TypeOK, NEW t \in Thread, NEW from, NEW to \in Labels, Goto(t, from, to)
  PROVE  /\ pc' \in [Thread -> Labels]
         /\ Shifts(InMutex, InMutex', t, from \in {"count", "first", "admit", "uncount", "last", "release"},
                   to \in {"count", "first", "admit", "uncount", "last", "release"})
         /\ Shifts(Counted, Counted', t, from \in {"first", "admit", "reading", "uncount"},
                   to \in {"first", "admit", "reading", "uncount"})
         /\ Shifts(ReadersIn, ReadersIn', t, from \in {"admit", "reading", "uncount", "last"},
                   to \in {"admit", "reading", "uncount", "last"})
         /\ Shifts(LastReader, LastReader', t, from \in {"last"}, to \in {"last"})
         /\ Shifts(Reading, Reading', t, from \in {"reading"}, to \in {"reading"})
         /\ Shifts(Writing, Writing', t, from \in {"writing"}, to \in {"writing"})
<1>1. /\ pc' = [pc EXCEPT ![t] = to] /\ pc[t] = from /\ pc \in [Thread -> Labels]
  BY DEF Goto, TypeOK
<1>2. pc' \in [Thread -> Labels] /\ \A u \in Thread : pc'[u] = IF u = t THEN to ELSE pc[u]
  BY <1>1
<1>3. Shifts(InMutex, InMutex', t, from \in {"count", "first", "admit", "uncount", "last", "release"},
                 to \in {"count", "first", "admit", "uncount", "last", "release"})
  BY <1>1, <1>2 DEF Shifts, InMutex, At
<1>4. Shifts(Counted, Counted', t, from \in {"first", "admit", "reading", "uncount"},
                 to \in {"first", "admit", "reading", "uncount"})
  BY <1>1, <1>2 DEF Shifts, Counted, At
<1>5. Shifts(ReadersIn, ReadersIn', t, from \in {"admit", "reading", "uncount", "last"},
                 to \in {"admit", "reading", "uncount", "last"})
  BY <1>1, <1>2 DEF Shifts, ReadersIn, At
<1>6. Shifts(LastReader, LastReader', t, from \in {"last"}, to \in {"last"})
  BY <1>1, <1>2 DEF Shifts, LastReader, At
<1>7. Shifts(Reading, Reading', t, from \in {"reading"}, to \in {"reading"})
  BY <1>1, <1>2 DEF Shifts, Reading, At
<1>8. Shifts(Writing, Writing', t, from \in {"writing"}, to \in {"writing"})
  BY <1>1, <1>2 DEF Shifts, Writing, At
<1> QED  BY <1>2, <1>3, <1>4, <1>5, <1>6, <1>7, <1>8

LEMMA CountReaders ==
  ASSUME NEW t \in Thread
  PROVE  /\ Cardinality(Counted) \in Nat
         /\ Cardinality(Counted) = 0 <=> Counted = {}
         /\ Cardinality(Counted \cup {t}) =
              IF t \in Counted THEN Cardinality(Counted) ELSE Cardinality(Counted) + 1
         /\ Cardinality(Counted \ {t}) =
              IF t \in Counted THEN Cardinality(Counted) - 1 ELSE Cardinality(Counted)
<1>1. IsFiniteSet(Counted)
  BY LockAssumption, FS_Subset DEF Counted, At
<1> QED  BY <1>1, FS_AddElement, FS_RemoveElement, FS_EmptySet, FS_CardinalityType

(* Where the sets overlap: a reader in the mutex or out of it. *)
LEMMA Labelled ==
  /\ ReadersIn \subseteq Counted \cup LastReader
  /\ Counted \subseteq ReadersIn \cup InMutex
  /\ LastReader \subseteq InMutex
BY DEF InMutex, Counted, ReadersIn, LastReader, At

(* The steps that move a thread between labels of no interest.              *)
LEMMA QuietStep ==
  ASSUME Inv, NEW t \in Thread, NEW from \in {"idle", "wantKernel", "unlock"},
         NEW to \in {"idle", "wantKernel", "wantRead", "wantWrite"}, Goto(t, from, to),
         kernel' \subseteq Thread, calls' \in [Thread -> Nat],
         UNCHANGED <<mymutex, noreader, nreader>>
  PROVE  Inv'
<1>1. /\ TypeOK /\ to \in Labels
  BY DEF Inv, Labels
<1>2. /\ InMutex' = InMutex /\ Counted' = Counted /\ ReadersIn' = ReadersIn
      /\ Writing' = Writing /\ LastReader' = LastReader
      /\ pc' \in [Thread -> Labels]
  BY <1>1, Moved DEF Shifts
<1>3. TypeOK'
  BY <1>1, <1>2 DEF TypeOK
<1> QED  BY <1>2, <1>3 DEF Inv

LEMMA InvStep == Inv /\ [Next]_vars => Inv'
<1> SUFFICES ASSUME Inv, [Next]_vars PROVE Inv'
  OBVIOUS
<1>1. TypeOK /\ mymutex \in {0, 1} /\ noreader \in {0, 1} /\ nreader \in Nat
  BY DEF Inv, TypeOK
<1>2. CASE UNCHANGED vars
  BY <1>2 DEF vars, Inv, TypeOK, InMutex, Counted, ReadersIn, LastReader, Writing, At
<1>3. ASSUME NEW t \in Thread, SetOut(t) PROVE Inv'
  BY <1>1, <1>3, QuietStep DEF SetOut, TypeOK
<1>4. ASSUME NEW t \in Thread, LockKernel(t) PROVE Inv'
  BY <1>1, <1>4, QuietStep DEF LockKernel, TypeOK
<1>5. ASSUME NEW t \in Thread, UnlockKernel(t) PROVE Inv'
  BY <1>1, <1>5, QuietStep DEF UnlockKernel, TypeOK
<1>6. ASSUME NEW t \in Thread, ReaderIn1(t) PROVE Inv'
  <2>1. /\ Goto(t, "wantRead", "count") /\ "count" \in Labels
        /\ mymutex = 1 /\ mymutex' = 0
        /\ UNCHANGED <<noreader, nreader, kernel, calls>>
    BY <1>1, <1>6 DEF ReaderIn1, Waits, Labels
  <2>2. /\ InMutex' = {t} /\ Counted' = Counted /\ ReadersIn' = ReadersIn
        /\ Writing' = Writing /\ LastReader' = LastReader
        /\ pc' \in [Thread -> Labels]
    BY <1>1, <2>1, Moved DEF Shifts, Inv
  <2>3. TypeOK'
    BY <1>1, <2>1, <2>2 DEF TypeOK
  <2> QED  BY <2>1, <2>2, <2>3 DEF Inv
<1>7. ASSUME NEW t \in Thread, ReaderIn2(t) PROVE Inv'
  <2>1. /\ Goto(t, "count", IF nreader = 0 THEN "first" ELSE "admit")
        /\ nreader' = nreader + 1
        /\ UNCHANGED <<mymutex, noreader, kernel, calls>>
    BY <1>1, <1>7 DEF ReaderIn2, FirstIn
  <2>2. /\ InMutex' = InMutex /\ InMutex = {t} /\ t \notin Counted /\ t \notin Writing
        /\ Counted' = Counted \cup {t}
        /\ ReadersIn' = IF nreader = 0 THEN ReadersIn ELSE ReadersIn \cup {t}
        /\ Writing' = Writing
        /\ LastReader = {} /\ LastReader' = {}
        /\ pc' \in [Thread -> Labels]
    <3>1. CASE nreader = 0
      BY <1>1, <2>1, <3>1, Moved, Labelled DEF Shifts, Inv, Labels
    <3>2. CASE nreader # 0
      BY <1>1, <2>1, <3>2, Moved, Labelled DEF Shifts, Inv, Labels
    <3> QED  BY <3>1, <3>2
  <2>3. nreader' = Cardinality(Counted')
    BY <2>1, <2>2, CountReaders DEF Inv
  <2>4. nreader # 0 => ReadersIn # {}
    BY <2>2, CountReaders, Labelled DEF Inv
  <2>5. TypeOK'
    BY <1>1, <2>1, <2>2 DEF TypeOK
  <2> QED  BY <2>1, <2>2, <2>3, <2>4, <2>5 DEF Inv
<1>8. ASSUME NEW t \in Thread, ReaderIn3(t) PROVE Inv'
  <2>1. /\ Goto(t, "first", "admit") /\ "admit" \in Labels
        /\ noreader = 1 /\ noreader' = 0
        /\ UNCHANGED <<mymutex, nreader, kernel, calls>>
    BY <1>1, <1>8 DEF ReaderIn3, Waits, Labels
  <2>2. /\ InMutex' = InMutex /\ Counted' = Counted /\ ReadersIn' = ReadersIn \cup {t}
        /\ Writing = {} /\ Writing' = {} /\ LastReader' = LastReader
        /\ pc' \in [Thread -> Labels]
    BY <1>1, <2>1, Moved DEF Shifts, Inv
  <2>3. TypeOK'
    BY <1>1, <2>1, <2>2 DEF TypeOK
  <2> QED  BY <2>1, <2>2, <2>3 DEF Inv
<1>9. ASSUME NEW t \in Thread, ReaderIn4(t) PROVE Inv'
  <2>1. /\ Goto(t, "admit", "reading") /\ "reading" \in Labels
        /\ mymutex' = mymutex + 1
        /\ UNCHANGED <<noreader, nreader, kernel, calls>>
    BY <1>9 DEF ReaderIn4, Posts, Labels
  <2>2. /\ InMutex = {t} /\ InMutex' = {} /\ Counted' = Counted /\ ReadersIn' = ReadersIn
        /\ Writing' = Writing /\ LastReader' = LastReader
        /\ pc' \in [Thread -> Labels]
    BY <1>1, <2>1, Moved DEF Shifts, Inv
  <2>3. mymutex = 0
    BY <1>1, <2>2 DEF Inv
  <2>4. TypeOK'
    BY <1>1, <2>1, <2>2, <2>3 DEF TypeOK
  <2> QED  BY <2>1, <2>2, <2>4 DEF Inv
<1>10. ASSUME NEW t \in Thread, ReaderOut1(t) PROVE Inv'
  <2>1. /\ Goto(t, "reading", "uncount") /\ "uncount" \in Labels
        /\ mymutex = 1 /\ mymutex' = 0
        /\ UNCHANGED <<noreader, nreader, kernel, calls>>
    BY <1>1, <1>10 DEF ReaderOut1, Waits, Labels
  <2>2. /\ InMutex' = {t} /\ Counted' = Counted /\ ReadersIn' = ReadersIn
        /\ Writing' = Writing /\ LastReader' = LastReader
        /\ pc' \in [Thread -> Labels]
    BY <1>1, <2>1, Moved DEF Shifts, Inv
  <2>3. TypeOK'
    BY <1>1, <2>1, <2>2 DEF TypeOK
  <2> QED  BY <2>1, <2>2, <2>3 DEF Inv
<1>11. ASSUME NEW t \in Thread, ReaderOut2(t) PROVE Inv'
  <2>1. /\ Goto(t, "uncount", IF nreader = 1 THEN "last" ELSE "release")
        /\ nreader' = nreader - 1
        /\ UNCHANGED <<mymutex, noreader, kernel, calls>>
    BY <1>1, <1>11 DEF ReaderOut2, LastOut
  <2>2. /\ InMutex' = InMutex /\ InMutex = {t} /\ t \in Counted /\ t \in ReadersIn
        /\ Counted' = Counted \ {t}
        /\ ReadersIn' = IF nreader = 1 THEN ReadersIn ELSE ReadersIn \ {t}
        /\ Writing' = Writing
        /\ LastReader' # {} => nreader = 1
        /\ pc' \in [Thread -> Labels]
    <3>1. CASE nreader = 1
      BY <1>1, <2>1, <3>1, Moved DEF Shifts, Inv, Labels
    <3>2. CASE nreader # 1
      BY <1>1, <2>1, <3>2, Moved, Labelled DEF Shifts, Inv, Labels
    <3> QED  BY <3>1, <3>2
  <2>3. nreader' = Cardinality(Counted') /\ nreader' \in Nat
    BY <1>1, <2>1, <2>2, CountReaders DEF Inv
  <2>4. TypeOK'
    BY <1>1, <2>1, <2>2, <2>3 DEF TypeOK
  <2> QED  BY <2>1, <2>2, <2>3, <2>4 DEF Inv
<1>12. ASSUME NEW t \in Thread, ReaderOut3(t) PROVE Inv'
  <2>1. /\ Goto(t, "last", "release") /\ "release" \in Labels
        /\ noreader' = noreader + 1
        /\ UNCHANGED <<mymutex, nreader, kernel, calls>>
    BY <1>12 DEF ReaderOut3, Posts, Labels
  <2>2. /\ InMutex = {t} /\ InMutex' = {t} /\ Counted' = Counted /\ t \in ReadersIn
        /\ ReadersIn' = ReadersIn \ {t} /\ t \in LastReader /\ LastReader' = {}
        /\ Writing' = Writing
        /\ pc' \in [Thread -> Labels]
    BY <1>1, <2>1, Moved, Labelled DEF Shifts, Inv
  <2>3. Counted = {} /\ noreader = 0 /\ Writing = {}
    BY <1>1, <2>2, CountReaders DEF Inv
  <2>4. ReadersIn' = {}
    BY <2>2, <2>3, Labelled
  <2>5. TypeOK'
    BY <1>1, <2>1, <2>2, <2>3 DEF TypeOK
  <2> QED  BY <2>1, <2>2, <2>3, <2>4, <2>5 DEF Inv
<1>13. ASSUME NEW t \in Thread, ReaderOut4(t) PROVE Inv'
  <2>1. PICK to \in {"unlock", "idle"} : Goto(t, "release", to)
    BY <1>13 DEF ReaderOut4
  <2>2. /\ to \in Labels
        /\ mymutex' = mymutex + 1
        /\ UNCHANGED <<noreader, nreader, kernel, calls>>
    BY <1>13 DEF ReaderOut4, Posts, Labels
  <2>3. /\ InMutex = {t} /\ InMutex' = {} /\ Counted' = Counted /\ ReadersIn' = ReadersIn
        /\ Writing' = Writing /\ LastReader' = LastReader
        /\ pc' \in [Thread -> Labels]
    BY <1>1, <2>1, <2>2, Moved DEF Shifts, Inv
  <2>4. mymutex = 0
    BY <1>1, <2>3 DEF Inv
  <2>5. TypeOK'
    BY <1>1, <2>2, <2>3, <2>4 DEF TypeOK
  <2> QED  BY <2>2, <2>3, <2>5 DEF Inv
<1>14. ASSUME NEW t \in Thread, WriterIn(t) PROVE Inv'
  <2>1. /\ Goto(t, "wantWrite", "writing") /\ "writing" \in Labels
        /\ noreader = 1 /\ noreader' = 0
        /\ UNCHANGED <<mymutex, nreader, kernel, calls>>
    BY <1>1, <1>14 DEF WriterIn, Waits, Labels
  <2>2. /\ InMutex' = InMutex /\ Counted' = Counted /\ ReadersIn = {} /\ ReadersIn' = {}
        /\ Writing' = {t} /\ LastReader' = LastReader
        /\ pc' \in [Thread -> Labels]
    BY <1>1, <2>1, Moved DEF Shifts, Inv
  <2>3. TypeOK'
    BY <1>1, <2>1, <2>2 DEF TypeOK
  <2> QED  BY <2>1, <2>2, <2>3 DEF Inv
<1>15. ASSUME NEW t \in Thread, WriterOut(t) PROVE Inv'
  <2>1. /\ Goto(t, "writing", "idle") /\ "idle" \in Labels
        /\ noreader' = noreader + 1
        /\ UNCHANGED <<mymutex, nreader, kernel, calls>>
    BY <1>15 DEF WriterOut, Posts, Labels
  <2>2. /\ InMutex' = InMutex /\ Counted' = Counted /\ ReadersIn = {} /\ ReadersIn' = {}
        /\ Writing = {t} /\ Writing' = {} /\ LastReader' = LastReader
        /\ pc' \in [Thread -> Labels]
    BY <1>1, <2>1, Moved DEF Shifts, Inv
  <2>3. noreader = 0
    BY <1>1, <2>2 DEF Inv
  <2>4. TypeOK'
    BY <1>1, <2>1, <2>2, <2>3 DEF TypeOK
  <2> QED  BY <2>1, <2>2, <2>4 DEF Inv
<1> QED  BY <1>2, <1>3, <1>4, <1>5, <1>6, <1>7, <1>8, <1>9, <1>10, <1>11, <1>12, <1>13,
            <1>14, <1>15 DEF Next, Proceed, Read

LEMMA Invariant == Spec => []Inv
BY InvInit, InvStep, PTL DEF Spec

(* The semaphores are never posted past one, and every variable has its     *)
(* type.                                                                    *)
THEOREM SemaphoresAreBinary == Spec => []TypeOK
<1>1. Inv => TypeOK
  BY DEF Inv
<1> QED  BY <1>1, Invariant, PTL

-----------------------------------------------------------------------------
(* The refinement. *)

LEMMA TableInit == Init => Table!Init
BY DEF Init, Table!Init, Reading, Writing, At

LEMMA TableStep == Inv /\ [Next]_vars => [Table!Next]_<<Reading, Writing>>
<1> SUFFICES ASSUME Inv, [Next]_vars
             PROVE  [Table!Next]_<<Reading, Writing>>
  OBVIOUS
<1>1. TypeOK
  BY DEF Inv
<1>2. CASE UNCHANGED vars
  BY <1>2 DEF vars, Reading, Writing, At
<1>3. ASSUME NEW t \in Thread, NEW from, NEW to \in Labels, Goto(t, from, to)
      PROVE  /\ Reading' = IF to = "reading" THEN Reading \cup {t} ELSE Reading \ {t}
             /\ Writing' = IF to = "writing" THEN Writing \cup {t} ELSE Writing \ {t}
             /\ t \in Reading <=> from = "reading"
             /\ t \in Writing <=> from = "writing"
  BY <1>1, <1>3, Moved DEF Shifts
<1>4. ASSUME NEW t \in Thread, ReaderIn4(t) PROVE Table!ReaderEnters(t)
  <2>1. t \in ReadersIn
    BY <1>4 DEF ReaderIn4, Goto, ReadersIn, At
  <2>2. Writing = {}
    BY <2>1 DEF Inv
  <2> QED  BY <1>3, <1>4, <2>2 DEF ReaderIn4, Labels, Table!ReaderEnters
<1>5. ASSUME NEW t \in Thread, ReaderOut1(t) PROVE Table!ReaderLeaves(t)
  BY <1>3, <1>5 DEF ReaderOut1, Labels, Table!ReaderLeaves
<1>6. ASSUME NEW t \in Thread, WriterIn(t) PROVE Table!WriterEnters(t)
  <2>1. ReadersIn = {} /\ Writing = {}
    BY <1>1, <1>6 DEF WriterIn, Waits, Inv, TypeOK
  <2>2. Reading = {}
    BY <2>1 DEF ReadersIn, Reading, At
  <2> QED  BY <1>3, <1>6, <2>1, <2>2 DEF WriterIn, Labels, Table!WriterEnters
<1>7. ASSUME NEW t \in Thread, WriterOut(t) PROVE Table!WriterLeaves(t)
  BY <1>3, <1>7 DEF WriterOut, Labels, Table!WriterLeaves
<1>8. ASSUME NEW t \in Thread,
             \/ SetOut(t) \/ LockKernel(t) \/ UnlockKernel(t)
             \/ ReaderIn1(t) \/ ReaderIn2(t) \/ ReaderIn3(t)
             \/ ReaderOut2(t) \/ ReaderOut3(t) \/ ReaderOut4(t)
      PROVE  UNCHANGED <<Reading, Writing>>
  <2>1. PICK from, to : /\ Goto(t, from, to)
                        /\ from \notin {"reading", "writing"}
                        /\ to \in Labels \ {"reading", "writing"}
    BY <1>8 DEF SetOut, LockKernel, UnlockKernel, ReaderIn1, ReaderIn2, ReaderIn3,
                ReaderOut2, ReaderOut3, ReaderOut4, Labels
  <2> QED  BY <1>3, <2>1
<1> QED  BY <1>2, <1>4, <1>5, <1>6, <1>7, <1>8 DEF Next, Proceed, Read, Table!Next

(* The two semaphores and the count are a table lock: many readers or one   *)
(* writer, at every moment of every run, for any number of threads.         *)
THEOREM LockIsTableLock == Spec => IsTableLock
BY TableInit, TableStep, Invariant, PTL DEF Spec, IsTableLock, Table!Spec
=============================================================================
