----------------------------- MODULE TableLock ------------------------------
(* What mylock.h promises its callers: any number of threads read the       *)
(* routing table together, or one thread writes it alone.                   *)
EXTENDS FiniteSets

CONSTANT Thread

VARIABLES readers, writers

Init == readers = {} /\ writers = {}

ReaderEnters(t) == /\ t \notin readers \cup writers
                   /\ writers = {}
                   /\ readers' = readers \cup {t}
                   /\ writers' = writers

ReaderLeaves(t) == /\ t \in readers
                   /\ readers' = readers \ {t}
                   /\ writers' = writers

WriterEnters(t) == /\ readers = {} /\ writers = {}
                   /\ writers' = {t}
                   /\ readers' = readers

WriterLeaves(t) == /\ t \in writers
                   /\ writers' = writers \ {t}
                   /\ readers' = readers

Next == \E t \in Thread : \/ ReaderEnters(t) \/ ReaderLeaves(t)
                          \/ WriterEnters(t) \/ WriterLeaves(t)

Spec == Init /\ [][Next]_<<readers, writers>>
=============================================================================
