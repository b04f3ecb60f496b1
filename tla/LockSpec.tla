------------------------------- MODULE LockSpec -------------------------------
(***************************************************************************)
(* What a lock promises: one writer, or any number of readers.  The locks  *)
(* of library/std/src/sys/sync implement it (FutexMutex, FutexRwLock), and *)
(* the components that are built on a mutex use it in their place.         *)
(***************************************************************************)
CONSTANTS Threads, None

VARIABLES writer, readers

Init == writer = None /\ readers = {}

Write(t) == /\ writer = None /\ readers = {}
            /\ writer' = t
            /\ UNCHANGED readers

WriteUnlock(t) == /\ writer = t
                  /\ writer' = None
                  /\ UNCHANGED readers

Read(t) == /\ writer = None /\ t \notin readers
           /\ readers' = readers \cup {t}
           /\ UNCHANGED writer

ReadUnlock(t) == /\ t \in readers
                 /\ readers' = readers \ {t}
                 /\ UNCHANGED writer

Next == \E t \in Threads : Write(t) \/ WriteUnlock(t) \/ Read(t) \/ ReadUnlock(t)

Spec == Init /\ [][Next]_<<writer, readers>>
=============================================================================
