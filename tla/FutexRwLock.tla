------------------------------ MODULE FutexRwLock ------------------------------
(***************************************************************************)
(* The reader-writer lock of library/std/src/sys/sync/rwlock/futex.rs.     *)
(* One word holds a counter of readers (all ones: write-locked) and two    *)
(* flags for waiting readers and waiting writers; readers sleep on that    *)
(* word and writers on a second one that counts notifications.             *)
(***************************************************************************)
EXTENDS Naturals, FiniteSets

CONSTANTS Threads,
          None,
          Bits,        \* width of the counter: 30 in the code
          Width,       \* width of writer_notify: 32 in the code
          Answers,     \* what futex_wake may say after waking a thread: on some targets
                       \* FALSE always
          Calls,       \* which of the four lock calls the threads make
          MaxCalls     \* bound: lock calls of each thread

READ_LOCKED     == 1
MASK            == 2^Bits - 1
WRITE_LOCKED    == MASK
MAX_READERS     == MASK - 1
READERS_WAITING == 2^Bits
WRITERS_WAITING == 2^(Bits + 1)

Count(s) == s % (MASK + 1)
is_unlocked(s) == Count(s) = 0
has_readers_waiting(s) == (s \div READERS_WAITING) % 2 = 1
has_writers_waiting(s) == (s \div WRITERS_WAITING) % 2 = 1
has_reached_max_readers(s) == Count(s) = MAX_READERS

\* Faulty: the counter is not looked at.
is_read_lockable_Overflows(s) == ~has_readers_waiting(s) /\ ~has_writers_waiting(s)

is_read_lockable(s) ==
  Count(s) < MAX_READERS /\ ~has_readers_waiting(s) /\ ~has_writers_waiting(s)

VARIABLES
  state,           \* the lock word
  writer_notify,   \* counts the notifications of writers
  pc,              \* where each thread is
  mine,            \* each thread's local "state"
  other,           \* its other_writers_waiting
  seq,             \* its seq
  calls

vars == <<state, writer_notify, pc, mine, other, seq, calls>>

PC == {"idle", "read", "read_spin", "read_contended", "reader_asleep", "reading",
       "write_spin", "write_contended", "write_seq", "write_check", "write_wait",
       "writer_asleep", "writing", "wake", "notify", "notify_or_readers",
       "wake_one", "wake_one_or_readers", "wake_readers", "panicked"}

TypeOK ==
  /\ state \in 0..(2 * WRITERS_WAITING - 1)
  /\ writer_notify \in 0..(2^Width - 1)
  /\ pc \in [Threads -> PC]
  /\ mine \in [Threads -> 0..(2 * WRITERS_WAITING - 1)]
  /\ other \in [Threads -> BOOLEAN]
  /\ seq \in [Threads -> 0..(2^Width - 1)]
  /\ calls \in [Threads -> 0..MaxCalls]

Init ==
  /\ state = 0 /\ writer_notify = 0
  /\ pc = [t \in Threads |-> "idle"]
  /\ mine = [t \in Threads |-> 0]
  /\ other = [t \in Threads |-> FALSE]
  /\ seq = [t \in Threads |-> 0]
  /\ calls = [t \in Threads |-> 0]

-----------------------------------------------------------------------------
Goto(t, place) == pc' = [pc EXCEPT ![t] = place]
Local(t, s) == mine' = [mine EXCEPT ![t] = s]

\* A call is over; its locals are gone.
Return(t, place) == /\ Goto(t, place)
                    /\ Local(t, 0)
                    /\ other' = [other EXCEPT ![t] = FALSE]
                    /\ seq' = [seq EXCEPT ![t] = 0]
                    /\ UNCHANGED <<writer_notify, calls>>

Call(t, kind) == /\ kind \in Calls
                 /\ pc[t] = "idle"
                 /\ calls[t] < MaxCalls
                 /\ calls' = [calls EXCEPT ![t] = @ + 1]
                 /\ UNCHANGED <<writer_notify, other, seq>>

Go(t, place) == Goto(t, place) /\ UNCHANGED <<writer_notify, other, seq, calls>>

\* A compare_exchange that replaces mine[t] by new, or fails and reloads; the
\* weak kind may fail without a reason.
Exchange(t, new) == state = mine[t] /\ state' = new
Reload(t, weak, place) == /\ state # mine[t] \/ weak
                          /\ Local(t, state)
                          /\ Go(t, place)
                          /\ UNCHANGED state

-----------------------------------------------------------------------------
(***************************************************************************)
(* Readers                                                                 *)
(***************************************************************************)
\* try_read: fetch_update repeats until it succeeds or the lock cannot be read
try_read(t) ==
  /\ Call(t, "try_read")
  /\ \/ is_read_lockable(state) /\ state' = state + READ_LOCKED /\ Goto(t, "reading")
     \/ ~is_read_lockable(state) /\ UNCHANGED <<state, pc>>
  /\ UNCHANGED mine

read(t) ==
  /\ Call(t, "read")
  /\ Local(t, state)
  /\ Goto(t, IF is_read_lockable(state) THEN "read" ELSE "read_spin")
  /\ UNCHANGED state

ReadFast(t) ==
  /\ pc[t] = "read"
  /\ \/ Exchange(t, mine[t] + READ_LOCKED) /\ Return(t, "reading")
     \/ Go(t, "read_spin") /\ UNCHANGED <<state, mine>>

\* spin_read returns some value that it loaded.
SpinRead(t) ==
  /\ pc[t] = "read_spin"
  /\ Local(t, state)
  /\ Go(t, "read_contended")
  /\ UNCHANGED state

ReadLock(t) ==
  /\ pc[t] = "read_contended"
  /\ is_read_lockable(mine[t])
  /\ \/ Exchange(t, mine[t] + READ_LOCKED) /\ Return(t, "reading")
     \/ Reload(t, TRUE, "read_contended")

\* panic!("too many active read locks on RwLock")
ReadPanics(t) ==
  /\ pc[t] = "read_contended"
  /\ has_reached_max_readers(mine[t])
  /\ Return(t, "panicked")
  /\ UNCHANGED state

Blocked(t) == /\ pc[t] = "read_contended"
              /\ ~is_read_lockable(mine[t])
              /\ ~has_reached_max_readers(mine[t])

\* Make sure the readers waiting bit is set before going to sleep.
ReadMark(t) ==
  /\ Blocked(t) /\ ~has_readers_waiting(mine[t])
  /\ \/ /\ Exchange(t, mine[t] + READERS_WAITING)
        /\ Local(t, mine[t] + READERS_WAITING)
        /\ Go(t, "read_contended")
     \/ Reload(t, FALSE, "read_contended")

\* futex_wait(&self.state, state | READERS_WAITING, None)
ReadWait(t) ==
  /\ Blocked(t) /\ has_readers_waiting(mine[t])
  /\ Go(t, IF state = mine[t] THEN "reader_asleep" ELSE "read_spin")
  /\ UNCHANGED <<state, mine>>

\* Faulty: only the last of several readers looks for waiting threads, but it
\* forgets the writers.
ReadUnlocked_Forgets(s) == FALSE

ReadUnlocked(s) == is_unlocked(s) /\ has_writers_waiting(s)

read_unlock(t) ==
  /\ pc[t] = "reading"
  /\ state' = state - READ_LOCKED
  /\ Local(t, IF ReadUnlocked(state') THEN state' ELSE 0)
  /\ Go(t, IF ReadUnlocked(state') THEN "wake" ELSE "idle")

-----------------------------------------------------------------------------
(***************************************************************************)
(* Writers                                                                 *)
(***************************************************************************)
try_write(t) ==
  /\ Call(t, "try_write")
  /\ \/ is_unlocked(state) /\ state' = state + WRITE_LOCKED /\ Goto(t, "writing")
     \/ ~is_unlocked(state) /\ UNCHANGED <<state, pc>>
  /\ UNCHANGED mine

write(t) ==
  /\ Call(t, "write")
  /\ \/ state = 0 /\ state' = WRITE_LOCKED /\ Goto(t, "writing")
     \/ Goto(t, "write_spin") /\ UNCHANGED state
  /\ UNCHANGED mine

SpinWrite(t) ==
  /\ pc[t] = "write_spin"
  /\ Local(t, state)
  /\ Go(t, "write_contended")
  /\ UNCHANGED state

Or(s, flag, set) == IF set THEN s ELSE s + flag

\* state | WRITE_LOCKED | other_writers_waiting
WriteLock(t) ==
  /\ pc[t] = "write_contended"
  /\ is_unlocked(mine[t])
  /\ \/ /\ Exchange(t, Or(mine[t] + WRITE_LOCKED, WRITERS_WAITING,
                          ~other[t] \/ has_writers_waiting(mine[t])))
        /\ Return(t, "writing")
     \/ Reload(t, TRUE, "write_contended")

\* Set the waiting bit.
WriteMark(t) ==
  /\ pc[t] = "write_contended"
  /\ ~is_unlocked(mine[t])
  /\ \/ has_writers_waiting(mine[t]) /\ Go(t, "write_seq") /\ UNCHANGED <<state, mine>>
     \/ /\ ~has_writers_waiting(mine[t])
        /\ \/ /\ Exchange(t, mine[t] + WRITERS_WAITING)
              /\ Go(t, "write_seq")
              /\ UNCHANGED mine
           \/ Reload(t, FALSE, "write_contended")

\* Examine the notification counter before checking whether state has changed.
WriteSeq(t) ==
  /\ pc[t] = "write_seq"
  /\ other' = [other EXCEPT ![t] = TRUE]
  /\ seq' = [seq EXCEPT ![t] = writer_notify]
  /\ Goto(t, "write_check")
  /\ UNCHANGED <<state, writer_notify, mine, calls>>

WriteCheck(t) ==
  /\ pc[t] = "write_check"
  /\ Local(t, state)
  /\ Go(t, IF is_unlocked(state) \/ ~has_writers_waiting(state)
           THEN "write_contended" ELSE "write_wait")
  /\ UNCHANGED state

\* futex_wait(&self.writer_notify, seq, None)
WriteWait(t) ==
  /\ pc[t] = "write_wait"
  /\ Go(t, IF writer_notify = seq[t] THEN "writer_asleep" ELSE "write_spin")
  /\ UNCHANGED <<state, mine>>

write_unlock(t) ==
  /\ pc[t] = "writing"
  /\ state' = state - WRITE_LOCKED
  /\ Local(t, state')
  /\ Go(t, IF has_writers_waiting(state') \/ has_readers_waiting(state')
           THEN "wake" ELSE "idle")

-----------------------------------------------------------------------------
(***************************************************************************)
(* wake_writer_or_readers, with mine[t] its "state"                        *)
(***************************************************************************)
\* Only writers are waiting.
WakeWriter(t) ==
  /\ pc[t] = "wake" /\ mine[t] = WRITERS_WAITING
  /\ \/ Exchange(t, 0) /\ Return(t, "notify")
     \/ Reload(t, FALSE, "wake")

\* Both are waiting: leave the readers waiting.
WakeBoth(t) ==
  /\ pc[t] = "wake" /\ mine[t] = READERS_WAITING + WRITERS_WAITING
  /\ \/ Exchange(t, READERS_WAITING) /\ Return(t, "notify_or_readers")
     \/ state # mine[t] /\ Return(t, "idle") /\ UNCHANGED state

WakeReaders(t) ==
  /\ pc[t] = "wake" /\ mine[t] = READERS_WAITING
  /\ \/ Exchange(t, 0) /\ Return(t, "wake_readers")
     \/ state # mine[t] /\ Return(t, "idle") /\ UNCHANGED state

WakeNobody(t) ==
  /\ pc[t] = "wake"
  /\ mine[t] \notin {WRITERS_WAITING, READERS_WAITING,
                     READERS_WAITING + WRITERS_WAITING}
  /\ Return(t, "idle")
  /\ UNCHANGED state

\* wake_writer: writer_notify.fetch_add(1), then futex_wake
Notify(t) ==
  /\ pc[t] \in {"notify", "notify_or_readers"}
  /\ writer_notify' = (writer_notify + 1) % 2^Width
  /\ Goto(t, IF pc[t] = "notify" THEN "wake_one" ELSE "wake_one_or_readers")
  /\ UNCHANGED <<state, mine, other, seq, calls>>

Writers_asleep == {t \in Threads : pc[t] = "writer_asleep"}
Readers_asleep == {t \in Threads : pc[t] = "reader_asleep"}

\* Readers are woken instead when no writer was.
GoOn(t, woke) == IF pc[t] = "wake_one" \/ woke THEN "idle" ELSE "wake"

WakeOne(t) ==
  /\ pc[t] \in {"wake_one", "wake_one_or_readers"}
  /\ \/ Writers_asleep = {} /\ Goto(t, GoOn(t, FALSE))
     \/ \E w \in Writers_asleep, woke \in Answers :
          pc' = [pc EXCEPT ![t] = GoOn(t, woke), ![w] = "write_spin"]
  /\ Local(t, IF pc'[t] = "wake" THEN READERS_WAITING ELSE 0)
  /\ UNCHANGED <<state, writer_notify, other, seq, calls>>

\* futex_wake_all(&self.state)
WakeAll(t) ==
  /\ pc[t] = "wake_readers"
  /\ pc' = [s \in Threads |-> IF s = t THEN "idle"
                              ELSE IF s \in Readers_asleep THEN "read_spin" ELSE pc[s]]
  /\ UNCHANGED <<state, writer_notify, mine, other, seq, calls>>

\* A signal ends a sleep; futex_wait compares again.
Interrupt(t) ==
  /\ \/ pc[t] = "reader_asleep" /\ Go(t, "read_contended")
     \/ pc[t] = "writer_asleep" /\ Go(t, "write_wait")
  /\ UNCHANGED <<state, mine>>

-----------------------------------------------------------------------------
Step(t) ==
  \/ ReadFast(t) \/ SpinRead(t) \/ ReadLock(t) \/ ReadPanics(t) \/ ReadMark(t)
  \/ ReadWait(t) \/ read_unlock(t)
  \/ SpinWrite(t) \/ WriteLock(t) \/ WriteMark(t) \/ WriteSeq(t) \/ WriteCheck(t)
  \/ WriteWait(t) \/ write_unlock(t)
  \/ WakeWriter(t) \/ WakeBoth(t) \/ WakeReaders(t) \/ WakeNobody(t)
  \/ Notify(t) \/ WakeOne(t) \/ WakeAll(t)

Over == /\ \A t \in Threads : \/ pc[t] = "panicked"
                              \/ pc[t] = "idle" /\ calls[t] = MaxCalls
        /\ UNCHANGED vars

Next == \/ \E t \in Threads : \/ Step(t) \/ Interrupt(t)
                              \/ read(t) \/ try_read(t) \/ write(t) \/ try_write(t)
        \/ Over

\* A runnable thread is scheduled, and critical sections end.
Spec == Init /\ [][Next]_vars /\ \A t \in Threads : WF_vars(Step(t))

-----------------------------------------------------------------------------
(***************************************************************************)
(* Properties                                                              *)
(***************************************************************************)
Readers == {t \in Threads : pc[t] = "reading"}
Writers == {t \in Threads : pc[t] = "writing"}

Writer == IF Writers = {} THEN None ELSE CHOOSE t \in Writers : TRUE

\* The counter says who is in; it never runs over into the flags, also when the
\* maximum of readers is reached.
CounterExact ==
  Count(state) = IF Writers # {} THEN WRITE_LOCKED ELSE Cardinality(Readers)

\* "It's impossible for a reader to be waiting on a read-locked RwLock, except if
\* there is also a writer waiting": read_unlock may leave the readers asleep.
ReadersWaitForWriters ==
  Readers # {} /\ has_readers_waiting(state) => has_writers_waiting(state)

\* Every call has got the lock and released it, or panicked on too many readers.
Settled == \A t \in Threads : pc[t] \in {"idle", "panicked"}
=============================================================================
