------------------------------- MODULE SyncWaker -------------------------------
(***************************************************************************)
(* The waker that the buffered channels share without a lock of their own, *)
(* SyncWaker of library/std/src/sync/mpmc/waker.rs: the queue under a      *)
(* mutex and a flag beside it that lets notify skip the mutex.  What runs  *)
(* under the mutex is one step.                                            *)
(***************************************************************************)
EXTENDS Waker

VARIABLE is_empty      \* the flag of either side

syncWaker == <<waker, is_empty>>

SyncWakerInit == WakerInit /\ is_empty = [side \in {"senders", "receivers"} |-> TRUE]

\* The flag is stored before the mutex is released.
StoreFlag(side) == is_empty' = [is_empty EXCEPT ![side] = selectors'[side] = <<>>]

Register(t) == register(t) /\ StoreFlag(Side(t))

Unregister(t) == unregister(t) /\ StoreFlag(Side(t))

\* notify of the other side: look at the flag, then lock and select.
Notify(t, next) == /\ At(t, "notify", IF is_empty[Other(t)] THEN next ELSE "notify_locked")
                   /\ UNCHANGED syncWaker

NotifyLocked(t, next) ==
  LET i == Claimable(Other(t))
  IN  /\ At(t, "notify_locked", next)
      /\ IF is_empty[Other(t)] \/ i = 0 THEN UNCHANGED waker ELSE try_select(Other(t), i)
      /\ StoreFlag(Other(t))

\* Disconnects one side.
Disconnect(side) == disconnect({side}) /\ StoreFlag(side)
=============================================================================
