------------------------------- MODULE OnceSpec -------------------------------
(***************************************************************************)
(* What std::sync::Once promises: one closure runs at a time, none after   *)
(* one has completed, and after a panic only by a forced call.             *)
(***************************************************************************)
CONSTANTS Threads, None

VARIABLES phase,       \* "incomplete", "poisoned", "running" or "complete"
          runner,      \* the thread whose closure is running
          forced       \* the threads whose current call ignores poisoning

Init == phase = "incomplete" /\ runner = None /\ forced \in SUBSET Threads

Call == forced' \in SUBSET Threads /\ UNCHANGED <<phase, runner>>

Begin(t) == /\ phase = "incomplete" \/ (phase = "poisoned" /\ t \in forced)
            /\ phase' = "running" /\ runner' = t
            /\ UNCHANGED forced

End(t) == /\ phase = "running" /\ runner = t
          /\ phase' \in {"poisoned", "complete"} /\ runner' = None
          /\ UNCHANGED forced

Next == Call \/ \E t \in Threads : Begin(t) \/ End(t)

Spec == Init /\ [][Next]_<<phase, runner, forced>>
=============================================================================
