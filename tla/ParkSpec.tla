------------------------------- MODULE ParkSpec -------------------------------
(***************************************************************************)
(* What thread::park and Thread::unpark promise: a thread has one token.   *)
(* unpark makes it available, park waits for it and takes it.              *)
(***************************************************************************)
VARIABLES token,       \* the token is available
          parked       \* the thread is in a call of park or park_timeout

Init == token = FALSE /\ parked = FALSE

Park == ~parked /\ parked' = TRUE /\ UNCHANGED token

Take == parked /\ token /\ parked' = FALSE /\ token' = FALSE

\* park_timeout comes back without a token.
Expire == parked /\ ~token /\ parked' = FALSE /\ UNCHANGED token

Unpark == token' = TRUE /\ UNCHANGED parked

Next == Park \/ Take \/ Expire \/ Unpark

Spec == Init /\ [][Next]_<<token, parked>> /\ WF_<<token, parked>>(Take)
=============================================================================
