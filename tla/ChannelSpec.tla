------------------------------ MODULE ChannelSpec ------------------------------
(***************************************************************************)
(* What a buffered channel promises: messages stand in one queue, in the   *)
(* order in which their sends took effect, each is handed to one receiver, *)
(* and nothing is sent once an end is gone.                                *)
(***************************************************************************)
EXTENDS Naturals, Sequences

CONSTANTS Messages, Receivers, None

VARIABLES queue,     \* messages sent and not yet received
          hand,      \* the message each receiver is about to return
          gone,      \* which ends are gone
          capacity   \* how many messages the queue holds, the same at all times

Sides == {"senders", "receivers"}

Init == /\ queue = <<>> /\ hand = [r \in Receivers |-> None] /\ gone = {}
        /\ capacity \in Nat

Send == /\ gone = {} /\ Len(queue) < capacity
        /\ Len(queue') = Len(queue) + 1
        /\ \E m \in Messages : queue' = Append(queue, m)
        /\ UNCHANGED <<hand, gone, capacity>>

Recv(r) == /\ "receivers" \notin gone
           /\ hand[r] = None /\ queue # <<>>
           /\ hand' = [hand EXCEPT ![r] = Head(queue)]
           /\ queue' = Tail(queue)
           /\ UNCHANGED <<gone, capacity>>

Return(r) == /\ hand[r] # None
             /\ hand' = [hand EXCEPT ![r] = None]
             /\ UNCHANGED <<queue, gone, capacity>>

Close(side) == /\ side \notin gone
               /\ gone' = gone \cup {side}
               /\ UNCHANGED <<queue, hand, capacity>>

\* The receivers are gone: messages are dropped.
Discard == /\ "receivers" \in gone /\ queue # <<>>
           /\ queue' = Tail(queue)
           /\ UNCHANGED <<hand, gone, capacity>>

Next == (\E side \in Sides : Close(side)) \/ Send \/ Discard \/ \E r \in Receivers : Recv(r) \/ Return(r)

Spec == Init /\ [][Next]_<<queue, hand, gone, capacity>>
=============================================================================
