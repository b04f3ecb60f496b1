------------------------------ MODULE ZeroChannel ------------------------------
(***************************************************************************)
(* The channel without a buffer, library/std/src/sync/mpmc/zero.rs.  A     *)
(* sender and a receiver meet: whoever comes first blocks with a packet on *)
(* its own stack, the other one claims it, moves the message through the   *)
(* packet and sets ready, which lets the owner return.  What runs under    *)
(* the lock of the channel is one step.                                    *)
(***************************************************************************)
EXTENDS Waker, FiniteSets

CONSTANTS None, MaxSends, MaxRecvs

VARIABLES
  is_disconnected,
  packet,      \* the packet of each blocked thread
  peer,        \* whose packet a thread has claimed
  msg,         \* the message a thread has in hand
  calls,       \* calls made by each thread
  gone,        \* sides that were dropped
  received,    \* history: messages that receivers returned
  returned     \* history: messages that senders got back

vars == <<pc, selectors, select, token, is_disconnected, packet, peer, msg, calls, gone,
          received, returned>>
history == <<received, returned>>

Messages == Senders \X (1..MaxSends)
MaxCalls(t) == IF t \in Senders THEN MaxSends ELSE MaxRecvs
Empty == [msg |-> None, ready |-> FALSE]

Init == /\ WakerInit
        /\ is_disconnected = FALSE
        /\ packet = [t \in Threads |-> Empty]
        /\ peer = [t \in Threads |-> None]
        /\ msg = [t \in Threads |-> None]
        /\ calls = [t \in Threads |-> 0]
        /\ gone = {}
        /\ received = {} /\ returned = {}

-----------------------------------------------------------------------------
\* send, try_send, recv or try_recv is called.
Call(t) == /\ At(t, "idle", "call")
           /\ calls[t] < MaxCalls(t) /\ Side(t) \notin gone
           /\ calls' = [calls EXCEPT ![t] = @ + 1]
           /\ msg' = [msg EXCEPT ![t] = IF t \in Senders THEN <<t, calls[t] + 1>> ELSE None]
           /\ UNCHANGED <<waker, is_disconnected, packet, peer, gone, history>>

\* There is a waiting operation on the other side: pair up with it.
Pair(t) == LET i == Claimable(Other(t))
           IN  /\ i # 0 /\ At(t, "call", "transfer")
               /\ peer' = [peer EXCEPT ![t] = selectors[Other(t)][i]]
               /\ try_select(Other(t), i)
               /\ UNCHANGED <<is_disconnected, packet, msg, calls, gone, history>>

\* The call fails with the message in hand, if there is one.
Fail(t) == /\ Goto(t, "idle")
           /\ returned' = returned \cup ({msg[t]} \ {None})
           /\ msg' = [msg EXCEPT ![t] = None]

\* Disconnected, or (try_send and try_recv) Full and Empty
Refuse(t) == /\ pc[t] = "call" /\ Claimable(Other(t)) = 0
             /\ Fail(t)
             /\ UNCHANGED <<waker, is_disconnected, packet, peer, calls, gone, received>>

Block(t) == /\ Claimable(Other(t)) = 0 /\ ~is_disconnected /\ t \notin Trying
            /\ At(t, "call", "wait")
            /\ register(t)
            /\ packet' = [packet EXCEPT ![t] = [msg |-> msg[t], ready |-> FALSE]]
            /\ msg' = [msg EXCEPT ![t] = None]
            /\ UNCHANGED <<is_disconnected, peer, calls, gone, history>>

\* write: the message goes into the packet of a receiver; read: it comes out of
\* the packet of a sender
Transfer(t) ==
  /\ At(t, "transfer", "ready")
  /\ packet' = [packet EXCEPT ![peer[t]].msg = msg[t]]
  /\ msg' = [msg EXCEPT ![t] = packet[peer[t]].msg]
  /\ UNCHANGED <<waker, is_disconnected, peer, calls, gone, history>>

Ready(t) == /\ At(t, "ready", "return")
            /\ packet' = [packet EXCEPT ![peer[t]].ready = TRUE]
            /\ peer' = [peer EXCEPT ![t] = None]
            /\ UNCHANGED <<waker, is_disconnected, msg, calls, gone, history>>

Wait(t) == /\ \/ WaitCheck(t, "wait_ready", "unregister")
              \/ Park(t)
              \/ Expire(t, "wait_ready", "unregister")
           /\ UNCHANGED <<is_disconnected, packet, peer, msg, calls, gone, history>>

\* Faulty: the owner of the packet does not wait for its peer.
MayReturn_Early(t) == packet[t].ready \/ t \in Senders

MayReturn(t) == packet[t].ready

\* The packet leaves the stack of its owner.
Reclaim(t) == /\ msg' = [msg EXCEPT ![t] = packet[t].msg]
              /\ packet' = [packet EXCEPT ![t] = Empty]
              /\ UNCHANGED <<is_disconnected, peer, calls, gone, history>>

WaitReady(t) == /\ MayReturn(t) /\ At(t, "wait_ready", "return")
                /\ Reclaim(t)
                /\ UNCHANGED waker

\* Aborted or disconnected: the message is taken back.
Unregister(t) == /\ At(t, "unregister", "fail")
                 /\ unregister(t)
                 /\ Reclaim(t)

Failed(t) == /\ pc[t] = "fail" /\ Fail(t)
             /\ UNCHANGED <<waker, is_disconnected, packet, peer, calls, gone, received>>

Return(t) == /\ At(t, "return", "idle")
             /\ received' = received \cup ({msg[t]} \ {None})
             /\ msg' = [msg EXCEPT ![t] = None]
             /\ UNCHANGED <<waker, is_disconnected, packet, peer, calls, gone, returned>>

\* The last handle of a side is dropped: disconnect.
HangUp(side) ==
  /\ side \notin gone /\ gone' = gone \cup {side}
  /\ \A t \in Threads : Side(t) = side => pc[t] = "idle"
  /\ is_disconnected' = TRUE
  /\ IF is_disconnected THEN UNCHANGED waker ELSE disconnect({"senders", "receivers"})
  /\ UNCHANGED <<pc, packet, peer, msg, calls, history>>

Step(t) == /\ pc[t] # "idle"
           /\ \/ Pair(t) \/ Refuse(t) \/ Block(t) \/ Transfer(t) \/ Ready(t) \/ Wait(t)
              \/ WaitReady(t) \/ Unregister(t) \/ Failed(t) \/ Return(t)

\* Nobody moves any more: the liveness property says that nobody
\* is left asleep then.
Over == /\ gone # {}
        /\ \A t \in Threads : pc[t] = "idle" \/ (pc[t] = "park" /\ ~token[t])
        /\ UNCHANGED vars

Next == \/ \E t \in Threads : Call(t) \/ Step(t)
        \/ \E side \in {"senders", "receivers"} : HangUp(side)
        \/ Over

\* Threads run on, and both ends are dropped at last.
Spec == /\ Init /\ [][Next]_vars
        /\ \A t \in Threads : WF_vars(Step(t))
        /\ \A side \in {"senders", "receivers"} : WF_vars(HangUp(side))

-----------------------------------------------------------------------------
Blocked(t) == pc[t] \in {"wait", "park", "unregister"} /\ select[t] # "operation"

\* The variables have their types, and a thread is in the queue exactly as long as
\* its operation is blocked, so that `unregister(oper).unwrap()` finds it.
TypeOK ==
  /\ WakerTyped
  /\ pc \in [Threads -> {"idle", "call", "transfer", "ready", "return", "wait", "park",
                         "wait_ready", "unregister", "fail"}]
  /\ is_disconnected \in BOOLEAN
  /\ packet \in [Threads -> [msg : Messages \cup {None}, ready : BOOLEAN]]
  /\ peer \in [Threads -> Threads \cup {None}]
  /\ msg \in [Threads -> Messages \cup {None}]
  /\ calls \in [Threads -> Nat]
  /\ gone \subseteq {"senders", "receivers"}
  /\ received \subseteq Messages /\ returned \subseteq Messages
  /\ \A t \in Threads : Registered(t) <=> Blocked(t)

\* A thread that reads or writes a packet finds its owner in the call whose stack
\* holds it: the owner does not return between the claim and `ready`.
PacketAlive ==
  \A t \in Threads : pc[t] \in {"transfer", "ready"} =>
    pc[peer[t]] \in {"wait", "park", "wait_ready"} /\ select[peer[t]] = "operation"

\* A sender and a receiver never sleep side by side: the one that came later would
\* have claimed the other, whatever expired operations stood before it in the queue.
NoMissedMeeting ==
  ~ \E s \in Senders, r \in Receivers :
      /\ Registered(s) /\ select[s] = "waiting"
      /\ Registered(r) /\ select[r] = "waiting"

\* A message sent is in exactly one place: a hand, a packet, with the caller of
\* recv or back with the caller of send.  No deadline, disconnect or pairing, in
\* any order, loses or doubles it.
MessageInOnePlace ==
  \A m \in Messages : m[2] <= calls[m[1]] =>
    Cardinality({t \in Threads : msg[t] = m}) + Cardinality({t \in Threads : packet[t].msg = m})
      + Cardinality({h \in {1} : m \in received}) + Cardinality({h \in {2} : m \in returned}) = 1

\* Every call has returned.
Settled == \A t \in Threads : pc[t] = "idle"
=============================================================================
