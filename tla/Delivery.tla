------------------------------ MODULE Delivery ------------------------------
(***************************************************************************)
(* What the tunnel promises to the two TUN devices: a datagram service     *)
(* that may lose, delay and reorder, but hands up only what was sent and   *)
(* each datagram at most once.                                             *)
(***************************************************************************)
EXTENDS Integers

CONSTANT Datagram

VARIABLES
    sent,      \* the datagrams accepted for sending
    writes     \* how often each was handed up at the far end

Init ==
    /\ sent = {}
    /\ writes = [d \in Datagram |-> 0]

Send(d) ==
    /\ d \notin sent
    /\ sent' = sent \cup {d}
    /\ UNCHANGED writes

Deliver(d) ==
    /\ d \in sent
    /\ writes[d] = 0
    /\ writes' = [writes EXCEPT ![d] = 1]
    /\ UNCHANGED sent

Next == \E d \in Datagram : Send(d) \/ Deliver(d)

Spec == Init /\ [][Next]_<<sent, writes>>

=============================================================================
