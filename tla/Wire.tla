-------------------------------- MODULE Wire --------------------------------
(***************************************************************************)
(* The UDP path between the clients and the server, and the messages on    *)
(* it (src/pkg/transport).  A datagram may be delayed and reordered; the   *)
(* faults allowed in a run say whether it may also be lost or duplicated.  *)
(*                                                                         *)
(* Cryptographic contents are modelled by identities: a first handshake    *)
(* message carries the initiator state that made it and the static key of  *)
(* its client, a response names the initiator state it answers and the     *)
(* session it completes, and a data frame names the session and the nonce  *)
(* it was sealed with.                                                     *)
(***************************************************************************)
EXTENDS ChannelOps, FiniteSets

CONSTANTS
    Client,      \* client processes; each stands for its static key as well
    Addr,        \* client UDP addresses
    Ini,         \* identities of initiator states (a bound on those in use)
    Sess,        \* identities of sessions (a bound on those in use)
    UpPacket,    \* IP packets the TUN devices of the clients yield, each once
    DownPacket,  \* IP packets the TUN device of the server yields, each once
    None,        \* the nil of pointers and the zero of other optional values
    Faults       \* what the run lets go wrong

ASSUME FaultsAssumption ==
    Faults \subseteq {"lose", "duplicate", "limit", "stray"}

ASSUME IdentitiesAssumption == 
    /\ Ini \subseteq Nat /\ Sess \subseteq Nat
    /\ None \notin Nat \cup Addr \cup Client \cup UpPacket \cup DownPacket
    /\ NoSession \notin Sess

Packet == UpPacket \cup DownPacket

VARIABLES
    net,         \* the datagrams under way
    sent,        \* history: the packets sealed for an address or from one
    writes,      \* history: how often each was written to the TUN device
    disturbed    \* history: the two ends of some tunnel were set apart (see Tunnel)

\* One packet between one client address and the server.
Datagram == [dir : {"up", "down"}, addr : Addr, pkt : Packet]
DatagramOf(m) == [dir |-> m.dir, addr |-> m.addr, pkt |-> m.pkt]

Unread(p) == \A d \in sent : d.pkt # p

\* WritePacket on the receiving TUN device.
TunWrite(d) == writes' = [writes EXCEPT ![d] = @ + 1]

Msg1(a, i, c) == [type |-> "msg1", addr |-> a, ini |-> i, key |-> c]
Msg2(a, i, s) == [type |-> "msg2", addr |-> a, ini |-> i, sess |-> s]
Data(d, a, s, n, p) ==
    [type |-> "data", dir |-> d, addr |-> a, sess |-> s, seq |-> n, pkt |-> p]
Ping(a) == [type |-> "ping", addr |-> a]

Message ==
    [type : {"msg1"}, addr : Addr, ini : Ini, key : Client]
    \cup [type : {"msg2"}, addr : Addr, ini : Ini, sess : Sess]
    \cup [type : {"data"}, dir : {"up", "down"}, addr : Addr, sess : Sess,
          seq : Counter, pkt : Packet]
    \cup [type : {"ping"}, addr : Addr]

\* The nil pointer is no message.
ASSUME NoMessageAssumption == None \notin Message

Handshakes == {m \in net : m.type \in {"msg1", "msg2"}}
ToServer == {m \in net : m.type \in {"msg1", "ping"} \/ (m.type = "data" /\ m.dir = "up")}
ToClient(a) == {m \in net \ ToServer : m.addr = a}

Send(m) == net' = net \cup {m}

\* A received datagram leaves the network, unless it may arrive again.
Receive(m) == net' = IF "duplicate" \in Faults THEN net ELSE net \ {m}

\* The least identity of S that is not in use.
Free(S, used) == {i \in S \ used : \A j \in S \ used : i <= j}

=============================================================================
